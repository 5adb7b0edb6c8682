-------------------------- MODULE AtomicSwapProofs --------------------------
(***************************************************************************)
(* Proofs about AtomicSwap, for every set of users, tokens and secrets and *)
(* for every amount, timeout, minimum timeout and ledger bound.            *)
(***************************************************************************)
EXTENDS AtomicSwap, TLAPS

USE DEF Assumptions

-----------------------------------------------------------------------------
(* What a transfer does.                                                   *)

\* The id of a secret's hash is one of SwapIds.
LEMMA IdType == \A h \in Hashes : ComputeSwapId(h) \in SwapIds
BY DEF Hashes, SwapIds

\* A transfer of one token leaves the others alone and moves the amount.
LEMMA TransferEffect ==
    ASSUME Assumptions, balance \in [Tokens -> [Addresses -> Nat]], NEW token \in Tokens,
           NEW from \in Addresses, NEW to \in Addresses, NEW amount \in Nat,
           balance[token][from] >= amount, from # to
    PROVE  LET b == Transfer(token, from, to, amount) IN
           /\ b \in [Tokens -> [Addresses -> Nat]]
           /\ b[token][from] = balance[token][from] - amount
           /\ b[token][to] = balance[token][to] + amount
           /\ \A other \in Tokens \ {token} : b[other] = balance[other]
<1> DEFINE purse == [a \in Addresses |->
                       balance[token][a] + (IF a = to THEN amount ELSE 0)
                                         - (IF a = from THEN amount ELSE 0)]
<1>1. \A a \in Addresses : balance[token][a] \in Nat
  OBVIOUS
<1>2. purse \in [Addresses -> Nat]
  BY <1>1
<1>3. purse[from] = balance[token][from] - amount /\ purse[to] = balance[token][to] + amount
  BY <1>1
<1> HIDE DEF purse
<1>4. Transfer(token, from, to, amount) = [balance EXCEPT ![token] = purse]
  BY DEF Transfer, purse
<1> QED
  BY <1>2, <1>3, <1>4

-----------------------------------------------------------------------------
(* What each function does to the store.                                   *)

\* A swap is stored under the id of its own hash.
Inv ==
    /\ TypeOK
    /\ OutcomeJustified
    /\ \A id \in SwapIds : swaps[id] # NoSwap => id = ComputeSwapId(swaps[id].secret_hash)

\* Releasing or refunding a locked swap changes its status and nothing else.
LEMMA SettledSwap ==
    ASSUME Assumptions, TypeOK, NEW id \in SwapIds, IsLocked(id),
           NEW outcome \in {"Released", "Refunded"},
           swaps' = [swaps EXCEPT ![id].status = outcome]
    PROVE  /\ swaps' \in [SwapIds -> Swap \cup {NoSwap}]
           /\ \A other \in SwapIds \ {id} : swaps'[other] = swaps[other]
           /\ swaps[id] \in Swap
           /\ swaps'[id] = [swaps[id] EXCEPT !.status = outcome]
           /\ swaps'[id] \in Swap
<1>1. swaps[id] \in Swap
  BY DEF TypeOK, IsLocked, NoSwap
<1>2. [swaps[id] EXCEPT !.status = outcome] \in Swap
  BY <1>1 DEF Swap, SwapStatus
<1>3. swaps \in [SwapIds -> Swap \cup {NoSwap}]
  BY DEF TypeOK
<1> QED
  BY <1>1, <1>2, <1>3

\* What lock stores and moves.
LEMMA LockEffect ==
    ASSUME Assumptions, TypeOK, NEW initiator \in Users, NEW counterparty \in Users,
           NEW token \in Tokens, NEW amount \in Amounts, NEW h \in Hashes,
           NEW timeout \in Timeouts,
           Lock(initiator, counterparty, token, amount, h, timeout)
    PROVE  LET id == ComputeSwapId(h) IN
           /\ id \in SwapIds
           /\ swaps[id] = NoSwap
           /\ swaps' \in [SwapIds -> Swap \cup {NoSwap}]
           /\ \A other \in SwapIds \ {id} : swaps'[other] = swaps[other]
           /\ swaps'[id] \in Swap
           /\ swaps'[id].status = "Locked"
           /\ swaps'[id].secret_hash = h
           /\ swaps'[id].token = token
           /\ swaps'[id].amount = amount
           /\ swaps'[id].timeout_ledger >= ledger
           /\ amount \in Nat \ {0}
           /\ balance' \in [Tokens -> [Addresses -> Nat]]
           /\ balance'[token][Contract] = balance[token][Contract] + amount
           /\ \A other \in Tokens \ {token} : balance'[other] = balance[other]
<1> DEFINE id == ComputeSwapId(h)
           new == [initiator |-> initiator, counterparty |-> counterparty,
                   token |-> token, amount |-> amount, secret_hash |-> h,
                   timeout_ledger |-> ledger + timeout, status |-> "Locked"]
<1>1. id \in SwapIds
  BY IdType
<1>2. /\ amount \in Nat \ {0}
      /\ swaps[id] = NoSwap
      /\ balance[token][initiator] >= amount
      /\ ledger + timeout <= MaxLedger
  BY DEF Lock, CanLock
<1>3. timeout \in Nat /\ ledger \in Nat
  BY DEF TypeOK
<1>4. ledger + timeout \in 0 .. MaxLedger /\ ledger + timeout >= ledger
  BY <1>2, <1>3
<1>5. new \in Swap
  BY <1>2, <1>4 DEF Swap, SwapStatus
<1>6. swaps' = [swaps EXCEPT ![id] = new]
  BY DEF Lock
<1>7. /\ new.status = "Locked" /\ new.secret_hash = h /\ new.token = token
      /\ new.amount = amount /\ new.timeout_ledger >= ledger
  BY <1>4
<1>8. swaps \in [SwapIds -> Swap \cup {NoSwap}]
  BY DEF TypeOK
<1>9. /\ balance \in [Tokens -> [Addresses -> Nat]]
      /\ initiator \in Addresses /\ Contract \in Addresses /\ initiator # Contract
  BY DEF TypeOK, Addresses
<1>10. /\ balance' \in [Tokens -> [Addresses -> Nat]]
       /\ balance'[token][Contract] = balance[token][Contract] + amount
       /\ \A other \in Tokens \ {token} : balance'[other] = balance[other]
  <2>1. balance' = Transfer(token, initiator, Contract, amount)
    BY DEF Lock
  <2> QED
    BY <1>2, <1>9, <2>1, TransferEffect
<1> HIDE DEF new, id
<1> QED
  BY <1>1, <1>2, <1>5, <1>6, <1>7, <1>8, <1>10 DEF id

\* What release and refund pay out: the swap's amount of its own token.
LEMMA PayoutEffect ==
    ASSUME Assumptions, TypeOK, NEW id \in SwapIds, IsLocked(id), NEW payee \in Users,
           balance[swaps[id].token][Contract] >= swaps[id].amount,
           balance' = Transfer(swaps[id].token, Contract, payee, swaps[id].amount)
    PROVE  /\ swaps[id].token \in Tokens
           /\ balance' \in [Tokens -> [Addresses -> Nat]]
           /\ balance'[swaps[id].token][Contract] =
                  balance[swaps[id].token][Contract] - swaps[id].amount
           /\ \A other \in Tokens \ {swaps[id].token} : balance'[other] = balance[other]
<1>1. swaps[id] \in Swap
  BY DEF TypeOK, IsLocked, NoSwap
<1>2. /\ swaps[id].token \in Tokens /\ swaps[id].amount \in Nat
      /\ payee \in Addresses /\ Contract \in Addresses /\ payee # Contract
      /\ balance \in [Tokens -> [Addresses -> Nat]]
  BY <1>1 DEF Swap, Addresses, TypeOK
<1> QED
  BY <1>2, TransferEffect

-----------------------------------------------------------------------------
(* The invariant.                                                          *)

LEMMA InitInv == ASSUME Assumptions, Init PROVE Inv
<1>1. balance \in [Tokens -> [Addresses -> Nat]]
  BY DEF Init
<1>2. TypeOK
  BY <1>1 DEF Init, TypeOK
<1> QED
  BY <1>2 DEF Init, Inv, OutcomeJustified, NoSwap

\* OutcomeJustified survives a step that changes one swap at most and lets the
\* ledger and the set of published secrets only grow.
LEMMA JustifiedStep ==
    ASSUME Assumptions, Inv, TypeOK', NEW id \in SwapIds,
           disclosed \subseteq disclosed', ledger' >= ledger,
           \A other \in SwapIds \ {id} : swaps'[other] = swaps[other],
           \/ swaps'[id] = swaps[id]
           \/ /\ swaps'[id].status = "Locked"
              /\ id = ComputeSwapId(swaps'[id].secret_hash)
           \/ /\ swaps'[id].status = "Released"
              /\ id = ComputeSwapId(swaps'[id].secret_hash)
              /\ \E s \in disclosed' : swaps'[id].secret_hash = Sha256(s)
           \/ /\ swaps'[id].status = "Refunded"
              /\ id = ComputeSwapId(swaps'[id].secret_hash)
              /\ ledger' >= swaps'[id].timeout_ledger
    PROVE  Inv'
<1>1. ledger \in Nat /\ ledger' \in Nat
  BY DEF Inv, TypeOK
<1>2. ASSUME NEW any \in SwapIds
      PROVE  /\ swaps'[any].status = "Released" =>
                    \E s \in disclosed' : swaps'[any].secret_hash = Sha256(s)
             /\ swaps'[any].status = "Refunded" => ledger' >= swaps'[any].timeout_ledger
             /\ swaps'[any] # NoSwap => any = ComputeSwapId(swaps'[any].secret_hash)
  <2>1. CASE swaps'[any] = swaps[any]
    <3>1. /\ swaps[any].status = "Released" =>
                \E s \in disclosed : swaps[any].secret_hash = Sha256(s)
          /\ swaps[any].status = "Refunded" => ledger >= swaps[any].timeout_ledger
          /\ swaps[any] # NoSwap => any = ComputeSwapId(swaps[any].secret_hash)
      BY DEF Inv, OutcomeJustified
    <3>2. CASE swaps[any].status = "Refunded"
      <4>1. swaps[any] \in Swap
        BY <3>2 DEF Inv, TypeOK, NoSwap
      <4>2. swaps[any].timeout_ledger \in Nat
        BY <4>1 DEF Swap
      <4> QED
        BY <1>1, <2>1, <3>1, <3>2, <4>2
    <3>3. CASE swaps[any].status # "Refunded"
      BY <2>1, <3>1, <3>3
    <3> QED
      BY <3>2, <3>3
  <2>2. CASE swaps'[any] # swaps[any]
    <3>1. any = id
      BY <2>2
    <3> QED
      BY <2>2, <3>1
  <2> QED
    BY <2>1, <2>2
<1> QED
  BY <1>2 DEF Inv, OutcomeJustified

LEMMA LockInv ==
    ASSUME Assumptions, Inv, NEW initiator \in Users, NEW counterparty \in Users,
           NEW token \in Tokens, NEW amount \in Amounts, NEW h \in Hashes,
           NEW timeout \in Timeouts,
           Lock(initiator, counterparty, token, amount, h, timeout)
    PROVE  Inv'
<1> DEFINE id == ComputeSwapId(h)
<1>1. /\ id \in SwapIds
      /\ swaps' \in [SwapIds -> Swap \cup {NoSwap}]
      /\ \A other \in SwapIds \ {id} : swaps'[other] = swaps[other]
      /\ swaps'[id].status = "Locked"
      /\ swaps'[id].secret_hash = h
      /\ balance' \in [Tokens -> [Addresses -> Nat]]
  BY LockEffect DEF Inv
<1>2. UNCHANGED <<ledger, disclosed>>
  BY DEF Lock
<1>3. TypeOK'
  BY <1>1, <1>2 DEF Inv, TypeOK
<1>4. ledger \in Nat
  BY DEF Inv, TypeOK
<1> QED
  BY <1>1, <1>2, <1>3, <1>4, JustifiedStep

LEMMA ReleaseInv ==
    ASSUME Assumptions, Inv, NEW id \in SwapIds, NEW s \in Secrets, Release(id, s)
    PROVE  Inv'
<1>1. /\ IsLocked(id)
      /\ Sha256(s) = swaps[id].secret_hash
      /\ swaps' = [swaps EXCEPT ![id].status = "Released"]
      /\ disclosed' = disclosed \cup {s}
      /\ ledger' = ledger
  BY DEF Release, CanRelease
<1>2. /\ swaps' \in [SwapIds -> Swap \cup {NoSwap}]
      /\ \A other \in SwapIds \ {id} : swaps'[other] = swaps[other]
      /\ swaps[id] \in Swap
      /\ swaps'[id] = [swaps[id] EXCEPT !.status = "Released"]
  BY <1>1, SettledSwap DEF Inv
<1>3. balance' \in [Tokens -> [Addresses -> Nat]]
  <2>1. swaps[id].counterparty \in Users
    BY <1>2 DEF Swap
  <2> QED
    BY <1>1, <2>1, PayoutEffect DEF Inv, Release, CanRelease
<1>4. /\ swaps'[id].status = "Released"
      /\ swaps'[id].secret_hash = swaps[id].secret_hash
      /\ swaps[id] # NoSwap
  BY <1>1, <1>2 DEF Swap, IsLocked, NoSwap
<1>5. TypeOK'
  BY <1>1, <1>2, <1>3 DEF Inv, TypeOK
<1>6. ledger \in Nat
  BY DEF Inv, TypeOK
<1>7. id = ComputeSwapId(swaps'[id].secret_hash)
  BY <1>4 DEF Inv
<1> QED
  BY <1>1, <1>2, <1>4, <1>5, <1>6, <1>7, JustifiedStep

LEMMA RefundInv ==
    ASSUME Assumptions, Inv, NEW id \in SwapIds, Refund(id)
    PROVE  Inv'
<1>1. /\ IsLocked(id)
      /\ ledger >= swaps[id].timeout_ledger
      /\ swaps' = [swaps EXCEPT ![id].status = "Refunded"]
      /\ UNCHANGED <<ledger, disclosed>>
  BY DEF Refund, CanRefund
<1>2. /\ swaps' \in [SwapIds -> Swap \cup {NoSwap}]
      /\ \A other \in SwapIds \ {id} : swaps'[other] = swaps[other]
      /\ swaps[id] \in Swap
      /\ swaps'[id] = [swaps[id] EXCEPT !.status = "Refunded"]
  BY <1>1, SettledSwap DEF Inv
<1>3. balance' \in [Tokens -> [Addresses -> Nat]]
  <2>1. swaps[id].initiator \in Users
    BY <1>2 DEF Swap
  <2> QED
    BY <1>1, <2>1, PayoutEffect DEF Inv, Refund, CanRefund
<1>4. /\ swaps'[id].status = "Refunded"
      /\ swaps'[id].secret_hash = swaps[id].secret_hash
      /\ swaps'[id].timeout_ledger = swaps[id].timeout_ledger
      /\ swaps[id] # NoSwap
  BY <1>1, <1>2 DEF Swap, IsLocked, NoSwap
<1>5. TypeOK'
  BY <1>1, <1>2, <1>3 DEF Inv, TypeOK
<1>6. ledger \in Nat
  BY DEF Inv, TypeOK
<1>7. id = ComputeSwapId(swaps'[id].secret_hash)
  BY <1>4 DEF Inv
<1> QED
  BY <1>1, <1>2, <1>4, <1>5, <1>6, <1>7, JustifiedStep

LEMMA ClockInv ==
    ASSUME Assumptions, Inv, CloseLedger \/ UNCHANGED vars \/ \E s \in Secrets : Disclose(s)
    PROVE  Inv'
<1>1. ledger \in Nat
  BY DEF Inv, TypeOK
<1>2. /\ UNCHANGED <<swaps, balance>>
      /\ disclosed \subseteq disclosed' /\ disclosed' \subseteq Secrets
      /\ ledger' \in 0 .. MaxLedger /\ ledger' >= ledger
  BY <1>1 DEF CloseLedger, Disclose, vars, Inv, TypeOK
<1>3. TypeOK'
  BY <1>2 DEF Inv, TypeOK
<1>4. CASE SwapIds = {}
  BY <1>3, <1>4 DEF Inv, OutcomeJustified
<1>5. CASE SwapIds # {}
  <2>1. PICK id \in SwapIds : TRUE
    BY <1>5
  <2> QED
    BY <1>2, <1>3, <2>1, JustifiedStep
<1> QED
  BY <1>4, <1>5

LEMMA InvHolds == ASSUME Assumptions PROVE Spec => []Inv
<1>0. Init => Inv
  BY InitInv
<1>1. Inv /\ [Next]_vars => Inv'
  BY LockInv, ReleaseInv, RefundInv, ClockInv DEF Next
<1> QED
  BY <1>0, <1>1, PTL DEF Spec

\* Stored swaps stay well formed and no balance goes negative.
THEOREM TypeCorrect == ASSUME Assumptions PROVE Spec => []TypeOK
<1>1. Inv => TypeOK
  BY DEF Inv
<1> QED
  BY <1>1, InvHolds, PTL

\* A released swap's secret is readable on chain, for the other leg to use, and
\* a refunded one had timed out.
THEOREM SecretIsPublished == ASSUME Assumptions PROVE Spec => []OutcomeJustified
<1>1. Inv => OutcomeJustified
  BY DEF Inv
<1> QED
  BY <1>1, InvHolds, PTL

-----------------------------------------------------------------------------
(* Refinement: each token's swaps implement the hashed timelock.           *)

\* Changing one swap changes one lockbox, and only if the swap is of the token.
LEMMA LockboxStep ==
    ASSUME NEW token \in Tokens, NEW id \in SwapIds,
           \A other \in SwapIds \ {id} : swaps'[other] = swaps[other]
    PROVE  Lockbox(token)' = [Lockbox(token) EXCEPT ![id] = Lockbox(token)'[id]]
<1>1. \A other \in SwapIds \ {id} : Lockbox(token)'[other] = Lockbox(token)[other]
  BY DEF Lockbox, IsLocked
<1>2. /\ Lockbox(token) = [i \in SwapIds |-> Lockbox(token)[i]]
      /\ Lockbox(token)' = [i \in SwapIds |-> Lockbox(token)'[i]]
  BY DEF Lockbox
<1> HIDE DEF Lockbox
<1> QED
  BY <1>1, <1>2

\* A step that leaves a token's swaps, pool and clock alone is a stutter for it.
LEMMA OtherToken ==
    ASSUME NEW token \in Tokens, NEW id \in SwapIds,
           \A other \in SwapIds \ {id} : swaps'[other] = swaps[other],
           Lockbox(token)'[id] = Lockbox(token)[id],
           balance'[token] = balance[token], ledger' = ledger
    PROVE  UNCHANGED Promise(token)!vars
<1>1. Lockbox(token)' = [Lockbox(token) EXCEPT ![id] = Lockbox(token)[id]]
  BY LockboxStep
<1>2. Lockbox(token)' = Lockbox(token)
  BY <1>1 DEF Lockbox
<1> QED
  BY <1>2 DEF Promise!vars

LEMMA LockRefines ==
    ASSUME Assumptions, Inv, NEW initiator \in Users, NEW counterparty \in Users,
           NEW token \in Tokens, NEW amount \in Amounts, NEW h \in Hashes,
           NEW timeout \in Timeouts, NEW tk \in Tokens,
           Lock(initiator, counterparty, token, amount, h, timeout)
    PROVE  [Promise(tk)!Next]_(Promise(tk)!vars)
<1> DEFINE id == ComputeSwapId(h)
           box == Lockbox(tk)'[id]
<1>1. /\ id \in SwapIds
      /\ swaps[id] = NoSwap
      /\ \A other \in SwapIds \ {id} : swaps'[other] = swaps[other]
      /\ swaps'[id] \in Swap
      /\ swaps'[id].status = "Locked"
      /\ swaps'[id].token = token
      /\ swaps'[id].amount = amount
      /\ swaps'[id].timeout_ledger >= ledger
      /\ amount \in Nat \ {0}
      /\ balance'[token][Contract] = balance[token][Contract] + amount
      /\ \A other \in Tokens \ {token} : balance'[other] = balance[other]
  BY LockEffect DEF Inv
<1>2. ledger' = ledger
  BY DEF Lock
<1> HIDE DEF id
<1>3. swaps'[id] # NoSwap /\ swaps'[id].timeout_ledger \in Nat
  BY <1>1 DEF NoSwap, Swap
<1>4. Lockbox(tk)[id] = [status |-> "None", held |-> 0, timeout |-> 0]
  BY <1>1 DEF Lockbox
<1>5. CASE tk = token
  <2>1. box = [status |-> "Locked", held |-> amount, timeout |-> swaps'[id].timeout_ledger]
    BY <1>1, <1>3, <1>5 DEF Lockbox, IsLocked
  <2>2. Lockbox(tk)' = [Lockbox(tk) EXCEPT ![id] = box]
    BY <1>1, LockboxStep
  <2> HIDE DEF box
  <2>3. box.held = amount /\ box.timeout = swaps'[id].timeout_ledger
    BY <2>1
  <2>4. box = [status |-> "Locked", held |-> box.held, timeout |-> box.timeout]
    BY <2>1, <2>3
  <2>5. box.held \in Nat \ {0} /\ box.timeout \in Nat /\ box.timeout >= ledger
    BY <1>1, <1>3, <2>3
  <2>6. Promise(tk)!Lock(id)
    BY <1>1, <1>2, <1>4, <1>5, <2>2, <2>3, <2>4, <2>5 DEF Promise!Lock, box
  <2> QED
    BY <1>1, <2>6 DEF Promise!Next
<1>6. CASE tk # token
  <2>1. box = Lockbox(tk)[id]
    BY <1>1, <1>4, <1>6 DEF Lockbox
  <2> QED
    BY <1>1, <1>2, <1>6, <2>1, OtherToken
<1> QED
  BY <1>5, <1>6

\* Leaving the Locked status empties the lockbox of the swap's token and takes
\* its amount from that token's pool.
LEMMA SettleRefines ==
    ASSUME Assumptions, Inv, NEW id \in SwapIds, IsLocked(id), NEW tk \in Tokens,
           NEW outcome \in {"Released", "Refunded"}, NEW payee \in Users,
           outcome = "Refunded" => ledger >= swaps[id].timeout_ledger,
           swaps' = [swaps EXCEPT ![id].status = outcome],
           balance[swaps[id].token][Contract] >= swaps[id].amount,
           balance' = Transfer(swaps[id].token, Contract, payee, swaps[id].amount),
           ledger' = ledger
    PROVE  [Promise(tk)!Next]_(Promise(tk)!vars)
<1>1. /\ \A other \in SwapIds \ {id} : swaps'[other] = swaps[other]
      /\ swaps[id] \in Swap
      /\ swaps'[id] = [swaps[id] EXCEPT !.status = outcome]
  BY SettledSwap DEF Inv
<1>2. /\ swaps[id].token \in Tokens
      /\ balance'[swaps[id].token][Contract] =
             balance[swaps[id].token][Contract] - swaps[id].amount
      /\ \A other \in Tokens \ {swaps[id].token} : balance'[other] = balance[other]
  BY PayoutEffect DEF Inv
<1>3. /\ swaps'[id].status = outcome
      /\ swaps'[id].token = swaps[id].token
      /\ swaps'[id].timeout_ledger = swaps[id].timeout_ledger
      /\ swaps'[id] # NoSwap /\ swaps[id] # NoSwap
  BY <1>1 DEF Swap, NoSwap, IsLocked
<1>4. CASE tk = swaps[id].token
  <2>1. Lockbox(tk)[id] = [status |-> "Locked", held |-> swaps[id].amount,
                           timeout |-> swaps[id].timeout_ledger]
    BY <1>3, <1>4 DEF Lockbox, IsLocked
  <2>2. Lockbox(tk)'[id] = [status |-> outcome, held |-> 0,
                            timeout |-> swaps[id].timeout_ledger]
    BY <1>3, <1>4 DEF Lockbox, IsLocked
  <2>3. Lockbox(tk)' = [Lockbox(tk) EXCEPT ![id] = Lockbox(tk)'[id]]
    BY <1>1, LockboxStep
  <2> HIDE DEF Lockbox
  <2>4. Lockbox(tk)' = [Lockbox(tk) EXCEPT ![id] =
                           [status |-> outcome, held |-> 0, timeout |-> Lockbox(tk)[id].timeout]]
    BY <2>1, <2>2, <2>3
  <2>5. Promise(tk)!Settle(id, outcome)
    BY <1>2, <1>4, <2>1, <2>4 DEF Promise!Settle
  <2>6. outcome = "Refunded" => ledger >= Lockbox(tk)[id].timeout
    BY <2>1
  <2> QED
    BY <2>5, <2>6 DEF Promise!Next, Promise!Release, Promise!Refund
<1>5. CASE tk # swaps[id].token
  <2>1. Lockbox(tk)'[id] = Lockbox(tk)[id]
    BY <1>3, <1>5 DEF Lockbox
  <2> QED
    BY <1>1, <1>2, <1>5, <2>1, OtherToken
<1> QED
  BY <1>4, <1>5

LEMMA StepRefines ==
    ASSUME Assumptions, Inv, [Next]_vars, NEW tk \in Tokens
    PROVE  [Promise(tk)!Next]_(Promise(tk)!vars)
<1>1. ASSUME NEW initiator \in Users, NEW counterparty \in Users, NEW token \in Tokens,
             NEW amount \in Amounts, NEW h \in Hashes, NEW timeout \in Timeouts,
             Lock(initiator, counterparty, token, amount, h, timeout)
      PROVE  [Promise(tk)!Next]_(Promise(tk)!vars)
  BY <1>1, LockRefines
<1>2. ASSUME NEW id \in SwapIds, NEW s \in Secrets, Release(id, s)
      PROVE  [Promise(tk)!Next]_(Promise(tk)!vars)
  <2>1. IsLocked(id)
    BY <1>2 DEF Release, CanRelease
  <2>2. swaps[id] \in Swap
    BY <2>1 DEF Inv, TypeOK, IsLocked, NoSwap
  <2>3. swaps[id].counterparty \in Users
    BY <2>2 DEF Swap
  <2> QED
    BY <1>2, <2>1, <2>3, SettleRefines DEF Release, CanRelease
<1>3. ASSUME NEW id \in SwapIds, Refund(id)
      PROVE  [Promise(tk)!Next]_(Promise(tk)!vars)
  <2>1. IsLocked(id)
    BY <1>3 DEF Refund, CanRefund
  <2>2. swaps[id] \in Swap
    BY <2>1 DEF Inv, TypeOK, IsLocked, NoSwap
  <2>3. swaps[id].initiator \in Users
    BY <2>2 DEF Swap
  <2> QED
    BY <1>3, <2>1, <2>3, SettleRefines DEF Refund, CanRefund
<1>4. ASSUME CloseLedger
      PROVE  Promise(tk)!Next
  BY <1>4 DEF CloseLedger, Promise!Next, Promise!CloseLedger, Lockbox, IsLocked
<1>5. ASSUME UNCHANGED vars \/ \E s \in Secrets : Disclose(s)
      PROVE  UNCHANGED Promise(tk)!vars
  <2>1. UNCHANGED <<swaps, balance, ledger>>
    BY <1>5 DEF Disclose, vars
  <2> QED
    BY <2>1 DEF Promise!vars, Lockbox, IsLocked
<1> QED
  BY <1>1, <1>2, <1>3, <1>4, <1>5 DEF Next

\* Swaps of one token leave that token's pool once and whole, by refund only
\* after their timeout, and never at the expense of another token's pool.
THEOREM SwapImplementsHTLC == ASSUME Assumptions PROVE Spec => ImplementsHTLC
<1>1. Init => \A token \in Tokens : Promise(token)!Init
  BY DEF Init, Promise!Init, Promise!NoLock, Lockbox, NoSwap, Addresses
<1>2. Inv /\ [Next]_vars =>
          [\A token \in Tokens : [Promise(token)!Next]_(Promise(token)!vars)]_vars
  BY StepRefines
<1> QED
  BY <1>1, <1>2, InvHolds, PTL DEF Spec, ImplementsHTLC
=============================================================================
