---------------------------- MODULE EscrowProofs ----------------------------
(***************************************************************************)
(* Proofs about Escrow, for every set of users, secrets and arguments and  *)
(* for every variant of the contract; what only holds of the contracts     *)
(* that reject a duplicate trade id has RejectsDuplicates as a hypothesis. *)
(***************************************************************************)
EXTENDS Escrow, FiniteSetTheorems, TLAPS

USE AddressAssumption, NumberAssumption, VariantAssumption

-----------------------------------------------------------------------------
(* The symbolic hash and what the helpers return.                          *)

\* The hash term of a secret is one of Hashes, its id one of TradeIds.
LEMMA HashTypes ==
    /\ \A s \in Secrets : Sha256(s) \in Hashes
    /\ \A h \in Hashes : ComputeTradeId(h) \in TradeIds
BY DEF Hashes, TradeIds

\* What a transfer between two accounts does to each balance.
LEMMA TransferEffect ==
    ASSUME NEW b \in [Addresses -> Nat], NEW from \in Addresses, NEW to \in Addresses,
           NEW amount \in Nat, NEW a \in Addresses
    PROVE  Transfer(b, from, to, amount)[a] =
               b[a] + If(a = to, amount) - If(a = from, amount)
BY DEF Transfer, If

\* Moving an amount the payer owns keeps every balance a natural number.
LEMMA TransferType ==
    ASSUME NEW b \in [Addresses -> Nat], NEW from \in Addresses, NEW to \in Addresses,
           NEW amount \in Nat, b[from] >= amount
    PROVE  Transfer(b, from, to, amount) \in [Addresses -> Nat]
BY DEF Transfer, If

\* The contract pays the amount and the fee out of what it owns.
LEMMA PayoutType ==
    ASSUME TypeOK, platform_wallet \in Users, NEW id \in TradeIds, IsLocked(id),
           balance[Contract] >= Total(trades[id])
    PROVE  ReleasePayout(id) \in [Addresses -> Nat]
<1> DEFINE t == trades[id]
           paid == Transfer(balance, Contract, t.buyer, t.amount)
<1>1. /\ t \in TradeEscrow
      /\ t.buyer \in Addresses /\ t.buyer # Contract
      /\ t.amount \in Nat /\ t.platform_fee \in Nat
  BY DEF TypeOK, IsLocked, NoTrade, TradeEscrow, Addresses
<1>2. /\ balance \in [Addresses -> Nat]
      /\ Contract \in Addresses
      /\ platform_wallet \in Addresses
  BY DEF TypeOK, Addresses
<1>3. balance[Contract] >= t.amount + t.platform_fee
  BY DEF Total
<1>4. balance[Contract] \in Nat
  BY <1>2
<1>5. balance[Contract] >= t.amount
  BY <1>1, <1>3, <1>4
<1>6. paid \in [Addresses -> Nat]
  BY <1>1, <1>2, <1>5, TransferType
<1>7. paid[Contract] = balance[Contract] - t.amount
  BY <1>1, <1>2, <1>4 DEF If, Transfer
<1>8. paid[Contract] >= t.platform_fee
  BY <1>1, <1>3, <1>4, <1>7
<1>9. Transfer(paid, Contract, platform_wallet, t.platform_fee) \in [Addresses -> Nat]
  BY <1>1, <1>2, <1>6, <1>8, TransferType
<1> QED
  BY <1>6, <1>9 DEF ReleasePayout

-----------------------------------------------------------------------------
(* The inductive invariant.                                                *)

\* The wallet is set whenever the admin is, and a trade is only stored under
\* the id of its own secret hash, after the contract was initialized.
Initialized ==
    /\ admin # NoUser => platform_wallet \in Users
    /\ \A id \in TradeIds : trades[id] # NoTrade =>
          /\ admin # NoUser
          /\ id = ComputeTradeId(trades[id].secret_hash)

Inv == TypeOK /\ Initialized /\ OutcomeJustified

LEMMA InitInv == Init => Inv
<1> SUFFICES ASSUME Init PROVE Inv
  OBVIOUS
<1>1. TypeOK
  BY DEF Init, TypeOK, Addresses
<1>2. Initialized /\ OutcomeJustified
  BY DEF Init, Initialized, OutcomeJustified, NoTrade
<1> QED
  BY <1>1, <1>2 DEF Inv

\* Releasing or refunding a locked trade changes its status and nothing else.
LEMMA SettledTrade ==
    ASSUME TypeOK, NEW id \in TradeIds, IsLocked(id),
           NEW outcome \in {"Released", "Refunded"},
           trades' = [trades EXCEPT ![id].status = outcome]
    PROVE  /\ trades' \in [TradeIds -> TradeEscrow \cup {NoTrade}]
           /\ \A other \in TradeIds \ {id} : trades'[other] = trades[other]
           /\ trades[id] \in TradeEscrow
           /\ trades'[id] = [trades[id] EXCEPT !.status = outcome]
           /\ trades'[id] \in TradeEscrow
<1>1. trades[id] \in TradeEscrow
  BY DEF TypeOK, IsLocked, NoTrade
<1>2. [trades[id] EXCEPT !.status = outcome] \in TradeEscrow
  BY <1>1 DEF TradeEscrow, TradeStatus
<1>3. trades \in [TradeIds -> TradeEscrow \cup {NoTrade}]
  BY DEF TypeOK
<1> QED
  BY <1>1, <1>2, <1>3

\* What lock stores and moves.
LEMMA LockEffect ==
    ASSUME TypeOK, NEW seller \in Users, NEW buyer \in Users, NEW amount \in Amounts,
           NEW fee \in Fees, NEW h \in Hashes, NEW m \in Minutes,
           Lock(seller, buyer, amount, fee, h, m)
    PROVE  LET id == ComputeTradeId(h) IN
           /\ id \in TradeIds
           /\ trades' \in [TradeIds -> TradeEscrow \cup {NoTrade}]
           /\ \A other \in TradeIds \ {id} : trades'[other] = trades[other]
           /\ trades'[id] \in TradeEscrow
           /\ trades'[id].status = "Locked"
           /\ trades'[id].secret_hash = h
           /\ trades'[id].seller = seller
           /\ Total(trades'[id]) = amount + fee
           /\ trades'[id].timeout_ledger \in Nat
           /\ trades'[id].timeout_ledger >= ledger
           /\ amount \in Nat \ {0} /\ fee \in Nat
           /\ balance' \in [Addresses -> Nat]
           /\ balance' = Transfer(balance, seller, Contract, amount + fee)
<1> DEFINE id == ComputeTradeId(h)
           timeout == ledger + m * LedgersPerMinute
           new == [seller |-> seller, buyer |-> buyer, amount |-> amount,
                   platform_fee |-> fee, secret_hash |-> h,
                   timeout_ledger |-> timeout, status |-> "Locked"]
<1>1. id \in TradeIds
  BY HashTypes
<1>2. amount \in Nat \ {0} /\ fee \in Nat
  BY DEF Lock, CanLock
<1>3. m \in Nat /\ LedgersPerMinute \in Nat /\ ledger \in Nat
  BY DEF TypeOK
<1>4. m * LedgersPerMinute \in Nat
  BY <1>3
<1>5. timeout \in Nat /\ timeout >= ledger
  BY <1>3, <1>4
<1> HIDE DEF timeout
<1>6. new \in TradeEscrow
  BY <1>2, <1>5 DEF TradeEscrow, TradeStatus
<1>7. trades' = [trades EXCEPT ![id] = new]
  BY DEF Lock, timeout
<1>8. trades \in [TradeIds -> TradeEscrow \cup {NoTrade}]
  BY DEF TypeOK
<1>9. /\ trades' \in [TradeIds -> TradeEscrow \cup {NoTrade}]
      /\ \A other \in TradeIds \ {id} : trades'[other] = trades[other]
      /\ trades'[id] = new
  <2> HIDE DEF new, id
  <2> QED
    BY <1>1, <1>6, <1>7, <1>8
<1>10. balance' = Transfer(balance, seller, Contract, amount + fee)
  BY DEF Lock
<1>11. balance' \in [Addresses -> Nat]
  <2>1. /\ balance \in [Addresses -> Nat]
        /\ seller \in Addresses /\ Contract \in Addresses
    BY DEF TypeOK, Addresses
  <2>2. balance[seller] >= amount + fee
    BY DEF Lock, CanLock
  <2>3. amount + fee \in Nat
    BY <1>2
  <2> QED
    BY <1>10, <2>1, <2>2, <2>3, TransferType
<1> QED
  BY <1>1, <1>2, <1>5, <1>6, <1>9, <1>10, <1>11 DEF Total

\* What refund moves.
LEMMA RefundEffect ==
    ASSUME TypeOK, NEW id \in TradeIds, Refund(id)
    PROVE  /\ IsLocked(id)
           /\ trades[id] \in TradeEscrow
           /\ balance' \in [Addresses -> Nat]
           /\ \A a \in Addresses :
                 balance'[a] = balance[a] + If(a = trades[id].seller, Total(trades[id]))
                               - If(a = Contract, Total(trades[id]))
<1>1. IsLocked(id)
  BY DEF Refund, CanRefund
<1>2. trades[id] \in TradeEscrow
  BY <1>1 DEF TypeOK, IsLocked, NoTrade
<1>3. /\ trades[id].seller \in Addresses /\ Contract \in Addresses
      /\ balance \in [Addresses -> Nat]
      /\ Total(trades[id]) \in Nat
  BY <1>2 DEF TradeEscrow, Addresses, TypeOK, Total
<1>4. /\ balance[Contract] >= Total(trades[id])
      /\ balance' = Transfer(balance, Contract, trades[id].seller, Total(trades[id]))
  BY DEF Refund, CanRefund
<1>5. balance' \in [Addresses -> Nat]
  BY <1>3, <1>4, TransferType
<1>6. \A a \in Addresses :
         balance'[a] = balance[a] + If(a = trades[id].seller, Total(trades[id]))
                       - If(a = Contract, Total(trades[id]))
  BY <1>3, <1>4, TransferEffect
<1> QED
  BY <1>1, <1>2, <1>5, <1>6

\* What release moves.
LEMMA ReleaseEffect ==
    ASSUME TypeOK, Initialized, NEW caller \in Users, NEW id \in TradeIds,
           NEW s \in Secrets, Release(caller, id, s)
    PROVE  /\ IsLocked(id)
           /\ trades[id] \in TradeEscrow
           /\ platform_wallet \in Users
           /\ balance' \in [Addresses -> Nat]
           /\ \A a \in Addresses :
                 balance'[a] = balance[a] + If(a = trades[id].buyer, trades[id].amount)
                               + If(a = platform_wallet, trades[id].platform_fee)
                               - If(a = Contract, Total(trades[id]))
<1> DEFINE t == trades[id]
           paid == Transfer(balance, Contract, t.buyer, t.amount)
           fee == Transfer(paid, Contract, platform_wallet, t.platform_fee)
<1>1. IsLocked(id)
  BY DEF Release, CanRelease
<1>2. t \in TradeEscrow
  BY <1>1 DEF TypeOK, IsLocked, NoTrade
<1>3. platform_wallet \in Users
  BY <1>1 DEF Initialized, IsLocked, NoTrade
<1>4. balance' = ReleasePayout(id) /\ balance[Contract] >= Total(t)
  BY DEF Release, CanRelease
<1>5. balance' \in [Addresses -> Nat]
  BY <1>1, <1>3, <1>4, PayoutType
<1>6. /\ t.buyer \in Addresses /\ Contract \in Addresses /\ platform_wallet \in Addresses
      /\ t.amount \in Nat /\ t.platform_fee \in Nat
      /\ balance \in [Addresses -> Nat]
      /\ Total(t) = t.amount + t.platform_fee
  BY <1>2, <1>3 DEF TradeEscrow, Addresses, TypeOK, Total
<1>7. ASSUME NEW a \in Addresses
      PROVE  balance'[a] = balance[a] + If(a = t.buyer, t.amount)
                           + If(a = platform_wallet, t.platform_fee)
                           - If(a = Contract, Total(t))
  <2>1. paid[a] = balance[a] + If(a = t.buyer, t.amount) - If(a = Contract, t.amount)
    BY <1>6, TransferEffect
  <2>2. fee[a] = paid[a] + If(a = platform_wallet, t.platform_fee)
                 - If(a = Contract, t.platform_fee)
    BY <1>6 DEF Transfer
  <2>3. balance'[a] = IF t.platform_fee > 0 THEN fee[a] ELSE paid[a]
    BY <1>4 DEF ReleasePayout
  <2>4. balance[a] \in Nat
    BY <1>6
  <2> HIDE DEF paid, fee, t
  <2> QED
    BY <1>6, <2>1, <2>2, <2>3, <2>4 DEF If
<1> QED
  BY <1>1, <1>2, <1>3, <1>5, <1>7

-----------------------------------------------------------------------------
(* Every step preserves the invariant.                                     *)

\* A released or refunded trade stays justified when only one trade, the
\* ledger or the set of disclosed secrets changes, the last two by growing.
LEMMA JustifiedStep ==
    ASSUME OutcomeJustified, TypeOK, TypeOK', NEW id \in TradeIds,
           disclosed \subseteq disclosed', ledger' >= ledger,
           \A other \in TradeIds \ {id} : trades'[other] = trades[other],
           \/ trades'[id] = trades[id]
           \/ trades'[id].status = "Locked"
           \/ /\ trades'[id].status = "Released"
              /\ \E s \in disclosed' : trades'[id].secret_hash = Sha256(s)
           \/ /\ trades'[id].status = "Refunded"
              /\ ledger' >= trades'[id].timeout_ledger
    PROVE  OutcomeJustified'
<1> SUFFICES ASSUME NEW any \in TradeIds
             PROVE  /\ trades'[any].status = "Released" =>
                           \E s \in disclosed' : trades'[any].secret_hash = Sha256(s)
                    /\ trades'[any].status = "Refunded" =>
                           ledger' >= trades'[any].timeout_ledger
  BY DEF OutcomeJustified
<1>1. /\ trades[any].status = "Released" =>
            \E s \in disclosed : trades[any].secret_hash = Sha256(s)
      /\ trades[any].status = "Refunded" => ledger >= trades[any].timeout_ledger
  BY DEF OutcomeJustified
<1>2. ledger \in Nat /\ ledger' \in Nat
  BY DEF TypeOK
<1>3. CASE trades'[any] = trades[any]
  <2>1. CASE trades[any].status = "Refunded"
    <3>1. trades[any] \in TradeEscrow
      BY <2>1 DEF TypeOK, NoTrade
    <3>2. trades[any].timeout_ledger \in Nat
      BY <3>1 DEF TradeEscrow
    <3> QED
      BY <1>1, <1>2, <1>3, <2>1, <3>2
  <2>2. CASE trades[any].status # "Refunded"
    BY <1>1, <1>3, <2>2
  <2> QED
    BY <2>1, <2>2
<1>4. CASE trades'[any] # trades[any]
  <2>1. any = id
    BY <1>4
  <2> QED
    BY <1>4, <2>1
<1> QED
  BY <1>3, <1>4

\* Initialize sets the admin and the wallet, once.
LEMMA InitializeInv ==
    ASSUME Inv, NEW a \in Users, NEW w \in Users, Initialize(a, w)
    PROVE  Inv'
<1>1. TypeOK'
  BY DEF Inv, TypeOK, Initialize
<1>2. Initialized'
  BY DEF Inv, TypeOK, Initialized, Initialize
<1>3. OutcomeJustified'
  BY DEF Inv, OutcomeJustified, Initialize
<1> QED
  BY <1>1, <1>2, <1>3 DEF Inv

\* Lock stores a well-formed trade under the id of its hash.
LEMMA LockInv ==
    ASSUME Inv, NEW seller \in Users, NEW buyer \in Users, NEW amount \in Amounts,
           NEW fee \in Fees, NEW h \in Hashes, NEW m \in Minutes,
           Lock(seller, buyer, amount, fee, h, m)
    PROVE  Inv'
<1> DEFINE id == ComputeTradeId(h)
<1>1. /\ id \in TradeIds
      /\ trades' \in [TradeIds -> TradeEscrow \cup {NoTrade}]
      /\ \A other \in TradeIds \ {id} : trades'[other] = trades[other]
      /\ trades'[id].status = "Locked"
      /\ trades'[id].secret_hash = h
      /\ balance' \in [Addresses -> Nat]
  BY LockEffect DEF Inv
<1>2. /\ UNCHANGED <<admin, platform_wallet, ledger, disclosed>>
      /\ admin # NoUser
  BY DEF Lock, CanLock
<1> HIDE DEF id
<1>3. TypeOK'
  BY <1>1, <1>2 DEF Inv, TypeOK
<1>4. Initialized'
  BY <1>1, <1>2 DEF Inv, Initialized, id
<1>5. OutcomeJustified'
  <2>1. ledger \in Nat
    BY DEF Inv, TypeOK
  <2> QED
    BY <1>1, <1>2, <1>3, <2>1, JustifiedStep DEF Inv
<1> QED
  BY <1>3, <1>4, <1>5 DEF Inv

\* Release needs the preimage, which has been disclosed.
LEMMA ReleaseInv ==
    ASSUME Inv, NEW caller \in Users, NEW id \in TradeIds, NEW s \in Secrets,
           Release(caller, id, s)
    PROVE  Inv'
<1>1. /\ IsLocked(id)
      /\ balance' \in [Addresses -> Nat]
  BY ReleaseEffect DEF Inv
<1>2. /\ UNCHANGED <<admin, platform_wallet, ledger, disclosed>>
      /\ trades' = [trades EXCEPT ![id].status = "Released"]
      /\ s \in disclosed /\ Sha256(s) = trades[id].secret_hash
  BY DEF Release, CanRelease
<1>3. /\ trades' \in [TradeIds -> TradeEscrow \cup {NoTrade}]
      /\ \A other \in TradeIds \ {id} : trades'[other] = trades[other]
      /\ trades[id] \in TradeEscrow
      /\ trades'[id] = [trades[id] EXCEPT !.status = "Released"]
  BY <1>1, <1>2, SettledTrade DEF Inv
<1>4. trades'[id].status = "Released" /\ trades'[id].secret_hash = trades[id].secret_hash
  BY <1>3 DEF TradeEscrow
<1>5. TypeOK'
  BY <1>1, <1>2, <1>3 DEF Inv, TypeOK
<1>6. Initialized'
  BY <1>1, <1>2, <1>3, <1>4 DEF Inv, Initialized, IsLocked, NoTrade
<1>7. OutcomeJustified'
  <2>1. ledger \in Nat
    BY DEF Inv, TypeOK
  <2> QED
    BY <1>2, <1>3, <1>4, <1>5, <2>1, JustifiedStep DEF Inv
<1> QED
  BY <1>5, <1>6, <1>7 DEF Inv

\* Refund needs the timeout, which the ledger has reached.
LEMMA RefundInv ==
    ASSUME Inv, NEW id \in TradeIds, Refund(id)
    PROVE  Inv'
<1>1. /\ IsLocked(id)
      /\ balance' \in [Addresses -> Nat]
  BY RefundEffect DEF Inv
<1>2. /\ UNCHANGED <<admin, platform_wallet, ledger, disclosed>>
      /\ trades' = [trades EXCEPT ![id].status = "Refunded"]
      /\ ledger >= trades[id].timeout_ledger
  BY DEF Refund, CanRefund
<1>3. /\ trades' \in [TradeIds -> TradeEscrow \cup {NoTrade}]
      /\ \A other \in TradeIds \ {id} : trades'[other] = trades[other]
      /\ trades[id] \in TradeEscrow
      /\ trades'[id] = [trades[id] EXCEPT !.status = "Refunded"]
  BY <1>1, <1>2, SettledTrade DEF Inv
<1>4. /\ trades'[id].status = "Refunded"
      /\ trades'[id].secret_hash = trades[id].secret_hash
      /\ trades'[id].timeout_ledger = trades[id].timeout_ledger
  BY <1>3 DEF TradeEscrow
<1>5. TypeOK'
  BY <1>1, <1>2, <1>3 DEF Inv, TypeOK
<1>6. Initialized'
  BY <1>1, <1>2, <1>3, <1>4 DEF Inv, Initialized, IsLocked, NoTrade
<1>7. OutcomeJustified'
  <2>1. ledger \in Nat
    BY DEF Inv, TypeOK
  <2> QED
    BY <1>2, <1>3, <1>4, <1>5, <2>1, JustifiedStep DEF Inv
<1> QED
  BY <1>5, <1>6, <1>7 DEF Inv

\* Secrets are only added and ledgers only close.
LEMMA EnvironmentInv ==
    ASSUME Inv, CloseLedger \/ \E s \in Secrets : Disclose(s)
    PROVE  Inv'
<1>1. /\ UNCHANGED <<admin, platform_wallet, trades, balance>>
      /\ disclosed \subseteq disclosed' /\ disclosed' \subseteq Secrets
      /\ ledger' \in 0 .. MaxLedger /\ ledger' >= ledger
  BY DEF Inv, TypeOK, CloseLedger, Disclose
<1>2. TypeOK'
  BY <1>1 DEF Inv, TypeOK
<1>3. Initialized'
  BY <1>1 DEF Inv, Initialized
<1>4. OutcomeJustified'
  <2>1. CASE TradeIds = {}
    BY <2>1 DEF OutcomeJustified
  <2>2. CASE TradeIds # {}
    BY <1>1, <1>2, <2>2, JustifiedStep DEF Inv
  <2> QED
    BY <2>1, <2>2
<1> QED
  BY <1>2, <1>3, <1>4 DEF Inv

LEMMA NextInv == Inv /\ [Next]_vars => Inv'
<1> SUFFICES ASSUME Inv, [Next]_vars PROVE Inv'
  OBVIOUS
<1>1. CASE Next
  BY <1>1, InitializeInv, LockInv, ReleaseInv, RefundInv, EnvironmentInv DEF Next
<1>2. CASE UNCHANGED vars
  BY <1>2 DEF vars, Inv, TypeOK, Initialized, OutcomeJustified
<1> QED
  BY <1>1, <1>2

LEMMA InvHolds == Spec => []Inv
<1>1. Init => Inv
  BY InitInv
<1>2. Inv /\ [Next]_vars => Inv'
  BY NextInv
<1> QED
  BY <1>1, <1>2, PTL DEF Spec

-----------------------------------------------------------------------------
(* The theorems.                                                           *)

\* In every reachable state of every variant each stored trade is well formed
\* and no balance, the contract's included, is negative.
THEOREM TypeCorrect == Spec => []TypeOK
<1>1. Inv => TypeOK
  BY DEF Inv
<1> QED
  BY <1>1, InvHolds, PTL

\* In every variant release is only ever paid against the trade's own secret,
\* and refund only once the timeout has passed.
THEOREM OutcomesJustified == Spec => []OutcomeJustified
<1>1. Inv => OutcomeJustified
  BY DEF Inv
<1> QED
  BY <1>1, InvHolds, PTL

-----------------------------------------------------------------------------
(* What a step may do to the stored trades and the balances.               *)

\* Lock is the only action that could rewrite a stored trade; a variant that
\* rejects duplicates finds nothing stored under the id.
LEMMA StepKeepsTerms ==
    ASSUME RejectsDuplicates, Inv, [Next]_vars
    PROVE  KeepsTerms
<1> USE DEF Inv
<1>1. ASSUME NEW a \in Users, NEW w \in Users, Initialize(a, w)
      PROVE  KeepsTerms
  BY <1>1 DEF Initialize, KeepsTerms
<1>2. ASSUME NEW seller \in Users, NEW buyer \in Users, NEW amount \in Amounts,
             NEW fee \in Fees, NEW h \in Hashes, NEW m \in Minutes,
             Lock(seller, buyer, amount, fee, h, m)
      PROVE  KeepsTerms
  <2>1. trades[ComputeTradeId(h)] = NoTrade
    BY <1>2 DEF Lock, CanLock
  <2>2. \A other \in TradeIds \ {ComputeTradeId(h)} : trades'[other] = trades[other]
    BY <1>2, LockEffect
  <2> QED
    BY <2>1, <2>2 DEF KeepsTerms
<1>3. ASSUME NEW id \in TradeIds, IsLocked(id), NEW outcome \in {"Released", "Refunded"},
             trades' = [trades EXCEPT ![id].status = outcome]
      PROVE  KeepsTerms
  <2>1. /\ \A other \in TradeIds \ {id} : trades'[other] = trades[other]
        /\ trades'[id] = [trades[id] EXCEPT !.status = outcome]
    BY <1>3, SettledTrade
  <2> QED
    BY <1>3, <2>1 DEF KeepsTerms
<1>4. ASSUME NEW caller \in Users, NEW id \in TradeIds, NEW s \in Secrets,
             Release(caller, id, s)
      PROVE  KeepsTerms
  BY <1>4, <1>3 DEF Release, CanRelease
<1>5. ASSUME NEW id \in TradeIds, Refund(id)
      PROVE  KeepsTerms
  BY <1>5, <1>3 DEF Refund, CanRefund
<1>6. ASSUME CloseLedger \/ UNCHANGED vars \/ \E s \in Secrets : Disclose(s)
      PROVE  KeepsTerms
  <2>1. trades' = trades
    BY <1>6 DEF CloseLedger, Disclose, vars
  <2> QED
    BY <2>1 DEF KeepsTerms
<1> QED
  BY <1>1, <1>2, <1>4, <1>5, <1>6 DEF Next

\* In a contract that rejects duplicate ids the terms of a stored trade never
\* change, and a released or refunded trade is final.
THEOREM TermsNeverChange ==
    ASSUME RejectsDuplicates
    PROVE  Spec => TermsFixed
<1>1. Inv /\ [Next]_vars => [KeepsTerms]_vars
  BY StepKeepsTerms
<1> QED
  BY <1>1, InvHolds, PTL DEF Spec, TermsFixed

\* The money of the step: lock takes the total from the seller, release and
\* refund pay out what the trade held.
LEMMA StepAccounts ==
    ASSUME RejectsDuplicates, Inv, [Next]_vars
    PROVE  UNCHANGED <<trades, balance>> \/ \E id \in TradeIds : AccountsForTrade(id)
<1> USE DEF Inv
<1>1. balance \in [Addresses -> Nat]
  BY DEF TypeOK
<1>2. ASSUME NEW seller \in Users, NEW buyer \in Users, NEW amount \in Amounts,
             NEW fee \in Fees, NEW h \in Hashes, NEW m \in Minutes,
             Lock(seller, buyer, amount, fee, h, m)
      PROVE  AccountsForTrade(ComputeTradeId(h))
  <2> DEFINE id == ComputeTradeId(h)
  <2>1. /\ \A other \in TradeIds \ {id} : trades'[other] = trades[other]
        /\ trades'[id].status = "Locked"
        /\ trades'[id].seller = seller
        /\ Total(trades'[id]) = amount + fee
        /\ amount \in Nat \ {0} /\ fee \in Nat
        /\ balance' = Transfer(balance, seller, Contract, amount + fee)
    BY <1>2, LockEffect
  <2>2. trades[id].status = "None"
    BY <1>2 DEF Lock, CanLock, NoTrade
  <2> HIDE DEF id
  <2>3. ASSUME NEW a \in Addresses
        PROVE  balance'[a] - balance[a] = NetEffect(trades'[id], platform_wallet, a)
                                          - NetEffect(trades[id], platform_wallet, a)
    <3>1. balance'[a] = balance[a] + If(a = Contract, amount + fee) - If(a = seller, amount + fee)
      BY <2>1 DEF Transfer
    <3>2. NetEffect(trades'[id], platform_wallet, a) =
              If(a = Contract, amount + fee) - If(a = seller, amount + fee)
      BY <2>1 DEF NetEffect
    <3>3. NetEffect(trades[id], platform_wallet, a) = 0
      BY <2>2 DEF NetEffect
    <3>4. balance[a] \in Nat
      BY <1>1
    <3> QED
      BY <2>1, <3>1, <3>2, <3>3, <3>4 DEF If
  <2> QED
    BY <2>1, <2>3 DEF AccountsForTrade, id
<1>3. ASSUME NEW caller \in Users, NEW id \in TradeIds, NEW s \in Secrets,
             Release(caller, id, s)
      PROVE  AccountsForTrade(id)
  <2> DEFINE t == trades[id]
  <2>1. /\ IsLocked(id)
        /\ t \in TradeEscrow
        /\ \A a \in Addresses :
              balance'[a] = balance[a] + If(a = t.buyer, t.amount)
                            + If(a = platform_wallet, t.platform_fee)
                            - If(a = Contract, Total(t))
    BY <1>3, ReleaseEffect
  <2>2. /\ \A other \in TradeIds \ {id} : trades'[other] = trades[other]
        /\ trades'[id] = [t EXCEPT !.status = "Released"]
    BY <1>3, <2>1, SettledTrade DEF Release
  <2>3. /\ trades'[id].status = "Released" /\ trades'[id].seller = t.seller
        /\ trades'[id].buyer = t.buyer /\ Total(trades'[id]) = Total(t)
        /\ trades'[id].amount = t.amount /\ trades'[id].platform_fee = t.platform_fee
        /\ t.amount \in Nat /\ t.platform_fee \in Nat /\ Total(t) \in Nat
    BY <2>1, <2>2 DEF TradeEscrow, Total
  <2>4. ASSUME NEW a \in Addresses
        PROVE  balance'[a] - balance[a] = NetEffect(trades'[id], platform_wallet, a)
                                          - NetEffect(t, platform_wallet, a)
    <3>1. NetEffect(trades'[id], platform_wallet, a) =
              If(a = t.buyer, t.amount) + If(a = platform_wallet, t.platform_fee)
              - If(a = t.seller, Total(t))
      BY <2>3 DEF NetEffect
    <3>2. NetEffect(t, platform_wallet, a) = If(a = Contract, Total(t)) - If(a = t.seller, Total(t))
      BY <2>1 DEF NetEffect, IsLocked
    <3>3. balance[a] \in Nat
      BY <1>1
    <3> HIDE DEF t
    <3> QED
      BY <2>1, <2>3, <3>1, <3>2, <3>3 DEF If
  <2> QED
    BY <2>2, <2>4 DEF AccountsForTrade
<1>4. ASSUME NEW id \in TradeIds, Refund(id)
      PROVE  AccountsForTrade(id)
  <2> DEFINE t == trades[id]
  <2>1. /\ IsLocked(id)
        /\ t \in TradeEscrow
        /\ \A a \in Addresses :
              balance'[a] = balance[a] + If(a = t.seller, Total(t)) - If(a = Contract, Total(t))
    BY <1>4, RefundEffect
  <2>2. /\ \A other \in TradeIds \ {id} : trades'[other] = trades[other]
        /\ trades'[id] = [t EXCEPT !.status = "Refunded"]
    BY <1>4, <2>1, SettledTrade DEF Refund
  <2>3. trades'[id].status = "Refunded" /\ Total(t) \in Nat
    BY <2>1, <2>2 DEF TradeEscrow, Total
  <2>4. ASSUME NEW a \in Addresses
        PROVE  balance'[a] - balance[a] = NetEffect(trades'[id], platform_wallet, a)
                                          - NetEffect(t, platform_wallet, a)
    <3>1. NetEffect(trades'[id], platform_wallet, a) = 0
      BY <2>3 DEF NetEffect
    <3>2. NetEffect(t, platform_wallet, a) = If(a = Contract, Total(t)) - If(a = t.seller, Total(t))
      BY <2>1 DEF NetEffect, IsLocked
    <3>3. balance[a] \in Nat
      BY <1>1
    <3> HIDE DEF t
    <3> QED
      BY <2>1, <2>3, <3>1, <3>2, <3>3 DEF If
  <2> QED
    BY <2>2, <2>4 DEF AccountsForTrade
<1>5. ASSUME \/ CloseLedger \/ UNCHANGED vars
             \/ \E s \in Secrets : Disclose(s)
             \/ \E a, w \in Users : Initialize(a, w)
      PROVE  UNCHANGED <<trades, balance>>
  BY <1>5 DEF CloseLedger, Disclose, Initialize, vars
<1> QED
  BY <1>2, <1>3, <1>4, <1>5, HashTypes DEF Next

\* Every step of a contract that rejects duplicate ids moves exactly the money
\* of the one trade it changes, so that no trade is ever paid with the money
\* of another.
THEOREM EveryStepAccounted ==
    ASSUME RejectsDuplicates
    PROVE  Spec => StepAccounted
<1>1. Inv /\ [Next]_vars =>
          [UNCHANGED <<trades, balance>> \/ \E id \in TradeIds : AccountsForTrade(id)]_vars
  BY StepAccounts
<1> QED
  BY <1>1, InvHolds, PTL DEF Spec, StepAccounted

-----------------------------------------------------------------------------
(* Sums over a finite set, as the community modules define them.           *)

\* The element a sum over s takes first.
Pick(s) == CHOOSE x \in s : TRUE

\* g holds the sum of f over each subset of S.
Sums(f, g, S) ==
    g = [s \in SUBSET S |-> IF s = {} THEN 0 ELSE f[Pick(s)] + g[s \ {Pick(s)}]]

\* SumFunction of the community modules, with its fold written out.
LEMMA SumUnfolded ==
    ASSUME NEW f
    PROVE  SumFunction(f) = (CHOOSE g : Sums(f, g, DOMAIN f))[DOMAIN f]
BY DEF SumFunction, SumFunctionOnSet, FoldFunctionOnSet, MapThenFoldSet, Sums, Pick

\* Among some subsets of a finite set one contains no other.
LEMMA SmallestSubset ==
    ASSUME NEW S, IsFiniteSet(S), NEW T \in SUBSET (SUBSET S), T # {}
    PROVE  \E s \in T : \A t \in T : t \subseteq s => t = s
<1>1. IsWellFoundedOn(StrictSubsetOrdering(S), SUBSET S)
  <2>1. FiniteSubsetsOf(S) = SUBSET S
    BY FS_FiniteSubsetsOfFinite
  <2>2. IsWellFoundedOn(StrictSubsetOrdering(S), FiniteSubsetsOf(S))
    BY ONLY FS_StrictSubsetOrderingWellFounded
  <2> QED
    BY ONLY <2>1, <2>2
<1>2. PICK s \in T : \A t \in T : ~ (<<t, s>> \in StrictSubsetOrdering(S))
  BY ONLY <1>1, WFMin, T \in SUBSET (SUBSET S), T # {}
<1>3. ASSUME NEW t \in T, t \subseteq s, t # s
      PROVE  FALSE
  BY <1>2, <1>3 DEF StrictSubsetOrdering
<1> QED
  BY <1>3

\* What is left of a non-empty set without the element picked is smaller.
LEMMA PickLeaves ==
    ASSUME NEW S, NEW s \in SUBSET S, s # {}
    PROVE  /\ Pick(s) \in s
           /\ s \ {Pick(s)} \in SUBSET S
           /\ s \ {Pick(s)} \subseteq s /\ s \ {Pick(s)} # s
BY DEF Pick

\* Two tables of sums of one function agree where both are defined.
LEMMA SumsAgree ==
    ASSUME NEW S, IsFiniteSet(S), NEW f, NEW A \in SUBSET S, NEW B \in SUBSET S,
           NEW g, Sums(f, g, A), NEW h, Sums(f, h, B)
    PROVE  \A s \in SUBSET (A \cap B) : g[s] = h[s]
<1> DEFINE T == {s \in SUBSET (A \cap B) : g[s] # h[s]}
<1> SUFFICES ASSUME T # {} PROVE FALSE
  OBVIOUS
<1>1. PICK s \in T : \A t \in T : t \subseteq s => t = s
  <2>1. T \in SUBSET (SUBSET S)
    OBVIOUS
  <2> HIDE DEF T
  <2> QED
    BY <2>1, SmallestSubset
<1>2. s \in SUBSET A /\ s \in SUBSET B /\ g[s] # h[s]
  OBVIOUS
<1>3. CASE s = {}
  BY <1>2, <1>3 DEF Sums
<1>4. CASE s # {}
  <2> DEFINE rest == s \ {Pick(s)}
  <2>1. rest \in SUBSET (A \cap B) /\ rest \subseteq s /\ rest # s
    BY <1>2, <1>4, PickLeaves
  <2>2. g[rest] = h[rest]
    BY <1>1, <2>1
  <2>3. g[s] = f[Pick(s)] + g[rest] /\ h[s] = f[Pick(s)] + h[rest]
    BY <1>2, <1>4 DEF Sums
  <2> QED
    BY <1>2, <2>2, <2>3
<1> QED
  BY <1>3, <1>4

\* Over a finite set the table of sums exists.
LEMMA SumsExist ==
    ASSUME NEW S, IsFiniteSet(S), NEW f
    PROVE  \E g : Sums(f, g, S)
<1> DEFINE T == {s \in SUBSET S : ~ \E g : Sums(f, g, s)}
<1> SUFFICES ASSUME T # {} PROVE FALSE
  OBVIOUS
<1>1. PICK s \in T : \A t \in T : t \subseteq s => t = s
  <2>1. T \in SUBSET (SUBSET S)
    OBVIOUS
  <2> HIDE DEF T
  <2> QED
    BY <2>1, SmallestSubset
<1> DEFINE Table(t) == CHOOSE g : Sums(f, g, t)
           rest == s \ {Pick(s)}
           G == [t \in SUBSET s |->
                    IF t = {} THEN 0
                    ELSE IF t = s THEN f[Pick(s)] + Table(rest)[rest]
                    ELSE Table(t)[t]]
<1>2. s \in SUBSET S
  OBVIOUS
<1>3. ASSUME NEW t \in SUBSET s, t # s
      PROVE  Sums(f, Table(t), t)
  <2>1. t \notin T
    BY <1>1, <1>3
  <2>2. \E g : Sums(f, g, t)
    BY <1>2, <2>1
  <2> QED
    BY <2>2
<1>4. ASSUME NEW t \in SUBSET s, t # {}
      PROVE  G[t] = f[Pick(t)] + G[t \ {Pick(t)}]
  <2> DEFINE less == t \ {Pick(t)}
  <2>1. less \in SUBSET s /\ less \subseteq t /\ less # t /\ less # s
    BY <1>4, PickLeaves
  <2>2. Sums(f, Table(less), less)
    BY <1>3, <2>1
  <2>3. G[less] = Table(less)[less]
    <3>1. CASE less = {}
      <4>1. Table(less)[less] = 0
        BY <2>2, <3>1 DEF Sums
      <4> HIDE DEF Table
      <4> QED
        BY <2>1, <3>1, <4>1
    <3>2. CASE less # {}
      <4> HIDE DEF Table
      <4> QED
        BY <2>1, <3>2
    <3> QED
      BY <3>1, <3>2
  <2>4. CASE t = s
    <3> HIDE DEF Table
    <3> QED
      BY <1>4, <2>3, <2>4
  <2>5. CASE t # s
    <3>1. Sums(f, Table(t), t)
      BY <1>3, <2>5
    <3> HIDE DEF Table
    <3>2. Table(t)[t] = f[Pick(t)] + Table(t)[less]
      BY <1>4, <3>1 DEF Sums
    <3>3. Table(t)[less] = Table(less)[less]
      <4>1. t \in SUBSET S /\ less \in SUBSET S /\ less \in SUBSET (t \cap less)
        BY <1>2, <2>1
      <4> HIDE DEF less
      <4> QED
        BY <2>2, <3>1, <4>1, SumsAgree
    <3>4. G[t] = Table(t)[t]
      BY <1>4, <2>5
    <3> QED
      BY <2>3, <3>2, <3>3, <3>4
  <2> QED
    BY <2>4, <2>5
<1>5. G[{}] = 0
  BY Zenon
<1>6. G = [t \in SUBSET s |-> G[t]]
  OBVIOUS
<1>7. Sums(f, G, s)
  <2> HIDE DEF G
  <2> QED
    BY <1>4, <1>5, <1>6 DEF Sums
<1> QED
  BY <1>1, <1>7

\* The tables of two functions that differ in one place differ by as much on
\* the sets that contain it, and not at all on the others.
LEMMA SumsMove ==
    ASSUME NEW S, IsFiniteSet(S), NEW f \in [S -> Int], NEW h \in [S -> Int],
           NEW x \in S, \A y \in S \ {x} : h[y] = f[y],
           NEW g, Sums(f, g, S), NEW k, Sums(h, k, S)
    PROVE  \A s \in SUBSET S :
               g[s] \in Int /\ k[s] = g[s] + If(x \in s, h[x] - f[x])
<1> DEFINE Good(s) == g[s] \in Int /\ k[s] = g[s] + If(x \in s, h[x] - f[x])
           T == {s \in SUBSET S : ~ Good(s)}
<1> SUFFICES ASSUME T # {} PROVE FALSE
  OBVIOUS
<1>1. PICK s \in T : \A t \in T : t \subseteq s => t = s
  <2>1. T \in SUBSET (SUBSET S)
    OBVIOUS
  <2> HIDE DEF T
  <2> QED
    BY <2>1, SmallestSubset
<1>2. s \in SUBSET S /\ ~ Good(s)
  OBVIOUS
<1>3. CASE s = {}
  BY <1>2, <1>3 DEF Sums, If
<1>4. CASE s # {}
  <2> DEFINE p == Pick(s)
             rest == s \ {p}
  <2>1. p \in s /\ rest \in SUBSET S /\ rest \subseteq s /\ rest # s
    BY <1>2, <1>4, PickLeaves
  <2>2. Good(rest)
    <3> HIDE DEF Good
    <3> QED
      BY <1>1, <2>1
  <2>3. g[s] = f[p] + g[rest] /\ k[s] = h[p] + k[rest]
    BY <1>2, <1>4 DEF Sums
  <2>4. f[p] \in Int /\ h[p] \in Int /\ f[x] \in Int /\ h[x] \in Int
    BY <1>2, <2>1
  <2>5. p # x => h[p] = f[p]
    BY <1>2, <2>1
  <2>6. x \in rest <=> x \in s /\ x # p
    OBVIOUS
  <2> HIDE DEF p, rest
  <2> QED
    BY <1>2, <2>1, <2>2, <2>3, <2>4, <2>5, <2>6 DEF If
<1> QED
  BY <1>3, <1>4

\* Changing a function in one place changes its sum by as much.
LEMMA SumMoves ==
    ASSUME NEW S, IsFiniteSet(S), NEW f \in [S -> Int], NEW h \in [S -> Int],
           NEW x \in S, \A y \in S \ {x} : h[y] = f[y]
    PROVE  /\ SumFunction(f) \in Int
           /\ SumFunction(h) = SumFunction(f) + h[x] - f[x]
<1> DEFINE g == CHOOSE t : Sums(f, t, S)
           k == CHOOSE t : Sums(h, t, S)
<1>1. Sums(f, g, S) /\ Sums(h, k, S)
  BY SumsExist
<1>2. SumFunction(f) = g[S] /\ SumFunction(h) = k[S]
  <2>1. DOMAIN f = S /\ DOMAIN h = S
    OBVIOUS
  <2> QED
    BY <2>1, SumUnfolded
<1> HIDE DEF g, k
<1>3. g[S] \in Int /\ k[S] = g[S] + If(x \in S, h[x] - f[x])
  BY <1>1, SumsMove
<1>4. f[x] \in Int /\ h[x] \in Int
  OBVIOUS
<1> QED
  BY <1>2, <1>3, <1>4 DEF If

\* A function that is zero everywhere has the sum zero.
LEMMA SumOfZeros ==
    ASSUME NEW S, IsFiniteSet(S)
    PROVE  SumFunction([x \in S |-> 0]) = 0
<1> DEFINE f == [x \in S |-> 0]
           g == CHOOSE t : Sums(f, t, S)
           T == {s \in SUBSET S : g[s] # 0}
<1>1. Sums(f, g, S)
  BY SumsExist
<1>2. SumFunction(f) = g[S]
  <2>1. DOMAIN f = S
    OBVIOUS
  <2> HIDE DEF f
  <2> QED
    BY <2>1, SumUnfolded
<1> HIDE DEF g
<1>3. T = {}
  <2> SUFFICES ASSUME T # {} PROVE FALSE
    OBVIOUS
  <2>1. PICK s \in T : \A t \in T : t \subseteq s => t = s
    <3>1. T \in SUBSET (SUBSET S)
      OBVIOUS
    <3> HIDE DEF T
    <3> QED
      BY <3>1, SmallestSubset
  <2>2. s \in SUBSET S /\ g[s] # 0
    OBVIOUS
  <2>3. s # {}
    BY <1>1, <2>2 DEF Sums
  <2> DEFINE rest == s \ {Pick(s)}
  <2>4. Pick(s) \in s /\ rest \in SUBSET S /\ rest \subseteq s /\ rest # s
    BY <2>2, <2>3, PickLeaves
  <2>5. g[rest] = 0
    BY <2>1, <2>4
  <2>6. g[s] = f[Pick(s)] + g[rest]
    BY <1>1, <2>2, <2>3 DEF Sums
  <2> QED
    BY <2>2, <2>4, <2>5, <2>6
<1> QED
  BY <1>2, <1>3

-----------------------------------------------------------------------------
(* The balances and the stored trades.                                     *)

\* There are as many trade ids as secrets.
LEMMA TradeIdsFinite == IsFiniteSet(TradeIds)
<1> DEFINE id == [s \in Secrets |-> ComputeTradeId(Sha256(s))]
<1>1. id \in Surjection(Secrets, TradeIds)
  <2>1. id \in [Secrets -> TradeIds]
    BY HashTypes
  <2>2. \A i \in TradeIds : \E s \in Secrets : id[s] = i
    BY DEF TradeIds, Hashes
  <2> QED
    BY <2>1, <2>2 DEF Surjection
<1> QED
  BY <1>1, FS_Surjection, SecretAssumption

\* A net effect is a number, and that of no trade is zero.
LEMMA NetEffectType ==
    ASSUME NEW t \in TradeEscrow \cup {NoTrade}, NEW wallet, NEW a
    PROVE  /\ NetEffect(t, wallet, a) \in Int
           /\ t = NoTrade => NetEffect(t, wallet, a) = 0
<1>1. CASE t = NoTrade
  BY <1>1 DEF NetEffect, NoTrade
<1>2. CASE t \in TradeEscrow
  <2>1. /\ t.amount \in Int /\ t.platform_fee \in Int /\ Total(t) \in Int
        /\ t.status \in TradeStatus /\ t # NoTrade
    BY <1>2 DEF TradeEscrow, Total, NoTrade, TradeStatus
  <2>2. CASE t.status = "Locked"
    BY <2>1, <2>2 DEF NetEffect, If
  <2>3. CASE t.status = "Released"
    BY <2>1, <2>3 DEF NetEffect, If
  <2>4. CASE t.status = "Refunded"
    BY <2>1, <2>4 DEF NetEffect
  <2> QED
    BY <2>1, <2>2, <2>3, <2>4 DEF TradeStatus
<1> QED
  BY <1>1, <1>2

\* Before the first lock nothing has moved.
LEMMA InitExplained == Init => BalancesExplained
<1> SUFFICES ASSUME Init, NEW a \in Addresses
             PROVE  balance[a] = (IF a = Contract THEN 0 ELSE Endowment)
                                 + SumFunction(NetEffects(a))
  BY DEF BalancesExplained
<1>1. NetEffects(a) = [id \in TradeIds |-> 0]
  BY DEF Init, NetEffects, NetEffect, NoTrade
<1>2. SumFunction(NetEffects(a)) = 0
  BY <1>1, TradeIdsFinite, SumOfZeros
<1> QED
  BY <1>2 DEF Init

\* The wallet is named once, when no trade is stored that could owe it a fee.
LEMMA WalletFixed ==
    ASSUME Inv, [Next]_vars
    PROVE  \/ platform_wallet' = platform_wallet
           \/ /\ UNCHANGED <<trades, balance>>
              /\ \A id \in TradeIds : trades[id] = NoTrade
<1>1. ASSUME NEW a \in Users, NEW w \in Users, Initialize(a, w)
      PROVE  UNCHANGED <<trades, balance>> /\ \A id \in TradeIds : trades[id] = NoTrade
  BY <1>1 DEF Inv, Initialized, Initialize
<1> QED
  BY <1>1 DEF Next, Lock, Release, Refund, Disclose, CloseLedger, vars

\* A step moves each balance by what it moves the sum of the net effects by.
LEMMA StepExplained ==
    ASSUME RejectsDuplicates, Inv, BalancesExplained, [Next]_vars
    PROVE  BalancesExplained'
<1> SUFFICES ASSUME NEW a \in Addresses
             PROVE  balance'[a] = (IF a = Contract THEN 0 ELSE Endowment)
                                  + SumFunction(NetEffects(a)')
  BY DEF BalancesExplained
<1>1. TypeOK /\ TypeOK'
  BY NextInv DEF Inv
<1>2. /\ NetEffects(a) \in [TradeIds -> Int]
      /\ NetEffects(a)' \in [TradeIds -> Int]
      /\ balance[a] \in Int /\ balance'[a] \in Int
  BY <1>1, NetEffectType DEF NetEffects, TypeOK
<1>3. balance[a] = (IF a = Contract THEN 0 ELSE Endowment) + SumFunction(NetEffects(a))
  BY DEF BalancesExplained
<1>4. ASSUME UNCHANGED <<trades, balance>>
      PROVE  NetEffects(a)' = NetEffects(a)
  <2>1. CASE platform_wallet' = platform_wallet
    BY <1>4, <2>1 DEF NetEffects
  <2>2. CASE \A id \in TradeIds : trades[id] = NoTrade
    BY <1>4, <2>2 DEF NetEffects, NetEffect, NoTrade
  <2> QED
    BY <2>1, <2>2, WalletFixed
<1>5. ASSUME NEW id \in TradeIds, AccountsForTrade(id), ~ UNCHANGED <<trades, balance>>
      PROVE  balance'[a] = (IF a = Contract THEN 0 ELSE Endowment)
                           + SumFunction(NetEffects(a)')
  <2>1. platform_wallet' = platform_wallet
    BY <1>5, WalletFixed
  <2>2. PICK f : f = NetEffects(a)
    OBVIOUS
  <2>3. PICK h : h = NetEffects(a)'
    OBVIOUS
  <2>4. \A other \in TradeIds \ {id} : h[other] = f[other]
    BY <1>5, <2>1, <2>2, <2>3 DEF AccountsForTrade, NetEffects
  <2>5. balance'[a] - balance[a] = h[id] - f[id]
    BY <1>5, <2>1, <2>2, <2>3 DEF AccountsForTrade, NetEffects
  <2>6. f \in [TradeIds -> Int] /\ h \in [TradeIds -> Int]
    BY <1>2, <2>2, <2>3
  <2>7. SumFunction(f) \in Int /\ SumFunction(h) = SumFunction(f) + h[id] - f[id]
    BY <2>4, <2>6, TradeIdsFinite, SumMoves
  <2>8. f[id] \in Int /\ h[id] \in Int /\ Endowment \in Int
    BY <2>6
  <2>9. balance[a] = (IF a = Contract THEN 0 ELSE Endowment) + SumFunction(f)
    BY <1>3, <2>2
  <2>10. balance'[a] = (IF a = Contract THEN 0 ELSE Endowment) + SumFunction(h)
    BY <1>2, <2>5, <2>7, <2>8, <2>9
  <2> QED
    BY <2>3, <2>10
<1> QED
  BY <1>3, <1>4, <1>5, StepAccounts

\* In a contract that rejects duplicate ids every balance is at all times
\* explained by the stored trades: whatever is locked, released and refunded in
\* whatever order, the contract owns exactly what its locked trades hold.
THEOREM BalancesExplainedAlways ==
    ASSUME RejectsDuplicates
    PROVE  Spec => []BalancesExplained
<1>1. Init => BalancesExplained
  BY InitExplained
<1>2. Inv /\ BalancesExplained /\ [Next]_vars => BalancesExplained'
  BY StepExplained
<1> QED
  BY <1>1, <1>2, InvHolds, PTL DEF Spec

-----------------------------------------------------------------------------
(* Refinement: the escrow implements the hashed timelock.                  *)

\* Changing one trade changes one lockbox.
LEMMA LockboxStep ==
    ASSUME NEW id \in TradeIds, NEW box,
           \A other \in TradeIds \ {id} : trades'[other] = trades[other],
           box = Lockbox'[id]
    PROVE  Lockbox' = [Lockbox EXCEPT ![id] = box]
<1>1. \A other \in TradeIds \ {id} : Lockbox'[other] = Lockbox[other]
  BY DEF Lockbox, IsLocked
<1>2. Lockbox = [i \in TradeIds |-> Lockbox[i]] /\ Lockbox' = [i \in TradeIds |-> Lockbox'[i]]
  BY DEF Lockbox
<1> HIDE DEF Lockbox
<1> QED
  BY <1>1, <1>2

\* Lock fills an empty lockbox with the total and adds it to the pool.
LEMMA LockRefines ==
    ASSUME RejectsDuplicates, Inv, NEW seller \in Users, NEW buyer \in Users,
           NEW amount \in Amounts, NEW fee \in Fees, NEW h \in Hashes, NEW m \in Minutes,
           Lock(seller, buyer, amount, fee, h, m)
    PROVE  \E id \in TradeIds : Promise!Lock(id)
<1> DEFINE id == ComputeTradeId(h)
           box == Lockbox'[id]
<1>1. /\ id \in TradeIds
      /\ \A other \in TradeIds \ {id} : trades'[other] = trades[other]
      /\ trades'[id].status = "Locked"
      /\ Total(trades'[id]) = amount + fee
      /\ trades'[id].timeout_ledger \in Nat
      /\ trades'[id].timeout_ledger >= ledger
      /\ amount \in Nat \ {0} /\ fee \in Nat
      /\ balance' = Transfer(balance, seller, Contract, amount + fee)
  BY LockEffect DEF Inv
<1>2. trades[id] = NoTrade /\ ledger' = ledger
  BY DEF Lock, CanLock
<1> HIDE DEF id
<1>3. box = [status |-> "Locked", held |-> amount + fee, timeout |-> trades'[id].timeout_ledger]
  BY <1>1 DEF Lockbox, IsLocked, NoTrade
<1>4. Lockbox[id].status = "None"
  BY <1>1, <1>2 DEF Lockbox
<1>5. Lockbox' = [Lockbox EXCEPT ![id] = box]
  BY <1>1, LockboxStep
<1>6. balance'[Contract] = balance[Contract] + (amount + fee)
  <2>1. Contract \in Addresses /\ balance[Contract] \in Nat /\ seller # Contract
    BY DEF Inv, TypeOK, Addresses
  <2> QED
    BY <1>1, <2>1 DEF Transfer, If
<1> HIDE DEF box
<1>7. box.held = amount + fee /\ box.timeout = trades'[id].timeout_ledger
  BY <1>3
<1>8. box = [status |-> "Locked", held |-> box.held, timeout |-> box.timeout]
  BY <1>3, <1>7
<1>9. box.held \in Nat \ {0} /\ box.timeout \in Nat /\ box.timeout >= ledger
  BY <1>1, <1>7
<1>10. Promise!Lock(id)
  BY <1>2, <1>4, <1>5, <1>6, <1>7, <1>8, <1>9 DEF Promise!Lock, box
<1> QED
  BY <1>1, <1>10

\* Leaving the Locked status empties the lockbox and takes its total from the
\* contract's balance.
LEMMA SettleRefines ==
    ASSUME Inv, NEW id \in TradeIds, IsLocked(id),
           NEW outcome \in {"Released", "Refunded"},
           trades' = [trades EXCEPT ![id].status = outcome],
           balance'[Contract] = balance[Contract] - Total(trades[id]),
           ledger' = ledger
    PROVE  Promise!Settle(id, outcome)
<1>1. /\ \A other \in TradeIds \ {id} : trades'[other] = trades[other]
      /\ trades[id] \in TradeEscrow
      /\ trades'[id] = [trades[id] EXCEPT !.status = outcome]
  BY SettledTrade DEF Inv
<1>2. /\ trades'[id].status = outcome
      /\ trades'[id].timeout_ledger = trades[id].timeout_ledger
      /\ trades'[id] # NoTrade /\ trades[id] # NoTrade
  BY <1>1 DEF TradeEscrow, NoTrade, IsLocked
<1>3. Lockbox[id] = [status |-> "Locked", held |-> Total(trades[id]),
                     timeout |-> trades[id].timeout_ledger]
  BY <1>2 DEF Lockbox, IsLocked
<1>4. Lockbox'[id] = [status |-> outcome, held |-> 0, timeout |-> trades[id].timeout_ledger]
  BY <1>2 DEF Lockbox, IsLocked
<1>5. Lockbox' = [Lockbox EXCEPT ![id] = Lockbox'[id]]
  BY <1>1, LockboxStep
<1> HIDE DEF Lockbox
<1>6. Lockbox' = [Lockbox EXCEPT ![id] =
                     [status |-> outcome, held |-> 0, timeout |-> Lockbox[id].timeout]]
  BY <1>3, <1>4, <1>5
<1> QED
  BY <1>3, <1>6 DEF Promise!Settle

LEMMA StepRefines ==
    ASSUME RejectsDuplicates, Inv, [Next]_vars
    PROVE  [Promise!Next]_(Promise!vars)
<1>1. ASSUME NEW seller \in Users, NEW buyer \in Users, NEW amount \in Amounts,
             NEW fee \in Fees, NEW h \in Hashes, NEW m \in Minutes,
             Lock(seller, buyer, amount, fee, h, m)
      PROVE  Promise!Next
  BY <1>1, LockRefines DEF Promise!Next
<1>2. ASSUME NEW caller \in Users, NEW id \in TradeIds, NEW s \in Secrets,
             Release(caller, id, s)
      PROVE  Promise!Next
  <2>1. /\ IsLocked(id)
        /\ trades[id] \in TradeEscrow
        /\ platform_wallet \in Users
        /\ \A a \in Addresses :
              balance'[a] = balance[a] + If(a = trades[id].buyer, trades[id].amount)
                            + If(a = platform_wallet, trades[id].platform_fee)
                            - If(a = Contract, Total(trades[id]))
    BY <1>2, ReleaseEffect DEF Inv
  <2>2. balance'[Contract] = balance[Contract] - Total(trades[id])
    <3>1. /\ Contract \in Addresses /\ balance[Contract] \in Nat
          /\ trades[id].buyer # Contract /\ platform_wallet # Contract
          /\ Total(trades[id]) \in Nat
      BY <2>1 DEF Inv, TypeOK, Addresses, TradeEscrow, Total
    <3> QED
      BY <2>1, <3>1 DEF If
  <2>3. Promise!Settle(id, "Released")
    BY <1>2, <2>1, <2>2, SettleRefines DEF Release
  <2> QED
    BY <2>3 DEF Promise!Next, Promise!Release
<1>3. ASSUME NEW id \in TradeIds, Refund(id)
      PROVE  Promise!Next
  <2>1. /\ IsLocked(id)
        /\ trades[id] \in TradeEscrow
        /\ \A a \in Addresses :
              balance'[a] = balance[a] + If(a = trades[id].seller, Total(trades[id]))
                            - If(a = Contract, Total(trades[id]))
    BY <1>3, RefundEffect DEF Inv
  <2>2. balance'[Contract] = balance[Contract] - Total(trades[id])
    <3>1. /\ Contract \in Addresses /\ balance[Contract] \in Nat
          /\ trades[id].seller # Contract /\ Total(trades[id]) \in Nat
      BY <2>1 DEF Inv, TypeOK, Addresses, TradeEscrow, Total
    <3> QED
      BY <2>1, <3>1 DEF If
  <2>3. Promise!Settle(id, "Refunded")
    BY <1>3, <2>1, <2>2, SettleRefines DEF Refund
  <2>4. ledger >= Lockbox[id].timeout
    BY <1>3, <2>1 DEF Refund, CanRefund, Lockbox, IsLocked, NoTrade
  <2> QED
    BY <2>3, <2>4 DEF Promise!Next, Promise!Refund
<1>4. ASSUME CloseLedger
      PROVE  Promise!Next
  BY <1>4 DEF CloseLedger, Promise!Next, Promise!CloseLedger, Lockbox, IsLocked
<1>5. ASSUME \/ UNCHANGED vars
             \/ \E s \in Secrets : Disclose(s)
             \/ \E a, w \in Users : Initialize(a, w)
      PROVE  UNCHANGED Promise!vars
  <2>1. UNCHANGED <<trades, balance, ledger>>
    BY <1>5 DEF Disclose, Initialize, vars
  <2> QED
    BY <2>1 DEF Promise!vars, Lockbox, IsLocked
<1> QED
  BY <1>1, <1>2, <1>3, <1>4, <1>5 DEF Next

\* A contract that rejects duplicate ids implements the HashedTimeLock promise:
\* what is locked under an id leaves the pool once and whole, and by refund
\* only after its timeout.
THEOREM EscrowImplementsHTLC ==
    ASSUME RejectsDuplicates
    PROVE  Spec => ImplementsHTLC
<1>1. Init => Promise!Init
  BY DEF Init, Promise!Init, Promise!NoLock, Lockbox, NoTrade, Addresses
<1>2. Inv /\ [Next]_vars => [Promise!Next]_(Promise!vars)
  BY StepRefines
<1> QED
  BY <1>1, <1>2, InvHolds, PTL DEF Spec, ImplementsHTLC, Promise!Spec
=============================================================================
