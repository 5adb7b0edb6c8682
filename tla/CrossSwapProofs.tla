-------------------------- MODULE CrossSwapProofs ---------------------------
(***************************************************************************)
(* That leg A is never paid out before leg B, that the status reported of  *)
(* a swap is backed by both chains, that a plan whose timeout leaves time  *)
(* enough pays both legs or neither, and that each leg is a hashed         *)
(* timelock: for every number of swaps, every plan and every ledger bound. *)
(***************************************************************************)
EXTENDS CrossSwap, TLAPS

USE LegAssumption DEF A!Assumptions, B!Assumptions

Paid(s) == LegB(s) = "Released"

\* The stores of both contracts and the job's own state are well formed.
Shaped ==
    /\ swapsA \in [A!SwapIds -> A!Swap \cup {A!NoSwap}]
    /\ swapsB \in [B!SwapIds -> B!Swap \cup {B!NoSwap}]
    /\ ledger \in 0 .. MaxLedger
    /\ job \in [Swaps -> [status : JobStatus, since : 0 .. MaxLedger]]
    /\ tx \in [Swaps -> [Steps -> [state : {"none", "sent", "ok", "failed"},
                                   at : 0 .. MaxLedger]]]

\* Whatever can lead to leg A being paid out comes after leg B's release: the
\* published secret, the job's last step, a transaction of that step.
BPaidFirst ==
    \A s \in Swaps :
        /\ s \in disclosed => Paid(s)
        /\ job[s].status \in {"releasing_a", "completed"} => Paid(s)
        /\ tx[s]["releasing_b"].state = "ok" => Paid(s)
        /\ tx[s]["releasing_a"].state # "none" => Paid(s)
        /\ LegA(s) = "Released" => Paid(s)

Inv == Shaped /\ BPaidFirst

\* Two swaps never share a storage entry.
LEMMA IdFacts ==
    /\ \A s \in Swaps : Hash(s) \in A!Hashes /\ Id(s) \in A!SwapIds
    /\ \A s \in Swaps : Hash(s) \in B!Hashes /\ Id(s) \in B!SwapIds
    /\ \A s, t \in Swaps : Id(s) = Id(t) => s = t
BY DEF Hash, Id, A!Hashes, B!Hashes, A!SwapIds, B!SwapIds,
       A!ComputeSwapId, B!ComputeSwapId, A!Sha256, B!Sha256

-----------------------------------------------------------------------------
(* What the calls do to the two stores.                                    *)

\* Locking leg A.
LEMMA LockA ==
    ASSUME Shaped, NEW s \in Swaps,
           A!Lock(Initiator, Counterparty, SellAsset, Amount, Hash(s), InitiatorLedgers)
    PROVE  /\ swapsA' \in [A!SwapIds -> A!Swap \cup {A!NoSwap}]
           /\ LegA(s)' = "Locked"
           /\ \A t \in Swaps \ {s} : LegA(t)' = LegA(t)
<1> DEFINE new == [initiator |-> Initiator, counterparty |-> Counterparty,
                   token |-> SellAsset, amount |-> Amount, secret_hash |-> Hash(s),
                   timeout_ledger |-> ledger + InitiatorLedgers, status |-> "Locked"]
<1>1. Amount > 0 /\ ledger + InitiatorLedgers <= MaxLedger
  BY DEF A!Lock, A!CanLock
<1>2. Amount \in Nat \ {0} /\ ledger + InitiatorLedgers \in 0 .. MaxLedger
  BY <1>1 DEF Shaped
<1>3. new \in A!Swap
  BY <1>2, IdFacts DEF A!Swap, A!SwapStatus, Parties
<1>4. swapsA' = [swapsA EXCEPT ![Id(s)] = new]
  BY DEF A!Lock, Id
<1>5. new.status = "Locked"
  OBVIOUS
<1> HIDE DEF new
<1>6. swapsA'[Id(s)] = new /\ \A t \in Swaps \ {s} : swapsA'[Id(t)] = swapsA[Id(t)]
  BY <1>4, IdFacts DEF Shaped
<1>7. swapsA' \in [A!SwapIds -> A!Swap \cup {A!NoSwap}]
  BY <1>3, <1>4, IdFacts DEF Shaped
<1> QED
  BY <1>5, <1>6, <1>7 DEF LegA

\* Locking leg B, which then was not paid before.
LEMMA LockB ==
    ASSUME Shaped, NEW s \in Swaps,
           B!Lock(Counterparty, Initiator, BuyAsset, Amount, Hash(s), CounterpartyLedgers)
    PROVE  /\ swapsB' \in [B!SwapIds -> B!Swap \cup {B!NoSwap}]
           /\ ~ Paid(s)
           /\ \A t \in Swaps \ {s} : LegB(t)' = LegB(t)
<1> DEFINE new == [initiator |-> Counterparty, counterparty |-> Initiator,
                   token |-> BuyAsset, amount |-> Amount, secret_hash |-> Hash(s),
                   timeout_ledger |-> ledger + CounterpartyLedgers, status |-> "Locked"]
<1>1. Amount > 0 /\ ledger + CounterpartyLedgers <= MaxLedger
  BY DEF B!Lock, B!CanLock
<1>2. Amount \in Nat \ {0} /\ ledger + CounterpartyLedgers \in 0 .. MaxLedger
  BY <1>1 DEF Shaped
<1>3. new \in B!Swap
  BY <1>2, IdFacts DEF B!Swap, B!SwapStatus, Parties
<1>4. swapsB[Id(s)] = B!NoSwap /\ swapsB' = [swapsB EXCEPT ![Id(s)] = new]
  BY DEF B!Lock, B!CanLock, Id, A!ComputeSwapId, B!ComputeSwapId, A!Sha256, B!Sha256
<1> HIDE DEF new
<1>5. \A t \in Swaps \ {s} : swapsB'[Id(t)] = swapsB[Id(t)]
  BY <1>4, IdFacts DEF Shaped
<1>6. swapsB' \in [B!SwapIds -> B!Swap \cup {B!NoSwap}]
  BY <1>3, <1>4, IdFacts DEF Shaped
<1> QED
  BY <1>4, <1>5, <1>6 DEF LegB, Paid, B!NoSwap

\* Releasing or refunding leg A.
LEMMA SettleA ==
    ASSUME Shaped, NEW s \in Swaps, swapsA[Id(s)].status = "Locked",
           NEW outcome \in {"Released", "Refunded"},
           swapsA' = [swapsA EXCEPT ![Id(s)].status = outcome]
    PROVE  /\ swapsA' \in [A!SwapIds -> A!Swap \cup {A!NoSwap}]
           /\ LegA(s)' = outcome
           /\ \A t \in Swaps \ {s} : LegA(t)' = LegA(t)
<1>1. swapsA[Id(s)] \in A!Swap
  BY IdFacts DEF Shaped, A!NoSwap
<1>2. /\ [swapsA[Id(s)] EXCEPT !.status = outcome] \in A!Swap
      /\ [swapsA[Id(s)] EXCEPT !.status = outcome].status = outcome
  BY <1>1 DEF A!Swap, A!SwapStatus
<1> QED
  BY <1>2, IdFacts DEF Shaped, LegA

\* Releasing or refunding leg B.
LEMMA SettleB ==
    ASSUME Shaped, NEW s \in Swaps, swapsB[Id(s)].status = "Locked",
           NEW outcome \in {"Released", "Refunded"},
           swapsB' = [swapsB EXCEPT ![Id(s)].status = outcome]
    PROVE  /\ swapsB' \in [B!SwapIds -> B!Swap \cup {B!NoSwap}]
           /\ LegB(s)' = outcome
           /\ ~ Paid(s)
           /\ \A t \in Swaps \ {s} : LegB(t)' = LegB(t)
<1>1. swapsB[Id(s)] \in B!Swap
  BY IdFacts DEF Shaped, B!NoSwap
<1>2. /\ [swapsB[Id(s)] EXCEPT !.status = outcome] \in B!Swap
      /\ [swapsB[Id(s)] EXCEPT !.status = outcome].status = outcome
  BY <1>1 DEF B!Swap, B!SwapStatus
<1> QED
  BY <1>2, IdFacts DEF Shaped, LegB, Paid

-----------------------------------------------------------------------------
(* The invariant.                                                          *)

LEMMA InitInv == Init => Inv
<1> SUFFICES ASSUME Init PROVE Inv
  OBVIOUS
<1>1. Shaped
  BY DEF Init, A!Init, B!Init, Shaped, NoTx, JobStatus, Running
<1>2. \A s \in Swaps : LegA(s) = "None"
  BY IdFacts DEF Init, A!Init, LegA, A!NoSwap
<1> QED
  BY <1>1, <1>2 DEF Init, A!Init, Inv, BPaidFirst, NoTx, Steps, Running

\* Changing the state of one transaction.
LEMMA TxStep ==
    ASSUME Shaped, NEW s \in Swaps, NEW step \in Steps,
           NEW state \in {"none", "sent", "ok", "failed"},
           tx' = [tx EXCEPT ![s][step].state = state]
    PROVE  /\ tx' \in [Swaps -> [Steps -> [state : {"none", "sent", "ok", "failed"},
                                         at : 0 .. MaxLedger]]]
           /\ tx'[s][step].state = state /\ tx'[s][step].at = tx[s][step].at
           /\ \A t \in Swaps \ {s} : tx'[t] = tx[t]
           /\ \A t \in Swaps, o \in Steps : t # s \/ o # step => tx'[t][o] = tx[t][o]
<1> DEFINE Tx == [state : {"none", "sent", "ok", "failed"}, at : 0 .. MaxLedger]
           new == [tx[s][step] EXCEPT !.state = state]
<1>1. tx \in [Swaps -> [Steps -> Tx]]
  BY DEF Shaped
<1>2. tx[s][step] \in Tx
  BY <1>1
<1>3. new \in Tx /\ new.state = state /\ new.at = tx[s][step].at
  BY <1>2
<1> HIDE DEF new, Tx
<1>4. tx' = [tx EXCEPT ![s] = [tx[s] EXCEPT ![step] = new]]
  BY DEF new
<1>5. [tx[s] EXCEPT ![step] = new] \in [Steps -> Tx]
  BY <1>1, <1>3
<1>6. tx' \in [Swaps -> [Steps -> Tx]]
  BY <1>1, <1>4, <1>5
<1>7. tx'[s] = [tx[s] EXCEPT ![step] = new] /\ \A t \in Swaps \ {s} : tx'[t] = tx[t]
  BY <1>1, <1>4
<1>8. tx'[s][step] = new /\ \A o \in Steps \ {step} : tx'[s][o] = tx[s][o]
  BY <1>1, <1>7
<1> QED
  BY <1>3, <1>6, <1>7, <1>8 DEF Tx

\* What the four calls do, when a ledger includes them.
LEMMA EffectInv ==
    ASSUME Inv, NEW s \in Swaps, NEW step \in Steps, Effect(s, step), UNCHANGED job,
           tx' = [tx EXCEPT ![s][step].state = "ok"],
           tx[s][step].state = "sent"
    PROVE  Inv'
<1>0. Shaped /\ BPaidFirst
  BY DEF Inv
<1>1. /\ tx' \in [Swaps -> [Steps -> [state : {"none", "sent", "ok", "failed"},
                                      at : 0 .. MaxLedger]]]
      /\ tx'[s][step].state = "ok"
      /\ \A t \in Swaps, o \in Steps : t # s \/ o # step => tx'[t][o] = tx[t][o]
  BY <1>0, TxStep
<1>2. job' \in [Swaps -> [status : JobStatus, since : 0 .. MaxLedger]]
  BY <1>0 DEF Shaped
<1>s. {"releasing_a", "releasing_b"} \subseteq Steps
  BY DEF Steps, Running
<1>3. CASE /\ step = "locking_a"
           /\ A!Lock(Initiator, Counterparty, SellAsset, Amount, Hash(s), CallLedgers(step))
           /\ LegsUnchanged("A")
  <2>1. A!Lock(Initiator, Counterparty, SellAsset, Amount, Hash(s), InitiatorLedgers)
    BY <1>3 DEF CallLedgers
  <2>2. UNCHANGED <<swapsB, ledger, disclosed>>
    BY <1>3, <2>1 DEF LegsUnchanged, A!Lock
  <2>3. \A t \in Swaps : Paid(t)' = Paid(t)
    BY <2>2 DEF Paid, LegB
  <2> QED
    BY <1>0, <1>1, <1>2, <1>3, <1>s, <2>1, <2>2, <2>3, LockA DEF Inv, Shaped, BPaidFirst
<1>4. CASE /\ step = "locking_b"
           /\ B!Lock(Counterparty, Initiator, BuyAsset, Amount, Hash(s), CallLedgers(step))
           /\ LegsUnchanged("B")
  <2>1. B!Lock(Counterparty, Initiator, BuyAsset, Amount, Hash(s), CounterpartyLedgers)
    BY <1>4 DEF CallLedgers
  <2>2. UNCHANGED <<swapsA, ledger, disclosed>>
    BY <1>4, <2>1 DEF LegsUnchanged, B!Lock
  <2>3. /\ swapsB' \in [B!SwapIds -> B!Swap \cup {B!NoSwap}]
        /\ \A t \in Swaps : Paid(t) => Paid(t)'
    BY <1>0, <2>1, LockB DEF Paid
  <2>4. \A t \in Swaps : LegA(t)' = LegA(t)
    BY <2>2 DEF LegA
  <2> QED
    BY <1>0, <1>1, <1>2, <1>4, <1>s, <2>2, <2>3, <2>4 DEF Inv, Shaped, BPaidFirst
<1>5. CASE step = "releasing_b" /\ B!Release(Id(s), s) /\ LegsUnchanged("B")
  <2>1. /\ swapsB[Id(s)].status = "Locked"
        /\ swapsB' = [swapsB EXCEPT ![Id(s)].status = "Released"]
        /\ disclosed' = disclosed \cup {s}
        /\ UNCHANGED <<swapsA, ledger>>
    BY <1>5 DEF B!Release, B!CanRelease, B!IsLocked, LegsUnchanged
  <2>2. /\ swapsB' \in [B!SwapIds -> B!Swap \cup {B!NoSwap}]
        /\ Paid(s)'
        /\ \A t \in Swaps : Paid(t) => Paid(t)'
    BY <1>0, <2>1, SettleB DEF Paid
  <2>3. \A t \in Swaps : LegA(t)' = LegA(t)
    BY <2>1 DEF LegA
  <2> QED
    BY <1>0, <1>1, <1>2, <1>5, <1>s, <2>1, <2>2, <2>3 DEF Inv, Shaped, BPaidFirst
<1>6. CASE step = "releasing_a" /\ A!Release(Id(s), s) /\ LegsUnchanged("A")
  <2>1. /\ swapsA[Id(s)].status = "Locked"
        /\ swapsA' = [swapsA EXCEPT ![Id(s)].status = "Released"]
        /\ disclosed' = disclosed \cup {s}
        /\ UNCHANGED <<swapsB, ledger>>
    BY <1>6 DEF A!Release, A!CanRelease, A!IsLocked, LegsUnchanged
  <2>2. \A t \in Swaps : Paid(t)' = Paid(t)
    BY <2>1 DEF Paid, LegB
  <2>3. Paid(s)
    BY <1>0, <1>6 DEF BPaidFirst
  <2>4. /\ swapsA' \in [A!SwapIds -> A!Swap \cup {A!NoSwap}]
        /\ \A t \in Swaps \ {s} : LegA(t)' = LegA(t)
    BY <1>0, <2>1, SettleA
  <2>5. Shaped'
    BY <1>0, <1>1, <1>2, <2>1, <2>4 DEF Shaped
  <2>6. \A t \in Swaps : LegA(t)' = "Released" => t = s \/ LegA(t) = "Released"
    BY <2>4
  <2> QED
    BY <1>0, <1>1, <1>6, <1>s, <2>1, <2>2, <2>3, <2>5, <2>6 DEF Inv, BPaidFirst
<1> QED
  BY <1>3, <1>4, <1>5, <1>6 DEF Effect

\* What happens to a leg outside the job: a refund, or the counterparty's claim.
LEMMA OutsideInv ==
    ASSUME Inv, NEW s \in Swaps, RefundA(s) \/ RefundB(s) \/ Claim(s)
    PROVE  Inv'
<1>0. Shaped /\ BPaidFirst
  BY DEF Inv
<1>1. UNCHANGED <<job, tx, ledger>>
  BY DEF RefundA, RefundB, Claim, A!Refund, B!Refund, A!Release
<1>2. CASE RefundA(s)
  <2>1. /\ swapsA[Id(s)].status = "Locked"
        /\ swapsA' = [swapsA EXCEPT ![Id(s)].status = "Refunded"]
        /\ UNCHANGED <<swapsB, disclosed>>
    BY <1>2 DEF RefundA, A!Refund, A!CanRefund, A!IsLocked, LegsUnchanged
  <2>2. \A t \in Swaps : Paid(t)' = Paid(t)
    BY <2>1 DEF Paid, LegB
  <2>3. /\ swapsA' \in [A!SwapIds -> A!Swap \cup {A!NoSwap}]
        /\ LegA(s)' = "Refunded"
        /\ \A t \in Swaps \ {s} : LegA(t)' = LegA(t)
    BY <1>0, <2>1, SettleA
  <2> QED
    BY <1>0, <1>1, <2>1, <2>2, <2>3 DEF Inv, Shaped, BPaidFirst
<1>3. CASE RefundB(s)
  <2>1. /\ swapsB[Id(s)].status = "Locked"
        /\ swapsB' = [swapsB EXCEPT ![Id(s)].status = "Refunded"]
        /\ UNCHANGED <<swapsA, disclosed>>
    BY <1>3 DEF RefundB, B!Refund, B!CanRefund, B!IsLocked, LegsUnchanged
  <2>2. /\ swapsB' \in [B!SwapIds -> B!Swap \cup {B!NoSwap}]
        /\ \A t \in Swaps : Paid(t) => Paid(t)'
    BY <1>0, <2>1, SettleB DEF Paid
  <2>3. \A t \in Swaps : LegA(t)' = LegA(t)
    BY <2>1 DEF LegA
  <2> QED
    BY <1>0, <1>1, <2>1, <2>2, <2>3 DEF Inv, Shaped, BPaidFirst
<1>4. CASE Claim(s)
  <2>1. /\ swapsA[Id(s)].status = "Locked"
        /\ swapsA' = [swapsA EXCEPT ![Id(s)].status = "Released"]
        /\ disclosed' = disclosed \cup {s}
        /\ UNCHANGED swapsB
        /\ s \in disclosed
    BY <1>4 DEF Claim, A!Release, A!CanRelease, A!IsLocked, LegsUnchanged
  <2>2. \A t \in Swaps : Paid(t)' = Paid(t)
    BY <2>1 DEF Paid, LegB
  <2>3. Paid(s)
    BY <1>0, <2>1 DEF BPaidFirst
  <2>4. /\ swapsA' \in [A!SwapIds -> A!Swap \cup {A!NoSwap}]
        /\ \A t \in Swaps \ {s} : LegA(t)' = LegA(t)
    BY <1>0, <2>1, SettleA
  <2> QED
    BY <1>0, <1>1, <2>1, <2>2, <2>3, <2>4 DEF Inv, Shaped, BPaidFirst
<1> QED
  BY <1>2, <1>3, <1>4

\* The job's own steps, which leave the chain alone.
LEMMA JobInv ==
    ASSUME Inv, NEW s \in Swaps, Execute(s) \/ Send(s) \/ Confirm(s) \/ Fail(s)
    PROVE  Inv'
<1>0. Shaped /\ BPaidFirst
  BY DEF Inv
<1>1. UNCHANGED <<swapsA, swapsB, disclosed, ledger>>
  BY DEF Execute, Send, Confirm, Fail, chainVars
<1>2. \A t \in Swaps : Paid(t)' = Paid(t) /\ LegA(t)' = LegA(t)
  BY <1>1 DEF Paid, LegB, LegA
<1>3. CASE Send(s)
  <2> DEFINE step == job[s].status
  <2>1. /\ step \in Steps
        /\ tx' = [tx EXCEPT ![s][step] = [state |-> "sent", at |-> ledger]]
        /\ job' = job
    BY <1>3 DEF Send, Steps
  <2>2. /\ tx' \in [Swaps -> [Steps -> [state : {"none", "sent", "ok", "failed"},
                                        at : 0 .. MaxLedger]]]
        /\ tx'[s][step].state = "sent"
        /\ \A t \in Swaps, o \in Steps : t # s \/ o # step => tx'[t][o] = tx[t][o]
    BY <1>0, <2>1 DEF Shaped
  <2>3. {"releasing_a", "releasing_b"} \subseteq Steps
    BY DEF Steps, Running
  <2> QED
    BY <1>0, <1>1, <1>2, <2>1, <2>2, <2>3 DEF Inv, Shaped, BPaidFirst
<1>4. ASSUME NEW status \in JobStatus, Enter(s, status), UNCHANGED tx,
             status \in {"releasing_a", "completed"} => Paid(s)
      PROVE  Inv'
  <2>1. /\ job' \in [Swaps -> [status : JobStatus, since : 0 .. MaxLedger]]
        /\ job'[s].status = status
        /\ \A t \in Swaps \ {s} : job'[t] = job[t]
    BY <1>0, <1>4 DEF Enter, Shaped
  <2> QED
    BY <1>0, <1>1, <1>2, <1>4, <2>1 DEF Inv, Shaped, BPaidFirst
<1>5. CASE Confirm(s)
  <2> DEFINE step == job[s].status
  <2>1. /\ step \in Running /\ tx[s][step].state = "ok"
        /\ Enter(s, NextStatus(step)) /\ UNCHANGED tx
    BY <1>5 DEF Confirm
  <2>2. NextStatus(step) \in JobStatus
    BY <2>1 DEF NextStatus, Running, JobStatus
  <2>3. NextStatus(step) \in {"releasing_a", "completed"} => step \in {"releasing_b", "releasing_a"}
    BY <2>1 DEF NextStatus, Running
  <2>4. NextStatus(step) \in {"releasing_a", "completed"} => Paid(s)
    BY <1>0, <2>1, <2>3 DEF BPaidFirst
  <2> QED
    BY <1>4, <2>1, <2>2, <2>4
<1>6. CASE Execute(s) \/ Fail(s)
  <2>1. \/ Enter(s, "locking_a")
        \/ Enter(s, "failed")
    BY <1>6 DEF Execute, Fail
  <2>2. UNCHANGED tx
    BY <1>6 DEF Execute, Fail
  <2>3. {"locking_a", "failed"} \subseteq JobStatus
    BY DEF JobStatus, Running
  <2> QED
    BY <1>4, <2>1, <2>2, <2>3
<1> QED
  BY <1>3, <1>5, <1>6

LEMMA StepInv == Inv /\ [Next]_vars => Inv'
<1> SUFFICES ASSUME Inv, [Next]_vars PROVE Inv'
  OBVIOUS
<1>0. Shaped /\ BPaidFirst
  BY DEF Inv
<1>1. ASSUME NEW s \in Swaps, NEW step \in Steps, Include(s, step) \/ Expire(s, step)
      PROVE  Inv'
  <2>1. CASE Include(s, step) /\ Succeeds(s, step)
    BY <2>1, EffectInv DEF Include
  <2>2. CASE (Include(s, step) /\ ~ Succeeds(s, step)) \/ Expire(s, step)
    <3>1. /\ tx[s][step].state = "sent"
          /\ tx' = [tx EXCEPT ![s][step].state = "failed"]
          /\ UNCHANGED <<swapsA, swapsB, disclosed, ledger, job>>
      BY <2>2 DEF Include, Expire, chainVars
    <3>2. \A t \in Swaps : Paid(t)' = Paid(t) /\ LegA(t)' = LegA(t)
      BY <3>1 DEF Paid, LegB, LegA
    <3>3. /\ tx' \in [Swaps -> [Steps -> [state : {"none", "sent", "ok", "failed"},
                                          at : 0 .. MaxLedger]]]
          /\ tx'[s][step].state = "failed"
          /\ \A t \in Swaps, o \in Steps : t # s \/ o # step => tx'[t][o] = tx[t][o]
      BY <1>0, <3>1, TxStep
    <3>4. {"releasing_a", "releasing_b"} \subseteq Steps
      BY DEF Steps, Running
    <3> QED
      BY <1>0, <3>1, <3>2, <3>3, <3>4 DEF Inv, Shaped, BPaidFirst
  <2> QED
    BY <1>1, <2>1, <2>2
<1>2. CASE Crash
  <2>1. /\ job' = [s \in Swaps |-> [status |-> "unknown", since |-> 0]]
        /\ UNCHANGED <<swapsA, swapsB, disclosed, ledger, tx>>
    BY <1>2 DEF Crash, chainVars
  <2>2. \A t \in Swaps : Paid(t)' = Paid(t) /\ LegA(t)' = LegA(t)
    BY <2>1 DEF Paid, LegB, LegA
  <2>3. job' \in [Swaps -> [status : JobStatus, since : 0 .. MaxLedger]]
    BY <2>1 DEF JobStatus
  <2>4. \A s \in Swaps : job'[s].status = "unknown"
    BY <2>1
  <2> QED
    BY <1>0, <2>1, <2>2, <2>3, <2>4 DEF Inv, Shaped, BPaidFirst
<1>3. CASE CloseLedger \/ UNCHANGED vars
  <2>1. UNCHANGED <<swapsA, swapsB, disclosed, job, tx>>
    BY <1>3 DEF CloseLedger, vars, chainVars
  <2>2. ledger' \in 0 .. MaxLedger
    BY <1>0, <1>3 DEF CloseLedger, vars, Shaped
  <2>3. \A t \in Swaps : Paid(t)' = Paid(t) /\ LegA(t)' = LegA(t)
    BY <2>1 DEF Paid, LegB, LegA
  <2> QED
    BY <1>0, <2>1, <2>2, <2>3 DEF Inv, Shaped, BPaidFirst
<1> QED
  BY <1>1, <1>2, <1>3, JobInv, OutsideInv DEF Next

\* Leg A is paid out only after leg B was, through every failure, restart and
\* late transaction of the executor.
THEOREM PaidInOrderHolds == Spec => []PaidInOrder
<1>1. Inv => PaidInOrder
  BY DEF Inv, BPaidFirst, PaidInOrder, Paid
<1> QED
  BY <1>1, InitInv, StepInv, PTL DEF Spec
-----------------------------------------------------------------------------
(* What the job's status rests on, and how old each thing can be.          *)

Deadline(s) == swapsA[Id(s)].timeout_ledger

\* The job's status and its transactions tell what happened to the legs.
Backed(s) ==
    /\ tx[s]["locking_a"].state = "ok" <=> LegA(s) # "None"
    /\ tx[s]["locking_b"].state = "ok" => LegB(s) # "None"
    /\ tx[s]["releasing_a"].state = "ok" => LegA(s) = "Released"
    /\ job[s].status \in {"locking_b", "releasing_b", "releasing_a"} => LegA(s) # "None"
    /\ job[s].status = "releasing_b" => LegB(s) # "None"
    /\ job[s].status = "completed" => LegA(s) = "Released"

\* Each stage of a swap comes soon after the lock of leg A: the last poll that
\* the job may wait for, the last ledger that may include its transaction, the
\* last one in which the counterparty may have left the secret unused.
Timely(s) ==
    /\ job[s].since <= ledger
    /\ job[s].status \in Running => ledger <= job[s].since + PollLedgers
    /\ \A step \in Steps : tx[s][step].state = "sent" =>
          ledger <= tx[s][step].at + ValidLedgers
    /\ job[s].status = "locking_a" /\ LegA(s) # "None" =>
          job[s].since + InitiatorLedgers <= Deadline(s)
    /\ job[s].status = "locking_b" =>
          job[s].since + InitiatorLedgers <= Deadline(s) + PollLedgers
    /\ job[s].status = "releasing_b" =>
          job[s].since + InitiatorLedgers <= Deadline(s) + 2 * PollLedgers
    /\ tx[s]["releasing_b"].state # "none" =>
          /\ LegA(s) # "None"
          /\ tx[s]["releasing_b"].at + InitiatorLedgers <= Deadline(s) + 3 * PollLedgers
    /\ Paid(s) => s \in disclosed
    /\ s \in disclosed =>
          /\ LegA(s) # "None"
          /\ published[s] + InitiatorLedgers <= Deadline(s) + 3 * PollLedgers + ValidLedgers
    /\ s \in disclosed /\ LegA(s) = "Locked" => ledger <= published[s] + ReactionLedgers
    /\ LegA(s) = "Refunded" => Deadline(s) <= ledger /\ ~ Paid(s)

BackedInv == Inv /\ published \in [Swaps -> Nat] /\ \A s \in Swaps : Backed(s)

TimelyInv == BackedInv /\ \A s \in Swaps : Timely(s)

\* The times are whole ledgers, and the initiator's timeout is longer than all
\* that the job, the network and the counterparty may take together.
PlanLeavesTime ==
    /\ PollLedgers \in Nat /\ ValidLedgers \in Nat /\ ReactionLedgers \in Nat
    /\ InitiatorLedgers \in Nat
    /\ 3 * PollLedgers + ValidLedgers + ReactionLedgers < InitiatorLedgers

\* A step that has nothing to do with swap t.
Spares(t) ==
    /\ swapsA'[Id(t)] = swapsA[Id(t)] /\ swapsB'[Id(t)] = swapsB[Id(t)]
    /\ job'[t] = job[t] /\ tx'[t] = tx[t] /\ published'[t] = published[t]
    /\ t \in disclosed' <=> t \in disclosed

LEMMA SparedBacked ==
    ASSUME NEW t \in Swaps, Backed(t), Spares(t)
    PROVE  Backed(t)'
BY DEF Backed, Spares, LegA, LegB

LEMMA SparedTimely ==
    ASSUME NEW t \in Swaps, Timely(t), Spares(t), ledger' = ledger
    PROVE  Timely(t)'
BY DEF Timely, Spares, LegA, LegB, Paid, Deadline

\* The deadline of a lock is the ledger that included it and the timeout.
LEMMA LockDeadline ==
    ASSUME Shaped, NEW s \in Swaps,
           A!Lock(Initiator, Counterparty, SellAsset, Amount, Hash(s), InitiatorLedgers)
    PROVE  /\ LegA(s) = "None" /\ LegA(s)' = "Locked"
           /\ Deadline(s)' = ledger + InitiatorLedgers
           /\ \A t \in Swaps \ {s} : swapsA'[Id(t)] = swapsA[Id(t)]
<1> DEFINE new == [initiator |-> Initiator, counterparty |-> Counterparty,
                   token |-> SellAsset, amount |-> Amount, secret_hash |-> Hash(s),
                   timeout_ledger |-> ledger + InitiatorLedgers, status |-> "Locked"]
<1>1. swapsA[Id(s)] = A!NoSwap /\ swapsA' = [swapsA EXCEPT ![Id(s)] = new]
  BY DEF A!Lock, A!CanLock, Id
<1>2. new.status = "Locked" /\ new.timeout_ledger = ledger + InitiatorLedgers
  OBVIOUS
<1> HIDE DEF new
<1>3. swapsA'[Id(s)] = new /\ \A t \in Swaps \ {s} : swapsA'[Id(t)] = swapsA[Id(t)]
  BY <1>1, IdFacts DEF Shaped
<1> QED
  BY <1>1, <1>2, <1>3 DEF LegA, Deadline, A!NoSwap

\* Settling leg A keeps its deadline.
LEMMA SettleDeadline ==
    ASSUME Shaped, NEW s \in Swaps, swapsA[Id(s)].status = "Locked",
           NEW outcome \in {"Released", "Refunded"},
           swapsA' = [swapsA EXCEPT ![Id(s)].status = outcome]
    PROVE  /\ LegA(s) = "Locked" /\ LegA(s)' = outcome
           /\ Deadline(s)' = Deadline(s)
           /\ \A t \in Swaps \ {s} : swapsA'[Id(t)] = swapsA[Id(t)]
<1>1. swapsA[Id(s)] \in A!Swap
  BY IdFacts DEF Shaped, A!NoSwap
<1>2. /\ [swapsA[Id(s)] EXCEPT !.status = outcome].status = outcome
      /\ [swapsA[Id(s)] EXCEPT !.status = outcome].timeout_ledger = swapsA[Id(s)].timeout_ledger
  BY <1>1 DEF A!Swap
<1>3. swapsA'[Id(s)] = [swapsA[Id(s)] EXCEPT !.status = outcome]
  BY IdFacts DEF Shaped
<1>4. \A t \in Swaps \ {s} : swapsA'[Id(t)] = swapsA[Id(t)]
  BY IdFacts DEF Shaped
<1> QED
  BY <1>2, <1>3, <1>4 DEF LegA, Deadline

\* Locking leg B.
LEMMA LockLegB ==
    ASSUME Shaped, NEW s \in Swaps,
           B!Lock(Counterparty, Initiator, BuyAsset, Amount, Hash(s), CounterpartyLedgers)
    PROVE  /\ LegB(s) = "None" /\ LegB(s)' = "Locked"
           /\ \A t \in Swaps \ {s} : swapsB'[Id(t)] = swapsB[Id(t)]
<1> DEFINE new == [initiator |-> Counterparty, counterparty |-> Initiator,
                   token |-> BuyAsset, amount |-> Amount, secret_hash |-> Hash(s),
                   timeout_ledger |-> ledger + CounterpartyLedgers, status |-> "Locked"]
<1>1. swapsB[Id(s)] = B!NoSwap /\ swapsB' = [swapsB EXCEPT ![Id(s)] = new]
  BY DEF B!Lock, B!CanLock, Id, A!ComputeSwapId, B!ComputeSwapId, A!Sha256, B!Sha256
<1>2. new.status = "Locked"
  OBVIOUS
<1> HIDE DEF new
<1>3. swapsB'[Id(s)] = new /\ \A t \in Swaps \ {s} : swapsB'[Id(t)] = swapsB[Id(t)]
  BY <1>1, IdFacts DEF Shaped
<1> QED
  BY <1>1, <1>2, <1>3 DEF LegB, B!NoSwap

\* Settling leg B.
LEMMA SettleLegB ==
    ASSUME Shaped, NEW s \in Swaps, swapsB[Id(s)].status = "Locked",
           NEW outcome \in {"Released", "Refunded"},
           swapsB' = [swapsB EXCEPT ![Id(s)].status = outcome]
    PROVE  /\ LegB(s) = "Locked" /\ LegB(s)' = outcome
           /\ \A t \in Swaps \ {s} : swapsB'[Id(t)] = swapsB[Id(t)]
<1>1. swapsB[Id(s)] \in B!Swap
  BY IdFacts DEF Shaped, B!NoSwap
<1>2. [swapsB[Id(s)] EXCEPT !.status = outcome].status = outcome
  BY <1>1 DEF B!Swap
<1>3. swapsB'[Id(s)] = [swapsB[Id(s)] EXCEPT !.status = outcome]
  BY IdFacts DEF Shaped
<1>4. \A t \in Swaps \ {s} : swapsB'[Id(t)] = swapsB[Id(t)]
  BY IdFacts DEF Shaped
<1> QED
  BY <1>2, <1>3, <1>4 DEF LegB
-----------------------------------------------------------------------------
(* What each step does to the swap it is about.                            *)

\* A ledger that includes, or will never include, a transaction.
TxEffect(s, step) ==
    LET y == tx'[s][step] IN
    /\ tx[s][step].state = "sent" /\ y.at = tx[s][step].at
    /\ \A o \in Steps \ {step} : tx'[s][o] = tx[s][o]
    /\ job'[s] = job[s]
    /\ \/ y.state = "failed" /\ UNCHANGED <<swapsA, swapsB, disclosed, published>>
       \/ /\ y.state = "ok" /\ step = "locking_a"
          /\ LegA(s) = "None" /\ LegA(s)' = "Locked"
          /\ Deadline(s)' = ledger + InitiatorLedgers
          /\ UNCHANGED <<swapsB, disclosed, published>>
       \/ /\ y.state = "ok" /\ step = "locking_b"
          /\ LegB(s) = "None" /\ LegB(s)' = "Locked"
          /\ UNCHANGED <<swapsA, disclosed, published>>
       \/ /\ y.state = "ok" /\ step = "releasing_b"
          /\ LegB(s) = "Locked" /\ LegB(s)' = "Released"
          /\ Publish(s) /\ disclosed' = disclosed \cup {s} /\ swapsA' = swapsA
       \/ /\ y.state = "ok" /\ step = "releasing_a"
          /\ LegA(s) = "Locked" /\ LegA(s)' = "Released" /\ Deadline(s)' = Deadline(s)
          /\ Publish(s) /\ disclosed' = disclosed \cup {s} /\ swapsB' = swapsB

LEMMA TxEffects ==
    ASSUME Shaped, published \in [Swaps -> Nat], NEW s \in Swaps, NEW step \in Steps,
           Include(s, step) \/ Expire(s, step)
    PROVE  /\ TxEffect(s, step) /\ ledger' = ledger /\ published' \in [Swaps -> Nat]
           /\ \A t \in Swaps \ {s} : Spares(t)
<1>1. job' = job /\ tx[s][step].state = "sent" /\ ledger \in Nat
  BY DEF Include, Expire, Shaped
<1>2. CASE (Include(s, step) /\ ~ Succeeds(s, step)) \/ Expire(s, step)
  <2>0. tx' = [tx EXCEPT ![s][step].state = "failed"]
    BY <1>2 DEF Include, Expire
  <2>1. UNCHANGED <<swapsA, swapsB, disclosed, published, ledger>>
    BY <1>2 DEF Include, Expire, chainVars
  <2>2. /\ tx'[s][step].state = "failed" /\ tx'[s][step].at = tx[s][step].at
        /\ \A t \in Swaps \ {s} : tx'[t] = tx[t]
        /\ \A o \in Steps \ {step} : tx'[s][o] = tx[s][o]
    <3>1. /\ tx'[s][step].state = "failed" /\ tx'[s][step].at = tx[s][step].at
          /\ \A t \in Swaps \ {s} : tx'[t] = tx[t]
          /\ \A t \in Swaps, o \in Steps : t # s \/ o # step => tx'[t][o] = tx[t][o]
      <4>1. "failed" \in {"none", "sent", "ok", "failed"}
        OBVIOUS
      <4>2. tx'[s][step].state = "failed" /\ tx'[s][step].at = tx[s][step].at
        BY <2>0, <4>1, TxStep
      <4>3. \A t \in Swaps \ {s} : tx'[t] = tx[t]
        BY <2>0, <4>1, TxStep
      <4>4. \A t \in Swaps, o \in Steps : t # s \/ o # step => tx'[t][o] = tx[t][o]
        BY <2>0, <4>1, TxStep
      <4> QED
        BY <4>2, <4>3, <4>4
    <3> QED
      BY <3>1
  <2>3. TxEffect(s, step)
    BY <1>1, <2>1, <2>2 DEF TxEffect
  <2>4. \A t \in Swaps \ {s} : Spares(t)
    BY <1>1, <2>1, <2>2 DEF Spares
  <2> QED
    BY <2>1, <2>3, <2>4
<1>3. CASE Include(s, step) /\ Succeeds(s, step)
  <2>1. Effect(s, step) /\ tx' = [tx EXCEPT ![s][step].state = "ok"]
    BY <1>3 DEF Include
  <2>2. /\ tx'[s][step].state = "ok" /\ tx'[s][step].at = tx[s][step].at
        /\ \A o \in Steps \ {step} : tx'[s][o] = tx[s][o]
        /\ \A t \in Swaps \ {s} : tx'[t] = tx[t]
    <3>1. /\ tx'[s][step].state = "ok" /\ tx'[s][step].at = tx[s][step].at
          /\ \A t \in Swaps \ {s} : tx'[t] = tx[t]
          /\ \A t \in Swaps, o \in Steps : t # s \/ o # step => tx'[t][o] = tx[t][o]
      BY <2>1, TxStep
    <3> QED
      BY <3>1
  <2>3. Publish(s) => /\ published' \in [Swaps -> Nat]
                      /\ \A t \in Swaps \ {s} : published'[t] = published[t]
    BY <1>1 DEF Publish
  <2>4. CASE /\ step = "locking_a"
             /\ A!Lock(Initiator, Counterparty, SellAsset, Amount, Hash(s), CallLedgers(step))
             /\ LegsUnchanged("A") /\ UNCHANGED published
    <3>1. A!Lock(Initiator, Counterparty, SellAsset, Amount, Hash(s), InitiatorLedgers)
      BY <2>4 DEF CallLedgers
    <3>2. UNCHANGED <<swapsB, ledger, disclosed>>
      BY <2>4, <3>1 DEF LegsUnchanged, A!Lock
    <3> QED
      BY <1>1, <2>2, <2>4, <3>1, <3>2, LockDeadline DEF TxEffect, Spares
  <2>5. CASE /\ step = "locking_b"
             /\ B!Lock(Counterparty, Initiator, BuyAsset, Amount, Hash(s), CallLedgers(step))
             /\ LegsUnchanged("B") /\ UNCHANGED published
    <3>1. B!Lock(Counterparty, Initiator, BuyAsset, Amount, Hash(s), CounterpartyLedgers)
      BY <2>5 DEF CallLedgers
    <3>2. UNCHANGED <<swapsA, ledger, disclosed>>
      BY <2>5, <3>1 DEF LegsUnchanged, B!Lock
    <3> QED
      BY <1>1, <2>2, <2>5, <3>1, <3>2, LockLegB DEF TxEffect, Spares
  <2>6. CASE step = "releasing_b" /\ B!Release(Id(s), s) /\ LegsUnchanged("B") /\ Publish(s)
    <3>1. /\ swapsB[Id(s)].status = "Locked"
          /\ swapsB' = [swapsB EXCEPT ![Id(s)].status = "Released"]
          /\ disclosed' = disclosed \cup {s}
          /\ UNCHANGED <<swapsA, ledger>>
      BY <2>6 DEF B!Release, B!CanRelease, B!IsLocked, LegsUnchanged
    <3> QED
      BY <1>1, <2>2, <2>3, <2>6, <3>1, SettleLegB DEF TxEffect, Spares
  <2>7. CASE step = "releasing_a" /\ A!Release(Id(s), s) /\ LegsUnchanged("A") /\ Publish(s)
    <3>1. /\ swapsA[Id(s)].status = "Locked"
          /\ swapsA' = [swapsA EXCEPT ![Id(s)].status = "Released"]
          /\ disclosed' = disclosed \cup {s}
          /\ UNCHANGED <<swapsB, ledger>>
      BY <2>7 DEF A!Release, A!CanRelease, A!IsLocked, LegsUnchanged
    <3> QED
      BY <1>1, <2>2, <2>3, <2>7, <3>1, SettleDeadline DEF TxEffect, Spares
  <2> QED
    BY <2>1, <2>4, <2>5, <2>6, <2>7 DEF Effect
<1> QED
  BY <1>2, <1>3

\* A refund of either leg, and the counterparty's claim.
OutsideEffect(s) ==
    /\ tx'[s] = tx[s] /\ job'[s] = job[s] /\ published' = published
    /\ \/ /\ LegA(s) = "Locked" /\ LegA(s)' = "Refunded" /\ Deadline(s)' = Deadline(s)
          /\ Deadline(s) <= ledger /\ UNCHANGED <<swapsB, disclosed>>
       \/ /\ LegB(s) = "Locked" /\ LegB(s)' = "Refunded" /\ UNCHANGED <<swapsA, disclosed>>
       \/ /\ LegA(s) = "Locked" /\ LegA(s)' = "Released" /\ Deadline(s)' = Deadline(s)
          /\ s \in disclosed /\ UNCHANGED <<swapsB, disclosed>>

LEMMA OutsideEffects ==
    ASSUME Shaped, NEW s \in Swaps, RefundA(s) \/ RefundB(s) \/ Claim(s)
    PROVE  /\ OutsideEffect(s) /\ ledger' = ledger
           /\ \A t \in Swaps \ {s} : Spares(t)
<1>1. UNCHANGED <<job, tx, published, ledger>>
  BY DEF RefundA, RefundB, Claim, A!Refund, B!Refund, A!Release
<1>2. CASE RefundA(s)
  <2>1. /\ swapsA[Id(s)].status = "Locked" /\ Deadline(s) <= ledger
        /\ swapsA' = [swapsA EXCEPT ![Id(s)].status = "Refunded"]
        /\ UNCHANGED <<swapsB, disclosed>>
    BY <1>2 DEF RefundA, A!Refund, A!CanRefund, A!IsLocked, LegsUnchanged, Deadline
  <2> QED
    BY <1>1, <2>1, SettleDeadline DEF OutsideEffect, Spares
<1>3. CASE RefundB(s)
  <2>1. /\ swapsB[Id(s)].status = "Locked"
        /\ swapsB' = [swapsB EXCEPT ![Id(s)].status = "Refunded"]
        /\ UNCHANGED <<swapsA, disclosed>>
    BY <1>3 DEF RefundB, B!Refund, B!CanRefund, B!IsLocked, LegsUnchanged
  <2> QED
    BY <1>1, <2>1, SettleLegB DEF OutsideEffect, Spares
<1>4. CASE Claim(s)
  <2>1. /\ swapsA[Id(s)].status = "Locked" /\ s \in disclosed
        /\ swapsA' = [swapsA EXCEPT ![Id(s)].status = "Released"]
        /\ disclosed' = disclosed \cup {s} /\ swapsB' = swapsB
    BY <1>4 DEF Claim, A!Release, A!CanRelease, A!IsLocked, LegsUnchanged
  <2>2. disclosed' = disclosed
    BY <2>1
  <2> QED
    BY <1>1, <2>1, <2>2, SettleDeadline DEF OutsideEffect, Spares
<1> QED
  BY <1>2, <1>3, <1>4

\* The job enters a status, or sends its next transaction.
JobEffect(s) ==
    /\ UNCHANGED <<swapsA, swapsB, disclosed, published>>
    /\ \/ /\ tx'[s] = tx[s] /\ job'[s].since = ledger
          /\ \/ job'[s].status = "locking_a" /\ tx[s]["locking_a"].state = "none"
             \/ job'[s].status = "failed"
             \/ /\ job[s].status \in Running /\ tx[s][job[s].status].state = "ok"
                /\ job'[s].status = NextStatus(job[s].status)
       \/ /\ job'[s] = job[s] /\ job[s].status \in Running
          /\ tx[s][job[s].status].state = "none"
          /\ tx'[s][job[s].status].state = "sent" /\ tx'[s][job[s].status].at = ledger
          /\ \A o \in Steps \ {job[s].status} : tx'[s][o] = tx[s][o]

LEMMA JobEffects ==
    ASSUME Shaped, NEW s \in Swaps, Execute(s) \/ Send(s) \/ Confirm(s) \/ Fail(s)
    PROVE  /\ JobEffect(s) /\ ledger' = ledger
           /\ \A t \in Swaps \ {s} : Spares(t)
<1>1. UNCHANGED <<swapsA, swapsB, disclosed, published, ledger>>
  BY DEF Execute, Send, Confirm, Fail, chainVars
<1>2. ASSUME NEW status, Enter(s, status), tx' = tx
      PROVE  /\ job'[s].status = status /\ job'[s].since = ledger
             /\ \A t \in Swaps \ {s} : Spares(t)
  BY <1>1, <1>2 DEF Enter, Shaped, Spares
<1>3. CASE Execute(s)
  BY <1>1, <1>2, <1>3 DEF Execute, JobEffect, NoTx
<1>4. CASE Fail(s)
  BY <1>1, <1>2, <1>4 DEF Fail, JobEffect
<1>5. CASE Confirm(s)
  BY <1>1, <1>2, <1>5 DEF Confirm, JobEffect
<1>6. CASE Send(s)
  <2> DEFINE step == job[s].status
  <2>1. /\ step \in Steps /\ tx[s][step] = NoTx /\ job' = job
        /\ tx' = [tx EXCEPT ![s][step] = [state |-> "sent", at |-> ledger]]
    BY <1>6 DEF Send, Steps
  <2>2. /\ tx'[s][step] = [state |-> "sent", at |-> ledger]
        /\ \A o \in Steps \ {step} : tx'[s][o] = tx[s][o]
        /\ \A t \in Swaps \ {s} : tx'[t] = tx[t]
    BY <2>1 DEF Shaped
  <2> QED
    BY <1>1, <2>1, <2>2 DEF JobEffect, Spares, NoTx, Steps
<1> QED
  BY <1>3, <1>4, <1>5, <1>6
-----------------------------------------------------------------------------
(* Every step keeps what the job's status rests on.                        *)

\* What the ages and deadlines range over.
LEMMA Times ==
    ASSUME Shaped, NEW s \in Swaps
    PROVE  /\ ledger \in Nat /\ job[s].since \in Nat /\ job[s].status \in JobStatus
           /\ \A o \in Steps : /\ tx[s][o].at \in Nat
                               /\ tx[s][o].state \in {"none", "sent", "ok", "failed"}
           /\ LegA(s) # "None" => Deadline(s) \in Nat
<1>1. ledger \in Nat /\ job[s].since \in Nat /\ job[s].status \in JobStatus
  BY DEF Shaped
<1>2. ASSUME NEW o \in Steps
      PROVE  tx[s][o].at \in Nat /\ tx[s][o].state \in {"none", "sent", "ok", "failed"}
  <2>1. tx[s][o] \in [state : {"none", "sent", "ok", "failed"}, at : 0 .. MaxLedger]
    BY DEF Shaped
  <2> QED
    BY <2>1
<1>3. ASSUME LegA(s) # "None" PROVE Deadline(s) \in Nat
  <2>1. swapsA[Id(s)] \in A!Swap
    BY <1>3, IdFacts DEF Shaped, LegA, A!NoSwap
  <2> QED
    BY <2>1 DEF A!Swap, Deadline
<1> QED
  BY <1>1, <1>2, <1>3

LEMMA TxBacked ==
    ASSUME Inv, NEW s \in Swaps, NEW step \in Steps, Backed(s), TxEffect(s, step)
    PROVE  Backed(s)'
<1>1. {"locking_a", "locking_b", "releasing_b", "releasing_a"} \subseteq Steps
  BY DEF Steps, Running
<1>2. swapsA' = swapsA => LegA(s)' = LegA(s)
  BY DEF LegA
<1>3. swapsB' = swapsB => LegB(s)' = LegB(s)
  BY DEF LegB
<1> QED
  BY <1>1, <1>2, <1>3 DEF TxEffect, Backed

LEMMA OutsideBacked ==
    ASSUME Inv, NEW s \in Swaps, Backed(s), OutsideEffect(s)
    PROVE  Backed(s)'
<1>1. swapsA' = swapsA => LegA(s)' = LegA(s)
  BY DEF LegA
<1>2. swapsB' = swapsB => LegB(s)' = LegB(s)
  BY DEF LegB
<1>3. tx[s]["releasing_a"].state = "ok" => LegA(s) # "Locked"
  BY DEF Backed
<1> QED
  BY <1>1, <1>2, <1>3 DEF OutsideEffect, Backed

LEMMA JobBacked ==
    ASSUME Inv, NEW s \in Swaps, Backed(s), JobEffect(s)
    PROVE  Backed(s)'
<1>1. LegA(s)' = LegA(s) /\ LegB(s)' = LegB(s)
  BY DEF JobEffect, LegA, LegB
<1>2. {"locking_a", "locking_b", "releasing_b", "releasing_a"} = Running /\ Steps = Running
  BY DEF Steps, Running
<1>3. CASE tx'[s] = tx[s]
  BY <1>1, <1>2, <1>3 DEF JobEffect, Backed, NextStatus
<1>4. CASE /\ job'[s] = job[s] /\ job[s].status \in Running
           /\ tx[s][job[s].status].state = "none"
           /\ tx'[s][job[s].status].state = "sent"
           /\ \A o \in Steps \ {job[s].status} : tx'[s][o] = tx[s][o]
  BY <1>1, <1>2, <1>4 DEF Backed
<1> QED
  BY <1>3, <1>4 DEF JobEffect
-----------------------------------------------------------------------------
(* Every step keeps the times, if the plan leaves time enough.             *)

LEMMA TxTimely ==
    ASSUME PlanLeavesTime, Inv, NEW s \in Swaps, NEW step \in Steps, Backed(s), Timely(s),
           published \in [Swaps -> Nat], TxEffect(s, step), ledger' = ledger
    PROVE  Timely(s)'
<1> DEFINE y == tx'[s][step]
<1>0. {"locking_a", "locking_b", "releasing_b", "releasing_a"} \subseteq Steps
  BY DEF Steps, Running
<1>1. /\ tx[s][step].state = "sent" /\ y.at = tx[s][step].at /\ job'[s] = job[s]
      /\ \A o \in Steps \ {step} : tx'[s][o] = tx[s][o]
  BY DEF TxEffect
<1>2. CASE y.state = "failed" /\ UNCHANGED <<swapsA, swapsB, disclosed, published>>
  <2>1. LegA(s)' = LegA(s) /\ Deadline(s)' = Deadline(s) /\ Paid(s)' = Paid(s)
    BY <1>2 DEF LegA, LegB, Deadline, Paid
  <2> QED
    BY <1>0, <1>1, <1>2, <2>1 DEF Timely
<1>3. CASE /\ y.state = "ok" /\ step = "locking_a"
           /\ LegA(s) = "None" /\ LegA(s)' = "Locked"
           /\ Deadline(s)' = ledger + InitiatorLedgers
           /\ UNCHANGED <<swapsB, disclosed, published>>
  <2>1. Paid(s)' = Paid(s)
    BY <1>3 DEF LegB, Paid
  <2> QED
    BY <1>0, <1>1, <1>3, <2>1, Times DEF Timely, Backed, PlanLeavesTime, Inv
<1>4. CASE /\ y.state = "ok" /\ step = "locking_b"
           /\ LegB(s) = "None" /\ LegB(s)' = "Locked"
           /\ UNCHANGED <<swapsA, disclosed, published>>
  <2>1. LegA(s)' = LegA(s) /\ Deadline(s)' = Deadline(s) /\ ~ Paid(s)'
    BY <1>4 DEF LegA, Deadline, Paid
  <2> QED
    BY <1>0, <1>1, <1>4, <2>1 DEF Timely
<1>5. CASE /\ y.state = "ok" /\ step = "releasing_b"
           /\ LegB(s) = "Locked" /\ LegB(s)' = "Released"
           /\ Publish(s) /\ disclosed' = disclosed \cup {s} /\ swapsA' = swapsA
  <2>1. LegA(s)' = LegA(s) /\ Deadline(s)' = Deadline(s)
    BY <1>5 DEF LegA, Deadline
  <2>2. /\ LegA(s) # "None" /\ ledger <= tx[s][step].at + ValidLedgers
        /\ tx[s][step].at + InitiatorLedgers <= Deadline(s) + 3 * PollLedgers
    BY <1>1, <1>5 DEF Timely
  <2>3. ledger \in Nat /\ tx[s][step].at \in Nat /\ Deadline(s) \in Nat
    BY <2>2, Times DEF Inv
  <2>4. ledger + InitiatorLedgers <= Deadline(s) + 3 * PollLedgers + ValidLedgers
    BY <2>2, <2>3 DEF PlanLeavesTime
  <2>5. LegA(s) # "Refunded"
    BY <2>3, <2>4 DEF Timely, PlanLeavesTime
  <2>6. s \in disclosed' /\ published'[s] = IF s \in disclosed THEN published[s] ELSE ledger
    BY <1>5 DEF Publish
  <2>7. /\ published'[s] + InitiatorLedgers <= Deadline(s) + 3 * PollLedgers + ValidLedgers
        /\ LegA(s) = "Locked" => ledger <= published'[s] + ReactionLedgers
    BY <2>3, <2>4, <2>6 DEF Timely, PlanLeavesTime
  <2> QED
    BY <1>0, <1>1, <1>5, <2>1, <2>2, <2>5, <2>6, <2>7 DEF Timely
<1>6. CASE /\ y.state = "ok" /\ step = "releasing_a"
           /\ LegA(s) = "Locked" /\ LegA(s)' = "Released" /\ Deadline(s)' = Deadline(s)
           /\ Publish(s) /\ disclosed' = disclosed \cup {s} /\ swapsB' = swapsB
  <2>1. Paid(s)
    BY <1>1, <1>6 DEF Inv, BPaidFirst
  <2>2. s \in disclosed /\ Paid(s)'
    BY <1>6, <2>1 DEF Timely, Paid, LegB
  <2>3. published' = published /\ disclosed' = disclosed
    BY <1>6, <2>2 DEF Publish
  <2> QED
    BY <1>0, <1>1, <1>6, <2>2, <2>3 DEF Timely
<1> QED
  BY <1>2, <1>3, <1>4, <1>5, <1>6 DEF TxEffect

LEMMA OutsideTimely ==
    ASSUME PlanLeavesTime, Inv, NEW s \in Swaps, Timely(s),
           published \in [Swaps -> Nat], OutsideEffect(s), ledger' = ledger
    PROVE  Timely(s)'
<1>1. CASE /\ LegA(s) = "Locked" /\ LegA(s)' = "Refunded" /\ Deadline(s)' = Deadline(s)
           /\ Deadline(s) <= ledger /\ UNCHANGED <<swapsB, disclosed>>
  <2>1. Paid(s)' = Paid(s)
    BY <1>1 DEF Paid, LegB
  <2>2. ~ Paid(s)
    <3> SUFFICES ASSUME Paid(s) PROVE FALSE
      OBVIOUS
    <3>1. /\ published[s] + InitiatorLedgers <= Deadline(s) + 3 * PollLedgers + ValidLedgers
          /\ ledger <= published[s] + ReactionLedgers
      BY <1>1 DEF Timely
    <3>2. ledger \in Nat /\ published[s] \in Nat /\ Deadline(s) \in Nat
      BY <1>1, Times DEF Inv
    <3> QED
      BY <1>1, <3>1, <3>2 DEF PlanLeavesTime
  <2> QED
    BY <1>1, <2>1, <2>2 DEF OutsideEffect, Timely
<1>2. CASE LegB(s) = "Locked" /\ LegB(s)' = "Refunded" /\ UNCHANGED <<swapsA, disclosed>>
  <2>1. LegA(s)' = LegA(s) /\ Deadline(s)' = Deadline(s) /\ ~ Paid(s)'
    BY <1>2 DEF LegA, Deadline, Paid
  <2> QED
    BY <1>2, <2>1 DEF OutsideEffect, Timely
<1>3. CASE /\ LegA(s) = "Locked" /\ LegA(s)' = "Released" /\ Deadline(s)' = Deadline(s)
           /\ s \in disclosed /\ UNCHANGED <<swapsB, disclosed>>
  <2>1. Paid(s)' = Paid(s)
    BY <1>3 DEF Paid, LegB
  <2> QED
    BY <1>3, <2>1 DEF OutsideEffect, Timely
<1> QED
  BY <1>1, <1>2, <1>3 DEF OutsideEffect

LEMMA JobTimely ==
    ASSUME PlanLeavesTime, Inv, NEW s \in Swaps, Backed(s), Timely(s),
           JobEffect(s), ledger' = ledger
    PROVE  Timely(s)'
<1>0. Running = {"locking_a", "locking_b", "releasing_b", "releasing_a"} /\ Steps = Running
  BY DEF Steps, Running
<1>1. /\ LegA(s)' = LegA(s) /\ Deadline(s)' = Deadline(s) /\ Paid(s)' = Paid(s)
      /\ UNCHANGED <<disclosed, published>>
  BY DEF JobEffect, LegA, LegB, Deadline, Paid
<1>2. ledger \in Nat /\ job[s].since \in Nat
  BY Times DEF Inv
<1>3. CASE tx'[s] = tx[s] /\ job'[s].since = ledger /\ job'[s].status = "failed"
  BY <1>0, <1>1, <1>2, <1>3 DEF Timely
<1>4. CASE /\ tx'[s] = tx[s] /\ job'[s].since = ledger
           /\ job'[s].status = "locking_a" /\ tx[s]["locking_a"].state = "none"
  <2>1. LegA(s) = "None"
    BY <1>4 DEF Backed
  <2> QED
    BY <1>0, <1>1, <1>2, <1>4, <2>1 DEF Timely, PlanLeavesTime
<1>5. CASE /\ tx'[s] = tx[s] /\ job'[s].since = ledger
           /\ job[s].status \in Running /\ tx[s][job[s].status].state = "ok"
           /\ job'[s].status = NextStatus(job[s].status)
  <2>1. ledger <= job[s].since + PollLedgers
    BY <1>5 DEF Timely
  <2>2. job'[s].status = "locking_b" => ledger + InitiatorLedgers <= Deadline(s) + PollLedgers
    <3> SUFFICES ASSUME job[s].status = "locking_a"
                 PROVE  ledger + InitiatorLedgers <= Deadline(s) + PollLedgers
      BY <1>0, <1>5 DEF NextStatus
    <3>1. LegA(s) # "None"
      BY <1>5 DEF Backed
    <3>2. job[s].since + InitiatorLedgers <= Deadline(s) /\ Deadline(s) \in Nat
      BY <3>1, Times DEF Inv, Timely
    <3> QED
      BY <1>2, <2>1, <3>2 DEF PlanLeavesTime
  <2>3. job'[s].status = "releasing_b" =>
            ledger + InitiatorLedgers <= Deadline(s) + 2 * PollLedgers
    <3> SUFFICES ASSUME job[s].status = "locking_b"
                 PROVE  ledger + InitiatorLedgers <= Deadline(s) + 2 * PollLedgers
      BY <1>0, <1>5 DEF NextStatus
    <3>1. LegA(s) # "None"
      BY DEF Backed
    <3>2. job[s].since + InitiatorLedgers <= Deadline(s) + PollLedgers /\ Deadline(s) \in Nat
      BY <3>1, Times DEF Inv, Timely
    <3> QED
      BY <1>2, <2>1, <3>2 DEF PlanLeavesTime
  <2>4. job'[s].status # "locking_a"
    BY <1>0, <1>5 DEF NextStatus
  <2> QED
    BY <1>0, <1>1, <1>2, <1>5, <2>2, <2>3, <2>4 DEF Timely, PlanLeavesTime
<1>6. CASE /\ job'[s] = job[s] /\ job[s].status \in Running
           /\ tx[s][job[s].status].state = "none"
           /\ tx'[s][job[s].status].state = "sent" /\ tx'[s][job[s].status].at = ledger
           /\ \A o \in Steps \ {job[s].status} : tx'[s][o] = tx[s][o]
  <2>1. \A step \in Steps : tx'[s][step].state = "sent" =>
            ledger <= tx'[s][step].at + ValidLedgers
    BY <1>0, <1>2, <1>6 DEF Timely, PlanLeavesTime
  <2>2. job[s].status = "releasing_b" =>
            /\ LegA(s) # "None"
            /\ ledger + InitiatorLedgers <= Deadline(s) + 3 * PollLedgers
    <3> SUFFICES ASSUME job[s].status = "releasing_b"
                 PROVE  /\ LegA(s) # "None"
                        /\ ledger + InitiatorLedgers <= Deadline(s) + 3 * PollLedgers
      OBVIOUS
    <3>1. LegA(s) # "None"
      BY DEF Backed
    <3>2. /\ job[s].since + InitiatorLedgers <= Deadline(s) + 2 * PollLedgers
          /\ Deadline(s) \in Nat
      BY <3>1, Times DEF Inv, Timely
    <3>3. ledger <= job[s].since + PollLedgers
      BY <1>6 DEF Timely
    <3> QED
      BY <1>2, <3>1, <3>2, <3>3 DEF PlanLeavesTime
  <2>3. tx'[s]["releasing_b"].state # "none" =>
            /\ LegA(s) # "None"
            /\ tx'[s]["releasing_b"].at + InitiatorLedgers <= Deadline(s) + 3 * PollLedgers
    <3>1. CASE job[s].status = "releasing_b"
      BY <1>6, <2>2, <3>1
    <3>2. CASE job[s].status # "releasing_b"
      BY <1>0, <1>6, <3>2 DEF Timely
    <3> QED
      BY <3>1, <3>2
  <2> QED
    BY <1>1, <1>6, <2>1, <2>3 DEF Timely
<1> QED
  BY <1>3, <1>4, <1>5, <1>6 DEF JobEffect
-----------------------------------------------------------------------------
(* The two invariants.                                                     *)

\* A step about one swap: it keeps the invariants if it keeps that swap's part.
LEMMA OneSwap ==
    ASSUME Inv', published' \in [Swaps -> Nat], NEW s \in Swaps,
           \A t \in Swaps \ {s} : Spares(t),
           \A t \in Swaps : Backed(t), Backed(s)'
    PROVE  BackedInv'
<1>1. \A t \in Swaps : Backed(t)'
  BY SparedBacked
<1> QED
  BY <1>1 DEF BackedInv

LEMMA OneSwapTimely ==
    ASSUME BackedInv', NEW s \in Swaps, ledger' = ledger,
           \A t \in Swaps \ {s} : Spares(t),
           \A t \in Swaps : Timely(t), Timely(s)'
    PROVE  TimelyInv'
<1>1. \A t \in Swaps : Timely(t)'
  BY SparedTimely
<1> QED
  BY <1>1 DEF TimelyInv

LEMMA InitTimely == Init => TimelyInv
<1> SUFFICES ASSUME Init PROVE TimelyInv
  OBVIOUS
<1>1. Inv /\ published \in [Swaps -> Nat]
  BY InitInv DEF Init
<1>2. \A s \in Swaps : LegA(s) = "None" /\ LegB(s) = "None"
  BY IdFacts DEF Init, A!Init, B!Init, LegA, LegB, A!NoSwap, B!NoSwap
<1>3. \A s \in Swaps : /\ job[s].status = "unknown" /\ job[s].since = 0
                       /\ \A o \in Steps : tx[s][o].state = "none"
  BY DEF Init, NoTx
<1>4. ledger = 0 /\ disclosed = {}
  BY DEF Init, A!Init
<1>5. {"locking_a", "locking_b", "releasing_b", "releasing_a"} = Running /\ Steps = Running
  BY DEF Steps, Running
<1>6. \A s \in Swaps : Backed(s)
  BY <1>2, <1>3, <1>5 DEF Backed
<1>7. ASSUME NEW s \in Swaps PROVE Timely(s)
  <2>1. /\ s \notin disclosed /\ ~ Paid(s) /\ LegA(s) = "None"
        /\ job[s].since <= ledger /\ job[s].status \notin Running
        /\ \A o \in Steps : tx[s][o].state = "none"
    BY <1>2, <1>3, <1>4, <1>5 DEF Paid
  <2> QED
    BY <1>5, <2>1 DEF Timely
<1> QED
  BY <1>1, <1>6, <1>7 DEF TimelyInv, BackedInv

LEMMA StepBacked == BackedInv /\ [Next]_vars => BackedInv'
<1> SUFFICES ASSUME BackedInv, [Next]_vars PROVE BackedInv'
  OBVIOUS
<1>0. /\ Inv /\ Shaped /\ Inv' /\ published \in [Swaps -> Nat]
      /\ \A t \in Swaps : Backed(t)
  BY StepInv DEF BackedInv, Inv
<1>1. ASSUME NEW s \in Swaps, NEW step \in Steps, Include(s, step) \/ Expire(s, step)
      PROVE  BackedInv'
  <2>1. /\ TxEffect(s, step) /\ published' \in [Swaps -> Nat]
        /\ \A t \in Swaps \ {s} : Spares(t)
    BY <1>0, <1>1, TxEffects
  <2>2. Backed(s)'
    BY <1>0, <2>1, TxBacked
  <2> QED
    BY <1>0, <2>1, <2>2, OneSwap
<1>2. ASSUME NEW s \in Swaps, RefundA(s) \/ RefundB(s) \/ Claim(s)
      PROVE  BackedInv'
  <2>1. OutsideEffect(s) /\ \A t \in Swaps \ {s} : Spares(t)
    BY <1>0, <1>2, OutsideEffects
  <2>2. Backed(s)' /\ published' = published
    BY <1>0, <2>1, OutsideBacked DEF OutsideEffect
  <2> QED
    BY <1>0, <2>1, <2>2, OneSwap
<1>3. ASSUME NEW s \in Swaps, Execute(s) \/ Send(s) \/ Confirm(s) \/ Fail(s)
      PROVE  BackedInv'
  <2>1. JobEffect(s) /\ \A t \in Swaps \ {s} : Spares(t)
    BY <1>0, <1>3, JobEffects
  <2>2. Backed(s)' /\ published' = published
    BY <1>0, <2>1, JobBacked DEF JobEffect
  <2> QED
    BY <1>0, <2>1, <2>2, OneSwap
<1>4. CASE Crash
  <2>1. /\ \A t \in Swaps : job'[t].status = "unknown"
        /\ UNCHANGED <<swapsA, swapsB, published, tx>>
    BY <1>4 DEF Crash, chainVars
  <2>2. \A t \in Swaps : Backed(t)'
    BY <1>0, <2>1 DEF Backed, LegA, LegB
  <2> QED
    BY <1>0, <2>1, <2>2 DEF BackedInv
<1>5. CASE CloseLedger \/ UNCHANGED vars
  <2>1. UNCHANGED <<swapsA, swapsB, published, job, tx>>
    BY <1>5 DEF CloseLedger, vars, chainVars
  <2>2. \A t \in Swaps : Backed(t)'
    BY <1>0, <2>1 DEF Backed, LegA, LegB
  <2> QED
    BY <1>0, <2>1, <2>2 DEF BackedInv
<1> QED
  BY <1>1, <1>2, <1>3, <1>4, <1>5 DEF Next

LEMMA StepTimely ==
    ASSUME PlanLeavesTime
    PROVE  TimelyInv /\ [Next]_vars => TimelyInv'
<1> SUFFICES ASSUME TimelyInv, [Next]_vars PROVE TimelyInv'
  OBVIOUS
<1>0. /\ Inv /\ Shaped /\ BackedInv' /\ published \in [Swaps -> Nat]
      /\ \A t \in Swaps : Backed(t) /\ Timely(t)
  BY StepBacked DEF TimelyInv, BackedInv, Inv
<1>1. ASSUME NEW s \in Swaps, NEW step \in Steps, Include(s, step) \/ Expire(s, step)
      PROVE  TimelyInv'
  <2>1. TxEffect(s, step) /\ ledger' = ledger /\ \A t \in Swaps \ {s} : Spares(t)
    BY <1>0, <1>1, TxEffects
  <2>2. Timely(s)'
    BY <1>0, <2>1, TxTimely
  <2> QED
    BY <1>0, <2>1, <2>2, OneSwapTimely
<1>2. ASSUME NEW s \in Swaps, RefundA(s) \/ RefundB(s) \/ Claim(s)
      PROVE  TimelyInv'
  <2>1. OutsideEffect(s) /\ ledger' = ledger /\ \A t \in Swaps \ {s} : Spares(t)
    BY <1>0, <1>2, OutsideEffects
  <2>2. Timely(s)'
    BY <1>0, <2>1, OutsideTimely
  <2> QED
    BY <1>0, <2>1, <2>2, OneSwapTimely
<1>3. ASSUME NEW s \in Swaps, Execute(s) \/ Send(s) \/ Confirm(s) \/ Fail(s)
      PROVE  TimelyInv'
  <2>1. JobEffect(s) /\ ledger' = ledger /\ \A t \in Swaps \ {s} : Spares(t)
    BY <1>0, <1>3, JobEffects
  <2>2. Timely(s)'
    BY <1>0, <2>1, JobTimely
  <2> QED
    BY <1>0, <2>1, <2>2, OneSwapTimely
<1>4. CASE Crash
  <2>1. /\ \A t \in Swaps : job'[t].status = "unknown" /\ job'[t].since = 0
        /\ UNCHANGED <<swapsA, swapsB, disclosed, published, tx, ledger>>
    BY <1>4 DEF Crash, chainVars
  <2>2. 0 <= ledger
    BY <1>0 DEF Shaped
  <2>3. "unknown" \notin Running /\ "unknown" \notin {"locking_a", "locking_b", "releasing_b"}
    BY DEF Running
  <2>4. \A t \in Swaps : Timely(t)'
    BY <1>0, <2>1, <2>2, <2>3 DEF Timely, LegA, LegB, Paid, Deadline
  <2> QED
    BY <1>0, <2>4 DEF TimelyInv
<1>5. CASE CloseLedger
  <2>1. /\ UNCHANGED <<swapsA, swapsB, disclosed, published, job, tx>>
        /\ ledger' = ledger + 1 /\ \A t \in Swaps : InTime(t)
    BY <1>5 DEF CloseLedger, chainVars
  <2>2. ASSUME NEW t \in Swaps PROVE Timely(t)'
    <3>1. /\ LegA(t)' = LegA(t) /\ Deadline(t)' = Deadline(t) /\ Paid(t)' = Paid(t)
          /\ job'[t] = job[t] /\ tx'[t] = tx[t] /\ disclosed' = disclosed
          /\ published'[t] = published[t]
      BY <2>1 DEF LegA, LegB, Paid, Deadline
    <3>2. /\ ledger \in Nat /\ job[t].since \in Nat /\ published[t] \in Nat
          /\ \A o \in Steps : tx[t][o].at \in Nat
          /\ LegA(t) # "None" => Deadline(t) \in Nat
      BY <1>0, Times
    <3>3. /\ job[t].status \in Running => ledger + 1 <= job[t].since + PollLedgers
          /\ \A step \in Steps : tx[t][step].state = "sent" =>
                ledger + 1 <= tx[t][step].at + ValidLedgers
          /\ t \in disclosed /\ LegA(t) = "Locked" =>
                ledger + 1 <= published[t] + ReactionLedgers
      BY <2>1, <3>2 DEF InTime, PlanLeavesTime
    <3>4. /\ job[t].since <= ledger + 1
          /\ LegA(t) = "Refunded" => Deadline(t) <= ledger + 1 /\ ~ Paid(t)
      BY <1>0, <3>2 DEF Timely
    <3> QED
      BY <1>0, <2>1, <3>1, <3>3, <3>4 DEF Timely
  <2> QED
    BY <1>0, <2>2 DEF TimelyInv
<1>6. CASE UNCHANGED vars
  <2>1. \A t \in Swaps : Spares(t)
    BY <1>6 DEF vars, chainVars, Spares
  <2> QED
    BY <1>0, <1>6, <2>1, SparedTimely DEF TimelyInv, vars
<1> QED
  BY <1>1, <1>2, <1>3, <1>4, <1>5, <1>6 DEF Next

\* What the status endpoint reports of a swap is backed by the legs on the two
\* chains, through every crash, failure and late transaction.
THEOREM StatusBackedHolds == Spec => []StatusBacked
<1>1. BackedInv => StatusBacked
  BY DEF BackedInv, Inv, BPaidFirst, Backed, StatusBacked, Paid
<1>2. Init => BackedInv
  BY InitTimely DEF TimelyInv
<1> QED
  BY <1>1, <1>2, StepBacked, PTL DEF Spec

\* If the initiator's timeout is longer than three steps of the job, the wait of
\* the releasing transaction and the counterparty's reaction together, then no
\* execution of a plan ends with one leg paid and the other one taken back.
THEOREM BothOrNeitherHolds ==
    ASSUME PlanLeavesTime
    PROVE  Spec => []BothOrNeither
<1>1. TimelyInv => BothOrNeither
  <2> SUFFICES ASSUME TimelyInv, NEW s \in Swaps
               PROVE  ~ {LegA(s), LegB(s)} = {"Released", "Refunded"}
    BY DEF BothOrNeither
  <2>1. LegA(s) = "Released" => LegB(s) = "Released"
    BY DEF TimelyInv, BackedInv, Inv, BPaidFirst, Paid
  <2>2. LegA(s) = "Refunded" => LegB(s) # "Released"
    BY DEF TimelyInv, Timely, Paid
  <2> QED
    BY <2>1, <2>2
<1> QED
  BY <1>1, InitTimely, StepTimely, PTL DEF Spec

-----------------------------------------------------------------------------
(* Each leg is a run of the atomic swap contract, so that what is proved   *)
(* of the contract in AtomicSwapProofs holds of the leg.                   *)

ProvedA == INSTANCE AtomicSwapProofs WITH
    Users <- Parties, Contract <- ContractA, Tokens <- {SellAsset}, Secrets <- Swaps,
    Amounts <- {Amount}, Timeouts <- {InitiatorLedgers},
    swaps <- swapsA, balance <- balanceA

ProvedB == INSTANCE AtomicSwapProofs WITH
    Users <- Parties, Contract <- ContractB, Tokens <- {BuyAsset}, Secrets <- Swaps,
    Amounts <- {Amount}, Timeouts <- {CounterpartyLedgers},
    swaps <- swapsB, balance <- balanceB

\* Leg A under its own name and under that of the proofs: the same operators.
LEMMA SameA ==
    /\ A!SwapIds = ProvedA!SwapIds
    /\ A!Init => ProvedA!Init
    /\ \A s \in Swaps : Hash(s) \in ProvedA!Hashes /\ Id(s) \in ProvedA!SwapIds
<1>1. A!SwapIds = ProvedA!SwapIds
  BY DEF A!SwapIds, ProvedA!SwapIds, A!Hashes, ProvedA!Hashes, A!ComputeSwapId, ProvedA!ComputeSwapId, A!Sha256, ProvedA!Sha256
<1>2. A!Init => ProvedA!Init
  BY <1>1 DEF A!Init, ProvedA!Init, A!NoSwap, ProvedA!NoSwap, A!Addresses, ProvedA!Addresses
<1>3. \A s \in Swaps : Hash(s) \in ProvedA!Hashes
  BY DEF Hash, A!Sha256, ProvedA!Hashes, ProvedA!Sha256
<1>4. \A s \in Swaps : Id(s) \in ProvedA!SwapIds
  BY <1>3 DEF Id, A!ComputeSwapId, A!Sha256, ProvedA!SwapIds, ProvedA!ComputeSwapId, ProvedA!Sha256
<1> QED
  BY <1>1, <1>2, <1>3, <1>4

\* The calls of a swap on leg A are calls of the contract.
LEMMA CallsA ==
    ASSUME NEW s \in Swaps
    PROVE  /\ A!Lock(Initiator, Counterparty, SellAsset, Amount, Hash(s), InitiatorLedgers)
              => ProvedA!Next
           /\ A!Release(Id(s), s) => ProvedA!Next
           /\ A!Refund(Id(s)) => ProvedA!Next
<1>1. ASSUME A!Lock(Initiator, Counterparty, SellAsset, Amount, Hash(s), InitiatorLedgers)
      PROVE  ProvedA!Next
  <2>1. ProvedA!Lock(Initiator, Counterparty, SellAsset, Amount, Hash(s), InitiatorLedgers)
    BY <1>1, Zenon
    DEF A!Lock, ProvedA!Lock, A!CanLock, ProvedA!CanLock, A!Transfer, ProvedA!Transfer,
        A!ComputeSwapId, ProvedA!ComputeSwapId, A!Sha256, ProvedA!Sha256, A!NoSwap, ProvedA!NoSwap, A!Addresses, ProvedA!Addresses
  <2> QED
    BY <2>1, SameA DEF ProvedA!Next, Parties
<1>2. ASSUME A!Release(Id(s), s)
      PROVE  ProvedA!Next
  <2>1. ProvedA!Release(Id(s), s)
    BY <1>2, Zenon
    DEF A!Release, ProvedA!Release, A!CanRelease, ProvedA!CanRelease, A!IsLocked, ProvedA!IsLocked,
        A!Transfer, ProvedA!Transfer, A!Addresses, ProvedA!Addresses, A!Sha256, ProvedA!Sha256
  <2> QED
    BY <2>1, SameA DEF ProvedA!Next
<1>3. ASSUME A!Refund(Id(s))
      PROVE  ProvedA!Next
  <2>1. ProvedA!Refund(Id(s))
    BY <1>3, Zenon
    DEF A!Refund, ProvedA!Refund, A!CanRefund, ProvedA!CanRefund, A!IsLocked, ProvedA!IsLocked,
        A!Transfer, ProvedA!Transfer, A!Addresses, ProvedA!Addresses
  <2> QED
    BY <2>1, SameA DEF ProvedA!Next
<1> QED
  BY <1>1, <1>2, <1>3

\* A step of a swap is a call on leg A, or leaves leg A alone but for a secret
\* that leg B may publish, or ends a ledger.
LEMMA StepA == [Next]_vars => [ProvedA!Next]_(ProvedA!vars)
<1> SUFFICES ASSUME [Next]_vars PROVE ProvedA!Next \/ UNCHANGED ProvedA!vars
  OBVIOUS
<1>1. ASSUME NEW s \in Swaps, UNCHANGED <<swapsA, balanceA, ledger>>,
             disclosed' = disclosed \cup {s}
      PROVE  ProvedA!Next \/ UNCHANGED ProvedA!vars
  <2>1. CASE s \in disclosed
    BY <1>1, <2>1 DEF ProvedA!vars
  <2>2. CASE s \notin disclosed
    BY <1>1, <2>2 DEF ProvedA!Next, ProvedA!Disclose
  <2> QED
    BY <2>1, <2>2
<1>2. ASSUME NEW s \in Swaps, NEW step \in Steps, Include(s, step)
      PROVE  ProvedA!Next \/ UNCHANGED ProvedA!vars
  <2>1. CASE Succeeds(s, step)
    <3>1. CASE step = "locking_a"
      BY <1>2, <2>1, <3>1, CallsA DEF Include, Effect, CallLedgers
    <3>2. CASE step = "releasing_a"
      BY <1>2, <2>1, <3>2, CallsA DEF Include, Effect
    <3>3. CASE step = "locking_b"
      BY <1>2, <2>1, <3>3 DEF Include, Effect, LegsUnchanged, B!Lock, ProvedA!vars
    <3>4. CASE step = "releasing_b"
      BY <1>1, <1>2, <2>1, <3>4 DEF Include, Effect, LegsUnchanged, B!Release
    <3> QED
      BY <3>1, <3>2, <3>3, <3>4 DEF Steps, Running
  <2>2. CASE ~ Succeeds(s, step)
    BY <1>2, <2>2 DEF Include, chainVars, ProvedA!vars
  <2> QED
    BY <2>1, <2>2
<1>3. ASSUME NEW s \in Swaps, RefundA(s) \/ Claim(s)
      PROVE  ProvedA!Next
  BY <1>3, CallsA DEF RefundA, Claim
<1>4. ASSUME NEW s \in Swaps, RefundB(s)
      PROVE  UNCHANGED ProvedA!vars
  BY <1>4 DEF RefundB, LegsUnchanged, B!Refund, ProvedA!vars
<1>6. ASSUME NEW s \in Swaps,
             \/ Execute(s) \/ Send(s) \/ Confirm(s) \/ Fail(s)
             \/ \E step \in Steps : Expire(s, step)
      PROVE  UNCHANGED ProvedA!vars
  BY <1>6 DEF Execute, Send, Confirm, Fail, Expire, chainVars, ProvedA!vars
<1>7. ASSUME Crash \/ UNCHANGED vars
      PROVE  UNCHANGED ProvedA!vars
  BY <1>7 DEF Crash, vars, chainVars, ProvedA!vars
<1>8. ASSUME CloseLedger
      PROVE  ProvedA!Next
  BY <1>8 DEF CloseLedger, chainVars, ProvedA!Next, ProvedA!CloseLedger
<1> QED
  BY <1>2, <1>3, <1>4, <1>6, <1>7, <1>8 DEF Next

\* The promise of leg A under both names.
LEMMA SamePromiseA == ProvedA!ImplementsHTLC => A!ImplementsHTLC
<1>1. ASSUME NEW token \in {SellAsset}
      PROVE  /\ ProvedA!Promise(token)!Init => A!Promise(token)!Init
             /\ ProvedA!Promise(token)!Next => A!Promise(token)!Next
             /\ UNCHANGED ProvedA!Promise(token)!vars => UNCHANGED A!Promise(token)!vars
  <2>1. /\ ProvedA!Lockbox(token) = A!Lockbox(token)
        /\ ProvedA!Lockbox(token)' = A!Lockbox(token)'
        /\ A!SwapIds = ProvedA!SwapIds
    BY SameA, Zenon DEF A!Lockbox, ProvedA!Lockbox, A!NoSwap, ProvedA!NoSwap, A!IsLocked, ProvedA!IsLocked
  <2>2. ProvedA!Promise(token)!Init => A!Promise(token)!Init
    BY <2>1 DEF ProvedA!Promise!Init, A!Promise!Init, ProvedA!Promise!NoLock, A!Promise!NoLock
  <2>3. UNCHANGED ProvedA!Promise(token)!vars => UNCHANGED A!Promise(token)!vars
    BY <2>1 DEF ProvedA!Promise!vars, A!Promise!vars
  <2>4. ASSUME NEW i \in ProvedA!SwapIds, ProvedA!Promise(token)!Lock(i)
        PROVE  A!Promise(token)!Next
    <3>1. A!Promise(token)!Lock(i)
      BY <2>1, <2>4 DEF A!Promise!Lock, ProvedA!Promise!Lock
    <3> QED
      BY <2>1, <3>1 DEF A!Promise!Next
  <2>5. ASSUME NEW i \in ProvedA!SwapIds, ProvedA!Promise(token)!Release(i)
        PROVE  A!Promise(token)!Next
    <3>1. A!Promise(token)!Release(i)
      BY <2>1, <2>5 DEF A!Promise!Release, ProvedA!Promise!Release,
                        A!Promise!Settle, ProvedA!Promise!Settle
    <3> QED
      BY <2>1, <3>1 DEF A!Promise!Next
  <2>6. ASSUME NEW i \in ProvedA!SwapIds, ProvedA!Promise(token)!Refund(i)
        PROVE  A!Promise(token)!Next
    <3>1. A!Promise(token)!Refund(i)
      BY <2>1, <2>6 DEF A!Promise!Refund, ProvedA!Promise!Refund,
                        A!Promise!Settle, ProvedA!Promise!Settle
    <3> QED
      BY <2>1, <3>1 DEF A!Promise!Next
  <2>7. ProvedA!Promise(token)!Next => A!Promise(token)!Next
    BY <2>1, <2>4, <2>5, <2>6
    DEF A!Promise!Next, ProvedA!Promise!Next, A!Promise!CloseLedger, ProvedA!Promise!CloseLedger
  <2> QED
    BY <2>2, <2>3, <2>7
<1>2. (\A token \in {SellAsset} : ProvedA!Promise(token)!Init)
      => \A token \in {SellAsset} : A!Promise(token)!Init
  BY <1>1
<1>3. [\A token \in {SellAsset} : [ProvedA!Promise(token)!Next]_(ProvedA!Promise(token)!vars)]_(ProvedA!vars)
      => [\A token \in {SellAsset} : [A!Promise(token)!Next]_(A!Promise(token)!vars)]_(A!vars)
  <2>1. ProvedA!vars = A!vars /\ ProvedA!vars' = A!vars'
    BY DEF ProvedA!vars, A!vars
  <2> QED
    BY <1>1, <2>1
<1> QED
  BY <1>2, <1>3, PTL DEF ProvedA!ImplementsHTLC, A!ImplementsHTLC

\* Leg B under its own name and under that of the proofs: the same operators.
LEMMA SameB ==
    /\ B!SwapIds = ProvedB!SwapIds
    /\ B!Init => ProvedB!Init
    /\ \A s \in Swaps : Hash(s) \in ProvedB!Hashes /\ Id(s) \in ProvedB!SwapIds
<1>1. B!SwapIds = ProvedB!SwapIds
  BY DEF B!SwapIds, ProvedB!SwapIds, B!Hashes, ProvedB!Hashes, B!ComputeSwapId, ProvedB!ComputeSwapId, B!Sha256, ProvedB!Sha256
<1>2. B!Init => ProvedB!Init
  BY <1>1 DEF B!Init, ProvedB!Init, B!NoSwap, ProvedB!NoSwap, B!Addresses, ProvedB!Addresses
<1>3. \A s \in Swaps : Hash(s) \in ProvedB!Hashes
  BY DEF Hash, A!Sha256, ProvedB!Hashes, ProvedB!Sha256
<1>4. \A s \in Swaps : Id(s) \in ProvedB!SwapIds
  BY <1>3 DEF Id, A!ComputeSwapId, A!Sha256, ProvedB!SwapIds, ProvedB!ComputeSwapId, ProvedB!Sha256
<1> QED
  BY <1>1, <1>2, <1>3, <1>4

\* The calls of a swap on leg B are calls of the contract.
LEMMA CallsB ==
    ASSUME NEW s \in Swaps
    PROVE  /\ B!Lock(Counterparty, Initiator, BuyAsset, Amount, Hash(s), CounterpartyLedgers)
              => ProvedB!Next
           /\ B!Release(Id(s), s) => ProvedB!Next
           /\ B!Refund(Id(s)) => ProvedB!Next
<1>1. ASSUME B!Lock(Counterparty, Initiator, BuyAsset, Amount, Hash(s), CounterpartyLedgers)
      PROVE  ProvedB!Next
  <2>1. ProvedB!Lock(Counterparty, Initiator, BuyAsset, Amount, Hash(s), CounterpartyLedgers)
    BY <1>1, Zenon
    DEF B!Lock, ProvedB!Lock, B!CanLock, ProvedB!CanLock, B!Transfer, ProvedB!Transfer,
        B!ComputeSwapId, ProvedB!ComputeSwapId, B!Sha256, ProvedB!Sha256, B!NoSwap, ProvedB!NoSwap, B!Addresses, ProvedB!Addresses
  <2> QED
    BY <2>1, SameB DEF ProvedB!Next, Parties
<1>2. ASSUME B!Release(Id(s), s)
      PROVE  ProvedB!Next
  <2>1. ProvedB!Release(Id(s), s)
    BY <1>2, Zenon
    DEF B!Release, ProvedB!Release, B!CanRelease, ProvedB!CanRelease, B!IsLocked, ProvedB!IsLocked,
        B!Transfer, ProvedB!Transfer, B!Addresses, ProvedB!Addresses, B!Sha256, ProvedB!Sha256
  <2> QED
    BY <2>1, SameB DEF ProvedB!Next
<1>3. ASSUME B!Refund(Id(s))
      PROVE  ProvedB!Next
  <2>1. ProvedB!Refund(Id(s))
    BY <1>3, Zenon
    DEF B!Refund, ProvedB!Refund, B!CanRefund, ProvedB!CanRefund, B!IsLocked, ProvedB!IsLocked,
        B!Transfer, ProvedB!Transfer, B!Addresses, ProvedB!Addresses
  <2> QED
    BY <2>1, SameB DEF ProvedB!Next
<1> QED
  BY <1>1, <1>2, <1>3

\* A step of a swap is a call on leg B, or leaves leg B alone but for a secret
\* that leg A may publish, or ends a ledger.
LEMMA StepB == [Next]_vars => [ProvedB!Next]_(ProvedB!vars)
<1> SUFFICES ASSUME [Next]_vars PROVE ProvedB!Next \/ UNCHANGED ProvedB!vars
  OBVIOUS
<1>1. ASSUME NEW s \in Swaps, UNCHANGED <<swapsB, balanceB, ledger>>,
             disclosed' = disclosed \cup {s}
      PROVE  ProvedB!Next \/ UNCHANGED ProvedB!vars
  <2>1. CASE s \in disclosed
    BY <1>1, <2>1 DEF ProvedB!vars
  <2>2. CASE s \notin disclosed
    BY <1>1, <2>2 DEF ProvedB!Next, ProvedB!Disclose
  <2> QED
    BY <2>1, <2>2
<1>2. ASSUME NEW s \in Swaps, NEW step \in Steps, Include(s, step)
      PROVE  ProvedB!Next \/ UNCHANGED ProvedB!vars
  <2>1. CASE Succeeds(s, step)
    <3>1. CASE step = "locking_b"
      BY <1>2, <2>1, <3>1, CallsB DEF Include, Effect, CallLedgers
    <3>2. CASE step = "releasing_b"
      BY <1>2, <2>1, <3>2, CallsB DEF Include, Effect
    <3>3. CASE step = "locking_a"
      BY <1>2, <2>1, <3>3 DEF Include, Effect, LegsUnchanged, A!Lock, ProvedB!vars
    <3>4. CASE step = "releasing_a"
      BY <1>1, <1>2, <2>1, <3>4 DEF Include, Effect, LegsUnchanged, A!Release
    <3> QED
      BY <3>1, <3>2, <3>3, <3>4 DEF Steps, Running
  <2>2. CASE ~ Succeeds(s, step)
    BY <1>2, <2>2 DEF Include, chainVars, ProvedB!vars
  <2> QED
    BY <2>1, <2>2
<1>3. ASSUME NEW s \in Swaps, RefundB(s)
      PROVE  ProvedB!Next
  BY <1>3, CallsB DEF RefundB
<1>4. ASSUME NEW s \in Swaps, RefundA(s)
      PROVE  UNCHANGED ProvedB!vars
  BY <1>4 DEF RefundA, LegsUnchanged, A!Refund, ProvedB!vars
<1>5. ASSUME NEW s \in Swaps, Claim(s)
      PROVE  ProvedB!Next \/ UNCHANGED ProvedB!vars
  BY <1>1, <1>5 DEF Claim, LegsUnchanged, A!Release
<1>6. ASSUME NEW s \in Swaps,
             \/ Execute(s) \/ Send(s) \/ Confirm(s) \/ Fail(s)
             \/ \E step \in Steps : Expire(s, step)
      PROVE  UNCHANGED ProvedB!vars
  BY <1>6 DEF Execute, Send, Confirm, Fail, Expire, chainVars, ProvedB!vars
<1>7. ASSUME Crash \/ UNCHANGED vars
      PROVE  UNCHANGED ProvedB!vars
  BY <1>7 DEF Crash, vars, chainVars, ProvedB!vars
<1>8. ASSUME CloseLedger
      PROVE  ProvedB!Next
  BY <1>8 DEF CloseLedger, chainVars, ProvedB!Next, ProvedB!CloseLedger
<1> QED
  BY <1>2, <1>3, <1>4, <1>5, <1>6, <1>7, <1>8 DEF Next

\* The promise of leg B under both names.
LEMMA SamePromiseB == ProvedB!ImplementsHTLC => B!ImplementsHTLC
<1>1. ASSUME NEW token \in {BuyAsset}
      PROVE  /\ ProvedB!Promise(token)!Init => B!Promise(token)!Init
             /\ ProvedB!Promise(token)!Next => B!Promise(token)!Next
             /\ UNCHANGED ProvedB!Promise(token)!vars => UNCHANGED B!Promise(token)!vars
  <2>1. /\ ProvedB!Lockbox(token) = B!Lockbox(token)
        /\ ProvedB!Lockbox(token)' = B!Lockbox(token)'
        /\ B!SwapIds = ProvedB!SwapIds
    BY SameB, Zenon DEF B!Lockbox, ProvedB!Lockbox, B!NoSwap, ProvedB!NoSwap, B!IsLocked, ProvedB!IsLocked
  <2>2. ProvedB!Promise(token)!Init => B!Promise(token)!Init
    BY <2>1 DEF ProvedB!Promise!Init, B!Promise!Init, ProvedB!Promise!NoLock, B!Promise!NoLock
  <2>3. UNCHANGED ProvedB!Promise(token)!vars => UNCHANGED B!Promise(token)!vars
    BY <2>1 DEF ProvedB!Promise!vars, B!Promise!vars
  <2>4. ASSUME NEW i \in ProvedB!SwapIds, ProvedB!Promise(token)!Lock(i)
        PROVE  B!Promise(token)!Next
    <3>1. B!Promise(token)!Lock(i)
      BY <2>1, <2>4 DEF B!Promise!Lock, ProvedB!Promise!Lock
    <3> QED
      BY <2>1, <3>1 DEF B!Promise!Next
  <2>5. ASSUME NEW i \in ProvedB!SwapIds, ProvedB!Promise(token)!Release(i)
        PROVE  B!Promise(token)!Next
    <3>1. B!Promise(token)!Release(i)
      BY <2>1, <2>5 DEF B!Promise!Release, ProvedB!Promise!Release,
                        B!Promise!Settle, ProvedB!Promise!Settle
    <3> QED
      BY <2>1, <3>1 DEF B!Promise!Next
  <2>6. ASSUME NEW i \in ProvedB!SwapIds, ProvedB!Promise(token)!Refund(i)
        PROVE  B!Promise(token)!Next
    <3>1. B!Promise(token)!Refund(i)
      BY <2>1, <2>6 DEF B!Promise!Refund, ProvedB!Promise!Refund,
                        B!Promise!Settle, ProvedB!Promise!Settle
    <3> QED
      BY <2>1, <3>1 DEF B!Promise!Next
  <2>7. ProvedB!Promise(token)!Next => B!Promise(token)!Next
    BY <2>1, <2>4, <2>5, <2>6
    DEF B!Promise!Next, ProvedB!Promise!Next, B!Promise!CloseLedger, ProvedB!Promise!CloseLedger
  <2> QED
    BY <2>2, <2>3, <2>7
<1>2. (\A token \in {BuyAsset} : ProvedB!Promise(token)!Init)
      => \A token \in {BuyAsset} : B!Promise(token)!Init
  BY <1>1
<1>3. [\A token \in {BuyAsset} : [ProvedB!Promise(token)!Next]_(ProvedB!Promise(token)!vars)]_(ProvedB!vars)
      => [\A token \in {BuyAsset} : [B!Promise(token)!Next]_(B!Promise(token)!vars)]_(B!vars)
  <2>1. ProvedB!vars = B!vars /\ ProvedB!vars' = B!vars'
    BY DEF ProvedB!vars, B!vars
  <2> QED
    BY <1>1, <2>1
<1> QED
  BY <1>2, <1>3, PTL DEF ProvedB!ImplementsHTLC, B!ImplementsHTLC

\* Whatever the job, the network, the refunds and the counterparty do, each of
\* the two contracts only ever sees calls it was written for.
THEOREM LegsRunTheContract == Spec => ProvedA!Spec /\ ProvedB!Spec
<1>1. Init => ProvedA!Init /\ ProvedB!Init
  BY SameA, SameB DEF Init
<1>2. [Next]_vars => [ProvedA!Next]_(ProvedA!vars) /\ [ProvedB!Next]_(ProvedB!vars)
  BY StepA, StepB
<1> QED
  BY <1>1, <1>2, PTL DEF Spec, ProvedA!Spec, ProvedB!Spec

\* Each leg keeps the HashedTimeLock promise although the other one shares its
\* ledger and publishes its secrets: what is locked leaves once and whole.
THEOREM LegsImplementHTLCHolds == Spec => LegsImplementHTLC
<1>1. ProvedA!Assumptions /\ ProvedB!Assumptions
  BY DEF ProvedA!Assumptions, ProvedB!Assumptions
<1>2. ProvedA!Spec => ProvedA!ImplementsHTLC
  BY <1>1, ProvedA!SwapImplementsHTLC
<1>3. ProvedB!Spec => ProvedB!ImplementsHTLC
  BY <1>1, ProvedB!SwapImplementsHTLC
<1> QED
  BY <1>2, <1>3, LegsRunTheContract, SamePromiseA, SamePromiseB, PTL DEF LegsImplementHTLC
=============================================================================
