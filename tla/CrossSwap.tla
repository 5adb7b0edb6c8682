----------------------------- MODULE CrossSwap ------------------------------
(***************************************************************************)
(* A swap between two atomic swap contracts, as the agent API executes it  *)
(* in the background of POST /api/v1/swaps/execute: the initiator locks on *)
(* contract A, the counterparty locks on contract B under the same hash,   *)
(* the initiator releases on B, which publishes the secret, and the        *)
(* counterparty releases on A with it.                                     *)
(*                                                                         *)
(* Each of the four calls is simulated, sent, and polled for a minute; a   *)
(* transaction stays valid for three, so one that the job has given up on  *)
(* may still be applied.  The job lives in memory: it fails at the first   *)
(* error and a restart forgets it.  What it leaves behind is settled by    *)
(* refund, which anyone may call, and by the counterparty's own agent,     *)
(* which watches B for the secret.                                         *)
(*                                                                         *)
(* Both contracts see one ledger, as they do on one network.               *)
(***************************************************************************)
EXTENDS Integers

CONSTANTS
    Swaps,              \* the executions of plans; each has its own secret
    Initiator, Counterparty, ContractA, ContractB,
    SellAsset, BuyAsset,
    Amount,             \* of either asset
    InitiatorLedgers,   \* plan.initiator_ledgers
    CounterpartyLedgers,\* plan.counterparty_ledgers
    MinTimeout, MaxLedger, Endowment,
    PollLedgers,        \* how long a step of the job may take
    ValidLedgers,       \* how long a transaction may wait for its ledger
    ReactionLedgers     \* how soon the counterparty's agent uses a secret it reads

VARIABLES
    swapsA, balanceA,   \* contract A
    swapsB, balanceB,   \* contract B
    ledger,
    disclosed,          \* the secrets published by a release
    published,          \* the ledger in which each was
    job,                \* swapStore: status, and since which ledger
    tx                  \* the four transactions of each swap

chainVars == <<swapsA, balanceA, swapsB, balanceB, disclosed, published>>
vars == <<chainVars, ledger, job, tx>>

Parties == {Initiator, Counterparty}

A == INSTANCE AtomicSwap WITH
    Users <- Parties, Contract <- ContractA, Tokens <- {SellAsset}, Secrets <- Swaps,
    Amounts <- {Amount}, Timeouts <- {InitiatorLedgers},
    swaps <- swapsA, balance <- balanceA

B == INSTANCE AtomicSwap WITH
    Users <- Parties, Contract <- ContractB, Tokens <- {BuyAsset}, Secrets <- Swaps,
    Amounts <- {Amount}, Timeouts <- {CounterpartyLedgers},
    swaps <- swapsB, balance <- balanceB

ASSUME LegAssumption == A!Assumptions /\ B!Assumptions

Hash(s) == A!Sha256(s)
Id(s) == A!ComputeSwapId(Hash(s))

LegA(s) == swapsA[Id(s)].status
LegB(s) == swapsB[Id(s)].status

\* The statuses between two awaits are never seen and are left out: queued,
\* locked_a, locked_b, released_b.  "unknown" is a swap not in swapStore.
Running == {"locking_a", "locking_b", "releasing_b", "releasing_a"}
JobStatus == Running \cup {"unknown", "completed", "failed"}

\* A step of the job is named by the status it runs under.
Steps == Running

NoTx == [state |-> "none", at |-> 0]

-----------------------------------------------------------------------------
Init ==
    /\ A!Init
    /\ B!Init
    /\ published = [s \in Swaps |-> 0]
    /\ job = [s \in Swaps |-> [status |-> "unknown", since |-> 0]]
    /\ tx = [s \in Swaps |-> [step \in Steps |-> NoTx]]

Enter(s, status) == job' = [job EXCEPT ![s] = [status |-> status, since |-> ledger]]

\* The route answers 202 at once; the job sets locking_a before its first await.
Execute(s) ==
    /\ job[s].status = "unknown"
    /\ tx[s]["locking_a"] = NoTx
    /\ Enter(s, "locking_a")
    /\ UNCHANGED <<chainVars, ledger, tx>>

\* Mutant: the two timeouts of the plan change places.
CallLedgersSwapped(step) == IF step = "locking_a" THEN CounterpartyLedgers ELSE InitiatorLedgers

\* The timeout each lock is called with.
CallLedgers(step) == IF step = "locking_a" THEN InitiatorLedgers ELSE CounterpartyLedgers

\* Would the step's call succeed now?  Simulation asks it, and so does the
\* ledger that includes the transaction.
Succeeds(s, step) ==
    CASE step = "locking_a" -> A!CanLock(Initiator, SellAsset, Amount, Hash(s), CallLedgers(step))
      [] step = "locking_b" -> B!CanLock(Counterparty, BuyAsset, Amount, Hash(s), CallLedgers(step))
      [] step = "releasing_b" -> B!CanRelease(Id(s), s)
      [] step = "releasing_a" -> A!CanRelease(Id(s), s)

\* invokeContract up to its first poll: simulate, sign, send.
Send(s) ==
    LET step == job[s].status IN
    /\ step \in Running
    /\ tx[s][step] = NoTx
    /\ Succeeds(s, step)
    /\ tx' = [tx EXCEPT ![s][step] = [state |-> "sent", at |-> ledger]]
    /\ UNCHANGED <<chainVars, ledger, job>>

\* Mutant: the counterparty is paid before the secret is published.
NextStatusPayingFirst(step) ==
    CASE step = "locking_a" -> "locking_b"
      [] step = "locking_b" -> "releasing_a"
      [] step = "releasing_a" -> "releasing_b"
      [] step = "releasing_b" -> "completed"

\* The order of the four calls.
NextStatus(step) ==
    CASE step = "locking_a" -> "locking_b"
      [] step = "locking_b" -> "releasing_b"
      [] step = "releasing_b" -> "releasing_a"
      [] step = "releasing_a" -> "completed"

\* Mutant: a step whose transaction was sent counts as done.
ConfirmSent(s) ==
    LET step == job[s].status IN
    /\ step \in Running
    /\ tx[s][step].state \in {"sent", "ok"}
    /\ Enter(s, NextStatus(step))
    /\ UNCHANGED <<chainVars, ledger, tx>>

\* The poll sees SUCCESS, and the job goes on to the next call.
Confirm(s) ==
    LET step == job[s].status IN
    /\ step \in Running
    /\ tx[s][step].state = "ok"
    /\ Enter(s, NextStatus(step))
    /\ UNCHANGED <<chainVars, ledger, tx>>

\* A simulation, a submission or a poll throws, or 30 polls have not seen the
\* transaction; nothing of what was done is undone.
Fail(s) ==
    /\ job[s].status \in Running
    /\ Enter(s, "failed")
    /\ UNCHANGED <<chainVars, ledger, tx>>

\* swapStore and the jobs live in the process.
Crash ==
    /\ \E s \in Swaps : job[s].status # "unknown"
    /\ job' = [s \in Swaps |-> [status |-> "unknown", since |-> 0]]
    /\ UNCHANGED <<chainVars, ledger, tx>>

-----------------------------------------------------------------------------
(* The chain.                                                              *)

LegsUnchanged(leg) ==
    IF leg = "A" THEN UNCHANGED <<swapsB, balanceB>> ELSE UNCHANGED <<swapsA, balanceA>>

\* A release publishes its secret in the ledger that includes it.
Publish(s) ==
    published' = IF s \in disclosed THEN published ELSE [published EXCEPT ![s] = ledger]

Effect(s, step) ==
    \/ /\ step = "locking_a"
       /\ A!Lock(Initiator, Counterparty, SellAsset, Amount, Hash(s), CallLedgers(step))
       /\ LegsUnchanged("A")
       /\ UNCHANGED published
    \/ /\ step = "locking_b"
       /\ B!Lock(Counterparty, Initiator, BuyAsset, Amount, Hash(s), CallLedgers(step))
       /\ LegsUnchanged("B")
       /\ UNCHANGED published
    \/ /\ step = "releasing_b"
       /\ B!Release(Id(s), s)
       /\ LegsUnchanged("B")
       /\ Publish(s)
    \/ /\ step = "releasing_a"
       /\ A!Release(Id(s), s)
       /\ LegsUnchanged("A")
       /\ Publish(s)

\* A ledger includes the transaction, which succeeds or fails by what the
\* contract is by then.
Include(s, step) ==
    /\ tx[s][step].state = "sent"
    /\ IF Succeeds(s, step)
       THEN /\ Effect(s, step)
            /\ tx' = [tx EXCEPT ![s][step].state = "ok"]
       ELSE /\ tx' = [tx EXCEPT ![s][step].state = "failed"]
            /\ UNCHANGED <<chainVars, ledger>>
    /\ UNCHANGED job

\* It is never included; its time bound passes.
Expire(s, step) ==
    /\ tx[s][step].state = "sent"
    /\ tx' = [tx EXCEPT ![s][step].state = "failed"]
    /\ UNCHANGED <<chainVars, ledger, job>>

RefundA(s) ==
    /\ A!Refund(Id(s))
    /\ LegsUnchanged("A")
    /\ UNCHANGED <<published, job, tx>>

RefundB(s) ==
    /\ B!Refund(Id(s))
    /\ LegsUnchanged("B")
    /\ UNCHANGED <<published, job, tx>>

\* The counterparty's agent releases on A with the secret it read on B.
Claim(s) ==
    /\ s \in disclosed
    /\ A!Release(Id(s), s)
    /\ LegsUnchanged("A")
    /\ UNCHANGED <<published, job, tx>>

\* What must have happened by the end of a ledger.
InTime(s) ==
    /\ job[s].status \in Running => ledger < job[s].since + PollLedgers
    /\ \A step \in Steps :
          tx[s][step].state = "sent" => ledger < tx[s][step].at + ValidLedgers
    /\ s \in disclosed /\ LegA(s) = "Locked" => ledger < published[s] + ReactionLedgers

CloseLedger ==
    /\ ledger < MaxLedger
    /\ \A s \in Swaps : InTime(s)
    /\ ledger' = ledger + 1
    /\ UNCHANGED <<chainVars, job, tx>>

Next ==
    \/ \E s \in Swaps :
          \/ Execute(s) \/ Send(s) \/ Confirm(s) \/ Fail(s)
          \/ \E step \in Steps : Include(s, step) \/ Expire(s, step)
          \/ RefundA(s) \/ RefundB(s) \/ Claim(s)
    \/ Crash
    \/ CloseLedger

Spec == Init /\ [][Next]_vars

-----------------------------------------------------------------------------
(* Properties.                                                             *)

TypeOK ==
    /\ A!TypeOK
    /\ B!TypeOK
    /\ published \in [Swaps -> 0 .. MaxLedger]
    /\ job \in [Swaps -> [status : JobStatus, since : 0 .. MaxLedger]]
    /\ tx \in [Swaps -> [Steps -> [state : {"none", "sent", "ok", "failed"},
                                   at : 0 .. MaxLedger]]]

\* The counterparty gets leg A only for leg B: leg A is released only when leg B
\* was, whatever fails, restarts or arrives late.
PaidInOrder == \A s \in Swaps : LegA(s) = "Released" => LegB(s) = "Released"

\* Both legs or neither: no leg is released while the other went back.  This is
\* what initiator_timeout > counterparty_timeout is for, and it takes the
\* counterparty to use the secret within ReactionLedgers of its publication.
BothOrNeither ==
    \A s \in Swaps : ~ {LegA(s), LegB(s)} = {"Released", "Refunded"}

\* What the status endpoint reports is backed by the chain: each status by the
\* legs that were locked or released before it was set.
StatusBacked ==
    \A s \in Swaps :
        /\ job[s].status \in {"locking_b", "releasing_b", "releasing_a"} => LegA(s) # "None"
        /\ job[s].status = "releasing_b" => LegB(s) # "None"
        /\ job[s].status \in {"releasing_a", "completed"} => LegB(s) = "Released"
        /\ job[s].status = "completed" => LegA(s) = "Released"

\* Each leg keeps the HashedTimeLock promise although the other one shares its
\* ledger and publishes its secrets: what is locked leaves once and whole.
LegsImplementHTLC == A!ImplementsHTLC /\ B!ImplementsHTLC
=============================================================================
