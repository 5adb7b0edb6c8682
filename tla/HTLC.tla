-------------------------------- MODULE HTLC --------------------------------
(***************************************************************************)
(* What every hashed timelock contract of the repository promises, taken   *)
(* from the HashedTimeLock trait of contracts/htlc-core: an amount is      *)
(* locked once under an id, and leaves the contract's pool exactly once,   *)
(* whole, either by release to the counterparty or, after the timeout, by  *)
(* refund to the initiator.  Who is paid and what the preimage is are left *)
(* to the contracts that implement it.                                     *)
(***************************************************************************)
EXTENDS Integers

CONSTANT Ids            \* the swap or trade ids that can be locked

VARIABLES
    lockbox,            \* per id: its SwapStatus, what it holds, its timeout
    pool,               \* what the contract owns, all ids together
    ledger              \* the ledger sequence number

vars == <<lockbox, pool, ledger>>

\* "None" stands for an id never locked, which get_status does not know.
SwapStatus == {"None", "Locked", "Released", "Refunded"}

NoLock == [status |-> "None", held |-> 0, timeout |-> 0]

Init ==
    /\ lockbox = [i \in Ids |-> NoLock]
    /\ pool = 0
    /\ ledger = 0

\* Any amount above zero and any timeout not yet past: the new lockbox is
\* constrained, not enumerated.
Lock(i) ==
    LET box == lockbox'[i] IN
    /\ lockbox[i].status = "None"
    /\ box.held \in Nat \ {0}
    /\ box.timeout \in Nat
    /\ box.timeout >= ledger
    /\ lockbox' = [lockbox EXCEPT ![i] =
           [status |-> "Locked", held |-> box.held, timeout |-> box.timeout]]
    /\ pool' = pool + box.held
    /\ UNCHANGED ledger

\* Both ways out empty the lockbox and take from the pool what it held.
Settle(i, status) ==
    /\ lockbox[i].status = "Locked"
    /\ lockbox' = [lockbox EXCEPT ![i] =
           [status |-> status, held |-> 0, timeout |-> lockbox[i].timeout]]
    /\ pool' = pool - lockbox[i].held
    /\ UNCHANGED ledger

Release(i) == Settle(i, "Released")

Refund(i) ==
    /\ ledger >= lockbox[i].timeout
    /\ Settle(i, "Refunded")

CloseLedger ==
    /\ ledger' = ledger + 1
    /\ UNCHANGED <<lockbox, pool>>

Next ==
    \/ CloseLedger
    \/ \E i \in Ids : Lock(i) \/ Release(i) \/ Refund(i)

Spec == Init /\ [][Next]_vars
=============================================================================
