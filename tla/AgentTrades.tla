---------------------------- MODULE AgentTrades -----------------------------
(***************************************************************************)
(* A trade of the agent API: its row, and the escrow the platform locks    *)
(* and releases for it, as seller and buyer at once.  Every handler reads  *)
(* the row, and writes it by id alone; locking and completing wait for a   *)
(* transaction in between.                                                 *)
(*                                                                         *)
(* A transaction that is not seen within half a minute may be included     *)
(* after that, and two handlers that read the same sequence number in the  *)
(* same second build the same one.  Its simulation and its sending are one *)
(* step, since what counts is the state it is included in.  The mock mode  *)
(* without a chain is left out, and the trade has both its users.          *)
(***************************************************************************)
EXTENDS Integers

CONSTANTS
    Workers,            \* the HTTP requests that can be in progress together
    Times,              \* the seconds in which a transaction may be built
    LastSequence        \* bounds the sequence number of the platform's account

VARIABLES
    row,                \* the row: its status and whether it has its secret
    escrow,             \* the trade in the contract
    timeout,            \* the contract's timeout has passed
    account,            \* the sequence number of the platform's account
    pool,               \* the transactions on their way
    ledger,             \* those that were included and succeeded
    worker              \* each request: the await it is at, and what it read

vars == <<row, escrow, timeout, account, pool, ledger, worker>>

Idle == [pc |-> "idle"]

At(w, pc) == worker[w].pc = pc

Become(w, state) == worker' = [worker EXCEPT ![w] = state]

Goto(w, pc) == Become(w, [worker[w] EXCEPT !.pc = pc])

Init ==
    /\ row = [status |-> "pending", secret |-> TRUE]
    /\ escrow = "none"
    /\ timeout = FALSE
    /\ account = 0
    /\ pool = {}
    /\ ledger = {}
    /\ worker = [w \in Workers |-> Idle]

-----------------------------------------------------------------------------
(* Handlers: what each reads, and the write it ends with.                  *)

\* Each handler refuses any status but the one it expects.  The secret of a
\* cancelled trade is gone, and completing one throws before it sends.
Read(w, handler, status, pc) ==
    /\ At(w, "idle")
    /\ row.status = status
    /\ handler = "release" => row.secret
    /\ Become(w, [pc |-> pc, handler |-> handler])
    /\ UNCHANGED <<row, escrow, timeout, account, pool, ledger>>

LockTrade(w) == Read(w, "lock", "pending", "build")
RevealTrade(w) == Read(w, "reveal", "locked", "write")
CompleteTrade(w) == Read(w, "release", "revealing", "build")
CancelTrade(w) == Read(w, "cancel", "pending", "write")

Written(handler) ==
    CASE handler = "lock"    -> [row EXCEPT !.status = "locked"]
      [] handler = "reveal"  -> [row EXCEPT !.status = "revealing"]
      [] handler = "release" -> [status |-> "completed", secret |-> FALSE]
      [] handler = "cancel"  -> [status |-> "cancelled", secret |-> FALSE]

Write(w) ==
    /\ At(w, "write")
    /\ row' = Written(worker[w].handler)
    /\ Become(w, Idle)
    /\ UNCHANGED <<escrow, timeout, account, pool, ledger>>

-----------------------------------------------------------------------------
(* callLockOnChain and callReleaseOnChain.                                 *)

Build(w, time) ==
    /\ At(w, "build")
    /\ account < LastSequence
    /\ Become(w, [pc |-> "send", handler |-> worker[w].handler,
                  tx |-> [call |-> worker[w].handler, sequence |-> account + 1, time |-> time]])
    /\ UNCHANGED <<row, escrow, timeout, account, pool, ledger>>

\* The contract locks a secret hash once, and releases what is locked.
Accepts(call) == escrow = IF call = "lock" THEN "none" ELSE "locked"

Send(w) ==
    LET tx == worker[w].tx IN
    /\ At(w, "send")
    /\ Accepts(tx.call)
    /\ tx.sequence > account
    /\ pool' = pool \cup {tx}
    /\ Goto(w, "poll")
    /\ UNCHANGED <<row, escrow, timeout, account, ledger>>

Include(tx) ==
    /\ tx.sequence = account + 1
    /\ account' = account + 1
    /\ pool' = pool \ {tx}
    /\ \/ /\ Accepts(tx.call)
          /\ escrow' = IF tx.call = "lock" THEN "locked" ELSE "released"
          /\ ledger' = ledger \cup {tx}
       \/ /\ ~ Accepts(tx.call)
          /\ UNCHANGED <<escrow, ledger>>
    /\ UNCHANGED <<row, timeout, worker>>

\* It expires, or another transaction of the account takes its place.
Drop(tx) ==
    /\ pool' = pool \ {tx}
    /\ UNCHANGED <<row, escrow, timeout, account, ledger, worker>>

\* Mutant: a transaction that was not seen in time counts as confirmed, as in
\* the execution of swaps.
Sent(w) ==
    /\ At(w, "poll")
    /\ Goto(w, "write")
    /\ UNCHANGED <<row, escrow, timeout, account, pool, ledger>>

Confirmed(w) ==
    /\ At(w, "poll")
    /\ worker[w].tx \in ledger
    /\ Goto(w, "write")
    /\ UNCHANGED <<row, escrow, timeout, account, pool, ledger>>

\* Anything throws: a query, the simulation, the sending, or the last poll.
Throws(w) ==
    /\ ~ At(w, "idle")
    /\ Become(w, Idle)
    /\ UNCHANGED <<row, escrow, timeout, account, pool, ledger>>

\* The contract's timeout, and the refund that nothing here asks for.
TimesOut ==
    /\ escrow = "locked" /\ ~ timeout
    /\ timeout' = TRUE
    /\ UNCHANGED <<row, escrow, account, pool, ledger, worker>>

Refund ==
    /\ escrow = "locked" /\ timeout
    /\ escrow' = "refunded"
    /\ UNCHANGED <<row, timeout, account, pool, ledger, worker>>

Next ==
    \/ \E w \in Workers :
        \/ LockTrade(w) \/ RevealTrade(w) \/ CompleteTrade(w) \/ CancelTrade(w)
        \/ Write(w) \/ \E time \in Times : Build(w, time)
        \/ Send(w) \/ Confirmed(w) \/ Throws(w)
    \/ \E tx \in pool : Include(tx) \/ Drop(tx)
    \/ TimesOut \/ Refund

Spec == Init /\ [][Next]_vars

-----------------------------------------------------------------------------
(* Properties.                                                             *)

\* Whatever the overlapping handlers overwrite and whichever transactions come
\* late, the row claims no more than the chain did: a trade that is locked or
\* revealing was locked in the contract, and a completed one was released there.
RowBacked ==
    /\ row.status \in {"locked", "revealing"} => escrow # "none"
    /\ row.status = "completed" => escrow = "released"
=============================================================================
