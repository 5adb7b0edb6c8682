--------------------------- MODULE EventListener ----------------------------
(***************************************************************************)
(* The event listener: a loop that reads a cursor, fetches the escrow      *)
(* contract's events after it, marks each in processed_tx, dispatches the  *)
(* ones it was first to mark, and moves the cursor to the latest ledger.   *)
(*                                                                         *)
(* Every await is a step.  During a deployment the loops of two processes  *)
(* overlap, on one cursor and one processed_tx; any of them may throw or   *)
(* die at any await, which loses its batch, and polls again.               *)
(*                                                                         *)
(* What dispatching does to a trade is Settlement's Deliver; here it is    *)
(* counted.  The backoff, whose length nothing depends on, is the loop     *)
(* being idle.                                                             *)
(***************************************************************************)
EXTENDS Integers, FiniteSets

CONSTANTS
    Processes,          \* the backend processes that may run the loop
    MaxEvents,          \* bounds the events of the contract
    MaxLedger,          \* bounds the chain
    PageLimit           \* EVENTS_PAGE_LIMIT, 200 in the code

ASSUME ListenerAssumption ==
    /\ MaxEvents \in Nat
    /\ MaxLedger \in Nat \ {0}
    /\ PageLimit \in Nat \ {0}

VARIABLES
    chain,              \* the ledger that emitted each event, 0 before
    latest,             \* the newest ledger of the chain
    oldest,             \* the oldest ledger the RPC server still has
    cursor,             \* event_cursor.last_ledger, 0 when there is no row
    marked,             \* processed_tx: the events of isDuplicate
    dispatched,         \* how often each event was dispatched
    loop,               \* the loop of each process
    passed              \* the events that a saved cursor skipped unread

vars == <<chain, latest, oldest, cursor, marked, dispatched, loop, passed>>

Events == 1 .. MaxEvents

Ledgers == 0 .. MaxLedger

\* Events are numbered in the order of the chain.
Emitted == {e \in Events : chain[e] # 0}

\* pc: the await the loop is at.  read: the cursor it loaded; target: the ledger
\* it will save; queue: the events of the batch still to be looked at; skips:
\* the ones that saving the target passes over; event: the one in dispatch.
Idle == [pc |-> "idle", read |-> 0, target |-> 0, queue |-> {}, skips |-> {}, event |-> 0]

Goto(p, state) == loop' = [loop EXCEPT ![p] = state]

-----------------------------------------------------------------------------
Init ==
    /\ chain = [e \in Events |-> 0]
    /\ latest = 1
    /\ oldest = 1
    /\ cursor = 0
    /\ marked = {}
    /\ dispatched = [e \in Events |-> 0]
    /\ loop = [p \in Processes |-> Idle]
    /\ passed = {}

(* The chain and its RPC server.                                           *)

\* A ledger closes with the events of the calls it applied.
CloseLedger(new) ==
    /\ latest < MaxLedger
    /\ \A e \in new, o \in Events : chain[e] = 0 /\ (o < e => chain[o] # 0 \/ o \in new)
    /\ latest' = latest + 1
    /\ chain' = [e \in Events |-> IF e \in new THEN latest + 1 ELSE chain[e]]
    /\ UNCHANGED <<oldest, cursor, marked, dispatched, loop, passed>>

\* The server drops its oldest ledger.
Forget ==
    /\ oldest < latest
    /\ oldest' = oldest + 1
    /\ UNCHANGED <<chain, latest, cursor, marked, dispatched, loop, passed>>

After(l) == {e \in Emitted : chain[e] > l}

\* The first page of getEvents.
Page(l) == {e \in After(l) : Cardinality({o \in After(l) : o < e}) < PageLimit}

-----------------------------------------------------------------------------
(* The loop.                                                               *)

\* pollOnce loads the cursor.
Poll(p) ==
    /\ loop[p].pc = "idle"
    /\ Goto(p, [Idle EXCEPT !.pc = IF cursor = 0 THEN "anchor" ELSE "fetch", !.read = cursor])
    /\ UNCHANGED <<chain, latest, oldest, cursor, marked, dispatched, passed>>

\* No cursor: start at the current ledger, without the history before it.
Anchor(p) ==
    /\ loop[p].pc = "anchor"
    /\ Goto(p, [Idle EXCEPT !.pc = "save", !.target = latest, !.skips = Emitted \ marked])
    /\ UNCHANGED <<chain, latest, oldest, cursor, marked, dispatched, passed>>

\* The batch is one page, but its latestLedger is the network's.
Fetch(p) ==
    LET l == loop[p].read IN
    /\ loop[p].pc = "fetch"
    /\ l + 1 \in oldest .. latest
    /\ Goto(p, [loop[p] EXCEPT !.pc = "apply", !.target = latest,
                               !.queue = Page(l), !.skips = After(l) \ Page(l)])
    /\ UNCHANGED <<chain, latest, oldest, cursor, marked, dispatched, passed>>

\* The cursor is before the server's window: forget it.
FetchTooOld(p) ==
    /\ loop[p].pc = "fetch"
    /\ loop[p].read + 1 < oldest
    /\ Goto(p, [Idle EXCEPT !.pc = "save"])
    /\ UNCHANGED <<chain, latest, oldest, cursor, marked, dispatched, passed>>

Front(p, e) == e \in loop[p].queue /\ \A o \in loop[p].queue : e <= o

\* Mutant: the event is dispatched without being marked first.
MarkLate(p, e) ==
    /\ loop[p].pc = "apply"
    /\ Front(p, e)
    /\ e \notin marked
    /\ Goto(p, [loop[p] EXCEPT !.pc = "dispatch", !.event = e, !.queue = @ \ {e}])
    /\ UNCHANGED <<chain, latest, oldest, cursor, marked, dispatched, passed>>

\* isDuplicate inserts the event's row and finds none was there.
Mark(p, e) ==
    /\ loop[p].pc = "apply"
    /\ Front(p, e)
    /\ e \notin marked
    /\ marked' = marked \cup {e}
    /\ Goto(p, [loop[p] EXCEPT !.pc = "dispatch", !.event = e, !.queue = @ \ {e}])
    /\ UNCHANGED <<chain, latest, oldest, cursor, dispatched, passed>>

\* It finds one: this process or another one dispatched the event, or meant to.
SkipDuplicate(p, e) ==
    /\ loop[p].pc = "apply"
    /\ Front(p, e)
    /\ e \in marked
    /\ Goto(p, [loop[p] EXCEPT !.queue = @ \ {e}])
    /\ UNCHANGED <<chain, latest, oldest, cursor, marked, dispatched, passed>>

\* Dispatching returns, or throws after the trade was updated: before or after
\* the effect, what throws ends the poll.
Dispatch(p) ==
    /\ loop[p].pc = "dispatch"
    /\ dispatched' = [dispatched EXCEPT ![loop[p].event] = @ + 1]
    /\ \/ Goto(p, [loop[p] EXCEPT !.pc = "apply", !.event = 0])
       \/ Goto(p, Idle)
    /\ UNCHANGED <<chain, latest, oldest, cursor, marked, passed>>

\* Mutant: the cursor is saved when half of the batch is done.
BatchHalfDone(p) ==
    /\ loop[p].pc = "apply"
    /\ Cardinality(loop[p].queue) < 2
    /\ Goto(p, IF loop[p].target > loop[p].read
               THEN [loop[p] EXCEPT !.pc = "save", !.queue = {}] ELSE Idle)
    /\ UNCHANGED <<chain, latest, oldest, cursor, marked, dispatched, passed>>

BatchDone(p) ==
    /\ loop[p].pc = "apply"
    /\ loop[p].queue = {}
    /\ Goto(p, IF loop[p].target > loop[p].read THEN [loop[p] EXCEPT !.pc = "save"] ELSE Idle)
    /\ UNCHANGED <<chain, latest, oldest, cursor, marked, dispatched, passed>>

\* Mutant: the cursor keeps the ledger it had.
SaveUnmoved(p) ==
    /\ loop[p].pc = "save"
    /\ cursor' = IF cursor = 0 THEN loop[p].target ELSE cursor
    /\ passed' = IF cursor = 0 THEN passed \cup loop[p].skips ELSE passed
    /\ Goto(p, Idle)
    /\ UNCHANGED <<chain, latest, oldest, marked, dispatched>>

\* setEventCursor does not look at the value it replaces.
Save(p) ==
    /\ loop[p].pc = "save"
    /\ cursor' = loop[p].target
    /\ passed' = passed \cup loop[p].skips
    /\ Goto(p, Idle)
    /\ UNCHANGED <<chain, latest, oldest, marked, dispatched>>

\* An await rejects and the loop backs off; or the process dies, or exits on a
\* signal in the middle of a poll, and is started again.
Abandon(p) ==
    /\ loop[p].pc # "idle"
    /\ Goto(p, Idle)
    /\ UNCHANGED <<chain, latest, oldest, cursor, marked, dispatched, passed>>

Step(p) ==
    \/ Poll(p) \/ Anchor(p) \/ Fetch(p) \/ FetchTooOld(p)
    \/ \E e \in Events : Mark(p, e) \/ SkipDuplicate(p, e)
    \/ Dispatch(p) \/ BatchDone(p) \/ Save(p)

Next ==
    \/ \E new \in SUBSET Events : CloseLedger(new)
    \/ Forget
    \/ \E p \in Processes : Step(p) \/ Abandon(p)

\* The loop is never left, and an await of it that is tried again and again
\* succeeds in the end.  One process with such a loop is enough.
Fairness ==
    LET p == CHOOSE q \in Processes : TRUE IN
    /\ WF_vars(Poll(p) \/ Dispatch(p))
    /\ SF_vars(Anchor(p))
    /\ SF_vars(Fetch(p) \/ FetchTooOld(p))
    /\ \A e \in Events : SF_vars(Mark(p, e) \/ SkipDuplicate(p, e))
    /\ SF_vars(BatchDone(p))
    /\ SF_vars(Save(p))

Spec == Init /\ [][Next]_vars

FairSpec == Spec /\ Fairness

-----------------------------------------------------------------------------
(* Properties.                                                             *)

LoopState ==
    [pc : {"idle", "anchor", "fetch", "apply", "dispatch", "save"},
     read : Ledgers, target : Ledgers, queue : SUBSET Events, skips : SUBSET Events,
     event : Events \cup {0}]

\* The cursor and the RPC window stay within the chain.
TypeOK ==
    /\ chain \in [Events -> 0 .. latest]
    /\ latest \in 1 .. MaxLedger
    /\ oldest \in 1 .. latest
    /\ cursor \in 0 .. latest
    /\ marked \subseteq Emitted
    /\ dispatched \in [Events -> Nat]
    /\ loop \in [Processes -> LoopState]
    /\ passed \subseteq Emitted

\* The cursor never passes an event that nobody took: whatever is at or before
\* it was marked, or was skipped for one of the two reasons the code knows, the
\* page limit and a new start at the current ledger.
NothingMissed ==
    \A e \in Emitted : chain[e] <= cursor => e \in marked \cup passed

\* Every event is taken or skipped in the end, whatever throws and restarts.
EveryEventTaken ==
    \A e \in Events : e \in Emitted ~> e \in marked \cup passed

InDispatch(e) == \E p \in Processes : loop[p].pc = "dispatch" /\ loop[p].event = e

Fate(e) ==
    IF dispatched[e] = 1 THEN "delivered"
    ELSE IF dispatched[e] # 0 THEN "repeated"
    ELSE IF chain[e] = 0 THEN "none"
    ELSE IF e \in marked /\ ~ InDispatch(e) THEN "lost"
    ELSE "emitted"

Delivery == INSTANCE EventDelivery WITH fate <- [e \in Events |-> Fate(e)]

\* No event is dispatched twice, by overlapping loops, after a restart or after
\* the cursor went back; one whose dispatch failed is not tried again.
DeliversOnce == Delivery!Spec
=============================================================================
