------------------------------- MODULE Bazaar -------------------------------
(***************************************************************************)
(* The bazaar of the agent API: agents broadcast intents, others accept    *)
(* them, and each agent has a history that its reputation is computed from.*)
(* Accepting locks the Stellar side first and marks the intent after that; *)
(* the history is read, added to and written back, one column or all.      *)
(*                                                                         *)
(* The lock always answers: where the chain fails, with a demo hash.       *)
(* Quotes change nothing here but the id an intent is marked with, and the *)
(* expiry of an intent is stored but never looked at.                      *)
(***************************************************************************)
EXTENDS Integers, FiniteSets

CONSTANTS
    Intents,            \* the intents, all of one agent
    Clients,            \* the HTTP requests that can be in progress together
    MaxLocks,           \* bounds how often the bazaar locks for an intent
    MaxBroadcasts       \* bounds how many broadcasts it counts

VARIABLES
    intent,             \* the status of each intent, "absent" before its insert
    locked,             \* how often the Stellar side was locked for each
    unmarked,           \* how many of those locks failed before the intent's mark
    known,              \* the agent has a row in agent_history
    history,            \* its counters there
    done,               \* what was added to each counter
    overlapped,         \* the counters that were written over since they were read
    client              \* each request: the await it is at, and what it read

vars == <<intent, locked, unmarked, known, history, done, overlapped, client>>

Columns == {"broadcasts", "completed"}

Idle == [pc |-> "idle"]

At(c, pc) == client[c].pc = pc

Become(c, state) == client' = [client EXCEPT ![c] = state]

\* A request whose last await is over, or that goes on with its intent.
Upsert(c, id, adds, next) == Become(c, [pc |-> "read", id |-> id, adds |-> adds, next |-> next])

Init ==
    /\ intent = [i \in Intents |-> "absent"]
    /\ locked = [i \in Intents |-> 0]
    /\ unmarked = [i \in Intents |-> 0]
    /\ known = FALSE
    /\ history = [k \in Columns |-> 0]
    /\ done = [k \in Columns |-> 0]
    /\ overlapped = {}
    /\ client = [c \in Clients |-> Idle]

-----------------------------------------------------------------------------
(* upsertAgentHistory.                                                     *)

ReadHistory(c) ==
    /\ At(c, "read")
    /\ Become(c, [pc |-> "add", id |-> client[c].id, adds |-> client[c].adds,
                  next |-> client[c].next, known |-> known, old |-> history])
    /\ UNCHANGED <<intent, locked, unmarked, known, history, done, overlapped>>

\* Mutant: the whole row is written back.
AddedToRow(adds, old) ==
    [k \in Columns |-> IF k \in DOMAIN adds THEN old[k] + adds[k] ELSE old[k]]

\* The columns that are not named keep their value.
Added(adds, old) ==
    [k \in Columns |-> IF k \in DOMAIN adds THEN old[k] + adds[k] ELSE history[k]]

\* A request that found no row inserts one, which fails when there is one now.
AddHistory(c) ==
    LET adds == client[c].adds IN
    /\ At(c, "add")
    /\ client[c].known \/ ~ known
    /\ known' = TRUE
    /\ history' = Added(adds, client[c].old)
    /\ done' = [k \in Columns |-> done[k] + IF k \in DOMAIN adds THEN adds[k] ELSE 0]
    /\ overlapped' = overlapped \cup {k \in DOMAIN adds : history[k] # client[c].old[k]}
    /\ Become(c, IF client[c].next = "done" THEN Idle
                 ELSE [pc |-> client[c].next, id |-> client[c].id])
    /\ UNCHANGED <<intent, locked, unmarked>>

-----------------------------------------------------------------------------
(* Handlers.                                                               *)

\* POST /bazaar/intent: recordBroadcast, then the insert.
Broadcast(c, i) ==
    /\ At(c, "idle")
    /\ intent[i] = "absent"
    /\ done["broadcasts"] < MaxBroadcasts
    /\ \A d \in Clients : ~ At(d, "idle") => client[d].id # i
    /\ Upsert(c, i, [broadcasts |-> 1], "insert")
    /\ UNCHANGED <<intent, locked, unmarked, known, history, done, overlapped>>

CreateIntent(c) ==
    /\ At(c, "insert")
    /\ intent' = [intent EXCEPT ![client[c].id] = "active"]
    /\ Become(c, Idle)
    /\ UNCHANGED <<locked, unmarked, known, history, done, overlapped>>

\* GET /bazaar/reputation: getOrCreateHistory for an agent without a row.
Reputation(c, i) ==
    /\ At(c, "idle")
    /\ ~ known
    /\ Upsert(c, i, [k \in Columns |-> 0], "done")
    /\ UNCHANGED <<intent, locked, unmarked, known, history, done, overlapped>>

\* Mutant: only an intent that has come to its end is refused.
AcceptUnlessEnded(c, i) ==
    /\ At(c, "idle")
    /\ intent[i] \notin {"absent", "executed", "expired"}
    /\ Become(c, [pc |-> "lock", id |-> i])
    /\ UNCHANGED <<intent, locked, unmarked, known, history, done, overlapped>>

\* POST /bazaar/accept: anyone may accept, and the agent itself.
Accept(c, i) ==
    /\ At(c, "idle")
    /\ intent[i] = "active"
    /\ Become(c, [pc |-> "lock", id |-> i])
    /\ UNCHANGED <<intent, locked, unmarked, known, history, done, overlapped>>

LockAtomicSwap(c) ==
    LET i == client[c].id IN
    /\ At(c, "lock")
    /\ locked[i] < MaxLocks
    /\ locked' = [locked EXCEPT ![i] = @ + 1]
    /\ Become(c, [pc |-> "mark", id |-> i])
    /\ UNCHANGED <<intent, unmarked, known, history, done, overlapped>>

\* updateIntent, by id alone, and recordCompletion after it.
Mark(c) ==
    /\ At(c, "mark")
    /\ intent' = [intent EXCEPT ![client[c].id] = "negotiating"]
    /\ Upsert(c, client[c].id, [completed |-> 1], "done")
    /\ UNCHANGED <<locked, unmarked, known, history, done, overlapped>>

\* A query rejects: the request ends where it is.
Fails(c) ==
    /\ ~ At(c, "idle")
    /\ unmarked' = IF At(c, "mark") THEN [unmarked EXCEPT ![client[c].id] = @ + 1] ELSE unmarked
    /\ Become(c, Idle)
    /\ UNCHANGED <<intent, locked, known, history, done, overlapped>>

Next ==
    \E c \in Clients :
        \/ ReadHistory(c) \/ AddHistory(c) \/ CreateIntent(c)
        \/ \E i \in Intents : Broadcast(c, i) \/ Reputation(c, i) \/ Accept(c, i)
        \/ LockAtomicSwap(c) \/ Mark(c) \/ Fails(c)

Spec == Init /\ [][Next]_vars

-----------------------------------------------------------------------------
(* Properties.                                                             *)

\* An intent is locked for once, and again only by requests that overlapped the
\* first or after a lock that could not be recorded.
LocksBounded == \A i \in Intents : locked[i] <= Cardinality(Clients) + unmarked[i]

\* A history never counts more than what happened, and misses some of it only
\* in a counter that overlapping requests wrote: the broadcasts do not lose the
\* completions, nor a first row either of them.
HistoryCounts ==
    \A k \in Columns :
        /\ history[k] <= done[k]
        /\ k \notin overlapped => history[k] = done[k]
=============================================================================
