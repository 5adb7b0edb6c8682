---------------------------- MODULE SignRequests ----------------------------
(***************************************************************************)
(* Delegated signing: a device creates a sign request and polls it, the    *)
(* wallet of the user signs or cancels it, and it expires.  Expiry is      *)
(* written by whoever reads the request after its time.                    *)
(*                                                                         *)
(* Every handler reads the row and writes it, by id alone, after another   *)
(* await.  The wallet hears of a request before its row is inserted.       *)
(***************************************************************************)
EXTENDS Integers, FiniteSets

CONSTANTS
    SignIds,            \* the sign requests
    Handlers            \* the HTTP requests that can be in progress together

VARIABLES
    status,             \* status of each row, "absent" before it is inserted
    signed,             \* the rows with signed_xdr, txid and account
    overdue,            \* the requests past expires_at
    pushed,             \* the requests whose push was sent
    outcomes,           \* how often each request got an outcome
    handler             \* each HTTP request: the await it is at, and its row

vars == <<status, signed, overdue, pushed, outcomes, handler>>

Idle == [pc |-> "idle"]

At(h, pc) == handler[h].pc = pc

Become(h, state) == handler' = [handler EXCEPT ![h] = state]

\* An outcome is written by id alone.
Resolve(h, outcome) ==
    /\ status' = [status EXCEPT ![handler[h].id] = outcome]
    /\ outcomes' = [outcomes EXCEPT ![handler[h].id] = @ + 1]

Busy(i) == {h \in Handlers : ~ At(h, "idle") /\ handler[h].id = i}

Init ==
    /\ status = [i \in SignIds |-> "absent"]
    /\ signed = {}
    /\ overdue = {}
    /\ pushed = {}
    /\ outcomes = [i \in SignIds |-> 0]
    /\ handler = [h \in Handlers |-> Idle]

-----------------------------------------------------------------------------
(* POST /sign-requests.                                                    *)

\* sendSignRequestNotification, whose failures are only reported.
Notify(h, i) ==
    /\ At(h, "idle")
    /\ status[i] = "absent" /\ i \notin pushed
    /\ Busy(i) = {}
    /\ pushed' = pushed \cup {i} \/ pushed' = pushed
    /\ Become(h, [pc |-> "insert", id |-> i])
    /\ UNCHANGED <<status, signed, overdue, outcomes>>

Insert(h) ==
    /\ At(h, "insert")
    /\ status' = [status EXCEPT ![handler[h].id] = "pending"]
    /\ Become(h, Idle)
    /\ UNCHANGED <<signed, overdue, pushed, outcomes>>

Overdue(i) ==
    /\ status[i] # "absent"
    /\ i \notin overdue
    /\ overdue' = overdue \cup {i}
    /\ UNCHANGED <<status, signed, pushed, outcomes, handler>>

-----------------------------------------------------------------------------
(* GET /sign-requests/:id.  Unless it is the first to see the request       *)
(* overdue, it only answers what it read.                                  *)

Poll(h, i) ==
    /\ At(h, "idle")
    /\ status[i] = "pending"
    /\ i \in overdue
    /\ Become(h, [pc |-> "expire", id |-> i])
    /\ UNCHANGED <<status, signed, overdue, pushed, outcomes>>

Expire(h) ==
    /\ At(h, "expire")
    /\ Resolve(h, "expired")
    /\ Become(h, Idle)
    /\ UNCHANGED <<signed, overdue, pushed>>

-----------------------------------------------------------------------------
(* POST /sign-requests/:id/resolve.                                        *)

\* Mutant: only a request that expired cannot be resolved.
ReadUnlessExpired(h, i, choice) ==
    /\ At(h, "idle")
    /\ status[i] \notin {"absent", "expired"}
    /\ Become(h, [pc |-> IF i \in overdue THEN "refuse" ELSE choice, id |-> i])
    /\ UNCHANGED <<status, signed, overdue, pushed, outcomes>>

\* A request that is not there yet, or no longer pending, is refused; one that
\* is overdue is refused after its expiry was written.
Read(h, i, choice) ==
    /\ At(h, "idle")
    /\ status[i] = "pending"
    /\ Become(h, [pc |-> IF i \in overdue THEN "refuse" ELSE choice, id |-> i])
    /\ UNCHANGED <<status, signed, overdue, pushed, outcomes>>

Refuse(h) ==
    /\ At(h, "refuse")
    /\ Resolve(h, "expired")
    /\ Become(h, Idle)
    /\ UNCHANGED <<signed, overdue, pushed>>

Cancel(h) ==
    /\ At(h, "cancel")
    /\ Resolve(h, "cancelled")
    /\ Become(h, Idle)
    /\ UNCHANGED <<signed, overdue, pushed>>

Sign(h) ==
    /\ At(h, "sign")
    /\ Resolve(h, "signed")
    /\ signed' = signed \cup {handler[h].id}
    /\ Become(h, Idle)
    /\ UNCHANGED <<overdue, pushed>>

\* An await rejects, or the process restarts.
Fails(h) ==
    /\ handler[h] # Idle
    /\ Become(h, Idle)
    /\ UNCHANGED <<status, signed, overdue, pushed, outcomes>>

Next ==
    \/ \E h \in Handlers, i \in SignIds :
        \/ Notify(h, i) \/ Poll(h, i)
        \/ \E choice \in {"sign", "cancel"} : Read(h, i, choice)
    \/ \E h \in Handlers :
        \/ Insert(h) \/ Expire(h) \/ Refuse(h) \/ Cancel(h) \/ Sign(h) \/ Fails(h)
    \/ \E i \in SignIds : Overdue(i)

Spec == Init /\ [][Next]_vars

-----------------------------------------------------------------------------
(* Properties.                                                             *)

\* An outcome is only replaced by a handler that had read the request before
\* any outcome was written, so a request never gets more of them than there
\* were handlers in progress together; an outcome that was polled may still be
\* written over by one of those.
OutcomesBounded == \A i \in SignIds : outcomes[i] <= Cardinality(Handlers)
=============================================================================
