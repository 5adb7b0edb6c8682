--------------------------- MODULE DiditSessions ----------------------------
(***************************************************************************)
(* The identity verification of one user by Didit, which creates a session *)
(* on a hosted page, decides it and reports by webhooks that come late,    *)
(* twice and out of order.  A webhook writes the session's row, then the   *)
(* level of the user, which the KYC gate reads.                            *)
(*                                                                         *)
(* The signature of every webhook is valid and its time recent.            *)
(***************************************************************************)
EXTENDS Integers

CONSTANTS
    Sessions,           \* the sessions Didit may create
    HighSessions,       \* those that ask for level 2; the others, for level 1
    Desks               \* the HTTP requests that can be in progress together

VARIABLES
    didit,              \* Didit's decision on each session
    hooks,              \* the webhooks under way, which may be delivered again
    sessionRow,         \* status in kyc_didit_sessions, "absent" before its insert
    level,              \* kyc_level
    recent,             \* kyc_level_verified_at is not past its expiry
    halfDone,           \* sessions whose approval failed before the level
    task                \* each HTTP request: the await it is at, and what it knows

vars == <<didit, hooks, sessionRow, level, recent, halfDone, task>>

Idle == [pc |-> "idle"]

At(d, pc) == task[d].pc = pc

Become(d, state) == task' = [task EXCEPT ![d] = state]

LevelOf(s) == IF s \in HighSessions THEN 2 ELSE 1

Init ==
    /\ didit = [s \in Sessions |-> "none"]
    /\ hooks = {}
    /\ sessionRow = [s \in Sessions |-> "absent"]
    /\ level = 0
    /\ recent = FALSE
    /\ halfDone = {}
    /\ task = [d \in Desks |-> Idle]

-----------------------------------------------------------------------------
(* startDiditKyc, and the webhook.                                         *)

StartDidit(d, s) ==
    /\ At(d, "idle")
    /\ didit[s] = "none"
    /\ didit' = [didit EXCEPT ![s] = "pending"]
    /\ Become(d, [pc |-> "insert", s |-> s])
    /\ UNCHANGED <<hooks, sessionRow, level, recent, halfDone>>

InsertSession(d) ==
    /\ At(d, "insert")
    /\ sessionRow' = [sessionRow EXCEPT ![task[d].s] = "pending"]
    /\ Become(d, Idle)
    /\ UNCHANGED <<didit, hooks, level, recent, halfDone>>

\* Didit reports what it has come to, and may report that it has not yet.
Decide(s, status) ==
    /\ didit[s] = "pending"
    /\ didit' = [didit EXCEPT ![s] = status]
    /\ hooks' = hooks \cup {<<s, status>>}
    /\ UNCHANGED <<sessionRow, level, recent, halfDone, task>>

\* Delivered for the last time.
Forget(hook) ==
    /\ hooks' = hooks \ {hook}
    /\ UNCHANGED <<didit, sessionRow, level, recent, halfDone, task>>

Deliver(d, hook) ==
    /\ At(d, "idle")
    /\ Become(d, [pc |-> "session", s |-> hook[1], status |-> hook[2]])
    /\ UNCHANGED <<didit, hooks, sessionRow, level, recent, halfDone>>

\* The row of the session that is not there is not written, and what the user
\* gets is not less for it.
Reported(d) ==
    LET s == task[d].s IN
    [sessionRow EXCEPT ![s] = IF @ = "absent" THEN @ ELSE task[d].status]

\* Mutant: only a rejected session gives no level.
UpdateUnlessRejected(d) ==
    /\ At(d, "session")
    /\ sessionRow' = Reported(d)
    /\ Become(d, IF task[d].status = "rejected" THEN Idle ELSE [task[d] EXCEPT !.pc = "level"])
    /\ UNCHANGED <<didit, hooks, level, recent, halfDone>>

UpdateSession(d) ==
    /\ At(d, "session")
    /\ sessionRow' = Reported(d)
    /\ Become(d, IF task[d].status # "approved" THEN Idle ELSE [task[d] EXCEPT !.pc = "level"])
    /\ UNCHANGED <<didit, hooks, level, recent, halfDone>>

\* A late approval of a lower level takes the place of a higher one.
GrantLevel(d) ==
    /\ At(d, "level")
    /\ level' = LevelOf(task[d].s)
    /\ recent' = TRUE
    /\ Become(d, Idle)
    /\ UNCHANGED <<didit, hooks, sessionRow, halfDone>>

LevelExpires ==
    /\ recent
    /\ recent' = FALSE
    /\ UNCHANGED <<didit, hooks, sessionRow, level, halfDone, task>>

\* A query or a provider fails; the webhook answers 500.
Fails(d) ==
    /\ ~ At(d, "idle")
    /\ halfDone' = IF At(d, "level") THEN halfDone \cup {task[d].s} ELSE halfDone
    /\ Become(d, Idle)
    /\ UNCHANGED <<didit, hooks, sessionRow, level, recent>>

Next ==
    \/ \E d \in Desks :
        \/ \E s \in Sessions : StartDidit(d, s)
        \/ InsertSession(d) \/ \E hook \in hooks : Deliver(d, hook)
        \/ UpdateSession(d) \/ GrantLevel(d) \/ Fails(d)
    \/ \E s \in Sessions, status \in {"pending", "approved", "rejected"} : Decide(s, status)
    \/ \E hook \in hooks : Forget(hook)
    \/ LevelExpires

Spec == Init /\ [][Next]_vars

-----------------------------------------------------------------------------
\* getEffectiveKycLevel.
EffectiveLevel == IF recent THEN level ELSE 0

(* Properties.                                                             *)

\* Whatever the order and number of the webhooks, the gate sees a level only if
\* Didit approved a session for just that level, and a session that shows as
\* approved gave its user a level unless the second write of its webhook is to
\* come or failed.
LevelFollowsSessions ==
    /\ EffectiveLevel > 0 => \E s \in Sessions : didit[s] = "approved" /\ LevelOf(s) = EffectiveLevel
    /\ \A s \in Sessions : sessionRow[s] = "approved" =>
        \/ level > 0 \/ s \in halfDone
        \/ \E d \in Desks : At(d, "level") /\ task[d].s = s
=============================================================================
