------------------------- MODULE UserServicesProofs -------------------------
(***************************************************************************)
(* Proofs about the services of the backend that serve its users, for      *)
(* every value of the constants: claim tokens, sign requests, the two      *)
(* providers of identity, the limits on new trades, the accounts of        *)
(* merchants, and logging in and out.                                      *)
(*                                                                         *)
(* The lemma that counts requests is AgentServicesProofs', for which alone *)
(* that module is extended.                                                *)
(***************************************************************************)
EXTENDS AgentServicesProofs, WellFoundedInduction

\* A step of the composition is a step of each service, or leaves it alone.
LEMMA UserParts ==
    [Next]_vars => /\ [S!Next]_sessionVars
                   /\ [I!Next]_intakeVars
                   /\ [M!Next]_accountVars
                   /\ [C!Next]_claimVars
                   /\ [R!Next]_signVars
                   /\ [D!Next]_diditVars
                   /\ [E!Next]_etherfuseVars
  BY DEF Next, vars

-----------------------------------------------------------------------------
(* Claim tokens.                                                           *)

ScanStates ==
    [pc : {"look", "consume", "lookAgain", "confirm"}, code : Codes, again : BOOLEAN]

ClaimsTypeOK ==
    /\ scan \in [Requests -> ScanStates \cup {C!Idle}]
    /\ code \in [Codes -> {"none", "live", "expired", "consumed"}]

\* A scan that wrote, or was confirmed, did so with a consumed token; and a scan
\* that comes again has a token that was confirmed.
ClaimsKnow ==
    /\ \A c \in confirmed : c \in Codes => code[c] = "consumed"
    /\ \A s \in Requests :
        /\ C!At(s, "lookAgain") \/ C!At(s, "confirm") => code[scan[s].code] = "consumed"
        /\ ~ C!At(s, "idle") /\ scan[s].again => scan[s].code \in confirmed

ClaimsInv == ClaimsTypeOK /\ ClaimsKnow /\ C!BurntCodesFail

\* No token was issued and no scan sent.
LEMMA ClaimsInit == C!Init => ClaimsInv
  BY DEF C!Init, ClaimsInv, ClaimsTypeOK, ClaimsKnow, C!BurntCodesFail, C!At, C!Idle

\* A step of the trade or of the clock takes no token back from a merchant.
LEMMA TokensStay ==
    ASSUME ClaimsInv, UNCHANGED <<confirmed, scan>>,
           code' \in [Codes -> {"none", "live", "expired", "consumed"}],
           \A c \in Codes : code[c] = "consumed" => code'[c] = "consumed"
    PROVE  ClaimsInv'
<1>1. \A s \in Requests : ~ C!At(s, "idle") => scan[s].code \in Codes
  BY DEF ClaimsInv, ClaimsTypeOK, ScanStates, C!At, C!Idle
<1>2. \A s \in Requests, pc \in {"idle", "look", "lookAgain", "confirm"} :
          C!At(s, pc)' <=> C!At(s, pc)
  BY DEF C!At
<1>3. ClaimsKnow'
  BY <1>1, <1>2 DEF ClaimsInv, ClaimsKnow, C!At
<1> QED
  BY <1>2, <1>3 DEF ClaimsInv, ClaimsTypeOK, C!BurntCodesFail

\* A scan whose await is over, with what it knows then.
LEMMA ScanMoves ==
    ASSUME ClaimsInv, NEW s \in Requests, NEW state \in ScanStates \cup {C!Idle},
           C!Become(s, state),
           code' \in [Codes -> {"none", "live", "expired", "consumed"}],
           \A c \in Codes : code[c] = "consumed" => code'[c] = "consumed",
           \A c \in confirmed' : c \in confirmed \/ (c \in Codes /\ code'[c] = "consumed"),
           confirmed \subseteq confirmed',
           state.pc \in {"lookAgain", "confirm"} => code'[state.code] = "consumed",
           state.pc # "idle" /\ state.again => state.code \in confirmed /\ state.pc = "look"
    PROVE  ClaimsInv'
<1>1. /\ scan' \in [Requests -> ScanStates \cup {C!Idle}]
      /\ scan'[s] = state
      /\ \A q \in Requests : q # s => scan'[q] = scan[q]
  BY DEF ClaimsInv, ClaimsTypeOK, C!Become
<1>2. \A q \in Requests : ~ C!At(q, "idle") => scan[q].code \in Codes
  BY DEF ClaimsInv, ClaimsTypeOK, ScanStates, C!At, C!Idle
<1>3. ASSUME NEW q \in Requests
      PROVE  /\ C!At(q, "lookAgain")' \/ C!At(q, "confirm")' => code'[scan'[q].code] = "consumed"
             /\ ~ C!At(q, "idle")' /\ scan'[q].again => scan'[q].code \in confirmed'
             /\ ~ C!At(q, "idle")' /\ scan'[q].again => C!At(q, "look")'
  <2>1. CASE q = s
    BY <1>1, <2>1 DEF C!At
  <2>2. CASE q # s
    BY <1>1, <1>2, <2>2 DEF ClaimsInv, ClaimsKnow, C!BurntCodesFail, C!At
  <2> QED
    BY <2>1, <2>2
<1>4. \A c \in confirmed' : c \in Codes => code'[c] = "consumed"
  BY DEF ClaimsInv, ClaimsKnow
<1> QED
  BY <1>1, <1>3, <1>4 DEF ClaimsInv, ClaimsTypeOK, ClaimsKnow, C!BurntCodesFail

\* Every step of the routes, the trade and the clock keeps the invariant.
LEMMA ClaimsStep == ClaimsInv /\ [C!Next]_claimVars => ClaimsInv'
<1> SUFFICES ASSUME ClaimsInv, [C!Next]_claimVars PROVE ClaimsInv'
  OBVIOUS
<1>1. ClaimsTypeOK /\ ClaimsKnow
  BY DEF ClaimsInv
<1>2. CASE C!Advance
  BY <1>1, <1>2, TokensStay DEF C!Advance, ClaimsTypeOK
<1>3. CASE C!TradeExpires
  BY <1>1, <1>3, TokensStay DEF C!TradeExpires, ClaimsTypeOK
<1>4. ASSUME NEW c \in Codes, C!CodeExpires(c) \/ C!Issue(c) PROVE ClaimsInv'
  BY <1>1, <1>4, TokensStay DEF C!CodeExpires, C!Issue, ClaimsTypeOK
<1>5. C!Idle.pc = "idle"
  BY DEF C!Idle
<1>6. ASSUME NEW s \in Requests, NEW c \in Codes, C!Scan(s, c) PROVE ClaimsInv'
  <2> DEFINE state == [pc |-> "look", code |-> c, again |-> c \in confirmed]
  <2>1. /\ state \in ScanStates /\ state.pc = "look"
        /\ state.again => state.code \in confirmed
    <3>1. state.pc = "look" /\ state.code = c /\ state.again = (c \in confirmed)
      OBVIOUS
    <3>2. (c \in confirmed) \in BOOLEAN
      OBVIOUS
    <3>3. state \in ScanStates
      BY <3>2 DEF ScanStates
    <3> QED
      BY <3>1, <3>3
  <2>2. C!Become(s, state) /\ code' = code /\ confirmed' = confirmed
    BY <1>6 DEF C!Scan
  <2> HIDE DEF state
  <2> QED
    BY <1>1, <2>1, <2>2, ScanMoves DEF ClaimsTypeOK
<1>7. ASSUME NEW s \in Requests, C!Become(s, C!Idle), UNCHANGED code,
             confirmed \subseteq confirmed',
             \A c \in confirmed' : c \in confirmed \/ (c \in Codes /\ code[c] = "consumed")
      PROVE  ClaimsInv'
  BY <1>1, <1>5, <1>7, ScanMoves DEF ClaimsTypeOK
<1>8. ASSUME NEW s \in Requests, NEW pc \in {"consume", "lookAgain", "confirm"},
             C!Goto(s, pc), scan[s] \in ScanStates, ~ scan[s].again, UNCHANGED confirmed,
             code' \in [Codes -> {"none", "live", "expired", "consumed"}],
             \A c \in Codes : code[c] = "consumed" => code'[c] = "consumed",
             pc \in {"lookAgain", "confirm"} => code'[scan[s].code] = "consumed"
      PROVE  ClaimsInv'
  <2> DEFINE state == [scan[s] EXCEPT !.pc = pc]
  <2>1. /\ state \in ScanStates /\ state.pc = pc /\ state.code = scan[s].code
        /\ state.again = scan[s].again
    BY <1>8 DEF ScanStates
  <2>2. C!Become(s, state)
    BY <1>8 DEF C!Goto
  <2> HIDE DEF state
  <2>3. \A c \in confirmed' : c \in confirmed
    BY <1>8
  <2> QED
    BY <1>8, <2>1, <2>2, <2>3, ScanMoves
<1>9. \A s \in Requests : ~ C!At(s, "idle") => scan[s] \in ScanStates
  BY <1>1 DEF ClaimsTypeOK, C!At, C!Idle
<1>10. ASSUME NEW s \in Requests, C!Look(s) PROVE ClaimsInv'
  <2>1. scan[s] \in ScanStates
    BY <1>9, <1>10 DEF C!Look, C!At
  <2>2. CASE code[scan[s].code] = "live"
    <3>1. ~ scan[s].again
      BY <1>1, <1>10, <2>1, <2>2 DEF C!Look, C!At, ClaimsKnow, ScanStates
    <3> QED
      BY <1>1, <1>8, <1>10, <2>1, <2>2, <3>1 DEF C!Look, ClaimsTypeOK
  <2>3. CASE code[scan[s].code] # "live"
    <3>1. C!Become(s, C!Idle) /\ code' = code /\ confirmed' = confirmed
      BY <1>10, <2>3 DEF C!Look
    <3> QED
      BY <1>7, <3>1
  <2> QED
    BY <2>2, <2>3
<1>11. \A s \in Requests : ~ C!At(s, "idle") /\ ~ C!At(s, "look") => ~ scan[s].again
  BY DEF ClaimsInv, C!BurntCodesFail
<1>12. ASSUME NEW s \in Requests, C!Consume(s) PROVE ClaimsInv'
  <2>1. scan[s] \in ScanStates /\ ~ scan[s].again
    BY <1>9, <1>11, <1>12 DEF C!Consume, C!At
  <2>2. /\ code' \in [Codes -> {"none", "live", "expired", "consumed"}]
        /\ code'[scan[s].code] = "consumed"
        /\ \A c \in Codes : code[c] = "consumed" => code'[c] = "consumed"
    BY <1>1, <1>12, <2>1 DEF C!Consume, ClaimsTypeOK, ScanStates
  <2> QED
    BY <1>8, <1>12, <2>1, <2>2 DEF C!Consume
<1>13. ASSUME NEW s \in Requests, C!LookAgain(s) PROVE ClaimsInv'
  <2>1. scan[s] \in ScanStates /\ ~ scan[s].again
    BY <1>9, <1>11, <1>13 DEF C!LookAgain, C!At
  <2>2. code[scan[s].code] = "consumed"
    BY <1>1, <1>13 DEF C!LookAgain, ClaimsKnow
  <2> QED
    BY <1>1, <1>8, <1>13, <2>1, <2>2 DEF C!LookAgain, ClaimsTypeOK
<1>14. ASSUME NEW s \in Requests, C!Confirm(s) PROVE ClaimsInv'
  <2>1. scan[s] \in ScanStates /\ code[scan[s].code] = "consumed"
    BY <1>1, <1>9, <1>14 DEF C!Confirm, ClaimsKnow, C!At
  <2>2. /\ C!Become(s, C!Idle) /\ code' = code
        /\ confirmed' = confirmed \cup {scan[s].code} /\ scan[s].code \in Codes
    BY <1>14, <2>1 DEF C!Confirm, ScanStates
  <2> QED
    BY <1>7, <2>1, <2>2
<1>15. ASSUME NEW s \in Requests, C!Fails(s) PROVE ClaimsInv'
  <2>1. C!Become(s, C!Idle) /\ code' = code /\ confirmed' = confirmed
    BY <1>15 DEF C!Fails
  <2> QED
    BY <1>7, <2>1
<1>16. CASE UNCHANGED claimVars
  BY <1>1, <1>16, TokensStay DEF claimVars, ClaimsTypeOK
<1> QED
  BY <1>2, <1>3, <1>4, <1>6, <1>10, <1>12, <1>13, <1>14, <1>15, <1>16 DEF C!Next

\* A code that was confirmed is burnt: no later scan of it gets past its first
\* look, however many tokens are issued and scans sent.
THEOREM BurntCodesFailHolds == Spec => []BurntCodesFail
<1>1. Init => ClaimsInv
  BY ClaimsInit DEF Init
<1>2. ClaimsInv /\ [Next]_vars => ClaimsInv'
  BY ClaimsStep, UserParts
<1>3. ClaimsInv => BurntCodesFail
  BY DEF ClaimsInv, BurntCodesFail
<1> QED
  BY <1>1, <1>2, <1>3, PTL DEF Spec

-----------------------------------------------------------------------------
(* Identity verification by Didit.                                         *)

Decisions == {"pending", "approved", "rejected"}

TaskStates ==
    [pc : {"insert"}, s : DiditIds]
        \cup [pc : {"session", "level"}, s : DiditIds, status : Decisions]

DiditTypeOK ==
    /\ didit \in [DiditIds -> {"none"} \cup Decisions]
    /\ sessionRow \in [DiditIds -> {"absent"} \cup Decisions]
    /\ hooks \subseteq DiditIds \X Decisions
    /\ task \in [Requests -> TaskStates \cup {D!Idle}]
    /\ level \in 0..2

Approved(s) == didit[s] = "approved"

\* Who speaks of an approval does so after Didit's, and of the session that was
\* approved; a level was granted for one of these.
ApprovalsKnown ==
    /\ \A hook \in hooks : hook[2] = "approved" => Approved(hook[1])
    /\ \A d \in Requests :
        /\ D!At(d, "session") /\ task[d].status = "approved" => Approved(task[d].s)
        /\ D!At(d, "level") => Approved(task[d].s)
    /\ level > 0 => \E s \in DiditIds : Approved(s) /\ D!LevelOf(s) = level
    /\ recent => level > 0

DiditInv == DiditTypeOK /\ ApprovalsKnown /\ D!LevelFollowsSessions

\* Didit knows nothing of the user.
LEMMA DiditInit == D!Init => DiditInv
<1> SUFFICES ASSUME D!Init PROVE DiditInv
  OBVIOUS
<1>1. \A d \in Requests : task[d].pc = "idle"
  BY DEF D!Init, D!Idle
<1>2. DiditTypeOK
  BY DEF D!Init, DiditTypeOK
<1>3. ApprovalsKnown
  BY <1>1 DEF D!Init, ApprovalsKnown, D!At
<1>4. D!LevelFollowsSessions
  BY DEF D!Init, D!LevelFollowsSessions, D!EffectiveLevel
<1> QED
  BY <1>2, <1>3, <1>4 DEF DiditInv

\* The first half of the property follows from what is known of the approvals.
LEMMA LevelApproved ==
    ASSUME DiditTypeOK, ApprovalsKnown
    PROVE  D!EffectiveLevel > 0 =>
               \E s \in DiditIds : didit[s] = "approved" /\ D!LevelOf(s) = D!EffectiveLevel
  BY DEF DiditTypeOK, ApprovalsKnown, Approved, D!EffectiveLevel

\* The second half: an approved session is waited for by nobody new.
Granted(s) ==
    \/ level > 0 \/ s \in halfDone
    \/ \E d \in Requests : D!At(d, "level") /\ task[d].s = s

LevelsGranted == \A s \in DiditIds : sessionRow[s] = "approved" => Granted(s)

\* The property in these terms.
LEMMA LevelHalves ==
    DiditTypeOK /\ ApprovalsKnown => (D!LevelFollowsSessions <=> LevelsGranted)
  BY LevelApproved DEF D!LevelFollowsSessions, LevelsGranted, Granted

\* A request whose await is over, and the levels that others are to write.
LEMMA TaskMoves ==
    ASSUME DiditInv, NEW d \in Requests, NEW state \in TaskStates \cup {D!Idle},
           D!Become(d, state)
    PROVE  /\ task' \in [Requests -> TaskStates \cup {D!Idle}]
           /\ task'[d] = state
           /\ \A e \in Requests : e # d => task'[e] = task[e]
  BY DEF DiditInv, DiditTypeOK, D!Become

\* What a request waits for tells what it carries.
LEMMA TaskKinds ==
    ASSUME DiditInv, NEW d \in Requests
    PROVE  /\ D!At(d, "insert") => task[d] \in [pc : {"insert"}, s : DiditIds]
           /\ D!At(d, "session") \/ D!At(d, "level") =>
                task[d] \in [pc : {"session", "level"}, s : DiditIds, status : Decisions]
           /\ ~ D!At(d, "idle") => task[d].s \in DiditIds
<1>1. task[d] \in TaskStates \cup {D!Idle}
  BY DEF DiditInv, DiditTypeOK
<1> QED
  BY <1>1 DEF TaskStates, D!Idle, D!At

\* A step of one request, from which the invariant follows.
LEMMA RequestStep ==
    ASSUME DiditInv, NEW d \in Requests, NEW state \in TaskStates \cup {D!Idle},
           D!Become(d, state), UNCHANGED hooks,
           didit' \in [DiditIds -> {"none"} \cup Decisions],
           sessionRow' \in [DiditIds -> {"absent"} \cup Decisions],
           \A s \in DiditIds : Approved(s) => Approved(s)',
           \/ UNCHANGED <<level, recent>>
           \/ /\ recent' = TRUE /\ level' \in 1..2
              /\ \E s \in DiditIds : Approved(s)' /\ D!LevelOf(s) = level',
           state.pc = "level" => Approved(state.s)',
           state.pc = "session" /\ state.status = "approved" => Approved(state.s)',
           halfDone \subseteq halfDone',
           \A s \in DiditIds : sessionRow'[s] = "approved" =>
               sessionRow[s] = "approved" \/ (state.pc = "level" /\ state.s = s),
           D!At(d, "level") => level' > 0 \/ task[d].s \in halfDone'
    PROVE  DiditInv'
<1>1. DiditTypeOK /\ ApprovalsKnown /\ LevelsGranted
  BY LevelHalves DEF DiditInv
<1>2. /\ task' \in [Requests -> TaskStates \cup {D!Idle}]
      /\ task'[d] = state
      /\ \A e \in Requests : e # d => task'[e] = task[e]
  BY TaskMoves
<1>3. DiditTypeOK'
  BY <1>1, <1>2 DEF DiditTypeOK
<1>4. \A e \in Requests : ~ D!At(e, "idle") => task[e].s \in DiditIds
  BY TaskKinds
<1>5. ASSUME NEW e \in Requests
      PROVE  /\ D!At(e, "session")' /\ task'[e].status = "approved" => didit'[task'[e].s] = "approved"
             /\ D!At(e, "level")' => didit'[task'[e].s] = "approved"
  <2>1. CASE e = d
    BY <1>2, <2>1 DEF D!At, Approved
  <2>2. CASE e # d
    BY <1>1, <1>2, <1>4, <2>2 DEF ApprovalsKnown, Approved, D!At
  <2> QED
    BY <2>1, <2>2
<1>6. \A hook \in hooks' : hook[2] = "approved" => Approved(hook[1])'
  BY <1>1 DEF DiditTypeOK, ApprovalsKnown
<1>7. (level > 0 => \E s \in DiditIds : Approved(s) /\ D!LevelOf(s) = level)'
      /\ (recent => level > 0)'
  <2>1. CASE UNCHANGED <<level, recent>>
    BY <1>1, <2>1 DEF ApprovalsKnown, D!LevelOf
  <2>2. CASE /\ recent' = TRUE /\ level' \in 1..2
             /\ \E s \in DiditIds : Approved(s)' /\ D!LevelOf(s) = level'
    BY <2>2 DEF D!LevelOf
  <2> QED
    BY <2>1, <2>2
<1>8. ApprovalsKnown'
  BY <1>5, <1>6, <1>7 DEF ApprovalsKnown, Approved
<1>9. LevelsGranted'
  <2> SUFFICES ASSUME NEW s \in DiditIds, sessionRow'[s] = "approved" PROVE Granted(s)'
    BY DEF LevelsGranted
  <2>1. CASE state.pc = "level" /\ state.s = s
    BY <1>2, <2>1 DEF Granted, D!At
  <2>2. CASE sessionRow[s] = "approved"
    <3>1. Granted(s)
      BY <1>1, <2>2 DEF LevelsGranted
    <3>2. CASE level > 0 \/ s \in halfDone
      BY <1>1, <3>2 DEF Granted, DiditTypeOK
    <3>3. ASSUME NEW e \in Requests, D!At(e, "level"), task[e].s = s PROVE Granted(s)'
      BY <1>2, <3>3 DEF Granted, D!At
    <3> QED
      BY <3>1, <3>2, <3>3 DEF Granted
  <2> QED
    BY <2>1, <2>2
<1> QED
  BY <1>3, <1>8, <1>9, LevelHalves, PTL DEF DiditInv

\* Every step of Didit, its webhooks and the routes keeps the invariant.
LEMMA DiditStep == DiditInv /\ [D!Next]_diditVars => DiditInv'
<1> SUFFICES ASSUME DiditInv, [D!Next]_diditVars PROVE DiditInv'
  OBVIOUS
<1>1. DiditTypeOK /\ ApprovalsKnown /\ LevelsGranted
  BY LevelHalves DEF DiditInv
<1>2. D!Idle.pc = "idle"
  BY DEF D!Idle
<1>3. ASSUME NEW d \in Requests, NEW s \in DiditIds, D!StartDidit(d, s) PROVE DiditInv'
  <2> DEFINE state == [pc |-> "insert", s |-> s]
  <2>1. state \in TaskStates /\ state.pc = "insert" /\ D!Become(d, state)
    BY <1>3 DEF TaskStates, D!StartDidit
  <2>2. /\ didit' \in [DiditIds -> {"none"} \cup Decisions]
        /\ \A q \in DiditIds : Approved(q) => Approved(q)'
        /\ UNCHANGED <<hooks, sessionRow, level, recent, halfDone>>
        /\ ~ D!At(d, "level")
    BY <1>1, <1>3 DEF D!StartDidit, DiditTypeOK, Approved, Decisions, D!At
  <2> HIDE DEF state
  <2> QED
    BY <1>1, <2>1, <2>2, RequestStep DEF DiditTypeOK
<1>4. ASSUME NEW d \in Requests, D!InsertSession(d) PROVE DiditInv'
  <2>1. task[d].s \in DiditIds /\ D!Become(d, D!Idle) /\ ~ D!At(d, "level")
    BY <1>4, TaskKinds DEF D!InsertSession, D!At
  <2>2. /\ sessionRow' \in [DiditIds -> {"absent"} \cup Decisions]
        /\ \A s \in DiditIds : sessionRow'[s] = "approved" => sessionRow[s] = "approved"
        /\ UNCHANGED <<didit, hooks, level, recent, halfDone>>
    BY <1>1, <1>4, <2>1 DEF D!InsertSession, DiditTypeOK, Decisions
  <2> QED
    BY <1>1, <1>2, <2>1, <2>2, RequestStep DEF DiditTypeOK, Approved
<1>5. ASSUME NEW d \in Requests, NEW hook \in hooks, D!Deliver(d, hook) PROVE DiditInv'
  <2> DEFINE state == [pc |-> "session", s |-> hook[1], status |-> hook[2]]
  <2>1. hook[1] \in DiditIds /\ hook[2] \in Decisions
    BY <1>1 DEF DiditTypeOK
  <2>2. /\ state \in TaskStates /\ state.pc = "session" /\ D!Become(d, state)
        /\ state.status = "approved" => Approved(state.s)
    BY <1>1, <1>5, <2>1 DEF TaskStates, D!Deliver, ApprovalsKnown
  <2>3. UNCHANGED <<didit, hooks, sessionRow, level, recent, halfDone>> /\ ~ D!At(d, "level")
    BY <1>5 DEF D!Deliver, D!At
  <2> HIDE DEF state
  <2> QED
    BY <1>1, <2>2, <2>3, RequestStep DEF DiditTypeOK, Approved
<1>6. ASSUME NEW d \in Requests, D!UpdateSession(d) PROVE DiditInv'
  <2>1. /\ task[d] \in [pc : {"session", "level"}, s : DiditIds, status : Decisions]
        /\ D!At(d, "session") /\ ~ D!At(d, "level")
    BY <1>6, TaskKinds DEF D!UpdateSession, D!At
  <2>2. /\ sessionRow' \in [DiditIds -> {"absent"} \cup Decisions]
        /\ \A s \in DiditIds : sessionRow'[s] = "approved" =>
               sessionRow[s] = "approved" \/ (s = task[d].s /\ task[d].status = "approved")
        /\ UNCHANGED <<didit, hooks, level, recent, halfDone>>
    BY <1>1, <1>6, <2>1 DEF D!UpdateSession, D!Reported, DiditTypeOK
  <2>3. CASE task[d].status # "approved"
    <3>1. D!Become(d, D!Idle)
      BY <1>6, <2>3 DEF D!UpdateSession
    <3> QED
      BY <1>1, <1>2, <2>1, <2>2, <2>3, <3>1, RequestStep DEF DiditTypeOK, Approved
  <2>4. CASE task[d].status = "approved"
    <3> DEFINE state == [task[d] EXCEPT !.pc = "level"]
    <3>1. state \in TaskStates /\ state.pc = "level" /\ state.s = task[d].s
      BY <2>1 DEF TaskStates
    <3>2. D!Become(d, state)
      BY <1>6, <2>4 DEF D!UpdateSession
    <3>3. Approved(task[d].s)
      BY <1>1, <2>1, <2>4 DEF ApprovalsKnown
    <3> HIDE DEF state
    <3> QED
      BY <1>1, <2>1, <2>2, <3>1, <3>2, <3>3, RequestStep DEF DiditTypeOK, Approved
  <2> QED
    BY <2>3, <2>4
<1>7. ASSUME NEW d \in Requests, D!GrantLevel(d) PROVE DiditInv'
  <2>1. task[d].s \in DiditIds /\ Approved(task[d].s) /\ D!Become(d, D!Idle)
    BY <1>1, <1>7, TaskKinds DEF D!GrantLevel, ApprovalsKnown, D!At
  <2>2. /\ level' = D!LevelOf(task[d].s) /\ level' \in 1..2 /\ recent' = TRUE
        /\ UNCHANGED <<didit, hooks, sessionRow, halfDone>>
    BY <1>7 DEF D!GrantLevel, D!LevelOf
  <2>3. /\ \A s \in DiditIds : Approved(s) => Approved(s)'
        /\ \E s \in DiditIds : Approved(s)' /\ D!LevelOf(s) = level'
    BY <2>1, <2>2 DEF Approved
  <2>4. /\ didit' \in [DiditIds -> {"none"} \cup Decisions]
        /\ sessionRow' \in [DiditIds -> {"absent"} \cup Decisions]
        /\ \A s \in DiditIds : sessionRow'[s] = "approved" => sessionRow[s] = "approved"
        /\ level' > 0
    BY <1>1, <2>2 DEF DiditTypeOK
  <2> QED
    BY <1>2, <2>1, <2>2, <2>3, <2>4, RequestStep
<1>8. ASSUME NEW d \in Requests, D!Fails(d) PROVE DiditInv'
  <2>1. /\ halfDone \subseteq halfDone'
        /\ D!At(d, "level") => task[d].s \in halfDone'
        /\ D!Become(d, D!Idle)
        /\ UNCHANGED <<didit, hooks, sessionRow, level, recent>>
    BY <1>8 DEF D!Fails
  <2> QED
    BY <1>1, <1>2, <2>1, RequestStep DEF DiditTypeOK, Approved
<1>9. ASSUME DiditTypeOK', \A s \in DiditIds : Approved(s) => Approved(s)',
             UNCHANGED <<task, sessionRow, level, halfDone>>, recent' => recent,
             \A hook \in hooks' : hook[2] = "approved" => Approved(hook[1])'
      PROVE  DiditInv'
  <2>1. \A d \in Requests : ~ D!At(d, "idle") => task[d].s \in DiditIds
    BY TaskKinds
  <2>2. \A d \in Requests, pc \in {"session", "level"} : D!At(d, pc)' <=> D!At(d, pc)
    BY <1>9 DEF D!At
  <2>3. \A d \in Requests :
        /\ D!At(d, "session")' /\ task'[d].status = "approved" => didit'[task'[d].s] = "approved"
        /\ D!At(d, "level")' => didit'[task'[d].s] = "approved"
    BY <1>1, <1>9, <2>1, <2>2 DEF ApprovalsKnown, Approved, D!At
  <2>4. (level > 0 => \E s \in DiditIds : Approved(s) /\ D!LevelOf(s) = level)'
    BY <1>1, <1>9 DEF ApprovalsKnown, D!LevelOf
  <2>5. ApprovalsKnown'
    BY <1>1, <1>9, <2>3, <2>4 DEF ApprovalsKnown, Approved
  <2>6. LevelsGranted'
    BY <1>1, <1>9, <2>2 DEF LevelsGranted, Granted
  <2> QED
    BY <1>9, <2>5, <2>6, LevelHalves, PTL DEF DiditInv
<1>10. ASSUME NEW s \in DiditIds, NEW found \in Decisions, D!Decide(s, found) PROVE DiditInv'
  <2>1. /\ DiditTypeOK' /\ \A q \in DiditIds : Approved(q) => Approved(q)'
        /\ UNCHANGED <<task, sessionRow, level, halfDone, recent>>
    BY <1>1, <1>10 DEF D!Decide, DiditTypeOK, Approved, Decisions
  <2>2. ASSUME NEW hook \in hooks', hook[2] = "approved" PROVE Approved(hook[1])'
    BY <1>1, <1>10, <2>1, <2>2 DEF D!Decide, DiditTypeOK, ApprovalsKnown, Approved
  <2> QED
    BY <1>9, <2>1, <2>2
<1>11. ASSUME NEW hook \in hooks, D!Forget(hook) PROVE DiditInv'
  <2>1. /\ DiditTypeOK' /\ hooks' \subseteq hooks
        /\ UNCHANGED <<didit, task, sessionRow, level, halfDone, recent>>
    BY <1>1, <1>11 DEF D!Forget, DiditTypeOK
  <2> QED
    BY <1>1, <1>9, <2>1 DEF ApprovalsKnown, Approved
<1>12. CASE D!LevelExpires
  <2>1. DiditTypeOK' /\ ~ recent' /\ UNCHANGED <<didit, hooks, task, sessionRow, level, halfDone>>
    BY <1>1, <1>12 DEF D!LevelExpires, DiditTypeOK
  <2> QED
    BY <1>1, <1>9, <2>1 DEF ApprovalsKnown, Approved
<1>13. CASE UNCHANGED diditVars
  <2>1. DiditTypeOK' /\ UNCHANGED <<didit, hooks, task, sessionRow, level, halfDone, recent>>
    BY <1>1, <1>13 DEF diditVars, DiditTypeOK
  <2> QED
    BY <1>1, <1>9, <2>1 DEF ApprovalsKnown, Approved
<1> QED
  BY <1>3, <1>4, <1>5, <1>6, <1>7, <1>8, <1>10, <1>11, <1>12, <1>13 DEF D!Next, Decisions

\* Whatever the order and number of the webhooks and sessions, the gate sees a
\* level only if Didit approved a session for it, and an approved session gave
\* its user a level unless the write of it is to come or failed.
THEOREM LevelFollowsSessionsHolds == Spec => []LevelFollowsSessions
<1>1. Init => DiditInv
  BY DiditInit DEF Init
<1>2. DiditInv /\ [Next]_vars => DiditInv'
  BY DiditStep, UserParts
<1>3. DiditInv => LevelFollowsSessions
  BY DEF DiditInv, LevelFollowsSessions
<1> QED
  BY <1>1, <1>2, <1>3, PTL DEF Spec

-----------------------------------------------------------------------------
(* Identity verification by Etherfuse.                                     *)

StartStates == [pc : {"store", "page"}, id : EtherfuseIds]

EtherfuseTypeOK ==
    /\ customer \in EtherfuseIds \cup {NoId}
    /\ start \in [Requests -> StartStates \cup {E!Idle}]

\* The ids that are in a page or may come into one without being stored again.
GivenIds ==
    pages \cup ({customer} \ {NoId}) \cup {start[d].id : d \in {e \in Requests : E!At(e, "page")}}

Storing == {d \in Requests : E!At(d, "store")}

\* Each id beyond those given needs a request that began before any was stored.
IdsCounted ==
    /\ IsFiniteSet(GivenIds)
    /\ Cardinality(GivenIds) + Cardinality(Storing) <= Cardinality(Requests)
    /\ customer = NoId => GivenIds = {}

EtherfuseInv == EtherfuseTypeOK /\ IdsCounted

\* Nobody asked for a page.
LEMMA EtherfuseInit == E!Init => EtherfuseInv
<1> SUFFICES ASSUME E!Init PROVE EtherfuseInv
  OBVIOUS
<1>1. \A d \in Requests : start[d].pc = "idle"
  BY DEF E!Init, E!Idle
<1>2. GivenIds = {} /\ Storing = {}
  BY <1>1 DEF E!Init, GivenIds, Storing, E!At
<1>3. Cardinality(Requests) \in Nat
  BY ServicesAssumption, FS_CardinalityType
<1>4. IdsCounted
  BY <1>2, <1>3, FS_EmptySet DEF IdsCounted
<1> QED
  BY <1>4 DEF E!Init, EtherfuseInv, EtherfuseTypeOK

\* Fewer ids given and fewer requests that store one can be counted still.
LEMMA FewerIds ==
    ASSUME IdsCounted, GivenIds' \subseteq GivenIds, Storing' \subseteq Storing,
           customer' = NoId => customer = NoId
    PROVE  IdsCounted'
<1>1. Storing \in SUBSET Requests /\ Storing' \in SUBSET Requests
  BY DEF Storing
<1>2. /\ IsFiniteSet(Storing) /\ Cardinality(Storing) \in Nat /\ Cardinality(Requests) \in Nat
      /\ Cardinality(Storing') \in Nat /\ Cardinality(Storing') <= Cardinality(Storing)
  BY <1>1, ServicesAssumption, FS_Subset, FS_CardinalityType
<1>3. /\ IsFiniteSet(GivenIds') /\ Cardinality(GivenIds') <= Cardinality(GivenIds)
      /\ Cardinality(GivenIds') \in Nat /\ Cardinality(GivenIds) \in Nat
  BY FS_Subset, FS_CardinalityType DEF IdsCounted
<1> QED
  BY <1>2, <1>3 DEF IdsCounted

\* What a request that moves does to the two sets.
LEMMA StartMoves ==
    ASSUME EtherfuseInv, NEW d \in Requests, NEW state \in StartStates \cup {E!Idle},
           E!Become(d, state)
    PROVE  /\ start' \in [Requests -> StartStates \cup {E!Idle}]
           /\ start'[d] = state
           /\ \A e \in Requests : e # d => start'[e] = start[e]
           /\ Storing' = IF state.pc = "store" THEN Storing \cup {d} ELSE Storing \ {d}
<1>1. /\ start' \in [Requests -> StartStates \cup {E!Idle}]
      /\ start'[d] = state
      /\ \A e \in Requests : e # d => start'[e] = start[e]
  BY DEF EtherfuseInv, EtherfuseTypeOK, E!Become
<1> QED
  BY <1>1 DEF Storing, E!At

\* One id makes a set one larger at most.
LEMMA OneMore ==
    ASSUME NEW A, IsFiniteSet(A), NEW x
    PROVE  /\ IsFiniteSet(A \cup {x}) /\ Cardinality(A) \in Nat
           /\ Cardinality(A \cup {x}) \in Nat
           /\ Cardinality(A \cup {x}) <= Cardinality(A) + 1
<1>1. IsFiniteSet(A \cup {x}) /\ Cardinality(A) \in Nat
  BY FS_AddElement, FS_CardinalityType
<1>2. Cardinality(A \cup {x}) = Cardinality(A) \/ Cardinality(A \cup {x}) = Cardinality(A) + 1
  BY FS_AddElement
<1> QED
  BY <1>1, <1>2, FS_CardinalityType

\* Every step of the requests keeps the invariant.
LEMMA EtherfuseStep == EtherfuseInv /\ [E!Next]_etherfuseVars => EtherfuseInv'
<1> SUFFICES ASSUME EtherfuseInv, [E!Next]_etherfuseVars PROVE EtherfuseInv'
  OBVIOUS
<1>1. EtherfuseTypeOK /\ IdsCounted
  BY DEF EtherfuseInv
<1>2. E!Idle.pc = "idle" /\ Storing \in SUBSET Requests
  BY DEF E!Idle, Storing
<1>3. ASSUME NEW d \in Requests, E!StartEtherfuse(d), customer # NoId PROVE EtherfuseInv'
  <2> DEFINE state == [pc |-> "page", id |-> customer]
  <2>1. /\ state \in StartStates /\ state.pc = "page" /\ state.id = customer
        /\ E!Become(d, state) /\ UNCHANGED <<customer, pages>>
    BY <1>1, <1>3 DEF E!StartEtherfuse, EtherfuseTypeOK, StartStates
  <2> HIDE DEF state
  <2>2. /\ EtherfuseTypeOK' /\ Storing' \subseteq Storing
        /\ start'[d] = state /\ \A e \in Requests : e # d => start'[e] = start[e]
    BY <1>1, <2>1, StartMoves DEF EtherfuseTypeOK
  <2>3. GivenIds' \subseteq GivenIds
    BY <1>3, <2>1, <2>2 DEF GivenIds, E!At
  <2> QED
    BY <1>1, <2>1, <2>2, <2>3, FewerIds DEF EtherfuseInv
<1>4. ASSUME NEW d \in Requests, E!StartEtherfuse(d), customer = NoId PROVE EtherfuseInv'
  <2>1. PICK id \in EtherfuseIds : E!Become(d, [pc |-> "store", id |-> id])
    BY <1>4 DEF E!StartEtherfuse
  <2> DEFINE state == [pc |-> "store", id |-> id]
  <2>2. /\ state \in StartStates /\ state.pc = "store"
        /\ E!Become(d, state) /\ UNCHANGED <<customer, pages>>
    BY <1>4, <2>1 DEF E!StartEtherfuse, StartStates
  <2> HIDE DEF state
  <2>3. /\ EtherfuseTypeOK' /\ Storing' \in SUBSET Requests
        /\ start'[d] = state /\ \A e \in Requests : e # d => start'[e] = start[e]
    BY <1>1, <1>2, <2>2, StartMoves DEF EtherfuseTypeOK
  <2>4. GivenIds' \subseteq GivenIds
    BY <2>2, <2>3 DEF GivenIds, E!At
  <2>5. GivenIds' = {}
    BY <1>1, <1>4, <2>4 DEF IdsCounted
  <2>6. Cardinality(Storing') <= Cardinality(Requests) /\ Cardinality(Storing') \in Nat
    BY <2>3, ServicesAssumption, FS_Subset, FS_CardinalityType
  <2>7. IdsCounted'
    BY <2>5, <2>6, FS_EmptySet DEF IdsCounted
  <2> QED
    BY <2>3, <2>7 DEF EtherfuseInv
<1>5. ASSUME NEW d \in Requests, E!StoreId(d) PROVE EtherfuseInv'
  <2> DEFINE state == [start[d] EXCEPT !.pc = "page"]
             id == start[d].id
  <2>1. start[d] \in StartStates /\ d \in Storing
    BY <1>1, <1>5 DEF E!StoreId, EtherfuseTypeOK, E!At, E!Idle, Storing
  <2>2. /\ state \in StartStates /\ state.pc = "page" /\ state.id = id /\ id \in EtherfuseIds
        /\ E!Become(d, state) /\ customer' = id /\ pages' = pages
    BY <1>5, <2>1 DEF E!StoreId, StartStates
  <2> HIDE DEF state
  <2>3. /\ EtherfuseTypeOK' /\ Storing' = Storing \ {d}
        /\ start'[d] = state /\ \A e \in Requests : e # d => start'[e] = start[e]
    BY <1>1, <2>2, StartMoves DEF EtherfuseTypeOK
  <2>4. GivenIds' \subseteq GivenIds \cup {id}
    BY <2>2, <2>3 DEF GivenIds, E!At
  <2> HIDE DEF id
  <2>5. /\ IsFiniteSet(GivenIds \cup {id}) /\ Cardinality(GivenIds) \in Nat
        /\ Cardinality(GivenIds \cup {id}) \in Nat
        /\ Cardinality(GivenIds \cup {id}) <= Cardinality(GivenIds) + 1
    <3>1. IsFiniteSet(GivenIds)
      BY <1>1 DEF IdsCounted
    <3> QED
      BY <3>1, OneMore
  <2>6. /\ IsFiniteSet(GivenIds') /\ Cardinality(GivenIds') \in Nat
        /\ Cardinality(GivenIds') <= Cardinality(GivenIds) + 1
    BY <2>4, <2>5, FS_Subset, FS_CardinalityType
  <2>7. /\ Cardinality(Storing') = Cardinality(Storing) - 1 /\ Cardinality(Storing) \in Nat
        /\ Cardinality(Requests) \in Nat
    BY <1>2, <2>1, <2>3, CountRequests
  <2>8. customer' # NoId
    BY <2>2, ServicesAssumption
  <2>9. Cardinality(GivenIds) + Cardinality(Storing) <= Cardinality(Requests)
    BY <1>1 DEF IdsCounted
  <2>10. Cardinality(GivenIds') + Cardinality(Storing') <= Cardinality(Requests)
    BY ONLY <2>5, <2>6, <2>7, <2>9
  <2>11. IdsCounted'
    BY <2>6, <2>8, <2>10 DEF IdsCounted
  <2> QED
    BY <2>3, <2>11 DEF EtherfuseInv
<1>6. ASSUME NEW d \in Requests, E!CreatePage(d) \/ E!Fails(d) PROVE EtherfuseInv'
  <2>1. E!Become(d, E!Idle) /\ customer' = customer
    BY <1>6 DEF E!CreatePage, E!Fails
  <2>2. /\ EtherfuseTypeOK' /\ Storing' \subseteq Storing
        /\ start'[d] = E!Idle /\ \A e \in Requests : e # d => start'[e] = start[e]
    BY <1>1, <1>2, <2>1, StartMoves DEF EtherfuseTypeOK
  <2>3. GivenIds' \subseteq GivenIds
    BY <1>2, <1>6, <2>1, <2>2 DEF GivenIds, E!At, E!CreatePage, E!Fails
  <2> QED
    BY <1>1, <2>1, <2>2, <2>3, FewerIds DEF EtherfuseInv
<1>7. CASE UNCHANGED etherfuseVars
  <2>1. EtherfuseTypeOK' /\ Storing' = Storing /\ GivenIds' = GivenIds /\ customer' = customer
    BY <1>1, <1>7 DEF etherfuseVars, EtherfuseTypeOK, Storing, GivenIds, E!At
  <2> QED
    BY <1>1, <2>1, FewerIds DEF EtherfuseInv
<1> QED
  BY <1>3, <1>4, <1>5, <1>6, <1>7 DEF E!Next

\* A user gets no more customer ids than there were requests that overlapped,
\* however often pages are asked for and fail.
THEOREM FewCustomerIdsHolds == Spec => []FewCustomerIds
<1>1. Init => EtherfuseInv
  BY EtherfuseInit DEF Init
<1>2. EtherfuseInv /\ [Next]_vars => EtherfuseInv'
  BY EtherfuseStep, UserParts
<1>3. EtherfuseInv => FewCustomerIds
  <2> SUFFICES ASSUME EtherfuseInv PROVE Cardinality(pages) <= Cardinality(Requests)
    BY DEF FewCustomerIds, E!FewCustomerIds, E!Cardinality, Cardinality
  <2>1. pages \in SUBSET GivenIds /\ Storing \in SUBSET Requests /\ IsFiniteSet(GivenIds)
    BY DEF GivenIds, Storing, EtherfuseInv, IdsCounted
  <2>2. /\ Cardinality(pages) <= Cardinality(GivenIds) /\ Cardinality(pages) \in Nat
        /\ Cardinality(GivenIds) \in Nat
    BY <2>1, FS_Subset, FS_CardinalityType
  <2>3. Cardinality(Storing) \in Nat /\ Cardinality(Requests) \in Nat
    BY <2>1, CountRequests
  <2> QED
    BY <2>2, <2>3 DEF EtherfuseInv, IdsCounted
<1> QED
  BY <1>1, <1>2, <1>3, PTL DEF Spec

-----------------------------------------------------------------------------
(* Sign requests.                                                          *)

Outcomes == {"expired", "cancelled", "signed"}

Resolvers == {"expire", "refuse", "cancel", "sign"}

HandlerStates == [pc : {"insert"} \cup Resolvers, id : SignIds]

SigningTypeOK ==
    /\ status \in [SignIds -> {"absent", "pending"} \cup Outcomes]
    /\ outcomes \in [SignIds -> Nat]
    /\ handler \in [Requests -> HandlerStates \cup {R!Idle}]

Resolving(i) == {h \in Requests : handler[h].pc \in Resolvers /\ handler[h].id = i}

Inserting(i) == {h \in Requests : handler[h].pc = "insert" /\ handler[h].id = i}

\* Each outcome a request has, or is about to get, is of a handler that read it
\* while it was pending; and one handler inserts it, before the others.
OutcomesCounted(i) ==
    /\ outcomes[i] + Cardinality(Resolving(i)) <= Cardinality(Requests)
    /\ status[i] \in {"absent", "pending"} => outcomes[i] = 0
    /\ status[i] = "absent" => Resolving(i) = {}
    /\ \A h \in Inserting(i) : status[i] = "absent"
    /\ \A g, h \in Inserting(i) : g = h

SigningInv == SigningTypeOK /\ \A i \in SignIds : OutcomesCounted(i)

\* No request was created.
LEMMA SigningInit == R!Init => SigningInv
<1> SUFFICES ASSUME R!Init PROVE SigningInv
  OBVIOUS
<1>1. \A h \in Requests : handler[h].pc = "idle"
  BY DEF R!Init, R!Idle
<1>2. SigningTypeOK
  BY DEF R!Init, SigningTypeOK
<1>3. ASSUME NEW i \in SignIds PROVE OutcomesCounted(i)
  <2>1. Resolving(i) = {} /\ Inserting(i) = {}
    BY <1>1 DEF Resolving, Inserting, Resolvers
  <2>2. Cardinality({}) = 0 /\ Cardinality(Requests) \in Nat
    BY ServicesAssumption, FS_EmptySet, FS_CardinalityType
  <2>3. outcomes[i] = 0
    BY DEF R!Init
  <2> QED
    BY <2>1, <2>2, <2>3 DEF OutcomesCounted
<1> QED
  BY <1>2, <1>3 DEF SigningInv

\* What a handler that moves does to the sets of handlers.
LEMMA HandlerMoves ==
    ASSUME SigningTypeOK, NEW h \in Requests, NEW state \in HandlerStates \cup {R!Idle},
           R!Become(h, state)
    PROVE  /\ handler' \in [Requests -> HandlerStates \cup {R!Idle}]
           /\ \A i \in SignIds :
               /\ Resolving(i)' = IF state.pc \in Resolvers /\ state.id = i
                                  THEN Resolving(i) \cup {h} ELSE Resolving(i) \ {h}
               /\ Inserting(i)' = IF state.pc = "insert" /\ state.id = i
                                  THEN Inserting(i) \cup {h} ELSE Inserting(i) \ {h}
<1>1. /\ handler' \in [Requests -> HandlerStates \cup {R!Idle}]
      /\ handler'[h] = state
      /\ \A e \in Requests : e # h => handler'[e] = handler[e]
  BY DEF SigningTypeOK, R!Become
<1> QED
  BY <1>1 DEF Resolving, Inserting

\* A request whose handlers only leave keeps its count.
LEMMA HandlersLeave ==
    ASSUME NEW i \in SignIds, SigningTypeOK, SigningTypeOK', OutcomesCounted(i),
           Resolving(i)' \subseteq Resolving(i), Inserting(i)' \subseteq Inserting(i),
           status'[i] = status[i], outcomes'[i] = outcomes[i]
    PROVE  OutcomesCounted(i)'
<1>1. /\ Resolving(i) \in SUBSET Requests /\ Resolving(i)' \in SUBSET Requests
      /\ IsFiniteSet(Resolving(i))
  BY ServicesAssumption, FS_Subset DEF Resolving
<1>2. /\ Cardinality(Resolving(i)) \in Nat /\ Cardinality(Resolving(i)') \in Nat
      /\ Cardinality(Resolving(i)') <= Cardinality(Resolving(i))
      /\ Cardinality(Requests) \in Nat
  BY <1>1, CountRequests, FS_Subset
<1>3. outcomes[i] \in Nat
  BY DEF SigningTypeOK
<1>4. outcomes[i] + Cardinality(Resolving(i)) <= Cardinality(Requests)
  BY DEF OutcomesCounted
<1>5. outcomes'[i] + Cardinality(Resolving(i)') <= Cardinality(Requests)
  BY <1>2, <1>3, <1>4
<1> QED
  BY <1>5 DEF OutcomesCounted

\* A handler that read a pending request is the first or one of several to do so.
LEMMA ReadsPending ==
    ASSUME SigningInv, NEW h \in Requests, NEW i \in SignIds, NEW pc \in Resolvers,
           R!At(h, "idle"), status[i] = "pending",
           R!Become(h, [pc |-> pc, id |-> i]), UNCHANGED <<status, outcomes>>
    PROVE  SigningInv'
<1> DEFINE state == [pc |-> pc, id |-> i]
<1>1. state \in HandlerStates /\ state.pc = pc /\ state.id = i /\ pc # "insert"
  BY DEF HandlerStates, Resolvers
<1>2. R!Become(h, state)
  OBVIOUS
<1> HIDE DEF state
<1>3. SigningTypeOK /\ SigningTypeOK'
  BY <1>1, <1>2, HandlerMoves DEF SigningInv, SigningTypeOK
<1>4. \A j \in SignIds :
          /\ Resolving(j)' = IF j = i THEN Resolving(j) \cup {h} ELSE Resolving(j) \ {h}
          /\ Inserting(j)' = Inserting(j) \ {h}
  BY <1>1, <1>2, <1>3, HandlerMoves
<1>5. ASSUME NEW j \in SignIds PROVE OutcomesCounted(j)'
  <2>1. CASE j = i
    <3>1. Resolving(i)' \in SUBSET Requests /\ Cardinality(Resolving(i)') <= Cardinality(Requests)
      BY ServicesAssumption, FS_Subset DEF Resolving
    <3>2. Cardinality(Resolving(i)') \in Nat /\ outcomes'[i] = 0
      BY <3>1, CountRequests DEF SigningInv, OutcomesCounted
    <3>3. outcomes'[i] + Cardinality(Resolving(i)') <= Cardinality(Requests)
      BY <3>1, <3>2, CountRequests
    <3> QED
      BY <1>4, <2>1, <3>2, <3>3 DEF SigningInv, OutcomesCounted
  <2>2. CASE j # i
    <3>1. Resolving(j)' \subseteq Resolving(j) /\ Inserting(j)' \subseteq Inserting(j)
      BY <1>4, <2>2
    <3> QED
      BY <1>3, <3>1, HandlersLeave DEF SigningInv
  <2> QED
    BY <2>1, <2>2
<1> QED
  BY <1>3, <1>5 DEF SigningInv

\* A handler that writes an outcome was counted until then.
LEMMA OutcomeWritten ==
    ASSUME SigningInv, NEW h \in Requests, handler[h].pc \in Resolvers,
           NEW outcome \in Outcomes, R!Resolve(h, outcome), R!Become(h, R!Idle)
    PROVE  SigningInv'
<1>1. handler[h] \in HandlerStates /\ R!Idle.pc = "idle"
  BY DEF SigningInv, SigningTypeOK, HandlerStates, Resolvers, R!Idle
<1>2. PICK i \in SignIds : i = handler[h].id /\ h \in Resolving(i)
  BY <1>1 DEF HandlerStates, Resolving
<1>3. \A j \in SignIds :
          /\ Resolving(j)' = Resolving(j) \ {h}
          /\ Inserting(j)' = Inserting(j) \ {h}
  BY <1>1, HandlerMoves DEF SigningInv, Resolvers
<1>4. /\ status'[i] = outcome /\ outcomes'[i] = outcomes[i] + 1
      /\ \A j \in SignIds : j # i => status'[j] = status[j] /\ outcomes'[j] = outcomes[j]
      /\ SigningTypeOK /\ SigningTypeOK'
  BY <1>1, <1>2, HandlerMoves DEF SigningInv, SigningTypeOK, R!Resolve
<1>5. ASSUME NEW j \in SignIds PROVE OutcomesCounted(j)'
  <2>1. CASE j = i
    <3>1. Resolving(i) \in SUBSET Requests /\ outcomes[i] \in Nat
      BY <1>2, <1>4 DEF Resolving, SigningTypeOK
    <3>2. /\ Cardinality(Resolving(i)') = Cardinality(Resolving(i)) - 1
          /\ Cardinality(Resolving(i)) \in Nat /\ Cardinality(Requests) \in Nat
      BY <1>2, <1>3, <3>1, CountRequests
    <3>3. outcomes[i] + Cardinality(Resolving(i)) <= Cardinality(Requests)
      BY <1>2 DEF SigningInv, OutcomesCounted
    <3>4. outcomes'[i] + Cardinality(Resolving(i)') <= Cardinality(Requests)
      BY <1>4, <3>1, <3>2, <3>3
    <3>5. Inserting(i) = {} /\ status'[i] \notin {"absent", "pending"}
      BY <1>2, <1>4 DEF SigningInv, OutcomesCounted, Outcomes
    <3> QED
      BY <1>3, <2>1, <3>4, <3>5 DEF OutcomesCounted
  <2>2. CASE j # i
    <3>1. Resolving(j)' \subseteq Resolving(j) /\ Inserting(j)' \subseteq Inserting(j)
      BY <1>3
    <3> QED
      BY <1>4, <2>2, <3>1, HandlersLeave DEF SigningInv
  <2> QED
    BY <2>1, <2>2
<1> QED
  BY <1>4, <1>5 DEF SigningInv

\* Every step of the handlers and of the clock keeps the invariant.
LEMMA SigningStep == SigningInv /\ [R!Next]_signVars => SigningInv'
<1> SUFFICES ASSUME SigningInv, [R!Next]_signVars PROVE SigningInv'
  OBVIOUS
<1>1. SigningTypeOK /\ R!Idle.pc = "idle"
  BY DEF SigningInv, R!Idle
<1>2. ASSUME NEW h \in Requests, NEW i \in SignIds, R!Notify(h, i) PROVE SigningInv'
  <2> DEFINE state == [pc |-> "insert", id |-> i]
  <2>1. /\ state \in HandlerStates /\ state.pc = "insert" /\ state.id = i
        /\ state.pc \notin Resolvers /\ R!Become(h, state)
        /\ UNCHANGED <<status, outcomes>>
    BY <1>2 DEF R!Notify, HandlerStates, Resolvers
  <2> HIDE DEF state
  <2>2. /\ SigningTypeOK'
        /\ \A j \in SignIds :
             /\ Resolving(j)' \subseteq Resolving(j)
             /\ Inserting(j)' = IF j = i THEN Inserting(j) \cup {h} ELSE Inserting(j) \ {h}
    BY <1>1, <2>1, HandlerMoves DEF SigningTypeOK
  <2>3. Inserting(i) = {} /\ Resolving(i) = {} /\ status[i] = "absent"
    BY <1>2 DEF R!Notify, R!Busy, R!At, Inserting, Resolving, Resolvers
  <2>4. ASSUME NEW j \in SignIds PROVE OutcomesCounted(j)'
    <3>1. CASE j = i
      <4>1. Resolving(i)' = {} /\ Inserting(i)' = {h}
        BY <2>2, <2>3
      <4> QED
        BY <2>1, <2>3, <3>1, <4>1 DEF SigningInv, OutcomesCounted
    <3>2. CASE j # i
      BY <1>1, <2>1, <2>2, <3>2, HandlersLeave DEF SigningInv
    <3> QED
      BY <3>1, <3>2
  <2> QED
    BY <2>2, <2>4 DEF SigningInv
<1>3. ASSUME NEW h \in Requests, R!Insert(h) PROVE SigningInv'
  <2>1. handler[h] \in HandlerStates
    BY <1>1, <1>3 DEF R!Insert, R!At, SigningTypeOK, R!Idle
  <2>2. PICK i \in SignIds : i = handler[h].id /\ h \in Inserting(i)
    BY <1>3, <2>1 DEF R!Insert, R!At, HandlerStates, Inserting
  <2>3. \A j \in SignIds :
            /\ Resolving(j)' = Resolving(j) \ {h}
            /\ Inserting(j)' = Inserting(j) \ {h}
    BY <1>1, <1>3, HandlerMoves DEF R!Insert, Resolvers
  <2>4. /\ status'[i] = "pending" /\ UNCHANGED outcomes
        /\ \A j \in SignIds : j # i => status'[j] = status[j]
        /\ SigningTypeOK'
    BY <1>1, <1>3, <2>2, HandlerMoves DEF R!Insert, SigningTypeOK
  <2>5. ASSUME NEW j \in SignIds PROVE OutcomesCounted(j)'
    <3>1. CASE j = i
      <4>1. Inserting(i)' = {} /\ Resolving(i) = {} /\ outcomes[i] = 0
        BY <2>2, <2>3 DEF SigningInv, OutcomesCounted
      <4>2. Resolving(i)' = Resolving(i)
        BY <2>2, <2>3, <4>1
      <4> QED
        BY <2>2, <2>4, <3>1, <4>1, <4>2 DEF SigningInv, OutcomesCounted
    <3>2. CASE j # i
      BY <1>1, <2>3, <2>4, <3>2, HandlersLeave DEF SigningInv
    <3> QED
      BY <3>1, <3>2
  <2> QED
    BY <2>4, <2>5 DEF SigningInv
<1>same. ASSUME UNCHANGED <<status, outcomes, handler>> PROVE SigningInv'
  <2>1. status' = status /\ outcomes' = outcomes /\ handler' = handler
    BY <1>same
  <2>2. SigningTypeOK'
    BY <1>1, <2>1 DEF SigningTypeOK
  <2>3. \A i \in SignIds : Resolving(i)' = Resolving(i) /\ Inserting(i)' = Inserting(i)
    BY <2>1 DEF Resolving, Inserting
  <2>4. \A i \in SignIds : OutcomesCounted(i)'
    BY <2>1, <2>3 DEF SigningInv, OutcomesCounted
  <2> QED
    BY <2>2, <2>4 DEF SigningInv
<1>4. ASSUME NEW i \in SignIds, R!Overdue(i) PROVE SigningInv'
  BY <1>4, <1>same DEF R!Overdue
<1>5. ASSUME NEW h \in Requests, NEW i \in SignIds, R!Poll(h, i) PROVE SigningInv'
  BY <1>5, ReadsPending DEF R!Poll, Resolvers
<1>6. ASSUME NEW h \in Requests, NEW i \in SignIds, NEW choice \in {"sign", "cancel"},
             R!Read(h, i, choice)
      PROVE  SigningInv'
  <2>1. PICK pc \in Resolvers : R!Become(h, [pc |-> pc, id |-> i])
    BY <1>6 DEF R!Read, Resolvers
  <2> QED
    BY <1>6, <2>1, ReadsPending DEF R!Read
<1>7. ASSUME NEW h \in Requests, R!Expire(h) \/ R!Refuse(h) \/ R!Cancel(h) \/ R!Sign(h)
      PROVE  SigningInv'
  BY <1>7, OutcomeWritten DEF R!Expire, R!Refuse, R!Cancel, R!Sign, R!At, Outcomes, Resolvers
<1>8. ASSUME NEW h \in Requests, R!Fails(h) PROVE SigningInv'
  <2>1. R!Become(h, R!Idle) /\ UNCHANGED <<status, outcomes>>
    BY <1>8 DEF R!Fails
  <2>2. /\ SigningTypeOK'
        /\ \A j \in SignIds : /\ Resolving(j)' \subseteq Resolving(j)
                              /\ Inserting(j)' \subseteq Inserting(j)
    BY <1>1, <2>1, HandlerMoves DEF SigningTypeOK, Resolvers
  <2> QED
    BY <1>1, <2>1, <2>2, HandlersLeave DEF SigningInv
<1>9. CASE UNCHANGED signVars
  BY <1>9, <1>same DEF signVars
<1> QED
  BY <1>2, <1>3, <1>4, <1>5, <1>6, <1>7, <1>8, <1>9 DEF R!Next

\* A sign request gets no more outcomes than handlers can be in progress at once,
\* whatever they interleave with: those that read it later find it resolved.
THEOREM OutcomesBoundedHolds == Spec => []OutcomesBounded
<1>1. Init => SigningInv
  BY SigningInit DEF Init
<1>2. SigningInv /\ [Next]_vars => SigningInv'
  BY SigningStep, UserParts
<1>3. SigningInv => OutcomesBounded
  <2> SUFFICES ASSUME SigningInv, NEW i \in SignIds
               PROVE  outcomes[i] <= Cardinality(Requests)
    BY DEF OutcomesBounded, R!OutcomesBounded, R!Cardinality, Cardinality
  <2>1. Resolving(i) \in SUBSET Requests /\ outcomes[i] \in Nat
    BY DEF Resolving, SigningInv, SigningTypeOK
  <2>2. Cardinality(Resolving(i)) \in Nat /\ Cardinality(Requests) \in Nat
    BY <2>1, CountRequests
  <2>3. outcomes[i] + Cardinality(Resolving(i)) <= Cardinality(Requests)
    BY DEF SigningInv, OutcomesCounted
  <2> QED
    BY <2>1, <2>2, <2>3
<1> QED
  BY <1>1, <1>2, <1>3, PTL DEF Spec

-----------------------------------------------------------------------------
(* Logging in and out: what the requests carry.                            *)

LoginStates ==
    [pc : {"verify"}, address : Addresses, challenge : S!Challenges] \cup [pc : {"user"}]

TokenStates ==
    [pc : {"revoked", "query", "account", "handler", "persist"}, token : S!Tokens,
     logout : BOOLEAN, late : BOOLEAN, blind : BOOLEAN]

SessionStates == LoginStates \cup TokenStates \cup {S!Idle}

Past(x, pcs) == x.pc \in pcs /\ x \in TokenStates

\* What a request sent after its token's logout has shown of the token, at each
\* of its awaits; and a logout about to be answered is in the memory.
Sound(x) ==
    /\ Past(x, {"revoked"}) /\ x.late => x.token \in out
    /\ Past(x, {"query"}) /\ x.late => x.token \in out /\ x.token \in expired \cup forgotten
    /\ Past(x, {"account", "handler", "persist"}) /\ x.late =>
           \/ x.token \in expired
           \/ x.token \in forgotten /\ (x.token \in unsaved \/ x.blind)
    /\ Past(x, {"persist"}) => x.token \in blacklist \cup expired

\* The token of an answered logout is in the table unless that refused it, and
\* in the memory unless a restart dropped it or it has expired.
OutRecorded ==
    \A t \in out : t \in rows \cup unsaved /\ t \in blacklist \cup forgotten \cup expired

LogoutInv ==
    /\ session \in [Requests -> SessionStates]
    /\ \A r \in Requests : Sound(session[r])
    /\ OutRecorded

\* The states of a login are none of a token's.
LEMMA StatesApart ==
    /\ \A x \in TokenStates : x.pc \in {"revoked", "query", "account", "handler", "persist"}
    /\ \A x \in LoginStates : x.pc \in {"verify", "user"}
    /\ S!Idle.pc = "idle"
  BY DEF TokenStates, LoginStates, S!Idle

\* Nobody logged in.
LEMMA LogoutInit == S!Init => LogoutInv
<1> SUFFICES ASSUME S!Init PROVE LogoutInv
  OBVIOUS
<1>1. session \in [Requests -> SessionStates] /\ \A r \in Requests : session[r] = S!Idle
  BY DEF S!Init, SessionStates
<1>2. \A r \in Requests : Sound(session[r])
  BY <1>1, StatesApart DEF Sound, Past
<1> QED
  BY <1>1, <1>2 DEF S!Init, LogoutInv, OutRecorded

\* The revocations a request saw stay, except that a restart drops the memory.
Lasting ==
    /\ out \subseteq out' /\ expired \subseteq expired' /\ forgotten \subseteq forgotten'
    /\ unsaved \subseteq unsaved'
    /\ blacklist \cup expired \subseteq blacklist' \cup expired'

\* What was shown of a token stays so.
LEMMA SoundStays ==
    ASSUME NEW x, Sound(x), Lasting PROVE Sound(x)'
  BY DEF Sound, Past, Lasting

\* A request that moves, with what it knows then.
LEMMA SessionMoves ==
    ASSUME LogoutInv, NEW r \in Requests, NEW state \in SessionStates,
           S!Become(r, state), Lasting, OutRecorded', Sound(state)'
    PROVE  LogoutInv'
<1>1. /\ session' \in [Requests -> SessionStates]
      /\ session'[r] = state
      /\ \A q \in Requests : q # r => session'[q] = session[q]
  BY DEF LogoutInv, S!Become
<1>2. ASSUME NEW q \in Requests PROVE Sound(session[q])'
  <2>1. CASE q = r
    BY <1>1, <2>1 DEF Sound, Past
  <2>2. CASE q # r
    <3>1. PICK x : x = session[q] /\ x = session'[q]
      BY <1>1, <2>2
    <3>2. Sound(x)
      BY <3>1 DEF LogoutInv
    <3>3. Sound(x)'
      BY <3>2, SoundStays
    <3> QED
      BY <3>1, <3>3 DEF Sound, Past
  <2> QED
    BY <2>1, <2>2
<1> QED
  BY <1>1, <1>2 DEF LogoutInv

\* A step that moves no request.
LEMMA SessionsStay ==
    ASSUME LogoutInv, UNCHANGED session, Lasting, OutRecorded'
    PROVE  LogoutInv'
<1>1. ASSUME NEW q \in Requests PROVE Sound(session[q])'
  <2>1. PICK x : x = session[q] /\ x = session'[q]
    OBVIOUS
  <2>2. Sound(x)
    BY <2>1 DEF LogoutInv
  <2>3. Sound(x)'
    BY <2>2, SoundStays
  <2> QED
    BY <2>1, <2>3 DEF Sound, Past
<1> QED
  BY <1>1 DEF LogoutInv

\* A request at an await of a token has one.
LEMMA TokenAt ==
    ASSUME LogoutInv, NEW r \in Requests,
           NEW pc \in {"revoked", "query", "account", "handler", "persist"}, S!At(r, pc)
    PROVE  session[r] \in TokenStates /\ session[r].pc = pc
<1>1. session[r] \in SessionStates /\ session[r].pc = pc
  BY DEF LogoutInv, S!At
<1> QED
  BY <1>1, StatesApart DEF SessionStates

\* A request that lets go of its token, or has none, shows nothing.
LEMMA SessionEnds ==
    ASSUME LogoutInv, NEW r \in Requests, NEW state \in LoginStates \cup {S!Idle},
           S!Become(r, state), Lasting, OutRecorded'
    PROVE  LogoutInv'
<1>1. state \in SessionStates /\ state.pc \in {"verify", "user", "idle"}
  BY StatesApart DEF SessionStates
<1>2. Sound(state)'
  BY <1>1 DEF Sound, Past
<1> QED
  BY <1>1, <1>2, SessionMoves

\* Every step of the logins, the requests, the clock and the process keeps the
\* invariant.
LEMMA LogoutStep == LogoutInv /\ [S!Next]_sessionVars => LogoutInv'
<1> SUFFICES ASSUME LogoutInv, [S!Next]_sessionVars PROVE LogoutInv'
  OBVIOUS
<1>1. OutRecorded
  BY DEF LogoutInv
<1>2. UNCHANGED S!tokenVars => Lasting /\ OutRecorded'
  BY <1>1 DEF S!tokenVars, Lasting, OutRecorded
<1>3. ASSUME UNCHANGED S!tokenVars, UNCHANGED session PROVE LogoutInv'
  BY <1>2, <1>3, SessionsStay
<1>4. ASSUME NEW r \in Requests, NEW state \in LoginStates \cup {S!Idle},
             S!Become(r, state), UNCHANGED S!tokenVars
      PROVE  LogoutInv'
  BY <1>2, <1>4, SessionEnds
<1>5. ASSUME NEW a \in Addresses, S!IssueChallenge(a) PROVE LogoutInv'
  BY <1>3, <1>5 DEF S!IssueChallenge, S!Store
<1>6. CASE S!Prune \/ \E a \in DOMAIN challenges : S!ChallengeExpires(a)
  BY <1>3, <1>6 DEF S!Prune, S!ChallengeExpires
<1>7. ASSUME NEW r \in Requests, NEW a \in Addresses, NEW c \in S!Challenges, S!Login(r, a, c)
      PROVE  LogoutInv'
  <2>1. [pc |-> "verify", address |-> a, challenge |-> c] \in LoginStates
    BY DEF LoginStates
  <2> QED
    BY <1>3, <1>4, <1>7, <2>1 DEF S!Login
<1>8. ASSUME NEW r \in Requests, S!Verified(r) PROVE LogoutInv'
  <2>1. [pc |-> "user"] \in LoginStates
    BY DEF LoginStates
  <2> QED
    BY <1>4, <1>8, <2>1 DEF S!Verified
<1>9. ASSUME NEW r \in Requests, S!IssueToken(r) PROVE LogoutInv'
  <2>1. Lasting /\ OutRecorded' /\ S!Become(r, S!Idle)
    BY <1>1, <1>9 DEF S!IssueToken, Lasting, OutRecorded
  <2> QED
    BY <2>1, SessionEnds
<1>10. ASSUME NEW r \in Requests, S!LoginFails(r) \/ S!Handle(r) PROVE LogoutInv'
  BY <1>4, <1>10 DEF S!LoginFails, S!Handle
<1>11. ASSUME NEW r \in Requests, NEW t \in S!Tokens, NEW logout \in BOOLEAN,
              S!Authenticate(r, t, logout)
       PROVE  LogoutInv'
  <2> DEFINE state == [pc |-> "revoked", token |-> t, logout |-> logout,
                       late |-> t \in out, blind |-> FALSE]
  <2>1. (t \in out) \in BOOLEAN
    OBVIOUS
  <2>2. state \in TokenStates
    BY <2>1 DEF TokenStates
  <2>3. state.pc = "revoked" /\ state.token = t /\ state.late = (t \in out)
    OBVIOUS
  <2>4. S!Become(r, state) /\ UNCHANGED S!tokenVars
    BY <1>11 DEF S!Authenticate
  <2> HIDE DEF state
  <2>5. PICK x \in TokenStates : x = state
    BY <2>2
  <2>6. Sound(x)'
    BY <2>3, <2>4, <2>5 DEF Sound, Past, S!tokenVars
  <2>7. x \in SessionStates /\ S!Become(r, x)
    BY <2>4, <2>5 DEF SessionStates
  <2> QED
    BY <1>2, <2>4, <2>6, <2>7, SessionMoves
<1>12. ASSUME NEW r \in Requests, S!LookInMemory(r) PROVE LogoutInv'
  <2>1. session[r] \in TokenStates /\ session[r].pc = "revoked" /\ Sound(session[r])
    BY <1>12, TokenAt DEF S!LookInMemory, LogoutInv
  <2>2. Lasting /\ OutRecorded'
    BY <1>1, <1>12 DEF S!LookInMemory, Lasting, OutRecorded
  <2>3. CASE session[r].token \in blacklist'
    <3>1. S!Become(r, S!Idle)
      BY <1>12, <2>3 DEF S!LookInMemory
    <3> QED
      BY <2>2, <3>1, SessionEnds
  <2>4. CASE session[r].token \notin blacklist'
    <3>1. PICK x : x = [session[r] EXCEPT !.pc = "query"]
      OBVIOUS
    <3>2. /\ x \in TokenStates /\ x.pc = "query" /\ x.token = session[r].token
          /\ x.late = session[r].late
      BY <2>1, <3>1 DEF TokenStates
    <3>3. x.late => x.token \in out
      BY <2>1, <3>2 DEF Sound, Past
    <3>4. x.late => x.token \in out' /\ x.token \in expired' \cup forgotten'
      BY <1>1, <1>12, <2>4, <3>2, <3>3 DEF S!LookInMemory, OutRecorded
    <3>5. Sound(x)'
      BY <3>2, <3>4 DEF Sound, Past
    <3>6. S!Become(r, x) /\ x \in SessionStates
      BY <1>12, <2>4, <3>1, <3>2 DEF S!LookInMemory, SessionStates
    <3> QED
      BY <2>2, <3>5, <3>6, SessionMoves
  <2> QED
    BY <2>3, <2>4
<1>13. ASSUME NEW r \in Requests, S!LookInTable(r) PROVE LogoutInv'
  <2>1. session[r] \in TokenStates /\ session[r].pc = "query" /\ Sound(session[r])
    BY <1>13, TokenAt DEF S!LookInTable, LogoutInv
  <2>2. Lasting /\ OutRecorded'
    BY <1>1, <1>13 DEF S!LookInTable, Lasting, OutRecorded
  <2>3. UNCHANGED <<out, expired, forgotten, unsaved>>
    BY <1>13 DEF S!LookInTable
  <2>4. session[r].late => /\ session[r].token \in expired \cup forgotten
                           /\ session[r].token \in rows \cup unsaved
    BY <1>1, <2>1 DEF Sound, Past, OutRecorded
  <2>5. ASSUME NEW x \in TokenStates, x.pc = "account", x.token = session[r].token,
               x.late = session[r].late, x.blind \/ x.token \notin rows \ expired,
               S!Become(r, x)
        PROVE  LogoutInv'
    <3>1. Sound(x)'
      BY <2>3, <2>4, <2>5 DEF Sound, Past
    <3>2. x \in SessionStates
      BY DEF SessionStates
    <3> QED
      BY <2>2, <2>5, <3>1, <3>2, SessionMoves
  <2>6. CASE S!Become(r, S!Idle)
    BY <2>2, <2>6, SessionEnds
  <2>7. CASE /\ session[r].token \notin rows \ expired
             /\ S!Become(r, [session[r] EXCEPT !.pc = "account"])
    <3>1. PICK x : x = [session[r] EXCEPT !.pc = "account"]
      OBVIOUS
    <3>2. /\ x \in TokenStates /\ x.pc = "account" /\ x.token = session[r].token
          /\ x.late = session[r].late
      BY <2>1, <3>1 DEF TokenStates
    <3> QED
      BY <2>5, <2>7, <3>1, <3>2
  <2>8. CASE S!Become(r, [session[r] EXCEPT !.pc = "account", !.blind = TRUE])
    <3>1. PICK x : x = [session[r] EXCEPT !.pc = "account", !.blind = TRUE]
      OBVIOUS
    <3>2. /\ x \in TokenStates /\ x.pc = "account" /\ x.token = session[r].token
          /\ x.late = session[r].late /\ x.blind
      BY <2>1, <3>1 DEF TokenStates
    <3> QED
      BY <2>5, <2>8, <3>1, <3>2
  <2> QED
    BY <1>13, <2>6, <2>7, <2>8 DEF S!LookInTable
<1>14. ASSUME NEW r \in Requests, S!CheckAccount(r) PROVE LogoutInv'
  <2>1. session[r] \in TokenStates /\ session[r].pc = "account" /\ Sound(session[r])
    BY <1>14, TokenAt DEF S!CheckAccount, LogoutInv
  <2>2. UNCHANGED S!tokenVars
    BY <1>14 DEF S!CheckAccount
  <2>3. CASE S!Become(r, S!Idle)
    BY <1>4, <2>2, <2>3
  <2>4. CASE S!Become(r, [session[r] EXCEPT !.pc = "handler"])
    <3>1. PICK x : x = [session[r] EXCEPT !.pc = "handler"]
      OBVIOUS
    <3>2. /\ x \in TokenStates /\ x.pc = "handler" /\ x.token = session[r].token
          /\ x.late = session[r].late /\ x.blind = session[r].blind
      BY <2>1, <3>1 DEF TokenStates
    <3>3. Sound(x)'
      BY <2>1, <2>2, <3>2 DEF Sound, Past, S!tokenVars
    <3> QED
      BY <1>2, <2>2, <2>4, <3>1, <3>2, <3>3, SessionMoves DEF SessionStates
  <2> QED
    BY <1>14, <2>3, <2>4 DEF S!CheckAccount
<1>15. ASSUME NEW r \in Requests, S!Logout(r) PROVE LogoutInv'
  <2>1. session[r] \in TokenStates /\ session[r].pc = "handler" /\ Sound(session[r])
    BY <1>15, TokenAt DEF S!Logout, LogoutInv
  <2>2. Lasting /\ OutRecorded'
    BY <1>1, <1>15 DEF S!Logout, Lasting, OutRecorded
  <2>3. PICK x : x = [session[r] EXCEPT !.pc = "persist"]
    OBVIOUS
  <2>4. /\ x \in TokenStates /\ x.pc = "persist" /\ x.token = session[r].token
        /\ x.late = session[r].late /\ x.blind = session[r].blind
    BY <2>1, <2>3 DEF TokenStates
  <2>5. Sound(x)'
    BY <1>15, <2>1, <2>4 DEF S!Logout, Sound, Past
  <2> QED
    BY <1>15, <2>2, <2>3, <2>4, <2>5, SessionMoves DEF SessionStates, S!Logout
<1>16. ASSUME NEW r \in Requests, S!Persist(r) PROVE LogoutInv'
  <2>1. session[r] \in TokenStates /\ session[r].pc = "persist" /\ Sound(session[r])
    BY <1>16, TokenAt DEF S!Persist, LogoutInv
  <2>2. session[r].token \in blacklist \cup expired
    BY <2>1 DEF Sound, Past
  <2>3. Lasting /\ S!Become(r, S!Idle)
    BY <1>16 DEF S!Persist, Lasting
  <2>4. OutRecorded'
    BY <1>1, <1>16, <2>2 DEF S!Persist, OutRecorded
  <2> QED
    BY <2>3, <2>4, SessionEnds
<1>17. ASSUME NEW t \in S!Tokens, S!TokenExpires(t) PROVE LogoutInv'
  <2>1. Lasting /\ OutRecorded' /\ UNCHANGED session
    BY <1>1, <1>17 DEF S!TokenExpires, Lasting, OutRecorded
  <2> QED
    BY <2>1, SessionsStay
<1>18. CASE S!Restart
  <2>1. session' \in [Requests -> SessionStates] /\ \A r \in Requests : session'[r] = S!Idle
    BY <1>18 DEF S!Restart, SessionStates
  <2>2. \A r \in Requests : Sound(session[r])'
    BY <2>1, StatesApart DEF Sound, Past
  <2>3. OutRecorded'
    BY <1>1, <1>18 DEF S!Restart, OutRecorded
  <2> QED
    BY <2>1, <2>2, <2>3 DEF LogoutInv
<1>19. CASE UNCHANGED sessionVars
  BY <1>3, <1>19 DEF sessionVars, S!tokenVars
<1> QED
  BY <1>5, <1>6, <1>7, <1>8, <1>9, <1>10, <1>11, <1>12, <1>13, <1>14, <1>15, <1>16, <1>17,
     <1>18, <1>19 DEF S!Next

\* So it always holds.
LEMMA LogoutInvHolds == Spec => []LogoutInv
<1>1. Init => LogoutInv
  BY LogoutInit DEF Init
<1>2. LogoutInv /\ [Next]_vars => LogoutInv'
  BY LogoutStep, UserParts
<1> QED
  BY <1>1, <1>2, PTL DEF Spec

\* A request sent after the answer to its token's logout reaches a handler only
\* past an expiry, or past a restart together with a failure of the table.
THEOREM LogoutHoldsAlways == Spec => []LogoutHolds
<1>1. LogoutInv => LogoutHolds
  <2> SUFFICES ASSUME LogoutInv, NEW r \in Requests, S!At(r, "handler"), session[r].late
               PROVE  \/ session[r].token \in expired
                      \/ /\ session[r].token \in forgotten
                         /\ session[r].token \in unsaved \/ session[r].blind
    BY DEF LogoutHolds, S!LogoutHolds
  <2>1. session[r] \in TokenStates /\ session[r].pc = "handler"
    BY TokenAt
  <2> QED
    BY <2>1 DEF LogoutInv, Sound, Past
<1> QED
  BY <1>1, LogoutInvHolds, PTL

-----------------------------------------------------------------------------
(* Logging in: the challenges.                                             *)

Entries == [challenge : Nat, live : BOOLEAN, since : Nat]

ChallengesTypeOK ==
    /\ session \in [Requests -> SessionStates]
    /\ issued \in 0 .. MaxIssued
    /\ accepted \in [S!Challenges -> Nat]
    /\ challenges \in [DOMAIN challenges -> Entries]
    /\ IsFiniteSet(DOMAIN challenges)

\* A challenge is stored for one address, and no more once it was accepted.
StoredOnce ==
    /\ \A a \in DOMAIN challenges : challenges[a].challenge <= issued
    /\ \A a, b \in DOMAIN challenges :
           challenges[a].challenge = challenges[b].challenge => a = b
    /\ \A c \in S!Challenges : accepted[c] > 0 =>
           c <= issued /\ \A a \in DOMAIN challenges : challenges[a].challenge # c

\* A login whose signature is being verified will delete its own challenge.
Fresh(x) ==
    x.pc = "verify" =>
        /\ x.challenge <= issued
        /\ \A a \in DOMAIN challenges :
               challenges[a].challenge = x.challenge => a = x.address

ChallengesInv ==
    /\ ChallengesTypeOK /\ StoredOnce
    /\ \A r \in Requests : Fresh(session[r])
    /\ Cardinality(DOMAIN challenges) <= MaxChallenges

\* No challenge was issued.
LEMMA ChallengesInit == S!Init => ChallengesInv
<1> SUFFICES ASSUME S!Init PROVE ChallengesInv
  OBVIOUS
<1>1. DOMAIN challenges = {}
  BY DEF S!Init
<1>2. IsFiniteSet(DOMAIN challenges) /\ Cardinality(DOMAIN challenges) = 0
  BY <1>1, FS_EmptySet
<1>3. challenges \in [DOMAIN challenges -> Entries]
  BY <1>1 DEF S!Init
<1>4. issued = 0 /\ issued \in 0 .. MaxIssued /\ MaxChallenges \in Nat
  BY ServicesAssumption DEF S!Init
<1>5. /\ session \in [Requests -> SessionStates] /\ \A r \in Requests : session[r] = S!Idle
      /\ accepted \in [S!Challenges -> Nat] /\ \A c \in S!Challenges : accepted[c] = 0
  BY DEF S!Init, SessionStates
<1>6. ChallengesTypeOK
  BY <1>2, <1>3, <1>4, <1>5 DEF ChallengesTypeOK
<1>7. StoredOnce
  BY <1>1, <1>5 DEF StoredOnce
<1>8. \A r \in Requests : Fresh(session[r])
  BY <1>5, StatesApart DEF Fresh
<1> QED
  BY <1>2, <1>4, <1>6, <1>7, <1>8 DEF ChallengesInv

\* The address that a full store loses is one it holds.
LEMMA OldestStored ==
    ASSUME ChallengesTypeOK, DOMAIN challenges # {}
    PROVE  S!Oldest \in DOMAIN challenges
<1> DEFINE since == {challenges[a].since : a \in DOMAIN challenges}
<1>1. since \subseteq Nat /\ since # {}
  BY DEF ChallengesTypeOK, Entries
<1>2. PICK n \in since : \A m \in since : ~ (<<m, n>> \in OpToRel(<, Nat))
  BY <1>1, NatLessThanWellFounded, WFMin
<1>3. \A m \in since : n <= m
  <2>1. OpToRel(<, Nat) = {ss \in Nat \X Nat : ss[1] < ss[2]}
    BY DEF OpToRel
  <2>2. ASSUME NEW m \in since PROVE n <= m
    <3>1. m \in Nat /\ n \in Nat
      BY <1>1
    <3>2. CASE m < n
      <4>1. <<m, n>> \in {ss \in Nat \X Nat : ss[1] < ss[2]}
        BY <3>1, <3>2
      <4> QED
        BY <1>2, <2>1, <4>1
    <3> QED
      BY ONLY <3>1, <3>2
  <2> QED
    BY <2>2
<1>4. PICK a \in DOMAIN challenges : n = challenges[a].since
  BY <1>2
<1>5. \A b \in DOMAIN challenges : challenges[a].since <= challenges[b].since
  BY <1>3, <1>4
<1> QED
  BY <1>4, <1>5 DEF S!Oldest

\* A store that only loses challenges, or their liveness.
LEMMA ChallengesLeave ==
    ASSUME ChallengesInv, UNCHANGED <<issued, accepted>>,
           challenges' \in [DOMAIN challenges' -> Entries],
           DOMAIN challenges' \subseteq DOMAIN challenges,
           \A a \in DOMAIN challenges' : challenges'[a].challenge = challenges[a].challenge,
           session' \in [Requests -> SessionStates],
           \A r \in Requests : session'[r] = session[r] \/ Fresh(session[r])'
    PROVE  ChallengesInv'
<1>1. /\ IsFiniteSet(DOMAIN challenges') /\ Cardinality(DOMAIN challenges') \in Nat
      /\ Cardinality(DOMAIN challenges) \in Nat
      /\ Cardinality(DOMAIN challenges') <= Cardinality(DOMAIN challenges)
  BY FS_Subset, FS_CardinalityType DEF ChallengesInv, ChallengesTypeOK
<1>2. ChallengesTypeOK'
  BY <1>1 DEF ChallengesInv, ChallengesTypeOK
<1>3. StoredOnce'
  BY DEF ChallengesInv, StoredOnce
<1>4. \A r \in Requests : Fresh(session[r])'
  BY DEF ChallengesInv, Fresh
<1>5. Cardinality(DOMAIN challenges') <= MaxChallenges
  <2>1. Cardinality(DOMAIN challenges) <= MaxChallenges /\ MaxChallenges \in Nat
    BY ServicesAssumption DEF ChallengesInv
  <2> QED
    BY ONLY <1>1, <2>1
<1> QED
  BY <1>2, <1>3, <1>4, <1>5 DEF ChallengesInv

\* A step that leaves the store and what was accepted alone.
LEMMA StoreStays ==
    ASSUME ChallengesInv, UNCHANGED <<challenges, issued, accepted>>,
           session' \in [Requests -> SessionStates],
           \A r \in Requests : session'[r] = session[r] \/ session'[r].pc # "verify"
    PROVE  ChallengesInv'
<1>1. challenges' \in [DOMAIN challenges' -> Entries]
  BY DEF ChallengesInv, ChallengesTypeOK
<1>2. \A r \in Requests : session'[r] = session[r] \/ Fresh(session[r])'
  BY DEF Fresh
<1> QED
  BY <1>1, <1>2, ChallengesLeave

\* A challenge is issued: a number of its own, in a store that had or made room.
LEMMA StoreKeeps ==
    ASSUME ChallengesInv, NEW a \in Addresses, S!IssueChallenge(a) PROVE ChallengesInv'
<1>1. PICK kept : /\ kept \subseteq DOMAIN challenges /\ S!Store(a, kept)
                  /\ Cardinality(kept) < MaxChallenges /\ IsFiniteSet(kept)
  <2>1. /\ IsFiniteSet(DOMAIN challenges) /\ MaxChallenges \in Nat \ {0}
        /\ Cardinality(DOMAIN challenges) \in Nat
        /\ Cardinality(DOMAIN challenges) <= MaxChallenges
    BY ServicesAssumption, FS_CardinalityType DEF ChallengesInv, ChallengesTypeOK
  <2>2. CASE Cardinality(DOMAIN challenges) >= MaxChallenges
    <3>1. DOMAIN challenges # {}
      BY <2>1, <2>2, FS_EmptySet
    <3>2. S!Oldest \in DOMAIN challenges
      BY <3>1, OldestStored DEF ChallengesInv
    <3>3. /\ IsFiniteSet(DOMAIN challenges \ {S!Oldest})
          /\ Cardinality(DOMAIN challenges \ {S!Oldest}) = Cardinality(DOMAIN challenges) - 1
      BY <2>1, <3>2, FS_RemoveElement
    <3>4. Cardinality(DOMAIN challenges \ {S!Oldest}) < MaxChallenges
      BY ONLY <2>1, <3>3
    <3>5. S!Store(a, DOMAIN challenges \ {S!Oldest})
      BY <2>2 DEF S!IssueChallenge, S!Cardinality, Cardinality
    <3> QED
      BY <3>3, <3>4, <3>5
  <2>3. CASE ~ (Cardinality(DOMAIN challenges) >= MaxChallenges)
    <3>1. S!Store(a, DOMAIN challenges)
      BY <2>3 DEF S!IssueChallenge, S!Cardinality, Cardinality
    <3> QED
      BY <2>1, <2>3, <3>1
  <2> QED
    BY <2>2, <2>3
<1>2. /\ issued \in Nat /\ issued' = issued + 1 /\ issued' \in 0 .. MaxIssued
      /\ UNCHANGED <<accepted, session>>
  BY <1>1, ServicesAssumption DEF S!Store, ChallengesInv, ChallengesTypeOK
<1>3. DOMAIN challenges' = kept \cup {a}
  BY <1>1 DEF S!Store
<1>4. \A b \in kept \cup {a} : b # a => b \in DOMAIN challenges /\ challenges'[b] = challenges[b]
  BY <1>1 DEF S!Store
<1>5. challenges'[a] = [challenge |-> issued + 1, live |-> TRUE,
                        since |-> IF a \in kept THEN challenges[a].since ELSE issued + 1]
  BY <1>1 DEF S!Store
<1>6. challenges'[a].challenge = issued + 1 /\ challenges'[a] \in Entries
  <2>1. (IF a \in kept THEN challenges[a].since ELSE issued + 1) \in Nat
    BY <1>1, <1>2 DEF ChallengesInv, ChallengesTypeOK, Entries
  <2> QED
    BY <1>2, <1>5, <2>1 DEF Entries
<1>7. challenges' \in [DOMAIN challenges' -> Entries]
  <2>1. challenges' = [b \in kept \cup {a} |-> challenges'[b]]
    BY <1>1 DEF S!Store
  <2>2. \A b \in kept \cup {a} : challenges'[b] \in Entries
    BY <1>4, <1>6 DEF ChallengesInv, ChallengesTypeOK
  <2> QED
    BY <1>3, <2>1, <2>2
<1>8. /\ IsFiniteSet(DOMAIN challenges')
      /\ Cardinality(DOMAIN challenges') <= MaxChallenges
  <2>1. /\ IsFiniteSet(kept \cup {a}) /\ Cardinality(kept) \in Nat
        /\ Cardinality(kept \cup {a}) \in Nat
        /\ Cardinality(kept \cup {a}) <= Cardinality(kept) + 1
    BY <1>1, OneMore
  <2>2. Cardinality(kept \cup {a}) <= MaxChallenges
    BY <1>1, <2>1, ServicesAssumption
  <2> QED
    BY <1>3, <2>1, <2>2
<1>9. ChallengesTypeOK'
  BY <1>2, <1>7, <1>8 DEF ChallengesInv, ChallengesTypeOK
<1>10. \A b \in DOMAIN challenges :
           challenges[b].challenge \in Nat /\ challenges[b].challenge <= issued
  BY DEF ChallengesInv, ChallengesTypeOK, StoredOnce, Entries
<1>11. \A c \in S!Challenges : accepted[c] > 0 => c <= issued /\ c \in Int
  BY DEF ChallengesInv, StoredOnce, S!Challenges
<1>12. StoredOnce'
  <2>1. \A b \in DOMAIN challenges' : challenges'[b].challenge <= issued'
    BY <1>2, <1>3, <1>4, <1>6, <1>10
  <2>2. ASSUME NEW b \in DOMAIN challenges', NEW d \in DOMAIN challenges',
               challenges'[b].challenge = challenges'[d].challenge
        PROVE  b = d
    <3>1. \A e \in DOMAIN challenges' : e # a => challenges'[e].challenge # issued + 1
      BY <1>2, <1>3, <1>4, <1>10
    <3>2. CASE b = a \/ d = a
      BY <1>6, <2>2, <3>1, <3>2
    <3>3. CASE b # a /\ d # a
      BY <1>3, <1>4, <2>2, <3>3 DEF ChallengesInv, StoredOnce
    <3> QED
      BY <3>2, <3>3
  <2>3. ASSUME NEW c \in S!Challenges, accepted'[c] > 0
        PROVE  c <= issued' /\ \A b \in DOMAIN challenges' : challenges'[b].challenge # c
    <3>1. accepted[c] > 0 /\ c <= issued /\ c \in Int
      BY <1>2, <1>11, <2>3
    <3>2. \A b \in DOMAIN challenges : challenges[b].challenge # c
      BY <3>1 DEF ChallengesInv, StoredOnce
    <3> QED
      BY <1>2, <1>3, <1>4, <1>6, <3>1, <3>2
  <2> QED
    BY <2>1, <2>2, <2>3 DEF StoredOnce
<1>13. ASSUME NEW r \in Requests PROVE Fresh(session[r])'
  <2>1. SUFFICES ASSUME session[r].pc = "verify"
                 PROVE  /\ session[r].challenge <= issued + 1
                        /\ \A b \in DOMAIN challenges' :
                             challenges'[b].challenge = session[r].challenge =>
                                 b = session[r].address
    BY <1>2 DEF Fresh
  <2>2. session[r] \in LoginStates
    BY <2>1, StatesApart DEF ChallengesInv, ChallengesTypeOK, SessionStates
  <2>3. session[r].challenge \in Int /\ session[r].challenge <= issued
    BY <2>1, <2>2 DEF LoginStates, S!Challenges, ChallengesInv, Fresh
  <2>4. \A b \in DOMAIN challenges :
            challenges[b].challenge = session[r].challenge => b = session[r].address
    BY <2>1 DEF ChallengesInv, Fresh
  <2> QED
    BY <1>2, <1>3, <1>4, <1>6, <2>3, <2>4
<1> QED
  BY <1>8, <1>9, <1>12, <1>13 DEF ChallengesInv

\* Every step of the logins, the requests, the clock and the process keeps the
\* invariant.
LEMMA ChallengesStep ==
    ChallengesInv /\ LogoutInv' /\ [S!Next]_sessionVars => ChallengesInv'
<1> SUFFICES ASSUME ChallengesInv, LogoutInv', [S!Next]_sessionVars PROVE ChallengesInv'
  OBVIOUS
<1>1. session \in [Requests -> SessionStates] /\ session' \in [Requests -> SessionStates]
  BY DEF ChallengesInv, ChallengesTypeOK, LogoutInv
<1>2. ASSUME NEW r \in Requests, NEW state, S!Become(r, state), state.pc # "verify",
             UNCHANGED <<challenges, issued, accepted>>
      PROVE  ChallengesInv'
  BY <1>1, <1>2, StoreStays DEF S!Become
<1>3. ASSUME NEW a \in DOMAIN challenges, S!ChallengeExpires(a) PROVE ChallengesInv'
  <2>1. /\ DOMAIN challenges' = DOMAIN challenges
        /\ \A b \in DOMAIN challenges : challenges'[b].challenge = challenges[b].challenge
        /\ challenges' \in [DOMAIN challenges -> Entries]
    BY <1>3 DEF S!ChallengeExpires, ChallengesInv, ChallengesTypeOK, Entries
  <2>2. UNCHANGED <<issued, accepted, session>>
    BY <1>3 DEF S!ChallengeExpires
  <2> QED
    BY <1>1, <2>1, <2>2, ChallengesLeave
<1>4. ASSUME NEW kept \in SUBSET DOMAIN challenges, challenges' = S!Restrict(challenges, kept)
      PROVE  /\ DOMAIN challenges' = kept
             /\ \A b \in kept : challenges'[b] = challenges[b]
             /\ challenges' \in [DOMAIN challenges' -> Entries]
  BY <1>4 DEF S!Restrict, ChallengesInv, ChallengesTypeOK
<1>5. CASE S!Prune
  <2>1. PICK kept \in SUBSET DOMAIN challenges : challenges' = S!Restrict(challenges, kept)
    BY <1>5 DEF S!Prune
  <2>2. UNCHANGED <<issued, accepted, session>>
    BY <1>5 DEF S!Prune
  <2> QED
    BY <1>1, <1>4, <2>1, <2>2, ChallengesLeave
<1>6. ASSUME NEW r \in Requests, NEW a \in Addresses, NEW c \in S!Challenges, S!Login(r, a, c)
      PROVE  ChallengesInv'
  <2>1. a \in DOMAIN challenges /\ challenges[a].challenge = c /\ UNCHANGED <<issued, accepted>>
    BY <1>6 DEF S!Login
  <2>2. CASE ~ challenges[a].live
    <3>1. PICK kept \in SUBSET DOMAIN challenges : challenges' = S!Restrict(challenges, kept)
      BY <1>6, <2>2 DEF S!Login, S!Without
    <3>2. UNCHANGED session
      BY <1>6, <2>2 DEF S!Login
    <3> QED
      BY <1>1, <1>4, <2>1, <3>1, <3>2, ChallengesLeave
  <2>3. CASE challenges[a].live
    <3>1. PICK state : state = [pc |-> "verify", address |-> a, challenge |-> c]
      OBVIOUS
    <3>2. S!Become(r, state) /\ UNCHANGED challenges
      BY <1>6, <2>3, <3>1 DEF S!Login
    <3>3. session'[r] = state /\ \A q \in Requests : q # r => session'[q] = session[q]
      BY <1>1, <3>2 DEF S!Become
    <3>4. Fresh(session[r])'
      <4>1. c <= issued' /\ \A b \in DOMAIN challenges : challenges[b].challenge = c => b = a
        BY <2>1 DEF ChallengesInv, StoredOnce
      <4> QED
        BY <3>1, <3>2, <3>3, <4>1 DEF Fresh
    <3>5. challenges' \in [DOMAIN challenges' -> Entries]
      BY <3>2 DEF ChallengesInv, ChallengesTypeOK
    <3> QED
      BY <1>1, <2>1, <3>2, <3>3, <3>4, <3>5, ChallengesLeave
  <2> QED
    BY <2>2, <2>3
<1>7. ASSUME NEW r \in Requests, S!Verified(r) PROVE ChallengesInv'
  <2>1. session[r] \in LoginStates /\ session[r].pc = "verify" /\ Fresh(session[r])
    BY <1>1, <1>7, StatesApart DEF S!Verified, S!At, SessionStates, ChallengesInv
  <2>2. PICK c \in S!Challenges, a \in Addresses :
            session[r].challenge = c /\ session[r].address = a
    BY <2>1 DEF LoginStates
  <2>3. /\ accepted' = [accepted EXCEPT ![c] = @ + 1] /\ UNCHANGED issued
        /\ challenges' = S!Restrict(challenges, DOMAIN challenges \ {a})
        /\ S!Become(r, [pc |-> "user"])
    BY <1>7, <2>2 DEF S!Verified, S!Without
  <2>4. /\ DOMAIN challenges' = DOMAIN challenges \ {a}
        /\ \A b \in DOMAIN challenges' : challenges'[b] = challenges[b]
        /\ challenges' \in [DOMAIN challenges' -> Entries]
    BY <1>4, <2>3
  <2>5. c <= issued /\ \A b \in DOMAIN challenges' : challenges'[b].challenge # c
    BY <2>1, <2>2, <2>4 DEF Fresh
  <2>6. /\ accepted' \in [S!Challenges -> Nat]
        /\ \A d \in S!Challenges : d # c => accepted'[d] = accepted[d]
    BY <2>3 DEF ChallengesInv, ChallengesTypeOK
  <2>7. /\ IsFiniteSet(DOMAIN challenges') /\ Cardinality(DOMAIN challenges') \in Nat
        /\ Cardinality(DOMAIN challenges) \in Nat
        /\ Cardinality(DOMAIN challenges') <= Cardinality(DOMAIN challenges)
    BY <2>4, FS_Subset, FS_CardinalityType DEF ChallengesInv, ChallengesTypeOK
  <2>8. Cardinality(DOMAIN challenges') <= MaxChallenges
    <3>1. Cardinality(DOMAIN challenges) <= MaxChallenges /\ MaxChallenges \in Nat
      BY ServicesAssumption DEF ChallengesInv
    <3> QED
      BY ONLY <2>7, <3>1
  <2>9. StoredOnce'
    <3>1. /\ \A b \in DOMAIN challenges' : challenges'[b].challenge <= issued'
          /\ \A b, d \in DOMAIN challenges' :
                 challenges'[b].challenge = challenges'[d].challenge => b = d
      BY <2>3, <2>4 DEF ChallengesInv, StoredOnce
    <3>2. ASSUME NEW d \in S!Challenges, accepted'[d] > 0
          PROVE  d <= issued' /\ \A b \in DOMAIN challenges' : challenges'[b].challenge # d
      <4>1. CASE d = c
        BY <2>3, <2>5, <4>1
      <4>2. CASE d # c
        BY <2>3, <2>4, <2>6, <3>2, <4>2 DEF ChallengesInv, StoredOnce
      <4> QED
        BY <4>1, <4>2
    <3> QED
      BY <3>1, <3>2 DEF StoredOnce
  <2>10. session'[r].pc = "user" /\ \A q \in Requests : q # r => session'[q] = session[q]
    BY <1>1, <2>3 DEF S!Become
  <2>11. \A q \in Requests : Fresh(session[q])'
    BY <2>3, <2>4, <2>10 DEF ChallengesInv, Fresh
  <2>12. ChallengesTypeOK'
    BY <1>1, <2>3, <2>4, <2>6, <2>7 DEF ChallengesInv, ChallengesTypeOK
  <2> QED
    BY <2>8, <2>9, <2>11, <2>12 DEF ChallengesInv
<1>8. ASSUME NEW r \in Requests, S!IssueToken(r) \/ S!LoginFails(r) \/ S!Handle(r) \/ S!Persist(r)
      PROVE  ChallengesInv'
  BY <1>2, <1>8, StatesApart DEF S!IssueToken, S!LoginFails, S!Handle, S!Persist, S!Idles
<1>9. ASSUME NEW r \in Requests, NEW t \in S!Tokens, NEW logout \in BOOLEAN,
             S!Authenticate(r, t, logout)
      PROVE  ChallengesInv'
  BY <1>2, <1>9 DEF S!Authenticate, S!Idles
<1>10. ASSUME NEW r \in Requests, S!LookInMemory(r) \/ S!LookInTable(r) \/ S!CheckAccount(r)
                                      \/ S!Logout(r)
       PROVE  ChallengesInv'
  <2>1. UNCHANGED <<challenges, issued, accepted>>
    BY <1>10 DEF S!LookInMemory, S!LookInTable, S!CheckAccount, S!Logout, S!Idles
  <2>2. session[r].pc \in {"revoked", "query", "account", "handler"}
    BY <1>10 DEF S!LookInMemory, S!LookInTable, S!CheckAccount, S!Logout, S!At
  <2>3. session[r] \in TokenStates
    BY <1>1, <2>2, StatesApart DEF SessionStates
  <2>4. \E pc \in {"query", "account", "handler", "persist"} :
            \/ S!Become(r, S!Idle)
            \/ S!Become(r, [session[r] EXCEPT !.pc = pc])
            \/ S!Become(r, [session[r] EXCEPT !.pc = pc, !.blind = TRUE])
    BY <1>10 DEF S!LookInMemory, S!LookInTable, S!CheckAccount, S!Logout
  <2>5. PICK pc \in {"query", "account", "handler", "persist"} :
            \/ S!Become(r, S!Idle)
            \/ S!Become(r, [session[r] EXCEPT !.pc = pc])
            \/ S!Become(r, [session[r] EXCEPT !.pc = pc, !.blind = TRUE])
    BY <2>4
  <2>6. /\ [session[r] EXCEPT !.pc = pc].pc # "verify"
        /\ [session[r] EXCEPT !.pc = pc, !.blind = TRUE].pc # "verify"
    BY <2>3 DEF TokenStates
  <2> QED
    BY <1>2, <2>1, <2>5, <2>6, StatesApart
<1>11. ASSUME NEW t \in S!Tokens, S!TokenExpires(t) PROVE ChallengesInv'
  BY <1>1, <1>11, StoreStays DEF S!TokenExpires, S!Idles
<1>12. CASE S!Restart
  <2>1. /\ challenges' \in [DOMAIN challenges' -> Entries] /\ DOMAIN challenges' = {}
        /\ UNCHANGED <<issued, accepted>>
        /\ \A r \in Requests : session'[r] = S!Idle
    BY <1>12 DEF S!Restart
  <2>2. \A r \in Requests : Fresh(session[r])'
    BY <2>1, StatesApart DEF Fresh
  <2> QED
    BY <1>1, <2>1, <2>2, ChallengesLeave
<1>13. CASE UNCHANGED sessionVars
  BY <1>1, <1>13, StoreStays DEF sessionVars
<1> QED
  BY <1>3, <1>5, <1>6, <1>7, <1>8, <1>9, <1>10, <1>11, <1>12, <1>13, StoreKeeps DEF S!Next

\* So it always holds.
LEMMA ChallengesHold == Spec => []ChallengesInv
<1>1. Init => ChallengesInv
  BY ChallengesInit DEF Init
<1>2. ChallengesInv /\ LogoutInv' /\ [Next]_vars => ChallengesInv'
  BY ChallengesStep, UserParts
<1> QED
  BY <1>1, <1>2, LogoutInvHolds, PTL DEF Spec

\* The memory for challenges stays within its limit, whoever asks for them.
THEOREM ChallengesBoundedHolds == Spec => []ChallengesBounded
<1>1. ChallengesInv => ChallengesBounded
  BY DEF ChallengesInv, ChallengesBounded, S!ChallengesBounded, S!Cardinality, Cardinality
<1> QED
  BY <1>1, ChallengesHold, PTL

\* A challenge that was accepted is accepted again only by a login that had
\* passed its checks before: nothing brings it back.
THEOREM ChallengeSpentHolds == Spec => ChallengeSpent
<1> DEFINE Spent == \A c \in S!Challenges :
        /\ accepted[c] > 0
        /\ \A r \in Requests : ~ (S!At(r, "verify") /\ session[r].challenge = c)
        => \A r \in Requests : ~ (session'[r].pc = "verify" /\ session'[r].challenge = c)
<1>1. ChallengesInv /\ [S!Next]_sessionVars => [Spent]_sessionVars
  <2> SUFFICES ASSUME ChallengesInv, [S!Next]_sessionVars, NEW c \in S!Challenges,
                      accepted[c] > 0,
                      \A r \in Requests : ~ (S!At(r, "verify") /\ session[r].challenge = c),
                      NEW r \in Requests, session'[r].pc = "verify",
                      session'[r].challenge = c
               PROVE  FALSE
    OBVIOUS
  <2>1. session \in [Requests -> SessionStates]
    BY DEF ChallengesInv, ChallengesTypeOK
  <2>2. session'[r] # session[r]
    BY DEF S!At
  <2>3. PICK a \in Addresses, d \in S!Challenges : S!Login(r, a, d)
    <3>1. S!Next
      BY <2>2 DEF sessionVars
    <3>2. ASSUME NEW q \in Requests, NEW state, S!Become(q, state), state.pc # "verify"
          PROVE  FALSE
      BY <2>1, <2>2, <3>2 DEF S!Become
    <3>3. ASSUME NEW q \in Requests,
                 \/ S!LookInMemory(q) \/ S!LookInTable(q) \/ S!CheckAccount(q) \/ S!Logout(q)
          PROVE  FALSE
      <4>1. session[q].pc \in {"revoked", "query", "account", "handler"}
        BY <3>3 DEF S!LookInMemory, S!LookInTable, S!CheckAccount, S!Logout, S!At
      <4>2. session[q] \in TokenStates
        BY <2>1, <4>1, StatesApart DEF SessionStates
      <4>3. PICK pc \in {"query", "account", "handler", "persist"} :
                \/ S!Become(q, S!Idle)
                \/ S!Become(q, [session[q] EXCEPT !.pc = pc])
                \/ S!Become(q, [session[q] EXCEPT !.pc = pc, !.blind = TRUE])
        BY <3>3 DEF S!LookInMemory, S!LookInTable, S!CheckAccount, S!Logout
      <4>4. /\ [session[q] EXCEPT !.pc = pc].pc # "verify"
            /\ [session[q] EXCEPT !.pc = pc, !.blind = TRUE].pc # "verify"
        BY <4>2 DEF TokenStates
      <4> QED
        BY <3>2, <4>3, <4>4, StatesApart
    <3>4. ASSUME NEW q \in Requests,
                 \/ S!Verified(q) \/ S!IssueToken(q) \/ S!LoginFails(q) \/ S!Handle(q)
                 \/ S!Persist(q)
          PROVE  FALSE
      BY <3>2, <3>4, StatesApart DEF S!Verified, S!IssueToken, S!LoginFails, S!Handle, S!Persist
    <3>5. ASSUME NEW q \in Requests, NEW t \in S!Tokens, NEW logout \in BOOLEAN,
                 S!Authenticate(q, t, logout)
          PROVE  FALSE
      BY <3>2, <3>5 DEF S!Authenticate
    <3>6. ASSUME NEW q \in Requests, NEW a \in Addresses, NEW d \in S!Challenges,
                 S!Login(q, a, d)
          PROVE  q = r
      <4>1. UNCHANGED session \/ \E state : S!Become(q, state)
        BY <3>6 DEF S!Login
      <4> QED
        BY <2>1, <2>2, <4>1 DEF S!Become
    <3>7. ~ UNCHANGED session
      BY <2>2
    <3>8. /\ ~ S!Prune
          /\ \A a \in Addresses : ~ S!IssueChallenge(a)
          /\ \A a \in DOMAIN challenges : ~ S!ChallengeExpires(a)
          /\ \A t \in S!Tokens : ~ S!TokenExpires(t)
      BY <3>7 DEF S!Prune, S!IssueChallenge, S!Store, S!ChallengeExpires, S!TokenExpires
    <3>9. ~ S!Restart
      BY StatesApart DEF S!Restart
    <3> QED
      BY <3>1, <3>3, <3>4, <3>5, <3>6, <3>8, <3>9 DEF S!Next
  <2>4. a \in DOMAIN challenges /\ challenges[a].challenge = d
    BY <2>3 DEF S!Login
  <2>5. d = c
    <3>1. S!Become(r, [pc |-> "verify", address |-> a, challenge |-> d])
      BY <2>2, <2>3 DEF S!Login
    <3> QED
      BY <2>1, <3>1 DEF S!Become
  <2> QED
    BY <2>4, <2>5 DEF ChallengesInv, StoredOnce
<1>2. ChallengesInv /\ [Next]_vars => [Spent]_sessionVars
  BY <1>1, UserParts
<1> QED
  BY <1>2, ChallengesHold, PTL DEF Spec, ChallengeSpent, S!ChallengeSpent, S!vars, S!tokenVars,
     sessionVars

-----------------------------------------------------------------------------
(* The limits on new trades and the monthly volume.                        *)

Standings == {"standing", "ended", "again"}

JobStates ==
    [pc : {"limits", "volume", "cap", "insert"}] \cup [pc : {"record"}, total : Nat]

IntakeTypeOK ==
    /\ trades \in Seq(Standings)
    /\ volume \in Nat
    /\ locks \in Seq(Requests)
    /\ job \in [Requests -> JobStates \cup {I!Idle}]

Waiting(pcs) == {r \in Requests : job[r].pc \in pcs}

Queue == {"volume", "record"}

\* The awaits between the check of the daily limit and the trade it allowed.
Passed == {"volume", "record", "cap", "insert"}

\* The awaits between the record of the volume and the trade it is for.
Recorded == {"cap", "insert"}

\* A request is in the queue once, and as long as it is at the awaits under the
\* lock; and only the first has read the volume, which nobody changed since.
QueueOK ==
    /\ \A i, j \in 1 .. Len(locks) : locks[i] = locks[j] => i = j
    /\ \A r \in Requests : r \in Waiting(Queue) <=> \E i \in 1 .. Len(locks) : locks[i] = r
    /\ \A r \in Requests : job[r].pc = "record" => locks[1] = r /\ job[r].total = volume

VolumeCounted ==
    /\ Len(trades) + Cardinality(Waiting(Recorded)) <= volume
    /\ enforced => volume <= MonthlyCeiling

\* The trades that the daily limits have counted ever since they began.
Live == I!With({"standing"})

TodayCounted ==
    Cardinality(Live) + Cardinality(Waiting(Passed)) <= BuyerMax + Cardinality(Requests) - 1

IntakeInv == IntakeTypeOK /\ QueueOK /\ VolumeCounted /\ TodayCounted

\* Requests, and trades, can be counted.
LEMMA CountWaiting ==
    ASSUME NEW pcs
    PROVE  /\ Waiting(pcs) \in SUBSET Requests /\ IsFiniteSet(Waiting(pcs))
           /\ Cardinality(Waiting(pcs)) \in Nat /\ Cardinality(Requests) \in Nat
           /\ Cardinality(Waiting(pcs)) <= Cardinality(Requests)
<1>1. Waiting(pcs) \in SUBSET Requests
  BY DEF Waiting
<1> QED
  BY <1>1, ServicesAssumption, FS_Subset, FS_CardinalityType

\* The trades with one of some statuses can be counted.
LEMMA CountTrades ==
    ASSUME IntakeTypeOK, NEW found
    PROVE  /\ DOMAIN trades = 1 .. Len(trades) /\ Len(trades) \in Nat
           /\ I!With(found) \subseteq 1 .. Len(trades)
           /\ IsFiniteSet(I!With(found)) /\ Cardinality(I!With(found)) \in Nat
<1>1. DOMAIN trades = 1 .. Len(trades) /\ Len(trades) \in Nat
  BY DEF IntakeTypeOK
<1>2. I!With(found) \subseteq 1 .. Len(trades)
  BY <1>1 DEF I!With
<1>3. IsFiniteSet(1 .. Len(trades))
  BY <1>1, FS_Interval
<1> QED
  BY <1>1, <1>2, <1>3, FS_Subset, FS_CardinalityType

\* Nobody trades yet; the limits leave room for the first trade of the day.
LEMMA IntakeInit == I!Init => IntakeInv
<1> SUFFICES ASSUME I!Init PROVE IntakeInv
  OBVIOUS
<1>1. IntakeTypeOK /\ \A r \in Requests : job[r].pc = "idle"
  BY DEF I!Init, IntakeTypeOK, I!Idle
<1>2. /\ \A pcs \in {Queue, Passed, Recorded} : Waiting(pcs) = {}
      /\ trades = <<>> /\ locks = <<>> /\ Len(trades) = 0 /\ Len(locks) = 0 /\ volume = 0
  BY <1>1 DEF I!Init, Waiting, Queue, Passed, Recorded
<1>3. Cardinality({}) = 0 /\ Cardinality(Requests) \in Nat \ {0}
  BY ServicesAssumption, FS_EmptySet, FS_CardinalityType
<1>4. Live = {} /\ \A found : I!With(found) = {}
  BY <1>2 DEF Live, I!With
<1>5. QueueOK
  BY <1>1, <1>2 DEF QueueOK
<1>6. VolumeCounted
  <2>1. 0 + Cardinality({}) <= 0 /\ 0 <= MonthlyCeiling
    BY <1>3, ServicesAssumption
  <2> QED
    BY <1>2, <2>1 DEF VolumeCounted
<1>7. TodayCounted
  <2>1. Cardinality({}) + Cardinality({}) <= BuyerMax + Cardinality(Requests) - 1
    <3>1. BuyerMax \in Nat
      BY ServicesAssumption
    <3> QED
      BY ONLY <1>3, <3>1
  <2> QED
    BY <1>2, <1>4, <2>1 DEF TodayCounted
<1> QED
  BY <1>1, <1>5, <1>6, <1>7 DEF IntakeInv

\* A request whose await is over, and who waits where then.
LEMMA JobMoves ==
    ASSUME IntakeTypeOK, NEW r \in Requests, NEW state \in JobStates \cup {I!Idle},
           I!Become(r, state)
    PROVE  /\ job' \in [Requests -> JobStates \cup {I!Idle}]
           /\ job'[r] = state
           /\ \A q \in Requests : q # r => job'[q] = job[q]
           /\ \A pcs : Waiting(pcs)' = IF state.pc \in pcs THEN Waiting(pcs) \cup {r}
                                       ELSE Waiting(pcs) \ {r}
<1>1. /\ job' \in [Requests -> JobStates \cup {I!Idle}]
      /\ job'[r] = state
      /\ \A q \in Requests : q # r => job'[q] = job[q]
  BY DEF IntakeTypeOK, I!Become
<1> QED
  BY <1>1 DEF Waiting

\* Nobody joins or leaves the queue, and its first keeps what it read.
LEMMA QueueStays ==
    ASSUME QueueOK, UNCHANGED <<locks, volume>>, Waiting(Queue)' = Waiting(Queue),
           \A q \in Requests : job'[q].pc = "record" =>
               /\ job'[q].total = volume
               /\ job'[q] = job[q] \/ locks[1] = q
    PROVE  QueueOK'
  BY DEF QueueOK

\* No request comes between the record and its trade.
LEMMA VolumeStays ==
    ASSUME IntakeTypeOK, IntakeTypeOK', VolumeCounted, UNCHANGED <<volume, enforced>>,
           Len(trades') = Len(trades), Waiting(Recorded)' \subseteq Waiting(Recorded)
    PROVE  VolumeCounted'
<1>1. /\ Cardinality(Waiting(Recorded)') <= Cardinality(Waiting(Recorded))
      /\ Cardinality(Waiting(Recorded)') \in Nat /\ Cardinality(Waiting(Recorded)) \in Nat
  BY CountWaiting, FS_Subset, FS_CardinalityType
<1>2. Len(trades) \in Nat /\ volume \in Nat
  BY DEF IntakeTypeOK
<1>3. Len(trades) + Cardinality(Waiting(Recorded)) <= volume
  BY DEF VolumeCounted
<1>4. Len(trades') + Cardinality(Waiting(Recorded)') <= volume
  BY <1>1, <1>2, <1>3
<1> QED
  BY <1>4 DEF VolumeCounted

\* No request passes the check of the daily limit.
LEMMA TodayStays ==
    ASSUME IntakeTypeOK, TodayCounted, Live' \subseteq Live,
           Waiting(Passed)' \subseteq Waiting(Passed)
    PROVE  TodayCounted'
<1>1. /\ Cardinality(Waiting(Passed)') <= Cardinality(Waiting(Passed))
      /\ Cardinality(Waiting(Passed)') \in Nat /\ Cardinality(Waiting(Passed)) \in Nat
      /\ Cardinality(Requests) \in Nat
  BY CountWaiting, FS_Subset, FS_CardinalityType
<1>2. IsFiniteSet(Live)
  BY CountTrades DEF Live
<1>3. /\ Cardinality(Live') <= Cardinality(Live)
      /\ Cardinality(Live') \in Nat /\ Cardinality(Live) \in Nat
  BY <1>2, FS_Subset, FS_CardinalityType
<1>4. Cardinality(Live) + Cardinality(Waiting(Passed)) <= BuyerMax + Cardinality(Requests) - 1
  BY DEF TodayCounted
<1>5. BuyerMax \in Nat
  BY ServicesAssumption
<1>6. Cardinality(Live') + Cardinality(Waiting(Passed)') <= BuyerMax + Cardinality(Requests) - 1
  BY ONLY <1>1, <1>3, <1>4, <1>5
<1> QED
  BY <1>6 DEF TodayCounted

\* A request that goes on without touching what is shared.
LEMMA QuietStep ==
    ASSUME IntakeInv, NEW r \in Requests, NEW state \in JobStates \cup {I!Idle},
           I!Become(r, state),
           UNCHANGED <<trades, volume, locks, enforced>>,
           job[r].pc \notin Queue, state.pc \notin Queue,
           state.pc \in Recorded => job[r].pc \in Recorded
    PROVE  IntakeInv'
<1>1. IntakeTypeOK /\ QueueOK /\ VolumeCounted /\ TodayCounted
  BY DEF IntakeInv
<1>2. /\ job' \in [Requests -> JobStates \cup {I!Idle}]
      /\ job'[r] = state
      /\ \A q \in Requests : q # r => job'[q] = job[q]
      /\ \A pcs : Waiting(pcs)' = IF state.pc \in pcs THEN Waiting(pcs) \cup {r}
                                  ELSE Waiting(pcs) \ {r}
  BY <1>1, JobMoves
<1>3. /\ Waiting(Queue)' = Waiting(Queue)
      /\ Waiting(Recorded)' \subseteq Waiting(Recorded)
      /\ Waiting(Passed)' \subseteq Waiting(Passed)
  BY <1>2 DEF Waiting, Queue, Recorded, Passed
<1>4. IntakeTypeOK'
  BY <1>1, <1>2 DEF IntakeTypeOK
<1>5. \A found : I!With(found)' = I!With(found)
  BY DEF I!With
<1>6. QueueOK'
  <2>1. ASSUME NEW q \in Requests, job'[q].pc = "record"
        PROVE  job'[q].total = volume /\ job'[q] = job[q]
    BY <1>1, <1>2, <2>1 DEF QueueOK, Queue
  <2> QED
    BY <1>1, <1>3, <2>1, QueueStays
<1>7. VolumeCounted'
  BY <1>1, <1>3, <1>4, VolumeStays
<1>8. TodayCounted'
  BY <1>1, <1>3, <1>5, TodayStays DEF Live
<1> QED
  BY <1>4, <1>6, <1>7, <1>8 DEF IntakeInv

\* A request that waits for the lock is the last of the queue.
LEMMA QueueJoined ==
    ASSUME IntakeTypeOK, QueueOK, NEW r \in Requests, r \notin Waiting(Queue),
           locks' = Append(locks, r), UNCHANGED volume,
           Waiting(Queue)' = Waiting(Queue) \cup {r}, job'[r].pc # "record",
           \A q \in Requests : q # r => job'[q] = job[q]
    PROVE  QueueOK'
<1>1. /\ Len(locks) \in Nat /\ Len(locks') = Len(locks) + 1
      /\ \A i \in 1 .. Len(locks) : locks'[i] = locks[i]
      /\ locks'[Len(locks) + 1] = r
      /\ \A i \in 1 .. Len(locks) : locks[i] # r
  BY DEF IntakeTypeOK, QueueOK
<1>2. \A i, j \in 1 .. Len(locks') : locks'[i] = locks'[j] => i = j
  BY <1>1 DEF QueueOK
<1>3. \A q \in Requests :
          q \in Waiting(Queue)' <=> \E i \in 1 .. Len(locks') : locks'[i] = q
  BY <1>1 DEF QueueOK
<1>4. ASSUME NEW q \in Requests, job'[q].pc = "record"
      PROVE  locks'[1] = q /\ job'[q].total = volume
  <2>1. q # r /\ job[q].pc = "record" /\ job'[q] = job[q]
    BY <1>4
  <2>2. \E i \in 1 .. Len(locks) : locks[i] = q
    BY <2>1 DEF QueueOK, Waiting, Queue
  <2> QED
    BY <1>1, <2>1, <2>2 DEF QueueOK
<1> QED
  BY <1>2, <1>3, <1>4 DEF QueueOK

\* The first of the queue leaves it; nobody else has read the volume.
LEMMA QueueLeft ==
    ASSUME IntakeTypeOK, QueueOK, NEW r \in Requests, r \in Waiting(Queue),
           locks[1] = r, locks' = Tail(locks),
           Waiting(Queue)' = Waiting(Queue) \ {r}, job'[r].pc # "record",
           \A q \in Requests : q # r => job'[q] = job[q]
    PROVE  QueueOK'
<1>1. /\ Len(locks) \in Nat \ {0} /\ Len(locks') = Len(locks) - 1
      /\ \A i \in 1 .. Len(locks') : locks'[i] = locks[i + 1]
  BY DEF IntakeTypeOK, QueueOK
<1>2. \A i, j \in 1 .. Len(locks') : locks'[i] = locks'[j] => i = j
  BY <1>1 DEF QueueOK
<1>3. ASSUME NEW q \in Requests
      PROVE  q \in Waiting(Queue)' <=> \E i \in 1 .. Len(locks') : locks'[i] = q
  <2>1. ASSUME q \in Waiting(Queue)' PROVE \E i \in 1 .. Len(locks') : locks'[i] = q
    <3>1. PICK i \in 1 .. Len(locks) : locks[i] = q
      BY <2>1 DEF QueueOK
    <3>2. i # 1 /\ i - 1 \in 1 .. Len(locks')
      BY <1>1, <2>1, <3>1
    <3> QED
      BY <1>1, <3>1, <3>2
  <2>2. ASSUME NEW i \in 1 .. Len(locks'), locks'[i] = q PROVE q \in Waiting(Queue)'
    <3>1. i + 1 \in 1 .. Len(locks) /\ locks[i + 1] = q /\ 1 \in 1 .. Len(locks) /\ i + 1 # 1
      BY <1>1, <2>2
    <3>2. q # r
      BY <3>1 DEF QueueOK
    <3> QED
      BY <3>1, <3>2 DEF QueueOK
  <2> QED
    BY <2>1, <2>2
<1>4. \A q \in Requests : job'[q].pc # "record"
  BY DEF QueueOK
<1> QED
  BY <1>2, <1>3, <1>4 DEF QueueOK

\* The start of a request, and what follows the queue but for the trade itself.
LEMMA ChecksKeep ==
    ASSUME IntakeInv, NEW r \in Requests, I!Create(r) \/ I!CheckCap(r)
    PROVE  IntakeInv'
<1>1. UNCHANGED <<trades, volume, locks, enforced>> /\ job[r].pc \in {"idle", "cap"}
  BY DEF I!Create, I!CheckCap, I!At
<1>2. ASSUME NEW state \in JobStates \cup {I!Idle}, I!Become(r, state), state.pc \notin Queue,
             state.pc \in Recorded => job[r].pc \in Recorded
      PROVE  IntakeInv'
  BY <1>1, <1>2, QuietStep DEF Queue
<1>3. CASE I!Become(r, I!Idle)
  <2>1. I!Idle.pc = "idle"
    BY DEF I!Idle
  <2> QED
    BY <1>2, <1>3, <2>1 DEF Queue, Recorded
<1>4. CASE I!Create(r)
  <2>1. PICK state : state = [pc |-> "limits"]
    OBVIOUS
  <2>2. state \in JobStates /\ state.pc = "limits"
    BY <2>1 DEF JobStates
  <2> QED
    BY <1>2, <1>4, <2>1, <2>2 DEF I!Create, I!Goto, Queue, Recorded
<1>5. CASE I!CheckCap(r) /\ ~ I!Become(r, I!Idle)
  <2>1. PICK state : state = [pc |-> "insert"]
    OBVIOUS
  <2>2. state \in JobStates /\ state.pc = "insert" /\ job[r].pc = "cap"
    BY <1>5, <2>1 DEF JobStates, I!CheckCap, I!At
  <2> QED
    BY <1>2, <1>5, <2>1, <2>2 DEF I!CheckCap, I!Goto, Queue, Recorded
<1> QED
  BY <1>3, <1>4, <1>5

\* The daily limit: the trades of the day and the requests that passed it are no
\* more than the limit left room for, and the requests there are.
LEMMA LimitsKeep ==
    ASSUME IntakeInv, NEW r \in Requests, I!CheckLimits(r) PROVE IntakeInv'
<1>1. IntakeTypeOK /\ QueueOK /\ VolumeCounted /\ TodayCounted
  BY DEF IntakeInv
<1>2. /\ UNCHANGED <<trades, volume, enforced>>
      /\ job[r].pc = "limits"
  BY DEF I!CheckLimits, I!At
<1>3. CASE I!Today >= BuyerMax
  <2>1. I!Become(r, I!Idle) /\ UNCHANGED locks /\ I!Idle.pc = "idle"
    BY <1>3 DEF I!CheckLimits, I!Idle
  <2> QED
    BY <1>2, <2>1, QuietStep DEF Queue, Recorded
<1>4. CASE ~ (I!Today >= BuyerMax)
  <2>2. PICK state : state = [pc |-> "volume"]
    OBVIOUS
  <2>3. state \in JobStates /\ state.pc = "volume"
    BY <2>2 DEF JobStates
  <2>4. I!Become(r, state) /\ locks' = Append(locks, r)
    BY <1>4, <2>2 DEF I!CheckLimits, I!Goto
  <2>5. /\ job' \in [Requests -> JobStates \cup {I!Idle}]
        /\ job'[r] = state
        /\ \A q \in Requests : q # r => job'[q] = job[q]
        /\ \A pcs : Waiting(pcs)' = IF state.pc \in pcs THEN Waiting(pcs) \cup {r}
                                    ELSE Waiting(pcs) \ {r}
    BY <1>1, <2>3, <2>4, JobMoves
  <2>6. IntakeTypeOK'
    BY <1>1, <1>2, <2>4, <2>5 DEF IntakeTypeOK
  <2>7. QueueOK'
    <3>1. r \notin Waiting(Queue) /\ Waiting(Queue)' = Waiting(Queue) \cup {r}
      BY <1>2, <2>3, <2>5 DEF Waiting, Queue
    <3> QED
      BY <1>1, <1>2, <2>3, <2>4, <2>5, <3>1, QueueJoined
  <2>8. VolumeCounted'
    <3>1. Waiting(Recorded)' \subseteq Waiting(Recorded)
      BY <2>3, <2>5 DEF Recorded
    <3> QED
      BY <1>1, <1>2, <2>6, <3>1, VolumeStays
  <2>9. TodayCounted'
    <3>1. Live' = Live /\ Cardinality(Live) <= I!Today /\ I!Today \in Nat
      <4>1. Live' = Live /\ Live \subseteq I!With({"standing", "again"})
        BY <1>2 DEF Live, I!With
      <4>2. /\ IsFiniteSet(I!With({"standing", "again"}))
            /\ Cardinality(I!With({"standing", "again"})) = I!Today
        BY <1>1, CountTrades DEF I!Today, I!Cardinality, Cardinality
      <4> QED
        BY <4>1, <4>2, FS_Subset, FS_CardinalityType
    <3>2. Cardinality(Live) \in Nat
      BY <1>1, CountTrades DEF Live
    <3>3. /\ Cardinality(Waiting(Passed)') <= Cardinality(Requests)
          /\ Cardinality(Waiting(Passed)') \in Nat /\ Cardinality(Requests) \in Nat
      <4>1. Waiting(Passed)' \subseteq Requests
        BY DEF Waiting
      <4> QED
        BY <4>1, ServicesAssumption, FS_Subset, FS_CardinalityType
    <3>4. BuyerMax \in Nat
      BY ServicesAssumption
    <3>5. Cardinality(Live') + Cardinality(Waiting(Passed)') <= BuyerMax + Cardinality(Requests) - 1
      BY <1>4, <3>1, <3>2, <3>3, <3>4
    <3> QED
      BY <3>5 DEF TodayCounted
  <2> QED
    BY <2>6, <2>7, <2>8, <2>9 DEF IntakeInv
<1> QED
  BY <1>3, <1>4

\* The first of the queue reads the volume, which nobody else will change.
LEMMA VolumeRead ==
    ASSUME IntakeInv, NEW r \in Requests, I!ReadVolume(r) PROVE IntakeInv'
<1>1. IntakeTypeOK /\ QueueOK /\ VolumeCounted /\ TodayCounted
  BY DEF IntakeInv
<1>2. /\ UNCHANGED <<trades, volume, locks, enforced>>
      /\ job[r].pc = "volume" /\ Head(locks) = r
  BY DEF I!ReadVolume, I!At
<1>3. PICK state : state = [pc |-> "record", total |-> volume]
  OBVIOUS
<1>4. state \in JobStates /\ state.pc = "record" /\ state.total = volume
  BY <1>1, <1>3 DEF JobStates, IntakeTypeOK
<1>5. I!Become(r, state)
  BY <1>3 DEF I!ReadVolume
<1>6. /\ job' \in [Requests -> JobStates \cup {I!Idle}]
      /\ job'[r] = state
      /\ \A q \in Requests : q # r => job'[q] = job[q]
      /\ \A pcs : Waiting(pcs)' = IF state.pc \in pcs THEN Waiting(pcs) \cup {r}
                                  ELSE Waiting(pcs) \ {r}
  BY <1>1, <1>4, <1>5, JobMoves
<1>7. /\ Waiting(Queue)' = Waiting(Queue) /\ Waiting(Passed)' = Waiting(Passed)
      /\ Waiting(Recorded)' \subseteq Waiting(Recorded)
  BY <1>2, <1>4, <1>6 DEF Waiting, Queue, Passed, Recorded
<1>8. IntakeTypeOK'
  BY <1>1, <1>2, <1>6 DEF IntakeTypeOK
<1>9. locks[1] = r
  <2>1. \E i \in 1 .. Len(locks) : locks[i] = r
    BY <1>1, <1>2 DEF QueueOK, Waiting, Queue
  <2> QED
    BY <1>1, <1>2, <2>1 DEF IntakeTypeOK
<1>10. QueueOK'
  <2>1. ASSUME NEW q \in Requests, job'[q].pc = "record"
        PROVE  job'[q].total = volume /\ (job'[q] = job[q] \/ locks[1] = q)
    BY <1>1, <1>4, <1>6, <1>9, <2>1 DEF QueueOK
  <2> QED
    BY <1>1, <1>2, <1>7, <2>1, QueueStays
<1>11. VolumeCounted'
  BY <1>1, <1>2, <1>7, <1>8, VolumeStays
<1>12. TodayCounted'
  BY <1>1, <1>2, <1>7, TodayStays DEF Live, I!With
<1> QED
  BY <1>8, <1>10, <1>11, <1>12 DEF IntakeInv

\* A request at the head of the queue leaves it, with or without its record.
LEMMA HeadLeaves ==
    ASSUME IntakeInv, NEW r \in Requests, NEW state \in JobStates \cup {I!Idle},
           I!Become(r, state), r \in Waiting(Queue), Head(locks) = r, locks' = Tail(locks),
           UNCHANGED <<trades, enforced>>,
           state.pc \notin Queue,
           \/ state.pc \notin Recorded /\ volume' = volume
           \/ volume' = volume + 1 /\ (enforced => volume < MonthlyCeiling)
    PROVE  IntakeInv'
<1>1. IntakeTypeOK /\ QueueOK /\ VolumeCounted /\ TodayCounted
  BY DEF IntakeInv
<1>2. /\ job' \in [Requests -> JobStates \cup {I!Idle}]
      /\ job'[r] = state
      /\ \A q \in Requests : q # r => job'[q] = job[q]
      /\ \A pcs : Waiting(pcs)' = IF state.pc \in pcs THEN Waiting(pcs) \cup {r}
                                  ELSE Waiting(pcs) \ {r}
  BY <1>1, JobMoves
<1>3. /\ job[r].pc \in Queue /\ r \notin Waiting(Recorded)
      /\ Waiting(Queue)' = Waiting(Queue) \ {r} /\ Waiting(Passed)' \subseteq Waiting(Passed)
  BY <1>2 DEF Waiting, Queue, Passed, Recorded
<1>4. \E i \in 1 .. Len(locks) : locks[i] = r
  BY <1>1 DEF QueueOK
<1>5. locks[1] = r /\ locks' \in Seq(Requests)
  BY <1>1, <1>4 DEF IntakeTypeOK
<1>6. volume' \in Nat
  BY <1>1 DEF IntakeTypeOK
<1>7. IntakeTypeOK'
  BY <1>1, <1>2, <1>5, <1>6 DEF IntakeTypeOK
<1>8. QueueOK'
  BY <1>1, <1>2, <1>3, <1>5, QueueLeft DEF Queue
<1>9. VolumeCounted'
  <2>1. CASE state.pc \notin Recorded /\ volume' = volume
    BY <1>1, <1>2, <1>7, <2>1, VolumeStays
  <2>2. CASE volume' = volume + 1 /\ (enforced => volume < MonthlyCeiling)
    <3>1. Waiting(Recorded)' \subseteq Waiting(Recorded) \cup {r}
      BY <1>2
    <3>2. /\ Cardinality(Waiting(Recorded)') <= Cardinality(Waiting(Recorded) \cup {r})
          /\ Cardinality(Waiting(Recorded)') \in Nat
          /\ IsFiniteSet(Waiting(Recorded) \cup {r})
      BY <3>1, CountWaiting, OneMore, FS_Subset, FS_CardinalityType
    <3>3. /\ Cardinality(Waiting(Recorded) \cup {r}) = Cardinality(Waiting(Recorded)) + 1
          /\ Cardinality(Waiting(Recorded)) \in Nat
      BY <1>3, CountWaiting, FS_AddElement
    <3>4. Len(trades) + Cardinality(Waiting(Recorded)) <= volume
      BY <1>1 DEF VolumeCounted
    <3>5. Len(trades) \in Nat /\ volume \in Nat /\ MonthlyCeiling \in Nat
      BY <1>1, ServicesAssumption DEF IntakeTypeOK
    <3>6. Len(trades') + Cardinality(Waiting(Recorded)') <= volume'
      BY <2>2, <3>2, <3>3, <3>4, <3>5
    <3>7. enforced' => volume' <= MonthlyCeiling
      BY <2>2, <3>5
    <3> QED
      BY <3>6, <3>7 DEF VolumeCounted
  <2> QED
    BY <2>1, <2>2
<1>10. TodayCounted'
  BY <1>1, <1>3, TodayStays DEF Live, I!With
<1> QED
  BY <1>7, <1>8, <1>9, <1>10 DEF IntakeInv

\* The volume is recorded, or the trade refused for it.
LEMMA RecordKeeps ==
    ASSUME IntakeInv, NEW r \in Requests, I!RecordVolume(r) PROVE IntakeInv'
<1>1. /\ IntakeTypeOK /\ job[r].pc = "record" /\ r \in Waiting(Queue)
      /\ locks[1] = r /\ job[r].total = volume
  BY DEF IntakeInv, QueueOK, I!RecordVolume, I!At, Waiting, Queue
<1>2. Head(locks) = r
  <2>1. \E i \in 1 .. Len(locks) : locks[i] = r
    BY <1>1 DEF IntakeInv, QueueOK
  <2> QED
    BY <1>1, <2>1 DEF IntakeTypeOK
<1>3. UNCHANGED <<trades, enforced>> /\ locks' = Tail(locks)
  BY DEF I!RecordVolume
<1>4. CASE enforced /\ job[r].total >= MonthlyCeiling
  <2>1. I!Become(r, I!Idle) /\ volume' = volume /\ I!Idle.pc = "idle"
    BY <1>4 DEF I!RecordVolume, I!Idle
  <2> QED
    BY <1>1, <1>2, <1>3, <2>1, HeadLeaves DEF Queue, Recorded
<1>5. CASE ~ (enforced /\ job[r].total >= MonthlyCeiling)
  <2>1. PICK state : state = [pc |-> "cap"]
    OBVIOUS
  <2>2. state \in JobStates /\ state.pc = "cap"
    BY <2>1 DEF JobStates
  <2>3. I!Become(r, state) /\ volume' = volume + 1
    BY <1>1, <1>5, <2>1 DEF I!RecordVolume, I!Goto
  <2>4. enforced => volume < MonthlyCeiling
    <3>1. volume \in Nat /\ MonthlyCeiling \in Nat
      BY <1>1, ServicesAssumption DEF IntakeTypeOK
    <3> QED
      BY <1>1, <1>5, <3>1
  <2> QED
    BY <1>1, <1>2, <1>3, <2>2, <2>3, <2>4, HeadLeaves DEF Queue
<1> QED
  BY <1>4, <1>5

\* The trade that passed every check is inserted.
LEMMA InsertKeeps ==
    ASSUME IntakeInv, NEW r \in Requests, I!Insert(r) PROVE IntakeInv'
<1>1. IntakeTypeOK /\ QueueOK /\ VolumeCounted /\ TodayCounted
  BY DEF IntakeInv
<1>2. /\ UNCHANGED <<volume, locks, enforced>>
      /\ job[r].pc = "insert" /\ trades' = Append(trades, "standing")
      /\ I!Become(r, I!Idle) /\ I!Idle.pc = "idle"
  BY DEF I!Insert, I!At, I!Idle
<1>3. /\ job' \in [Requests -> JobStates \cup {I!Idle}]
      /\ job'[r] = I!Idle
      /\ \A q \in Requests : q # r => job'[q] = job[q]
      /\ \A pcs : Waiting(pcs)' = IF I!Idle.pc \in pcs THEN Waiting(pcs) \cup {r}
                                  ELSE Waiting(pcs) \ {r}
  BY <1>1, <1>2, JobMoves
<1>4. /\ Waiting(Queue)' = Waiting(Queue)
      /\ Waiting(Passed)' = Waiting(Passed) \ {r} /\ r \in Waiting(Passed)
      /\ Waiting(Recorded)' = Waiting(Recorded) \ {r} /\ r \in Waiting(Recorded)
  BY <1>2, <1>3 DEF Waiting, Queue, Passed, Recorded
<1>5. /\ Cardinality(Waiting(Passed)') = Cardinality(Waiting(Passed)) - 1
      /\ Cardinality(Waiting(Recorded)') = Cardinality(Waiting(Recorded)) - 1
      /\ Cardinality(Waiting(Passed)) \in Nat /\ Cardinality(Waiting(Recorded)) \in Nat
      /\ Cardinality(Requests) \in Nat
  <2>1. ASSUME NEW pcs, r \in Waiting(pcs), Waiting(pcs)' = Waiting(pcs) \ {r}
        PROVE  Cardinality(Waiting(pcs)') = Cardinality(Waiting(pcs)) - 1
    <3>1. Waiting(pcs) \in SUBSET Requests
      BY CountWaiting
    <3>2. Cardinality(Waiting(pcs) \ {r}) = Cardinality(Waiting(pcs)) - 1
      BY <2>1, <3>1, CountRequests
    <3> QED
      BY <2>1, <3>2
  <2> QED
    BY <1>4, <2>1, CountWaiting
<1>6. /\ Len(trades) \in Nat /\ Len(trades') = Len(trades) + 1
      /\ trades' \in Seq(Standings) /\ trades'[Len(trades) + 1] = "standing"
      /\ \A t \in 1 .. Len(trades) : trades'[t] = trades[t]
      /\ DOMAIN trades = 1 .. Len(trades) /\ DOMAIN trades' = 1 .. (Len(trades) + 1)
  BY <1>1, <1>2 DEF IntakeTypeOK, Standings
<1>7. IntakeTypeOK'
  BY <1>1, <1>2, <1>3, <1>6 DEF IntakeTypeOK
<1>8. QueueOK'
  <2>1. ASSUME NEW q \in Requests, job'[q].pc = "record"
        PROVE  job'[q].total = volume /\ job'[q] = job[q]
    BY <1>1, <1>2, <1>3, <2>1 DEF QueueOK
  <2> QED
    BY <1>1, <1>2, <1>4, <2>1, QueueStays
<1>9. VolumeCounted'
  <2>1. volume \in Nat /\ Len(trades) + Cardinality(Waiting(Recorded)) <= volume
    BY <1>1 DEF IntakeTypeOK, VolumeCounted
  <2>2. Len(trades') + Cardinality(Waiting(Recorded)') <= volume'
    BY <1>2, <1>5, <1>6, <2>1
  <2> QED
    BY <1>1, <1>2, <2>2 DEF VolumeCounted
<1>10. TodayCounted'
  <2>1. Live' \subseteq Live \cup {Len(trades) + 1}
    BY <1>6 DEF Live, I!With
  <2>2. IsFiniteSet(Live) /\ Cardinality(Live) \in Nat
    BY <1>1, CountTrades DEF Live
  <2>3. PICK n \in Nat : n = Len(trades) + 1
    BY <1>6
  <2>4. /\ IsFiniteSet(Live \cup {n}) /\ Cardinality(Live \cup {n}) \in Nat
        /\ Cardinality(Live \cup {n}) <= Cardinality(Live) + 1
    BY <2>2, OneMore
  <2>5. Cardinality(Live') <= Cardinality(Live \cup {n}) /\ Cardinality(Live') \in Nat
    BY <2>1, <2>3, <2>4, FS_Subset, FS_CardinalityType
  <2>6. Cardinality(Live) + Cardinality(Waiting(Passed)) <= BuyerMax + Cardinality(Requests) - 1
    BY <1>1 DEF TodayCounted
  <2>7. BuyerMax \in Nat
    BY ServicesAssumption
  <2>8. Cardinality(Live') + Cardinality(Waiting(Passed)') <= BuyerMax + Cardinality(Requests) - 1
    BY ONLY <1>5, <2>2, <2>4, <2>5, <2>6, <2>7
  <2> QED
    BY <2>8 DEF TodayCounted
<1> QED
  BY <1>7, <1>8, <1>9, <1>10 DEF IntakeInv

\* A trade that ends, or stands again, is not among those counted ever since.
LEMMA RowsKeep ==
    ASSUME IntakeInv, NEW t \in DOMAIN trades, I!End(t) \/ I!StandAgain(t)
    PROVE  IntakeInv'
<1>1. IntakeTypeOK /\ QueueOK /\ VolumeCounted /\ TodayCounted
  BY DEF IntakeInv
<1>2. PICK found \in {"ended", "again"} : trades' = [trades EXCEPT ![t] = found]
  BY DEF I!End, I!StandAgain
<1>3. UNCHANGED <<volume, locks, enforced, job>>
  BY DEF I!End, I!StandAgain
<1>4. /\ DOMAIN trades' = DOMAIN trades
      /\ \A u \in DOMAIN trades : trades'[u] = IF u = t THEN found ELSE trades[u]
  BY <1>2
<1>5. trades' \in Seq(Standings) /\ Len(trades') = Len(trades)
  <2>1. /\ DOMAIN trades = 1 .. Len(trades) /\ Len(trades) \in Nat
        /\ \A u \in 1 .. Len(trades) : trades[u] \in Standings
    BY <1>1 DEF IntakeTypeOK
  <2>2. \A u \in 1 .. Len(trades) : trades'[u] \in Standings
    BY <1>4, <2>1 DEF Standings
  <2>3. trades' = [u \in 1 .. Len(trades) |-> trades'[u]]
    BY <1>2, <2>1
  <2>4. trades' \in [1 .. Len(trades) -> Standings]
    BY <2>2, <2>3
  <2> QED
    BY <2>1, <2>4
<1>6. IntakeTypeOK'
  BY <1>1, <1>3, <1>5 DEF IntakeTypeOK
<1>7. \A pcs : Waiting(pcs)' = Waiting(pcs)
  BY <1>3 DEF Waiting
<1>8. QueueOK'
  BY <1>1, <1>3, <1>7, QueueStays DEF QueueOK
<1>9. VolumeCounted'
  BY <1>1, <1>3, <1>5, <1>6, <1>7, VolumeStays
<1>10. TodayCounted'
  <2>1. Live' \subseteq Live
    BY <1>4 DEF Live, I!With
  <2> QED
    BY <1>1, <1>7, <2>1, TodayStays
<1> QED
  BY <1>6, <1>8, <1>9, <1>10 DEF IntakeInv

\* Every step of the requests, and of the trades, keeps the invariant.
LEMMA IntakeStep == IntakeInv /\ [I!Next]_intakeVars => IntakeInv'
<1> SUFFICES ASSUME IntakeInv, [I!Next]_intakeVars PROVE IntakeInv'
  OBVIOUS
<1>1. IntakeTypeOK /\ QueueOK /\ I!Idle.pc = "idle"
  BY DEF IntakeInv, I!Idle
<1>2. ASSUME NEW r \in Requests, I!Fails(r) PROVE IntakeInv'
  <2>1. I!Become(r, I!Idle) /\ UNCHANGED <<trades, volume, enforced>>
    BY <1>2 DEF I!Fails
  <2>2. CASE job[r].pc \in Queue
    <3>1. r \in Waiting(Queue) /\ locks' = Tail(locks)
      BY <1>2, <2>2 DEF Waiting, I!Fails, I!At, Queue
    <3>2. Head(locks) = r
      <4>1. CASE job[r].pc = "volume"
        BY <1>2, <4>1 DEF I!Fails, I!At
      <4>2. CASE job[r].pc = "record"
        <5>1. locks[1] = r /\ \E i \in 1 .. Len(locks) : locks[i] = r
          BY <1>1, <3>1, <4>2 DEF QueueOK
        <5> QED
          BY <1>1, <5>1 DEF IntakeTypeOK
      <4> QED
        BY <2>2, <4>1, <4>2 DEF Queue
    <3> QED
      BY <1>1, <2>1, <3>1, <3>2, HeadLeaves DEF Queue, Recorded
  <2>3. CASE job[r].pc \notin Queue
    <3>1. UNCHANGED locks
      BY <1>2, <2>3 DEF I!Fails, I!At, Queue
    <3> QED
      BY <1>1, <2>1, <2>3, <3>1, QuietStep DEF Queue, Recorded
  <2> QED
    BY <2>2, <2>3
<1>3. CASE UNCHANGED intakeVars
  BY <1>3 DEF intakeVars, IntakeInv, IntakeTypeOK, QueueOK, VolumeCounted, TodayCounted, Live,
     Waiting, I!With
<1> QED
  BY <1>2, <1>3, ChecksKeep, LimitsKeep, VolumeRead, RecordKeeps, InsertKeeps, RowsKeep
     DEF I!Next

\* So it always holds.
LEMMA IntakeHolds == Spec => []IntakeInv
<1>1. Init => IntakeInv
  BY IntakeInit DEF Init
<1>2. IntakeInv /\ [Next]_vars => IntakeInv'
  BY IntakeStep, UserParts
<1> QED
  BY <1>1, <1>2, PTL DEF Spec

\* The month's record covers every trade of the buyer and, with the gate on,
\* keeps to the ceiling: the lock loses no update of the volume.
THEOREM MonthlyCapHolds == Spec => []MonthlyCap
<1>1. IntakeInv => MonthlyCap
  <2> SUFFICES ASSUME IntakeInv PROVE MonthlyCap
    OBVIOUS
  <2>1. Len(trades) \in Nat /\ volume \in Nat /\ Cardinality(Waiting(Recorded)) \in Nat
    BY CountWaiting DEF IntakeInv, IntakeTypeOK
  <2>2. Len(trades) + Cardinality(Waiting(Recorded)) <= volume
    BY DEF IntakeInv, VolumeCounted
  <2>3. Len(trades) <= volume
    BY <2>1, <2>2
  <2> QED
    BY <2>3 DEF IntakeInv, VolumeCounted, MonthlyCap, I!MonthlyCap
<1> QED
  BY <1>1, IntakeHolds, PTL

\* The daily limit is passed by the requests that run together only, and by trades
\* that stand again.
THEOREM DailyLimitHolds == Spec => []DailyLimit
<1>1. IntakeInv => DailyLimit
  <2> SUFFICES ASSUME IntakeInv
               PROVE  Cardinality(Live) <= BuyerMax + Cardinality(Requests) - 1
    BY DEF DailyLimit, I!DailyLimit, Live, I!Cardinality, Cardinality
  <2>1. /\ Cardinality(Live) \in Nat /\ Cardinality(Waiting(Passed)) \in Nat
        /\ Cardinality(Requests) \in Nat /\ BuyerMax \in Nat
    BY CountWaiting, CountTrades, ServicesAssumption DEF IntakeInv, Live
  <2>2. Cardinality(Live) + Cardinality(Waiting(Passed)) <= BuyerMax + Cardinality(Requests) - 1
    BY DEF IntakeInv, TodayCounted
  <2> QED
    BY ONLY <2>1, <2>2
<1> QED
  BY <1>1, IntakeHolds, PTL

-----------------------------------------------------------------------------
(* Accounts: pauses and deletions.                                         *)

DealStatuses == M!Active \cup {"completed", "cancelled", "refunded"}

ActStates ==
    [pc : {"merchant", "insert", "pause"}]
        \cup [pc : {"write"}, trade : Nat, status : DealStatuses]
        \cup [pc : {"finalize", "count"}, trade : Nat]

AccountsTypeOK ==
    /\ deals \in Seq(DealStatuses)
    /\ act \in [Requests -> ActStates \cup {M!Idle}]

\* The trades whose cancellation a request has made and is about to count.
Counting == {act[r].trade : r \in {q \in Requests : M!At(q, "count")}}

\* Until somebody counts them to the threshold, too few cancellations are behind
\* their count; then the pause is under way, or made.
PauseDue ==
    /\ IsFiniteSet(counted)
    /\ \/ Cardinality(counted \ Counting) < PauseThreshold
       \/ suspended
       \/ \E r \in Requests : M!At(r, "pause")

\* A trade that a deletion passed by has ended, and nobody will lock or reveal it.
SeenEnded ==
    /\ seen \subseteq DOMAIN deals
    /\ seen \cap M!With(M!Active) = {}
    /\ \A r \in Requests : M!At(r, "write") /\ act[r].status \in M!Active => act[r].trade \notin seen

AccountsInv == AccountsTypeOK /\ PauseDue /\ SeenEnded

\* No trade, no request, and a threshold above none.
LEMMA AccountsInit == M!Init => AccountsInv
<1> SUFFICES ASSUME M!Init PROVE AccountsInv
  OBVIOUS
<1>1. AccountsTypeOK /\ \A r \in Requests : act[r].pc = "idle"
  BY DEF M!Init, AccountsTypeOK, M!Idle
<1>2. PauseDue
  <2>1. counted = {} /\ counted \ Counting = {}
    BY DEF M!Init
  <2>2. IsFiniteSet({}) /\ Cardinality({}) = 0
    BY FS_EmptySet
  <2>3. PauseThreshold \in Nat \ {0}
    BY ServicesAssumption
  <2>4. 0 < PauseThreshold
    BY <2>3
  <2> QED
    BY <2>1, <2>2, <2>4 DEF PauseDue
<1>3. SeenEnded
  BY <1>1 DEF M!Init, SeenEnded, M!At
<1> QED
  BY <1>1, <1>2, <1>3 DEF AccountsInv

\* A request whose await is over.
LEMMA ActMoves ==
    ASSUME AccountsTypeOK, NEW r \in Requests, NEW state \in ActStates \cup {M!Idle},
           M!Become(r, state)
    PROVE  /\ act' \in [Requests -> ActStates \cup {M!Idle}]
           /\ act'[r] = state
           /\ \A q \in Requests : q # r => act'[q] = act[q]
  BY DEF AccountsTypeOK, M!Become

\* What a request waits for tells what it carries.
LEMMA ActKinds ==
    ASSUME AccountsTypeOK, NEW r \in Requests
    PROVE  /\ M!At(r, "write") => act[r] \in [pc : {"write"}, trade : Nat, status : DealStatuses]
           /\ M!At(r, "finalize") \/ M!At(r, "count") =>
                act[r] \in [pc : {"finalize", "count"}, trade : Nat]
<1>1. act[r] \in ActStates \cup {M!Idle}
  BY DEF AccountsTypeOK
<1> QED
  BY <1>1 DEF ActStates, M!Idle, M!At

\* Whatever leaves no more cancellations behind their count, and no pause
\* undone, misses none.
LEMMA PauseStays ==
    ASSUME PauseDue, counted' \ Counting' \subseteq counted \ Counting,
           IsFiniteSet(counted'), suspended => suspended',
           \A r \in Requests : M!At(r, "pause") => M!At(r, "pause")'
    PROVE  PauseDue'
<1>1. CASE suspended \/ \E r \in Requests : M!At(r, "pause")
  BY <1>1 DEF PauseDue
<1>2. CASE Cardinality(counted \ Counting) < PauseThreshold
  <2>1. IsFiniteSet(counted \ Counting)
    BY FS_Subset DEF PauseDue
  <2>2. /\ Cardinality(counted' \ Counting') <= Cardinality(counted \ Counting)
        /\ Cardinality(counted' \ Counting') \in Nat /\ Cardinality(counted \ Counting) \in Nat
    BY <2>1, FS_Subset, FS_CardinalityType
  <2>3. PauseThreshold \in Nat
    BY ServicesAssumption
  <2>4. Cardinality(counted' \ Counting') < PauseThreshold
    BY <1>2, <2>2, <2>3
  <2> QED
    BY <2>4 DEF PauseDue
<1> QED
  BY <1>1, <1>2 DEF PauseDue

\* A row is written by its id; no trade that a deletion passed by becomes active.
LEMMA RowWritten ==
    ASSUME AccountsTypeOK, SeenEnded, NEW n \in Nat, NEW found \in DealStatuses,
           deals' = [deals EXCEPT ![n] = found], found \in M!Active => n \notin seen
    PROVE  /\ deals' \in Seq(DealStatuses) /\ DOMAIN deals' = DOMAIN deals
           /\ seen \cap M!With(M!Active)' = {}
<1>1. /\ DOMAIN deals = 1 .. Len(deals) /\ Len(deals) \in Nat
      /\ \A t \in 1 .. Len(deals) : deals[t] \in DealStatuses
  BY DEF AccountsTypeOK
<1>2. /\ DOMAIN deals' = DOMAIN deals
      /\ \A t \in DOMAIN deals : deals'[t] = IF t = n THEN found ELSE deals[t]
  OBVIOUS
<1>3. \A t \in 1 .. Len(deals) : deals'[t] \in DealStatuses
  BY <1>1, <1>2
<1>4. deals' = [t \in 1 .. Len(deals) |-> deals'[t]]
  BY <1>1
<1>5. deals' \in [1 .. Len(deals) -> DealStatuses]
  BY <1>3, <1>4
<1>6. deals' \in Seq(DealStatuses)
  BY <1>1, <1>5
<1>7. seen \cap M!With(M!Active)' = {}
  BY <1>2 DEF SeenEnded, M!With
<1> QED
  BY <1>2, <1>6, <1>7

\* A request that goes on without touching what is shared.
LEMMA ActQuiet ==
    ASSUME AccountsInv, NEW r \in Requests, NEW state \in ActStates \cup {M!Idle},
           M!Become(r, state), UNCHANGED <<deals, counted, suspended, seen>>,
           act[r].pc \notin {"count", "pause"},
           state.pc = "write" /\ state.status \in M!Active => state.trade \notin seen
    PROVE  AccountsInv'
<1>1. AccountsTypeOK /\ PauseDue /\ SeenEnded
  BY DEF AccountsInv
<1>2. /\ act' \in [Requests -> ActStates \cup {M!Idle}] /\ act'[r] = state
      /\ \A q \in Requests : q # r => act'[q] = act[q]
  BY <1>1, ActMoves
<1>3. AccountsTypeOK'
  BY <1>1, <1>2 DEF AccountsTypeOK
<1>4. PauseDue'
  <2>1. Counting \subseteq Counting'
    BY <1>2 DEF Counting, M!At
  <2>2. \A q \in Requests : M!At(q, "pause") => M!At(q, "pause")'
    BY <1>2 DEF M!At
  <2>3. IsFiniteSet(counted')
    BY <1>1 DEF PauseDue
  <2> QED
    BY <1>1, <2>1, <2>2, <2>3, PauseStays
<1>5. SeenEnded'
  BY <1>1, <1>2 DEF SeenEnded, M!With, M!At
<1> QED
  BY <1>3, <1>4, <1>5 DEF AccountsInv

\* A step of the merchant, the administration or a deletion.
LEMMA OwnerStep ==
    ASSUME AccountsInv, UNCHANGED <<deals, act>>, SeenEnded',
           \/ counted' = counted /\ (suspended => suspended')
           \/ counted' = {}
    PROVE  AccountsInv'
<1>1. AccountsTypeOK /\ PauseDue
  BY DEF AccountsInv
<1>2. AccountsTypeOK'
  BY <1>1 DEF AccountsTypeOK
<1>3. Counting' = Counting /\ \A r \in Requests : M!At(r, "pause")' = M!At(r, "pause")
  BY DEF Counting, M!At
<1>4. CASE counted' = counted /\ (suspended => suspended')
  <2>1. IsFiniteSet(counted')
    BY <1>1, <1>4 DEF PauseDue
  <2>2. PauseDue'
    BY <1>1, <1>3, <1>4, <2>1, PauseStays
  <2> QED
    BY <1>2, <2>2 DEF AccountsInv
<1>5. CASE counted' = {}
  <2>1. /\ IsFiniteSet(counted') /\ Cardinality(counted' \ Counting') = 0
        /\ PauseThreshold \in Nat \ {0}
    BY <1>5, FS_EmptySet, ServicesAssumption
  <2>2. Cardinality(counted' \ Counting') < PauseThreshold
    BY <2>1
  <2>3. PauseDue'
    BY <2>1, <2>2 DEF PauseDue
  <2> QED
    BY <1>2, <2>3 DEF AccountsInv
<1> QED
  BY <1>4, <1>5

\* A row is rewritten, by a request that is done with it or by nobody's; its
\* cancellation, if it was one, is not to be counted any more.
LEMMA RewriteKeeps ==
    ASSUME AccountsInv, NEW n \in Nat, NEW found \in DealStatuses, M!Rewrite(n, found),
           found \in M!Active => n \notin seen, UNCHANGED <<suspended, seen>>,
           \/ act' = act
           \/ \E r \in Requests : M!Become(r, M!Idle) /\ M!At(r, "write")
    PROVE  AccountsInv'
<1>1. AccountsTypeOK /\ PauseDue /\ SeenEnded
  BY DEF AccountsInv
<1>2. deals' = [deals EXCEPT ![n] = found] /\ counted' = counted \ {n}
  BY DEF M!Rewrite
<1>3. /\ deals' \in Seq(DealStatuses) /\ DOMAIN deals' = DOMAIN deals
      /\ seen \cap M!With(M!Active)' = {}
  BY <1>1, <1>2, RowWritten
<1>4. /\ act' \in [Requests -> ActStates \cup {M!Idle}]
      /\ \A q \in Requests :
           \/ act'[q] = act[q]
           \/ act[q].pc = "write" /\ act'[q].pc = "idle"
  <2>1. CASE act' = act
    BY <1>1, <2>1 DEF AccountsTypeOK
  <2>2. ASSUME NEW r \in Requests, M!Become(r, M!Idle), M!At(r, "write")
        PROVE  /\ act' \in [Requests -> ActStates \cup {M!Idle}]
               /\ \A q \in Requests :
                    \/ act'[q] = act[q]
                    \/ act[q].pc = "write" /\ act'[q].pc = "idle"
    <3>1. M!Idle.pc = "idle"
      BY DEF M!Idle
    <3> QED
      BY <1>1, <2>2, <3>1, ActMoves DEF M!At
  <2> QED
    BY <2>1, <2>2
<1>5. AccountsTypeOK'
  BY <1>3, <1>4 DEF AccountsTypeOK
<1>6. PauseDue'
  <2>1. Counting \subseteq Counting' /\ \A q \in Requests : M!At(q, "pause") => M!At(q, "pause")'
    BY <1>4 DEF Counting, M!At
  <2>2. IsFiniteSet(counted')
    BY <1>1, <1>2, FS_Subset DEF PauseDue
  <2> QED
    BY <1>1, <1>2, <2>1, <2>2, PauseStays
<1>7. SeenEnded'
  BY <1>1, <1>3, <1>4 DEF SeenEnded, M!At
<1> QED
  BY <1>5, <1>6, <1>7 DEF AccountsInv

\* The requests before a trade, and those that read its status.
LEMMA PreparesKeep ==
    ASSUME AccountsInv, NEW r \in Requests,
           \/ M!Create(r) \/ M!CheckMerchant(r)
           \/ \E t \in DOMAIN deals :
                \/ M!LockTrade(r, t) \/ M!RevealTrade(r, t) \/ M!CompleteTrade(r, t)
                \/ M!RefundTrade(r, t) \/ \E u \in {"buyer", "seller"} : M!Cancel(r, u, t)
    PROVE  AccountsInv'
<1>1. AccountsTypeOK /\ SeenEnded /\ DOMAIN deals \subseteq Nat
  BY DEF AccountsInv, AccountsTypeOK
<1>2. ASSUME NEW state \in ActStates \cup {M!Idle}, M!Become(r, state),
             UNCHANGED <<M!rowVars, M!userVars>>, act[r].pc \in {"idle", "merchant"},
             state.pc = "write" /\ state.status \in M!Active => state.trade \notin seen
      PROVE  AccountsInv'
  BY <1>2, ActQuiet DEF M!rowVars, M!userVars
<1>3. CASE M!Create(r)
  <2>1. PICK state : state = [pc |-> "merchant"]
    OBVIOUS
  <2>2. state \in ActStates /\ state.pc = "merchant"
    BY <2>1 DEF ActStates
  <2> QED
    BY <1>2, <1>3, <2>1, <2>2 DEF M!Create, M!At
<1>4. CASE M!CheckMerchant(r)
  <2>1. PICK state \in {M!Idle, [pc |-> "insert"]} : M!Become(r, state)
    BY <1>4 DEF M!CheckMerchant
  <2>2. state \in ActStates \cup {M!Idle} /\ state.pc \in {"idle", "insert"}
    BY <2>1 DEF ActStates, M!Idle
  <2> QED
    BY <1>2, <1>4, <2>1, <2>2 DEF M!CheckMerchant, M!At
<1>5. ASSUME NEW t \in DOMAIN deals, NEW found \in DealStatuses, M!Prepare(r, t, found),
             found \in M!Active => deals[t] \in M!Active
      PROVE  AccountsInv'
  <2>1. PICK state : state = [pc |-> "write", trade |-> t, status |-> found]
    OBVIOUS
  <2>2. state \in ActStates /\ state.status = found /\ state.trade = t
    BY <1>1, <2>1 DEF ActStates
  <2>3. deals[t] \in M!Active => t \notin seen
    BY <1>1 DEF SeenEnded, M!With
  <2> QED
    BY <1>2, <1>5, <2>1, <2>2, <2>3 DEF M!Prepare, M!At
<1>6. ASSUME NEW t \in DOMAIN deals, M!LockTrade(r, t) \/ M!RevealTrade(r, t)
      PROVE  AccountsInv'
  BY <1>5, <1>6 DEF M!LockTrade, M!RevealTrade, M!Active, DealStatuses
<1>7. ASSUME NEW t \in DOMAIN deals, M!CompleteTrade(r, t) \/ M!RefundTrade(r, t)
      PROVE  AccountsInv'
  BY <1>5, <1>7 DEF M!CompleteTrade, M!RefundTrade, M!Active, DealStatuses
<1>8. ASSUME NEW t \in DOMAIN deals, NEW u \in {"buyer", "seller"}, M!Cancel(r, u, t)
      PROVE  AccountsInv'
  <2>1. PICK state : state = [pc |-> "finalize", trade |-> t]
    OBVIOUS
  <2>2. state \in ActStates /\ state.pc = "finalize"
    BY <1>1, <2>1 DEF ActStates
  <2> QED
    BY <1>2, <1>8, <2>1, <2>2 DEF M!Cancel, M!At
<1> QED
  BY <1>3, <1>4, <1>6, <1>7, <1>8

\* A new trade, which no deletion has passed by.
LEMMA NewTradeKeeps ==
    ASSUME AccountsInv, NEW r \in Requests, M!Insert(r) PROVE AccountsInv'
<1>1. AccountsTypeOK /\ PauseDue /\ SeenEnded
  BY DEF AccountsInv
<1>2. /\ deals' = Append(deals, "pending") /\ M!Become(r, M!Idle) /\ act[r].pc = "insert"
      /\ UNCHANGED <<counted, suspended, seen>>
  BY DEF M!Insert, M!At, M!userVars
<1>3. /\ act' \in [Requests -> ActStates \cup {M!Idle}] /\ act'[r].pc = "idle"
      /\ \A q \in Requests : q # r => act'[q] = act[q]
  <2>1. M!Idle.pc = "idle"
    BY DEF M!Idle
  <2> QED
    BY <1>1, <1>2, <2>1, ActMoves
<1>4. /\ deals' \in Seq(DealStatuses) /\ DOMAIN deals \subseteq DOMAIN deals'
      /\ \A t \in DOMAIN deals : deals'[t] = deals[t]
  BY <1>1, <1>2 DEF AccountsTypeOK, DealStatuses, M!Active
<1>5. AccountsTypeOK'
  BY <1>3, <1>4 DEF AccountsTypeOK
<1>6. PauseDue'
  <2>1. Counting \subseteq Counting' /\ \A q \in Requests : M!At(q, "pause") => M!At(q, "pause")'
    BY <1>2, <1>3 DEF Counting, M!At
  <2>2. IsFiniteSet(counted')
    BY <1>1, <1>2 DEF PauseDue
  <2> QED
    BY <1>1, <1>2, <2>1, <2>2, PauseStays
<1>7. SeenEnded'
  <2>1. seen \cap M!With(M!Active)' = {}
    BY <1>1, <1>4 DEF SeenEnded, M!With
  <2> QED
    BY <1>1, <1>2, <1>3, <1>4, <2>1 DEF SeenEnded, M!At
<1> QED
  BY <1>5, <1>6, <1>7 DEF AccountsInv

\* A request writes what it had decided on.
LEMMA WriteKeeps ==
    ASSUME AccountsInv, NEW r \in Requests, M!WriteStatus(r) PROVE AccountsInv'
<1>1. act[r] \in [pc : {"write"}, trade : Nat, status : DealStatuses]
  BY ActKinds DEF AccountsInv, M!WriteStatus
<1>2. PICK n \in Nat, found \in DealStatuses : n = act[r].trade /\ found = act[r].status
  BY <1>1
<1>3. M!Rewrite(n, found) /\ M!Become(r, M!Idle) /\ M!At(r, "write") /\ UNCHANGED <<suspended, seen>>
  BY <1>2 DEF M!WriteStatus, M!userVars
<1>4. found \in M!Active => n \notin seen
  BY <1>2, <1>3 DEF AccountsInv, SeenEnded
<1> QED
  BY <1>3, <1>4, RewriteKeeps

\* The dispatcher and the resolution of disputes make no trade active.
LEMMA OthersKeep ==
    ASSUME AccountsInv, NEW t \in DOMAIN deals, NEW found \in {"completed", "cancelled", "refunded"},
           M!HandleEvent(t, found) \/ M!ResolveDispute(t, found)
    PROVE  AccountsInv'
<1>1. t \in Nat /\ found \in DealStatuses /\ found \notin M!Active
  BY DEF AccountsInv, AccountsTypeOK, DealStatuses, M!Active
<1>2. M!Rewrite(t, found) /\ UNCHANGED <<suspended, seen, act>>
  BY DEF M!HandleEvent, M!ResolveDispute, M!userVars
<1> QED
  BY <1>1, <1>2, RewriteKeeps

\* A cancellation ends its trade, whatever that has become, and is to be counted.
LEMMA FinalizeKeeps ==
    ASSUME AccountsInv, NEW r \in Requests, M!Finalize(r) PROVE AccountsInv'
<1>1. AccountsTypeOK /\ PauseDue /\ SeenEnded
  BY DEF AccountsInv
<1>2. act[r] \in [pc : {"finalize", "count"}, trade : Nat] /\ act[r].pc = "finalize"
  BY <1>1, ActKinds DEF M!Finalize, M!At
<1>3. PICK n \in Nat : n = act[r].trade
  BY <1>2
<1>4. /\ deals' = [deals EXCEPT ![n] = "cancelled"] /\ counted' = counted \cup {n}
      /\ UNCHANGED <<suspended, seen>>
  BY <1>3 DEF M!Finalize, M!userVars
<1>5. PICK state : state = [act[r] EXCEPT !.pc = "count"]
  OBVIOUS
<1>6. state \in ActStates /\ state.pc = "count" /\ state.trade = n /\ M!Become(r, state)
  BY <1>2, <1>3, <1>5 DEF ActStates, M!Finalize
<1>7. /\ act' \in [Requests -> ActStates \cup {M!Idle}] /\ act'[r] = state
      /\ \A q \in Requests : q # r => act'[q] = act[q]
  BY <1>1, <1>6, ActMoves
<1>8. /\ deals' \in Seq(DealStatuses) /\ DOMAIN deals' = DOMAIN deals
      /\ seen \cap M!With(M!Active)' = {}
  BY <1>1, <1>4, RowWritten DEF DealStatuses, M!Active
<1>9. AccountsTypeOK'
  BY <1>7, <1>8 DEF AccountsTypeOK
<1>10. PauseDue'
  <2>1. Counting \cup {n} \subseteq Counting'
    BY <1>2, <1>6, <1>7 DEF Counting, M!At
  <2>2. \A q \in Requests : M!At(q, "pause") => M!At(q, "pause")'
    BY <1>2, <1>7 DEF M!At
  <2>3. IsFiniteSet(counted')
    BY <1>1, <1>4, FS_AddElement DEF PauseDue
  <2> QED
    BY <1>1, <1>4, <2>1, <2>2, <2>3, PauseStays
<1>11. SeenEnded'
  BY <1>1, <1>4, <1>6, <1>7, <1>8 DEF SeenEnded, M!At
<1> QED
  BY <1>9, <1>10, <1>11 DEF AccountsInv

\* A cancellation that has ended its trade counts, pauses the merchant, or fails.
LEMMA CountMoves ==
    ASSUME AccountsInv, NEW r \in Requests, NEW state \in ActStates \cup {M!Idle},
           M!Become(r, state), state.pc \in {"pause", "idle"}, UNCHANGED <<deals, seen>>,
           PauseDue'
    PROVE  AccountsInv'
<1>1. AccountsTypeOK /\ SeenEnded
  BY DEF AccountsInv
<1>2. /\ act' \in [Requests -> ActStates \cup {M!Idle}] /\ act'[r] = state
      /\ \A q \in Requests : q # r => act'[q] = act[q]
  BY <1>1, ActMoves
<1>3. AccountsTypeOK'
  BY <1>1, <1>2 DEF AccountsTypeOK
<1>4. SeenEnded'
  BY <1>1, <1>2 DEF SeenEnded, M!With, M!At
<1> QED
  BY <1>3, <1>4 DEF AccountsInv

\* The cancellations are counted, and reach the threshold or do not.
LEMMA CountKeeps ==
    ASSUME AccountsInv, NEW r \in Requests, M!CountCancelled(r) PROVE AccountsInv'
<1>1. AccountsTypeOK
  BY DEF AccountsInv
<1> DEFINE Cancelled == M!With({"cancelled"})
<1>2. counted' = Cancelled /\ UNCHANGED <<deals, seen>>
  BY DEF M!CountCancelled, M!userVars
<1>3. IsFiniteSet(Cancelled)
  <2>1. Cancelled \subseteq 1 .. Len(deals) /\ Len(deals) \in Nat
    BY <1>1 DEF AccountsTypeOK, M!With
  <2>2. IsFiniteSet(1 .. Len(deals))
    BY <2>1, FS_Interval
  <2> QED
    BY <2>1, <2>2, FS_Subset
<1>4. CASE Cardinality(Cancelled) >= PauseThreshold
  <2>1. PICK state : state = [pc |-> "pause"]
    OBVIOUS
  <2>2. state \in ActStates /\ state.pc = "pause" /\ M!Become(r, state)
    BY <1>4, <2>1 DEF ActStates, M!CountCancelled, M!Cardinality, Cardinality
  <2>3. act'[r].pc = "pause"
    BY <1>1, <2>2, ActMoves
  <2>4. PauseDue'
    BY <1>2, <1>3, <2>3 DEF PauseDue, M!At
  <2> QED
    BY <1>2, <2>2, <2>4, CountMoves
<1>5. CASE ~ (Cardinality(Cancelled) >= PauseThreshold)
  <2>1. M!Become(r, M!Idle) /\ M!Idle.pc = "idle"
    BY <1>5 DEF M!CountCancelled, M!Cardinality, Cardinality, M!Idle
  <2>2. /\ Cardinality(Cancelled \ Counting') <= Cardinality(Cancelled)
        /\ Cardinality(Cancelled \ Counting') \in Nat /\ Cardinality(Cancelled) \in Nat
    BY <1>3, FS_Subset, FS_CardinalityType
  <2>3. PauseThreshold \in Nat
    BY ServicesAssumption
  <2>4. Cardinality(Cancelled \ Counting') < PauseThreshold
    BY <1>5, <2>2, <2>3
  <2>5. PauseDue'
    BY <1>2, <1>3, <2>4 DEF PauseDue
  <2> QED
    BY <1>2, <2>1, <2>5, CountMoves
<1> QED
  BY <1>4, <1>5

\* A request that fails takes what it was about to count out of the count.
LEMMA FailsKeep ==
    ASSUME AccountsInv, NEW r \in Requests, M!Fails(r) PROVE AccountsInv'
<1>1. AccountsTypeOK /\ PauseDue
  BY DEF AccountsInv
<1>2. M!Become(r, M!Idle) /\ M!Idle.pc = "idle" /\ UNCHANGED <<deals, suspended, seen>>
  BY DEF M!Fails, M!userVars, M!Idle
<1>3. \A q \in Requests : act'[q] = IF q = r THEN M!Idle ELSE act[q]
  BY <1>1, <1>2, ActMoves
<1>4. CASE act[r].pc = "count"
  <2>1. counted' = counted \ {act[r].trade}
    BY <1>4 DEF M!Fails, M!At
  <2>2. counted' \ Counting' \subseteq counted \ Counting
    BY <1>2, <1>3, <2>1 DEF Counting, M!At
  <2>3. \A q \in Requests : M!At(q, "pause") => M!At(q, "pause")'
    BY <1>3, <1>4 DEF M!At
  <2>4. IsFiniteSet(counted')
    BY <1>1, <2>1, FS_Subset DEF PauseDue
  <2>5. PauseDue'
    BY <1>1, <1>2, <2>2, <2>3, <2>4, PauseStays
  <2> QED
    BY <1>2, <2>5, CountMoves
<1>5. CASE act[r].pc = "pause"
  <2>1. counted' = {}
    BY <1>5 DEF M!Fails, M!At
  <2>2. /\ IsFiniteSet(counted') /\ Cardinality(counted' \ Counting') = 0
        /\ PauseThreshold \in Nat \ {0}
    BY <2>1, FS_EmptySet, ServicesAssumption
  <2>3. Cardinality(counted' \ Counting') < PauseThreshold
    BY <2>2
  <2>4. PauseDue'
    BY <2>2, <2>3 DEF PauseDue
  <2> QED
    BY <1>2, <2>4, CountMoves
<1>6. CASE act[r].pc \notin {"count", "pause"}
  <2>1. counted' = counted
    BY <1>6 DEF M!Fails, M!At
  <2> QED
    BY <1>2, <1>6, <2>1, ActQuiet
<1> QED
  BY <1>4, <1>5, <1>6

\* Every step of the requests, the administration and the deletions keeps the
\* invariant.
LEMMA AccountsStep == AccountsInv /\ [M!Next]_accountVars => AccountsInv'
<1> SUFFICES ASSUME AccountsInv, [M!Next]_accountVars PROVE AccountsInv'
  OBVIOUS
<1>1. AccountsTypeOK /\ PauseDue /\ SeenEnded
  BY DEF AccountsInv
<1>2. UNCHANGED <<deals, act, seen>> => SeenEnded'
  BY <1>1 DEF SeenEnded, M!With, M!At
<1>3. ASSUME NEW r \in Requests, M!AutoPause(r) PROVE AccountsInv'
  <2>1. /\ M!Become(r, M!Idle) /\ M!Idle.pc = "idle" /\ suspended'
        /\ UNCHANGED <<deals, counted, seen>>
    BY <1>3 DEF M!AutoPause, M!rowVars, M!Idle
  <2>2. PauseDue'
    BY <1>1, <2>1 DEF PauseDue
  <2> QED
    BY <2>1, <2>2, CountMoves
<1>4. CASE M!Suspend \/ M!SetAvailability \/ M!MarkDeleted \/ UNCHANGED accountVars
  <2>1. UNCHANGED <<deals, act, seen, counted>> /\ (suspended => suspended')
    BY <1>4 DEF M!Suspend, M!SetAvailability, M!MarkDeleted, accountVars, M!rowVars
  <2> QED
    BY <1>2, <2>1, OwnerStep
<1>5. CASE M!Unsuspend
  <2>1. UNCHANGED <<deals, act, seen>> /\ counted' = {}
    BY <1>5 DEF M!Unsuspend
  <2> QED
    BY <1>2, <2>1, OwnerStep
<1>6. CASE M!CheckTrades
  <2>1. /\ UNCHANGED <<deals, act, counted, suspended>> /\ M!With(M!Active) = {}
        /\ seen' = seen \cup (DOMAIN deals \ M!Moving)
    BY <1>6 DEF M!CheckTrades, M!rowVars
  <2>2. M!With(M!Active)' = {}
    BY <2>1 DEF M!With
  <2>3. ASSUME NEW r \in Requests, M!At(r, "write"), act[r].status \in M!Active
        PROVE  act[r].trade \in M!Moving
    BY <2>3 DEF M!Moving
  <2>4. SeenEnded'
    BY <1>1, <2>1, <2>2, <2>3 DEF SeenEnded, M!At
  <2> QED
    BY <2>1, <2>4, OwnerStep
<1> QED
  BY <1>3, <1>4, <1>5, <1>6, PreparesKeep, NewTradeKeeps, WriteKeeps, OthersKeep, FinalizeKeeps,
     CountKeeps, FailsKeep DEF M!Next

\* So it always holds.
LEMMA AccountsHold == Spec => []AccountsInv
<1>1. Init => AccountsInv
  BY AccountsInit DEF Init
<1>2. AccountsInv /\ [Next]_vars => AccountsInv'
  BY AccountsStep, UserParts
<1> QED
  BY <1>1, <1>2, PTL DEF Spec

\* No cancellation that was counted, or will be, is missed at the threshold,
\* whichever of several counted last.
THEOREM PauseNotMissedHolds == Spec => []PauseNotMissed
<1>1. AccountsInv => PauseNotMissed
  <2> SUFFICES ASSUME AccountsInv, ~ suspended,
                      ~ \E r \in Requests : M!At(r, "count") \/ M!At(r, "pause")
               PROVE  Cardinality(counted) < PauseThreshold
    BY DEF PauseNotMissed, M!PauseNotMissed, M!Cardinality, Cardinality
  <2>1. Counting = {}
    BY DEF Counting
  <2>2. counted \ Counting = counted
    BY <2>1
  <2> QED
    BY <2>2 DEF AccountsInv, PauseDue
<1> QED
  BY <1>1, AccountsHold, PTL

\* No trade that the deletion of an account passed by as ended is active again.
THEOREM TradesBlockDeletionHolds == Spec => []TradesBlockDeletion
<1>1. AccountsInv => TradesBlockDeletion
  BY DEF AccountsInv, SeenEnded, TradesBlockDeletion, M!TradesBlockDeletion
<1> QED
  BY <1>1, AccountsHold, PTL
=============================================================================
