---------------------------- MODULE ClaimTokens -----------------------------
(***************************************************************************)
(* The claim tokens of the cash-out QR code: GET /trades/:id/secret issues *)
(* one for a trade that is being revealed, and the merchant's scan,        *)
(* POST /trades/:id/merchant-confirm, consumes it.                         *)
(*                                                                         *)
(* consumeClaimToken is three statements: a look, a conditional update,    *)
(* and a second look at who consumed.  Only the seller of the trade gets   *)
(* so far, so all the scans of a token are of one user.                    *)
(***************************************************************************)
EXTENDS Integers

CONSTANTS
    Codes,              \* the tokens that may be issued for the trade
    Scans               \* the scans that can be in progress together

VARIABLES
    phase,              \* status of the trade
    late,               \* the trade is past expires_at
    code,               \* each token: "none", "live", "expired" or "consumed"
    confirmed,          \* the tokens some scan was confirmed with
    scan                \* each scan: the await it is at, and its token

vars == <<phase, late, code, confirmed, scan>>

Idle == [pc |-> "idle"]

At(s, pc) == scan[s].pc = pc

Become(s, state) == scan' = [scan EXCEPT ![s] = state]

Goto(s, pc) == Become(s, [scan[s] EXCEPT !.pc = pc])

Init ==
    /\ phase = "locked"
    /\ late = FALSE
    /\ code = [c \in Codes |-> "none"]
    /\ confirmed = {}
    /\ scan = [s \in Scans |-> Idle]

-----------------------------------------------------------------------------
(* The trade, as far as a scan looks at it.                                *)

Advance ==
    /\ \/ phase = "locked" /\ phase' \in {"revealing", "cancelled"}
       \/ phase = "revealing" /\ phase' \in {"completed", "cancelled"}
    /\ UNCHANGED <<late, code, confirmed, scan>>

\* A token does not outlive its trade.
TradeExpires ==
    /\ ~ late
    /\ late' = TRUE
    /\ code' = [c \in Codes |-> IF code[c] = "live" THEN "expired" ELSE code[c]]
    /\ UNCHANGED <<phase, confirmed, scan>>

CodeExpires(c) ==
    /\ code[c] = "live"
    /\ code' = [code EXCEPT ![c] = "expired"]
    /\ UNCHANGED <<phase, late, confirmed, scan>>

\* getTradeSecret.
Issue(c) ==
    /\ phase = "revealing"
    /\ ~ late
    /\ code[c] = "none"
    /\ code' = [code EXCEPT ![c] = "live"]
    /\ UNCHANGED <<phase, late, confirmed, scan>>

-----------------------------------------------------------------------------
(* merchantConfirmScan.  again: a scan was confirmed with the token before *)
(* this one was sent.                                                      *)

\* Checks 1 to 4, of the trade.
Scan(s, c) ==
    /\ At(s, "idle")
    /\ code[c] # "none"
    /\ phase \notin {"completed", "cancelled"}
    /\ ~ late
    /\ Become(s, [pc |-> "look", code |-> c, again |-> c \in confirmed])
    /\ UNCHANGED <<phase, late, code, confirmed>>

\* Mutant: what the update and the second look find out is enough.
LookForExpiry(s) ==
    /\ At(s, "look")
    /\ IF code[scan[s].code] # "expired" THEN Goto(s, "consume") ELSE Become(s, Idle)
    /\ UNCHANGED <<phase, late, code, confirmed>>

Look(s) ==
    /\ At(s, "look")
    /\ IF code[scan[s].code] = "live" THEN Goto(s, "consume") ELSE Become(s, Idle)
    /\ UNCHANGED <<phase, late, code, confirmed>>

\* UPDATE ... WHERE consumed_at IS NULL.
Consume(s) ==
    /\ At(s, "consume")
    /\ code' = [code EXCEPT ![scan[s].code] = "consumed"]
    /\ Goto(s, "lookAgain")
    /\ UNCHANGED <<phase, late, confirmed>>

\* consumed_by is this merchant, whichever scan of it wrote it.
LookAgain(s) ==
    /\ At(s, "lookAgain")
    /\ Goto(s, "confirm")
    /\ UNCHANGED <<phase, late, code, confirmed>>

Confirm(s) ==
    /\ At(s, "confirm")
    /\ confirmed' = confirmed \cup {scan[s].code}
    /\ Become(s, Idle)
    /\ UNCHANGED <<phase, late, code>>

\* An await rejects, or the process restarts.
Fails(s) ==
    /\ scan[s] # Idle
    /\ Become(s, Idle)
    /\ UNCHANGED <<phase, late, code, confirmed>>

Next ==
    \/ Advance \/ TradeExpires
    \/ \E c \in Codes : CodeExpires(c) \/ Issue(c) \/ \E s \in Scans : Scan(s, c)
    \/ \E s \in Scans : Look(s) \/ Consume(s) \/ LookAgain(s) \/ Confirm(s) \/ Fails(s)

Spec == Init /\ [][Next]_vars

-----------------------------------------------------------------------------
(* Properties.                                                             *)

\* A code that was confirmed is burnt: no later scan of it gets past the first
\* look.  Two scans at the same time can both be confirmed, although the comment
\* on consumeClaimToken lets only one of them win.
BurntCodesFail == \A s \in Scans : ~ At(s, "idle") /\ scan[s].again => At(s, "look")
=============================================================================
