------------------------------ MODULE Sessions ------------------------------
(***************************************************************************)
(* Logging in and out of the backend.  POST /auth/challenge stores one     *)
(* challenge per address, POST /auth/token exchanges a signed one for a    *)
(* token, POST /auth/logout revokes the token, and authMiddleware checks   *)
(* the token of every other request.                                       *)
(*                                                                         *)
(* Challenges and the first list of revoked tokens are in the memory of    *)
(* the process; the second list is a table.  A request is interrupted at   *)
(* each of its awaits; requests are not lost, but a restart ends them.     *)
(* Signatures and the forms of tokens are left out: a login here holds the *)
(* key of its address.                                                     *)
(***************************************************************************)
EXTENDS Integers, FiniteSets, Functions

CONSTANTS
    Addresses,          \* the users' addresses
    Requests,           \* the requests that can be in progress together
    MaxChallenges,      \* CHALLENGES_MAX_SIZE
    MaxIssued,          \* bounds the challenges ever issued
    MaxTokens           \* bounds the tokens ever issued

VARIABLES
    challenges,         \* the Map; since tells the order of its keys
    issued,             \* how many challenges were issued
    accepted,           \* how often each challenge was accepted
    tokens,             \* how many tokens were issued
    expired,            \* the tokens that expired
    blacklist,          \* memBlacklist
    rows,               \* revoked_tokens
    out,                \* the tokens whose logout was answered
    forgotten,          \* the tokens a restart dropped from the memory
    unsaved,            \* the tokens whose row was refused by the table
    session             \* each request: the await it is at, and what it carries

vars == <<challenges, issued, accepted, tokens, expired, blacklist, rows, out,
          forgotten, unsaved, session>>

tokenVars == <<tokens, expired, blacklist, rows, out, forgotten, unsaved>>

Challenges == 1 .. MaxIssued

Tokens == 1 .. MaxTokens

Idle == [pc |-> "idle"]

At(r, pc) == session[r].pc = pc

Become(r, state) == session' = [session EXCEPT ![r] = state]

-----------------------------------------------------------------------------
Init ==
    /\ challenges = [a \in {} |-> Idle]
    /\ issued = 0
    /\ accepted = [c \in Challenges |-> 0]
    /\ tokens = 0
    /\ expired = {}
    /\ blacklist = {}
    /\ rows = {}
    /\ out = {}
    /\ forgotten = {}
    /\ unsaved = {}
    /\ session = [r \in Requests |-> Idle]

(* Challenges.                                                             *)

Without(a) == Restrict(challenges, DOMAIN challenges \ {a})

Oldest ==
    CHOOSE a \in DOMAIN challenges :
        \A b \in DOMAIN challenges : challenges[a].since <= challenges[b].since

\* A new challenge replaces the address's old one, if that is kept, in place.
Store(a, kept) ==
    /\ issued < MaxIssued
    /\ issued' = issued + 1
    /\ challenges' = [b \in kept \cup {a} |->
            IF b # a THEN challenges[b]
            ELSE [challenge |-> issued + 1, live |-> TRUE,
                  since |-> IF a \in kept THEN challenges[a].since ELSE issued + 1]]
    /\ UNCHANGED <<accepted, session, tokenVars>>

\* Mutant: the store may hold one more.
IssueChallengePastLimit(a) ==
    Store(a, IF Cardinality(DOMAIN challenges) > MaxChallenges THEN DOMAIN challenges \ {Oldest}
             ELSE DOMAIN challenges)

\* A full store loses its oldest challenge, even to one that only replaces.
IssueChallenge(a) ==
    Store(a, IF Cardinality(DOMAIN challenges) >= MaxChallenges THEN DOMAIN challenges \ {Oldest}
             ELSE DOMAIN challenges)

ChallengeExpires(a) ==
    /\ challenges[a].live
    /\ challenges' = [challenges EXCEPT ![a].live = FALSE]
    /\ UNCHANGED <<issued, accepted, session, tokenVars>>

Prune ==
    LET live == {a \in DOMAIN challenges : challenges[a].live} IN
    /\ live # DOMAIN challenges
    /\ challenges' = Restrict(challenges, live)
    /\ UNCHANGED <<issued, accepted, session, tokenVars>>

\* verifyAndConsumeChallenge up to its await.
Login(r, a, c) ==
    /\ At(r, "idle")
    /\ a \in DOMAIN challenges /\ challenges[a].challenge = c
    /\ IF challenges[a].live
       THEN /\ Become(r, [pc |-> "verify", address |-> a, challenge |-> c])
            /\ UNCHANGED challenges
       ELSE challenges' = Without(a) /\ UNCHANGED session
    /\ UNCHANGED <<issued, accepted, tokenVars>>

\* Mutant: the challenge is left to expire.
VerifiedKeeping(r) ==
    /\ At(r, "verify")
    /\ accepted' = [accepted EXCEPT ![session[r].challenge] = @ + 1]
    /\ Become(r, [pc |-> "user"])
    /\ UNCHANGED <<challenges, issued, tokenVars>>

\* The signature is good: the address's challenge is deleted, whichever it is.
Verified(r) ==
    /\ At(r, "verify")
    /\ accepted' = [accepted EXCEPT ![session[r].challenge] = @ + 1]
    /\ challenges' = Without(session[r].address)
    /\ Become(r, [pc |-> "user"])
    /\ UNCHANGED <<issued, tokenVars>>

\* The user's row is found and a token signed.
IssueToken(r) ==
    /\ At(r, "user")
    /\ tokens < MaxTokens
    /\ tokens' = tokens + 1
    /\ Become(r, Idle)
    /\ UNCHANGED <<challenges, issued, accepted, expired, blacklist, rows, out,
                   forgotten, unsaved>>

\* There is no such user, or an await rejects.
LoginFails(r) ==
    /\ At(r, "verify") \/ At(r, "user")
    /\ Become(r, Idle)
    /\ UNCHANGED <<challenges, issued, accepted, tokenVars>>

-----------------------------------------------------------------------------
(* Tokens.  late: the request was sent when the token's logout was answered;*)
(* blind: the table could not be read.                                     *)

Idles == UNCHANGED <<challenges, issued, accepted>>

Authenticate(r, t, logout) ==
    /\ At(r, "idle")
    /\ t <= tokens
    /\ t \notin expired
    /\ Become(r, [pc |-> "revoked", token |-> t, logout |-> logout,
                  late |-> t \in out, blind |-> FALSE])
    /\ Idles /\ UNCHANGED tokenVars

\* isRevoked up to its query.
LookInMemory(r) ==
    /\ At(r, "revoked")
    /\ blacklist' = blacklist \ expired
    /\ IF session[r].token \in blacklist'
       THEN Become(r, Idle)
       ELSE Become(r, [session[r] EXCEPT !.pc = "query"])
    /\ Idles /\ UNCHANGED <<tokens, expired, rows, out, forgotten, unsaved>>

\* Mutant: the table is left to the reports.
LookNowhere(r) ==
    /\ At(r, "query")
    /\ Become(r, [session[r] EXCEPT !.pc = "account"])
    /\ Idles /\ UNCHANGED <<tokens, expired, blacklist, rows, out, forgotten, unsaved>>

\* A row bars the token, unless the token has just expired; a query that
\* rejects counts as no row.
LookInTable(r) ==
    LET t == session[r].token IN
    /\ At(r, "query")
    /\ \/ /\ t \in rows \ expired
          /\ blacklist' = blacklist \cup {t}
          /\ Become(r, Idle)
       \/ /\ t \notin rows \ expired
          /\ Become(r, [session[r] EXCEPT !.pc = "account"])
          /\ UNCHANGED blacklist
       \/ /\ Become(r, [session[r] EXCEPT !.pc = "account", !.blind = TRUE])
          /\ UNCHANGED blacklist
    /\ Idles /\ UNCHANGED <<tokens, expired, rows, out, forgotten, unsaved>>

\* The account's row: the handler runs; or it was deleted, suspended or banned,
\* or the query rejects, and the answer is 401 or 403.
CheckAccount(r) ==
    /\ At(r, "account")
    /\ \/ Become(r, [session[r] EXCEPT !.pc = "handler"])
       \/ Become(r, Idle)
    /\ Idles /\ UNCHANGED tokenVars

Handle(r) ==
    /\ At(r, "handler")
    /\ ~ session[r].logout
    /\ Become(r, Idle)
    /\ Idles /\ UNCHANGED tokenVars

Logout(r) ==
    /\ At(r, "handler")
    /\ session[r].logout
    /\ blacklist' = blacklist \cup {session[r].token}
    /\ Become(r, [session[r] EXCEPT !.pc = "persist"])
    /\ Idles /\ UNCHANGED <<tokens, expired, rows, out, forgotten, unsaved>>

\* The insert may reject, which is ignored.
Persist(r) ==
    LET t == session[r].token IN
    /\ At(r, "persist")
    /\ \/ rows' = rows \cup {t} /\ UNCHANGED unsaved
       \/ unsaved' = unsaved \cup {t} /\ UNCHANGED rows
    /\ out' = out \cup {t}
    /\ Become(r, Idle)
    /\ Idles /\ UNCHANGED <<tokens, expired, blacklist, forgotten>>

TokenExpires(t) ==
    /\ t <= tokens
    /\ t \notin expired
    /\ expired' = expired \cup {t}
    /\ Idles /\ UNCHANGED <<tokens, blacklist, rows, out, forgotten, unsaved, session>>

Restart ==
    /\ challenges' = [a \in {} |-> Idle]
    /\ blacklist' = {}
    /\ forgotten' = forgotten \cup blacklist
    /\ session' = [r \in Requests |-> Idle]
    /\ UNCHANGED <<issued, accepted, tokens, expired, rows, out, unsaved>>

-----------------------------------------------------------------------------
Next ==
    \/ \E a \in Addresses : IssueChallenge(a)
    \/ \E a \in DOMAIN challenges : ChallengeExpires(a)
    \/ Prune
    \/ \E r \in Requests :
        \/ \E a \in Addresses, c \in Challenges : Login(r, a, c)
        \/ Verified(r) \/ IssueToken(r) \/ LoginFails(r)
        \/ \E t \in Tokens, logout \in BOOLEAN : Authenticate(r, t, logout)
        \/ LookInMemory(r) \/ LookInTable(r) \/ CheckAccount(r)
        \/ Handle(r) \/ Logout(r) \/ Persist(r)
    \/ \E t \in Tokens : TokenExpires(t)
    \/ Restart

Spec == Init /\ [][Next]_vars

-----------------------------------------------------------------------------
(* Properties.                                                             *)

\* The memory for challenges stays within its limit, through replacements,
\* expiries, prunings and logins that end in any order.
ChallengesBounded == Cardinality(DOMAIN challenges) <= MaxChallenges

\* A challenge that was accepted is accepted again only by a login that was
\* already past its checks: it does not come back by pruning, by being pushed
\* out, by a newer challenge of the address, or by a restart.
ChallengeSpent ==
    [][\A c \in Challenges :
        /\ accepted[c] > 0
        /\ \A r \in Requests : ~ (At(r, "verify") /\ session[r].challenge = c)
        => \A r \in Requests : ~ (session'[r].pc = "verify" /\ session'[r].challenge = c)
      ]_vars

\* A request sent after the answer to its token's logout reaches a handler only
\* when the token expired under it, or when a restart dropped the token from
\* the memory and the table had refused its row or could not be read.
LogoutHolds ==
    \A r \in Requests : At(r, "handler") /\ session[r].late =>
        LET t == session[r].token IN
        \/ t \in expired
        \/ t \in forgotten /\ (t \in unsaved \/ session[r].blind)
=============================================================================
