------------------------------ MODULE Services ------------------------------
(* The services that share no state with the settlement or with each       *)
(* other.  One of them runs in each behaviour, chosen at the start; the    *)
(* others stay in their initial state: interleaving them would show        *)
(* nothing, and a property of the composition is one of its service.       *)
EXTENDS Integers, Sequences, FiniteSets

CONSTANTS
    Requests,           \* the requests each service may be working on at once
    StellarPayments, BasePayments, MaxServed,
    Addresses, MaxChallenges, MaxIssued, MaxTokens,
    MaxTrades, BuyerMax, SellerCap, MonthlyCeiling, MaxVolume,
    MaxDeals, PauseThreshold,
    Codes,
    SignIds,
    DiditIds, HighDiditIds,
    EtherfuseIds, NoId,
    Times, LastSequence,
    Intents, MaxLocks, MaxBroadcasts,
    Circuits, Circuit, Keys, Nullifiers, Provable, Roots, PoolRoot, NoKey, NoRoot,
        Stamps, MaxSequence,
    Recipients, BadgeIds

\* Bounds and limits are numbers, requests can be counted, a payment is of one
\* kind, a challenge has room, a pause takes a cancellation, an id is not NULL, and
\* the agent API uses a circuit and a root of the registry.
ASSUME ServicesAssumption ==
    /\ IsFiniteSet(Requests) /\ Requests # {}
    /\ StellarPayments \cap BasePayments = {}
    /\ {MaxServed, MaxChallenges, MaxIssued, MaxTokens, MaxTrades, BuyerMax,
        MonthlyCeiling, MaxVolume, MaxDeals, PauseThreshold, LastSequence, MaxLocks,
        MaxBroadcasts, MaxSequence} \subseteq Nat
    /\ MaxChallenges # 0 /\ PauseThreshold # 0 /\ NoId \notin EtherfuseIds
    /\ Circuit \in Circuits /\ PoolRoot \in Roots

VARIABLES
    part,               \* the service that runs; then the variables of each
    initialized, useDatabase, memory, table, facilitated, lostKeys, settled, served,
        request,
    challenges, issued, accepted, tokens, expired, blacklist, rows, out,
        forgotten, unsaved, session,
    trades, volume, locks, enforced, job,
    deals, recorded, suspended, away, deleted, deleting, seen, counted, act,
    phase, late, code, confirmed, scan,
    status, signed, overdue, pushed, outcomes, handler,
    didit, hooks, sessionRow, level, recent, halfDone, task,
    customer, pages, start,
    row, escrow, timeout, account, pool, ledger, worker,
    intent, locked, unmarked, known, history, done, overlapped, client,
    deployed, keys, root, used, allocated, sold, soldAgain, publishing,
        sequence, sent, succeeded, failed, answered, sharing, desk,
    ready, nextBadgeId, recipient, badgesOf

P == INSTANCE Payments

S == INSTANCE Sessions

I == INSTANCE Intake

M == INSTANCE Accounts WITH
        trades <- deals, job <- act, MaxTrades <- MaxDeals

C == INSTANCE ClaimTokens WITH Scans <- Requests

R == INSTANCE SignRequests WITH Handlers <- Requests

D == INSTANCE DiditSessions WITH
        Sessions <- DiditIds, HighSessions <- HighDiditIds, Desks <- Requests

E == INSTANCE CustomerIds WITH Ids <- EtherfuseIds, Starters <- Requests

T == INSTANCE AgentTrades WITH Workers <- Requests

B == INSTANCE Bazaar WITH Clients <- Requests

V == INSTANCE Credentials WITH initialized <- deployed

G == INSTANCE Badges

paymentVars    == <<initialized, useDatabase, memory, table, facilitated, lostKeys,
                    settled, served, request>>
sessionVars    == <<challenges, issued, accepted, tokens, expired, blacklist,
                    rows, out, forgotten, unsaved, session>>
intakeVars     == <<trades, volume, locks, enforced, job>>
accountVars    == <<deals, recorded, suspended, away, deleted, deleting, seen,
                    counted, act>>
claimVars      == <<phase, late, code, confirmed, scan>>
signVars       == <<status, signed, overdue, pushed, outcomes, handler>>
diditVars      == <<didit, hooks, sessionRow, level, recent, halfDone, task>>
etherfuseVars  == <<customer, pages, start>>
tradeVars      == <<row, escrow, timeout, account, pool, ledger, worker>>
bazaarVars     == <<intent, locked, unmarked, known, history, done, overlapped,
                    client>>
registryVars   == <<deployed, keys, root, used>>
credentialVars == <<registryVars, allocated, sold, soldAgain, publishing,
                    sequence, sent, succeeded, failed, answered, sharing, desk>>
badgeVars      == <<ready, nextBadgeId, recipient, badgesOf>>

vars == <<part, paymentVars, sessionVars, intakeVars, accountVars, claimVars, signVars,
          diditVars, etherfuseVars, tradeVars, bazaarVars, credentialVars, badgeVars>>

Init ==
    /\ part \in {"payments", "sessions", "intake", "accounts", "claims", "signing",
                 "didit", "etherfuse", "trades", "bazaar", "credentials", "badges"}
    /\ P!Init /\ S!Init /\ I!Init /\ M!Init /\ C!Init /\ R!Init /\ D!Init
    /\ E!Init /\ T!Init /\ B!Init /\ V!Init /\ G!Init
    /\ part = "payments" \/ ~ facilitated
    /\ part = "intake" \/ ~ enforced

Next ==
    /\ UNCHANGED part
    /\ IF part = "payments"    THEN P!Next ELSE UNCHANGED paymentVars
    /\ IF part = "sessions"    THEN S!Next ELSE UNCHANGED sessionVars
    /\ IF part = "intake"      THEN I!Next ELSE UNCHANGED intakeVars
    /\ IF part = "accounts"    THEN M!Next ELSE UNCHANGED accountVars
    /\ IF part = "claims"      THEN C!Next ELSE UNCHANGED claimVars
    /\ IF part = "signing"     THEN R!Next ELSE UNCHANGED signVars
    /\ IF part = "didit"       THEN D!Next ELSE UNCHANGED diditVars
    /\ IF part = "etherfuse"   THEN E!Next ELSE UNCHANGED etherfuseVars
    /\ IF part = "trades"      THEN T!Next ELSE UNCHANGED tradeVars
    /\ IF part = "bazaar"      THEN B!Next ELSE UNCHANGED bazaarVars
    /\ IF part = "credentials" THEN V!Next ELSE UNCHANGED credentialVars
    /\ IF part = "badges"      THEN G!Next ELSE UNCHANGED badgeVars

Spec == Init /\ [][Next]_vars

-----------------------------------------------------------------------------
(* What each service promises; the comments are in its module.             *)

\* x402: nothing is served that was not paid for on chain.
ServedPaid == P!ServedPaid

\* x402: one Base payment buys one service while its key stays in sight.
BaseServedOnce == P!BaseServedOnce

\* Login: the challenges in memory stay within their limit.
ChallengesBounded == S!ChallengesBounded

\* Login: an accepted challenge is accepted again only by a login under way.
ChallengeSpent == S!ChallengeSpent

\* Logout: a revoked token reaches a handler only past a failure of the table.
LogoutHolds == S!LogoutHolds

\* KYC gate: the month's record covers every trade and keeps to the ceiling.
MonthlyCap == I!MonthlyCap

\* Abuse limits: the daily limit is passed by concurrent requests and late writes.
DailyLimit == I!DailyLimit

\* Abuse limits: the merchant whose cancellations reach the threshold is paused.
PauseNotMissed == M!PauseNotMissed

\* Account deletion: no account goes under a trade the deletion could see.
TradesBlockDeletion == M!TradesBlockDeletion

\* Cash-out QR: no later scan of a confirmed code passes its first look.
BurntCodesFail == C!BurntCodesFail

\* Sign requests: no more outcomes than handlers that were in progress together.
OutcomesBounded == R!OutcomesBounded

\* Identity, Didit: levels and sessions follow what Didit approved.
LevelFollowsSessions == D!LevelFollowsSessions

\* Identity, Etherfuse: no more customer ids than requests that overlapped.
FewCustomerIds == E!FewCustomerIds

\* Agent trades: the row claims no more than the chain did.
RowBacked == T!RowBacked

\* Bazaar: an intent is locked again by overlapping or failing requests only.
LocksBounded == B!LocksBounded

\* Bazaar: a history misses only what overlapping requests wrote over.
HistoryCounts == B!HistoryCounts

\* Credentials: none is handed to two buyers by one process.
SoldOnce == V!SoldOnce

\* Credentials: one buys no more answers than requests held its burn.
AnsweredBySpend == V!AnsweredBySpend

\* Badges contract: its two readers agree.
ReadersAgree == G!ReadersAgree
=============================================================================
