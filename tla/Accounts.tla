------------------------------ MODULE Accounts ------------------------------
(***************************************************************************)
(* What happens to a merchant's account because of trades: cancelTrade     *)
(* with the automatic pause it may cause, suspension, availability and the *)
(* deletion of the account.                                                *)
(*                                                                         *)
(* The trades are those of one buyer with the merchant on one day.  A      *)
(* request takes a step for every await that reads or writes what another  *)
(* may change; reads of the same rows in a row are one.  The limits on new *)
(* trades are Intake; they, bans, the cooldown between cancellations and   *)
(* the account of the buyer only refuse more, as Fails does.               *)
(*                                                                         *)
(* The rest of a trade's life is here for what it does to the statuses     *)
(* that are counted and looked at: the requests that read a status, wait   *)
(* and write by id, the event dispatcher and the resolution of disputes.   *)
(* What the chain answers them is Settlement; here it is any answer.       *)
(***************************************************************************)
EXTENDS Integers, Sequences, FiniteSets

CONSTANTS
    Requests,           \* the requests that can be in progress together
    MaxTrades,          \* bounds the trades
    PauseThreshold      \* merchantCancelPauseThreshold

VARIABLES
    trades,             \* the rows of trades: their statuses, in order
    recorded,           \* the trades with lock_tx_hash and contract_trade_id
    suspended,          \* is_suspended of the merchant, and availability = paused
    away,               \* merchant_available is false
    deleted,            \* deleted_at is set
    deleting,           \* deleteAccount has looked at the trades
    seen,               \* the trades that a deletion passed by as ended, and nobody
                        \* was about to lock or reveal
    counted,            \* the cancelled trades that a count took in or will: not
                        \* those of an event or of a request that failed before its
                        \* count, nor what a failed or lifted pause was for
    job                 \* each request: the await it is at, and what it read

rowVars == <<trades, recorded, counted>>

userVars == <<suspended, away, deleted, deleting, seen>>

vars == <<rowVars, userVars, job>>

Idle == [pc |-> "idle"]

At(r, pc) == job[r].pc = pc

Become(r, state) == job' = [job EXCEPT ![r] = state]

With(status) == {t \in DOMAIN trades : trades[t] \in status}

Active == {"pending", "locked", "revealing"}

-----------------------------------------------------------------------------
Init ==
    /\ trades = <<>>
    /\ recorded = {}
    /\ suspended = FALSE
    /\ away = FALSE
    /\ deleted = FALSE
    /\ deleting = FALSE
    /\ seen = {}
    /\ counted = {}
    /\ job = [r \in Requests |-> Idle]

\* assertUserCanAct.
CanAct == ~ deleted /\ ~ suspended

Create(r) ==
    /\ At(r, "idle")
    /\ CanAct
    /\ Become(r, [pc |-> "merchant"])
    /\ UNCHANGED <<rowVars, userVars>>

\* The merchant's row is read again.
CheckMerchant(r) ==
    /\ At(r, "merchant")
    /\ Become(r, IF suspended \/ away THEN Idle ELSE [pc |-> "insert"])
    /\ UNCHANGED <<rowVars, userVars>>

Insert(r) ==
    /\ At(r, "insert")
    /\ Len(trades) < MaxTrades
    /\ trades' = Append(trades, "pending")
    /\ Become(r, Idle)
    /\ UNCHANGED <<recorded, counted, userVars>>

-----------------------------------------------------------------------------
(* What becomes of a trade.                                                *)

\* The status was read; what is awaited before it is written is on chain.
Prepare(r, t, status) ==
    /\ At(r, "idle")
    /\ Become(r, [pc |-> "write", trade |-> t, status |-> status])
    /\ UNCHANGED <<rowVars, userVars>>

LockTrade(r, t) == trades[t] = "pending" /\ Prepare(r, t, "locked")

RevealTrade(r, t) == trades[t] = "locked" /\ Prepare(r, t, "revealing")

CompleteTrade(r, t) == trades[t] = "revealing" /\ Prepare(r, t, "completed")

\* By a participant, or by the sweep of the cancelled trades.
RefundTrade(r, t) ==
    /\ t \in recorded
    /\ trades[t] \notin {"completed", "refunded"}
    /\ Prepare(r, t, "refunded")

\* An UPDATE by id, whatever the status is by now, and no cancellation.
Rewrite(t, status) ==
    /\ trades' = [trades EXCEPT ![t] = status]
    /\ counted' = counted \ {t}

WriteStatus(r) ==
    LET t == job[r].trade IN
    /\ At(r, "write")
    /\ Rewrite(t, job[r].status)
    /\ recorded' = IF job[r].status = "locked" THEN recorded \cup {t} ELSE recorded
    /\ Become(r, Idle)
    /\ UNCHANGED userVars

\* handleReleased and handleRefunded; the latter's cancellation is not counted.
HandleEvent(t, status) ==
    /\ t \in recorded
    /\ trades[t] \notin {"completed", "cancelled"}
    /\ Rewrite(t, status)
    /\ UNCHANGED <<recorded, userVars, job>>

\* resolveDispute looks at no status either.
ResolveDispute(t, status) ==
    /\ Rewrite(t, status)
    /\ UNCHANGED <<recorded, userVars, job>>

-----------------------------------------------------------------------------
(* cancelTrade, by either participant.                                     *)

\* A locked trade is the buyer's to cancel, and the merchant's while away, as is
\* one in handoff for both.
MayCancel(u, t) ==
    \/ trades[t] = "pending"
    \/ trades[t] = "locked" /\ (u = "buyer" \/ away)
    \/ trades[t] = "revealing" /\ away

Cancel(r, u, t) ==
    /\ At(r, "idle")
    /\ MayCancel(u, t)
    /\ u = "seller" => CanAct
    /\ Become(r, [pc |-> "finalize", trade |-> t])
    /\ UNCHANGED <<rowVars, userVars>>

\* finalizeTradeCancellation does not look at the status again.
Finalize(r) ==
    /\ At(r, "finalize")
    /\ trades' = [trades EXCEPT ![job[r].trade] = "cancelled"]
    /\ counted' = counted \cup {job[r].trade}
    /\ Become(r, [job[r] EXCEPT !.pc = "count"])
    /\ UNCHANGED <<recorded, userVars>>

\* Mutant: the cancellation at hand is left to the next count.
CountEarlierOnes(r) ==
    LET earlier == With({"cancelled"}) \ {job[r].trade} IN
    /\ At(r, "count")
    /\ Become(r, IF Cardinality(earlier) >= PauseThreshold THEN [pc |-> "pause"] ELSE Idle)
    /\ counted' = With({"cancelled"})
    /\ UNCHANGED <<trades, recorded, userVars>>

\* maybeAutoPauseMerchant.
CountCancelled(r) ==
    LET cancelled == With({"cancelled"}) IN
    /\ At(r, "count")
    /\ Become(r, IF Cardinality(cancelled) >= PauseThreshold THEN [pc |-> "pause"] ELSE Idle)
    /\ counted' = cancelled
    /\ UNCHANGED <<trades, recorded, userVars>>

AutoPause(r) ==
    /\ At(r, "pause")
    /\ suspended' = TRUE
    /\ Become(r, Idle)
    /\ UNCHANGED <<rowVars, away, deleted, deleting, seen>>

-----------------------------------------------------------------------------
(* Administration and the merchant.                                        *)

Suspend ==
    /\ ~ suspended
    /\ suspended' = TRUE
    /\ UNCHANGED <<rowVars, away, deleted, deleting, seen, job>>

Unsuspend ==
    /\ suspended
    /\ suspended' = FALSE
    /\ counted' = {}
    /\ UNCHANGED <<trades, recorded, away, deleted, deleting, seen, job>>

\* PATCH /users/me/availability.
SetAvailability ==
    /\ away' = ~ away
    /\ UNCHANGED <<rowVars, suspended, deleted, deleting, seen, job>>

-----------------------------------------------------------------------------
(* deleteAccount.                                                          *)

\* The trades that a request is about to write as locked or revealing.
Moving ==
    {job[r].trade : r \in {q \in Requests : At(q, "write") /\ job[q].status \in Active}}

\* Mutant: only the newest trade is looked at.
CheckNewestTrade ==
    /\ ~ deleted
    /\ Len(trades) \notin With(Active)
    /\ deleting' = TRUE
    /\ seen' = seen \cup (DOMAIN trades \ Moving)
    /\ UNCHANGED <<rowVars, suspended, away, deleted, job>>

\* Refused while a trade is active.
CheckTrades ==
    /\ ~ deleted
    /\ With(Active) = {}
    /\ deleting' = TRUE
    /\ seen' = seen \cup (DOMAIN trades \ Moving)
    /\ UNCHANGED <<rowVars, suspended, away, deleted, job>>

\* The first of the seven statements; the others are about tables that are not
\* modelled here.
MarkDeleted ==
    /\ deleting
    /\ deleted' = TRUE
    /\ away' = TRUE
    /\ deleting' = FALSE
    /\ UNCHANGED <<rowVars, suspended, seen, job>>

-----------------------------------------------------------------------------
\* An await of a request rejects.  A cancellation that fails after its trade was
\* cancelled has lost its count.
Fails(r) ==
    /\ job[r] # Idle
    /\ Become(r, Idle)
    /\ counted' = CASE At(r, "count") -> counted \ {job[r].trade}
                    [] At(r, "pause") -> {}
                    [] OTHER          -> counted
    /\ UNCHANGED <<trades, recorded, userVars>>

Next ==
    \/ \E r \in Requests :
        \/ Create(r) \/ CheckMerchant(r) \/ Insert(r)
        \/ \E t \in DOMAIN trades :
            \/ LockTrade(r, t) \/ RevealTrade(r, t) \/ CompleteTrade(r, t) \/ RefundTrade(r, t)
            \/ \E u \in {"buyer", "seller"} : Cancel(r, u, t)
        \/ WriteStatus(r) \/ Finalize(r) \/ CountCancelled(r) \/ AutoPause(r)
        \/ Fails(r)
    \/ \E t \in DOMAIN trades :
        \/ \E status \in {"completed", "cancelled"} : HandleEvent(t, status)
        \/ \E status \in {"completed", "refunded"} : ResolveDispute(t, status)
    \/ Suspend \/ Unsuspend \/ SetAvailability \/ CheckTrades \/ MarkDeleted

Spec == Init /\ [][Next]_vars

-----------------------------------------------------------------------------
(* Properties.                                                             *)

\* Once the cancellations of the day reach the threshold and none is still in
\* progress, the merchant is suspended, whichever of them counted last; those of
\* an event or of a request that failed halfway wait for the next to be counted.
PauseNotMissed ==
    \/ Cardinality(counted) < PauseThreshold
    \/ suspended
    \/ \E r \in Requests : At(r, "count") \/ At(r, "pause")

\* No trade that the deletion of an account passed by as ended is ever active
\* again, so that an account goes only under trades inserted after the deletion
\* had looked, or that a request was then about to lock or reveal.
TradesBlockDeletion == seen \cap With(Active) = {}
=============================================================================
