------------------------------- MODULE Intake -------------------------------
(***************************************************************************)
(* How many trades a buyer may start: createTrade with the daily limits of *)
(* the abuse service, the KYC gate and the merchant's limits.              *)
(*                                                                         *)
(* One buyer trades with one merchant on one day of one month.  Every      *)
(* trade is for one unit, so that a count of trades is also their volume.  *)
(* A request takes a step for every await that reads or writes what        *)
(* another may change; reads of the same rows in a row are one.  What the  *)
(* accounts of the two allow is Accounts; that, bans, shared phone numbers *)
(* and the required KYC level only refuse more, as Fails does.             *)
(*                                                                         *)
(* Of a trade's status the limits only ask whether they count it: pending, *)
(* locked, revealing and completed ones stand, cancelled and refunded ones *)
(* have ended.  An ended trade stands again when a request that had read   *)
(* its status before writes it by id, or a dispute is resolved.            *)
(***************************************************************************)
EXTENDS Integers, Sequences, FiniteSets

CONSTANTS
    Requests,           \* the requests that can be in progress together
    MaxTrades,          \* bounds the trades
    BuyerMax,           \* the least of the buyer's, device's and IP's daily limits
    SellerCap,          \* daily_cap_mxn of the merchant
    MonthlyCeiling,     \* the ceiling of the buyer's KYC level
    MaxVolume           \* bounds the volume recorded while the gate is off

VARIABLES
    trades,             \* each row of trades: standing, ended or standing again
    volume,             \* user_monthly_volume of the buyer
    locks,              \* the requests in the buyer's withKeyedLock, in order
    enforced,           \* config.kycGateEnabled
    job                 \* each request: the await it is at, and what it read

vars == <<trades, volume, locks, enforced, job>>

Idle == [pc |-> "idle"]

At(r, pc) == job[r].pc = pc

Become(r, state) == job' = [job EXCEPT ![r] = state]

Goto(r, pc) == Become(r, [pc |-> pc])

With(status) == {t \in DOMAIN trades : trades[t] \in status}

\* The rows that the daily limits count.
Today == Cardinality(With({"standing", "again"}))

-----------------------------------------------------------------------------
Init ==
    /\ trades = <<>>
    /\ volume = 0
    /\ locks = <<>>
    /\ enforced \in BOOLEAN
    /\ job = [r \in Requests |-> Idle]

Create(r) ==
    /\ At(r, "idle")
    /\ Goto(r, "limits")
    /\ UNCHANGED <<trades, volume, locks, enforced>>

\* Mutant: the limit itself is still below the limit.
CheckLimitsLoosely(r) ==
    /\ At(r, "limits")
    /\ IF Today > BuyerMax THEN Become(r, Idle) /\ UNCHANGED locks
       ELSE Goto(r, "volume") /\ locks' = Append(locks, r)
    /\ UNCHANGED <<trades, volume, enforced>>

\* countBuyerDailyTrades and countTradesForDeviceOrIp; then the KYC gate, which
\* queues for the buyer's volume.
CheckLimits(r) ==
    /\ At(r, "limits")
    /\ IF Today >= BuyerMax THEN Become(r, Idle) /\ UNCHANGED locks
       ELSE Goto(r, "volume") /\ locks' = Append(locks, r)
    /\ UNCHANGED <<trades, volume, enforced>>

\* Mutant: the volume is read without the lock.
ReadVolumeUnlocked(r) ==
    /\ At(r, "volume")
    /\ Become(r, [pc |-> "record", total |-> volume])
    /\ UNCHANGED <<trades, volume, locks, enforced>>

ReadVolume(r) ==
    /\ At(r, "volume")
    /\ Head(locks) = r
    /\ Become(r, [pc |-> "record", total |-> volume])
    /\ UNCHANGED <<trades, volume, locks, enforced>>

\* Recorded before the trade exists, and not taken back when it is refused; the
\* first of the queue leaves it.
RecordVolume(r) ==
    /\ At(r, "record")
    /\ job[r].total < MaxVolume
    /\ IF enforced /\ job[r].total >= MonthlyCeiling
       THEN Become(r, Idle) /\ UNCHANGED volume
       ELSE volume' = job[r].total + 1 /\ Goto(r, "cap")
    /\ locks' = Tail(locks)
    /\ UNCHANGED <<trades, enforced>>

\* validateAgainstMerchantLimits.
CheckCap(r) ==
    /\ At(r, "cap")
    /\ IF Today >= SellerCap THEN Become(r, Idle) ELSE Goto(r, "insert")
    /\ UNCHANGED <<trades, volume, locks, enforced>>

Insert(r) ==
    /\ At(r, "insert")
    /\ Len(trades) < MaxTrades
    /\ trades' = Append(trades, "standing")
    /\ Become(r, Idle)
    /\ UNCHANGED <<volume, locks, enforced>>

\* An await of a request rejects; one in the queue fails only in its turn.
Fails(r) ==
    /\ job[r] # Idle
    /\ At(r, "volume") => Head(locks) = r
    /\ Become(r, Idle)
    /\ locks' = IF At(r, "volume") \/ At(r, "record") THEN Tail(locks) ELSE locks
    /\ UNCHANGED <<trades, volume, enforced>>

-----------------------------------------------------------------------------
\* A cancellation, a refund, a refunded event or a resolution.
End(t) ==
    /\ trades[t] # "ended"
    /\ trades' = [trades EXCEPT ![t] = "ended"]
    /\ UNCHANGED <<volume, locks, enforced, job>>

\* The late write of a lock, a reveal or a completion, a released event or a
\* resolution.
StandAgain(t) ==
    /\ trades[t] = "ended"
    /\ trades' = [trades EXCEPT ![t] = "again"]
    /\ UNCHANGED <<volume, locks, enforced, job>>

-----------------------------------------------------------------------------
Next ==
    \/ \E r \in Requests :
        \/ Create(r) \/ CheckLimits(r) \/ ReadVolume(r) \/ RecordVolume(r)
        \/ CheckCap(r) \/ Insert(r) \/ Fails(r)
    \/ \E t \in DOMAIN trades : End(t) \/ StandAgain(t)

Spec == Init /\ [][Next]_vars

-----------------------------------------------------------------------------
(* Properties.                                                             *)

\* The month's record covers every trade the buyer started, and with the gate
\* on it never passes the ceiling: requests that run together lose no update.
MonthlyCap ==
    /\ Len(trades) <= volume
    /\ enforced => volume <= MonthlyCeiling

\* The daily limit is counted well before the trade it allows is inserted, so
\* it can be passed, but only by the requests that run together, and by trades
\* that a late write or the resolution of a dispute brings back into the count.
DailyLimit ==
    Cardinality(With({"standing"})) <= BuyerMax + Cardinality(Requests) - 1
=============================================================================
