----------------------------- MODULE Settlement -----------------------------
(***************************************************************************)
(* The settlement of P2P trades: the backend's trades table, the requests  *)
(* and the refund sweep that change it, the transactions they send, the    *)
(* listener that feeds the contract's events back, and the escrow contract *)
(* itself (Escrow, with the guards of contracts/micopay-escrow).           *)
(*                                                                         *)
(* Node runs one statement at a time but yields at every await, so a       *)
(* request is a job of several steps: it reads the row and checks it,      *)
(* sends a transaction, polls for it, records its hash, writes the row.    *)
(* The write is an UPDATE ... WHERE id = $1 that does not look at the row  *)
(* again.  Every step can be the last: a throw or a dead process leaves    *)
(* what the earlier steps did.                                             *)
(*                                                                         *)
(* Mock mode, notifications, reputation and the audit rows are left out.   *)
(* trades.expires_at and the contract's timeout ledger are two clocks that *)
(* nothing keeps in step.                                                  *)
(***************************************************************************)
EXTENDS Integers, FiniteSets

CONSTANTS
    Trades,             \* the trades; a trade also names its own secret
    Workers,            \* requests and sweeps in flight at one time
    LockAttempts,       \* the lock, release and refund transactions that may
    ReleaseAttempts,    \* exist for one trade at one time
    RefundAttempts,
    Seller, Buyer, Platform, Contract, NoUser,
    Amount, Fee, TimeoutMinutes, LedgersPerMinute, MaxLedger, Endowment,
    None                \* SQL NULL

VARIABLES
    admin, platform_wallet, trades, balance, ledger, disclosed,  \* Escrow's
    row,                \* the trades table
    expired,            \* trades whose expires_at has passed
    disputes,           \* trade_disputes: the newest dispute's status
    processed,          \* processed_tx: the transaction hashes credited
    tx,                 \* the transactions, by operation, trade and attempt
    job,                \* the requests in flight
    delivered           \* trades whose settlement event is spent

escrowVars == <<admin, platform_wallet, trades, balance, ledger, disclosed>>
dbVars == <<row, expired, disputes, processed>>
vars == <<escrowVars, dbVars, tx, job, delivered>>

Chain == INSTANCE Escrow WITH
    Users <- {Seller, Buyer, Platform}, Secrets <- Trades,
    Amounts <- {Amount}, Fees <- {Fee}, Minutes <- {TimeoutMinutes},
    RejectsDuplicates <- TRUE, ReleaseNeedsBuyer <- TRUE

HashOf(t) == Chain!Sha256(t)

\* contract_trade_id, which the backend computes as the contract does.
IdOf(t) == Chain!ComputeTradeId(HashOf(t))

OnChain(t) == trades[IdOf(t)].status

Txs ==
    {<<"lock", t, k>> : t \in Trades, k \in LockAttempts}
    \cup {<<"release", t, k>> : t \in Trades, k \in ReleaseAttempts}
    \cup {<<"refund", t, k>> : t \in Trades, k \in RefundAttempts}

Operation(x) == x[1]
TradeOf(x) == x[2]

ASSUME SettlementAssumption ==
    /\ Contract \notin {Seller, Buyer, Platform}
    /\ NoUser \notin {Seller, Buyer, Platform, Contract}
    /\ Amount \in Int /\ Fee \in Int
    /\ TimeoutMinutes \in Nat /\ LedgersPerMinute \in Nat /\ MaxLedger \in Nat
    /\ Endowment \in Nat
    /\ IsFiniteSet(Trades)
    /\ None \notin Txs

\* "new": not built; "signed": its XDR is with the client; "pending": sent;
\* "ok": applied; "failed": applied without effect, or never applied at all.
TxStatus == {"new", "signed", "pending", "ok", "failed"}

\* The CHECK on trades.status without 'expired', which nothing writes.
RowStatus ==
    {"absent", "pending", "locked", "revealing", "completed", "cancelled", "refunded"}

\* secret: secret_enc is not NULL.  contract_trade_id is set with lock_tx_hash.
NoRow == [status |-> "absent", lock_tx |-> None, release_tx |-> None, secret |-> FALSE]

\* The two admin resolutions differ in the status they end with and in nothing
\* else: both call refund() on chain.
Resolutions == {"refund_buyer", "release_seller"}

Ops == {"lock", "reveal", "complete", "cancel", "refund"} \cup Resolutions

Idle == [op |-> "idle", trade |-> None, tx |-> None, pc |-> "done"]

Start(w, op, t, x, pc) ==
    /\ job[w] = Idle
    /\ job' = [job EXCEPT ![w] = [op |-> op, trade |-> t, tx |-> x, pc |-> pc]]

Goto(w, pc) == job' = [job EXCEPT ![w].pc = pc]

-----------------------------------------------------------------------------
Init ==
    /\ Chain!Init
    /\ row = [t \in Trades |-> NoRow]
    /\ expired = {}
    /\ disputes = [t \in Trades |-> "none"]
    /\ processed = {}
    /\ tx = [x \in Txs |-> "new"]
    /\ job = [w \in Workers |-> Idle]
    /\ delivered = {}

Deploy ==
    /\ Chain!Initialize(Platform, Platform)
    /\ UNCHANGED <<dbVars, tx, job, delivered>>

Create(t) ==
    /\ row[t] = NoRow
    /\ row' = [row EXCEPT ![t] = [NoRow EXCEPT !.status = "pending", !.secret = TRUE]]
    /\ UNCHANGED <<escrowVars, expired, disputes, processed, tx, job, delivered>>

\* A transaction that failed is forgotten once no request refers to it.
Unused(x) ==
    \/ tx[x] = "new"
    \/ tx[x] = "failed" /\ \A w \in Workers : job[w].tx # x

\* prepareTransaction simulates the call, so only one that would succeed now is
\* handed out to be signed.
LockSimulates(t) == Chain!CanLock(Seller, Amount, Fee, HashOf(t), TimeoutMinutes)

ReleaseSimulates(t) ==
    /\ Chain!IsLocked(IdOf(t))
    /\ balance[Contract] >= Chain!Total(trades[IdOf(t)])

PrepareLock(t, x) ==
    /\ row[t].status = "pending"
    /\ Unused(x)
    /\ LockSimulates(t)
    /\ tx' = [tx EXCEPT ![x] = "signed"]
    /\ UNCHANGED <<escrowVars, dbVars, job, delivered>>

\* The release XDR carries the secret: preparing it discloses it to the buyer.
PrepareRelease(t, x) ==
    /\ row[t].status = "revealing"
    /\ row[t].secret
    /\ Unused(x)
    /\ ReleaseSimulates(t)
    /\ disclosed' = disclosed \cup {t}
    /\ tx' = [tx EXCEPT ![x] = "signed"]
    /\ UNCHANGED <<admin, platform_wallet, trades, balance, ledger, dbVars, job, delivered>>

-----------------------------------------------------------------------------
(* Requests: the row is read and checked, the job remembers only what it   *)
(* will write.                                                             *)

\* The client may post an XDR again after an answer that did not come.
BeginLock(w, t, x) ==
    /\ row[t].status = "pending"
    /\ tx[x] \in {"signed", "pending", "ok"}
    /\ Start(w, "lock", t, x, "send")

BeginReveal(w, t) ==
    /\ row[t].status = "locked"
    /\ Start(w, "reveal", t, None, "write")

BeginComplete(w, t, x) ==
    /\ row[t].status = "revealing"
    /\ row[t].secret
    /\ tx[x] \in {"signed", "pending", "ok"}
    /\ Start(w, "complete", t, x, "send")

\* Who may cancel a locked or revealing trade depends on the merchant's
\* availability, which changes at will.
BeginCancel(w, t) ==
    /\ row[t].status \in {"pending", "locked", "revealing"}
    /\ Start(w, "cancel", t, None, "write")

BeginRefund(w, t) ==
    /\ row[t].lock_tx # None
    /\ t \in expired
    /\ row[t].status \notin {"completed", "refunded"}
    /\ Start(w, "refund", t, None, "send")

\* Mutant: the sweep looks for refunds that were already made.
BeginSweepSettled(w, t) ==
    /\ row[t].status = "cancelled"
    /\ row[t].lock_tx # None
    /\ row[t].release_tx # None
    /\ t \in expired
    /\ Start(w, "refund", t, None, "send")

\* One candidate of the sweep's SELECT; a sweep may outlast the interval and
\* overlap the next one.
BeginSweep(w, t) ==
    /\ row[t].status = "cancelled"
    /\ row[t].lock_tx # None
    /\ row[t].release_tx = None
    /\ t \in expired
    /\ Start(w, "refund", t, None, "send")

BeginResolve(w, t, resolution) ==
    /\ disputes[t] = "open"
    /\ Start(w, resolution, t, None, "send")

Sweep(w, t) ==
    /\ BeginSweep(w, t)
    /\ UNCHANGED <<escrowVars, dbVars, tx, delivered>>

PostLock(w, t, x) ==
    /\ BeginLock(w, t, x)
    /\ UNCHANGED <<escrowVars, dbVars, tx, delivered>>

Begin(w, t) ==
    /\ \/ BeginReveal(w, t)
       \/ \E k \in ReleaseAttempts : BeginComplete(w, t, <<"release", t, k>>)
       \/ BeginCancel(w, t)
       \/ BeginRefund(w, t)
       \/ \E resolution \in Resolutions : BeginResolve(w, t, resolution)
    /\ UNCHANGED <<escrowVars, dbVars, tx, delivered>>

\* sendTransaction answers PENDING, or DUPLICATE for one it has already seen;
\* neither is an ERROR.
SendSigned(w) ==
    LET x == job[w].tx IN
    /\ job[w].pc = "send"
    /\ x # None
    /\ tx[x] \in {"signed", "pending", "ok"}
    /\ tx' = IF tx[x] = "signed" THEN [tx EXCEPT ![x] = "pending"] ELSE tx
    /\ Goto(w, "poll")
    /\ UNCHANGED <<escrowVars, dbVars, delivered>>

\* callRefundOnChain builds, simulates, signs and sends its own transaction.
SendRefund(w, t) ==
    /\ job[w].pc = "send"
    /\ job[w].trade = t
    /\ job[w].tx = None
    /\ Chain!CanRefund(IdOf(t))
    /\ \E k \in RefundAttempts :
          LET x == <<"refund", t, k>> IN
          /\ Unused(x)
          /\ tx' = [tx EXCEPT ![x] = "pending"]
          /\ job' = [job EXCEPT ![w].tx = x, ![w].pc = "poll"]
    /\ UNCHANGED <<escrowVars, dbVars, delivered>>

\* Mutant: assertNotReplayed does not notice that the hash is there.
AssertNotReplayedTwice(x) == processed' = processed \cup {x}

\* The INSERT of the hash, which throws when it is there.
AssertNotReplayed(x) ==
    /\ x \notin processed
    /\ processed' = processed \cup {x}

\* Mutant: polling takes a transaction that was sent for one that succeeded.
ConfirmSent(w) ==
    LET j == job[w] IN
    /\ j.pc = "poll"
    /\ IF j.op \in Resolutions
       THEN Goto(w, "dispute") /\ UNCHANGED processed
       ELSE Goto(w, "write") /\ AssertNotReplayed(j.tx)
    /\ UNCHANGED <<escrowVars, row, expired, disputes, tx, delivered>>

\* pollForConfirmation sees the transaction succeed.  An admin resolution goes
\* on without the replay guard.
Confirm(w) ==
    LET j == job[w] IN
    /\ j.pc = "poll"
    /\ tx[j.tx] = "ok"
    /\ IF j.op \in Resolutions
       THEN Goto(w, "dispute") /\ UNCHANGED processed
       ELSE Goto(w, "write") /\ AssertNotReplayed(j.tx)
    /\ UNCHANGED <<escrowVars, row, expired, disputes, tx, delivered>>

CloseDispute(w) ==
    /\ job[w].pc = "dispute"
    /\ disputes' = [disputes EXCEPT ![job[w].trade] = "resolved"]
    /\ Goto(w, "write")
    /\ UNCHANGED <<escrowVars, row, expired, processed, tx, delivered>>

\* The UPDATEs: what each makes of the row as it is by then.
LockedRow(r, x) == [r EXCEPT !.status = "locked", !.lock_tx = x]

RevealingRow(r) == [r EXCEPT !.status = "revealing"]

CompletedRow(r, x) ==
    [r EXCEPT !.status = "completed", !.release_tx = x, !.secret = FALSE]

CancelledRow(r) == [r EXCEPT !.status = "cancelled", !.secret = FALSE]

RefundedRow(r, x) == [r EXCEPT !.status = "refunded", !.release_tx = x]

ResolvedRow(r, status, x) ==
    [r EXCEPT !.status = status, !.release_tx = x, !.secret = FALSE]

Updated(r, op, x) ==
    CASE op = "lock" -> LockedRow(r, x)
      [] op = "reveal" -> RevealingRow(r)
      [] op = "complete" -> CompletedRow(r, x)
      [] op = "cancel" -> CancelledRow(r)
      [] op = "refund" -> RefundedRow(r, x)
      [] op = "refund_buyer" -> ResolvedRow(r, "refunded", x)
      [] op = "release_seller" -> ResolvedRow(r, "completed", x)

Write(w) ==
    LET j == job[w] IN
    /\ j.pc = "write"
    /\ row' = [row EXCEPT ![j.trade] = Updated(@, j.op, j.tx)]
    /\ job' = [job EXCEPT ![w] = Idle]
    /\ UNCHANGED <<escrowVars, expired, disputes, processed, tx, delivered>>

\* The request throws or its process dies: a simulation or a submission is
\* refused, the transaction failed or is not seen within 30 seconds, its hash
\* was processed before, a query fails.
Abandon(w) ==
    /\ job[w] # Idle
    /\ job' = [job EXCEPT ![w] = Idle]
    /\ UNCHANGED <<escrowVars, dbVars, tx, delivered>>

-----------------------------------------------------------------------------
(* The network, the listener and the clocks.                               *)

\* What the contract makes of a transaction in the ledger that includes it.
Effect(x) ==
    LET t == TradeOf(x) IN
    CASE Operation(x) = "lock" ->
            Chain!Lock(Seller, Buyer, Amount, Fee, HashOf(t), TimeoutMinutes)
      [] Operation(x) = "release" -> Chain!Release(Buyer, IdOf(t), t)
      [] Operation(x) = "refund" -> Chain!Refund(IdOf(t))

Succeeds(x) ==
    LET t == TradeOf(x) IN
    CASE Operation(x) = "lock" -> Chain!CanLock(Seller, Amount, Fee, HashOf(t), TimeoutMinutes)
      [] Operation(x) = "release" -> Chain!CanRelease(Buyer, IdOf(t), t)
      [] Operation(x) = "refund" -> Chain!CanRefund(IdOf(t))

Apply(x) ==
    /\ tx[x] = "pending"
    /\ IF Succeeds(x)
       THEN Effect(x) /\ tx' = [tx EXCEPT ![x] = "ok"]
       ELSE UNCHANGED escrowVars /\ tx' = [tx EXCEPT ![x] = "failed"]
    /\ UNCHANGED <<dbVars, job, delivered>>

\* The transaction's time bound passes before a ledger includes it.
Drop(x) ==
    /\ tx[x] = "pending"
    /\ tx' = [tx EXCEPT ![x] = "failed"]
    /\ UNCHANGED <<escrowVars, dbVars, job, delivered>>

\* refund() is permissionless: anyone may call it past this backend.
ExternalRefund(t) ==
    /\ Chain!Refund(IdOf(t))
    /\ UNCHANGED <<dbVars, tx, job, delivered>>

\* The hash of the transaction that released the trade, as its event gives it.
ReleasingTx(t) ==
    CHOOSE x \in Txs : Operation(x) = "release" /\ TradeOf(x) = t /\ tx[x] = "ok"

\* Mutant: a refunded event clears the row's receipt with its secret.
RefundedEventClearing(r) ==
    [r EXCEPT !.status = "cancelled", !.release_tx = None, !.secret = FALSE]

\* The UPDATEs of handleRefunded and handleReleased.
RefundedEvent(r) == [r EXCEPT !.status = "cancelled", !.secret = FALSE]

ReleasedEvent(r, x) ==
    [r EXCEPT !.status = "completed", !.release_tx = x, !.secret = FALSE]

\* The trade is looked up by contract_trade_id, and the UPDATE repeats the test
\* on the status.
Deliver(t) ==
    /\ OnChain(t) \in {"Released", "Refunded"}
    /\ t \notin delivered
    /\ delivered' = delivered \cup {t}
    /\ row' = IF row[t].lock_tx # None /\ row[t].status \notin {"completed", "cancelled"}
              THEN [row EXCEPT ![t] = IF OnChain(t) = "Released"
                                      THEN ReleasedEvent(@, ReleasingTx(t))
                                      ELSE RefundedEvent(@)]
              ELSE row
    /\ UNCHANGED <<escrowVars, expired, disputes, processed, tx, job>>

\* The event is marked processed before it is dispatched, its page is cut, or
\* the cursor was reset beyond it.
LoseEvent(t) ==
    /\ OnChain(t) \in {"Released", "Refunded"}
    /\ t \notin delivered
    /\ delivered' = delivered \cup {t}
    /\ UNCHANGED <<escrowVars, dbVars, tx, job>>

\* recordTradeDispute inserts the dispute; its UPDATE to 'disputed' is refused
\* by the CHECK on trades.status, after the INSERT was committed.
OpenDispute(t) ==
    /\ row[t].status \in {"pending", "locked", "revealing"}
    /\ disputes[t] # "open"
    /\ disputes' = [disputes EXCEPT ![t] = "open"]
    /\ UNCHANGED <<escrowVars, row, expired, processed, tx, job, delivered>>

Expire(t) ==
    /\ row[t] # NoRow
    /\ t \notin expired
    /\ expired' = expired \cup {t}
    /\ UNCHANGED <<escrowVars, row, disputes, processed, tx, job, delivered>>

CloseLedger ==
    /\ Chain!CloseLedger
    /\ UNCHANGED <<dbVars, tx, job, delivered>>

Step(w) == SendSigned(w) \/ Confirm(w) \/ CloseDispute(w) \/ Write(w) \/ Abandon(w)

Next ==
    \/ Deploy
    \/ CloseLedger
    \/ \E t \in Trades :
          \/ Create(t)
          \/ \E k \in LockAttempts : PrepareLock(t, <<"lock", t, k>>)
          \/ \E k \in ReleaseAttempts : PrepareRelease(t, <<"release", t, k>>)
          \/ \E w \in Workers, k \in LockAttempts : PostLock(w, t, <<"lock", t, k>>)
          \/ \E w \in Workers : Begin(w, t) \/ Sweep(w, t) \/ SendRefund(w, t)
          \/ ExternalRefund(t)
          \/ Deliver(t)
          \/ LoseEvent(t)
          \/ OpenDispute(t)
          \/ Expire(t)
    \/ \E w \in Workers : Step(w)
    \/ \E x \in Txs : Apply(x) \/ Drop(x)

\* Both clocks run; a request ends; the sweep comes round every five minutes
\* and finds a free slot; the network does not refuse or drop every refund.
Fairness ==
    /\ WF_vars(CloseLedger)
    /\ \A w \in Workers : WF_vars(Abandon(w))
    /\ \A t \in Trades :
          /\ WF_vars(Expire(t))
          /\ SF_vars(\E w \in Workers : Sweep(w, t))
          /\ SF_vars(\E w \in Workers : SendRefund(w, t))
          /\ SF_vars(\E k \in RefundAttempts : Apply(<<"refund", t, k>>))

Spec == Init /\ [][Next]_vars

FairSpec == Spec /\ Fairness

\* The seller's app, besides, posts the signed lock again until it is answered,
\* and a request is not cut short for ever.
RetriedSpec ==
    /\ FairSpec
    /\ \A w \in Workers :
          /\ \A t \in Trades, k \in LockAttempts :
                SF_vars(PostLock(w, t, <<"lock", t, k>>))
          /\ SF_vars(SendSigned(w))
          /\ SF_vars(Confirm(w))
          /\ SF_vars(Write(w))

-----------------------------------------------------------------------------
(* Properties.                                                             *)

\* Rows, disputes, transactions and jobs are well formed.
TypeOK ==
    /\ Chain!TypeOK
    /\ row \in [Trades -> [status : RowStatus, lock_tx : Txs \cup {None},
                           release_tx : Txs \cup {None}, secret : BOOLEAN]]
    /\ expired \subseteq Trades
    /\ disputes \in [Trades -> {"none", "open", "resolved"}]
    /\ processed \subseteq Txs
    /\ tx \in [Txs -> TxStatus]
    /\ \A w \in Workers :
          \/ job[w] = Idle
          \/ /\ job[w].op \in Ops
             /\ job[w].trade \in Trades
             /\ job[w].tx \in Txs \cup {None}
             /\ job[w].pc \in {"send", "poll", "dispute", "write"}
    /\ delivered \subseteq Trades

\* What the table says of the money agrees with the contract, whatever the
\* stale writes, retries and events did to the status: a recorded lock did lock,
\* a recorded settlement is the one that happened, no row says completed or
\* refunded, which closes the app's way to a refund, over funds still locked, and
\* no dispute is resolved before its refund is made.
RowMatchesChain ==
    \A t \in Trades :
        /\ row[t].lock_tx # None => OnChain(t) # "None"
        /\ row[t].status \in {"locked", "revealing"} => row[t].lock_tx # None
        /\ row[t].release_tx # None =>
              OnChain(t) = IF Operation(row[t].release_tx) = "release"
                           THEN "Released" ELSE "Refunded"
        /\ row[t].status \in {"completed", "refunded"} => row[t].release_tx # None
        /\ row[t].status = "refunded" => OnChain(t) = "Refunded"
        /\ disputes[t] = "resolved" => OnChain(t) = "Refunded"

\* A transaction is credited to one request: two that poll for the same hash
\* never both go on to write.
CreditedOnce ==
    \A v, w \in Workers :
        /\ v # w
        /\ job[v].op \notin Resolutions /\ job[w].op \notin Resolutions
        /\ job[v].pc = "write" /\ job[w].pc = "write"
        => job[v].tx # job[w].tx \/ job[v].tx = None

\* The hashes in a row are receipts: once recorded, no later request, retry,
\* admin decision or event puts another in their place, so a trade is locked by
\* one transaction and settled by one.
ReceiptsFinal ==
    [][\A t \in Trades :
          /\ row[t].lock_tx # None => row'[t].lock_tx = row[t].lock_tx
          /\ row[t].release_tx # None => row'[t].release_tx = row[t].release_tx]_vars

\* The funds of a trade cancelled after its lock was recorded leave the
\* contract, unless a later write takes the row out of cancelled.
CancelledFundsReturn ==
    \A t \in Trades :
        row[t].status = "cancelled" /\ row[t].lock_tx # None
            ~> OnChain(t) # "Locked" \/ row[t].status # "cancelled"

-----------------------------------------------------------------------------
(* What comments and documents say and the code does not do.               *)

\* refundTrade takes 'refunded' for a terminal status.
RefundedIsTerminal ==
    [][\A t \in Trades : row[t].status = "refunded" => row'[t].status = "refunded"]_vars

\* refundTrade takes 'completed' to mean that the buyer was released.
CompletedMeansReleased ==
    \A t \in Trades : row[t].status = "completed" => OnChain(t) = "Released"

\* The sweep settles every cancelled trade whose lock was recorded, so that no
\* user has to ask for the refund.
SweepSettlesCancelled ==
    \A t \in Trades :
        row[t].status = "cancelled" /\ row[t].lock_tx # None ~> OnChain(t) # "Locked"

\* After a crash in the middle of a transaction the app shows what is true: a
\* lock that the contract holds is known to the row while it is held.
LocksAreRecorded ==
    \A t \in Trades : OnChain(t) = "Locked" ~> row[t].lock_tx # None \/ OnChain(t) # "Locked"
=============================================================================
