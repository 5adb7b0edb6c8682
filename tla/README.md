# A verification development of MicoPay

MicoPay lets people exchange cash for tokens. A trade's tokens wait in an escrow contract on Stellar
(Soroban); a backend keeps a table of trades, builds the transactions that the two parties sign, sends
them, and settles what is left over. Beside it an agent API sells services to programs, executes swaps
between two contracts and hands out anonymous credentials. This directory holds TLA+ models of the parts
that move or record money or decide who may, the TLC configurations that check them on small instances,
and proofs that TLAPS checks for every value of the constants.

Paths below are relative to the repository; `backend/` stands for `micopay/backend/src/`,
`api/` for `apps/api/src/`.

## 1. Inventory

| Component | State it keeps | Operations | Correct when |
|---|---|---|---|
| Escrow contract, `contracts/micopay-escrow` | admin, token, platform wallet; one `TradeEscrow` per trade id; its token balance | `initialize`, `lock`, `release`, `refund`, `get_trade` | it owns exactly what is locked, each trade is settled once, released only for its secret, refunded only after its timeout |
| Legacy escrow, `micopay/contracts/escrow` | the same | the same, `lock` without the duplicate check | the same (it is not, see section 6) |
| Delegated release, `contracts/delegated-release-htlc` | the same | the same, `release` without the buyer's authorisation | the same |
| HTLC interface, `contracts/htlc-core` | none (a trait) | `lock`, `release`, `refund`, `get_status` | it is the promise the contracts implement |
| Atomic swap, `contracts/atomic-swap` | one `AtomicSwap` per id | `lock`, `release`, `refund` | HTLC for each token; a release publishes its secret |
| Swap executor, `api/lib/soroban.ts`, `swapStore.ts`, `routes/agent.ts` | swaps in memory, four transactions each | execute in the background, report | of two legs both or neither are released; the status is backed by the chain |
| ZK registry, `contracts/zk-verifier` | keys, root, burnt nullifiers | `init`, `register_circuit`, `set_reputation_root`, `verify`, `verify_unique` | a nullifier is burnt once, by its own proof, for good |
| Badges, `contracts/micopay-badges` | badges, an index per recipient, next id | `initialize`, `mint`, `get_badges`, `has_badge` | the index and the badges agree |
| Trade service, `backend/services/trade.service.ts`, `stellar.service.ts` | table `trades`, table `processed_tx`, transactions in flight | create, prepare and submit lock, reveal, prepare and submit release, cancel, refund, refund sweep | the row agrees with the contract; each transaction is credited once; no funds are forgotten |
| Event listener and dispatcher, `backend/services/event-*.ts` | cursor, deduplication rows in `processed_tx` | poll, dispatch released and refunded events | every event is applied once, in any order with the requests, or skipped for a reason the code knows |
| Disputes, `backend/services/abuse.service.ts`, `admin.service.ts` | table `trade_disputes`, `trades` | open, resolve | a resolution is what happened on chain |
| Claim tokens, `trade.service.ts` 526-641, 1223-1302 | `trade_claim_tokens` | issue, consume | a confirmed code is burnt |
| KYC gate, `backend/services/kyc-gate.service.ts`, `lib/keyedMutex.ts` | monthly volumes, a map of locks | check and record | the record covers what was moved, never above the ceiling |
| Limits and pauses, `abuse.service.ts`, `routes/admin.ts`, `routes/users.ts` | statuses of users, trades counted per day | check before create and cancel, automatic pause, suspend, availability | limits are passed by concurrent requests at most; the pause is not missed |
| Identity, `backend/routes/kyc.ts`, `didit.service.ts`, `etherfuse.service.ts` | sessions, levels, customer ids | start, webhook | a level is what the provider approved; one customer id per user |
| Sign requests, `backend/routes/sign-requests.ts` | `sign_requests` | create, poll, resolve, cancel, expire | an outcome that was seen is final |
| Login, `challenge.service.ts`, `tokenRevocation.service.ts` | maps of challenges and revoked tokens, `revoked_tokens` | challenge, login, logout, check a token | a challenge is used once, a logout holds |
| Account deletion, `account.service.ts` | seven tables | delete | no trade left open that the deletion could see |
| x402 payments, `api/middleware/x402.ts`, `api/db/x402.ts` | used payments, in a table or in memory | verify and settle Stellar and Base payments | what is served is paid for, and a payment buys one service |
| Agent trades, `api/services/trade.service.ts` | its own trades table | create, lock, reveal, complete, cancel | the row claims no more than the chain did |
| Bazaar, `api/routes/bazaar.ts`, `api/db/bazaar.ts` | intents, histories | broadcast, accept, reputation | an intent is locked for once; a history counts what happened |
| Credentials, `api/routes/credentials.ts`, `inference.ts`, `zk.ts`, `api/lib/zkVerify.ts` | the pool's allocations, transactions | buy, spend, answer | a credential is sold once and spent once |
| Screens of a trade, `frontend/pages/QRReveal.tsx`, `DepositQR.tsx`, `TradeDetail.tsx`, `MerchantInbox.tsx`, `App.tsx` | the trade as it was created, what was fetched of it, a code, requests in flight | lock and reveal, ask for a code, complete, poll, cancel, refund, scan | what a screen says happened did happen; every status has a way on |
| Merchant app's queue, ramps, DeFi, demo routes, other screens, circuits, SDK | small or none | | outside services, demonstrations or user interface (section 7) |

How they interact. The buyer or the seller calls the backend over HTTP; the backend reads and writes
Postgres, and reaches the contract through transactions: those for `lock` and `release` are built and
simulated by the backend, signed by the party's own device and posted back; those for `refund` are
signed with the platform's key, since anybody may call it. The backend polls Horizon for the outcome of
every transaction it sends. A listener polls the contract's events and applies them to the same rows,
and every five minutes a sweep refunds the trades that were cancelled after their lock. Whether a trade
may be started at all is decided by the login, the limits and the KYC gate, each on rows of its own. The
agent API is a second process: an x402 payment comes before each paid handler, and its handlers send
transactions from the platform's own accounts to the swap, escrow and registry contracts.

What is hard. No statement of the backend runs in a database transaction with another, and every
`await` lets other requests run: a request checks the row it read, may wait 30 seconds for a
transaction, and then writes by id. Transactions may be lost, late, or sent twice; the poll may give up
on one that is applied afterwards; the process may stop between any two statements; events may be lost
and arrive before or after the request they belong to. Two clocks, `expires_at` of the row and the
timeout ledger of the contract, start at different times. Several stores live in the memory of one
process and are forgotten by a restart. `PROJECT.json` lists each hazard at its line, with the properties
about it.

## 2. Plan

The order in which the modules were written, the most important behaviour first; all of it is done.

1. `Escrow`, `HTLC`, `EscrowProofs`: the contract, its promise, and their proofs.
2. `Settlement`, which composes `Escrow` with the backend, and `SettlementProofs`.
3. `AtomicSwap`, a second refinement of `HTLC`, and `CrossSwap`, two of them with one secret and the job
   that executes a swap; their proofs.
4. `EventDelivery`, the promise `Settlement` was written against, and `EventListener`, shown and proved
   to implement it.
5. The services that share no state with the settlement or with each other, each a module: `Payments`,
   `Sessions`, `Intake` (limits, KYC volume), `Accounts` (pauses, deletion), `ClaimTokens`,
   `SignRequests`, `DiditSessions`, `CustomerIds`, `AgentTrades`, `Bazaar`, `Verifier` with `Credentials` on top, `Badges`.
6. `TradeScreens`: what the app sends of all this, and what its users see.

What would come next: the other users of the KYC gate, and a model of what the listener delivers inside
`Settlement` that tells a lost event from a delivered one, so that it can be composed with `EventListener`.

## 3. Modules

| Module | Models | Correspondence |
|---|---|---|
| `HTLC` | the `HashedTimeLock` trait | per id a lockbox (status, amount held, timeout) and one pool for the whole contract |
| `Escrow` | the three escrow contracts | one action per contract function; its guard (`CanLock`, `CanRelease`, `CanRefund`) is the conjunction of the function's early returns. Constants `RejectsDuplicates` and `ReleaseNeedsBuyer` pick the contract |
| `EscrowProofs` | | theorems about `Escrow` |
| `MCEscrow` | | the instance TLC checks |
| `Settlement` | trade service, sweep, dispatcher, disputes, network, with `Escrow` as an `INSTANCE` | see below |
| `MCSettlement` | | the instance TLC checks |
| `AtomicSwap` | the atomic swap contract | one action per function; no admin, no fee, one pool per token |
| `CrossSwap` | the swap executor, with two `INSTANCE`s of `AtomicSwap` | see below |
| `EventDelivery` | what the backend may assume of the listener | each event is emitted, then delivered once or lost |
| `EventListener` | listener loop, cursor, `processed_tx`, RPC window | see below |
| `Payments` | `api/middleware/x402.ts`, `api/db/x402.ts` | a request at each of its awaits; `useDatabase` is read again after each. With a facilitator (`facilitated`) any 200 is a settlement, again and again; without one the token refuses the second. `lostKeys` is a history variable: the keys that went out of sight with a switch of the store or a restart |
| `Sessions` | login, logout, the check of a token | `challenges` is the Map, whose order of keys `since` tells; `blacklist` and `rows` are the two lists of revoked tokens |
| `Intake` | `createTrade` with its daily limits, KYC gate and merchant cap | `locks` is the queue of `withKeyedLock`, which its head leaves; trades are for one unit, so a count is a volume; a trade stands, has ended, or stands again after a late write or a resolution |
| `Accounts` | what the merchant's account allows; cancellations and the pause they cause; suspension, availability, deletion | `trades` has every status and every writer of it: requests that read, wait and write by id, the dispatcher, the resolution of disputes. `counted` and `seen` are history variables: the cancellations a count took in, the trades a deletion passed by |
| `ClaimTokens` | codes of the cash-out QR | `Look`, `Consume`, `LookAgain` are the three statements of `consumeClaimToken` |
| `SignRequests` | delegated signing | expiry is written by whoever reads an overdue request |
| `DiditSessions`, `CustomerIds` | identity verification by Didit and by Etherfuse | a webhook is two writes; a customer id is invented, stored and used |
| `AgentTrades` | trades of the agent API | the escrow, the platform's account and its pending transactions |
| `Bazaar` | intents and histories | `upsertAgentHistory` is a read and a write |
| `Verifier` | the ZK registry contract | which proofs convince is the constant `Provable` |
| `Credentials` | credentials and inference, EXTENDS `Verifier` | transactions are records of credential, sequence number and second, so that two requests may have one; `answered` counts answers, `sharing` the requests that held the transaction when it burnt the credential |
| `Badges` | the badges contract | |
| `TradeScreens` | the screens of a trade in the app | see below |
| `Services` | the services above (`Payments` to `Badges`), which share no state | one of them runs in each behaviour, chosen at the start (`part`) |
| `MCServices` | | the instance TLC checks |
| `MCCrossSwap`, `MCEventListener`, `MCTradeScreens` | | instances TLC checks |
| `SettlementProofs`, `AtomicSwapProofs`, `CrossSwapProofs`, `EventListenerProofs`, `TradeScreensProofs` | | theorems about the module each extends |
| `AgentServicesProofs`, `UserServicesProofs` | | theorems about `Services`: the agent API and the two contracts; the backend's services |

**Escrow.** A Soroban invocation is atomic: an error, a panic or a failed token transfer rolls it
back, so a function is one step or no step. `sha256` is symbolic (an injective term constructor). Who
holds a secret matters to `release`; `disclosed` is the set of secrets that left their issuer, and no
property restricts when that happens. Amounts are unbounded (`i128`, checked arithmetic: the workspace
sets `overflow-checks`), the ledger is bounded by `MaxLedger`, which plays `u32::MAX`: a lock whose
timeout would lie beyond it panics. Lifetimes of storage entries (`extend_ttl`) are left out: an
archived entry is restored, not lost.

**Settlement.** `row` holds of each trade what the properties need: `status`, `lock_tx_hash` (set
together with `contract_trade_id`), `release_tx_hash`, and whether `secret_enc` is still there. `tx`
is the network's view of each transaction; `job` is what is left to do of each request in flight. A
request is cut at its awaits:

| Request | Check (`Begin...`) | then |
|---|---|---|
| lock (`PostLock`), complete | status, secret, XDR signed | `SendSigned`, `Confirm` (poll and `assertNotReplayed`), `Write` |
| reveal, cancel | status | `Write` |
| refund, one trade of a sweep | lock recorded, expired, status | `SendRefund`, `Confirm`, `Write` |
| resolve a dispute | dispute open | `SendRefund`, `Confirm` (no replay guard), `CloseDispute`, `Write` |

`Abandon` ends a request at any of these points: an exception, a timeout of the poll, or the death of
the process. `Write` applies the operation's `UPDATE` (`LockedRow`, `RevealingRow`, ...) to the row as it is by then. `Apply` lets the
contract execute a pending transaction, `Drop` lets it expire, and a transaction abandoned by its
request may still be applied. `Deliver` is the listener handing an event to the dispatcher, `LoseEvent`
any of the three ways it can lose one. `ExternalRefund` is a call of `refund()` by somebody else; a
party that submits a signed XDR past the backend is a `SendSigned` followed by `Abandon`. Preparing a
release discloses the secret, because the XDR contains it.

**CrossSwap.** The job of `executeAtomicSwapBackground` is its status; each of the four calls is
simulated and sent (`Send`), included or not by the chain (`Include`, `Expire`), and seen by the poll
(`Confirm`). `Fail` is its `catch`, which undoes nothing, and `Crash` the loss of `swapStore`. Refunds
are anybody's; `Claim` is the counterparty's own agent, which the code of this repository does not
contain but relies on. Time is part of the model because the safety of a swap depends on it: `InTime`
says what must have happened before a ledger of the model, one minute, may end.

**EventListener.** One action per await of `pollOnce`. `passed` is a history variable: the events that
a saved cursor skipped without looking at them, because the page was full or the cursor began at the
present. Two processes run the loop, as they do while a deployment replaces one by the other; `Abandon`
is a rejected await, a death of the process or a stop in the middle of a poll. `Settlement`'s `Deliver`
and `LoseEvent` are the steps of `EventDelivery`, which `EventListener` implements.

**The services.** A request is a record with the await it is at (`pc`) and what it has read; a step
ends at the next await. `Fails` is an await that rejects, `Restart` the death of the process, where it
loses something. Each module says at its head what it leaves out.

**TradeScreens.** One trade and the screens of its two participants over a coarse backend: a request is a
step, but for the lock, which is a check, a transaction and a write. A `run` is one execution of
`loadSecret` or `handleLock`; leaving the screen makes its `client` "gone" and stops nothing, a timeout of
the request makes it "lost" while the backend goes on. A `fetch` of `TradeDetail` is sent, answered with
the row of that moment, and shown when its turn comes. `creator` is the escrow role of whoever created the
trade ("seller" in a cash-out, "buyer" in a deposit), `viewer` that of the device that opens `TradeDetail`.
What others than the screens do to the trade has actions of its own: `SettleOnChain` and `RecordSettlement`
(other clients of the API, and the admin who resolves a dispute: the contract's refund is then "resolved" and
the row what the admin chose), `HandleEvent` (the dispatcher), `RevealLate` and `CancelLate` (requests that
checked an earlier status).

## 4. What the runs check

| Run | Checks | States |
|---|---|---|
| `escrow` | `TypeOK`; `BalancesExplained`: every balance, the contract's included, is the sum of what the stored trades did to it; `OutcomeJustified`: released for its secret, refunded after its timeout; `TermsFixed`: no call rewrites a stored trade or touches a settled one; `StepAccounted`: each call moves exactly one trade's worth; `ImplementsHTLC`: refinement of `HTLC` | 105,340 |
| `settlement` | `RowMatchesChain`: receipts and terminal statuses agree with the contract whatever stale write, retry or event came; `CreditedOnce`: no two requests write for the same transaction; `ReceiptsFinal`: a recorded hash is never replaced | 467,197 |
| `settlement_liveness` | `CancelledFundsReturn`: a trade that stays cancelled after its lock has its funds refunded | 72,102 |
| `swap` | `PaidInOrder`: leg A is released only when leg B was; `BothOrNeither`: no leg is released while the other went back; `StatusBacked`: each status of the job is backed by the legs; `LegsImplementHTLC`: both legs refine `HTLC` | 186,706 |
| `listener` | `NothingMissed`: no event is behind the cursor that was neither taken nor knowingly skipped; `DeliversOnce`: refinement of `EventDelivery`; `EveryEventTaken`: every event is taken or skipped in the end | 45,262 |
| `services` | the properties below | 565,852 |
| `screens` | `SuccessIsReal`: a screen reports a completion only of a trade whose funds were released or whose dispute was resolved; `DetailCatchesUp`: an open `TradeDetail` that has loaded does not stay at an active status which the row has left for good | 1,001,702 |
| `escrow_legacy`, `settlement_sweep`, `settlement_dispute`, `settlement_final`, `settlement_crash` | one statement each that the code does not keep, section 6 | |

`services` checks, for each service:

| Service | Property |
|---|---|
| x402 | `ServedPaid`: nothing is served that was not paid for on chain; `BaseServedOnce`: one Base payment buys one service, through overlapping requests and released reservations; restarts and the switch between table and memory too, unless a facilitator confirms it again |
| login | `ChallengesBounded`: the store keeps its limit and one challenge per address; `ChallengeSpent`: an accepted challenge passes again only in a login that was already past its checks; `LogoutHolds`: a revoked token reaches a handler only after a restart and a failure of the table, or by expiring |
| intake | `MonthlyCap`: the month's record covers every trade and keeps to the ceiling; `DailyLimit`: the limit is passed by the requests that run together only, trades brought back by late writes left out |
| accounts | `PauseNotMissed`: the merchant whose counted cancellations reach the threshold is paused whoever counts last; `TradesBlockDeletion`: no trade that a deletion passed by becomes active again, unless a request was about to lock or reveal it |
| claims | `BurntCodesFail`: no later scan of a confirmed code passes its first look |
| signing | `OutcomesBounded`: no more outcomes than handlers that were in progress together, one that was polled included |
| identity | `LevelFollowsSessions`: levels and sessions follow what Didit approved; `FewCustomerIds`: no more Etherfuse ids than requests that overlapped |
| agent trades | `RowBacked`: the row claims no more than the chain did |
| bazaar | `LocksBounded`: an intent is locked again only by overlapping or failing requests; `HistoryCounts`: a counter misses only what overlapping requests wrote over |
| credentials | `SoldOnce`: one process sells no credential twice; `AnsweredBySpend`: a credential buys no more answers than requests held the transaction that burnt it |
| badges | `ReadersAgree`: `get_badges` and `has_badge` say the same |

Several of these properties are bounds and not equalities, and that is what the code gives: the daily
limit, the customer id and the outcome of a sign request are read, and written after an await.

Bounds. `escrow` has two users (who may be seller, buyer and platform in any combination, the same one
included), two secrets, hence two trades at a time, amounts and fees with one valid and one refused
value each, timeouts of zero and one minute of one ledger, and ledgers up to 2: enough for a lock
refused by the horizon, a refund at and before its timeout, a zero fee, a short balance and a duplicate.
`settlement` has one trade, because trades share no row, transaction or contract entry. Two requests run
at a time (every race here is between a reader and one writer), each of which may have its own lock and
its own refund transaction; there is one release transaction, one ledger of timeout, and the platform
has its own account. `Symmetry` exchanges the requests and the transactions, in the safety run only. A
failed transaction that no request refers to may be built again, so retries are not bounded.

`swap` has one swap, because swaps share only balances, each sufficient. A ledger of the model is a
minute: a poll takes one, a transaction is valid for three, timeouts are 10 and 5 as `routes/agent.ts` 223
makes the first at least twice the second, the contract's minimum is 5, and the chain ends at 20, after
both timeouts of a lock made late. `BothOrNeither` assumes that the counterparty uses a secret within
`ReactionLedgers` of its publication; the difference of the two timeouts is what allows it that.

`listener` has two processes, two events and a page of one, so that one ledger can hold more than a page,
and three ledgers, of which the RPC server forgets the oldest ones.

`services` runs one service in each behaviour, chosen at the start: they share no variable, so a
behaviour of all of them is an interleaving of behaviours of each, and none of the properties speaks of
two. Two requests are in progress at once, interchangeable in every service (`Symmetry`), which is
enough for a check that another request makes stale; each bound on a counter is reached (`MaxTrades` 3
against limits of 1 and 2 in `Intake`, `MaxDeals` 2 against a threshold of 2 cancellations in `Accounts`, `MaxChallenges` 1 with two addresses, two sequence numbers and two seconds for
transactions that coincide).

`screens` has two fetches, so that answers may be shown out of order, one run of the lock, which may be
answered late or never, and one code.

`CHECK_DEADLOCK` is off (except in `listener`, which always polls) because the systems really end: every
trade settled and the last ledger closed.

Fairness. `FairSpec` of `EventListener`: in one process the loop is never left, since every error is
caught and followed by another poll, and an await that is tried again and again succeeds in the end
(strong fairness of each step of that loop). The other process, the chain and the RPC server owe nothing.
`FairSpec` of `Settlement`: ledgers close and `expires_at` passes (weak fairness). A request ends, since the
poll gives up after 15 tries and every failure is thrown (weak fairness of `Abandon`). The sweep runs
every five minutes (`index.ts` 441-462) and `refund()` may be tried again and again, so strong fairness
is assumed of starting a sweep of a trade, of sending its refund and of the network applying it: the
sweep is a timer that competes with nobody, and a refund that fails is tried again without end. Nothing
is assumed of requests, events or users. The run `settlement_crash` assumes more (`RetriedSpec`): the
seller's app posts its lock again and again, and not every one of these requests is cut short, so that
what it finds lost is lost for good and not for want of trying.

`Connection` of `TradeScreens`: the interval of `TradeDetail` fires while there is one, that is while the trade
was loaded and its status is active (weak fairness of some `FetchTrade`), and of the requests that are sent
again and again not all fail (strong fairness of some answer being given, and shown). The user's retry button
(`Retry`) owes nothing, and so do the screens otherwise.

## 5. What is proved

`EscrowProofs` proves of `Escrow`, for all users, secrets, amounts, fees, timeouts and ledger bounds:

| Theorem | States | Assumes |
|---|---|---|
| `TypeCorrect` | `Spec => []TypeOK` | the assumptions on the constants |
| `OutcomesJustified` | `Spec => []OutcomeJustified` | the same |
| `TermsNeverChange` | `Spec => TermsFixed` | `RejectsDuplicates` |
| `EveryStepAccounted` | `Spec => StepAccounted` | `RejectsDuplicates` |
| `BalancesExplainedAlways` | `Spec => []BalancesExplained` | `RejectsDuplicates` |
| `EscrowImplementsHTLC` | `Spec => ImplementsHTLC` | `RejectsDuplicates` |

The assumptions are that the contract is no user (`AddressAssumption`), that amounts and fees are
integers and timeouts naturals (`NumberAssumption`), and that there are finitely many secrets
(`SecretAssumption`: they are 32 bytes long), without which a sum over all trades is no number. The first two theorems hold for all three
contracts, the others for the two that check for duplicates, and the run `escrow_legacy` shows that the
check is needed.

The other modules of proofs, each about the module it extends and for every value of its constants:

| Module | Theorem | States | Assumes |
|---|---|---|---|
| `SettlementProofs` | `TypeCorrect` | `[]TypeOK` | `SettlementAssumption` |
| | `RowsMatchTheChain` | `[]RowMatchesChain`, any number of trades, requests and transactions | the same |
| | `CreditedOnceHolds` | `[]CreditedOnce` | the same |
| | `ReceiptsAreFinal` | `ReceiptsFinal` | the same |
| | `ChainRunsTheContract` | the chain of `Settlement` is a run of `Escrow`'s `Spec`, whatever the backend does | the same |
| | `ContractKeepsItsPromises` | `[]BalancesExplained`, `TermsFixed` and `ImplementsHTLC` of that contract | the same |
| | `ReceiptsJustifiedHolds` | `[]ReceiptsJustified`: no row records a release whose secret was not prepared or a refund before the timeout | the same |
| `AtomicSwapProofs` | `TypeCorrect`, `SecretIsPublished` | `[]TypeOK`, `[]OutcomeJustified` | `Assumptions` of `AtomicSwap` |
| | `SwapImplementsHTLC` | `ImplementsHTLC`, for each token | the same |
| `CrossSwapProofs` | `PaidInOrderHolds`, `StatusBackedHolds` | `[]PaidInOrder`, `[]StatusBacked`, any number of swaps | `LegAssumption` |
| | `BothOrNeitherHolds` | `[]BothOrNeither` | the same, and `PlanLeavesTime` |
| | `LegsRunTheContract` | each leg's chain runs `AtomicSwap`'s `Spec`, whatever the executor does | `LegAssumption` |
| | `LegsImplementHTLCHolds` | `LegsImplementHTLC` | the same |
| `EventListenerProofs` | `NothingMissedHolds`, `TypeCorrect` | `[]NothingMissed`, `[]TypeOK` | `ListenerAssumption` |
| | `DeliversOnceHolds` | `DeliversOnce`, the refinement of `EventDelivery` | the same |
| `TradeScreensProofs` | `SuccessIsRealHolds`, `OneLockHolds` | `[]SuccessIsReal`, `[]OneLock`, any number of attempts and fetches | nothing |
| `AgentServicesProofs` | `ServedPaidHolds`, `BaseServedOnceHolds` | `[]ServedPaid`, `[]BaseServedOnce`, any number of requests and payments | `ServicesAssumption` |
| | `RowBackedHolds` | `[]RowBacked` | the same |
| | `RegistryTypeCorrect`, `BurntForGood` | of `Verifier` by itself: `[]RegistryTypeOK`, `BurnsForGood` | nothing |
| | `RegistryImplemented` | the part of `Credentials` on chain is a run of `Verifier` | `ServicesAssumption` |
| | `SoldOnceHolds`, `AnsweredBySpendHolds` | `[]SoldOnce`, `[]AnsweredBySpend` | the same |
| | `LocksBoundedHolds`, `HistoryCountsHolds` | `[]LocksBounded`, `[]HistoryCounts` | the same |
| | `ReadersAgreeHolds` | `[]ReadersAgree` | the same |
| `UserServicesProofs` | `BurntCodesFailHolds` | `BurntCodesFail` | the same |
| | `LevelFollowsSessionsHolds`, `FewCustomerIdsHolds` | `[]LevelFollowsSessions`, `[]FewCustomerIds` | the same |
| | `OutcomesBoundedHolds` | `[]OutcomesBounded` | the same |
| | `LogoutHoldsAlways`, `ChallengesBoundedHolds`, `ChallengeSpentHolds` | `LogoutHolds`, `ChallengesBounded`, `ChallengeSpent` | the same |
| | `MonthlyCapHolds`, `DailyLimitHolds`, `PauseNotMissedHolds`, `TradesBlockDeletionHolds` | `MonthlyCap`, `DailyLimit`, `PauseNotMissed`, `TradesBlockDeletion` | the same |

`SettlementAssumption` says that the contract is no party, that amounts are integers and times naturals, that
there are finitely many trades, and that `None` is no transaction.

The argument for the escrow. The inductive invariant is `TypeOK /\ Initialized /\ OutcomeJustified`. `TypeOK` alone is
not inductive: a release pays the platform wallet, which is an address only once the contract is
initialised; `Initialized` says that a stored trade means an initialised contract, and that a trade is
stored under the id of its own secret hash, which `OutcomeJustified` needs. There is one lemma per
action. The action properties follow from the invariant and one lemma per action on the transfers; the
refinement shows that `Lock`, `Release`, `Refund` and `CloseLedger` are the steps of the same name of
`HTLC`, and the other actions stutter.

`BalancesExplained` says that each balance is what it was at first and what all settled trades moved, a sum
over all trade ids. The prover has no induction over sets, whose hypothesis is an operator, so what is
needed of sums is proved by least counterexample: a set of subsets that break a fact has, by `WFMin` on
strict inclusion of finite sets, a smallest member (`SmallestSubset`), and taking one element out of it
contradicts that it is the smallest. In this way `SumsExist` and `SumsMove`: a function that changes at one
point changes its sum by as much. One lemma, `StepExplained`, then says that the balance an action moves
is what the effect of its own trade changes.

The argument for the settlement. `RowMatchesChain` speaks of rows, but what breaks it is a request that
writes what it learnt long ago, so the invariant of `SettlementProofs` is about what each request knows:
one that is about to write saw its transaction applied and put it into `processed_tx` (`JobsKnow`).
What was seen then is still true, because the contract only moves forward: an applied transaction stays
applied and `Released` and `Refunded` are final (`LedgerTells`). A trade has one applied lock and one applied
settlement at most, so a second writer can only repeat the first. `RowsBacked` then says of each row,
whatever was written over what, that its hashes are those of applied transactions and its status is one
that they allow. Preparing a release is the step `Disclose` of the contract, a transaction that is applied the
step of its call, and everything else leaves the chain alone (`StepRunsContract`), so `EscrowProofs` holds
of the chain of `Settlement` too; `ReceiptsJustified` follows from its invariant and `RowMatchesChain`. The
run `settlement` has one trade and two requests; the theorems say that no third
request changes the picture.

The argument for both legs or neither. `Timely` bounds the age of every stage of a swap by the deadline
of leg A: each step of the job ends within `PollLedgers`, a transaction sent then is included within
`ValidLedgers`, a published secret is used within `ReactionLedgers`. So leg B cannot be released after
leg A was refunded, nor leg A refunded after leg B was released, if

    3 * PollLedgers + ValidLedgers + ReactionLedgers < InitiatorLedgers      (PlanLeavesTime)

Nothing is asked of the counterparty's timeout. The bound is exact for the instance of `swap`: TLC finds
a swap that pays one leg and returns the other as soon as `InitiatorLedgers` is one less. The code computes
its timeouts from the plan (`api/routes/agent.ts` 223) and does not compare them with how long its
own steps may take; this inequality is what it relies on. `StatusBacked` needs no time: a status is set
after the transaction that the poll saw applied (`Backed`).

The others, in short. A swap of the atomic swap contract stores the hash its id is computed from, which
ties a release to its secret; `HTLC` holds per token because `Lockbox` shows the swaps of one token only.
`PaidInOrder` needs that a secret is disclosed by a release alone, that B is released before A in the
order of `NextStatus`, and that a release of A is sent or claimed only after that. `NothingMissed` needs
for each loop that what lies between the cursor it read and the target it will save is in its queue, in
its skips, or marked, and that the chain only grows past `latest`; overlapping loops may move the cursor
back, which makes the invariant easier. `DeliversOnce` needs that an event in dispatch is marked, in one
loop only, and not yet dispatched. For `SuccessIsReal`, call
the chain settled when it released the funds or an admin resolved the dispute (`Settled`), which nothing takes
back. A row that says completed, or an answer under way that does (`AnswersTrue`), then belongs to a settled
chain: whoever writes completed saw it settled, and the stale writes write something else (`RowFollowsLock`). A
lock that is recorded late is the one write with a transaction of its own: `OneLock` says that whoever still
has one to record is alone, and that none was recorded before.

The legs of `CrossSwap`. Every step of the executor is, for each chain, one of `AtomicSwap` or a stutter
(`StepA`, `StepB`), so each chain is a run of the contract and what `AtomicSwapProofs` proves is true of it:
`LegsImplementHTLC` is `SwapImplementsHTLC` applied to the two.

The services. In each behaviour one service runs (`part` says which, and never changes) and the others keep
their initial states, so the invariant of each is kept by its own actions and by the stutters of the rest;
there is one lemma for its start and one for each of its actions:

* `PaymentsInv`: a request about to be recorded was seen settled on chain, and what it waits for tells the
  kind of its payment (`RequestKnows`); the key of a Base payment that stayed in sight is claimed by one
  request alone, and only before it is served (`KeysHeld`); without a facilitator the token sees to it
  (`TokenOnce`).
* `TradesInv`: a handler about to write saw its transaction applied, and what was applied stays so
  (`Happened`), because the contract only moves forward.
* `CredentialsInv`: a credential in a sale is allocated, to that sale alone and not yet sold
  (`SalesApart`); a transaction that succeeded burnt its nullifier, and what is answered for one and still due
  to the requests that hold its transaction is no more than the requests that shared the burn
  (`AnswersCounted`).
* `BadgesInv`: the badges are those below the next id (`Numbered`), each is in its recipient's index
  (`Indexed`), each entry of an index is a badge of its recipient (`Listed`), in the order of minting
  (`Sorted`).
* `BazaarInv`: two inserts under way are of different intents (`InsertsApart`), a history that was read is
  not above the truth (`OldBelow`), and those who may still lock an intent that was accepted were all there
  when it was (`LocksCounted`).
* `ClaimsInv`: a scan that wrote, and a code that was confirmed, have a consumed row (`ClaimsKnow`).
* `DiditInv`: who speaks of an approval does so after Didit's (`ApprovalsKnown`); an approved session has
  raised the level, is about to, or is half done (`LevelsGranted`).
* `EtherfuseInv`, `SigningInv`: each id beyond the first, each outcome beyond the first, needs a request
  that read before the first was written (`IdsCounted`, `OutcomesCounted`).
* `LogoutInv`: what a request has shown of a revoked token at each of its awaits stays so (`Sound`); the
  token of an answered logout is in the table unless that refused it, and in the memory unless a restart
  dropped it or it expired (`OutRecorded`).
* `ChallengesInv`: a challenge is stored for one address and no more once it was accepted (`StoredOnce`); a
  login at its signature will delete its own challenge and no other (`Fresh`).
* `IntakeInv`: a request is in the queue once and only its head has read the volume, which nobody changed
  since (`QueueOK`); the volume covers the trades and those about to be inserted (`VolumeCounted`); the
  trades of the day and the requests past the check exceed the limit by fewer than the requests there are
  (`TodayCounted`).
* `AccountsInv`: the counted cancellations without those that a request is about to count are below the
  threshold, or the merchant is suspended, or is about to be (`PauseDue`); no trade that a deletion passed by
  is active, nor is a request about to write it as one (`SeenEnded`).

`ServicesAssumption` states what the constants are: the requests are finitely many and not none, the bounds
are naturals and those of challenges and pauses not zero (10 000 and, unless configured otherwise, 5), and "no id" is no
customer id.

Only model-checked: liveness under fairness (`CancelledFundsReturn`, `EveryEventTaken`,
`DetailCatchesUp`), which the proof system does not handle. Every other property of a passing run is
stated by a theorem.

## 6. Where the code differs from what it says

* `escrow_legacy`: the older contract stores a trade without looking for one under the same id. Two
  locks with one secret hash leave the first one's funds in the contract with no trade to claim them.
* `settlement_sweep`: the comment on `sweepPendingRefunds` promises that cancelled trades are settled
  without anybody asking. A reveal or lock request that read the row before the cancellation writes its
  status over it; the secret is gone, the sweep does not see the row, and the funds stay locked until a
  participant asks for the refund.
* `settlement_dispute`: a dispute resolved as `release_seller` refunds on chain and writes `completed`,
  which `refundTrade` takes to mean that the buyer was paid.
* `settlement_final`: the dispatcher does not count `refunded` among the terminal statuses, so the
  event of a refund rewrites the status that the refund recorded to `cancelled`.
* `settlement_crash`: the audit document says that after a crash the app shows the truth. A lock whose
  answer was lost is never recorded if the trade is cancelled in the meantime (`lockTrade` then refuses
  the retry) or if the process stopped between the replay guard and the `UPDATE` (the guard then refuses
  it). The contract holds funds that neither the refund route nor the sweep will look for.

More shows in the models, or was met in writing them, and is no run:

* The QR screen says that an expired code is replaced by asking for a new one (`QRReveal.tsx` 121-123). Its
  button repeats `loadSecret`, which locks the trade first if `activeTrade.status` is `pending`; that status
  is the one of the creation, for nothing updates it, so `Prepare` refuses and no code is asked for.
* With the screens of the app alone, that is without what others do to the trade, a locked trade is neither completed (no
  screen of the buyer of a cash-out calls `completeTrade`, no screen of the seller of a deposit calls
  `revealTrade`) nor cancelled or refunded (the views of `locked` and `revealing` have no button),
  although `docs/AUDIT_MOBILE_MAINNET.md` 19 lists the cash-out as complete.
* The scanner's comment says that the merchant scans the code of the release (`MerchantInbox.tsx` 262). The
  one who shows it is the creator of a cash-out, who is the escrow seller, and `ScanConfirms` asks for the
  seller's scan.
* `verifyBasePayment` says that a failed settlement releases the claim so that the same authorization can be
  tried again (`x402.ts` 478). `settleBasePayment` may also fail after the transfer happened (`Settle`); the
  token takes an authorization once, so the retry fails and the payment bought nothing.
* `recordTradeDispute` sets the status `disputed`, and its test expects it (`disputes.test.ts` 112-113), but the
  CHECK on `trades.status` (`micopay/sql/init.sql` 60-64) refuses it, so opening a dispute inserts it and then
  fails (`OpenDispute`).
* A dispute's crash between closing the dispute and writing the trade leaves the trade as it was, and the
  dispute, being resolved, cannot be resolved again (`Abandon` after `CloseDispute`).
* A cancellation that read an earlier status is written over a completed trade, whose receipt stays
  (`CancelledRow`; `RowMatchesChain` allows it).
* The comment on `consumeClaimToken` (`trade.service.ts` 583-585) lets only one of two concurrent scans win.
  The one that loses the write reads the token again and compares the user who consumed it, so that one user
  who scans twice is confirmed twice (`LookAgain`); `BurntCodesFail` speaks of later scans only.
* A credential "can be used at most once" (`inference.ts` 31-33, `zk-verifier/src/lib.rs` 124-126). The contract
  burns it once, but two requests that build the same transaction, with one sequence number in one second, both
  poll its success and both answer (`Answer`); `AnsweredBySpend` bounds the answers by those requests.
* A merchant may delete the account while a lock or reveal of a trade is in progress: a cancellation lets
  `deleteAccount` see no active trade, and the late `UPDATE` by id (`trade.service.ts` 450-459, 498-503) makes
  it active again (`WriteStatus` of `Accounts`). `TradesBlockDeletion` leaves these trades out.
* The dispatcher's cancellation (`event-dispatcher.service.ts` 193-201) counts no cancellations and pauses
  nobody, so the threshold may be reached without a pause until a cancellation by request counts it too
  (`HandleEvent` of `Accounts`).
* A dispute resolved as completed has refunded the funds, and the screens report success all the same
  (`SuccessIsReal`, "resolved"). A `TradeDetail` that shows `refunded` polls no more and misses that the event
  of that refund turns the row into `cancelled`; one whose first fetch fails has no interval at all.
* A mere ramp quote records its amount in the month's volume (`backend/routes/ramp.ts` 95-103), and a
  trade that is refused later keeps the volume it recorded (`RecordVolume`): the record is an upper bound.
* A lock of an agent trade that races its cancellation leaves an escrow whose secret is erased, and the
  agent API has no refund (`Refund` of `AgentTrades` is somebody else's).
* A restart sells the credential pool again from its start (`Restart` of `Credentials`): `SoldOnce` is a
  promise of one process. What is sold twice can still be spent once.
* A late approval of a lower level replaces a higher one (`GrantLevel`).
* The facilitator's HTTP 200 counts as a settlement, even when its body cannot be read (`x402.ts` 511-518), of
  whatever this call asked for. `Settle` lets it confirm a payment that was settled before, so that a payment
  whose key is out of sight is served again; that it confirms none that never was is assumed.

## 7. What is not modelled

The components marked `not_modelled` in `PROJECT.json`, with the reason: the merchant app's queue, which
never sends anything (its index query uses a key IndexedDB refuses, and the endpoint it is for does not
exist); ramps, DeFi and rates, which pass requests on to outside services; demo routes; the apps but for the
screens of a trade, which are user interface and by far the largest part of the repository; circuits and SDK, which are arithmetic
and client wrappers.

Within the modelled components: mock mode (`MOCK_STELLAR`, mock payments, demo hashes where the chain
fails), notifications, reputation scores, audit rows, encryption, the contents of an XDR
(`assertInvocationMatches` is taken to hold: a signed transaction is for its trade), signatures of
challenges and webhooks (taken to be valid), the lifetimes of contract storage, bans, related accounts
and cooldowns (which only refuse more), quotes of the bazaar, planning by a language model, and the
merchant's availability in `Settlement`, which decides who may cancel and is left free there.
