-------------------------- MODULE SettlementProofs --------------------------
(***************************************************************************)
(* That the trades table tells the truth about the contract, for any       *)
(* number of trades, requests in flight and transactions.                  *)
(*                                                                         *)
(* The argument: what a request will write, and what a row or a dispute    *)
(* says, rests on a transaction that was applied or on a status of the     *)
(* contract that never changes again; and a trade has one applied lock and *)
(* one applied settlement at most, so that a second writer can only repeat *)
(* the first.                                                              *)
(***************************************************************************)
EXTENDS Settlement, TLAPS

USE SettlementAssumption

Row == [status : RowStatus, lock_tx : Txs \cup {None},
        release_tx : Txs \cup {None}, secret : BOOLEAN]

Job == [op : Ops \cup {"idle"}, trade : Trades \cup {None}, tx : Txs \cup {None},
        pc : {"send", "poll", "dispute", "write", "done"}]

Applied(x) == tx[x] = "ok"

Moves(op) == op \notin {"reveal", "cancel"}

\* The wallet that a release pays is there once the contract is deployed.
Deployed ==
    /\ admin # NoUser => platform_wallet \in {Seller, Buyer, Platform}
    /\ \A t \in Trades : OnChain(t) # "None" => platform_wallet \in {Seller, Buyer, Platform}

Shaped ==
    /\ Chain!TypeOK
    /\ Deployed
    /\ row \in [Trades -> Row]
    /\ expired \subseteq Trades
    /\ disputes \in [Trades -> {"none", "open", "resolved"}]
    /\ processed \subseteq Txs
    /\ tx \in [Txs -> TxStatus]
    /\ job \in [Workers -> Job]
    /\ delivered \subseteq Trades

\* The contract shows what each applied transaction did.
EffectsShow ==
    \A t \in Trades, x \in Txs : Applied(x) /\ TradeOf(x) = t =>
        /\ Operation(x) = "lock" => OnChain(t) # "None"
        /\ Operation(x) = "release" => OnChain(t) = "Released"
        /\ Operation(x) = "refund" => OnChain(t) = "Refunded"

\* No trade has two applied locks or two applied settlements.
AppliedOnce ==
    \A x, y \in Txs :
        /\ Applied(x) /\ Applied(y) /\ TradeOf(x) = TradeOf(y)
        /\ Operation(x) = "lock" <=> Operation(y) = "lock"
        => x = y

\* A trade is released by a transaction of the backend: the buyer signs no other.
ReleasesKnown ==
    \A t \in Trades : OnChain(t) = "Released" =>
        \E x \in Txs : Operation(x) = "release" /\ TradeOf(x) = t /\ Applied(x)

LedgerTells == EffectsShow /\ AppliedOnce /\ ReleasesKnown

\* The transaction that each operation of a request sends.
Sends(j) ==
    /\ Moves(j.op)
    /\ j.op = "lock" => Operation(j.tx) = "lock"
    /\ j.op = "complete" => Operation(j.tx) = "release"
    /\ j.op \in {"refund"} \cup Resolutions => Operation(j.tx) = "refund"

\* A request sends transactions of its own trade; one that is about to write
\* saw its transaction applied, and put it into processed_tx.
Knows(j) ==
    /\ j.op \in Ops /\ j.trade \in Trades
    /\ j.pc \in {"send", "poll", "dispute", "write"}
    /\ j.tx # None => TradeOf(j.tx) = j.trade /\ Sends(j)
    /\ Moves(j.op) /\ j.pc # "send" => j.tx # None
    /\ j.op \in {"lock", "complete"} => j.tx # None
    /\ ~ Moves(j.op) => j.pc = "write"
    /\ j.pc = "dispute" => j.op \in Resolutions
    /\ j.tx # None /\ j.pc \in {"dispute", "write"} => Applied(j.tx)
    /\ j.tx # None /\ j.pc = "write" /\ j.op \notin Resolutions => j.tx \in processed
    /\ j.op = "reveal" => row[j.trade].lock_tx # None

JobsKnow == \A w \in Workers : job[w] = Idle \/ Knows(job[w])

\* What a row says of trade t rests on applied transactions of that trade.
Backed(r, t) ==
    /\ r.lock_tx # None =>
          Operation(r.lock_tx) = "lock" /\ TradeOf(r.lock_tx) = t /\ Applied(r.lock_tx)
    /\ r.release_tx # None =>
          /\ Operation(r.release_tx) \in {"release", "refund"}
          /\ TradeOf(r.release_tx) = t /\ Applied(r.release_tx)
    /\ r.status \in {"locked", "revealing"} => r.lock_tx # None
    /\ r.status \in {"completed", "refunded"} => r.release_tx # None
    /\ r.status = "refunded" => OnChain(t) = "Refunded"

RowsBacked ==
    /\ \A t \in Trades : Backed(row[t], t)
    /\ \A t \in Trades : disputes[t] = "resolved" => OnChain(t) = "Refunded"

Inv == Shaped /\ LedgerTells /\ JobsKnow /\ RowsBacked /\ CreditedOnce

\* Different trades have different entries in the contract's storage.
LEMMA IdFacts ==
    /\ \A t \in Trades : HashOf(t) \in Chain!Hashes /\ IdOf(t) \in Chain!TradeIds
    /\ \A s, t \in Trades : IdOf(s) = IdOf(t) => s = t
    /\ \A id \in Chain!TradeIds : \E t \in Trades : id = IdOf(t)
BY DEF HashOf, IdOf, Chain!Hashes, Chain!TradeIds, Chain!ComputeTradeId, Chain!Sha256

\* A transaction is named by its operation, its trade and its attempt.
LEMMA TxFacts ==
    /\ \A t \in Trades, k \in LockAttempts : LET x == <<"lock", t, k>> IN
          x \in Txs /\ Operation(x) = "lock" /\ TradeOf(x) = t
    /\ \A t \in Trades, k \in ReleaseAttempts : LET x == <<"release", t, k>> IN
          x \in Txs /\ Operation(x) = "release" /\ TradeOf(x) = t
    /\ \A t \in Trades, k \in RefundAttempts : LET x == <<"refund", t, k>> IN
          x \in Txs /\ Operation(x) = "refund" /\ TradeOf(x) = t
    /\ \A x \in Txs : TradeOf(x) \in Trades /\ Operation(x) \in {"lock", "release", "refund"}
BY DEF Txs, Operation, TradeOf

-----------------------------------------------------------------------------
(* What the contract's functions do to a trade.                            *)

\* A transfer of what the payer owns keeps balances natural.
LEMMA TransferType ==
    ASSUME NEW b \in [Chain!Addresses -> Nat], NEW from \in Chain!Addresses,
           NEW to \in Chain!Addresses, NEW amount \in Nat, b[from] >= amount
    PROVE  Chain!Transfer(b, from, to, amount) \in [Chain!Addresses -> Nat]
BY DEF Chain!Transfer, Chain!If

\* Locking makes a trade that was not there.
LEMMA LockEffect ==
    ASSUME Shaped, NEW t \in Trades,
           Chain!Lock(Seller, Buyer, Amount, Fee, HashOf(t), TimeoutMinutes)
    PROVE  /\ Chain!TypeOK' /\ Deployed'
           /\ OnChain(t) = "None" /\ OnChain(t)' = "Locked"
           /\ \A s \in Trades \ {t} : OnChain(s)' = OnChain(s)
<1> DEFINE m == TimeoutMinutes * LedgersPerMinute
           new == [seller |-> Seller, buyer |-> Buyer, amount |-> Amount,
                   platform_fee |-> Fee, secret_hash |-> HashOf(t),
                   timeout_ledger |-> ledger + m, status |-> "Locked"]
<1>1. /\ Amount > 0 /\ Fee >= 0 /\ admin # NoUser
      /\ trades[IdOf(t)] = Chain!NoTrade
      /\ balance[Seller] >= Amount + Fee
      /\ trades' = [trades EXCEPT ![IdOf(t)] = new]
      /\ balance' = Chain!Transfer(balance, Seller, Contract, Amount + Fee)
      /\ UNCHANGED <<admin, platform_wallet, ledger, disclosed>>
  BY DEF Chain!Lock, Chain!CanLock, IdOf
<1>2. m \in Nat /\ Amount \in Nat \ {0} /\ Fee \in Nat /\ ledger \in Nat
  BY <1>1 DEF Shaped, Chain!TypeOK
<1>3. new \in Chain!TradeEscrow /\ new.status = "Locked"
  BY <1>2, IdFacts DEF Chain!TradeEscrow, Chain!TradeStatus
<1> HIDE DEF new
<1>4. balance' \in [Chain!Addresses -> Nat]
  <2>1. balance \in [Chain!Addresses -> Nat] /\ Seller \in Chain!Addresses
        /\ Contract \in Chain!Addresses /\ Amount + Fee \in Nat
    BY <1>2 DEF Shaped, Chain!TypeOK, Chain!Addresses
  <2> QED
    BY <1>1, <2>1, TransferType
<1>5. trades' \in [Chain!TradeIds -> Chain!TradeEscrow \cup {Chain!NoTrade}]
  BY <1>1, <1>3, IdFacts DEF Shaped, Chain!TypeOK
<1>6. trades'[IdOf(t)] = new /\ \A s \in Trades \ {t} : trades'[IdOf(s)] = trades[IdOf(s)]
  BY <1>1, IdFacts DEF Shaped, Chain!TypeOK
<1>7. Chain!TypeOK'
  BY <1>1, <1>4, <1>5 DEF Shaped, Chain!TypeOK
<1>8. Deployed'
  BY <1>1 DEF Shaped, Deployed
<1> QED
  BY <1>1, <1>3, <1>6, <1>7, <1>8 DEF OnChain, Chain!NoTrade

\* Writing the outcome of a locked trade touches that trade alone.
LEMMA SettledTrade ==
    ASSUME Shaped, NEW t \in Trades, Chain!IsLocked(IdOf(t)),
           NEW outcome \in {"Released", "Refunded"},
           trades' = [trades EXCEPT ![IdOf(t)].status = outcome]
    PROVE  /\ trades[IdOf(t)] \in Chain!TradeEscrow
           /\ trades' \in [Chain!TradeIds -> Chain!TradeEscrow \cup {Chain!NoTrade}]
           /\ OnChain(t) = "Locked" /\ OnChain(t)' = outcome
           /\ \A s \in Trades \ {t} : OnChain(s)' = OnChain(s)
<1>1. trades[IdOf(t)] \in Chain!TradeEscrow
  BY IdFacts DEF Shaped, Chain!TypeOK, Chain!IsLocked, Chain!NoTrade
<1>2. /\ [trades[IdOf(t)] EXCEPT !.status = outcome] \in Chain!TradeEscrow
      /\ [trades[IdOf(t)] EXCEPT !.status = outcome].status = outcome
  BY <1>1 DEF Chain!TradeEscrow, Chain!TradeStatus
<1>3. /\ trades'[IdOf(t)] = [trades[IdOf(t)] EXCEPT !.status = outcome]
      /\ \A s \in Trades \ {t} : trades'[IdOf(s)] = trades[IdOf(s)]
  BY IdFacts DEF Shaped, Chain!TypeOK
<1>4. trades' \in [Chain!TradeIds -> Chain!TradeEscrow \cup {Chain!NoTrade}]
  BY <1>2, IdFacts DEF Shaped, Chain!TypeOK
<1> QED
  BY <1>1, <1>2, <1>3, <1>4 DEF OnChain, Chain!IsLocked

\* Refunding returns the total to the seller.
LEMMA RefundEffect ==
    ASSUME Shaped, NEW t \in Trades, Chain!Refund(IdOf(t))
    PROVE  /\ Chain!TypeOK' /\ Deployed'
           /\ OnChain(t) = "Locked" /\ OnChain(t)' = "Refunded"
           /\ \A s \in Trades \ {t} : OnChain(s)' = OnChain(s)
<1> DEFINE trade == trades[IdOf(t)]
<1>1. /\ Chain!IsLocked(IdOf(t))
      /\ trades' = [trades EXCEPT ![IdOf(t)].status = "Refunded"]
      /\ balance[Contract] >= trade.amount + trade.platform_fee
      /\ balance' = Chain!Transfer(balance, Contract, trade.seller,
                                   trade.amount + trade.platform_fee)
      /\ UNCHANGED <<admin, platform_wallet, ledger, disclosed>>
  BY DEF Chain!Refund, Chain!CanRefund, Chain!Total
<1>2. /\ trade \in Chain!TradeEscrow
      /\ trades' \in [Chain!TradeIds -> Chain!TradeEscrow \cup {Chain!NoTrade}]
      /\ OnChain(t) = "Locked" /\ OnChain(t)' = "Refunded"
      /\ \A s \in Trades \ {t} : OnChain(s)' = OnChain(s)
  BY <1>1, SettledTrade
<1>3. trade.seller \in Chain!Addresses /\ trade.amount + trade.platform_fee \in Nat
  BY <1>2 DEF Chain!TradeEscrow, Chain!Addresses
<1>4. balance' \in [Chain!Addresses -> Nat]
  BY <1>1, <1>3, TransferType DEF Shaped, Chain!TypeOK, Chain!Addresses
<1>5. Chain!TypeOK'
  BY <1>1, <1>2, <1>4 DEF Shaped, Chain!TypeOK
<1>6. Deployed'
  BY <1>1, <1>2 DEF Shaped, Deployed
<1> QED
  BY <1>2, <1>5, <1>6

\* Releasing pays the buyer, and the platform its fee.
LEMMA ReleaseEffect ==
    ASSUME Shaped, NEW t \in Trades, Chain!Release(Buyer, IdOf(t), t)
    PROVE  /\ Chain!TypeOK' /\ Deployed'
           /\ OnChain(t) = "Locked" /\ OnChain(t)' = "Released"
           /\ \A s \in Trades \ {t} : OnChain(s)' = OnChain(s)
<1> DEFINE trade == trades[IdOf(t)]
           paid == Chain!Transfer(balance, Contract, trade.buyer, trade.amount)
<1>1. /\ Chain!IsLocked(IdOf(t))
      /\ trades' = [trades EXCEPT ![IdOf(t)].status = "Released"]
      /\ balance[Contract] >= trade.amount + trade.platform_fee
      /\ balance' = IF trade.platform_fee > 0
                    THEN Chain!Transfer(paid, Contract, platform_wallet, trade.platform_fee)
                    ELSE paid
      /\ UNCHANGED <<admin, platform_wallet, ledger, disclosed>>
  BY DEF Chain!Release, Chain!CanRelease, Chain!Total, Chain!ReleasePayout
<1>2. /\ trade \in Chain!TradeEscrow
      /\ trades' \in [Chain!TradeIds -> Chain!TradeEscrow \cup {Chain!NoTrade}]
      /\ OnChain(t) = "Locked" /\ OnChain(t)' = "Released"
      /\ \A s \in Trades \ {t} : OnChain(s)' = OnChain(s)
  BY <1>1, SettledTrade
<1>3. /\ trade.buyer \in Chain!Addresses /\ trade.buyer # Contract
      /\ trade.amount \in Nat /\ trade.platform_fee \in Nat
      /\ Contract \in Chain!Addresses /\ balance \in [Chain!Addresses -> Nat]
  BY <1>2 DEF Chain!TradeEscrow, Chain!Addresses, Shaped, Chain!TypeOK
<1>4. paid \in [Chain!Addresses -> Nat]
  BY <1>1, <1>3, TransferType
<1>5. paid[Contract] = balance[Contract] - trade.amount
  BY <1>3 DEF Chain!Transfer, Chain!If
<1>6. platform_wallet \in Chain!Addresses
  BY <1>2 DEF Shaped, Deployed, Chain!Addresses
<1>7. paid[Contract] >= trade.platform_fee
  BY <1>1, <1>3, <1>5
<1>8. balance' \in [Chain!Addresses -> Nat]
  <2> HIDE DEF paid, trade
  <2> QED
    BY <1>1, <1>3, <1>4, <1>6, <1>7, TransferType
<1>9. Chain!TypeOK' /\ Deployed'
  BY <1>1, <1>2, <1>8 DEF Shaped, Chain!TypeOK, Deployed
<1> QED
  BY <1>2, <1>9

-----------------------------------------------------------------------------
(* What carries over a step.                                               *)

\* The contract's statuses only move forward.
Forward ==
    \A t \in Trades :
        /\ OnChain(t) # "None" => OnChain(t)' # "None"
        /\ OnChain(t) \in {"Released", "Refunded"} => OnChain(t)' = OnChain(t)

\* An applied transaction stays applied.
Kept == \A x \in Txs : Applied(x) => Applied(x)'

\* A recorded lock stays recorded.
LocksStay == \A t \in Trades : row[t].lock_tx # None => row'[t].lock_tx # None

\* While no transaction is applied, the contract is what the others made of it.
LEMMA LedgerKept ==
    ASSUME LedgerTells, \A t \in Trades : OnChain(t)' = OnChain(t),
           \A x \in Txs : Applied(x)' = Applied(x)
    PROVE  LedgerTells'
<1>1. EffectsShow'
  BY DEF LedgerTells, EffectsShow
<1>2. AppliedOnce'
  BY DEF LedgerTells, AppliedOnce
<1>3. ReleasesKnown'
  BY DEF LedgerTells, ReleasesKnown
<1> QED
  BY <1>1, <1>2, <1>3 DEF LedgerTells

\* Rows and disputes that are left alone stay backed.
LEMMA RowsKept ==
    ASSUME Shaped, RowsBacked, Forward, Kept, UNCHANGED <<row, disputes>>
    PROVE  RowsBacked'
BY DEF Shaped, RowsBacked, Backed, Forward, Kept, Row

\* One row is written, and what it now says is backed.
LEMMA RowWritten ==
    ASSUME Shaped, RowsBacked, Forward, Kept, UNCHANGED disputes,
           NEW t \in Trades, \A s \in Trades \ {t} : row'[s] = row[s], Backed(row[t], t)'
    PROVE  RowsBacked'
<1>1. \A s \in Trades \ {t} : Backed(row[s], s)'
  BY DEF Shaped, RowsBacked, Backed, Forward, Kept, Row
<1> QED
  BY <1>1 DEF RowsBacked, Forward

\* A request keeps what it knows while others act.
LEMMA KnowsKept ==
    ASSUME Shaped, Kept, LocksStay, processed \subseteq processed',
           NEW w \in Workers, Knows(job[w]), job'[w] = job[w]
    PROVE  Knows(job[w])'
BY DEF Shaped, Knows, Sends, Kept, LocksStay, Job

\* No request moves.
LEMMA JobsKept ==
    ASSUME Shaped, JobsKnow, Kept, LocksStay, processed \subseteq processed',
           UNCHANGED job
    PROVE  JobsKnow'
BY KnowsKept DEF JobsKnow

\* One request moves to a state that knows what it should.
LEMMA JobMoved ==
    ASSUME Shaped, JobsKnow, Kept, LocksStay, processed \subseteq processed',
           NEW w \in Workers, \A v \in Workers \ {w} : job'[v] = job[v],
           job'[w] = Idle \/ Knows(job[w])'
    PROVE  JobsKnow'
<1>1. \A v \in Workers \ {w} : job'[v] = Idle \/ Knows(job[v])'
  BY KnowsKept DEF JobsKnow
<1> QED
  BY <1>1 DEF JobsKnow

\* Only a request that comes to its write could disturb CreditedOnce.
LEMMA CreditKept ==
    ASSUME CreditedOnce,
           \A w \in Workers : job'[w] = job[w] \/ job'[w].pc # "write" \/ job'[w].tx = None
                             \/ job'[w].op \in Resolutions
    PROVE  CreditedOnce'
BY DEF CreditedOnce

\* A step in which neither the contract's trades change nor a transaction is
\* applied.
LEMMA Quiet ==
    ASSUME Inv, UNCHANGED trades, \A x \in Txs : Applied(x)' = Applied(x)
    PROVE  Forward /\ Kept /\ LedgerTells'
<1>1. \A t \in Trades : OnChain(t)' = OnChain(t)
  BY DEF OnChain
<1> QED
  BY <1>1, LedgerKept DEF Inv, Forward, Kept

LEMMA ChainQuiet ==
    ASSUME Shaped, UNCHANGED escrowVars
    PROVE  Chain!TypeOK' /\ Deployed'
BY DEF Shaped, escrowVars, Chain!TypeOK, Deployed, OnChain

LEMMA StartsInv == Init => Inv
<1> SUFFICES ASSUME Init PROVE Inv
  OBVIOUS
<1>1. Chain!TypeOK
  BY DEF Init, Chain!Init, Chain!TypeOK, Chain!Addresses
<1>2. \A t \in Trades : OnChain(t) = "None"
  BY IdFacts DEF Init, Chain!Init, OnChain, Chain!NoTrade
<1>3. Shaped
  BY <1>1, <1>2 DEF Init, Chain!Init, Shaped, Deployed, Row, NoRow, RowStatus, TxStatus, Job, Idle
<1>4. \A x \in Txs : ~ Applied(x)
  BY DEF Init, Applied
<1>5. LedgerTells
  BY <1>2, <1>4 DEF LedgerTells, EffectsShow, AppliedOnce, ReleasesKnown
<1>6. JobsKnow /\ CreditedOnce
  BY DEF Init, JobsKnow, CreditedOnce, Idle
<1>7. RowsBacked
  BY DEF Init, RowsBacked, Backed, NoRow
<1> QED
  BY <1>3, <1>5, <1>6, <1>7 DEF Inv

-----------------------------------------------------------------------------
(* One lemma per action.                                                   *)

\* Deployment and the passing of ledgers touch no trade.
LEMMA DeployInv == Inv /\ (Deploy \/ CloseLedger) => Inv'
<1> SUFFICES ASSUME Inv, Deploy \/ CloseLedger PROVE Inv'
  OBVIOUS
<1>1. UNCHANGED <<trades, balance, disclosed, dbVars, tx, job, delivered>>
  BY DEF Deploy, CloseLedger, Chain!Initialize, Chain!CloseLedger
<1>2. Forward /\ Kept /\ LedgerTells'
  BY <1>1, Quiet DEF Applied
<1>3. Chain!TypeOK' /\ Deployed'
  BY <1>1 DEF Inv, Shaped, Deploy, CloseLedger, Chain!Initialize, Chain!CloseLedger,
              Chain!TypeOK, Deployed, OnChain
<1>4. Shaped'
  BY <1>1, <1>3 DEF Inv, Shaped, dbVars
<1>5. JobsKnow' /\ RowsBacked' /\ CreditedOnce'
  BY <1>1, <1>2, JobsKept, RowsKept, CreditKept DEF Inv, LocksStay, dbVars
<1> QED
  BY <1>2, <1>4, <1>5 DEF Inv

\* A new row says nothing of the chain; the clock and the lost event neither.
LEMMA RecordInv ==
    ASSUME Inv, NEW t \in Trades, Create(t) \/ Expire(t) \/ LoseEvent(t) \/ OpenDispute(t)
    PROVE  Inv'
<1>1. UNCHANGED <<escrowVars, processed, tx, job>>
  BY DEF Create, Expire, LoseEvent, OpenDispute, dbVars
<1>2. Forward /\ Kept /\ LedgerTells'
  BY <1>1, Quiet DEF Applied, escrowVars
<1>3. /\ row' \in [Trades -> Row] /\ LocksStay
      /\ \A s \in Trades : row'[s] = row[s] \/ (row'[s].lock_tx = None
            /\ row'[s].release_tx = None /\ row'[s].status = "pending")
      /\ \A s \in Trades : disputes'[s] = "resolved" => disputes[s] = "resolved"
  <2>1. CASE Create(t)
    <3> DEFINE new == [NoRow EXCEPT !.status = "pending", !.secret = TRUE]
    <3>1. new \in Row /\ new.lock_tx = None /\ new.release_tx = None /\ new.status = "pending"
      BY DEF NoRow, Row, RowStatus
    <3>2. row[t].lock_tx = None /\ row' = [row EXCEPT ![t] = new] /\ disputes' = disputes
      BY <2>1 DEF Create, NoRow
    <3> HIDE DEF new
    <3> QED
      BY <3>1, <3>2 DEF Inv, Shaped, LocksStay
  <2>2. CASE ~ Create(t)
    BY <2>2 DEF Inv, Shaped, Expire, LoseEvent, OpenDispute, dbVars, LocksStay
  <2> QED
    BY <2>1, <2>2
<1>4. Shaped'
  BY <1>1, <1>3, ChainQuiet DEF Inv, Shaped, Create, Expire, LoseEvent, OpenDispute, dbVars
<1>5. RowsBacked'
  BY <1>2, <1>3 DEF Inv, Shaped, RowsBacked, Backed, Forward, Kept, Row
<1>6. JobsKnow' /\ CreditedOnce'
  BY <1>1, <1>2, <1>3, JobsKept, CreditKept DEF Inv
<1> QED
  BY <1>2, <1>4, <1>5, <1>6 DEF Inv

\* A transaction that is handed out to be signed was not applied.
LEMMA PrepareInv ==
    ASSUME Inv, NEW t \in Trades, NEW x \in Txs, PrepareLock(t, x) \/ PrepareRelease(t, x)
    PROVE  Inv'
<1>1. /\ UNCHANGED <<admin, platform_wallet, trades, balance, ledger, dbVars, job, delivered>>
      /\ disclosed' \in {disclosed, disclosed \cup {t}}
      /\ tx' = [tx EXCEPT ![x] = "signed"] /\ Unused(x)
  BY DEF PrepareLock, PrepareRelease, escrowVars
<1>2. \A y \in Txs : Applied(y)' = Applied(y)
  BY <1>1 DEF Inv, Shaped, Unused, Applied
<1>3. Forward /\ Kept /\ LedgerTells'
  BY <1>1, <1>2, Quiet
<1>4. Shaped'
  BY <1>1 DEF Inv, Shaped, dbVars, TxStatus, Chain!TypeOK, Deployed, OnChain
<1>5. JobsKnow' /\ RowsBacked' /\ CreditedOnce'
  BY <1>1, <1>3, JobsKept, RowsKept, CreditKept DEF Inv, LocksStay, dbVars
<1> QED
  BY <1>3, <1>4, <1>5 DEF Inv
\* A request that starts knows its trade, and its transaction if it was given
\* one.
LEMMA StartInv ==
    ASSUME Inv, NEW w \in Workers, NEW t \in Trades, NEW op \in Ops,
           NEW x \in Txs \cup {None}, NEW pc \in {"send", "write"},
           Start(w, op, t, x, pc), UNCHANGED <<escrowVars, dbVars, tx, delivered>>,
           Knows([op |-> op, trade |-> t, tx |-> x, pc |-> pc]),
           x = None \/ pc = "send"
    PROVE  Inv'
<1> DEFINE j == [op |-> op, trade |-> t, tx |-> x, pc |-> pc]
<1>1. j \in Job /\ job' = [job EXCEPT ![w] = j] /\ (j.tx = None \/ j.pc # "write")
  BY DEF Start, Job
<1>2. UNCHANGED <<row, disputes, processed, tx>> /\ UNCHANGED trades
  BY DEF dbVars, escrowVars
<1>3. Forward /\ Kept /\ LedgerTells'
  BY <1>2, Quiet DEF Applied
<1>4. Knows(job[w])'
  <2>1. job'[w] = j
    BY <1>1 DEF Inv, Shaped
  <2> QED
    BY <1>2, <2>1 DEF Knows, Sends, Applied
<1> HIDE DEF j
<1>5. Shaped'
  BY <1>1, ChainQuiet DEF Inv, Shaped, dbVars
<1>6. JobsKnow'
  BY <1>1, <1>2, <1>3, <1>4, JobMoved DEF Inv, Shaped, LocksStay
<1>7. RowsBacked'
  BY <1>2, <1>3, RowsKept DEF Inv
<1>8. CreditedOnce'
  BY <1>1, CreditKept DEF Inv, Shaped
<1> QED
  BY <1>3, <1>5, <1>6, <1>7, <1>8 DEF Inv

\* Each request starts so.
LEMMA BeginInv ==
    ASSUME Inv, NEW w \in Workers, NEW t \in Trades,
           \/ Begin(w, t) \/ Sweep(w, t)
           \/ \E k \in LockAttempts : PostLock(w, t, <<"lock", t, k>>)
    PROVE  Inv'
<1>1. UNCHANGED <<escrowVars, dbVars, tx, delivered>>
  BY DEF Begin, Sweep, PostLock
<1>2. ASSUME NEW k \in LockAttempts, BeginLock(w, t, <<"lock", t, k>>) PROVE Inv'
  <2> DEFINE x == <<"lock", t, k>>
  <2>1. x \in Txs /\ Operation(x) = "lock" /\ TradeOf(x) = t /\ Start(w, "lock", t, x, "send")
    BY <1>2, TxFacts DEF BeginLock
  <2> HIDE DEF x
  <2>2. Knows([op |-> "lock", trade |-> t, tx |-> x, pc |-> "send"])
    BY <2>1 DEF Knows, Sends, Ops, Moves, Resolutions
  <2> QED
    BY <1>1, <2>1, <2>2, StartInv DEF Ops
<1>3. ASSUME NEW k \in ReleaseAttempts, BeginComplete(w, t, <<"release", t, k>>) PROVE Inv'
  <2> DEFINE x == <<"release", t, k>>
  <2>1. x \in Txs /\ Operation(x) = "release" /\ TradeOf(x) = t
        /\ Start(w, "complete", t, x, "send")
    BY <1>3, TxFacts DEF BeginComplete
  <2> HIDE DEF x
  <2>2. Knows([op |-> "complete", trade |-> t, tx |-> x, pc |-> "send"])
    BY <2>1 DEF Knows, Sends, Ops, Moves, Resolutions
  <2> QED
    BY <1>1, <2>1, <2>2, StartInv DEF Ops
<1>4. CASE BeginReveal(w, t)
  <2>1. row[t].lock_tx # None /\ Start(w, "reveal", t, None, "write")
    BY <1>4 DEF BeginReveal, Inv, RowsBacked, Backed
  <2>2. Knows([op |-> "reveal", trade |-> t, tx |-> None, pc |-> "write"])
    BY <2>1 DEF Knows, Ops, Moves, Resolutions
  <2> QED
    BY <1>1, <2>1, <2>2, StartInv DEF Ops
<1>5. CASE BeginCancel(w, t)
  <2>1. Knows([op |-> "cancel", trade |-> t, tx |-> None, pc |-> "write"])
    BY DEF Knows, Ops, Moves, Resolutions
  <2> QED
    BY <1>1, <1>5, <2>1, StartInv DEF BeginCancel, Ops
<1>6. ASSUME NEW op \in {"refund"} \cup Resolutions, Start(w, op, t, None, "send") PROVE Inv'
  <2>1. op \in Ops /\ op \notin {"lock", "complete", "reveal", "cancel"}
    BY DEF Ops, Resolutions
  <2>2. Knows([op |-> op, trade |-> t, tx |-> None, pc |-> "send"])
    BY <2>1 DEF Knows, Moves
  <2> QED
    BY <1>1, <1>6, <2>1, <2>2, StartInv
<1> QED
  BY <1>2, <1>3, <1>4, <1>5, <1>6 DEF Begin, Sweep, PostLock, BeginRefund, BeginSweep, BeginResolve
\* Sending makes a transaction pending that was not applied.
LEMMA SendSignedInv ==
    ASSUME Inv, NEW w \in Workers, SendSigned(w)
    PROVE  Inv'
<1> DEFINE x == job[w].tx
           j == [job[w] EXCEPT !.pc = "poll"]
<1>1. /\ job[w].pc = "send" /\ x # None /\ tx[x] \in {"signed", "pending", "ok"}
      /\ tx' = tx \/ (tx[x] # "ok" /\ tx' = [tx EXCEPT ![x] = "pending"])
      /\ job' = [job EXCEPT ![w] = j]
      /\ UNCHANGED <<escrowVars, row, expired, disputes, processed, delivered>>
  BY DEF SendSigned, Goto, dbVars
<1>2. job[w] \in Job /\ job[w] # Idle /\ Knows(job[w]) /\ x \in Txs
  BY <1>1 DEF Inv, Shaped, JobsKnow, Idle, Job
<1>3. j \in Job /\ j.pc = "poll" /\ j.op = job[w].op /\ j.trade = job[w].trade /\ j.tx = x
  BY <1>2 DEF Job
<1>4. \A y \in Txs : Applied(y)' = Applied(y)
  BY <1>1, <1>2 DEF Inv, Shaped, Applied
<1>5. Forward /\ Kept /\ LedgerTells'
  BY <1>1, <1>4, Quiet DEF escrowVars
<1> HIDE DEF j
<1>6. Knows(job[w])'
  <2>1. job'[w] = j
    BY <1>1 DEF Inv, Shaped
  <2> QED
    BY <1>1, <1>2, <1>3, <2>1 DEF Knows, Sends
<1>7. JobsKnow'
  BY <1>1, <1>5, <1>6, JobMoved DEF Inv, Shaped, LocksStay
<1>8. Shaped'
  BY <1>1, <1>2, <1>3, ChainQuiet DEF Inv, Shaped, TxStatus
<1>9. RowsBacked'
  BY <1>1, <1>5, RowsKept DEF Inv
<1>10. CreditedOnce'
  BY <1>1, <1>3, CreditKept DEF Inv, Shaped
<1> QED
  BY <1>5, <1>7, <1>8, <1>9, <1>10 DEF Inv

\* A refund is sent as a transaction that no request waits for.
LEMMA SendRefundInv ==
    ASSUME Inv, NEW w \in Workers, NEW t \in Trades, SendRefund(w, t)
    PROVE  Inv'
<1>1. PICK k \in RefundAttempts :
          /\ Unused(<<"refund", t, k>>)
          /\ tx' = [tx EXCEPT ![<<"refund", t, k>>] = "pending"]
          /\ job' = [job EXCEPT ![w].tx = <<"refund", t, k>>, ![w].pc = "poll"]
  BY DEF SendRefund
<1> DEFINE x == <<"refund", t, k>>
           j == [job[w] EXCEPT !.tx = x, !.pc = "poll"]
<1>2. x \in Txs /\ Operation(x) = "refund" /\ TradeOf(x) = t /\ Unused(x)
      /\ tx' = [tx EXCEPT ![x] = "pending"]
  BY <1>1, TxFacts
<1>3. /\ job[w].pc = "send" /\ job[w].trade = t /\ job[w].tx = None
      /\ job' = [job EXCEPT ![w] = j]
      /\ UNCHANGED <<escrowVars, row, expired, disputes, processed, delivered>>
  BY <1>1 DEF SendRefund, dbVars, Inv, Shaped, Job
<1> HIDE DEF x
<1>4. job[w] \in Job /\ job[w] # Idle /\ Knows(job[w])
  BY <1>3 DEF Inv, Shaped, JobsKnow, Idle
<1>5. j \in Job /\ j.pc = "poll" /\ j.op = job[w].op /\ j.trade = t /\ j.tx = x
  BY <1>2, <1>3, <1>4 DEF Job
<1>6. \A y \in Txs : Applied(y)' = Applied(y)
  BY <1>2 DEF Inv, Shaped, Applied, Unused
<1>7. Forward /\ Kept /\ LedgerTells'
  BY <1>3, <1>6, Quiet DEF escrowVars
<1> HIDE DEF j
<1>8. Knows(job[w])'
  <2>1. job'[w] = j
    BY <1>3 DEF Inv, Shaped
  <2> QED
    BY <1>2, <1>3, <1>4, <1>5, <2>1 DEF Knows, Sends, Moves, Ops
<1>9. JobsKnow'
  BY <1>3, <1>7, <1>8, JobMoved DEF Inv, Shaped, LocksStay
<1>10. Shaped'
  BY <1>2, <1>3, <1>5, ChainQuiet DEF Inv, Shaped, TxStatus
<1>11. RowsBacked'
  BY <1>3, <1>7, RowsKept DEF Inv
<1>12. CreditedOnce'
  BY <1>3, <1>5, CreditKept DEF Inv, Shaped
<1> QED
  BY <1>7, <1>9, <1>10, <1>11, <1>12 DEF Inv

\* The replay guard lets one request through for each transaction.
LEMMA ConfirmInv ==
    ASSUME Inv, NEW w \in Workers, Confirm(w)
    PROVE  Inv'
<1> DEFINE x == job[w].tx
           j == [job[w] EXCEPT !.pc = IF job[w].op \in Resolutions THEN "dispute" ELSE "write"]
<1>1. /\ job[w].pc = "poll" /\ tx[x] = "ok"
      /\ job' = [job EXCEPT ![w] = j]
      /\ processed' = IF job[w].op \in Resolutions THEN processed ELSE processed \cup {x}
      /\ job[w].op \notin Resolutions => x \notin processed
      /\ UNCHANGED <<escrowVars, row, expired, disputes, tx, delivered>>
  BY DEF Confirm, Goto, AssertNotReplayed
<1>2. job[w] \in Job /\ job[w] # Idle /\ Knows(job[w])
  BY <1>1 DEF Inv, Shaped, JobsKnow, Idle
<1>3. x \in Txs
  BY <1>1, <1>2 DEF Knows, Job
<1>4. /\ j \in Job /\ j.op = job[w].op /\ j.trade = job[w].trade /\ j.tx = x
      /\ j.pc = IF job[w].op \in Resolutions THEN "dispute" ELSE "write"
  BY <1>2 DEF Job
<1>5. Forward /\ Kept /\ LedgerTells'
  BY <1>1, Quiet DEF escrowVars, Applied
<1> HIDE DEF j
<1>6. Knows(job[w])'
  <2>1. job'[w] = j
    BY <1>1 DEF Inv, Shaped
  <2> QED
    BY <1>1, <1>2, <1>3, <1>4, <2>1 DEF Knows, Sends, Applied
<1>7. JobsKnow'
  BY <1>1, <1>5, <1>6, JobMoved DEF Inv, Shaped, LocksStay
<1>8. Shaped'
  BY <1>1, <1>3, <1>4, ChainQuiet DEF Inv, Shaped
<1>9. RowsBacked'
  BY <1>1, <1>5, RowsKept DEF Inv
<1>10. CreditedOnce'
  <2>1. job'[w] = j /\ \A v \in Workers \ {w} : job'[v] = job[v]
    BY <1>1 DEF Inv, Shaped
  <2>2. ASSUME NEW v \in Workers \ {w}, job[v].op \notin Resolutions, job[v].pc = "write",
               job[v].tx # None
        PROVE  job[v].tx \in processed
    BY <2>2 DEF Inv, JobsKnow, Knows, Idle
  <2>3. j.op \notin Resolutions => j.tx \notin processed
    BY <1>1, <1>4
  <2> QED
    BY <2>1, <2>2, <2>3 DEF Inv, CreditedOnce
<1> QED
  BY <1>5, <1>7, <1>8, <1>9, <1>10 DEF Inv
\* A dispute is closed once its refund was seen on chain.
LEMMA CloseDisputeInv ==
    ASSUME Inv, NEW w \in Workers, CloseDispute(w)
    PROVE  Inv'
<1> DEFINE t == job[w].trade
           j == [job[w] EXCEPT !.pc = "write"]
<1>1. /\ job[w].pc = "dispute" /\ job' = [job EXCEPT ![w] = j]
      /\ disputes' = [disputes EXCEPT ![t] = "resolved"]
      /\ UNCHANGED <<escrowVars, row, expired, processed, tx, delivered>>
  BY DEF CloseDispute, Goto
<1>2. job[w] \in Job /\ job[w] # Idle /\ Knows(job[w])
  BY <1>1 DEF Inv, Shaped, JobsKnow, Idle
<1>3. /\ j \in Job /\ j.op = job[w].op /\ j.trade = t /\ j.tx = job[w].tx /\ j.pc = "write"
      /\ job[w].op \in Resolutions /\ t \in Trades
  BY <1>1, <1>2 DEF Job, Knows
<1>4. Forward /\ Kept /\ LedgerTells'
  BY <1>1, Quiet DEF escrowVars, Applied
<1>5. OnChain(t) = "Refunded"
  <2>1. /\ job[w].tx \in Txs /\ Applied(job[w].tx) /\ TradeOf(job[w].tx) = t
        /\ Operation(job[w].tx) = "refund"
    BY <1>1, <1>2, <1>3 DEF Knows, Sends, Moves, Job, Resolutions
  <2> QED
    BY <1>3, <2>1 DEF Inv, LedgerTells, EffectsShow
<1> HIDE DEF j
<1>6. job'[w] = j /\ \A v \in Workers \ {w} : job'[v] = job[v]
  BY <1>1 DEF Inv, Shaped
<1>7. Knows(job[w])'
  BY <1>1, <1>2, <1>3, <1>6 DEF Knows, Sends, Applied
<1>8. JobsKnow'
  BY <1>1, <1>4, <1>6, <1>7, JobMoved DEF Inv, LocksStay
<1>9. Shaped'
  BY <1>1, <1>3, ChainQuiet DEF Inv, Shaped
<1>10. RowsBacked'
  <2>1. \A s \in Trades : Backed(row[s], s)'
    BY <1>1, <1>4 DEF Inv, Shaped, RowsBacked, Backed, Forward, Kept, Row
  <2>2. \A s \in Trades : disputes'[s] = "resolved" => OnChain(s) = "Refunded"
    BY <1>1, <1>3, <1>5 DEF Inv, Shaped, RowsBacked
  <2> QED
    BY <1>4, <2>1, <2>2 DEF RowsBacked, Forward
<1>11. CreditedOnce'
  BY <1>3, <1>6, CreditKept DEF Inv
<1> QED
  BY <1>4, <1>8, <1>9, <1>10, <1>11 DEF Inv

\* A request that throws leaves nothing behind but what it did.
LEMMA AbandonInv ==
    ASSUME Inv, NEW w \in Workers, Abandon(w)
    PROVE  Inv'
<1>1. /\ job' = [job EXCEPT ![w] = Idle] /\ Idle \in Job /\ Idle.pc # "write"
      /\ UNCHANGED <<escrowVars, row, expired, disputes, processed, tx, delivered>>
  BY DEF Abandon, dbVars, Idle, Job
<1>2. job'[w] = Idle /\ \A v \in Workers \ {w} : job'[v] = job[v]
  BY <1>1 DEF Inv, Shaped
<1>3. Forward /\ Kept /\ LedgerTells'
  BY <1>1, Quiet DEF escrowVars, Applied
<1>4. JobsKnow'
  BY <1>1, <1>2, <1>3, JobMoved DEF Inv, LocksStay
<1>5. Shaped'
  BY <1>1, ChainQuiet DEF Inv, Shaped
<1>6. RowsBacked' /\ CreditedOnce'
  BY <1>1, <1>2, <1>3, RowsKept, CreditKept DEF Inv
<1> QED
  BY <1>3, <1>4, <1>5, <1>6 DEF Inv

\* What may be written over the row of trade t: something backed, that
\* replaces no receipt.
Improves(r, t) ==
    /\ r \in Row
    /\ Backed(r, t)
    /\ row[t].lock_tx # None => r.lock_tx = row[t].lock_tx
    /\ row[t].release_tx # None => r.release_tx = row[t].release_tx

\* A lock that was applied is the one the row may have recorded already.
LEMMA SameLock ==
    ASSUME Inv, NEW t \in Trades, NEW x \in Txs, Applied(x), TradeOf(x) = t,
           Operation(x) = "lock"
    PROVE  row[t].lock_tx # None => row[t].lock_tx = x
BY DEF Inv, Shaped, Row, RowsBacked, Backed, LedgerTells, AppliedOnce

\* So is a settlement.
LEMMA SameSettlement ==
    ASSUME Inv, NEW t \in Trades, NEW x \in Txs, Applied(x), TradeOf(x) = t,
           Operation(x) \in {"release", "refund"}
    PROVE  row[t].release_tx # None => row[t].release_tx = x
BY DEF Inv, Shaped, Row, RowsBacked, Backed, LedgerTells, AppliedOnce

\* What a request writes, however old its check of the row is by then.
LEMMA WriteImproves ==
    ASSUME Inv, NEW w \in Workers, job[w].pc = "write"
    PROVE  /\ job[w].trade \in Trades
           /\ Improves(Updated(row[job[w].trade], job[w].op, job[w].tx), job[w].trade)
<1> DEFINE t == job[w].trade
           x == job[w].tx
           op == job[w].op
           r == row[t]
<1>1. job[w] \in Job /\ Knows(job[w])
  BY DEF Inv, Shaped, JobsKnow, Idle
<1>2. t \in Trades /\ r \in Row /\ Backed(r, t) /\ op \in Ops
  BY <1>1 DEF Inv, Shaped, Knows, RowsBacked
<1>3. Moves(op) => x \in Txs /\ Applied(x) /\ TradeOf(x) = t /\ Sends(job[w])
  BY <1>1 DEF Knows, Job
<1> HIDE DEF r
<1>4. CASE op = "lock"
  <2>1. x \in Txs /\ Applied(x) /\ TradeOf(x) = t /\ Operation(x) = "lock"
    BY <1>3, <1>4 DEF Moves, Sends
  <2>2. r.lock_tx # None => r.lock_tx = x
    BY <1>2, <2>1, SameLock DEF r
  <2>3. LockedRow(r, x) \in Row /\ Improves(LockedRow(r, x), t)
    BY <1>2, <2>1, <2>2 DEF LockedRow, Improves, Backed, Row, RowStatus, r
  <2> QED
    BY <1>2, <1>4, <2>3 DEF Updated, r
<1>5. CASE op = "reveal"
  <2>1. Improves(RevealingRow(r), t)
    BY <1>1, <1>2, <1>5 DEF RevealingRow, Improves, Backed, Row, RowStatus, r, Knows
  <2> QED
    BY <1>2, <1>5, <2>1 DEF Updated, r
<1>6. CASE op = "complete"
  <2>1. x \in Txs /\ Applied(x) /\ TradeOf(x) = t /\ Operation(x) = "release"
    BY <1>3, <1>6 DEF Moves, Sends
  <2>2. r.release_tx # None => r.release_tx = x
    BY <1>2, <2>1, SameSettlement DEF r
  <2>3. Improves(CompletedRow(r, x), t)
    BY <1>2, <2>1, <2>2 DEF CompletedRow, Improves, Backed, Row, RowStatus, r
  <2> QED
    BY <1>2, <1>6, <2>3 DEF Updated, r
<1>7. CASE op = "cancel"
  <2>1. Improves(CancelledRow(r), t)
    BY <1>2 DEF CancelledRow, Improves, Backed, Row, RowStatus, r
  <2> QED
    BY <1>2, <1>7, <2>1 DEF Updated, r
<1>8. CASE op \in {"refund"} \cup Resolutions
  <2>1. /\ x \in Txs /\ Applied(x) /\ TradeOf(x) = t /\ Operation(x) = "refund"
        /\ OnChain(t) = "Refunded"
    BY <1>2, <1>3, <1>8 DEF Moves, Sends, Resolutions, Inv, LedgerTells, EffectsShow
  <2>2. r.release_tx # None => r.release_tx = x
    BY <1>2, <2>1, SameSettlement DEF r
  <2>3. Improves(RefundedRow(r, x), t)
    BY <1>2, <2>1, <2>2 DEF RefundedRow, Improves, Backed, Row, RowStatus, r
  <2>4. ASSUME NEW status \in {"refunded", "completed"}
        PROVE  Improves(ResolvedRow(r, status, x), t)
    BY <1>2, <2>1, <2>2 DEF ResolvedRow, Improves, Backed, Row, RowStatus, r
  <2> QED
    BY <1>2, <1>8, <2>3, <2>4 DEF Updated, r, Resolutions
<1> QED
  BY <1>2, <1>4, <1>5, <1>6, <1>7, <1>8 DEF Ops
\* Nor does the UPDATE itself look at the row again.
LEMMA WriteInv ==
    ASSUME Inv, NEW w \in Workers, Write(w)
    PROVE  Inv'
<1> DEFINE t == job[w].trade
           r == Updated(row[t], job[w].op, job[w].tx)
<1>1. /\ t \in Trades /\ Improves(r, t)
      /\ row' = [row EXCEPT ![t] = r] /\ job' = [job EXCEPT ![w] = Idle]
      /\ Idle \in Job /\ Idle.pc # "write"
      /\ UNCHANGED <<escrowVars, expired, disputes, processed, tx, delivered>>
  BY WriteImproves DEF Write, Idle, Job
<1> HIDE DEF r
<1>2. /\ row'[t] = r /\ \A s \in Trades \ {t} : row'[s] = row[s]
      /\ job'[w] = Idle /\ \A v \in Workers \ {w} : job'[v] = job[v]
  BY <1>1 DEF Inv, Shaped
<1>3. Forward /\ Kept /\ LedgerTells'
  BY <1>1, Quiet DEF escrowVars, Applied
<1>4. LocksStay
  BY <1>1, <1>2 DEF LocksStay, Improves
<1>5. JobsKnow'
  BY <1>1, <1>2, <1>3, <1>4, JobMoved DEF Inv
<1>6. Shaped'
  BY <1>1, ChainQuiet DEF Inv, Shaped, Improves
<1>7. Backed(r, t) /\ UNCHANGED <<trades, tx>>
  BY <1>1 DEF Improves, escrowVars
<1>8. \A s \in Trades : s = t => Backed(row[s], s)'
  BY <1>2, <1>7 DEF Backed, OnChain, Applied
<1>9. RowsBacked'
  <2>1. \A s \in Trades \ {t} : Backed(row[s], s)'
    BY <1>2, <1>3 DEF Inv, Shaped, RowsBacked, Backed, Forward, Kept, Row
  <2> QED
    BY <1>1, <1>3, <1>8, <2>1 DEF Inv, RowsBacked, Forward
<1>10. CreditedOnce'
  BY <1>1, <1>2, CreditKept DEF Inv
<1> QED
  BY <1>3, <1>5, <1>6, <1>9, <1>10 DEF Inv

\* What the dispatcher writes for an event.
LEMMA EventImproves ==
    ASSUME Inv, NEW t \in Trades, OnChain(t) \in {"Released", "Refunded"}
    PROVE  Improves(IF OnChain(t) = "Released" THEN ReleasedEvent(row[t], ReleasingTx(t))
                    ELSE RefundedEvent(row[t]), t)
<1> DEFINE r == row[t]
<1>1. r \in Row /\ Backed(r, t)
  BY DEF Inv, Shaped, RowsBacked
<1>2. CASE OnChain(t) = "Released"
  <2> DEFINE x == ReleasingTx(t)
  <2>1. \E y \in Txs : Operation(y) = "release" /\ TradeOf(y) = t /\ tx[y] = "ok"
    BY <1>2 DEF Inv, LedgerTells, ReleasesKnown, Applied
  <2>2. x \in Txs /\ Operation(x) = "release" /\ TradeOf(x) = t /\ tx[x] = "ok"
    BY <2>1 DEF ReleasingTx
  <2> HIDE DEF x
  <2>3. r.release_tx # None => r.release_tx = x
    BY <2>2, SameSettlement DEF Applied
  <2> HIDE DEF r
  <2>4. Improves(ReleasedEvent(r, x), t)
    BY <1>1, <2>2, <2>3 DEF ReleasedEvent, Improves, Backed, Row, RowStatus, Applied, r
  <2> QED
    BY <1>2, <2>4 DEF x, r
<1> HIDE DEF r
<1>3. Improves(RefundedEvent(r), t)
  BY <1>1 DEF RefundedEvent, Improves, Backed, Row, RowStatus, r
<1> QED
  BY <1>2, <1>3 DEF r

\* An event may come before, between or after the writes of any request.
LEMMA DeliverInv ==
    ASSUME Inv, NEW t \in Trades, Deliver(t)
    PROVE  Inv'
<1> DEFINE r == IF OnChain(t) = "Released" THEN ReleasedEvent(row[t], ReleasingTx(t))
                ELSE RefundedEvent(row[t])
<1>1. /\ OnChain(t) \in {"Released", "Refunded"}
      /\ row' = row \/ row' = [row EXCEPT ![t] = r]
      /\ delivered' = delivered \cup {t}
      /\ UNCHANGED <<escrowVars, expired, disputes, processed, tx, job>>
  BY DEF Deliver
<1>2. Improves(r, t)
  BY <1>1, EventImproves
<1> HIDE DEF r
<1>3. Forward /\ Kept /\ LedgerTells'
  BY <1>1, Quiet DEF escrowVars, Applied
<1>4. (row'[t] = row[t] \/ row'[t] = r) /\ \A s \in Trades \ {t} : row'[s] = row[s]
  BY <1>1 DEF Inv, Shaped
<1>5. LocksStay
  BY <1>2, <1>4 DEF LocksStay, Improves
<1>6. JobsKnow' /\ CreditedOnce'
  BY <1>1, <1>3, <1>5, JobsKept, CreditKept DEF Inv
<1>7. Shaped'
  BY <1>1, <1>2, ChainQuiet DEF Inv, Shaped, Improves
<1>8. RowsBacked'
  <2>1. Backed(row[t], t) /\ Backed(r, t) /\ UNCHANGED <<trades, tx>>
    BY <1>1, <1>2 DEF Inv, RowsBacked, Improves, escrowVars
  <2>2. Backed(row[t], t)'
    BY <1>4, <2>1 DEF Backed, OnChain, Applied
  <2> QED
    BY <1>1, <1>3, <1>4, <2>2, RowWritten DEF Inv
<1> QED
  BY <1>3, <1>6, <1>7, <1>8 DEF Inv

\* A transaction moves the contract as its operation says.
LEMMA AppliedStep ==
    ASSUME Inv, NEW x \in Txs, tx[x] = "pending", tx' = [tx EXCEPT ![x] = "ok"],
           \A s \in Trades \ {TradeOf(x)} : OnChain(s)' = OnChain(s),
           \/ Operation(x) = "lock" /\ OnChain(TradeOf(x)) = "None"
                                    /\ OnChain(TradeOf(x))' = "Locked"
           \/ Operation(x) = "release" /\ OnChain(TradeOf(x)) = "Locked"
                                       /\ OnChain(TradeOf(x))' = "Released"
           \/ Operation(x) = "refund" /\ OnChain(TradeOf(x)) = "Locked"
                                      /\ OnChain(TradeOf(x))' = "Refunded"
    PROVE  Forward /\ Kept /\ LedgerTells'
<1> DEFINE t == TradeOf(x)
<1>1. t \in Trades /\ \A y \in Txs : Applied(y)' <=> (y = x \/ Applied(y))
  BY TxFacts DEF Inv, Shaped, Applied
<1>2. ~ Applied(x) /\ Operation(x) \in {"lock", "release", "refund"}
  BY TxFacts DEF Applied
<1>3. Forward /\ Kept
  BY <1>1 DEF Forward, Kept
<1>4. EffectsShow'
  BY <1>1 DEF EffectsShow, Inv, LedgerTells
<1>5. \A y \in Txs : Applied(y) /\ TradeOf(y) = t =>
          (Operation(y) = "lock" <=> Operation(x) # "lock")
  BY <1>1, TxFacts DEF EffectsShow, Inv, LedgerTells
<1>6. AppliedOnce'
  BY <1>1, <1>2, <1>5 DEF AppliedOnce, Inv, LedgerTells
<1>7. ReleasesKnown'
  BY <1>1 DEF ReleasesKnown, Inv, LedgerTells
<1> QED
  BY <1>3, <1>4, <1>6, <1>7 DEF LedgerTells
\* The rest of the invariant when only the contract and the transactions moved.
LEMMA NetworkStep ==
    ASSUME Inv, Chain!TypeOK', Deployed', tx' \in [Txs -> TxStatus],
           Forward, Kept, LedgerTells', UNCHANGED <<dbVars, job, delivered>>
    PROVE  Inv'
<1>1. UNCHANGED <<row, expired, disputes, processed, job, delivered>>
  BY DEF dbVars
<1>2. Shaped'
  BY <1>1 DEF Inv, Shaped
<1>3. JobsKnow' /\ RowsBacked' /\ CreditedOnce'
  BY <1>1, JobsKept, RowsKept, CreditKept DEF Inv, LocksStay
<1> QED
  BY <1>2, <1>3 DEF Inv

\* A ledger includes a transaction, and the contract accepts or refuses it.
LEMMA ApplyInv ==
    ASSUME Inv, NEW x \in Txs, Apply(x)
    PROVE  Inv'
<1> DEFINE t == TradeOf(x)
<1>1. t \in Trades /\ Operation(x) \in {"lock", "release", "refund"} /\ tx[x] = "pending"
      /\ tx \in [Txs -> TxStatus] /\ UNCHANGED <<dbVars, job, delivered>>
  BY TxFacts DEF Apply, Inv, Shaped
<1>2. CASE Succeeds(x)
  <2>1. Effect(x) /\ tx' = [tx EXCEPT ![x] = "ok"]
    BY <1>2 DEF Apply
  <2>2. /\ Operation(x) = "lock" =>
              Chain!Lock(Seller, Buyer, Amount, Fee, HashOf(t), TimeoutMinutes)
        /\ Operation(x) = "release" => Chain!Release(Buyer, IdOf(t), t)
        /\ Operation(x) = "refund" => Chain!Refund(IdOf(t))
    BY <1>1, <2>1 DEF Effect
  <2>3. /\ Chain!TypeOK' /\ Deployed'
        /\ \A s \in Trades \ {t} : OnChain(s)' = OnChain(s)
        /\ \/ Operation(x) = "lock" /\ OnChain(t) = "None" /\ OnChain(t)' = "Locked"
           \/ Operation(x) = "release" /\ OnChain(t) = "Locked" /\ OnChain(t)' = "Released"
           \/ Operation(x) = "refund" /\ OnChain(t) = "Locked" /\ OnChain(t)' = "Refunded"
    BY <1>1, <2>2, LockEffect, ReleaseEffect, RefundEffect DEF Inv
  <2>4. Forward /\ Kept /\ LedgerTells'
    BY <1>1, <2>1, <2>3, AppliedStep
  <2>5. tx' \in [Txs -> TxStatus]
    BY <1>1, <2>1 DEF TxStatus
  <2> QED
    BY <1>1, <2>3, <2>4, <2>5, NetworkStep
<1>3. CASE ~ Succeeds(x)
  <2>1. UNCHANGED escrowVars /\ tx' = [tx EXCEPT ![x] = "failed"]
    BY <1>3 DEF Apply
  <2>2. tx' \in [Txs -> TxStatus] /\ \A y \in Txs : Applied(y)' = Applied(y)
    BY <1>1, <2>1 DEF TxStatus, Applied
  <2>3. Forward /\ Kept /\ LedgerTells'
    BY <2>1, <2>2, Quiet DEF escrowVars
  <2> QED
    BY <1>1, <2>1, <2>2, <2>3, ChainQuiet, NetworkStep DEF Inv
<1> QED
  BY <1>2, <1>3

\* A transaction that expires was not applied.
LEMMA DropInv ==
    ASSUME Inv, NEW x \in Txs, Drop(x)
    PROVE  Inv'
<1>1. /\ tx[x] = "pending" /\ tx' = [tx EXCEPT ![x] = "failed"]
      /\ UNCHANGED <<escrowVars, dbVars, job, delivered>>
  BY DEF Drop
<1>2. tx' \in [Txs -> TxStatus] /\ \A y \in Txs : Applied(y)' = Applied(y)
  BY <1>1 DEF Inv, Shaped, TxStatus, Applied
<1>3. Forward /\ Kept /\ LedgerTells'
  BY <1>1, <1>2, Quiet DEF escrowVars
<1> QED
  BY <1>1, <1>2, <1>3, ChainQuiet, NetworkStep DEF Inv

\* A refund past the backend leaves the trade refunded, and no transaction of
\* the backend claims otherwise.
LEMMA ExternalRefundInv ==
    ASSUME Inv, NEW t \in Trades, ExternalRefund(t)
    PROVE  Inv'
<1>1. Chain!Refund(IdOf(t)) /\ UNCHANGED <<dbVars, tx, job, delivered>>
  BY DEF ExternalRefund
<1>2. /\ Chain!TypeOK' /\ Deployed'
      /\ OnChain(t) = "Locked" /\ OnChain(t)' = "Refunded"
      /\ \A s \in Trades \ {t} : OnChain(s)' = OnChain(s)
  BY <1>1, RefundEffect DEF Inv
<1>3. \A x \in Txs : Applied(x)' = Applied(x)
  BY <1>1 DEF Applied
<1>4. Forward /\ Kept
  BY <1>2, <1>3 DEF Forward, Kept
<1>5. EffectsShow'
  BY <1>2, <1>3 DEF Inv, LedgerTells, EffectsShow
<1>6. AppliedOnce'
  BY <1>3 DEF Inv, LedgerTells, AppliedOnce
<1>7. ReleasesKnown'
  BY <1>2, <1>3 DEF Inv, LedgerTells, ReleasesKnown
<1>8. tx' \in [Txs -> TxStatus]
  BY <1>1 DEF Inv, Shaped
<1> QED
  BY <1>1, <1>2, <1>4, <1>5, <1>6, <1>7, <1>8, NetworkStep DEF LedgerTells

-----------------------------------------------------------------------------
(* The invariant, and what follows from it.                                *)

LEMMA NextInv == Inv /\ [Next]_vars => Inv'
<1> SUFFICES ASSUME Inv, [Next]_vars PROVE Inv'
  OBVIOUS
<1>1. CASE Deploy \/ CloseLedger
  BY <1>1, DeployInv
<1>2. ASSUME NEW t \in Trades, Create(t) \/ Expire(t) \/ LoseEvent(t) \/ OpenDispute(t)
      PROVE  Inv'
  BY <1>2, RecordInv
<1>3. ASSUME NEW t \in Trades,
             \/ \E k \in LockAttempts : PrepareLock(t, <<"lock", t, k>>)
             \/ \E k \in ReleaseAttempts : PrepareRelease(t, <<"release", t, k>>)
      PROVE  Inv'
  BY <1>3, PrepareInv, TxFacts
<1>4. ASSUME NEW t \in Trades, NEW w \in Workers,
             \/ \E k \in LockAttempts : PostLock(w, t, <<"lock", t, k>>)
             \/ Begin(w, t) \/ Sweep(w, t)
      PROVE  Inv'
  BY <1>4, BeginInv
<1>5. ASSUME NEW t \in Trades, NEW w \in Workers, SendRefund(w, t) PROVE Inv'
  BY <1>5, SendRefundInv
<1>6. ASSUME NEW t \in Trades, ExternalRefund(t) \/ Deliver(t) PROVE Inv'
  BY <1>6, ExternalRefundInv, DeliverInv
<1>7. ASSUME NEW w \in Workers, Step(w) PROVE Inv'
  BY <1>7, SendSignedInv, ConfirmInv, CloseDisputeInv, WriteInv, AbandonInv DEF Step
<1>8. ASSUME NEW x \in Txs, Apply(x) \/ Drop(x) PROVE Inv'
  BY <1>8, ApplyInv, DropInv
<1>9. CASE UNCHANGED vars
  <2>1. UNCHANGED <<escrowVars, dbVars, tx, job, delivered>>
    BY <1>9 DEF vars
  <2>2. tx' \in [Txs -> TxStatus] /\ Forward /\ Kept /\ LedgerTells'
    BY <2>1, Quiet DEF escrowVars, Applied, Inv, Shaped
  <2> QED
    BY <2>1, <2>2, ChainQuiet, NetworkStep DEF Inv
<1> QED
  BY <1>1, <1>2, <1>3, <1>4, <1>5, <1>6, <1>7, <1>8, <1>9 DEF Next

LEMMA InvHolds == Spec => []Inv
<1>1. Init => Inv
  BY StartsInv
<1>2. Inv /\ [Next]_vars => Inv'
  BY NextInv
<1> QED
  BY <1>1, <1>2, PTL DEF Spec

\* Rows, disputes, transactions and requests stay well formed, and so do the
\* contract's trades and balances.
THEOREM TypeCorrect == Spec => []TypeOK
<1>1. Inv => TypeOK
  BY DEF Inv, Shaped, JobsKnow, Knows, TypeOK, Row, Job
<1> QED
  BY <1>1, InvHolds, PTL

\* Whatever order requests, retries, crashes, sweeps and events come in, what a
\* row or a dispute says of the money is what the contract did.
THEOREM RowsMatchTheChain == Spec => []RowMatchesChain
<1>1. Inv => RowMatchesChain
  <2> SUFFICES ASSUME Inv, NEW t \in Trades PROVE
          /\ row[t].lock_tx # None => OnChain(t) # "None"
          /\ row[t].status \in {"locked", "revealing"} => row[t].lock_tx # None
          /\ row[t].release_tx # None =>
                OnChain(t) = IF Operation(row[t].release_tx) = "release"
                             THEN "Released" ELSE "Refunded"
          /\ row[t].status \in {"completed", "refunded"} => row[t].release_tx # None
          /\ row[t].status = "refunded" => OnChain(t) = "Refunded"
          /\ disputes[t] = "resolved" => OnChain(t) = "Refunded"
    BY DEF RowMatchesChain
  <2> QED
    BY DEF Inv, Shaped, Row, RowsBacked, Backed, LedgerTells, EffectsShow
<1> QED
  BY <1>1, InvHolds, PTL

\* However many requests poll for one transaction, one of them goes on.
THEOREM CreditedOnceHolds == Spec => []CreditedOnce
<1>1. Inv => CreditedOnce
  BY DEF Inv
<1> QED
  BY <1>1, InvHolds, PTL

\* What a step may do to the recorded hashes.
ReceiptsKept ==
    \A t \in Trades :
        /\ row[t].lock_tx # None => row'[t].lock_tx = row[t].lock_tx
        /\ row[t].release_tx # None => row'[t].release_tx = row[t].release_tx

\* Only a new row, a write and an event change a row, and none of them takes a
\* receipt away.
LEMMA StepKeepsReceipts ==
    ASSUME Inv, [Next]_vars
    PROVE  ReceiptsKept
<1>1. ASSUME NEW t \in Trades, Create(t) PROVE ReceiptsKept
  <2>1. row[t].lock_tx = None /\ row[t].release_tx = None
        /\ \A s \in Trades \ {t} : row'[s] = row[s]
    BY <1>1 DEF Create, NoRow, Inv, Shaped
  <2> QED
    BY <2>1 DEF ReceiptsKept
<1>2. ASSUME NEW w \in Workers, Write(w) PROVE ReceiptsKept
  <2> DEFINE t == job[w].trade
             r == Updated(row[t], job[w].op, job[w].tx)
  <2>1. t \in Trades /\ Improves(r, t) /\ row' = [row EXCEPT ![t] = r]
    BY <1>2, WriteImproves DEF Write
  <2> HIDE DEF r
  <2> QED
    BY <2>1 DEF ReceiptsKept, Improves, Inv, Shaped
<1>3. ASSUME NEW t \in Trades, Deliver(t) PROVE ReceiptsKept
  <2> DEFINE r == IF OnChain(t) = "Released" THEN ReleasedEvent(row[t], ReleasingTx(t))
                  ELSE RefundedEvent(row[t])
  <2>1. (row' = row \/ row' = [row EXCEPT ![t] = r]) /\ OnChain(t) \in {"Released", "Refunded"}
    BY <1>3 DEF Deliver
  <2>2. Improves(r, t)
    BY <2>1, EventImproves
  <2> HIDE DEF r
  <2> QED
    BY <2>1, <2>2 DEF ReceiptsKept, Improves, Inv, Shaped
<1>4. CASE row' = row
  BY <1>4 DEF ReceiptsKept
<1> QED
  BY <1>1, <1>2, <1>3, <1>4 DEF Next, vars, dbVars, Step, Deploy, CloseLedger, PrepareLock,
     PrepareRelease, PostLock, Begin, Sweep, SendRefund, ExternalRefund, LoseEvent,
     OpenDispute, Expire, SendSigned, Confirm, CloseDispute, Abandon, Apply, Drop

\* The hash of a trade's lock and that of its settlement are recorded for good.
THEOREM ReceiptsAreFinal == Spec => ReceiptsFinal
<1>1. Inv /\ [Next]_vars => [ReceiptsKept]_vars
  BY StepKeepsReceipts
<1> QED
  BY <1>1, InvHolds, PTL DEF Spec, ReceiptsFinal, ReceiptsKept

-----------------------------------------------------------------------------
(* The chain of Settlement is a run of the escrow contract, so that what   *)
(* EscrowProofs proves of the contract holds under the backend.            *)

Proved == INSTANCE EscrowProofs WITH
    Users <- {Seller, Buyer, Platform}, Secrets <- Trades,
    Amounts <- {Amount}, Fees <- {Fee}, Minutes <- {TimeoutMinutes},
    RejectsDuplicates <- TRUE, ReleaseNeedsBuyer <- TRUE

\* What the contract assumes of its constants is true of the backend's.
LEMMA ContractAssumptions ==
    /\ Proved!AddressAssumption /\ Proved!SecretAssumption
    /\ Proved!NumberAssumption /\ Proved!VariantAssumption
<1>1. Proved!IsFiniteSet(Trades)
  BY DEF Proved!IsFiniteSet, IsFiniteSet
<1> QED
  BY <1>1 DEF Proved!AddressAssumption, Proved!SecretAssumption,
              Proved!NumberAssumption, Proved!VariantAssumption

\* The contract under its own name and under that of the proofs: the same
\* operators.
LEMMA SameContract ==
    /\ Chain!TradeIds = Proved!TradeIds
    /\ Chain!Addresses = Proved!Addresses
    /\ Chain!Init => Proved!Init
    /\ \A t \in Trades : HashOf(t) \in Proved!Hashes /\ IdOf(t) \in Proved!TradeIds
<1>1. Chain!TradeIds = Proved!TradeIds
  BY DEF Chain!TradeIds, Proved!TradeIds, Chain!Hashes, Proved!Hashes,
         Chain!ComputeTradeId, Proved!ComputeTradeId, Chain!Sha256, Proved!Sha256
<1>2. Chain!Addresses = Proved!Addresses
  BY DEF Chain!Addresses, Proved!Addresses
<1>3. Chain!Init => Proved!Init
  BY <1>1, <1>2 DEF Chain!Init, Proved!Init, Chain!NoTrade, Proved!NoTrade
<1>4. \A t \in Trades : HashOf(t) \in Proved!Hashes
  BY DEF HashOf, Chain!Sha256, Proved!Hashes, Proved!Sha256
<1>5. \A t \in Trades : IdOf(t) \in Proved!TradeIds
  BY <1>1, IdFacts
<1> QED
  BY <1>1, <1>2, <1>3, <1>4, <1>5

\* The calls that the backend's transactions make are calls of the contract.
LEMMA CallsOfTheContract ==
    ASSUME NEW t \in Trades
    PROVE  /\ Chain!Lock(Seller, Buyer, Amount, Fee, HashOf(t), TimeoutMinutes)
              => Proved!Next
           /\ Chain!Release(Buyer, IdOf(t), t) => Proved!Next
           /\ Chain!Refund(IdOf(t)) => Proved!Next
<1>1. ASSUME Chain!Lock(Seller, Buyer, Amount, Fee, HashOf(t), TimeoutMinutes)
      PROVE  Proved!Next
  <2>1. Proved!Lock(Seller, Buyer, Amount, Fee, HashOf(t), TimeoutMinutes)
    BY <1>1, SameContract, Zenon
    DEF Chain!Lock, Proved!Lock, Chain!CanLock, Proved!CanLock, Chain!Transfer, Proved!Transfer,
        Chain!If, Proved!If, Chain!NoTrade, Proved!NoTrade,
        Chain!ComputeTradeId, Proved!ComputeTradeId, Chain!Sha256, Proved!Sha256
  <2> QED
    BY <2>1, SameContract DEF Proved!Next
<1>2. ASSUME Chain!Release(Buyer, IdOf(t), t)
      PROVE  Proved!Next
  <2>1. Proved!Release(Buyer, IdOf(t), t)
    BY <1>2, SameContract, Zenon
    DEF Chain!Release, Proved!Release, Chain!CanRelease, Proved!CanRelease,
        Chain!IsLocked, Proved!IsLocked, Chain!Total, Proved!Total,
        Chain!ReleasePayout, Proved!ReleasePayout, Chain!Transfer, Proved!Transfer,
        Chain!If, Proved!If, Chain!Sha256, Proved!Sha256
  <2> QED
    BY <2>1, SameContract DEF Proved!Next
<1>3. ASSUME Chain!Refund(IdOf(t))
      PROVE  Proved!Next
  <2>1. Proved!Refund(IdOf(t))
    BY <1>3, SameContract, Zenon
    DEF Chain!Refund, Proved!Refund, Chain!CanRefund, Proved!CanRefund,
        Chain!IsLocked, Proved!IsLocked, Chain!Total, Proved!Total,
        Chain!Transfer, Proved!Transfer, Chain!If, Proved!If
  <2> QED
    BY <2>1, SameContract DEF Proved!Next
<1> QED
  BY <1>1, <1>2, <1>3

\* A step of the system calls the contract, prepares a release, which discloses
\* the secret, ends a ledger, or leaves the chain alone.
LEMMA StepRunsContract == [Next]_vars => [Proved!Next]_(Proved!vars)
<1> SUFFICES ASSUME [Next]_vars PROVE Proved!Next \/ UNCHANGED Proved!vars
  OBVIOUS
<1>1. CASE Deploy
  <2>1. Proved!Initialize(Platform, Platform)
    BY <1>1 DEF Deploy, Chain!Initialize, Proved!Initialize
  <2> QED
    BY <2>1 DEF Proved!Next
<1>2. CASE CloseLedger
  BY <1>2 DEF CloseLedger, Chain!CloseLedger, Proved!CloseLedger, Proved!Next
<1>3. ASSUME NEW t \in Trades, NEW x, PrepareRelease(t, x)
      PROVE  Proved!Next \/ UNCHANGED Proved!vars
  <2>1. /\ disclosed' = disclosed \cup {t}
        /\ UNCHANGED <<admin, platform_wallet, trades, balance, ledger>>
    BY <1>3 DEF PrepareRelease
  <2>2. CASE t \in disclosed
    <3>1. disclosed' = disclosed
      BY <2>1, <2>2
    <3> QED
      BY <2>1, <3>1 DEF Proved!vars
  <2>3. CASE t \notin disclosed
    BY <2>1, <2>3 DEF Proved!Next, Proved!Disclose
  <2> QED
    BY <2>2, <2>3
<1>4. ASSUME NEW x \in Txs, Apply(x)
      PROVE  Proved!Next \/ UNCHANGED Proved!vars
  <2>1. CASE Succeeds(x)
    BY <1>4, <2>1, TxFacts, CallsOfTheContract DEF Apply, Effect
  <2>2. CASE ~ Succeeds(x)
    BY <1>4, <2>2 DEF Apply, escrowVars, Proved!vars
  <2> QED
    BY <2>1, <2>2
<1>5. ASSUME NEW t \in Trades, ExternalRefund(t)
      PROVE  Proved!Next
  BY <1>5, CallsOfTheContract DEF ExternalRefund
<1>6. ASSUME UNCHANGED escrowVars
      PROVE  UNCHANGED Proved!vars
  BY <1>6 DEF escrowVars, Proved!vars
<1> QED
  BY <1>1, <1>2, <1>3, <1>4, <1>5, <1>6
  DEF Next, vars, Create, PrepareLock, PostLock, Begin, Sweep, SendRefund, Deliver, LoseEvent,
      OpenDispute, Expire, Step, SendSigned, Confirm, CloseDispute, Write, Abandon, Drop

\* Whatever requests, sweeps, crashes and the network do, the contract only sees
\* calls that it was written for.
THEOREM ChainRunsTheContract == Spec => Proved!Spec
<1>1. Init => Proved!Init
  BY SameContract DEF Init
<1>2. [Next]_vars => [Proved!Next]_(Proved!vars)
  BY StepRunsContract
<1> QED
  BY <1>1, <1>2, PTL DEF Spec, Proved!Spec

\* Under the backend, as by itself, the contract owns at all times exactly what
\* its locked trades hold, no trade's terms are rewritten, and what is locked
\* leaves once and whole.
THEOREM ContractKeepsItsPromises ==
    Spec => /\ []Proved!BalancesExplained
            /\ Proved!TermsFixed
            /\ Proved!ImplementsHTLC
<1>1. Proved!Spec => []Proved!BalancesExplained
  BY ContractAssumptions, Proved!BalancesExplainedAlways
<1>2. Proved!Spec => Proved!TermsFixed
  BY ContractAssumptions, Proved!TermsNeverChange
<1>3. Proved!Spec => Proved!ImplementsHTLC
  BY ContractAssumptions, Proved!EscrowImplementsHTLC
<1> QED
  BY <1>1, <1>2, <1>3, ChainRunsTheContract, PTL

\* What a row records as settled was settled by the rules, whoever asked for it: a
\* release after the backend had prepared one with the secret, a refund, that of
\* an admin's resolution included, when the trade's ledgers had passed.
ReceiptsJustified ==
    \A t \in Trades : row[t].release_tx # None =>
        IF Operation(row[t].release_tx) = "release" THEN t \in disclosed
        ELSE ledger >= trades[IdOf(t)].timeout_ledger

\* What the contract owes to a trade's own terms, it owes to whoever caused the
\* call: the table records no release without the trade's secret, and no refund
\* before its time.
THEOREM ReceiptsJustifiedHolds == Spec => []ReceiptsJustified
<1>1. Inv /\ RowMatchesChain /\ Proved!Inv => ReceiptsJustified
  <2> SUFFICES ASSUME Inv, RowMatchesChain, Proved!Inv, NEW t \in Trades,
                      row[t].release_tx # None
               PROVE  IF Operation(row[t].release_tx) = "release" THEN t \in disclosed
                      ELSE ledger >= trades[IdOf(t)].timeout_ledger
    BY DEF ReceiptsJustified
  <2>1. /\ IdOf(t) \in Proved!TradeIds
        /\ trades[IdOf(t)].status = IF Operation(row[t].release_tx) = "release"
                                    THEN "Released" ELSE "Refunded"
    BY SameContract DEF RowMatchesChain, OnChain
  <2>2. CASE Operation(row[t].release_tx) = "release"
    <3>1. PICK s \in disclosed : trades[IdOf(t)].secret_hash = Proved!Sha256(s)
      BY <2>1, <2>2 DEF Proved!Inv, Proved!OutcomeJustified
    <3>2. IdOf(t) = Proved!ComputeTradeId(trades[IdOf(t)].secret_hash)
      BY <2>1, <2>2 DEF Proved!Inv, Proved!Initialized, Proved!NoTrade
    <3>3. s = t
      BY <3>1, <3>2 DEF IdOf, HashOf, Chain!ComputeTradeId, Chain!Sha256,
                        Proved!ComputeTradeId, Proved!Sha256
    <3> QED
      BY <2>2, <3>3
  <2>3. CASE Operation(row[t].release_tx) # "release"
    BY <2>1, <2>3 DEF Proved!Inv, Proved!OutcomeJustified
  <2> QED
    BY <2>2, <2>3
<1>2. Proved!Spec => []Proved!Inv
  BY ContractAssumptions, Proved!InvHolds
<1> QED
  BY <1>1, <1>2, InvHolds, RowsMatchTheChain, ChainRunsTheContract, PTL
=============================================================================
