------------------------------- MODULE Escrow -------------------------------
(***************************************************************************)
(* The P2P escrow contract.  Three Soroban contracts of the repository     *)
(* share this code and differ in two guards, which are constants here:     *)
(*                                                                         *)
(*                                    RejectsDuplicates ReleaseNeedsBuyer  *)
(*   contracts/micopay-escrow                TRUE             TRUE         *)
(*   contracts/delegated-release-htlc        TRUE             FALSE        *)
(*   micopay/contracts/escrow                FALSE            TRUE         *)
(*                                                                         *)
(* A Soroban invocation is atomic: an Err, a panic or a failed transfer    *)
(* rolls it back, so each contract function is one action whose guard is   *)
(* the conjunction of its early returns.  sha256 is symbolic: a hash is    *)
(* a term, so distinct preimages have distinct hashes and nothing else     *)
(* yields one.  Amounts are i128 and need no width here: a sum that would  *)
(* overflow panics, as the transfer of it would.                           *)
(***************************************************************************)
EXTENDS Integers, FiniteSetsExt

CONSTANTS
    Users,              \* the accounts that sign transactions
    Contract,           \* the address of the escrow contract itself
    NoUser,             \* an instance key not yet set
    Secrets,            \* the preimages
    Amounts,            \* the amount arguments callers pass, valid or not
    Fees,               \* the platform_fee arguments, valid or not
    Minutes,            \* the timeout_minutes arguments
    LedgersPerMinute,   \* 12 in the code
    MaxLedger,          \* u32::MAX in the code; bounds the ledger
    Endowment,          \* what each user owns before the first lock
    RejectsDuplicates,  \* lock refuses a trade id already stored
    ReleaseNeedsBuyer   \* release calls buyer.require_auth()

ASSUME AddressAssumption ==
    /\ Contract \notin Users
    /\ NoUser \notin Users \cup {Contract}

\* A preimage has 32 bytes, so there are finitely many.
ASSUME SecretAssumption == IsFiniteSet(Secrets)

ASSUME NumberAssumption ==
    /\ Amounts \subseteq Int
    /\ Fees \subseteq Int
    /\ Minutes \subseteq Nat
    /\ LedgersPerMinute \in Nat
    /\ MaxLedger \in Nat
    /\ Endowment \in Nat

ASSUME VariantAssumption ==
    /\ RejectsDuplicates \in BOOLEAN
    /\ ReleaseNeedsBuyer \in BOOLEAN

VARIABLES
    admin,              \* DataKey::Admin, set with the token and the wallet
    platform_wallet,    \* DataKey::PlatformWallet
    trades,             \* DataKey::Trade(id)
    balance,            \* the token contract's balances
    ledger,             \* env.ledger().sequence()
    disclosed           \* the secrets that someone other than the issuer holds

vars == <<admin, platform_wallet, trades, balance, ledger, disclosed>>

Sha256(x) == <<"sha256", x>>

ComputeTradeId(secret_hash) == Sha256(secret_hash)

Hashes == {Sha256(s) : s \in Secrets}

TradeIds == {ComputeTradeId(h) : h \in Hashes}

Addresses == Users \cup {Contract}

TradeStatus == {"Locked", "Released", "Refunded"}

TradeEscrow ==
    [seller : Users, buyer : Users, amount : Nat \ {0}, platform_fee : Nat,
     secret_hash : Hashes, timeout_ledger : Nat, status : TradeStatus]

\* Storage holds no entry under the id.
NoTrade == [status |-> "None"]

IsLocked(id) == trades[id].status = "Locked"

Total(trade) == trade.amount + trade.platform_fee

If(condition, x) == IF condition THEN x ELSE 0

\* token::Client::transfer, once the payer is known to own that much.
Transfer(b, from, to, amount) ==
    [a \in Addresses |-> b[a] + If(a = to, amount) - If(a = from, amount)]

-----------------------------------------------------------------------------
Init ==
    /\ admin = NoUser
    /\ platform_wallet = NoUser
    /\ trades = [id \in TradeIds |-> NoTrade]
    /\ balance = [a \in Addresses |-> IF a = Contract THEN 0 ELSE Endowment]
    /\ ledger = 0
    /\ disclosed = {}

Initialize(new_admin, wallet) ==
    /\ admin = NoUser
    /\ admin' = new_admin
    /\ platform_wallet' = wallet
    /\ UNCHANGED <<trades, balance, ledger, disclosed>>

\* Mutant: lock forgets the sign of the fee.
CanLockAnyFee(seller, amount, fee, secret_hash, minutes) ==
    /\ amount > 0
    /\ admin # NoUser
    /\ RejectsDuplicates => trades[ComputeTradeId(secret_hash)] = NoTrade
    /\ balance[seller] >= amount + fee
    /\ ledger + minutes * LedgersPerMinute <= MaxLedger

\* Mutant: lock refuses a trade id only while that trade is open.
CanLockSettledId(seller, amount, fee, secret_hash, minutes) ==
    /\ amount > 0
    /\ fee >= 0
    /\ admin # NoUser
    /\ ~ IsLocked(ComputeTradeId(secret_hash))
    /\ balance[seller] >= amount + fee
    /\ ledger + minutes * LedgersPerMinute <= MaxLedger

\* The early returns of lock, in its order; seller.require_auth() is the
\* seller being the one who acts.  The last two are the token transfer, which
\* fails on a short balance, and the u32 sum, which panics when it overflows.
CanLock(seller, amount, fee, secret_hash, minutes) ==
    /\ amount > 0
    /\ fee >= 0
    /\ admin # NoUser
    /\ RejectsDuplicates => trades[ComputeTradeId(secret_hash)] = NoTrade
    /\ balance[seller] >= amount + fee
    /\ ledger + minutes * LedgersPerMinute <= MaxLedger

Lock(seller, buyer, amount, fee, secret_hash, minutes) ==
    /\ CanLock(seller, amount, fee, secret_hash, minutes)
    /\ trades' = [trades EXCEPT ![ComputeTradeId(secret_hash)] =
           [seller |-> seller, buyer |-> buyer,
            amount |-> amount, platform_fee |-> fee,
            secret_hash |-> secret_hash,
            timeout_ledger |-> ledger + minutes * LedgersPerMinute,
            status |-> "Locked"]]
    /\ balance' = Transfer(balance, seller, Contract, amount + fee)
    /\ UNCHANGED <<admin, platform_wallet, ledger, disclosed>>

\* A caller can only present a secret that has been disclosed to it.
CanRelease(caller, id, secret) ==
    /\ IsLocked(id)
    /\ ReleaseNeedsBuyer => caller = trades[id].buyer
    /\ secret \in disclosed
    /\ Sha256(secret) = trades[id].secret_hash
    /\ balance[Contract] >= Total(trades[id])

\* Mutant: the fee is paid out of what the other trades own.
ReleasePayoutFromTotal(id) ==
    LET t == trades[id] IN
    Transfer(Transfer(balance, Contract, t.buyer, Total(t)),
             Contract, platform_wallet, t.platform_fee)

\* Mutant: the fee stays behind in the contract.
ReleasePayoutKeepingFee(id) ==
    Transfer(balance, Contract, trades[id].buyer, trades[id].amount)

\* The amount to the buyer, then the fee, when there is one, to the platform.
ReleasePayout(id) ==
    LET t == trades[id]
        paid == Transfer(balance, Contract, t.buyer, t.amount)
    IN  IF t.platform_fee > 0
        THEN Transfer(paid, Contract, platform_wallet, t.platform_fee)
        ELSE paid

Release(caller, id, secret) ==
    /\ CanRelease(caller, id, secret)
    /\ balance' = ReleasePayout(id)
    /\ trades' = [trades EXCEPT ![id].status = "Released"]
    /\ UNCHANGED <<admin, platform_wallet, ledger, disclosed>>

\* Mutant: refund opens one ledger early.
CanRefundEarly(id) ==
    /\ IsLocked(id)
    /\ ledger + 1 >= trades[id].timeout_ledger
    /\ balance[Contract] >= Total(trades[id])

\* Anyone may call refund.
CanRefund(id) ==
    /\ IsLocked(id)
    /\ ledger >= trades[id].timeout_ledger
    /\ balance[Contract] >= Total(trades[id])

\* Mutant: refund returns the amount without the fee.
RefundAmountOnly(id) ==
    /\ CanRefund(id)
    /\ balance' = Transfer(balance, Contract, trades[id].seller, trades[id].amount)
    /\ trades' = [trades EXCEPT ![id].status = "Refunded"]
    /\ UNCHANGED <<admin, platform_wallet, ledger, disclosed>>

Refund(id) ==
    /\ CanRefund(id)
    /\ balance' = Transfer(balance, Contract, trades[id].seller, Total(trades[id]))
    /\ trades' = [trades EXCEPT ![id].status = "Refunded"]
    /\ UNCHANGED <<admin, platform_wallet, ledger, disclosed>>

\* The issuer of a secret hands it out; nothing in the contract controls when.
Disclose(secret) ==
    /\ secret \notin disclosed
    /\ disclosed' = disclosed \cup {secret}
    /\ UNCHANGED <<admin, platform_wallet, trades, balance, ledger>>

CloseLedger ==
    /\ ledger < MaxLedger
    /\ ledger' = ledger + 1
    /\ UNCHANGED <<admin, platform_wallet, trades, balance, disclosed>>

Next ==
    \/ \E a, w \in Users : Initialize(a, w)
    \/ \E seller, buyer \in Users, amount \in Amounts, fee \in Fees,
          h \in Hashes, m \in Minutes : Lock(seller, buyer, amount, fee, h, m)
    \/ \E caller \in Users, id \in TradeIds, s \in Secrets : Release(caller, id, s)
    \/ \E id \in TradeIds : Refund(id)
    \/ \E s \in Secrets : Disclose(s)
    \/ CloseLedger

Spec == Init /\ [][Next]_vars

-----------------------------------------------------------------------------
(* Properties.                                                             *)

\* Every stored trade is well formed and no balance is negative.
TypeOK ==
    /\ admin \in Users \cup {NoUser}
    /\ platform_wallet \in Users \cup {NoUser}
    /\ trades \in [TradeIds -> TradeEscrow \cup {NoTrade}]
    /\ balance \in [Addresses -> Nat]
    /\ ledger \in 0 .. MaxLedger
    /\ disclosed \subseteq Secrets

\* What a trade has brought address a, all told: what left its purse at lock
\* and what came back at release or refund.
NetEffect(t, wallet, a) ==
    CASE t.status = "Locked" ->
            If(a = Contract, Total(t)) - If(a = t.seller, Total(t))
      [] t.status = "Released" ->
            If(a = t.buyer, t.amount) + If(a = wallet, t.platform_fee)
            - If(a = t.seller, Total(t))
      [] t.status \in {"None", "Refunded"} -> 0

NetEffects(a) == [id \in TradeIds |-> NetEffect(trades[id], platform_wallet, a)]

\* Every balance, the contract's own included, is explained by the stored
\* trades: the contract owns exactly the totals of the locked trades, a refund
\* leaves no trace, a release has moved the amount and the fee and no more.
BalancesExplained ==
    \A a \in Addresses :
        balance[a] = (IF a = Contract THEN 0 ELSE Endowment) + SumFunction(NetEffects(a))

\* A released trade was released with its own secret, and a refunded one was
\* refunded once its timeout had passed.
OutcomeJustified ==
    \A id \in TradeIds :
        /\ trades[id].status = "Released" =>
               \E s \in disclosed : trades[id].secret_hash = Sha256(s)
        /\ trades[id].status = "Refunded" => ledger >= trades[id].timeout_ledger

KeepsTerms ==
    \A id \in TradeIds : trades[id] # NoTrade =>
        \/ trades'[id] = trades[id]
        \/ /\ IsLocked(id)
           /\ \E outcome \in {"Released", "Refunded"} :
                  trades'[id] = [trades[id] EXCEPT !.status = outcome]

\* No call rewrites the terms of a stored trade, and none touches a trade that
\* has been released or refunded: lock never reuses a trade id.
TermsFixed == [][KeepsTerms]_vars

AccountsForTrade(id) ==
    /\ \A other \in TradeIds \ {id} : trades'[other] = trades[other]
    /\ \A a \in Addresses :
          balance'[a] - balance[a] =
              NetEffect(trades'[id], platform_wallet, a)
              - NetEffect(trades[id], platform_wallet, a)

\* One step's share of BalancesExplained: a call changes one trade at most, and
\* every balance moves by exactly what that trade's net effect moved by.
StepAccounted ==
    [][UNCHANGED <<trades, balance>> \/ \E id \in TradeIds : AccountsForTrade(id)]_vars

\* The escrow seen as a hashed timelock: each trade holds its total while it is
\* locked, and the pool is the contract's own balance.
Lockbox ==
    [id \in TradeIds |->
        IF trades[id] = NoTrade THEN [status |-> "None", held |-> 0, timeout |-> 0]
        ELSE [status |-> trades[id].status,
              held |-> IF IsLocked(id) THEN Total(trades[id]) ELSE 0,
              timeout |-> trades[id].timeout_ledger]]

Promise == INSTANCE HTLC WITH
    Ids <- TradeIds, lockbox <- Lockbox, pool <- balance[Contract]

\* The escrow contract implements the HashedTimeLock promise.
ImplementsHTLC == Promise!Spec
=============================================================================
