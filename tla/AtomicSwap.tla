----------------------------- MODULE AtomicSwap -----------------------------
(***************************************************************************)
(* The atomic swap contract, contracts/atomic-swap: a hashed timelock with *)
(* no admin, no fee and one token per swap.  Unlike the escrow it promises *)
(* something beyond its own leg: releasing publishes the secret, which the *)
(* other leg of the swap, on another contract, is released with.           *)
(*                                                                         *)
(* A failed assert or token transfer rolls the invocation back, so each    *)
(* function is one action whose guard is the conjunction of its asserts.   *)
(* sha256 is a term constructor, as in Escrow.                             *)
(***************************************************************************)
EXTENDS Integers

CONSTANTS
    Users,              \* the accounts that sign transactions
    Contract,           \* the address of the contract itself
    Tokens,             \* the token contracts a swap may name
    Secrets,            \* the preimages
    Amounts,            \* the amount arguments callers pass, valid or not
    Timeouts,           \* the timeout_ledgers arguments, valid or not
    MinTimeout,         \* MIN_TIMEOUT_LEDGERS, 60 in the code
    MaxLedger,          \* u32::MAX in the code; bounds the ledger
    Endowment           \* what each user owns of each token at first

\* What the theorems need of the constants.
Assumptions ==
    /\ Contract \notin Users
    /\ Amounts \subseteq Int
    /\ Timeouts \subseteq Nat
    /\ MinTimeout \in Nat
    /\ MaxLedger \in Nat
    /\ Endowment \in Nat

VARIABLES
    swaps,              \* DataKey::Swap(id)
    balance,            \* the balances of each token
    ledger,             \* env.ledger().sequence()
    disclosed           \* the secrets that anyone can read on some chain

vars == <<swaps, balance, ledger, disclosed>>

Sha256(x) == <<"sha256", x>>

ComputeSwapId(secret_hash) == Sha256(secret_hash)

Hashes == {Sha256(s) : s \in Secrets}

SwapIds == {ComputeSwapId(h) : h \in Hashes}

Addresses == Users \cup {Contract}

SwapStatus == {"Locked", "Released", "Refunded"}

Swap ==
    [initiator : Users, counterparty : Users, token : Tokens, amount : Nat \ {0},
     secret_hash : Hashes, timeout_ledger : 0 .. MaxLedger, status : SwapStatus]

\* Storage holds no entry under the id.
NoSwap == [status |-> "None"]

IsLocked(id) == swaps[id].status = "Locked"

\* token::Client::transfer, once the payer is known to own that much.
Transfer(token, from, to, amount) ==
    [balance EXCEPT ![token] =
        [a \in Addresses |->
            balance[token][a] + (IF a = to THEN amount ELSE 0)
                              - (IF a = from THEN amount ELSE 0)]]

-----------------------------------------------------------------------------
Init ==
    /\ swaps = [id \in SwapIds |-> NoSwap]
    /\ balance = [t \in Tokens |->
                     [a \in Addresses |-> IF a = Contract THEN 0 ELSE Endowment]]
    /\ ledger = 0
    /\ disclosed = {}

\* The asserts of lock; the last two are the transfer and the u32 sum.
CanLock(initiator, token, amount, secret_hash, timeout) ==
    /\ amount > 0
    /\ timeout >= MinTimeout
    /\ swaps[ComputeSwapId(secret_hash)] = NoSwap
    /\ balance[token][initiator] >= amount
    /\ ledger + timeout <= MaxLedger

Lock(initiator, counterparty, token, amount, secret_hash, timeout) ==
    /\ CanLock(initiator, token, amount, secret_hash, timeout)
    /\ swaps' = [swaps EXCEPT ![ComputeSwapId(secret_hash)] =
           [initiator |-> initiator, counterparty |-> counterparty,
            token |-> token, amount |-> amount, secret_hash |-> secret_hash,
            timeout_ledger |-> ledger + timeout, status |-> "Locked"]]
    /\ balance' = Transfer(token, initiator, Contract, amount)
    /\ UNCHANGED <<ledger, disclosed>>

\* counterparty.require_auth() is the counterparty being the one who calls.
CanRelease(id, secret) ==
    /\ IsLocked(id)
    /\ Sha256(secret) = swaps[id].secret_hash
    /\ balance[swaps[id].token][Contract] >= swaps[id].amount

\* The timeout is not looked at: a swap can be released until it is refunded.
Release(id, secret) ==
    /\ CanRelease(id, secret)
    /\ balance' = Transfer(swaps[id].token, Contract, swaps[id].counterparty, swaps[id].amount)
    /\ swaps' = [swaps EXCEPT ![id].status = "Released"]
    /\ disclosed' = disclosed \cup {secret}
    /\ UNCHANGED ledger

\* Mutant: refund opens one ledger early.
CanRefundEarly(id) ==
    /\ IsLocked(id)
    /\ ledger + 1 >= swaps[id].timeout_ledger
    /\ balance[swaps[id].token][Contract] >= swaps[id].amount

\* Anyone may call refund.
CanRefund(id) ==
    /\ IsLocked(id)
    /\ ledger >= swaps[id].timeout_ledger
    /\ balance[swaps[id].token][Contract] >= swaps[id].amount

Refund(id) ==
    /\ CanRefund(id)
    /\ balance' = Transfer(swaps[id].token, Contract, swaps[id].initiator, swaps[id].amount)
    /\ swaps' = [swaps EXCEPT ![id].status = "Refunded"]
    /\ UNCHANGED <<ledger, disclosed>>

\* A secret becomes readable on another chain, or its owner gives it away.
Disclose(secret) ==
    /\ secret \notin disclosed
    /\ disclosed' = disclosed \cup {secret}
    /\ UNCHANGED <<swaps, balance, ledger>>

CloseLedger ==
    /\ ledger < MaxLedger
    /\ ledger' = ledger + 1
    /\ UNCHANGED <<swaps, balance, disclosed>>

Next ==
    \/ \E initiator, counterparty \in Users, token \in Tokens, amount \in Amounts,
          h \in Hashes, timeout \in Timeouts :
          Lock(initiator, counterparty, token, amount, h, timeout)
    \/ \E id \in SwapIds, s \in Secrets : Release(id, s)
    \/ \E id \in SwapIds : Refund(id)
    \/ \E s \in Secrets : Disclose(s)
    \/ CloseLedger

Spec == Init /\ [][Next]_vars

-----------------------------------------------------------------------------
(* Properties.                                                             *)

\* Every stored swap is well formed and no balance is negative.
TypeOK ==
    /\ swaps \in [SwapIds -> Swap \cup {NoSwap}]
    /\ balance \in [Tokens -> [Addresses -> Nat]]
    /\ ledger \in 0 .. MaxLedger
    /\ disclosed \subseteq Secrets

\* Whoever looks at a released swap can read its secret on chain, which is what
\* the other leg depends on; a refunded swap had timed out.
OutcomeJustified ==
    \A id \in SwapIds :
        /\ swaps[id].status = "Released" =>
               \E s \in disclosed : swaps[id].secret_hash = Sha256(s)
        /\ swaps[id].status = "Refunded" => ledger >= swaps[id].timeout_ledger

\* The swaps of one token seen as a hashed timelock of their own.
Lockbox(token) ==
    [id \in SwapIds |->
        IF swaps[id] # NoSwap /\ swaps[id].token = token
        THEN [status |-> swaps[id].status,
              held |-> IF IsLocked(id) THEN swaps[id].amount ELSE 0,
              timeout |-> swaps[id].timeout_ledger]
        ELSE [status |-> "None", held |-> 0, timeout |-> 0]]

Promise(token) == INSTANCE HTLC WITH
    Ids <- SwapIds, lockbox <- Lockbox(token), pool <- balance[token][Contract]

\* For each of its tokens the contract implements the HashedTimeLock promise:
\* swaps of one token are never paid from another token's pool.
ImplementsHTLC ==
    /\ \A token \in Tokens : Promise(token)!Init
    /\ [][\A token \in Tokens : [Promise(token)!Next]_(Promise(token)!vars)]_vars
=============================================================================
