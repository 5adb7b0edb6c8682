------------------------------ MODULE Payments ------------------------------
(***************************************************************************)
(* The x402 payments of the agent API.  A request carries a payment, which *)
(* the middleware settles on chain before the paid handler runs.  A        *)
(* Stellar payment is looked up, submitted and recorded; a Base payment    *)
(* (an EIP-3009 authorization) is reserved, settled, and released when     *)
(* settling failed.                                                        *)
(*                                                                         *)
(* The record of used payments is a table, or a set in memory while        *)
(* useDatabase is FALSE; each request sets that flag, and reads it again   *)
(* after every await.  The checks of a payment's form, amount and signature*)
(* are left out: every payment here is well formed.                        *)
(***************************************************************************)
EXTENDS Integers, FiniteSets

CONSTANTS
    StellarPayments,    \* signed transactions
    BasePayments,       \* signed authorizations
    Requests,           \* the requests that can be in progress together
    MaxServed           \* bounds how often one payment can be served

VARIABLES
    initialized,        \* x402Initialized
    useDatabase,        \* useDatabase
    memory,             \* usedTxHashes
    table,              \* x402_payments: the rows, all with used = TRUE
    facilitated,        \* X402_FACILITATOR_URL is configured
    lostKeys,           \* the Base payments whose key was recorded and is no
                        \* longer seen: in the store that is not in use, or in
                        \* the memory of a process that died
    settled,            \* the payments whose transfer happened on chain
    served,             \* how often each payment passed the middleware
    request             \* each request: the await it is at, and its payment

vars == <<initialized, useDatabase, memory, table, facilitated, lostKeys, settled,
          served, request>>

storeVars == <<initialized, useDatabase, memory, table, facilitated, lostKeys>>

Payments == StellarPayments \cup BasePayments

Idle == [pc |-> "idle"]

At(r, pc) == request[r].pc = pc

Goto(r, pc) == request' = [request EXCEPT ![r].pc = pc]

\* The middleware answers 402.
Refuse(r) == request' = [request EXCEPT ![r] = Idle]

Serve(r) ==
    LET p == request[r].payment IN
    /\ served' = [served EXCEPT ![p] = @ + 1]
    /\ request' = [request EXCEPT ![r] = Idle]

-----------------------------------------------------------------------------
Init ==
    /\ initialized = FALSE
    /\ useDatabase = FALSE
    /\ memory = {}
    /\ table = {}
    /\ facilitated \in BOOLEAN
    /\ lostKeys = {}
    /\ settled = {}
    /\ served = [p \in Payments |-> 0]
    /\ request = [r \in Requests |-> Idle]

Verify(p) == IF p \in StellarPayments THEN "check" ELSE "reserve"

Arrive(r, p) ==
    /\ At(r, "idle")
    /\ served[p] < MaxServed
    /\ request' = [request EXCEPT ![r] =
           [pc |-> IF initialized THEN Verify(p) ELSE "init", payment |-> p]]
    /\ UNCHANGED <<storeVars, settled, served>>

\* ensureX402Initialized, which two requests may be in.  A failure after the
\* other's success turns the database off, and nothing turns it on again.
Initialize(r) ==
    /\ At(r, "init")
    /\ \/ initialized' = TRUE /\ useDatabase' = TRUE
       \/ useDatabase' = FALSE /\ UNCHANGED initialized
    /\ Goto(r, Verify(request[r].payment))
    /\ UNCHANGED <<memory, table, facilitated, lostKeys, settled, served>>

Used == IF useDatabase THEN table ELSE memory

Record(p) ==
    IF useDatabase THEN table' = table \cup {p} /\ UNCHANGED memory
    ELSE memory' = memory \cup {p} /\ UNCHANGED table

Erase(p) ==
    IF useDatabase THEN table' = table \ {p} /\ UNCHANGED memory
    ELSE memory' = memory \ {p} /\ UNCHANGED table

\* A query that rejects: the request is refused with whatever it did before.
QueryFails(r) ==
    /\ useDatabase
    /\ \E pc \in {"check", "mark", "reserve", "release"} : At(r, pc)
    /\ Refuse(r)
    /\ UNCHANGED <<storeVars, settled, served>>

-----------------------------------------------------------------------------
(* Stellar.                                                                *)

CheckUnused(r) ==
    /\ At(r, "check")
    /\ IF request[r].payment \in Used THEN Refuse(r) ELSE Goto(r, "submit")
    /\ UNCHANGED <<storeVars, settled, served>>

\* Mutant: what matters is that the transaction was sent.
SubmitUnconfirmed(r) ==
    LET p == request[r].payment IN
    /\ At(r, "submit")
    /\ \/ settled' = settled \cup {p} /\ (Goto(r, "mark") \/ Refuse(r))
       \/ Goto(r, "mark") /\ UNCHANGED settled
    /\ UNCHANGED <<storeVars, served>>

\* submitTransaction, and the look at the chain when it throws: the transaction
\* may be applied now or before, and the request may not learn of it.
Submit(r) ==
    LET p == request[r].payment IN
    /\ At(r, "submit")
    /\ \/ settled' = settled \cup {p} /\ (Goto(r, "mark") \/ Refuse(r))
       \/ Refuse(r) /\ UNCHANGED settled
    /\ UNCHANGED <<storeVars, served>>

\* Recorded and served; or recorded, and the query rejects all the same.
Mark(r) ==
    /\ At(r, "mark")
    /\ Record(request[r].payment)
    /\ \/ Serve(r)
       \/ useDatabase /\ Refuse(r) /\ UNCHANGED served
    /\ UNCHANGED <<initialized, useDatabase, facilitated, lostKeys, settled>>

\* The payer may submit the same transaction itself.
PayerSubmits(p) ==
    /\ p \notin settled
    /\ settled' = settled \cup {p}
    /\ UNCHANGED <<storeVars, served, request>>

-----------------------------------------------------------------------------
(* Base.                                                                   *)

\* Mutant: the key is looked up and not claimed, as a Stellar transaction's is.
ReserveByLooking(r) ==
    LET p == request[r].payment IN
    /\ At(r, "reserve")
    /\ IF p \in Used THEN Refuse(r) ELSE Goto(r, "settle")
    /\ UNCHANGED <<storeVars, settled, served>>

\* One INSERT, or one look at the set, claims the key for this request.
Reserve(r) ==
    LET p == request[r].payment IN
    /\ At(r, "reserve")
    /\ \/ p \in Used /\ Refuse(r) /\ UNCHANGED <<memory, table, lostKeys>>
       \/ /\ p \notin Used
          /\ Record(p)
          /\ lostKeys' = lostKeys \cup ({p} \cap (memory \cup table))
          /\ Goto(r, "settle") \/ (useDatabase /\ Refuse(r))
    /\ UNCHANGED <<initialized, useDatabase, facilitated, settled, served>>

\* settleBasePayment.  A facilitator that answers 200 is believed: here it only
\* does so for a payment that is settled, by this request or before.  Sent by
\* the relayer, the token takes an authorization once.  On either path the
\* transfer may happen although a failure is reported.
Settle(r) ==
    LET p == request[r].payment IN
    /\ At(r, "settle")
    /\ \/ /\ facilitated \/ p \notin settled
          /\ settled' = settled \cup {p}
          /\ Serve(r)
       \/ settled' = settled \cup {p} /\ Goto(r, "release") /\ UNCHANGED served
       \/ Goto(r, "release") /\ UNCHANGED <<settled, served>>
    /\ UNCHANGED storeVars

Release(r) ==
    /\ At(r, "release")
    /\ Erase(request[r].payment)
    /\ Refuse(r)
    /\ UNCHANGED <<initialized, useDatabase, facilitated, lostKeys, settled, served>>

-----------------------------------------------------------------------------
\* The process dies and starts again: the table is all that is left.
Restart ==
    /\ initialized' = FALSE
    /\ useDatabase' = FALSE
    /\ memory' = {}
    /\ lostKeys' = lostKeys \cup (memory \cap BasePayments)
    /\ request' = [r \in Requests |-> Idle]
    /\ UNCHANGED <<table, facilitated, settled, served>>

Next ==
    \/ \E r \in Requests :
        \/ \E p \in Payments : Arrive(r, p)
        \/ Initialize(r) \/ QueryFails(r)
        \/ CheckUnused(r) \/ Submit(r) \/ Mark(r)
        \/ Reserve(r) \/ Settle(r) \/ Release(r)
    \/ \E p \in StellarPayments : PayerSubmits(p)
    \/ Restart

Spec == Init /\ [][Next]_vars

-----------------------------------------------------------------------------
(* Properties.                                                             *)

\* Nothing is served that was not paid for on chain, however the answers of the
\* chain, the table and the process fail; a facilitator must not confirm what
\* was never settled, which the middleware does not check.
ServedPaid == \A p \in Payments : served[p] > 0 => p \in settled

\* One Base payment buys one service, through overlapping requests, failures
\* and reservations that are released although the transfer happened.  Where the
\* token itself does not see to it, because the facilitator may confirm a payment
\* again, that takes a key that was never out of sight.
BaseServedOnce ==
    \A p \in BasePayments : served[p] <= 1 \/ (facilitated /\ p \in lostKeys)
=============================================================================
