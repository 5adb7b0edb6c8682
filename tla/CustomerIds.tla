---------------------------- MODULE CustomerIds -----------------------------
(***************************************************************************)
(* The identity verification of one user by Etherfuse: the backend invents *)
(* a customer id, stores it, and puts it into the hosted page on which the *)
(* user is verified.  A later status query asks for the stored id.         *)
(*                                                                         *)
(* The answers of that query are stored in a column that nothing reads,    *)
(* and are left out.                                                       *)
(***************************************************************************)
EXTENDS Integers, FiniteSets

CONSTANTS
    Ids,                \* what randomUUID may give
    NoId,               \* etherfuse_customer_id is NULL
    Starters            \* the HTTP requests that can be in progress together

VARIABLES
    customer,           \* etherfuse_customer_id
    pages,              \* the customer ids in hosted pages
    start               \* each request: the await it is at, and its id

vars == <<customer, pages, start>>

Idle == [pc |-> "idle"]

At(d, pc) == start[d].pc = pc

Become(d, state) == start' = [start EXCEPT ![d] = state]

Init ==
    /\ customer = NoId
    /\ pages = {}
    /\ start = [d \in Starters |-> Idle]

-----------------------------------------------------------------------------
\* Mutant: a new id for each page.
StartWithNewId(d) ==
    /\ At(d, "idle")
    /\ \E id \in Ids \ (pages \cup {customer}) : Become(d, [pc |-> "store", id |-> id])
    /\ UNCHANGED <<customer, pages>>

\* The id that is stored, or one of its own.
StartEtherfuse(d) ==
    /\ At(d, "idle")
    /\ IF customer # NoId THEN Become(d, [pc |-> "page", id |-> customer])
       ELSE \E id \in Ids \ pages : Become(d, [pc |-> "store", id |-> id])
    /\ UNCHANGED <<customer, pages>>

StoreId(d) ==
    /\ At(d, "store")
    /\ customer' = start[d].id
    /\ Become(d, [start[d] EXCEPT !.pc = "page"])
    /\ UNCHANGED pages

CreatePage(d) ==
    /\ At(d, "page")
    /\ pages' = pages \cup {start[d].id}
    /\ Become(d, Idle)
    /\ UNCHANGED customer

Fails(d) ==
    /\ ~ At(d, "idle")
    /\ Become(d, Idle)
    /\ UNCHANGED <<customer, pages>>

Next == \E d \in Starters : StartEtherfuse(d) \/ StoreId(d) \/ CreatePage(d) \/ Fails(d)

Spec == Init /\ [][Next]_vars

-----------------------------------------------------------------------------
\* The ids "are permanently bound to the user once submitted": a user gets no
\* more of them than there were requests that started together before one was
\* stored, however often the later steps of these fail and are asked for again.
FewCustomerIds == Cardinality(pages) <= Cardinality(Starters)
=============================================================================
