------------------------ MODULE AgentServicesProofs -------------------------
(***************************************************************************)
(* Proofs about the services of the agent API and the two contracts that   *)
(* stand alone, for every value of the constants: payments, trades, the    *)
(* bazaar, credentials over the registry, and badges.                      *)
(*                                                                         *)
(* Each part has the inductive invariant of one service, a lemma for each  *)
(* of its actions that needs more than a line, and the theorems.           *)
(***************************************************************************)
EXTENDS Services, FiniteSetTheorems, TLAPS

\* A step of the composition is a step of each service, or leaves it alone.
LEMMA AgentParts ==
    [Next]_vars => /\ [P!Next]_paymentVars
                   /\ [T!Next]_tradeVars
                   /\ [B!Next]_bazaarVars
                   /\ [V!Next]_credentialVars
                   /\ [G!Next]_badgeVars
  BY DEF Next, vars

\* Requests can be counted, a set of them at a time.
LEMMA CountRequests ==
    ASSUME NEW A \in SUBSET Requests
    PROVE  /\ Cardinality(A) \in Nat /\ Cardinality(Requests) \in Nat
           /\ \A r \in Requests : r \notin A => Cardinality(A \cup {r}) = Cardinality(A) + 1
           /\ \A r \in A : Cardinality(A \ {r}) = Cardinality(A) - 1
           /\ \A r \in Requests : r \notin A => A \ {r} = A
           /\ \A r \in A : A \cup {r} = A
           /\ \A X \in SUBSET Requests :
                  A \cap X = {} => Cardinality(A) + Cardinality(X) <= Cardinality(Requests)
<1>1. IsFiniteSet(Requests) /\ Cardinality(Requests) \in Nat
  BY ServicesAssumption, FS_CardinalityType
<1>2. \A X \in SUBSET Requests : IsFiniteSet(X) /\ Cardinality(X) \in Nat
  BY <1>1, FS_Subset, FS_CardinalityType
<1>3. \A r \in Requests : r \notin A => Cardinality(A \cup {r}) = Cardinality(A) + 1
  BY <1>2, FS_AddElement
<1>4. \A r \in A : Cardinality(A \ {r}) = Cardinality(A) - 1
  BY <1>2, FS_RemoveElement
<1>5. ASSUME NEW X \in SUBSET Requests, A \cap X = {}
      PROVE  Cardinality(A) + Cardinality(X) <= Cardinality(Requests)
  <2>1. Cardinality(A \cup X) = Cardinality(A) + Cardinality(X)
    <3>1. Cardinality(A \cup X) = Cardinality(A) + Cardinality(X) - Cardinality(A \cap X)
      BY <1>2, FS_Union
    <3>2. Cardinality(A \cap X) = 0
      BY <1>5, FS_EmptySet
    <3> QED
      BY <1>2, <3>1, <3>2
  <2>2. Cardinality(A \cup X) <= Cardinality(Requests)
    BY <1>1, FS_Subset
  <2> QED
    BY <2>1, <2>2
<1> QED
  BY <1>1, <1>2, <1>3, <1>4, <1>5

-----------------------------------------------------------------------------
(* x402 payments.                                                          *)

PaymentStates ==
    [pc : {"init", "check", "submit", "mark", "reserve", "settle", "release"},
     payment : P!Payments]

\* What a request waits for tells the kind of its payment, and one that is
\* about to be recorded and served was seen on chain.
RequestKnows(r) ==
    /\ P!At(r, "check") \/ P!At(r, "submit") \/ P!At(r, "mark")
           => request[r].payment \in StellarPayments
    /\ P!At(r, "mark") => request[r].payment \in settled

\* A request that has claimed the key of its payment and has not settled yet, or
\* is about to give it back.
Claims(r) == P!At(r, "settle") \/ P!At(r, "release")

InSight == memory \cup table

\* While the key of a Base payment is in sight, it is recorded for whoever claims
\* it and after it bought its service; one request claims it, and only before.
KeyHeld(p) ==
    /\ served[p] <= 1
    /\ served[p] > 0 => p \in InSight
    /\ \A r \in Requests : Claims(r) /\ request[r].payment = p =>
           /\ p \in InSight
           /\ served[p] = 0
           /\ \A q \in Requests : Claims(q) /\ request[q].payment = p => q = r

KeysHeld == \A p \in BasePayments : p \notin lostKeys => KeyHeld(p)

\* The token takes an authorization once.
TokenOnce == ~ facilitated => \A p \in BasePayments : served[p] <= 1

PaymentsInv ==
    /\ served \in [P!Payments -> Nat]
    /\ request \in [Requests -> PaymentStates \cup {P!Idle}]
    /\ facilitated \in BOOLEAN
    /\ \A r \in Requests : RequestKnows(r)
    /\ P!ServedPaid
    /\ KeysHeld
    /\ TokenOnce

\* The process starts without requests.
LEMMA PaymentsInit == P!Init => PaymentsInv
  BY DEF P!Init, PaymentsInv, RequestKnows, P!ServedPaid, KeysHeld, KeyHeld, TokenOnce,
         Claims, P!At, P!Idle, P!Payments

\* A request that is not idle has a payment.
LEMMA BusyRequest ==
    ASSUME PaymentsInv, NEW r \in Requests, ~ P!At(r, "idle")
    PROVE  request[r] \in PaymentStates
  BY DEF PaymentsInv, P!At, P!Idle

\* A step of one request that serves nothing keeps the invariant, if what the
\* request knows afterwards is true and the keys are still held.
LEMMA RequestMoves ==
    ASSUME PaymentsInv, NEW r \in Requests, NEW state \in PaymentStates \cup {P!Idle},
           request' = [request EXCEPT ![r] = state], UNCHANGED <<facilitated, served>>,
           settled \subseteq settled', RequestKnows(r)', KeysHeld'
    PROVE  PaymentsInv'
<1>1. \A q \in Requests : RequestKnows(q)'
  BY DEF PaymentsInv, RequestKnows, P!At
<1> QED
  BY <1>1 DEF PaymentsInv, P!ServedPaid, TokenOnce

\* The keys are held by those who held them, if none is claimed or taken back.
LEMMA KeysStay ==
    ASSUME PaymentsInv, NEW r \in Requests, NEW state \in PaymentStates \cup {P!Idle},
           request' = [request EXCEPT ![r] = state], UNCHANGED served,
           lostKeys \subseteq lostKeys',
           \A p \in BasePayments : p \in InSight => p \in InSight' \/ p \in lostKeys',
           state.pc \in {"settle", "release"} =>
               Claims(r) /\ state.payment = request[r].payment
    PROVE  KeysHeld'
<1> SUFFICES ASSUME NEW p \in BasePayments, p \notin lostKeys' PROVE KeyHeld(p)'
  BY DEF KeysHeld
<1>1. KeyHeld(p)
  BY DEF PaymentsInv, KeysHeld
<1>2. p \in InSight => p \in InSight'
  OBVIOUS
<1>3. \A q \in Requests : (Claims(q) /\ request[q].payment = p)' =>
                               Claims(q) /\ request[q].payment = p
  BY DEF PaymentsInv, Claims, P!At
<1> QED
  BY <1>1, <1>2, <1>3 DEF KeyHeld

\* Being served: the payment was settled; a Base payment was claimed, and the
\* token took it now or a facilitator says so.
LEMMA RequestServed ==
    ASSUME PaymentsInv, NEW r \in Requests, request[r] \in PaymentStates, P!Serve(r),
           settled \subseteq settled', request[r].payment \in settled',
           UNCHANGED <<facilitated, lostKeys>>, InSight \subseteq InSight',
           request[r].payment \in BasePayments =>
               Claims(r) /\ (facilitated \/ request[r].payment \notin settled)
    PROVE  PaymentsInv'
<1> DEFINE p == request[r].payment
<1>1. p \in P!Payments
  BY DEF PaymentStates
<1>2. served' = [served EXCEPT ![p] = @ + 1] /\ request' = [request EXCEPT ![r] = P!Idle]
  BY DEF P!Serve
<1>3. \A q \in Requests : RequestKnows(q)'
  BY <1>2 DEF PaymentsInv, RequestKnows, P!At, P!Idle
<1>4. served' \in [P!Payments -> Nat] /\ request' \in [Requests -> PaymentStates \cup {P!Idle}]
  BY <1>1, <1>2 DEF PaymentsInv
<1>5. P!ServedPaid'
  BY <1>1, <1>2 DEF PaymentsInv, P!ServedPaid
<1>6. BasePayments \subseteq P!Payments
  BY DEF P!Payments
<1>7. TokenOnce'
  <2>1. p \in BasePayments /\ ~ facilitated => served[p] = 0
    BY <1>1 DEF PaymentsInv, P!ServedPaid
  <2> QED
    BY <1>1, <1>2, <1>6, <2>1 DEF PaymentsInv, TokenOnce
<1>8. KeysHeld'
  <2> SUFFICES ASSUME NEW b \in BasePayments, b \notin lostKeys PROVE KeyHeld(b)'
    BY DEF KeysHeld
  <2>1. KeyHeld(b) /\ b \in P!Payments /\ served[b] \in Nat
    BY <1>6 DEF PaymentsInv, KeysHeld
  <2>2. \A q \in Requests : Claims(q)' => q # r /\ Claims(q) /\ request'[q] = request[q]
    BY <1>2 DEF PaymentsInv, Claims, P!At, P!Idle
  <2>3. CASE b = p
    <3>1. served[b] = 0 /\ b \in InSight
      BY <2>1, <2>3 DEF KeyHeld
    <3>2. \A q \in Requests : Claims(q) /\ request[q].payment = b => q = r
      BY <2>1, <2>3 DEF KeyHeld
    <3>3. served'[b] = 1
      BY <1>1, <1>2, <2>3, <3>1 DEF PaymentsInv
    <3> QED
      BY <2>2, <3>1, <3>2, <3>3 DEF KeyHeld
  <2>4. CASE b # p
    <3>1. served'[b] = served[b]
      BY <1>1, <1>2, <2>1, <2>4 DEF PaymentsInv
    <3> QED
      BY <2>1, <2>2, <3>1 DEF KeyHeld
  <2> QED
    BY <2>3, <2>4
<1> QED
  BY <1>3, <1>4, <1>5, <1>7, <1>8 DEF PaymentsInv

\* Every step of the middleware, of a payer and of a restart keeps the invariant.
LEMMA PaymentsStep == PaymentsInv /\ [P!Next]_paymentVars => PaymentsInv'
<1> SUFFICES ASSUME PaymentsInv, [P!Next]_paymentVars PROVE PaymentsInv'
  OBVIOUS
<1>1. request \in [Requests -> PaymentStates \cup {P!Idle}]
  BY DEF PaymentsInv
<1> DEFINE Kept == /\ UNCHANGED <<facilitated, served>> /\ settled \subseteq settled'
                   /\ lostKeys \subseteq lostKeys' /\ InSight \subseteq InSight'
<1>2. ASSUME NEW r \in Requests, NEW p \in P!Payments, P!Arrive(r, p) PROVE PaymentsInv'
  <2> DEFINE state == [pc |-> IF initialized THEN P!Verify(p) ELSE "init", payment |-> p]
  <2>1. state \in PaymentStates
    BY DEF PaymentStates, P!Verify
  <2>2. request' = [request EXCEPT ![r] = state] /\ Kept
    BY <1>2 DEF P!Arrive, P!storeVars, InSight
  <2>3. /\ state.pc \in {"check", "submit", "mark"} => state.pc = "check" /\ p \in StellarPayments
        /\ state.pc \notin {"settle", "release"}
    BY DEF P!Verify
  <2>4. RequestKnows(r)'
    BY <1>1, <2>2, <2>3 DEF RequestKnows, P!At
  <2>5. KeysHeld'
    BY <2>1, <2>2, <2>3, KeysStay
  <2> QED
    BY <2>1, <2>2, <2>4, <2>5, RequestMoves
<1>3. ASSUME NEW r \in Requests, NEW pc \in {"init", "check", "submit", "mark", "reserve",
                                             "settle", "release"},
             ~ P!At(r, "idle"), P!Goto(r, pc), UNCHANGED <<facilitated, served>>,
             settled \subseteq settled',
             pc \in {"check", "submit", "mark"} => request[r].payment \in StellarPayments,
             pc = "mark" => request[r].payment \in settled',
             KeysHeld' \/ (Kept /\ (pc \in {"settle", "release"} => Claims(r)))
      PROVE  PaymentsInv'
  <2> DEFINE state == [request[r] EXCEPT !.pc = pc]
  <2>1. request[r] \in PaymentStates
    BY <1>3, BusyRequest
  <2>2. state \in PaymentStates /\ state.pc = pc /\ state.payment = request[r].payment
    BY <2>1 DEF PaymentStates
  <2>3. request' = [request EXCEPT ![r] = state]
    BY <1>3 DEF P!Goto
  <2> HIDE DEF state
  <2>4. RequestKnows(r)'
    BY <1>1, <1>3, <2>2, <2>3 DEF RequestKnows, P!At
  <2>5. KeysHeld'
    BY <1>3, <2>2, <2>3, KeysStay
  <2> QED
    BY <1>3, <2>2, <2>3, <2>4, <2>5, RequestMoves
<1>4. ASSUME NEW r \in Requests, P!Refuse(r), UNCHANGED <<facilitated, served>>,
             settled \subseteq settled', KeysHeld' \/ Kept
      PROVE  PaymentsInv'
  <2>1. RequestKnows(r)'
    BY <1>1, <1>4 DEF RequestKnows, P!At, P!Idle, P!Refuse
  <2>2. P!Idle.pc = "idle"
    BY DEF P!Idle
  <2>3. KeysHeld'
    BY <1>4, <2>2, KeysStay DEF P!Refuse
  <2> QED
    BY <1>4, <2>1, <2>3, RequestMoves DEF P!Refuse
<1>5. ASSUME NEW r \in Requests, P!Initialize(r) PROVE PaymentsInv'
  <2>1. ~ P!At(r, "idle") /\ Kept
    BY <1>5 DEF P!Initialize, P!At, InSight
  <2>2. P!Verify(request[r].payment) \in {"check", "reserve"}
        /\ (P!Verify(request[r].payment) = "check" => request[r].payment \in StellarPayments)
    BY DEF P!Verify
  <2> QED
    BY <1>3, <1>5, <2>1, <2>2 DEF P!Initialize
<1>6. ASSUME NEW r \in Requests, P!QueryFails(r) PROVE PaymentsInv'
  <2>1. Kept
    BY <1>6 DEF P!QueryFails, P!storeVars, InSight
  <2> QED
    BY <1>4, <1>6, <2>1 DEF P!QueryFails
<1>7. ASSUME NEW r \in Requests, P!CheckUnused(r) PROVE PaymentsInv'
  <2>1. ~ P!At(r, "idle") /\ request[r].payment \in StellarPayments
    BY <1>7 DEF P!CheckUnused, PaymentsInv, RequestKnows, P!At
  <2>2. Kept
    BY <1>7 DEF P!CheckUnused, P!storeVars, InSight
  <2> QED
    BY <1>3, <1>4, <1>7, <2>1, <2>2 DEF P!CheckUnused
<1>8. ASSUME NEW r \in Requests, P!Submit(r) PROVE PaymentsInv'
  <2>1. ~ P!At(r, "idle") /\ request[r].payment \in StellarPayments
    BY <1>8 DEF P!Submit, PaymentsInv, RequestKnows, P!At
  <2>2. \/ P!Goto(r, "mark") /\ request[r].payment \in settled'
        \/ P!Refuse(r)
    BY <1>8 DEF P!Submit
  <2>3. Kept
    BY <1>8 DEF P!Submit, P!storeVars, InSight
  <2> QED
    BY <1>3, <1>4, <2>1, <2>2, <2>3
<1>9. ASSUME NEW r \in Requests, P!Mark(r) PROVE PaymentsInv'
  <2>1. request[r] \in PaymentStates
    BY <1>9, BusyRequest DEF P!Mark, P!At
  <2>2. request[r].payment \in settled /\ request[r].payment \in StellarPayments
    BY <1>9 DEF P!Mark, PaymentsInv, RequestKnows
  <2>3. request[r].payment \notin BasePayments
    BY <2>2, ServicesAssumption DEF ServicesAssumption
  <2>4. InSight \subseteq InSight' /\ UNCHANGED <<facilitated, lostKeys, settled>>
    BY <1>9 DEF P!Mark, P!Record, InSight
  <2>5. CASE P!Serve(r)
    BY <2>1, <2>2, <2>3, <2>4, <2>5, RequestServed
  <2>6. CASE P!Refuse(r) /\ UNCHANGED served
    BY <1>4, <2>4, <2>6
  <2> QED
    BY <1>9, <2>5, <2>6 DEF P!Mark
<1>10. ASSUME NEW r \in Requests, P!Reserve(r) PROVE PaymentsInv'
  <2> DEFINE p == request[r].payment
  <2>1. ~ P!At(r, "idle") /\ ~ Claims(r) /\ UNCHANGED <<facilitated, settled, served>>
    BY <1>10 DEF P!Reserve, P!At, Claims
  <2>2. CASE p \in P!Used /\ P!Refuse(r) /\ UNCHANGED <<memory, table, lostKeys>>
    BY <1>4, <2>1, <2>2 DEF InSight
  <2>3. CASE /\ P!Record(p) /\ lostKeys' = lostKeys \cup ({p} \cap InSight)
             /\ P!Goto(r, "settle") \/ P!Refuse(r)
    <3>1. InSight' = InSight \cup {p} /\ Kept
      BY <2>1, <2>3 DEF P!Record, InSight
    <3>2. CASE P!Refuse(r)
      BY <1>4, <2>1, <3>1, <3>2
    <3>3. CASE P!Goto(r, "settle")
      <4>1. /\ \A q \in Requests : q # r => request'[q] = request[q]
            /\ request[r].payment = request'[r].payment
        <5>1. request[r] \in PaymentStates
          BY <2>1, BusyRequest
        <5> QED
          BY <1>1, <3>3, <5>1 DEF P!Goto, PaymentStates
      <4>2. ASSUME NEW b \in BasePayments, b \notin lostKeys' PROVE KeyHeld(b)'
        <5>1. KeyHeld(b) /\ served[b] \in Nat
          BY <3>1, <4>2 DEF PaymentsInv, KeysHeld, P!Payments
        <5>2. CASE b = p
          <6>1. b \notin InSight
            BY <2>3, <4>2, <5>2
          <6>2. served[b] = 0 /\ \A q \in Requests : Claims(q) => request[q].payment # b
            BY <5>1, <6>1 DEF KeyHeld
          <6>3. \A q \in Requests : (Claims(q) /\ request[q].payment = b)' => q = r
            BY <4>1, <6>2 DEF Claims, P!At
          <6> QED
            BY <2>1, <3>1, <5>2, <6>2, <6>3 DEF KeyHeld
        <5>3. CASE b # p
          <6>1. \A q \in Requests : (Claims(q) /\ request[q].payment = b)' =>
                                         Claims(q) /\ request[q].payment = b
            BY <4>1, <5>3 DEF Claims, P!At
          <6> QED
            BY <2>1, <3>1, <5>1, <6>1 DEF KeyHeld
        <5> QED
          BY <5>2, <5>3
      <4>3. KeysHeld'
        BY <4>2 DEF KeysHeld
      <4> QED
        BY <1>3, <2>1, <3>3, <4>3
    <3> QED
      BY <2>3, <3>2, <3>3
  <2> QED
    BY <1>10, <2>2, <2>3 DEF P!Reserve, InSight
<1>11. ASSUME NEW r \in Requests, P!Settle(r) PROVE PaymentsInv'
  <2>1. ~ P!At(r, "idle") /\ request[r] \in PaymentStates /\ Claims(r)
    BY <1>11, BusyRequest DEF P!Settle, P!At, Claims
  <2>2. /\ settled \subseteq settled' /\ UNCHANGED <<facilitated, lostKeys>>
        /\ InSight \subseteq InSight'
    BY <1>11 DEF P!Settle, P!storeVars, InSight
  <2>3. CASE /\ facilitated \/ request[r].payment \notin settled
             /\ request[r].payment \in settled' /\ P!Serve(r)
    BY <2>1, <2>2, <2>3, RequestServed
  <2>4. CASE P!Goto(r, "release") /\ UNCHANGED served
    BY <1>3, <2>1, <2>2, <2>4
  <2> QED
    BY <1>11, <2>3, <2>4 DEF P!Settle
<1>12. ASSUME NEW r \in Requests, P!Release(r) PROVE PaymentsInv'
  <2> DEFINE p == request[r].payment
  <2>1. Claims(r) /\ P!Refuse(r) /\ UNCHANGED <<facilitated, lostKeys, settled, served>>
    BY <1>12 DEF P!Release, Claims
  <2>2. \A b : b # p /\ b \in InSight => b \in InSight'
    BY <1>12 DEF P!Release, P!Erase, InSight
  <2>3. \A q \in Requests : Claims(q)' => q # r /\ Claims(q) /\ request'[q] = request[q]
    BY <1>1, <2>1 DEF Claims, P!At, P!Refuse, P!Idle
  <2>4. ASSUME NEW b \in BasePayments, b \notin lostKeys PROVE KeyHeld(b)'
    <3>1. KeyHeld(b) /\ served[b] \in Nat
      BY <2>4 DEF PaymentsInv, KeysHeld, P!Payments
    <3>2. CASE b = p
      <4>1. served[b] = 0 /\ \A q \in Requests : Claims(q) /\ request[q].payment = b => q = r
        BY <2>1, <3>1, <3>2 DEF KeyHeld
      <4> QED
        BY <2>1, <2>3, <4>1 DEF KeyHeld
    <3>3. CASE b # p
      BY <2>1, <2>2, <2>3, <3>1, <3>3 DEF KeyHeld
    <3> QED
      BY <3>2, <3>3
  <2>5. KeysHeld'
    BY <2>1, <2>4 DEF KeysHeld
  <2> QED
    BY <1>4, <2>1, <2>5
<1>13. ASSUME NEW p \in StellarPayments, P!PayerSubmits(p) PROVE PaymentsInv'
  BY <1>13 DEF P!PayerSubmits, P!storeVars, PaymentsInv, RequestKnows, P!At, P!ServedPaid,
               KeysHeld, KeyHeld, Claims, InSight, TokenOnce
<1>14. CASE P!Restart
  <2>1. \A r \in Requests : request'[r] = P!Idle /\ ~ Claims(r)' /\ RequestKnows(r)'
    BY <1>14 DEF P!Restart, Claims, RequestKnows, P!At, P!Idle
  <2>2. ASSUME NEW b \in BasePayments, b \notin lostKeys' PROVE KeyHeld(b)'
    <3>1. KeyHeld(b) /\ b \notin memory /\ served[b] \in Nat
      BY <1>14, <2>2 DEF PaymentsInv, KeysHeld, P!Restart, P!Payments
    <3> QED
      BY <1>14, <2>1, <3>1 DEF KeyHeld, InSight, P!Restart
  <2>3. KeysHeld' /\ TokenOnce'
    BY <1>14, <2>2 DEF KeysHeld, TokenOnce, P!Restart, PaymentsInv
  <2> QED
    BY <1>14, <2>1, <2>3 DEF P!Restart, PaymentsInv, P!ServedPaid
<1>15. CASE UNCHANGED paymentVars
  BY <1>15 DEF paymentVars, PaymentsInv, RequestKnows, P!At, P!ServedPaid, KeysHeld, KeyHeld,
               Claims, InSight, TokenOnce
<1> QED
  BY <1>2, <1>5, <1>6, <1>7, <1>8, <1>9, <1>10, <1>11, <1>12, <1>13, <1>14, <1>15 DEF P!Next

\* What the middleware knows holds in every reachable state.
LEMMA PaymentsHold == Spec => []PaymentsInv
<1>1. Init => PaymentsInv
  BY PaymentsInit DEF Init
<1>2. PaymentsInv /\ [Next]_vars => PaymentsInv'
  BY PaymentsStep, AgentParts
<1> QED
  BY <1>1, <1>2, PTL DEF Spec

\* Nothing is served that was not paid for on chain, whatever fails, restarts or
\* overlaps, and however many requests and payments there are.
THEOREM ServedPaidHolds == Spec => []ServedPaid
<1>1. PaymentsInv => ServedPaid
  BY DEF PaymentsInv, ServedPaid
<1> QED
  BY <1>1, PaymentsHold, PTL

\* One Base payment buys one service, whatever overlaps, fails or is released too
\* early, unless a facilitator confirms it again after its key went out of sight.
THEOREM BaseServedOnceHolds == Spec => []BaseServedOnce
<1>1. PaymentsInv => BaseServedOnce
  BY DEF PaymentsInv, KeysHeld, KeyHeld, TokenOnce, BaseServedOnce, P!BaseServedOnce
<1> QED
  BY <1>1, PaymentsHold, PTL

-----------------------------------------------------------------------------
(* Trades of the agent API.                                                *)

Transactions == [call : {"lock", "release"}, sequence : Nat, time : Times]

\* A handler before its transaction, or without one, and one that has it.
WorkerStates ==
    [pc : {"build", "write"}, handler : {"lock", "reveal", "release", "cancel"}]
    \cup [pc : {"send", "poll", "write"}, handler : {"lock", "release"}, tx : Transactions]

\* What a call that was applied leaves true for ever: the contract locks once,
\* and what it released it does not refund.
Happened(call) ==
    /\ call \in {"lock", "reveal"} => escrow # "none"
    /\ call = "release" => escrow = "released"

WorkerKnows(w) ==
    /\ T!At(w, "build") => worker[w].handler \in {"lock", "release"}
    /\ T!At(w, "send") \/ T!At(w, "poll") => worker[w].tx.call = worker[w].handler
    /\ T!At(w, "write") => Happened(worker[w].handler)

TradesInv ==
    /\ row.status \in {"pending", "locked", "revealing", "completed", "cancelled"}
    /\ escrow \in {"none", "locked", "released", "refunded"}
    /\ account \in Nat
    /\ pool \subseteq Transactions
    /\ worker \in [Requests -> WorkerStates \cup {T!Idle}]
    /\ \A tx \in ledger : Happened(tx.call)
    /\ \A w \in Requests : WorkerKnows(w)
    /\ T!RowBacked

\* A trade starts unlocked, and without requests.
LEMMA TradesInit == T!Init => TradesInv
  BY DEF T!Init, TradesInv, WorkerKnows, T!RowBacked, T!At, T!Idle

\* The contract only moves forward: what happened stays so.
LEMMA HappenedStays ==
    ASSUME TradesInv, escrow' = escrow \/ (escrow = "none" /\ escrow' = "locked")
                      \/ (escrow = "locked" /\ escrow' \in {"released", "refunded"})
    PROVE  /\ \A call \in {"lock", "reveal", "release", "cancel"} :
                 Happened(call) => Happened(call)'
           /\ row' = row => T!RowBacked'
  BY DEF TradesInv, Happened, T!RowBacked

\* A step of one handler that leaves the row and the chain alone.
LEMMA WorkerMoves ==
    ASSUME TradesInv, NEW w \in Requests, NEW state \in WorkerStates \cup {T!Idle},
           worker' = [worker EXCEPT ![w] = state], pool' \subseteq Transactions,
           UNCHANGED <<row, escrow, account, ledger>>, WorkerKnows(w)'
    PROVE  TradesInv'
<1>1. \A v \in Requests : WorkerKnows(v)'
  BY DEF TradesInv, WorkerKnows, T!At, Happened
<1> QED
  BY <1>1 DEF TradesInv, T!RowBacked, Happened

\* A step of the network or the contract, which leaves the handlers alone.
LEMMA ChainMoves ==
    ASSUME TradesInv, UNCHANGED <<row, worker>>, account' \in Nat, pool' \subseteq Transactions,
           escrow' = escrow \/ (escrow = "none" /\ escrow' = "locked")
           \/ (escrow = "locked" /\ escrow' \in {"released", "refunded"}),
           \A tx \in ledger' : tx \in ledger \/ (tx \in Transactions /\ Happened(tx.call)')
    PROVE  TradesInv'
<1>1. \A w \in Requests : WorkerKnows(w)'
  <2> SUFFICES ASSUME NEW w \in Requests PROVE WorkerKnows(w)'
    OBVIOUS
  <2>1. WorkerKnows(w)
    BY DEF TradesInv
  <2>2. Happened(worker[w].handler) => Happened(worker[w].handler)'
    BY HappenedStays DEF Happened, TradesInv
  <2> QED
    BY <2>1, <2>2 DEF WorkerKnows, T!At
<1>2. \A tx \in ledger' : Happened(tx.call)'
  BY HappenedStays DEF Happened, TradesInv
<1>3. T!RowBacked' /\ escrow' \in {"none", "locked", "released", "refunded"}
  BY HappenedStays DEF TradesInv
<1> QED
  BY <1>1, <1>2, <1>3 DEF TradesInv

\* Every step of a handler, the network and the contract keeps the invariant.
LEMMA TradesStep == TradesInv /\ [T!Next]_tradeVars => TradesInv'
<1> SUFFICES ASSUME TradesInv, [T!Next]_tradeVars PROVE TradesInv'
  OBVIOUS
<1>1. /\ worker \in [Requests -> WorkerStates \cup {T!Idle}]
      /\ pool \subseteq Transactions /\ account \in Nat
  BY DEF TradesInv
<1>2. ASSUME NEW w \in Requests, ~ T!At(w, "idle") PROVE worker[w] \in WorkerStates
  BY <1>1, <1>2 DEF T!At, T!Idle
<1>3. ASSUME NEW w \in Requests, NEW state \in WorkerStates \cup {T!Idle},
             worker' = [worker EXCEPT ![w] = state]
      PROVE  worker'[w] = state
  BY <1>1, <1>3
<1>4. ASSUME NEW w \in Requests, T!Become(w, T!Idle),
             UNCHANGED <<row, escrow, account, pool, ledger>>
      PROVE  TradesInv'
  <2>1. worker'[w] = T!Idle
    BY <1>1, <1>4 DEF T!Become
  <2>2. WorkerKnows(w)'
    BY <2>1 DEF WorkerKnows, T!At, T!Idle
  <2> QED
    BY <1>1, <1>4, <2>2, WorkerMoves DEF T!Become
<1>5. ASSUME NEW w \in Requests,
             NEW asked \in {"lock", "reveal", "release", "cancel"},
             NEW found \in {"pending", "locked", "revealing"}, NEW pc \in {"build", "write"},
             T!Read(w, asked, found, pc),
             pc = "build" => asked \in {"lock", "release"},
             pc = "write" => asked = "cancel" \/ (asked = "reveal" /\ found = "locked")
      PROVE  TradesInv'
  <2> DEFINE state == [pc |-> pc, handler |-> asked]
  <2>1. state \in WorkerStates
    BY DEF WorkerStates
  <2>2. worker' = [worker EXCEPT ![w] = state] /\ row.status = found
    BY <1>5 DEF T!Read, T!Become
  <2>3. worker'[w] = state
    BY <1>3, <2>1, <2>2
  <2>4. pc = "write" => Happened(asked)'
    BY <1>5, <2>2 DEF TradesInv, T!RowBacked, Happened, T!Read
  <2>5. WorkerKnows(w)'
    BY <1>5, <2>3, <2>4 DEF WorkerKnows, T!At, Happened
  <2> QED
    BY <1>1, <1>5, <2>1, <2>2, <2>5, WorkerMoves DEF T!Read
<1>6. ASSUME NEW w \in Requests,
             T!LockTrade(w) \/ T!RevealTrade(w) \/ T!CompleteTrade(w) \/ T!CancelTrade(w)
      PROVE  TradesInv'
  BY <1>5, <1>6 DEF T!LockTrade, T!RevealTrade, T!CompleteTrade, T!CancelTrade
<1>7. ASSUME NEW w \in Requests, T!Write(w) PROVE TradesInv'
  <2>1. worker[w] \in WorkerStates /\ Happened(worker[w].handler)
    BY <1>2, <1>7 DEF T!Write, T!At, TradesInv, WorkerKnows
  <2>2. /\ row' = T!Written(worker[w].handler)
        /\ worker' = [worker EXCEPT ![w] = T!Idle]
        /\ UNCHANGED <<escrow, account, pool, ledger>>
    BY <1>7 DEF T!Write, T!Become
  <2>3. worker[w].handler \in {"lock", "reveal", "release", "cancel"}
    BY <2>1 DEF WorkerStates
  <2>4. /\ row'.status \in {"pending", "locked", "revealing", "completed", "cancelled"}
        /\ T!RowBacked'
    BY <2>1, <2>2, <2>3 DEF T!Written, T!RowBacked, Happened, TradesInv
  <2>5. \A v \in Requests : WorkerKnows(v)'
    BY <1>1, <2>2 DEF TradesInv, WorkerKnows, T!At, T!Idle, Happened
  <2> QED
    BY <2>2, <2>4, <2>5 DEF TradesInv, Happened
<1>8. ASSUME NEW w \in Requests, NEW time \in Times, T!Build(w, time) PROVE TradesInv'
  <2> DEFINE tx == [call |-> worker[w].handler, sequence |-> account + 1, time |-> time]
             state == [pc |-> "send", handler |-> worker[w].handler, tx |-> tx]
  <2>1. worker[w].handler \in {"lock", "release"}
    BY <1>8 DEF T!Build, TradesInv, WorkerKnows
  <2>2. tx \in Transactions
    BY <1>1, <2>1 DEF Transactions
  <2>3. state \in WorkerStates
    BY <2>1, <2>2 DEF WorkerStates
  <2>4. worker' = [worker EXCEPT ![w] = state]
    BY <1>8 DEF T!Build, T!Become
  <2>5. worker'[w] = state
    BY <1>3, <2>3, <2>4
  <2>6. WorkerKnows(w)'
    BY <2>5 DEF WorkerKnows, T!At
  <2> QED
    BY <1>1, <1>8, <2>3, <2>4, <2>6, WorkerMoves DEF T!Build
<1>9. ASSUME NEW w \in Requests, NEW pc \in {"poll", "write"}, T!Goto(w, pc),
             T!At(w, "send") \/ T!At(w, "poll"), pool' \subseteq Transactions,
             UNCHANGED <<row, escrow, account, ledger>>,
             pc = "write" => worker[w].tx \in ledger
      PROVE  TradesInv'
  <2> DEFINE state == [worker[w] EXCEPT !.pc = pc]
  <2>1. worker[w] \in WorkerStates /\ worker[w].pc \in {"send", "poll"}
        /\ worker[w].tx.call = worker[w].handler
    BY <1>2, <1>9 DEF T!At, TradesInv, WorkerKnows
  <2>2. state \in WorkerStates /\ state.pc = pc
        /\ state.handler = worker[w].handler /\ state.tx = worker[w].tx
    BY <2>1 DEF WorkerStates
  <2>3. worker' = [worker EXCEPT ![w] = state]
    BY <1>9 DEF T!Goto, T!Become
  <2> HIDE DEF state
  <2>4. worker'[w] = state
    BY <1>3, <2>2, <2>3
  <2>5. ASSUME pc = "write" PROVE Happened(worker[w].handler)'
    <3>1. Happened(worker[w].tx.call)
      BY <1>9, <2>5 DEF TradesInv
    <3> QED
      BY <1>9, <2>1, <2>2, <2>4, <3>1 DEF Happened
  <2>6. WorkerKnows(w)'
    <3>1. worker'[w].pc = pc /\ worker'[w].tx.call = worker'[w].handler
      BY <2>1, <2>2, <2>4
    <3> QED
      BY <2>5, <3>1 DEF WorkerKnows, T!At
  <2> QED
    BY <1>9, <2>2, <2>3, <2>6, WorkerMoves
<1>10. ASSUME NEW w \in Requests, T!Send(w) PROVE TradesInv'
  <2>1. worker[w].tx \in Transactions
    <3>1. worker[w] \in WorkerStates /\ worker[w].pc = "send"
      BY <1>2, <1>10 DEF T!Send, T!At
    <3> QED
      BY <3>1 DEF WorkerStates
  <2> QED
    BY <1>1, <1>9, <1>10, <2>1 DEF T!Send
<1>11. ASSUME NEW w \in Requests, T!Confirmed(w) PROVE TradesInv'
  BY <1>1, <1>9, <1>11 DEF T!Confirmed
<1>12. ASSUME NEW w \in Requests, T!Throws(w) PROVE TradesInv'
  BY <1>4, <1>12 DEF T!Throws
<1>13. ASSUME NEW tx \in pool, T!Include(tx) PROVE TradesInv'
  <2>1. tx \in Transactions
    BY <1>1
  <2>2. tx.call \in {"lock", "release"}
    BY <2>1 DEF Transactions
  <2>3. CASE T!Accepts(tx.call) /\ escrow' = (IF tx.call = "lock" THEN "locked" ELSE "released")
             /\ ledger' = ledger \cup {tx}
    <3>1. \/ escrow = "none" /\ escrow' = "locked"
          \/ escrow = "locked" /\ escrow' = "released"
      BY <2>2, <2>3 DEF T!Accepts
    <3>2. Happened(tx.call)'
      BY <2>2, <2>3 DEF Happened
    <3> QED
      BY <1>1, <1>13, <2>1, <2>3, <3>1, <3>2, ChainMoves DEF T!Include
  <2>4. CASE UNCHANGED <<escrow, ledger>>
    BY <1>1, <1>13, <2>4, ChainMoves DEF T!Include
  <2> QED
    BY <1>13, <2>3, <2>4 DEF T!Include
<1>14. ASSUME NEW tx \in pool, T!Drop(tx) PROVE TradesInv'
  BY <1>1, <1>14, ChainMoves DEF T!Drop
<1>15. CASE T!TimesOut
  BY <1>1, <1>15, ChainMoves DEF T!TimesOut
<1>16. CASE T!Refund
  BY <1>1, <1>16, ChainMoves DEF T!Refund
<1>17. CASE UNCHANGED tradeVars
  BY <1>1, <1>17, ChainMoves DEF tradeVars
<1> QED
  BY <1>6, <1>7, <1>8, <1>10, <1>11, <1>12, <1>13, <1>14, <1>15, <1>16, <1>17 DEF T!Next

\* What the handlers know holds in every reachable state.
LEMMA TradesHold == Spec => []TradesInv
<1>1. Init => TradesInv
  BY TradesInit DEF Init
<1>2. TradesInv /\ [Next]_vars => TradesInv'
  BY TradesStep, AgentParts
<1> QED
  BY <1>1, <1>2, PTL DEF Spec

\* The row of a trade claims no more than the chain did, whatever the handlers
\* overwrite and whichever transactions come late, however many there are.
THEOREM RowBackedHolds == Spec => []RowBacked
<1>1. TradesInv => RowBacked
  BY DEF TradesInv, RowBacked
<1> QED
  BY <1>1, TradesHold, PTL

-----------------------------------------------------------------------------
(* The ZK verifier registry on its own.                                    *)

\* Every call keeps the state well formed.
LEMMA RegistryTypeStep ==
    V!RegistryTypeOK /\ [V!RegistryNext]_registryVars => V!RegistryTypeOK'
<1> SUFFICES ASSUME V!RegistryTypeOK, [V!RegistryNext]_registryVars PROVE V!RegistryTypeOK'
  OBVIOUS
<1> USE DEF V!RegistryTypeOK
<1>1. CASE V!Initialize
  BY <1>1 DEF V!Initialize
<1>2. ASSUME NEW c \in Circuits, NEW k \in Keys, V!RegisterCircuit(c, k)
      PROVE  V!RegistryTypeOK'
  BY <1>2 DEF V!RegisterCircuit
<1>3. ASSUME NEW r \in Roots, V!SetReputationRoot(r) PROVE V!RegistryTypeOK'
  BY <1>3 DEF V!SetReputationRoot
<1>4. ASSUME NEW c \in Circuits, NEW n \in Nullifiers, NEW proof \in BOOLEAN,
             V!VerifyUnique(c, n, proof)
      PROVE  V!RegistryTypeOK'
  BY <1>4 DEF V!VerifyUnique
<1>5. CASE UNCHANGED registryVars
  BY <1>5 DEF registryVars
<1> QED
  BY <1>1, <1>2, <1>3, <1>4, <1>5 DEF V!RegistryNext

\* The state of the registry stays well formed under every sequence of calls.
THEOREM RegistryTypeCorrect == V!RegistrySpec => []V!RegistryTypeOK
<1>1. V!RegistryInit => V!RegistryTypeOK
  BY DEF V!RegistryInit, V!RegistryTypeOK
<1>2. V!RegistryTypeOK /\ [V!RegistryNext]_registryVars => V!RegistryTypeOK'
  BY RegistryTypeStep
<1> QED
  BY <1>1, <1>2, PTL DEF V!RegistrySpec, V!registryVars, registryVars

\* No call ever frees a nullifier, and each burns at most the one it proves.
THEOREM BurntForGood == V!RegistrySpec => V!BurnsForGood
<1> DEFINE Good == /\ used \subseteq used'
                   /\ \A n \in used' \ used :
                        /\ used' = used \cup {n}
                        /\ \E c \in Circuits : <<keys[c], n>> \in Provable
<1>1. V!RegistryNext => Good
  <2>1. V!Initialize => Good
    BY DEF V!Initialize
  <2>2. ASSUME NEW c \in Circuits, NEW k \in Keys PROVE V!RegisterCircuit(c, k) => Good
    BY DEF V!RegisterCircuit
  <2>3. ASSUME NEW r \in Roots PROVE V!SetReputationRoot(r) => Good
    BY DEF V!SetReputationRoot
  <2>4. ASSUME NEW c \in Circuits, NEW n \in Nullifiers, NEW proof \in BOOLEAN,
               V!VerifyUnique(c, n, proof)
        PROVE  Good
    <3>1. used' = used \cup {n} /\ <<keys[c], n>> \in Provable
      BY <2>4 DEF V!VerifyUnique, V!CanBurn, V!Verifies
    <3> QED
      BY <3>1
  <2> QED
    BY <2>1, <2>2, <2>3, <2>4 DEF V!RegistryNext
<1>2. [V!RegistryNext]_registryVars => [Good]_registryVars
  BY <1>1
<1> QED
  BY <1>2, PTL DEF V!RegistrySpec, V!registryVars, registryVars, V!BurnsForGood

-----------------------------------------------------------------------------
(* Credentials and inference, over the registry.                           *)

Spends == [n : Nullifiers, sequence : Nat, stamp : Stamps]

Buying == [pc : {"root", "publish"}, n : Nullifiers]

Choosing == [pc : {"check", "account"}, n : Nullifiers, route : {"inference", "verify"}]

Spending ==
    [pc : {"simulate", "send", "poll", "answer"}, route : {"inference", "verify"}, tx : Spends]

DeskStates == Buying \cup Choosing \cup Spending \cup {V!Idle}

InBuying(r) == V!At(r, "root") \/ V!At(r, "publish")

\* A credential in a sale is allocated to that sale alone and not handed out.
SalesApart ==
    /\ sold \subseteq allocated
    /\ \A r \in Requests : InBuying(r) => desk[r].n \in allocated \ sold
    /\ \A r, q \in Requests : InBuying(r) /\ InBuying(q) /\ desk[r].n = desk[q].n => r = q

\* A transaction that succeeded burnt its nullifier, an answer is due to one that
\* did, and nobody shares a burn that has not happened.
BurnsKnown ==
    /\ \A tx \in succeeded : tx.n \in used
    /\ \A r \in Requests : V!At(r, "answer") =>
           desk[r].tx \in succeeded /\ desk[r].route = "inference"
    /\ \A n \in Nullifiers : n \notin used => sharing[n] = 0

\* The requests that may still answer for a burn.
Due(n) ==
    {r \in Requests : /\ desk[r].pc \in {"send", "poll", "answer"}
                      /\ desk[r].route = "inference"
                      /\ desk[r].tx \in succeeded
                      /\ desk[r].tx.n = n}

\* They were there when it happened, with those that have answered.
AnswersCounted == \A n \in Nullifiers : answered[n] + Cardinality(Due(n)) <= sharing[n]

CredentialsTypeOK ==
    /\ desk \in [Requests -> DeskStates]
    /\ sequence \in Nat
    /\ sent \subseteq Spends
    /\ answered \in [Nullifiers -> Nat]
    /\ sharing \in [Nullifiers -> Nat]

CredentialsInv ==
    CredentialsTypeOK /\ SalesApart /\ BurnsKnown /\ AnswersCounted /\ V!SoldOnce

\* The process starts with its whole pool and nothing spent.
LEMMA CredentialsInit == V!Init => CredentialsInv
<1> SUFFICES ASSUME V!Init PROVE CredentialsInv
  OBVIOUS
<1>1. CredentialsTypeOK /\ SalesApart /\ BurnsKnown /\ V!SoldOnce
  BY DEF V!Init, CredentialsTypeOK, SalesApart, BurnsKnown, V!SoldOnce, DeskStates,
         InBuying, V!At, V!Idle
<1>2. ASSUME NEW n \in Nullifiers PROVE answered[n] + Cardinality(Due(n)) <= sharing[n]
  <2>1. Due(n) = {}
    BY DEF V!Init, Due
  <2> QED
    BY <2>1, FS_EmptySet DEF V!Init
<1> QED
  BY <1>1, <1>2 DEF CredentialsInv, AnswersCounted

\* A count that nobody joins holds on.
LEMMA FewerDue ==
    ASSUME CredentialsInv, UNCHANGED <<answered, sharing>>,
           \A n \in Nullifiers : Due(n)' \subseteq Due(n)
    PROVE  AnswersCounted'
<1> SUFFICES ASSUME NEW n \in Nullifiers
             PROVE  (answered[n] + Cardinality(Due(n)) <= sharing[n])'
  BY DEF AnswersCounted
<1>1. IsFiniteSet(Due(n))
  BY ServicesAssumption, FS_Subset DEF Due
<1>2. Due(n)' \in SUBSET Requests /\ Due(n)' \subseteq Due(n)
  BY DEF Due
<1>3. Cardinality(Due(n)') <= Cardinality(Due(n)) /\ Cardinality(Due(n)') \in Nat
      /\ Cardinality(Due(n)) \in Nat
  BY <1>1, <1>2, FS_Subset, FS_CardinalityType
<1>4. answered[n] + Cardinality(Due(n)) <= sharing[n] /\ answered[n] \in Nat
      /\ sharing[n] \in Nat
  BY DEF CredentialsInv, AnswersCounted, CredentialsTypeOK
<1>5. Cardinality(Due(n))' = Cardinality(Due(n)')
  OBVIOUS
<1>6. answered'[n] = answered[n] /\ sharing'[n] = sharing[n]
  OBVIOUS
<1> QED
  BY <1>3, <1>4, <1>5, <1>6

\* The shop touches nothing of a spending.
LEMMA ShopLeavesSpends ==
    ASSUME CredentialsInv, used \subseteq used', UNCHANGED <<succeeded, answered, sharing>>,
           \A r \in Requests :
               desk'[r] = desk[r] \/ desk'[r].pc \notin {"send", "poll", "answer"}
    PROVE  BurnsKnown' /\ AnswersCounted'
<1>1. BurnsKnown'
  BY DEF CredentialsInv, BurnsKnown, V!At
<1>2. \A n \in Nullifiers : Due(n)' \subseteq Due(n)
  BY DEF Due
<1> QED
  BY <1>1, <1>2, FewerDue

\* A spending touches nothing of the shop.
LEMMA SpendLeavesShop ==
    ASSUME CredentialsInv, UNCHANGED <<allocated, sold, soldAgain>>,
           \A r \in Requests : InBuying(r)' => desk'[r] = desk[r]
    PROVE  SalesApart' /\ V!SoldOnce'
  BY DEF CredentialsInv, SalesApart, V!SoldOnce, InBuying, V!At

\* A desk that becomes something of its kind.
LEMMA DeskBecomes ==
    ASSUME CredentialsInv, NEW r \in Requests, NEW state \in DeskStates,
           V!Become(r, state)
    PROVE  /\ desk' \in [Requests -> DeskStates]
           /\ desk'[r] = state
           /\ \A q \in Requests : q # r => desk'[q] = desk[q]
  BY DEF CredentialsInv, CredentialsTypeOK, V!Become

\* The kinds of a desk by what it waits for.
LEMMA DeskKinds ==
    ASSUME CredentialsInv, NEW r \in Requests
    PROVE  /\ InBuying(r) => desk[r] \in Buying
           /\ V!At(r, "check") \/ V!At(r, "account") => desk[r] \in Choosing
           /\ V!At(r, "simulate") \/ V!At(r, "send") \/ V!At(r, "poll") \/ V!At(r, "answer")
                  => desk[r] \in Spending
<1>1. desk[r] \in Buying \cup Choosing \cup Spending \cup {V!Idle}
  BY DEF CredentialsInv, CredentialsTypeOK, DeskStates
<1>2. /\ desk[r] \in Buying => desk[r].pc \in {"root", "publish"}
      /\ desk[r] \in Choosing => desk[r].pc \in {"check", "account"}
      /\ desk[r] \in Spending => desk[r].pc \in {"simulate", "send", "poll", "answer"}
      /\ desk[r] = V!Idle => desk[r].pc = "idle"
  BY DEF Buying, Choosing, Spending, V!Idle
<1> QED
  BY <1>1, <1>2 DEF InBuying, V!At

\* Allocation, delivery and roll-back, whatever becomes of the root.
LEMMA SalesKeep ==
    ASSUME CredentialsInv, NEW r \in Requests,
           UNCHANGED <<sequence, sent, succeeded, answered, sharing, used>>,
           \/ /\ \E n \in Nullifiers : /\ n \notin allocated
                                       /\ allocated' = allocated \cup {n}
                                       /\ V!Become(r, [pc |-> "root", n |-> n])
              /\ UNCHANGED <<sold, soldAgain>>
           \/ V!At(r, "root") /\ V!Goto(r, "publish") /\ UNCHANGED <<allocated, sold, soldAgain>>
           \/ InBuying(r) /\ V!Deliver(r) /\ UNCHANGED allocated
           \/ InBuying(r) /\ V!RollBack(r) /\ UNCHANGED <<sold, soldAgain>>
    PROVE  CredentialsInv'
<1>1. SalesApart /\ CredentialsTypeOK /\ soldAgain = {}
  BY DEF CredentialsInv, V!SoldOnce
<1>2. ASSUME NEW state \in DeskStates, V!Become(r, state),
             state.pc \notin {"send", "poll", "answer"},
             SalesApart', soldAgain' = {}
      PROVE  CredentialsInv'
  <2>1. /\ desk' \in [Requests -> DeskStates]
        /\ desk'[r] = state
        /\ \A q \in Requests : q # r => desk'[q] = desk[q]
    BY <1>2, DeskBecomes
  <2>2. \A q \in Requests :
            desk'[q] = desk[q] \/ desk'[q].pc \notin {"send", "poll", "answer"}
    BY <1>2, <2>1
  <2>3. BurnsKnown' /\ AnswersCounted'
    BY <2>2, ShopLeavesSpends
  <2> QED
    BY <1>1, <1>2, <2>1, <2>3 DEF CredentialsInv, CredentialsTypeOK, V!SoldOnce
<1>3. ASSUME NEW n \in Nullifiers, n \notin allocated, allocated' = allocated \cup {n},
             V!Become(r, [pc |-> "root", n |-> n]), UNCHANGED <<sold, soldAgain>>
      PROVE  CredentialsInv'
  <2> DEFINE state == [pc |-> "root", n |-> n]
  <2>1. state \in DeskStates
    BY DEF DeskStates, Buying
  <2>2. desk'[r] = state /\ \A q \in Requests : q # r => desk'[q] = desk[q]
    BY <1>3, <2>1, DeskBecomes
  <2>3. SalesApart'
    BY <1>1, <1>3, <2>2 DEF SalesApart, InBuying, V!At
  <2> QED
    BY <1>1, <1>2, <1>3, <2>1, <2>3
<1>4. ASSUME V!At(r, "root"), V!Goto(r, "publish"), UNCHANGED <<allocated, sold, soldAgain>>
      PROVE  CredentialsInv'
  <2> DEFINE state == [desk[r] EXCEPT !.pc = "publish"]
  <2>1. desk[r] \in Buying
    BY <1>4, DeskKinds DEF InBuying
  <2>2. state \in Buying /\ state.pc = "publish" /\ state.n = desk[r].n
    BY <2>1 DEF Buying
  <2>3. V!Become(r, state)
    BY <1>4 DEF V!Goto
  <2> HIDE DEF state
  <2>4. state \in DeskStates
    BY <2>2 DEF DeskStates
  <2>5. desk'[r] = state /\ \A q \in Requests : q # r => desk'[q] = desk[q]
    BY <2>3, <2>4, DeskBecomes
  <2>6. SalesApart'
    BY <1>1, <1>4, <2>2, <2>5 DEF SalesApart, InBuying, V!At
  <2> QED
    BY <1>1, <1>2, <1>4, <2>2, <2>3, <2>4, <2>6
<1>5. V!Idle \in DeskStates /\ V!Idle.pc = "idle"
  BY DEF DeskStates, V!Idle
<1>6. ASSUME InBuying(r), V!Deliver(r), UNCHANGED allocated
      PROVE  CredentialsInv'
  <2>1. /\ sold' = sold \cup {desk[r].n} /\ soldAgain' = soldAgain \cup ({desk[r].n} \cap sold)
        /\ V!Become(r, V!Idle)
    BY <1>6 DEF V!Deliver
  <2>2. desk'[r] = V!Idle /\ \A q \in Requests : q # r => desk'[q] = desk[q]
    BY <1>5, <2>1, DeskBecomes
  <2>3. desk[r].n \in allocated \ sold
    BY <1>1, <1>6 DEF SalesApart
  <2>4. SalesApart'
    BY <1>1, <1>5, <1>6, <2>1, <2>2, <2>3 DEF SalesApart, InBuying, V!At
  <2>5. soldAgain' = {}
    BY <1>1, <2>1, <2>3
  <2> QED
    BY <1>2, <1>5, <2>1, <2>4, <2>5
<1>7. ASSUME InBuying(r), V!RollBack(r), UNCHANGED <<sold, soldAgain>>
      PROVE  CredentialsInv'
  <2>1. allocated' = allocated \ {desk[r].n} /\ V!Become(r, V!Idle)
    BY <1>7 DEF V!RollBack
  <2>2. desk'[r] = V!Idle /\ \A q \in Requests : q # r => desk'[q] = desk[q]
    BY <1>5, <2>1, DeskBecomes
  <2>3. desk[r].n \in allocated \ sold
    BY <1>1, <1>7 DEF SalesApart
  <2>4. SalesApart'
    BY <1>1, <1>5, <1>7, <2>1, <2>2, <2>3 DEF SalesApart, InBuying, V!At
  <2> QED
    BY <1>1, <1>2, <1>5, <1>7, <2>1, <2>4
<1> QED
  BY <1>3, <1>4, <1>6, <1>7

\* Every await of a spending but the network's and the answer.
LEMMA SpendingKeeps ==
    ASSUME CredentialsInv, NEW r \in Requests, NEW state \in DeskStates, V!Become(r, state),
           state.pc \notin {"root", "publish"},
           UNCHANGED <<allocated, sold, soldAgain, sequence, succeeded, answered, sharing, used>>,
           sent' \subseteq Spends,
           state.pc \in {"send", "poll", "answer"} =>
               \/ state.pc = "send" /\ state.tx \notin succeeded
               \/ /\ desk[r].pc \in {"send", "poll"}
                  /\ state.tx = desk[r].tx /\ state.route = desk[r].route,
           state.pc = "answer" => state.tx \in succeeded /\ state.route = "inference"
    PROVE  CredentialsInv'
<1>1. /\ desk' \in [Requests -> DeskStates]
      /\ desk'[r] = state
      /\ \A q \in Requests : q # r => desk'[q] = desk[q]
  BY DeskBecomes
<1>2. \A q \in Requests : InBuying(q)' => desk'[q] = desk[q]
  BY <1>1 DEF InBuying, V!At
<1>3. SalesApart' /\ V!SoldOnce'
  BY <1>2, SpendLeavesShop
<1>4. BurnsKnown'
  BY <1>1 DEF CredentialsInv, BurnsKnown, V!At
<1>5. AnswersCounted'
  <2>1. \A n \in Nullifiers : Due(n)' \subseteq Due(n)
    BY <1>1 DEF Due
  <2> QED
    BY <2>1, FewerDue
<1> QED
  BY <1>1, <1>3, <1>4, <1>5 DEF CredentialsInv, CredentialsTypeOK

\* An answer is one of those that are due.
LEMMA AnswerKeeps ==
    ASSUME CredentialsInv, NEW r \in Requests, V!Answer(r)
    PROVE  CredentialsInv'
<1> DEFINE m == desk[r].tx.n
<1>1. V!Idle \in DeskStates /\ V!Idle.pc = "idle"
  BY DEF DeskStates, V!Idle
<1>2. /\ answered' = [answered EXCEPT ![m] = @ + 1] /\ V!At(r, "answer") /\ V!Become(r, V!Idle)
      /\ UNCHANGED <<used, allocated, sold, soldAgain, sequence, sent, succeeded, sharing>>
  BY DEF V!Answer, V!registryVars, V!shopVars, V!chainVars
<1>3. /\ desk' \in [Requests -> DeskStates]
      /\ desk'[r] = V!Idle
      /\ \A q \in Requests : q # r => desk'[q] = desk[q]
  BY <1>1, <1>2, DeskBecomes
<1>4. SalesApart' /\ V!SoldOnce'
  <2>1. \A q \in Requests : InBuying(q)' => desk'[q] = desk[q]
    BY <1>1, <1>3 DEF InBuying, V!At
  <2> QED
    BY <1>2, <2>1, SpendLeavesShop
<1>5. BurnsKnown'
  BY <1>1, <1>2, <1>3 DEF CredentialsInv, BurnsKnown, V!At
<1>6. m \in Nullifiers
  <2>1. desk[r] \in Spending
    BY <1>2, DeskKinds
  <2> QED
    BY <2>1 DEF Spending, Spends
<1>7. CredentialsTypeOK'
  BY <1>2, <1>3, <1>6 DEF CredentialsInv, CredentialsTypeOK
<1>8. r \in Due(m)
  BY <1>2 DEF CredentialsInv, BurnsKnown, Due, V!At
<1>9. ASSUME NEW n \in Nullifiers
      PROVE  (answered[n] + Cardinality(Due(n)) <= sharing[n])'
  <2>1. Due(n)' = Due(n) \ {r}
    BY <1>1, <1>2, <1>3 DEF Due
  <2>2. Due(n) \in SUBSET Requests
    BY DEF Due
  <2>3. answered[n] + Cardinality(Due(n)) <= sharing[n] /\ answered[n] \in Nat
        /\ sharing[n] \in Nat /\ Cardinality(Due(n)) \in Nat
    BY <2>2, CountRequests DEF CredentialsInv, AnswersCounted, CredentialsTypeOK
  <2>4. Cardinality(Due(n))' = Cardinality(Due(n) \ {r}) /\ sharing'[n] = sharing[n]
    BY <1>2, <2>1
  <2>5. CASE n = m
    <3>1. Cardinality(Due(n) \ {r}) = Cardinality(Due(n)) - 1
      BY <1>8, <2>2, <2>5, CountRequests
    <3>2. answered'[n] = answered[n] + 1
      BY <1>2, <1>6, <2>5 DEF CredentialsInv, CredentialsTypeOK
    <3> QED
      BY <2>3, <2>4, <3>1, <3>2
  <2>6. CASE n # m
    <3>1. Due(n) \ {r} = Due(n)
      BY <2>6 DEF Due
    <3>2. answered'[n] = answered[n]
      BY <1>2, <2>6 DEF CredentialsInv, CredentialsTypeOK
    <3> QED
      BY <2>3, <2>4, <3>1, <3>2
  <2> QED
    BY <2>5, <2>6
<1> QED
  BY <1>4, <1>5, <1>7, <1>9 DEF CredentialsInv, AnswersCounted

\* The burn of a credential is shared by those who have its transaction in hand:
\* before it nobody shared one, and nobody has answered.
LEMMA BurnShared ==
    ASSUME CredentialsInv, NEW tx \in sent, V!Include(tx),
           V!VerifyUnique(Circuit, tx.n, TRUE), succeeded' = succeeded \cup {tx},
           sharing' = [sharing EXCEPT ![tx.n] = V!Cardinality(V!Sharing(tx))]
    PROVE  sharing' \in [Nullifiers -> Nat] /\ BurnsKnown' /\ AnswersCounted'
<1>1. /\ BurnsKnown /\ tx.n \in Nullifiers /\ tx.n \notin used /\ used' = used \cup {tx.n}
      /\ UNCHANGED <<answered, desk>>
      /\ answered \in [Nullifiers -> Nat] /\ sharing \in [Nullifiers -> Nat]
  BY DEF CredentialsInv, CredentialsTypeOK, Spends, V!VerifyUnique, V!CanBurn, V!Include
<1>2. V!Sharing(tx) \in SUBSET Requests
  BY DEF V!Sharing
<1>3. V!Cardinality(V!Sharing(tx)) = Cardinality(V!Sharing(tx))
  BY DEF V!Cardinality, Cardinality
<1>4. Cardinality(V!Sharing(tx)) \in Nat
  BY <1>2, CountRequests
<1>5. BurnsKnown'
  BY <1>1 DEF BurnsKnown, V!At
<1>6. sharing' \in [Nullifiers -> Nat]
  BY <1>1, <1>3, <1>4
<1>7. ASSUME NEW n \in Nullifiers
      PROVE  (answered[n] + Cardinality(Due(n)) <= sharing[n])'
  <2>1. Due(n) \in SUBSET Requests
    BY DEF Due
  <2>2. answered[n] + Cardinality(Due(n)) <= sharing[n] /\ answered[n] \in Nat
        /\ sharing[n] \in Nat /\ Cardinality(Due(n)) \in Nat
    BY <2>1, CountRequests DEF CredentialsInv, AnswersCounted, CredentialsTypeOK
  <2>3. CASE n = tx.n
    <3>1. answered'[n] = 0
      BY <1>1, <2>2, <2>3 DEF BurnsKnown
    <3>2. Due(n)' = V!Sharing(tx)
      BY <1>1, <2>3 DEF Due, V!Sharing, BurnsKnown, V!At
    <3>3. Cardinality(Due(n))' = Cardinality(V!Sharing(tx))
      BY <3>2
    <3>4. sharing'[n] = Cardinality(V!Sharing(tx))
      BY <1>1, <1>3, <2>3
    <3> QED
      BY <1>4, <3>1, <3>3, <3>4
  <2>4. CASE n # tx.n
    <3>1. Due(n)' = Due(n)
      BY <1>1, <2>4 DEF Due
    <3>2. Cardinality(Due(n))' = Cardinality(Due(n))
      BY <3>1
    <3>3. sharing'[n] = sharing[n] /\ answered'[n] = answered[n]
      BY <1>1, <2>4
    <3> QED
      BY <2>2, <3>2, <3>3
  <2> QED
    BY <2>3, <2>4
<1> QED
  BY <1>5, <1>6, <1>7 DEF AnswersCounted

\* The network, the admin, other callers of the registry and a restart.
LEMMA NetworkKeeps ==
    ASSUME CredentialsInv,
           \/ \E tx \in sent : V!Include(tx) \/ V!Drop(tx)
           \/ \E n \in Nullifiers : V!SpendDirectly(n)
           \/ V!RootIncluded \/ V!Restart \/ V!Admin
    PROVE  CredentialsInv'
<1>1. SalesApart /\ BurnsKnown /\ CredentialsTypeOK /\ V!SoldOnce
  BY DEF CredentialsInv
<1>2. ASSUME UNCHANGED <<allocated, sold, soldAgain, desk>> PROVE SalesApart' /\ V!SoldOnce'
  BY <1>1, <1>2, SpendLeavesShop DEF InBuying, V!At
<1>3. ASSUME UNCHANGED <<succeeded, answered, sharing, desk>>, used \subseteq used'
      PROVE  BurnsKnown' /\ AnswersCounted'
  BY <1>1, <1>3, ShopLeavesSpends
<1>4. ASSUME NEW tx \in sent, V!Include(tx) PROVE CredentialsInv'
  <2>1. tx \in Spends /\ sequence \in Nat
    BY <1>1 DEF CredentialsTypeOK
  <2>2. SalesApart' /\ V!SoldOnce' /\ sequence' \in Nat /\ sent' \subseteq Spends
        /\ UNCHANGED <<desk, answered>>
    BY <1>1, <1>2, <1>4, <2>1 DEF V!Include, V!shopVars, CredentialsTypeOK
  <2>3. CASE /\ V!VerifyUnique(Circuit, tx.n, TRUE) /\ succeeded' = succeeded \cup {tx}
             /\ sharing' = [sharing EXCEPT ![tx.n] = V!Cardinality(V!Sharing(tx))]
    <3>1. sharing' \in [Nullifiers -> Nat] /\ BurnsKnown' /\ AnswersCounted'
      BY <1>4, <2>3, BurnShared
    <3> QED
      BY <1>1, <2>2, <3>1 DEF CredentialsInv, CredentialsTypeOK
  <2>4. CASE UNCHANGED <<V!registryVars, succeeded, sharing>>
    <3>1. BurnsKnown' /\ AnswersCounted'
      BY <1>3, <2>2, <2>4 DEF V!registryVars
    <3> QED
      BY <1>1, <2>2, <2>4, <3>1 DEF CredentialsInv, CredentialsTypeOK
  <2> QED
    BY <1>4, <2>3, <2>4 DEF V!Include
<1>5. ASSUME NEW tx \in sent, V!Drop(tx) PROVE CredentialsInv'
  <2>1. UNCHANGED <<used, allocated, sold, soldAgain, succeeded, answered, sharing, desk,
                    sequence>>
        /\ sent' \subseteq sent
    BY <1>5 DEF V!Drop, V!registryVars, V!shopVars, V!answerVars
  <2>2. CredentialsTypeOK'
    BY <1>1, <2>1 DEF CredentialsTypeOK
  <2> QED
    BY <1>2, <1>3, <2>1, <2>2 DEF CredentialsInv
<1>6. ASSUME \/ \E n \in Nullifiers : V!SpendDirectly(n)
             \/ V!RootIncluded \/ V!Admin
      PROVE  CredentialsInv'
  <2>1. UNCHANGED <<allocated, sold, soldAgain, succeeded, answered, sharing, desk,
                    sequence, sent>>
        /\ used \subseteq used'
    BY <1>6 DEF V!SpendDirectly, V!RootIncluded, V!Admin, V!shopVars, V!chainVars,
                V!answerVars, V!VerifyUnique, V!SetReputationRoot, V!Initialize, V!RegisterCircuit
  <2>2. CredentialsTypeOK'
    BY <1>1, <2>1 DEF CredentialsTypeOK
  <2> QED
    BY <1>2, <1>3, <2>1, <2>2 DEF CredentialsInv
<1>7. CASE V!Restart
  <2>1. /\ allocated' = {} /\ sold' = {} /\ soldAgain' = {}
        /\ desk' = [r \in Requests |-> V!Idle]
        /\ UNCHANGED <<used, succeeded, answered, sharing, sequence, sent>>
    BY <1>7 DEF V!Restart, V!registryVars, V!chainVars, V!answerVars
  <2>2. \A r \in Requests : desk'[r].pc = "idle"
    BY <2>1 DEF V!Idle
  <2>3. SalesApart' /\ V!SoldOnce'
    BY <2>1, <2>2 DEF SalesApart, V!SoldOnce, InBuying, V!At
  <2>4. BurnsKnown' /\ AnswersCounted'
    BY <2>1, <2>2, ShopLeavesSpends
  <2>5. CredentialsTypeOK'
    BY <1>1, <2>1 DEF CredentialsTypeOK, DeskStates
  <2> QED
    BY <2>3, <2>4, <2>5 DEF CredentialsInv
<1> QED
  BY <1>4, <1>5, <1>6, <1>7

\* Every step of the routes, the network and the registry keeps the invariant.
LEMMA CredentialsStep == CredentialsInv /\ [V!Next]_credentialVars => CredentialsInv'
<1> SUFFICES ASSUME CredentialsInv, [V!Next]_credentialVars PROVE CredentialsInv'
  OBVIOUS
<1> USE DEF V!shopVars, V!chainVars, V!answerVars, V!registryVars
<1>1. CredentialsTypeOK /\ BurnsKnown
  BY DEF CredentialsInv
<1>2. ASSUME NEW r \in Requests, NEW n \in Nullifiers, V!Allocate(r, n) PROVE CredentialsInv'
  BY <1>2, SalesKeep DEF V!Allocate
<1>3. ASSUME NEW r \in Requests, V!FetchRoot(r) PROVE CredentialsInv'
  BY <1>3, SalesKeep DEF V!FetchRoot, InBuying
<1>4. ASSUME NEW r \in Requests, V!Publish(r) PROVE CredentialsInv'
  BY <1>4, SalesKeep DEF V!Publish, InBuying, V!SetReputationRoot
<1>5. V!Idle \in DeskStates /\ V!Idle.pc = "idle"
  BY DEF DeskStates, V!Idle
<1>6. ASSUME NEW r \in Requests, NEW n \in Nullifiers, NEW route \in {"inference", "verify"},
             V!Spend(r, n, route)
      PROVE  CredentialsInv'
  <2> DEFINE state == [pc |-> "check", n |-> n, route |-> route]
  <2>1. state \in DeskStates
    BY DEF DeskStates, Choosing
  <2> QED
    BY <1>1, <1>6, <2>1, SpendingKeeps DEF V!Spend, CredentialsTypeOK
<1>7. ASSUME NEW r \in Requests, V!CheckRoot(r) PROVE CredentialsInv'
  <2> DEFINE state == [desk[r] EXCEPT !.pc = "account"]
  <2>1. desk[r] \in Choosing
    BY <1>7, DeskKinds DEF V!CheckRoot
  <2>2. state \in DeskStates /\ state.pc = "account"
    BY <2>1 DEF DeskStates, Choosing
  <2>3. V!Become(r, state)
    BY <1>7 DEF V!CheckRoot, V!Goto
  <2> HIDE DEF state
  <2> QED
    BY <1>1, <1>7, <2>2, <2>3, SpendingKeeps DEF V!CheckRoot, CredentialsTypeOK
<1>8. ASSUME NEW r \in Requests, NEW stamp \in Stamps, V!Build(r, stamp) PROVE CredentialsInv'
  <2> DEFINE tx == [n |-> desk[r].n, sequence |-> sequence + 1, stamp |-> stamp]
             state == [pc |-> "simulate", route |-> desk[r].route, tx |-> tx]
  <2>1. desk[r] \in Choosing
    BY <1>8, DeskKinds DEF V!Build
  <2>2. tx \in Spends
    BY <1>1, <2>1 DEF Spends, Choosing, CredentialsTypeOK
  <2>3. state \in DeskStates
    BY <2>1, <2>2 DEF DeskStates, Spending, Choosing
  <2> QED
    BY <1>1, <1>8, <2>3, SpendingKeeps DEF V!Build, CredentialsTypeOK
<1>9. ASSUME NEW r \in Requests, NEW pc \in {"send", "poll", "answer"}, V!Goto(r, pc),
             desk[r] \in Spending, sent' \subseteq Spends,
             (pc = "send" /\ desk[r].tx \notin succeeded) \/ desk[r].pc \in {"send", "poll"},
             pc = "answer" => desk[r].tx \in succeeded /\ desk[r].route = "inference",
             UNCHANGED <<used, allocated, sold, soldAgain, sequence, succeeded, answered,
                         sharing>>
      PROVE  CredentialsInv'
  <2> DEFINE state == [desk[r] EXCEPT !.pc = pc]
  <2>1. /\ state \in DeskStates /\ state.pc = pc
        /\ state.tx = desk[r].tx /\ state.route = desk[r].route
    BY <1>9 DEF DeskStates, Spending
  <2>2. V!Become(r, state)
    BY <1>9 DEF V!Goto
  <2> HIDE DEF state
  <2> QED
    BY <1>9, <2>1, <2>2, SpendingKeeps
<1>10. ASSUME NEW r \in Requests, V!Simulate(r) PROVE CredentialsInv'
  <2>1. desk[r] \in Spending
    BY <1>10, DeskKinds DEF V!Simulate
  <2>2. desk[r].tx \notin succeeded
    BY <1>1, <1>10 DEF V!Simulate, V!CanBurn, BurnsKnown
  <2> QED
    BY <1>1, <1>9, <1>10, <2>1, <2>2 DEF V!Simulate, CredentialsTypeOK
<1>11. ASSUME NEW r \in Requests, V!Send(r) PROVE CredentialsInv'
  <2>1. desk[r] \in Spending
    BY <1>11, DeskKinds DEF V!Send
  <2>2. desk[r].tx \in Spends
    BY <2>1 DEF Spending
  <2> QED
    BY <1>1, <1>9, <1>11, <2>1, <2>2 DEF V!Send, V!At, CredentialsTypeOK
<1>12. ASSUME NEW r \in Requests, V!Poll(r) PROVE CredentialsInv'
  <2>1. desk[r] \in Spending
    BY <1>12, DeskKinds DEF V!Poll
  <2>2. CASE desk[r].route = "inference" /\ V!Goto(r, "answer")
    BY <1>1, <1>9, <1>12, <2>1, <2>2 DEF V!Poll, V!At, CredentialsTypeOK
  <2>3. CASE V!Become(r, V!Idle)
    BY <1>1, <1>5, <1>12, <2>3, SpendingKeeps DEF V!Poll, CredentialsTypeOK
  <2> QED
    BY <1>12, <2>2, <2>3 DEF V!Poll
<1>13. ASSUME NEW r \in Requests, V!Answer(r) PROVE CredentialsInv'
  BY <1>13, AnswerKeeps
<1>14. ASSUME NEW r \in Requests, V!GiveUp(r) PROVE CredentialsInv'
  BY <1>1, <1>5, <1>14, SpendingKeeps DEF V!GiveUp, CredentialsTypeOK
<1>15. CASE UNCHANGED credentialVars
  <2>1. UNCHANGED <<used, allocated, sold, soldAgain, sequence, sent, succeeded, answered,
                    sharing, desk>>
    BY <1>15 DEF credentialVars, registryVars
  <2>2. SalesApart' /\ V!SoldOnce' /\ BurnsKnown' /\ AnswersCounted'
    BY <2>1, SpendLeavesShop, ShopLeavesSpends
  <2> QED
    BY <1>1, <2>1, <2>2 DEF CredentialsInv, CredentialsTypeOK
<1> QED
  BY <1>2, <1>3, <1>4, <1>6, <1>7, <1>8, <1>10, <1>11, <1>12, <1>13, <1>14, <1>15,
     NetworkKeeps DEF V!Next

\* What the routes know holds in every reachable state.
LEMMA CredentialsHold == Spec => []CredentialsInv
<1>1. Init => CredentialsInv
  BY CredentialsInit DEF Init
<1>2. CredentialsInv /\ [Next]_vars => CredentialsInv'
  BY CredentialsStep, AgentParts
<1> QED
  BY <1>1, <1>2, PTL DEF Spec

\* No credential is handed to two buyers by one process, whatever the pool and
\* however many buyers overlap, time out or are rolled back.
THEOREM SoldOnceHolds == Spec => []SoldOnce
<1>1. CredentialsInv => SoldOnce
  BY DEF CredentialsInv, SoldOnce
<1> QED
  BY <1>1, CredentialsHold, PTL

\* A credential buys no more answers than requests held the transaction that
\* burnt it when it did, however many overlap and whatever is lost or restarted.
THEOREM AnsweredBySpendHolds == Spec => []AnsweredBySpend
<1>1. CredentialsInv => AnsweredBySpend
  <2> SUFFICES ASSUME CredentialsInv, NEW n \in Nullifiers PROVE answered[n] <= sharing[n]
    BY DEF AnsweredBySpend, V!AnsweredBySpend
  <2>1. Due(n) \in SUBSET Requests
    BY DEF Due
  <2> QED
    BY <2>1, CountRequests DEF CredentialsInv, AnswersCounted, CredentialsTypeOK
<1> QED
  BY <1>1, CredentialsHold, PTL

\* What the routes, the network and the admin do to the registry are calls of
\* the contract: a step of the agent API is a step of the registry or none.
LEMMA RegistryCalls ==
    CredentialsInv /\ [V!Next]_credentialVars => [V!RegistryNext]_registryVars
<1> SUFFICES ASSUME CredentialsInv, [V!Next]_credentialVars
             PROVE  [V!RegistryNext]_registryVars
  OBVIOUS
<1> USE DEF V!registryVars
<1>1. Circuit \in Circuits /\ PoolRoot \in Roots
  BY ServicesAssumption
<1>2. ASSUME UNCHANGED V!registryVars PROVE [V!RegistryNext]_registryVars
  BY <1>2 DEF registryVars
<1>3. ASSUME NEW r \in Requests, V!Publish(r) PROVE [V!RegistryNext]_registryVars
  <2>1. CASE V!SetReputationRoot(PoolRoot)
    BY <1>1, <2>1 DEF V!RegistryNext
  <2>2. CASE UNCHANGED V!registryVars
    BY <1>2, <2>2
  <2> QED
    BY <1>3, <2>1, <2>2 DEF V!Publish
<1>4. ASSUME NEW n \in Nullifiers, V!VerifyUnique(Circuit, n, TRUE) PROVE V!RegistryNext
  BY <1>1, <1>4 DEF V!RegistryNext
<1>5. ASSUME NEW tx \in sent, V!Include(tx) PROVE [V!RegistryNext]_registryVars
  <2>1. tx.n \in Nullifiers
    BY DEF CredentialsInv, CredentialsTypeOK, Spends
  <2>2. V!VerifyUnique(Circuit, tx.n, TRUE) \/ UNCHANGED V!registryVars
    BY <1>5 DEF V!Include
  <2> QED
    BY <1>2, <1>4, <2>1, <2>2
<1>6. ASSUME NEW n \in Nullifiers, V!SpendDirectly(n) PROVE [V!RegistryNext]_registryVars
  BY <1>4, <1>6 DEF V!SpendDirectly
<1>7. CASE V!RootIncluded
  BY <1>1, <1>7 DEF V!RootIncluded, V!RegistryNext
<1>8. CASE V!Admin
  BY <1>1, <1>8 DEF V!Admin, V!RegistryNext
<1>9. ASSUME NEW r \in Requests,
             \/ \E n \in Nullifiers : V!Allocate(r, n)
             \/ V!FetchRoot(r)
             \/ \E n \in Nullifiers, route \in {"inference", "verify"} : V!Spend(r, n, route)
             \/ V!CheckRoot(r) \/ \E stamp \in Stamps : V!Build(r, stamp)
             \/ V!Simulate(r) \/ V!Send(r) \/ V!Poll(r) \/ V!Answer(r) \/ V!GiveUp(r)
      PROVE  UNCHANGED V!registryVars
  BY <1>9 DEF V!Allocate, V!FetchRoot, V!Spend, V!CheckRoot, V!Build, V!Simulate, V!Send,
              V!Poll, V!Answer, V!GiveUp
<1>10. ASSUME (\E tx \in sent : V!Drop(tx)) \/ V!Restart PROVE UNCHANGED V!registryVars
  BY <1>10 DEF V!Drop, V!Restart
<1>11. CASE UNCHANGED credentialVars
  BY <1>11 DEF credentialVars, registryVars
<1> QED
  BY <1>2, <1>3, <1>5, <1>6, <1>7, <1>8, <1>9, <1>10, <1>11 DEF V!Next

\* The agent API implements the registry contract's specification: everything
\* that is proved of the contract on its own holds of the composition.
THEOREM RegistryImplemented == Spec => V!RegistrySpec
<1>1. Init => V!RegistryInit
  BY DEF Init, V!Init
<1>2. CredentialsInv /\ [Next]_vars => [V!RegistryNext]_registryVars
  BY RegistryCalls, AgentParts
<1> QED
  BY <1>1, <1>2, CredentialsHold, PTL DEF Spec, V!RegistrySpec, V!registryVars, registryVars

-----------------------------------------------------------------------------
(* Badges.  The ids of the badges are those below the next id and an index *)
(* holds no other: an id that is appended is new and greater than the rest.*)

\* The ids given so far are those below the next one.
Numbered == DOMAIN recipient = 1..(nextBadgeId - 1)

\* Before initialize there are no badges.
NoneYet == ~ ready => nextBadgeId = 1

\* An index entry is a badge of its recipient.
Listed ==
    \A r \in Recipients : \A n \in DOMAIN badgesOf[r] :
        G!HasBadge(r, badgesOf[r][n])

\* A badge is in the index of its recipient.
Indexed ==
    \A i \in DOMAIN recipient :
        \E n \in DOMAIN badgesOf[recipient[i]] : badgesOf[recipient[i]][n] = i

\* Each index is in the order of minting.
Sorted ==
    \A r \in Recipients : \A m, n \in DOMAIN badgesOf[r] :
        m < n => badgesOf[r][m] < badgesOf[r][n]

\* The inductive invariant.
BadgesInv == G!TypeOK /\ Numbered /\ NoneYet /\ Listed /\ Indexed /\ Sorted

\* The contract starts without badges.
LEMMA BadgesInit == G!Init => BadgesInv
<1> SUFFICES ASSUME G!Init PROVE BadgesInv
  OBVIOUS
<1>1. DOMAIN recipient = {}
  BY DEF G!Init
<1>2. \A r \in Recipients : badgesOf[r] = << >>
  BY DEF G!Init
<1>3. \A r \in Recipients : DOMAIN badgesOf[r] = {}
  <2>1. DOMAIN << >> = {}
    OBVIOUS
  <2> QED  BY <1>2, <2>1
<1>4. G!TypeOK
  <2>1. << >> \in Seq(Nat)
    OBVIOUS
  <2>2. badgesOf \in [Recipients -> Seq(Nat)]
    BY <2>1 DEF G!Init
  <2>3. ready \in BOOLEAN /\ nextBadgeId \in Nat \ {0}
    <3>1. ready \in BOOLEAN
      BY DEF G!Init
    <3>2. nextBadgeId \in Nat \ {0}
      BY DEF G!Init
    <3> QED  BY <3>1, <3>2
  <2>4. DOMAIN recipient \subseteq Nat /\ \A i \in DOMAIN recipient : recipient[i] \in Recipients
    BY <1>1
  <2> QED  BY <2>2, <2>3, <2>4 DEF G!TypeOK
<1>5. Numbered /\ NoneYet
  BY <1>1 DEF G!Init, Numbered, NoneYet
<1>6. Listed /\ Indexed /\ Sorted
  BY <1>1, <1>3 DEF Listed, Indexed, Sorted
<1> QED  BY <1>4, <1>5, <1>6 DEF BadgesInv

\* initialize changes the next id only where it is 1 already.
LEMMA BadgesInitialize == BadgesInv /\ G!Initialize => BadgesInv'
<1> SUFFICES ASSUME BadgesInv, G!Initialize PROVE BadgesInv'
  OBVIOUS
<1>1. nextBadgeId' = nextBadgeId /\ recipient' = recipient /\ badgesOf' = badgesOf /\ ready' = TRUE
  BY DEF BadgesInv, NoneYet, G!Initialize
<1>2. G!TypeOK'
  BY <1>1 DEF BadgesInv, G!TypeOK
<1>3. Numbered' /\ NoneYet'
  BY <1>1 DEF BadgesInv, Numbered, NoneYet
<1>4. Listed' /\ Indexed' /\ Sorted'
  BY <1>1 DEF BadgesInv, Listed, Indexed, Sorted, G!HasBadge
<1> QED  BY <1>2, <1>3, <1>4 DEF BadgesInv

\* Minting keeps the storage well formed, and numbers the new badge.
LEMMA MintShape == ASSUME NEW r \in Recipients, BadgesInv, G!Mint(r) PROVE G!TypeOK' /\ Numbered' /\ NoneYet'
<1>1. nextBadgeId \in Nat \ {0} /\ nextBadgeId' = nextBadgeId + 1 /\ ready' = ready /\ ready
  BY DEF BadgesInv, G!TypeOK, G!Mint
<1>2. DOMAIN recipient' = 1..nextBadgeId
  BY <1>1 DEF BadgesInv, Numbered, G!Mint
<1>3. \A i \in DOMAIN recipient' : recipient'[i] \in Recipients
  BY DEF BadgesInv, G!TypeOK, G!Mint
<1>4. badgesOf' \in [Recipients -> Seq(Nat)]
  <2>1. Append(badgesOf[r], nextBadgeId) \in Seq(Nat)
    BY <1>1 DEF BadgesInv, G!TypeOK
  <2> QED  BY <2>1 DEF BadgesInv, G!TypeOK, G!Mint
<1>5. G!TypeOK'
  BY <1>1, <1>2, <1>3, <1>4 DEF BadgesInv, G!TypeOK
<1> QED  BY <1>1, <1>2, <1>5 DEF Numbered, NoneYet

\* What minting does to the indexes, entry by entry.
LEMMA MintIndex ==
  ASSUME NEW r \in Recipients, BadgesInv, G!Mint(r), NEW q \in Recipients
  PROVE  /\ q # r => badgesOf'[q] = badgesOf[q]
         /\ DOMAIN badgesOf'[r] = 1..(Len(badgesOf[r]) + 1)
         /\ DOMAIN badgesOf[q] = 1..Len(badgesOf[q]) /\ Len(badgesOf[q]) \in Nat
         /\ \A n \in 1..Len(badgesOf[r]) : badgesOf'[r][n] = badgesOf[r][n]
         /\ badgesOf'[r][Len(badgesOf[r]) + 1] = nextBadgeId
<1>1. badgesOf[r] \in Seq(Nat) /\ badgesOf[q] \in Seq(Nat)
  BY DEF BadgesInv, G!TypeOK
<1>2. badgesOf'[r] = Append(badgesOf[r], nextBadgeId) /\ (q # r => badgesOf'[q] = badgesOf[q])
  BY DEF BadgesInv, G!TypeOK, G!Mint
<1>3. nextBadgeId \in Nat \ {0}
  BY DEF BadgesInv, G!TypeOK, G!Mint
<1> QED  BY <1>1, <1>2, <1>3

\* Minting keeps indexes and badges in step, and the indexes sorted.
LEMMA BadgesMint == ASSUME NEW r \in Recipients, BadgesInv, G!Mint(r) PROVE BadgesInv'
<1>1. G!TypeOK' /\ Numbered' /\ NoneYet'
  BY MintShape
<1>2. nextBadgeId \in Nat /\ nextBadgeId \notin DOMAIN recipient
  BY DEF BadgesInv, G!TypeOK, Numbered
<1>3. /\ DOMAIN recipient' = DOMAIN recipient \cup {nextBadgeId}
      /\ recipient'[nextBadgeId] = r
      /\ \A i \in DOMAIN recipient : recipient'[i] = recipient[i]
  BY <1>2 DEF G!Mint
<1>4. Listed'
  <2> SUFFICES ASSUME NEW q \in Recipients, NEW n \in DOMAIN badgesOf'[q]
               PROVE  G!HasBadge(q, badgesOf[q][n])'
    BY DEF Listed
  <2>1. CASE q # r
    BY <2>1, <1>3, MintIndex DEF BadgesInv, Listed, G!HasBadge
  <2>2. CASE q = r /\ n \in 1..Len(badgesOf[r])
    BY <2>2, <1>3, MintIndex DEF BadgesInv, Listed, G!HasBadge
  <2>3. CASE q = r /\ n = Len(badgesOf[r]) + 1
    BY <2>3, <1>3, MintIndex DEF G!HasBadge
  <2> QED  BY <2>1, <2>2, <2>3, MintIndex
<1>5. Indexed'
  <2> SUFFICES ASSUME NEW i \in DOMAIN recipient'
               PROVE  \E n \in DOMAIN badgesOf'[recipient'[i]] : badgesOf'[recipient'[i]][n] = i
    BY DEF Indexed
  <2>1. CASE i = nextBadgeId
    <3>1. Len(badgesOf[r]) + 1 \in DOMAIN badgesOf'[r]
      BY MintIndex
    <3> QED  BY <2>1, <3>1, <1>3, MintIndex
  <2>2. CASE i \in DOMAIN recipient
    <3>1. PICK n \in DOMAIN badgesOf[recipient[i]] : badgesOf[recipient[i]][n] = i
      BY <2>2 DEF BadgesInv, Indexed
    <3>2. recipient[i] \in Recipients /\ recipient'[i] = recipient[i]
      BY <2>2, <1>3 DEF BadgesInv, G!TypeOK
    <3>3. n \in DOMAIN badgesOf'[recipient[i]] /\ badgesOf'[recipient[i]][n] = i
      BY <3>1, <3>2, MintIndex
    <3> QED  BY <3>2, <3>3
  <2> QED  BY <2>1, <2>2, <1>3
<1>6. Sorted'
  <2> SUFFICES ASSUME NEW q \in Recipients, NEW m \in DOMAIN badgesOf'[q],
                      NEW n \in DOMAIN badgesOf'[q], m < n
               PROVE  badgesOf'[q][m] < badgesOf'[q][n]
    BY DEF Sorted
  <2>1. CASE q # r
    BY <2>1, MintIndex DEF BadgesInv, Sorted
  <2>2. CASE q = r /\ n \in 1..Len(badgesOf[r])
    <3>1. m \in 1..Len(badgesOf[r])
      BY <2>2, MintIndex
    <3> QED  BY <2>2, <3>1, MintIndex DEF BadgesInv, Sorted
  <2>3. CASE q = r /\ n = Len(badgesOf[r]) + 1
    <3>1. m \in 1..Len(badgesOf[r])
      BY <2>3, MintIndex
    <3>2. badgesOf[r][m] \in DOMAIN recipient
      BY <3>1, MintIndex DEF BadgesInv, Listed, G!HasBadge
    <3>3. badgesOf[r][m] < nextBadgeId
      BY <3>2 DEF BadgesInv, G!TypeOK, Numbered
    <3> QED  BY <2>3, <3>1, <3>3, MintIndex
  <2> QED  BY <2>1, <2>2, <2>3, MintIndex
<1> QED  BY <1>1, <1>4, <1>5, <1>6 DEF BadgesInv

\* Every call keeps the invariant.
LEMMA BadgesStep == BadgesInv /\ [G!Next]_badgeVars => BadgesInv'
<1> SUFFICES ASSUME BadgesInv, [G!Next]_badgeVars PROVE BadgesInv'
  OBVIOUS
<1>1. CASE G!Initialize
  BY <1>1, BadgesInitialize
<1>2. CASE \E r \in Recipients : G!Mint(r)
  BY <1>2, BadgesMint
<1>3. CASE UNCHANGED badgeVars
  BY <1>3 DEF badgeVars, BadgesInv, G!TypeOK, Numbered, NoneYet, Listed, Indexed, Sorted,
              G!HasBadge
<1> QED
  BY <1>1, <1>2, <1>3 DEF G!Next

\* What the storage says of the badges holds in every reachable state.
LEMMA BadgesHold == Spec => []BadgesInv
<1>1. Init => BadgesInv
  BY BadgesInit DEF Init
<1>2. BadgesInv /\ [Next]_vars => BadgesInv'
  BY BadgesStep, AgentParts
<1> QED
  BY <1>1, <1>2, PTL DEF Spec

\* get_badges and has_badge never disagree, and get_badges lists no badge twice,
\* for every set of recipients and however many badges.
THEOREM ReadersAgreeHolds == Spec => []ReadersAgree
<1>1. BadgesInv => G!ReadersAgree
  <2> SUFFICES ASSUME BadgesInv, NEW r \in Recipients, NEW i \in 1..nextBadgeId
               PROVE  G!HasBadge(r, i) <=> i \in G!GetBadges(r)
    BY DEF G!ReadersAgree, BadgesInv, Sorted
  <2>1. G!HasBadge(r, i) => i \in G!GetBadges(r)
    BY DEF BadgesInv, Indexed, G!HasBadge, G!GetBadges
  <2>2. i \in G!GetBadges(r) => G!HasBadge(r, i)
    BY DEF BadgesInv, Listed, G!GetBadges
  <2> QED
    BY <2>1, <2>2
<1> QED
  BY <1>1, BadgesHold, PTL DEF ReadersAgree

-----------------------------------------------------------------------------
(* The bazaar.                                                             *)

Adds == {[broadcasts |-> 1], [completed |-> 1], [k \in B!Columns |-> 0]}

Reading == [pc : {"read"}, id : Intents, adds : Adds, next : {"insert", "done"}]

Adding == [pc : {"add"}, id : Intents, adds : Adds, next : {"insert", "done"},
           known : BOOLEAN, old : [B!Columns -> Nat]]

Working == [pc : {"insert", "lock", "mark"}, id : Intents]

ClientStates == Reading \cup Adding \cup Working \cup {B!Idle}

BazaarTypeOK ==
    /\ client \in [Requests -> ClientStates]
    /\ intent \in [Intents -> {"absent", "active", "negotiating"}]
    /\ locked \in [Intents -> Nat] /\ unmarked \in [Intents -> Nat]
    /\ known \in BOOLEAN
    /\ history \in [B!Columns -> Nat] /\ done \in [B!Columns -> Nat]

\* A broadcast whose intent is yet to be inserted.
Inserter(c) ==
    \/ B!At(c, "insert")
    \/ (B!At(c, "read") \/ B!At(c, "add")) /\ client[c].next = "insert"

\* An intent is inserted once, and accepted only after that.
Accepting(c) == B!At(c, "lock") \/ B!At(c, "mark")

InsertsApart ==
    /\ \A c \in Requests : Accepting(c) => intent[client[c].id] # "absent"
    /\ \A c \in Requests : Inserter(c) => intent[client[c].id] = "absent"
    /\ \A c, d \in Requests : Inserter(c) /\ Inserter(d) /\ client[c].id = client[d].id => c = d

\* What a request read was true once, and counters only grow.
OldBelow == \A c \in Requests : B!At(c, "add") => \A k \in B!Columns : client[c].old[k] <= done[k]

Locking(i) == {c \in Requests : B!At(c, "lock") /\ client[c].id = i}

Marking(i) == {c \in Requests : B!At(c, "mark") /\ client[c].id = i}

\* Until the first mark every lock is at its mark or failed there; after it the
\* requests that may still lock were all there together with it.
Counted(i) ==
    IF intent[i] = "negotiating"
    THEN locked[i] + Cardinality(Locking(i)) <= Cardinality(Requests) + unmarked[i]
    ELSE locked[i] = unmarked[i] + Cardinality(Marking(i))

LocksCounted == \A i \in Intents : Counted(i)

BazaarInv == BazaarTypeOK /\ InsertsApart /\ OldBelow /\ LocksCounted /\ B!HistoryCounts

\* The bazaar starts without intents and requests.
LEMMA BazaarInit == B!Init => BazaarInv
<1> SUFFICES ASSUME B!Init PROVE BazaarInv
  OBVIOUS
<1>1. \A c \in Requests : client[c].pc = "idle"
  BY DEF B!Init, B!Idle
<1>2. BazaarTypeOK
  BY DEF B!Init, BazaarTypeOK, ClientStates
<1>3. InsertsApart /\ OldBelow
  BY <1>1 DEF InsertsApart, OldBelow, Inserter, Accepting, B!At
<1>4. \A i \in Intents : Marking(i) = {}
  BY <1>1 DEF Marking, B!At
<1>5. LocksCounted
  BY <1>4, FS_EmptySet DEF B!Init, LocksCounted, Counted
<1> QED
  BY <1>2, <1>3, <1>5 DEF BazaarInv, B!Init, B!HistoryCounts

\* The kinds of a request by what it waits for.
LEMMA ClientKinds ==
    ASSUME BazaarInv, NEW c \in Requests
    PROVE  /\ B!At(c, "read") => client[c] \in Reading
           /\ B!At(c, "add") => client[c] \in Adding
           /\ B!At(c, "insert") \/ B!At(c, "lock") \/ B!At(c, "mark") => client[c] \in Working
<1>1. client[c] \in Reading \cup Adding \cup Working \cup {B!Idle}
  BY DEF BazaarInv, BazaarTypeOK, ClientStates
<1>2. /\ client[c] \in Reading => client[c].pc = "read"
      /\ client[c] \in Adding => client[c].pc = "add"
      /\ client[c] \in Working => client[c].pc \in {"insert", "lock", "mark"}
      /\ client[c] = B!Idle => client[c].pc = "idle"
  BY DEF Reading, Adding, Working, B!Idle
<1> QED
  BY <1>1, <1>2 DEF B!At

\* A request that becomes something of its kind, and who locks and marks then.
LEMMA ClientBecomes ==
    ASSUME BazaarInv, NEW c \in Requests, NEW state \in ClientStates, B!Become(c, state)
    PROVE  /\ client' \in [Requests -> ClientStates]
           /\ client'[c] = state
           /\ \A d \in Requests : d # c => client'[d] = client[d]
           /\ \A i \in Intents :
                /\ Locking(i)' = IF state.pc = "lock" /\ state.id = i
                                 THEN Locking(i) \cup {c} ELSE Locking(i) \ {c}
                /\ Marking(i)' = IF state.pc = "mark" /\ state.id = i
                                 THEN Marking(i) \cup {c} ELSE Marking(i) \ {c}
<1>1. /\ client' \in [Requests -> ClientStates]
      /\ client'[c] = state
      /\ \A d \in Requests : d # c => client'[d] = client[d]
  BY DEF BazaarInv, BazaarTypeOK, B!Become
<1>2. ASSUME NEW i \in Intents
      PROVE  /\ Locking(i)' = IF state.pc = "lock" /\ state.id = i
                              THEN Locking(i) \cup {c} ELSE Locking(i) \ {c}
             /\ Marking(i)' = IF state.pc = "mark" /\ state.id = i
                              THEN Marking(i) \cup {c} ELSE Marking(i) \ {c}
  BY <1>1 DEF Locking, Marking, B!At
<1> QED
  BY <1>1, <1>2

\* A step of a request that is not about a lock or a mark, before or after it.
LEMMA NoLockStep ==
    ASSUME BazaarInv, NEW c \in Requests, NEW state \in ClientStates, B!Become(c, state),
           ~ B!At(c, "lock"), ~ B!At(c, "mark"), state.pc \notin {"lock", "mark"},
           UNCHANGED <<locked, unmarked>>,
           \A i \in Intents : intent'[i] = "negotiating" <=> intent[i] = "negotiating"
    PROVE  LocksCounted'
<1>1. \A i \in Intents : c \notin Locking(i) /\ c \notin Marking(i)
  BY DEF Locking, Marking
<1>2. \A i \in Intents : /\ Locking(i)' = Locking(i) \ {c}
                         /\ Marking(i)' = Marking(i) \ {c}
  BY ClientBecomes
<1>3. \A i \in Intents : Locking(i)' = Locking(i) /\ Marking(i)' = Marking(i)
  BY <1>1, <1>2
<1> QED
  BY <1>3 DEF BazaarInv, LocksCounted, Counted

\* A step that leaves the history alone, of a request that has not read it.
LEMMA NoHistoryStep ==
    ASSUME BazaarInv, NEW c \in Requests, NEW state \in ClientStates, B!Become(c, state),
           state.pc # "add", UNCHANGED <<history, done, overlapped>>
    PROVE  OldBelow' /\ B!HistoryCounts'
<1>1. OldBelow'
  BY ClientBecomes DEF BazaarInv, OldBelow, B!At
<1> QED
  BY <1>1 DEF BazaarInv, B!HistoryCounts

\* A step of a request that does not start an insert.
LEMMA NoInsertStep ==
    ASSUME BazaarInv, NEW c \in Requests, NEW state \in ClientStates, B!Become(c, state),
           Inserter(c)' => Inserter(c) /\ state.id = client[c].id,
           \A i \in Intents : intent'[i] = "absent" <=> intent[i] = "absent",
           state.pc \in {"lock", "mark"} =>
               state.id \in Intents /\ intent[state.id] # "absent"
    PROVE  InsertsApart'
<1>1. \A d \in Requests : Inserter(d)' => Inserter(d) /\ client'[d].id = client[d].id
  BY ClientBecomes DEF Inserter, B!At
<1>2. \A d \in Requests : Inserter(d) \/ Accepting(d) => client[d].id \in Intents
  BY ClientKinds DEF Inserter, Accepting, Reading, Adding, Working
<1>3. /\ client'[c] = state
      /\ \A d \in Requests : d # c => client'[d] = client[d]
  BY ClientBecomes
<1>4. ASSUME NEW d \in Requests, Accepting(d)' PROVE intent'[client'[d].id] # "absent"
  BY <1>2, <1>3, <1>4 DEF BazaarInv, InsertsApart, Accepting, B!At
<1> QED
  BY <1>1, <1>2, <1>4 DEF BazaarInv, InsertsApart

\* A request that locks, marks, fails there or gets to its lock, counted.
LEMMA LockSteps ==
    ASSUME BazaarInv, NEW c \in Requests,
           \/ B!LockAtomicSwap(c) \/ B!Mark(c)
           \/ (B!At(c, "lock") \/ B!At(c, "mark")) /\ B!Fails(c)
           \/ \E i \in Intents : B!Accept(c, i)
    PROVE  LocksCounted'
<1> SUFFICES ASSUME NEW i \in Intents PROVE Counted(i)'
  BY DEF LocksCounted
<1>1. /\ Counted(i) /\ client \in [Requests -> ClientStates]
      /\ locked \in [Intents -> Nat] /\ unmarked \in [Intents -> Nat]
      /\ intent \in [Intents -> {"absent", "active", "negotiating"}]
  BY DEF BazaarInv, BazaarTypeOK, LocksCounted
<1>2. /\ Locking(i) \in SUBSET Requests /\ Marking(i) \in SUBSET Requests
      /\ Locking(i) \cap Marking(i) = {}
  BY DEF Locking, Marking, B!At
<1>3. /\ Cardinality(Locking(i)) \in Nat /\ Cardinality(Marking(i)) \in Nat
      /\ Cardinality(Requests) \in Nat
      /\ Cardinality(Locking(i)) + Cardinality(Marking(i)) <= Cardinality(Requests)
  BY <1>2, CountRequests
<1>4. /\ c \in Locking(i) <=> B!At(c, "lock") /\ client[c].id = i
      /\ c \in Marking(i) <=> B!At(c, "mark") /\ client[c].id = i
  BY DEF Locking, Marking
<1>5. B!At(c, "lock") \/ B!At(c, "mark") => client[c].id \in Intents
  BY ClientKinds DEF Working
<1>6. /\ c \in Locking(i) => Cardinality(Locking(i) \ {c}) = Cardinality(Locking(i)) - 1
      /\ c \notin Locking(i) => Cardinality(Locking(i) \ {c}) = Cardinality(Locking(i))
      /\ c \in Marking(i) => Cardinality(Marking(i) \ {c}) = Cardinality(Marking(i)) - 1
      /\ c \notin Marking(i) => Cardinality(Marking(i) \ {c}) = Cardinality(Marking(i))
      /\ c \notin Marking(i) => Cardinality(Marking(i) \cup {c}) = Cardinality(Marking(i)) + 1
      /\ c \notin Locking(i) => Cardinality(Locking(i) \cup {c}) = Cardinality(Locking(i)) + 1
  BY <1>2, CountRequests
<1>7. CASE B!LockAtomicSwap(c)
  <2> DEFINE state == [pc |-> "mark", id |-> client[c].id]
  <2>1. state \in ClientStates /\ B!Become(c, state)
    BY <1>5, <1>7 DEF B!LockAtomicSwap, ClientStates, Working
  <2>2. /\ Locking(i)' = Locking(i) \ {c}
        /\ Marking(i)' = IF client[c].id = i THEN Marking(i) \cup {c} ELSE Marking(i) \ {c}
    BY <2>1, ClientBecomes
  <2>3. /\ B!At(c, "lock") /\ ~ B!At(c, "mark")
        /\ locked'[i] = IF client[c].id = i THEN locked[i] + 1 ELSE locked[i]
        /\ UNCHANGED <<intent, unmarked>>
    BY <1>1, <1>7 DEF B!LockAtomicSwap, B!At
  <2> QED
    BY <1>1, <1>3, <1>4, <1>6, <2>2, <2>3 DEF Counted
<1>8. CASE B!Mark(c)
  <2> DEFINE state == [pc |-> "read", id |-> client[c].id, adds |-> [completed |-> 1],
                       next |-> "done"]
  <2>1. state \in ClientStates /\ B!Become(c, state)
    BY <1>5, <1>8 DEF B!Mark, B!Upsert, ClientStates, Reading, Adds
  <2>2. Locking(i)' = Locking(i) \ {c} /\ Marking(i)' = Marking(i) \ {c}
    BY <2>1, ClientBecomes
  <2>3. /\ B!At(c, "mark") /\ ~ B!At(c, "lock")
        /\ intent'[i] = IF client[c].id = i THEN "negotiating" ELSE intent[i]
        /\ UNCHANGED <<locked, unmarked>>
    BY <1>1, <1>8 DEF B!Mark, B!At
  <2> QED
    BY <1>1, <1>3, <1>4, <1>6, <2>2, <2>3 DEF Counted
<1>9. CASE (B!At(c, "lock") \/ B!At(c, "mark")) /\ B!Fails(c)
  <2>1. B!Idle \in ClientStates /\ B!Become(c, B!Idle) /\ B!Idle.pc = "idle"
    BY <1>9 DEF B!Fails, ClientStates, B!Idle
  <2>2. Locking(i)' = Locking(i) \ {c} /\ Marking(i)' = Marking(i) \ {c}
    BY <2>1, ClientBecomes
  <2>3. /\ unmarked'[i] = IF B!At(c, "mark") /\ client[c].id = i
                          THEN unmarked[i] + 1 ELSE unmarked[i]
        /\ UNCHANGED <<locked, intent>>
    BY <1>1, <1>9 DEF B!Fails
  <2> QED
    BY <1>1, <1>3, <1>4, <1>6, <2>2, <2>3 DEF Counted
<1>10. ASSUME NEW j \in Intents, B!Accept(c, j) PROVE Counted(i)'
  <2> DEFINE state == [pc |-> "lock", id |-> j]
  <2>1. state \in ClientStates /\ B!Become(c, state)
    BY <1>10 DEF B!Accept, ClientStates, Working
  <2>2. /\ Marking(i)' = Marking(i) \ {c}
        /\ j # i => Locking(i)' = Locking(i) \ {c}
    BY <2>1, ClientBecomes
  <2>3. ~ B!At(c, "lock") /\ ~ B!At(c, "mark") /\ intent[j] = "active"
        /\ UNCHANGED <<locked, intent, unmarked>>
    BY <1>10 DEF B!Accept, B!At
  <2> QED
    BY <1>1, <1>3, <1>4, <1>6, <2>2, <2>3 DEF Counted
<1> QED
  BY <1>7, <1>8, <1>9, <1>10

\* Each kind of addition, and what it adds to which columns.
LEMMA AddsCount ==
    ASSUME NEW adds \in Adds
    PROVE  DOMAIN adds \subseteq B!Columns /\ \A k \in DOMAIN adds : adds[k] \in Nat
<1>1. DOMAIN [broadcasts |-> 1] = {"broadcasts"} /\ DOMAIN [completed |-> 1] = {"completed"}
  OBVIOUS
<1> QED
  BY <1>1 DEF Adds, B!Columns

\* A request whose addition is over ends, or goes on with its insert.
LEMMA AfterAdding ==
    ASSUME BazaarInv, NEW c \in Requests, B!AddHistory(c)
    PROVE  \E state \in ClientStates :
              /\ B!Become(c, state)
              /\ state.pc \in {"idle", "insert"}
              /\ state.pc = "insert" => client[c].next = "insert" /\ state.id = client[c].id
<1>1. client[c] \in Adding
  BY ClientKinds DEF B!AddHistory
<1>2. CASE client[c].next = "done"
  <2>1. B!Idle \in ClientStates /\ B!Idle.pc = "idle" /\ B!Become(c, B!Idle)
    BY <1>2 DEF B!AddHistory, B!Idle, ClientStates
  <2> QED
    BY <2>1
<1>3. CASE client[c].next = "insert"
  <2> DEFINE state == [pc |-> "insert", id |-> client[c].id]
  <2>1. state \in ClientStates
    BY <1>1 DEF Adding, Working, ClientStates
  <2>2. B!Become(c, state)
    BY <1>3 DEF B!AddHistory
  <2> QED
    BY <1>3, <2>1, <2>2
<1> QED
  BY <1>1, <1>2, <1>3 DEF Adding

\* The counters after an addition, when the row was read before others wrote.
LEMMA HistoryAdded ==
    ASSUME BazaarInv, NEW c \in Requests, B!AddHistory(c)
    PROVE  /\ history' \in [B!Columns -> Nat] /\ done' \in [B!Columns -> Nat]
           /\ OldBelow' /\ B!HistoryCounts'
<1> DEFINE adds == client[c].adds
           old == client[c].old
<1>1. client[c] \in Adding
  BY ClientKinds DEF B!AddHistory
<1>2. adds \in Adds /\ old \in [B!Columns -> Nat] /\ \A k \in B!Columns : old[k] <= done[k]
  BY <1>1 DEF Adding, BazaarInv, OldBelow, B!AddHistory
<1>3. DOMAIN adds \subseteq B!Columns /\ \A k \in DOMAIN adds : adds[k] \in Nat
  BY <1>2, AddsCount
<1>4. history \in [B!Columns -> Nat] /\ done \in [B!Columns -> Nat]
      /\ client \in [Requests -> ClientStates]
  BY DEF BazaarInv, BazaarTypeOK
<1>5. /\ history' = [k \in B!Columns |-> IF k \in DOMAIN adds THEN old[k] + adds[k] ELSE history[k]]
      /\ done' = [k \in B!Columns |-> done[k] + IF k \in DOMAIN adds THEN adds[k] ELSE 0]
      /\ overlapped' = overlapped \cup {k \in DOMAIN adds : history[k] # old[k]}
  BY DEF B!AddHistory, B!Added
<1> HIDE DEF adds, old
<1>6. history' \in [B!Columns -> Nat] /\ done' \in [B!Columns -> Nat]
  BY <1>2, <1>3, <1>4, <1>5
<1>7. ASSUME NEW k \in B!Columns
      PROVE  /\ done[k] <= done'[k] /\ history'[k] <= done'[k]
             /\ k \notin overlapped' => history'[k] = done'[k]
  <2>1. history[k] <= done[k] /\ (k \notin overlapped => history[k] = done[k])
    BY DEF BazaarInv, B!HistoryCounts
  <2>2. /\ history'[k] = IF k \in DOMAIN adds THEN old[k] + adds[k] ELSE history[k]
        /\ done'[k] = done[k] + IF k \in DOMAIN adds THEN adds[k] ELSE 0
    BY <1>5
  <2> QED
    BY <1>2, <1>3, <1>4, <1>5, <2>1, <2>2
<1>8. client'[c].pc # "add"
  BY AfterAdding, ClientBecomes
<1>9. \A d \in Requests : d # c => client'[d] = client[d]
  BY <1>4 DEF B!AddHistory, B!Become
<1>10. \A d \in Requests : B!At(d, "add") => client[d].old \in [B!Columns -> Nat]
  BY ClientKinds DEF Adding
<1>11. OldBelow'
  BY <1>4, <1>6, <1>7, <1>8, <1>9, <1>10 DEF BazaarInv, OldBelow, B!At
<1> QED
  BY <1>6, <1>7, <1>11 DEF B!HistoryCounts

\* Every step of the handlers keeps the invariant.
LEMMA BazaarStep == BazaarInv /\ [B!Next]_bazaarVars => BazaarInv'
<1> SUFFICES ASSUME BazaarInv, [B!Next]_bazaarVars PROVE BazaarInv'
  OBVIOUS
<1>1. BazaarTypeOK
  BY DEF BazaarInv
<1>2. B!Idle \in ClientStates /\ B!Idle.pc = "idle"
  BY DEF B!Idle, ClientStates
<1>3. ASSUME NEW c \in Requests, B!ReadHistory(c) PROVE BazaarInv'
  <2> DEFINE state == [pc |-> "add", id |-> client[c].id, adds |-> client[c].adds,
                       next |-> client[c].next, known |-> known, old |-> history]
  <2>1. client[c] \in Reading /\ B!At(c, "read")
    BY <1>3, ClientKinds DEF B!ReadHistory
  <2>2. /\ state \in ClientStates /\ B!Become(c, state) /\ state.pc = "add"
        /\ state.id = client[c].id /\ state.next = client[c].next /\ state.old = history
    BY <1>1, <1>3, <2>1 DEF B!ReadHistory, Reading, Adding, ClientStates, BazaarTypeOK
  <2> HIDE DEF state
  <2>3. UNCHANGED <<intent, locked, unmarked, known, history, done, overlapped>>
    BY <1>3 DEF B!ReadHistory
  <2>4. BazaarTypeOK'
    BY <1>1, <2>2, <2>3, ClientBecomes DEF BazaarTypeOK
  <2>5. LocksCounted'
    BY <2>1, <2>2, <2>3, NoLockStep DEF B!At
  <2>6. InsertsApart'
    BY <2>1, <2>2, <2>3, ClientBecomes, NoInsertStep DEF Inserter, B!At
  <2>7. B!HistoryCounts'
    BY <2>3 DEF BazaarInv, B!HistoryCounts
  <2>8. OldBelow'
    BY <2>2, <2>3, ClientBecomes DEF BazaarInv, OldBelow, B!At, B!HistoryCounts
  <2> QED
    BY <2>4, <2>5, <2>6, <2>7, <2>8 DEF BazaarInv
<1>4. ASSUME NEW c \in Requests, B!AddHistory(c) PROVE BazaarInv'
  <2>1. PICK state \in ClientStates :
              /\ B!Become(c, state)
              /\ state.pc \in {"idle", "insert"}
              /\ state.pc = "insert" => client[c].next = "insert" /\ state.id = client[c].id
    BY <1>4, AfterAdding
  <2>2. UNCHANGED <<intent, locked, unmarked>> /\ known' = TRUE /\ B!At(c, "add")
    BY <1>4 DEF B!AddHistory
  <2>3. BazaarTypeOK'
    BY <1>1, <1>4, <2>1, <2>2, ClientBecomes, HistoryAdded DEF BazaarTypeOK
  <2>4. LocksCounted'
    BY <2>1, <2>2, NoLockStep DEF B!At
  <2>5. InsertsApart'
    BY <2>1, <2>2, ClientBecomes, NoInsertStep DEF Inserter, B!At
  <2> QED
    BY <1>4, <2>3, <2>4, <2>5, HistoryAdded DEF BazaarInv
<1>5. ASSUME NEW c \in Requests, B!CreateIntent(c) PROVE BazaarInv'
  <2>1. client[c].id \in Intents /\ B!At(c, "insert")
    BY <1>5, ClientKinds DEF B!CreateIntent, Working
  <2>2. /\ intent' = [intent EXCEPT ![client[c].id] = "active"]
        /\ intent[client[c].id] = "absent"
        /\ B!Become(c, B!Idle)
        /\ UNCHANGED <<locked, unmarked, known, history, done, overlapped>>
    BY <1>5 DEF B!CreateIntent, BazaarInv, InsertsApart, Inserter
  <2>3. BazaarTypeOK'
    BY <1>1, <1>2, <2>1, <2>2, ClientBecomes DEF BazaarTypeOK
  <2>4. LocksCounted'
    <3>1. \A i \in Intents : intent'[i] = "negotiating" <=> intent[i] = "negotiating"
      BY <1>1, <2>1, <2>2 DEF BazaarTypeOK
    <3> QED
      BY <1>2, <2>1, <2>2, <3>1, NoLockStep DEF B!At
  <2>5. InsertsApart'
    <3>1. Inserter(c) /\ ~ Inserter(c)'
      BY <1>2, <2>1, <2>2, ClientBecomes DEF Inserter, B!At
    <3>2. \A d \in Requests : d # c => client'[d] = client[d]
      BY <1>2, <2>2, ClientBecomes
    <3>3. \A d \in Requests : Inserter(d)' => d # c /\ Inserter(d) /\ client'[d].id = client[d].id
      BY <3>1, <3>2 DEF Inserter, B!At
    <3>4. \A d \in Requests : Inserter(d) \/ Accepting(d) => client[d].id \in Intents
      BY ClientKinds DEF Inserter, Accepting, Reading, Adding, Working
    <3>5. \A d \in Requests : Accepting(d)' => Accepting(d) /\ client'[d].id = client[d].id
      BY <1>2, <2>2, <3>2, ClientBecomes DEF Accepting, B!At
    <3>6. \A i \in Intents : intent[i] # "absent" => intent'[i] # "absent"
      BY <1>1, <2>1, <2>2 DEF BazaarTypeOK
    <3>7. \A i \in Intents : i # client[c].id => intent'[i] = intent[i]
      BY <1>1, <2>1, <2>2 DEF BazaarTypeOK
    <3>8. \A d \in Requests : Inserter(d)' => client'[d].id # client[c].id
      BY <3>1, <3>3 DEF BazaarInv, InsertsApart
    <3> QED
      BY <3>3, <3>4, <3>5, <3>6, <3>7, <3>8 DEF BazaarInv, InsertsApart
  <2> QED
    BY <1>2, <2>2, <2>3, <2>4, <2>5, NoHistoryStep DEF BazaarInv
<1>6. ASSUME NEW c \in Requests, NEW i \in Intents, NEW adds \in Adds,
             NEW next \in {"insert", "done"},
             B!At(c, "idle"), B!Upsert(c, i, adds, next),
             UNCHANGED <<intent, locked, unmarked, known, history, done, overlapped>>,
             next = "insert" => /\ intent[i] = "absent"
                                /\ \A d \in Requests : ~ B!At(d, "idle") => client[d].id # i
      PROVE  BazaarInv'
  <2> DEFINE state == [pc |-> "read", id |-> i, adds |-> adds, next |-> next]
  <2>1. state \in ClientStates /\ B!Become(c, state)
    BY <1>6 DEF B!Upsert, ClientStates, Reading
  <2>2. BazaarTypeOK'
    BY <1>1, <1>6, <2>1, ClientBecomes DEF BazaarTypeOK
  <2>3. LocksCounted'
    BY <1>6, <2>1, NoLockStep DEF B!At
  <2>4. OldBelow' /\ B!HistoryCounts'
    BY <1>6, <2>1, NoHistoryStep
  <2>5. InsertsApart'
    <3>1. client'[c] = state /\ \A d \in Requests : d # c => client'[d] = client[d]
      BY <2>1, ClientBecomes
    <3>2. \A d \in Requests : Inserter(d) => ~ B!At(d, "idle")
      BY DEF Inserter, B!At
    <3>3. \A d \in Requests \ {c} : Inserter(d)' => Inserter(d) /\ client'[d].id = client[d].id
      BY <3>1 DEF Inserter, B!At
    <3>4. Inserter(c)' => next = "insert" /\ client'[c].id = i
      BY <3>1 DEF Inserter, B!At
    <3>5. \A d \in Requests : Accepting(d)' => Accepting(d) /\ client'[d].id = client[d].id
      BY <3>1 DEF Accepting, B!At
    <3> QED
      BY <1>6, <3>1, <3>2, <3>3, <3>4, <3>5 DEF BazaarInv, InsertsApart
  <2> QED
    BY <2>2, <2>3, <2>4, <2>5 DEF BazaarInv
<1>7. ASSUME NEW c \in Requests, NEW i \in Intents, B!Broadcast(c, i) PROVE BazaarInv'
  <2>1. [broadcasts |-> 1] \in Adds
    BY DEF Adds
  <2> QED
    BY <1>6, <1>7, <2>1 DEF B!Broadcast
<1>8. ASSUME NEW c \in Requests, NEW i \in Intents, B!Reputation(c, i) PROVE BazaarInv'
  <2>1. [k \in B!Columns |-> 0] \in Adds
    BY DEF Adds
  <2> QED
    BY <1>6, <1>8, <2>1 DEF B!Reputation
<1>9. ASSUME NEW c \in Requests, NEW state \in ClientStates, B!Become(c, state),
             state.pc # "add", ~ Inserter(c)', LocksCounted',
             locked' \in [Intents -> Nat], unmarked' \in [Intents -> Nat],
             intent' \in [Intents -> {"absent", "active", "negotiating"}],
             \A i \in Intents : intent'[i] = "absent" <=> intent[i] = "absent",
             state.pc \in {"lock", "mark"} =>
                 state.id \in Intents /\ intent[state.id] # "absent",
             UNCHANGED <<known, history, done, overlapped>>
      PROVE  BazaarInv'
  <2>1. BazaarTypeOK'
    BY <1>1, <1>9, ClientBecomes DEF BazaarTypeOK
  <2>2. InsertsApart'
    BY <1>9, NoInsertStep
  <2> QED
    BY <1>9, <2>1, <2>2, NoHistoryStep DEF BazaarInv
<1>10. ASSUME NEW c \in Requests, NEW i \in Intents, B!Accept(c, i) PROVE BazaarInv'
  <2> DEFINE state == [pc |-> "lock", id |-> i]
  <2>1. state \in ClientStates /\ B!Become(c, state)
    BY <1>10 DEF B!Accept, ClientStates, Working
  <2>2. LocksCounted' /\ ~ Inserter(c)'
    BY <1>10, <2>1, LockSteps, ClientBecomes DEF Inserter, B!At
  <2> QED
    BY <1>1, <1>9, <1>10, <2>1, <2>2 DEF B!Accept, BazaarTypeOK
<1>11. ASSUME NEW c \in Requests, B!LockAtomicSwap(c) PROVE BazaarInv'
  <2> DEFINE state == [pc |-> "mark", id |-> client[c].id]
  <2>1. client[c].id \in Intents
    BY <1>11, ClientKinds DEF B!LockAtomicSwap, Working
  <2>2. state \in ClientStates /\ B!Become(c, state)
    BY <1>11, <2>1 DEF B!LockAtomicSwap, ClientStates, Working
  <2>3. LocksCounted' /\ ~ Inserter(c)'
    BY <1>11, <2>2, LockSteps, ClientBecomes DEF Inserter, B!At
  <2>4. /\ locked' \in [Intents -> Nat] /\ intent[client[c].id] # "absent"
        /\ UNCHANGED <<intent, unmarked, known, history, done, overlapped>>
    BY <1>1, <1>11, <2>1 DEF B!LockAtomicSwap, BazaarTypeOK, BazaarInv, InsertsApart, Accepting
  <2> QED
    BY <1>1, <1>9, <2>1, <2>2, <2>3, <2>4 DEF BazaarTypeOK
<1>12. ASSUME NEW c \in Requests, B!Mark(c) PROVE BazaarInv'
  <2> DEFINE state == [pc |-> "read", id |-> client[c].id, adds |-> [completed |-> 1],
                       next |-> "done"]
  <2>1. client[c].id \in Intents
    BY <1>12, ClientKinds DEF B!Mark, Working
  <2>2. state \in ClientStates /\ B!Become(c, state)
    BY <1>12, <2>1 DEF B!Mark, B!Upsert, ClientStates, Reading, Adds
  <2>3. LocksCounted' /\ ~ Inserter(c)'
    BY <1>12, <2>2, LockSteps, ClientBecomes DEF Inserter, B!At
  <2>4. intent[client[c].id] # "absent"
    BY <1>12 DEF BazaarInv, InsertsApart, Accepting, B!Mark
  <2>5. /\ intent' \in [Intents -> {"absent", "active", "negotiating"}]
        /\ \A i \in Intents : intent'[i] = "absent" <=> intent[i] = "absent"
        /\ UNCHANGED <<locked, unmarked, known, history, done, overlapped>>
    BY <1>1, <1>12, <2>1, <2>4 DEF B!Mark, BazaarTypeOK
  <2> QED
    BY <1>1, <1>9, <2>2, <2>3, <2>5 DEF BazaarTypeOK
<1>13. ASSUME NEW c \in Requests, B!Fails(c) PROVE BazaarInv'
  <2>1. B!Become(c, B!Idle) /\ UNCHANGED <<intent, locked, known, history, done, overlapped>>
    BY <1>13 DEF B!Fails
  <2>2. ~ Inserter(c)'
    BY <1>2, <2>1, ClientBecomes DEF Inserter, B!At
  <2>3. LocksCounted'
    <3>1. CASE B!At(c, "lock") \/ B!At(c, "mark")
      BY <1>13, <3>1, LockSteps
    <3>2. CASE ~ B!At(c, "lock") /\ ~ B!At(c, "mark")
      BY <1>2, <1>13, <2>1, <3>2, NoLockStep DEF B!Fails
    <3> QED
      BY <3>1, <3>2
  <2>4. unmarked' \in [Intents -> Nat]
    <3>1. B!At(c, "mark") => client[c].id \in Intents
      BY ClientKinds DEF Working
    <3> QED
      BY <1>1, <1>13, <3>1 DEF B!Fails, BazaarTypeOK
  <2> QED
    BY <1>1, <1>2, <1>9, <2>1, <2>2, <2>3, <2>4 DEF BazaarTypeOK
<1>14. CASE UNCHANGED bazaarVars
  <2>1. BazaarTypeOK' /\ OldBelow' /\ B!HistoryCounts'
    BY <1>14 DEF bazaarVars, BazaarInv, BazaarTypeOK, OldBelow, B!At, B!HistoryCounts
  <2>2. InsertsApart'
    BY <1>14 DEF bazaarVars, BazaarInv, InsertsApart, Inserter, Accepting, B!At
  <2>3. LocksCounted'
    BY <1>14 DEF bazaarVars, BazaarInv, LocksCounted, Counted, Locking, Marking, B!At
  <2> QED
    BY <2>1, <2>2, <2>3 DEF BazaarInv
<1> QED
  BY <1>3, <1>4, <1>5, <1>7, <1>8, <1>10, <1>11, <1>12, <1>13, <1>14 DEF B!Next

\* What the handlers know, and the locks counted, in every reachable state.
LEMMA BazaarHolds == Spec => []BazaarInv
<1>1. Init => BazaarInv
  BY BazaarInit DEF Init
<1>2. BazaarInv /\ [Next]_vars => BazaarInv'
  BY BazaarStep, AgentParts
<1> QED
  BY <1>1, <1>2, PTL DEF Spec

\* The bazaar counts its requests as this module does.
LEMMA SameCount == B!Cardinality(Requests) = Cardinality(Requests)
BY DEF B!Cardinality, Cardinality

\* An intent is locked again by requests that overlapped the first, or after a
\* lock that could not be recorded, whatever the number of requests and intents.
THEOREM LocksBoundedHolds == Spec => []LocksBounded
<1>1. BazaarInv => LocksBounded
  <2> SUFFICES ASSUME BazaarInv, NEW i \in Intents
               PROVE  locked[i] <= Cardinality(Requests) + unmarked[i]
    BY SameCount DEF LocksBounded, B!LocksBounded
  <2>1. Counted(i) /\ locked[i] \in Nat /\ unmarked[i] \in Nat
    BY DEF BazaarInv, BazaarTypeOK, LocksCounted
  <2>2. Locking(i) \in SUBSET Requests /\ Marking(i) \in SUBSET Requests
        /\ Locking(i) \cap Marking(i) = {}
    BY DEF Locking, Marking, B!At
  <2>3. /\ Cardinality(Locking(i)) \in Nat /\ Cardinality(Marking(i)) \in Nat
        /\ Cardinality(Requests) \in Nat
        /\ Cardinality(Locking(i)) + Cardinality(Marking(i)) <= Cardinality(Requests)
    BY <2>2, CountRequests
  <2> QED
    BY <2>1, <2>3 DEF Counted
<1> QED
  BY <1>1, BazaarHolds, PTL

\* A history counts no more than happened, and misses only what overlapping
\* requests wrote over.
THEOREM HistoryCountsHolds == Spec => []HistoryCounts
<1>1. BazaarInv => HistoryCounts
  BY DEF BazaarInv, HistoryCounts
<1> QED
  BY <1>1, BazaarHolds, PTL
=============================================================================
