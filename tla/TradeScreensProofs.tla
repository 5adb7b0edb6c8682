------------------------ MODULE TradeScreensProofs -------------------------
(* Proofs about the screens of a trade, for any number of lock attempts,   *)
(* fetches and codes.                                                       *)
EXTENDS TradeScreens, TLAPS

Statuses == {"none", "pending", "locked", "revealing", "completed", "cancelled",
             "refunded"}

Rows == [status : Statuses, lockTx : BOOLEAN, releaseTx : BOOLEAN, secret : BOOLEAN]

Views == [status : Statuses, refundable : BOOLEAN]

Chains == {"none", "locked", "released", "refunded", "resolved"}

\* The escrow is empty, and not by a refund of a participant or of the sweep.
Settled == chain \in {"released", "resolved"}

ActiveRuns ==
    [pc : {"trustline", "prepare", "lock", "submit", "record", "reveal", "secret"},
     on : {"qr", "trade"}, client : {"here", "gone", "lost"}]

ActiveFetches == [pc : {"sent"}] \cup [pc : {"answered"}, view : Views]

TypeOK ==
    /\ row \in Rows
    /\ chain \in Chains
    /\ run \in [Runs -> ActiveRuns \cup {Idle}]
    /\ fetch \in [Fetches -> ActiveFetches \cup {Idle}]
    /\ qr \in [open : BOOLEAN, qrPayload : Codes \cup {NoCode}, error : BOOLEAN,
               confirm : {"idle", "confirming", "failed"}, success : BOOLEAN]
    /\ detail \in [open : BOOLEAN, shown : Views, error : BOOLEAN]

\* Only what the contract locked is recorded as locked, and only what it released,
\* or an admin closed, is ever written as completed.
RowFollowsLock ==
    /\ row.lockTx => chain # "none"
    /\ row.status = "completed" => Settled

\* Whoever has the transaction of a lock and has not recorded it is alone.
OneLock ==
    /\ \A r \in Runs : At(r, "record") => ~ row.lockTx /\ chain # "none"
    /\ \A r, s \in Runs : At(r, "record") /\ At(s, "record") => r = s

\* An answer under way was true when it was given.
AnswersTrue ==
    \A f \in Fetches :
        (fetch[f].pc = "answered" /\ fetch[f].view.status = "completed") => Settled

Inv == TypeOK /\ RowFollowsLock /\ OneLock /\ AnswersTrue /\ SuccessIsReal

\* A trade that was just created satisfies the invariant.
LEMMA InvInit == Init => Inv
<1> SUFFICES ASSUME Init PROVE Inv
  OBVIOUS
<1>1. row = [status |-> "pending", lockTx |-> FALSE, releaseTx |-> FALSE, secret |-> TRUE]
  BY DEF Init
<1>2. NoView \in Views /\ NoView.status = "none"
  BY DEF NoView, Views, Statuses
<1>3. /\ chain = "none" /\ qr = Closed
      /\ run = [r \in Runs |-> Idle] /\ fetch = [f \in Fetches |-> Idle]
      /\ detail = [open |-> FALSE, shown |-> NoView, error |-> FALSE]
  BY DEF Init
<1>4. TypeOK
  <2>1. row \in Rows
    BY <1>1 DEF Rows, Statuses
  <2>2. qr \in [open : BOOLEAN, qrPayload : Codes \cup {NoCode}, error : BOOLEAN,
                confirm : {"idle", "confirming", "failed"}, success : BOOLEAN]
    BY <1>3 DEF Closed
  <2> QED
    BY <1>2, <1>3, <2>1, <2>2 DEF TypeOK, Chains
<1>5. RowFollowsLock
  BY <1>1 DEF RowFollowsLock
<1>6. OneLock /\ AnswersTrue
  BY <1>3 DEF OneLock, AnswersTrue, At, Idle
<1>7. SuccessIsReal
  BY <1>2, <1>3 DEF SuccessIsReal, Closed
<1> QED
  BY <1>4, <1>5, <1>6, <1>7 DEF Inv

\* Every step of an attempt to lock, and leaving its screen, keeps the attempts
\* well formed.
LEMMA RunTypes ==
    ASSUME TypeOK, NEW r \in Runs
    PROVE  /\ \A pc \in {"prepare", "lock", "submit", "record", "reveal", "secret"} :
                  Goto(r, pc) /\ run[r] # Idle => run' \in [Runs -> ActiveRuns \cup {Idle}]
           /\ run' = [run EXCEPT ![r] = Idle] => run' \in [Runs -> ActiveRuns \cup {Idle}]
           /\ \A screen \in {"qr", "trade"} :
                  Begin(r, screen) => run' \in [Runs -> ActiveRuns \cup {Idle}]
           /\ \A pc \in {"trustline", "prepare", "lock", "submit", "record", "reveal",
                         "secret"} : At(r, pc) => run[r] # Idle
<1>1. run \in [Runs -> ActiveRuns \cup {Idle}]
  BY DEF TypeOK
<1>2. ASSUME NEW pc \in {"prepare", "lock", "submit", "record", "reveal", "secret"},
             Goto(r, pc), run[r] # Idle
      PROVE  run' \in [Runs -> ActiveRuns \cup {Idle}]
  <2>1. run[r] \in ActiveRuns
    BY <1>1, <1>2
  <2>2. [run[r] EXCEPT !.pc = pc] \in ActiveRuns
    BY <2>1 DEF ActiveRuns
  <2> QED
    BY <1>1, <1>2, <2>2 DEF Goto
<1>3. ASSUME run' = [run EXCEPT ![r] = Idle]
      PROVE  run' \in [Runs -> ActiveRuns \cup {Idle}]
  BY <1>1, <1>3
<1>4. ASSUME NEW screen \in {"qr", "trade"}, Begin(r, screen)
      PROVE  run' \in [Runs -> ActiveRuns \cup {Idle}]
  <2>1. [pc |-> "trustline", on |-> screen, client |-> "here"] \in ActiveRuns
    BY DEF ActiveRuns
  <2> QED
    BY <1>1, <1>4, <2>1 DEF Begin
<1>5. ASSUME NEW pc \in {"trustline", "prepare", "lock", "submit", "record", "reveal",
                         "secret"}, At(r, pc)
      PROVE  run[r] # Idle
  BY <1>5 DEF At, Idle
<1> QED
  BY <1>2, <1>3, <1>4, <1>5

\* Leaving a screen keeps the attempts well formed and where they are.
LEMMA LeaveType ==
    ASSUME TypeOK, NEW screen, Leave(screen)
    PROVE  /\ run' \in [Runs -> ActiveRuns \cup {Idle}]
           /\ \A r \in Runs : run'[r].pc = run[r].pc
<1>1. run \in [Runs -> ActiveRuns \cup {Idle}]
  BY DEF TypeOK
<1>2. ASSUME NEW r \in Runs
      PROVE  run'[r] \in ActiveRuns \cup {Idle} /\ run'[r].pc = run[r].pc
  <2>1. CASE run[r] # Idle
    <3>1. run[r] \in ActiveRuns
      BY <1>1, <2>1
    <3>2. /\ [run[r] EXCEPT !.client = "gone"] \in ActiveRuns
          /\ [run[r] EXCEPT !.client = "gone"].pc = run[r].pc
      BY <3>1 DEF ActiveRuns
    <3> QED
      BY <3>1, <3>2 DEF Leave
  <2>2. CASE run[r] = Idle
    BY <2>2 DEF Leave
  <2> QED
    BY <2>1, <2>2
<1> QED
  BY <1>2 DEF Leave

\* What the operators that several actions share do to the screen, to the
\* attempts and to the fetches.
LEMMA ShownErrors ==
    ASSUME TypeOK, NEW r \in Runs, ShowError(r)
    PROVE  /\ qr' \in [open : BOOLEAN, qrPayload : Codes \cup {NoCode}, error : BOOLEAN,
                       confirm : {"idle", "confirming", "failed"}, success : BOOLEAN]
           /\ qr'.success = qr.success
  BY DEF TypeOK, ShowError

LEMMA Refreshed ==
    ASSUME TypeOK, Refresh
    PROVE  /\ fetch' \in [Fetches -> ActiveFetches \cup {Idle}]
           /\ \A f \in Fetches : fetch'[f].pc = "answered" => fetch'[f] = fetch[f]
<1>1. fetch \in [Fetches -> ActiveFetches \cup {Idle}]
  BY DEF TypeOK
<1>2. CASE UNCHANGED fetch
  BY <1>1, <1>2
<1>3. CASE \E f \in Fetches : fetch' = [fetch EXCEPT ![f] = [pc |-> "sent"]]
  <2>1. PICK f \in Fetches : fetch' = [fetch EXCEPT ![f] = [pc |-> "sent"]]
    BY <1>3
  <2>2. [pc |-> "sent"] \in ActiveFetches
    BY DEF ActiveFetches
  <2> QED
    BY <1>1, <2>1, <2>2
<1> QED
  BY <1>2, <1>3 DEF Refresh

\* What a step that keeps the row and the chain must not do: bring an attempt
\* to its record, or report a completion of its own.
Quiet ==
    /\ UNCHANGED <<row, chain>>
    /\ run' \in [Runs -> ActiveRuns \cup {Idle}]
    /\ \A r \in Runs : run'[r].pc = "record" => run[r].pc = "record"

\* What a step may newly report as completed is completed.
Honest ==
    /\ fetch' \in [Fetches -> ActiveFetches \cup {Idle}]
    /\ qr' \in [open : BOOLEAN, qrPayload : Codes \cup {NoCode}, error : BOOLEAN,
                confirm : {"idle", "confirming", "failed"}, success : BOOLEAN]
    /\ detail' \in [open : BOOLEAN, shown : Views, error : BOOLEAN]
    /\ qr'.success => qr.success \/ Settled'
    /\ detail'.shown.status = "completed" => detail.shown.status = "completed" \/ Settled
    /\ \A f \in Fetches :
           (fetch'[f].pc = "answered" /\ fetch'[f].view.status = "completed")
               => fetch'[f] = fetch[f] \/ Settled

\* Such a step keeps the invariant.
LEMMA QuietStep == ASSUME Inv, Quiet, Honest PROVE Inv'
<1>1. TypeOK'
  BY DEF Inv, TypeOK, Quiet, Honest
<1>2. RowFollowsLock'
  BY DEF Inv, RowFollowsLock, Quiet, Settled
<1>3. OneLock'
  BY DEF Inv, OneLock, Quiet, At
<1>4. AnswersTrue'
  BY DEF Inv, AnswersTrue, Quiet, Honest, Settled
<1>5. SuccessIsReal'
  BY DEF Inv, SuccessIsReal, Quiet, Honest, Settled
<1> QED
  BY <1>1, <1>2, <1>3, <1>4, <1>5 DEF Inv

\* A step that changes the row keeps the invariant if a settled escrow stays as it
\* is and the row still follows the lock.
LEMMA RowStep ==
    ASSUME Inv, Honest, RowFollowsLock', OneLock',
           row' \in Rows, chain' \in Chains,
           run' \in [Runs -> ActiveRuns \cup {Idle}],
           Settled => Settled'
    PROVE  Inv'
<1>1. TypeOK'
  BY DEF TypeOK, Honest
<1>2. AnswersTrue'
  BY DEF Inv, AnswersTrue, Honest
<1>3. SuccessIsReal'
  BY DEF Inv, SuccessIsReal, Honest, Settled
<1> QED
  BY <1>1, <1>2, <1>3 DEF Inv

\* A step that changes neither the fetches nor what the screens show.
LEMMA SameScreens ==
    ASSUME Inv, UNCHANGED <<detail, fetch>>,
           qr' \in [open : BOOLEAN, qrPayload : Codes \cup {NoCode}, error : BOOLEAN,
                    confirm : {"idle", "confirming", "failed"}, success : BOOLEAN],
           qr'.success => qr.success \/ Settled'
    PROVE  Honest
  BY DEF Inv, TypeOK, Honest

\* The attempts to lock, up to what they record.
LEMMA RunKeeps ==
    ASSUME Inv, NEW r \in Runs,
           \/ Trustline(r) \/ Prepare(r) \/ CheckLock(r) \/ GetSecret(r)
           \/ RevealFails(r) \/ RunFails(r)
    PROVE  Inv'
<1> DEFINE QRs == [open : BOOLEAN, qrPayload : Codes \cup {NoCode}, error : BOOLEAN,
                   confirm : {"idle", "confirming", "failed"}, success : BOOLEAN]
<1>1. TypeOK /\ qr \in QRs /\ run \in [Runs -> ActiveRuns \cup {Idle}]
  BY DEF Inv, TypeOK
<1>2. ASSUME NEW pc \in {"prepare", "lock", "submit", "secret"}, Goto(r, pc), run[r] # Idle,
             UNCHANGED <<row, chain>>
      PROVE  Quiet
  <2>1. run' \in [Runs -> ActiveRuns \cup {Idle}]
    BY <1>1, <1>2, RunTypes
  <2>2. \A s \in Runs : run'[s].pc = "record" => run[s].pc = "record"
    BY <1>1, <1>2 DEF Goto, ActiveRuns
  <2> QED
    BY <1>2, <2>1, <2>2 DEF Quiet
<1>3. ASSUME run' = [run EXCEPT ![r] = Idle], UNCHANGED <<row, chain>>
      PROVE  Quiet
  BY <1>1, <1>3 DEF Quiet, Idle
<1>4. ASSUME Refuse(r), UNCHANGED <<row, chain, detail, fetch>>
      PROVE  Inv'
  <2>1. Quiet
    BY <1>3, <1>4 DEF Refuse
  <2>2. qr' \in QRs /\ qr'.success = qr.success
    BY <1>1, <1>4, ShownErrors DEF Refuse
  <2> QED
    BY <2>1, <2>2, <1>4, SameScreens, QuietStep
<1>5. ASSUME NEW pc \in {"prepare", "lock", "submit", "secret"}, Goto(r, pc), run[r] # Idle,
             UNCHANGED <<row, chain, qr, detail, fetch>>
      PROVE  Inv'
  BY <1>1, <1>2, <1>5, SameScreens, QuietStep
<1>6. CASE Trustline(r)
  <2>1. run[r] # Idle
    BY <1>6, <1>1, RunTypes DEF Trustline
  <2> QED
    BY <1>5, <1>6, <2>1 DEF Trustline, trade
<1>7. CASE Prepare(r)
  <2>1. run[r] # Idle
    BY <1>7, <1>1, RunTypes DEF Prepare
  <2> QED
    BY <1>4, <1>5, <1>7, <2>1 DEF Prepare, trade
<1>8. CASE CheckLock(r)
  <2>1. run[r] # Idle
    BY <1>8, <1>1, RunTypes DEF CheckLock
  <2> QED
    BY <1>4, <1>5, <1>8, <2>1 DEF CheckLock, trade
<1>9. CASE GetSecret(r)
  <2>1. CASE Refuse(r)
    BY <1>4, <1>9, <2>1 DEF GetSecret, trade
  <2>2. CASE \E c \in Codes :
               /\ qr' = IF run[r].client = "here" THEN [qr EXCEPT !.qrPayload = c] ELSE qr
               /\ run' = [run EXCEPT ![r] = Idle]
    <3>1. PICK c \in Codes :
            /\ qr' = IF run[r].client = "here" THEN [qr EXCEPT !.qrPayload = c] ELSE qr
            /\ run' = [run EXCEPT ![r] = Idle]
      BY <2>2
    <3>2. qr' \in QRs /\ qr'.success = qr.success
      BY <1>1, <3>1
    <3>3. Quiet
      BY <1>3, <1>9, <3>1 DEF GetSecret, trade
    <3>4. UNCHANGED <<detail, fetch>>
      BY <1>9 DEF GetSecret
    <3> QED
      BY <3>2, <3>3, <3>4, SameScreens, QuietStep
  <2> QED
    BY <1>9, <2>1, <2>2 DEF GetSecret
<1>10. CASE RevealFails(r)
  <2>1. run[r] # Idle
    BY <1>10, <1>1, RunTypes DEF RevealFails
  <2> QED
    BY <1>5, <1>10, <2>1 DEF RevealFails, trade
<1>11. CASE RunFails(r)
  <2>1. run[r] \in ActiveRuns
    BY <1>1, <1>11 DEF RunFails
  <2>2. /\ [run[r] EXCEPT !.client = "lost"] \in ActiveRuns
        /\ [run[r] EXCEPT !.client = "lost"].pc = run[r].pc
    BY <2>1 DEF ActiveRuns
  <2>3. PICK v \in ActiveRuns \cup {Idle} :
            run' = [run EXCEPT ![r] = v] /\ (v = Idle \/ v.pc = run[r].pc)
    BY <1>11, <2>2 DEF RunFails
  <2>4. Quiet
    BY <1>1, <1>11, <2>3 DEF RunFails, Quiet, trade, Idle
  <2>5. qr' \in QRs /\ qr'.success = qr.success
    BY <1>1, <1>11, ShownErrors DEF RunFails
  <2>6. UNCHANGED <<detail, fetch>>
    BY <1>11 DEF RunFails
  <2> QED
    BY <2>4, <2>5, <2>6, SameScreens, QuietStep
<1> QED
  BY <1>6, <1>7, <1>8, <1>9, <1>10, <1>11

\* The transaction of the lock and the writes that follow it.
LEMMA LockKeeps ==
    ASSUME Inv, NEW r \in Runs, Submit(r) \/ Record(r) \/ Reveal(r)
    PROVE  Inv'
<1> DEFINE QRs == [open : BOOLEAN, qrPayload : Codes \cup {NoCode}, error : BOOLEAN,
                   confirm : {"idle", "confirming", "failed"}, success : BOOLEAN]
<1>1. /\ TypeOK /\ qr \in QRs /\ run \in [Runs -> ActiveRuns \cup {Idle}] /\ row \in Rows
      /\ chain \in Chains
  BY DEF Inv, TypeOK
<1>2. CASE Submit(r)
  <2>1. CASE Refuse(r) /\ UNCHANGED chain
    <3>1. Quiet
      BY <1>1, <1>2, <2>1 DEF Submit, Refuse, Quiet, Idle
    <3>2. qr' \in QRs /\ qr'.success = qr.success /\ UNCHANGED <<detail, fetch>>
      BY <1>1, <1>2, <2>1, ShownErrors DEF Submit, Refuse
    <3> QED
      BY <3>1, <3>2, SameScreens, QuietStep
  <2>2. CASE chain = "none" /\ chain' = "locked" /\ Goto(r, "record") /\ UNCHANGED qr
    <3>1. run[r] # Idle
      BY <1>1, <1>2, RunTypes DEF Submit
    <3>2. run' \in [Runs -> ActiveRuns \cup {Idle}]
      BY <1>1, <2>2, <3>1, RunTypes
    <3>3. \A s \in Runs : ~ At(s, "record")
      BY <2>2 DEF Inv, OneLock
    <3>4. \A s \in Runs : s # r => run'[s] = run[s]
      BY <1>1, <2>2 DEF Goto
    <3>5. row.lockTx = FALSE
      BY <1>1, <2>2 DEF Inv, RowFollowsLock, Rows
    <3>6. UNCHANGED <<row, detail, fetch>>
      BY <1>2 DEF Submit
    <3>7. OneLock'
      BY <2>2, <3>3, <3>4, <3>5, <3>6 DEF OneLock, At
    <3>8. RowFollowsLock' /\ ~ Settled
      BY <2>2, <3>5, <3>6 DEF Inv, RowFollowsLock, Settled
    <3>9. Honest
      BY <1>1, <2>2, <3>6, SameScreens
    <3> QED
      BY <1>1, <2>2, <3>2, <3>6, <3>7, <3>8, <3>9, RowStep DEF Chains
  <2> QED
    BY <1>2, <2>1, <2>2 DEF Submit
<1>3. CASE Record(r)
  <2>1. run[r] # Idle /\ row.lockTx = FALSE /\ chain # "none"
    BY <1>1, <1>3, RunTypes DEF Record, Inv, OneLock, Rows
  <2>2. \A s \in Runs : At(s, "record") => s = r
    BY <1>3 DEF Record, Inv, OneLock
  <2>3. row' \in Rows /\ row'.status = "locked" /\ row'.lockTx = TRUE /\ chain' = chain
    BY <1>1, <1>3 DEF Record, Rows, Statuses
  <2>4. run' \in [Runs -> ActiveRuns \cup {Idle}]
    BY <1>1, <1>3, <2>1, RunTypes DEF Record
  <2>5. \A s \in Runs : run'[s].pc # "record"
    <3>1. PICK v : run' = [run EXCEPT ![r] = v] /\ v.pc \in {"reveal", "idle"}
      <4>1. run[r] \in ActiveRuns
        BY <1>1, <2>1
      <4>2. [run[r] EXCEPT !.pc = "reveal"].pc = "reveal"
        BY <4>1 DEF ActiveRuns
      <4> QED
        BY <1>3, <4>2 DEF Record, Goto, Idle
    <3> QED
      BY <1>1, <2>2, <3>1 DEF At
  <2>6. Settled => Settled'
    BY <2>3 DEF Settled
  <2>7. RowFollowsLock' /\ OneLock'
    BY <2>1, <2>3, <2>5 DEF RowFollowsLock, OneLock, At
  <2>8. /\ fetch' \in [Fetches -> ActiveFetches \cup {Idle}]
        /\ \A f \in Fetches : fetch'[f].pc = "answered" => fetch'[f] = fetch[f]
    BY <1>1, <1>3, Refreshed DEF Record, TypeOK
  <2>9. Honest
    BY <1>1, <1>3, <2>8 DEF Record, Honest, TypeOK
  <2> QED
    BY <1>1, <2>3, <2>4, <2>6, <2>7, <2>9, RowStep
<1>4. CASE Reveal(r)
  <2>1. run[r] # Idle
    BY <1>1, <1>4, RunTypes DEF Reveal
  <2>2. run' \in [Runs -> ActiveRuns \cup {Idle}]
    BY <1>1, <1>4, <2>1, RunTypes DEF Reveal
  <2>3. \A s \in Runs : run'[s].pc = "record" => run[s].pc = "record"
    BY <1>1, <1>4, <2>1 DEF Reveal, Goto, ActiveRuns
  <2>4. /\ row' \in Rows /\ row'.lockTx = row.lockTx /\ chain' = chain
        /\ row' = row \/ (row.status = "locked" /\ row'.status = "revealing")
    BY <1>1, <1>4 DEF Reveal, Rows, Statuses
  <2>5. RowFollowsLock' /\ (Settled => Settled')
    BY <2>4 DEF Inv, RowFollowsLock, Settled
  <2>6. OneLock'
    BY <2>3, <2>4 DEF Inv, OneLock, At
  <2>7. Honest
    BY <1>1, <1>4, SameScreens DEF Reveal
  <2> QED
    BY <1>1, <2>2, <2>4, <2>5, <2>6, <2>7, RowStep
<1> QED
  BY <1>2, <1>3, <1>4

\* What a step that settles a trade or moves it on, the lock apart, does to the row
\* and to the chain: it touches no record of a lock, takes nothing back that was
\* settled, and writes "completed" only over what was.
Settles ==
    /\ row' \in Rows /\ row'.lockTx = row.lockTx
    /\ row'.status = "completed" => Settled' \/ row.status = "completed"
    /\ chain' \in Chains
    /\ chain' = chain \/ (chain = "locked" /\ chain' # "none")

LEMMA SettlesKeeps ==
    ASSUME Inv, Settles, Honest, UNCHANGED run
    PROVE  Inv'
<1>1. run \in [Runs -> ActiveRuns \cup {Idle}]
  BY DEF Inv, TypeOK
<1>2. Settled => Settled'
  BY DEF Settles, Settled
<1>3. RowFollowsLock'
  BY <1>2 DEF Inv, RowFollowsLock, Settles
<1>4. OneLock'
  BY DEF Inv, OneLock, At, Settles
<1> QED
  BY <1>1, <1>2, <1>3, <1>4, RowStep DEF Settles

\* The operations of the backend settle in this sense.
LEMMA OperationsSettle ==
    ASSUME TypeOK
    PROVE  /\ CompleteAccepted /\ CompleteTrade => Settles /\ Settled'
           /\ RefundTrade => Settles
           /\ Cancel /\ UNCHANGED chain => Settles
<1>1. row \in Rows /\ chain \in Chains
  BY DEF TypeOK
<1>2. ASSUME CompleteAccepted, CompleteTrade PROVE Settles /\ Settled'
  BY <1>1, <1>2 DEF CompleteAccepted, CompleteTrade, Settles, Settled, Rows, Statuses, Chains
<1>3. ASSUME RefundTrade PROVE Settles
  BY <1>1, <1>3 DEF RefundTrade, Settles, Rows, Statuses, Chains
<1>4. ASSUME Cancel, UNCHANGED chain PROVE Settles
  BY <1>1, <1>4 DEF Cancel, Settles, Rows, Statuses
<1> QED
  BY <1>2, <1>3, <1>4

\* So does what others do to the trade.
LEMMA OthersSettle ==
    ASSUME TypeOK,
           SettleOnChain \/ RecordSettlement \/ HandleEvent \/ RevealLate \/ CancelLate
    PROVE  Settles
<1>1. row \in Rows /\ chain \in Chains
  BY DEF TypeOK
<1>2. CASE SettleOnChain
  <2>1. UNCHANGED row /\ chain = "locked" /\ chain' \in {"released", "refunded", "resolved"}
    BY <1>2 DEF SettleOnChain
  <2> QED
    BY <1>1, <2>1 DEF Settles, Chains
<1>3. CASE RecordSettlement
  <2>1. UNCHANGED chain
    BY <1>3 DEF RecordSettlement
  <2>2. CASE /\ chain = "released"
             /\ row' = [row EXCEPT !.status = "completed", !.releaseTx = TRUE, !.secret = FALSE]
    BY <1>1, <2>1, <2>2 DEF Settles, Settled, Rows, Statuses
  <2>3. CASE row' = [row EXCEPT !.status = "refunded", !.releaseTx = TRUE]
    BY <1>1, <2>1, <2>3 DEF Settles, Rows, Statuses
  <2>4. ASSUME chain = "resolved", NEW status \in {"completed", "refunded"},
               row' = [row EXCEPT !.status = status, !.releaseTx = TRUE, !.secret = FALSE]
        PROVE  Settles
    BY <1>1, <2>1, <2>4 DEF Settles, Settled, Rows, Statuses
  <2> QED
    BY <1>3, <2>2, <2>3, <2>4 DEF RecordSettlement
<1>4. CASE HandleEvent
  <2>1. UNCHANGED chain
    BY <1>4 DEF HandleEvent
  <2>2. CASE /\ chain = "released"
             /\ row' = [row EXCEPT !.status = "completed", !.releaseTx = TRUE, !.secret = FALSE]
    BY <1>1, <2>1, <2>2 DEF Settles, Settled, Rows, Statuses
  <2>3. CASE Cancel
    BY <2>1, <2>3, OperationsSettle
  <2> QED
    BY <1>4, <2>2, <2>3 DEF HandleEvent
<1>5. CASE RevealLate
  BY <1>1, <1>5 DEF RevealLate, Settles, Rows, Statuses
<1>6. CASE CancelLate
  BY <1>6, OperationsSettle DEF CancelLate
<1> QED
  BY <1>2, <1>3, <1>4, <1>5, <1>6

\* A settlement that no screen hears of at once, but perhaps by a new fetch.
LEMMA SettlesUnseen ==
    ASSUME Inv, Settles, UNCHANGED <<run, qr, detail>>, Refresh \/ UNCHANGED fetch
    PROVE  Inv'
<1>1. /\ fetch' \in [Fetches -> ActiveFetches \cup {Idle}]
      /\ \A f \in Fetches : fetch'[f].pc = "answered" => fetch'[f] = fetch[f]
  BY Refreshed DEF Inv, TypeOK
<1>2. Honest
  BY <1>1 DEF Inv, TypeOK, Honest
<1> QED
  BY <1>2, SettlesKeeps

\* The actions of the screens and of others that settle a trade.
LEMMA SettlingKeeps ==
    ASSUME Inv,
           \/ Sweep \/ PressCancel \/ PressRefund \/ AnswerConfirm \/ LoseConfirm
           \/ SettleOnChain \/ RecordSettlement \/ HandleEvent \/ RevealLate \/ CancelLate
    PROVE  Inv'
<1> DEFINE QRs == [open : BOOLEAN, qrPayload : Codes \cup {NoCode}, error : BOOLEAN,
                   confirm : {"idle", "confirming", "failed"}, success : BOOLEAN]
<1>1. TypeOK /\ qr \in QRs /\ run \in [Runs -> ActiveRuns \cup {Idle}]
  BY DEF Inv, TypeOK
<1>2. CASE Sweep
  BY <1>1, <1>2, SettlesUnseen, OperationsSettle DEF Sweep
<1>3. CASE SettleOnChain \/ RecordSettlement \/ HandleEvent \/ RevealLate \/ CancelLate
  <2>1. UNCHANGED <<run, qr, detail, fetch>>
    BY <1>3 DEF SettleOnChain, RecordSettlement, HandleEvent, RevealLate, CancelLate, Others
  <2> QED
    BY <1>1, <1>3, <2>1, SettlesUnseen, OthersSettle
<1>4. CASE PressCancel
  BY <1>1, <1>4, SettlesUnseen, OperationsSettle DEF PressCancel, CancelTrade
<1>5. CASE PressRefund
  BY <1>1, <1>5, SettlesUnseen, OperationsSettle DEF PressRefund
<1>6. CASE AnswerConfirm
  <2>1. CASE /\ CompleteAccepted /\ CompleteTrade
             /\ qr' = [qr EXCEPT !.confirm = "idle", !.success = TRUE]
    <3>1. qr' \in QRs /\ Settles /\ Settled'
      BY <1>1, <2>1, OperationsSettle
    <3>2. Honest
      BY <1>6, <3>1, SameScreens DEF AnswerConfirm
    <3> QED
      BY <1>6, <3>1, <3>2, SettlesKeeps DEF AnswerConfirm
  <2>2. CASE UNCHANGED <<row, chain>> /\ qr' = [qr EXCEPT !.confirm = "failed"]
    <3>1. qr' \in QRs /\ qr'.success = qr.success
      BY <1>1, <2>2
    <3>2. Quiet
      BY <1>1, <1>6, <2>2 DEF AnswerConfirm, Quiet
    <3> QED
      BY <1>6, <3>1, <3>2, SameScreens, QuietStep DEF AnswerConfirm
  <2> QED
    BY <1>6, <2>1, <2>2 DEF AnswerConfirm
<1>7. CASE LoseConfirm
  <2>1. qr' \in QRs /\ qr'.success = qr.success
    BY <1>1, <1>7 DEF LoseConfirm
  <2>2. Honest
    BY <1>7, <2>1, SameScreens DEF LoseConfirm
  <2>3. CASE UNCHANGED <<row, chain>>
    BY <1>1, <1>7, <2>2, <2>3, QuietStep DEF LoseConfirm, Quiet
  <2>4. CASE CompleteAccepted /\ CompleteTrade
    BY <1>1, <1>7, <2>2, <2>4, SettlesKeeps, OperationsSettle DEF LoseConfirm
  <2> QED
    BY <1>7, <2>3, <2>4 DEF LoseConfirm
<1> QED
  BY <1>2, <1>3, <1>4, <1>5, <1>6, <1>7

\* The actions of the screen with the code, and the expiries.
LEMMA QRKeeps ==
    ASSUME Inv,
           \/ OpenQR \/ CloseQR \/ Poll \/ PressConfirm \/ TradeExpires
           \/ \E r \in Runs : LoadAgain(r)
           \/ \E c \in Codes : CodeExpires(c)
           \/ \E by \in {"seller", "buyer"} : Scan(by)
    PROVE  Inv'
<1> DEFINE QRs == [open : BOOLEAN, qrPayload : Codes \cup {NoCode}, error : BOOLEAN,
                   confirm : {"idle", "confirming", "failed"}, success : BOOLEAN]
<1>1. TypeOK /\ qr \in QRs /\ run \in [Runs -> ActiveRuns \cup {Idle}]
  BY DEF Inv, TypeOK
<1>2. ASSUME UNCHANGED <<row, chain, run>> PROVE Quiet
  BY <1>1, <1>2 DEF Quiet
<1>3. ASSUME NEW r \in Runs, Begin(r, "qr"), UNCHANGED <<row, chain>> PROVE Quiet
  <2>1. run' \in [Runs -> ActiveRuns \cup {Idle}]
    BY <1>1, <1>3, RunTypes
  <2> QED
    BY <1>1, <1>3, <2>1 DEF Quiet, Begin
<1>4. ASSUME Quiet, qr' \in QRs, qr'.success => qr.success \/ Settled',
             UNCHANGED <<detail, fetch>>
      PROVE  Inv'
  BY <1>4, SameScreens, QuietStep
<1>5. /\ Closed \in QRs /\ Closed.success = FALSE
      /\ [Closed EXCEPT !.open = TRUE] \in QRs /\ [Closed EXCEPT !.open = TRUE].success = FALSE
  BY DEF Closed
<1>6. CASE OpenQR
  <2>1. Quiet
    BY <1>2, <1>3, <1>6 DEF OpenQR, trade
  <2> QED
    BY <1>4, <1>5, <1>6, <2>1 DEF OpenQR
<1>7. CASE CloseQR
  <2>1. Quiet
    BY <1>1, <1>7, LeaveType DEF CloseQR, trade, Quiet
  <2> QED
    BY <1>4, <1>5, <1>7, <2>1 DEF CloseQR
<1>8. CASE Poll
  <2>1. qr' \in QRs /\ Settled'
    BY <1>1, <1>8 DEF Poll, trade, Inv, RowFollowsLock, Settled
  <2> QED
    BY <1>2, <1>4, <1>8, <2>1 DEF Poll, trade
<1>9. CASE PressConfirm
  <2>1. qr' \in QRs /\ qr'.success = qr.success
    BY <1>1, <1>9 DEF PressConfirm
  <2> QED
    BY <1>2, <1>4, <1>9, <2>1 DEF PressConfirm, trade
<1>10. CASE TradeExpires
  BY <1>1, <1>2, <1>4, <1>10 DEF TradeExpires
<1>11. ASSUME NEW r \in Runs, LoadAgain(r) PROVE Inv'
  <2>1. qr' \in QRs /\ qr'.success = qr.success
    BY <1>1, <1>11 DEF LoadAgain
  <2>2. Quiet
    BY <1>3, <1>11 DEF LoadAgain, trade
  <2> QED
    BY <1>4, <1>11, <2>1, <2>2 DEF LoadAgain
<1>12. ASSUME NEW c \in Codes, CodeExpires(c) PROVE Inv'
  BY <1>1, <1>2, <1>4, <1>12 DEF CodeExpires, trade
<1>13. ASSUME NEW by \in {"seller", "buyer"}, Scan(by) PROVE Inv'
  BY <1>1, <1>2, <1>4, <1>13 DEF Scan, trade
<1> QED
  BY <1>6, <1>7, <1>8, <1>9, <1>10, <1>11, <1>12, <1>13

\* The actions of TradeDetail that only ask and show.
LEMMA DetailKeeps ==
    ASSUME Inv,
           \/ OpenDetail \/ CloseDetail
           \/ \E r \in Runs : PressLock(r)
           \/ \E f \in Fetches : FetchTrade(f) \/ Retry(f) \/ ServeFetch(f) \/ SetTrade(f)
                                  \/ FetchFails(f)
    PROVE  Inv'
<1> DEFINE Fs == [Fetches -> ActiveFetches \cup {Idle}]
           Details == [open : BOOLEAN, shown : Views, error : BOOLEAN]
<1>1. /\ TypeOK /\ run \in [Runs -> ActiveRuns \cup {Idle}] /\ row \in Rows
      /\ fetch \in Fs /\ detail \in Details
  BY DEF Inv, TypeOK
<1>2. ASSUME UNCHANGED <<row, chain, run>> PROVE Quiet
  BY <1>1, <1>2 DEF Quiet
<1>3. ASSUME Quiet, UNCHANGED qr, fetch' \in Fs, detail' \in Details,
             detail'.shown.status = "completed" => detail.shown.status = "completed" \/ Settled,
             \A f \in Fetches :
                 (fetch'[f].pc = "answered" /\ fetch'[f].view.status = "completed")
                     => fetch'[f] = fetch[f] \/ Settled
      PROVE  Inv'
  <2>1. Honest
    BY <1>1, <1>3 DEF Honest, TypeOK
  <2> QED
    BY <1>3, <2>1, QuietStep
<1>4. ASSUME NEW f \in Fetches, Send(f)
      PROVE  /\ fetch' \in Fs
             /\ \A g \in Fetches : fetch'[g].pc = "answered" => fetch'[g] = fetch[g]
  <2>1. [pc |-> "sent"] \in ActiveFetches
    BY DEF ActiveFetches
  <2> QED
    BY <1>1, <1>4, <2>1 DEF Send
<1>5. NoView \in Views /\ NoView.status = "none"
  BY DEF NoView, Views, Statuses
<1>6. CASE OpenDetail
  <2>1. PICK f \in Fetches : Send(f)
    BY <1>6 DEF OpenDetail
  <2> QED
    BY <1>2, <1>3, <1>4, <1>5, <1>6, <2>1 DEF OpenDetail, trade
<1>7. CASE CloseDetail
  <2>1. Quiet
    BY <1>1, <1>7, LeaveType DEF CloseDetail, trade, Quiet
  <2>2. fetch' \in Fs /\ \A f \in Fetches : fetch'[f].pc # "answered"
    BY <1>7 DEF CloseDetail, Idle
  <2> QED
    BY <1>3, <1>5, <1>7, <2>1, <2>2 DEF CloseDetail
<1>8. ASSUME NEW r \in Runs, PressLock(r) PROVE Inv'
  <2>1. run' \in [Runs -> ActiveRuns \cup {Idle}]
    BY <1>1, <1>8, RunTypes DEF PressLock
  <2>2. Quiet
    BY <1>1, <1>8, <2>1 DEF PressLock, Begin, Quiet, trade
  <2> QED
    BY <1>1, <1>3, <1>8, <2>2 DEF PressLock
<1>9. ASSUME NEW f \in Fetches, FetchTrade(f) \/ Retry(f) PROVE Inv'
  BY <1>1, <1>2, <1>3, <1>4, <1>9 DEF FetchTrade, Retry, trade
<1>10. ASSUME NEW f \in Fetches, ServeFetch(f) PROVE Inv'
  <2> DEFINE answer == [pc |-> "answered", view |-> View]
  <2>1. answer \in ActiveFetches /\ answer.view.status = row.status
    BY <1>1 DEF ActiveFetches, Views, View, Rows
  <2>2. fetch' = [fetch EXCEPT ![f] = answer]
    BY <1>10 DEF ServeFetch
  <2> HIDE DEF answer
  <2>3. /\ fetch' \in Fs
        /\ \A g \in Fetches : fetch'[g] = fetch[g] \/ fetch'[g].view.status = row.status
    BY <1>1, <2>1, <2>2
  <2>4. row.status = "completed" => Settled
    BY DEF Inv, RowFollowsLock
  <2> QED
    BY <1>1, <1>2, <1>3, <1>10, <2>3, <2>4 DEF ServeFetch, trade
<1>11. ASSUME NEW f \in Fetches, SetTrade(f) PROVE Inv'
  <2>1. fetch[f] \in [pc : {"answered"}, view : Views]
    <3>1. fetch[f] \in ActiveFetches \cup {Idle}
      BY <1>1
    <3>2. fetch[f].pc = "answered"
      BY <1>11 DEF SetTrade
    <3>3. fetch[f] # Idle
      BY <3>2 DEF Idle
    <3>4. fetch[f] \notin [pc : {"sent"}]
      BY <3>2
    <3> QED
      BY <3>1, <3>3, <3>4 DEF ActiveFetches
  <2>2. detail' \in Details /\ detail'.shown = fetch[f].view
    BY <1>1, <1>11, <2>1 DEF SetTrade
  <2>3. detail'.shown.status = "completed" => Settled
    BY <1>11, <2>2 DEF Inv, AnswersTrue, SetTrade
  <2>4. fetch' \in Fs /\ \A g \in Fetches : fetch'[g].pc = "answered" => fetch'[g] = fetch[g]
    BY <1>1, <1>11 DEF SetTrade, Idle
  <2> QED
    BY <1>2, <1>3, <1>11, <2>2, <2>3, <2>4 DEF SetTrade, trade
<1>12. ASSUME NEW f \in Fetches, FetchFails(f) PROVE Inv'
  <2>1. detail' \in Details /\ detail'.shown = detail.shown
    BY <1>1, <1>12 DEF FetchFails
  <2>2. fetch' \in Fs /\ \A g \in Fetches : fetch'[g].pc = "answered" => fetch'[g] = fetch[g]
    BY <1>1, <1>12 DEF FetchFails, Idle
  <2> QED
    BY <1>2, <1>3, <1>12, <2>1, <2>2 DEF FetchFails, trade
<1> QED
  BY <1>6, <1>7, <1>8, <1>9, <1>10, <1>11, <1>12

\* Every step keeps the invariant.
LEMMA InvStep == Inv /\ [Next]_vars => Inv'
<1> SUFFICES ASSUME Inv, [Next]_vars PROVE Inv'
  OBVIOUS
<1>1. CASE UNCHANGED vars
  BY <1>1 DEF vars, Inv, TypeOK, RowFollowsLock, OneLock, At, AnswersTrue, SuccessIsReal,
              Settled
<1>2. CASE \/ OpenQR \/ CloseQR \/ Poll \/ PressConfirm \/ TradeExpires
           \/ \E r \in Runs : LoadAgain(r)
           \/ \E c \in Codes : CodeExpires(c)
           \/ \E by \in {"seller", "buyer"} : Scan(by)
  BY <1>2, QRKeeps
<1>3. CASE \/ OpenDetail \/ CloseDetail
           \/ \E r \in Runs : PressLock(r)
           \/ \E f \in Fetches : FetchTrade(f) \/ Retry(f) \/ ServeFetch(f) \/ SetTrade(f)
                                  \/ FetchFails(f)
  BY <1>3, DetailKeeps
<1>4. CASE \/ Sweep \/ PressCancel \/ PressRefund \/ AnswerConfirm \/ LoseConfirm
           \/ SettleOnChain \/ RecordSettlement \/ HandleEvent \/ RevealLate \/ CancelLate
  BY <1>4, SettlingKeeps
<1>5. ASSUME NEW r \in Runs,
             \/ Trustline(r) \/ Prepare(r) \/ CheckLock(r) \/ GetSecret(r)
             \/ RevealFails(r) \/ RunFails(r)
      PROVE  Inv'
  BY <1>5, RunKeeps
<1>6. ASSUME NEW r \in Runs, Submit(r) \/ Record(r) \/ Reveal(r) PROVE Inv'
  BY <1>6, LockKeeps
<1> QED
  BY <1>1, <1>2, <1>3, <1>4, <1>5, <1>6 DEF Next, RunStep

\* The invariant holds in every reachable state.
THEOREM InvHolds == Spec => []Inv
<1>1. Init /\ [][Next]_vars => []Inv
  BY InvInit, InvStep, PTL
<1> QED
  BY <1>1, PTL DEF Spec

\* QRReveal, DepositQR and TradeDetail report a completion only of a trade whose
\* funds the contract released or whose dispute an admin closed, whatever was
\* pressed, lost, late, reordered or written over.
THEOREM SuccessIsRealHolds == Spec => []SuccessIsReal
<1>1. Inv => SuccessIsReal
  BY DEF Inv
<1> QED
  BY <1>1, InvHolds, PTL

\* At most one attempt holds the transaction of a lock that it has not recorded,
\* and it is recorded once: a retry never writes over a recorded lock.
THEOREM OneLockHolds == Spec => []OneLock
<1>1. Inv => OneLock
  BY DEF Inv
<1> QED
  BY <1>1, InvHolds, PTL
=============================================================================
