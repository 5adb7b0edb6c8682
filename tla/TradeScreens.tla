---------------------------- MODULE TradeScreens ----------------------------
(***************************************************************************)
(* One trade as its two participants drive it from the app: QRReveal and   *)
(* DepositQR of the participant who created it, TradeDetail of either,     *)
(* and the scanner of MerchantInbox.                                       *)
(*                                                                         *)
(* The app keeps the answer of createTrade as activeTrade and nothing      *)
(* sets it again, so its status is "pending" for as long as the app runs.  *)
(* A request of a screen is one step, except the lock, whose check,        *)
(* transaction and write are three.  What others do to the trade is cut at *)
(* its awaits: the contract settles, and the writes that follow, of        *)
(* requests, of the listener and of an admin, come whenever they come.     *)
(* Demo mode is left out.                                                  *)
(***************************************************************************)
EXTENDS Integers

CONSTANTS
    Runs,               \* the runs of loadSecret and handleLock at once
    Fetches,            \* the fetches of TradeDetail at once
    Codes,              \* the codes that may be issued
    NoCode

VARIABLES
    creator,            \* escrow role of who created the trade: a cash-out is
                        \* created by the "seller", a deposit by the "buyer"
    viewer,             \* escrow role of the device that opens TradeDetail
    row,                \* the trade: status, lock_tx_hash, release_tx_hash,
                        \* and whether secret_enc is there
    chain,              \* its escrow: "none", "locked", "released", "refunded", or
                        \* "resolved", refunded by the resolution of a dispute
    late,               \* expires_at has passed
    code,               \* each claim token: "none", "live", "expired", "consumed"
    qr,                 \* the creator's QR screen
    run,                \* each run: where it is, its screen, its client
    detail,             \* TradeDetail
    fetch               \* each fetch: sent, or answered with a view

vars == <<creator, viewer, row, chain, late, code, qr, run, detail, fetch>>

trade == <<creator, viewer, row, chain, late>>

\* What TradeDetail shows of a trade: its status, and whether a cancelled trade
\* still has a lock to give back.
View == [status |-> row.status,
         refundable |-> row.status = "cancelled" /\ row.lockTx /\ ~ row.releaseTx]

NoView == [status |-> "none", refundable |-> FALSE]

Idle == [pc |-> "idle"]

\* Mutant: a trade in handoff is taken for settled.
SettlingStates == {"pending", "locked"}

ActiveStates == {"pending", "locked", "revealing"}

Other(role) == IF role = "seller" THEN "buyer" ELSE "seller"

Closed == [open |-> FALSE, qrPayload |-> NoCode, error |-> FALSE,
           confirm |-> "idle", success |-> FALSE]

Init ==
    /\ creator \in {"seller", "buyer"}
    /\ viewer \in {"seller", "buyer"}
    /\ row = [status |-> "pending", lockTx |-> FALSE, releaseTx |-> FALSE, secret |-> TRUE]
    /\ chain = "none"
    /\ late = FALSE
    /\ code = [c \in Codes |-> "none"]
    /\ qr = Closed
    /\ run = [r \in Runs |-> Idle]
    /\ detail = [open |-> FALSE, shown |-> NoView, error |-> FALSE]
    /\ fetch = [f \in Fetches |-> Idle]

-----------------------------------------------------------------------------
(* The backend and the contract.                                           *)

\* prepareReleaseTrade and completeTrade.
CompleteAccepted == row.status = "revealing" /\ row.secret /\ chain = "locked"

CompleteTrade ==
    /\ row' = [row EXCEPT !.status = "completed", !.releaseTx = TRUE, !.secret = FALSE]
    /\ chain' = "released"

\* finalizeTradeCancellation.
Cancel == row' = [row EXCEPT !.status = "cancelled", !.secret = FALSE]

\* cancelTrade, the merchant being available.
CancelTrade(by) ==
    /\ row.status \in {"pending"} \cup (IF by = "buyer" THEN {"locked"} ELSE {})
    /\ Cancel

\* refundTrade; sweepPendingRefunds does the same for a cancelled trade.
RefundTrade ==
    /\ late
    /\ row.lockTx
    /\ row.status \notin {"completed", "refunded"}
    /\ chain = "locked"
    /\ row' = [row EXCEPT !.status = "refunded", !.releaseTx = TRUE]
    /\ chain' = "refunded"

Sweep ==
    /\ row.status = "cancelled"
    /\ ~ row.releaseTx
    /\ RefundTrade
    /\ UNCHANGED <<creator, viewer, late, code, qr, run, detail, fetch>>

CodeExpires(c) ==
    /\ code[c] = "live"
    /\ code' = [code EXCEPT ![c] = "expired"]
    /\ UNCHANGED <<trade, qr, run, detail, fetch>>

TradeExpires ==
    /\ ~ late
    /\ late' = TRUE
    /\ code' = [c \in Codes |-> IF code[c] = "live" THEN "expired" ELSE code[c]]
    /\ UNCHANGED <<creator, viewer, row, chain, qr, run, detail, fetch>>

\* What is done to the trade by others than the screens: by a client of the API
\* that is not the app, by an admin, by the listener of the contract's events, by
\* a request whose check was passed when the trade was at another status.
Others == UNCHANGED <<creator, viewer, late, code, qr, run, detail, fetch>>

\* A release after prepareReleaseTrade was passed, a refund by anyone, or that of
\* resolveDispute, which refunds whatever the resolution.
SettleOnChain ==
    /\ chain = "locked"
    /\ \/ row.lockTx /\ row.status \in {"revealing", "cancelled"} /\ chain' = "released"
       \/ late /\ chain' \in {"refunded", "resolved"}
    /\ UNCHANGED row
    /\ Others

\* The writes of completeTrade, refundTrade and resolveDispute, all by id alone.
RecordSettlement ==
    /\ \/ /\ chain = "released"
          /\ row' = [row EXCEPT !.status = "completed", !.releaseTx = TRUE, !.secret = FALSE]
       \/ /\ chain = "refunded"
          /\ row.lockTx
          /\ row' = [row EXCEPT !.status = "refunded", !.releaseTx = TRUE]
       \/ /\ chain = "resolved"
          /\ \E status \in {"completed", "refunded"} :
                row' = [row EXCEPT !.status = status, !.releaseTx = TRUE, !.secret = FALSE]
    /\ UNCHANGED chain
    /\ Others

\* handleReleased and handleRefunded, to which "refunded" is not an end.
HandleEvent ==
    /\ row.lockTx
    /\ row.status \notin {"completed", "cancelled"}
    /\ \/ /\ chain = "released"
          /\ row' = [row EXCEPT !.status = "completed", !.releaseTx = TRUE, !.secret = FALSE]
       \/ chain \in {"refunded", "resolved"} /\ Cancel
    /\ UNCHANGED chain
    /\ Others

\* revealTrade and cancelTrade check a status and write by id.
RevealLate ==
    /\ row.lockTx
    /\ row' = [row EXCEPT !.status = "revealing"]
    /\ UNCHANGED chain
    /\ Others

CancelLate ==
    /\ Cancel
    /\ UNCHANGED chain
    /\ Others

-----------------------------------------------------------------------------
(* loadSecret of QRReveal and handleLock of TradeDetail.  The client of a  *)
(* run is "here", "gone" when its screen was left, which stops nothing, or *)
(* "lost" when its lock request failed but went on in the backend.         *)

At(r, pc) == run[r].pc = pc

Goto(r, pc) == run' = [run EXCEPT ![r].pc = pc]

Loading(screen) ==
    \E r \in Runs : run[r] # Idle /\ run[r].on = screen /\ run[r].client = "here"

Begin(r, screen) ==
    /\ run[r] = Idle
    /\ run' = [run EXCEPT ![r] = [pc |-> "trustline", on |-> screen,
                                  client |-> "here"]]

Leave(screen) ==
    run' = [r \in Runs |->
              IF run[r] # Idle /\ run[r].on = screen /\ run[r].client = "here"
              THEN [run[r] EXCEPT !.client = "gone"] ELSE run[r]]

\* The catch of loadSecret; handleLock only shows a message.
ShowError(r) ==
    IF run[r].on = "qr" /\ run[r].client = "here"
    THEN qr' = [qr EXCEPT !.error = TRUE, !.qrPayload = NoCode]
    ELSE UNCHANGED qr

Refuse(r) == ShowError(r) /\ run' = [run EXCEPT ![r] = Idle]

Trustline(r) ==
    /\ At(r, "trustline")
    /\ Goto(r, "prepare")
    /\ UNCHANGED <<trade, code, qr, detail, fetch>>

\* prepareLockTrade.
Prepare(r) ==
    /\ At(r, "prepare")
    /\ IF row.status = "pending" THEN Goto(r, "lock") /\ UNCHANGED qr ELSE Refuse(r)
    /\ UNCHANGED <<trade, code, detail, fetch>>

\* lockTrade up to its transaction.
CheckLock(r) ==
    /\ At(r, "lock")
    /\ IF row.status = "pending" THEN Goto(r, "submit") /\ UNCHANGED qr ELSE Refuse(r)
    /\ UNCHANGED <<trade, code, detail, fetch>>

Submit(r) ==
    /\ At(r, "submit")
    /\ IF chain = "none"
       THEN chain' = "locked" /\ Goto(r, "record") /\ UNCHANGED qr
       ELSE Refuse(r) /\ UNCHANGED chain
    /\ UNCHANGED <<creator, viewer, row, late, code, detail, fetch>>

\* fetchTrade after an operation of TradeDetail.
Refresh ==
    IF detail.open /\ \E f \in Fetches : fetch[f] = Idle
    THEN \E f \in Fetches : /\ fetch[f] = Idle
                            /\ fetch' = [fetch EXCEPT ![f] = [pc |-> "sent"]]
    ELSE UNCHANGED fetch

Record(r) ==
    /\ At(r, "record")
    /\ row' = [row EXCEPT !.status = "locked", !.lockTx = TRUE]
    /\ IF run[r].on = "qr" /\ run[r].client # "lost"
       THEN Goto(r, "reveal") /\ UNCHANGED fetch
       ELSE /\ run' = [run EXCEPT ![r] = Idle]
            /\ IF run[r].client = "here" THEN Refresh ELSE UNCHANGED fetch
    /\ UNCHANGED <<creator, viewer, chain, late, code, qr, detail>>

\* revealTrade, whose errors loadSecret swallows.
Reveal(r) ==
    /\ At(r, "reveal")
    /\ row' = IF row.status = "locked" THEN [row EXCEPT !.status = "revealing"] ELSE row
    /\ Goto(r, "secret")
    /\ UNCHANGED <<creator, viewer, chain, late, code, qr, detail, fetch>>

RevealFails(r) ==
    /\ At(r, "reveal")
    /\ Goto(r, "secret")
    /\ UNCHANGED <<trade, code, qr, detail, fetch>>

\* getTradeSecret.
GetSecret(r) ==
    /\ At(r, "secret")
    /\ IF row.status = "revealing" /\ ~ late
       THEN \E c \in Codes :
              /\ code[c] = "none"
              /\ code' = [code EXCEPT ![c] = "live"]
              /\ qr' = IF run[r].client = "here" THEN [qr EXCEPT !.qrPayload = c] ELSE qr
              /\ run' = [run EXCEPT ![r] = Idle]
       ELSE Refuse(r) /\ UNCHANGED code
    /\ UNCHANGED <<trade, detail, fetch>>

\* A request or its answer is lost, or the payment of a trustline fails.  Once
\* the backend has checked a lock, it goes on with it.
RunFails(r) ==
    /\ run[r] # Idle
    /\ run[r].client # "lost"
    /\ ~ At(r, "reveal")
    /\ ShowError(r)
    /\ run' = [run EXCEPT ![r] = IF run[r].pc \in {"submit", "record"}
                                 THEN [run[r] EXCEPT !.client = "lost"] ELSE Idle]
    /\ UNCHANGED <<trade, code, detail, fetch>>

RunStep(r) ==
    \/ Trustline(r) \/ Prepare(r) \/ CheckLock(r) \/ Submit(r) \/ Record(r)
    \/ Reveal(r) \/ GetSecret(r)

-----------------------------------------------------------------------------
(* QRReveal and DepositQR.                                                 *)

\* The creator's device shows one screen at a time.
OpenQR ==
    /\ ~ qr.open
    /\ viewer = creator => ~ detail.open
    /\ qr' = [Closed EXCEPT !.open = TRUE]
    /\ IF creator = "seller" THEN \E r \in Runs : Begin(r, "qr") ELSE UNCHANGED run
    /\ UNCHANGED <<trade, code, detail, fetch>>

CloseQR ==
    /\ qr.open
    /\ qr' = Closed
    /\ Leave("qr")
    /\ UNCHANGED <<trade, code, detail, fetch>>

ShowsQR == qr.qrPayload # NoCode /\ ~ qr.error /\ code[qr.qrPayload] # "expired"

QRExpired == qr.qrPayload # NoCode /\ code[qr.qrPayload] = "expired"

\* The banner's retry, and the button for a new code.
LoadAgain(r) ==
    /\ qr.open
    /\ qr.error \/ QRExpired
    /\ ~ Loading("qr")
    /\ qr' = [qr EXCEPT !.error = FALSE]
    /\ Begin(r, "qr")
    /\ UNCHANGED <<trade, code, detail, fetch>>

\* Mutant: a transaction that emptied the escrow is taken for the release.
PollAnyTx ==
    /\ qr.open
    /\ qr.qrPayload # NoCode
    /\ row.releaseTx
    /\ qr' = [qr EXCEPT !.success = TRUE]
    /\ UNCHANGED <<trade, code, run, detail, fetch>>

Poll ==
    /\ qr.open
    /\ qr.qrPayload # NoCode
    /\ row.status = "completed"
    /\ row.releaseTx
    /\ qr' = [qr EXCEPT !.success = TRUE]
    /\ UNCHANGED <<trade, code, run, detail, fetch>>

\* handleComplete: the buyer of a deposit handed over the cash.
PressConfirm ==
    /\ creator = "buyer"
    /\ qr.open
    /\ qr.confirm # "confirming"
    /\ ~ qr.success
    /\ qr' = [qr EXCEPT !.confirm = "confirming"]
    /\ UNCHANGED <<trade, code, run, detail, fetch>>

AnswerConfirm ==
    /\ qr.confirm = "confirming"
    /\ IF CompleteAccepted
       THEN CompleteTrade /\ qr' = [qr EXCEPT !.confirm = "idle", !.success = TRUE]
       ELSE UNCHANGED <<row, chain>> /\ qr' = [qr EXCEPT !.confirm = "failed"]
    /\ UNCHANGED <<creator, viewer, late, code, run, detail, fetch>>

LoseConfirm ==
    /\ qr.confirm = "confirming"
    /\ qr' = [qr EXCEPT !.confirm = "failed"]
    /\ \/ UNCHANGED <<row, chain>>
       \/ CompleteAccepted /\ CompleteTrade
    /\ UNCHANGED <<creator, viewer, late, code, run, detail, fetch>>

-----------------------------------------------------------------------------
(* TradeDetail.                                                            *)

Send(f) == fetch[f] = Idle /\ fetch' = [fetch EXCEPT ![f] = [pc |-> "sent"]]

OpenDetail ==
    /\ ~ detail.open
    /\ viewer = creator => ~ qr.open
    /\ detail' = [open |-> TRUE, shown |-> NoView, error |-> FALSE]
    /\ \E f \in Fetches : Send(f)
    /\ UNCHANGED <<trade, code, qr, run>>

CloseDetail ==
    /\ detail.open
    /\ detail' = [open |-> FALSE, shown |-> NoView, error |-> FALSE]
    /\ fetch' = [f \in Fetches |-> Idle]
    /\ Leave("trade")
    /\ UNCHANGED <<trade, code, qr>>

\* The interval, which a trade that was never loaded does not have.
FetchTrade(f) ==
    /\ detail.open
    /\ detail.shown.status \in ActiveStates
    /\ Send(f)
    /\ UNCHANGED <<trade, code, qr, run, detail>>

\* The button of the screen that says there is no connection.
Retry(f) ==
    /\ detail.open
    /\ detail.error
    /\ Send(f)
    /\ UNCHANGED <<trade, code, qr, run, detail>>

ServeFetch(f) ==
    /\ fetch[f].pc = "sent"
    /\ fetch' = [fetch EXCEPT ![f] = [pc |-> "answered", view |-> View]]
    /\ UNCHANGED <<trade, code, qr, run, detail>>

SetTrade(f) ==
    /\ fetch[f].pc = "answered"
    /\ detail' = [detail EXCEPT !.shown = fetch[f].view, !.error = FALSE]
    /\ fetch' = [fetch EXCEPT ![f] = Idle]
    /\ UNCHANGED <<trade, code, qr, run>>

FetchFails(f) ==
    /\ fetch[f] # Idle
    /\ detail' = [detail EXCEPT !.error = TRUE]
    /\ fetch' = [fetch EXCEPT ![f] = Idle]
    /\ UNCHANGED <<trade, code, qr, run>>

\* What is on the screen.
Shows(status) == detail.open /\ ~ detail.error /\ detail.shown.status = status

PressLock(r) ==
    /\ Shows("pending")
    /\ viewer = "seller"
    /\ ~ Loading("trade")
    /\ Begin(r, "trade")
    /\ UNCHANGED <<trade, code, qr, detail, fetch>>

\* Only the pending view has the button.
PressCancel ==
    /\ Shows("pending")
    /\ ~ Loading("trade")
    /\ CancelTrade(viewer)
    /\ Refresh \/ UNCHANGED fetch
    /\ UNCHANGED <<creator, viewer, chain, late, code, qr, run, detail>>

\* Only the view of a cancelled trade that was locked has the button.
PressRefund ==
    /\ Shows("cancelled")
    /\ detail.shown.refundable
    /\ RefundTrade
    /\ Refresh \/ UNCHANGED fetch
    /\ UNCHANGED <<creator, viewer, late, code, qr, run, detail>>

-----------------------------------------------------------------------------
(* MerchantInbox: the scan of the code that the creator shows.             *)

\* merchantConfirmScan: whether "by" gets the confirmation view.
ScanConfirms(by, c) ==
    /\ by = "seller"
    /\ row.status \notin {"completed", "cancelled"}
    /\ ~ late
    /\ code[c] = "live"

Scan(by) ==
    /\ ShowsQR
    /\ ScanConfirms(by, qr.qrPayload)
    /\ code' = [code EXCEPT ![qr.qrPayload] = "consumed"]
    /\ UNCHANGED <<trade, qr, run, detail, fetch>>

-----------------------------------------------------------------------------
Next ==
    \/ OpenQR \/ CloseQR \/ Poll \/ PressConfirm \/ AnswerConfirm \/ LoseConfirm
    \/ OpenDetail \/ CloseDetail \/ PressCancel \/ PressRefund
    \/ \E r \in Runs : LoadAgain(r) \/ RunStep(r) \/ RevealFails(r) \/ RunFails(r)
                       \/ PressLock(r)
    \/ \E f \in Fetches : FetchTrade(f) \/ Retry(f) \/ ServeFetch(f) \/ SetTrade(f)
                          \/ FetchFails(f)
    \/ \E by \in {"seller", "buyer"} : Scan(by)
    \/ Sweep \/ TradeExpires \/ \E c \in Codes : CodeExpires(c)
    \/ SettleOnChain \/ RecordSettlement \/ HandleEvent \/ RevealLate \/ CancelLate

\* The interval fires while there is one, and the connection comes back: of the
\* requests that are sent again and again, not all fail.  Nobody has to press a
\* button.
Connection ==
    /\ WF_vars(\E f \in Fetches : FetchTrade(f))
    /\ SF_vars(\E f \in Fetches : ServeFetch(f))
    /\ SF_vars(\E f \in Fetches : SetTrade(f))

Spec == Init /\ [][Next]_vars /\ Connection

-----------------------------------------------------------------------------
(* Properties.                                                             *)

\* A screen says that the trade is completed only when the contract released the
\* funds, or when an admin closed a dispute: a refund by a participant or by the
\* sweep, which is recorded in the same column, an answer that comes late or a
\* stale write of the row does not pass for it.
SuccessIsReal ==
    (qr.success \/ detail.shown.status = "completed") => chain \in {"released", "resolved"}

\* An open TradeDetail that has loaded its trade does not stay at an active status
\* that the row has left for good, in whatever order its fetches are answered.
\* Once it shows an end it polls no more, and misses what rewrites that end; and
\* if the first fetch fails, there is no interval until the user presses retry.
DetailCatchesUp ==
    \A s \in {"pending", "locked", "revealing"} :
        <>[](detail.open /\ detail.shown.status # "none" /\ row.status # s)
            => <>[](detail.shown.status # s)
=============================================================================
