------------------------------- MODULE SpiSdk -------------------------------
(***************************************************************************)
(* The SPI SDK on one SPI peripheral: the application thread that calls    *)
(* the SDK, the interrupt handler, and the controller of SpiHost.          *)
(*                                                                         *)
(* The thread's steps (mpc) and the handler's steps (ipc) are the accesses *)
(* to controller registers and to the static spi_peripheral_t that the two *)
(* contexts share, in program order.  The handler runs to completion on    *)
(* the only core; the controller moves between any two steps.  The core    *)
(* takes a pending interrupt before the thread's next step.                *)
(***************************************************************************)
EXTENDS SpiHost, SequencesExt

CONSTANTS
  Txns,       \* the transactions the application asks for
  Garbage,    \* what a read outside the segment array may yield
  TxWms,      \* the watermarks it sets
  RxWms,
  Timeouts,   \* TRUE: the timeout of a blocking call may expire
  Resets,     \* TRUE: the application may call spi_reset
  Errors,     \* TRUE: AccessError may happen
  Relaunch    \* TRUE: done_cb may start the next transaction

ASSUME SdkAssumption ==
  /\ Txns \subseteq (Seq(Segments) \ {<<>>})
  /\ \A t \in Txns : \A i \in 1..Len(t) : t[i].n > 0
  /\ Garbage \subseteq Segments /\ Garbage # {}
  /\ TxWms \subseteq 0..TxDepth /\ TxWms # {}
  /\ RxWms \subseteq 0..RxDepth /\ RxWms # {}
  /\ {Timeouts, Resets, Errors, Relaunch} \subseteq BOOLEAN
-----------------------------------------------------------------------------
(* spi_validate_segments: the words of all segments in one direction. *)
WordsOf(Moves(_), segments) ==
  FoldSeq(LAMBDA s, total : IF Moves(s) THEN total + s.n ELSE total, 0, segments)

TxLen(segments) == WordsOf(Writes, segments)
RxLen(segments) == WordsOf(Reads, segments)

(* The words of the first k segments. *)
TxUpTo(segments, k) == TxLen(SubSeq(segments, 1, k))
RxUpTo(segments, k) == RxLen(SubSeq(segments, 1, k))

(* The running totals of the loop in spi_validate_segments: they start at  *)
(* zero, grow by the words of each segment and end in txlen and rxlen.     *)
ASSUME TotalsAssumption ==
  /\ TxLen(<<>>) = 0 /\ RxLen(<<>>) = 0
  /\ \A t \in Txns :
       /\ \A k \in 0..Len(t) :
            /\ TxUpTo(t, k) \in 0..TxLen(t)
            /\ RxUpTo(t, k) \in 0..RxLen(t)
       /\ \A k \in 1..Len(t) :
            /\ TxUpTo(t, k) = TxUpTo(t, k - 1) + (IF Writes(t[k]) THEN t[k].n ELSE 0)
            /\ RxUpTo(t, k) = RxUpTo(t, k - 1) + (IF Reads(t[k]) THEN t[k].n ELSE 0)
       /\ TxUpTo(t, 0) = 0 /\ TxUpTo(t, Len(t)) = TxLen(t)
       /\ RxUpTo(t, 0) = 0 /\ RxUpTo(t, Len(t)) = RxLen(t)
       /\ TxLen(t) \in Nat /\ RxLen(t) \in Nat
-----------------------------------------------------------------------------
VARIABLES
  \* spi_peripheral_t
  state,      \* .state
  txn,        \* .txn.segments, with .seglen its length; <<>> is NULL
  scnt, txcnt, rxcnt,
  cb,         \* .callbacks.done_cb is not NULL
  \* the application's spi_t
  init,       \* .init
  \* the application thread
  mpc,
  blocking,   \* the call in progress is a blocking one
  seg,        \* spi_issue_next_seg's local copy of the segment
  \* the interrupt handler
  ipc,
  events,     \* the status snapshot it works from
  \* history of the transaction last accepted
  asked,      \* its segments
  sent,       \* words the controller has shifted out for it
  got,        \* words the driver has stored in its receive buffer
  told        \* done_cb was called for it

periVars == <<state, txn, scnt, txcnt, rxcnt, cb>>
mainVars == <<init, mpc, blocking, seg>>
isrVars  == <<ipc, events>>
history  == <<asked, sent, got, told>>
vars     == <<hostVars, periVars, mainVars, isrVars, history>>

States == {"NONE", "INIT", "BUSY", "DONE", "ERROR", "TIMEOUT"}
Events == [ready : BOOLEAN, idle : BOOLEAN, txwm : BOOLEAN, rxwm : BOOLEAN]
NoEvents == [ready |-> FALSE, idle |-> FALSE, txwm |-> FALSE, rxwm |-> FALSE]

LaunchSteps == {"launch", "txn", "fill", "evt", "intr", "ready", "seg", "cmd"}
ResetSteps  == {"reset", "swrst", "init"}
MainSteps   == {"app", "wait", "timeout"} \cup LaunchSteps \cup ResetSteps
IsrSteps    == {"out", "errors", "ack", "status", "handle", "offevt", "offintr",
                "last", "done", "cb", "clear", "tx", "rx", "exit",
                "erroff", "errintr", "errreset"}
-----------------------------------------------------------------------------
(* txn.segments[i]: past the end of the array, or through NULL, anything.  *)
SegmentsAt(segments, i) == IF i < Len(segments) THEN {segments[i + 1]} ELSE Garbage

(* Mutant: spi_reset_transaction forgets the transmit counter. *)
ResetTransactionKeepsTxcnt ==
  /\ scnt' = 0 /\ rxcnt' = 0
  /\ txn' = <<>>
  /\ cb' = FALSE
  /\ UNCHANGED txcnt

(* spi_reset_transaction *)
ResetTransaction ==
  /\ scnt' = 0 /\ txcnt' = 0 /\ rxcnt' = 0
  /\ txn' = <<>>
  /\ cb' = FALSE

(* spi_set_command: the command is dropped, and nobody told, if the queue  *)
(* is full.                                                                *)
SetCommand(s) ==
  \/ Ready /\ WriteCommand(s)
  \/ ~Ready /\ UNCHANGED hostVars

(* Mutant: spi_fill_tx does not look at the level of the FIFO. *)
FillsTxBlindly == txcnt < TxLen(txn)

FillsTx == txcnt < TxLen(txn) /\ Txqd < TxDepth

DrainsRx == rxcnt < RxLen(txn) /\ Rxqd > 0

(* spi_fill_tx, one word *)
FillTx ==
  /\ FillsTx
  /\ WriteTxData
  /\ txcnt' = txcnt + 1
  /\ UNCHANGED <<state, txn, scnt, rxcnt, cb>>

(* spi_empty_rx, one word *)
EmptyRx ==
  /\ DrainsRx
  /\ ReadRxData
  /\ rxcnt' = rxcnt + 1
  /\ got' = got + 1
  /\ UNCHANGED <<state, txn, scnt, txcnt, cb, asked, sent, told>>
-----------------------------------------------------------------------------
(* The application thread.  It does not run while the handler does, nor    *)
(* when an interrupt is about to be taken.                                 *)
MainRuns == ipc = "out" /\ ~pend

At(from, to) == MainRuns /\ mpc = from /\ mpc' = to

spi_init ==
  /\ At("app", "app")
  /\ state' = IF state = "BUSY" THEN state ELSE "INIT"
  /\ init' = (state # "BUSY")
  /\ UNCHANGED <<hostVars, txn, scnt, txcnt, rxcnt, cb, blocking, seg, isrVars, history>>

spi_deinit ==
  /\ At("app", "app")
  /\ init
  /\ init' = FALSE
  /\ UNCHANGED <<hostVars, periVars, blocking, seg, isrVars, history>>

spi_set_txwm(wm) ==
  /\ At("app", "app")
  /\ init /\ state # "BUSY"
  /\ WriteWatermarks(wm, rxwm)
  /\ UNCHANGED <<periVars, init, blocking, seg, isrVars, history>>

spi_set_rxwm(wm) ==
  /\ At("app", "app")
  /\ init /\ state # "BUSY"
  /\ WriteWatermarks(txwm, wm)
  /\ UNCHANGED <<periVars, init, blocking, seg, isrVars, history>>

(* spi_prepare_transfer of every transfer function.  A call on a busy      *)
(* peripheral returns an error.  spi_get_active has no return statement,   *)
(* so whether the controller counts as idle is arbitrary: the call is      *)
(* refused (no change) or goes on whatever the controller does.            *)
spi_prepare_transfer(t, blk) ==
  /\ At("app", "launch")
  /\ init
  /\ state # "BUSY"
  /\ blocking' = blk
  /\ asked' = t /\ sent' = 0 /\ got' = 0 /\ told' = FALSE
  /\ UNCHANGED <<hostVars, periVars, init, seg, isrVars>>

LaunchState ==
  /\ At("launch", "txn")
  /\ state' = "BUSY"
  /\ UNCHANGED <<hostVars, txn, scnt, txcnt, rxcnt, cb, init, blocking, seg, isrVars, history>>

LaunchTxn ==
  /\ At("txn", "fill")
  /\ txn' = asked
  /\ cb' = ~blocking
  /\ UNCHANGED <<hostVars, state, scnt, txcnt, rxcnt, init, blocking, seg, isrVars, history>>

LaunchFill ==
  \/ /\ At("fill", "fill")
     /\ FillTx
     /\ UNCHANGED <<init, blocking, seg, isrVars, history>>
  \/ /\ At("fill", "evt")
     /\ ~FillsTx
     /\ UNCHANGED <<hostVars, periVars, init, blocking, seg, isrVars, history>>

LaunchEvents ==
  /\ At("evt", "intr")
  /\ WriteEnables(TRUE, intrEn)
  /\ UNCHANGED <<periVars, init, blocking, seg, isrVars, history>>

LaunchIntr ==
  /\ At("intr", "ready")
  /\ WriteEnables(evtEn, TRUE)
  /\ UNCHANGED <<periVars, init, blocking, seg, isrVars, history>>

LaunchReady ==
  /\ At("ready", "seg")
  /\ Ready
  /\ UNCHANGED <<hostVars, periVars, init, blocking, seg, isrVars, history>>

(* spi_issue_next_seg in the thread: the segment is fetched and counted,   *)
(* then written to the controller.                                         *)
LaunchSegment ==
  /\ At("seg", "cmd")
  /\ seg' \in SegmentsAt(txn, scnt)
  /\ scnt' = scnt + 1
  /\ UNCHANGED <<hostVars, state, txn, txcnt, rxcnt, cb, init, blocking, isrVars, history>>

LaunchCommand ==
  /\ At("cmd", IF blocking THEN "wait" ELSE "app")
  /\ SetCommand(seg)
  /\ UNCHANGED <<periVars, init, blocking, seg, isrVars, history>>

(* spi_wait_transaction_done: the clock is looked at before the state. *)
WaitDone ==
  /\ At("wait", "app")
  /\ state # "BUSY"
  /\ UNCHANGED <<hostVars, periVars, init, blocking, seg, isrVars, history>>

(* Mutant: the state is looked at before the clock. *)
WaitTimeoutLate ==
  /\ Timeouts
  /\ state # "BUSY"
  /\ At("wait", "reset")
  /\ UNCHANGED <<hostVars, periVars, init, blocking, seg, isrVars, history>>

WaitTimeout ==
  /\ Timeouts
  /\ At("wait", "reset")
  /\ UNCHANGED <<hostVars, periVars, init, blocking, seg, isrVars, history>>

spi_reset ==
  /\ Resets
  /\ At("app", "reset")
  /\ init
  /\ blocking' = FALSE
  /\ UNCHANGED <<hostVars, periVars, init, seg, isrVars, history>>

(* spi_reset_peri *)
ResetTxn ==
  /\ At("reset", "swrst")
  /\ ResetTransaction
  /\ UNCHANGED <<hostVars, state, init, blocking, seg, isrVars, history>>

(* Mutant: the controller is not reset. *)
ResetHostNot ==
  /\ At("swrst", "init")
  /\ UNCHANGED <<hostVars, periVars, init, blocking, seg, isrVars, history>>

ResetHost ==
  /\ At("swrst", "init")
  /\ SwReset
  /\ UNCHANGED <<periVars, init, blocking, seg, isrVars, history>>

ResetState ==
  /\ At("init", IF blocking THEN "timeout" ELSE "app")
  /\ state' = "INIT"
  /\ UNCHANGED <<hostVars, txn, scnt, txcnt, rxcnt, cb, init, blocking, seg, isrVars, history>>

TimeoutState ==
  /\ At("timeout", "app")
  /\ state' = "TIMEOUT"
  /\ UNCHANGED <<hostVars, txn, scnt, txcnt, rxcnt, cb, init, blocking, seg, isrVars, history>>

AppCall ==
  \/ spi_init \/ spi_deinit \/ spi_reset
  \/ \E wm \in TxWms : spi_set_txwm(wm)
  \/ \E wm \in RxWms : spi_set_rxwm(wm)
  \/ \E t \in Txns, blk \in BOOLEAN : spi_prepare_transfer(t, blk)

MainStep ==
  \/ LaunchState \/ LaunchTxn \/ LaunchFill \/ LaunchEvents \/ LaunchIntr
  \/ LaunchReady \/ LaunchSegment \/ LaunchCommand
  \/ WaitDone \/ WaitTimeout
  \/ ResetTxn \/ ResetHost \/ ResetState \/ TimeoutState
-----------------------------------------------------------------------------
(* The interrupt handler. *)
IsrAt(from, to) == ipc = from /\ ipc' = to

IsrEnter ==
  /\ IsrAt("out", "errors")
  /\ TakeInterrupt
  /\ UNCHANGED <<periVars, mainVars, events, history>>

(* fic_irq_spi, fic_irq_spi_flash, handler_irq_spi *)
IsrErrors ==
  /\ IsrAt("errors", IF ~err THEN "ack" ELSE IF state = "BUSY" THEN "erroff" ELSE "exit")
  /\ UNCHANGED <<hostVars, periVars, mainVars, events, history>>

(* Mutant: the event is not acknowledged. *)
IsrAckNot ==
  /\ IsrAt("ack", "status")
  /\ UNCHANGED <<hostVars, periVars, mainVars, events, history>>

IsrAck ==
  /\ IsrAt("ack", "status")
  /\ ClearEvent
  /\ UNCHANGED <<periVars, mainVars, events, history>>

(* spi_get_events: the levels of the status register stand for the events. *)
IsrStatus ==
  /\ IsrAt("status", IF state = "BUSY" THEN "handle" ELSE "exit")
  /\ events' = [ready |-> Ready, idle |-> ~busy, txwm |-> TxWm, rxwm |-> RxWm]
  /\ UNCHANGED <<hostVars, periVars, mainVars, history>>

(* Mutant: an off-by-one in the segment counter's bound. *)
MoreSegmentsOneTooMany == txn # <<>> /\ scnt <= Len(txn)

(* spi_event_handler *)
MoreSegments == txn # <<>> /\ scnt < Len(txn)

IsrIssue ==
  /\ IsrAt("handle", "tx")
  /\ events.ready /\ MoreSegments
  /\ \E s \in SegmentsAt(txn, scnt) : SetCommand(s)
  /\ scnt' = scnt + 1
  /\ UNCHANGED <<state, txn, txcnt, rxcnt, cb, mainVars, events, history>>

(* Mutant: the transaction is over when its last segment is queued. *)
IsrOverEarly ==
  /\ IsrAt("handle", "offevt")
  /\ events.ready /\ ~MoreSegments
  /\ UNCHANGED <<hostVars, periVars, mainVars, events, history>>

IsrOver ==
  /\ IsrAt("handle", "offevt")
  /\ events.ready /\ ~MoreSegments /\ events.idle
  /\ UNCHANGED <<hostVars, periVars, mainVars, events, history>>

IsrGoOn ==
  /\ IsrAt("handle", "tx")
  /\ ~(events.ready /\ (MoreSegments \/ events.idle))
  /\ UNCHANGED <<hostVars, periVars, mainVars, events, history>>

IsrEventsOff ==
  /\ IsrAt("offevt", "offintr")
  /\ WriteEnables(FALSE, intrEn)
  /\ UNCHANGED <<periVars, mainVars, events, history>>

IsrIntrOff ==
  /\ IsrAt("offintr", "last")
  /\ WriteEnables(evtEn, FALSE)
  /\ UNCHANGED <<periVars, mainVars, events, history>>

IsrLastWords ==
  \/ /\ IsrAt("last", "last")
     /\ EmptyRx
     /\ UNCHANGED <<mainVars, events>>
  \/ /\ IsrAt("last", "done")
     /\ ~DrainsRx
     /\ UNCHANGED <<hostVars, periVars, mainVars, events, history>>

(* Mutant: the transaction ends but the peripheral stays busy. *)
IsrDoneStaysBusy ==
  /\ IsrAt("done", "cb")
  /\ UNCHANGED <<hostVars, periVars, mainVars, events, history>>

IsrDone ==
  /\ IsrAt("done", "cb")
  /\ state' = "DONE"
  /\ UNCHANGED <<hostVars, txn, scnt, txcnt, rxcnt, cb, mainVars, events, history>>

(* done_cb, which may call a non-blocking transfer function: the SDK is no *)
(* longer busy, so the call launches.  The controller is idle; the launch  *)
(* is one step here.                                                       *)
IsrCallback ==
  /\ IsrAt("cb", "clear")
  /\ told' = (told \/ cb)
  /\ UNCHANGED <<hostVars, periVars, mainVars, events, asked, sent, got>>

Lesser(a, b) == IF a < b THEN a ELSE b

IsrCallbackLaunch(t) ==
  /\ Relaunch
  /\ IsrAt("cb", "clear")
  /\ cb /\ init
  /\ state' = "BUSY" /\ txn' = t /\ scnt' = scnt + 1
  /\ LET n == IF txcnt < TxLen(t) THEN Lesser(TxLen(t) - txcnt, TxDepth + 1 - txq) ELSE 0
     IN  txcnt' = txcnt + n /\ txq' = txq + n
  /\ \E s \in SegmentsAt(t, scnt) : cmds' = Append(cmds, s)
  /\ evtEn' = TRUE /\ intrEn' = TRUE
  /\ asked' = t /\ sent' = 0 /\ got' = 0 /\ told' = FALSE
  /\ UNCHANGED <<rxq, wmVars, err, intr, claimed, rxcnt, cb, mainVars, events>>
  /\ CoreStart /\ LatchLine

IsrClear ==
  /\ IsrAt("clear", "exit")
  /\ ResetTransaction
  /\ UNCHANGED <<hostVars, state, mainVars, events, history>>

IsrTx ==
  \/ /\ IsrAt("tx", "tx")
     /\ events.txwm
     /\ FillTx
     /\ UNCHANGED <<mainVars, events, history>>
  \/ /\ IsrAt("tx", "rx")
     /\ ~(events.txwm /\ FillsTx)
     /\ UNCHANGED <<hostVars, periVars, mainVars, events, history>>

IsrRx ==
  \/ /\ IsrAt("rx", "rx")
     /\ events.rxwm
     /\ EmptyRx
     /\ UNCHANGED <<mainVars, events>>
  \/ /\ IsrAt("rx", "exit")
     /\ ~(events.rxwm /\ DrainsRx)
     /\ UNCHANGED <<hostVars, periVars, mainVars, events, history>>

(* spi_error_handler: ERROR_STATUS is left as it is. *)
IsrErrorEvents ==
  /\ IsrAt("erroff", "errintr")
  /\ WriteEnables(FALSE, intrEn)
  /\ UNCHANGED <<periVars, mainVars, events, history>>

IsrErrorIntr ==
  /\ IsrAt("errintr", "errreset")
  /\ WriteEnables(evtEn, FALSE)
  /\ UNCHANGED <<periVars, mainVars, events, history>>

IsrErrorReset ==
  /\ IsrAt("errreset", "exit")
  /\ ResetTransaction
  /\ SwReset
  /\ state' = "ERROR"
  /\ UNCHANGED <<mainVars, events, history>>

IsrExit ==
  /\ IsrAt("exit", "out")
  /\ CompleteInterrupt
  /\ events' = NoEvents
  /\ UNCHANGED <<periVars, mainVars, history>>

IsrStep ==
  \/ IsrEnter \/ IsrErrors \/ IsrAck \/ IsrStatus
  \/ IsrIssue \/ IsrOver \/ IsrGoOn
  \/ IsrEventsOff \/ IsrIntrOff \/ IsrLastWords \/ IsrDone
  \/ IsrCallback \/ (\E t \in Txns : IsrCallbackLaunch(t)) \/ IsrClear
  \/ IsrTx \/ IsrRx
  \/ IsrErrorEvents \/ IsrErrorIntr \/ IsrErrorReset
  \/ IsrExit
-----------------------------------------------------------------------------
HostStep ==
  \/ /\ ShiftWord
     /\ sent' = IF Writes(Head(cmds)) THEN sent + 1 ELSE sent
     /\ UNCHANGED <<asked, got, told>>
  \/ /\ EndSegment
     /\ UNCHANGED history

Hardware  == HostStep /\ UNCHANGED <<periVars, mainVars, isrVars>>
Disturb   == Errors /\ AccessError /\ UNCHANGED <<periVars, mainVars, isrVars, history>>

Init ==
  /\ HostInit
  /\ txwm \in TxWms /\ rxwm \in RxWms
  /\ state = "NONE" /\ txn = <<>> /\ cb = FALSE
  /\ scnt = 0 /\ txcnt = 0 /\ rxcnt = 0
  /\ init = FALSE /\ mpc = "app" /\ blocking = FALSE /\ seg \in Garbage
  /\ ipc = "out" /\ events = NoEvents
  /\ asked = <<>> /\ sent = 0 /\ got = 0 /\ told = FALSE

Next == AppCall \/ MainStep \/ IsrStep \/ Hardware \/ Disturb

Spec == Init /\ [][Next]_vars

(* The core executes instructions, the controller has its clock; the       *)
(* application owes nobody a call.                                         *)
FairSpec == Spec /\ WF_vars(MainStep) /\ WF_vars(IsrStep) /\ WF_vars(Hardware)
-----------------------------------------------------------------------------
DataOK ==
  /\ cmds \in Seq(Segments)
  /\ txq \in 0..TxDepth + 1 /\ rxq \in 0..RxDepth + 1
  /\ txwm \in TxWms /\ rxwm \in RxWms
  /\ state \in States /\ txn \in Txns \cup {<<>>}
  /\ scnt \in Nat /\ txcnt \in Nat /\ rxcnt \in Nat
  /\ mpc \in MainSteps /\ ipc \in IsrSteps
  /\ seg \in Segments
  /\ asked \in Txns \cup {<<>>} /\ sent \in Nat /\ got \in Nat

FlagsOK ==
  /\ busy \in BOOLEAN /\ err \in BOOLEAN
  /\ evtEn \in BOOLEAN /\ intrEn \in BOOLEAN
  /\ intr \in BOOLEAN /\ pend \in BOOLEAN /\ claimed \in BOOLEAN
  /\ cb \in BOOLEAN /\ init \in BOOLEAN /\ blocking \in BOOLEAN /\ told \in BOOLEAN
  /\ events \in Events

TypeOK == DataOK /\ FlagsOK
-----------------------------------------------------------------------------
(* scnt, the "counter to track segment to process", never runs past the    *)
(* segments of the transaction: no word of memory behind the array, or     *)
(* behind NULL, is ever sent as a command.  Like the other ones that say   *)
(* ~err it holds up to the first access error: nothing clears ERROR_STATUS *)
(* and the controller stands still from then on.                           *)
ScntInBounds == ~err => scnt <= Len(txn)

(* When the application may start a transfer, the one before it, finished, *)
(* reset, failed or timed out, has left nothing: no command or word in the *)
(* controller, no counter, segment or callback in spi_peripheral_t.        *)
NothingLeftOver ==
  ~err /\ MainRuns /\ mpc \in {"app", "launch"} /\ state # "BUSY" =>
    /\ cmds = <<>> /\ txq = 0 /\ rxq = 0
    /\ txn = <<>> /\ scnt = 0 /\ txcnt = 0 /\ rxcnt = 0 /\ ~cb

(* A transfer is DONE only when all its words were shifted out and all its *)
(* words received were stored.                                             *)
DoneMeansTransferred ==
  state = "DONE" /\ mpc \in {"app", "wait", "reset"} =>
    sent = TxLen(asked) /\ got = RxLen(asked)

(* A peripheral that is BUSY while the thread is outside the SDK, or waits *)
(* in it, has a transaction, and a segment of it was issued: somebody will *)
(* make it leave BUSY.                                                     *)
BusyHasTransaction ==
  MainRuns /\ mpc \in {"app", "wait"} /\ state = "BUSY" => txn # <<>> /\ scnt > 0

(* Every word taken from the application's buffer has been shifted out or  *)
(* waits in the controller, whoever of thread and handler put it there;    *)
(* every word taken from the controller is in the application's buffer.    *)
NoWordLost ==
  state = "BUSY" /\ mpc \notin {"txn", "swrst", "init"} =>
    txcnt = sent + txq /\ rxcnt = got

(* An event that is latched and enabled is never forgotten on its way to   *)
(* the core: it is pending, or the PLIC will look at it on completion.     *)
EventReachesCore == intr /\ intrEn => pend \/ claimed

(* The SDK implements the transfers of SpiTransfer.  A transfer begins     *)
(* with the call that is accepted; a reset takes effect with its first     *)
(* step, spi_reset_transaction.                                            *)
Status == CASE mpc = "launch" -> "BUSY"
            [] mpc \in {"swrst", "init"} -> "INIT"
            [] OTHER -> state
Owed(words) == IF Status \in {"BUSY", "DONE"} THEN words ELSE 0

Transfer == INSTANCE SpiTransfer WITH
  status <- Status,
  out <- Owed(TxLen(asked) - sent),
  in <- Owed(RxLen(asked) - got)

Implements == Transfer!Spec

(* Every transfer ends: although the controller announces levels only by   *)
(* their rising edge and the handler works from a snapshot of them, no     *)
(* watermark, ready or idle edge that the transfer needs is lost.  After   *)
(* an access error nobody announces anything: the error interrupt is not   *)
(* connected and such a transfer need not end.                             *)
TransferEnds == state = "BUSY" ~> state # "BUSY" \/ err

(* A blocking call returns, whatever happens to the controller, as long as *)
(* its timeout can expire.                                                 *)
WaitEnds == mpc = "wait" ~> mpc = "app"

(* The handler acknowledges what called it: interrupts never keep the      *)
(* thread from running for ever.                                           *)
NotStarved == []<>MainRuns
=============================================================================
