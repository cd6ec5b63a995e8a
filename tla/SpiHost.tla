------------------------------ MODULE SpiHost ------------------------------
(***************************************************************************)
(* The SPI host controller as its driver sees it: a queue of command       *)
(* segments, a transmit and a receive FIFO counted in words, a core that   *)
(* shifts the words of the segment at the head of the queue, and an event  *)
(* interrupt that latches the RISING EDGE of four levels (idle, ready,     *)
(* transmit watermark, receive watermark).  The words are counted, not     *)
(* named: the driver never looks at their contents.                        *)
(*                                                                         *)
(* The module also holds the two ways the event line reaches the core: the *)
(* fast interrupt controller (SPI flash, SPI host 1), which latches the    *)
(* line, and the PLIC (SPI host 2), whose gateway is deaf between a claim  *)
(* and the matching completion.                                            *)
(***************************************************************************)
EXTENDS Naturals, Sequences

CONSTANTS
  TxDepth,    \* words in the transmit FIFO (72 in the silicon)
  RxDepth,    \* words in the receive FIFO (64)
  CmdDepth,   \* segments in the command queue (4)
  Fic         \* TRUE: fast interrupt controller; FALSE: PLIC

ASSUME HostAssumption ==
  /\ TxDepth \in Nat \ {0}
  /\ RxDepth \in Nat \ {0}
  /\ CmdDepth \in Nat \ {0}
  /\ Fic \in BOOLEAN

VARIABLES
  cmds,       \* command queue; the head is the segment being shifted
  busy,       \* STATUS.active: the core's state machine is not idle
  txq,        \* words in the transmit FIFO and in the byte select behind it
  rxq,        \* words in the byte merge and in the receive FIFO behind it
  txwm, rxwm, \* CONTROL.tx_watermark, CONTROL.rx_watermark
  err,        \* some bit of ERROR_STATUS is set
  evtEn,      \* EVENT_ENABLE: the four triggering events, all or none
  intrEn,     \* INTR_ENABLE.spi_event
  intr,       \* INTR_STATE.spi_event
  pend,       \* the interrupt controller presents the interrupt to the core
  claimed     \* PLIC gateway: claimed and not yet completed

fifoVars == <<cmds, busy, txq, rxq>>
wmVars   == <<txwm, rxwm>>
enVars   == <<evtEn, intrEn>>
irqVars  == <<intr, pend, claimed>>
hostVars == <<fifoVars, wmVars, err, enVars, irqVars>>
-----------------------------------------------------------------------------
(* A segment moves n words in its direction.  *)
Dirs     == {"TX", "RX", "BIDIR", "DUMMY"}
Segments == [dir : Dirs, n : Nat]

Writes(seg) == seg.dir \in {"TX", "BIDIR"}
Reads(seg)  == seg.dir \in {"RX", "BIDIR"}

(* The segment being shifted has left the queue.  *)
Queued == IF busy THEN Len(cmds) - 1 ELSE Len(cmds)

(* STATUS.txqd and STATUS.rxqd count the FIFOs alone.  The byte select     *)
(* takes a word from the FIFO as soon as it is empty, the byte merge hands *)
(* a word over as soon as there is room.                                   *)
Txqd == IF txq > 0 THEN txq - 1 ELSE 0
Rxqd == IF rxq > RxDepth THEN RxDepth ELSE rxq

(* Mutant: the receive watermark is announced one word late. *)
RxWmLate == Rxqd > rxwm

Ready == Queued < CmdDepth
TxWm  == Txqd < txwm
RxWm  == Rxqd >= rxwm

(* A new segment leaves the idle state at once, unless its first transmit  *)
(* word is missing: the stall then freezes the core in its idle state.     *)
Startable == /\ cmds # <<>>
             /\ ~err
             /\ Writes(Head(cmds)) /\ Head(cmds).n > 0 => txq > 0

CoreStart == busy' = ((busy /\ cmds' # <<>>) \/ Startable')

(* INTR_STATE latches the rise of any enabled event level. *)
RiseOf(levelBefore, levelAfter) == ~levelBefore /\ levelAfter

EventRise == \/ RiseOf(~busy, ~busy')
             \/ RiseOf(Ready, Ready')
             \/ RiseOf(TxWm, TxWm')
             \/ RiseOf(RxWm, RxWm')

LatchEvent == intr' = (intr \/ (evtEn /\ EventRise))

Line == intr /\ intrEn

(* Both controllers set their pending bit from the level of the line. *)
LatchLine == pend' = (pend \/ (Line' /\ ~claimed'))
-----------------------------------------------------------------------------
(* The core shifts one word of the head segment, or stalls when there is   *)
(* no word to send or no room for the one received.                        *)
ShiftWord ==
  /\ busy /\ ~err
  /\ cmds # <<>> /\ Head(cmds).n > 0
  /\ Writes(Head(cmds)) => txq > 0
  /\ Reads(Head(cmds)) => rxq <= RxDepth
  /\ cmds' = [cmds EXCEPT ![1].n = @ - 1]
  /\ txq' = IF Writes(Head(cmds)) THEN txq - 1 ELSE txq
  /\ rxq' = IF Reads(Head(cmds)) THEN rxq + 1 ELSE rxq
  /\ UNCHANGED <<busy, wmVars, err, enVars, claimed>>
  /\ LatchEvent
  /\ LatchLine

(* The head segment is over: the core takes the next one or goes idle. *)
EndSegment ==
  /\ busy /\ ~err
  /\ cmds # <<>> /\ Head(cmds).n = 0
  /\ cmds' = Tail(cmds)
  /\ UNCHANGED <<txq, rxq, wmVars, err, enVars, claimed>>
  /\ CoreStart
  /\ LatchEvent
  /\ LatchLine

(* An access outside the driver (a DMA channel on the data window, say)    *)
(* overflows, underflows or misaddresses the controller.  ERROR_STATUS     *)
(* stays set until software clears it and freezes the core; the error      *)
(* interrupt line is not connected in this SoC.                            *)
AccessError ==
  /\ ~err
  /\ err' = TRUE
  /\ UNCHANGED <<fifoVars, wmVars, enVars, irqVars>>
-----------------------------------------------------------------------------
(* What the driver's register accesses do to the controller. *)

(* TXDATA: one word more in the transmit FIFO. *)
WriteTxData ==
  /\ txq' = txq + 1
  /\ UNCHANGED <<cmds, rxq, wmVars, err, enVars, claimed>>
  /\ CoreStart
  /\ LatchEvent
  /\ LatchLine

(* RXDATA: one word less in the receive FIFO. *)
ReadRxData ==
  /\ rxq' = rxq - 1
  /\ UNCHANGED <<cmds, busy, txq, wmVars, err, enVars, claimed>>
  /\ LatchEvent
  /\ LatchLine

(* COMMAND: one segment more in the command queue. *)
WriteCommand(seg) ==
  /\ cmds' = Append(cmds, seg)
  /\ UNCHANGED <<txq, rxq, wmVars, err, enVars, claimed>>
  /\ CoreStart
  /\ LatchEvent
  /\ LatchLine

(* CONTROL.sw_rst up and down: queue, FIFOs and core are cleared; the      *)
(* error and interrupt status registers are not.                           *)
SwReset ==
  /\ cmds' = <<>> /\ busy' = FALSE /\ txq' = 0 /\ rxq' = 0
  /\ UNCHANGED <<wmVars, err, enVars, claimed>>
  /\ LatchEvent
  /\ LatchLine

WriteEnables(evt, enable) ==
  /\ evtEn' = evt /\ intrEn' = enable
  /\ UNCHANGED <<fifoVars, wmVars, err, intr, claimed>>
  /\ LatchLine

WriteWatermarks(tx, rx) ==
  /\ txwm' = tx /\ rxwm' = rx
  /\ UNCHANGED <<fifoVars, err, enVars, claimed>>
  /\ LatchEvent
  /\ LatchLine

(* INTR_STATE is write-one-to-clear. *)
ClearEvent ==
  /\ intr' = FALSE
  /\ UNCHANGED <<fifoVars, wmVars, err, enVars, pend, claimed>>

(* The core vectors to the handler.  The fast controller's pending bit is  *)
(* cleared first and set again if the line is still up; the PLIC's is      *)
(* claimed.                                                                *)
TakeInterrupt ==
  /\ pend
  /\ pend' = (Fic /\ Line)
  /\ claimed' = ~Fic
  /\ UNCHANGED <<fifoVars, wmVars, err, enVars, intr>>

(* Mutant: the line is not looked at on completion. *)
CompleteInterruptBlind ==
  /\ claimed' = FALSE
  /\ UNCHANGED <<fifoVars, wmVars, err, enVars, intr, pend>>

(* The handler returns; the PLIC is told, and looks at the line again. *)
CompleteInterrupt ==
  /\ claimed' = FALSE
  /\ pend' = (pend \/ Line)
  /\ UNCHANGED <<fifoVars, wmVars, err, enVars, intr>>

HostInit ==
  /\ cmds = <<>> /\ busy = FALSE /\ txq = 0 /\ rxq = 0
  /\ err = FALSE /\ evtEn = FALSE /\ intrEn = FALSE
  /\ intr = FALSE /\ pend = FALSE /\ claimed = FALSE
=============================================================================
