-------------------------------- MODULE Dma --------------------------------
(***************************************************************************)
(* The DMA HAL (drivers/dma/dma.c) and the DMA SDK (sdk/dma/dma_sdk.c,     *)
(* dma_sdk.h) seen as a concurrent program: the thread that loads,         *)
(* launches, waits for and stops transactions on several channels, the two *)
(* fast interrupt handlers of the subsystem, the channels, and the fast    *)
(* interrupt controller between them.  What a transaction copies is the    *)
(* subject of DmaConfig; here a transaction is its channel, end event,     *)
(* mode, whether it has a window, and whether validation found it critical.*)
(*                                                                         *)
(* A thread step is one access to what the handlers or the channels also   *)
(* touch.  The core takes an enabled interrupt before it gets from one of  *)
(* these accesses to the next (dma_is_ready alone is a call compiled at    *)
(* O0, many times the latency of the interrupt controller).                *)
(***************************************************************************)
EXTENDS Integers

CONSTANTS
  N,         \* DMA_CH_NUM
  HpIndex,   \* DMA_HP_INTR_INDEX, -1 where it is not defined
  Limited,   \* DMA_NUM_HP_INTR is defined ...
  NumHp,     \* ... and its value
  Trans,     \* the transaction structures of the application
  NoTrans,   \* NULL
  Mixed      \* the application polls one channel while others rely on
             \* their interrupts

Channels == 0..N-1
Kinds == {"trans", "window"}
Ends == {"POLLING", "INTR", "INTR_WAIT"}
Modes == {"SINGLE", "CIRCULAR"}

ASSUME SizeAssumption ==
  /\ N \in Nat \ {0}
  /\ HpIndex \in -1..N-1
  /\ NumHp \in 0..65535
ASSUME OptionAssumption == Limited \in BOOLEAN /\ Mixed \in BOOLEAN
ASSUME TransAssumption ==
  /\ Trans \subseteq [channel : Channels, end : Ends, mode : Modes,
                      window : BOOLEAN, critical : BOOLEAN]
  /\ NoTrans \notin Trans

VARIABLES
  (* the channels' registers *)
  running,    \* not STATUS.READY
  mode,       \* MODE
  enabled,    \* INTERRUPT_EN, one bit per kind
  ifr,        \* TRANSACTION_IFR and WINDOW_IFR
  (* dma_subsys_per, and the counters of high-priority interrupts *)
  trans,      \* the loaded transaction
  intrFlag,
  hpCounter,
  (* the core and the fast interrupt controller *)
  mie,        \* the two DMA bits of the MIE CSR (always changed together)
  gie,        \* MSTATUS.MIE
  pend,       \* FAST_INTR_PENDING
  (* the handler that runs, if any, and the channel it visits next *)
  isr, isrAt,
  (* the thread: where it is, the transaction and the channel of its call *)
  pc, cur, chan,
  finished    \* the channel has ended a transaction since dma_launch was
              \* last called for it

chVars   == <<running, mode, enabled, ifr>>
drvVars  == <<trans, intrFlag, hpCounter>>
cpuVars  == <<mie, gie, pend>>
isrVars  == <<isr, isrAt>>
pcVars   == <<pc, cur, chan>>
vars == <<chVars, drvVars, cpuVars, isrVars, pcVars, finished>>

Off == [k \in Kinds |-> FALSE]
Line(k) == \E c \in Channels : ifr[c][k]
Lines == [k \in Kinds |-> Line(k)]

(***************************************************************************)
(* The channels and the interrupt controller (hardware).                   *)
(***************************************************************************)

(* A transaction ends.  In circular mode the channel starts over at once.  *)
(* The flag of the interrupt is set only while the interrupt is enabled.   *)
Complete(c) ==
  /\ running[c]
  /\ running' = [running EXCEPT ![c] = (mode[c] = "CIRCULAR")]
  /\ ifr' = [ifr EXCEPT ![c] =
              [k \in Kinds |-> ifr[c][k] \/ (k = "trans" /\ enabled[c][k])]]
  /\ finished' = [finished EXCEPT ![c] = TRUE]
  /\ UNCHANGED <<mode, enabled, drvVars, cpuVars, isrVars, pcVars>>

(* Another window of a running transaction has been sent. *)
Window(c) ==
  /\ running[c] /\ enabled[c]["window"]
  /\ ifr' = [ifr EXCEPT ![c] = [@ EXCEPT !["window"] = TRUE]]
  /\ UNCHANGED <<running, mode, enabled, drvVars, cpuVars, isrVars, pcVars,
                 finished>>

(* All pending bits share a write enable: while any line is high, every    *)
(* bit follows its line.                                                   *)
FicSample ==
  /\ \E k \in Kinds : Line(k)
  /\ pend' = Lines
  /\ UNCHANGED <<chVars, drvVars, mie, gie, isrVars, pcVars, finished>>

(***************************************************************************)
(* The handlers: fic_irq_dma_done and fic_irq_dma_window.                  *)
(***************************************************************************)

(* The core vectors to a handler; the wrapper clears its pending bit. *)
Trap(k) ==
  /\ isr = "none" /\ gie /\ mie /\ pend[k]
  /\ pend' = [Lines EXCEPT ![k] = FALSE]
  /\ isr' = k /\ isrAt' = 0
  /\ UNCHANGED <<chVars, drvVars, mie, gie, pcVars, finished>>

(* A serviced channel of high priority ends the loop over the channels,    *)
(* unless DMA_NUM_HP_INTR of them have done so since the last serviced     *)
(* channel of low priority.                                                *)
EndsLoop(c, k) ==
  c <= HpIndex /\ (Limited => hpCounter[k] < NumHp)

CountHp_NoCount(c, k) ==
  IF Limited /\ HpIndex # -1 /\ c > HpIndex THEN 0 ELSE hpCounter[k]

CountHp_NoLimit(c, k) ==
  IF ~Limited \/ HpIndex = -1 THEN hpCounter[k]
  ELSE IF c > HpIndex THEN 0 ELSE hpCounter[k] + 1

CountHp(c, k) ==
  IF ~Limited \/ HpIndex = -1 THEN hpCounter[k]
  ELSE IF EndsLoop(c, k) THEN hpCounter[k] + 1
  ELSE IF c > HpIndex THEN 0 ELSE hpCounter[k]

(* Reading a flag clears it, while its interrupt is enabled. *)
ReadIfr(c, k) ==
  ifr' = [ifr EXCEPT ![c] = [ifr[c] EXCEPT ![k] = ifr[c][k] /\ ~enabled[c][k]]]

Advance(c) ==
  IF c = N - 1 THEN isr' = "none" /\ isrAt' = 0
               ELSE isr' = isr /\ isrAt' = c + 1

(* The loop finds the flag of channel c high: dma_intr_handler_trans_done  *)
(* or dma_intr_handler_window_done (weak, and empty) is called.            *)
Service(c, k) ==
  /\ isr = k /\ isrAt = c
  /\ ifr[c][k]
  /\ ReadIfr(c, k)
  /\ intrFlag' = IF k = "trans" THEN [intrFlag EXCEPT ![c] = TRUE] ELSE intrFlag
  /\ hpCounter' = [hpCounter EXCEPT ![k] = CountHp(c, k)]
  /\ IF EndsLoop(c, k) THEN isr' = "none" /\ isrAt' = 0 ELSE Advance(c)
  /\ UNCHANGED <<running, mode, enabled, trans, cpuVars, pcVars, finished>>

(* The loop finds the flag low. *)
Skip(c, k) ==
  /\ isr = k /\ isrAt = c
  /\ ~ifr[c][k]
  /\ Advance(c)
  /\ UNCHANGED <<chVars, drvVars, cpuVars, pcVars, finished>>

Handler == \E c \in Channels, k \in Kinds : Service(c, k) \/ Skip(c, k)

(***************************************************************************)
(* The thread.                                                             *)
(***************************************************************************)
Interrupted == isr # "none" \/ (gie /\ mie /\ \E k \in Kinds : pend[k] \/ Line(k))

At(l) == pc = l /\ ~Interrupted

Return == pc' = "idle" /\ cur' = NoTrans /\ chan' = 0

Goto(l) == pc' = l /\ UNCHANGED <<cur, chan>>

(* Channels whose interrupt the application waits for. *)
InFlight == {c \in Channels : running[c] /\ enabled[c]["trans"]}

(* dma_init.  It neither stops a channel nor clears an interrupt flag: the *)
(* caller must not wait for any.                                           *)
InitDma ==
  /\ InFlight = {}
  /\ trans' = [c \in Channels |-> NoTrans]
  /\ mode' = [c \in Channels |-> "SINGLE"]
  /\ enabled' = [c \in Channels |-> Off]
  /\ UNCHANGED <<running, ifr, intrFlag, hpCounter>>

CallInit ==
  /\ At("idle")
  /\ InitDma
  /\ UNCHANGED <<cpuVars, isrVars, pcVars, finished>>

(* dma_sdk_init *)
CallSdkInit ==
  /\ At("idle")
  /\ InitDma
  /\ gie' = TRUE /\ mie' = TRUE
  /\ UNCHANGED <<pend, isrVars, pcVars, finished>>

(* dma_load_transaction.  The transaction is refused, and the loaded one   *)
(* forgotten, if it holds a critical error; it is refused while the        *)
(* channel runs.                                                           *)
CallLoad(t) ==
  /\ At("idle")
  /\ t.end = "POLLING" => Mixed \/ InFlight = {}
  /\ IF t.critical
     THEN /\ trans' = [trans EXCEPT ![t.channel] = NoTrans]
          /\ UNCHANGED pcVars
     ELSE IF running[t.channel]
     THEN UNCHANGED <<trans, pcVars>>
     ELSE /\ trans' = [trans EXCEPT ![t.channel] = t]
          /\ pc' = "load_disable" /\ cur' = t /\ chan' = t.channel
  /\ UNCHANGED <<chVars, intrFlag, hpCounter, cpuVars, isrVars, finished>>

(* INTERRUPT_EN = INTR_EN_NONE *)
LoadDisable ==
  /\ At("load_disable")
  /\ enabled' = [enabled EXCEPT ![chan] = Off]
  /\ Goto("load_mask")
  /\ UNCHANGED <<running, mode, ifr, drvVars, cpuVars, isrVars, finished>>

(* The MIE bits are cleared, for every channel.  A polled transaction      *)
(* leaves them so; the rest of its configuration is not shared.            *)
LoadMask ==
  /\ At("load_mask")
  /\ mie' = FALSE
  /\ IF cur.end = "POLLING"
     THEN /\ mode' = [mode EXCEPT ![chan] = cur.mode]
          /\ Return
     ELSE mode' = mode /\ Goto("load_gie")
  /\ UNCHANGED <<running, enabled, ifr, drvVars, gie, pend, isrVars, finished>>

LoadGie ==
  /\ At("load_gie")
  /\ gie' = TRUE
  /\ Goto("load_unmask")
  /\ UNCHANGED <<chVars, drvVars, mie, pend, isrVars, finished>>

LoadUnmask ==
  /\ At("load_unmask")
  /\ mie' = TRUE
  /\ Goto("load_enable")
  /\ UNCHANGED <<chVars, drvVars, gie, pend, isrVars, finished>>

LoadEnable ==
  /\ At("load_enable")
  /\ enabled' = [enabled EXCEPT ![chan] =
                   [k \in Kinds |-> k = "trans" \/ cur.window]]
  /\ mode' = [mode EXCEPT ![chan] = cur.mode]
  /\ Return
  /\ UNCHANGED <<running, ifr, drvVars, cpuVars, isrVars, finished>>

CallLaunch_KeepFlag(t) ==
  /\ At("idle")
  /\ enabled[t.channel]["trans"] => Mixed \/ mie
  /\ IF trans[t.channel] # t \/ running[t.channel]
     THEN UNCHANGED <<finished, pcVars>>
     ELSE /\ finished' = [finished EXCEPT ![t.channel] = FALSE]
          /\ pc' = "launch_start" /\ cur' = t /\ chan' = t.channel
  /\ UNCHANGED <<chVars, drvVars, cpuVars, isrVars>>

(* dma_launch: the structure must be the loaded one, and the channel ready.*)
CallLaunch(t) ==
  /\ At("idle")
  /\ enabled[t.channel]["trans"] => Mixed \/ mie
  /\ IF trans[t.channel] # t \/ running[t.channel]
     THEN UNCHANGED <<intrFlag, finished, pcVars>>
     ELSE /\ intrFlag' = [intrFlag EXCEPT ![t.channel] = FALSE]
          /\ finished' = [finished EXCEPT ![t.channel] = FALSE]
          /\ pc' = "launch_start" /\ cur' = t /\ chan' = t.channel
  /\ UNCHANGED <<chVars, trans, hpCounter, cpuVars, isrVars>>

(* SIZE_D1 is written: the channel starts. *)
Start(c) == running' = [running EXCEPT ![c] = TRUE]

LaunchStart ==
  /\ At("launch_start")
  /\ Start(chan)
  /\ IF cur.end = "INTR_WAIT" THEN Goto("launch_check") ELSE Return
  /\ UNCHANGED <<mode, enabled, ifr, drvVars, cpuVars, isrVars, finished>>

(* while (... intrFlag != 0) wait_for_interrupt(); *)
LaunchCheck ==
  /\ At("launch_check")
  /\ IF intrFlag[chan] THEN Goto("launch_wfi") ELSE Return
  /\ UNCHANGED <<chVars, drvVars, cpuVars, isrVars, finished>>

(* The core sleeps in wfi until an interrupt enabled in MIE is pending.    *)
(* Here MSTATUS.MIE is set: waking up is taking the interrupt.             *)
Wakes == mie /\ \E k \in Kinds : pend[k]

LaunchWfi(k) ==
  /\ pc = "launch_wfi" /\ Goto("launch_check")
  /\ isr = "none" /\ gie /\ mie /\ pend[k]
  /\ pend' = [Lines EXCEPT ![k] = FALSE]
  /\ isr' = k /\ isrAt' = 0
  /\ UNCHANGED <<chVars, drvVars, mie, gie, finished>>

(* dma_stop_circular *)
CallStop(c) ==
  /\ At("idle")
  /\ mode' = [mode EXCEPT ![c] = "SINGLE"]
  /\ UNCHANGED <<running, enabled, ifr, drvVars, cpuVars, isrVars, pcVars,
                 finished>>

(* dma_copy_async, dma_fill_async and the first half of dma_copy, dma_fill *)
(* and dma_copy_to_addr: the registers are written past the HAL.  The      *)
(* functions look neither whether the channel is ready nor whether         *)
(* dma_sdk_init was called: the caller must.                               *)
CallCopy(c) ==
  /\ At("idle")
  /\ ~running[c] /\ mie
  /\ enabled' = [enabled EXCEPT ![c] = [k \in Kinds |-> k = "trans"]]
  /\ mode' = [mode EXCEPT ![c] = "SINGLE"]
  /\ Start(c)
  /\ UNCHANGED <<ifr, drvVars, cpuVars, isrVars, pcVars, finished>>

(* dma_wait and DMA_WAIT: while the channel is not ready, sleep with       *)
(* interrupts globally disabled after a second look.                       *)
CallWait(c) ==
  /\ At("idle")
  /\ mie /\ (running[c] => enabled[c]["trans"])
  /\ pc' = "wait_check" /\ chan' = c /\ UNCHANGED cur
  /\ UNCHANGED <<chVars, drvVars, cpuVars, isrVars, finished>>

WaitCheck_NoMask ==
  /\ At("wait_check")
  /\ IF running[chan] THEN Goto("wait_recheck") ELSE Return
  /\ UNCHANGED <<chVars, drvVars, cpuVars, isrVars, finished>>

WaitCheck ==
  /\ At("wait_check")
  /\ IF running[chan] THEN gie' = FALSE /\ Goto("wait_recheck")
                      ELSE gie' = gie /\ Return
  /\ UNCHANGED <<chVars, drvVars, mie, pend, isrVars, finished>>

WaitRecheck ==
  /\ At("wait_recheck")
  /\ Goto(IF running[chan] THEN "wait_wfi" ELSE "wait_unmask")
  /\ UNCHANGED <<chVars, drvVars, cpuVars, isrVars, finished>>

WaitWfi ==
  /\ At("wait_wfi") /\ Wakes
  /\ Goto("wait_unmask")
  /\ UNCHANGED <<chVars, drvVars, cpuVars, isrVars, finished>>

WaitUnmask_Missing ==
  /\ At("wait_unmask")
  /\ Goto("wait_check")
  /\ UNCHANGED <<chVars, drvVars, cpuVars, isrVars, finished>>

WaitUnmask ==
  /\ At("wait_unmask")
  /\ gie' = TRUE
  /\ Goto("wait_check")
  /\ UNCHANGED <<chVars, drvVars, mie, pend, isrVars, finished>>

Labels == {"idle", "load_disable", "load_mask", "load_gie", "load_unmask",
           "load_enable", "launch_start", "launch_check", "launch_wfi",
           "wait_check", "wait_recheck", "wait_wfi", "wait_unmask"}

Calls ==
  \/ CallInit \/ CallSdkInit
  \/ \E t \in Trans : CallLoad(t) \/ CallLaunch(t)
  \/ \E c \in Channels : CallStop(c) \/ CallCopy(c) \/ CallWait(c)

(* A step of a call that has been made. *)
Proceed ==
  \/ LoadDisable \/ LoadMask \/ LoadGie \/ LoadUnmask \/ LoadEnable
  \/ LaunchStart \/ LaunchCheck \/ \E k \in Kinds : LaunchWfi(k)
  \/ WaitCheck \/ WaitRecheck \/ WaitWfi \/ WaitUnmask

Next ==
  \/ \E c \in Channels : Complete(c) \/ Window(c)
  \/ FicSample
  \/ \E k \in Kinds : Trap(k)
  \/ Handler
  \/ Calls
  \/ Proceed

Init ==
  /\ running = [c \in Channels |-> FALSE]
  /\ mode = [c \in Channels |-> "SINGLE"]
  /\ enabled = [c \in Channels |-> Off]
  /\ ifr = [c \in Channels |-> Off]
  /\ trans = [c \in Channels |-> NoTrans]
  /\ intrFlag = [c \in Channels |-> FALSE]
  /\ hpCounter = [k \in Kinds |-> 0]
  /\ mie = FALSE /\ gie = FALSE /\ pend = Off
  /\ isr = "none" /\ isrAt = 0
  /\ pc = "idle" /\ cur = NoTrans /\ chan = 0
  /\ finished = [c \in Channels |-> FALSE]

Spec == Init /\ [][Next]_vars

(* A transaction ends, the controller samples, a handler and the thread    *)
(* run on.  Between two interrupts of one kind the other kind's handler    *)
(* gets its turn: windows and transactions take longer than the handlers.  *)
Fairness ==
  /\ \A c \in Channels : WF_vars(Complete(c))
  /\ WF_vars(FicSample)
  /\ WF_vars(Handler)
  /\ \A k \in Kinds : SF_vars(Trap(k) \/ LaunchWfi(k))
  /\ WF_vars(Proceed)

FairSpec == Spec /\ Fairness

(***************************************************************************)
(* Properties.                                                             *)
(***************************************************************************)
TypeOK ==
  /\ running \in [Channels -> BOOLEAN]
  /\ mode \in [Channels -> Modes]
  /\ enabled \in [Channels -> [Kinds -> BOOLEAN]]
  /\ ifr \in [Channels -> [Kinds -> BOOLEAN]]
  /\ trans \in [Channels -> Trans \cup {NoTrans}]
  /\ intrFlag \in [Channels -> BOOLEAN]
  /\ hpCounter \in [Kinds -> 0..NumHp]
  /\ mie \in BOOLEAN /\ gie \in BOOLEAN
  /\ pend \in [Kinds -> BOOLEAN]
  /\ isr \in Kinds \cup {"none"} /\ isrAt \in Channels
  /\ pc \in Labels /\ cur \in Trans \cup {NoTrans} /\ chan \in Channels
  /\ finished \in [Channels -> BOOLEAN]

(* A raised interrupt flag can be acknowledged: the hardware clears it on  *)
(* read only while the interrupt is enabled, so a flag left behind by      *)
(* dma_load_transaction's INTERRUPT_EN = 0 or by dma_init would call the   *)
(* handler over and over.                                                  *)
FlagsCanBeAcknowledged ==
  \A c \in Channels, k \in Kinds : ifr[c][k] => enabled[c][k]

(* intrFlag is about the transaction launched last: an interrupt of an     *)
(* earlier one on the channel never sets it after dma_launch cleared it.   *)
FlagIsFresh == \A c \in Channels : intrFlag[c] => finished[c]

(* Every raised interrupt flag is serviced, on channels of low priority    *)
(* too while those of high priority keep interrupting (DMA_NUM_HP_INTR).   *)
EveryChannelServiced ==
  \A c \in Channels, k \in Kinds : ifr[c][k] ~> ~ifr[c][k]

(* dma_load_transaction returns, and dma_wait once its channel has stopped:*)
(* the interrupts of the other channels, the masking of them on the way,   *)
(* and an interrupt between the test of the status and wfi never hold the  *)
(* thread up for ever.  (A circular transaction may take all of the core's *)
(* time, or never end.)                                                    *)
Blocking == pc \in {"load_disable", "load_mask", "load_gie", "load_unmask",
                    "load_enable", "wait_check", "wait_recheck", "wait_wfi",
                    "wait_unmask"}
CallsReturn ==
  Blocking /\ (\A c \in Channels : mode[c] = "SINGLE") ~> ~Blocking

(* dma_launch of a transaction that ends with INTR_WAIT returns only when  *)
(* the interrupt has arrived.                                              *)
LaunchWaits ==
  [][pc = "launch_check" /\ pc' = "idle" => intrFlag[chan]]_vars
=============================================================================
