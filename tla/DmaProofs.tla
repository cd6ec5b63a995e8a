----------------------------- MODULE DmaProofs -----------------------------
(***************************************************************************)
(* Proofs about Dma, for every number of channels, every set of            *)
(* transactions and every setting of the high-priority interrupts:         *)
(*   - type correctness;                                                   *)
(*   - for applications that do not mix polling with interrupts, no        *)
(*     interrupt flag is stranded and intrFlag is never stale.             *)
(***************************************************************************)
EXTENDS Dma, TLAPS

(* The steps at which the call's transaction is read. *)
UsesCur == pc \in {"load_disable", "load_mask", "load_gie", "load_unmask",
                   "load_enable", "launch_start"}
CurIsTrans == UsesCur => cur \in Trans

(***************************************************************************)
(* Types.                                                                  *)
(***************************************************************************)
TypeInv == TypeOK /\ CurIsTrans

(* What the fields of a transaction are. *)
LEMMA TransFields ==
  ASSUME NEW t \in Trans
  PROVE  /\ t.channel \in Channels /\ t.end \in Ends /\ t.mode \in Modes
         /\ t.window \in BOOLEAN /\ t.critical \in BOOLEAN
BY TransAssumption

LEMMA ChannelZero == 0 \in Channels
BY SizeAssumption DEF Channels

LEMMA InitTypes == Init => TypeInv
<1> SUFFICES ASSUME Init PROVE TypeInv
  OBVIOUS
<1>1. /\ running \in [Channels -> BOOLEAN] /\ enabled \in [Channels -> [Kinds -> BOOLEAN]]
      /\ ifr \in [Channels -> [Kinds -> BOOLEAN]] /\ intrFlag \in [Channels -> BOOLEAN]
      /\ mie \in BOOLEAN /\ gie \in BOOLEAN /\ pend \in [Kinds -> BOOLEAN]
      /\ finished \in [Channels -> BOOLEAN]
  BY Zenon DEF Init, Off
<1>2. /\ mode \in [Channels -> Modes] /\ trans \in [Channels -> Trans \cup {NoTrans}]
      /\ isr \in Kinds \cup {"none"} /\ pc \in Labels /\ cur \in Trans \cup {NoTrans}
      /\ isrAt \in Channels /\ chan \in Channels
  BY ChannelZero DEF Init, Modes, Labels
<1>3. hpCounter \in [Kinds -> 0..NumHp]
  BY SizeAssumption DEF Init
<1>4. CurIsTrans
  BY DEF Init, CurIsTrans, UsesCur
<1> QED BY <1>1, <1>2, <1>3, <1>4 DEF TypeInv, TypeOK

(* The counters of high-priority interrupts stay below DMA_NUM_HP_INTR. *)
LEMMA CountHpType ==
  ASSUME TypeOK, NEW c \in Channels, NEW k \in Kinds
  PROVE  CountHp(c, k) \in 0..NumHp
<1>1. hpCounter[k] \in 0..NumHp
  BY DEF TypeOK
<1> USE SizeAssumption, OptionAssumption DEF Channels
<1>2. CASE EndsLoop(c, k) /\ Limited
  BY <1>1, <1>2 DEF CountHp, EndsLoop
<1>3. CASE ~EndsLoop(c, k) \/ ~Limited
  BY <1>1, <1>3 DEF CountHp
<1> QED BY <1>2, <1>3

LEMMA AdvanceType ==
  ASSUME TypeOK, NEW c \in Channels, isr \in Kinds, Advance(c)
  PROVE  isr' \in Kinds \cup {"none"} /\ isrAt' \in Channels
BY SizeAssumption DEF Advance, Channels

(* What the channels do to the types. *)
LEMMA HardwareTypes ==
  ASSUME TypeInv, NEW c \in Channels, Complete(c) \/ Window(c) \/ FicSample
  PROVE  TypeInv'
<1> USE DEF TypeInv, TypeOK, CurIsTrans, UsesCur
<1>1. CASE Complete(c)
  <2>1. running' \in [Channels -> BOOLEAN]
    BY <1>1, Zenon DEF Complete
  <2>2. ifr' \in [Channels -> [Kinds -> BOOLEAN]]
    BY <1>1 DEF Complete, Kinds
  <2>3. finished' \in [Channels -> BOOLEAN]
    BY <1>1 DEF Complete
  <2> QED BY <1>1, <2>1, <2>2, <2>3 DEF Complete, drvVars, cpuVars, isrVars, pcVars
<1>2. CASE Window(c)
  <2>1. ifr' \in [Channels -> [Kinds -> BOOLEAN]]
    BY <1>2 DEF Window, Kinds
  <2> QED BY <1>2, <2>1 DEF Window, drvVars, cpuVars, isrVars, pcVars
<1>3. CASE FicSample
  <2>1. pend' \in [Kinds -> BOOLEAN]
    BY <1>3, Zenon DEF FicSample, Lines, Line
  <2> QED BY <1>3, <2>1 DEF FicSample, chVars, drvVars, isrVars, pcVars
<1> QED BY <1>1, <1>2, <1>3

(* What the handlers do to the types. *)
LEMMA HandlerTypes ==
  ASSUME TypeInv, NEW c \in Channels, NEW k \in Kinds,
         Trap(k) \/ Service(c, k) \/ Skip(c, k)
  PROVE  TypeInv'
<1> USE DEF TypeInv, TypeOK, CurIsTrans, UsesCur
<1>1. CASE Trap(k)
  <2>1. pend' \in [Kinds -> BOOLEAN]
    BY <1>1, Zenon DEF Trap, Lines, Line
  <2> QED BY <1>1, <2>1, ChannelZero DEF Trap, chVars, drvVars, pcVars
<1>2. CASE Service(c, k)
  <2>1. ifr' \in [Channels -> [Kinds -> BOOLEAN]]
    BY <1>2 DEF Service, ReadIfr
  <2>2. intrFlag' \in [Channels -> BOOLEAN]
    BY <1>2 DEF Service
  <2>3. hpCounter' \in [Kinds -> 0..NumHp]
    BY <1>2, CountHpType DEF Service
  <2>4. isr' \in Kinds \cup {"none"} /\ isrAt' \in Channels
    BY <1>2, AdvanceType, ChannelZero DEF Service
  <2> QED BY <1>2, <2>1, <2>2, <2>3, <2>4 DEF Service, cpuVars, pcVars
<1>3. CASE Skip(c, k)
  <2>1. isr' \in Kinds \cup {"none"} /\ isrAt' \in Channels
    BY <1>3, AdvanceType DEF Skip
  <2> QED BY <1>3, <2>1 DEF Skip, chVars, drvVars, cpuVars, pcVars
<1> QED BY <1>1, <1>2, <1>3

(* What the calls of the application do to the types. *)
LEMMA CallTypes == ASSUME TypeInv, Calls PROVE TypeInv'
<1> USE DEF TypeInv, TypeOK, CurIsTrans, UsesCur
<1>1. ASSUME InitDma
      PROVE  /\ trans' \in [Channels -> Trans \cup {NoTrans}]
             /\ mode' \in [Channels -> Modes]
             /\ enabled' \in [Channels -> [Kinds -> BOOLEAN]]
             /\ UNCHANGED <<running, ifr, intrFlag, hpCounter>>
  BY <1>1, Zenon DEF InitDma, Modes, Off
<1>2. CASE CallInit
  BY <1>1, <1>2 DEF CallInit, cpuVars, isrVars, pcVars
<1>3. CASE CallSdkInit
  <2>1. mie' \in BOOLEAN /\ gie' \in BOOLEAN
    BY <1>3, Zenon DEF CallSdkInit
  <2> QED BY <1>1, <1>3, <2>1 DEF CallSdkInit, isrVars, pcVars
<1>4. ASSUME NEW t \in Trans, CallLoad(t) PROVE TypeInv'
  <2>1. t.channel \in Channels
    BY TransFields
  <2>2. trans' \in [Channels -> Trans \cup {NoTrans}]
    BY <1>4, <2>1 DEF CallLoad
  <2>3. /\ pc' \in Labels /\ cur' \in Trans \cup {NoTrans} /\ chan' \in Channels
        /\ CurIsTrans'
    BY <1>4, <2>1 DEF CallLoad, pcVars, Labels
  <2> QED BY <1>4, <2>2, <2>3 DEF CallLoad, chVars, cpuVars, isrVars
<1>5. ASSUME NEW t \in Trans, CallLaunch(t) PROVE TypeInv'
  <2>1. t.channel \in Channels
    BY TransFields
  <2>2. intrFlag' \in [Channels -> BOOLEAN] /\ finished' \in [Channels -> BOOLEAN]
    BY <1>5, <2>1 DEF CallLaunch
  <2>3. /\ pc' \in Labels /\ cur' \in Trans \cup {NoTrans} /\ chan' \in Channels
        /\ CurIsTrans'
    BY <1>5, <2>1 DEF CallLaunch, pcVars, Labels
  <2> QED BY <1>5, <2>2, <2>3 DEF CallLaunch, chVars, cpuVars, isrVars
<1>6. ASSUME NEW c \in Channels, CallStop(c) PROVE TypeInv'
  <2>1. mode' \in [Channels -> Modes]
    BY <1>6 DEF CallStop, Modes
  <2> QED BY <1>6, <2>1 DEF CallStop, drvVars, cpuVars, isrVars, pcVars
<1>7. ASSUME NEW c \in Channels, CallCopy(c) PROVE TypeInv'
  <2>1. mode' \in [Channels -> Modes]
    BY <1>7 DEF CallCopy, Modes
  <2>2. running' \in [Channels -> BOOLEAN]
    BY <1>7, Zenon DEF CallCopy, Start
  <2>3. enabled' \in [Channels -> [Kinds -> BOOLEAN]]
    BY <1>7, Zenon DEF CallCopy
  <2> QED BY <1>7, <2>1, <2>2, <2>3 DEF CallCopy, drvVars, cpuVars, isrVars, pcVars
<1>8. ASSUME NEW c \in Channels, CallWait(c) PROVE TypeInv'
  BY <1>8 DEF CallWait, Labels, chVars, drvVars, cpuVars, isrVars
<1> QED BY <1>2, <1>3, <1>4, <1>5, <1>6, <1>7, <1>8 DEF Calls

(* What the steps of a call do to the types. *)
LEMMA ProceedTypes == ASSUME TypeInv, Proceed PROVE TypeInv'
<1> USE DEF TypeInv, TypeOK, CurIsTrans, UsesCur
<1>1. CASE LoadDisable
  <2>1. enabled' \in [Channels -> [Kinds -> BOOLEAN]]
    BY <1>1, Zenon DEF LoadDisable, Off
  <2>2. pc = "load_disable" /\ pc' = "load_mask" /\ UNCHANGED <<cur, chan>>
    BY <1>1 DEF LoadDisable, At, Goto
  <2> QED BY <1>1, <2>1, <2>2 DEF LoadDisable, drvVars, cpuVars, isrVars, Labels
<1>2. CASE LoadMask
  <2>1. mie' \in BOOLEAN
    BY <1>2, Zenon DEF LoadMask
  <2>2. cur \in Trans
    BY <1>2 DEF LoadMask, At
  <2>3. mode' \in [Channels -> Modes]
    BY <1>2, <2>2, TransFields DEF LoadMask
  <2>4. /\ pc' \in Labels /\ cur' \in Trans \cup {NoTrans} /\ chan' \in Channels
        /\ CurIsTrans'
    BY <1>2, <2>2, ChannelZero DEF LoadMask, Goto, Return, Labels
  <2> QED BY <1>2, <2>1, <2>3, <2>4 DEF LoadMask, drvVars, isrVars
<1>3. CASE LoadGie
  <2>1. gie' \in BOOLEAN
    BY <1>3, Zenon DEF LoadGie
  <2> QED BY <1>3, <2>1 DEF LoadGie, At, Goto, Labels, chVars, drvVars, isrVars
<1>4. CASE LoadUnmask
  <2>1. mie' \in BOOLEAN
    BY <1>4, Zenon DEF LoadUnmask
  <2> QED BY <1>4, <2>1 DEF LoadUnmask, At, Goto, Labels, chVars, drvVars, isrVars
<1>5. CASE LoadEnable
  <2>1. cur \in Trans
    BY <1>5 DEF LoadEnable, At
  <2>2. mode' \in [Channels -> Modes]
    BY <1>5, <2>1, TransFields DEF LoadEnable
  <2>3. enabled' \in [Channels -> [Kinds -> BOOLEAN]]
    BY <1>5, Zenon DEF LoadEnable
  <2>4. /\ pc' \in Labels /\ cur' \in Trans \cup {NoTrans} /\ chan' \in Channels
        /\ CurIsTrans'
    BY <1>5, ChannelZero DEF LoadEnable, Return, Labels
  <2> QED BY <1>5, <2>2, <2>3, <2>4 DEF LoadEnable, drvVars, cpuVars, isrVars
<1>6. CASE LaunchStart
  <2>1. running' \in [Channels -> BOOLEAN]
    BY <1>6, Zenon DEF LaunchStart, Start
  <2>2. /\ pc' \in Labels /\ cur' \in Trans \cup {NoTrans} /\ chan' \in Channels
        /\ CurIsTrans'
    BY <1>6, ChannelZero DEF LaunchStart, Return, Goto, Labels
  <2> QED BY <1>6, <2>1, <2>2 DEF LaunchStart, drvVars, cpuVars, isrVars
<1>7. CASE LaunchCheck
  BY <1>7, ChannelZero DEF LaunchCheck, Return, Goto, Labels, chVars, drvVars,
                           cpuVars, isrVars
<1>8. ASSUME NEW k \in Kinds, LaunchWfi(k) PROVE TypeInv'
  <2>1. pend' \in [Kinds -> BOOLEAN]
    BY <1>8, Zenon DEF LaunchWfi, Lines, Line
  <2> QED BY <1>8, <2>1, ChannelZero DEF LaunchWfi, Goto, Labels, chVars, drvVars
<1>9. CASE WaitCheck
  <2>1. gie' \in BOOLEAN
    BY <1>9, Zenon DEF WaitCheck
  <2> QED BY <1>9, <2>1, ChannelZero DEF WaitCheck, Return, Goto, Labels, chVars,
                                         drvVars, isrVars
<1>10. CASE WaitRecheck
  BY <1>10 DEF WaitRecheck, Goto, Labels, chVars, drvVars, cpuVars, isrVars
<1>11. CASE WaitWfi
  BY <1>11 DEF WaitWfi, Goto, Labels, chVars, drvVars, cpuVars, isrVars
<1>12. CASE WaitUnmask
  <2>1. gie' \in BOOLEAN
    BY <1>12, Zenon DEF WaitUnmask
  <2> QED BY <1>12, <2>1 DEF WaitUnmask, Goto, Labels, chVars, drvVars, isrVars
<1> QED BY <1>1, <1>2, <1>3, <1>4, <1>5, <1>6, <1>7, <1>8, <1>9, <1>10, <1>11,
           <1>12 DEF Proceed

LEMMA NextTypes == ASSUME TypeInv, [Next]_vars PROVE TypeInv'
<1>1. ASSUME NEW c \in Channels, Complete(c) \/ Window(c) PROVE TypeInv'
  BY <1>1, HardwareTypes
<1>2. CASE FicSample
  BY <1>2, HardwareTypes, ChannelZero
<1>3. ASSUME NEW k \in Kinds, Trap(k) PROVE TypeInv'
  BY <1>3, HandlerTypes, ChannelZero
<1>4. CASE Handler
  BY <1>4, HandlerTypes DEF Handler
<1>5. CASE Calls
  BY <1>5, CallTypes
<1>6. CASE Proceed
  BY <1>6, ProceedTypes
<1>7. CASE UNCHANGED vars
  BY <1>7 DEF TypeInv, TypeOK, CurIsTrans, UsesCur, vars, chVars, drvVars, cpuVars,
              isrVars, pcVars
<1> QED BY <1>1, <1>2, <1>3, <1>4, <1>5, <1>6, <1>7 DEF Next

(* In every execution the registers, the bookkeeping of the driver and the *)
(* program counters of thread and handler have their types; in particular  *)
(* the counters of high-priority interrupts never pass DMA_NUM_HP_INTR.    *)
THEOREM TypeCorrect == Spec => []TypeOK
<1>1. Init => TypeInv
  BY InitTypes
<1>2. TypeInv /\ [Next]_vars => TypeInv'
  BY NextTypes
<1>3. TypeInv => TypeOK
  BY DEF TypeInv
<1> QED BY <1>1, <1>2, <1>3, PTL DEF Spec

(***************************************************************************)
(* The invariant behind FlagsCanBeAcknowledged and FlagIsFresh, where no   *)
(* channel is polled while others rely on their interrupts.  A flag is     *)
(* lost or stranded when the thread touches a channel whose flag is high;  *)
(* the invariant says why it is low at each of those steps.                *)
(***************************************************************************)

(* The window interrupt is never enabled alone. *)
WindowNeedsTrans == \A c \in Channels : enabled[c]["window"] => enabled[c]["trans"]

(* With the interrupts masked in MIE, no channel is left to raise one:     *)
(* except while dma_load_transaction has masked them for a moment.         *)
MaskedIsQuiet ==
  ~mie /\ pc \notin {"load_gie", "load_unmask"} =>
    \A c \in Channels : /\ ~ifr[c]["trans"] /\ ~ifr[c]["window"]
                        /\ ~(running[c] /\ enabled[c]["trans"])

(* Interrupts are globally disabled, and enabled in MIE, only around the   *)
(* wfi of dma_wait.                                                        *)
DisabledOnlyToSleep ==
  /\ mie /\ ~gie => pc \in {"wait_recheck", "wait_wfi", "wait_unmask"}
  /\ pc = "load_unmask" => gie
  /\ pc = "load_enable" => mie

(* What the guards of the calls promise to their later steps. *)
PolledAlone ==
  pc \in {"load_disable", "load_mask"} /\ cur.end = "POLLING" =>
    \A c \in Channels : ~(running[c] /\ enabled[c]["trans"])
LaunchedUnmasked == pc = "launch_start" /\ ~mie => ~enabled[chan]["trans"]

(* A raised flag is about the transaction launched last. *)
RaisedIsFresh == \A c \in Channels : ifr[c]["trans"] => finished[c]

DmaInv ==
  /\ TypeInv
  /\ FlagsCanBeAcknowledged /\ WindowNeedsTrans
  /\ MaskedIsQuiet /\ DisabledOnlyToSleep
  /\ PolledAlone /\ LaunchedUnmasked
  /\ RaisedIsFresh /\ FlagIsFresh

(* No flag is high when the thread gets to touch a channel: it has been    *)
(* serviced before, unless interrupts are disabled or masked.              *)
LEMMA QuietThread ==
  ASSUME DmaInv, ~Interrupted,
         pc \notin {"wait_recheck", "wait_wfi", "wait_unmask", "load_gie", "load_unmask"}
  PROVE  \A c \in Channels : ~ifr[c]["trans"] /\ ~ifr[c]["window"]
<1>1. CASE ~mie
  BY <1>1 DEF DmaInv, MaskedIsQuiet
<1>2. CASE mie
  <2>1. gie
    BY <1>2 DEF DmaInv, DisabledOnlyToSleep
  <2> QED BY <1>2, <2>1 DEF Interrupted, Line, Kinds
<1> QED BY <1>1, <1>2

LEMMA InitInv == Init => DmaInv
<1> SUFFICES ASSUME Init PROVE DmaInv
  OBVIOUS
<1>1. /\ \A c \in Channels, k \in Kinds : ~enabled[c][k] /\ ~ifr[c][k]
      /\ \A c \in Channels : ~intrFlag[c]
  BY DEF Init, Off
<1>2. pc = "idle" /\ ~mie
  BY DEF Init
<1> QED BY <1>1, <1>2, InitTypes
        DEF DmaInv, FlagsCanBeAcknowledged, WindowNeedsTrans, MaskedIsQuiet,
            DisabledOnlyToSleep, PolledAlone, LaunchedUnmasked, RaisedIsFresh,
            FlagIsFresh, Kinds

(* What the channels and the interrupt controller do to the invariant. *)
LEMMA HardwareInv ==
  ASSUME DmaInv, NEW c \in Channels, Complete(c) \/ Window(c) \/ FicSample
  PROVE  DmaInv'
<1> USE DEF DmaInv
<1>1. TypeInv'
  BY HardwareTypes
<1>2. CASE Complete(c)
  <2>1. running[c] /\ UNCHANGED <<enabled, mie, gie, pc, cur, chan, intrFlag>>
    BY <1>2 DEF Complete, drvVars, cpuVars, pcVars
  <2>2. \A d \in Channels : running'[d] => running[d]
    BY <1>2 DEF Complete, TypeInv, TypeOK
  <2>3. \A d \in Channels : ifr'[d]["window"] => ifr[d]["window"]
    BY <1>2 DEF Complete, TypeInv, TypeOK, Kinds
  <2>4. \A d \in Channels : d # c /\ ifr'[d]["trans"] => ifr[d]["trans"]
    BY <1>2 DEF Complete, TypeInv, TypeOK, Kinds
  <2>5. ifr'[c]["trans"] => ifr[c]["trans"] \/ enabled[c]["trans"]
    BY <1>2 DEF Complete, TypeInv, TypeOK, Kinds
  <2>6. finished'[c] /\ \A d \in Channels : finished[d] => finished'[d]
    BY <1>2 DEF Complete, TypeInv, TypeOK
  <2>7. FlagsCanBeAcknowledged' /\ WindowNeedsTrans'
    BY <2>1, <2>3, <2>4, <2>5 DEF FlagsCanBeAcknowledged, WindowNeedsTrans, Kinds
  <2>8. MaskedIsQuiet'
    BY <2>1, <2>2, <2>3, <2>4, <2>5 DEF MaskedIsQuiet
  <2>9. DisabledOnlyToSleep' /\ PolledAlone' /\ LaunchedUnmasked'
    BY <2>1, <2>2 DEF DisabledOnlyToSleep, PolledAlone, LaunchedUnmasked
  <2>10. RaisedIsFresh' /\ FlagIsFresh'
    BY <2>1, <2>4, <2>6 DEF RaisedIsFresh, FlagIsFresh
  <2> QED BY <1>1, <2>7, <2>8, <2>9, <2>10
<1>3. CASE Window(c)
  <2> USE <1>3 DEF Window, drvVars, cpuVars, isrVars, pcVars
  <2>1. \A d \in Channels : /\ ifr'[d]["trans"] = ifr[d]["trans"]
                            /\ d # c => ifr'[d]["window"] = ifr[d]["window"]
    BY DEF TypeInv, TypeOK, Kinds
  <2>2. FlagsCanBeAcknowledged' /\ WindowNeedsTrans'
    BY <2>1 DEF FlagsCanBeAcknowledged, WindowNeedsTrans, Kinds
  <2>3. MaskedIsQuiet'
    BY <2>1 DEF MaskedIsQuiet, WindowNeedsTrans
  <2>4. DisabledOnlyToSleep' /\ PolledAlone' /\ LaunchedUnmasked'
    BY DEF DisabledOnlyToSleep, PolledAlone, LaunchedUnmasked
  <2>5. RaisedIsFresh' /\ FlagIsFresh'
    BY <2>1 DEF RaisedIsFresh, FlagIsFresh
  <2> QED BY <1>1, <2>2, <2>3, <2>4, <2>5
<1>4. CASE FicSample
  BY <1>1, <1>4 DEF FicSample, chVars, drvVars, pcVars, FlagsCanBeAcknowledged,
     WindowNeedsTrans, MaskedIsQuiet, DisabledOnlyToSleep, PolledAlone,
     LaunchedUnmasked, RaisedIsFresh, FlagIsFresh
<1> QED BY <1>2, <1>3, <1>4

(* A step that leaves channels, masks, thread and intrFlag alone. *)
LEMMA SameInv ==
  ASSUME DmaInv, TypeInv',
         UNCHANGED <<running, enabled, ifr, intrFlag, mie, gie, pcVars, finished>>
  PROVE  DmaInv'
BY DEF DmaInv, pcVars, FlagsCanBeAcknowledged, WindowNeedsTrans, MaskedIsQuiet,
   DisabledOnlyToSleep, PolledAlone, LaunchedUnmasked, RaisedIsFresh, FlagIsFresh

(* What the handlers do to the invariant. *)
LEMMA HandlerInv ==
  ASSUME DmaInv, NEW c \in Channels, NEW k \in Kinds,
         Trap(k) \/ Service(c, k) \/ Skip(c, k)
  PROVE  DmaInv'
<1>1. TypeInv'
  BY HandlerTypes DEF DmaInv
<1>2. CASE Trap(k)
  BY <1>1, <1>2, SameInv DEF Trap, chVars, drvVars
<1>3. CASE Skip(c, k)
  BY <1>1, <1>3, SameInv DEF Skip, chVars, drvVars, cpuVars
<1>4. CASE Service(c, k)
  <2> USE <1>4 DEF DmaInv, Service, cpuVars, pcVars
  <2>1. \A d \in Channels, l \in Kinds : ifr'[d][l] => ifr[d][l]
    BY DEF ReadIfr, TypeInv, TypeOK
  <2>2. \A d \in Channels : intrFlag'[d] => intrFlag[d] \/ ifr[d]["trans"]
    BY DEF TypeInv, TypeOK
  <2>3. FlagsCanBeAcknowledged' /\ WindowNeedsTrans'
    BY <2>1 DEF FlagsCanBeAcknowledged, WindowNeedsTrans
  <2>4. MaskedIsQuiet'
    BY <2>1 DEF MaskedIsQuiet, Kinds
  <2>5. DisabledOnlyToSleep' /\ PolledAlone' /\ LaunchedUnmasked'
    BY DEF DisabledOnlyToSleep, PolledAlone, LaunchedUnmasked
  <2>6. RaisedIsFresh' /\ FlagIsFresh'
    BY <2>1, <2>2 DEF RaisedIsFresh, FlagIsFresh, Kinds
  <2> QED BY <1>1, <2>3, <2>4, <2>5, <2>6
<1> QED BY <1>2, <1>3, <1>4

(* What the calls of the application do to the invariant. *)
LEMMA CallInv == ASSUME DmaInv, ~Mixed, Calls PROVE DmaInv'
<1> USE DEF DmaInv
<1>1. TypeInv'
  BY CallTypes
<1>2. ASSUME At("idle") PROVE \A c \in Channels : ~ifr[c]["trans"] /\ ~ifr[c]["window"]
  BY <1>2, QuietThread DEF At
<1>3. ASSUME At("idle"), InitDma, UNCHANGED <<isrVars, pcVars, finished>>,
             (mie' /\ gie') \/ UNCHANGED <<mie, gie>>
      PROVE  DmaInv'
  <2>1. \A c \in Channels, k \in Kinds : ~enabled'[c][k] /\ ~ifr'[c][k]
    BY <1>2, <1>3 DEF InitDma, Off, Kinds
  <2>2. pc' = "idle" /\ UNCHANGED <<intrFlag, finished>>
    BY <1>3 DEF InitDma, pcVars, At
  <2>3. mie' /\ ~gie' => pc \in {"wait_recheck", "wait_wfi", "wait_unmask"}
    <3>1. CASE UNCHANGED <<mie, gie>>
      BY <3>1 DEF DisabledOnlyToSleep
    <3>2. CASE mie' /\ gie'
      BY <3>2
    <3> QED BY <1>3, <3>1, <3>2
  <2>4. pc = "idle"
    BY <1>3 DEF At
  <2> QED BY <1>1, <2>1, <2>2, <2>3, <2>4
          DEF FlagsCanBeAcknowledged, WindowNeedsTrans, MaskedIsQuiet,
              DisabledOnlyToSleep, PolledAlone, LaunchedUnmasked, RaisedIsFresh,
              FlagIsFresh, Kinds
<1>4. CASE CallInit
  BY <1>3, <1>4 DEF CallInit, cpuVars
<1>5. CASE CallSdkInit
  BY <1>3, <1>5 DEF CallSdkInit
<1>6. ASSUME NEW t \in Trans, CallLoad(t) PROVE DmaInv'
  <2>1. UNCHANGED <<running, enabled, ifr, intrFlag, mie, gie, finished>>
    BY <1>6 DEF CallLoad, chVars, cpuVars
  <2>2. pc = "idle" /\ (pc' = "idle" \/ (pc' = "load_disable" /\ cur' = t))
    BY <1>6 DEF CallLoad, At, pcVars
  <2>3. t.end = "POLLING" =>
          \A c \in Channels : ~(running[c] /\ enabled[c]["trans"])
    BY <1>6 DEF CallLoad, InFlight
  <2>4. PolledAlone'
    BY <2>1, <2>2, <2>3 DEF PolledAlone
  <2>5. MaskedIsQuiet' /\ DisabledOnlyToSleep' /\ LaunchedUnmasked'
    BY <2>1, <2>2 DEF MaskedIsQuiet, DisabledOnlyToSleep, LaunchedUnmasked
  <2>6. /\ FlagsCanBeAcknowledged' /\ WindowNeedsTrans'
        /\ RaisedIsFresh' /\ FlagIsFresh'
    BY <2>1 DEF FlagsCanBeAcknowledged, WindowNeedsTrans, RaisedIsFresh, FlagIsFresh
  <2> QED BY <1>1, <2>4, <2>5, <2>6
<1>7. ASSUME NEW t \in Trans, CallLaunch(t) PROVE DmaInv'
  <2>1. UNCHANGED <<running, enabled, ifr, mie, gie>>
    BY <1>7 DEF CallLaunch, chVars, cpuVars
  <2>2. pc = "idle" /\ (pc' = "idle" \/ (pc' = "launch_start" /\ chan' = t.channel))
    BY <1>7 DEF CallLaunch, At, pcVars
  <2>3. enabled[t.channel]["trans"] => mie
    BY <1>7 DEF CallLaunch
  <2>4. \A c \in Channels : ~ifr[c]["trans"] /\ ~ifr[c]["window"]
    BY <1>2, <1>7 DEF CallLaunch
  <2>5. \A c \in Channels : intrFlag'[c] => finished'[c]
    <3>1. t.channel \in Channels
      BY TransFields
    <3> QED BY <1>7, <3>1 DEF CallLaunch, FlagIsFresh, TypeInv, TypeOK
  <2>6. LaunchedUnmasked'
    BY <2>1, <2>2, <2>3 DEF LaunchedUnmasked
  <2>7. MaskedIsQuiet' /\ DisabledOnlyToSleep' /\ PolledAlone'
    BY <2>1, <2>2 DEF MaskedIsQuiet, DisabledOnlyToSleep, PolledAlone
  <2>8. FlagsCanBeAcknowledged' /\ WindowNeedsTrans'
    BY <2>1 DEF FlagsCanBeAcknowledged, WindowNeedsTrans
  <2>9. RaisedIsFresh' /\ FlagIsFresh'
    BY <2>1, <2>4, <2>5 DEF RaisedIsFresh, FlagIsFresh
  <2> QED BY <1>1, <2>6, <2>7, <2>8, <2>9
<1>8. ASSUME NEW c \in Channels, CallStop(c) PROVE DmaInv'
  BY <1>1, <1>8, SameInv DEF CallStop, drvVars, cpuVars
<1>9. ASSUME NEW c \in Channels, CallCopy(c) PROVE DmaInv'
  <2>1. /\ pc = "idle" /\ mie /\ gie
        /\ UNCHANGED <<ifr, intrFlag, mie, gie, pc, finished>>
    BY <1>9 DEF CallCopy, At, drvVars, cpuVars, pcVars, DisabledOnlyToSleep
  <2>2. \A d \in Channels : ~ifr[d]["trans"] /\ ~ifr[d]["window"]
    BY <1>2, <1>9 DEF CallCopy
  <2>3. WindowNeedsTrans'
    BY <1>9 DEF CallCopy, WindowNeedsTrans, TypeInv, TypeOK, Kinds
  <2> QED BY <1>1, <2>1, <2>2, <2>3
          DEF FlagsCanBeAcknowledged, MaskedIsQuiet, DisabledOnlyToSleep,
              PolledAlone, LaunchedUnmasked, RaisedIsFresh, FlagIsFresh, Kinds
<1>10. ASSUME NEW c \in Channels, CallWait(c) PROVE DmaInv'
  <2>1. /\ pc = "idle" /\ pc' = "wait_check" /\ mie
        /\ UNCHANGED <<running, enabled, ifr, intrFlag, mie, gie, finished>>
    BY <1>10 DEF CallWait, At, chVars, drvVars, cpuVars
  <2> QED BY <1>1, <2>1
          DEF FlagsCanBeAcknowledged, WindowNeedsTrans, MaskedIsQuiet,
              DisabledOnlyToSleep, PolledAlone, LaunchedUnmasked, RaisedIsFresh,
              FlagIsFresh
<1> QED BY <1>4, <1>5, <1>6, <1>7, <1>8, <1>9, <1>10 DEF Calls

(* What the steps of a call do to the invariant. *)
LEMMA ProceedInv == ASSUME DmaInv, Proceed PROVE DmaInv'
<1> USE DEF DmaInv
<1>1. TypeInv'
  BY ProceedTypes
<1>2. CASE LoadDisable
  <2>1. /\ pc = "load_disable" /\ pc' = "load_mask"
        /\ UNCHANGED <<running, ifr, intrFlag, mie, gie, cur, finished>>
    BY <1>2 DEF LoadDisable, At, Goto, drvVars, cpuVars
  <2>2. \A c \in Channels : ~ifr[c]["trans"] /\ ~ifr[c]["window"]
    BY <1>2, QuietThread DEF LoadDisable, At
  <2>3. \A c \in Channels, k \in Kinds : enabled'[c][k] =>
          enabled'[c] = enabled[c]
    BY <1>2 DEF LoadDisable, Off, TypeInv, TypeOK
  <2>4. FlagsCanBeAcknowledged' /\ RaisedIsFresh' /\ FlagIsFresh'
    BY <2>1, <2>2 DEF FlagsCanBeAcknowledged, RaisedIsFresh, FlagIsFresh, Kinds
  <2>5. WindowNeedsTrans' /\ MaskedIsQuiet' /\ PolledAlone'
    BY <2>1, <2>2, <2>3 DEF WindowNeedsTrans, MaskedIsQuiet, PolledAlone, Kinds
  <2>6. DisabledOnlyToSleep' /\ LaunchedUnmasked'
    BY <2>1 DEF DisabledOnlyToSleep, LaunchedUnmasked
  <2> QED BY <1>1, <2>4, <2>5, <2>6
<1>3. CASE LoadMask
  <2>1. /\ pc = "load_mask" /\ ~mie'
        /\ pc' = "load_gie" \/ (pc' = "idle" /\ cur.end = "POLLING")
        /\ UNCHANGED <<running, enabled, ifr, intrFlag, gie, finished>>
    BY <1>3 DEF LoadMask, At, Goto, Return, drvVars
  <2>2. \A c \in Channels : ~ifr[c]["trans"] /\ ~ifr[c]["window"]
    BY <1>3, QuietThread DEF LoadMask, At
  <2>3. MaskedIsQuiet'
    BY <2>1, <2>2 DEF MaskedIsQuiet, PolledAlone
  <2>4. DisabledOnlyToSleep' /\ PolledAlone' /\ LaunchedUnmasked'
    BY <2>1 DEF DisabledOnlyToSleep, PolledAlone, LaunchedUnmasked
  <2>5. /\ FlagsCanBeAcknowledged' /\ WindowNeedsTrans'
        /\ RaisedIsFresh' /\ FlagIsFresh'
    BY <2>1 DEF FlagsCanBeAcknowledged, WindowNeedsTrans, RaisedIsFresh, FlagIsFresh
  <2> QED BY <1>1, <2>3, <2>4, <2>5
<1>4. ASSUME UNCHANGED <<running, enabled, ifr, intrFlag, finished>>,
             MaskedIsQuiet', DisabledOnlyToSleep',
             pc' \notin {"load_disable", "load_mask", "launch_start"}
      PROVE  DmaInv'
  BY <1>1, <1>4 DEF FlagsCanBeAcknowledged, WindowNeedsTrans, PolledAlone,
                    LaunchedUnmasked, RaisedIsFresh, FlagIsFresh
<1>5. CASE LoadGie
  <2>1. pc = "load_gie" /\ pc' = "load_unmask" /\ gie'
    BY <1>5 DEF LoadGie, At, Goto
  <2>2. MaskedIsQuiet' /\ DisabledOnlyToSleep'
    BY <2>1 DEF MaskedIsQuiet, DisabledOnlyToSleep
  <2> QED BY <1>4, <1>5, <2>1, <2>2 DEF LoadGie, chVars, drvVars
<1>6. CASE LoadUnmask
  <2>1. pc = "load_unmask" /\ pc' = "load_enable" /\ mie' /\ gie' = gie
    BY <1>6 DEF LoadUnmask, At, Goto
  <2>2. MaskedIsQuiet' /\ DisabledOnlyToSleep'
    BY <2>1 DEF MaskedIsQuiet, DisabledOnlyToSleep
  <2> QED BY <1>4, <1>6, <2>1, <2>2 DEF LoadUnmask, chVars, drvVars
<1>7. CASE LoadEnable
  <2>1. /\ pc = "load_enable" /\ pc' = "idle" /\ mie
        /\ UNCHANGED <<running, ifr, intrFlag, mie, gie, finished>>
    BY <1>7 DEF LoadEnable, At, Return, drvVars, cpuVars, DisabledOnlyToSleep
  <2>2. \A c \in Channels : ~ifr[c]["trans"] /\ ~ifr[c]["window"]
    BY <1>7, QuietThread DEF LoadEnable, At
  <2>3. WindowNeedsTrans'
    BY <1>7 DEF LoadEnable, WindowNeedsTrans, TypeInv, TypeOK, Kinds
  <2> QED BY <1>1, <2>1, <2>2, <2>3
          DEF FlagsCanBeAcknowledged, MaskedIsQuiet, DisabledOnlyToSleep,
              PolledAlone, LaunchedUnmasked, RaisedIsFresh, FlagIsFresh, Kinds
<1>8. CASE LaunchStart
  <2>1. /\ pc = "launch_start" /\ pc' \in {"idle", "launch_check"}
        /\ UNCHANGED <<enabled, ifr, intrFlag, mie, gie, finished>>
    BY <1>8 DEF LaunchStart, At, Goto, Return, drvVars, cpuVars
  <2>2. \A c \in Channels : running'[c] => running[c] \/ c = chan
    BY <1>8 DEF LaunchStart, Start, TypeInv, TypeOK
  <2>3. MaskedIsQuiet'
    BY <2>1, <2>2 DEF MaskedIsQuiet, LaunchedUnmasked
  <2>4. DisabledOnlyToSleep' /\ PolledAlone' /\ LaunchedUnmasked'
    BY <2>1 DEF DisabledOnlyToSleep, PolledAlone, LaunchedUnmasked
  <2>5. /\ FlagsCanBeAcknowledged' /\ WindowNeedsTrans'
        /\ RaisedIsFresh' /\ FlagIsFresh'
    BY <2>1 DEF FlagsCanBeAcknowledged, WindowNeedsTrans, RaisedIsFresh, FlagIsFresh
  <2> QED BY <1>1, <2>3, <2>4, <2>5
<1>9. CASE LaunchCheck
  <2>1. /\ pc = "launch_check" /\ pc' \in {"idle", "launch_wfi"}
        /\ UNCHANGED <<running, enabled, ifr, intrFlag, mie, gie, finished>>
    BY <1>9 DEF LaunchCheck, At, Goto, Return, chVars, drvVars, cpuVars
  <2>2. MaskedIsQuiet' /\ DisabledOnlyToSleep'
    BY <2>1 DEF MaskedIsQuiet, DisabledOnlyToSleep
  <2> QED BY <1>4, <2>1, <2>2
<1>10. ASSUME NEW k \in Kinds, LaunchWfi(k) PROVE DmaInv'
  <2>1. /\ pc = "launch_wfi" /\ pc' = "launch_check"
        /\ UNCHANGED <<running, enabled, ifr, intrFlag, mie, gie, finished>>
    BY <1>10 DEF LaunchWfi, Goto, chVars, drvVars
  <2>2. MaskedIsQuiet' /\ DisabledOnlyToSleep'
    BY <2>1 DEF MaskedIsQuiet, DisabledOnlyToSleep
  <2> QED BY <1>4, <2>1, <2>2
<1>11. CASE WaitCheck
  <2>1. /\ pc = "wait_check" /\ pc' \in {"idle", "wait_recheck"}
        /\ pc' = "idle" => gie' = gie
        /\ UNCHANGED <<running, enabled, ifr, intrFlag, mie, finished>>
    BY <1>11 DEF WaitCheck, At, Goto, Return, chVars, drvVars
  <2>2. MaskedIsQuiet' /\ DisabledOnlyToSleep'
    BY <2>1 DEF MaskedIsQuiet, DisabledOnlyToSleep
  <2> QED BY <1>4, <2>1, <2>2
<1>12. CASE WaitRecheck \/ WaitWfi
  <2>1. /\ pc \in {"wait_recheck", "wait_wfi"} /\ pc' \in {"wait_wfi", "wait_unmask"}
        /\ UNCHANGED <<running, enabled, ifr, intrFlag, mie, gie, finished>>
    BY <1>12 DEF WaitRecheck, WaitWfi, At, Goto, chVars, drvVars, cpuVars
  <2>2. MaskedIsQuiet' /\ DisabledOnlyToSleep'
    BY <2>1 DEF MaskedIsQuiet, DisabledOnlyToSleep
  <2> QED BY <1>4, <2>1, <2>2
<1>13. CASE WaitUnmask
  <2>1. /\ pc = "wait_unmask" /\ pc' = "wait_check" /\ gie'
        /\ UNCHANGED <<running, enabled, ifr, intrFlag, mie, finished>>
    BY <1>13 DEF WaitUnmask, At, Goto, chVars, drvVars
  <2>2. MaskedIsQuiet' /\ DisabledOnlyToSleep'
    BY <2>1 DEF MaskedIsQuiet, DisabledOnlyToSleep
  <2> QED BY <1>4, <2>1, <2>2
<1> QED BY <1>2, <1>3, <1>5, <1>6, <1>7, <1>8, <1>9, <1>10, <1>11, <1>12, <1>13
        DEF Proceed

LEMMA NextInv == ASSUME DmaInv, ~Mixed, [Next]_vars PROVE DmaInv'
<1>1. ASSUME NEW c \in Channels, Complete(c) \/ Window(c) PROVE DmaInv'
  BY <1>1, HardwareInv
<1>2. CASE FicSample
  BY <1>2, HardwareInv, ChannelZero
<1>3. ASSUME NEW k \in Kinds, Trap(k) PROVE DmaInv'
  BY <1>3, HandlerInv, ChannelZero
<1>4. CASE Handler
  BY <1>4, HandlerInv DEF Handler
<1>5. CASE Calls
  BY <1>5, CallInv
<1>6. CASE Proceed
  BY <1>6, ProceedInv
<1>7. CASE UNCHANGED vars
  <2>1. TypeInv'
    BY NextTypes DEF DmaInv
  <2> QED BY <1>7, <2>1, SameInv DEF vars, chVars, drvVars, cpuVars
<1> QED BY <1>1, <1>2, <1>3, <1>4, <1>5, <1>6, <1>7 DEF Next

(* The invariant holds in an application that polls no channel while       *)
(* others rely on their interrupts.                                        *)
THEOREM InvariantHolds == ~Mixed /\ Spec => []DmaInv
<1>1. Init => DmaInv
  BY InitInv
<1>2. ~Mixed /\ DmaInv /\ [Next]_vars => DmaInv'
  BY NextInv
<1>3. ~Mixed => []~Mixed
  <2>1. ~Mixed => (~Mixed)'
    OBVIOUS
  <2> QED BY <2>1, PTL
<1> QED BY <1>1, <1>2, <1>3, PTL DEF Spec

(* No interrupt flag is left behind by the INTERRUPT_EN writes of          *)
(* dma_load_transaction, dma_init and the SDK, for any number of channels  *)
(* and any mix of transactions, unless one channel is polled while others  *)
(* rely on their interrupts.                                               *)
THEOREM FlagsCanBeAcknowledgedHolds == ~Mixed /\ Spec => []FlagsCanBeAcknowledged
<1>1. DmaInv => FlagsCanBeAcknowledged
  BY DEF DmaInv
<1> QED BY <1>1, InvariantHolds, PTL

(* Under the same condition the interrupt of an earlier transaction never  *)
(* sets the flag that dma_launch has cleared for a later one.              *)
THEOREM FlagIsFreshHolds == ~Mixed /\ Spec => []FlagIsFresh
<1>1. DmaInv => FlagIsFresh
  BY DEF DmaInv
<1> QED BY <1>1, InvariantHolds, PTL
=============================================================================
