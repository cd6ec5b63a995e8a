---------------------------- MODULE SpiSdkProofs ----------------------------
(***************************************************************************)
(* Proofs about SpiSdk for every size of the FIFOs and of the command      *)
(* queue, every set of transactions and every choice of watermarks.        *)
(***************************************************************************)
EXTENDS SpiSdkInv, TLAPS

(* The core moves one word: the command queue keeps its type. *)
LEMMA ShortenHead ==
  ASSUME NEW q \in Seq(Segments), q # <<>>, q[1].n > 0
  PROVE  /\ [q EXCEPT ![1].n = @ - 1] \in Seq(Segments)
         /\ Len([q EXCEPT ![1].n = @ - 1]) = Len(q)
         /\ [q EXCEPT ![1].n = @ - 1][1].dir = q[1].dir
         /\ [q EXCEPT ![1].n = @ - 1][1].n = q[1].n - 1
         /\ \A i \in 2..Len(q) : [q EXCEPT ![1].n = @ - 1][i] = q[i]
<1> DEFINE p == [q EXCEPT ![1].n = @ - 1]
<1>1. Len(q) \in Nat /\ Len(q) > 0 /\ DOMAIN q = 1..Len(q)
  OBVIOUS
<1>2. q[1] \in Segments
  BY <1>1
<1>3. p = [i \in 1..Len(q) |-> IF i = 1 THEN [q[1] EXCEPT !.n = @ - 1] ELSE q[i]]
  BY <1>1
<1>4. [q[1] EXCEPT !.n = @ - 1] \in Segments
  BY <1>2 DEF Segments
<1>5. \A i \in 1..Len(q) : q[i] \in Segments
  OBVIOUS
<1>6. p \in [1..Len(q) -> Segments]
  BY <1>3, <1>4, <1>5
<1>7. p \in Seq(Segments) /\ Len(p) = Len(q)
  BY <1>1, <1>6
<1>8. p[1] = [q[1] EXCEPT !.n = @ - 1]
  BY <1>1, <1>3
<1>9. p[1].dir = q[1].dir /\ p[1].n = q[1].n - 1
  BY <1>2, <1>8 DEF Segments
<1>10. \A i \in 2..Len(q) : p[i] = q[i]
  BY <1>1, <1>3
<1> QED
  BY <1>7, <1>9, <1>10

(* The types, for every controller, every transaction and whatever goes    *)
(* wrong: first the data, one step per action, then the flags.             *)
LEMMA TypeInit == Init => TypeOK
<1> SUFFICES ASSUME Init PROVE DataOK /\ FlagsOK
  BY DEF TypeOK
<1>1. DataOK
  BY HostAssumption, SdkAssumption
  DEF Init, HostInit, DataOK, States, MainSteps, IsrSteps
<1>2. FlagsOK
  BY DEF Init, HostInit, FlagsOK, Events, NoEvents
<1> QED
  BY <1>1, <1>2

(* What is read from the segment array is a segment, or what the memory    *)
(* behind it holds.                                                        *)
LEMMA SegmentsAtType ==
  ASSUME NEW t \in Txns \cup {<<>>}, NEW k \in Nat, NEW s \in SegmentsAt(t, k)
  PROVE  s \in Segments
<1>1. t \in Seq(Segments)
  <2>1. Txns \subseteq Seq(Segments)
    BY SdkAssumption, Zenon
  <2>2. CASE t = <<>>
    BY <2>2
  <2> QED
    BY <2>1, <2>2
<1>2. CASE k < Len(t)
  BY <1>1, <1>2 DEF SegmentsAt
<1>3. CASE ~(k < Len(t))
  BY <1>3, SdkAssumption DEF SegmentsAt
<1> QED
  BY <1>2, <1>3

(* One word into the transmit queue, one word out of the receive queue. *)
LEMMA FillTxType ==
  ASSUME TypeOK, FillTx
  PROVE  /\ txq' = txq + 1 /\ txq <= TxDepth
         /\ txcnt' = txcnt + 1
         /\ UNCHANGED <<cmds, rxq, wmVars, err, enVars, claimed, state, txn, scnt, rxcnt, cb>>
         /\ busy' \in BOOLEAN /\ intr' \in BOOLEAN /\ pend' \in BOOLEAN
<1>1. Txqd < TxDepth
  BY DEF FillTx, FillsTx
<1>2. txq <= TxDepth
  BY <1>1, HostAssumption DEF Txqd, TypeOK, DataOK
<1>3. busy' \in BOOLEAN /\ intr' \in BOOLEAN /\ pend' \in BOOLEAN
  BY Zenon DEF FillTx, WriteTxData, CoreStart, LatchEvent, LatchLine
<1> QED
  BY <1>2, <1>3 DEF FillTx, WriteTxData

LEMMA EmptyRxType ==
  ASSUME TypeOK, EmptyRx
  PROVE  /\ rxq' = rxq - 1 /\ rxq > 0
         /\ rxcnt' = rxcnt + 1 /\ got' = got + 1
         /\ UNCHANGED <<cmds, busy, txq, wmVars, err, enVars, claimed,
                        state, txn, scnt, txcnt, cb, asked, sent, told>>
         /\ intr' \in BOOLEAN /\ pend' \in BOOLEAN
<1>1. Rxqd > 0
  BY DEF EmptyRx, DrainsRx
<1>2. rxq > 0
  BY <1>1, HostAssumption DEF Rxqd, TypeOK, DataOK
<1>3. intr' \in BOOLEAN /\ pend' \in BOOLEAN
  BY Zenon DEF EmptyRx, ReadRxData, LatchEvent, LatchLine
<1> QED
  BY <1>2, <1>3 DEF EmptyRx, ReadRxData

LEMMA DataNext == TypeOK /\ [Next]_vars => DataOK'
<1> SUFFICES ASSUME TypeOK, [Next]_vars PROVE DataOK'
  OBVIOUS
<1> USE DEF TypeOK, DataOK, States, MainSteps, LaunchSteps, ResetSteps, IsrSteps,
        hostVars, fifoVars, wmVars, enVars, irqVars, periVars, mainVars, isrVars, history,
        At, IsrAt
<1>1. CASE spi_init
  BY <1>1 DEF spi_init
<1>2. CASE spi_deinit
  BY <1>2 DEF spi_deinit
<1>3. ASSUME NEW wm \in TxWms, spi_set_txwm(wm) PROVE DataOK'
  BY <1>3 DEF spi_set_txwm, WriteWatermarks
<1>4. ASSUME NEW wm \in RxWms, spi_set_rxwm(wm) PROVE DataOK'
  BY <1>4 DEF spi_set_rxwm, WriteWatermarks
<1>5. ASSUME NEW t \in Txns, NEW blk \in BOOLEAN, spi_prepare_transfer(t, blk) PROVE DataOK'
  BY <1>5 DEF spi_prepare_transfer
<1>6. CASE LaunchState
  BY <1>6 DEF LaunchState
<1>7. CASE LaunchTxn
  BY <1>7 DEF LaunchTxn
<1>8. CASE LaunchFill
  BY <1>8, FillTxType, HostAssumption DEF LaunchFill
<1>9. CASE LaunchEvents
  BY <1>9 DEF LaunchEvents, WriteEnables
<1>10. CASE LaunchIntr
  BY <1>10 DEF LaunchIntr, WriteEnables
<1>11. CASE LaunchReady
  BY <1>11 DEF LaunchReady
<1>12. CASE LaunchSegment
  <2>1. seg' \in Segments
    BY <1>12, SegmentsAtType DEF LaunchSegment
  <2> QED
    BY <1>12, <2>1 DEF LaunchSegment
<1>13. CASE LaunchCommand
  BY <1>13 DEF LaunchCommand, SetCommand, WriteCommand
<1>14. CASE WaitDone
  BY <1>14 DEF WaitDone
<1>15. CASE WaitTimeout
  BY <1>15 DEF WaitTimeout
<1>16. CASE spi_reset
  BY <1>16 DEF spi_reset
<1>17. CASE ResetTxn
  BY <1>17 DEF ResetTxn, ResetTransaction
<1>18. CASE ResetHost
  BY <1>18, HostAssumption DEF ResetHost, SwReset
<1>19. CASE ResetState
  BY <1>19 DEF ResetState
<1>20. CASE TimeoutState
  BY <1>20 DEF TimeoutState
<1>21. CASE IsrEnter
  BY <1>21 DEF IsrEnter, TakeInterrupt, Line
<1>22. CASE IsrErrors
  BY <1>22 DEF IsrErrors
<1>23. CASE IsrAck
  BY <1>23 DEF IsrAck, ClearEvent
<1>24. CASE IsrStatus
  BY <1>24 DEF IsrStatus, Events, Ready, TxWm, RxWm
<1>25. CASE IsrIssue
<2>1. PICK s \in SegmentsAt(txn, scnt) : SetCommand(s)
    BY <1>25 DEF IsrIssue
  <2>2. s \in Segments
    BY <2>1, SegmentsAtType
  <2>3. cmds' \in Seq(Segments)
    BY <2>1, <2>2 DEF SetCommand, WriteCommand
  <2>4. txq' = txq /\ rxq' = rxq /\ txwm' = txwm /\ rxwm' = rxwm
    BY <2>1 DEF SetCommand, WriteCommand
  <2> QED
    BY <1>25, <2>3, <2>4 DEF IsrIssue
<1>26. CASE IsrOver
  BY <1>26 DEF IsrOver
<1>27. CASE IsrGoOn
  BY <1>27 DEF IsrGoOn
<1>28. CASE IsrEventsOff
  BY <1>28 DEF IsrEventsOff, WriteEnables
<1>29. CASE IsrIntrOff
  BY <1>29 DEF IsrIntrOff, WriteEnables
<1>30. CASE IsrLastWords
  BY <1>30, EmptyRxType, HostAssumption DEF IsrLastWords
<1>31. CASE IsrDone
  BY <1>31 DEF IsrDone
<1>32. CASE IsrCallback
  BY <1>32 DEF IsrCallback
<1>33. ASSUME NEW t \in Txns, IsrCallbackLaunch(t) PROVE DataOK'
<2>1. PICK s \in SegmentsAt(t, scnt) : cmds' = Append(cmds, s)
    BY <1>33 DEF IsrCallbackLaunch
  <2>2. cmds' \in Seq(Segments)
    BY <2>1, SegmentsAtType
  <2>3. txcnt' \in Nat /\ txq' \in 0..TxDepth + 1
    <3>1. TxLen(t) \in Nat
      BY TotalsAssumption
    <3>2. CASE txcnt < TxLen(t)
      BY <1>33, <3>1, <3>2, HostAssumption DEF IsrCallbackLaunch, Lesser
    <3>3. CASE ~(txcnt < TxLen(t))
      BY <1>33, <3>1, <3>3, HostAssumption DEF IsrCallbackLaunch
    <3> QED
      BY <3>2, <3>3
  <2> QED
    BY <1>33, <2>2, <2>3 DEF IsrCallbackLaunch
<1>34. CASE IsrClear
  BY <1>34 DEF IsrClear, ResetTransaction
<1>35. CASE IsrTx
  BY <1>35, FillTxType, HostAssumption DEF IsrTx
<1>36. CASE IsrRx
  BY <1>36, EmptyRxType, HostAssumption DEF IsrRx
<1>37. CASE IsrErrorEvents
  BY <1>37 DEF IsrErrorEvents, WriteEnables
<1>38. CASE IsrErrorIntr
  BY <1>38 DEF IsrErrorIntr, WriteEnables
<1>39. CASE IsrErrorReset
  BY <1>39, HostAssumption DEF IsrErrorReset, ResetTransaction, SwReset
<1>40. CASE IsrExit
  BY <1>40 DEF IsrExit, CompleteInterrupt, Line, Events, NoEvents
<1>41. CASE Hardware /\ ShiftWord
<2>1. Head(cmds) = cmds[1] /\ cmds # <<>> /\ cmds[1].n > 0
    BY <1>41 DEF ShiftWord
  <2>2. cmds' \in Seq(Segments)
    BY <1>41, <2>1, ShortenHead DEF ShiftWord
  <2>3. txq' \in 0..TxDepth + 1
    <3>1. CASE Writes(Head(cmds))
      <4>1. txq > 0 /\ txq' = txq - 1
        BY <1>41, <3>1, Zenon DEF ShiftWord
      <4> QED
        BY <4>1, HostAssumption
    <3>2. CASE ~Writes(Head(cmds))
      BY <1>41, <3>2 DEF ShiftWord
    <3> QED
      BY <3>1, <3>2
  <2>4. rxq' \in 0..RxDepth + 1
    <3>1. CASE Reads(Head(cmds))
      <4>1. rxq <= RxDepth /\ rxq' = rxq + 1
        BY <1>41, <3>1, Zenon DEF ShiftWord
      <4> QED
        BY <4>1, HostAssumption
    <3>2. CASE ~Reads(Head(cmds))
      BY <1>41, <3>2 DEF ShiftWord
    <3> QED
      BY <3>1, <3>2
  <2>5. sent' \in Nat /\ got' = got /\ asked' = asked
    BY <1>41 DEF Hardware, HostStep
  <2> QED
    BY <1>41, <2>2, <2>3, <2>4, <2>5 DEF Hardware, ShiftWord
<1>42. CASE Hardware /\ EndSegment
<2>1. cmds' \in Seq(Segments)
    BY <1>42 DEF EndSegment
  <2>2. sent' \in Nat /\ got' = got /\ asked' = asked
    BY <1>42 DEF Hardware, HostStep
  <2> QED
    BY <1>42, <2>1, <2>2 DEF Hardware, EndSegment
<1>43. CASE Disturb
  BY <1>43 DEF Disturb, AccessError
<1>44. CASE UNCHANGED vars
  BY <1>44 DEF vars
<1> QED
  BY <1>1, <1>2, <1>3, <1>4, <1>5, <1>6, <1>7, <1>8, <1>9, <1>10, <1>11, <1>12, <1>13,
     <1>14, <1>15, <1>16, <1>17, <1>18, <1>19, <1>20, <1>21, <1>22, <1>23, <1>24, <1>25,
     <1>26, <1>27, <1>28, <1>29, <1>30, <1>31, <1>32, <1>33, <1>34, <1>35, <1>36, <1>37,
     <1>38, <1>39, <1>40, <1>41, <1>42, <1>43, <1>44
  DEF Next, AppCall, MainStep, IsrStep, Hardware, HostStep

LEMMA FlagsNext == TypeOK /\ [Next]_vars => FlagsOK'
<1> SUFFICES ASSUME TypeOK, [Next]_vars PROVE FlagsOK'
  OBVIOUS
<1> USE DEF TypeOK, FlagsOK,
        hostVars, fifoVars, wmVars, enVars, irqVars, periVars, mainVars, isrVars, history,
        At, IsrAt
<1>1. CASE spi_init
  BY <1>1 DEF spi_init
<1>2. CASE spi_deinit
  BY <1>2 DEF spi_deinit
<1>3. ASSUME NEW wm \in TxWms, spi_set_txwm(wm) PROVE FlagsOK'
  BY <1>3 DEF spi_set_txwm, WriteWatermarks, LatchEvent, LatchLine
<1>4. ASSUME NEW wm \in RxWms, spi_set_rxwm(wm) PROVE FlagsOK'
  BY <1>4 DEF spi_set_rxwm, WriteWatermarks, LatchEvent, LatchLine
<1>5. ASSUME NEW t \in Txns, NEW blk \in BOOLEAN, spi_prepare_transfer(t, blk) PROVE FlagsOK'
  BY <1>5 DEF spi_prepare_transfer
<1>6. CASE LaunchState
  BY <1>6 DEF LaunchState
<1>7. CASE LaunchTxn
  BY <1>7 DEF LaunchTxn
<1>8. CASE LaunchFill
  BY <1>8, FillTxType DEF LaunchFill
<1>9. CASE LaunchEvents
  BY <1>9 DEF LaunchEvents, WriteEnables, LatchLine
<1>10. CASE LaunchIntr
  BY <1>10 DEF LaunchIntr, WriteEnables, LatchLine
<1>11. CASE LaunchReady
  BY <1>11 DEF LaunchReady
<1>12. CASE LaunchSegment
  BY <1>12 DEF LaunchSegment, SegmentsAt
<1>13. CASE LaunchCommand
  BY <1>13 DEF LaunchCommand, SetCommand, WriteCommand, CoreStart, LatchEvent, LatchLine
<1>14. CASE WaitDone
  BY <1>14 DEF WaitDone
<1>15. CASE WaitTimeout
  BY <1>15 DEF WaitTimeout
<1>16. CASE spi_reset
  BY <1>16 DEF spi_reset
<1>17. CASE ResetTxn
  BY <1>17 DEF ResetTxn, ResetTransaction
<1>18. CASE ResetHost
  BY <1>18 DEF ResetHost, SwReset, LatchEvent, LatchLine
<1>19. CASE ResetState
  BY <1>19 DEF ResetState
<1>20. CASE TimeoutState
  BY <1>20 DEF TimeoutState
<1>21. CASE IsrEnter
  BY <1>21 DEF IsrEnter, TakeInterrupt, Line
<1>22. CASE IsrErrors
  BY <1>22 DEF IsrErrors
<1>23. CASE IsrAck
  BY <1>23 DEF IsrAck, ClearEvent
<1>24. CASE IsrStatus
  BY <1>24 DEF IsrStatus, Events, Ready, TxWm, RxWm
<1>25. CASE IsrIssue
  BY <1>25 DEF IsrIssue, SegmentsAt, MoreSegments, SetCommand, WriteCommand, CoreStart, LatchEvent, LatchLine
<1>26. CASE IsrOver
  BY <1>26 DEF IsrOver
<1>27. CASE IsrGoOn
  BY <1>27 DEF IsrGoOn
<1>28. CASE IsrEventsOff
  BY <1>28 DEF IsrEventsOff, WriteEnables, LatchLine
<1>29. CASE IsrIntrOff
  BY <1>29 DEF IsrIntrOff, WriteEnables, LatchLine
<1>30. CASE IsrLastWords
  BY <1>30, EmptyRxType DEF IsrLastWords
<1>31. CASE IsrDone
  BY <1>31 DEF IsrDone
<1>32. CASE IsrCallback
  BY <1>32 DEF IsrCallback
<1>33. ASSUME NEW t \in Txns, IsrCallbackLaunch(t) PROVE FlagsOK'
  BY <1>33, TotalsAssumption DEF IsrCallbackLaunch, SegmentsAt, Lesser, CoreStart, LatchLine
<1>34. CASE IsrClear
  BY <1>34 DEF IsrClear, ResetTransaction
<1>35. CASE IsrTx
  BY <1>35, FillTxType DEF IsrTx
<1>36. CASE IsrRx
  BY <1>36, EmptyRxType DEF IsrRx
<1>37. CASE IsrErrorEvents
  BY <1>37 DEF IsrErrorEvents, WriteEnables, LatchLine
<1>38. CASE IsrErrorIntr
  BY <1>38 DEF IsrErrorIntr, WriteEnables, LatchLine
<1>39. CASE IsrErrorReset
  BY <1>39 DEF IsrErrorReset, ResetTransaction, SwReset, LatchEvent, LatchLine
<1>40. CASE IsrExit
  BY <1>40 DEF IsrExit, CompleteInterrupt, Line, Events, NoEvents
<1>41. CASE Hardware /\ ShiftWord
  BY <1>41, ShortenHead DEF Hardware, HostStep, ShiftWord, EndSegment, LatchEvent, LatchLine
<1>42. CASE Hardware /\ EndSegment
  BY <1>42 DEF Hardware, HostStep, ShiftWord, EndSegment, CoreStart, LatchEvent, LatchLine
<1>43. CASE Disturb
  BY <1>43 DEF Disturb, AccessError
<1>44. CASE UNCHANGED vars
  BY <1>44 DEF vars
<1> QED
  BY <1>1, <1>2, <1>3, <1>4, <1>5, <1>6, <1>7, <1>8, <1>9, <1>10, <1>11, <1>12, <1>13,
     <1>14, <1>15, <1>16, <1>17, <1>18, <1>19, <1>20, <1>21, <1>22, <1>23, <1>24, <1>25,
     <1>26, <1>27, <1>28, <1>29, <1>30, <1>31, <1>32, <1>33, <1>34, <1>35, <1>36, <1>37,
     <1>38, <1>39, <1>40, <1>41, <1>42, <1>43, <1>44
  DEF Next, AppCall, MainStep, IsrStep, Hardware, HostStep

(* Every variable keeps its type: the queues never hold more words than    *)
(* the controller has room for, whatever the application, the handler and  *)
(* the controller do.                                                      *)
THEOREM TypeCorrect == Spec => []TypeOK
<1>1. TypeOK /\ [Next]_vars => TypeOK'
  BY DataNext, FlagsNext DEF TypeOK
<1> QED
  BY TypeInit, <1>1, PTL DEF Spec

(* A step that latches the line, or hands it over, loses no event. *)
LEMMA LineKept ==
  ASSUME \/ LatchLine /\ UNCHANGED claimed
         \/ UNCHANGED irqVars /\ UNCHANGED intrEn /\ EventReachesCore
         \/ ClearEvent \/ TakeInterrupt \/ CompleteInterrupt
  PROVE  EventReachesCore'
<1>1. CASE LatchLine /\ UNCHANGED claimed
  BY <1>1, Zenon DEF LatchLine, Line, EventReachesCore
<1>2. CASE UNCHANGED irqVars /\ UNCHANGED intrEn /\ EventReachesCore
  BY <1>2 DEF EventReachesCore, irqVars
<1>3. CASE ClearEvent
  BY <1>3 DEF ClearEvent, EventReachesCore
<1>4. CASE TakeInterrupt
  BY <1>4, HostAssumption, Zenon DEF TakeInterrupt, Line, EventReachesCore, enVars
<1>5. CASE CompleteInterrupt
  BY <1>5, Zenon DEF CompleteInterrupt, Line, EventReachesCore, enVars
<1> QED
  BY <1>1, <1>2, <1>3, <1>4, <1>5

(* Behind either interrupt controller, whatever goes wrong: a latched and  *)
(* enabled event is pending, or will be looked at when the PLIC is told of *)
(* the completion of the handler.                                          *)
THEOREM EventReachesCoreHolds == Spec => []EventReachesCore
<1>1. Init => EventReachesCore
  BY DEF Init, HostInit, EventReachesCore
<1>2. EventReachesCore /\ [Next]_vars => EventReachesCore'
  <2> SUFFICES ASSUME EventReachesCore, [Next]_vars PROVE EventReachesCore'
    OBVIOUS
  <2> USE DEF hostVars, irqVars, enVars
  <2>1. CASE AppCall
    BY <2>1, LineKept, Zenon
    DEF AppCall, spi_init, spi_deinit, spi_set_txwm, spi_set_rxwm, spi_prepare_transfer,
        spi_reset, WriteWatermarks
  <2>2. CASE MainStep
    <3>1. CASE LaunchFill \/ LaunchEvents \/ LaunchIntr \/ LaunchCommand \/ ResetHost
      BY <3>1, LineKept
      DEF LaunchFill, FillTx, WriteTxData, LaunchEvents, LaunchIntr, WriteEnables,
          LaunchCommand, SetCommand, WriteCommand, ResetHost, SwReset
    <3> QED
      BY <2>2, <3>1, LineKept
      DEF MainStep, LaunchState, LaunchTxn, LaunchReady, LaunchSegment,
          WaitDone, WaitTimeout, ResetTxn, ResetState, TimeoutState
  <2>3. CASE IsrStep
    <3>1. CASE IsrIssue \/ IsrEventsOff \/ IsrIntrOff \/ IsrLastWords \/ IsrTx \/ IsrRx
      BY <3>1, LineKept
      DEF IsrIssue, SetCommand, WriteCommand, IsrEventsOff, IsrIntrOff, WriteEnables,
          IsrLastWords, IsrTx, IsrRx, FillTx, WriteTxData, EmptyRx, ReadRxData
    <3>2. CASE IsrErrorEvents \/ IsrErrorIntr \/ IsrErrorReset
      BY <3>2, LineKept
      DEF IsrErrorEvents, IsrErrorIntr, WriteEnables, IsrErrorReset, SwReset
    <3>3. CASE \E t \in Txns : IsrCallbackLaunch(t)
      BY <3>3, LineKept DEF IsrCallbackLaunch
    <3> QED
      BY <2>3, <3>1, <3>2, <3>3, LineKept
      DEF IsrStep, IsrEnter, IsrErrors, IsrAck, IsrStatus, IsrOver, IsrGoOn, IsrDone,
          IsrCallback, IsrClear, IsrExit
  <2>4. CASE Hardware
    BY <2>4, LineKept, Zenon DEF Hardware, HostStep, ShiftWord, EndSegment
  <2>5. CASE Disturb
    BY <2>5, LineKept DEF Disturb, AccessError
  <2>6. CASE UNCHANGED vars
    BY <2>6, LineKept DEF vars
  <2> QED
    BY <2>1, <2>2, <2>3, <2>4, <2>5, <2>6 DEF Next
<1> QED
  BY <1>1, <1>2, PTL DEF Spec

(***************************************************************************)
(* Single steps of the controller and of the driver, and how each keeps    *)
(* the accounts of segments and words.                                     *)
(***************************************************************************)
LEMMA AccountedUnchanged ==
  ASSUME Accounted, UNCHANGED <<cmds, txn, scnt, asked, txcnt, rxcnt, sent, got, txq, rxq>>
  PROVE  Accounted'
  BY DEF Accounted, Over, HeadTx, HeadRx

(* A step that latches an event the interrupt is enabled for makes it      *)
(* pending at once.                                                        *)
LEMMA IrqLatch ==
  ASSUME CoreInv, IrqInv, mpc # "intr", LatchEvent, LatchLine,
         UNCHANGED <<evtEn, intrEn, claimed>>
  PROVE  /\ intr' => intr \/ pend'
         /\ intr' /\ intrEn' => pend'
         /\ pend => pend'
         /\ evtEn' => intrEn'
  BY DEF CoreInv, IrqInv, LatchEvent, LatchLine, Line

(* A transaction's totals are numbers, its segments have words. *)
LEMMA TxnFacts ==
  ASSUME NEW t \in Txns
  PROVE  /\ t \in Seq(Segments) /\ Len(t) \in Nat /\ Len(t) > 0
         /\ \A k \in 1..Len(t) : t[k] \in Segments /\ t[k].n \in Nat /\ t[k].n > 0
         /\ TxLen(t) \in Nat /\ RxLen(t) \in Nat
<1>1. t \in Seq(Segments) /\ t # <<>>
  BY SdkAssumption, Zenon
<1>2. \A k \in 1..Len(t) : t[k].n > 0
  BY SdkAssumption, Zenon
<1>3. \A k \in 1..Len(t) : t[k] \in Segments
  BY <1>1
<1>4. \A k \in 1..Len(t) : t[k].n \in Nat
  BY <1>3 DEF Segments
<1>5. Len(t) \in Nat /\ Len(t) > 0
  BY <1>1
<1> QED
  BY <1>1, <1>2, <1>3, <1>4, <1>5, TotalsAssumption

(* While the thread fills the FIFO of an idle controller nothing rises. *)
LEMMA FillQuiet ==
  ASSUME TypeOK, FillTx, Quiet, ~intr, ~pend
  PROVE  Quiet' /\ ~intr' /\ ~pend'
<1>1. txq' = txq + 1 /\ cmds' = <<>> /\ rxq' = rxq /\ txwm' = txwm /\ rxwm' = rxwm
  BY FillTxType DEF Quiet, wmVars
<1>2. ~busy'
  BY <1>1 DEF FillTx, WriteTxData, CoreStart, Startable, Quiet
<1>3. ~RiseOf(~busy, ~busy')
  BY DEF Quiet, RiseOf
<1>4. ~RiseOf(Ready, Ready')
  BY <1>1, <1>2 DEF Quiet, RiseOf, Ready, Queued
<1>5. ~RiseOf(TxWm, TxWm')
  <2>1. Txqd \in Nat /\ Txqd' \in Nat /\ Txqd <= Txqd'
    BY <1>1, HostAssumption DEF Txqd, TypeOK, DataOK
  <2>2. txwm \in Nat
    BY SdkAssumption, HostAssumption DEF TypeOK, DataOK
  <2> QED
    BY <1>1, <2>1, <2>2 DEF RiseOf, TxWm
<1>6. ~RiseOf(RxWm, RxWm')
  BY <1>1 DEF RiseOf, RxWm, Rxqd
<1>7. ~intr'
  BY <1>3, <1>4, <1>5, <1>6 DEF FillTx, WriteTxData, LatchEvent, EventRise
<1> QED
  BY <1>1, <1>2, <1>7 DEF Quiet, FillTx, WriteTxData, LatchLine, Line

(* Where the thread can be when the handler works on a transaction. *)
LEMMA HandlerWhere ==
  ASSUME SoundInv, ipc # "out", state = "BUSY"
  PROVE  /\ mpc \in {"app", "wait", "reset", "swrst", "init"}
         /\ mpc \in {"swrst", "init"} => PeriClear
  BY DEF SoundInv, TypeOK, DataOK, MainSteps, LaunchSteps, ResetSteps, LaunchInv, ClearInv

LEMMA Working ==
  ASSUME SoundInv, ipc # "out", state = "BUSY", FillsTx \/ DrainsRx
  PROVE  UnderWay
<1>1. ~PeriClear
  BY TotalsAssumption DEF PeriClear, FillsTx, DrainsRx
<1> QED
  BY <1>1, HandlerWhere DEF UnderWay

(* All segments are over and the receive FIFO has been emptied: nothing is *)
(* owed.                                                                   *)
LEMMA AllOver ==
  ASSUME TypeOK, Accounted, Quiet, scnt = Len(txn), ~DrainsRx
  PROVE  sent = TxLen(asked) /\ got = RxLen(asked) /\ txq = 0 /\ rxq = 0
<1>1. txn \in Txns /\ txn = asked /\ Over = Len(txn)
  BY TxnFacts DEF Accounted, Over, Quiet
<1>2. TxUpTo(txn, Len(txn)) = TxLen(txn) /\ RxUpTo(txn, Len(txn)) = RxLen(txn)
  BY <1>1, TotalsAssumption
<1>3. TxLen(txn) \in Nat /\ RxLen(txn) \in Nat
  BY <1>1, TxnFacts
<1>4. HeadTx = 0 /\ HeadRx = 0
  BY DEF HeadTx, HeadRx, Quiet
<1>5. sent = TxLen(txn) /\ got + rxq = RxLen(txn)
  BY <1>1, <1>2, <1>3, <1>4 DEF Accounted
<1>6. txq = 0
  BY <1>3, <1>5 DEF Accounted, TypeOK, DataOK
<1>7. rxq = 0
  BY <1>3, <1>5, HostAssumption DEF Accounted, DrainsRx, Rxqd, TypeOK, DataOK
<1> QED
  BY <1>1, <1>3, <1>5, <1>6, <1>7 DEF TypeOK, DataOK

(* The words of a FIFO move between it and the application's buffer. *)
LEMMA FillAccounted ==
  ASSUME TypeOK, Accounted, FillTx, UNCHANGED <<asked, sent, got>>
  PROVE  Accounted'
<1>1. txq' = txq + 1 /\ txcnt' = txcnt + 1 /\ UNCHANGED <<cmds, rxq, txn, scnt, rxcnt>>
  BY FillTxType
<1>2. txcnt < TxLen(txn) /\ TxLen(txn) \in Nat
  BY TxnFacts DEF FillTx, FillsTx, Accounted
<1>3. Over' = Over /\ HeadTx' = HeadTx /\ HeadRx' = HeadRx
  BY <1>1 DEF Over, HeadTx, HeadRx
<1> QED
  <2>1. /\ txcnt' = sent' + txq' /\ txcnt' <= TxLen(txn)
        /\ txcnt' = TxLen(txn) \/ txcnt' > TxDepth
    BY <1>1, <1>2, HostAssumption DEF Accounted, TypeOK, DataOK
  <2> QED
    BY <1>1, <1>3, <2>1 DEF Accounted

LEMMA EmptyAccounted ==
  ASSUME TypeOK, Accounted, EmptyRx
  PROVE  Accounted'
<1>1. /\ rxq' = rxq - 1 /\ rxcnt' = rxcnt + 1 /\ got' = got + 1
      /\ UNCHANGED <<cmds, txq, txn, scnt, txcnt, asked, sent>>
  BY EmptyRxType
<1>2. Over' = Over /\ HeadTx' = HeadTx /\ HeadRx' = HeadRx
  BY <1>1 DEF Over, HeadTx, HeadRx
<1> QED
  BY <1>1, <1>2 DEF Accounted, TypeOK, DataOK

(* The core shifts a word of the head segment. *)
LEMMA ShiftAccounted ==
  ASSUME TypeOK, Accounted, ShiftWord,
         sent' = IF Writes(Head(cmds)) THEN sent + 1 ELSE sent,
         UNCHANGED <<txn, scnt, txcnt, rxcnt, asked, got>>
  PROVE  Accounted'
<1> DEFINE t == txn[Over + 1]
<1>1. cmds \in Seq(Segments) /\ cmds # <<>> /\ cmds[1].n > 0 /\ Head(cmds) = cmds[1]
  BY DEF TypeOK, DataOK, ShiftWord
<1>2. /\ cmds' \in Seq(Segments) /\ Len(cmds') = Len(cmds)
      /\ cmds'[1].dir = cmds[1].dir /\ cmds'[1].n = cmds[1].n - 1
      /\ \A i \in 2..Len(cmds) : cmds'[i] = cmds[i]
  BY <1>1, ShortenHead DEF ShiftWord
<1>3. Len(cmds) \in Nat /\ Len(cmds) > 0 /\ cmds' # <<>> /\ cmds[1] \in Segments
  BY <1>1, <1>2
<1>4. Over' = Over /\ Over \in Nat /\ Over + 1 \in 1..Len(txn) /\ Len(txn) \in Nat
  BY <1>2, <1>3, TxnFacts DEF Over, Accounted, TypeOK, DataOK
<1>5. t \in Segments /\ t.n \in Nat
  BY <1>4, TxnFacts DEF Accounted
<1>6. cmds[1].dir = t.dir /\ cmds[1].n <= t.n /\ cmds[1].n \in Nat
  BY <1>3 DEF Accounted, Segments
<1>7. (Writes(cmds[1]) <=> Writes(t)) /\ (Reads(cmds[1]) <=> Reads(t))
  BY <1>6 DEF Writes, Reads
<1>8. \A i \in 1..Len(cmds') :
        /\ cmds'[i].dir = txn[Over + i].dir
        /\ cmds'[i].n <= txn[Over + i].n
        /\ i > 1 => cmds'[i].n = txn[Over + i].n
  <2> TAKE i \in 1..Len(cmds')
  <2>1. CASE i = 1
    BY <2>1, <1>2, <1>5, <1>6
  <2>2. CASE i # 1
    <3>1. i \in 2..Len(cmds) /\ i \in 1..Len(cmds) /\ i > 1
      BY <2>2, <1>2, <1>3
    <3> QED
      BY <3>1, <1>2 DEF Accounted
  <2> QED
    BY <2>1, <2>2
<1>9. HeadTx' = IF Writes(t) THEN HeadTx + 1 ELSE HeadTx
  BY <1>1, <1>2, <1>3, <1>4, <1>5, <1>6 DEF HeadTx, HeadRx
<1>10. HeadRx' = IF Reads(t) THEN HeadRx + 1 ELSE HeadRx
  BY <1>1, <1>2, <1>3, <1>4, <1>5, <1>6 DEF HeadTx, HeadRx
<1>11. HeadTx \in Nat /\ HeadRx \in Nat
  BY <1>5, <1>6 DEF HeadTx, HeadRx
<1>12. /\ txq' = IF Writes(t) THEN txq - 1 ELSE txq
       /\ rxq' = IF Reads(t) THEN rxq + 1 ELSE rxq
       /\ sent' = IF Writes(t) THEN sent + 1 ELSE sent
  BY <1>1, <1>7 DEF ShiftWord
<1>13. TxUpTo(txn, Over) \in Nat /\ RxUpTo(txn, Over) \in Nat
  BY <1>4, TotalsAssumption DEF Accounted
<1>14. /\ sent \in Nat /\ got \in Nat /\ txq \in Nat /\ rxq \in Nat
       /\ Writes(t) => txq > 0
  BY <1>1, <1>7, HostAssumption DEF ShiftWord, TypeOK, DataOK
<1>15. /\ sent = TxUpTo(txn, Over) + HeadTx
       /\ got + rxq = RxUpTo(txn, Over) + HeadRx
       /\ txcnt = sent + txq
  BY DEF Accounted
<1>16. sent' = TxUpTo(txn, Over) + HeadTx' /\ txcnt = sent' + txq'
  <2>1. CASE Writes(t)
    BY <2>1, <1>9, <1>11, <1>12, <1>13, <1>14, <1>15
  <2>2. CASE ~Writes(t)
    BY <2>2, <1>9, <1>11, <1>12, <1>13, <1>14, <1>15
  <2> QED
    BY <2>1, <2>2
<1>17. got + rxq' = RxUpTo(txn, Over) + HeadRx'
  <2>1. CASE Reads(t)
    <3>1. rxq' = rxq + 1 /\ HeadRx' = HeadRx + 1
      BY <2>1, <1>10, <1>12
    <3> QED
      BY <3>1, <1>11, <1>13, <1>14, <1>15
  <2>2. CASE ~Reads(t)
    BY <2>2, <1>10, <1>11, <1>12, <1>13, <1>14, <1>15
  <2> QED
    BY <2>1, <2>2
<1> QED
  BY <1>4, <1>8, <1>16, <1>17 DEF Accounted

(* The head segment is over. *)
LEMMA EndAccounted ==
  ASSUME TypeOK, Accounted, EndSegment,
         UNCHANGED <<txn, scnt, txcnt, rxcnt, asked, sent, got>>
  PROVE  Accounted'
<1> DEFINE t == txn[Over + 1]
<1>1. cmds \in Seq(Segments) /\ cmds # <<>> /\ cmds[1].n = 0 /\ cmds' = Tail(cmds)
  BY DEF TypeOK, DataOK, EndSegment
<1>2. /\ Len(cmds) \in Nat /\ Len(cmds) > 0 /\ Len(cmds') = Len(cmds) - 1
      /\ \A i \in 1..Len(cmds') : cmds'[i] = cmds[i + 1]
  BY <1>1
<1>3. Over' = Over + 1 /\ Over \in Nat /\ Over + 1 \in 1..Len(txn) /\ Len(txn) \in Nat
  <2>1. scnt' = scnt /\ scnt \in Nat /\ scnt <= Len(txn) /\ Len(txn) \in Nat /\ Over >= 0
    BY TxnFacts DEF Accounted, TypeOK, DataOK
  <2> QED
    BY <1>2, <2>1 DEF Over
<1>4. t \in Segments /\ t.n \in Nat
  BY <1>3, TxnFacts DEF Accounted
<1>5. \A i \in 1..Len(cmds') :
        /\ cmds'[i].dir = txn[Over' + i].dir
        /\ cmds'[i].n <= txn[Over' + i].n
        /\ i > 1 => cmds'[i].n = txn[Over' + i].n
        /\ cmds'[i].n = txn[Over' + i].n
  <2> TAKE i \in 1..Len(cmds')
  <2>0. i \in Nat /\ i >= 1 /\ i <= Len(cmds) - 1
    BY <1>2
  <2>1. i + 1 \in 1..Len(cmds) /\ i + 1 > 1 /\ Over' + i = Over + (i + 1)
    <3>1. i + 1 \in 1..Len(cmds) /\ i + 1 > 1
      BY <2>0, <1>2
    <3>2. Over' + i = Over + (i + 1)
      BY <2>0, <1>3
    <3> QED
      BY <3>1, <3>2
  <2>2. cmds[i + 1].dir = txn[Over + (i + 1)].dir /\ cmds[i + 1].n = txn[Over + (i + 1)].n
    BY <2>1 DEF Accounted
  <2>3. cmds[i + 1] \in Segments
    BY <2>1, <1>1
  <2>4. cmds[i + 1].n \in Nat
    BY <2>3 DEF Segments
  <2> QED
    BY <2>1, <2>2, <2>4, <1>2
<1>6. HeadTx' = 0 /\ HeadRx' = 0
  <2>1. CASE cmds' = <<>>
    BY <2>1 DEF HeadTx, HeadRx
  <2>2. CASE cmds' # <<>>
    <3>1. 1 \in 1..Len(cmds')
      BY <2>2, <1>1, <1>2
    <3>2. cmds'[1].n = txn[Over' + 1].n /\ txn' = txn
      BY <3>1, <1>5
    <3>3. cmds'[1] \in Segments
      BY <1>1, <1>2, <3>1
    <3>4. cmds'[1].n - cmds'[1].n = 0
      BY <3>3 DEF Segments
    <3> QED
      BY <3>2, <3>4 DEF HeadTx, HeadRx
  <2> QED
    BY <2>1, <2>2
<1>7. /\ HeadTx = IF Writes(t) THEN t.n ELSE 0
      /\ HeadRx = IF Reads(t) THEN t.n ELSE 0
  BY <1>1, <1>4 DEF HeadTx, HeadRx
<1>8. /\ TxUpTo(txn, Over + 1) = TxUpTo(txn, Over) + (IF Writes(t) THEN t.n ELSE 0)
      /\ RxUpTo(txn, Over + 1) = RxUpTo(txn, Over) + (IF Reads(t) THEN t.n ELSE 0)
  <2>1. (Over + 1) - 1 = Over
    BY <1>3
  <2> QED
    BY <1>3, <2>1, TotalsAssumption DEF Accounted
<1>9. TxUpTo(txn, Over + 1) \in Nat /\ RxUpTo(txn, Over + 1) \in Nat
  BY <1>3, TotalsAssumption DEF Accounted
<1>10. /\ sent = TxUpTo(txn, Over') + HeadTx'
       /\ got + rxq = RxUpTo(txn, Over') + HeadRx'
  BY <1>3, <1>6, <1>7, <1>8, <1>9 DEF Accounted
<1>11. txq' = txq /\ rxq' = rxq
  BY DEF EndSegment
<1> QED
  BY <1>3, <1>5, <1>10, <1>11 DEF Accounted

(* The next segment is issued. *)
LEMMA IssueAccounted ==
  ASSUME TypeOK, Accounted, scnt < Len(txn),
         cmds' = Append(cmds, txn[scnt + 1]), scnt' = scnt + 1,
         UNCHANGED <<txq, rxq, txn, txcnt, rxcnt, asked, sent, got>>
  PROVE  Accounted'
<1>1. cmds \in Seq(Segments) /\ scnt \in Nat /\ scnt >= 1 /\ Over >= 0
  BY DEF TypeOK, DataOK, Accounted
<1>2. Len(txn) \in Nat /\ txn[scnt + 1] \in Segments /\ txn[scnt + 1].n \in Nat
  BY <1>1, TxnFacts DEF Accounted
<1>3. /\ Len(cmds) \in Nat /\ Len(cmds') = Len(cmds) + 1 /\ cmds' # <<>>
      /\ \A i \in 1..Len(cmds) : cmds'[i] = cmds[i]
      /\ cmds'[Len(cmds) + 1] = txn[scnt + 1]
  BY <1>1, <1>2
<1>4. Over' = Over /\ Over \in Nat /\ Over + (Len(cmds) + 1) = scnt + 1
  BY <1>1, <1>3 DEF Over
<1>5. \A i \in 1..Len(cmds') :
        /\ cmds'[i].dir = txn[Over + i].dir
        /\ cmds'[i].n <= txn[Over + i].n
        /\ i > 1 => cmds'[i].n = txn[Over + i].n
  <2> TAKE i \in 1..Len(cmds')
  <2>1. CASE i = Len(cmds) + 1
    BY <2>1, <1>2, <1>3, <1>4
  <2>2. CASE i # Len(cmds) + 1
    <3>1. i \in 1..Len(cmds)
      BY <2>2, <1>3
    <3> QED
      BY <3>1, <1>3 DEF Accounted
  <2> QED
    BY <2>1, <2>2
<1>6. HeadTx' = HeadTx /\ HeadRx' = HeadRx
  <2>1. CASE cmds = <<>>
    <3>1. Len(cmds) = 0
      BY <2>1
    <3>2. cmds'[1] = txn[Over + 1] /\ txn[Over + 1] = txn[scnt + 1]
      BY <3>1, <1>1, <1>3, <1>4
    <3>3. txn[Over + 1].n - cmds'[1].n = 0
      BY <3>2, <1>2
    <3> QED
      BY <2>1, <3>3, <1>4 DEF HeadTx, HeadRx
  <2>2. CASE cmds # <<>>
    <3>1. cmds'[1] = cmds[1]
      BY <2>2, <1>1, <1>3
    <3> QED
      BY <2>2, <3>1, <1>3, <1>4 DEF HeadTx, HeadRx
  <2> QED
    BY <2>1, <2>2
<1>7. scnt' \in 1..Len(txn)
  BY <1>1, <1>2
<1> QED
  BY <1>4, <1>5, <1>6, <1>7 DEF Accounted

(* The core finds the first word of a segment that it is given: the        *)
(* controller never looks idle between two segments of a transaction.      *)
LEMMA IssueStarts ==
  ASSUME Assumptions, TypeOK, CoreInv, Accounted, scnt < Len(txn),
         WriteCommand(txn[scnt + 1])
  PROVE  busy' /\ cmds' # <<>>
<1>1. cmds \in Seq(Segments) /\ scnt \in Nat /\ scnt >= 1
  BY DEF TypeOK, DataOK, Accounted
<1>2. /\ txn \in Txns /\ Len(txn) \in Nat
      /\ txn[scnt + 1] \in Segments /\ txn[scnt + 1].n \in Nat /\ txn[scnt + 1].n > 0
  BY <1>1, TxnFacts DEF Accounted
<1>3. cmds' = Append(cmds, txn[scnt + 1]) /\ cmds' # <<>> /\ txq' = txq /\ err' = err
  BY <1>1, <1>2 DEF WriteCommand
<1>4. CASE busy
  BY <1>3, <1>4 DEF WriteCommand, CoreStart
<1>5. CASE ~busy
  <2>1. cmds = <<>> /\ ~err
    BY <1>5 DEF CoreInv
  <2>2. Head(cmds') = txn[scnt + 1]
    BY <1>2, <1>3, <2>1
  <2>3. ASSUME Writes(txn[scnt + 1]) PROVE txq > 0
    <3>1. sent = TxUpTo(txn, scnt)
      <4>1. Over = scnt /\ HeadTx = 0
        BY <2>1, <1>1 DEF Over, HeadTx
      <4>2. TxUpTo(txn, scnt) \in Nat
        BY <1>1, <1>2, TotalsAssumption
      <4> QED
        BY <4>1, <4>2 DEF Accounted
    <3>2. scnt + 1 \in 2..Len(txn) /\ (scnt + 1) - 1 = scnt /\ scnt + 1 \in 1..Len(txn)
          /\ scnt + 1 \in 0..Len(txn)
      BY <1>1, <1>2
    <3>3. TxUpTo(txn, scnt) <= TxDepth
      BY <2>3, <3>2, <1>2 DEF Assumptions, Preloaded
    <3>4. TxUpTo(txn, scnt + 1) = TxUpTo(txn, scnt) + txn[scnt + 1].n
      BY <2>3, <3>2, <1>2, TotalsAssumption
    <3>5. TxUpTo(txn, scnt + 1) <= TxLen(txn) /\ TxLen(txn) \in Nat
      BY <3>2, <1>2, TotalsAssumption
    <3>6. sent \in Nat /\ txq \in Nat /\ txcnt = sent + txq
      BY HostAssumption DEF Accounted, TypeOK, DataOK
    <3>7. CASE txcnt = TxLen(txn)
      BY <3>1, <3>4, <3>5, <3>6, <3>7, <1>2
    <3>8. CASE txcnt > TxDepth
      BY <3>1, <3>3, <3>6, <3>8, HostAssumption
    <3> QED
      BY <3>7, <3>8 DEF Accounted
  <2>4. Startable'
    BY <1>3, <2>1, <2>2, <2>3 DEF Startable
  <2> QED
    BY <1>3, <2>4 DEF WriteCommand, CoreStart
<1> QED
  BY <1>3, <1>4, <1>5

(* A word more in the transmit FIFO changes nothing to a core at work. *)
LEMMA FillCore ==
  ASSUME TypeOK, CoreInv, FillTx
  PROVE  CoreInv' /\ busy' = busy
<1>1. cmds' = cmds /\ err' = err /\ claimed' = claimed
  BY FillTxType
<1>2. busy' = ((busy /\ cmds' # <<>>) \/ Startable')
  BY DEF FillTx, WriteTxData, CoreStart
<1>3. cmds = <<>> => ~Startable'
  BY <1>1 DEF Startable
<1>4. (busy' <=> cmds # <<>>) /\ busy' \in BOOLEAN
  BY <1>1, <1>2, <1>3, Zenon DEF CoreInv
<1> QED
  BY <1>1, <1>4 DEF CoreInv, TypeOK, FlagsOK

(* The first segment is issued: the transaction is under way. *)
LEMMA LaunchAccounted ==
  ASSUME TypeOK, CoreInv, LaunchInv, mpc = "cmd", SetCommand(seg),
         UNCHANGED <<txn, scnt, txcnt, rxcnt, asked, sent, got>>
  PROVE  Accounted' /\ busy' /\ cmds' # <<>> /\ WriteCommand(seg)
<1>1. /\ Quiet /\ rxq = 0 /\ sent = 0 /\ got = 0 /\ asked \in Txns /\ txn = asked
      /\ rxcnt = 0 /\ txcnt = txq /\ txcnt <= TxLen(asked) /\ scnt = 1 /\ ~FillsTx
      /\ seg = asked[1]
  BY DEF LaunchInv, LaunchSteps
<1>2. /\ Len(asked) \in Nat /\ Len(asked) > 0 /\ seg \in Segments
      /\ seg.n \in Nat /\ seg.n > 0 /\ TxLen(asked) \in Nat
  BY <1>1, TxnFacts
<1>3. Ready
  <2>1. Queued = 0
    BY <1>1 DEF Quiet, Queued
  <2> QED
    BY <2>1, HostAssumption DEF Ready
<1>4. WriteCommand(seg)
  BY <1>3 DEF SetCommand
<1>5. cmds' = <<seg>> /\ txq' = txq /\ rxq' = rxq /\ err' = err
  BY <1>1, <1>4 DEF WriteCommand, Quiet
<1>6. Len(cmds') = 1 /\ cmds'[1] = seg /\ cmds' # <<>> /\ Head(cmds') = seg
  BY <1>2, <1>5
<1>7. Over' = 0 /\ HeadTx' = 0 /\ HeadRx' = 0
  <2>1. Over' = 0 /\ txn'[Over' + 1] = seg
    BY <1>1, <1>6 DEF Over
  <2>2. seg.n - seg.n = 0
    BY <1>2
  <2> QED
    BY <1>6, <2>1, <2>2 DEF HeadTx, HeadRx
<1>8. TxUpTo(asked, 0) = 0 /\ RxUpTo(asked, 0) = 0
  BY <1>1, TotalsAssumption
<1>9. txq \in Nat /\ (txcnt = TxLen(asked) \/ txcnt > TxDepth)
  BY <1>1, <1>2, HostAssumption DEF FillsTx, Txqd, TypeOK, DataOK
<1>10. Accounted'
  <2>1. \A i \in 1..Len(cmds') :
         /\ cmds'[i].dir = txn'[Over' + i].dir
         /\ cmds'[i].n <= txn'[Over' + i].n
         /\ i > 1 => cmds'[i].n = txn'[Over' + i].n
    <3> TAKE i \in 1..Len(cmds')
    <3>1. i = 1 /\ Over' + i = 1
      BY <1>6, <1>7
    <3> QED
      BY <3>1, <1>1, <1>2, <1>6
  <2> QED
    BY <2>1, <1>1, <1>2, <1>5, <1>7, <1>8, <1>9 DEF Accounted
<1>11. Writes(seg) => txq > 0
  <2>1. Writes(seg) => TxUpTo(asked, 1) = TxUpTo(asked, 0) + seg.n
    <3>1. 1 \in 1..Len(asked) /\ 1 - 1 = 0
      BY <1>2
    <3> QED
      BY <3>1, <1>1, TotalsAssumption
  <2>2. TxUpTo(asked, 1) <= TxLen(asked) /\ TxUpTo(asked, 1) \in Nat
    <3>1. 1 \in 0..Len(asked)
      BY <1>2
    <3> QED
      BY <3>1, <1>1, TotalsAssumption
  <2> QED
    BY <2>1, <2>2, <1>1, <1>2, <1>8, <1>9, HostAssumption
<1>12. Startable'
  BY <1>5, <1>6, <1>11 DEF Startable, CoreInv
<1> QED
  BY <1>4, <1>6, <1>10, <1>12 DEF WriteCommand, CoreStart

(***************************************************************************)
(* SdkInv is an invariant, and with it the SDK is safe.                    *)
(***************************************************************************)

(* A word or a segment that the core is done with leaves the head of the   *)
(* command queue, not the part of it that still waits.                     *)
LEMMA ShiftQueue ==
  ASSUME TypeOK, ShiftWord
  PROVE  cmds' # <<>> /\ Len(cmds') = Len(cmds) /\ busy' = busy
<1>1. cmds \in Seq(Segments) /\ cmds # <<>> /\ cmds[1].n > 0 /\ busy' = busy
  BY DEF TypeOK, DataOK, ShiftWord
<1>2. cmds' \in Seq(Segments) /\ Len(cmds') = Len(cmds)
  BY <1>1, ShortenHead DEF ShiftWord
<1> QED
  BY <1>1, <1>2

LEMMA EndQueue ==
  ASSUME TypeOK, CoreInv, EndSegment
  PROVE  (busy' <=> cmds' # <<>>) /\ (Ready => Ready')
<1>1. cmds \in Seq(Segments) /\ cmds # <<>> /\ cmds' = Tail(cmds) /\ busy
  BY DEF TypeOK, DataOK, EndSegment
<1>2. Len(cmds) \in Nat /\ Len(cmds') = Len(cmds) - 1 /\ Len(cmds) > 0 /\ cmds' \in Seq(Segments)
  BY <1>1
<1>3. busy' = ((busy /\ cmds' # <<>>) \/ Startable')
  BY DEF EndSegment, CoreStart
<1>4. Startable' => cmds' # <<>>
  BY DEF Startable
<1>5. busy' <=> cmds' # <<>>
  BY <1>1, <1>3, <1>4, Zenon
<1>6. Queued = Len(cmds) - 1 /\ Queued' <= Queued /\ Queued' \in Nat
  BY <1>1, <1>2, <1>5 DEF Queued
<1>7. Ready => Ready'
  BY <1>2, <1>6, HostAssumption DEF Ready
<1> QED
  BY <1>5, <1>7


(* Steps of the thread that touch no register of the controller.           *)
LEMMA ThreadSafe ==
  ASSUME Assumptions, SoundInv, TypeOK',
         spi_init \/ spi_deinit \/ LaunchState \/ WaitDone \/ WaitTimeout \/
         spi_reset \/ ResetTxn \/ ResetState \/ TimeoutState
  PROVE  SoundInv'
<1> USE DEF hostVars, fifoVars, wmVars, enVars, irqVars, periVars, mainVars, isrVars, history,
        At, IsrAt, MainRuns
<1>1. TypeOK /\ CoreInv /\ IrqInv /\ LaunchInv /\ HandlerInv /\ ClearInv /\ AccountInv
  BY DEF SoundInv
<1>2. CoreInv'
  BY <1>1
  DEF CoreInv, spi_init, spi_deinit, LaunchState, WaitDone, WaitTimeout,
      spi_reset, ResetTxn, ResetState, TimeoutState, ResetTransaction
<1>3. IrqInv'
  BY <1>1
  DEF IrqInv, LaunchInv, spi_init, spi_deinit, LaunchState, WaitDone,
      WaitTimeout, spi_reset, ResetTxn, ResetState, TimeoutState,
      ResetTransaction
<1>4. LaunchInv'
  BY <1>1
  DEF LaunchInv, LaunchSteps, PeriClear, HostClear, Quiet, spi_init, spi_deinit,
      LaunchState, WaitDone, WaitTimeout, spi_reset, ResetTxn, ResetState,
      TimeoutState, ResetTransaction
<1>5. HandlerInv'
  BY <1>1
  DEF HandlerInv, LaunchInv, LaunchSteps, Quiet, spi_init, spi_deinit,
      LaunchState, WaitDone, WaitTimeout, spi_reset, ResetTxn, ResetState,
      TimeoutState, ResetTransaction
<1>6. ClearInv'
  BY <1>1
  DEF ClearInv, LaunchInv, LaunchSteps, PeriClear, HostClear, Quiet, spi_init,
      spi_deinit, LaunchState, WaitDone, WaitTimeout, spi_reset, ResetTxn,
      ResetState, TimeoutState, ResetTransaction
<1>7. AccountInv'
  BY <1>1, AccountedUnchanged
  DEF AccountInv, UnderWay, spi_init, spi_deinit, LaunchState, WaitDone,
      WaitTimeout, spi_reset, ResetTxn, ResetState, TimeoutState,
      ResetTransaction
<1> QED
  BY <1>2, <1>3, <1>4, <1>5, <1>6, <1>7 DEF SoundInv

(* The core enters the handler.                                            *)
LEMMA IsrEnterSafe ==
  ASSUME Assumptions, SoundInv, TypeOK', IsrEnter
  PROVE  SoundInv'
<1> USE DEF hostVars, fifoVars, wmVars, enVars, irqVars, periVars, mainVars, isrVars, history,
        At, IsrAt, MainRuns
<1>1. TypeOK /\ CoreInv /\ IrqInv /\ LaunchInv /\ HandlerInv /\ ClearInv /\ AccountInv
  BY DEF SoundInv
<1>2. CoreInv'
  BY <1>1 DEF CoreInv, IsrEnter, TakeInterrupt, Line, Assumptions
<1>3. IrqInv'
  BY <1>1 DEF IrqInv, LaunchInv, IsrEnter, TakeInterrupt, Line, Assumptions
<1>4. LaunchInv'
  BY <1>1
  DEF LaunchInv, LaunchSteps, PeriClear, HostClear, Quiet, IsrEnter,
      TakeInterrupt, Line, Assumptions
<1>5. HandlerInv'
  BY <1>1
  DEF HandlerInv, LaunchInv, LaunchSteps, Quiet, IsrEnter, TakeInterrupt, Line,
      Assumptions
<1>6. ClearInv'
  BY <1>1
  DEF ClearInv, LaunchInv, LaunchSteps, PeriClear, HostClear, Quiet, IsrEnter,
      TakeInterrupt, Line, Assumptions
<1>7. AccountInv'
  BY <1>1, AccountedUnchanged DEF AccountInv, UnderWay, IsrEnter, TakeInterrupt, Line, Assumptions
<1> QED
  BY <1>2, <1>3, <1>4, <1>5, <1>6, <1>7 DEF SoundInv

(* Steps of the handler that move neither a word nor a segment.            *)
LEMMA HandlerSafe ==
  ASSUME Assumptions, SoundInv, TypeOK',
         IsrErrors \/ IsrAck \/ IsrGoOn \/ IsrEventsOff \/ IsrDone \/
         IsrCallback \/ IsrExit
  PROVE  SoundInv'
<1> USE DEF hostVars, fifoVars, wmVars, enVars, irqVars, periVars, mainVars, isrVars, history,
        At, IsrAt, MainRuns
<1>1. TypeOK /\ CoreInv /\ IrqInv /\ LaunchInv /\ HandlerInv /\ ClearInv /\ AccountInv
  BY DEF SoundInv
<1>2. CoreInv'
  BY <1>1
  DEF CoreInv, IsrErrors, IsrAck, IsrGoOn, IsrEventsOff, IsrDone, IsrCallback,
      IsrExit, ClearEvent, WriteEnables, CompleteInterrupt, LatchLine, Line,
      HandlerInv, DrainsRx, Rxqd
<1>3. IrqInv'
  <2>1. CASE IsrErrors \/ IsrGoOn \/ IsrDone \/ IsrCallback
    BY <1>1, <2>1 DEF IrqInv, CoreInv, IsrErrors, IsrGoOn, IsrDone, IsrCallback
  <2>2. CASE IsrAck
    BY <1>1, <2>2 DEF IrqInv, IsrAck, ClearEvent
  <2>3. CASE IsrEventsOff
    BY <1>1, <2>3 DEF IrqInv, IsrEventsOff, WriteEnables, LatchLine, Line
  <2>4. CASE IsrExit
    BY <1>1, <2>4 DEF IrqInv, IsrExit, CompleteInterrupt, Line
  <2> QED
    BY <2>1, <2>2, <2>3, <2>4
<1>4. LaunchInv'
  BY <1>1
  DEF LaunchInv, LaunchSteps, PeriClear, HostClear, Quiet, IsrErrors, IsrAck,
      IsrGoOn, IsrEventsOff, IsrDone, IsrCallback, IsrExit, ClearEvent,
      WriteEnables, CompleteInterrupt, LatchLine, Line, CoreInv, HandlerInv,
      DrainsRx, Rxqd
<1>5. HandlerInv'
  BY <1>1
  DEF HandlerInv, LaunchInv, LaunchSteps, Quiet, IsrErrors, IsrAck, IsrGoOn,
      IsrEventsOff, IsrDone, IsrCallback, IsrExit, ClearEvent, WriteEnables,
      CompleteInterrupt, LatchLine, Line, CoreInv, DrainsRx, Rxqd
<1>6. ClearInv'
  BY <1>1
  DEF ClearInv, LaunchInv, LaunchSteps, PeriClear, HostClear, Quiet, IsrErrors,
      IsrAck, IsrGoOn, IsrEventsOff, IsrDone, IsrCallback, IsrExit, ClearEvent,
      WriteEnables, CompleteInterrupt, LatchLine, Line, CoreInv, HandlerInv,
      DrainsRx, Rxqd
<1>7. AccountInv'
  BY <1>1, AccountedUnchanged
  DEF AccountInv, UnderWay, IsrErrors, IsrAck, IsrGoOn, IsrEventsOff, IsrDone,
      IsrCallback, IsrExit, ClearEvent, WriteEnables, CompleteInterrupt,
      LatchLine, Line, CoreInv, HandlerInv, DrainsRx, Rxqd
<1> QED
  BY <1>2, <1>3, <1>4, <1>5, <1>6, <1>7 DEF SoundInv

(* A watermark is set while no transfer is in progress.                    *)
LEMMA spi_set_txwmSafe ==
  ASSUME Assumptions, SoundInv, TypeOK', NEW wm \in TxWms, spi_set_txwm(wm)
  PROVE  SoundInv'
<1> USE DEF hostVars, fifoVars, wmVars, enVars, irqVars, periVars, mainVars, isrVars, history,
        At, IsrAt, MainRuns
<1>1. TypeOK /\ CoreInv /\ IrqInv /\ LaunchInv /\ HandlerInv /\ ClearInv /\ AccountInv
  BY DEF SoundInv
<1>2. CoreInv'
  BY <1>1 DEF CoreInv, spi_set_txwm, WriteWatermarks, LatchEvent, LatchLine, Line
<1>3. IrqInv'
  <2>1. LatchEvent /\ LatchLine /\ UNCHANGED <<evtEn, intrEn, claimed>> /\ mpc # "intr" /\ mpc' # "intr"
    BY <1>1 DEF spi_set_txwm, WriteWatermarks
  <2> QED
    BY <1>1, <2>1, IrqLatch DEF IrqInv, spi_set_txwm
<1>4. LaunchInv'
  BY <1>1
  DEF LaunchInv, LaunchSteps, PeriClear, HostClear, Quiet, spi_set_txwm,
      WriteWatermarks, LatchEvent, LatchLine, Line
<1>5. HandlerInv'
  BY <1>1
  DEF HandlerInv, LaunchInv, LaunchSteps, Quiet, spi_set_txwm, WriteWatermarks,
      LatchEvent, LatchLine, Line
<1>6. ClearInv'
  BY <1>1
  DEF ClearInv, LaunchInv, LaunchSteps, PeriClear, HostClear, Quiet,
      spi_set_txwm, WriteWatermarks, LatchEvent, LatchLine, Line
<1>7. AccountInv'
  BY <1>1, AccountedUnchanged
  DEF AccountInv, UnderWay, spi_set_txwm, WriteWatermarks, LatchEvent,
      LatchLine, Line
<1> QED
  BY <1>2, <1>3, <1>4, <1>5, <1>6, <1>7 DEF SoundInv

(* Likewise the receive watermark.                                         *)
LEMMA spi_set_rxwmSafe ==
  ASSUME Assumptions, SoundInv, TypeOK', NEW wm \in RxWms, spi_set_rxwm(wm)
  PROVE  SoundInv'
<1> USE DEF hostVars, fifoVars, wmVars, enVars, irqVars, periVars, mainVars, isrVars, history,
        At, IsrAt, MainRuns
<1>1. TypeOK /\ CoreInv /\ IrqInv /\ LaunchInv /\ HandlerInv /\ ClearInv /\ AccountInv
  BY DEF SoundInv
<1>2. CoreInv'
  BY <1>1 DEF CoreInv, spi_set_rxwm, WriteWatermarks, LatchEvent, LatchLine, Line
<1>3. IrqInv'
  <2>1. LatchEvent /\ LatchLine /\ UNCHANGED <<evtEn, intrEn, claimed>> /\ mpc # "intr" /\ mpc' # "intr"
    BY <1>1 DEF spi_set_rxwm, WriteWatermarks
  <2> QED
    BY <1>1, <2>1, IrqLatch DEF IrqInv, spi_set_rxwm
<1>4. LaunchInv'
  BY <1>1
  DEF LaunchInv, LaunchSteps, PeriClear, HostClear, Quiet, spi_set_rxwm,
      WriteWatermarks, LatchEvent, LatchLine, Line
<1>5. HandlerInv'
  BY <1>1
  DEF HandlerInv, LaunchInv, LaunchSteps, Quiet, spi_set_rxwm, WriteWatermarks,
      LatchEvent, LatchLine, Line
<1>6. ClearInv'
  BY <1>1
  DEF ClearInv, LaunchInv, LaunchSteps, PeriClear, HostClear, Quiet,
      spi_set_rxwm, WriteWatermarks, LatchEvent, LatchLine, Line
<1>7. AccountInv'
  BY <1>1, AccountedUnchanged
  DEF AccountInv, UnderWay, spi_set_rxwm, WriteWatermarks, LatchEvent,
      LatchLine, Line
<1> QED
  BY <1>2, <1>3, <1>4, <1>5, <1>6, <1>7 DEF SoundInv

(* A transfer is accepted on a clear peripheral.                           *)
LEMMA spi_prepare_transferSafe ==
  ASSUME Assumptions, SoundInv, TypeOK', NEW t \in Txns, NEW blk \in BOOLEAN, spi_prepare_transfer(t, blk)
  PROVE  SoundInv'
<1> USE DEF hostVars, fifoVars, wmVars, enVars, irqVars, periVars, mainVars, isrVars, history,
        At, IsrAt, MainRuns
<1>1. TypeOK /\ CoreInv /\ IrqInv /\ LaunchInv /\ HandlerInv /\ ClearInv /\ AccountInv
  BY DEF SoundInv
<1>2. CoreInv'
  BY <1>1 DEF CoreInv, spi_prepare_transfer
<1>3. IrqInv'
  BY <1>1 DEF IrqInv, LaunchInv, spi_prepare_transfer
<1>4. LaunchInv'
  BY <1>1 DEF LaunchInv, LaunchSteps, ClearInv, PeriClear, HostClear, Quiet, spi_prepare_transfer
<1>5. HandlerInv'
  BY <1>1 DEF HandlerInv, LaunchInv, LaunchSteps, Quiet, spi_prepare_transfer
<1>6. ClearInv'
  BY <1>1
  DEF ClearInv, LaunchInv, LaunchSteps, PeriClear, HostClear, Quiet,
      spi_prepare_transfer
<1>7. AccountInv'
  BY <1>1, AccountedUnchanged DEF AccountInv, UnderWay, spi_prepare_transfer
<1> QED
  BY <1>2, <1>3, <1>4, <1>5, <1>6, <1>7 DEF SoundInv

(* The launch stores the transaction.                                      *)
LEMMA LaunchTxnSafe ==
  ASSUME Assumptions, SoundInv, TypeOK', LaunchTxn
  PROVE  SoundInv'
<1> USE DEF hostVars, fifoVars, wmVars, enVars, irqVars, periVars, mainVars, isrVars, history,
        At, IsrAt, MainRuns
<1>1. TypeOK /\ CoreInv /\ IrqInv /\ LaunchInv /\ HandlerInv /\ ClearInv /\ AccountInv
  BY DEF SoundInv
<1>2. CoreInv'
  BY <1>1 DEF CoreInv, LaunchTxn
<1>3. IrqInv'
  BY <1>1 DEF IrqInv, LaunchInv, LaunchTxn
<1>4. LaunchInv'
  <2>1. asked \in Txns /\ TxLen(asked) \in Nat
    BY <1>1, TxnFacts DEF LaunchInv, LaunchSteps, LaunchTxn
  <2> QED
    BY <1>1, <2>1 DEF LaunchInv, LaunchSteps, PeriClear, HostClear, Quiet, LaunchTxn
<1>5. HandlerInv'
  BY <1>1 DEF HandlerInv, LaunchInv, LaunchSteps, Quiet, LaunchTxn
<1>6. ClearInv'
  BY <1>1
  DEF ClearInv, LaunchInv, LaunchSteps, PeriClear, HostClear, Quiet, LaunchTxn
<1>7. AccountInv'
  BY <1>1, AccountedUnchanged DEF AccountInv, UnderWay, LaunchTxn
<1> QED
  BY <1>2, <1>3, <1>4, <1>5, <1>6, <1>7 DEF SoundInv

(* It fills the FIFO of an idle controller: no event can rise.             *)
LEMMA LaunchFillSafe ==
  ASSUME Assumptions, SoundInv, TypeOK', LaunchFill
  PROVE  SoundInv'
<1> USE DEF hostVars, fifoVars, wmVars, enVars, irqVars, periVars, mainVars, isrVars, history,
        At, IsrAt, MainRuns
<1>1. TypeOK /\ CoreInv /\ IrqInv /\ LaunchInv /\ HandlerInv /\ ClearInv /\ AccountInv
  BY DEF SoundInv
<1>8. mpc = "fill" /\ ipc = "out" /\ ~pend /\ Quiet /\ ~intr
  BY <1>1 DEF LaunchFill, LaunchInv, LaunchSteps, IrqInv
<1>9. FillTx => Quiet' /\ ~intr' /\ ~pend' /\ UNCHANGED <<evtEn, intrEn>>
  BY <1>8, <1>1, FillQuiet, FillTxType
<1>2. CoreInv'
  BY <1>1, FillCore DEF CoreInv, LaunchFill
<1>3. IrqInv'
  BY <1>8, <1>9, <1>1 DEF IrqInv, LaunchFill
<1>4. LaunchInv'
  <2>1. CASE FillTx
    <3>1. txcnt < TxLen(asked) /\ TxLen(asked) \in Nat /\ txn = asked /\ txcnt \in Nat /\ txcnt = txq
      BY <2>1, <1>8, <1>1, TxnFacts DEF FillTx, FillsTx, LaunchInv, LaunchSteps, TypeOK, DataOK
    <3> QED
      BY <2>1, <3>1, <1>8, <1>9, <1>1, FillTxType DEF LaunchInv, LaunchSteps, LaunchFill
  <2>2. CASE ~FillTx
    BY <2>2, <1>8, <1>1 DEF LaunchInv, LaunchSteps, PeriClear, Quiet, FillsTx, Txqd, LaunchFill
  <2> QED
    BY <2>1, <2>2
<1>5. HandlerInv'
  BY <1>8, <1>9, <1>1 DEF HandlerInv, LaunchFill
<1>6. ClearInv'
  BY <1>8, <1>1, FillTxType DEF ClearInv, LaunchInv, LaunchSteps, LaunchFill
<1>7. AccountInv'
  BY DEF AccountInv, UnderWay, LaunchFill
<1> QED
  BY <1>2, <1>3, <1>4, <1>5, <1>6, <1>7 DEF SoundInv

(* It enables the events,                                                  *)
LEMMA LaunchEventsSafe ==
  ASSUME Assumptions, SoundInv, TypeOK', LaunchEvents
  PROVE  SoundInv'
<1> USE DEF hostVars, fifoVars, wmVars, enVars, irqVars, periVars, mainVars, isrVars, history,
        At, IsrAt, MainRuns
<1>1. TypeOK /\ CoreInv /\ IrqInv /\ LaunchInv /\ HandlerInv /\ ClearInv /\ AccountInv
  BY DEF SoundInv
<1>2. CoreInv'
  BY <1>1 DEF CoreInv, LaunchEvents, WriteEnables, LatchLine, Line
<1>3. IrqInv'
  BY <1>1 DEF IrqInv, LaunchInv, LaunchEvents, WriteEnables, LatchLine, Line
<1>4. LaunchInv'
  BY <1>1 DEF LaunchInv, LaunchSteps, PeriClear, Quiet, IrqInv, FillsTx, Txqd, LaunchEvents, WriteEnables, LatchLine, Line
<1>5. HandlerInv'
  BY <1>1
  DEF HandlerInv, LaunchInv, LaunchSteps, Quiet, LaunchEvents, WriteEnables,
      LatchLine, Line
<1>6. ClearInv'
  BY <1>1
  DEF ClearInv, LaunchInv, LaunchSteps, PeriClear, HostClear, Quiet,
      LaunchEvents, WriteEnables, LatchLine, Line
<1>7. AccountInv'
  BY <1>1, AccountedUnchanged DEF AccountInv, UnderWay, LaunchEvents, WriteEnables, LatchLine, Line
<1> QED
  BY <1>2, <1>3, <1>4, <1>5, <1>6, <1>7 DEF SoundInv

(* then the interrupt: nothing is latched, so nothing becomes pending,     *)
LEMMA LaunchIntrSafe ==
  ASSUME Assumptions, SoundInv, TypeOK', LaunchIntr
  PROVE  SoundInv'
<1> USE DEF hostVars, fifoVars, wmVars, enVars, irqVars, periVars, mainVars, isrVars, history,
        At, IsrAt, MainRuns
<1>1. TypeOK /\ CoreInv /\ IrqInv /\ LaunchInv /\ HandlerInv /\ ClearInv /\ AccountInv
  BY DEF SoundInv
<1>2. CoreInv'
  BY <1>1 DEF CoreInv, LaunchIntr, WriteEnables, LatchLine, Line
<1>3. IrqInv'
  BY <1>1 DEF IrqInv, LaunchInv, LaunchIntr, WriteEnables, LatchLine, Line
<1>4. LaunchInv'
  BY <1>1 DEF LaunchInv, LaunchSteps, PeriClear, Quiet, IrqInv, FillsTx, Txqd, LaunchIntr, WriteEnables, LatchLine, Line
<1>5. HandlerInv'
  BY <1>1
  DEF HandlerInv, LaunchInv, LaunchSteps, Quiet, LaunchIntr, WriteEnables,
      LatchLine, Line
<1>6. ClearInv'
  BY <1>1
  DEF ClearInv, LaunchInv, LaunchSteps, PeriClear, HostClear, Quiet, LaunchIntr,
      WriteEnables, LatchLine, Line
<1>7. AccountInv'
  BY <1>1, AccountedUnchanged DEF AccountInv, UnderWay, LaunchIntr, WriteEnables, LatchLine, Line
<1> QED
  BY <1>2, <1>3, <1>4, <1>5, <1>6, <1>7 DEF SoundInv

(* finds room in the command queue,                                        *)
LEMMA LaunchReadySafe ==
  ASSUME Assumptions, SoundInv, TypeOK', LaunchReady
  PROVE  SoundInv'
<1> USE DEF hostVars, fifoVars, wmVars, enVars, irqVars, periVars, mainVars, isrVars, history,
        At, IsrAt, MainRuns
<1>1. TypeOK /\ CoreInv /\ IrqInv /\ LaunchInv /\ HandlerInv /\ ClearInv /\ AccountInv
  BY DEF SoundInv
<1>2. CoreInv'
  BY <1>1 DEF CoreInv, LaunchReady
<1>3. IrqInv'
  BY <1>1 DEF IrqInv, LaunchInv, LaunchReady
<1>4. LaunchInv'
  BY <1>1 DEF LaunchInv, LaunchSteps, PeriClear, Quiet, IrqInv, FillsTx, Txqd, LaunchReady
<1>5. HandlerInv'
  BY <1>1 DEF HandlerInv, LaunchInv, LaunchSteps, Quiet, LaunchReady
<1>6. ClearInv'
  BY <1>1
  DEF ClearInv, LaunchInv, LaunchSteps, PeriClear, HostClear, Quiet, LaunchReady
<1>7. AccountInv'
  BY <1>1, AccountedUnchanged DEF AccountInv, UnderWay, LaunchReady
<1> QED
  BY <1>2, <1>3, <1>4, <1>5, <1>6, <1>7 DEF SoundInv

(* fetches the first segment,                                              *)
LEMMA LaunchSegmentSafe ==
  ASSUME Assumptions, SoundInv, TypeOK', LaunchSegment
  PROVE  SoundInv'
<1> USE DEF hostVars, fifoVars, wmVars, enVars, irqVars, periVars, mainVars, isrVars, history,
        At, IsrAt, MainRuns
<1>1. TypeOK /\ CoreInv /\ IrqInv /\ LaunchInv /\ HandlerInv /\ ClearInv /\ AccountInv
  BY DEF SoundInv
<1>2. CoreInv'
  BY <1>1 DEF CoreInv, LaunchSegment
<1>3. IrqInv'
  BY <1>1 DEF IrqInv, LaunchInv, LaunchSegment
<1>4. LaunchInv'
  <2>1. txn = asked /\ asked \in Txns /\ scnt = 0
    BY <1>1 DEF LaunchInv, LaunchSteps, LaunchSegment
  <2>2. Len(asked) \in Nat /\ Len(asked) > 0
    BY <2>1, TxnFacts
  <2>3. seg' = asked[1]
    BY <2>1, <2>2 DEF LaunchSegment, SegmentsAt
  <2> QED
    BY <2>1, <2>3, <1>1 DEF LaunchInv, LaunchSteps, PeriClear, Quiet, FillsTx, Txqd, LaunchSegment
<1>5. HandlerInv'
  BY <1>1 DEF HandlerInv, LaunchInv, LaunchSteps, Quiet, LaunchSegment
<1>6. ClearInv'
  BY <1>1
  DEF ClearInv, LaunchInv, LaunchSteps, PeriClear, HostClear, Quiet,
      LaunchSegment
<1>7. AccountInv'
  BY <1>1, AccountedUnchanged DEF AccountInv, UnderWay, LaunchSegment
<1> QED
  BY <1>2, <1>3, <1>4, <1>5, <1>6, <1>7 DEF SoundInv

(* and issues it: from here on the words are accounted for.                *)
LEMMA LaunchCommandSafe ==
  ASSUME Assumptions, SoundInv, TypeOK', LaunchCommand
  PROVE  SoundInv'
<1> USE DEF hostVars, fifoVars, wmVars, enVars, irqVars, periVars, mainVars, isrVars, history,
        At, IsrAt, MainRuns
<1>1. TypeOK /\ CoreInv /\ IrqInv /\ LaunchInv /\ HandlerInv /\ ClearInv /\ AccountInv
  BY DEF SoundInv
<1>8. /\ mpc = "cmd" /\ mpc' \in {"app", "wait"} /\ ipc = "out" /\ ipc' = "out" /\ state = "BUSY"
      /\ UNCHANGED <<periVars, init, blocking, seg, isrVars, history>> /\ SetCommand(seg)
  BY <1>1 DEF LaunchCommand, LaunchInv, LaunchSteps
<1>9. Accounted' /\ busy' /\ cmds' # <<>> /\ WriteCommand(seg)
  BY <1>8, <1>1, LaunchAccounted
<1>2. CoreInv'
  BY <1>9, <1>1 DEF CoreInv, WriteCommand
<1>3. IrqInv'
  <2>1. LatchEvent /\ LatchLine /\ UNCHANGED <<evtEn, intrEn, claimed>>
    BY <1>9 DEF WriteCommand
  <2>2. mpc # "intr" /\ mpc' # "intr"
    BY <1>8
  <2> QED
    BY <1>8, <1>1, <2>1, <2>2, IrqLatch DEF IrqInv
<1>4. LaunchInv'
  BY <1>8 DEF LaunchInv, LaunchSteps
<1>5. HandlerInv'
  BY <1>8, <1>1 DEF HandlerInv
<1>6. ClearInv'
  BY <1>8 DEF ClearInv
<1>7. AccountInv'
  BY <1>9 DEF AccountInv
<1> QED
  BY <1>2, <1>3, <1>4, <1>5, <1>6, <1>7 DEF SoundInv

(* The controller is reset under a handler that may be about to run.       *)
LEMMA ResetHostSafe ==
  ASSUME Assumptions, SoundInv, TypeOK', ResetHost
  PROVE  SoundInv'
<1> USE DEF hostVars, fifoVars, wmVars, enVars, irqVars, periVars, mainVars, isrVars, history,
        At, IsrAt, MainRuns
<1>1. TypeOK /\ CoreInv /\ IrqInv /\ LaunchInv /\ HandlerInv /\ ClearInv /\ AccountInv
  BY DEF SoundInv
<1>2. CoreInv'
  BY <1>1 DEF CoreInv, ResetHost, SwReset, LatchEvent, LatchLine, Line
<1>3. IrqInv'
  <2>1. LatchEvent /\ LatchLine /\ UNCHANGED <<evtEn, intrEn, claimed>> /\ mpc # "intr" /\ mpc' # "intr"
    BY <1>1 DEF ResetHost, SwReset
  <2> QED
    BY <1>1, <2>1, IrqLatch DEF IrqInv, ResetHost
<1>4. LaunchInv'
  BY <1>1
  DEF LaunchInv, LaunchSteps, PeriClear, HostClear, Quiet, ResetHost, SwReset,
      LatchEvent, LatchLine, Line
<1>5. HandlerInv'
  BY <1>1
  DEF HandlerInv, LaunchInv, LaunchSteps, Quiet, ResetHost, SwReset, LatchEvent,
      LatchLine, Line
<1>6. ClearInv'
  BY <1>1
  DEF ClearInv, LaunchInv, LaunchSteps, PeriClear, HostClear, Quiet, ResetHost,
      SwReset, LatchEvent, LatchLine, Line
<1>7. AccountInv'
  BY <1>1, AccountedUnchanged DEF AccountInv, UnderWay, ResetHost, SwReset, LatchEvent, LatchLine, Line
<1> QED
  BY <1>2, <1>3, <1>4, <1>5, <1>6, <1>7 DEF SoundInv

(* The snapshot tells the truth when it is taken.                          *)
LEMMA IsrStatusSafe ==
  ASSUME Assumptions, SoundInv, TypeOK', IsrStatus
  PROVE  SoundInv'
<1> USE DEF hostVars, fifoVars, wmVars, enVars, irqVars, periVars, mainVars, isrVars, history,
        At, IsrAt, MainRuns
<1>1. TypeOK /\ CoreInv /\ IrqInv /\ LaunchInv /\ HandlerInv /\ ClearInv /\ AccountInv
  BY DEF SoundInv
<1>2. CoreInv'
  BY <1>1 DEF CoreInv, IsrStatus
<1>3. IrqInv'
  BY <1>1 DEF IrqInv, LaunchInv, IsrStatus
<1>4. LaunchInv'
  BY <1>1 DEF LaunchInv, LaunchSteps, PeriClear, HostClear, Quiet, IsrStatus
<1>5. HandlerInv'
  BY <1>1 DEF HandlerInv, CoreInv, Quiet, Ready, Queued, DrainsRx, Rxqd, IsrStatus
<1>6. ClearInv'
  BY <1>1
  DEF ClearInv, LaunchInv, LaunchSteps, PeriClear, HostClear, Quiet, IsrStatus
<1>7. AccountInv'
  BY <1>1, AccountedUnchanged DEF AccountInv, UnderWay, IsrStatus
<1> QED
  BY <1>2, <1>3, <1>4, <1>5, <1>6, <1>7 DEF SoundInv

(* The handler issues a segment; the core never looks idle after it.       *)
LEMMA IsrIssueSafe ==
  ASSUME Assumptions, SoundInv, TypeOK', IsrIssue
  PROVE  SoundInv'
<1> USE DEF hostVars, fifoVars, wmVars, enVars, irqVars, periVars, mainVars, isrVars, history,
        At, IsrAt, MainRuns
<1>1. TypeOK /\ CoreInv /\ IrqInv /\ LaunchInv /\ HandlerInv /\ ClearInv /\ AccountInv
  BY DEF SoundInv
<1>8. /\ ipc = "handle" /\ ipc' = "tx" /\ state = "BUSY" /\ MoreSegments /\ Ready
      /\ scnt' = scnt + 1 /\ UNCHANGED <<state, txn, txcnt, rxcnt, cb, mainVars, events, history>>
  BY <1>1 DEF IsrIssue, HandlerInv
<1>9. UnderWay /\ Accounted
  BY <1>8, <1>1, HandlerWhere DEF UnderWay, MoreSegments, PeriClear, AccountInv
<1>10. WriteCommand(txn[scnt + 1]) /\ scnt < Len(txn)
  BY <1>8 DEF IsrIssue, SegmentsAt, SetCommand, MoreSegments
<1>11. busy' /\ cmds' # <<>>
  BY <1>1, <1>9, <1>10, IssueStarts
<1>2. CoreInv'
  BY <1>11, <1>10, <1>1 DEF CoreInv, WriteCommand
<1>3. IrqInv'
  <2>1. LatchEvent /\ LatchLine /\ UNCHANGED <<evtEn, intrEn, claimed>>
    BY <1>10 DEF WriteCommand
  <2>2. mpc # "intr" /\ mpc' # "intr"
    BY <1>8, <1>9 DEF UnderWay
  <2> QED
    BY <1>8, <1>1, <2>1, <2>2, IrqLatch DEF IrqInv
<1>4. LaunchInv'
  BY <1>8, <1>9 DEF LaunchInv, LaunchSteps, UnderWay
<1>5. HandlerInv'
  BY <1>8 DEF HandlerInv
<1>6. ClearInv'
  BY <1>8, <1>9 DEF ClearInv, UnderWay
<1>7. AccountInv'
  <2>1. /\ cmds' = Append(cmds, txn[scnt + 1])
        /\ UNCHANGED <<txq, rxq, txn, txcnt, rxcnt, asked, sent, got>>
    BY <1>8, <1>10 DEF WriteCommand
  <2> QED
    BY <1>8, <1>9, <1>10, <1>1, <2>1, IssueAccounted DEF AccountInv
<1> QED
  BY <1>2, <1>3, <1>4, <1>5, <1>6, <1>7 DEF SoundInv

(* The end of the transfer is recognised: every segment is over.           *)
LEMMA IsrOverSafe ==
  ASSUME Assumptions, SoundInv, TypeOK', IsrOver
  PROVE  SoundInv'
<1> USE DEF hostVars, fifoVars, wmVars, enVars, irqVars, periVars, mainVars, isrVars, history,
        At, IsrAt, MainRuns
<1>1. TypeOK /\ CoreInv /\ IrqInv /\ LaunchInv /\ HandlerInv /\ ClearInv /\ AccountInv
  BY DEF SoundInv
<1>2. CoreInv'
  BY <1>1 DEF CoreInv, IsrOver
<1>3. IrqInv'
  BY <1>1 DEF IrqInv, LaunchInv, IsrOver
<1>4. LaunchInv'
  BY <1>1 DEF LaunchInv, LaunchSteps, PeriClear, HostClear, Quiet, IsrOver
<1>5. HandlerInv'
  <2>1. Quiet /\ state = "BUSY" /\ ~MoreSegments
    BY <1>1 DEF HandlerInv, IsrOver
  <2>2. scnt = Len(txn)
    <3>1. CASE UnderWay
      <4>1. Accounted
        BY <3>1, <1>1 DEF AccountInv
      <4>2. scnt \in 1..Len(txn) /\ Len(txn) \in Nat /\ Len(txn) > 0 /\ txn # <<>>
        BY <4>1, TxnFacts DEF Accounted
      <4> QED
        BY <2>1, <4>2 DEF MoreSegments
    <3>2. CASE ~UnderWay
      BY <2>1, <3>2, HandlerWhere DEF UnderWay, PeriClear, IsrOver
    <3> QED
      BY <3>1, <3>2
  <2> QED
    BY <1>1, <2>1, <2>2 DEF HandlerInv, Quiet, IsrOver
<1>6. ClearInv'
  BY <1>1 DEF ClearInv, LaunchInv, LaunchSteps, PeriClear, HostClear, Quiet, IsrOver
<1>7. AccountInv'
  BY <1>1, AccountedUnchanged DEF AccountInv, UnderWay, IsrOver
<1> QED
  BY <1>2, <1>3, <1>4, <1>5, <1>6, <1>7 DEF SoundInv

(* No event is latched from here on.                                       *)
LEMMA IsrIntrOffSafe ==
  ASSUME Assumptions, SoundInv, TypeOK', IsrIntrOff
  PROVE  SoundInv'
<1> USE DEF hostVars, fifoVars, wmVars, enVars, irqVars, periVars, mainVars, isrVars, history,
        At, IsrAt, MainRuns
<1>1. TypeOK /\ CoreInv /\ IrqInv /\ LaunchInv /\ HandlerInv /\ ClearInv /\ AccountInv
  BY DEF SoundInv
<1>2. CoreInv'
  BY <1>1 DEF CoreInv, IsrIntrOff, WriteEnables, LatchLine, Line
<1>3. IrqInv'
  BY <1>1 DEF IrqInv, HandlerInv, IsrIntrOff, WriteEnables, LatchLine, Line
<1>4. LaunchInv'
  BY <1>1
  DEF LaunchInv, LaunchSteps, PeriClear, HostClear, Quiet, IsrIntrOff,
      WriteEnables, LatchLine, Line
<1>5. HandlerInv'
  BY <1>1
  DEF HandlerInv, LaunchInv, LaunchSteps, Quiet, IsrIntrOff, WriteEnables,
      LatchLine, Line
<1>6. ClearInv'
  BY <1>1
  DEF ClearInv, LaunchInv, LaunchSteps, PeriClear, HostClear, Quiet, IsrIntrOff,
      WriteEnables, LatchLine, Line
<1>7. AccountInv'
  BY <1>1, AccountedUnchanged DEF AccountInv, UnderWay, IsrIntrOff, WriteEnables, LatchLine, Line
<1> QED
  BY <1>2, <1>3, <1>4, <1>5, <1>6, <1>7 DEF SoundInv

(* The last words are read.                                                *)
LEMMA IsrLastWordsSafe ==
  ASSUME Assumptions, SoundInv, TypeOK', IsrLastWords
  PROVE  SoundInv'
<1> USE DEF hostVars, fifoVars, wmVars, enVars, irqVars, periVars, mainVars, isrVars, history,
        At, IsrAt, MainRuns
<1>1. TypeOK /\ CoreInv /\ IrqInv /\ LaunchInv /\ HandlerInv /\ ClearInv /\ AccountInv
  BY DEF SoundInv
<1>8. mpc' = mpc /\ mpc # "intr" /\ mpc # "cmd" /\ mpc \notin LaunchSteps /\ state' = state
  BY <1>1, EmptyRxType DEF IsrLastWords, LaunchInv, LaunchSteps
<1>2. CoreInv'
  BY <1>1, EmptyRxType DEF CoreInv, IsrLastWords
<1>3. IrqInv'
  <2>1. CASE EmptyRx
    <3>1. LatchEvent /\ LatchLine /\ UNCHANGED <<evtEn, intrEn, claimed>>
      BY <2>1 DEF EmptyRx, ReadRxData
    <3> QED
      BY <1>8, <1>1, <3>1, IrqLatch DEF IrqInv, IsrLastWords
  <2>2. CASE ~EmptyRx
    BY <1>8, <1>1, <2>2 DEF IrqInv, IsrLastWords
  <2> QED
    BY <2>1, <2>2
<1>4. LaunchInv'
  BY <1>8 DEF LaunchInv, LaunchSteps
<1>5. HandlerInv'
  BY <1>1, EmptyRxType DEF HandlerInv, Quiet, DrainsRx, Rxqd, IsrLastWords
<1>6. ClearInv'
  <2>1. CASE EmptyRx
    BY <2>1, <1>8, <1>1, Working, EmptyRxType DEF ClearInv, UnderWay, HandlerInv, EmptyRx, IsrLastWords
  <2>2. CASE ~EmptyRx
    BY <2>2, <1>8, <1>1 DEF ClearInv, PeriClear, HostClear, Quiet, IsrLastWords
  <2> QED
    BY <2>1, <2>2
<1>7. AccountInv'
  BY <1>8, <1>1, AccountedUnchanged, EmptyAccounted DEF AccountInv, UnderWay, IsrLastWords
<1> QED
  BY <1>2, <1>3, <1>4, <1>5, <1>6, <1>7 DEF SoundInv

(* Nothing is owed when the transaction is reset.                          *)
LEMMA IsrClearSafe ==
  ASSUME Assumptions, SoundInv, TypeOK', IsrClear
  PROVE  SoundInv'
<1> USE DEF hostVars, fifoVars, wmVars, enVars, irqVars, periVars, mainVars, isrVars, history,
        At, IsrAt, MainRuns
<1>1. TypeOK /\ CoreInv /\ IrqInv /\ LaunchInv /\ HandlerInv /\ ClearInv /\ AccountInv
  BY DEF SoundInv
<1>2. CoreInv'
  BY <1>1 DEF CoreInv, IsrClear, ResetTransaction
<1>3. IrqInv'
  BY <1>1 DEF IrqInv, LaunchInv, IsrClear, ResetTransaction
<1>4. LaunchInv'
  BY <1>1
  DEF LaunchInv, LaunchSteps, PeriClear, HostClear, Quiet, IsrClear,
      ResetTransaction
<1>5. HandlerInv'
  BY <1>1 DEF HandlerInv, LaunchInv, LaunchSteps, Quiet, IsrClear, ResetTransaction
<1>6. ClearInv'
  <2>1. ipc = "clear" /\ Quiet /\ scnt = Len(txn) /\ ~DrainsRx /\ PeriClear' /\ mpc' = mpc /\ state = "DONE"
    BY <1>1 DEF HandlerInv, IsrClear, ResetTransaction, PeriClear
  <2>2. CASE mpc \in {"app", "wait", "reset"}
    <3>1. txq = 0 /\ rxq = 0
      BY <1>1, <2>1, <2>2, AllOver DEF AccountInv, UnderWay
    <3> QED
      BY <2>1, <2>2, <3>1 DEF ClearInv, HostClear, Quiet, IsrClear
  <2>3. CASE mpc \notin {"app", "wait", "reset"}
    BY <1>1, <2>1, <2>3 DEF ClearInv, LaunchInv, LaunchSteps, HostClear, Quiet, IsrClear,
       TypeOK, DataOK, MainSteps, ResetSteps
  <2> QED
    BY <2>2, <2>3
<1>7. AccountInv'
  BY <1>1 DEF AccountInv, UnderWay, HandlerInv, IsrClear
<1> QED
  BY <1>2, <1>3, <1>4, <1>5, <1>6, <1>7 DEF SoundInv

(* The handler refills the transmit FIFO of a transaction under way,       *)
LEMMA IsrTxSafe ==
  ASSUME Assumptions, SoundInv, TypeOK', IsrTx
  PROVE  SoundInv'
<1> USE DEF hostVars, fifoVars, wmVars, enVars, irqVars, periVars, mainVars, isrVars, history,
        At, IsrAt, MainRuns
<1>1. TypeOK /\ CoreInv /\ IrqInv /\ LaunchInv /\ HandlerInv /\ ClearInv /\ AccountInv
  BY DEF SoundInv
<1>8. mpc' = mpc /\ mpc # "intr" /\ mpc # "cmd" /\ mpc \notin LaunchSteps /\ state' = state
  BY <1>1, FillTxType DEF IsrTx, LaunchInv, LaunchSteps
<1>2. CoreInv'
  BY <1>1, FillCore DEF CoreInv, IsrTx
<1>3. IrqInv'
  <2>1. CASE FillTx
    <3>1. LatchEvent /\ LatchLine /\ UNCHANGED <<evtEn, intrEn, claimed>>
      BY <2>1 DEF FillTx, WriteTxData
    <3> QED
      BY <1>8, <1>1, <3>1, IrqLatch DEF IrqInv, IsrTx
  <2>2. CASE ~FillTx
    BY <1>8, <1>1, <2>2 DEF IrqInv, IsrTx
  <2> QED
    BY <2>1, <2>2
<1>4. LaunchInv'
  BY <1>8 DEF LaunchInv, LaunchSteps
<1>5. HandlerInv'
  BY <1>8, <1>1 DEF HandlerInv, IsrTx
<1>6. ClearInv'
  <2>1. CASE FillTx
    BY <2>1, <1>8, <1>1, Working DEF ClearInv, UnderWay, HandlerInv, FillTx, IsrTx
  <2>2. CASE ~FillTx
    BY <2>2, <1>8, <1>1 DEF ClearInv, PeriClear, HostClear, Quiet, IsrTx
  <2> QED
    BY <2>1, <2>2
<1>7. AccountInv'
  BY <1>8, <1>1, AccountedUnchanged, FillAccounted DEF AccountInv, UnderWay, IsrTx
<1> QED
  BY <1>2, <1>3, <1>4, <1>5, <1>6, <1>7 DEF SoundInv

(* and empties the receive FIFO.                                           *)
LEMMA IsrRxSafe ==
  ASSUME Assumptions, SoundInv, TypeOK', IsrRx
  PROVE  SoundInv'
<1> USE DEF hostVars, fifoVars, wmVars, enVars, irqVars, periVars, mainVars, isrVars, history,
        At, IsrAt, MainRuns
<1>1. TypeOK /\ CoreInv /\ IrqInv /\ LaunchInv /\ HandlerInv /\ ClearInv /\ AccountInv
  BY DEF SoundInv
<1>8. mpc' = mpc /\ mpc # "intr" /\ mpc # "cmd" /\ mpc \notin LaunchSteps /\ state' = state
  BY <1>1, EmptyRxType DEF IsrRx, LaunchInv, LaunchSteps
<1>2. CoreInv'
  BY <1>1, EmptyRxType DEF CoreInv, IsrRx
<1>3. IrqInv'
  <2>1. CASE EmptyRx
    <3>1. LatchEvent /\ LatchLine /\ UNCHANGED <<evtEn, intrEn, claimed>>
      BY <2>1 DEF EmptyRx, ReadRxData
    <3> QED
      BY <1>8, <1>1, <3>1, IrqLatch DEF IrqInv, IsrRx
  <2>2. CASE ~EmptyRx
    BY <1>8, <1>1, <2>2 DEF IrqInv, IsrRx
  <2> QED
    BY <2>1, <2>2
<1>4. LaunchInv'
  BY <1>8 DEF LaunchInv, LaunchSteps
<1>5. HandlerInv'
  BY <1>8, <1>1 DEF HandlerInv, IsrRx
<1>6. ClearInv'
  <2>1. CASE EmptyRx
    BY <2>1, <1>8, <1>1, Working DEF ClearInv, UnderWay, HandlerInv, EmptyRx, IsrRx
  <2>2. CASE ~EmptyRx
    BY <2>2, <1>8, <1>1 DEF ClearInv, PeriClear, HostClear, Quiet, IsrRx
  <2> QED
    BY <2>1, <2>2
<1>7. AccountInv'
  BY <1>8, <1>1, AccountedUnchanged, EmptyAccounted DEF AccountInv, UnderWay, IsrRx
<1> QED
  BY <1>2, <1>3, <1>4, <1>5, <1>6, <1>7 DEF SoundInv

(* The controller shifts a word,                                           *)
LEMMA ShiftWordSafe ==
  ASSUME Assumptions, SoundInv, TypeOK', Hardware, ShiftWord,
         sent' = IF Writes(Head(cmds)) THEN sent + 1 ELSE sent, UNCHANGED <<asked, got>>
  PROVE  SoundInv'
<1> USE DEF hostVars, fifoVars, wmVars, enVars, irqVars, periVars, mainVars, isrVars, history,
        At, IsrAt, MainRuns
<1>1. TypeOK /\ CoreInv /\ IrqInv /\ LaunchInv /\ HandlerInv /\ ClearInv /\ AccountInv
  BY DEF SoundInv
<1>8. /\ busy /\ cmds # <<>> /\ ~Quiet /\ UNCHANGED <<mpc, ipc, state, txn, scnt, txcnt, rxcnt, cb, events>>
      /\ UNCHANGED <<evtEn, intrEn, claimed, err>> /\ LatchEvent /\ LatchLine
  BY DEF Hardware, ShiftWord, Quiet
<1>9. mpc \notin LaunchSteps /\ mpc # "intr"
  BY <1>8, <1>1 DEF LaunchInv, LaunchSteps
<1>2. CoreInv'
  <2>1. cmds' # <<>> /\ busy' = busy
    BY <1>1, <1>8, ShiftQueue
  <2> QED
    BY <1>8, <1>1, <2>1 DEF CoreInv
<1>3. IrqInv'
  BY <1>8, <1>9, <1>1, IrqLatch DEF IrqInv
<1>4. LaunchInv'
  BY <1>8, <1>9 DEF LaunchInv, LaunchSteps
<1>5. HandlerInv'
  <2>1. Ready' = Ready
    BY <1>8, <1>1, ShiftQueue DEF Ready, Queued
  <2> QED
    BY <1>8, <1>1, <2>1 DEF HandlerInv
<1>6. ClearInv'
  BY <1>8, <1>1 DEF ClearInv, HostClear, PeriClear
<1>7. AccountInv'
  BY <1>8, <1>1, ShiftAccounted DEF AccountInv, UnderWay
<1> QED
  BY <1>2, <1>3, <1>4, <1>5, <1>6, <1>7 DEF SoundInv

(* or ends a segment.                                                      *)
LEMMA EndSegmentSafe ==
  ASSUME Assumptions, SoundInv, TypeOK', Hardware, EndSegment, UNCHANGED history
  PROVE  SoundInv'
<1> USE DEF hostVars, fifoVars, wmVars, enVars, irqVars, periVars, mainVars, isrVars, history,
        At, IsrAt, MainRuns
<1>1. TypeOK /\ CoreInv /\ IrqInv /\ LaunchInv /\ HandlerInv /\ ClearInv /\ AccountInv
  BY DEF SoundInv
<1>8. /\ busy /\ cmds # <<>> /\ ~Quiet /\ UNCHANGED <<mpc, ipc, state, txn, scnt, txcnt, rxcnt, cb, events>>
      /\ UNCHANGED <<evtEn, intrEn, claimed, err>> /\ LatchEvent /\ LatchLine
  BY DEF Hardware, EndSegment, Quiet
<1>9. mpc \notin LaunchSteps /\ mpc # "intr"
  BY <1>8, <1>1 DEF LaunchInv, LaunchSteps
<1>2. CoreInv'
  BY <1>8, <1>1, EndQueue DEF CoreInv
<1>3. IrqInv'
  BY <1>8, <1>9, <1>1, IrqLatch DEF IrqInv
<1>4. LaunchInv'
  BY <1>8, <1>9 DEF LaunchInv, LaunchSteps
<1>5. HandlerInv'
  <2>1. Ready => Ready'
    BY <1>8, <1>1, EndQueue DEF Ready
  <2> QED
    BY <1>8, <1>1, <2>1 DEF HandlerInv
<1>6. ClearInv'
  BY <1>8, <1>1 DEF ClearInv, HostClear, PeriClear
<1>7. AccountInv'
  BY <1>8, <1>1, EndAccounted DEF AccountInv, UnderWay
<1> QED
  BY <1>2, <1>3, <1>4, <1>5, <1>6, <1>7 DEF SoundInv

(* ERROR_STATUS is only ever set, and only by an access error. *)
LEMMA ErrNext ==
  ASSUME [Next]_vars
  PROVE  err' = err \/ (Disturb /\ err')
<1> USE DEF hostVars, fifoVars, wmVars, enVars, irqVars
<1>1. CASE AppCall
  BY <1>1
  DEF AppCall, spi_init, spi_deinit, spi_set_txwm, spi_set_rxwm, spi_prepare_transfer, spi_reset,
      WriteWatermarks
<1>2. CASE MainStep
  BY <1>2
  DEF MainStep, LaunchState, LaunchTxn, LaunchFill, FillTx, WriteTxData, LaunchEvents, LaunchIntr,
      WriteEnables, LaunchReady, LaunchSegment, LaunchCommand, SetCommand, WriteCommand, WaitDone,
      WaitTimeout, ResetTxn, ResetHost, SwReset, ResetState, TimeoutState
<1>3. CASE IsrStep
  BY <1>3
  DEF IsrStep, IsrEnter, TakeInterrupt, IsrErrors, IsrAck, ClearEvent, IsrStatus, IsrIssue,
      SetCommand, WriteCommand, IsrOver, IsrGoOn, IsrEventsOff, IsrIntrOff, WriteEnables,
      IsrLastWords, EmptyRx, ReadRxData, IsrDone, IsrCallback, IsrCallbackLaunch, IsrClear, IsrTx,
      FillTx, WriteTxData, IsrRx, IsrErrorEvents, IsrErrorIntr, IsrErrorReset, SwReset, IsrExit,
      CompleteInterrupt
<1>4. CASE Hardware
  BY <1>4, Zenon DEF Hardware, HostStep, ShiftWord, EndSegment
<1>5. CASE Disturb
  BY <1>5 DEF Disturb, AccessError
<1>6. CASE UNCHANGED vars
  BY <1>6 DEF vars
<1> QED
  BY <1>1, <1>2, <1>3, <1>4, <1>5, <1>6 DEF Next

LEMMA SafeInit ==
  ASSUME Assumptions, Init
  PROVE  SoundInv
<1>1. TypeOK
  BY TypeInit
<1> QED
  BY <1>1 DEF Init, HostInit, SoundInv, CoreInv, IrqInv, LaunchInv, LaunchSteps, HandlerInv,
     ClearInv, AccountInv, UnderWay, PeriClear, HostClear, Quiet, NoEvents

LEMMA SafeNext ==
  ASSUME Assumptions, SoundInv, [Next]_vars, ~err'
  PROVE  SoundInv'
<1>1. TypeOK'
  BY DataNext, FlagsNext DEF SoundInv, TypeOK
<1>2. ~Relaunch
  BY DEF Assumptions
<1>3. CASE AppCall
  BY <1>1, <1>3, ThreadSafe, spi_set_txwmSafe, spi_set_rxwmSafe, spi_prepare_transferSafe
  DEF AppCall
<1>4. CASE MainStep
  BY <1>1, <1>4, ThreadSafe, LaunchTxnSafe, LaunchFillSafe, LaunchEventsSafe, LaunchIntrSafe,
     LaunchReadySafe, LaunchSegmentSafe, LaunchCommandSafe, ResetHostSafe
  DEF MainStep
<1>5. CASE IsrStep
  <2>1. ~(\E t \in Txns : IsrCallbackLaunch(t))
    BY <1>2 DEF IsrCallbackLaunch
  <2>2. ~IsrErrorEvents /\ ~IsrErrorIntr /\ ~IsrErrorReset
    BY DEF SoundInv, HandlerInv, IsrErrorEvents, IsrErrorIntr, IsrErrorReset, IsrAt
  <2> QED
    BY <1>1, <1>5, <2>1, <2>2, IsrEnterSafe, HandlerSafe, IsrStatusSafe, IsrIssueSafe,
       IsrOverSafe, IsrIntrOffSafe, IsrLastWordsSafe, IsrClearSafe, IsrTxSafe, IsrRxSafe
    DEF IsrStep
<1>6. CASE Hardware
  <2>1. CASE /\ ShiftWord
             /\ sent' = IF Writes(Head(cmds)) THEN sent + 1 ELSE sent
             /\ UNCHANGED <<asked, got, told>>
    BY <1>1, <1>6, <2>1, ShiftWordSafe
  <2>2. CASE EndSegment /\ UNCHANGED history
    BY <1>1, <1>6, <2>2, EndSegmentSafe
  <2> QED
    BY <1>6, <2>1, <2>2, Zenon DEF Hardware, HostStep
<1>7. CASE Disturb
  BY <1>7 DEF Disturb, AccessError
<1>8. CASE UNCHANGED vars
  <2> USE <1>8 DEF vars, hostVars, fifoVars, wmVars, enVars, irqVars, periVars, mainVars, isrVars, history
  <2>1. CoreInv' /\ IrqInv' /\ ClearInv'
    BY DEF SoundInv, CoreInv, IrqInv, ClearInv, PeriClear, HostClear, Quiet
  <2>2. LaunchInv'
    BY DEF SoundInv, LaunchInv, PeriClear, Quiet, FillsTx, Txqd
  <2>3. HandlerInv'
    BY DEF SoundInv, HandlerInv, Quiet, Ready, Queued, DrainsRx, Rxqd
  <2>4. AccountInv'
    BY AccountedUnchanged DEF SoundInv, AccountInv, UnderWay
  <2> QED
    BY <1>1, <2>1, <2>2, <2>3, <2>4 DEF SoundInv
<1> QED
  BY <1>3, <1>4, <1>5, <1>6, <1>7, <1>8 DEF Next

(* On a peripheral behind the fast interrupt controller, whatever the      *)
(* sizes of the FIFOs, the transactions (each Preloaded), the watermarks,  *)
(* the timeouts and the resets, SdkInv holds of every state: the thread,   *)
(* the handler and the controller keep together until an access error      *)
(* stops the controller, as long as no callback starts a transfer.         *)
THEOREM SdkInvariant == Assumptions /\ Spec => []SdkInv
<1>1. Assumptions /\ Init => SdkInv
  BY SafeInit DEF SdkInv
<1>2. Assumptions /\ SdkInv /\ [Next]_vars => SdkInv'
  BY ErrNext, SafeNext DEF SdkInv, Disturb, AccessError
<1>3. Assumptions => []Assumptions
  <2>1. Assumptions => Assumptions'
    BY DEF Assumptions, Preloaded
  <2> QED
    BY <2>1, PTL
<1> QED
  BY <1>1, <1>2, <1>3, PTL DEF Spec

(* scnt never passes the end of the segment array, so spi_issue_next_seg   *)
(* reads no memory behind it, nor through NULL.                            *)
THEOREM ScntInBoundsHolds == Assumptions /\ Spec => []ScntInBounds
<1>1. SdkInv => ScntInBounds
  <2> SUFFICES ASSUME SoundInv PROVE ScntInBounds
    BY DEF SdkInv, ScntInBounds
  <2>1. CASE UnderWay
    <3>1. Accounted
      BY <2>1 DEF SoundInv, AccountInv
    <3>2. scnt \in 1..Len(txn) /\ Len(txn) \in Nat
      BY <3>1, TxnFacts DEF Accounted
    <3> QED
      BY <3>2 DEF ScntInBounds
  <2>2. CASE PeriClear
    BY <2>2 DEF PeriClear, ScntInBounds
  <2>3. CASE mpc \in LaunchSteps \ {"launch", "txn"}
    <3>1. txn \in Txns /\ scnt \in {0, 1}
      BY <2>3 DEF SoundInv, LaunchInv
    <3>2. Len(txn) \in Nat /\ Len(txn) > 0
      BY <3>1, TxnFacts
    <3> QED
      BY <3>1, <3>2 DEF ScntInBounds
  <2>4. UnderWay \/ PeriClear \/ mpc \in LaunchSteps \ {"launch", "txn"}
    BY DEF SoundInv, TypeOK, DataOK, MainSteps, LaunchSteps, ResetSteps, LaunchInv, HandlerInv,
       ClearInv, UnderWay
  <2> QED
    BY <2>1, <2>2, <2>3, <2>4
<1> QED
  BY <1>1, SdkInvariant, PTL

(* A transfer is only ever started on a peripheral that the one before     *)
(* has left empty, however that one ended.                                 *)
THEOREM NothingLeftOverHolds == Assumptions /\ Spec => []NothingLeftOver
<1>1. SdkInv => NothingLeftOver
  BY DEF SdkInv, SoundInv, NothingLeftOver, MainRuns, LaunchInv, LaunchSteps, ClearInv, PeriClear,
     HostClear, Quiet
<1> QED
  BY <1>1, SdkInvariant, PTL

(* Up to the first access error, a BUSY peripheral outside the launch has  *)
(* a transaction of which a segment has been issued.                       *)
THEOREM BusyHasTransactionHolds == Assumptions /\ Spec => [](~err => BusyHasTransaction)
<1>1. SdkInv => (~err => BusyHasTransaction)
  <2> SUFFICES ASSUME SoundInv, mpc \in {"app", "wait"}, state = "BUSY"
               PROVE  txn # <<>> /\ scnt > 0
    BY DEF SdkInv, BusyHasTransaction
  <2>1. Accounted
    BY DEF SoundInv, AccountInv, UnderWay
  <2>2. txn \in Txns /\ scnt \in 1..Len(txn) /\ Len(txn) \in Nat /\ Len(txn) > 0
    BY <2>1, TxnFacts DEF Accounted
  <2> QED
    BY <2>2
<1> QED
  BY <1>1, SdkInvariant, PTL

(* Up to the first access error, no word is lost or sent twice between the *)
(* application's buffers and the controller.                               *)
THEOREM NoWordLostHolds == Assumptions /\ Spec => [](~err => NoWordLost)
<1>1. SdkInv => (~err => NoWordLost)
  <2> SUFFICES ASSUME SoundInv, state = "BUSY", mpc \notin {"txn", "swrst", "init"}
               PROVE  txcnt = sent + txq /\ rxcnt = got
    BY DEF SdkInv, NoWordLost
  <2>1. CASE UnderWay
    BY <2>1 DEF SoundInv, AccountInv, Accounted
  <2>2. CASE mpc \in LaunchSteps
    BY <2>2, HostAssumption
    DEF SoundInv, LaunchInv, LaunchSteps, PeriClear, TypeOK, DataOK
  <2>3. UnderWay \/ mpc \in LaunchSteps
    BY DEF SoundInv, TypeOK, DataOK, MainSteps, ResetSteps, ClearInv, UnderWay
  <2> QED
    BY <2>1, <2>2, <2>3
<1> QED
  BY <1>1, SdkInvariant, PTL

(* Nothing is transferred for a transaction that is DONE. *)
LEMMA DoneNext ==
  ASSUME SoundInv, DoneMeansTransferred, Assumptions, [Next]_vars, ~err'
  PROVE  DoneMeansTransferred'
<1> USE DEF hostVars, fifoVars, wmVars, enVars, irqVars, periVars, mainVars, isrVars, history,
        At, IsrAt, MainRuns
<1>1. TypeOK /\ LaunchInv /\ HandlerInv /\ ClearInv /\ AccountInv
  BY DEF SoundInv
<1>2. ~Relaunch
  BY DEF Assumptions
<1>3. CASE UNCHANGED <<state, asked, sent, got>> /\ (mpc' = mpc \/ mpc \in {"app", "wait", "reset"})
  BY <1>3 DEF DoneMeansTransferred
<1>4. CASE state' # "DONE" \/ mpc' \notin {"app", "wait", "reset"}
  BY <1>4 DEF DoneMeansTransferred
<1>5. CASE IsrDone
  <2>1. CASE mpc \in {"app", "wait", "reset"}
    <3>1. Accounted /\ Quiet /\ scnt = Len(txn) /\ ~DrainsRx
      BY <1>1, <1>5, <2>1 DEF AccountInv, UnderWay, HandlerInv, IsrDone
    <3> QED
      BY <1>1, <1>5, <3>1, AllOver DEF DoneMeansTransferred, IsrDone
  <2>2. CASE mpc \notin {"app", "wait", "reset"}
    BY <1>5, <2>2 DEF DoneMeansTransferred, IsrDone
  <2> QED
    BY <2>1, <2>2
<1>6. CASE AppCall
  BY <1>3, <1>4, <1>6
  DEF AppCall, spi_init, spi_deinit, spi_set_txwm, spi_set_rxwm, spi_prepare_transfer, spi_reset
<1>7. CASE MainStep
  <2>1. CASE LaunchFill \/ LaunchCommand
    BY <1>1, <1>4, <2>1 DEF LaunchFill, FillTx, LaunchCommand, LaunchInv, LaunchSteps
  <2> QED
    BY <1>3, <1>4, <1>7, <2>1
    DEF MainStep, LaunchState, LaunchTxn, LaunchEvents, LaunchIntr, LaunchReady, LaunchSegment,
        WaitDone, WaitTimeout, ResetTxn, ResetHost, ResetState, TimeoutState
<1>8. CASE IsrStep
  <2>1. ~(\E t \in Txns : IsrCallbackLaunch(t))
    BY <1>2 DEF IsrCallbackLaunch
  <2>2. CASE IsrLastWords \/ IsrTx \/ IsrRx
    BY <1>1, <1>3, <1>4, <2>2 DEF IsrLastWords, IsrTx, IsrRx, FillTx, EmptyRx, HandlerInv
  <2> QED
    BY <1>3, <1>4, <1>5, <1>8, <2>1, <2>2
    DEF IsrStep, IsrEnter, IsrErrors, IsrAck, IsrStatus, IsrIssue, IsrOver, IsrGoOn,
        IsrEventsOff, IsrIntrOff, IsrCallback, IsrClear, IsrErrorEvents, IsrErrorIntr,
        IsrErrorReset, IsrExit
<1>9. CASE Hardware
  <2>1. ~Quiet
    BY <1>9 DEF Hardware, HostStep, ShiftWord, EndSegment, Quiet
  <2>2. mpc \in {"app", "wait", "reset"} => state # "DONE"
    BY <1>1, <2>1 DEF HandlerInv, ClearInv, HostClear
  <2> QED
    BY <1>4, <1>9, <2>2 DEF Hardware
<1>10. CASE Disturb
  BY <1>10 DEF Disturb, AccessError
<1>11. CASE UNCHANGED vars
  BY <1>3, <1>11 DEF vars
<1> QED
  BY <1>6, <1>7, <1>8, <1>9, <1>10, <1>11 DEF Next

(* DONE, which the application polls and done_cb announces, is never early *)
(* and never forgets a word, up to the first access error.                 *)
THEOREM DoneMeansTransferredHolds == Assumptions /\ Spec => [](~err => DoneMeansTransferred)
<1>1. Init => DoneMeansTransferred
  BY DEF Init, DoneMeansTransferred
<1>2. Assumptions => []Assumptions
  <2>1. Assumptions => Assumptions'
    BY DEF Assumptions, Preloaded
  <2> QED
    BY <2>1, PTL
<1>3. Assumptions /\ SdkInv /\ (~err => DoneMeansTransferred) /\ [Next]_vars
        => (~err => DoneMeansTransferred)'
  BY ErrNext, DoneNext DEF SdkInv, Disturb, AccessError
<1> QED
  BY <1>1, <1>2, <1>3, SdkInvariant, PTL DEF Spec

(***************************************************************************)
(* The SDK implements SpiTransfer: every step of thread, handler or        *)
(* controller is a step of the abstract transfer or changes nothing of it. *)
(***************************************************************************)

(* done_cb has not been called for the transfer in progress. *)
ToldInv == mpc \in LaunchSteps \/ state = "BUSY" \/ ipc = "cb" => ~told

LEMMA StatusIs ==
  /\ mpc = "launch" => Status = "BUSY"
  /\ mpc \in {"swrst", "init"} => Status = "INIT"
  /\ mpc \notin {"launch", "swrst", "init"} => Status = state
  BY DEF Status

LEMMA StatusIsNext ==
  /\ mpc' = "launch" => Status' = "BUSY"
  /\ mpc' \in {"swrst", "init"} => Status' = "INIT"
  /\ mpc' \notin {"launch", "swrst", "init"} => Status' = state'
  BY DEF Status

(* A transfer in progress owes a number of words. *)
LEMMA OwedNat ==
  ASSUME SoundInv, Status = "BUSY"
  PROVE  /\ asked \in Txns /\ TxLen(asked) \in Nat /\ RxLen(asked) \in Nat
         /\ sent \in Nat /\ got \in Nat /\ sent <= TxLen(asked) /\ got <= RxLen(asked)
<1>1. TypeOK /\ sent \in Nat /\ got \in Nat /\ txq \in Nat /\ rxq \in Nat
  BY HostAssumption DEF SoundInv, TypeOK, DataOK
<1>2. CASE mpc \in LaunchSteps
  BY <1>1, <1>2, TxnFacts DEF SoundInv, LaunchInv
<1>3. CASE UnderWay
  <2>1. Accounted
    BY <1>3 DEF SoundInv, AccountInv
  <2>2. asked \in Txns /\ txn = asked /\ Len(asked) \in Nat /\ TxLen(asked) \in Nat /\ RxLen(asked) \in Nat
    BY <2>1, TxnFacts DEF Accounted
  <2>3. sent <= TxLen(asked)
    BY <1>1, <2>1, <2>2 DEF Accounted
  <2>4. Over \in Nat /\ Over <= Len(asked) /\ got + rxq = RxUpTo(asked, Over) + HeadRx
    BY <1>1, <2>1, <2>2 DEF Accounted, Over, TypeOK, DataOK
  <2>5. RxUpTo(asked, Over) \in Nat /\ RxUpTo(asked, Over) <= RxLen(asked)
    BY <2>2, <2>4, TotalsAssumption
  <2>6. CASE cmds = <<>> \/ ~Reads(asked[Over + 1])
    <3>1. HeadRx = 0
      BY <2>2, <2>6 DEF HeadRx
    <3> QED
      BY <3>1, <1>1, <2>2, <2>3, <2>4, <2>5
  <2>7. CASE cmds # <<>> /\ Reads(asked[Over + 1])
    <3>1. cmds \in Seq(Segments) /\ Len(cmds) \in Nat /\ Len(cmds) > 0 /\ cmds[1] \in Segments
      BY <1>1, <2>7 DEF TypeOK, DataOK
    <3>2. cmds[1].n \in Nat
      BY <3>1 DEF Segments
    <3>3. Over + 1 \in 1..Len(asked) /\ Over + 1 \in 0..Len(asked) /\ (Over + 1) - 1 = Over
      BY <1>1, <2>1, <2>2, <2>4, <3>1 DEF Over, Accounted
    <3>4. HeadRx = asked[Over + 1].n - cmds[1].n /\ asked[Over + 1].n \in Nat
      BY <2>2, <2>7, <3>3, TxnFacts DEF HeadRx
    <3>5. RxUpTo(asked, Over + 1) = RxUpTo(asked, Over) + asked[Over + 1].n
      BY <2>2, <2>7, <3>3, TotalsAssumption
    <3>6. RxUpTo(asked, Over + 1) <= RxLen(asked)
      BY <2>2, <3>3, TotalsAssumption
    <3> QED
      <4>1. got + rxq <= RxUpTo(asked, Over + 1)
        BY <1>1, <2>4, <2>5, <3>2, <3>4, <3>5
      <4>2. got <= RxLen(asked)
        BY <1>1, <2>2, <2>5, <3>4, <3>5, <3>6, <4>1
      <4> QED
        BY <1>1, <2>2, <2>3, <4>2
  <2> QED
    BY <2>6, <2>7
<1>4. mpc \in LaunchSteps \/ UnderWay
  BY StatusIs DEF SoundInv, TypeOK, DataOK, MainSteps, LaunchSteps, ResetSteps, ClearInv, UnderWay
<1> QED
  BY <1>2, <1>3, <1>4

(* The three ways in which most steps match the abstract transfer. *)
LEMMA Stutters ==
  ASSUME Status' = Status, told' = told, UNCHANGED <<asked, sent, got>> \/ Status \notin {"BUSY", "DONE"}
  PROVE  UNCHANGED Transfer!vars
  BY DEF Transfer!vars, Owed

LEMMA Stops ==
  ASSUME Status' \in {"INIT", "ERROR", "TIMEOUT"}, Status' = "ERROR" => Status = "BUSY", told' = told
  PROVE  Transfer!Next
<1>1. Owed(TxLen(asked) - sent)' = 0 /\ Owed(RxLen(asked) - got)' = 0
  BY DEF Owed
<1> QED
  BY <1>1 DEF Transfer!Next, Transfer!Stop

LEMMA Moves ==
  ASSUME SoundInv, SoundInv', Status = "BUSY", Status' = "BUSY", told' = told, asked' = asked,
         sent' >= sent, got' >= got
  PROVE  Transfer!Next
<1>1. /\ TxLen(asked) \in Nat /\ RxLen(asked) \in Nat /\ sent \in Nat /\ got \in Nat
      /\ sent <= TxLen(asked) /\ got <= RxLen(asked)
  BY OwedNat
<1>2. sent' \in Nat /\ got' \in Nat /\ sent' <= TxLen(asked) /\ got' <= RxLen(asked)
  <2>1. (SoundInv /\ Status = "BUSY" => /\ sent \in Nat /\ got \in Nat
                                      /\ sent <= TxLen(asked) /\ got <= RxLen(asked))'
    BY OwedNat, PTL
  <2> QED
    BY <2>1
<1>3. /\ TxLen(asked) - sent' \in 0..(TxLen(asked) - sent)
      /\ RxLen(asked) - got' \in 0..(RxLen(asked) - got)
  BY <1>1, <1>2
<1> QED
  BY <1>3 DEF Transfer!Next, Transfer!Move, Owed

LEMMA ToldNext ==
  ASSUME SoundInv, ToldInv, Assumptions, [Next]_vars, ~err'
  PROVE  ToldInv'
<1> USE DEF hostVars, fifoVars, wmVars, enVars, irqVars, periVars, mainVars, isrVars, history,
        At, IsrAt, MainRuns, ToldInv, LaunchSteps
<1>1. LaunchInv /\ HandlerInv
  BY DEF SoundInv
<1>2. ~Relaunch
  BY DEF Assumptions
<1>3. CASE AppCall
  BY <1>3 DEF AppCall, spi_init, spi_deinit, spi_set_txwm, spi_set_rxwm, spi_prepare_transfer,
              spi_reset
<1>4. CASE MainStep
  <2>1. CASE LaunchFill \/ LaunchCommand
    BY <2>1 DEF LaunchFill, FillTx, LaunchCommand
  <2> QED
    BY <1>4, <2>1
    DEF MainStep, LaunchState, LaunchTxn, LaunchEvents, LaunchIntr, LaunchReady, LaunchSegment,
        WaitDone, WaitTimeout, ResetTxn, ResetHost, ResetState, TimeoutState
<1>5. CASE IsrStep
  <2>1. ~(\E t \in Txns : IsrCallbackLaunch(t))
    BY <1>2 DEF IsrCallbackLaunch
  <2>2. CASE IsrLastWords \/ IsrTx \/ IsrRx
    BY <2>2 DEF IsrLastWords, IsrTx, IsrRx, FillTx, EmptyRx
  <2>3. CASE IsrCallback \/ IsrDone \/ IsrClear
    BY <1>1, <2>3 DEF HandlerInv, LaunchInv, IsrCallback, IsrDone, IsrClear
  <2>4. ~IsrErrorEvents /\ ~IsrErrorIntr /\ ~IsrErrorReset
    BY <1>1 DEF HandlerInv, IsrErrorEvents, IsrErrorIntr, IsrErrorReset
  <2> QED
    BY <1>5, <2>1, <2>2, <2>3, <2>4
    DEF IsrStep, IsrEnter, IsrErrors, IsrAck, IsrStatus, IsrIssue, IsrOver, IsrGoOn,
        IsrEventsOff, IsrIntrOff, IsrExit
<1>6. CASE Hardware
  BY <1>6, Zenon DEF Hardware, HostStep
<1>7. CASE Disturb
  BY <1>7 DEF Disturb, AccessError
<1>8. CASE UNCHANGED vars
  BY <1>8 DEF vars
<1> QED
  BY <1>3, <1>4, <1>5, <1>6, <1>7, <1>8 DEF Next

LEMMA RefinesNext ==
  ASSUME SoundInv, SoundInv', DoneMeansTransferred, ToldInv, Assumptions, [Next]_vars, ~err'
  PROVE  [Transfer!Next]_(Transfer!vars)
<1> USE DEF hostVars, fifoVars, wmVars, enVars, irqVars, periVars, mainVars, isrVars, history,
        At, IsrAt, MainRuns
<1>1. TypeOK /\ LaunchInv /\ HandlerInv /\ ClearInv /\ AccountInv /\ TypeOK'
  BY DEF SoundInv
<1>2. ~Relaunch
  BY DEF Assumptions
<1>3. CASE UNCHANGED <<state, mpc, asked, sent, got, told>>
  BY <1>3, StatusIs, StatusIsNext, Stutters
<1>4. CASE AppCall
  <2>1. CASE spi_init
    <3>1. Status = state /\ Status' = state' /\ told' = told /\ UNCHANGED <<asked, sent, got>>
      BY <2>1, StatusIs, StatusIsNext DEF spi_init
    <3>2. CASE state = "BUSY"
      BY <2>1, <3>1, <3>2, Stutters DEF spi_init
    <3>3. CASE state # "BUSY"
      BY <2>1, <3>1, <3>3, Stops DEF spi_init
    <3> QED
      BY <3>2, <3>3
  <2>2. CASE spi_reset
    BY <2>2, StatusIs, StatusIsNext, Stutters DEF spi_reset
  <2>3. ASSUME NEW t \in Txns, NEW blk \in BOOLEAN, spi_prepare_transfer(t, blk)
        PROVE  Transfer!Next
    <3>1. Status # "BUSY" /\ Status' = "BUSY" /\ told' = FALSE
      BY <2>3, StatusIs, StatusIsNext DEF spi_prepare_transfer
    <3>2. /\ Owed(TxLen(asked) - sent)' = TxLen(t) - 0
          /\ Owed(RxLen(asked) - got)' = RxLen(t) - 0
      BY <2>3, <3>1 DEF Owed, spi_prepare_transfer
    <3>3. Owed(TxLen(asked) - sent)' \in Nat /\ Owed(RxLen(asked) - got)' \in Nat
      BY <3>2, TxnFacts
    <3> QED
      BY <3>1, <3>3 DEF Transfer!Next, Transfer!Accept
  <2> QED
    BY <1>3, <1>4, <2>1, <2>2, <2>3 DEF AppCall, spi_deinit, spi_set_txwm, spi_set_rxwm
<1>5. CASE MainStep
  <2>1. CASE LaunchState
    BY <2>1, StatusIs, StatusIsNext, Stutters DEF LaunchState
  <2>2. CASE \/ LaunchTxn \/ LaunchEvents \/ LaunchIntr \/ LaunchReady \/ LaunchSegment
             \/ WaitDone \/ WaitTimeout
    BY <2>2, StatusIs, StatusIsNext, Stutters
    DEF LaunchTxn, LaunchEvents, LaunchIntr, LaunchReady, LaunchSegment, WaitDone, WaitTimeout
  <2>3. CASE LaunchFill \/ LaunchCommand
    BY <2>3, StatusIs, StatusIsNext, Stutters DEF LaunchFill, FillTx, LaunchCommand
  <2>4. CASE ResetTxn \/ TimeoutState \/ ResetState
    BY <2>4, StatusIs, StatusIsNext, Stops DEF ResetTxn, TimeoutState, ResetState
  <2>5. CASE ResetHost
    BY <2>5, StatusIs, StatusIsNext, Stutters DEF ResetHost
  <2> QED
    BY <1>5, <2>1, <2>2, <2>3, <2>4, <2>5 DEF MainStep
<1>6. CASE IsrStep
  <2>1. ~(\E t \in Txns : IsrCallbackLaunch(t))
    BY <1>2 DEF IsrCallbackLaunch
  <2>2. ~IsrErrorEvents /\ ~IsrErrorIntr /\ ~IsrErrorReset
    BY <1>1 DEF HandlerInv, IsrErrorEvents, IsrErrorIntr, IsrErrorReset
  <2>3. CASE EmptyRx /\ UNCHANGED mpc /\ ipc \in {"last", "rx"}
    <3>1. state = "BUSY" /\ UnderWay
      BY <1>1, <2>3, Working DEF HandlerInv, EmptyRx
    <3>2. Status = "BUSY" /\ Status' = "BUSY"
      BY <2>3, <3>1, StatusIs, StatusIsNext DEF UnderWay, EmptyRx
    <3>3. told' = told /\ asked' = asked /\ sent' >= sent /\ got' >= got
      BY <1>1, <2>3 DEF EmptyRx, TypeOK, DataOK
    <3> QED
      BY <3>2, <3>3, Moves
  <2>4. CASE IsrDone
    <3>1. ipc = "done" /\ state = "BUSY" /\ state' = "DONE" /\ UNCHANGED <<mpc, asked, sent, got, told>>
      BY <1>1, <2>4 DEF IsrDone, HandlerInv
    <3>2. CASE mpc \in {"swrst", "init"}
      BY <3>1, <3>2, StatusIs, StatusIsNext, Stutters
    <3>3. CASE mpc \notin {"swrst", "init"}
      <4>1. UnderWay
        BY <3>1, <3>3, HandlerWhere DEF UnderWay
      <4>2. sent = TxLen(asked) /\ got = RxLen(asked) /\ sent \in Nat /\ got \in Nat
        <5>1. Accounted /\ Quiet /\ scnt = Len(txn) /\ ~DrainsRx
          BY <1>1, <3>1, <4>1 DEF AccountInv, HandlerInv
        <5> QED
          BY <1>1, <5>1, AllOver DEF TypeOK, DataOK
      <4>3. Status = "BUSY" /\ Status' = "DONE"
        BY <3>1, <4>1, StatusIs, StatusIsNext DEF UnderWay
      <4>4. TxLen(asked) - sent = 0 /\ RxLen(asked) - got = 0
        BY <4>2
      <4> QED
        BY <3>1, <4>3, <4>4 DEF Transfer!Next, Transfer!Finish, Owed
    <3> QED
      BY <3>2, <3>3
  <2>5. CASE IsrCallback
    <3>1. ipc = "cb" /\ state = "DONE" /\ ~told /\ UNCHANGED <<mpc, state, asked, sent, got>>
      BY <1>1, <2>5 DEF IsrCallback, HandlerInv, ToldInv
    <3>2. CASE ~cb
      BY <1>1, <1>3, <2>5, <3>1, <3>2, Zenon DEF IsrCallback, TypeOK, FlagsOK
    <3>3. CASE cb
      <4>1. mpc \notin {"launch", "swrst", "init"}
        BY <1>1, <3>1, <3>3 DEF ClearInv, PeriClear, LaunchInv, LaunchSteps
      <4>2. Status = "DONE" /\ Status' = "DONE" /\ told'
        BY <2>5, <3>1, <3>3, <4>1, StatusIs, StatusIsNext DEF IsrCallback
      <4>3. told' = TRUE
        BY <2>5, <3>3, Zenon DEF IsrCallback
      <4> QED
        BY <3>1, <4>2, <4>3 DEF Transfer!Next, Transfer!Tell, Owed
    <3> QED
      BY <3>2, <3>3
  <2>6. CASE IsrLastWords \/ IsrTx \/ IsrRx
    BY <1>3, <2>3, <2>6 DEF IsrLastWords, IsrTx, IsrRx, FillTx
  <2> QED
    BY <1>3, <1>6, <2>1, <2>2, <2>4, <2>5, <2>6
    DEF IsrStep, IsrEnter, IsrErrors, IsrAck, IsrStatus, IsrIssue, IsrOver, IsrGoOn,
        IsrEventsOff, IsrIntrOff, IsrClear, ResetTransaction, IsrExit
<1>7. CASE Hardware
  <2>1. UNCHANGED <<mpc, state, asked, got, told>> /\ sent' >= sent /\ got' >= got /\ ~Quiet
    <3>1. UNCHANGED <<mpc, state, asked, got, told>> /\ (sent' = sent \/ sent' = sent + 1)
      BY <1>7, Zenon DEF Hardware, HostStep
    <3>2. ~Quiet
      BY <1>7 DEF Hardware, HostStep, ShiftWord, EndSegment, Quiet
    <3> QED
      BY <1>1, <3>1, <3>2 DEF TypeOK, DataOK
  <2>2. Status' = Status
    BY <2>1, StatusIs, StatusIsNext
  <2>3. CASE Status = "BUSY"
    BY <2>1, <2>2, <2>3, Moves
  <2>4. CASE Status \notin {"BUSY", "DONE"}
    BY <2>1, <2>2, <2>4, Stutters
  <2>5. Status # "DONE"
    <3>1. mpc \in {"app", "wait", "reset", "timeout"} => state # "DONE"
      BY <1>1, <2>1 DEF HandlerInv, ClearInv, HostClear
    <3>2. mpc \notin LaunchSteps
      BY <1>1, <2>1 DEF LaunchInv
    <3> QED
      BY <1>1, <3>1, <3>2, StatusIs DEF TypeOK, DataOK, MainSteps, LaunchSteps, ResetSteps
  <2> QED
    BY <2>3, <2>4, <2>5
<1>8. CASE Disturb
  BY <1>8 DEF Disturb, AccessError
<1>9. CASE UNCHANGED vars
  BY <1>3, <1>9 DEF vars
<1> QED
  BY <1>4, <1>5, <1>6, <1>7, <1>8, <1>9 DEF Next

(* Under the assumptions of SdkInvariant, and if no access error happens,  *)
(* the SDK with its interrupts, FIFOs and segments implements the          *)
(* transfers of SpiTransfer: in particular done_cb is called at most once  *)
(* for a transfer and only when it is DONE, and no transfer is accepted    *)
(* while another is in progress.                                           *)
THEOREM ImplementsHolds == Assumptions /\ ~Errors /\ Spec => Implements
<1>1. Init => Transfer!Init /\ ToldInv /\ ~err
  BY StatusIs DEF Init, HostInit, Transfer!Init, Owed, ToldInv
<1>2. Assumptions /\ ~Errors => [](Assumptions /\ ~Errors)
  <2>1. Assumptions /\ ~Errors => (Assumptions /\ ~Errors)'
    BY DEF Assumptions, Preloaded
  <2> QED
    BY <2>1, PTL
<1>3. ~Errors /\ ~err /\ [Next]_vars => ~err'
  BY ErrNext DEF Disturb
<1>4. Assumptions /\ ~err /\ ~err' /\ SdkInv /\ ToldInv /\ [Next]_vars => ToldInv'
  BY ToldNext DEF SdkInv
<1>5. Assumptions /\ ~err /\ ~err' /\ SdkInv /\ SdkInv' /\ (~err => DoneMeansTransferred) /\ ToldInv
        /\ [Next]_vars
        => [Transfer!Next]_(Transfer!vars)
  BY RefinesNext DEF SdkInv
<1> QED
  BY <1>1, <1>2, <1>3, <1>4, <1>5, SdkInvariant, DoneMeansTransferredHolds, PTL
  DEF Spec, Implements, Transfer!Spec
=============================================================================
