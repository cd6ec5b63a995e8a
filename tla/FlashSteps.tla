---------------------------- MODULE FlashSteps ------------------------------
(***************************************************************************)
(* The steps within a section keep the invariant of Flash: those of the    *)
(* SPI host and of the chip, which move the wire on; those of the driver,  *)
(* which makes the section's next access; those of the core and of the     *)
(* DMA, which move the data; and the reset of the system on chip.          *)
(***************************************************************************)
EXTENDS FlashProofs

(***************************************************************************)
(* The devices keep the invariant.                                         *)
(***************************************************************************)
Tracked(s, p, j) ==
  \/ \E i \in 0..16 : OnTrack(s, i, p, j)
  \/ \E y \in Nat : InData(s, y, p, j)
  \/ Draining(s, p, j) \/ Async(s, p, j) \/ Down(s, p, j)

(* What Sane says of the chip. *)
LEMMA SaneChip ==
  Sane => ChipSane
  BY DEF Sane, ChipSane

(* What follows a section does not change while the host shifts it. *)
LEMMA DeviceContinues ==
  ASSUME FlashTypes, Device, NEW s, NEW p \in Nat, NEW p2 \in Nat, p2 >= p, NEW d,
         s.kind = "wake" /\ p >= 2 /\ job = NoJob => job' = NoJob
  PROVE  Continues(s, p, d) => Continues(s, p2, d)'
<1>1. UNCHANGED <<script, call, up>>
  BY DeviceFrame
<1>2. \A e : LegitFrom(e) => LegitFrom(e)'
  BY <1>1, LegitFromStays
<1>3. \A e, tail : Behind(e, tail) => Behind(e, tail)'
  BY <1>1 DEF Behind
<1> QED BY <1>1, <1>2, <1>3 DEF Continues

(* Host or chip move on while the driver makes the accesses of a section. *)
LEMMA DeviceOnTrack ==
  ASSUME FlashTypes, ChipSane, Device, NEW s \in Sections, Proper(s), NEW p \in 0..5, NEW j \in Nat,
         Stage(s, p, j), NEW i \in 0..16, OnTrack(s, i, p, j)
  PROVE  ChipSane' /\ \E p2 \in 0..5, j2 \in Nat : Stage(s, p2, j2)' /\ OnTrack(s, i, p2, j2)'
<1>1. UNCHANGED <<script, call, dma, up>>
  BY DeviceFrame
<1>2. PICK t \in Nat : /\ Wire(s, Issued(s, i), Pushed(s, i), p, j, t)
                       /\ IF s.kind \in ReadKinds THEN DmaReads(s, i, t) /\ (t > 0 => Launches(s, i) = 1)
                          ELSE dma = NoDma /\ t = 0
  BY DEF OnTrack
<1>3. On(s, Issued(s, i), Pushed(s, i), p, j, t)
  <2>1. Issued(s, i) \in 0..Len(Segs(s)) /\ Pushed(s, i) \in Nat
    <3>1. i \in Nat
      OBVIOUS
    <3>2. Issued(s, i) \in 0..Len(Segs(s)) /\ Pushed(s, i) \in 0..3+N(s) /\ N(s) \in Nat
      BY <3>1, Counts, LengthType
    <3> QED BY <3>2
  <2> QED BY <1>2, <2>1 DEF On
<1>4. Moves(s, Issued(s, i), Pushed(s, i), p, t) /\ ChipSane'
  BY <1>3, DeviceMoves
<1>5. PICK p2 \in 0..5, j2 \in Nat :
    /\ p2 >= p /\ Wire(s, Issued(s, i), Pushed(s, i), p2, j2, t)' /\ Stage(s, p2, j2)'
    /\ (s.kind = "wake" /\ p >= 2 /\ job = NoJob => job' = NoJob)
  BY <1>4 DEF Moves
<1>6. Continues(s, p2, Len(SectionItems(s)) - i)'
  BY <1>5, DeviceContinues DEF OnTrack
<1>7. IF s.kind \in ReadKinds THEN DmaReads(s, i, t)' /\ (t > 0 => Launches(s, i) = 1)
      ELSE dma' = NoDma /\ t = 0
  BY <1>1, <1>2 DEF DmaReads
<1>8. Ahead(s, i, 0)'
  BY <1>1 DEF Ahead, OnTrack
<1>9. OnTrack(s, i, p2, j2)'
  BY <1>1, <1>5, <1>6, <1>7, <1>8 DEF OnTrack
<1> QED BY <1>4, <1>5, <1>9

(* ... while core or DMA fill the transmit FIFO with the data of a         *)
(* program.                                                                *)
LEMMA DeviceInData ==
  ASSUME FlashTypes, ChipSane, Device, NEW s \in Sections, Proper(s), NEW p \in 0..5, NEW j \in Nat,
         Stage(s, p, j), NEW y \in Nat, InData(s, y, p, j)
  PROVE  ChipSane' /\ \E p2 \in 0..5, j2 \in Nat : Stage(s, p2, j2)' /\ InData(s, y, p2, j2)'
<1>1. UNCHANGED <<script, call, dma, up>>
  BY DeviceFrame
<1>2. Wire(s, 2, 2 + y, p, j, 0) /\ s.kind = "program"
  BY DEF InData
<1>3. On(s, 2, 2 + y, p, j, 0)
  <2>1. Len(Segs(s)) = 5
    BY <1>2, WriteSegs DEF Writes
  <2> QED BY <1>2, <2>1 DEF On
<1>4. Moves(s, 2, 2 + y, p, 0) /\ ChipSane'
  BY <1>3, DeviceMoves
<1>5. PICK p2 \in 0..5, j2 \in Nat :
    /\ p2 >= p /\ Wire(s, 2, 2 + y, p2, j2, 0)' /\ Stage(s, p2, j2)'
    /\ (s.kind = "wake" /\ p >= 2 /\ job = NoJob => job' = NoJob)
  BY <1>4 DEF Moves
<1>6. ASSUME NEW d, Continues(s, p, d) PROVE Continues(s, p2, d)'
  <2>1. p \in Nat /\ p2 \in Nat /\ p2 >= p /\ (s.kind = "wake" /\ p >= 2 /\ job = NoJob => job' = NoJob)
    BY <1>5
  <2> QED BY <1>6, <2>1, DeviceContinues
<1>7. \A d : Ahead(s, 7, d) => Ahead(s, 7, d)'
  BY <1>1 DEF Ahead
<1>8. InData(s, y, p2, j2)'
  BY <1>1, <1>5, <1>6, <1>7 DEF InData
<1> QED BY <1>4, <1>5, <1>8

(* ... while the core empties the receive FIFO. *)
LEMMA DeviceDraining ==
  ASSUME FlashTypes, ChipSane, Device, NEW s \in Sections, Proper(s), NEW p \in 0..5, NEW j \in Nat,
         Stage(s, p, j), Draining(s, p, j)
  PROVE  ChipSane' /\ \E p2 \in 0..5, j2 \in Nat : Stage(s, p2, j2)' /\ Draining(s, p2, j2)'
<1>1. UNCHANGED <<script, call, dma, up, rxwm>> /\ Len(rx) \in Nat /\ Len(rx') \in Nat /\ Len(rx') >= Len(rx)
  BY DeviceFrame
<1> DEFINE Q == Len(Segs(s))
           U == Taken(s, Q, 0)
           Rem(off, k, d, more) ==
             LET e == d + Past(k, 1) IN
             /\ off + k <= s.n /\ (more => (off + k) % W = 0)
             /\ Len(script) >= e + (IF more THEN 1 ELSE 0)
             /\ d = 2 => script[1] = Step("rxwm", 0, Ceil(k))
             /\ d >= 1 => script[d] = Step("rxwait", 0, 0)
             /\ d = 1 => rxwm = Ceil(k)
             /\ d = 0 => Len(rx) >= Ceil(k) /\ (k > 0 \/ more)
             /\ k > 0 => script[d+1] = Step("rx", off, k)
             /\ more => script[e+1] = Step("drain", off + k, s.n - off - k)
             /\ ~more => off + k = s.n
             /\ LegitFrom(e + (IF more THEN 2 ELSE 1))
<1>2. PICK off \in 0..s.n, k \in 0..Sector, d \in 0..2, more \in BOOLEAN :
        off % W = 0 /\ Wire(s, Q, U, p, j, off \div W) /\ Rem(off, k, d, more)
  BY DEF Draining
<1>3. off \in Nat /\ off \div W \in Nat /\ k \in Nat
  <2>1. off \in Nat
    BY DEF Sections
  <2>2. W \in Nat \ {0}
    BY Geometry
  <2> QED BY <2>1, <2>2, Divide
<1>4. On(s, Q, U, p, j, off \div W)
  <2>1. Q \in 0..Len(Segs(s)) /\ U \in Nat
    BY LengthType DEF Taken, Lesser
  <2> QED BY <1>2, <1>3, <2>1 DEF On
<1> HIDE DEF Q, U
<1>5. Moves(s, Q, U, p, off \div W) /\ ChipSane'
  BY <1>4, DeviceMoves
<1>6. PICK p2 \in 0..5, j2 \in Nat :
    /\ p2 >= p /\ Wire(s, Q, U, p2, j2, off \div W)' /\ Stage(s, p2, j2)'
    /\ (s.kind = "wake" /\ p >= 2 /\ job = NoJob => job' = NoJob)
  BY <1>5 DEF Moves
<1>7. Rem(off, k, d, more)'
  <2>1. Ceil(k) \in Nat
    BY <1>3, CeilType
  <2>2. \A x : LegitFrom(x) => LegitFrom(x)'
    BY <1>1, LegitFromStays
  <2>3. Len(rx) >= Ceil(k) => Len(rx') >= Ceil(k)
    BY <1>1, <2>1
  <2> QED BY <1>1, <1>2, <2>2, <2>3
<1> HIDE DEF Rem
<1>8. s.kind \in ReadKinds /\ s.via = "cpu" /\ dma' = NoDma /\ up' /\ call'.fn # "async"
  BY <1>1 DEF Draining
<1>9. off % W = 0 /\ Wire(s, Q, U, p2, j2, off \div W)' /\ Rem(off, k, d, more)'
  BY <1>2, <1>6, <1>7
<1>10. Draining(s, p2, j2)'
  BY <1>8, <1>9 DEF Draining, Rem, Q, U
<1> QED BY <1>5, <1>6, <1>10

(* ... while an asynchronous read is started or awaited. *)
LEMMA DeviceAsync ==
  ASSUME FlashTypes, ChipSane, Device, NEW s \in Sections, Proper(s), NEW p \in 0..5, NEW j \in Nat,
         Stage(s, p, j), Async(s, p, j)
  PROVE  ChipSane' /\ \E p2 \in 0..5, j2 \in Nat : Stage(s, p2, j2)' /\ Async(s, p2, j2)'
<1>1. UNCHANGED <<script, call, dma, up, res>>
  BY DeviceFrame
<1> DEFINE d(i) == Len(SectionItems(s)) - 1 - i
           Rem(i, t) ==
             /\ DmaReads(s, i, t)
             /\ t > 0 => Launches(s, i) = 1
             /\ \/ Len(script) = d(i) + 1 /\ script[d(i)+1] = [k |-> "ret", status |-> "OK"]
                \/ d(i) = 0 /\ script = <<>> /\ res = "OK"
             /\ \A k \in 1..d(i) : script[k] = SectionItems(s)[i+k]
<1>2. PICK i \in 0..Len(SectionItems(s))-1, t \in Nat :
        Wire(s, Issued(s, i), Pushed(s, i), p, j, t) /\ Rem(i, t)
  BY DEF Async
<1>3. On(s, Issued(s, i), Pushed(s, i), p, j, t)
  <2>1. Issued(s, i) \in 0..Len(Segs(s)) /\ Pushed(s, i) \in 0..3+N(s) /\ N(s) \in Nat
    <3>1. i \in Nat
      BY LengthType DEF Length
    <3> QED BY <3>1, Counts, LengthType
  <2> HIDE DEF Rem
  <2> QED BY <1>2, <2>1 DEF On
<1>4. Moves(s, Issued(s, i), Pushed(s, i), p, t) /\ ChipSane'
  BY <1>3, DeviceMoves
<1>5. PICK p2 \in 0..5, j2 \in Nat :
    /\ p2 >= p /\ Wire(s, Issued(s, i), Pushed(s, i), p2, j2, t)' /\ Stage(s, p2, j2)'
    /\ (s.kind = "wake" /\ p >= 2 /\ job = NoJob => job' = NoJob)
  BY <1>4 DEF Moves
<1>6. Rem(i, t)'
  BY <1>1, <1>2 DEF DmaReads
<1> HIDE DEF Rem
<1>7. /\ s.kind \in ReadKinds /\ s.via # "cpu" /\ Asynchronous(s) /\ s.n = call'.n
      /\ call'.fn = "async" /\ up'
  BY <1>1 DEF Async
<1>8. Wire(s, Issued(s, i), Pushed(s, i), p2, j2, t)' /\ Rem(i, t)'
  BY <1>5, <1>6
<1>9. Async(s, p2, j2)'
  BY <1>7, <1>8 DEF Async, Rem
<1> QED BY <1>4, <1>5, <1>9

(* ... while w25q128jw_power_down leaves its command behind. *)
LEMMA DeviceDown ==
  ASSUME FlashTypes, ChipSane, Device, NEW s \in Sections, Proper(s), NEW p \in 0..5, NEW j \in Nat,
         Stage(s, p, j), Down(s, p, j)
  PROVE  ChipSane' /\ \E p2 \in 0..5, j2 \in Nat : Stage(s, p2, j2)' /\ Down(s, p2, j2)'
<1>1. UNCHANGED <<script, call, dma, up, res>>
  BY DeviceFrame
<1> DEFINE Rem(i) ==
             /\ \/ Len(script) = 4 - i /\ script[4-i] = [k |-> "ret", status |-> "void"]
                \/ i = 3 /\ script = <<>> /\ ~up
             /\ \A k \in 1..3-i : script[k] = WakeItems[i+k]
<1>2. PICK i \in 0..3 : Wire(s, Issued(s, i), Pushed(s, i), p, j, 0) /\ Rem(i)
  BY DEF Down
<1>3. On(s, Issued(s, i), Pushed(s, i), p, j, 0)
  <2>1. Issued(s, i) \in 0..Len(Segs(s)) /\ Pushed(s, i) \in 0..3+N(s) /\ N(s) \in Nat
    <3>1. i \in Nat
      OBVIOUS
    <3> QED BY <3>1, Counts, LengthType
  <2> HIDE DEF Rem
  <2> QED BY <1>2, <2>1 DEF On
<1>4. Moves(s, Issued(s, i), Pushed(s, i), p, 0) /\ ChipSane'
  BY <1>3, DeviceMoves
<1>5. PICK p2 \in 0..5, j2 \in Nat :
    /\ p2 >= p /\ Wire(s, Issued(s, i), Pushed(s, i), p2, j2, 0)' /\ Stage(s, p2, j2)'
    /\ (s.kind = "wake" /\ p >= 2 /\ job = NoJob => job' = NoJob)
  BY <1>4 DEF Moves
<1>6. Rem(i)'
  BY <1>1, <1>2
<1> HIDE DEF Rem
<1>7. s.kind = "wake" /\ dma' = NoDma /\ call'.fn = "power_down"
  BY <1>1 DEF Down
<1>8. Wire(s, Issued(s, i), Pushed(s, i), p2, j2, 0)' /\ Rem(i)'
  BY <1>5, <1>6
<1>9. Down(s, p2, j2)'
  BY <1>7, <1>8 DEF Down, Rem
<1> QED BY <1>4, <1>5, <1>9

(* The five ways of being in a section, as one predicate. *)
LEMMA FlowCases ==
  Flow <=> \/ Resting \/ Closing
           \/ \E s \in Sections, p \in 0..5, j \in Nat : Proper(s) /\ Stage(s, p, j) /\ Tracked(s, p, j)
  BY DEF Flow, Tracked

(* Every step of the host or of the chip keeps the invariant. *)
LEMMA DeviceFlow ==
  ASSUME FlashTypes, FlashInv, Device
  PROVE  FlashInv'
<1>1. ChipSane
  BY SaneChip DEF FlashInv
<1>2. /\ UNCHANGED <<script, call, dma, up, res, rxwm, critical, pre, reg>>
      /\ Len(cmds) \in Nat /\ Len(cmds') \in Nat /\ Len(cmds') <= Len(cmds)
  BY DeviceFrame
<1>3. ChipSane' => Sane'
  <2>1. critical' = {} /\ (Len(cmds') > CmdDepth => script' # <<>> /\ script'[1] = Go)
    BY <1>2, Geometry DEF FlashInv, Sane
  <2> QED BY <2>1 DEF Sane, ChipSane
<1>4. SUFFICES ChipSane' /\ Flow'
  BY <1>3 DEF FlashInv
<1>5. CASE Resting \/ Closing
  <2>1. Quiet
    BY <1>5 DEF Resting, Closing
  <2>2. ChipDone
    BY <2>1 DEF Quiet, Device, Shift, ShiftTx, ShiftRx, ShiftDummy
  <2>3. Resting /\ job' = NoJob /\ UNCHANGED <<cmds, tx, rx, frame, asleep>>
    BY <1>5, <2>2 DEF ChipDone, hostVars, Closing
  <2>4. LegitFrom(1) => LegitFrom(1)'
    BY <1>2, LegitFromStays
  <2>5. Resting'
    BY <1>2, <2>3, <2>4 DEF Resting, Quiet, Awaited
  <2> QED BY <1>1, <2>2, <2>5, ChipDoneSane DEF Flow
<1>6. ASSUME NEW s \in Sections, NEW p \in 0..5, NEW j \in Nat, Proper(s), Stage(s, p, j), Tracked(s, p, j)
      PROVE  ChipSane' /\ Flow'
  <2>1. Proper(s)'
    BY <1>2, <1>6, ProperStays
  <2>2. ChipSane' /\ \E p2 \in 0..5, j2 \in Nat : Stage(s, p2, j2)' /\ Tracked(s, p2, j2)'
    <3>1. CASE \E i \in 0..16 : OnTrack(s, i, p, j)
      <4>1. PICK i \in 0..16 : OnTrack(s, i, p, j)
        BY <3>1
      <4>2. ChipSane' /\ \E p2 \in 0..5, j2 \in Nat : Stage(s, p2, j2)' /\ OnTrack(s, i, p2, j2)'
        BY <1>1, <1>6, <4>1, DeviceOnTrack
      <4> QED BY <4>2 DEF Tracked
    <3>2. CASE \E y \in Nat : InData(s, y, p, j)
      <4>1. PICK y \in Nat : InData(s, y, p, j)
        BY <3>2
      <4>2. ChipSane' /\ \E p2 \in 0..5, j2 \in Nat : Stage(s, p2, j2)' /\ InData(s, y, p2, j2)'
        BY <1>1, <1>6, <4>1, DeviceInData
      <4> QED BY <4>2 DEF Tracked
    <3>3. CASE Draining(s, p, j)
      BY <1>1, <1>6, <3>3, DeviceDraining DEF Tracked
    <3>4. CASE Async(s, p, j)
      BY <1>1, <1>6, <3>4, DeviceAsync DEF Tracked
    <3>5. CASE Down(s, p, j)
      BY <1>1, <1>6, <3>5, DeviceDown DEF Tracked
    <3> QED BY <1>6, <3>1, <3>2, <3>3, <3>4, <3>5 DEF Tracked
  <2> QED BY <2>1, <2>2 DEF Flow, Tracked
<1> QED BY <1>5, <1>6, FlowCases DEF FlashInv

(***************************************************************************)
(* The reset of the system on chip cuts the frame off.                     *)
(***************************************************************************)
LEMMA CutFrame ==
  ASSUME FlashTypes, ChipSane, NEW s \in Sections, Proper(s), NEW p, NEW j, Stage(s, p, j),
         p \in 0..Len(Segs(s)), j \in Nat, s.kind \in Writes => j * W <= s.n, s.kind = "enable" => j = 0,
         Deselect(frame), frame # NoFrame, UNCHANGED <<call, pre>>, up' => up
  PROVE  ChipSane' /\ frame' = NoFrame
<1>1. frame \in Frames /\ ChipTypes
  BY DEF FlashTypes, ChipTypes, Frames
<1>2. ASSUME frame.ok = TRUE, frame.op \in {"RSR1", "RSR2", "RD", "RDQIO"} PROVE ChipSane' /\ frame' = NoFrame
  <2>1. frame.op \notin Starters /\ frame.op # "RESET" /\ frame.op # "PD"
    BY <1>2 DEF Starters, Erases, Programs
  <2>2. /\ frame' = NoFrame /\ job' = job /\ mem' = mem /\ sr2' = sr2
        /\ refused' = refused \cup (IF frame.ok THEN {} ELSE {frame.op})
        /\ asleep' => asleep
    BY <1>1, <1>2, <2>1, DeselectPlain
  <2> QED BY <1>1, <1>2, <2>1, <2>2, KeepsPlain
<1>3. CASE s.kind \in Pairs
  <2>1. PairStage(s, p)
    BY <1>3 DEF Stage
  <2>2. FrameOf(StatusOp(s), TRUE)
    BY <2>1 DEF PairStage
  <2> QED BY <1>2, <2>2 DEF FrameOf, StatusOp
<1>4. CASE s.kind \in ReadKinds
  <2>1. ReadStage(s, p)
    BY <1>4 DEF Stage
  <2>2. FrameOf(s.op, TRUE)
    BY <2>1 DEF ReadStage
  <2> QED BY <1>2, <1>4, <2>2 DEF FrameOf, Proper, ReadKinds
<1>5. CASE s.kind \in Writes
  <2>1. WriteStage(s, p, j)
    BY <1>5 DEF Stage
  <2>2. p = 2 \/ p = 4
    BY <2>1 DEF WriteStage
  <2>3. CASE p = 4
    BY <1>2, <2>1, <2>3 DEF WriteStage, FrameOf
  <2>4. CASE p = 2
    <3>1. /\ frame.op = s.op /\ frame.addr = s.addr /\ Len(frame.data) = j * W
          /\ s.kind = "program" => frame.ok
          /\ frame.ok => job = NoJob
          /\ ~asleep
      BY <2>1, <2>4 DEF WriteStage
    <3>2. /\ s.kind = "program" => s.op \in Programs /\ s.addr \in Cells /\ s.n \in Nat
                                   /\ (s.addr % Page) + s.n <= Page /\ Within(s.addr, s.n)
          /\ s.kind = "enable" => s.op = "WSR2"
          /\ s.kind \in {"program", "enable"}
      BY <1>5 DEF Proper, Writes, Sections
    <3>3. frame.data \in Seq(Bytes) /\ frame.ok \in BOOLEAN
      BY <1>1 DEF Frames
    <3>4. s.kind = "enable" => frame.data = <<>>
      <4>1. 0 * W = 0
        BY Geometry
      <4>2. s.kind = "enable" => Len(frame.data) = 0
        BY <3>1, <4>1
      <4> QED BY <3>3, <4>2
    <3>5. CASE frame.data = <<>>
      <4>1. frame.op \notin Erases /\ frame.op # "RESET" /\ frame.op # "PD"
        BY <3>1, <3>2 DEF Programs, Erases
      <4>2. /\ frame' = NoFrame /\ job' = job /\ mem' = mem /\ sr2' = sr2
            /\ refused' = refused \cup (IF frame.ok THEN {} ELSE {frame.op})
            /\ asleep' => asleep
        BY <1>1, <3>5, <4>1, DeselectPlain
      <4>3. ~frame.ok => frame.op \notin Serious
        BY <3>1, <3>2, <3>3 DEF Serious, Reads, Programs, Erases
      <4> QED BY <1>1, <4>1, <4>2, <4>3, KeepsPlain
    <3>6. CASE frame.data # <<>>
      <4>1. s.kind = "program" /\ frame.op \in Programs /\ frame.ok /\ job = NoJob
        BY <3>1, <3>2, <3>4, <3>6
      <4>2. frame.op \in Starters /\ frame.op # "WSR2"
        BY <4>1, Ops
      <4>3. /\ frame' = NoFrame /\ job' = [op |-> frame.op, addr |-> frame.addr, data |-> frame.data]
            /\ mem' = mem /\ sr2' = sr2 /\ refused' = refused /\ (asleep' => asleep)
        BY <1>1, <3>6, <4>1, <4>2, DeselectStart
      <4>4. \A a \in Cells \ Scope(call) : Effect(job', mem)[a] = mem[a]
        <5>1. /\ job'.op \in Programs /\ job'.addr \in Cells /\ s.n \in Nat
              /\ (job'.addr % Page) + s.n <= Page /\ Within(job'.addr, s.n)
              /\ job'.data \in Seq(Bytes) /\ Len(job'.data) <= s.n
          <6>1. j * W <= s.n
            BY <1>5
          <6>2. job'.op = frame.op /\ job'.addr = frame.addr /\ job'.data = frame.data
            BY <4>3
          <6> QED BY <3>1, <3>2, <3>3, <4>1, <6>1, <6>2
        <5> QED BY <5>1, ProgramStays
      <4> QED BY <3>1, <4>1, <4>2, <4>3, <4>4, KeepsStart
    <3> QED BY <3>5, <3>6
  <2> QED BY <2>2, <2>3, <2>4
<1> QED BY <1>3, <1>4, <1>5 DEF Sections, Pairs, Writes, ReadKinds

(* Where the words of the data are. *)
LEMMA WireData ==
  ASSUME NEW s \in Sections, Proper(s), NEW Q \in 0..Len(Segs(s)), NEW U, NEW p, NEW j, NEW t, Wire(s, Q, U, p, j, t)
  PROVE  p \in 0..Len(Segs(s)) /\ j \in Nat /\ (s.kind \in Writes => j * W <= s.n) /\ (s.kind = "enable" => j = 0)
<1>1. p \in 0..Q /\ j \in Nat /\ Q \in Nat
  BY WireTypes DEF Wire, Place
<1>2. Len(Segs(s)) \in Nat
  BY LengthType
<1>3. 0 * W = 0 /\ W \in Nat \ {0}
  BY Geometry
<1>4. ASSUME s.kind \in Writes PROVE j * W <= s.n /\ (s.kind = "enable" => j = 0)
  <2>1. Segs(s)[3].len = s.n /\ s.n \in Nat \ {0}
    BY <1>4, WriteSegs
  <2>2. j > 0 => p = 2 /\ j * W < Segs(s)[p+1].len
    BY <1>4 DEF Wire, Place
  <2>3. j > 0 => j * W < s.n
    BY <2>1, <2>2
  <2>4. j = 0 => j * W = 0
    BY <1>3
  <2>5. s.kind = "enable" => s.n = 1
    BY DEF Proper
  <2>6. j > 0 => j * W >= W
    <3>1. \A a \in Nat \ {0}, b \in Nat : a * b >= b
      BY SMT
    <3> QED BY <1>1, <1>3, <3>1
  <2>7. j * W \in Nat
    BY <1>1, <1>3, OneMore
  <2> QED BY <1>1, <1>3, <2>1, <2>3, <2>4, <2>5, <2>6, <2>7
<1> QED BY <1>1, <1>2, <1>4 DEF Writes

(* Wherever the driver is in a section, the wire is at some word of it. *)
LEMMA WireOf ==
  ASSUME FlashTypes, NEW s \in Sections, Proper(s), NEW p, NEW j, Tracked(s, p, j)
  PROVE  \E Q \in 0..Len(Segs(s)), U \in Nat, t \in Nat : Wire(s, Q, U, p, j, t)
<1>1. \A i \in Nat : Issued(s, i) \in 0..Len(Segs(s)) /\ Pushed(s, i) \in Nat
  <2>1. \A i \in Nat : Issued(s, i) \in 0..Len(Segs(s)) /\ Pushed(s, i) \in 0..3+N(s) /\ N(s) \in Nat
    BY Counts, LengthType
  <2> QED BY <2>1
<1>2. CASE \E i \in 0..16 : OnTrack(s, i, p, j)
  <2>1. PICK i \in 0..16 : OnTrack(s, i, p, j)
    BY <1>2
  <2>2. PICK t \in Nat : Wire(s, Issued(s, i), Pushed(s, i), p, j, t)
    BY <2>1 DEF OnTrack
  <2>3. i \in Nat
    OBVIOUS
  <2> QED BY <1>1, <2>2, <2>3
<1>3. CASE \E y \in Nat : InData(s, y, p, j)
  <2>1. PICK y \in Nat : InData(s, y, p, j)
    BY <1>3
  <2>2. Wire(s, 2, 2 + y, p, j, 0) /\ s.kind = "program"
    BY <2>1 DEF InData
  <2>3. Len(Segs(s)) = 5
    BY <2>2, WriteSegs DEF Writes
  <2>4. 2 \in 0..Len(Segs(s)) /\ 2 + y \in Nat /\ 0 \in Nat
    BY <2>3
  <2> QED BY <2>2, <2>4
<1>4. CASE Draining(s, p, j)
  <2>1. PICK off \in 0..s.n : Wire(s, Len(Segs(s)), Taken(s, Len(Segs(s)), 0), p, j, off \div W)
    BY <1>4 DEF Draining
  <2>2. off \div W \in Nat
    <3>1. off \in Nat /\ W \in Nat \ {0}
      BY Geometry DEF Sections
    <3> QED BY <3>1, Divide
  <2>3. Taken(s, Len(Segs(s)), 0) \in Nat /\ Len(Segs(s)) \in 0..Len(Segs(s))
    BY <1>4, LengthType DEF Taken, Lesser, Draining, ReadKinds, Pairs, Writes
  <2> QED BY <2>1, <2>2, <2>3
<1>5. CASE Async(s, p, j)
  <2>1. PICK i \in 0..Len(SectionItems(s))-1, t \in Nat : Wire(s, Issued(s, i), Pushed(s, i), p, j, t)
    BY <1>5 DEF Async
  <2>2. i \in Nat
    BY LengthType DEF Length
  <2> QED BY <1>1, <2>1, <2>2
<1>6. CASE Down(s, p, j)
  <2>1. PICK i \in 0..3 : Wire(s, Issued(s, i), Pushed(s, i), p, j, 0)
    BY <1>6 DEF Down
  <2>2. i \in Nat
    OBVIOUS
  <2> QED BY <1>1, <2>1, <2>2
<1> QED BY <1>2, <1>3, <1>4, <1>5, <1>6 DEF Tracked

(* The reset ends the section: host, DMA and driver start over, and the    *)
(* chip, which keeps its power, drops what it had not received whole.      *)
LEMMA SocResetFlow ==
  ASSUME FlashTypes, FlashInv, SocReset
  PROVE  FlashInv'
<1>1. /\ cmds' = <<>> /\ tx' = <<>> /\ rx' = <<>> /\ dma' = NoDma /\ critical' = {}
      /\ script' = <<>> /\ res' = "reset" /\ up' = FALSE /\ UNCHANGED <<call, pre>>
      /\ (IF frame = NoFrame THEN UNCHANGED chipVars ELSE Deselect(frame))
  BY DEF SocReset
<1>2. ChipSane
  BY SaneChip DEF FlashInv
<1>3. ChipSane' /\ frame' = NoFrame
  <2>1. CASE frame = NoFrame
    BY <1>1, <1>2, <2>1, Keeps DEF chipVars
  <2>2. CASE frame # NoFrame
    <3>1. PICK s \in Sections, p \in 0..5, j \in Nat : Proper(s) /\ Stage(s, p, j) /\ Tracked(s, p, j)
      BY <2>2, FlowCases DEF FlashInv, Resting, Closing, Quiet
    <3>2. PICK Q \in 0..Len(Segs(s)), U \in Nat, t \in Nat : Wire(s, Q, U, p, j, t)
      BY <3>1, WireOf
    <3>3. p \in 0..Len(Segs(s)) /\ j \in Nat /\ (s.kind \in Writes => j * W <= s.n) /\ (s.kind = "enable" => j = 0)
      BY <3>1, <3>2, WireData
    <3> QED BY <1>1, <1>2, <2>2, <3>1, <3>3, CutFrame
  <2> QED BY <2>1, <2>2
<1>4. Resting'
  BY <1>1, <1>3 DEF Resting, Quiet, Awaited
<1>5. Len(cmds') = 0
  BY <1>1
<1> QED BY <1>1, <1>3, <1>4, <1>5, Geometry DEF FlashInv, Flow, Sane, ChipSane

(***************************************************************************)
(* The driver.                                                             *)
(***************************************************************************)
LEMMA HeadsA ==
  ASSUME Proceed, NEW k, k = Head(script).k
  PROVE  /\ script # <<>>
         /\ k = "tx" => SpiWriteWord
         /\ k = "txdata" => WriteData
         /\ k = "txreg" => WriteReg
         /\ k = "cmd" => SpiSetCommand
         /\ k = "ready" => SpiWaitForReady
         /\ k = "rxwm" => SpiSetRxWatermark
         /\ k = "rxwait" => SpiWaitForRxWatermark
         /\ k = "rx" => SpiReadWord
         /\ k = "rxreg" => ReadReg
         /\ k = "poll" => PollRead
         /\ k = "dmatx" => DmaSendToFlash
         /\ k = "dmarx" => DmaLaunchRead
         /\ k = "dmawait" => DmaWait
         /\ k = "memcpy" => Merge
         /\ k \in {"ret", "retqe"} => ReturnStatus
         /\ k \in Bodies => Unfold
<1>1. Unfold => script # <<>> /\ k \in Bodies
  BY DEF Unfold, Now
<1>2. /\ ReturnStatus => At("ret") \/ At("retqe")
      /\ SpiWriteWord => At("tx")
      /\ WriteData => At("txdata")
      /\ WriteReg => At("txreg")
      /\ SpiSetCommand => At("cmd")
      /\ SpiWaitForReady => At("ready")
      /\ SpiSetRxWatermark => At("rxwm")
      /\ SpiWaitForRxWatermark => At("rxwait")
  BY DEF ReturnStatus, SpiWriteWord, WriteData, WriteReg, SpiSetCommand, SpiWaitForReady,
         SpiSetRxWatermark, SpiWaitForRxWatermark
<1>3. /\ SpiReadWord => At("rx")
      /\ ReadReg => At("rxreg")
      /\ PollRead => At("poll")
      /\ DmaSendToFlash => At("dmatx")
      /\ DmaLaunchRead => At("dmarx")
      /\ DmaWait => At("dmawait")
      /\ Merge => At("memcpy")
  BY DEF SpiReadWord, ReadReg, PollRead, DmaSendToFlash, DmaLaunchRead, DmaWait, Merge
<1>4. \A x : At(x) => script # <<>> /\ k = x
  BY DEF At
<1>5. Bodies = {"flash_wait", "page_write", "erase", "reset", "read", "pages", "drain", "sectors"}
  BY DEF Bodies
<1> QED BY <1>1, <1>2, <1>3, <1>4, <1>5 DEF Proceed

(* An access touches neither the chip nor the call; only a return sets     *)
(* what the call returns and whether the flash is up.                      *)
LEMMA ProceedFrame ==
  ASSUME Proceed
  PROVE  UNCHANGED <<chipVars, call, pre>> /\ (Head(script).k \notin {"ret", "retqe"} => up' = up /\ res' = res)
<1>1. UNCHANGED <<chipVars, call, pre>>
  BY DEF Proceed, SpiWriteWord, WriteData, WriteReg, SpiSetCommand, SpiWaitForReady,
         SpiSetRxWatermark, SpiWaitForRxWatermark, SpiReadWord, ReadReg, PollRead, DmaSendToFlash,
         DmaLaunchRead, DmaWait, Merge, ReturnStatus, Finish, Unfold, drvVars
<1>2. ~ReturnStatus => up' = up /\ res' = res
  BY DEF Proceed, SpiWriteWord, WriteData, WriteReg, SpiSetCommand, SpiWaitForReady,
         SpiSetRxWatermark, SpiWaitForRxWatermark, SpiReadWord, ReadReg, PollRead, DmaSendToFlash,
         DmaLaunchRead, DmaWait, Merge, Unfold, drvVars
<1>3. ReturnStatus => Head(script).k \in {"ret", "retqe"}
  BY DEF ReturnStatus, At
<1> QED BY <1>1, <1>2, <1>3

(* What is first in the script. *)
LEMMA ScriptHead ==
  ASSUME FlashTypes, script # <<>>
  PROVE  /\ Head(script) = script[1] /\ Len(script) \in Nat \ {0} /\ Len(Tail(script)) = Len(script) - 1
         /\ \A k \in 1..Len(script)-1 : Tail(script)[k] = script[k+1]
         /\ script \in Seq(Items(call)) /\ Tail(script) \in Seq(Items(call))
<1>1. script \in Seq(Items(call))
  BY DEF FlashTypes, DriverTypes
<1> QED BY <1>1

(* Only the access that waits for the command queue equals Go. *)
LEMMA GoKind ==
  ASSUME NEW x, x.k # "ready"
  PROVE  x # Go
  BY DEF Go, Step

(* The driver leaves the chip alone. *)
LEMMA SaneStays ==
  ASSUME FlashTypes, Sane, UNCHANGED <<chipVars, call, pre>>, up' => up \/ 1 \in sr2, critical' = {},
         Len(cmds') > CmdDepth => script' # <<>> /\ script'[1] = Go
  PROVE  Sane'
<1>1. CommandsAccepted' /\ NeighboursKept'
  BY DEF Sane, CommandsAccepted, NeighboursKept, Settled, chipVars
<1> QED BY <1>1 DEF Sane, chipVars

(* A segment is written into a command queue that has room for it. *)
LEMMA CommandsFit ==
  ASSUME FlashTypes, Sane, script # <<>>, script[1] # Go \/ Ready, UNCHANGED cmds
  PROVE  ~(Len(cmds') > CmdDepth)
<1>1. Len(cmds) \in Nat /\ CmdDepth \in Nat
  BY Geometry DEF FlashTypes, HostTypes
<1> QED BY <1>1 DEF Sane, Ready

(* A step that leaves the driver somewhere in a section keeps the flow. *)
LEMMA Lands ==
  ASSUME UNCHANGED call, NEW s \in Sections, NEW p \in 0..5, NEW j \in Nat, Proper(s), Stage(s, p, j)',
         Tracked(s, p, j)'
  PROVE  Flow'
<1>1. Proper(s)'
  BY ProperStays
<1> QED BY <1>1 DEF Flow, Tracked

(* What the chip has made of the words does not depend on the driver. *)
LEMMA StageStays ==
  ASSUME UNCHANGED <<chipVars, up>>, NEW s, NEW p, NEW j, Stage(s, p, j), s.kind \in ReadKinds \/ rx' = rx
  PROVE  Stage(s, p, j)'
<1>1. PairStage(s, p) /\ rx' = rx => PairStage(s, p)'
  BY DEF PairStage, StatusRead, FrameOf, chipVars
<1>2. WriteStage(s, p, j) /\ rx' = rx => WriteStage(s, p, j)'
  BY DEF WriteStage, StatusRead, FrameOf, chipVars
<1>3. ReadStage(s, p) => ReadStage(s, p)'
  BY DEF ReadStage, FrameOf, chipVars
<1> QED BY <1>1, <1>2, <1>3 DEF Stage, ReadKinds, Pairs, Writes

(* A page is no more words than its bytes divided by W. *)
LEMMA CeilPage ==
  ASSUME NEW n \in Nat, n <= Page
  PROVE  Ceil(n) <= Page \div W /\ Page \div W \in Nat
<1> DEFINE q == Page \div W
           c == Ceil(n)
<1>1. W \in Nat \ {0} /\ Page \in Nat /\ Page % W = 0
  BY Geometry, GeometryAssumption
<1>2. q \in Nat /\ Page = W * q
  BY <1>1, Divide
<1>3. n + W - 1 \in Nat /\ c = (n + W - 1) \div W
  BY <1>1 DEF Ceil
<1>4. c \in Nat /\ W * c <= n + W - 1
  <2>1. n + W - 1 = W * ((n + W - 1) \div W) + ((n + W - 1) % W) /\ (n + W - 1) % W \in Nat
        /\ (n + W - 1) \div W \in Nat
    BY <1>1, <1>3, Divide
  <2> HIDE DEF c
  <2>2. c \in Nat /\ n + W - 1 = W * c + ((n + W - 1) % W)
    BY <1>3, <2>1
  <2> QED BY <1>1, <2>1, <2>2, SMT
<1> HIDE DEF q, c
<1>5. \A a \in Nat, b \in Nat, w \in Nat \ {0} : w * a <= w * b + w - 1 => a <= b
  <2> SUFFICES ASSUME NEW a \in Nat, NEW b \in Nat, NEW w \in Nat \ {0}, a >= b + 1 PROVE w * a > w * b + w - 1
    OBVIOUS
  <2>1. a = b + 1 + (a - b - 1) /\ a - b - 1 \in Nat
    OBVIOUS
  <2>2. w * a = w * b + w + w * (a - b - 1) /\ w * (a - b - 1) >= 0
    BY <2>1, SMT
  <2> QED BY <2>2, SMT
<1>6. W * c <= W * q + W - 1
  BY <1>1, <1>2, <1>4
<1>7. c <= q
  BY <1>1, <1>2, <1>4, <1>5, <1>6
<1> QED BY <1>2, <1>7 DEF q, c

(* No section pushes more words than the transmit FIFO holds. *)
LEMMA PushedBound ==
  ASSUME NEW s \in Sections, Proper(s), NEW i \in Nat
  PROVE  Pushed(s, i) \in Nat /\ Pushed(s, i) <= TxDepth /\ (s.kind = "program" => 2 + N(s) < TxDepth)
<1>1. Pushed(s, i) \in 0..3+N(s) /\ N(s) \in Nat
  BY Counts, LengthType
<1>2. TxDepth >= (Page \div W) + 3 /\ TxDepth \in Nat /\ Page \div W \in Nat /\ 1 <= Page /\ Page \in Nat
  BY DepthAssumption, Geometry, CeilPage
<1>3. s.kind \in Writes => N(s) <= Page \div W
  <2>1. s.kind \in Writes => s.n \in Nat /\ s.n <= Page
    BY <1>2 DEF Proper, Writes
  <2> QED BY <2>1, CeilPage DEF N
<1>4. s.kind \notin Writes => Pushed(s, i) <= 3
  BY DEF Pushed, Past, Sections, Pairs, Writes, ReadKinds
<1>5. s.kind = "program" => s.kind \in Writes
  BY DEF Writes
<1> QED BY <1>1, <1>2, <1>3, <1>4, <1>5

(***************************************************************************)
(* An access of a section.                                                 *)
(***************************************************************************)
Plain == {"tx", "txreg", "cmd", "ready", "rxwm", "rxwait"}

(* A plain access: the section has one access more behind it, and the      *)
(* wire is as it was.                                                      *)
LEMMA AccessStep ==
  ASSUME FlashTypes, Sane, Proceed, NEW s \in Sections, Proper(s), NEW i \in 0..Length(s)-1,
         script # <<>>, script[1] = SectionItems(s)[i+1], script[1].k \in Plain,
         script[1].k = "cmd" => Len(script) > 1 /\ script[2] = Go,
         NEW p, NEW j, NEW t, Wire(s, Issued(s, i), Pushed(s, i), p, j, t)
  PROVE  /\ Wire(s, Issued(s, i+1), Pushed(s, i+1), p, j, t)' /\ Launches(s, i+1) = Launches(s, i)
         /\ script' = Tail(script) /\ UNCHANGED <<chipVars, rx, dma, call, up, pre, res, reg>> /\ Sane'
<1>1. Row(s, i)
  BY Table
<1>2. /\ Head(script) = script[1] /\ Len(script) \in Nat \ {0} /\ Len(Tail(script)) = Len(script) - 1
      /\ \A k \in 1..Len(script)-1 : Tail(script)[k] = script[k+1]
      /\ script \in Seq(Items(call)) /\ Tail(script) \in Seq(Items(call))
  BY ScriptHead
<1>3. i \in Nat /\ i + 1 \in Nat
  BY LengthType
<1>4. /\ Issued(s, i) \in 0..Len(Segs(s)) /\ Pushed(s, i) \in Nat /\ Launches(s, i) \in Nat
  <2>1. Issued(s, i) \in 0..Len(Segs(s)) /\ Pushed(s, i) \in 0..3+N(s) /\ N(s) \in Nat /\ Launches(s, i) \in {0, 1}
    BY <1>3, Counts, LengthType
  <2> QED BY <2>1
<1>5. /\ Taken(s, p, j) \in Nat /\ p \in Nat /\ j \in Nat /\ Issued(s, i) \in Nat
  BY <1>4, WireTypes
<1>6. UNCHANGED <<chipVars, call, pre, up, res>>
  BY <1>2, ProceedFrame DEF Plain
<1>7. tx \in Seq(TxWords) /\ cmds \in Seq(Segments) /\ Len(cmds) \in Nat /\ Len(tx) \in Nat
      /\ critical = {} /\ CmdDepth \in Nat
  BY Geometry DEF FlashTypes, HostTypes, Sane
<1> DEFINE x == script[1]
<1>8. /\ x.k = "tx" => x.op = WordOp(s, Pushed(s, i) + 1) /\ x.addr = WordAddr(s, Pushed(s, i) + 1)
                       /\ ~(s.kind = "enable" /\ Pushed(s, i) = 2)
      /\ x.k = "txreg" => s.kind = "enable" /\ Pushed(s, i) = 2
      /\ x.k \in {"tx", "txreg"} => Pushed(s, i+1) = Pushed(s, i) + 1
      /\ x.k \notin {"tx", "txreg"} => Pushed(s, i+1) = Pushed(s, i)
      /\ x.k = "cmd" => /\ x.dir = Segs(s)[Issued(s, i) + 1].dir
                        /\ x.len = Segs(s)[Issued(s, i) + 1].len
                        /\ x.csaat = Segs(s)[Issued(s, i) + 1].csaat
                        /\ Issued(s, i) < Len(Segs(s)) /\ Issued(s, i+1) = Issued(s, i) + 1
      /\ x.k # "cmd" => Issued(s, i+1) = Issued(s, i)
      /\ Launches(s, i+1) = Launches(s, i)
  BY <1>1, <1>4 DEF Row, Plain
<1> HIDE DEF x
<1>9. x.k \in {"tx", "txreg"} => Len(tx) < TxDepth
  <2>1. TxFifo(s, Pushed(s, i), Taken(s, p, j))
    BY DEF Wire
  <2>2. Len(tx) <= Pushed(s, i)
    BY <1>4, <1>5, <1>7, <2>1 DEF TxFifo
  <2>3. Pushed(s, i+1) <= TxDepth /\ Pushed(s, i+1) \in Nat /\ TxDepth \in Nat
    BY <1>3, PushedBound, Geometry
  <2> QED BY <1>4, <1>7, <1>8, <2>2, <2>3
<1>10. x.k # "cmd" /\ x.k # "ready" /\ cmds' = cmds => ~(Len(cmds') > CmdDepth)
  BY CommandsFit, GoKind DEF x
<1>11. SUFFICES /\ Wire(s, Issued(s, i+1), Pushed(s, i+1), p, j, t)' /\ script' = Tail(script)
                /\ UNCHANGED <<rx, dma, reg, critical>>
                /\ Len(cmds') > CmdDepth => script' # <<>> /\ script'[1] = Go
  BY <1>6, <1>7, <1>8, SaneStays
<1>12. ASSUME NEW w, tx' = Append(tx, w), IsWord(w, s, Pushed(s, i) + 1), UNCHANGED <<cmds, rx>>,
              x.k \in {"tx", "txreg"}
       PROVE  Wire(s, Issued(s, i+1), Pushed(s, i+1), p, j, t)'
  <2>1. Wire(s, Issued(s, i), Pushed(s, i) + 1, p, j, t)'
    BY <1>4, <1>5, <1>7, <1>12, WirePush
  <2>2. Pushed(s, i+1) = Pushed(s, i) + 1 /\ Issued(s, i+1) = Issued(s, i)
    BY <1>8, <1>12
  <2> QED BY <2>1, <2>2
<1>13. CASE x.k = "tx"
  <2>1. SpiWriteWord
    BY <1>2, <1>13, HeadsA DEF x
  <2>2. /\ tx' = Append(tx, [op |-> x.op, addr |-> x.addr, bytes |-> <<>>]) /\ script' = Tail(script)
        /\ UNCHANGED <<cmds, rx, dma, reg, critical>>
    BY <1>2, <1>9, <1>13, <2>1 DEF SpiWriteWord, Now, Advance, x, dmaVars, drvVars
  <2>3. IsWord([op |-> x.op, addr |-> x.addr, bytes |-> <<>>], s, Pushed(s, i) + 1)
    BY <1>4, <1>8, <1>13 DEF IsWord
  <2>4. Wire(s, Issued(s, i+1), Pushed(s, i+1), p, j, t)'
    BY <1>12, <1>13, <2>2, <2>3
  <2> QED BY <1>10, <1>13, <2>2, <2>4
<1>14. CASE x.k = "txreg"
  <2>1. WriteReg
    BY <1>2, <1>14, HeadsA DEF x
  <2> DEFINE w == [op |-> "data", addr |-> 0, bytes |-> [k \in 1..W |-> IF k = 1 THEN reg \cup {1} ELSE {}]]
  <2>2. /\ tx' = Append(tx, w) /\ script' = Tail(script)
        /\ UNCHANGED <<cmds, rx, dma, reg, critical>>
    BY <1>2, <1>9, <1>14, <2>1 DEF WriteReg, Now, Advance, x, dmaVars, drvVars
  <2>3. IsWord(w, s, Pushed(s, i) + 1)
    <3>1. s.kind = "enable" /\ Pushed(s, i) + 1 = 3 /\ N(s) = 1
      <4>1. s.kind = "enable" /\ s.n = 1 /\ Pushed(s, i) + 1 = 3
        BY <1>8, <1>14 DEF Proper
      <4>2. Ceil(1) = 1
        <5>1. W \in Nat \ {0} /\ 1 + W - 1 = W
          BY Geometry
        <5>2. W \div W = 1
          BY <5>1, SMT
        <5> QED BY <5>1, <5>2 DEF Ceil
      <4> QED BY <4>1, <4>2 DEF N
    <3>2. WordOp(s, 3) = "data" /\ WordAddr(s, 3) = 0
      BY <3>1 DEF WordOp, WordAddr, ReadKinds, Writes
    <3>3. 1 \in w.bytes[1]
      BY Geometry
    <3> HIDE DEF w
    <3>4. w.op = "data" /\ w.addr = 0
      BY DEF w
    <3> QED BY <3>1, <3>2, <3>3, <3>4 DEF IsWord
  <2> HIDE DEF w
  <2>4. Wire(s, Issued(s, i+1), Pushed(s, i+1), p, j, t)'
    BY <1>12, <1>14, <2>2, <2>3
  <2> QED BY <1>10, <1>14, <2>2, <2>4
<1>15. CASE x.k = "cmd"
  <2>1. SpiSetCommand
    BY <1>2, <1>15, HeadsA DEF x
  <2>2. Ready
    <3>1. x # Go
      BY <1>15, GoKind
    <3> QED BY <1>7, <3>1 DEF Sane, Ready, x
  <2> DEFINE e == [dir |-> x.dir, len |-> x.len, csaat |-> x.csaat]
  <2>3. cmds' = Append(cmds, e) /\ script' = Tail(script)
        /\ UNCHANGED <<tx, rx, dma, reg, critical>>
    BY <1>2, <1>15, <2>1, <2>2 DEF SpiSetCommand, Now, Advance, x, dmaVars, drvVars
  <2>4. /\ e.dir = Segs(s)[Issued(s, i) + 1].dir /\ e.len = Segs(s)[Issued(s, i) + 1].len
        /\ e.csaat = Segs(s)[Issued(s, i) + 1].csaat /\ e.len \in Nat
    <3>1. /\ e.dir = x.dir /\ e.len = x.len /\ e.csaat = x.csaat
      OBVIOUS
    <3> HIDE DEF e
    <3>2. Issued(s, i) + 1 \in 1..Len(Segs(s))
      BY <1>4, <1>8, <1>15, LengthType
    <3>3. Segs(s)[Issued(s, i) + 1].len \in Nat
      BY <3>2, SegsType
    <3> QED BY <1>8, <1>15, <3>1, <3>3
  <2> HIDE DEF e
  <2>5. Wire(s, Issued(s, i) + 1, Pushed(s, i), p, j, t)'
    BY <1>5, <1>7, <2>3, <2>4, WireIssue
  <2>6. Wire(s, Issued(s, i+1), Pushed(s, i+1), p, j, t)'
    BY <1>8, <1>15, <2>5
  <2>7. script' # <<>> /\ script'[1] = Go
    <3>1. Len(script') = Len(script) - 1 /\ script'[1] = script[2] /\ Len(script) > 1
      BY <1>2, <1>15, <2>3 DEF x
    <3> QED BY <1>2, <1>15, <3>1 DEF x
  <2> QED BY <2>3, <2>6, <2>7
<1>16. CASE x.k \in {"ready", "rxwm", "rxwait"}
  <2>1. script' = Tail(script) /\ UNCHANGED <<cmds, tx, rx, dma, reg, critical>>
        /\ (x.k = "ready" => Ready)
    <3>1. CASE x.k = "ready"
      BY <1>2, <3>1, HeadsA DEF x, SpiWaitForReady, Advance, hostVars, dmaVars, drvVars
    <3>2. CASE x.k = "rxwm"
      BY <1>2, <3>2, HeadsA DEF x, SpiSetRxWatermark, Advance, hostVars, dmaVars, drvVars
    <3>3. CASE x.k = "rxwait"
      BY <1>2, <3>3, HeadsA DEF x, SpiWaitForRxWatermark, Advance, hostVars, dmaVars, drvVars
    <3> QED BY <1>16, <3>1, <3>2, <3>3
  <2>2. ~(Len(cmds') > CmdDepth)
    BY <1>7, <1>10, <1>16, <2>1 DEF Ready
  <2>3. Wire(s, Issued(s, i), Pushed(s, i), p, j, t)'
    BY <2>1 DEF Wire, CmdQueue, TxFifo, RxFifo
  <2>4. Issued(s, i+1) = Issued(s, i) /\ Pushed(s, i+1) = Pushed(s, i)
    BY <1>8, <1>16
  <2> QED BY <2>1, <2>2, <2>3, <2>4
<1> QED BY <1>13, <1>14, <1>15, <1>16 DEF x, Plain

(* One access less. *)
LEMMA AheadNext ==
  ASSUME FlashTypes, script # <<>>, script' = Tail(script), NEW s \in Sections, NEW i \in 0..Length(s)-1
  PROVE  /\ Ahead(s, i, 0) => Ahead(s, i+1, 0)' /\ script[1] = SectionItems(s)[i+1] /\ Len(script) >= Length(s) - i
                              /\ (i + 1 < Length(s) => script[2] = SectionItems(s)[i+2])
         /\ \A d \in Nat \ {0} : Ahead(s, i, d) => Ahead(s, i, d-1)'
<1>1. /\ Len(script) \in Nat \ {0} /\ Len(script') = Len(script) - 1
      /\ \A k \in 1..Len(script)-1 : script'[k] = script[k+1]
  BY ScriptHead
<1>2. Length(s) \in Nat /\ i \in Nat /\ i < Length(s)
  BY LengthType
<1> DEFINE l == Len(script)
           m == Length(s)
           l2 == Len(script')
<1>3. l \in Nat \ {0} /\ l2 = l - 1 /\ m \in Nat /\ (\A k \in 1..l-1 : script'[k] = script[k+1])
      /\ i \in Nat /\ i < m
  BY <1>1, <1>2
<1> HIDE DEF l, m, l2
<1>4. ASSUME Ahead(s, i, 0) PROVE Ahead(s, i+1, 0)' /\ script[1] = SectionItems(s)[i+1] /\ l >= m - i
                                  /\ (i + 1 < m => script[2] = SectionItems(s)[i+2])
  <2>1. l >= m - i /\ \A k \in 1..m-i : script[0+k] = SectionItems(s)[i+k]
    BY <1>2, <1>3, <1>4 DEF Ahead, Length, l, m
  <2>2. l >= m - i /\ \A k \in 1..m-i : script[k] = SectionItems(s)[i+k]
    BY <1>2, <1>3, <2>1
  <2>3. script[1] = SectionItems(s)[i+1]
    BY <1>2, <1>3, <2>2 DEF m
  <2>4. \A k \in 1..m-(i+1) : script'[0+k] = SectionItems(s)[i+1+k]
    <3> SUFFICES ASSUME NEW k \in 1..m-(i+1) PROVE script'[0+k] = SectionItems(s)[i+1+k]
      OBVIOUS
    <3>1. k \in 1..l-1 /\ k + 1 \in 1..m-i /\ i + (k + 1) = i + 1 + k /\ 0 + k = k
      BY <1>2, <1>3, <2>2
    <3>2. script'[k] = script[k+1] /\ script[k+1] = SectionItems(s)[i+(k+1)]
      BY <1>3, <2>2, <3>1
    <3> QED BY <3>1, <3>2
  <2>5. l2 >= 0 + m - (i + 1)
    BY <1>2, <1>3, <2>2
  <2>6. i + 1 < m => script[2] = SectionItems(s)[i+2]
    <3>1. i + 1 < m => 2 \in 1..m-i
      BY <1>2, <1>3 DEF m
    <3> QED BY <2>2, <3>1
  <2> QED BY <2>2, <2>3, <2>4, <2>5, <2>6 DEF Ahead, m, l2, Length
<1>5. ASSUME NEW d \in Nat \ {0}, Ahead(s, i, d) PROVE Ahead(s, i, d-1)'
  <2>1. l >= d + m - i /\ \A k \in 1..m-i : script[d+k] = SectionItems(s)[i+k]
    BY <1>2, <1>3, <1>5 DEF Ahead, Length, l, m
  <2>4. \A k \in 1..m-i : script'[d-1+k] = SectionItems(s)[i+k]
    <3> SUFFICES ASSUME NEW k \in 1..m-i PROVE script'[d-1+k] = SectionItems(s)[i+k]
      OBVIOUS
    <3>1. d - 1 + k \in 1..l-1 /\ (d - 1 + k) + 1 = d + k
      BY <1>2, <1>3, <2>1
    <3>2. script'[d-1+k] = script[(d-1+k)+1] /\ script[d+k] = SectionItems(s)[i+k]
      BY <1>3, <2>1, <3>1
    <3> QED BY <3>1, <3>2
  <2>5. l2 >= d - 1 + m - i
    BY <1>2, <1>3, <2>1
  <2> QED BY <2>4, <2>5 DEF Ahead, m, l2, Length
<1> QED BY <1>4, <1>5 DEF l, m

(* What is left on the script is legitimate still. *)
LEMMA LegitNext ==
  ASSUME FlashTypes, script # <<>>, script' = Tail(script), UNCHANGED call, NEW d \in Nat \ {0}
  PROVE  LegitFrom(d+1) => LegitFrom(d)'
<1>1. /\ Len(script) \in Nat \ {0} /\ Len(script') = Len(script) - 1
      /\ \A k \in 1..Len(script)-1 : script'[k] = script[k+1]
  BY ScriptHead
<1>2. SUFFICES ASSUME LegitFrom(d+1), NEW k \in d..Len(script') PROVE Legit(script[k])'
  BY DEF LegitFrom
<1>3. k \in 1..Len(script)-1 /\ k + 1 \in d+1..Len(script)
  BY <1>1, <1>2
<1>4. PICK x : x = script[k+1]
  OBVIOUS
<1>5. Legit(x) /\ script'[k] = x
  BY <1>1, <1>2, <1>3, <1>4 DEF LegitFrom
<1>6. Legit(x)'
  BY <1>5, LegitStays
<1> QED BY <1>5, <1>6

(* The fixed parts of a script that follow the first section of            *)
(* w25q128jw_init.                                                         *)
LEMMA TailFacts ==
  /\ Len(EnableTail) = 25 /\ Len(CheckTail) = 8
  BY DEF EnableTail, CheckTail

(* What follows a section moves one access nearer. *)
LEMMA BehindNext ==
  ASSUME FlashTypes, script # <<>>, script' = Tail(script), NEW d \in Nat \ {0}, NEW tail, Len(tail) \in Nat
  PROVE  Behind(d, tail) => Behind(d-1, tail)'
<1>1. /\ Len(script) \in Nat \ {0} /\ Len(script') = Len(script) - 1
      /\ \A k \in 1..Len(script)-1 : script'[k] = script[k+1]
  BY ScriptHead
<1>2. SUFFICES ASSUME Behind(d, tail) PROVE Behind(d-1, tail)'
  OBVIOUS
<1>3. Len(script) = d + Len(tail) /\ \A k \in 1..Len(tail) : script[d+k] = tail[k]
  BY <1>2 DEF Behind
<1>4. ASSUME NEW k \in 1..Len(tail) PROVE script'[d-1+k] = tail[k]
  <2>1. d - 1 + k \in 1..Len(script)-1 /\ (d - 1 + k) + 1 = d + k
    BY <1>1, <1>3
  <2>2. script'[d-1+k] = script[(d-1+k)+1]
    BY <1>1, <2>1
  <2> QED BY <1>3, <2>1, <2>2
<1>5. Len(script') = d - 1 + Len(tail)
  BY <1>1, <1>3
<1> QED BY <1>4, <1>5 DEF Behind

(* What follows a section moves one access nearer. *)
LEMMA ContinuesNext ==
  ASSUME FlashTypes, script # <<>>, script' = Tail(script), UNCHANGED <<call, up, job>>, NEW d \in Nat \ {0},
         NEW s, NEW p, Continues(s, p, d)
  PROVE  Continues(s, p, d-1)'
<1>1. /\ Len(script) \in Nat \ {0} /\ Len(script') = Len(script) - 1
      /\ \A k \in 1..Len(script)-1 : script'[k] = script[k+1]
  BY ScriptHead
<1>2. \A e \in Nat \ {0} : LegitFrom(e+1) => LegitFrom(e)'
  BY LegitNext
<1>3. /\ Behind(d, EnableTail) => Behind(d-1, EnableTail)'
      /\ Behind(d, CheckTail) => Behind(d-1, CheckTail)'
  BY TailFacts, BehindNext
<1>4. Behind(d, << Step("retqe", 0, 0) >>) => Behind(d-1, << Step("retqe", 0, 0) >>)'
  BY BehindNext
<1>5. /\ LegitFrom(d+1) => LegitFrom((d-1)+1)'
      /\ LegitFrom(d+2) => LegitFrom((d-1)+2)'
  <2>1. (d - 1) + 1 = d /\ (d - 1) + 2 = d + 1 /\ d + 2 = (d + 1) + 1 /\ d + 1 \in Nat \ {0}
    OBVIOUS
  <2> QED BY <1>2, <2>1
<1>6. Len(script) > d /\ script[d+1] = Step("drain", 0, s.n)
        => Len(script') > d - 1 /\ script'[(d-1)+1] = Step("drain", 0, s.n)
  BY <1>1
<1> QED BY <1>3, <1>4, <1>5, <1>6 DEF Continues

(* The read sets the DMA up. *)
LEMMA LaunchStep ==
  ASSUME FlashTypes, Sane, Proceed, NEW s \in Sections, Proper(s), NEW i \in 0..Length(s)-1,
         script # <<>>, script[1] = SectionItems(s)[i+1], script[1].k = "dmarx",
         NEW p, NEW j, NEW t \in Nat, Wire(s, Issued(s, i), Pushed(s, i), p, j, t),
         DmaReads(s, i, t), t > 0 => Launches(s, i) = 1
  PROVE  /\ Wire(s, Issued(s, i+1), Pushed(s, i+1), p, j, t)' /\ t = 0 /\ DmaReads(s, i+1, t)'
         /\ script' = Tail(script) /\ UNCHANGED <<chipVars, rx, call, up, pre, res, reg>> /\ Sane'
<1>1. Row(s, i)
  BY Table
<1>2. Head(script) = script[1]
  BY ScriptHead
<1>3. i \in Nat /\ i + 1 \in Nat
  BY LengthType
<1>4. UNCHANGED <<chipVars, call, pre, up, res>>
  BY <1>2, ProceedFrame
<1>5. Issued(s, i) \in Nat /\ Pushed(s, i) \in Nat
  <2>1. Issued(s, i) \in 0..Len(Segs(s)) /\ Pushed(s, i) \in 0..3+N(s) /\ N(s) \in Nat
    BY <1>3, Counts, LengthType
  <2> QED BY <2>1
<1>6. /\ Pushed(s, i+1) = Pushed(s, i) /\ Issued(s, i+1) = Issued(s, i)
      /\ s.kind \in ReadKinds /\ script[1] = Launch(s) /\ Launches(s, i) = 0
      /\ Launches(s, i+1) = 1 /\ s.via # "cpu"
  BY <1>1, <1>5 DEF Row
<1>7. t = 0
  BY <1>6
<1>8. DmaLaunchRead
  BY <1>2, HeadsA
<1>9. s.n % W = 0 /\ s.n \in Nat \ {0} /\ s.n \div W \in Nat \ {0}
  <2>1. s.n % W = 0 /\ s.n \in Nat \ {0} /\ W \in Nat \ {0}
    BY <1>6, Geometry DEF Proper
  <2>2. s.n = W * (s.n \div W) + (s.n % W) /\ s.n \div W \in Nat
    BY <2>1, Divide
  <2>3. W * 0 = 0
    BY <2>1
  <2>4. s.n \div W # 0
    <3> SUFFICES ASSUME s.n \div W = 0 PROVE FALSE
      OBVIOUS
    <3>1. s.n = W * 0 + 0
      BY <2>1, <2>2
    <3> QED BY <2>1, <2>3, <3>1
  <2> QED BY <2>1, <2>2, <2>4
<1>10. script[1].n = s.n \div W
  BY <1>6 DEF Launch
<1>11. critical' = {}
  BY <1>2, <1>8, <1>9, <1>10 DEF DmaLaunchRead, Now, Sane
<1>12. dma' = [dir |-> "rx", off |-> 0, left |-> s.n \div W]
  BY <1>2, <1>8, <1>10, <1>11 DEF DmaLaunchRead, Now
<1>13. script' = Tail(script) /\ UNCHANGED <<cmds, tx, rx, reg>>
  BY <1>8 DEF DmaLaunchRead, Advance, hostVars, drvVars
<1>14. Wire(s, Issued(s, i+1), Pushed(s, i+1), p, j, t)'
  BY <1>6, <1>13 DEF Wire, CmdQueue, TxFifo, RxFifo
<1>15. DmaReads(s, i+1, t)'
  BY <1>6, <1>7, <1>9, <1>12 DEF DmaReads
<1>16. Sane'
  <2>1. ~(Len(cmds') > CmdDepth)
    BY <1>13, GoKind, CommandsFit
  <2> QED BY <1>4, <1>11, <2>1, SaneStays
<1> QED BY <1>4, <1>7, <1>13, <1>14, <1>15, <1>16

(* An access inside a section leads to the next one. *)
LEMMA TrackNext ==
  ASSUME FlashTypes, Sane, Proceed, NEW s \in Sections, Proper(s), NEW p \in 0..5, NEW j \in Nat,
         Stage(s, p, j), NEW i \in 0..16, OnTrack(s, i, p, j),
         NEW a, a = SectionItems(s)[i+1], a.k \in Plain \/ a.k = "dmarx", i + 1 < Length(s)
  PROVE  FlashInv'
<1>1. i \in 0..Length(s)-1 /\ Length(s) \in 5..17
  BY LengthType
<1>0. script # <<>>
  <2> SUFFICES ASSUME script = <<>> PROVE FALSE
    OBVIOUS
  <2>1. Len(script) >= 0 + Length(s) - i
    BY DEF OnTrack, Ahead, Length
  <2>2. Len(script) = 0
    OBVIOUS
  <2>3. Length(s) \in Nat /\ i \in Nat
    BY <1>1
  <2>4. \A l, m, x \in Nat : l >= 0 + m - x /\ x + 1 < m => l > 0
    OBVIOUS
  <2> QED BY <2>1, <2>2, <2>3, <2>4
<1>2. /\ script[1] = SectionItems(s)[i+1] /\ Len(script) >= Length(s) - i
      /\ script[2] = SectionItems(s)[i+2]
      /\ script' = Tail(script) => Ahead(s, i+1, 0)'
  <2>1. Ahead(s, i, 0)
    BY DEF OnTrack
  <2>2. /\ script[1] = SectionItems(s)[i+1] /\ Len(script) >= Length(s) - i
        /\ script[2] = SectionItems(s)[i+2]
    <3>0. script \in Seq(Items(call)) /\ Len(script) \in Nat
      BY <1>0, ScriptHead
    <3>1. Len(script) >= 0 + Length(s) - i
      BY <2>1 DEF Ahead, Length
    <3>2. Len(script) >= Length(s) - i
      BY <1>1, <3>0, <3>1
    <3>3. ASSUME NEW k \in 1..2 PROVE script[k] = SectionItems(s)[i+k]
      <4>1. k \in 1..Length(s)-i /\ 0 + k = k
        BY <1>1
      <4>2. \A m \in 1..Length(s)-i : script[0+m] = SectionItems(s)[i+m]
        BY <2>1 DEF Ahead, Length
      <4>3. script[0+k] = SectionItems(s)[i+k]
        BY <4>1, <4>2
      <4> QED BY <4>1, <4>3
    <3>4. 1 \in 1..2 /\ 2 \in 1..2
      OBVIOUS
    <3> QED BY <3>2, <3>3, <3>4
  <2>3. script' = Tail(script) => Ahead(s, i+1, 0)'
    BY <1>0, <1>1, <2>1, AheadNext
  <2> QED BY <2>2, <2>3
<1>3. PICK t \in Nat : /\ Wire(s, Issued(s, i), Pushed(s, i), p, j, t)
                       /\ IF s.kind \in ReadKinds THEN DmaReads(s, i, t) /\ (t > 0 => Launches(s, i) = 1)
                          ELSE dma = NoDma /\ t = 0
  BY DEF OnTrack
<1>4. Row(s, i)
  BY <1>1, Table
<1>5. script' = Tail(script) /\ UNCHANGED <<call, up, job>> => Continues(s, p, Length(s) - (i + 1))'
  <2>1. Length(s) - i \in Nat \ {0} /\ (Length(s) - i) - 1 = Length(s) - (i + 1)
    BY <1>1
  <2>2. Continues(s, p, Length(s) - i)
    BY DEF OnTrack, Length
  <2> QED BY <1>0, <1>1, <2>1, <2>2, ContinuesNext
<1>6. SUFFICES ASSUME NEW t2 \in Nat,
                      Wire(s, Issued(s, i+1), Pushed(s, i+1), p, j, t2)',
                      IF s.kind \in ReadKinds THEN DmaReads(s, i+1, t2)' /\ (t2 > 0 => Launches(s, i+1) = 1)
                      ELSE dma' = NoDma /\ t2 = 0
               PROVE  script' = Tail(script) /\ UNCHANGED <<chipVars, rx, call, up>> /\ Sane' => FlashInv'
  <2>1. CASE a.k \in Plain
    <3>0. script \in Seq(Items(call)) /\ Len(script) \in Nat
      BY <1>0, ScriptHead
    <3>1. script[1].k = "cmd" => Len(script) > 1 /\ script[2] = Go
      <4>1. a.k = "cmd" => SectionItems(s)[i+2] = Go
        BY <1>4 DEF Row
      <4>2. Len(script) > 1
        <5>1. Len(script) >= Length(s) - i
          BY <1>2
        <5>2. Len(script) \in Nat
          BY <3>0
        <5>3. Length(s) \in Nat /\ i \in Nat
          BY <1>1
        <5>4. \A l, m, x \in Nat : l >= m - x /\ x + 1 < m => l > 1
          OBVIOUS
        <5> QED BY <5>1, <5>2, <5>3, <5>4
      <4>3. script[1] = a /\ script[2] = SectionItems(s)[i+2]
        BY <1>2
      <4> QED BY <4>1, <4>2, <4>3
    <3>2. /\ Wire(s, Issued(s, i+1), Pushed(s, i+1), p, j, t)' /\ Launches(s, i+1) = Launches(s, i)
          /\ script' = Tail(script) /\ UNCHANGED <<chipVars, rx, dma, call, up, pre, res, reg>> /\ Sane'
      BY <1>0, <1>1, <1>2, <1>3, <2>1, <3>1, AccessStep
    <3>3. IF s.kind \in ReadKinds THEN DmaReads(s, i+1, t)' /\ (t > 0 => Launches(s, i+1) = 1)
          ELSE dma' = NoDma /\ t = 0
      BY <1>3, <3>2 DEF DmaReads
    <3> QED BY <1>6, <3>2, <3>3
  <2>2. CASE a.k = "dmarx"
    <3>1. s.kind \in ReadKinds
      BY <1>4, <2>2 DEF Row
    <3>2. /\ Wire(s, Issued(s, i+1), Pushed(s, i+1), p, j, t)' /\ t = 0 /\ DmaReads(s, i+1, t)'
          /\ script' = Tail(script) /\ UNCHANGED <<chipVars, rx, call, up, pre, res, reg>> /\ Sane'
      BY <1>0, <1>1, <1>2, <1>3, <2>2, <3>1, LaunchStep
    <3> QED BY <1>6, <3>1, <3>2
  <2> QED BY <2>1, <2>2
<1>7. SUFFICES ASSUME script' = Tail(script), UNCHANGED <<chipVars, rx, call, up>>, Sane' PROVE Flow'
  BY DEF FlashInv
<1>8. Stage(s, p, j)'
  BY <1>7, StageStays
<1>9. OnTrack(s, i+1, p, j)'
  <2>1. Continues(s, p, Length(s) - (i + 1))'
    BY <1>5, <1>7 DEF chipVars
  <2>2. s.kind \in ReadKinds => ~Asynchronous(s)
    BY DEF OnTrack
  <2> QED BY <1>2, <1>6, <1>7, <2>1, <2>2 DEF OnTrack, Length
<1>10. i + 1 \in 0..16
  BY <1>1
<1>11. Tracked(s, p, j)'
  BY <1>9, <1>10 DEF Tracked
<1> QED BY <1>7, <1>8, <1>11, Lands

(***************************************************************************)
(* The end of a section.                                                   *)
(***************************************************************************)
LEMMA NoneLeft ==
  ASSUME NEW S, NEW q \in Seq(S), Len(q) = 0
  PROVE  q = <<>>
  OBVIOUS

(* Whole words are counted by division. *)
LEMMA CeilExact ==
  ASSUME NEW n \in Nat, n % W = 0
  PROVE  Ceil(n) = n \div W /\ n \div W \in Nat
<1> DEFINE q == n \div W
<1>1. W \in Nat \ {0}
  BY Geometry
<1>2. q \in Nat /\ n = W * q
  BY <1>1, Divide
<1> HIDE DEF q
<1>3. (n + W - 1) \div W = q
  <2>1. n + W - 1 = W * q + (W - 1) /\ W - 1 \in 0..W-1
    BY <1>1, <1>2
  <2>2. \A w \in Nat \ {0}, x \in Nat, r \in Nat : r < w => (w * x + r) \div w = x
    BY SMT
  <2>3. (W * q + (W - 1)) \div W = q
    BY <1>1, <1>2, <2>1, <2>2
  <2> QED BY <2>1, <2>3
<1> QED BY <1>2, <1>3 DEF Ceil, q

(* A status has arrived: the whole exchange is over and its only word      *)
(* waits in the receive FIFO.                                              *)
LEMMA PairsEnd ==
  ASSUME FlashTypes, NEW s \in Sections, Proper(s), s.kind \in Pairs \cup Writes, NEW p, NEW j,
         Wire(s, Len(Segs(s)), Taken(s, Len(Segs(s)), 0), p, j, 0), rx # <<>>
  PROVE  p = Len(Segs(s)) /\ j = 0 /\ cmds = <<>> /\ tx = <<>> /\ Len(rx) = 1
<1>1. cmds \in Seq(Segments) /\ tx \in Seq(TxWords) /\ rx \in Seq(RxWords) /\ Len(rx) \in Nat /\ Len(rx) # 0
  BY NoneLeft DEF FlashTypes, HostTypes
<1>2. Len(Segs(s)) \in Nat /\ p \in Nat /\ j \in Nat /\ p <= Len(Segs(s))
  <2>1. Len(Segs(s)) \in 2..5
    BY LengthType
  <2> QED BY <2>1, WireTypes
<1>3. p = Len(Segs(s)) /\ Len(rx) = 1
  <2>1. RxFifo(Got(s, p, j), 0)
    BY DEF Wire
  <2>2. s.kind \notin ReadKinds
    BY DEF Pairs, Writes, ReadKinds
  <2>3. Got(s, p, j) = IF p = Len(Segs(s)) THEN 1 ELSE 0
    BY <2>2 DEF Got
  <2>4. Len(rx) = Got(s, p, j) - 0
    BY <2>1 DEF RxFifo
  <2> QED BY <1>1, <2>3, <2>4
<1>4. j = 0
  BY <1>2, <1>3 DEF Wire, Place
<1>5. Len(cmds) = 0
  BY <1>2, <1>3 DEF Wire, CmdQueue
<1>6. Len(tx) = 0
  <2>1. Taken(s, Len(Segs(s)), 0) \in Nat
    <3>1. Taken(s, p, j) \in Nat
      BY <1>2, WireTypes
    <3> QED BY <1>3, <1>4, <3>1
  <2>2. TxFifo(s, Taken(s, Len(Segs(s)), 0), Taken(s, Len(Segs(s)), 0))
    BY <1>3, <1>4 DEF Wire
  <2> QED BY <2>1, <2>2 DEF TxFifo
<1> QED BY <1>1, <1>3, <1>4, <1>5, <1>6, NoneLeft

(* A read receives no more words than the section asks for, and all of     *)
(* them only at its end.                                                   *)
LEMMA GotBound ==
  ASSUME NEW s \in Sections, s.kind \in ReadKinds, s.n > 0, NEW p, NEW j, NEW Q, NEW U, NEW t, Wire(s, Q, U, p, j, t),
         Q \in 0..Len(Segs(s))
  PROVE  /\ Got(s, p, j) <= N(s) /\ N(s) \in Nat /\ Got(s, p, j) \in Nat
         /\ Got(s, p, j) = N(s) => p = Len(Segs(s))
<1>1. s.n \in Nat \ {0} /\ N(s) \in Nat /\ Len(Segs(s)) \in 2..5
  BY LengthType DEF Sections
<1>2. p \in Nat /\ j \in Nat /\ p <= Q
  BY WireTypes
<1>3. Segs(s)[Len(Segs(s))].len = s.n
  BY DEF Segs, ReadKinds, Pairs, Writes, Seg
<1>4. j * W < s.n /\ p = Len(Segs(s)) - 1 => j < N(s)
  <2>1. j * W < s.n => j < Ceil(s.n)
    BY <1>1, <1>2, CeilLast
  <2> QED BY <2>1 DEF N
<1>5. 0 < N(s)
  <2>1. 0 * W = 0
    BY Geometry
  <2>2. 0 < Ceil(s.n)
    BY <1>1, <2>1, CeilLast
  <2> QED BY <2>2 DEF N
<1>6. j > 0 => j * W < s.n /\ p = Len(Segs(s)) - 1
  <2>1. j > 0 => j * W < Segs(s)[p+1].len /\ p = Len(Segs(s)) - 1
    BY DEF Wire, Place, ReadKinds, Writes
  <2>2. p = Len(Segs(s)) - 1 => p + 1 = Len(Segs(s))
    BY <1>1, <1>2
  <2> QED BY <1>3, <2>1, <2>2
<1>7. Got(s, p, j) = IF p = Len(Segs(s)) THEN N(s) ELSE IF p = Len(Segs(s)) - 1 THEN j ELSE 0
  BY DEF Got
<1> QED BY <1>1, <1>2, <1>4, <1>5, <1>6, <1>7

(* All words of a read are taken: nothing is left in host or FIFOs. *)
LEMMA ReadsEnd ==
  ASSUME FlashTypes, NEW s \in Sections, s.kind \in ReadKinds, s.n > 0, NEW p, NEW j, NEW t \in Nat, t >= N(s),
         Wire(s, Len(Segs(s)), Taken(s, Len(Segs(s)), 0), p, j, t)
  PROVE  p = Len(Segs(s)) /\ cmds = <<>> /\ tx = <<>> /\ rx = <<>>
<1>1. cmds \in Seq(Segments) /\ tx \in Seq(TxWords) /\ rx \in Seq(RxWords) /\ Len(rx) \in Nat
  BY DEF FlashTypes, HostTypes
<1>2. Len(Segs(s)) \in Nat /\ p \in Nat /\ j \in Nat /\ p <= Len(Segs(s)) /\ Len(Segs(s)) \in 0..Len(Segs(s))
  <2>1. Len(Segs(s)) \in 2..5
    BY LengthType
  <2> QED BY <2>1, WireTypes
<1>3. /\ Got(s, p, j) <= N(s) /\ N(s) \in Nat /\ Got(s, p, j) \in Nat
      /\ Got(s, p, j) = N(s) => p = Len(Segs(s))
  BY <1>2, GotBound
<1>4. t <= Got(s, p, j) /\ Len(rx) = Got(s, p, j) - t
  BY DEF Wire, RxFifo
<1>5. p = Len(Segs(s)) /\ Len(rx) = 0
  BY <1>3, <1>4
<1>6. j = 0
  BY <1>2, <1>5 DEF Wire, Place
<1>7. Len(cmds) = 0
  BY <1>2, <1>5 DEF Wire, CmdQueue
<1>8. Len(tx) = 0
  <2>1. Taken(s, Len(Segs(s)), 0) \in Nat
    <3>1. Taken(s, p, j) \in Nat
      BY <1>2, WireTypes
    <3> QED BY <1>5, <1>6, <3>1
  <2>2. TxFifo(s, Taken(s, Len(Segs(s)), 0), Taken(s, Len(Segs(s)), 0))
    BY <1>5, <1>6 DEF Wire
  <2> QED BY <2>1, <2>2 DEF TxFifo
<1> QED BY <1>1, <1>5, <1>7, <1>8, NoneLeft

(* A section starts with nothing on its way. *)
LEMMA EmptyWire ==
  ASSUME NEW s, NEW p \in Nat, NEW U \in Nat, Taken(s, p, 0) = U, Got(s, p, 0) = 0,
         cmds' = <<>>, tx' = <<>>, rx' = <<>>
  PROVE  Wire(s, p, U, p, 0, 0)'
<1>1. Place(s, p, p, 0)
  BY DEF Place
<1>2. CmdQueue(s, p, p, 0)'
  BY DEF CmdQueue
<1>3. TxFifo(s, U, Taken(s, p, 0))'
  BY DEF TxFifo
<1>4. RxFifo(Got(s, p, 0), 0)'
  BY DEF RxFifo
<1> QED BY <1>1, <1>2, <1>3, <1>4 DEF Wire

(* The only word of the receive FIFO is read. *)
LEMMA TailOne ==
  ASSUME FlashTypes, Len(rx) = 1
  PROVE  Tail(rx) = <<>> /\ Head(rx) = rx[1] /\ rx # <<>>
<1>1. rx \in Seq(RxWords)
  BY DEF FlashTypes, HostTypes
<1>2. rx # <<>>
  <2>1. Len(<<>>) = 0
    OBVIOUS
  <2> QED BY <2>1
<1>3. Head(rx) = rx[1]
  BY <1>1, <1>2
<1>4. Tail(rx) \in Seq(RxWords) /\ Len(Tail(rx)) = Len(rx) - 1
  BY <1>1, <1>2, TailType
<1>5. Len(Tail(rx)) = 0
  BY <1>4
<1> QED BY <1>2, <1>3, <1>4, <1>5, NoneLeft

(* The elements of a concatenation. *)
LEMMA JoinAt ==
  ASSUME NEW S, NEW a \in Seq(S), NEW b \in Seq(S)
  PROVE  /\ Len(a \o b) = Len(a) + Len(b) /\ Len(a) \in Nat /\ Len(b) \in Nat
         /\ \A k \in 1..Len(a) : (a \o b)[k] = a[k]
         /\ \A k \in 1..Len(b) : (a \o b)[Len(a) + k] = b[k]
  OBVIOUS

ResetSection ==
  [kind |-> "reset", op |-> "RESET", addr |-> 0, off |-> 0, n |-> 0, via |-> "cpu", fn |-> "none"]
WakeSection ==
  [kind |-> "wake", op |-> "RPD", addr |-> 0, off |-> 0, n |-> 0, via |-> "cpu", fn |-> "none"]

(* The sections without parameters are sections. *)
LEMMA FixedSections ==
  /\ ResetSection \in Sections /\ WakeSection \in Sections /\ EnableSection \in Sections
  /\ Proper(ResetSection) /\ Proper(WakeSection) /\ Proper(EnableSection)
  /\ Proper(ResetSection)' /\ Proper(WakeSection)' /\ Proper(EnableSection)'
<1>1. 0 \in Cells /\ 0 \in Nat /\ 1 \in Nat
  BY Small
<1>2. ResetSection \in Sections /\ WakeSection \in Sections /\ EnableSection \in Sections
  BY <1>1 DEF Sections, ResetSection, WakeSection, EnableSection, Pairs, Writes, ReadKinds
<1>3. Proper(ResetSection) /\ Proper(WakeSection) /\ Proper(EnableSection)
  BY DEF Proper, ResetSection, WakeSection, EnableSection, ReadKinds
<1>4. Proper(ResetSection)' /\ Proper(WakeSection)' /\ Proper(EnableSection)'
  BY DEF Proper, ResetSection, WakeSection, EnableSection, ReadKinds
<1> QED BY <1>2, <1>3, <1>4

(* A section is entered with nothing on its way. *)
LEMMA Enter ==
  ASSUME NEW s \in Sections, Proper(s)', NEW i \in 0..16, NEW p \in 0..5, i < Length(s),
         Ahead(s, i, 0)', Continues(s, p, Length(s) - i)', Stage(s, p, 0)',
         Issued(s, i) = p, Pushed(s, i) = Taken(s, p, 0), Got(s, p, 0) = 0, Launches(s, i) = 0,
         cmds' = <<>>, tx' = <<>>, rx' = <<>>, dma' = NoDma, call'.fn # "async",
         s.kind \in ReadKinds => ~Asynchronous(s)
  PROVE  Flow'
<1>1. i \in Nat /\ p \in Nat
  OBVIOUS
<1>2. Pushed(s, i) \in Nat
  <2>1. Pushed(s, i) \in 0..3+N(s) /\ N(s) \in Nat
    BY <1>1, Counts, LengthType
  <2> QED BY <2>1
<1>3. Wire(s, p, Pushed(s, i), p, 0, 0)'
  BY <1>1, <1>2, EmptyWire
<1>4. DmaReads(s, i, 0)'
  BY DEF DmaReads
<1>5. Wire(s, Issued(s, i), Pushed(s, i), p, 0, 0)'
  BY <1>3
<1>6. OnTrack(s, i, p, 0)'
  <2>1. 0 \in Nat /\ ~(0 > 0)
    OBVIOUS
  <2> QED BY <1>4, <1>5, <2>1 DEF OnTrack, Length
<1>7. Tracked(s, p, 0)'
  BY <1>6 DEF Tracked
<1>8. 0 \in Nat
  OBVIOUS
<1> QED BY <1>7, <1>8 DEF Flow, Tracked

(* The accesses of a new section in front of what is left. *)
LEMMA Follows ==
  ASSUME NEW S, NEW a \in Seq(S), NEW b \in Seq(S), script' = a \o b
  PROVE  /\ \A s : \A i \in Nat : Length(s) \in Nat /\ Len(a) = Length(s) - i
                                /\ (\A k \in 1..Len(a) : a[k] = SectionItems(s)[i+k])
                              => Ahead(s, i, 0)'
         /\ (\A k \in 1..Len(b) : Legit(b[k])') => LegitFrom(Len(a) + 1)'
         /\ \A tail : Len(tail) = Len(b) /\ (\A k \in 1..Len(b) : tail[k] = b[k]) => Behind(Len(a), tail)'
         /\ \A x : b # <<>> /\ b[1] = x => script'[Len(a) + 1] = x /\ Len(script') > Len(a)
         /\ (\A k \in 2..Len(b) : Legit(b[k])') => LegitFrom(Len(a) + 2)'
<1>1. /\ Len(script') = Len(a) + Len(b) /\ Len(a) \in Nat /\ Len(b) \in Nat
      /\ \A k \in 1..Len(a) : script'[k] = a[k]
      /\ \A k \in 1..Len(b) : script'[Len(a) + k] = b[k]
  BY JoinAt
<1>2. ASSUME NEW s, NEW i \in Nat, Length(s) \in Nat, Len(a) = Length(s) - i,
             \A k \in 1..Len(a) : a[k] = SectionItems(s)[i+k]
      PROVE  Ahead(s, i, 0)'
  <2>1. Len(script') >= 0 + Len(SectionItems(s)) - i
    BY <1>1, <1>2 DEF Length
  <2>2. \A k \in 1..Len(SectionItems(s))-i : script'[0+k] = SectionItems(s)[i+k]
    <3> SUFFICES ASSUME NEW k \in 1..Len(SectionItems(s))-i PROVE script'[0+k] = SectionItems(s)[i+k]
      OBVIOUS
    <3>1. k \in 1..Len(a) /\ 0 + k = k
      BY <1>2 DEF Length
    <3>2. script'[k] = a[k] /\ a[k] = SectionItems(s)[i+k]
      BY <1>1, <1>2, <3>1
    <3> QED BY <3>1, <3>2
  <2> QED BY <2>1, <2>2 DEF Ahead
<1>3. ASSUME NEW e \in 1..2, \A k \in e..Len(b) : Legit(b[k])'
      PROVE  LegitFrom(Len(a) + e)'
  <2> SUFFICES ASSUME NEW k \in Len(a)+e..Len(script') PROVE Legit(script[k])'
    BY DEF LegitFrom
  <2>1. k - Len(a) \in e..Len(b) /\ k - Len(a) \in 1..Len(b) /\ Len(a) + (k - Len(a)) = k
    BY <1>1
  <2>2. script'[k] = b[k - Len(a)]
    BY <1>1, <2>1
  <2>3. Legit(b[k - Len(a)])'
    BY <1>3, <2>1
  <2> QED BY <2>2, <2>3
<1>4. ASSUME NEW tail, Len(tail) = Len(b), \A k \in 1..Len(b) : tail[k] = b[k]
      PROVE  Behind(Len(a), tail)'
  BY <1>1, <1>4 DEF Behind
<1>5. ASSUME NEW x, b # <<>>, b[1] = x PROVE script'[Len(a) + 1] = x /\ Len(script') > Len(a)
  <2>1. Len(b) # 0
    BY <1>5, NoneLeft
  <2>2. 1 \in 1..Len(b)
    BY <1>1, <2>1
  <2>3. script'[Len(a) + 1] = x
    BY <1>1, <1>5, <2>2
  <2> QED BY <1>1, <2>1, <2>3
<1>6. (\A k \in 1..Len(b) : Legit(b[k])') => LegitFrom(Len(a) + 1)'
  BY <1>3
<1>7. (\A k \in 2..Len(b) : Legit(b[k])') => LegitFrom(Len(a) + 2)'
  BY <1>3
<1> QED BY <1>2, <1>4, <1>5, <1>6, <1>7

(* Where the accesses of a joined script are. *)
Cat(a, b) == a \o b
Sized(a, c, m) == a \in Seq(Items(c)) /\ Len(a) = m

(* Two pieces of a script in a row. *)
LEMMA Joined ==
  ASSUME NEW c, NEW a, NEW b, NEW m \in Nat, NEW n \in Nat, Sized(a, c, m), Sized(b, c, n)
  PROVE  /\ Sized(Cat(a, b), c, m + n)
         /\ \A k \in 1..m : Cat(a, b)[k] = a[k]
         /\ \A k \in 1..n : Cat(a, b)[m + k] = b[k]
  BY DEF Cat, Sized

(* A piece of one access. *)
LEMMA One ==
  ASSUME NEW c, NEW x \in Items(c)
  PROVE  Sized(<< x >>, c, 1) /\ << x >>[1] = x
  BY DEF Sized

(* A piece of two accesses. *)
LEMMA Two ==
  ASSUME NEW c, NEW x \in Items(c), NEW y \in Items(c)
  PROVE  Sized(<< x, y >>, c, 2) /\ << x, y >>[1] = x /\ << x, y >>[2] = y
  BY DEF Sized

(* The accesses that issue a segment. *)
LEMMA SegmentItems ==
  ASSUME NEW c, NEW dir \in {"TX", "RX", "DUMMY"}, NEW n \in 1..Size, NEW cs \in BOOLEAN
  PROVE  /\ Sized(Segment(dir, n, cs), c, 2)
         /\ Segment(dir, n, cs)[1] = [k |-> "cmd", dir |-> dir, len |-> n, csaat |-> cs]
         /\ Segment(dir, n, cs)[2] = Go
<1>1. n # 0
  BY Geometry
<1> DEFINE x == [k |-> "cmd", dir |-> dir, len |-> n, csaat |-> cs]
<1>2. Segment(dir, n, cs) = << x, Go >>
  BY <1>1 DEF Segment, Go
<1>3. x \in Items(c) /\ Go \in Items(c)
  <2>1. x \in Items(c)
    BY DEF Items
  <2>2. Go \in Items(c)
    BY StepType DEF Marks, Go
  <2> QED BY <2>1, <2>2
<1> HIDE DEF x
<1>4. Sized(<< x, Go >>, c, 2) /\ << x, Go >>[1] = x /\ << x, Go >>[2] = Go
  BY <1>3, Two
<1> QED BY <1>2, <1>4 DEF x

(* The accesses that send a command. *)
LEMMA SendItems ==
  ASSUME NEW c, NEW op \in Opcodes, NEW addr \in Cells, NEW n \in 1..Size, NEW cs \in BOOLEAN
  PROVE  /\ Sized(Send(op, addr, n, cs), c, 3)
         /\ Send(op, addr, n, cs)[1] = Command(op, addr)
         /\ Send(op, addr, n, cs)[2] = [k |-> "cmd", dir |-> "TX", len |-> n, csaat |-> cs]
         /\ Send(op, addr, n, cs)[3] = Go
<1> DEFINE a == << Command(op, addr) >>
           b == Segment("TX", n, cs)
<1>1. Sized(a, c, 1) /\ a[1] = Command(op, addr)
  <2>1. Command(op, addr) \in Items(c)
    BY DEF Command, Items
  <2> QED BY <2>1, One
<1>2. Sized(b, c, 2) /\ b[1] = [k |-> "cmd", dir |-> "TX", len |-> n, csaat |-> cs]
      /\ b[2] = Go
  BY SegmentItems
<1>3. Send(op, addr, n, cs) = Cat(a, b)
  BY DEF Send, Cat
<1> HIDE DEF a, b
<1>4. Sized(Cat(a, b), c, 3) /\ Cat(a, b)[1] = a[1] /\ Cat(a, b)[2] = b[1] /\ Cat(a, b)[3] = b[2]
  BY <1>1, <1>2, Joined
<1> QED BY <1>1, <1>2, <1>3, <1>4

(* The accesses that send a command, by their short names. *)
LEMMA ShortSend ==
  ASSUME NEW c, NEW op \in Opcodes, NEW addr \in Cells, NEW n \in 1..Size
  PROVE  /\ \A cs \in BOOLEAN : Sized(Send(op, addr, n, cs), c, 3)
         /\ \A cs \in BOOLEAN : Send(op, addr, n, cs)[1] = Command(op, addr) /\ Send(op, addr, n, cs)[3] = Go
         /\ Send(op, addr, n, TRUE)[2] = HeldItem("TX", n)
         /\ Send(op, addr, n, FALSE)[2] = Item("TX", n)
<1>1. TRUE \in BOOLEAN /\ FALSE \in BOOLEAN
  OBVIOUS
<1>2. Send(op, addr, n, TRUE)[2] = HeldItem("TX", n)
  BY <1>1, SendItems DEF HeldItem
<1>3. Send(op, addr, n, FALSE)[2] = Item("TX", n)
  BY <1>1, SendItems DEF Item
<1> QED BY <1>2, <1>3, SendItems

(* The accesses that issue a segment, by their short names. *)
LEMMA ShortSegment ==
  ASSUME NEW c, NEW dir \in {"TX", "RX", "DUMMY"}, NEW n \in 1..Size
  PROVE  /\ \A cs \in BOOLEAN : Sized(Segment(dir, n, cs), c, 2) /\ Segment(dir, n, cs)[2] = Go
         /\ Segment(dir, n, TRUE)[1] = HeldItem(dir, n)
         /\ Segment(dir, n, FALSE)[1] = Item(dir, n)
<1>1. TRUE \in BOOLEAN /\ FALSE \in BOOLEAN
  OBVIOUS
<1>2. Segment(dir, n, TRUE)[1] = HeldItem(dir, n)
  BY <1>1, SegmentItems DEF HeldItem
<1>3. Segment(dir, n, FALSE)[1] = Item(dir, n)
  BY <1>1, SegmentItems DEF Item
<1> QED BY <1>2, <1>3, SegmentItems

(* The accesses that read the status once. *)
LEMMA PollItems ==
  ASSUME NEW c
  PROVE  /\ Sized(Poll, c, 7)
         /\ Poll[1] = Command("RSR1", 0) /\ Poll[2] = HeldItem("TX", 1) /\ Poll[3] = Go
         /\ Poll[4] = Item("RX", 1) /\ Poll[5] = Go /\ Poll[6] = Step("rxwait", 0, 0)
         /\ Poll[7] = Step("poll", 0, 0)
<1> DEFINE a == Send("RSR1", 0, 1, TRUE)
           b == Segment("RX", 1, FALSE)
           d == << Step("rxwait", 0, 0), Step("poll", 0, 0) >>
<1>1. Sized(a, c, 3) /\ a[1] = Command("RSR1", 0) /\ a[2] = HeldItem("TX", 1) /\ a[3] = Go
  BY Small, ShortSend DEF Opcodes
<1>2. Sized(b, c, 2) /\ b[1] = Item("RX", 1) /\ b[2] = Go
  BY Small, ShortSegment
<1>3. Sized(d, c, 2) /\ d[1] = Step("rxwait", 0, 0) /\ d[2] = Step("poll", 0, 0)
  <2>1. Step("rxwait", 0, 0) \in Items(c) /\ Step("poll", 0, 0) \in Items(c)
    BY StepType DEF Marks
  <2> QED BY <2>1, Two
<1>4. Poll = Cat(Cat(a, b), d)
  BY DEF Poll, Cat
<1> HIDE DEF a, b, d
<1> DEFINE e == Cat(Cat(a, b), d)
<1>5. Sized(e, c, 7) /\ e[1] = a[1] /\ e[2] = a[2] /\ e[3] = a[3] /\ e[4] = b[1] /\ e[5] = b[2]
      /\ e[6] = d[1] /\ e[7] = d[2]
  BY <1>1, <1>2, <1>3, Joined
<1> HIDE DEF e
<1> QED BY <1>1, <1>2, <1>3, <1>4, <1>5 DEF e

(* The accesses of the chip's reset. *)
LEMMA ResetLength ==
  Length(ResetSection) = 15 /\ SectionItems(ResetSection) = ResetItems
<1>1. SectionItems(ResetSection) = ResetItems
  BY DEF SectionItems, ResetSection
<1> QED BY <1>1 DEF Length, ResetItems

(***************************************************************************)
(* The last access of a section.                                           *)
(***************************************************************************)
LEMMA TrackHead ==
  ASSUME FlashTypes, NEW s \in Sections, Proper(s), NEW p, NEW j, NEW i \in 0..16, OnTrack(s, i, p, j)
  PROVE  /\ script # <<>> /\ script[1] = SectionItems(s)[i+1] /\ Head(script) = SectionItems(s)[i+1]
         /\ i \in 0..Length(s)-1 /\ Row(s, i) /\ Length(s) \in 5..17
<1>1. i \in 0..Length(s)-1 /\ Length(s) \in 5..17
  BY LengthType DEF OnTrack, Length
<1>2. Len(script) >= 0 + Length(s) - i
  BY DEF OnTrack, Ahead, Length
<1>3. script # <<>>
  <2> SUFFICES ASSUME script = <<>> PROVE FALSE
    OBVIOUS
  <2>1. Len(script) = 0
    OBVIOUS
  <2> QED BY <1>1, <1>2, <2>1
<1>4. script[1] = SectionItems(s)[i+1]
  <2>1. 1 \in 1..Length(s)-i /\ 0 + 1 = 1
    BY <1>1
  <2>2. \A m \in 1..Length(s)-i : script[0+m] = SectionItems(s)[i+m]
    BY DEF OnTrack, Ahead, Length
  <2>3. script[0+1] = SectionItems(s)[i+1]
    BY <2>1, <2>2
  <2> QED BY <2>1, <2>3
<1>5. Head(script) = script[1]
  BY <1>3, ScriptHead
<1>6. Row(s, i)
  BY <1>1, Table
<1> QED BY <1>1, <1>3, <1>4, <1>5, <1>6

(* The status of the chip is read when nothing is on its way. *)
LEMMA StatusEnd ==
  ASSUME FlashTypes, Proceed, NEW s \in Sections, Proper(s), NEW p \in 0..5, NEW j \in Nat,
         Stage(s, p, j), NEW i \in 0..16, OnTrack(s, i, p, j),
         NEW a, a = SectionItems(s)[i+1], a.k \in {"poll", "rxreg"}
  PROVE  /\ script # <<>> /\ script[1] = a /\ Head(script) = a
         /\ i + 1 = Length(s) /\ Continues(s, p, 1) /\ call.fn # "async" /\ dma = NoDma
         /\ cmds = <<>> /\ tx = <<>> /\ Len(rx) = 1
         /\ frame = NoFrame /\ ~asleep /\ StatusRead(s) /\ p >= 2
         /\ a.k = "poll" => s.kind \in {"erase", "reset", "enable", "program"}
         /\ a.k = "rxreg" => s.kind = "wake"
<1>1. /\ script # <<>> /\ script[1] = a /\ Head(script) = a
      /\ i \in 0..Length(s)-1 /\ Row(s, i) /\ Length(s) \in 5..17
  BY TrackHead
<1>2. i + 1 = Length(s)
  BY <1>1 DEF Row
<1>3. /\ a.k = "poll" => s.kind \in {"erase", "reset", "enable", "program"}
      /\ a.k = "rxreg" => s.kind = "wake"
  BY <1>1 DEF Row, Pairs, Writes
<1>4. s.kind \in Pairs \cup Writes /\ s.kind \notin ReadKinds
  BY <1>3 DEF Pairs, Writes, ReadKinds
<1>5. i \in Nat
  OBVIOUS
<1>6. Issued(s, i) = Len(Segs(s)) /\ Pushed(s, i) = Taken(s, Len(Segs(s)), 0)
  <2>1. Issued(s, i) \in 0..Len(Segs(s)) /\ Pushed(s, i) \in 0..3+N(s) /\ N(s) \in Nat /\ Len(Segs(s)) \in 2..5
    BY <1>5, Counts, LengthType
  <2>2. Issued(s, i+1) = Issued(s, i) + 0 /\ Pushed(s, i+1) = Pushed(s, i) + 0
    BY <1>1 DEF Row
  <2>3. Issued(s, i+1) = Len(Segs(s)) /\ Pushed(s, i+1) = Taken(s, Len(Segs(s)), 0)
    BY <1>1, <1>2 DEF Row
  <2>4. \A x, y : y \in Nat /\ x = y + 0 => x = y
    OBVIOUS
  <2> QED BY <2>1, <2>2, <2>3, <2>4
<1>7. Wire(s, Len(Segs(s)), Taken(s, Len(Segs(s)), 0), p, j, 0) /\ dma = NoDma
  BY <1>4, <1>6 DEF OnTrack
<1>8. rx # <<>>
  <2>1. a.k = "poll" => PollRead
    BY <1>1, HeadsA
  <2>2. a.k = "rxreg" => ReadReg
    BY <1>1, HeadsA
  <2>3. PollRead \/ ReadReg
    BY <2>1, <2>2
  <2> QED BY <2>3 DEF PollRead, ReadReg
<1>9. p = Len(Segs(s)) /\ cmds = <<>> /\ tx = <<>> /\ Len(rx) = 1
  BY <1>4, <1>7, <1>8, PairsEnd
<1>10. Continues(s, p, 1)
  <2>1. Length(s) - i = 1
    BY <1>1, <1>2
  <2> QED BY <2>1 DEF OnTrack, Length
<1>11. frame = NoFrame /\ ~asleep /\ StatusRead(s) /\ p >= 2
  <2>1. CASE s.kind \in Pairs
    <3>1. p = 4
      BY <1>9, <2>1 DEF Segs
    <3>2. PairStage(s, p)
      BY <2>1 DEF Stage
    <3> QED BY <3>1, <3>2 DEF PairStage
  <2>2. CASE s.kind \in Writes
    <3>1. p = 5
      BY <1>9, <2>2 DEF Segs, Writes, Pairs
    <3>2. WriteStage(s, p, j)
      BY <2>2 DEF Stage
    <3> QED BY <3>1, <3>2 DEF WriteStage
  <2> QED BY <1>4, <2>1, <2>2
<1>12. call.fn # "async"
  BY DEF OnTrack
<1> QED BY <1>1, <1>2, <1>3, <1>7, <1>9, <1>10, <1>11, <1>12

(* What is left of the script after its head. *)
LEMMA Remains ==
  ASSUME FlashTypes, script # <<>>
  PROVE  \E b \in Seq(Items(call)) : /\ b = Tail(script) /\ Len(b) = Len(script) - 1 /\ Len(script) \in Nat
                                     /\ \A k \in 1..Len(b) : b[k] = script[k+1]
<1>1. /\ Len(script) \in Nat \ {0} /\ Len(Tail(script)) = Len(script) - 1
      /\ \A k \in 1..Len(script)-1 : Tail(script)[k] = script[k+1]
      /\ Tail(script) \in Seq(Items(call))
  BY ScriptHead
<1> QED BY <1>1

(* What is left behind the first access is legitimate still. *)
LEMMA RemainsLegit ==
  ASSUME UNCHANGED call, NEW d \in Nat, LegitFrom(d+1), NEW b, Len(b) = Len(script) - 1, Len(script) \in Nat,
         \A k \in 1..Len(b) : b[k] = script[k+1], d >= 1
  PROVE  \A k \in d..Len(b) : Legit(b[k]) /\ Legit(b[k])'
<1> SUFFICES ASSUME NEW k \in d..Len(b) PROVE Legit(b[k]) /\ Legit(b[k])'
  OBVIOUS
<1>1. k \in 1..Len(b) /\ k + 1 \in d+1..Len(script)
  OBVIOUS
<1>2. PICK x : x = b[k]
  OBVIOUS
<1>3. x = script[k+1]
  BY <1>1, <1>2
<1>4. Legit(x)
  BY <1>1, <1>3 DEF LegitFrom
<1>5. Legit(x)'
  BY <1>4, LegitStays
<1> QED BY <1>2, <1>4, <1>5

(* What is left behind the first access is the tail that was behind it. *)
LEMMA RemainsBehind ==
  ASSUME NEW tail, Behind(1, tail), NEW b, Len(b) = Len(script) - 1, Len(script) \in Nat, Len(tail) \in Nat,
         \A k \in 1..Len(b) : b[k] = script[k+1]
  PROVE  Len(tail) = Len(b) /\ \A k \in 1..Len(b) : tail[k] = b[k]
<1>1. Len(script) = 1 + Len(tail)
  BY DEF Behind
<1>2. Len(tail) = Len(b)
  BY <1>1
<1>3. ASSUME NEW k \in 1..Len(b) PROVE tail[k] = b[k]
  <2>1. k \in 1..Len(tail) /\ 1 + k = k + 1
    BY <1>2
  <2>2. script[1+k] = tail[k]
    BY <2>1 DEF Behind
  <2> QED BY <2>1, <2>2
<1> QED BY <1>2, <1>3

(* The chip is busy: its status is read again. *)
LEMMA PollAgain ==
  ASSUME FlashTypes, UNCHANGED <<chipVars, call, up, dma>>, NEW s \in Sections, NEW p \in 0..5,
         script # <<>>, Continues(s, p, 1), s.kind \in {"erase", "reset", "enable", "program"},
         cmds' = <<>>, tx' = <<>>, rx' = <<>>, dma = NoDma, frame = NoFrame, ~asleep, call.fn # "async",
         script' = Poll \o Tail(script)
  PROVE  Flow'
<1>1. PICK b \in Seq(Items(call)) : /\ b = Tail(script) /\ Len(b) = Len(script) - 1 /\ Len(script) \in Nat
                                     /\ \A k \in 1..Len(b) : b[k] = script[k+1]
  BY Remains
<1>2. PICK c : c = Poll
  OBVIOUS
<1>3. /\ c \in Seq(Items(call)) /\ Len(c) = 7
      /\ c[1] = Command("RSR1", 0) /\ c[2] = HeldItem("TX", 1) /\ c[3] = Go
      /\ c[4] = Item("RX", 1) /\ c[5] = Go /\ c[6] = Step("rxwait", 0, 0)
      /\ c[7] = Step("poll", 0, 0)
  BY <1>2, PollItems DEF Sized
<1>4. script' = c \o b
  BY <1>1, <1>2
<1>5. Ahead(ResetSection, 8, 0)'
  <2>1. \A k \in 1..7 : c[k] = ResetItems[8+k]
    BY <1>3 DEF ResetItems
  <2>2. Length(ResetSection) \in Nat /\ Len(c) = Length(ResetSection) - 8 /\ 8 \in Nat
    BY <1>3, ResetLength
  <2>3. \A k \in 1..Len(c) : c[k] = SectionItems(ResetSection)[8+k]
    BY <1>3, <2>1, ResetLength
  <2>4. c \in Seq(Items(call))
    BY <1>3
  <2>5. \A x : \A i \in Nat : Length(x) \in Nat /\ Len(c) = Length(x) - i
                           /\ (\A k \in 1..Len(c) : c[k] = SectionItems(x)[i+k])
                         => Ahead(x, i, 0)'
    BY <1>4, <2>4, Follows
  <2> QED BY <2>2, <2>3, <2>5
<1>6. Continues(ResetSection, 2, 7)'
  <2>1. CASE up /\ LegitFrom(2)
    <3>1. \A k \in 1..Len(b) : Legit(b[k])'
      <4>1. PICK d \in Nat : d = 1
        OBVIOUS
      <4>2. d + 1 = 2 /\ d >= 1
        BY <4>1
      <4>3. LegitFrom(d+1)
        BY <2>1, <4>2
      <4>4. \A k \in d..Len(b) : Legit(b[k]) /\ Legit(b[k])'
        BY <1>1, <4>2, <4>3, RemainsLegit
      <4> QED BY <4>1, <4>4
    <3>2. LegitFrom(Len(c) + 1)'
      BY <1>3, <1>4, <3>1, Follows
    <3>3. LegitFrom(7 + 1)'
      BY <1>3, <3>2
    <3>4. up'
      BY <2>1
    <3> QED BY <3>3, <3>4 DEF Continues, ResetSection
  <2>2. CASE Behind(1, CheckTail)
    <3>1. Len(CheckTail) = Len(b) /\ \A k \in 1..Len(b) : CheckTail[k] = b[k]
      <4>1. Len(CheckTail) \in Nat
        BY TailFacts
      <4> QED BY <1>1, <2>2, <4>1, RemainsBehind
    <3>2. Behind(Len(c), CheckTail)'
      BY <1>3, <1>4, <3>1, Follows
    <3>3. Behind(7, CheckTail)'
      BY <1>3, <3>2
    <3> QED BY <3>3 DEF Continues, ResetSection
  <2>3. (up /\ LegitFrom(2)) \/ Behind(1, CheckTail)
    <3>1. s.kind \notin ReadKinds /\ s.kind # "wake"
      BY DEF ReadKinds
    <3>2. (up /\ LegitFrom(1+1)) \/ Behind(1, CheckTail)
      BY <3>1 DEF Continues
    <3> QED BY <3>2
  <2> QED BY <2>1, <2>2, <2>3
<1>7. Stage(ResetSection, 2, 0)'
  BY DEF Stage, PairStage, ResetSection, Pairs, Writes, ReadKinds, chipVars
<1>8. /\ Issued(ResetSection, 8) = 2 /\ Pushed(ResetSection, 8) = Taken(ResetSection, 2, 0)
      /\ Got(ResetSection, 2, 0) = 0 /\ Launches(ResetSection, 8) = 0
  BY DEF Issued, Pushed, Taken, Got, Launches, ResetSection, Past, Pairs, ReadKinds, Segs, Lesser
<1>9. ResetSection \in Sections /\ Proper(ResetSection)' /\ ResetSection.kind \notin ReadKinds
  BY FixedSections DEF ResetSection, ReadKinds
<1>10. Continues(ResetSection, 2, Length(ResetSection) - 8)' /\ 8 < Length(ResetSection)
  BY <1>6, ResetLength
<1>11. 8 \in 0..16 /\ 2 \in 0..5 /\ call'.fn # "async" /\ dma' = NoDma
  OBVIOUS
<1> QED BY <1>5, <1>7, <1>8, <1>9, <1>10, <1>11, Enter

(* The accesses of the next section are next. *)
Splits(tail, s, i, m, rest) ==
  /\ Len(tail) \in Nat /\ Length(s) \in Nat /\ m = Length(s) - i /\ m <= Len(tail)
  /\ \A k \in 1..m : tail[k] = SectionItems(s)[i+k]
  /\ Len(rest) = Len(tail) - m /\ \A k \in 1..Len(rest) : rest[k] = tail[m+k]

(* The tail begins with a section: the driver is about to make its first   *)
(* access.                                                                 *)
LEMMA Starts ==
  ASSUME FlashTypes, script # <<>>, script' = Tail(script), NEW tail, Behind(1, tail),
         NEW s, NEW i \in Nat, NEW m \in Nat, NEW rest, Splits(tail, s, i, m, rest)
  PROVE  Ahead(s, i, 0)' /\ Behind(m, rest)'
<1>0. /\ Len(tail) \in Nat /\ Length(s) \in Nat /\ m = Length(s) - i /\ m <= Len(tail)
      /\ Len(rest) = Len(tail) - m
  BY DEF Splits
<1>1. Behind(0, tail)'
  <2>1. PICK d \in Nat \ {0} : d = 1
    OBVIOUS
  <2>2. Behind(d, tail)
    BY <2>1
  <2>3. Behind(d-1, tail)'
    BY <1>0, <2>2, BehindNext
  <2>4. d - 1 = 0
    BY <2>1
  <2> QED BY <2>3, <2>4
<1>2. Len(script') = Len(tail) /\ \A k \in 1..Len(tail) : script'[k] = tail[k]
  <2>1. Len(script') = Len(tail)
    <3>1. Len(script') = 0 + Len(tail)
      BY <1>1 DEF Behind
    <3> QED BY <1>0, <3>1
  <2>2. ASSUME NEW k \in 1..Len(tail) PROVE script'[k] = tail[k]
    <3>1. script'[0+k] = tail[k]
      BY <1>1 DEF Behind
    <3>2. 0 + k = k
      OBVIOUS
    <3> QED BY <3>1, <3>2
  <2> QED BY <2>1, <2>2
<1>3. Ahead(s, i, 0)'
  <2>1. Len(script') >= 0 + Length(s) - i
    <3>1. Len(script') = Len(tail)
      BY <1>2
    <3>2. \A l, m2, x \in Nat : m2 = l - x => \A y \in Nat : m2 <= y => y >= 0 + l - x
      OBVIOUS
    <3> QED BY <1>0, <3>1, <3>2
  <2>2. ASSUME NEW k \in 1..Length(s)-i PROVE script'[0+k] = SectionItems(s)[i+k]
    <3>1. k \in 1..m /\ k \in 1..Len(tail) /\ 0 + k = k
      BY <1>0
    <3>2. script'[k] = tail[k] /\ tail[k] = SectionItems(s)[i+k]
      BY <1>2, <3>1 DEF Splits
    <3> QED BY <3>1, <3>2
  <2> QED BY <2>1, <2>2 DEF Ahead, Length
<1>4. Behind(m, rest)'
  <2>1. Len(script') = m + Len(rest)
    <3>1. Len(script') = Len(tail)
      BY <1>2
    <3>2. \A l, x \in Nat : \A y : y = l - x => l = x + y
      OBVIOUS
    <3>3. Len(tail) = m + Len(rest)
      <4>1. PICK y, l : y = Len(rest) /\ l = Len(tail)
        OBVIOUS
      <4>2. l \in Nat /\ y = l - m
        BY <1>0, <4>1
      <4>3. l = m + y
        BY <3>2, <4>2
      <4> QED BY <4>1, <4>3
    <3> QED BY <3>1, <3>3
  <2>2. ASSUME NEW k \in 1..Len(rest) PROVE script'[m+k] = rest[k]
    <3>1. m + k \in 1..Len(tail)
      BY <1>0
    <3>2. script'[m+k] = tail[m+k] /\ rest[k] = tail[m+k]
      BY <1>2, <3>1 DEF Splits
    <3> QED BY <3>2
  <2> QED BY <2>1, <2>2 DEF Behind
<1> QED BY <1>3, <1>4

(* The accesses of the sections without parameters. *)
LEMMA FixedLengths ==
  /\ Length(WakeSection) = 14 /\ SectionItems(WakeSection) = WakeItems
  /\ Length(EnableSection) = 17 /\ SectionItems(EnableSection) = WriteItems(EnableSection)
<1>1. SectionItems(WakeSection) = WakeItems
  BY DEF SectionItems, WakeSection
<1>2. SectionItems(EnableSection) = WriteItems(EnableSection)
  BY DEF SectionItems, EnableSection, Writes
<1>3. Len(WakeItems) = 14
  BY DEF WakeItems
<1>4. Len(WriteItems(EnableSection)) = 17
  BY DEF WriteItems
<1> QED BY <1>1, <1>2, <1>3, <1>4 DEF Length

(* The quad enable bit is read back. *)
LEMMA CheckStarts ==
  ASSUME FlashTypes, UNCHANGED <<chipVars, call, up, dma>>, script # <<>>, script' = Tail(script),
         Behind(1, CheckTail), cmds' = <<>>, tx' = <<>>, rx' = <<>>, dma = NoDma, frame = NoFrame, ~asleep,
         job = NoJob, call.fn # "async"
  PROVE  Flow'
<1> DEFINE last == << Step("retqe", 0, 0) >>
<1>1. Len(CheckTail) = 8 /\ Len(last) = 1
  BY TailFacts
<1>2. Ahead(WakeSection, 7, 0)' /\ Behind(7, last)'
  <2>1. \A k \in 1..7 : CheckTail[k] = SectionItems(WakeSection)[7+k]
    BY FixedLengths DEF CheckTail
  <2>2. \A k \in 1..Len(last) : last[k] = CheckTail[7+k]
    BY <1>1 DEF CheckTail
  <2>3. Length(WakeSection) = 14
    BY FixedLengths
  <2>4. PICK i \in Nat : i = 7
    OBVIOUS
  <2>5. /\ Length(WakeSection) \in Nat /\ i = Length(WakeSection) - i /\ i <= Len(CheckTail)
        /\ Len(last) = Len(CheckTail) - i /\ Len(CheckTail) \in Nat
    BY <1>1, <2>3, <2>4
  <2>6. \A k \in 1..i : CheckTail[k] = SectionItems(WakeSection)[i+k]
    BY <2>1, <2>4
  <2>7. \A k \in 1..Len(last) : last[k] = CheckTail[i+k]
    BY <2>2, <2>4
  <2> HIDE DEF last
  <2>8. Ahead(WakeSection, i, 0)' /\ Behind(i, last)'
    <3>1. Splits(CheckTail, WakeSection, i, i, last)
      BY <2>5, <2>6, <2>7 DEF Splits
    <3> QED BY <3>1, Starts
  <2> QED BY <2>4, <2>8
<1>3. Continues(WakeSection, 2, 7)'
  <2>1. job' = NoJob
    BY DEF chipVars
  <2> QED BY <1>2, <2>1 DEF Continues, WakeSection
<1>4. Stage(WakeSection, 2, 0)'
  BY DEF Stage, PairStage, WakeSection, Pairs, Writes, ReadKinds, chipVars
<1>5. /\ Issued(WakeSection, 7) = 2 /\ Pushed(WakeSection, 7) = Taken(WakeSection, 2, 0)
      /\ Got(WakeSection, 2, 0) = 0 /\ Launches(WakeSection, 7) = 0
  BY DEF Issued, Pushed, Taken, Got, Launches, WakeSection, Past, Pairs, ReadKinds, Segs, Lesser
<1>6. WakeSection \in Sections /\ Proper(WakeSection)' /\ WakeSection.kind \notin ReadKinds
  BY FixedSections DEF WakeSection, ReadKinds
<1>7. Continues(WakeSection, 2, Length(WakeSection) - 7)' /\ 7 < Length(WakeSection)
  BY <1>3, FixedLengths
<1>8. 7 \in 0..16 /\ 2 \in 0..5 /\ call'.fn # "async" /\ dma' = NoDma
  OBVIOUS
<1> HIDE DEF last
<1> QED BY <1>2, <1>4, <1>5, <1>6, <1>7, <1>8, Enter

(* The quad enable bit is written. *)
LEMMA EnableStarts ==
  ASSUME FlashTypes, UNCHANGED <<chipVars, call, up, dma>>, script # <<>>, script' = Tail(script),
         Behind(1, EnableTail), cmds' = <<>>, tx' = <<>>, rx' = <<>>, dma = NoDma, frame = NoFrame, ~asleep,
         call.fn # "async"
  PROVE  Flow'
<1>1. Len(EnableTail) = 25 /\ Len(CheckTail) = 8
  BY TailFacts
<1>2. Ahead(EnableSection, 0, 0)' /\ Behind(17, CheckTail)'
  <2>1. \A k \in 1..17 : EnableTail[k] = SectionItems(EnableSection)[k]
    <3>1. SUFFICES ASSUME NEW k \in 1..17 PROVE EnableTail[k] = SectionItems(EnableSection)[k]
      OBVIOUS
    <3>2. k \in 1..25 /\ k <= 17
      OBVIOUS
    <3>3. EnableTail[k] = WriteItems(EnableSection)[k]
      BY <3>2 DEF EnableTail
    <3> QED BY <3>3, FixedLengths
  <2>2. \A k \in 1..Len(CheckTail) : CheckTail[k] = EnableTail[17+k]
    <3>1. SUFFICES ASSUME NEW k \in 1..8 PROVE CheckTail[k] = EnableTail[17+k]
      BY <1>1
    <3>2. 17 + k \in 1..25 /\ ~(17 + k <= 17) /\ (17 + k) - 17 = k
      OBVIOUS
    <3> QED BY <3>2 DEF EnableTail
  <2>3. Length(EnableSection) = 17
    BY FixedLengths
  <2>4. PICK i \in Nat, m \in Nat : i = 0 /\ m = 17
    OBVIOUS
  <2>5. /\ Length(EnableSection) \in Nat /\ m = Length(EnableSection) - i
        /\ m <= Len(EnableTail) /\ Len(CheckTail) = Len(EnableTail) - m /\ Len(EnableTail) \in Nat
    BY <1>1, <2>3, <2>4
  <2>6. \A k \in 1..m : EnableTail[k] = SectionItems(EnableSection)[i+k]
    <3>1. \A k \in 1..m : i + k = k
      BY <2>4
    <3> QED BY <2>1, <2>4, <3>1
  <2>7. \A k \in 1..Len(CheckTail) : CheckTail[k] = EnableTail[m+k]
    BY <2>2, <2>4
  <2>8. Ahead(EnableSection, i, 0)' /\ Behind(m, CheckTail)'
    <3>1. Splits(EnableTail, EnableSection, i, m, CheckTail)
      BY <2>5, <2>6, <2>7 DEF Splits
    <3> QED BY <3>1, Starts
  <2> QED BY <2>4, <2>8
<1>3. Continues(EnableSection, 0, 17)'
  BY <1>2 DEF Continues, EnableSection
<1>4. Stage(EnableSection, 0, 0)'
  BY DEF Stage, WriteStage, EnableSection, Pairs, Writes, ReadKinds, chipVars
<1>5. /\ Issued(EnableSection, 0) = 0 /\ Pushed(EnableSection, 0) = Taken(EnableSection, 0, 0)
      /\ Got(EnableSection, 0, 0) = 0 /\ Launches(EnableSection, 0) = 0
  BY DEF Issued, Pushed, Taken, Got, Launches, EnableSection, Past, Pairs, Writes, ReadKinds, Segs, Lesser
<1>6. EnableSection \in Sections /\ Proper(EnableSection)' /\ EnableSection.kind \notin ReadKinds
  BY FixedSections DEF EnableSection, ReadKinds
<1>7. Continues(EnableSection, 0, Length(EnableSection) - 0)' /\ 0 < Length(EnableSection)
  BY <1>3, FixedLengths
<1>8. 0 \in 0..16 /\ 0 \in 0..5 /\ call'.fn # "async" /\ dma' = NoDma
  OBVIOUS
<1> QED BY <1>2, <1>4, <1>5, <1>6, <1>7, <1>8, Enter

(* A call goes on with nothing on its way. *)
LEMMA Rests ==
  ASSUME UNCHANGED <<chipVars, call>>, cmds' = <<>>, tx' = <<>>, rx' = <<>>, dma' = NoDma, frame = NoFrame,
         job = NoJob, ~asleep, up', LegitFrom(1)', call.fn # "async"
  PROVE  Resting'
<1>1. Quiet'
  BY DEF Quiet, chipVars
<1>2. job' = NoJob /\ ~asleep'
  BY DEF chipVars
<1>3. call'.fn # "async"
  OBVIOUS
<1> QED BY <1>1, <1>2, <1>3 DEF Resting, Awaited

(* A step that leaves the command queue empty keeps Sane. *)
LEMMA SaneEmpty ==
  ASSUME FlashTypes, Sane, UNCHANGED <<chipVars, call, pre, critical>>, up' => up \/ 1 \in sr2, cmds' = <<>>
  PROVE  Sane'
<1>1. Len(cmds') = 0 /\ CmdDepth \in Nat
  BY Geometry
<1>2. ~(Len(cmds') > CmdDepth)
  BY <1>1
<1>3. critical' = {}
  BY DEF Sane
<1> QED BY <1>2, <1>3, SaneStays

(* The status is looked at: while BUSY the exchange begins again, else     *)
(* the driver goes on, and the chip is idle.                               *)
LEMMA PollStep ==
  ASSUME FlashTypes, Sane, Proceed, NEW s \in Sections, Proper(s), NEW p \in 0..5, NEW j \in Nat,
         Stage(s, p, j), NEW i \in 0..16, OnTrack(s, i, p, j),
         NEW a, a = SectionItems(s)[i+1], a.k = "poll"
  PROVE  FlashInv'
<1>1. /\ script # <<>> /\ Head(script) = a
      /\ Continues(s, p, 1) /\ call.fn # "async" /\ dma = NoDma
      /\ cmds = <<>> /\ tx = <<>> /\ Len(rx) = 1
      /\ frame = NoFrame /\ ~asleep /\ StatusRead(s)
      /\ s.kind \in {"erase", "reset", "enable", "program"}
  BY StatusEnd
<1>2. Tail(rx) = <<>> /\ Head(rx) = rx[1] /\ rx # <<>>
  BY <1>1, TailOne
<1>3. PollRead
  BY <1>1, HeadsA
<1>4. UNCHANGED <<chipVars, call, pre, up, dma, critical>> /\ cmds' = <<>> /\ tx' = <<>> /\ rx' = <<>>
  BY <1>1, <1>2, <1>3 DEF PollRead, dmaVars, drvVars
<1>5. Sane'
  BY <1>4, SaneEmpty
<1>6. CASE 0 \in rx[1][1]
  <2>1. script' = Poll \o Tail(script)
    BY <1>2, <1>3, <1>6 DEF PollRead
  <2>2. Flow'
    BY <1>1, <1>4, <2>1, PollAgain
  <2> QED BY <1>5, <2>2 DEF FlashInv
<1>7. CASE 0 \notin rx[1][1]
  <2>1. script' = Tail(script)
    BY <1>2, <1>3, <1>7 DEF PollRead
  <2>2. job = NoJob
    BY <1>1, <1>7 DEF StatusRead
  <2>3. CASE up /\ LegitFrom(2)
    <3>1. PICK d \in Nat \ {0} : d = 1
      OBVIOUS
    <3>2. d + 1 = 2
      BY <3>1
    <3>3. LegitFrom(d)'
      BY <1>1, <1>4, <2>1, <2>3, <3>2, LegitNext
    <3>4. LegitFrom(1)' /\ up'
      BY <1>4, <2>3, <3>1, <3>3
    <3>5. Resting'
      BY <1>1, <1>4, <2>2, <3>4, Rests
    <3> QED BY <1>5, <3>5 DEF FlashInv, Flow
  <2>4. CASE Behind(1, CheckTail)
    <3>1. Flow'
      BY <1>1, <1>4, <2>1, <2>2, <2>4, CheckStarts
    <3> QED BY <1>5, <3>1 DEF FlashInv
  <2>5. (up /\ LegitFrom(2)) \/ Behind(1, CheckTail)
    <3>1. s.kind \notin ReadKinds /\ s.kind # "wake"
      BY <1>1 DEF ReadKinds
    <3>2. (up /\ LegitFrom(1+1)) \/ Behind(1, CheckTail)
      BY <1>1, <3>1 DEF Continues
    <3> QED BY <3>2
  <2> QED BY <2>3, <2>4, <2>5
<1> QED BY <1>6, <1>7

(* The status register is read to be written back with QE set. *)
LEMMA RegStep ==
  ASSUME FlashTypes, Sane, Proceed, NEW s \in Sections, Proper(s), NEW p \in 0..5, NEW j \in Nat,
         Stage(s, p, j), NEW i \in 0..16, OnTrack(s, i, p, j),
         NEW a, a = SectionItems(s)[i+1], a.k = "rxreg"
  PROVE  FlashInv'
<1>1. /\ script # <<>> /\ Head(script) = a
      /\ Continues(s, p, 1) /\ call.fn # "async" /\ dma = NoDma
      /\ cmds = <<>> /\ tx = <<>> /\ Len(rx) = 1
      /\ frame = NoFrame /\ ~asleep /\ StatusRead(s)
      /\ s.kind = "wake"
  BY StatusEnd
<1>2. Tail(rx) = <<>> /\ Head(rx) = rx[1] /\ rx # <<>>
  BY <1>1, TailOne
<1>3. ReadReg
  BY <1>1, HeadsA
<1>4. /\ UNCHANGED <<chipVars, call, pre, up, dma, critical>> /\ cmds' = <<>> /\ tx' = <<>> /\ rx' = <<>>
      /\ script' = Tail(script) /\ reg' = rx[1][1]
  BY <1>1, <1>2, <1>3 DEF ReadReg, dmaVars, drvVars, Advance
<1>5. Sane'
  BY <1>4, SaneEmpty
<1>6. CASE Behind(1, EnableTail)
  <2>1. Flow'
    BY <1>1, <1>4, <1>6, EnableStarts
  <2> QED BY <1>5, <2>1 DEF FlashInv
<1>7. CASE job = NoJob /\ Behind(1, << Step("retqe", 0, 0) >>)
  <2>1. PICK last : last = << Step("retqe", 0, 0) >>
    OBVIOUS
  <2>2. Len(last) = 1 /\ last[1] = Step("retqe", 0, 0)
    BY <2>1
  <2>3. PICK d \in Nat \ {0} : d = 1
    OBVIOUS
  <2>4. Behind(d-1, last)'
    <3>1. Len(last) \in Nat
      BY <2>2
    <3>2. Behind(d, last)
      BY <1>7, <2>1, <2>3
    <3> QED BY <1>1, <1>4, <3>1, <3>2, BehindNext
  <2>5. Len(script') = 1 /\ script'[1] = Step("retqe", 0, 0)
    <3>1. Behind(0, last)'
      <4>1. d - 1 = 0
        BY <2>3
      <4> QED BY <2>4, <4>1
    <3>2. Len(script') = 0 + Len(last) /\ \A k \in 1..Len(last) : script'[0+k] = last[k]
      BY <3>1 DEF Behind
    <3>3. 1 \in 1..Len(last) /\ 0 + 1 = 1
      BY <2>2
    <3>4. script'[0+1] = last[1]
      BY <3>2, <3>3
    <3> QED BY <2>2, <3>2, <3>3, <3>4
  <2>6. script' = << Step("retqe", 0, 0) >>
    <3>1. script' \in Seq(Items(call))
      BY <1>1, <1>4, ScriptHead
    <3>2. \A S, q, x : q \in Seq(S) /\ Len(q) = 1 /\ q[1] = x => q = << x >>
      OBVIOUS
    <3> QED BY <2>5, <3>1, <3>2
  <2>7. Closing'
    <3>1. Quiet'
      BY <1>1, <1>4 DEF Quiet, chipVars
    <3>2. job' = NoJob /\ ~asleep' /\ sr2' = sr2
      BY <1>1, <1>4, <1>7 DEF chipVars
    <3>3. 1 \in reg' => 1 \in sr2'
      BY <1>1, <1>4, <3>2 DEF StatusRead
    <3>4. call'.fn # "async"
      BY <1>1, <1>4
    <3> QED BY <2>6, <3>1, <3>2, <3>3, <3>4 DEF Closing
  <2> QED BY <1>5, <2>7 DEF FlashInv, Flow
<1>8. Behind(1, EnableTail) \/ (job = NoJob /\ Behind(1, << Step("retqe", 0, 0) >>))
  BY <1>1 DEF Continues, ReadKinds
<1> QED BY <1>6, <1>7, <1>8

(***************************************************************************)
(* The end of the accesses of a read.                                      *)
(***************************************************************************)
LEMMA LastCounts ==
  ASSUME NEW s \in Sections, NEW i \in Nat, Row(s, i), i + 1 = Length(s),
         NEW a, a = SectionItems(s)[i+1], a.k \in {"dmawait", "ready"}
  PROVE  /\ Issued(s, i) = Len(Segs(s)) /\ Pushed(s, i) = Taken(s, Len(Segs(s)), 0)
         /\ Issued(s, i+1) = Len(Segs(s)) /\ Pushed(s, i+1) = Taken(s, Len(Segs(s)), 0)
<1>1. Issued(s, i) \in 0..Len(Segs(s)) /\ Pushed(s, i) \in 0..3+N(s) /\ N(s) \in Nat /\ Len(Segs(s)) \in 2..5
  BY Counts, LengthType
<1>2. Issued(s, i+1) = Issued(s, i) + 0 /\ Pushed(s, i+1) = Pushed(s, i) + 0
  BY DEF Row
<1>3. Issued(s, i+1) = Len(Segs(s)) /\ Pushed(s, i+1) = Taken(s, Len(Segs(s)), 0)
  BY DEF Row
<1>4. \A x, y : y \in Nat /\ x = y + 0 => x = y
  OBVIOUS
<1> QED BY <1>1, <1>2, <1>3, <1>4

(* A read whose words are all taken leaves host and chip idle. *)
LEMMA ReadOver ==
  ASSUME FlashTypes, NEW s \in Sections, s.kind \in ReadKinds, s.n > 0, NEW p, NEW j, NEW t \in Nat,
         t >= N(s), Stage(s, p, j), Wire(s, Len(Segs(s)), Taken(s, Len(Segs(s)), 0), p, j, t)
  PROVE  cmds = <<>> /\ tx = <<>> /\ rx = <<>> /\ frame = NoFrame /\ job = NoJob /\ ~asleep
<1>1. p = Len(Segs(s)) /\ cmds = <<>> /\ tx = <<>> /\ rx = <<>>
  BY ReadsEnd
<1>2. Len(Segs(s)) \in Nat
  BY LengthType
<1>3. p \notin 1..Len(Segs(s))-1
  BY <1>1, <1>2
<1>4. ReadStage(s, p)
  BY DEF Stage
<1> QED BY <1>1, <1>3, <1>4 DEF ReadStage

(* The driver waits for the DMA to the end of a read. *)
LEMMA AwaitStep ==
  ASSUME FlashTypes, Sane, Proceed, NEW s \in Sections, Proper(s), NEW p \in 0..5, NEW j \in Nat,
         Stage(s, p, j), NEW i \in 0..16, OnTrack(s, i, p, j),
         NEW a, a = SectionItems(s)[i+1], a.k = "dmawait"
  PROVE  FlashInv'
<1>1. /\ script # <<>> /\ Head(script) = a
      /\ i \in 0..Length(s)-1 /\ Row(s, i) /\ Length(s) \in 5..17
  BY TrackHead
<1>2. i + 1 = Length(s) /\ Launches(s, i) = 1 /\ s.kind \in ReadKinds /\ s.via # "cpu"
  BY <1>1 DEF Row
<1>3. Issued(s, i) = Len(Segs(s)) /\ Pushed(s, i) = Taken(s, Len(Segs(s)), 0)
  <2>1. i \in Nat
    OBVIOUS
  <2> QED BY <1>1, <1>2, <2>1, LastCounts
<1>4. PICK t \in Nat : /\ Wire(s, Issued(s, i), Pushed(s, i), p, j, t) /\ DmaReads(s, i, t)
  BY <1>2 DEF OnTrack
<1>5. DmaWait
  BY <1>1, HeadsA
<1>6. /\ dma = NoDma /\ script' = Tail(script)
      /\ UNCHANGED <<chipVars, call, pre, up, dma, critical, cmds, tx, rx>>
  BY <1>5 DEF DmaWait, Advance, hostVars, dmaVars, drvVars
<1>7. s.n > 0 /\ s.n \in Nat /\ N(s) = s.n \div W /\ s.n \div W \in Nat
  <2>1. s.n % W = 0 /\ s.n > 0 /\ s.n \in Nat
    BY <1>2, Geometry DEF Proper
  <2> QED BY <2>1, CeilExact DEF N
<1>8. t >= N(s)
  <2>1. ~(t < s.n \div W)
    BY <1>2, <1>4, <1>6 DEF DmaReads, NoDma
  <2> QED BY <1>7, <2>1
<1>9. cmds = <<>> /\ tx = <<>> /\ rx = <<>> /\ frame = NoFrame /\ job = NoJob /\ ~asleep
  <2>1. Wire(s, Len(Segs(s)), Taken(s, Len(Segs(s)), 0), p, j, t)
    BY <1>3, <1>4
  <2> QED BY <1>2, <1>7, <1>8, <2>1, ReadOver
<1>10. up /\ LegitFrom(2)
  <2>1. Length(s) - i = 1
    BY <1>1, <1>2
  <2>2. Continues(s, p, 1)
    BY <2>1 DEF OnTrack, Length
  <2>3. s.kind \notin {"erase", "reset", "program", "wake", "enable"}
    BY <1>2 DEF ReadKinds
  <2>4. up /\ LegitFrom(1+1)
    BY <1>2, <2>2, <2>3 DEF Continues
  <2> QED BY <2>4
<1>11. LegitFrom(1)'
  <2>1. PICK d \in Nat \ {0} : d = 1
    OBVIOUS
  <2>2. d + 1 = 2
    BY <2>1
  <2>3. LegitFrom(d)'
    BY <1>1, <1>6, <1>10, <2>2, LegitNext
  <2> QED BY <2>1, <2>3
<1>12. Resting'
  <2>1. cmds' = <<>> /\ tx' = <<>> /\ rx' = <<>> /\ dma' = NoDma /\ up'
    BY <1>6, <1>9, <1>10
  <2>2. call.fn # "async"
    BY DEF OnTrack
  <2> QED BY <1>6, <1>9, <1>11, <2>1, <2>2, Rests
<1>13. Sane'
  <2>1. cmds' = <<>>
    BY <1>6, <1>9
  <2> QED BY <1>6, <2>1, SaneEmpty
<1> QED BY <1>12, <1>13 DEF FlashInv, Flow

(* The core starts to empty the FIFO. *)
DrainAt(s, p, j, off, k, d, more) ==
  LET e == d + Past(k, 1) IN
  /\ off % W = 0 /\ Wire(s, Len(Segs(s)), Taken(s, Len(Segs(s)), 0), p, j, off \div W)
  /\ off + k <= s.n /\ (more => (off + k) % W = 0)
  /\ Len(script) >= e + (IF more THEN 1 ELSE 0)
  /\ d = 2 => script[1] = Step("rxwm", 0, Ceil(k))
  /\ d >= 1 => script[d] = Step("rxwait", 0, 0)
  /\ d = 1 => rxwm = Ceil(k)
  /\ d = 0 => Len(rx) >= Ceil(k) /\ (k > 0 \/ more)
  /\ k > 0 => script[d+1] = Step("rx", off, k)
  /\ more => script[e+1] = Step("drain", off + k, s.n - off - k)
  /\ ~more => off + k = s.n
  /\ LegitFrom(e + (IF more THEN 2 ELSE 1))
ReadByCore(s) ==
  s.kind \in ReadKinds /\ s.via = "cpu" /\ dma = NoDma /\ up /\ call.fn # "async"

(* The states in which the core empties the FIFO, as DrainAt has them. *)
LEMMA DrainingIs ==
  ASSUME NEW s, NEW p, NEW j
  PROVE  Draining(s, p, j) <=>
           /\ ReadByCore(s)
           /\ \E off \in 0..s.n, k \in 0..Sector, d \in 0..2, more \in BOOLEAN :
                DrainAt(s, p, j, off, k, d, more)
  BY DEF Draining, ReadByCore, DrainAt

(* Zero bytes are no words. *)
LEMMA ZeroCounts ==
  0 \div W = 0 /\ 0 % W = 0 /\ Ceil(0) = 0
<1>1. W \in Nat \ {0}
  BY Geometry
<1>2. 0 \div W = 0 /\ 0 % W = 0
  BY <1>1, SMT
<1>3. Ceil(0) = 0
  BY <1>2, CeilExact
<1> QED BY <1>2, <1>3

(* The last access before the core empties the FIFO. *)
LEMMA GoStep ==
  ASSUME FlashTypes, Sane, Proceed, NEW s \in Sections, Proper(s), NEW p \in 0..5, NEW j \in Nat,
         Stage(s, p, j), NEW i \in 0..16, OnTrack(s, i, p, j),
         NEW a, a = SectionItems(s)[i+1], a = Go, s.kind \in ReadKinds, s.via = "cpu", i + 1 = Length(s)
  PROVE  FlashInv'
<1>1. /\ script # <<>> /\ script[1] = a
      /\ i \in 0..Length(s)-1 /\ Row(s, i) /\ Length(s) \in 5..17
  BY TrackHead
<1>2. a.k = "ready"
  BY Kinds
<1>3. Issued(s, i+1) = Len(Segs(s)) /\ Pushed(s, i+1) = Taken(s, Len(Segs(s)), 0)
  <2>1. i \in Nat
    OBVIOUS
  <2> QED BY <1>1, <1>2, <2>1, LastCounts
<1>4. Launches(s, i) = 0
  BY DEF Launches
<1>5. Wire(s, Issued(s, i), Pushed(s, i), p, j, 0) /\ dma = NoDma
  <2>1. PICK t \in Nat : /\ Wire(s, Issued(s, i), Pushed(s, i), p, j, t) /\ DmaReads(s, i, t)
                         /\ t > 0 => Launches(s, i) = 1
    BY DEF OnTrack
  <2>2. t = 0
    BY <1>4, <2>1
  <2>3. dma = NoDma
    BY <1>4, <2>1 DEF DmaReads
  <2> QED BY <2>1, <2>2, <2>3
<1>6. /\ Wire(s, Len(Segs(s)), Taken(s, Len(Segs(s)), 0), p, j, 0)'
      /\ script' = Tail(script) /\ UNCHANGED <<chipVars, rx, dma, call, up>> /\ Sane'
  <2>1. script[1].k \in Plain /\ script[1].k # "cmd"
    BY <1>1, <1>2 DEF Plain
  <2>2. /\ Wire(s, Issued(s, i+1), Pushed(s, i+1), p, j, 0)'
        /\ script' = Tail(script) /\ UNCHANGED <<chipVars, rx, dma, call, up>> /\ Sane'
    BY <1>1, <1>5, <2>1, AccessStep
  <2> QED BY <1>3, <2>2
<1>7. up /\ Len(script) > 1 /\ script[2] = Step("drain", 0, s.n) /\ LegitFrom(3)
  <2>1. Length(s) - i = 1
    BY <1>1
  <2>2. Continues(s, p, 1)
    BY <2>1 DEF OnTrack, Length
  <2>3. s.kind \notin {"erase", "reset", "program", "wake", "enable"}
    BY DEF ReadKinds
  <2>4. up /\ Len(script) > 1 /\ script[1+1] = Step("drain", 0, s.n) /\ LegitFrom(1+2)
    BY <2>2, <2>3 DEF Continues
  <2> QED BY <2>4
<1>8. LegitFrom(2)'
  <2>1. PICK d \in Nat \ {0} : d = 2
    OBVIOUS
  <2>2. d + 1 = 3
    BY <2>1
  <2>3. LegitFrom(d)'
    BY <1>1, <1>6, <1>7, <2>2, LegitNext
  <2> QED BY <2>1, <2>3
<1>9. Len(script') >= 1 /\ script'[1] = Step("drain", 0, s.n)
  <2>1. /\ Len(script) \in Nat \ {0} /\ Len(script') = Len(script) - 1
        /\ \A k \in 1..Len(script)-1 : script'[k] = script[k+1]
    BY <1>1, <1>6, ScriptHead
  <2>2. Len(script) > 1
    BY <1>7
  <2>3. 1 \in 1..Len(script)-1 /\ 1 + 1 = 2
    BY <2>1, <2>2
  <2>4. script'[1] = script[1+1]
    BY <2>1, <2>3
  <2>5. Len(script') >= 1
    BY <2>1, <2>2
  <2> QED BY <1>7, <2>3, <2>4, <2>5
<1>10. s.n \in Nat /\ Sector \in Nat /\ 0 \in 0..s.n /\ 0 \in 0..Sector /\ 0 \in 0..2
  BY Geometry DEF Sections
<1>11. DrainAt(s, p, j, 0, 0, 0, TRUE)'
  <2>1. Past(0, 1) = 0
    BY DEF Past
  <2>2. Wire(s, Len(Segs(s)), Taken(s, Len(Segs(s)), 0), p, j, 0 \div W)'
    BY <1>6, ZeroCounts
  <2>3. Len(rx') >= 0
    BY <1>6 DEF FlashTypes, HostTypes
  <2>4. s.n - 0 - 0 = s.n
    BY <1>10
  <2> QED BY <1>8, <1>9, <1>10, <2>1, <2>2, <2>3, <2>4, ZeroCounts DEF DrainAt
<1>12. ReadByCore(s)'
  <2>1. call.fn # "async"
    BY DEF OnTrack
  <2> QED BY <1>5, <1>6, <1>7, <2>1 DEF ReadByCore
<1>13. Draining(s, p, j)'
  BY <1>10, <1>11, <1>12 DEF Draining, ReadByCore, DrainAt
<1>14. Stage(s, p, j)'
  BY <1>6, StageStays
<1>15. Tracked(s, p, j)'
  BY <1>13 DEF Tracked
<1>16. Flow'
  BY <1>6, <1>14, <1>15, Lands
<1> QED BY <1>6, <1>16 DEF FlashInv

(***************************************************************************)
(* The core empties the FIFO.                                              *)
(***************************************************************************)
LEMMA PastType ==
  ASSUME NEW k \in Nat
  PROVE  Past(k, 1) \in {0, 1} /\ (k > 0 => Past(k, 1) = 1) /\ (k = 0 => Past(k, 1) = 0)
  BY DEF Past

(* Past is a count of at most one. *)
LEMMA PastIn ==
  \A i, m : Past(i, m) \in {0, 1}
  BY DEF Past

(* A script with an access is not empty. *)
LEMMA NotEmpty ==
  ASSUME Len(script) \in Nat, Len(script) >= 1
  PROVE  script # <<>>
<1> SUFFICES ASSUME script = <<>> PROVE FALSE
  OBVIOUS
<1>1. Len(script) = 0
  OBVIOUS
<1> QED BY <1>1

(* The script moves up by one. *)
LEMMA NextAt ==
  ASSUME FlashTypes, script # <<>>, script' = Tail(script), NEW x \in Nat \ {0}, x + 1 <= Len(script)
  PROVE  script'[x] = script[x+1]
<1>1. Len(script) \in Nat \ {0} /\ \A k \in 1..Len(script)-1 : Tail(script)[k] = script[k+1]
  BY ScriptHead
<1>2. x \in 1..Len(script)-1
  BY <1>1
<1> QED BY <1>1, <1>2

(* The wire depends on host and FIFOs alone. *)
LEMMA WireStays ==
  ASSUME UNCHANGED <<cmds, tx, rx>>, NEW s, NEW Q, NEW U, NEW p, NEW j, NEW t, Wire(s, Q, U, p, j, t)
  PROVE  Wire(s, Q, U, p, j, t)'
  BY DEF Wire, CmdQueue, TxFifo, RxFifo

(* A step that leaves the core emptying the FIFO keeps the invariant. *)
LEMMA DrainLands ==
  ASSUME UNCHANGED <<chipVars, call, up, dma>>, Sane', NEW s \in Sections, Proper(s),
         NEW p \in 0..5, NEW j \in Nat, Stage(s, p, j), ReadByCore(s),
         NEW off \in 0..s.n, NEW k \in 0..Sector, NEW d \in 0..2, NEW more \in BOOLEAN,
         DrainAt(s, p, j, off, k, d, more)'
  PROVE  FlashInv'
<1>1. ReadByCore(s)'
  BY DEF ReadByCore
<1>2. Draining(s, p, j)'
  BY <1>1 DEF Draining, ReadByCore, DrainAt
<1>3. Stage(s, p, j)'
  <2>1. s.kind \in ReadKinds
    BY DEF ReadByCore
  <2> QED BY <2>1, StageStays
<1>4. Tracked(s, p, j)'
  BY <1>2 DEF Tracked
<1>5. Flow'
  BY <1>3, <1>4, Lands
<1> QED BY <1>5 DEF FlashInv

(* What it takes to be in a turn of w25q128jw_read_standard's loop. *)
LEMMA DrainMade ==
  ASSUME NEW s, NEW p, NEW j, NEW off, NEW k, NEW d \in 0..2, NEW more \in BOOLEAN, NEW e, e = d + Past(k, 1),
         off % W = 0, Wire(s, Len(Segs(s)), Taken(s, Len(Segs(s)), 0), p, j, off \div W)',
         off + k <= s.n, more => (off + k) % W = 0,
         Len(script') >= e + (IF more THEN 1 ELSE 0),
         d = 2 => script'[1] = Step("rxwm", 0, Ceil(k)),
         d >= 1 => script'[d] = Step("rxwait", 0, 0),
         d = 1 => rxwm' = Ceil(k),
         d = 0 => Len(rx') >= Ceil(k) /\ (k > 0 \/ more),
         k > 0 => script'[d+1] = Step("rx", off, k),
         more => script'[e+1] = Step("drain", off + k, s.n - off - k),
         ~more => off + k = s.n,
         LegitFrom(e + (IF more THEN 2 ELSE 1))'
  PROVE  DrainAt(s, p, j, off, k, d, more)'
  BY DEF DrainAt

(* A step that leaves chip and command queue alone keeps Sane. *)
LEMMA SaneHere ==
  ASSUME FlashTypes, Sane, UNCHANGED <<chipVars, call, pre, critical, cmds>>, up' => up \/ 1 \in sr2,
         script # <<>>, script[1] # Go
  PROVE  Sane'
<1>1. ~(Len(cmds') > CmdDepth)
  BY CommandsFit
<1>2. critical' = {}
  BY DEF Sane
<1> QED BY <1>1, <1>2, SaneStays

(* The core sets the watermark, then waits for it. *)
LEMMA DrainWait ==
  ASSUME FlashTypes, Sane, Proceed, NEW s \in Sections, Proper(s),
         NEW p \in 0..5, NEW j \in Nat, Stage(s, p, j), ReadByCore(s),
         NEW off \in 0..s.n, NEW k \in 0..Sector, NEW d \in 1..2, NEW more \in BOOLEAN,
         DrainAt(s, p, j, off, k, d, more)
  PROVE  FlashInv'
<1> DEFINE e == d + Past(k, 1)
           m == IF more THEN 1 ELSE 0
<1>1. /\ s.n \in Nat /\ off \in Nat /\ k \in Nat /\ e \in Nat /\ e >= 1 /\ m \in {0, 1}
      /\ Past(k, 1) \in {0, 1} /\ (k > 0 => e = d + 1) /\ (k = 0 => e = d)
  <2>1. s.n \in Nat /\ off \in Nat /\ k \in Nat
    BY Geometry DEF Sections
  <2> QED BY <2>1, PastType
<1>2. /\ off % W = 0 /\ Wire(s, Len(Segs(s)), Taken(s, Len(Segs(s)), 0), p, j, off \div W)
      /\ off + k <= s.n /\ (more => (off + k) % W = 0)
      /\ d = 2 => script[1] = Step("rxwm", 0, Ceil(k))
      /\ script[d] = Step("rxwait", 0, 0)
      /\ d = 1 => rxwm = Ceil(k)
      /\ k > 0 => script[d+1] = Step("rx", off, k)
      /\ more => script[e+1] = Step("drain", off + k, s.n - off - k)
      /\ ~more => off + k = s.n
      /\ LegitFrom(e + (IF more THEN 2 ELSE 1))
  BY DEF DrainAt
<1>3. Len(script) >= e + m /\ Len(script) \in Nat
  <2>1. Len(script) >= e + m
    BY DEF DrainAt
  <2>2. Len(script) \in Nat
    BY DEF FlashTypes, DriverTypes
  <2> QED BY <2>1, <2>2
<1> HIDE DEF e, m
<1>4. script # <<>>
  <2>1. Len(script) >= 1
    BY <1>1, <1>3
  <2> QED BY <1>3, <2>1, NotEmpty
<1>5. Head(script) = script[1]
  BY <1>4, ScriptHead
<1>6. CASE d = 2
  <2>1. script[1] = Step("rxwm", 0, Ceil(k)) /\ script[1].k = "rxwm" /\ script[1].n = Ceil(k)
    BY <1>2, <1>6 DEF Step
  <2>2. SpiSetRxWatermark
    BY <1>5, <2>1, HeadsA
  <2>3. /\ UNCHANGED <<chipVars, call, pre, up, dma, critical, cmds, tx, rx>>
        /\ script' = Tail(script) /\ rxwm' = Ceil(k)
    BY <1>5, <2>1, <2>2 DEF SpiSetRxWatermark, Advance, Now, dmaVars, drvVars
  <2>4. Sane'
    BY <1>4, <2>1, <2>3, GoKind, SaneHere
  <2>5. script'[1] = Step("rxwait", 0, 0)
    <3>1. 1 + 1 = 2 /\ 2 <= Len(script)
      BY <1>1, <1>3, <1>6
    <3>2. script'[1] = script[1+1]
      BY <1>4, <2>3, <3>1, NextAt
    <3> QED BY <1>2, <1>6, <3>1, <3>2
  <2>6. k > 0 => script'[2] = Step("rx", off, k)
    <3>1. ASSUME k > 0 PROVE 3 <= Len(script)
      BY <1>1, <1>3, <1>6, <3>1
    <3>2. ASSUME k > 0 PROVE script'[2] = script[2+1]
      BY <1>4, <2>3, <3>1, <3>2, NextAt
    <3> QED BY <1>2, <1>6, <3>2
  <2>7. more => script'[e] = Step("drain", off + k, s.n - off - k)
    <3>1. ASSUME more PROVE e + 1 <= Len(script) /\ e \in Nat \ {0}
      BY <1>1, <1>3, <3>1 DEF m
    <3>2. ASSUME more PROVE script'[e] = script[e+1]
      BY <1>4, <2>3, <3>1, <3>2, NextAt
    <3> QED BY <1>2, <3>2
  <2>8. Len(script') >= 1 + Past(k, 1) + m /\ e = 2 + Past(k, 1)
    <3>1. Len(script') = Len(script) - 1
      BY <1>4, <2>3, ScriptHead
    <3>2. e = 2 + Past(k, 1)
      BY <1>6 DEF e
    <3>3. Len(script') >= 1 + Past(k, 1) + m
      BY <1>1, <1>3, <3>1, <3>2
    <3> QED BY <3>2, <3>3
  <2>9. LegitFrom(1 + Past(k, 1) + (IF more THEN 2 ELSE 1))'
    <3>1. PICK x \in Nat \ {0} : x = 1 + Past(k, 1) + (IF more THEN 2 ELSE 1)
      BY <1>1
    <3>2. x + 1 = e + (IF more THEN 2 ELSE 1)
      BY <1>1, <2>8, <3>1
    <3>3. LegitFrom(x+1)
      BY <1>2, <3>2
    <3>4. LegitFrom(x)'
      BY <1>4, <2>3, <3>3, LegitNext
    <3> QED BY <3>1, <3>4
  <2>10. Wire(s, Len(Segs(s)), Taken(s, Len(Segs(s)), 0), p, j, off \div W)'
    BY <1>2, <2>3, WireStays
  <2>11. more => script'[(1 + Past(k, 1)) + 1] = Step("drain", off + k, s.n - off - k)
    <3>1. (1 + Past(k, 1)) + 1 = e
      BY <1>1, <2>8
    <3> QED BY <2>7, <3>1
  <2>12. Len(script') >= (1 + Past(k, 1)) + (IF more THEN 1 ELSE 0)
    BY <2>8 DEF m
  <2>13. k > 0 => script'[1+1] = Step("rx", off, k)
    BY <2>6
  <2>14. PICK d2 \in 0..2, e2 \in Nat : d2 = 1 /\ e2 = 1 + Past(k, 1)
    BY PastIn
  <2>15. /\ e2 = d2 + Past(k, 1) /\ Len(script') >= e2 + (IF more THEN 1 ELSE 0)
         /\ d2 = 2 => script'[1] = Step("rxwm", 0, Ceil(k))
         /\ d2 >= 1 => script'[d2] = Step("rxwait", 0, 0)
         /\ d2 = 1 => rxwm' = Ceil(k)
         /\ d2 = 0 => Len(rx') >= Ceil(k) /\ (k > 0 \/ more)
         /\ k > 0 => script'[d2+1] = Step("rx", off, k)
         /\ more => script'[e2+1] = Step("drain", off + k, s.n - off - k)
         /\ LegitFrom(e2 + (IF more THEN 2 ELSE 1))'
    <3>1. e2 = d2 + Past(k, 1) /\ d2 = 1 /\ e2 = 1 + Past(k, 1)
      BY <2>14
    <3>2. Len(script') >= e2 + (IF more THEN 1 ELSE 0)
      BY <2>12, <3>1
    <3>3. script'[d2] = Step("rxwait", 0, 0) /\ rxwm' = Ceil(k) /\ d2 # 2 /\ d2 # 0
      <4>1. script'[d2] = Step("rxwait", 0, 0)
        BY <2>5, <3>1
      <4>2. rxwm' = Ceil(k)
        BY <2>3
      <4>3. d2 # 2 /\ d2 # 0
        BY <3>1
      <4> QED BY <4>1, <4>2, <4>3
    <3>4. k > 0 => script'[d2+1] = Step("rx", off, k)
      BY <2>13, <3>1
    <3>5. more => script'[e2+1] = Step("drain", off + k, s.n - off - k)
      BY <2>11, <3>1
    <3>6. LegitFrom(e2 + (IF more THEN 2 ELSE 1))'
      BY <2>9, <3>1
    <3> QED BY <3>1, <3>2, <3>3, <3>4, <3>5, <3>6
  <2>16. DrainAt(s, p, j, off, k, d2, more)'
    BY <1>2, <2>10, <2>15, DrainMade
  <2> QED BY <2>3, <2>4, <2>16, DrainLands
<1>7. CASE d = 1
  <2>1. script[1] = Step("rxwait", 0, 0) /\ script[1].k = "rxwait"
    BY <1>2, <1>7 DEF Step
  <2>2. SpiWaitForRxWatermark
    BY <1>5, <2>1, HeadsA
  <2>3. /\ UNCHANGED <<chipVars, call, pre, up, dma, critical, cmds, tx, rx>>
        /\ script' = Tail(script) /\ Len(rx) >= Ceil(k)
    BY <1>2, <1>7, <2>2 DEF SpiWaitForRxWatermark, Advance, dmaVars, drvVars, hostVars
  <2>4. Sane'
    BY <1>4, <2>1, <2>3, GoKind, SaneHere
  <2>5. e = 1 + Past(k, 1)
    BY <1>7 DEF e
  <2>6. LegitFrom(Past(k, 1) + (IF more THEN 2 ELSE 1))'
    <3>1. PICK x \in Nat \ {0} : x = Past(k, 1) + (IF more THEN 2 ELSE 1)
      BY <1>1
    <3>2. x + 1 = e + (IF more THEN 2 ELSE 1)
      BY <1>1, <2>5, <3>1
    <3>3. LegitFrom(x+1)
      BY <1>2, <3>2
    <3>4. LegitFrom(x)'
      BY <1>4, <2>3, <3>3, LegitNext
    <3> QED BY <3>1, <3>4
  <2>7. Wire(s, Len(Segs(s)), Taken(s, Len(Segs(s)), 0), p, j, off \div W)'
    BY <1>2, <2>3, WireStays
  <2>8. CASE k > 0 \/ more
    <3>1. k > 0 => script'[1] = Step("rx", off, k)
      <4>1. ASSUME k > 0 PROVE 2 <= Len(script)
        BY <1>1, <1>3, <2>5, <4>1
      <4>2. ASSUME k > 0 PROVE script'[1] = script[1+1]
        BY <1>4, <2>3, <4>1, <4>2, NextAt
      <4> QED BY <1>2, <1>7, <4>2
    <3>2. more => script'[e] = Step("drain", off + k, s.n - off - k)
      <4>1. ASSUME more PROVE e + 1 <= Len(script) /\ e \in Nat \ {0}
        BY <1>1, <1>3, <4>1 DEF m
      <4>2. ASSUME more PROVE script'[e] = script[e+1]
        BY <1>4, <2>3, <4>1, <4>2, NextAt
      <4> QED BY <1>2, <4>2
    <3>3. Len(script') >= Past(k, 1) + m
      <4>1. Len(script') = Len(script) - 1
        BY <1>4, <2>3, ScriptHead
      <4> QED BY <1>1, <1>3, <2>5, <4>1
    <3>4. 0 + Past(k, 1) = Past(k, 1) /\ Past(k, 1) + 1 = e
      BY <1>1, <2>5
    <3>5. more => script'[(0 + Past(k, 1)) + 1] = Step("drain", off + k, s.n - off - k)
      BY <3>2, <3>4
    <3>6. Len(script') >= (0 + Past(k, 1)) + (IF more THEN 1 ELSE 0)
      BY <3>3, <3>4 DEF m
    <3>7. k > 0 => script'[0+1] = Step("rx", off, k)
      BY <3>1
    <3>8. LegitFrom((0 + Past(k, 1)) + (IF more THEN 2 ELSE 1))'
      BY <2>6, <3>4
    <3>9. PICK d2 \in 0..2, e2 \in Nat : d2 = 0 /\ e2 = 0 + Past(k, 1)
      BY PastIn
    <3>10. /\ e2 = d2 + Past(k, 1) /\ Len(script') >= e2 + (IF more THEN 1 ELSE 0)
           /\ d2 = 2 => script'[1] = Step("rxwm", 0, Ceil(k))
           /\ d2 >= 1 => script'[d2] = Step("rxwait", 0, 0)
           /\ d2 = 1 => rxwm' = Ceil(k)
           /\ d2 = 0 => Len(rx') >= Ceil(k) /\ (k > 0 \/ more)
           /\ k > 0 => script'[d2+1] = Step("rx", off, k)
           /\ more => script'[e2+1] = Step("drain", off + k, s.n - off - k)
           /\ LegitFrom(e2 + (IF more THEN 2 ELSE 1))'
      <4>1. e2 = d2 + Past(k, 1) /\ d2 = 0 /\ e2 = 0 + Past(k, 1)
        BY <3>9
      <4>2. Len(script') >= e2 + (IF more THEN 1 ELSE 0)
        BY <3>6, <4>1
      <4>3. Len(rx') >= Ceil(k)
        BY <2>3
      <4>4. k > 0 => script'[d2+1] = Step("rx", off, k)
        BY <3>7, <4>1
      <4>5. more => script'[e2+1] = Step("drain", off + k, s.n - off - k)
        BY <3>5, <4>1
      <4>6. LegitFrom(e2 + (IF more THEN 2 ELSE 1))'
        BY <3>8, <4>1
      <4>7. ~(d2 >= 1) /\ d2 # 1 /\ d2 # 2
        BY <4>1
      <4> QED BY <2>8, <4>1, <4>2, <4>3, <4>4, <4>5, <4>6, <4>7
    <3>11. DrainAt(s, p, j, off, k, d2, more)'
      BY <1>2, <2>7, <3>10, DrainMade
    <3> QED BY <2>3, <2>4, <3>11, DrainLands
  <2>9. CASE k = 0 /\ ~more
    <3>1. off = s.n /\ Past(k, 1) = 0
      BY <1>1, <1>2, <2>9, PastType
    <3>2. N(s) = off \div W /\ off \div W \in Nat
      BY <1>1, <1>2, <3>1, CeilExact DEF N
    <3>3. LegitFrom(1)'
      BY <2>6, <2>9, <3>1
    <3>4. off \div W >= N(s)
      BY <3>2
    <3>5. s.kind \in ReadKinds /\ s.n > 0 /\ dma = NoDma /\ up /\ call.fn # "async"
      BY Geometry DEF ReadByCore, Proper
    <3>6. cmds = <<>> /\ tx = <<>> /\ rx = <<>> /\ frame = NoFrame /\ job = NoJob /\ ~asleep
      BY <1>2, <3>2, <3>4, <3>5, ReadOver
    <3>7. cmds' = <<>> /\ tx' = <<>> /\ rx' = <<>> /\ dma' = NoDma /\ up'
      BY <2>3, <3>5, <3>6
    <3>8. Resting'
      BY <2>3, <3>3, <3>5, <3>6, <3>7, Rests
    <3> QED BY <2>4, <3>8 DEF FlashInv, Flow
  <2> QED BY <1>1, <2>8, <2>9
<1> QED BY <1>6, <1>7

(* Division and remainder, a word further. *)
LEMMA Shift1 ==
  ASSUME NEW w \in Nat \ {0}, NEW y \in Nat
  PROVE  (y + w) \div w = (y \div w) + 1 /\ (y + w) % w = y % w
<1>1. /\ y \div w \in Nat /\ y % w \in 0..w-1 /\ y = w * (y \div w) + (y % w)
  BY Divide
<1> DEFINE q == y \div w
           r == y % w
<1>2. w * (q + 1) = w * q + w
  BY <1>1, SMT
<1>3. y + w = w * (q + 1) + r
  BY <1>1, <1>2
<1> HIDE DEF q, r
<1>4. q \in Nat /\ r \in 0..w-1
  BY <1>1 DEF q, r
<1>5. \A x \in Nat, z \in Nat : z < w => (w * x + z) \div w = x /\ (w * x + z) % w = z
  BY SMT
<1>6. q + 1 \in Nat /\ r \in Nat /\ r < w
  BY <1>4
<1>7. (w * (q + 1) + r) \div w = q + 1 /\ (w * (q + 1) + r) % w = r
  BY <1>5, <1>6
<1> QED BY <1>3, <1>7 DEF q, r

(* The words of a read, one further. *)
LEMMA WordNext ==
  ASSUME NEW off \in Nat, off % W = 0, NEW k \in Nat \ {0}
  PROVE  /\ (off + W) % W = 0 /\ (off + W) \div W = (off \div W) + 1 /\ off \div W \in Nat
         /\ k <= W => Ceil(off + k) = (off \div W) + 1 /\ ((off + k) % W = 0 => k = W)
         /\ Ceil(k) \in Nat /\ Ceil(k) >= 1
         /\ k > W => Ceil(k - W) = Ceil(k) - 1
<1>1. W \in Nat \ {0}
  BY Geometry
<1>2. (off + W) % W = 0 /\ (off + W) \div W = (off \div W) + 1
  BY <1>1, Shift1
<1>3. off \div W \in Nat /\ off = W * (off \div W)
  BY <1>1, Divide
<1>4. \A x \in Nat, z \in Nat : z < W => (W * x + z) \div W = x /\ (W * x + z) % W = z
  BY <1>1, SMT
<1>5. ASSUME k <= W PROVE Ceil(off + k) = (off \div W) + 1 /\ ((off + k) % W = 0 => k = W)
  <2>1. off + k + W - 1 = (off + (k - 1)) + W /\ off + (k - 1) \in Nat
    BY <1>1
  <2>2. Ceil(off + k) = ((off + (k - 1)) \div W) + 1
    BY <1>1, <2>1, Shift1 DEF Ceil
  <2>3. (off + (k - 1)) \div W = off \div W
    <3>1. k - 1 \in Nat /\ k - 1 < W
      BY <1>1, <1>5
    <3>2. (W * (off \div W) + (k - 1)) \div W = off \div W
      BY <1>3, <1>4, <3>1
    <3> QED BY <1>3, <3>2
  <2>4. ASSUME k < W PROVE (off + k) % W = k
    <3>1. k \in Nat /\ k < W
      BY <2>4
    <3>2. (W * (off \div W) + k) % W = k
      BY <1>3, <1>4, <3>1
    <3> QED BY <1>3, <3>2
  <2>5. (off + k) % W = 0 => k = W
    BY <1>1, <1>5, <2>4
  <2> QED BY <2>2, <2>3, <2>5
<1>6. Ceil(k) \in Nat /\ Ceil(k) >= 1
  <2>1. k + W - 1 = (k - 1) + W /\ k - 1 \in Nat
    BY <1>1
  <2>2. Ceil(k) = ((k - 1) \div W) + 1
    BY <1>1, <2>1, Shift1 DEF Ceil
  <2>3. (k - 1) \div W \in Nat
    BY <1>1, <2>1, Divide
  <2> QED BY <2>2, <2>3
<1>7. ASSUME k > W PROVE Ceil(k - W) = Ceil(k) - 1
  <2>1. k + W - 1 = ((k - W) + W - 1) + W /\ (k - W) + W - 1 \in Nat
    BY <1>1, <1>7
  <2>2. Ceil(k) = (((k - W) + W - 1) \div W) + 1
    BY <1>1, <2>1, Shift1 DEF Ceil
  <2>3. ((k - W) + W - 1) \div W \in Nat
    BY <1>1, <2>1, Divide
  <2>4. Ceil(k - W) = ((k - W) + W - 1) \div W
    BY DEF Ceil
  <2> QED BY <2>2, <2>3, <2>4
<1> QED BY <1>2, <1>3, <1>5, <1>6, <1>7

(* The last word is taken. *)
LEMMA ReadLast ==
  ASSUME FlashTypes, NEW s \in Sections, s.kind \in ReadKinds, s.n > 0, NEW p, NEW j, NEW t \in Nat,
         t + 1 >= N(s), rx # <<>>, Stage(s, p, j), Wire(s, Len(Segs(s)), Taken(s, Len(Segs(s)), 0), p, j, t)
  PROVE  /\ cmds = <<>> /\ tx = <<>> /\ Len(rx) = 1 /\ Tail(rx) = <<>>
         /\ frame = NoFrame /\ job = NoJob /\ ~asleep
<1>1. cmds \in Seq(Segments) /\ tx \in Seq(TxWords) /\ rx \in Seq(RxWords) /\ Len(rx) \in Nat /\ Len(rx) # 0
  BY NoneLeft DEF FlashTypes, HostTypes
<1>2. Len(Segs(s)) \in Nat /\ p \in Nat /\ j \in Nat /\ p <= Len(Segs(s)) /\ Len(Segs(s)) \in 0..Len(Segs(s))
  <2>1. Len(Segs(s)) \in 2..5
    BY LengthType
  <2> QED BY <2>1, WireTypes
<1>3. /\ Got(s, p, j) <= N(s) /\ N(s) \in Nat /\ Got(s, p, j) \in Nat
      /\ Got(s, p, j) = N(s) => p = Len(Segs(s))
  BY <1>2, GotBound
<1>4. t <= Got(s, p, j) /\ Len(rx) = Got(s, p, j) - t
  BY DEF Wire, RxFifo
<1>5. p = Len(Segs(s)) /\ Len(rx) = 1
  BY <1>1, <1>3, <1>4
<1>6. j = 0
  BY <1>2, <1>5 DEF Wire, Place
<1>7. Len(cmds) = 0
  BY <1>2, <1>5 DEF Wire, CmdQueue
<1>8. Len(tx) = 0
  <2>1. Taken(s, Len(Segs(s)), 0) \in Nat
    <3>1. Taken(s, p, j) \in Nat
      BY <1>2, WireTypes
    <3> QED BY <1>5, <1>6, <3>1
  <2>2. TxFifo(s, Taken(s, Len(Segs(s)), 0), Taken(s, Len(Segs(s)), 0))
    BY <1>5, <1>6 DEF Wire
  <2> QED BY <2>1, <2>2 DEF TxFifo
<1>9. p \notin 1..Len(Segs(s))-1
  BY <1>2, <1>5
<1>10. frame = NoFrame /\ job = NoJob /\ ~asleep
  BY <1>9 DEF Stage, ReadStage
<1>11. Tail(rx) = <<>>
  BY <1>5, TailOne
<1> QED BY <1>1, <1>5, <1>7, <1>8, <1>10, <1>11, NoneLeft

(* A script whose head alone is replaced. *)
LEMMA Replaced ==
  ASSUME FlashTypes, script # <<>>, UNCHANGED call, NEW x, script' = << x >> \o Tail(script)
  PROVE  /\ Len(script') = Len(script) /\ script'[1] = x
         /\ \A m \in 2..Len(script) : script'[m] = script[m]
         /\ \A d \in Nat : d >= 2 /\ LegitFrom(d) => LegitFrom(d)'
<1>1. PICK b \in Seq(Items(call)) : /\ b = Tail(script) /\ Len(b) = Len(script) - 1 /\ Len(script) \in Nat
                                     /\ \A k \in 1..Len(b) : b[k] = script[k+1]
  BY Remains
<1>2. PICK S : S = Items(call) \cup {x}
  OBVIOUS
<1>3. << x >> \in Seq(S) /\ b \in Seq(S)
  <2>1. Items(call) \subseteq S /\ x \in S
    BY <1>2
  <2> QED BY <2>1, SeqMono
<1>4. PICK a : a = << x >>
  OBVIOUS
<1>5. Len(a) = 1 /\ a[1] = x /\ a \in Seq(S) /\ script' = a \o b
  BY <1>1, <1>3, <1>4
<1>6. /\ Len(script') = Len(a) + Len(b) /\ Len(b) \in Nat
      /\ \A k \in 1..Len(a) : script'[k] = a[k]
      /\ \A k \in 1..Len(b) : script'[Len(a) + k] = b[k]
  <2>1. a \in Seq(S) /\ b \in Seq(S) /\ script' = a \o b
    BY <1>3, <1>5
  <2>2. /\ Len(a \o b) = Len(a) + Len(b) /\ Len(b) \in Nat
        /\ \A k \in 1..Len(a) : (a \o b)[k] = a[k]
        /\ \A k \in 1..Len(b) : (a \o b)[Len(a) + k] = b[k]
    BY <2>1, JoinAt
  <2> QED BY <2>1, <2>2
<1>7. Len(script') = Len(script) /\ script'[1] = x
  <2>1. 1 \in 1..Len(a)
    BY <1>5
  <2>2. script'[1] = a[1]
    BY <1>6, <2>1
  <2>3. Len(script') = Len(script)
    BY <1>1, <1>5, <1>6
  <2> QED BY <1>5, <2>2, <2>3
<1>8. ASSUME NEW m \in 2..Len(script) PROVE script'[m] = script[m]
  <2>1. m - 1 \in 1..Len(b) /\ 1 + (m - 1) = m /\ (m - 1) + 1 = m
    BY <1>1
  <2>2. script'[Len(a) + (m - 1)] = b[m - 1]
    BY <1>6, <2>1
  <2>3. Len(a) + (m - 1) = m
    BY <1>5, <2>1
  <2>4. b[m - 1] = script[(m - 1) + 1]
    BY <1>1, <2>1
  <2> QED BY <2>1, <2>2, <2>3, <2>4
<1>9. ASSUME NEW d \in Nat, d >= 2, LegitFrom(d) PROVE LegitFrom(d)'
  <2> SUFFICES ASSUME NEW m \in d..Len(script') PROVE Legit(script[m])'
    BY DEF LegitFrom
  <2>1. m \in 2..Len(script) /\ m \in d..Len(script)
    BY <1>1, <1>7, <1>9
  <2>2. PICK y : y = script[m]
    OBVIOUS
  <2>3. script'[m] = y
    BY <1>8, <2>1, <2>2
  <2>4. Legit(y)
    BY <1>9, <2>1, <2>2 DEF LegitFrom
  <2>5. Legit(y)'
    BY <2>4, LegitStays
  <2> QED BY <2>3, <2>5
<1> QED BY <1>7, <1>8, <1>9

(* A word goes to the buffer. *)
LEMMA DrainTake ==
  ASSUME FlashTypes, Sane, Proceed, NEW s \in Sections, Proper(s),
         NEW p \in 0..5, NEW j \in Nat, Stage(s, p, j), ReadByCore(s),
         NEW off \in 0..s.n, NEW k \in 1..Sector, NEW more \in BOOLEAN,
         DrainAt(s, p, j, off, k, 0, more)
  PROVE  FlashInv'
<1>1. s.n \in Nat /\ off \in Nat /\ k \in Nat \ {0} /\ Sector \in Nat /\ W \in Nat \ {0} /\ k > 0
  <2>1. s.n \in Nat /\ Sector \in Nat /\ W \in Nat \ {0}
    BY Geometry DEF Sections
  <2> QED BY <2>1
<1>2. Past(k, 1) = 1
  BY <1>1, PastType
<1>3. /\ off % W = 0 /\ Wire(s, Len(Segs(s)), Taken(s, Len(Segs(s)), 0), p, j, off \div W)
      /\ off + k <= s.n /\ (more => (off + k) % W = 0) /\ Len(rx) >= Ceil(k)
      /\ ~more => off + k = s.n
  BY DEF DrainAt
<1>4. script[1] = Step("rx", off, k)
  <2>1. script[0+1] = Step("rx", off, k)
    BY <1>1 DEF DrainAt
  <2> QED BY <2>1
<1>5. Len(script) >= 1 + (IF more THEN 1 ELSE 0) /\ Len(script) \in Nat
  <2>1. Len(script) >= (0 + 1) + (IF more THEN 1 ELSE 0)
    BY <1>2 DEF DrainAt
  <2>2. Len(script) \in Nat
    BY DEF FlashTypes, DriverTypes
  <2> QED BY <2>1, <2>2
<1>6. more => script[2] = Step("drain", off + k, s.n - off - k)
  <2>1. more => script[(0+1)+1] = Step("drain", off + k, s.n - off - k)
    BY <1>2 DEF DrainAt
  <2> QED BY <2>1
<1>7. LegitFrom(1 + (IF more THEN 2 ELSE 1))
  <2>1. LegitFrom((0 + 1) + (IF more THEN 2 ELSE 1))
    BY <1>2 DEF DrainAt
  <2> QED BY <2>1
<1>8. script # <<>> /\ Head(script) = script[1]
  <2>1. Len(script) >= 1
    BY <1>5
  <2> QED BY <1>5, <2>1, NotEmpty, ScriptHead
<1>9. Head(script).k = "rx" /\ Now.k = "rx" /\ Now.off = off /\ Now.n = k /\ script[1].k # "ready"
  BY <1>4, <1>8 DEF Step, Now
<1>10. SpiReadWord
  BY <1>9, HeadsA
<1>11. /\ off \div W \in Nat /\ (off + W) % W = 0 /\ (off + W) \div W = (off \div W) + 1
       /\ k <= W => Ceil(off + k) = (off \div W) + 1 /\ ((off + k) % W = 0 => k = W)
       /\ Ceil(k) \in Nat /\ Ceil(k) >= 1
       /\ k > W => Ceil(k - W) = Ceil(k) - 1
  BY <1>1, <1>3, WordNext
<1>12. rx # <<>> /\ Len(rx) \in Nat
  <2>1. Len(rx) \in Nat /\ rx \in Seq(RxWords)
    BY DEF FlashTypes, HostTypes
  <2>2. Len(<<>>) = 0
    OBVIOUS
  <2>3. Len(rx) # 0
    BY <1>3, <1>11, <2>1
  <2> QED BY <2>1, <2>2, <2>3
<1>13. /\ UNCHANGED <<chipVars, call, pre, up, dma, critical, cmds, tx>> /\ rx' = Tail(rx)
       /\ script' = Words("rx", off + Lesser(W, k), k - Lesser(W, k)) \o Tail(script)
  BY <1>9, <1>10, <1>12 DEF SpiReadWord, NextWord, Bytewise, dmaVars, drvVars
<1>14. Sane'
  BY <1>8, <1>9, <1>13, GoKind, SaneHere
<1>15. Wire(s, Len(Segs(s)), Taken(s, Len(Segs(s)), 0), p, j, (off \div W) + 1)'
  <2>1. rx \in Seq(RxWords)
    BY DEF FlashTypes, HostTypes
  <2> QED BY <1>3, <1>11, <1>12, <1>13, <2>1, WireTake
<1>16. CASE k > W
  <2>1. Lesser(W, k) = W /\ k - W # 0
    BY <1>1, <1>16 DEF Lesser
  <2>2. script' = << Step("rx", off + W, k - W) >> \o Tail(script)
    BY <1>13, <2>1 DEF Words
  <2>3. /\ Len(script') = Len(script) /\ script'[1] = Step("rx", off + W, k - W)
        /\ \A m \in 2..Len(script) : script'[m] = script[m]
        /\ \A d \in Nat : d >= 2 /\ LegitFrom(d) => LegitFrom(d)'
    BY <1>8, <1>13, <2>2, Replaced
  <2>4. PICK o \in 0..s.n, k2 \in 0..Sector : o = off + W /\ k2 = k - W
    <3>1. off + W \in 0..s.n /\ k - W \in 0..Sector
      BY <1>1, <1>3, <1>16
    <3> QED BY <3>1
  <2>5. o + k2 = off + k /\ s.n - o - k2 = s.n - off - k /\ k2 > 0 /\ k2 \in Nat
    BY <1>1, <1>16, <2>4
  <2>6. o % W = 0 /\ o \div W = (off \div W) + 1 /\ Ceil(k2) = Ceil(k) - 1
    BY <1>11, <1>16, <2>4
  <2>7. Len(rx') >= Ceil(k2)
    <3>1. Len(rx') = Len(rx) - 1
      <4>1. rx \in Seq(RxWords)
        BY DEF FlashTypes, HostTypes
      <4> QED BY <1>12, <1>13, <4>1, TailType
    <3> QED BY <1>3, <1>11, <1>12, <2>6, <3>1
  <2>8. more => script'[2] = Step("drain", o + k2, s.n - o - k2)
    <3>1. ASSUME more PROVE script'[2] = script[2]
      <4>1. 2 \in 2..Len(script)
        BY <1>5, <3>1
      <4> QED BY <2>3, <4>1
    <3> QED BY <1>6, <2>5, <3>1
  <2>9. LegitFrom(1 + (IF more THEN 2 ELSE 1))'
    <3>1. PICK d \in Nat : d = 1 + (IF more THEN 2 ELSE 1)
      OBVIOUS
    <3>2. d >= 2
      BY <3>1
    <3> QED BY <1>7, <2>3, <3>1, <3>2
  <2>10. PICK d \in 0..2, e \in Nat : d = 0 /\ e = 1
    OBVIOUS
  <2>11. e = d + Past(k2, 1) /\ d # 2 /\ d # 1 /\ ~(d >= 1)
    BY <2>5, <2>10, PastType
  <2>12. Len(script') >= e + (IF more THEN 1 ELSE 0)
    BY <1>5, <2>3, <2>10
  <2>13. script'[d+1] = Step("rx", o, k2)
    <3>1. d + 1 = 1
      BY <2>10
    <3> QED BY <2>3, <2>4, <3>1
  <2>14. more => script'[e+1] = Step("drain", o + k2, s.n - o - k2)
    <3>1. e + 1 = 2
      BY <2>10
    <3> QED BY <2>8, <3>1
  <2>15. LegitFrom(e + (IF more THEN 2 ELSE 1))'
    BY <2>9, <2>10
  <2>16. Wire(s, Len(Segs(s)), Taken(s, Len(Segs(s)), 0), p, j, o \div W)'
    BY <1>15, <2>6
  <2>17. o + k2 <= s.n /\ (more => (o + k2) % W = 0) /\ (~more => o + k2 = s.n)
    BY <1>3, <2>5
  <2>18. DrainAt(s, p, j, o, k2, d, more)'
    BY <2>5, <2>6, <2>7, <2>11, <2>12, <2>13, <2>14, <2>15, <2>16, <2>17, DrainMade
  <2> QED BY <1>13, <1>14, <2>18, DrainLands
<1>17. CASE k <= W /\ more
  <2>1. Lesser(W, k) = k /\ k - k = 0 /\ k = W
    BY <1>1, <1>3, <1>11, <1>17 DEF Lesser
  <2>2. script' = Tail(script)
    <3>1. Words("rx", off + Lesser(W, k), k - Lesser(W, k)) = <<>>
      BY <2>1 DEF Words
    <3>2. PICK b \in Seq(Items(call)) : b = Tail(script)
      BY <1>8, ScriptHead
    <3>3. <<>> \o b = b
      OBVIOUS
    <3> QED BY <1>13, <3>1, <3>2, <3>3
  <2>3. PICK o \in 0..s.n, k2 \in 0..Sector : o = off + W /\ k2 = 0
    <3>1. off + W \in 0..s.n /\ 0 \in 0..Sector
      BY <1>1, <1>3, <2>1
    <3> QED BY <3>1
  <2>4. o + k2 = off + k /\ s.n - o - k2 = s.n - off - k /\ ~(k2 > 0) /\ k2 \in Nat
    BY <1>1, <2>1, <2>3
  <2>5. o % W = 0 /\ o \div W = (off \div W) + 1 /\ Ceil(k2) = 0
    BY <1>11, <2>3, ZeroCounts
  <2>6. Len(rx') >= Ceil(k2)
    <3>1. Len(rx') = Len(rx) - 1
      <4>1. rx \in Seq(RxWords)
        BY DEF FlashTypes, HostTypes
      <4> QED BY <1>12, <1>13, <4>1, TailType
    <3> QED BY <1>3, <1>11, <1>12, <2>5, <3>1
  <2>7. script'[1] = Step("drain", o + k2, s.n - o - k2)
    <3>1. 1 + 1 <= Len(script)
      BY <1>5, <1>17
    <3>2. script'[1] = script[1+1]
      BY <1>8, <2>2, <3>1, NextAt
    <3>3. script'[1] = script[2]
      BY <3>2
    <3> QED BY <1>6, <1>17, <2>4, <3>3
  <2>8. LegitFrom(2)'
    <3>1. PICK x \in Nat \ {0} : x = 2
      OBVIOUS
    <3>2. LegitFrom(x+1)
      <4>1. x + 1 = 1 + (IF more THEN 2 ELSE 1)
        BY <1>17, <3>1
      <4> QED BY <1>7, <4>1
    <3>3. LegitFrom(x)'
      BY <1>8, <1>13, <2>2, <3>2, LegitNext
    <3> QED BY <3>1, <3>3
  <2>9. PICK d \in 0..2, e \in Nat : d = 0 /\ e = 0
    OBVIOUS
  <2>10. e = d + Past(k2, 1) /\ d # 2 /\ d # 1 /\ ~(d >= 1)
    BY <2>3, <2>9, PastType
  <2>11. Len(script') >= e + (IF more THEN 1 ELSE 0)
    <3>1. Len(script') = Len(script) - 1
      BY <1>8, <2>2, ScriptHead
    <3> QED BY <1>5, <1>17, <2>9, <3>1
  <2>12. script'[e+1] = Step("drain", o + k2, s.n - o - k2)
    <3>1. e + 1 = 1
      BY <2>9
    <3> QED BY <2>7, <3>1
  <2>13. LegitFrom(e + (IF more THEN 2 ELSE 1))'
    BY <1>17, <2>8, <2>9
  <2>14. Wire(s, Len(Segs(s)), Taken(s, Len(Segs(s)), 0), p, j, o \div W)'
    BY <1>15, <2>5
  <2>15. o + k2 <= s.n /\ (more => (o + k2) % W = 0) /\ (~more => o + k2 = s.n)
    BY <1>3, <2>4
  <2>16. DrainAt(s, p, j, o, k2, d, more)'
    BY <1>17, <2>4, <2>5, <2>6, <2>10, <2>11, <2>12, <2>13, <2>14, <2>15, DrainMade
  <2> QED BY <1>13, <1>14, <2>16, DrainLands
<1>18. CASE k <= W /\ ~more
  <2>1. Lesser(W, k) = k /\ k - k = 0
    BY <1>1, <1>18 DEF Lesser
  <2>2. script' = Tail(script)
    <3>1. Words("rx", off + Lesser(W, k), k - Lesser(W, k)) = <<>>
      BY <2>1 DEF Words
    <3>2. PICK b \in Seq(Items(call)) : b = Tail(script)
      BY <1>8, ScriptHead
    <3>3. <<>> \o b = b
      OBVIOUS
    <3> QED BY <1>13, <3>1, <3>2, <3>3
  <2>3. (off \div W) + 1 >= N(s)
    <3>1. N(s) = (off \div W) + 1
      BY <1>3, <1>11, <1>18 DEF N
    <3> QED BY <1>11, <3>1
  <2>4. s.kind \in ReadKinds /\ s.n > 0 /\ dma = NoDma /\ up /\ call.fn # "async"
    BY Geometry DEF ReadByCore, Proper
  <2>5. /\ cmds = <<>> /\ tx = <<>> /\ Tail(rx) = <<>> /\ frame = NoFrame /\ job = NoJob /\ ~asleep
    BY <1>3, <1>11, <1>12, <2>3, <2>4, ReadLast
  <2>6. cmds' = <<>> /\ tx' = <<>> /\ rx' = <<>> /\ dma' = NoDma /\ up'
    BY <1>13, <2>4, <2>5
  <2>7. LegitFrom(1)'
    <3>1. PICK x \in Nat \ {0} : x = 1
      OBVIOUS
    <3>2. LegitFrom(x+1)
      <4>1. x + 1 = 1 + (IF more THEN 2 ELSE 1)
        BY <1>18, <3>1
      <4> QED BY <1>7, <4>1
    <3>3. LegitFrom(x)'
      BY <1>8, <1>13, <2>2, <3>2, LegitNext
    <3> QED BY <3>1, <3>3
  <2>8. Resting'
    BY <1>13, <2>4, <2>5, <2>6, <2>7, Rests
  <2> QED BY <1>14, <2>8 DEF FlashInv, Flow
<1> QED BY <1>1, <1>16, <1>17, <1>18

(* The loop goes into its next turn. *)
LEMMA Three ==
  ASSUME NEW c, NEW x \in Items(c), NEW y \in Items(c), NEW z \in Items(c), NEW w \in Items(c)
  PROVE  /\ Sized(<< x, y >> \o << z >>, c, 3)
         /\ (<< x, y >> \o << z >>)[1] = x /\ (<< x, y >> \o << z >>)[2] = y /\ (<< x, y >> \o << z >>)[3] = z
         /\ Sized(<< x, y >> \o << z >> \o << w >>, c, 4)
         /\ (<< x, y >> \o << z >> \o << w >>)[1] = x /\ (<< x, y >> \o << z >> \o << w >>)[2] = y
         /\ (<< x, y >> \o << z >> \o << w >>)[3] = z /\ (<< x, y >> \o << z >> \o << w >>)[4] = w
<1> DEFINE a == << x, y >>
           b == << z >>
           d == << w >>
<1>1. Sized(a, c, 2) /\ a[1] = x /\ a[2] = y /\ Sized(b, c, 1) /\ b[1] = z /\ Sized(d, c, 1) /\ d[1] = w
  BY One, Two
<1>2. << x, y >> \o << z >> = Cat(a, b) /\ << x, y >> \o << z >> \o << w >> = Cat(Cat(a, b), d)
  BY DEF Cat
<1> HIDE DEF a, b, d
<1>3. /\ Sized(Cat(a, b), c, 3) /\ Cat(a, b)[1] = a[1] /\ Cat(a, b)[2] = a[2] /\ Cat(a, b)[3] = b[1]
  BY <1>1, Joined
<1>4. PICK e : e = Cat(a, b)
  OBVIOUS
<1>5. /\ Sized(Cat(e, d), c, 4) /\ Cat(e, d)[1] = e[1] /\ Cat(e, d)[2] = e[2] /\ Cat(e, d)[3] = e[3]
      /\ Cat(e, d)[4] = d[1]
  BY <1>1, <1>3, <1>4, Joined
<1> QED BY <1>1, <1>2, <1>3, <1>4, <1>5

Turn(c, off, n, l) ==
  \E k \in 0..n, more \in BOOLEAN, a \in Seq(Items(c)) :
    /\ a = DrainTurn(l) /\ (~more => k = n) /\ (more => k = RxDepth /\ k > 0)
    /\ k < RxDepth \/ k = RxDepth
    /\ Len(a) = 2 + Past(k, 1) + (IF more THEN 1 ELSE 0)
    /\ a[1] = Step("rxwm", 0, Ceil(k)) /\ a[2] = Step("rxwait", 0, 0)
    /\ k > 0 => a[3] = Step("rx", off, k)
    /\ more => a[4] = Step("drain", off + k, n - k)

(* What a turn of the loop asks for. *)
LEMMA DrainItems ==
  ASSUME NEW c, NEW off \in Nat, NEW n \in Nat, NEW l, l = Step("drain", off, n)
  PROVE  Turn(c, off, n, l)
<1> SUFFICES
    \E k \in 0..n, more \in BOOLEAN, a \in Seq(Items(c)) :
      /\ a = DrainTurn(l) /\ (~more => k = n) /\ (more => k = RxDepth /\ k > 0)
      /\ k < RxDepth \/ k = RxDepth
      /\ Len(a) = 2 + Past(k, 1) + (IF more THEN 1 ELSE 0)
      /\ a[1] = Step("rxwm", 0, Ceil(k)) /\ a[2] = Step("rxwait", 0, 0)
      /\ k > 0 => a[3] = Step("rx", off, k)
      /\ more => a[4] = Step("drain", off + k, n - k)
  BY DEF Turn
<1>1. RxDepth \in Nat \ {0} /\ RxDepth % W = 0
  BY DepthAssumption
<1>2. l.off = off /\ l.n = n
  BY DEF Step
<1>3. /\ \A m \in Nat : Step("rxwm", 0, Ceil(m)) \in Items(c)
      /\ Step("rxwait", 0, 0) \in Items(c)
      /\ \A m \in Nat \ {0} : Step("rx", off, m) \in Items(c)
      /\ \A x, m \in Nat : Step("drain", x, m) \in Items(c)
  <2>1. \A m \in Nat : Step("rxwm", 0, Ceil(m)) \in Items(c)
    BY StepType, CeilType
  <2>2. Step("rxwait", 0, 0) \in Items(c)
    BY StepType DEF Marks
  <2>3. \A m \in Nat \ {0} : Step("rx", off, m) \in Items(c)
    BY DEF Step, Items
  <2>4. \A x, m \in Nat : Step("drain", x, m) \in Items(c)
    BY StepType
  <2> QED BY <2>1, <2>2, <2>3, <2>4
<1>4. CASE n >= RxDepth
  <2>1. RxDepth \div W = Ceil(RxDepth)
    BY <1>1, CeilExact
  <2>2. PICK x, y, z, w : /\ x = Step("rxwm", 0, Ceil(RxDepth)) /\ y = Step("rxwait", 0, 0)
                          /\ z = Step("rx", off, RxDepth) /\ w = Step("drain", off + RxDepth, n - RxDepth)
    OBVIOUS
  <2>3. x \in Items(c) /\ y \in Items(c) /\ z \in Items(c) /\ w \in Items(c)
    <3>1. off + RxDepth \in Nat /\ n - RxDepth \in Nat /\ RxDepth \in Nat
      BY <1>1, <1>4
    <3> QED BY <1>1, <1>3, <2>2, <3>1
  <2>4. DrainTurn(l) = << x, y >> \o << z >> \o << w >>
    <3>1. Words("rx", l.off, RxDepth) = << z >>
      BY <1>1, <1>2, <2>2 DEF Words
    <3>2. Drain(l.off + RxDepth, l.n - RxDepth) = << w >>
      BY <1>2, <2>2 DEF Drain
    <3>3. l.n >= RxDepth
      BY <1>2, <1>4
    <3>4. DrainTurn(l) = << Step("rxwm", 0, RxDepth \div W), Step("rxwait", 0, 0) >>
                         \o Words("rx", l.off, RxDepth) \o Drain(l.off + RxDepth, l.n - RxDepth)
      BY <3>3 DEF DrainTurn
    <3> QED BY <2>1, <2>2, <3>1, <3>2, <3>4
  <2>5. PICK a : a = << x, y >> \o << z >> \o << w >>
    OBVIOUS
  <2>6. Sized(a, c, 4) /\ a[1] = x /\ a[2] = y /\ a[3] = z /\ a[4] = w
    <3>1. /\ Sized(<< x, y >> \o << z >> \o << w >>, c, 4)
          /\ (<< x, y >> \o << z >> \o << w >>)[1] = x /\ (<< x, y >> \o << z >> \o << w >>)[2] = y
          /\ (<< x, y >> \o << z >> \o << w >>)[3] = z /\ (<< x, y >> \o << z >> \o << w >>)[4] = w
      BY <2>3, Three
    <3> QED BY <2>5, <3>1
  <2>7. Past(RxDepth, 1) = 1 /\ RxDepth \in 0..n /\ RxDepth > 0
    BY <1>1, <1>4, PastType
  <2>8. a \in Seq(Items(c)) /\ Len(a) = 2 + Past(RxDepth, 1) + (IF TRUE THEN 1 ELSE 0)
    BY <2>6, <2>7 DEF Sized
  <2>9. a = DrainTurn(l)
    BY <2>4, <2>5
  <2> QED BY <2>2, <2>6, <2>7, <2>8, <2>9
<1>5. CASE n < RxDepth /\ n # 0
  <2>2. PICK x, y, z : /\ x = Step("rxwm", 0, Ceil(n)) /\ y = Step("rxwait", 0, 0) /\ z = Step("rx", off, n)
    OBVIOUS
  <2>3. x \in Items(c) /\ y \in Items(c) /\ z \in Items(c)
    BY <1>3, <1>5, <2>2
  <2>4. DrainTurn(l) = << x, y >> \o << z >>
    <3>1. Words("rx", l.off, l.n) = << z >>
      BY <1>2, <1>5, <2>2 DEF Words
    <3>2. ~(l.n >= RxDepth)
      BY <1>1, <1>2, <1>5
    <3>3. DrainTurn(l) = << Step("rxwm", 0, Ceil(l.n)), Step("rxwait", 0, 0) >> \o Words("rx", l.off, l.n)
      BY <3>2 DEF DrainTurn
    <3> QED BY <1>2, <2>2, <3>1, <3>3
  <2>5. PICK a : a = << x, y >> \o << z >>
    OBVIOUS
  <2>6. Sized(a, c, 3) /\ a[1] = x /\ a[2] = y /\ a[3] = z
    <3>1. /\ Sized(<< x, y >> \o << z >>, c, 3)
          /\ (<< x, y >> \o << z >>)[1] = x /\ (<< x, y >> \o << z >>)[2] = y
          /\ (<< x, y >> \o << z >>)[3] = z
      <4>1. PICK w : w = z
        OBVIOUS
      <4> QED BY <2>3, <4>1, Three
    <3> QED BY <2>5, <3>1
  <2>7. Past(n, 1) = 1 /\ n \in 0..n /\ n > 0
    BY <1>5, PastType
  <2>8. a \in Seq(Items(c)) /\ Len(a) = 2 + Past(n, 1) + (IF FALSE THEN 1 ELSE 0)
    BY <2>6, <2>7 DEF Sized
  <2>9. a = DrainTurn(l)
    BY <2>4, <2>5
  <2> QED BY <1>5, <2>2, <2>6, <2>7, <2>8, <2>9
<1>6. CASE n < RxDepth /\ n = 0
  <2> DEFINE a == << Step("rxwm", 0, Ceil(n)), Step("rxwait", 0, 0) >>
  <2>1. DrainTurn(l) = a
    BY <1>1, <1>2, <1>6 DEF DrainTurn, Words
  <2>2. a \in Seq(Items(c))
    BY <1>3, <1>6
  <2>3. Past(n, 1) = 0 /\ n \in 0..n /\ ~(n > 0)
    BY <1>6, PastType
  <2>4. Len(a) = 2
    OBVIOUS
  <2>5. a[1] = Step("rxwm", 0, Ceil(n)) /\ a[2] = Step("rxwait", 0, 0)
    OBVIOUS
  <2>6. PICK b : b = a
    OBVIOUS
  <2>7. Len(b) = 2 + Past(n, 1) + (IF FALSE THEN 1 ELSE 0)
    BY <2>3, <2>4, <2>6
  <2> HIDE DEF a
  <2> QED BY <1>6, <2>1, <2>2, <2>3, <2>5, <2>6, <2>7
<1> QED BY <1>1, <1>4, <1>5, <1>6

(* A function is entered: its body replaces the call on the script. *)
LEMMA UnfoldHead ==
  ASSUME FlashTypes, Proceed, script # <<>>, Head(script).k \in Bodies
  PROVE  /\ script' = Body(Head(script)) \o Tail(script)
         /\ UNCHANGED <<chipVars, cmds, tx, rx, rxwm, dma, critical, call, buf, reg, res, up, pre>>
<1>1. Unfold
  BY HeadsA
<1> QED BY <1>1 DEF Unfold, Now, hostVars, dmaVars, drvVars

(* Where the accesses of a function or a turn go. *)
LEMMA Placed ==
  ASSUME FlashTypes, script # <<>>, UNCHANGED call, NEW a \in Seq(Items(call)), script' = a \o Tail(script)
  PROVE  /\ Len(a) \in Nat /\ Len(script) \in Nat /\ Len(script') = Len(a) + Len(script) - 1
         /\ \A m \in 1..Len(a) : script'[m] = a[m]
         /\ \A m \in 2..Len(script) : script'[Len(a) + m - 1] = script[m]
         /\ LegitFrom(2) => LegitFrom(Len(a) + 1)'
<1>1. PICK b \in Seq(Items(call)) : /\ b = Tail(script) /\ Len(b) = Len(script) - 1 /\ Len(script) \in Nat
                                     /\ \A k \in 1..Len(b) : b[k] = script[k+1]
  BY Remains
<1>2. /\ Len(script') = Len(a) + Len(b) /\ Len(a) \in Nat /\ Len(b) \in Nat
      /\ \A k \in 1..Len(a) : script'[k] = a[k]
      /\ \A k \in 1..Len(b) : script'[Len(a) + k] = b[k]
  <2>1. /\ Len(a \o b) = Len(a) + Len(b) /\ Len(a) \in Nat /\ Len(b) \in Nat
        /\ \A k \in 1..Len(a) : (a \o b)[k] = a[k]
        /\ \A k \in 1..Len(b) : (a \o b)[Len(a) + k] = b[k]
    BY JoinAt
  <2> QED BY <1>1, <2>1
<1>3. Len(script') = Len(a) + Len(script) - 1
  BY <1>1, <1>2
<1>4. ASSUME NEW m \in 2..Len(script) PROVE script'[Len(a) + m - 1] = script[m]
  <2>1. PICK x : x = m - 1
    OBVIOUS
  <2>2. x \in 1..Len(b) /\ Len(a) + x = Len(a) + m - 1 /\ x + 1 = m
    <3>1. x \in 1..Len(b) /\ x + 1 = m
      <4>1. Len(b) = Len(script) - 1 /\ Len(script) \in Nat
        BY <1>1
      <4> QED BY <2>1, <4>1
    <3>2. Len(a) \in Nat
      BY <1>2
    <3>3. Len(a) + x = Len(a) + m - 1
      BY <2>1, <3>1, <3>2
    <3> QED BY <3>1, <3>3
  <2>3. script'[Len(a) + x] = b[x]
    BY <1>2, <2>2
  <2>4. b[x] = script[x + 1]
    BY <1>1, <2>2
  <2> QED BY <2>2, <2>3, <2>4
<1>5. ASSUME LegitFrom(2) PROVE LegitFrom(Len(a) + 1)'
  <2> SUFFICES ASSUME NEW m \in Len(a)+1..Len(script') PROVE Legit(script[m])'
    BY DEF LegitFrom
  <2>1. PICK x : x = m - Len(a)
    OBVIOUS
  <2>2. x \in 1..Len(b) /\ Len(a) + x = m /\ x + 1 \in 2..Len(script)
    <3>1. \A u, v, n \in Nat : \A z \in u+1..u+v : z - u \in 1..v /\ u + (z - u) = z
      OBVIOUS
    <3>2. m \in Len(a)+1..Len(a)+Len(b) /\ Len(a) \in Nat /\ Len(b) \in Nat
      BY <1>2
    <3>3. x \in 1..Len(b) /\ Len(a) + x = m
      BY <2>1, <3>1, <3>2
    <3>4. Len(b) = Len(script) - 1 /\ Len(script) \in Nat
      BY <1>1
    <3>5. x + 1 \in 2..Len(script)
      BY <3>3, <3>4
    <3> QED BY <3>3, <3>5
  <2>3. PICK y : y = b[x]
    OBVIOUS
  <2>4. script'[m] = y /\ y = script[x+1]
    BY <1>1, <1>2, <2>2, <2>3
  <2>5. Legit(y)
    BY <1>5, <2>2, <2>4 DEF LegitFrom
  <2>6. Legit(y)'
    BY <2>5, LegitStays
  <2> QED BY <2>4, <2>6
<1> QED BY <1>1, <1>2, <1>3, <1>4, <1>5

(* The sum of multiples is a multiple. *)
LEMMA MultiplesAdd ==
  ASSUME NEW w \in Nat \ {0}, NEW x \in Nat, NEW y \in Nat, x % w = 0, y % w = 0
  PROVE  (x + y) % w = 0
<1>1. x \div w \in Nat /\ x = w * (x \div w) + (x % w) /\ y \div w \in Nat /\ y = w * (y \div w) + (y % w)
  BY Divide
<1> DEFINE u == x \div w
           v == y \div w
<1>2. x + y = w * u + w * v
  BY <1>1
<1>3. w * u + w * v = w * (u + v)
  BY <1>1, SMT
<1> HIDE DEF u, v
<1>4. u + v \in Nat
  BY <1>1 DEF u, v
<1>5. \A z \in Nat : (w * z) % w = 0
  BY SMT
<1> QED BY <1>2, <1>3, <1>4, <1>5

(* The next turn of the loop begins. *)
LEMMA DrainUnfold ==
  ASSUME FlashTypes, Sane, Proceed, NEW s \in Sections, Proper(s),
         NEW p \in 0..5, NEW j \in Nat, Stage(s, p, j), ReadByCore(s),
         NEW off \in 0..s.n, DrainAt(s, p, j, off, 0, 0, TRUE)
  PROVE  FlashInv'
<1>1. s.n \in Nat /\ off \in Nat /\ s.n <= Sector /\ Sector \in Nat /\ W \in Nat \ {0} /\ s.n - off \in Nat
  <2>1. s.n \in Nat /\ Sector \in Nat /\ W \in Nat \ {0} /\ s.n <= Sector
    BY Geometry DEF Sections, ReadByCore, Proper
  <2> QED BY <2>1
<1>2. 0 \in Nat /\ Past(0, 1) = 0
  BY DEF Past
<1>3. /\ off % W = 0 /\ Wire(s, Len(Segs(s)), Taken(s, Len(Segs(s)), 0), p, j, off \div W)
  BY DEF DrainAt
<1>4. script[1] = Step("drain", off, s.n - off)
  <2>1. script[(0 + Past(0, 1)) + 1] = Step("drain", off + 0, s.n - off - 0)
    BY DEF DrainAt
  <2>2. off + 0 = off /\ s.n - off - 0 = s.n - off /\ (0 + Past(0, 1)) + 1 = 1
    BY <1>1, <1>2
  <2> QED BY <2>1, <2>2
<1>5. LegitFrom(2)
  <2>1. LegitFrom((0 + Past(0, 1)) + 2)
    BY DEF DrainAt
  <2>2. (0 + Past(0, 1)) + 2 = 2
    BY <1>2
  <2> QED BY <2>1, <2>2
<1>6. script # <<>> /\ Head(script) = script[1]
  <2>1. Len(script) >= (0 + Past(0, 1)) + 1
    BY DEF DrainAt
  <2>2. Len(script) \in Nat
    BY DEF FlashTypes, DriverTypes
  <2>3. Len(script) >= 1
    BY <1>2, <2>1, <2>2
  <2> QED BY <2>2, <2>3, NotEmpty, ScriptHead
<1>7. Head(script).k = "drain" /\ Head(script).k \in Bodies /\ script[1].k # "ready"
  BY <1>4, <1>6 DEF Step, Bodies
<1>8. /\ script' = DrainTurn(Head(script)) \o Tail(script)
      /\ UNCHANGED <<chipVars, cmds, tx, rx, rxwm, dma, critical, call, buf, reg, res, up, pre>>
  <2>1. Body(Head(script)) = DrainTurn(Head(script))
    BY <1>7 DEF Body
  <2> QED BY <1>6, <1>7, <2>1, UnfoldHead
<1>9. Sane'
  <2>1. script[1] # Go
    BY <1>7, GoKind
  <2> QED BY <1>6, <1>8, <2>1, SaneHere
<1>10. PICK n \in Nat : n = s.n - off
  BY <1>1
<1>11. PICK l : l = Step("drain", off, n)
  OBVIOUS
<1>12. PICK k \in 0..n, more \in BOOLEAN, a \in Seq(Items(call)) :
         /\ a = DrainTurn(l) /\ (~more => k = n) /\ (more => k = RxDepth /\ k > 0)
         /\ k < RxDepth \/ k = RxDepth
         /\ Len(a) = 2 + Past(k, 1) + (IF more THEN 1 ELSE 0)
         /\ a[1] = Step("rxwm", 0, Ceil(k)) /\ a[2] = Step("rxwait", 0, 0)
         /\ k > 0 => a[3] = Step("rx", off, k)
         /\ more => a[4] = Step("drain", off + k, n - k)
  <2>1. PICK c : c = call
    OBVIOUS
  <2>2. Turn(c, off, n, l)
    <3>1. off \in Nat /\ n \in Nat
      BY <1>1
    <3> QED BY <1>11, <3>1, DrainItems
  <2> QED BY <2>1, <2>2 DEF Turn
<1>13. Head(script) = l /\ script' = a \o Tail(script)
  BY <1>4, <1>6, <1>8, <1>10, <1>11, <1>12
<1>14. /\ Len(a) \in Nat /\ Len(script) \in Nat /\ Len(script') = Len(a) + Len(script) - 1
       /\ \A m \in 1..Len(a) : script'[m] = a[m]
       /\ LegitFrom(Len(a) + 1)'
  BY <1>5, <1>6, <1>8, <1>13, Placed
<1>15. k \in Nat /\ k <= s.n /\ k \in 0..Sector /\ off + k <= s.n /\ n - k = s.n - off - k
       /\ (n = k => off + k = s.n)
  BY <1>1, <1>10
<1>16. Past(k, 1) \in {0, 1} /\ (k > 0 => Past(k, 1) = 1) /\ (k = 0 => Past(k, 1) = 0)
  BY <1>15, PastType
<1>17. Len(a) >= 2 /\ (k > 0 => Len(a) >= 3) /\ (more => Len(a) >= 4 /\ Past(k, 1) = 1)
  BY <1>12, <1>16
<1>18. script'[1] = Step("rxwm", 0, Ceil(k)) /\ script'[2] = Step("rxwait", 0, 0)
  <2>1. 1 \in 1..Len(a) /\ 2 \in 1..Len(a)
    BY <1>14, <1>17
  <2> QED BY <1>12, <1>14, <2>1
<1>19. k > 0 => script'[3] = Step("rx", off, k)
  <2>1. k > 0 => 3 \in 1..Len(a)
    BY <1>14, <1>17
  <2> QED BY <1>12, <1>14, <2>1
<1>20. more => script'[4] = Step("drain", off + k, s.n - off - k)
  <2>1. more => 4 \in 1..Len(a)
    BY <1>14, <1>17
  <2> QED BY <1>12, <1>14, <1>15, <2>1
<1>21. more => (off + k) % W = 0
  <2>1. RxDepth \in Nat /\ RxDepth % W = 0
    BY DepthAssumption
  <2>2. \A x, y \in Nat : x % W = 0 /\ y % W = 0 => (x + y) % W = 0
    BY <1>1, MultiplesAdd
  <2> QED BY <1>1, <1>3, <1>12, <2>1, <2>2
<1>22. PICK d \in 0..2, e \in Nat : d = 2 /\ e = 2 + Past(k, 1)
  BY <1>16
<1>23. e = d + Past(k, 1) /\ d # 0 /\ d # 1 /\ d >= 1 /\ e \in Nat
  BY <1>16, <1>22
<1>24. script'[1] = Step("rxwm", 0, Ceil(k)) /\ script'[d] = Step("rxwait", 0, 0)
  BY <1>18, <1>22
<1>25. k > 0 => script'[d+1] = Step("rx", off, k)
  <2>1. d + 1 = 3
    BY <1>22
  <2> QED BY <1>19, <2>1
<1>26. more => script'[e+1] = Step("drain", off + k, s.n - off - k)
  <2>1. more => e + 1 = 4
    BY <1>17, <1>22
  <2> QED BY <1>20, <2>1
<1>27. Len(script') >= e + (IF more THEN 1 ELSE 0)
  <2>1. Len(script) >= 1
    <3>1. Len(script) \in Nat \ {0}
      BY <1>6, ScriptHead
    <3> QED BY <3>1
  <2>2. Len(script') >= Len(a)
    BY <1>14, <2>1
  <2>3. Len(a) = e + (IF more THEN 1 ELSE 0)
    BY <1>12, <1>22
  <2> QED BY <2>2, <2>3
<1>28. LegitFrom(e + (IF more THEN 2 ELSE 1))'
  <2>1. Len(a) + 1 = e + (IF more THEN 2 ELSE 1)
    <3>1. Len(a) = e + (IF more THEN 1 ELSE 0)
      BY <1>12, <1>22
    <3>2. CASE more
      BY <1>23, <3>1, <3>2
    <3>3. CASE ~more
      BY <1>23, <3>1, <3>3
    <3> QED BY <3>2, <3>3
  <2> QED BY <1>14, <2>1
<1>29. Wire(s, Len(Segs(s)), Taken(s, Len(Segs(s)), 0), p, j, off \div W)'
  BY <1>3, <1>8, WireStays
<1>30. (~more => off + k = s.n)
  BY <1>12, <1>15
<1>31. DrainAt(s, p, j, off, k, d, more)'
  BY <1>3, <1>15, <1>21, <1>23, <1>24, <1>25, <1>26, <1>27, <1>28, <1>29, <1>30, DrainMade
<1> QED BY <1>8, <1>9, <1>15, <1>31, DrainLands

(* Every access of the loop that empties the FIFO keeps the invariant. *)
LEMMA DrainStep ==
  ASSUME FlashTypes, Sane, Proceed, NEW s \in Sections, Proper(s),
         NEW p \in 0..5, NEW j \in Nat, Stage(s, p, j), Draining(s, p, j)
  PROVE  FlashInv'
<1>1. ReadByCore(s) /\ \E off \in 0..s.n, k \in 0..Sector, d \in 0..2, more \in BOOLEAN :
                         DrainAt(s, p, j, off, k, d, more)
  BY DrainingIs
<1>2. PICK off \in 0..s.n, k \in 0..Sector, d \in 0..2, more \in BOOLEAN : DrainAt(s, p, j, off, k, d, more)
  BY <1>1
<1>3. CASE d \in 1..2
  BY <1>1, <1>2, <1>3, DrainWait
<1>4. CASE d = 0 /\ k \in 1..Sector
  BY <1>1, <1>2, <1>4, DrainTake
<1>5. CASE d = 0 /\ k = 0
  <2>1. more = TRUE
    BY <1>2, <1>5 DEF DrainAt
  <2> QED BY <1>1, <1>2, <1>5, <2>1, DrainUnfold
<1>6. Sector \in Nat
  BY Geometry
<1> QED BY <1>3, <1>4, <1>5, <1>6

(***************************************************************************)
(* The data of a program.                                                  *)
(***************************************************************************)
(* What comes behind the first d accesses now comes behind the first e.    *)
Carries(d, e) ==
  /\ Len(script) \in Nat /\ Len(script) >= d /\ Len(script') = (Len(script) - d) + e
  /\ \A m \in 1..Len(script)-d : script'[e+m] = script[d+m]

(* Further down the script it is the same. *)
LEMMA CarriesOn ==
  ASSUME NEW d \in Nat, NEW e \in Nat, Carries(d, e), NEW x \in Nat
  PROVE  Len(script) >= d + x => Carries(d + x, e + x)
<1> DEFINE l == Len(script)
           m == Len(script')
<1>1. l \in Nat /\ l >= d /\ m = (l - d) + e /\ \A k \in 1..l-d : script'[e+k] = script[d+k]
  BY DEF Carries
<1> HIDE DEF l, m
<1>2. SUFFICES ASSUME l >= d + x PROVE Carries(d + x, e + x)
  BY DEF l
<1>3. m = (l - (d + x)) + (e + x)
  BY <1>1, <1>2
<1>4. ASSUME NEW k \in 1..l-(d+x) PROVE script'[(e + x) + k] = script[(d + x) + k]
  <2>1. x + k \in 1..l-d /\ (e + x) + k = e + (x + k) /\ (d + x) + k = d + (x + k)
    BY <1>1, <1>2
  <2>2. PICK z \in 1..l-d : z = x + k
    BY <2>1
  <2>3. script'[e + z] = script[d + z]
    BY <1>1
  <2> QED BY <2>1, <2>2, <2>3
<1> QED BY <1>1, <1>2, <1>3, <1>4 DEF Carries, l, m

(* What is carried over is legitimate still. *)
LEMMA CarriesLegit ==
  ASSUME UNCHANGED call, NEW d \in Nat, NEW e \in Nat, Carries(d, e), LegitFrom(d+1)
  PROVE  LegitFrom(e+1)'
<1> SUFFICES ASSUME NEW m \in e+1..Len(script') PROVE Legit(script[m])'
  BY DEF LegitFrom
<1>1. Len(script) \in Nat /\ Len(script') = (Len(script) - d) + e /\ Len(script) >= d
  BY DEF Carries
<1>2. \A l, u, v \in Nat : \A z \in v+1..(l-u)+v : l >= u => z - v \in 1..l-u /\ v + (z - v) = z /\ u + (z - v) \in u+1..l
  OBVIOUS
<1>3. PICK x : x = m - e
  OBVIOUS
<1>4. x \in 1..Len(script)-d /\ e + x = m /\ d + x \in d+1..Len(script)
  BY <1>1, <1>2, <1>3
<1>5. PICK y : y = script[d+x]
  OBVIOUS
<1>6. script'[e+x] = y
  BY <1>4, <1>5 DEF Carries
<1>7. Legit(y)
  BY <1>4, <1>5 DEF LegitFrom
<1>8. Legit(y)'
  BY <1>7, LegitStays
<1> QED BY <1>4, <1>6, <1>8

(* The accesses ahead are carried over. *)
LEMMA CarriesAhead ==
  ASSUME NEW d \in Nat, NEW e \in Nat, Carries(d, e), NEW s \in Sections, NEW i \in 0..Length(s)-1, Ahead(s, i, d)
  PROVE  Ahead(s, i, e)'
<1>1. Length(s) \in Nat /\ i \in Nat /\ i < Length(s)
  BY LengthType
<1> DEFINE l == Len(script)
           m == Length(s)
           l2 == Len(script')
<1>2. l \in Nat /\ l >= d /\ l2 = (l - d) + e /\ \A k \in 1..l-d : script'[e+k] = script[d+k]
  BY DEF Carries
<1>3. l >= d + m - i /\ \A k \in 1..m-i : script[d+k] = SectionItems(s)[i+k]
  BY DEF Ahead, Length
<1>4. m \in Nat /\ i \in Nat /\ i < m
  BY <1>1
<1> HIDE DEF l, m, l2
<1>5. l2 >= e + m - i
  BY <1>2, <1>3, <1>4
<1>6. ASSUME NEW k \in 1..m-i PROVE script'[e+k] = SectionItems(s)[i+k]
  <2>1. k \in 1..l-d
    BY <1>2, <1>3, <1>4
  <2> QED BY <1>2, <1>3, <2>1
<1> QED BY <1>5, <1>6 DEF Ahead, m, l2, Length

(* The tail is carried over. *)
LEMMA CarriesBehind ==
  ASSUME NEW d \in Nat, NEW e \in Nat, Carries(d, e), NEW tail, Len(tail) \in Nat
  PROVE  Behind(d, tail) => Behind(e, tail)'
<1>1. SUFFICES ASSUME Behind(d, tail) PROVE Behind(e, tail)'
  OBVIOUS
<1> DEFINE l == Len(script)
           m == Len(tail)
           l2 == Len(script')
<1>2. l \in Nat /\ l >= d /\ l2 = (l - d) + e /\ \A k \in 1..l-d : script'[e+k] = script[d+k]
  BY DEF Carries
<1>3. l = d + m /\ m \in Nat /\ \A k \in 1..m : script[d+k] = tail[k]
  BY <1>1 DEF Behind
<1> HIDE DEF l, m, l2
<1>4. l2 = e + m
  BY <1>2, <1>3
<1>5. ASSUME NEW k \in 1..m PROVE script'[e+k] = tail[k]
  <2>1. k \in 1..l-d
    BY <1>2, <1>3
  <2> QED BY <1>2, <1>3, <2>1
<1> QED BY <1>4, <1>5 DEF Behind, m, l2

(* What follows the section is carried over. *)
LEMMA CarriesContinues ==
  ASSUME UNCHANGED <<call, up, job>>, NEW d \in Nat, NEW e \in Nat, Carries(d, e), NEW s, NEW p, Continues(s, p, d)
  PROVE  Continues(s, p, e)'
<1>1. LegitFrom(d+1) => LegitFrom(e+1)'
  BY CarriesLegit
<1>2. Len(script) > d /\ script[d+1] = Step("drain", 0, s.n) /\ LegitFrom(d+2)
        => Len(script') > e /\ script'[e+1] = Step("drain", 0, s.n) /\ LegitFrom(e+2)'
  <2> SUFFICES ASSUME Len(script) > d, script[d+1] = Step("drain", 0, s.n), LegitFrom(d+2)
               PROVE Len(script') > e /\ script'[e+1] = Step("drain", 0, s.n) /\ LegitFrom(e+2)'
    OBVIOUS
  <2>1. Len(script) \in Nat /\ Len(script') = (Len(script) - d) + e
    BY DEF Carries
  <2>2. Len(script') > e
    BY <2>1
  <2>3. 1 \in 1..Len(script)-d
    BY <2>1
  <2>4. script'[e+1] = script[d+1]
    BY <2>3 DEF Carries
  <2>5. PICK u \in Nat, v \in Nat : u = d + 1 /\ v = e + 1
    OBVIOUS
  <2>6. Carries(u, v)
    <3>1. Len(script) >= d + 1
      BY <2>1
    <3>2. Carries(d + 1, e + 1)
      BY <3>1, CarriesOn
    <3> QED BY <2>5, <3>2
  <2>7. u + 1 = d + 2 /\ v + 1 = e + 2
    BY <2>5
  <2>8. LegitFrom(u+1)
    BY <2>7
  <2>9. LegitFrom(v+1)'
    BY <2>6, <2>8, CarriesLegit
  <2> QED BY <2>2, <2>4, <2>7, <2>9
<1>3. /\ Behind(d, EnableTail) => Behind(e, EnableTail)'
      /\ Behind(d, CheckTail) => Behind(e, CheckTail)'
  BY TailFacts, CarriesBehind
<1>4. Behind(d, << Step("retqe", 0, 0) >>) => Behind(e, << Step("retqe", 0, 0) >>)'
  BY CarriesBehind
<1> QED BY <1>1, <1>2, <1>3, <1>4 DEF Continues

(* The counts of a program before and after its data. *)
LEMMA ProgramCounts ==
  ASSUME NEW s \in Sections, s.kind = "program", Proper(s)
  PROVE  /\ Length(s) = 17 /\ Issued(s, 6) = 2 /\ Issued(s, 7) = 2 /\ Pushed(s, 6) = 2
         /\ Pushed(s, 7) = 2 + N(s) /\ N(s) \in Nat /\ s.n \in Nat \ {0} /\ s.n <= Page
         /\ SectionItems(s)[7] = Step(IF s.via = "dma" THEN "dmatx" ELSE "txdata", s.off, s.n)
         /\ s.off \in Nat /\ s.kind \in Writes /\ s.kind \notin ReadKinds
<1>1. 0 \in 0..16
  OBVIOUS
<1>2. Length(s) = 17
  BY <1>1, ProgramTable
<1>3. Issued(s, 6) = 2 /\ Issued(s, 7) = 2 /\ Pushed(s, 6) = 2
  BY DEF Issued, Pushed, Past, Writes
<1>4. N(s) \in Nat
  BY LengthType
<1>5. Pushed(s, 7) = 2 + N(s)
  <2>1. Pushed(s, 7) = 1 + 1 + N(s) + 0
    BY DEF Pushed, Past, Writes
  <2> QED BY <1>4, <2>1
<1>6. s.n \in Nat \ {0} /\ s.n <= Page /\ s.off \in Nat
  BY Geometry DEF Proper, Sections
<1>7. SectionItems(s)[7] = Step(IF s.via = "dma" THEN "dmatx" ELSE "txdata", s.off, s.n)
  BY DEF SectionItems, WriteItems, Writes
<1> QED BY <1>2, <1>3, <1>4, <1>5, <1>6, <1>7 DEF Writes, ReadKinds

(* A word of data enters the transmit FIFO. *)
LEMMA DataPush ==
  ASSUME FlashTypes, NEW s \in Sections, s.kind = "program", Proper(s), NEW p, NEW j, NEW y \in Nat, y < N(s),
         Wire(s, 2, 2 + y, p, j, 0), NEW o, NEW n, tx' = Append(tx, DataWord(o, n)), UNCHANGED <<cmds, rx>>
  PROVE  Wire(s, 2, 2 + (y + 1), p, j, 0)'
<1>1. PICK U \in Nat : U = 2 + y
  OBVIOUS
<1>2. PICK w : w = DataWord(o, n)
  OBVIOUS
<1>3. w.op = "data" /\ w.addr = 0
  BY <1>2 DEF DataWord
<1>4. WordOp(s, U+1) = "data" /\ WordAddr(s, U+1) = 0
  <2>1. U + 1 # 1 /\ U + 1 # 2 /\ U + 1 < 3 + N(s) /\ N(s) \in Nat
    BY <1>1, LengthType
  <2> QED BY <2>1, ProgramCounts DEF WordOp, WordAddr, Writes, ReadKinds
<1>5. IsWord(w, s, U+1)
  BY <1>3, <1>4 DEF IsWord
<1>6. tx \in Seq(TxWords) /\ Taken(s, p, j) \in Nat
  <2>1. Len(Segs(s)) \in 2..5
    BY LengthType
  <2>3. PICK Q \in Nat : Q = 2
    OBVIOUS
  <2>4. Q \in 0..Len(Segs(s)) /\ Wire(s, Q, 2 + y, p, j, 0)
    <3>0. PICK l : l = Len(Segs(s))
      OBVIOUS
    <3>4. l \in 2..5
      BY <2>1, <3>0
    <3>5. l \in Nat /\ Q <= l
      BY <2>3, <3>4
    <3>1. Q \in 0..Len(Segs(s))
      BY <3>0, <3>5
    <3>2. Wire(s, Q, 2 + y, p, j, 0)
      BY <2>3
    <3> QED BY <3>1, <3>2
  <2>2. Taken(s, p, j) \in Nat
    BY <2>4, WireTypes
  <2> QED BY <2>2 DEF FlashTypes, HostTypes
<1>7. Wire(s, 2, U, p, j, 0)
  BY <1>1
<1>8. Wire(s, 2, U+1, p, j, 0)'
  BY <1>2, <1>5, <1>6, <1>7, WirePush
<1>9. U + 1 = 2 + (y + 1)
  BY <1>1
<1> QED BY <1>8, <1>9

(* The data are all pushed: the segment that sends them comes next. *)
LEMMA AfterData ==
  ASSUME UNCHANGED <<chipVars, call, up, rx>>, Sane', NEW s \in Sections, s.kind = "program", Proper(s),
         NEW p \in 0..5, NEW j \in Nat, Stage(s, p, j), call.fn # "async",
         Ahead(s, 7, 0)', Continues(s, p, 10)', Wire(s, 2, 2 + N(s), p, j, 0)', dma' = NoDma
  PROVE  FlashInv'
<1>1. PICK i \in 0..16 : i = 7
  OBVIOUS
<1>2. Length(s) = 17 /\ Issued(s, i) = 2 /\ Pushed(s, i) = 2 + N(s) /\ s.kind \notin ReadKinds
  BY <1>1, ProgramCounts
<1>3. i < Len(SectionItems(s)) /\ Len(SectionItems(s)) - i = 10
  BY <1>1, <1>2 DEF Length
<1>4. Ahead(s, i, 0)' /\ Continues(s, p, Len(SectionItems(s)) - i)' /\ Wire(s, Issued(s, i), Pushed(s, i), p, j, 0)'
  BY <1>1, <1>2, <1>3
<1>5. OnTrack(s, i, p, j)'
  BY <1>2, <1>3, <1>4 DEF OnTrack
<1>6. Stage(s, p, j)'
  BY StageStays
<1>7. Tracked(s, p, j)'
  BY <1>5 DEF Tracked
<1>8. Flow'
  BY <1>6, <1>7, Lands
<1> QED BY <1>8 DEF FlashInv

(* There are more data to push. *)
LEMMA MoreData ==
  ASSUME UNCHANGED <<chipVars, call, up, rx>>, Sane', NEW s \in Sections, s.kind = "program", Proper(s),
         NEW p \in 0..5, NEW j \in Nat, Stage(s, p, j), call.fn # "async", NEW y \in Nat, InData(s, y, p, j)'
  PROVE  FlashInv'
<1>1. Stage(s, p, j)'
  BY StageStays
<1>2. Tracked(s, p, j)'
  BY DEF Tracked
<1>3. Flow'
  BY <1>1, <1>2, Lands
<1> QED BY <1>3 DEF FlashInv

(* The core writes a word of the data. *)
LEMMA DataCore ==
  ASSUME FlashTypes, Sane, Proceed, NEW s \in Sections, s.kind = "program", Proper(s),
         NEW p \in 0..5, NEW j \in Nat, Stage(s, p, j), call.fn # "async", NEW y \in Nat, y * W < s.n,
         script # <<>>, script[1] = Step("txdata", s.off + y * W, s.n - y * W), dma = NoDma,
         Wire(s, 2, 2 + y, p, j, 0), Ahead(s, 7, 1), Continues(s, p, 11)
  PROVE  FlashInv'
<1>1. /\ Length(s) = 17 /\ N(s) \in Nat /\ s.n \in Nat \ {0} /\ s.off \in Nat /\ W \in Nat \ {0}
  BY ProgramCounts, Geometry
<1>2. y * W \in Nat /\ (y + 1) * W = y * W + W /\ (y + 1) * W \in Nat
  BY <1>1, OneMore
<1>3. /\ y < N(s) /\ (s.n - y * W <= W => N(s) = y + 1)
  BY <1>1, CeilLast DEF N
<1> DEFINE o == s.off + y * W
           n == s.n - y * W
<1>4. Head(script) = script[1] /\ script[1].k = "txdata" /\ script[1].off = o /\ script[1].n = n
  <2>1. Head(script) = script[1]
    BY ScriptHead
  <2> QED BY <2>1 DEF Step
<1>5. WriteData
  BY <1>4, HeadsA
<1>6. o \in Nat /\ n \in Nat \ {0}
  BY <1>1, <1>2
<1> HIDE DEF o, n
<1>7. /\ tx' = Append(tx, DataWord(o, Lesser(W, n)))
      /\ script' = Words("txdata", o + Lesser(W, n), n - Lesser(W, n)) \o Tail(script)
      /\ UNCHANGED <<chipVars, cmds, rx, rxwm, dma, critical, call, pre, up>>
  BY <1>4, <1>5 DEF WriteData, NextWord, Bytewise, Now, dmaVars, drvVars
<1>8. Sane'
  <2>1. script[1] # Go
    BY <1>4, GoKind
  <2> QED BY <1>7, <2>1, SaneHere
<1>9. Wire(s, 2, 2 + (y + 1), p, j, 0)'
  BY <1>3, <1>7, DataPush
<1>10. CASE n <= W
  <2>1. Lesser(W, n) = n /\ n - n = 0
    BY <1>1, <1>6, <1>10 DEF Lesser
  <2>2. script' = Tail(script)
    <3>1. Words("txdata", o + Lesser(W, n), n - Lesser(W, n)) = <<>>
      BY <2>1 DEF Words
    <3>2. PICK b \in Seq(Items(call)) : b = Tail(script)
      BY ScriptHead
    <3>3. <<>> \o b = b
      OBVIOUS
    <3> QED BY <1>7, <3>1, <3>2, <3>3
  <2>3. N(s) = y + 1
    BY <1>3, <1>10 DEF n
  <2>4. PICK d \in Nat \ {0}, x \in Nat \ {0}, i \in 0..Length(s)-1 : d = 1 /\ x = 11 /\ i = 7
    BY <1>1
  <2>5. Ahead(s, i, d) /\ Continues(s, p, x)
    BY <2>4
  <2>6. Ahead(s, i, d-1)'
    BY <2>2, <2>5, AheadNext
  <2>7. Continues(s, p, x-1)'
    BY <1>7, <2>2, <2>5, ContinuesNext DEF chipVars
  <2>8. d - 1 = 0 /\ x - 1 = 10
    BY <2>4
  <2>9. Ahead(s, 7, 0)' /\ Continues(s, p, 10)'
    BY <2>4, <2>6, <2>7, <2>8
  <2>10. Wire(s, 2, 2 + N(s), p, j, 0)'
    BY <1>9, <2>3
  <2> QED BY <1>7, <1>8, <2>9, <2>10, AfterData
<1>11. CASE n > W
  <2>1. Lesser(W, n) = W /\ n - W # 0
    BY <1>1, <1>6, <1>11 DEF Lesser
  <2>2. script' = << Step("txdata", o + W, n - W) >> \o Tail(script)
    BY <1>7, <2>1 DEF Words
  <2>3. /\ Len(script') = Len(script) /\ script'[1] = Step("txdata", o + W, n - W)
        /\ \A m \in 2..Len(script) : script'[m] = script[m]
    BY <1>7, <2>2, Replaced
  <2>4. PICK d \in Nat, x \in Nat, i \in 0..Length(s)-1 : d = 1 /\ x = 11 /\ i = 7
    BY <1>1
  <2>5. Len(script) \in Nat /\ Len(script) >= 11
    <3>1. Len(script) \in Nat
      BY DEF FlashTypes, DriverTypes
    <3>2. Len(script) >= 1 + Length(s) - 7
      BY DEF Ahead, Length
    <3> QED BY <1>1, <3>1, <3>2
  <2>6. Carries(d, d) /\ Carries(x, x)
    <3>1. ASSUME NEW z \in {1, 11} PROVE Carries(z, z)
      <4>1. z \in Nat /\ Len(script) >= z /\ Len(script') = (Len(script) - z) + z
        BY <2>3, <2>5
      <4>2. ASSUME NEW m \in 1..Len(script)-z PROVE script'[z+m] = script[z+m]
        <5>1. z + m \in 2..Len(script)
          BY <2>5, <4>1
        <5> QED BY <2>3, <5>1
      <4> QED BY <2>5, <4>1, <4>2 DEF Carries
    <3> QED BY <2>4, <3>1
  <2>7. Ahead(s, i, d) /\ Continues(s, p, x)
    BY <2>4
  <2>8. Ahead(s, i, d)'
    BY <2>6, <2>7, CarriesAhead
  <2>9. Continues(s, p, x)'
    BY <1>7, <2>6, <2>7, CarriesContinues DEF chipVars
  <2>10. PICK y2 \in Nat : y2 = y + 1
    OBVIOUS
  <2>11. o + W = s.off + y2 * W /\ n - W = s.n - y2 * W /\ y2 * W < s.n
    <3>1. y2 * W = y * W + W
      BY <1>2, <2>10
    <3>2. PICK v \in Nat : v = y * W
      BY <1>2
    <3>3. o = s.off + v /\ n = s.n - v /\ y2 * W = v + W
      BY <3>1, <3>2 DEF o, n
    <3>4. s.off \in Nat /\ s.n \in Nat /\ W \in Nat /\ n > W
      BY <1>1, <1>11
    <3> HIDE DEF o, n
    <3>6. o \in Int /\ n \in Int /\ v \in Int /\ s.off \in Int /\ s.n \in Int /\ W \in Int
      BY <1>6, <3>2, <3>4
    <3>10. PICK f \in Int, g \in Int : f = s.off /\ g = s.n
      BY <3>6
    <3>11. o = f + v /\ n = g - v
      BY <3>3, <3>10
    <3>12. /\ \A a, b, c \in Int : (a + b) + c = a + (b + c) /\ (a - b) - c = a - (b + c)
           /\ \A a, b, c \in Int : a - b > c => b + c < a
      OBVIOUS
    <3>13. PICK a \in Int, b \in Int : a = o /\ b = n
      BY <3>6
    <3>14. a = f + v /\ b = g - v
      BY <3>11, <3>13
    <3>15. W \in Int /\ v \in Int
      BY <3>6
    <3>16. a + W = f + (v + W)
      BY <3>14, <3>15
    <3>7. o + W = s.off + (v + W)
      BY <3>10, <3>13, <3>16
    <3>8. n - W = s.n - (v + W)
      BY <3>6, <3>10, <3>11, <3>12
    <3>9. v + W < s.n
      BY <3>4, <3>6, <3>10, <3>11, <3>12
    <3> QED BY <3>3, <3>7, <3>8, <3>9
  <2>12. y2 \in 0..N(s) /\ Wire(s, 2, 2 + y2, p, j, 0)'
    BY <1>1, <1>3, <1>9, <2>10
  <2>13. script'[1] = Step("txdata", s.off + y2 * W, s.n - y2 * W)
    BY <2>3, <2>11
  <2>14. d \in 1..2 /\ d = 1 /\ Ahead(s, 7, d)' /\ Continues(s, p, d + 10)'
    <3>1. d + 10 = x
      BY <2>4
    <3> QED BY <2>4, <2>8, <2>9, <3>1
  <2>15. InData(s, y2, p, j)'
    BY <1>7, <2>11, <2>12, <2>13, <2>14 DEF InData
  <2> QED BY <1>7, <1>8, <2>15, MoreData
<1> QED BY <1>1, <1>6, <1>10, <1>11

(* Whole words and the bytes that are left of the last one. *)
LEMMA Floor ==
  ASSUME NEW n \in Nat
  PROVE  /\ n \div W \in Nat /\ n % W \in Nat /\ n % W < W /\ (n \div W) * W = n - (n % W) /\ n % W <= n
         /\ n \div W <= Ceil(n) /\ (n % W = 0 => n \div W = Ceil(n)) /\ (n >= W => n \div W > 0)
<1>1. W \in Nat \ {0}
  BY Geometry
<1> DEFINE q == n \div W
           r == n % W
<1>2. q \in Nat /\ r \in Nat /\ r < W /\ n = W * q + r /\ r <= n
  BY <1>1, Divide
<1>3. W * q = q * W /\ W * q \in Nat
  BY <1>1, <1>2, SMT
<1>4. q * W = n - r
  <2> HIDE DEF q, r
  <2> QED BY <1>2, <1>3
<1>5. r = 0 => q = Ceil(n)
  BY CeilExact
<1>6. q <= Ceil(n)
  <2>1. CASE r = 0
    BY <1>2, <1>5, <2>1
  <2>2. CASE r # 0
    <3>1. q * W < n /\ n # 0
      <4> HIDE DEF q, r
      <4> QED BY <1>2, <1>4, <2>2
    <3>2. q < Ceil(n) /\ Ceil(n) \in Nat
      <4>1. n \in Nat \ {0}
        BY <3>1
      <4> QED BY <1>2, <3>1, <4>1, CeilLast
    <3> QED BY <1>2, <3>2
  <2> QED BY <2>1, <2>2
<1>7. n >= W => q > 0
  <2> SUFFICES ASSUME n >= W, q = 0 PROVE FALSE
    BY <1>2
  <2>1. q * W = 0
    BY <1>1, <1>2
  <2> HIDE DEF q, r
  <2> QED BY <1>1, <1>2, <1>4, <2>1
<1> QED BY <1>2, <1>4, <1>5, <1>6, <1>7

(* What it takes for the DMA to be in the middle of the data. *)
LEMMA DataMade ==
  ASSUME NEW s, s.kind = "program", NEW y \in 0..N(s), call'.fn # "async", NEW p, NEW j,
         Wire(s, 2, 2 + y, p, j, 0)', NEW d \in 1..2, Ahead(s, 7, d)', Continues(s, p, d + 10)',
         script'[1] = Await, s.via = "dma", d = 2 => s.n % W # 0, d = 1 => s.n % W = 0,
         d = 2 => script'[2] = Step("txdata", s.off + s.n - (s.n % W), s.n % W),
         IF y < s.n \div W
         THEN dma' = [dir |-> "tx", off |-> s.off + y * W, left |-> (s.n \div W) - y]
         ELSE y = s.n \div W /\ dma' = NoDma
  PROVE  InData(s, y, p, j)'
<1>1. d = 2 <=> s.n % W # 0
  <2>1. d = 1 \/ d = 2
    OBVIOUS
  <2> QED BY <2>1
<1> QED BY <1>1 DEF InData

(* The driver gives the whole words to the DMA. *)
LEMMA DataStarts ==
  ASSUME FlashTypes, Sane, Proceed, NEW s \in Sections, s.kind = "program", s.via = "dma", Proper(s),
         NEW p \in 0..5, NEW j \in Nat, Stage(s, p, j), call.fn # "async",
         script # <<>>, script[1] = Step("dmatx", s.off, s.n), dma = NoDma,
         Wire(s, 2, 2, p, j, 0), Ahead(s, 7, 1), Continues(s, p, 11)
  PROVE  FlashInv'
<1>1. /\ Length(s) = 17 /\ N(s) \in Nat /\ s.n \in Nat \ {0} /\ s.off \in Nat /\ W \in Nat \ {0} /\ s.n <= Page
  BY ProgramCounts, Geometry
<1>2. s.n >= W /\ Aligned(s.off)
  BY DEF Proper
<1>3. /\ s.n \div W \in Nat /\ s.n % W \in Nat /\ s.n \div W > 0 /\ s.n % W <= s.n
  BY <1>1, <1>2, Floor
<1>4. Head(script) = script[1] /\ script[1].k = "dmatx" /\ script[1].off = s.off /\ script[1].n = s.n
  <2>1. Head(script) = script[1]
    BY ScriptHead
  <2> QED BY <2>1 DEF Step
<1>5. DmaSendToFlash
  BY <1>4, HeadsA
<1>6. critical = {}
  BY DEF Sane
<1> DEFINE rest == s.n % W
           o == s.off + s.n - rest
           a == << Await >> \o Words("txdata", o, rest)
<1>7. /\ dma' = [dir |-> "tx", off |-> s.off, left |-> s.n \div W]
      /\ script' = a \o Tail(script) /\ UNCHANGED critical
  BY <1>2, <1>4, <1>5, <1>6 DEF DmaSendToFlash, Now, Aligned, Await
<1>8. UNCHANGED <<chipVars, cmds, tx, rx, rxwm, call, pre, up>>
  BY <1>5 DEF DmaSendToFlash, hostVars, drvVars
<1>9. Sane'
  <2>1. script[1] # Go
    BY <1>4, GoKind
  <2> QED BY <1>7, <1>8, <2>1, SaneHere
<1>10. Wire(s, 2, 2, p, j, 0)'
  BY <1>8, WireStays
<1>11. Await \in Items(call)
  BY StepType DEF Await, Marks
<1>12. LET d == IF rest = 0 THEN 1 ELSE 2 IN
         Sized(a, call, d) /\ a[1] = Await /\ (d = 2 => a[2] = Step("txdata", o, rest))
  <2>1. CASE rest = 0
    <3>1. a = << Await >>
      <4>1. Words("txdata", o, rest) = <<>>
        BY <2>1 DEF Words
      <4>2. << Await >> \in Seq(Items(call))
        BY <1>11
      <4>3. PICK u \in Seq(Items(call)) : u = << Await >>
        BY <4>2
      <4>4. u \o <<>> = u
        OBVIOUS
      <4> QED BY <4>1, <4>3, <4>4
    <3>2. Sized(<< Await >>, call, 1) /\ << Await >>[1] = Await
      BY <1>11, One
    <3>3. PICK d : d = IF rest = 0 THEN 1 ELSE 2
      OBVIOUS
    <3>4. d = 1
      BY <2>1, <3>3
    <3> HIDE DEF a
    <3>5. Sized(a, call, d) /\ a[1] = Await
      BY <3>1, <3>2, <3>4
    <3>6. d # 2
      BY <3>4
    <3> QED BY <3>3, <3>5, <3>6
  <2>2. CASE rest # 0
    <3>1. PICK x : x = Step("txdata", o, rest)
      OBVIOUS
    <3>2. x \in Items(call)
      <4>1. PICK b \in Seq(Items(call)) : b = script
        BY DEF FlashTypes, DriverTypes
      <4>2. script[1] \in Items(call)
        <5>1. Head(script) \in Items(call)
          BY HeadType
        <5> QED BY <1>4, <5>1
      <4>3. s.off + s.n <= SourceLen(call)
        BY <1>4, <4>2 DEF Items, Marks
      <4>4. SourceLen(call) \in Nat
        BY SourceLenType DEF FlashTypes, DriverTypes
      <4>5. o \in Nat /\ rest \in 1..Page /\ o + rest <= SourceLen(call)
        <5>1. rest \in Nat /\ rest <= s.n /\ rest # 0
          BY <1>3, <2>2
        <5> HIDE DEF rest
        <5>2. o + rest = s.off + s.n /\ o \in Nat
          BY <1>1, <5>1
        <5>3. Page \in Nat
          BY Geometry
        <5>4. rest \in 1..Page
          BY <1>1, <5>1, <5>3
        <5> QED BY <4>3, <5>2, <5>4
      <4>6. x = [k |-> "txdata", off |-> o, n |-> rest]
        BY <3>1 DEF Step
      <4> HIDE DEF o, rest
      <4> QED BY <4>5, <4>6 DEF Items
    <3>3. Words("txdata", o, rest) = << x >>
      BY <2>2, <3>1 DEF Words
    <3>4. PICK u, v : u = << Await >> /\ v = << x >>
      OBVIOUS
    <3>5. Sized(u, call, 1) /\ u[1] = Await /\ Sized(v, call, 1) /\ v[1] = x
      BY <1>11, <3>2, <3>4, One
    <3>6. Sized(Cat(u, v), call, 1 + 1) /\ Cat(u, v)[1] = u[1] /\ Cat(u, v)[1 + 1] = v[1]
      BY <3>5, Joined
    <3>7. a = Cat(u, v)
      BY <3>3, <3>4 DEF Cat
    <3>8. 1 + 1 = 2
      OBVIOUS
    <3> HIDE DEF a
    <3>9. Sized(a, call, 2) /\ a[1] = Await /\ a[2] = x
      BY <3>5, <3>6, <3>7, <3>8
    <3> QED BY <2>2, <3>1, <3>9
  <2> QED BY <2>1, <2>2
<1>13. PICK b, r, z : b = a /\ r = rest /\ z = o
  OBVIOUS
<1> HIDE DEF a
<1>14. PICK d \in 1..2 : d = IF r = 0 THEN 1 ELSE 2
  OBVIOUS
<1>15. Sized(b, call, d) /\ b[1] = Await /\ (d = 2 => b[2] = Step("txdata", z, r)) /\ script' = b \o Tail(script)
  BY <1>7, <1>12, <1>13, <1>14
<1>16. b \in Seq(Items(call)) /\ Len(b) = d
  BY <1>15 DEF Sized
<1>17. /\ Len(script) \in Nat /\ Len(script') = Len(b) + Len(script) - 1
       /\ \A m \in 1..Len(b) : script'[m] = b[m]
       /\ \A m \in 2..Len(script) : script'[Len(b) + m - 1] = script[m]
  <2>1. b \in Seq(Items(call)) /\ UNCHANGED call /\ script' = b \o Tail(script)
    BY <1>8, <1>15, <1>16
  <2> QED BY <2>1, Placed
<1>18. script'[1] = Await /\ (d = 2 => script'[2] = Step("txdata", z, r))
  <2>1. 1 \in 1..Len(b) /\ (d = 2 => 2 \in 1..Len(b))
    BY <1>16
  <2> QED BY <1>15, <1>17, <2>1
<1>19. Carries(1, d)
  <2>1. Len(script) >= 1
    <3>1. Len(script) \in Nat \ {0}
      BY ScriptHead
    <3> QED BY <3>1
  <2>2. Len(script') = (Len(script) - 1) + d
    BY <1>16, <1>17
  <2>3. ASSUME NEW m \in 1..Len(script)-1 PROVE script'[d+m] = script[1+m]
    <3>1. 1 + m \in 2..Len(script) /\ Len(b) + (1 + m) - 1 = d + m
      BY <1>16, <1>17
    <3>2. script'[Len(b) + (1 + m) - 1] = script[1 + m]
      BY <1>17, <3>1
    <3> QED BY <3>1, <3>2
  <2> QED BY <1>17, <2>1, <2>2, <2>3 DEF Carries
<1>20. PICK e \in Nat, x \in Nat, i \in 0..Length(s)-1, dn \in Nat : e = 1 /\ x = 10 /\ i = 7 /\ dn = d
  BY <1>1
<1>21. Ahead(s, 7, d)'
  <2>1. Carries(e, dn) /\ Ahead(s, i, e)
    BY <1>19, <1>20
  <2>2. Ahead(s, i, dn)'
    BY <2>1, CarriesAhead
  <2> QED BY <1>20, <2>2
<1>22. Continues(s, p, d + 10)'
  <2>1. Carries(e, dn) /\ Len(script) >= e + x /\ Continues(s, p, e + x)
    <3>1. e + x = 11
      BY <1>20
    <3>2. Len(script) >= 1 + Length(s) - 7
      BY DEF Ahead, Length
    <3>3. Len(script) >= e + x
      BY <1>1, <1>17, <3>1, <3>2
    <3> QED BY <1>19, <1>20, <3>1, <3>3
  <2>2. Carries(e + x, dn + x)
    BY <2>1, CarriesOn
  <2>3. PICK u \in Nat, v \in Nat : u = e + x /\ v = dn + x
    OBVIOUS
  <2>4. Carries(u, v) /\ Continues(s, p, u)
    BY <2>1, <2>2, <2>3
  <2>5. Continues(s, p, v)'
    BY <1>8, <2>4, CarriesContinues DEF chipVars
  <2>6. v = d + 10
    BY <1>20, <2>3
  <2> QED BY <2>5, <2>6
<1>23. PICK y \in 0..N(s) : y = 0
  BY <1>1
<1>24. IF y < s.n \div W
       THEN dma' = [dir |-> "tx", off |-> s.off + y * W, left |-> (s.n \div W) - y]
       ELSE y = s.n \div W /\ dma' = NoDma
  <2>1. y < s.n \div W /\ s.off + y * W = s.off /\ (s.n \div W) - y = s.n \div W
    <3>1. y * W = 0
      BY <1>1, <1>23
    <3>2. s.off + y * W = s.off
      BY <1>1, <3>1
    <3>3. (s.n \div W) - y = s.n \div W
      BY <1>3, <1>23
    <3> QED BY <1>3, <1>23, <3>2, <3>3
  <2> QED BY <1>7, <2>1
<1>25. Wire(s, 2, 2 + y, p, j, 0)'
  <2>1. 2 + y = 2
    BY <1>23
  <2> QED BY <1>10, <2>1
<1>26. (d = 2 => r # 0) /\ (d = 1 => r = 0)
  BY <1>14
<1>27. InData(s, y, p, j)'
  <2>1. r = s.n % W /\ z = s.off + s.n - (s.n % W)
    BY <1>13
  <2>2. d = 2 => script'[2] = Step("txdata", s.off + s.n - (s.n % W), s.n % W)
    BY <1>18, <2>1
  <2>3. (d = 2 => s.n % W # 0) /\ (d = 1 => s.n % W = 0)
    BY <1>26, <2>1
  <2>4. call'.fn # "async"
    BY <1>8
  <2> QED BY <1>18, <1>21, <1>22, <1>24, <1>25, <2>2, <2>3, <2>4, DataMade
<1>28. y \in Nat
  BY <1>23
<1> QED BY <1>8, <1>9, <1>27, <1>28, MoreData

(* What follows a section depends on script, call, up and job alone. *)
LEMMA ContinuesHere ==
  ASSUME UNCHANGED <<script, call, up, job>>, NEW s, NEW p, NEW d, Continues(s, p, d)
  PROVE  Continues(s, p, d)'
<1>1. LegitFrom(d+1) => LegitFrom(d+1)'
  BY LegitFromStays
<1>2. LegitFrom(d+2) => LegitFrom(d+2)'
  BY LegitFromStays
<1>3. \A tail : Behind(d, tail) => Behind(d, tail)'
  BY DEF Behind
<1> QED BY <1>1, <1>2, <1>3 DEF Continues

(* The data go by DMA. *)
ByDma(s, y, d) ==
  /\ Ahead(s, 7, d) /\ script[1] = Await /\ s.via = "dma"
  /\ (d = 2 => s.n % W # 0) /\ (d = 1 => s.n % W = 0)
  /\ d = 2 => script[2] = Step("txdata", s.off + s.n - (s.n % W), s.n % W)
  /\ IF y < s.n \div W
     THEN dma = [dir |-> "tx", off |-> s.off + y * W, left |-> (s.n \div W) - y]
     ELSE y = s.n \div W /\ dma = NoDma

(* The two ways of being in the data of a program: the core pushes, or     *)
(* the DMA does.                                                           *)
LEMMA InDataIs ==
  ASSUME NEW s, NEW y, NEW p, NEW j, InData(s, y, p, j)
  PROVE  /\ s.kind = "program" /\ y \in 0..N(s) /\ call.fn # "async" /\ Wire(s, 2, 2 + y, p, j, 0)
         /\ \/ /\ dma = NoDma /\ y * W < s.n /\ script[1] = Step("txdata", s.off + y * W, s.n - y * W)
               /\ Ahead(s, 7, 1) /\ Continues(s, p, 11)
            \/ \E d \in 1..2 : ByDma(s, y, d) /\ Continues(s, p, d + 10)
<1>1. s.kind = "program" /\ y \in 0..N(s) /\ call.fn # "async" /\ Wire(s, 2, 2 + y, p, j, 0)
  BY DEF InData
<1>2. PICK d \in 1..2 :
       /\ Ahead(s, 7, d) /\ Continues(s, p, d + 10)
       /\ \/ /\ d = 1 /\ dma = NoDma
             /\ y * W < s.n /\ script[1] = Step("txdata", s.off + y * W, s.n - y * W)
          \/ /\ script[1] = Await /\ s.via = "dma"
             /\ d = 2 <=> s.n % W # 0
             /\ d = 2 => script[2] = Step("txdata", s.off + s.n - (s.n % W), s.n % W)
             /\ IF y < s.n \div W
                THEN dma = [dir |-> "tx", off |-> s.off + y * W, left |-> (s.n \div W) - y]
                ELSE y = s.n \div W /\ dma = NoDma
  BY DEF InData
<1>3. CASE d = 1 /\ dma = NoDma /\ y * W < s.n /\ script[1] = Step("txdata", s.off + y * W, s.n - y * W)
  <2>1. Ahead(s, 7, 1)
    BY <1>2, <1>3
  <2>2. d + 10 = 11
    BY <1>3
  <2>3. Continues(s, p, 11)
    BY <1>2, <2>2
  <2> QED BY <1>1, <1>3, <2>1, <2>3
<1>4. CASE /\ script[1] = Await /\ s.via = "dma"
           /\ d = 2 <=> s.n % W # 0
           /\ d = 2 => script[2] = Step("txdata", s.off + s.n - (s.n % W), s.n % W)
           /\ IF y < s.n \div W
              THEN dma = [dir |-> "tx", off |-> s.off + y * W, left |-> (s.n \div W) - y]
              ELSE y = s.n \div W /\ dma = NoDma
  <2>1. (d = 2 => s.n % W # 0) /\ (d = 1 => s.n % W = 0)
    BY <1>4
  <2>2. ByDma(s, y, d)
    BY <1>2, <1>4, <2>1 DEF ByDma
  <2> QED BY <1>1, <1>2, <2>2
<1> QED BY <1>2, <1>3, <1>4

(* The DMA moves a word of the data. *)
LEMMA DataMoves ==
  ASSUME FlashTypes, Sane, DmaMove, dma.dir = "tx", NEW s \in Sections, Proper(s),
         NEW p \in 0..5, NEW j \in Nat, Stage(s, p, j), NEW y \in Nat, InData(s, y, p, j)
  PROVE  FlashInv'
<1>1. NoDma.dir # "tx"
  BY DEF NoDma
<1>2. s.kind = "program" /\ y \in 0..N(s) /\ call.fn # "async" /\ Wire(s, 2, 2 + y, p, j, 0)
  BY InDataIs
<1>3. PICK d \in 1..2 : ByDma(s, y, d) /\ Continues(s, p, d + 10)
  BY <1>1, InDataIs
<1>4. /\ N(s) \in Nat /\ s.n \in Nat \ {0} /\ s.off \in Nat /\ W \in Nat \ {0} /\ s.n \div W \in Nat
      /\ s.n \div W <= N(s)
  BY <1>2, ProgramCounts, Geometry, Floor DEF N
<1>5. y < s.n \div W /\ dma = [dir |-> "tx", off |-> s.off + y * W, left |-> (s.n \div W) - y]
  BY <1>1, <1>3 DEF ByDma
<1>6. dma.off = s.off + y * W /\ dma.left = (s.n \div W) - y /\ dma.dir = "tx"
  BY <1>5
<1>7. /\ tx' = Append(tx, DataWord(dma.off, W)) /\ UNCHANGED <<chipVars, cmds, rx, rxwm, critical, script, call, up, pre>>
      /\ dma' = IF dma.left = 1 THEN NoDma ELSE [dma EXCEPT !.off = @ + W, !.left = @ - 1]
  <2>1. dma.dir # "rx"
    BY <1>6
  <2> QED BY <2>1 DEF DmaMove
<1>8. y \in Nat /\ y < N(s)
  BY <1>4, <1>5
<1>9. Wire(s, 2, 2 + (y + 1), p, j, 0)'
  BY <1>2, <1>7, <1>8, DataPush
<1>10. PICK y2 \in 0..N(s) : y2 = y + 1
  BY <1>4, <1>8
<1>11. y * W \in Nat /\ y2 * W = y * W + W
  BY <1>4, <1>8, <1>10, OneMore
<1>12. IF y2 < s.n \div W
       THEN dma' = [dir |-> "tx", off |-> s.off + y2 * W, left |-> (s.n \div W) - y2]
       ELSE y2 = s.n \div W /\ dma' = NoDma
  <2> DEFINE q == s.n \div W
             o == s.off + y * W
  <2>1. q \in Nat /\ o \in Nat /\ dma = [dir |-> "tx", off |-> o, left |-> q - y] /\ y < q
    BY <1>4, <1>5, <1>11
  <2>2. o + W = s.off + y2 * W
    <3>1. PICK v \in Int, f \in Int : v = y * W /\ f = s.off
      BY <1>4, <1>11
    <3>2. o = f + v /\ y2 * W = v + W
      BY <1>11, <3>1
    <3>3. W \in Int
      BY <1>4
    <3>4. PICK a \in Int : a = o
      BY <2>1
    <3> HIDE DEF o
    <3>5. a = f + v
      BY <3>2, <3>4
    <3>6. a + W = f + (v + W)
      BY <3>3, <3>5
    <3> QED BY <3>1, <3>2, <3>4, <3>6
  <2> HIDE DEF q, o
  <2>3. CASE q - y = 1
    <3>1. y2 = q
      BY <1>8, <1>10, <2>1, <2>3
    <3>2. dma' = NoDma
      BY <1>7, <2>1, <2>3
    <3>3. ~(y2 < q)
      BY <2>1, <3>1
    <3> QED BY <3>1, <3>2, <3>3 DEF q
  <2>4. CASE q - y # 1
    <3>1. y2 < q /\ (q - y) - 1 = q - y2
      BY <1>8, <1>10, <2>1, <2>4
    <3>2. dma' = [dma EXCEPT !.off = @ + W, !.left = @ - 1]
      BY <1>7, <2>1, <2>4
    <3>3. dma' = [dir |-> "tx", off |-> o + W, left |-> (q - y) - 1]
      BY <2>1, <3>2
    <3> QED BY <2>2, <3>1, <3>3 DEF q
  <2> QED BY <2>3, <2>4
<1>13. Ahead(s, 7, d)' /\ Continues(s, p, d + 10)'
  <2>1. Ahead(s, 7, d)'
    BY <1>3, <1>7 DEF ByDma, Ahead
  <2>2. Continues(s, p, d + 10)'
    BY <1>3, <1>7, ContinuesHere DEF chipVars
  <2> QED BY <2>1, <2>2
<1>14. InData(s, y2, p, j)'
  <2>1. /\ s.via = "dma" /\ (d = 2 => s.n % W # 0) /\ (d = 1 => s.n % W = 0) /\ script'[1] = Await
        /\ d = 2 => script'[2] = Step("txdata", s.off + s.n - (s.n % W), s.n % W)
    BY <1>3, <1>7 DEF ByDma
  <2>2. Wire(s, 2, 2 + y2, p, j, 0)'
    BY <1>9, <1>10
  <2>3. call'.fn # "async"
    BY <1>2, <1>7
  <2> QED BY <1>2, <1>12, <1>13, <2>1, <2>2, <2>3, DataMade
<1>15. Sane'
  <2>1. Len(cmds') > CmdDepth => script' # <<>> /\ script'[1] = Go
    BY <1>7 DEF Sane
  <2>2. critical' = {}
    BY <1>7 DEF Sane
  <2> QED BY <1>7, <2>1, <2>2, SaneStays
<1>16. y2 \in Nat
  BY <1>8, <1>10
<1> QED BY <1>2, <1>7, <1>14, <1>15, <1>16, MoreData

(* The driver waits for the DMA. *)
LEMMA DataEnds ==
  ASSUME FlashTypes, Sane, Proceed, NEW s \in Sections, s.kind = "program", Proper(s),
         NEW p \in 0..5, NEW j \in Nat, Stage(s, p, j), call.fn # "async", script # <<>>,
         NEW y \in 0..N(s), NEW d \in 1..2, ByDma(s, y, d), Continues(s, p, d + 10), Wire(s, 2, 2 + y, p, j, 0)
  PROVE  FlashInv'
<1>1. /\ Length(s) = 17 /\ N(s) \in Nat /\ s.n \in Nat \ {0} /\ s.off \in Nat /\ W \in Nat \ {0} /\ y \in Nat
  BY ProgramCounts, Geometry
<1>2. /\ s.n \div W \in Nat /\ s.n % W \in Nat /\ (s.n \div W) * W = s.n - (s.n % W) /\ s.n % W <= s.n
      /\ (s.n % W = 0 => s.n \div W = N(s))
  BY <1>1, Floor DEF N
<1>3. Head(script) = script[1] /\ script[1].k = "dmawait"
  BY ScriptHead, Kinds DEF ByDma
<1>4. DmaWait
  BY <1>3, HeadsA
<1>5. /\ dma = NoDma /\ script' = Tail(script)
      /\ UNCHANGED <<chipVars, cmds, tx, rx, rxwm, dma, critical, call, up, pre>>
  BY <1>4 DEF DmaWait, Advance, hostVars, dmaVars, drvVars
<1>6. y = s.n \div W
  <2>1. NoDma.dir # "tx"
    BY DEF NoDma
  <2> QED BY <1>5, <2>1 DEF ByDma
<1>7. Sane'
  <2>1. script[1] # Go
    BY <1>3, GoKind
  <2> QED BY <1>5, <2>1, SaneHere
<1>8. Wire(s, 2, 2 + y, p, j, 0)'
  BY <1>5, WireStays
<1>9. PICK e \in Nat \ {0}, x \in Nat \ {0}, i \in 0..Length(s)-1 : e = d /\ x = d + 10 /\ i = 7
  BY <1>1
<1>10. Ahead(s, i, e-1)'
  <2>1. Ahead(s, i, e)
    BY <1>9 DEF ByDma
  <2> QED BY <1>5, <2>1, AheadNext
<1>11. Continues(s, p, x-1)'
  <2>1. Continues(s, p, x)
    BY <1>9
  <2> QED BY <1>5, <2>1, ContinuesNext DEF chipVars
<1>12. CASE d = 1
  <2>1. e - 1 = 0 /\ x - 1 = 10
    BY <1>9, <1>12
  <2>2. Ahead(s, 7, 0)' /\ Continues(s, p, 10)'
    BY <1>9, <1>10, <1>11, <2>1
  <2>3. N(s) = y
    BY <1>2, <1>6, <1>12 DEF ByDma
  <2>4. Wire(s, 2, 2 + N(s), p, j, 0)'
    BY <1>8, <2>3
  <2> QED BY <1>5, <1>7, <2>2, <2>4, AfterData
<1>13. CASE d = 2
  <2>1. e - 1 = 1 /\ x - 1 = 11
    BY <1>9, <1>13
  <2>2. Ahead(s, 7, 1)' /\ Continues(s, p, 11)'
    BY <1>9, <1>10, <1>11, <2>1
  <2>3. s.n % W # 0 /\ script[2] = Step("txdata", s.off + s.n - (s.n % W), s.n % W)
    BY <1>13 DEF ByDma
  <2>4. script'[1] = Step("txdata", s.off + s.n - (s.n % W), s.n % W)
    <3>1. Len(script) >= 2 + Length(s) - 7
      BY <1>13 DEF ByDma, Ahead, Length
    <3>2. Len(script) \in Nat
      BY DEF FlashTypes, DriverTypes
    <3>3. 1 + 1 <= Len(script)
      BY <1>1, <3>1, <3>2
    <3>4. script'[1] = script[1+1]
      BY <1>5, <3>3, NextAt
    <3> QED BY <2>3, <3>4
  <2>5. s.off + y * W = s.off + s.n - (s.n % W) /\ s.n - y * W = s.n % W /\ y * W < s.n
    <3>1. PICK v \in Int, f \in Int, n \in Int, r \in Int : v = y * W /\ f = s.off /\ n = s.n /\ r = s.n % W
      <4>1. y * W = s.n - (s.n % W)
        BY <1>2, <1>6
      <4>2. s.n \in Int /\ s.n % W \in Int /\ s.off \in Int
        <5>1. s.n \in Nat /\ s.off \in Nat
          BY <1>1
        <5>2. s.n % W \in Nat
          BY <1>2
        <5>3. \A x0 \in Nat : x0 \in Int
          OBVIOUS
        <5> QED BY <5>1, <5>2, <5>3
      <4>3. y * W \in Int
        BY <4>1, <4>2
      <4> QED BY <4>2, <4>3
    <3>2. v = n - r /\ r > 0
      BY <1>2, <1>6, <2>3, <3>1
    <3>3. f + v = f + n - r /\ n - v = r /\ v < n
      BY <3>2
    <3> QED BY <3>1, <3>3
  <2>6. script'[1] = Step("txdata", s.off + y * W, s.n - y * W)
    BY <2>4, <2>5
  <2>7. PICK d2 \in 1..2 : d2 = 1
    OBVIOUS
  <2>8. Ahead(s, 7, d2)' /\ Continues(s, p, d2 + 10)'
    <3>1. d2 + 10 = 11
      BY <2>7
    <3> QED BY <2>2, <2>7, <3>1
  <2>9. call'.fn # "async" /\ dma' = NoDma
    BY <1>5
  <2>10. InData(s, y, p, j)'
    BY <1>8, <2>5, <2>6, <2>7, <2>8, <2>9 DEF InData
  <2> QED BY <1>1, <1>5, <1>7, <2>10, MoreData
<1> QED BY <1>12, <1>13

(* With one access made, the others are ahead. *)
LEMMA AheadSecond ==
  ASSUME NEW s \in Sections, NEW i \in 0..Length(s)-1, Ahead(s, i, 0)
  PROVE  Ahead(s, i+1, 1)
<1>1. Length(s) \in Nat /\ i \in Nat /\ i < Length(s)
  BY LengthType
<1> DEFINE m == Length(s)
<1>2. Len(script) >= 0 + m - i /\ \A k \in 1..m-i : script[0+k] = SectionItems(s)[i+k]
  BY DEF Ahead, Length
<1>3. m \in Nat /\ i \in Nat /\ i < m
  BY <1>1
<1> HIDE DEF m
<1>4. 0 + m - i = 1 + m - (i + 1)
  BY <1>3
<1>5. ASSUME NEW k \in 1..m-(i+1) PROVE script[1+k] = SectionItems(s)[(i+1)+k]
  <2>1. 1 + k \in 1..m-i /\ 0 + (1 + k) = 1 + k /\ i + (1 + k) = (i + 1) + k
    BY <1>3
  <2>2. PICK x \in 1..m-i : x = 1 + k
    BY <2>1
  <2>3. script[0+x] = SectionItems(s)[i+x]
    BY <1>2
  <2> QED BY <2>1, <2>2, <2>3
<1>6. Len(script) >= 1 + m - (i + 1)
  BY <1>2, <1>4
<1> QED BY <1>5, <1>6 DEF Ahead, m, Length

(* The access before the data. *)
LEMMA DataAccess ==
  ASSUME FlashTypes, Sane, Proceed, NEW s \in Sections, Proper(s), NEW p \in 0..5, NEW j \in Nat,
         Stage(s, p, j), NEW i \in 0..16, OnTrack(s, i, p, j),
         NEW a, a = SectionItems(s)[i+1], a.k \in {"txdata", "dmatx"}
  PROVE  FlashInv'
<1>1. /\ script # <<>> /\ script[1] = a /\ i \in 0..Length(s)-1 /\ Row(s, i)
  BY TrackHead
<1>2. i = 6 /\ s.kind = "program"
  BY <1>1 DEF Row
<1>3. /\ Length(s) = 17 /\ Issued(s, 6) = 2 /\ Pushed(s, 6) = 2 /\ s.kind \notin ReadKinds
      /\ SectionItems(s)[7] = Step(IF s.via = "dma" THEN "dmatx" ELSE "txdata", s.off, s.n)
      /\ s.n \in Nat \ {0} /\ s.off \in Nat
  BY <1>2, ProgramCounts
<1>4. call.fn # "async" /\ dma = NoDma /\ Ahead(s, i, 0) /\ Continues(s, p, Len(SectionItems(s)) - i)
      /\ Wire(s, Issued(s, i), Pushed(s, i), p, j, 0)
  BY <1>3 DEF OnTrack
<1>5. Ahead(s, 7, 1)
  <2>1. Ahead(s, i+1, 1)
    BY <1>1, <1>4, AheadSecond
  <2>2. i + 1 = 7
    BY <1>2
  <2> QED BY <2>1, <2>2
<1>6. Continues(s, p, 11)
  <2>1. Len(SectionItems(s)) - i = 11
    BY <1>2, <1>3 DEF Length
  <2> QED BY <1>4, <2>1
<1>7. Wire(s, 2, 2, p, j, 0)
  BY <1>2, <1>3, <1>4
<1>8. a = Step(IF s.via = "dma" THEN "dmatx" ELSE "txdata", s.off, s.n)
  <2>1. i + 1 = 7
    BY <1>2
  <2> QED BY <1>3, <2>1
<1>9. CASE s.via = "dma"
  <2>1. script[1] = Step("dmatx", s.off, s.n)
    BY <1>1, <1>8, <1>9
  <2> QED BY <1>1, <1>2, <1>4, <1>5, <1>6, <1>7, <1>9, <2>1, DataStarts
<1>10. CASE s.via # "dma"
  <2>1. script[1] = Step("txdata", s.off, s.n)
    BY <1>1, <1>8, <1>10
  <2>2. PICK y \in Nat : y = 0
    OBVIOUS
  <2>3. y * W = 0
    BY <2>2, Geometry
  <2>4. s.off + y * W = s.off /\ s.n - y * W = s.n /\ y * W < s.n
    BY <1>3, <2>3
  <2>5. script[1] = Step("txdata", s.off + y * W, s.n - y * W)
    BY <2>1, <2>4
  <2>6. Wire(s, 2, 2 + y, p, j, 0)
    <3>1. 2 + y = 2
      BY <2>2
    <3> QED BY <1>7, <3>1
  <2> QED BY <1>1, <1>2, <1>4, <1>5, <1>6, <2>4, <2>5, <2>6, DataCore
<1> QED BY <1>9, <1>10

(* Every access of a section keeps the invariant. *)
LEMMA TrackStep ==
  ASSUME FlashTypes, Sane, Proceed, NEW s \in Sections, Proper(s), NEW p \in 0..5, NEW j \in Nat,
         Stage(s, p, j), NEW i \in 0..16, OnTrack(s, i, p, j)
  PROVE  FlashInv'
<1>1. PICK a : a = SectionItems(s)[i+1]
  OBVIOUS
<1>2. i \in 0..Length(s)-1 /\ Row(s, i) /\ Length(s) \in 5..17
  BY TrackHead
<1>3. /\ a.k \in {"tx", "cmd", "ready", "rxwm", "rxwait", "rxreg", "poll", "txreg", "txdata", "dmatx",
                  "dmarx", "dmawait"}
      /\ i + 1 = Length(s) =>
           a.k \in {"rxreg", "poll", "dmawait"} \/ (a = Go /\ s.kind \in ReadKinds /\ s.via = "cpu")
  BY <1>1, <1>2 DEF Row
<1>4. CASE a.k \in {"txdata", "dmatx"}
  BY <1>1, <1>4, DataAccess
<1>5. CASE a.k = "poll"
  BY <1>1, <1>5, PollStep
<1>6. CASE a.k = "rxreg"
  BY <1>1, <1>6, RegStep
<1>7. CASE a.k = "dmawait"
  BY <1>1, <1>7, AwaitStep
<1>8. CASE a.k \in Plain \/ a.k = "dmarx"
  <2>1. CASE i + 1 < Length(s)
    BY <1>1, <1>8, <2>1, TrackNext
  <2>2. CASE ~(i + 1 < Length(s))
    <3>1. i + 1 = Length(s)
      BY <1>2, <2>2
    <3>2. a = Go /\ s.kind \in ReadKinds /\ s.via = "cpu"
      BY <1>3, <1>8, <3>1 DEF Plain
    <3> QED BY <1>1, <3>1, <3>2, GoStep
  <2> QED BY <2>1, <2>2
<1> QED BY <1>3, <1>4, <1>5, <1>6, <1>7, <1>8 DEF Plain

(* Every access within the data of a program keeps the invariant. *)
LEMMA DataStep ==
  ASSUME FlashTypes, Sane, Proceed, NEW s \in Sections, Proper(s), NEW p \in 0..5, NEW j \in Nat,
         Stage(s, p, j), NEW y \in Nat, InData(s, y, p, j)
  PROVE  FlashInv'
<1>1. script # <<>>
  BY HeadsA
<1>2. s.kind = "program" /\ y \in 0..N(s) /\ call.fn # "async" /\ Wire(s, 2, 2 + y, p, j, 0)
  BY InDataIs
<1>3. CASE /\ dma = NoDma /\ y * W < s.n /\ script[1] = Step("txdata", s.off + y * W, s.n - y * W)
           /\ Ahead(s, 7, 1) /\ Continues(s, p, 11)
  BY <1>1, <1>2, <1>3, DataCore
<1>4. CASE \E d \in 1..2 : ByDma(s, y, d) /\ Continues(s, p, d + 10)
  <2>1. PICK d \in 1..2 : ByDma(s, y, d) /\ Continues(s, p, d + 10)
    BY <1>4
  <2> QED BY <1>1, <1>2, <2>1, DataEnds
<1> QED BY <1>3, <1>4, InDataIs

(***************************************************************************)
(* The DMA.                                                                *)
(***************************************************************************)
LEMMA ReadMoves ==
  ASSUME FlashTypes, DmaMove, dma.dir = "rx", NEW s \in Sections, NEW i, NEW t \in Nat, DmaReads(s, i, t),
         NEW Q, NEW U, NEW p, NEW j \in Nat, Wire(s, Q, U, p, j, t)
  PROVE  /\ Wire(s, Q, U, p, j, t+1)' /\ DmaReads(s, i, t+1)' /\ Launches(s, i) = 1
         /\ UNCHANGED <<chipVars, cmds, rxwm, critical, script, call, up, pre, res>>
<1>1. NoDma.dir # "rx"
  BY DEF NoDma
<1>2. Launches(s, i) = 1 /\ t < s.n \div W /\ dma.dir = "rx" /\ dma.left = (s.n \div W) - t
  BY <1>1 DEF DmaReads
<1>3. s.n \div W \in Nat
  BY Floor DEF Sections
<1>4. /\ rx # <<>> /\ rx' = Tail(rx) /\ UNCHANGED <<tx, chipVars, cmds, rxwm, critical, script, call, up, pre, res>>
      /\ dma' = IF dma.left = 1 THEN NoDma ELSE [dma EXCEPT !.off = @ + W, !.left = @ - 1]
  <2>1. dma.dir # "tx"
    BY <1>2
  <2> QED BY <2>1 DEF DmaMove
<1>5. Wire(s, Q, U, p, j, t+1)'
  <2>1. rx \in Seq(RxWords)
    BY DEF FlashTypes, HostTypes
  <2> QED BY <1>4, <2>1, WireTake
<1>6. DmaReads(s, i, t+1)'
  <2> DEFINE q == s.n \div W
  <2>1. q \in Nat /\ t < q /\ dma.left = q - t
    BY <1>2, <1>3
  <2> HIDE DEF q
  <2>2. CASE q - t = 1
    <3>1. ~(t + 1 < q)
      BY <2>1, <2>2
    <3>2. dma' = NoDma
      BY <1>4, <2>1, <2>2
    <3> QED BY <3>1, <3>2 DEF DmaReads, q
  <2>3. CASE q - t # 1
    <3>1. t + 1 < q /\ (q - t) - 1 = q - (t + 1)
      BY <2>1, <2>3
    <3>2. dma' = [dma EXCEPT !.off = @ + W, !.left = @ - 1]
      BY <1>4, <2>1, <2>3
    <3>3. dma'.dir = "rx" /\ dma'.left = (q - t) - 1
      <4>1. dma \in [dir : {"none", "tx", "rx"}, off : Nat, left : 0..Sector]
        BY DEF FlashTypes, DmaTypes
      <4> QED BY <1>2, <2>1, <3>2, <4>1
    <3>4. dma'.left = q - (t + 1)
      BY <3>1, <3>3
    <3> QED BY <1>2, <3>1, <3>3, <3>4 DEF DmaReads, q
  <2> QED BY <2>2, <2>3
<1> QED BY <1>2, <1>4, <1>5, <1>6

(* What is ahead depends on the script alone. *)
LEMMA AheadHere ==
  ASSUME UNCHANGED script, NEW s, NEW i, NEW d, Ahead(s, i, d)
  PROVE  Ahead(s, i, d)'
  BY DEF Ahead

(* The DMA takes a word of a read from the receive FIFO. *)
LEMMA TrackMoves ==
  ASSUME FlashTypes, Sane, DmaMove, NEW s \in Sections, Proper(s), NEW p \in 0..5, NEW j \in Nat,
         Stage(s, p, j), NEW i \in 0..16, OnTrack(s, i, p, j), dma # NoDma
  PROVE  Flow'
<1>1. s.kind \in ReadKinds
  BY DEF OnTrack
<1>2. PICK t \in Nat : Wire(s, Issued(s, i), Pushed(s, i), p, j, t) /\ DmaReads(s, i, t)
  BY <1>1 DEF OnTrack
<1>3. dma.dir = "rx"
  BY <1>2 DEF DmaReads
<1>4. /\ Wire(s, Issued(s, i), Pushed(s, i), p, j, t+1)' /\ DmaReads(s, i, t+1)' /\ Launches(s, i) = 1
      /\ UNCHANGED <<chipVars, cmds, rxwm, critical, script, call, up, pre, res>>
  BY <1>2, <1>3, ReadMoves
<1>5. /\ i < Len(SectionItems(s)) /\ Ahead(s, i, 0)' /\ call'.fn # "async" /\ ~Asynchronous(s)
      /\ Continues(s, p, Len(SectionItems(s)) - i)'
  <2>1. i < Len(SectionItems(s)) /\ Ahead(s, i, 0) /\ call.fn # "async" /\ ~Asynchronous(s)
        /\ Continues(s, p, Len(SectionItems(s)) - i)
    BY <1>1 DEF OnTrack
  <2>2. Continues(s, p, Len(SectionItems(s)) - i)'
    BY <1>4, <2>1, ContinuesHere DEF chipVars
  <2> QED BY <1>4, <2>1, <2>2, AheadHere
<1>6. OnTrack(s, i, p, j)'
  <2>1. PICK u \in Nat : u = t + 1
    OBVIOUS
  <2>2. Wire(s, Issued(s, i), Pushed(s, i), p, j, u)' /\ DmaReads(s, i, u)'
    BY <1>4, <2>1
  <2> QED BY <1>1, <1>4, <1>5, <2>2 DEF OnTrack
<1>7. Stage(s, p, j)'
  BY <1>1, <1>4, StageStays
<1>8. Tracked(s, p, j)'
  BY <1>6 DEF Tracked
<1> QED BY <1>4, <1>7, <1>8, Lands

(* The DMA takes a word of an asynchronous read. *)
LEMMA AsyncMoves ==
  ASSUME FlashTypes, Sane, DmaMove, NEW s \in Sections, Proper(s), NEW p \in 0..5, NEW j \in Nat,
         Stage(s, p, j), Async(s, p, j), dma # NoDma
  PROVE  Flow'
<1>1. s.kind \in ReadKinds /\ s.via # "cpu" /\ Asynchronous(s) /\ s.n = call.n /\ call.fn = "async" /\ up
  BY DEF Async
<1>2. PICK i \in 0..Len(SectionItems(s))-1, t \in Nat :
       LET d == Len(SectionItems(s)) - 1 - i IN
       /\ Wire(s, Issued(s, i), Pushed(s, i), p, j, t) /\ DmaReads(s, i, t)
       /\ t > 0 => Launches(s, i) = 1
       /\ \/ Len(script) = d + 1 /\ script[d+1] = [k |-> "ret", status |-> "OK"]
          \/ d = 0 /\ script = <<>> /\ res = "OK"
       /\ \A k \in 1..d : script[k] = SectionItems(s)[i+k]
  BY DEF Async
<1>3. dma.dir = "rx"
  BY <1>2 DEF DmaReads
<1>4. /\ Wire(s, Issued(s, i), Pushed(s, i), p, j, t+1)' /\ DmaReads(s, i, t+1)' /\ Launches(s, i) = 1
      /\ UNCHANGED <<chipVars, cmds, rxwm, critical, script, call, up, pre, res>>
  BY <1>2, <1>3, ReadMoves
<1>5. PICK u \in Nat : u = t + 1
  OBVIOUS
<1>6. Wire(s, Issued(s, i), Pushed(s, i), p, j, u)' /\ DmaReads(s, i, u)'
  BY <1>4, <1>5
<1>7. Async(s, p, j)'
  <2> DEFINE d == Len(SectionItems(s)) - 1 - i
  <2>1. /\ \/ Len(script') = d + 1 /\ script'[d+1] = [k |-> "ret", status |-> "OK"]
           \/ d = 0 /\ script' = <<>> /\ res' = "OK"
        /\ \A k \in 1..d : script'[k] = SectionItems(s)[i+k]
    BY <1>2, <1>4
  <2> QED BY <1>1, <1>4, <1>6, <2>1 DEF Async
<1>8. Stage(s, p, j)'
  BY <1>1, <1>4, StageStays
<1>9. Tracked(s, p, j)'
  BY <1>7 DEF Tracked
<1> QED BY <1>4, <1>8, <1>9, Lands

(* Every word that the DMA moves keeps the invariant. *)
LEMMA DmaMoveFlow ==
  ASSUME FlashTypes, FlashInv, DmaMove
  PROVE  FlashInv'
<1>1. dma # NoDma /\ Flow /\ Sane
  BY DEF DmaMove, NoDma, FlashInv
<1>2. /\ UNCHANGED <<chipVars, cmds, rxwm, critical, script, call, up, pre>>
  BY DEF DmaMove
<1>3. Sane'
  <2>1. Len(cmds') > CmdDepth => script' # <<>> /\ script'[1] = Go
    BY <1>1, <1>2 DEF Sane
  <2>2. critical' = {}
    BY <1>1, <1>2 DEF Sane
  <2> QED BY <1>1, <1>2, <2>1, <2>2, SaneStays
<1>4. ~Resting /\ ~Closing
  BY <1>1 DEF Resting, Closing, Quiet
<1>5. PICK s \in Sections, p \in 0..5, j \in Nat : Proper(s) /\ Stage(s, p, j) /\ Tracked(s, p, j)
  BY <1>1, <1>4, FlowCases
<1>6. ~Draining(s, p, j) /\ ~Down(s, p, j)
  BY <1>1 DEF Draining, Down
<1>7. CASE \E i \in 0..16 : OnTrack(s, i, p, j)
  BY <1>1, <1>3, <1>5, <1>7, TrackMoves DEF FlashInv
<1>8. CASE Async(s, p, j)
  BY <1>1, <1>3, <1>5, <1>8, AsyncMoves DEF FlashInv
<1>9. CASE \E y \in Nat : InData(s, y, p, j)
  <2>1. PICK y \in Nat : InData(s, y, p, j)
    BY <1>9
  <2>2. dma.dir = "tx"
    BY <1>1, <2>1, InDataIs DEF ByDma
  <2> QED BY <1>1, <1>5, <2>1, <2>2, DataMoves
<1> QED BY <1>5, <1>6, <1>7, <1>8, <1>9 DEF Tracked
=============================================================================
