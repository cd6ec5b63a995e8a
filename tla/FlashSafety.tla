---------------------------- MODULE FlashSafety -----------------------------
(***************************************************************************)
(* FlashInv is an invariant of Flash, and with it the flash is safe.       *)
(*                                                                         *)
(* What is left are the steps between two sections. With nothing on its    *)
(* way the driver enters a function, whose body is the accesses of a       *)
(* section, or takes the next turn of a loop, which asks for nothing       *)
(* outside of what the call may touch; a call returns, or is begun.        *)
(***************************************************************************)
EXTENDS FlashSteps

(***************************************************************************)
(* The driver when nothing is on its way.                                  *)
(***************************************************************************)
LEMMA RestHead ==
  ASSUME FlashTypes, Proceed, Resting
  PROVE  /\ script # <<>> /\ Head(script) = script[1] /\ script[1] \in Items(call)
         /\ up /\ job = NoJob /\ ~asleep
         /\ cmds = <<>> /\ tx = <<>> /\ rx = <<>> /\ frame = NoFrame /\ dma = NoDma
         /\ Legit(script[1]) /\ LegitFrom(2)
<1>1. script # <<>>
  BY HeadsA
<1>2. /\ Head(script) = script[1] /\ Len(script) \in Nat \ {0} /\ script \in Seq(Items(call))
  BY <1>1, ScriptHead
<1>3. up /\ LegitFrom(1)
  BY <1>1 DEF Resting
<1>4. job = NoJob /\ ~asleep
  BY <1>3 DEF Resting
<1>5. cmds = <<>> /\ tx = <<>> /\ rx = <<>> /\ frame = NoFrame /\ dma = NoDma
  BY DEF Resting, Quiet
<1>6. Legit(script[1]) /\ LegitFrom(2)
  <2>1. 1 \in 1..Len(script)
    BY <1>2
  <2>2. \A k \in 1..Len(script) : Legit(script[k])
    BY <1>3 DEF LegitFrom
  <2>3. LegitFrom(2)
    <3>1. \A k \in 2..Len(script) : k \in 1..Len(script)
      BY <1>2
    <3> QED BY <2>2, <3>1 DEF LegitFrom
  <2> QED BY <2>1, <2>2, <2>3
<1>7. script[1] \in Items(call)
  <2>1. 1 \in 1..Len(script)
    BY <1>2
  <2> QED BY <1>2, <2>1
<1> QED BY <1>1, <1>2, <1>3, <1>4, <1>5, <1>6, <1>7

(* An idle chip is at the beginning of every section. *)
LEMMA FirstStage ==
  ASSUME up, frame = NoFrame, job = NoJob, ~asleep, NEW s \in Sections
  PROVE  Stage(s, 0, 0)
<1>1. PairStage(s, 0)
  BY DEF PairStage
<1>2. s.kind \in Writes => WriteStage(s, 0, 0)
  BY DEF WriteStage
<1>3. ReadStage(s, 0)
  <2>1. 0 \notin 1..Len(Segs(s))-1
    BY LengthType
  <2> QED BY <2>1 DEF ReadStage
<1> QED BY <1>1, <1>2, <1>3 DEF Stage

(* At its beginning a section has issued, pushed and taken nothing. *)
LEMMA FirstCounts ==
  ASSUME NEW s \in Sections
  PROVE  /\ Issued(s, 0) = 0 /\ Pushed(s, 0) = Taken(s, 0, 0) /\ Got(s, 0, 0) = 0 /\ Launches(s, 0) = 0
         /\ 0 < Length(s) /\ Length(s) \in Nat
<1>1. Issued(s, 0) = 0 /\ Pushed(s, 0) = 0 /\ Launches(s, 0) = 0
  <2>1. 0 \in Nat
    OBVIOUS
  <2> QED BY <2>1, Counts
<1>2. Taken(s, 0, 0) = 0
  BY DEF Taken, Lesser, Pairs, Writes
<1>3. Got(s, 0, 0) = 0
  <2>1. PICK g \in 2..5 : g = Len(Segs(s))
    BY LengthType
  <2>2. 0 # g /\ 0 # g - 1
    OBVIOUS
  <2>3. 0 # Len(Segs(s)) /\ 0 # Len(Segs(s)) - 1
    BY <2>1, <2>2
  <2> QED BY <2>3 DEF Got
<1>4. 0 < Length(s) /\ Length(s) \in Nat
  BY LengthType
<1> QED BY <1>1, <1>2, <1>3, <1>4

(* A function of the driver is entered, whose accesses are those of a      *)
(* section, or of its rest from the (i+1)-th on.                           *)
LEMMA RestEnters ==
  ASSUME FlashTypes, Sane, Proceed, Resting, script[1].k \in Bodies, call.fn # "async",
         NEW a \in Seq(Items(call)), a = Body(script[1]),
         NEW s \in Sections, Proper(s), NEW i \in 0..16, i < Length(s), NEW p \in 0..5,
         NEW m \in Nat, m = Length(s) - i, \A k \in 1..m : a[k] = SectionItems(s)[i+k],
         Issued(s, i) = p, Pushed(s, i) = Taken(s, p, 0), Got(s, p, 0) = 0, Launches(s, i) = 0,
         Stage(s, p, 0), s.kind \in ReadKinds => ~Asynchronous(s),
         \/ /\ Len(a) = m
            /\ s.kind \in {"erase", "reset", "program"} \/ (s.kind \in ReadKinds /\ s.via # "cpu")
         \/ /\ Len(a) = m + 1 /\ s.kind \in ReadKinds /\ s.via = "cpu"
            /\ a[m+1] = Step("drain", 0, s.n)
  PROVE  FlashInv'
<1>1. /\ script # <<>> /\ Head(script) = script[1] /\ up
      /\ cmds = <<>> /\ tx = <<>> /\ rx = <<>> /\ frame = NoFrame /\ dma = NoDma /\ LegitFrom(2)
  BY RestHead
<1>2. /\ script' = Body(Head(script)) \o Tail(script)
      /\ UNCHANGED <<chipVars, cmds, tx, rx, rxwm, dma, critical, call, buf, reg, res, up, pre>>
  BY <1>1, UnfoldHead
<1>3. script' = a \o Tail(script) /\ UNCHANGED call
  BY <1>1, <1>2
<1>4. /\ Len(a) \in Nat /\ Len(script) \in Nat /\ Len(script') = Len(a) + Len(script) - 1
      /\ \A k \in 1..Len(a) : script'[k] = a[k]
      /\ LegitFrom(Len(a) + 1)'
  BY <1>1, <1>3, Placed
<1>5. Len(script) >= 1
  BY <1>1, ScriptHead
<1>6. Len(a) >= m /\ Len(script') \in Nat /\ Len(script') >= Len(a)
  BY <1>4, <1>5
<1>7. Ahead(s, i, 0)'
  <2>1. Len(script') >= 0 + Len(SectionItems(s)) - i
    BY <1>6 DEF Length
  <2>2. ASSUME NEW k \in 1..Len(SectionItems(s))-i PROVE script'[0+k] = SectionItems(s)[i+k]
    <3>1. k \in 1..m /\ k \in 1..Len(a) /\ 0 + k = k
      BY <1>4, <1>6 DEF Length
    <3>2. a[k] = SectionItems(s)[i+k]
      BY <3>1
    <3>3. script'[k] = a[k]
      BY <1>4, <3>1
    <3> QED BY <3>1, <3>2, <3>3
  <2> QED BY <2>1, <2>2 DEF Ahead
<1>8. Continues(s, p, m)'
  <2>1. CASE Len(a) = m /\ s.kind \in {"erase", "reset", "program"}
    <3>1. LegitFrom(m+1)'
      BY <1>4, <2>1
    <3>2. up'
      BY <1>1, <1>2
    <3> QED BY <2>1, <3>1, <3>2 DEF Continues
  <2>2. CASE Len(a) = m /\ s.kind \in ReadKinds /\ s.via # "cpu"
    <3>1. LegitFrom(m+1)'
      BY <1>4, <2>2
    <3>2. up'
      BY <1>1, <1>2
    <3> QED BY <2>2, <3>1, <3>2 DEF Continues
  <2>3. CASE Len(a) = m + 1 /\ s.kind \in ReadKinds /\ s.via = "cpu" /\ a[m+1] = Step("drain", 0, s.n)
    <3>1. LegitFrom(m+2)'
      <4>1. LegitFrom(m+1+1)'
        BY <1>4, <2>3
      <4>2. m+1+1 = m+2
        OBVIOUS
      <4> QED BY <4>1, <4>2
    <3>2. up'
      BY <1>1, <1>2
    <3>3. Len(script') > m
      BY <1>6, <2>3
    <3>4. script'[m+1] = Step("drain", 0, s.n)
      <4>1. m+1 \in 1..Len(a)
        BY <2>3
      <4>2. script'[m+1] = a[m+1]
        BY <1>4, <4>1
      <4> QED BY <2>3, <4>2
    <3> QED BY <2>3, <3>1, <3>2, <3>3, <3>4 DEF Continues
  <2> QED BY <2>1, <2>2, <2>3
<1>9. Continues(s, p, Length(s) - i)'
  BY <1>8
<1>10. Stage(s, p, 0)'
  BY <1>2, StageStays
<1>11. Proper(s)'
  BY <1>2, ProperStays
<1>12. cmds' = <<>> /\ tx' = <<>> /\ rx' = <<>> /\ dma' = NoDma /\ call'.fn # "async"
  BY <1>1, <1>2
<1>13. Flow'
  BY <1>7, <1>9, <1>10, <1>11, <1>12, Enter
<1>14. Sane'
  <2>1. script[1] # Go
    <3>1. Go.k = "ready" /\ "ready" \notin Bodies
      BY DEF Go, Step, Bodies
    <3> QED BY <3>1
  <2> QED BY <1>1, <1>2, <2>1, SaneHere
<1> QED BY <1>13, <1>14 DEF FlashInv

(***************************************************************************)
(* The accesses of the functions that write are those of their sections.   *)
(***************************************************************************)
LEMMA WaitItems ==
  ASSUME NEW c
  PROVE  /\ Sized(flash_wait, c, 8)
         /\ flash_wait[1] = Step("rxwm", 0, 1)
         /\ flash_wait[2] = Command("RSR1", 0) /\ flash_wait[3] = HeldItem("TX", 1) /\ flash_wait[4] = Go
         /\ flash_wait[5] = Item("RX", 1) /\ flash_wait[6] = Go /\ flash_wait[7] = Step("rxwait", 0, 0)
         /\ flash_wait[8] = Step("poll", 0, 0)
<1> DEFINE a == << Step("rxwm", 0, 1) >>
           b == Poll
<1>1. Sized(a, c, 1) /\ a[1] = Step("rxwm", 0, 1)
  <2>1. Step("rxwm", 0, 1) \in Items(c)
    BY StepType
  <2> QED BY <2>1, One
<1>2. /\ Sized(b, c, 7)
      /\ b[1] = Command("RSR1", 0) /\ b[2] = HeldItem("TX", 1) /\ b[3] = Go
      /\ b[4] = Item("RX", 1) /\ b[5] = Go /\ b[6] = Step("rxwait", 0, 0)
      /\ b[7] = Step("poll", 0, 0)
  BY PollItems
<1>3. flash_wait = Cat(a, b)
  BY DEF flash_wait, Cat
<1> HIDE DEF a, b
<1> DEFINE e == Cat(a, b)
<1>4. /\ Sized(e, c, 8) /\ e[1] = a[1] /\ e[2] = b[1] /\ e[3] = b[2] /\ e[4] = b[3] /\ e[5] = b[4]
      /\ e[6] = b[5] /\ e[7] = b[6] /\ e[8] = b[7]
  BY <1>1, <1>2, Joined
<1> HIDE DEF e
<1> QED BY <1>1, <1>2, <1>3, <1>4 DEF e

(* A write enable, a command, and the status, with what comes between.     *)
LEMMA WriteJoin ==
  ASSUME NEW c, NEW a, NEW b, NEW d, NEW e, NEW f,
         Sized(a, c, 3), Sized(b, c, 3), Sized(d, c, 1), Sized(e, c, 2), Sized(f, c, 8),
         NEW q, q = Cat(Cat(Cat(Cat(a, b), d), e), f)
  PROVE  /\ Sized(q, c, 17)
         /\ q[1] = a[1] /\ q[2] = a[2] /\ q[3] = a[3]
         /\ q[4] = b[1] /\ q[5] = b[2] /\ q[6] = b[3] /\ q[7] = d[1] /\ q[8] = e[1] /\ q[9] = e[2]
         /\ q[10] = f[1] /\ q[11] = f[2] /\ q[12] = f[3] /\ q[13] = f[4]
         /\ q[14] = f[5] /\ q[15] = f[6] /\ q[16] = f[7] /\ q[17] = f[8]
<1>1. PICK x : x = Cat(a, b)
  OBVIOUS
<1>2. /\ Sized(x, c, 6) /\ x[1] = a[1] /\ x[2] = a[2] /\ x[3] = a[3]
      /\ x[4] = b[1] /\ x[5] = b[2] /\ x[6] = b[3]
  BY <1>1, Joined
<1>3. PICK y : y = Cat(x, d)
  OBVIOUS
<1>4. /\ Sized(y, c, 7) /\ y[1] = x[1] /\ y[2] = x[2] /\ y[3] = x[3] /\ y[4] = x[4] /\ y[5] = x[5] /\ y[6] = x[6]
      /\ y[7] = d[1]
  BY <1>2, <1>3, Joined
<1>5. PICK z : z = Cat(y, e)
  OBVIOUS
<1>6. /\ Sized(z, c, 9) /\ z[1] = y[1] /\ z[2] = y[2] /\ z[3] = y[3] /\ z[4] = y[4] /\ z[5] = y[5] /\ z[6] = y[6]
      /\ z[7] = y[7]
      /\ z[8] = e[1] /\ z[9] = e[2]
  BY <1>4, <1>5, Joined
<1>7. q = Cat(z, f)
  BY <1>1, <1>3, <1>5
<1>8. /\ Sized(q, c, 17) /\ q[1] = z[1] /\ q[2] = z[2] /\ q[3] = z[3] /\ q[4] = z[4] /\ q[5] = z[5] /\ q[6] = z[6]
      /\ q[7] = z[7] /\ q[8] = z[8] /\ q[9] = z[9]
      /\ q[10] = f[1] /\ q[11] = f[2] /\ q[12] = f[3] /\ q[13] = f[4]
      /\ q[14] = f[5] /\ q[15] = f[6] /\ q[16] = f[7] /\ q[17] = f[8]
  BY <1>6, <1>7, Joined
<1>10. /\ q[1] = a[1] /\ q[2] = a[2] /\ q[3] = a[3]
       /\ q[4] = b[1] /\ q[5] = b[2] /\ q[6] = b[3] /\ q[7] = d[1] /\ q[8] = e[1] /\ q[9] = e[2]
  BY <1>2, <1>4, <1>6, <1>8
<1> QED BY <1>8, <1>10

(* page_write makes the accesses of a program. *)
LEMMA ProgramItems ==
  ASSUME NEW c, NEW s \in Sections, s.kind = "program", s.op \in Programs, s.n \in 1..Page,
         s.off + s.n <= SourceLen(c), NEW quad \in BOOLEAN, NEW viaDma \in BOOLEAN,
         s.op = (IF quad THEN "PPQ" ELSE "PP"), s.via = (IF viaDma THEN "dma" ELSE "cpu"),
         NEW q, q = page_write(s.addr, s.off, s.n, quad, viaDma)
  PROVE  q \in Seq(Items(c)) /\ Len(q) = 17 /\ \A k \in 1..17 : q[k] = SectionItems(s)[0+k]
<1>1. PICK a : a = flash_write_enable
  OBVIOUS
<1>2. Sized(a, c, 3) /\ a[1] = Command("WE", 0) /\ a[2] = Item("TX", 1) /\ a[3] = Go
  BY <1>1, Small, ShortSend DEF Opcodes, flash_write_enable
<1>3. PICK b : b = Send(s.op, s.addr, W, TRUE)
  OBVIOUS
<1>4. s.op \in Opcodes /\ s.addr \in Cells /\ s.off \in Nat /\ s.n \in Nat /\ s.n # 0 /\ s.n \in 1..Size
  BY Geometry DEF Sections, Opcodes
<1>5. Sized(b, c, 3) /\ b[1] = Command(s.op, s.addr) /\ b[2] = HeldItem("TX", W) /\ b[3] = Go
  BY <1>3, <1>4, Small, ShortSend
<1>6. PICK x : x = Step(IF viaDma THEN "dmatx" ELSE "txdata", s.off, s.n)
  OBVIOUS
<1>7. PICK d : d = << x >>
  OBVIOUS
<1>8. Sized(d, c, 1) /\ d[1] = x
  <2>1. x \in Items(c)
    BY <1>4, <1>6 DEF Step, Items
  <2> QED BY <1>7, <2>1, One
<1>9. PICK e : e = Segment("TX", s.n, FALSE)
  OBVIOUS
<1>10. Sized(e, c, 2) /\ e[1] = Item("TX", s.n) /\ e[2] = Go
  BY <1>4, <1>9, ShortSegment
<1>11. PICK f : f = flash_wait
  OBVIOUS
<1>12. /\ Sized(f, c, 8)
       /\ f[1] = Step("rxwm", 0, 1) /\ f[2] = Command("RSR1", 0) /\ f[3] = HeldItem("TX", 1) /\ f[4] = Go
       /\ f[5] = Item("RX", 1) /\ f[6] = Go /\ f[7] = Step("rxwait", 0, 0) /\ f[8] = Step("poll", 0, 0)
  BY <1>11, WaitItems
<1>13. (IF viaDma THEN << Step("dmatx", s.off, s.n) >> ELSE Words("txdata", s.off, s.n)) = d
  BY <1>4, <1>6, <1>7 DEF Words
<1>14. q = Cat(Cat(Cat(Cat(a, b), d), e), f)
  BY <1>1, <1>3, <1>9, <1>11, <1>13 DEF page_write, Cat
<1>15. /\ Sized(q, c, 17)
       /\ q[1] = a[1] /\ q[2] = a[2] /\ q[3] = a[3]
       /\ q[4] = b[1] /\ q[5] = b[2] /\ q[6] = b[3] /\ q[7] = d[1] /\ q[8] = e[1] /\ q[9] = e[2]
       /\ q[10] = f[1] /\ q[11] = f[2] /\ q[12] = f[3] /\ q[13] = f[4]
       /\ q[14] = f[5] /\ q[15] = f[6] /\ q[16] = f[7] /\ q[17] = f[8]
  <2>1. Sized(a, c, 3) /\ Sized(b, c, 3) /\ Sized(d, c, 1) /\ Sized(e, c, 2) /\ Sized(f, c, 8)
    BY <1>2, <1>5, <1>8, <1>10, <1>12
  <2> QED BY <1>14, <2>1, WriteJoin
<1>17. /\ q[1] = Command("WE", 0) /\ q[2] = Item("TX", 1) /\ q[3] = Go
       /\ q[4] = Command(s.op, s.addr) /\ q[5] = HeldItem("TX", W) /\ q[6] = Go /\ q[7] = x
       /\ q[8] = Item("TX", s.n) /\ q[9] = Go
  BY <1>2, <1>5, <1>8, <1>10, <1>15
<1>18. /\ q[10] = Step("rxwm", 0, 1) /\ q[11] = Command("RSR1", 0) /\ q[12] = HeldItem("TX", 1) /\ q[13] = Go
       /\ q[14] = Item("RX", 1) /\ q[15] = Go /\ q[16] = Step("rxwait", 0, 0) /\ q[17] = Step("poll", 0, 0)
  BY <1>12, <1>15
<1>19. SectionItems(s) = WriteItems(s)
  BY DEF SectionItems, Writes
<1>20. CommandLen(s) = W
  BY DEF CommandLen, Programs
<1>21. x = Step(IF s.via = "dma" THEN "dmatx" ELSE "txdata", s.off, s.n)
  BY <1>6
<1>22. \A k \in 1..17 : q[k] = WriteItems(s)[k]
  BY <1>17, <1>18, <1>20, <1>21 DEF WriteItems
<1>23. \A k \in 1..17 : q[k] = SectionItems(s)[0+k]
  BY <1>19, <1>22
<1> QED BY <1>15, <1>23 DEF Sized

(* The accesses of an erase, by place. *)
LEMMA EraseJoin ==
  ASSUME NEW c, NEW a, NEW b, NEW f, Sized(a, c, 3), Sized(b, c, 3), Sized(f, c, 8),
         NEW q, q = Cat(Cat(a, b), f)
  PROVE  /\ Sized(q, c, 14)
         /\ q[1] = a[1] /\ q[2] = a[2] /\ q[3] = a[3] /\ q[4] = b[1] /\ q[5] = b[2] /\ q[6] = b[3]
         /\ q[7] = f[1] /\ q[8] = f[2] /\ q[9] = f[3] /\ q[10] = f[4]
         /\ q[11] = f[5] /\ q[12] = f[6] /\ q[13] = f[7] /\ q[14] = f[8]
<1>1. PICK x : x = Cat(a, b)
  OBVIOUS
<1>2. /\ Sized(x, c, 6) /\ x[1] = a[1] /\ x[2] = a[2] /\ x[3] = a[3]
      /\ x[4] = b[1] /\ x[5] = b[2] /\ x[6] = b[3]
  BY <1>1, Joined
<1>3. q = Cat(x, f)
  BY <1>1
<1>4. /\ Sized(q, c, 14)
      /\ q[1] = x[1] /\ q[2] = x[2] /\ q[3] = x[3] /\ q[4] = x[4] /\ q[5] = x[5] /\ q[6] = x[6]
      /\ q[7] = f[1] /\ q[8] = f[2] /\ q[9] = f[3] /\ q[10] = f[4]
      /\ q[11] = f[5] /\ q[12] = f[6] /\ q[13] = f[7] /\ q[14] = f[8]
  BY <1>2, <1>3, Joined
<1> QED BY <1>2, <1>4

(* The erase functions make the accesses of an erase. *)
LEMMA EraseItemsAre ==
  ASSUME NEW c, NEW s \in Sections, s.kind = "erase", s.op \in Erases,
         NEW q, q = EraseCommand(s.op, s.addr)
  PROVE  q \in Seq(Items(c)) /\ Len(q) = 14 /\ \A k \in 1..14 : q[k] = SectionItems(s)[0+k]
<1>1. PICK a : a = flash_write_enable
  OBVIOUS
<1>2. Sized(a, c, 3) /\ a[1] = Command("WE", 0) /\ a[2] = Item("TX", 1) /\ a[3] = Go
  BY <1>1, Small, ShortSend DEF Opcodes, flash_write_enable
<1>3. PICK n \in 1..Size : n = CommandLen(s)
  BY Small DEF CommandLen
<1>4. n = IF s.op = "CE" THEN 1 ELSE W
  BY <1>3 DEF CommandLen
<1>5. PICK b : b = Send(s.op, s.addr, n, FALSE)
  OBVIOUS
<1>6. Sized(b, c, 3) /\ b[1] = Command(s.op, s.addr) /\ b[2] = Item("TX", n) /\ b[3] = Go
  <2>1. s.op \in Opcodes /\ s.addr \in Cells
    BY DEF Sections, Opcodes
  <2> QED BY <1>5, <2>1, ShortSend
<1>7. PICK f : f = flash_wait
  OBVIOUS
<1>8. /\ Sized(f, c, 8)
      /\ f[1] = Step("rxwm", 0, 1) /\ f[2] = Command("RSR1", 0) /\ f[3] = HeldItem("TX", 1) /\ f[4] = Go
      /\ f[5] = Item("RX", 1) /\ f[6] = Go /\ f[7] = Step("rxwait", 0, 0) /\ f[8] = Step("poll", 0, 0)
  BY <1>7, WaitItems
<1>9. q = Cat(Cat(a, b), f)
  BY <1>1, <1>4, <1>5, <1>7 DEF EraseCommand, Cat
<1>10. /\ Sized(q, c, 14)
       /\ q[1] = a[1] /\ q[2] = a[2] /\ q[3] = a[3] /\ q[4] = b[1] /\ q[5] = b[2] /\ q[6] = b[3]
       /\ q[7] = f[1] /\ q[8] = f[2] /\ q[9] = f[3] /\ q[10] = f[4]
       /\ q[11] = f[5] /\ q[12] = f[6] /\ q[13] = f[7] /\ q[14] = f[8]
  <2>1. Sized(a, c, 3) /\ Sized(b, c, 3) /\ Sized(f, c, 8)
    BY <1>2, <1>6, <1>8
  <2> QED BY <1>9, <2>1, EraseJoin
<1>11. /\ q[1] = Command("WE", 0) /\ q[2] = Item("TX", 1) /\ q[3] = Go
       /\ q[4] = Command(s.op, s.addr) /\ q[5] = Item("TX", CommandLen(s)) /\ q[6] = Go
  BY <1>2, <1>3, <1>6, <1>10
<1>12. /\ q[7] = Step("rxwm", 0, 1) /\ q[8] = Command("RSR1", 0) /\ q[9] = HeldItem("TX", 1) /\ q[10] = Go
       /\ q[11] = Item("RX", 1) /\ q[12] = Go /\ q[13] = Step("rxwait", 0, 0) /\ q[14] = Step("poll", 0, 0)
  BY <1>8, <1>10
<1>13. SectionItems(s) = EraseItems(s)
  BY DEF SectionItems
<1>14. \A k \in 1..14 : q[k] = EraseItems(s)[k]
  BY <1>11, <1>12 DEF EraseItems
<1>15. \A k \in 1..14 : q[k] = SectionItems(s)[0+k]
  BY <1>13, <1>14
<1> QED BY <1>10, <1>15 DEF Sized

(* w25q128jw_reset makes the accesses of a reset. *)
LEMMA ResetItemsAre ==
  ASSUME NEW c, NEW q, q = ResetCommand
  PROVE  q \in Seq(Items(c)) /\ Len(q) = 15 /\ \A k \in 1..15 : q[k] = SectionItems(ResetSection)[0+k]
<1>1. PICK x \in Items(c), y \in Items(c), z \in Items(c) :
        x = Command("ERESET", 0) /\ y = Command("RESET", 0) /\ z = Go
  <2>1. Command("ERESET", 0) \in Items(c) /\ Command("RESET", 0) \in Items(c)
    BY Small DEF Command, Items, Opcodes
  <2>2. Go \in Items(c)
    BY StepType DEF Go, Marks
  <2> QED BY <2>1, <2>2
<1>2. PICK a : a = << x, y, z >>
  OBVIOUS
<1>3. Sized(a, c, 3) /\ a[1] = x /\ a[2] = y /\ a[3] = z
  BY <1>2 DEF Sized
<1>4. PICK b : b = Segment("TX", 1, FALSE)
  OBVIOUS
<1>5. Sized(b, c, 2) /\ b[1] = Item("TX", 1) /\ b[2] = Go
  BY <1>4, Small, ShortSegment
<1>6. PICK f : f = flash_wait
  OBVIOUS
<1>7. /\ Sized(f, c, 8)
      /\ f[1] = Step("rxwm", 0, 1) /\ f[2] = Command("RSR1", 0) /\ f[3] = HeldItem("TX", 1) /\ f[4] = Go
      /\ f[5] = Item("RX", 1) /\ f[6] = Go /\ f[7] = Step("rxwait", 0, 0) /\ f[8] = Step("poll", 0, 0)
  BY <1>6, WaitItems
<1>8. q = Cat(Cat(Cat(a, b), b), f)
  <2>1. Go = Step("ready", 0, 0)
    BY DEF Go
  <2> QED BY <1>1, <1>2, <1>4, <1>6, <2>1 DEF ResetCommand, flash_reset, Cat
<1>9. PICK u : u = Cat(a, b)
  OBVIOUS
<1>10. /\ Sized(u, c, 5) /\ u[1] = a[1] /\ u[2] = a[2] /\ u[3] = a[3] /\ u[4] = b[1] /\ u[5] = b[2]
  BY <1>3, <1>5, <1>9, Joined
<1>11. PICK v : v = Cat(u, b)
  OBVIOUS
<1>12. /\ Sized(v, c, 7) /\ v[1] = u[1] /\ v[2] = u[2] /\ v[3] = u[3] /\ v[4] = u[4] /\ v[5] = u[5]
       /\ v[6] = b[1] /\ v[7] = b[2]
  BY <1>5, <1>10, <1>11, Joined
<1>13. q = Cat(v, f)
  BY <1>8, <1>9, <1>11
<1>14. /\ Sized(q, c, 15) /\ q[1] = v[1] /\ q[2] = v[2] /\ q[3] = v[3] /\ q[4] = v[4] /\ q[5] = v[5]
       /\ q[6] = v[6] /\ q[7] = v[7]
       /\ q[8] = f[1] /\ q[9] = f[2] /\ q[10] = f[3] /\ q[11] = f[4]
       /\ q[12] = f[5] /\ q[13] = f[6] /\ q[14] = f[7] /\ q[15] = f[8]
  BY <1>7, <1>12, <1>13, Joined
<1>15. /\ q[1] = Command("ERESET", 0) /\ q[2] = Command("RESET", 0) /\ q[3] = Go
       /\ q[4] = Item("TX", 1) /\ q[5] = Go /\ q[6] = Item("TX", 1) /\ q[7] = Go
  BY <1>1, <1>3, <1>5, <1>10, <1>12, <1>14
<1>16. /\ q[8] = Step("rxwm", 0, 1) /\ q[9] = Command("RSR1", 0) /\ q[10] = HeldItem("TX", 1) /\ q[11] = Go
       /\ q[12] = Item("RX", 1) /\ q[13] = Go /\ q[14] = Step("rxwait", 0, 0) /\ q[15] = Step("poll", 0, 0)
  BY <1>7, <1>14
<1>17. \A k \in 1..15 : q[k] = ResetItems[k]
  BY <1>15, <1>16 DEF ResetItems
<1>18. \A k \in 1..15 : q[k] = SectionItems(ResetSection)[0+k]
  BY <1>17, ResetLength
<1> QED BY <1>14, <1>18 DEF Sized

(***************************************************************************)
(* The accesses of the reads are those of their sections.                  *)
(***************************************************************************)
LEMMA StandardItems ==
  ASSUME NEW c, NEW addr \in Cells, NEW n \in 1..Size, NEW q, q = ReadStandard(addr, n)
  PROVE  /\ Sized(q, c, 5) /\ q[1] = Command("RD", addr) /\ q[2] = HeldItem("TX", W) /\ q[3] = Go
         /\ q[4] = Item("RX", n) /\ q[5] = Go
<1>1. PICK a : a = Send("RD", addr, W, TRUE)
  OBVIOUS
<1>2. Sized(a, c, 3) /\ a[1] = Command("RD", addr) /\ a[2] = HeldItem("TX", W) /\ a[3] = Go
  BY <1>1, Small, ShortSend DEF Opcodes, Reads
<1>3. PICK b : b = Segment("RX", n, FALSE)
  OBVIOUS
<1>4. Sized(b, c, 2) /\ b[1] = Item("RX", n) /\ b[2] = Go
  BY <1>3, ShortSegment
<1>5. q = Cat(a, b)
  BY <1>1, <1>3 DEF Cat, ReadStandard
<1>6. Sized(q, c, 5) /\ q[1] = a[1] /\ q[2] = a[2] /\ q[3] = a[3] /\ q[4] = b[1] /\ q[5] = b[2]
  BY <1>2, <1>4, <1>5, Joined
<1> QED BY <1>2, <1>4, <1>6

(* The accesses that send the commands of a quad read. *)
LEMMA QuadItems ==
  ASSUME NEW c, NEW addr \in Cells, NEW n \in 1..Size, NEW q, q = ReadQuad(addr, n)
  PROVE  /\ Sized(q, c, 10) /\ q[1] = Command("RDQIO", 0) /\ q[2] = HeldItem("TX", 1) /\ q[3] = Go
         /\ q[4] = Command("ADDR", addr) /\ q[5] = HeldItem("TX", W) /\ q[6] = Go
         /\ q[7] = HeldItem("DUMMY", 1) /\ q[8] = Go /\ q[9] = Item("RX", n) /\ q[10] = Go
<1>1. PICK a : a = Send("RDQIO", 0, 1, TRUE)
  OBVIOUS
<1>2. Sized(a, c, 3) /\ a[1] = Command("RDQIO", 0) /\ a[2] = HeldItem("TX", 1) /\ a[3] = Go
  BY <1>1, Small, ShortSend DEF Opcodes, Reads
<1>3. PICK b : b = Send("ADDR", addr, W, TRUE)
  OBVIOUS
<1>4. Sized(b, c, 3) /\ b[1] = Command("ADDR", addr) /\ b[2] = HeldItem("TX", W) /\ b[3] = Go
  BY <1>3, Small, ShortSend DEF Opcodes
<1>5. PICK d : d = Segment("DUMMY", 1, TRUE)
  OBVIOUS
<1>6. Sized(d, c, 2) /\ d[1] = HeldItem("DUMMY", 1) /\ d[2] = Go
  BY <1>5, Small, ShortSegment
<1>7. PICK e : e = Segment("RX", n, FALSE)
  OBVIOUS
<1>8. Sized(e, c, 2) /\ e[1] = Item("RX", n) /\ e[2] = Go
  BY <1>7, ShortSegment
<1>9. PICK x : x = Cat(a, b)
  OBVIOUS
<1>10. /\ Sized(x, c, 6) /\ x[1] = a[1] /\ x[2] = a[2] /\ x[3] = a[3]
       /\ x[4] = b[1] /\ x[5] = b[2] /\ x[6] = b[3]
  BY <1>2, <1>4, <1>9, Joined
<1>11. PICK y : y = Cat(x, d)
  OBVIOUS
<1>12. /\ Sized(y, c, 8) /\ y[1] = x[1] /\ y[2] = x[2] /\ y[3] = x[3] /\ y[4] = x[4] /\ y[5] = x[5] /\ y[6] = x[6]
       /\ y[7] = d[1] /\ y[8] = d[2]
  BY <1>6, <1>10, <1>11, Joined
<1>13. q = Cat(y, e)
  BY <1>1, <1>3, <1>5, <1>7, <1>9, <1>11 DEF Cat, ReadQuad
<1>14. /\ Sized(q, c, 10) /\ q[1] = y[1] /\ q[2] = y[2] /\ q[3] = y[3] /\ q[4] = y[4] /\ q[5] = y[5] /\ q[6] = y[6]
       /\ q[7] = y[7] /\ q[8] = y[8] /\ q[9] = e[1] /\ q[10] = e[2]
  BY <1>8, <1>12, <1>13, Joined
<1> QED BY <1>2, <1>4, <1>6, <1>8, <1>10, <1>12, <1>14

(* The access that launches the DMA. *)
LEMMA LaunchItems ==
  ASSUME NEW c, NEW fn \in DmaReaders, NEW n \in 1..Sector, NEW q, q = DmaRead(fn, n)
  PROVE  Sized(q, c, 1) /\ q[1] = [k |-> "dmarx", fn |-> fn, n |-> n \div W]
<1>1. n \div W \in 0..Sector
  BY Geometry, SMTT(30)
<1>2. PICK x : x = [k |-> "dmarx", fn |-> fn, n |-> n \div W]
  OBVIOUS
<1>3. x \in Items(c)
  BY <1>1, <1>2 DEF Items
<1>4. q = << x >>
  BY <1>2 DEF DmaRead
<1> QED BY <1>2, <1>3, <1>4, One

(* The access that waits for the DMA. *)
LEMMA AwaitItems ==
  ASSUME NEW c, NEW n \in Nat, n % W = 0, NEW q, q = DmaTail(n)
  PROVE  Sized(q, c, 1) /\ q[1] = Await
<1>1. Await \in Items(c)
  BY StepType DEF Await, Marks
<1>2. PICK u \in Seq(Items(c)) : u = << Await >>
  <2>1. << Await >> \in Seq(Items(c))
    BY <1>1, One DEF Sized
  <2> QED BY <2>1
<1>3. q = u \o <<>>
  BY <1>2 DEF DmaTail, Words, Await
<1>4. u \o <<>> = u
  OBVIOUS
<1>5. q = << Await >>
  BY <1>2, <1>3, <1>4
<1> QED BY <1>1, <1>5, One

(* The sections of the reads. *)
ReadSection(kind, addr, n, via, fn) ==
  [kind |-> kind, op |-> IF kind = "read" THEN "RD" ELSE "RDQIO", addr |-> addr, off |-> 0, n |-> n,
   via |-> via, fn |-> fn]

(* The reads are sections. *)
LEMMA ReadSections ==
  ASSUME NEW kind \in ReadKinds, NEW addr \in Cells, NEW n \in 1..Sector, NEW via \in {"cpu", "early", "late"},
         NEW fn \in DmaReaders \cup {"none"}, via = "early" => kind = "read",
         via = "cpu" => fn = "none", via # "cpu" => fn # "none" /\ n % W = 0
  PROVE  /\ ReadSection(kind, addr, n, via, fn) \in Sections
         /\ Proper(ReadSection(kind, addr, n, via, fn)) /\ Proper(ReadSection(kind, addr, n, via, fn))'
<1>1. PICK s : s = ReadSection(kind, addr, n, via, fn)
  OBVIOUS
<1>2. /\ s.kind = kind /\ s.op = (IF kind = "read" THEN "RD" ELSE "RDQIO") /\ s.addr = addr /\ s.off = 0
      /\ s.n = n /\ s.via = via /\ s.fn = fn
  BY <1>1 DEF ReadSection
<1>3. s \in Sections
  <2>1. n \in Nat
    OBVIOUS
  <2> QED BY <1>1, <2>1 DEF ReadSection, Sections, ReadKinds, DmaReaders
<1>4. Proper(s)
  BY <1>2 DEF Proper, ReadKinds
<1>5. Proper(s)'
  BY <1>2 DEF Proper, ReadKinds
<1> QED BY <1>1, <1>3, <1>4, <1>5

(* The first m accesses of q are those of the section. *)
Performs(q, s, m, c) ==
  /\ q \in Seq(Items(c)) /\ m \in Nat /\ m <= Len(q)
  /\ \A k \in 1..m : q[k] = SectionItems(s)[0+k]

(* w25q128jw_read_standard makes the accesses of its section, then         *)
(* empties the FIFO.                                                       *)
LEMMA CoreStandard ==
  ASSUME NEW c, NEW addr \in Cells, NEW n \in 1..Sector, NEW q, q = w25q128jw_read_standard(addr, n),
         NEW s, s = ReadSection("read", addr, n, "cpu", "none")
  PROVE  Performs(q, s, 5, c) /\ Length(s) = 5 /\ Len(q) = 6 /\ q[6] = Step("drain", 0, n)
<1>1. n \in 1..Size /\ n \in Nat
  BY Geometry
<1>2. PICK a : a = ReadStandard(addr, n)
  OBVIOUS
<1>3. /\ Sized(a, c, 5) /\ a[1] = Command("RD", addr) /\ a[2] = HeldItem("TX", W) /\ a[3] = Go
      /\ a[4] = Item("RX", n) /\ a[5] = Go
  BY <1>1, <1>2, StandardItems
<1>4. PICK b : b = Drain(0, n)
  OBVIOUS
<1>5. Sized(b, c, 1) /\ b[1] = Step("drain", 0, n)
  <2>1. Step("drain", 0, n) \in Items(c)
    BY <1>1, StepType
  <2> QED BY <1>4, <2>1, One DEF Drain
<1>6. q = Cat(a, b)
  BY <1>2, <1>4 DEF w25q128jw_read_standard, ReadLoop, Cat
<1>7. Sized(q, c, 6) /\ q[1] = a[1] /\ q[2] = a[2] /\ q[3] = a[3] /\ q[4] = a[4] /\ q[5] = a[5] /\ q[6] = b[1]
  BY <1>3, <1>5, <1>6, Joined
<1>8. SectionItems(s) = << Command("RD", addr), HeldItem("TX", W), Go, Item("RX", n), Go >>
  BY DEF SectionItems, ReadItems, ReadSection, Writes
<1>9. Length(s) = 5
  BY <1>8 DEF Length
<1>10. \A k \in 1..5 : q[k] = SectionItems(s)[0+k]
  BY <1>3, <1>7, <1>8
<1> QED BY <1>5, <1>7, <1>9, <1>10 DEF Performs, Sized

(* w25q128jw_read_quad makes the accesses of its section, then empties     *)
(* the FIFO.                                                               *)
LEMMA CoreQuad ==
  ASSUME NEW c, NEW addr \in Cells, NEW n \in 1..Sector, NEW q, q = w25q128jw_read_quad(addr, n),
         NEW s, s = ReadSection("readq", addr, n, "cpu", "none")
  PROVE  Performs(q, s, 10, c) /\ Length(s) = 10 /\ Len(q) = 11 /\ q[11] = Step("drain", 0, n)
<1>1. n \in 1..Size /\ n \in Nat
  BY Geometry
<1>2. PICK a : a = ReadQuad(addr, n)
  OBVIOUS
<1>3. /\ Sized(a, c, 10) /\ a[1] = Command("RDQIO", 0) /\ a[2] = HeldItem("TX", 1) /\ a[3] = Go
      /\ a[4] = Command("ADDR", addr) /\ a[5] = HeldItem("TX", W) /\ a[6] = Go
      /\ a[7] = HeldItem("DUMMY", 1) /\ a[8] = Go /\ a[9] = Item("RX", n) /\ a[10] = Go
  BY <1>1, <1>2, QuadItems
<1>4. PICK b : b = Drain(0, n)
  OBVIOUS
<1>5. Sized(b, c, 1) /\ b[1] = Step("drain", 0, n)
  <2>1. Step("drain", 0, n) \in Items(c)
    BY <1>1, StepType
  <2> QED BY <1>4, <2>1, One DEF Drain
<1>6. q = Cat(a, b)
  BY <1>2, <1>4 DEF w25q128jw_read_quad, ReadLoop, Cat
<1>7. /\ Sized(q, c, 11) /\ q[1] = a[1] /\ q[2] = a[2] /\ q[3] = a[3] /\ q[4] = a[4] /\ q[5] = a[5] /\ q[6] = a[6]
      /\ q[7] = a[7] /\ q[8] = a[8] /\ q[9] = a[9] /\ q[10] = a[10] /\ q[11] = b[1]
  BY <1>3, <1>5, <1>6, Joined
<1>8. SectionItems(s) = << Command("RDQIO", 0), HeldItem("TX", 1), Go, Command("ADDR", addr),
                           HeldItem("TX", W), Go, HeldItem("DUMMY", 1), Go, Item("RX", n), Go >>
  BY DEF SectionItems, ReadqItems, ReadSection, Writes
<1>9. Length(s) = 10
  BY <1>8 DEF Length
<1>10. \A k \in 1..10 : q[k] = SectionItems(s)[0+k]
  BY <1>3, <1>7, <1>8
<1> QED BY <1>5, <1>7, <1>9, <1>10 DEF Performs, Sized

(* The DMA launched before the command, and after it. *)
LEMMA EarlyItems ==
  ASSUME NEW c, NEW addr \in Cells, NEW n \in 1..Sector, NEW fn \in DmaReaders,
         NEW q, q = Cat(DmaRead(fn, n), ReadStandard(addr, n)),
         NEW s, s = ReadSection("read", addr, n, "early", fn)
  PROVE  /\ Performs(q, s, 6, c) /\ Length(s) = 7 /\ Sized(q, c, 6)
         /\ n % W = 0 => \A r : r = Cat(q, DmaTail(n)) => Performs(r, s, 7, c) /\ Len(r) = 7
<1>1. n \in 1..Size /\ n \in Nat
  BY Geometry
<1>2. PICK a : a = ReadStandard(addr, n)
  OBVIOUS
<1>3. /\ Sized(a, c, 5) /\ a[1] = Command("RD", addr) /\ a[2] = HeldItem("TX", W) /\ a[3] = Go
      /\ a[4] = Item("RX", n) /\ a[5] = Go
  BY <1>1, <1>2, StandardItems
<1>4. PICK b : b = DmaRead(fn, n)
  OBVIOUS
<1>5. Sized(b, c, 1) /\ b[1] = Launch(s)
  <2>1. Launch(s) = [k |-> "dmarx", fn |-> fn, n |-> n \div W]
    BY DEF Launch, ReadSection
  <2> QED BY <1>4, <2>1, LaunchItems
<1>6. q = Cat(b, a)
  BY <1>2, <1>4
<1>7. Sized(q, c, 6) /\ q[1] = b[1] /\ q[2] = a[1] /\ q[3] = a[2] /\ q[4] = a[3] /\ q[5] = a[4] /\ q[6] = a[5]
  BY <1>3, <1>5, <1>6, Joined
<1>8. SectionItems(s) = << Launch(s), Command("RD", addr), HeldItem("TX", W), Go, Item("RX", n), Go, Await >>
  <2>1. s.kind = "read" /\ s.via = "early" /\ s.addr = addr /\ s.n = n
    BY DEF ReadSection
  <2>2. SectionItems(s) = ReadItems(s)
    BY <2>1 DEF SectionItems, Writes
  <2> QED BY <2>1, <2>2 DEF ReadItems
<1>9. Length(s) = 7
  BY <1>8 DEF Length
<1>10. \A k \in 1..6 : q[k] = SectionItems(s)[0+k]
  <2>1. PICK x : x = Launch(s)
    OBVIOUS
  <2>2. /\ q[1] = x /\ q[2] = Command("RD", addr) /\ q[3] = HeldItem("TX", W) /\ q[4] = Go
        /\ q[5] = Item("RX", n) /\ q[6] = Go
    BY <1>3, <1>5, <1>7, <2>1
  <2>3. SectionItems(s) = << x, Command("RD", addr), HeldItem("TX", W), Go, Item("RX", n), Go, Await >>
    BY <1>8, <2>1
  <2> QED BY <2>2, <2>3
<1>11. ASSUME n % W = 0, NEW r, r = Cat(q, DmaTail(n)) PROVE Performs(r, s, 7, c) /\ Len(r) = 7
  <2>1. PICK d : d = DmaTail(n)
    OBVIOUS
  <2>2. Sized(d, c, 1) /\ d[1] = Await
    BY <1>1, <1>11, <2>1, AwaitItems
  <2>3. r = Cat(q, d)
    BY <1>11, <2>1
  <2>4. Sized(r, c, 7) /\ r[1] = q[1] /\ r[2] = q[2] /\ r[3] = q[3] /\ r[4] = q[4] /\ r[5] = q[5] /\ r[6] = q[6]
        /\ r[7] = d[1]
    BY <1>7, <2>2, <2>3, Joined
  <2>5. \A k \in 1..7 : r[k] = SectionItems(s)[0+k]
    BY <1>3, <1>5, <1>7, <1>8, <2>2, <2>4
  <2> QED BY <2>4, <2>5 DEF Performs, Sized
<1> QED BY <1>7, <1>9, <1>10, <1>11 DEF Performs, Sized

(* A standard read whose DMA is launched behind the commands. *)
LEMMA LateStandard ==
  ASSUME NEW c, NEW addr \in Cells, NEW n \in 1..Sector, n % W = 0, NEW fn \in DmaReaders,
         NEW q, q = Cat(ReadStandard(addr, n), Cat(DmaRead(fn, n), DmaTail(n))),
         NEW s, s = ReadSection("read", addr, n, "late", fn)
  PROVE  Performs(q, s, 7, c) /\ Length(s) = 7 /\ Len(q) = 7
<1>1. n \in 1..Size /\ n \in Nat
  BY Geometry
<1>2. PICK a : a = ReadStandard(addr, n)
  OBVIOUS
<1>3. /\ Sized(a, c, 5) /\ a[1] = Command("RD", addr) /\ a[2] = HeldItem("TX", W) /\ a[3] = Go
      /\ a[4] = Item("RX", n) /\ a[5] = Go
  BY <1>1, <1>2, StandardItems
<1>4. PICK x : x = Launch(s)
  OBVIOUS
<1>5. PICK b : b = DmaRead(fn, n)
  OBVIOUS
<1>6. Sized(b, c, 1) /\ b[1] = x
  <2>1. x = [k |-> "dmarx", fn |-> fn, n |-> n \div W]
    BY <1>4 DEF Launch, ReadSection
  <2> QED BY <1>5, <2>1, LaunchItems
<1>7. PICK d : d = DmaTail(n)
  OBVIOUS
<1>8. Sized(d, c, 1) /\ d[1] = Await
  BY <1>1, <1>7, AwaitItems
<1>9. PICK e : e = Cat(b, d)
  OBVIOUS
<1>10. Sized(e, c, 2) /\ e[1] = x /\ e[2] = Await
  <2>1. Sized(e, c, 2) /\ e[1] = b[1] /\ e[2] = d[1]
    BY <1>6, <1>8, <1>9, Joined
  <2> QED BY <1>6, <1>8, <2>1
<1>11. q = Cat(a, e)
  BY <1>2, <1>5, <1>7, <1>9
<1>12. /\ Sized(q, c, 7) /\ q[1] = a[1] /\ q[2] = a[2] /\ q[3] = a[3] /\ q[4] = a[4] /\ q[5] = a[5]
       /\ q[6] = e[1] /\ q[7] = e[2]
  BY <1>3, <1>10, <1>11, Joined
<1>13. SectionItems(s) = << Command("RD", addr), HeldItem("TX", W), Go, Item("RX", n), Go, x, Await >>
  <2>1. s.kind = "read" /\ s.via = "late" /\ s.addr = addr /\ s.n = n
    BY DEF ReadSection
  <2>2. SectionItems(s) = ReadItems(s)
    BY <2>1 DEF SectionItems, Writes
  <2> QED BY <1>4, <2>1, <2>2 DEF ReadItems
<1>14. Length(s) = 7
  BY <1>13 DEF Length
<1>15. \A k \in 1..7 : q[k] = SectionItems(s)[0+k]
  <2>1. /\ q[1] = Command("RD", addr) /\ q[2] = HeldItem("TX", W) /\ q[3] = Go
        /\ q[4] = Item("RX", n) /\ q[5] = Go /\ q[6] = x /\ q[7] = Await
    BY <1>3, <1>10, <1>12
  <2> QED BY <1>13, <2>1
<1> QED BY <1>12, <1>14, <1>15 DEF Performs, Sized

(* A quad read whose DMA is launched behind the commands. *)
LEMMA LateQuad ==
  ASSUME NEW c, NEW addr \in Cells, NEW n \in 1..Sector, NEW fn \in DmaReaders,
         NEW s, s = ReadSection("readq", addr, n, "late", fn)
  PROVE  /\ Length(s) = 12
         /\ \A q : q = Cat(ReadQuad(addr, n), DmaRead(fn, n)) => Performs(q, s, 11, c) /\ Len(q) = 11
         /\ n % W = 0 => \A q : \/ q = Cat(Cat(ReadQuad(addr, n), DmaRead(fn, n)), DmaTail(n))
                                \/ q = Cat(ReadQuad(addr, n), Cat(DmaRead(fn, n), DmaTail(n)))
                                => Performs(q, s, 12, c) /\ Len(q) = 12
<1>1. n \in 1..Size /\ n \in Nat
  BY Geometry
<1>2. PICK a : a = ReadQuad(addr, n)
  OBVIOUS
<1>3. /\ Sized(a, c, 10) /\ a[1] = Command("RDQIO", 0) /\ a[2] = HeldItem("TX", 1) /\ a[3] = Go
      /\ a[4] = Command("ADDR", addr) /\ a[5] = HeldItem("TX", W) /\ a[6] = Go
      /\ a[7] = HeldItem("DUMMY", 1) /\ a[8] = Go /\ a[9] = Item("RX", n) /\ a[10] = Go
  BY <1>1, <1>2, QuadItems
<1>4. PICK x : x = Launch(s)
  OBVIOUS
<1>5. PICK b : b = DmaRead(fn, n)
  OBVIOUS
<1>6. Sized(b, c, 1) /\ b[1] = x
  <2>1. x = [k |-> "dmarx", fn |-> fn, n |-> n \div W]
    BY <1>4 DEF Launch, ReadSection
  <2> QED BY <1>5, <2>1, LaunchItems
<1>7. SectionItems(s) = << Command("RDQIO", 0), HeldItem("TX", 1), Go, Command("ADDR", addr),
                           HeldItem("TX", W), Go, HeldItem("DUMMY", 1), Go, Item("RX", n), Go, x, Await >>
  <2>1. s.kind = "readq" /\ s.via = "late" /\ s.addr = addr /\ s.n = n
    BY DEF ReadSection
  <2>2. SectionItems(s) = ReadqItems(s)
    BY <2>1 DEF SectionItems, Writes
  <2> QED BY <1>4, <2>1, <2>2 DEF ReadqItems
<1>8. Length(s) = 12
  BY <1>7 DEF Length
<1>9. PICK g : g = Cat(a, b)
  OBVIOUS
<1>10. /\ Sized(g, c, 11) /\ g[1] = Command("RDQIO", 0) /\ g[2] = HeldItem("TX", 1) /\ g[3] = Go
       /\ g[4] = Command("ADDR", addr) /\ g[5] = HeldItem("TX", W) /\ g[6] = Go
       /\ g[7] = HeldItem("DUMMY", 1) /\ g[8] = Go /\ g[9] = Item("RX", n) /\ g[10] = Go /\ g[11] = x
  <2>1. /\ Sized(g, c, 11) /\ g[1] = a[1] /\ g[2] = a[2] /\ g[3] = a[3] /\ g[4] = a[4] /\ g[5] = a[5]
        /\ g[6] = a[6] /\ g[7] = a[7] /\ g[8] = a[8] /\ g[9] = a[9] /\ g[10] = a[10] /\ g[11] = b[1]
    BY <1>3, <1>6, <1>9, Joined
  <2> QED BY <1>3, <1>6, <2>1
<1>11. Performs(g, s, 11, c) /\ Len(g) = 11
  <2>1. \A k \in 1..11 : g[k] = SectionItems(s)[0+k]
    BY <1>7, <1>10
  <2> QED BY <1>10, <2>1 DEF Performs, Sized
<1>12. \A q : q = Cat(ReadQuad(addr, n), DmaRead(fn, n)) => Performs(q, s, 11, c) /\ Len(q) = 11
  BY <1>2, <1>5, <1>9, <1>11
<1>13. ASSUME n % W = 0, NEW q, \/ q = Cat(Cat(ReadQuad(addr, n), DmaRead(fn, n)), DmaTail(n))
                                \/ q = Cat(ReadQuad(addr, n), Cat(DmaRead(fn, n), DmaTail(n)))
       PROVE  Performs(q, s, 12, c) /\ Len(q) = 12
  <2>1. PICK d : d = DmaTail(n)
    OBVIOUS
  <2>2. Sized(d, c, 1) /\ d[1] = Await
    BY <1>1, <1>13, <2>1, AwaitItems
  <2>3. /\ Sized(q, c, 12) /\ q[1] = Command("RDQIO", 0) /\ q[2] = HeldItem("TX", 1) /\ q[3] = Go
        /\ q[4] = Command("ADDR", addr) /\ q[5] = HeldItem("TX", W) /\ q[6] = Go
        /\ q[7] = HeldItem("DUMMY", 1) /\ q[8] = Go /\ q[9] = Item("RX", n) /\ q[10] = Go /\ q[11] = x
        /\ q[12] = Await
    <3>1. CASE q = Cat(g, d)
      <4>1. /\ Sized(q, c, 12) /\ q[1] = g[1] /\ q[2] = g[2] /\ q[3] = g[3] /\ q[4] = g[4] /\ q[5] = g[5]
            /\ q[6] = g[6] /\ q[7] = g[7] /\ q[8] = g[8] /\ q[9] = g[9] /\ q[10] = g[10] /\ q[11] = g[11]
            /\ q[12] = d[1]
        BY <1>10, <2>2, <3>1, Joined
      <4> QED BY <1>10, <2>2, <4>1
    <3>2. CASE q = Cat(a, Cat(b, d))
      <4>1. PICK e : e = Cat(b, d)
        OBVIOUS
      <4>2. Sized(e, c, 2) /\ e[1] = b[1] /\ e[2] = d[1]
        BY <1>6, <2>2, <4>1, Joined
      <4>3. q = Cat(a, e)
        BY <3>2, <4>1
      <4>4. /\ Sized(q, c, 12) /\ q[1] = a[1] /\ q[2] = a[2] /\ q[3] = a[3] /\ q[4] = a[4] /\ q[5] = a[5]
            /\ q[6] = a[6] /\ q[7] = a[7] /\ q[8] = a[8] /\ q[9] = a[9] /\ q[10] = a[10] /\ q[11] = e[1]
            /\ q[12] = e[2]
        BY <1>3, <4>2, <4>3, Joined
      <4> QED BY <1>3, <1>6, <2>2, <4>2, <4>4
    <3> QED BY <1>2, <1>5, <1>9, <1>13, <2>1, <3>1, <3>2
  <2>4. \A k \in 1..12 : q[k] = SectionItems(s)[0+k]
    BY <1>7, <2>3
  <2> QED BY <2>3, <2>4 DEF Performs, Sized
<1> QED BY <1>8, <1>12, <1>13

(***************************************************************************)
(* The functions that write are entered.                                   *)
(***************************************************************************)
LEMMA RestCall ==
  ASSUME Resting, script # <<>>, script[1].k \notin {"ret", "read"}
  PROVE  call.fn # "async"
<1> SUFFICES ASSUME call.fn = "async" PROVE FALSE
  OBVIOUS
<1>1. \/ script = << [k |-> "ret", status |-> "ERROR"] >>
      \/ script[1].k = "read"
  BY DEF Resting
<1>2. script[1].k \in {"ret", "read"}
  BY <1>1
<1> QED BY <1>2

(* flash_wait is entered. *)
LEMMA RestWait ==
  ASSUME FlashTypes, Sane, Proceed, Resting, script[1].k = "flash_wait"
  PROVE  FlashInv'
<1>1. /\ script # <<>> /\ up /\ job = NoJob /\ ~asleep /\ frame = NoFrame
  BY RestHead
<1>2. call.fn # "async"
  BY <1>1, RestCall
<1>3. PICK a \in Seq(Items(call)) : a = Body(script[1])
  <2>1. Body(script[1]) = flash_wait
    BY DEF Body
  <2>2. flash_wait \in Seq(Items(call))
    BY WaitItems DEF Sized
  <2> QED BY <2>1, <2>2
<1>4. a = flash_wait
  BY <1>3 DEF Body
<1>5. /\ Len(a) = 8
      /\ a[1] = Step("rxwm", 0, 1) /\ a[2] = Command("RSR1", 0) /\ a[3] = HeldItem("TX", 1) /\ a[4] = Go
      /\ a[5] = Item("RX", 1) /\ a[6] = Go /\ a[7] = Step("rxwait", 0, 0) /\ a[8] = Step("poll", 0, 0)
  BY <1>4, WaitItems DEF Sized
<1>6. \A k \in 1..8 : a[k] = SectionItems(ResetSection)[7+k]
  <2>1. \A k \in 1..8 : a[k] = ResetItems[7+k]
    BY <1>5 DEF ResetItems
  <2> QED BY <2>1, ResetLength
<1>7. PICK m \in Nat : m = 8
  OBVIOUS
<1>8. m = Length(ResetSection) - 7 /\ 7 < Length(ResetSection) /\ 7 \in 0..16 /\ 2 \in 0..5
  BY <1>7, ResetLength
<1>9. Stage(ResetSection, 2, 0)
  BY <1>1 DEF Stage, PairStage, ResetSection, Pairs, Writes, ReadKinds
<1>10. /\ Issued(ResetSection, 7) = 2 /\ Pushed(ResetSection, 7) = Taken(ResetSection, 2, 0)
       /\ Got(ResetSection, 2, 0) = 0 /\ Launches(ResetSection, 7) = 0
  BY DEF Issued, Pushed, Taken, Got, Launches, ResetSection, Past, Pairs, ReadKinds, Segs, Lesser
<1>11. /\ ResetSection \in Sections /\ Proper(ResetSection) /\ ResetSection.kind = "reset"
       /\ ResetSection.kind \notin ReadKinds
  BY FixedSections DEF ResetSection, ReadKinds
<1>12. Len(a) = m /\ \A k \in 1..m : a[k] = SectionItems(ResetSection)[7+k]
  BY <1>5, <1>6, <1>7
<1>13. script[1].k \in Bodies
  BY DEF Bodies
<1> QED BY <1>2, <1>3, <1>8, <1>9, <1>10, <1>11, <1>12, <1>13, RestEnters

(* A section is entered at its beginning. *)
LEMMA RestBegins ==
  ASSUME FlashTypes, Sane, Proceed, Resting, script[1].k \in Bodies, call.fn # "async",
         NEW s \in Sections, Proper(s), Performs(Body(script[1]), s, Length(s), call),
         s.kind \in ReadKinds => ~Asynchronous(s),
         \/ /\ Len(Body(script[1])) = Length(s)
            /\ s.kind \in {"erase", "reset", "program"} \/ (s.kind \in ReadKinds /\ s.via # "cpu")
         \/ /\ Len(Body(script[1])) = Length(s) + 1 /\ s.kind \in ReadKinds /\ s.via = "cpu"
            /\ Body(script[1])[Length(s)+1] = Step("drain", 0, s.n)
  PROVE  FlashInv'
<1>1. /\ script # <<>> /\ up /\ job = NoJob /\ ~asleep /\ frame = NoFrame
  BY RestHead
<1>2. PICK a \in Seq(Items(call)) : a = Body(script[1])
  BY DEF Performs
<1>3. PICK i \in Nat : i = 0
  OBVIOUS
<1>4. PICK m \in Nat : m = Length(s)
  BY LengthType
<1>5. m = Length(s) - i /\ i < Length(s) /\ i \in 0..16 /\ i \in 0..5
  BY <1>3, <1>4, FirstCounts
<1>6. \A k \in 1..m : a[k] = SectionItems(s)[i+k]
  BY <1>2, <1>3, <1>4 DEF Performs
<1>7. Issued(s, i) = i /\ Pushed(s, i) = Taken(s, i, 0) /\ Got(s, i, 0) = 0 /\ Launches(s, i) = 0
  BY <1>3, FirstCounts
<1>8. Stage(s, i, 0)
  BY <1>1, <1>3, FirstStage
<1>9. \/ /\ Len(a) = m
         /\ s.kind \in {"erase", "reset", "program"} \/ (s.kind \in ReadKinds /\ s.via # "cpu")
      \/ /\ Len(a) = m + 1 /\ s.kind \in ReadKinds /\ s.via = "cpu"
         /\ a[m+1] = Step("drain", 0, s.n)
  BY <1>2, <1>4
<1> QED BY <1>2, <1>5, <1>6, <1>7, <1>8, <1>9, RestEnters

(* The chip's reset is entered. *)
LEMMA RestReset ==
  ASSUME FlashTypes, Sane, Proceed, Resting, script[1].k = "reset"
  PROVE  FlashInv'
<1>1. script # <<>>
  BY RestHead
<1>2. call.fn # "async" /\ script[1].k \in Bodies
  BY <1>1, RestCall DEF Bodies
<1>3. PICK a : a = Body(script[1])
  OBVIOUS
<1>4. a = ResetCommand
  BY <1>3 DEF Body
<1>5. a \in Seq(Items(call)) /\ Len(a) = 15 /\ \A k \in 1..15 : a[k] = SectionItems(ResetSection)[0+k]
  BY <1>4, ResetItemsAre
<1>6. Performs(a, ResetSection, Length(ResetSection), call) /\ Len(a) = Length(ResetSection)
  BY <1>5, ResetLength DEF Performs
<1>7. /\ ResetSection \in Sections /\ Proper(ResetSection) /\ ResetSection.kind = "reset"
      /\ ResetSection.kind \notin ReadKinds
  BY FixedSections DEF ResetSection, ReadKinds
<1> QED BY <1>2, <1>3, <1>6, <1>7, RestBegins

(* An erase is entered. *)
LEMMA RestErase ==
  ASSUME FlashTypes, Sane, Proceed, Resting, script[1].k = "erase"
  PROVE  FlashInv'
<1>1. script # <<>> /\ script[1] \in Items(call) /\ Legit(script[1])
  BY RestHead
<1>2. call.fn # "async" /\ script[1].k \in Bodies
  BY <1>1, RestCall DEF Bodies
<1>3. PICK l : l = script[1]
  OBVIOUS
<1>4. l.k = "erase" /\ l.op \in Erases /\ l.addr \in Cells /\ EraseWithin(l.op, l.addr)
  <2>1. l \in Items(call) /\ l.k = "erase" /\ Legit(l)
    BY <1>1, <1>3
  <2>2. l.op \in Erases /\ l.addr \in Cells
    BY <2>1 DEF Items, Marks
  <2> QED BY <2>1, <2>2 DEF Legit
<1> DEFINE s == [kind |-> "erase", op |-> l.op, addr |-> l.addr, off |-> 0, n |-> 0, via |-> "cpu",
                 fn |-> "none"]
<1>5. s \in Sections /\ s.kind = "erase" /\ s.op = l.op /\ s.addr = l.addr
  BY <1>4 DEF Sections, Pairs
<1>6. Proper(s)
  BY <1>4 DEF Proper, ReadKinds
<1> HIDE DEF s
<1>7. PICK a : a = Body(script[1])
  OBVIOUS
<1>8. a = EraseCommand(s.op, s.addr)
  BY <1>3, <1>4, <1>5, <1>7 DEF Body
<1>9. a \in Seq(Items(call)) /\ Len(a) = 14 /\ \A k \in 1..14 : a[k] = SectionItems(s)[0+k]
  BY <1>4, <1>5, <1>8, EraseItemsAre
<1>10. Length(s) = 14
  BY <1>5 DEF Length, SectionItems, EraseItems
<1>11. Performs(a, s, Length(s), call) /\ Len(a) = Length(s)
  BY <1>9, <1>10 DEF Performs
<1>12. s.kind \notin ReadKinds
  BY <1>5 DEF ReadKinds
<1> QED BY <1>2, <1>5, <1>6, <1>7, <1>11, <1>12, RestBegins

(* The program of a page is entered. *)
LEMMA RestProgram ==
  ASSUME FlashTypes, Sane, Proceed, Resting, script[1].k = "page_write"
  PROVE  FlashInv'
<1>1. script # <<>> /\ script[1] \in Items(call) /\ Legit(script[1])
  BY RestHead
<1>2. call.fn # "async" /\ script[1].k \in Bodies
  BY <1>1, RestCall DEF Bodies
<1>3. PICK l : l = script[1]
  OBVIOUS
<1>4. /\ l.k = "page_write" /\ l.addr \in Nat /\ l.off \in Nat /\ l.n \in 1..Page /\ l.quad \in BOOLEAN
      /\ l.viaDma \in BOOLEAN /\ l.addr + l.n <= Size /\ l.off + l.n <= SourceLen(call)
  <2>1. l \in Items(call) /\ l.k = "page_write"
    BY <1>1, <1>3
  <2> QED BY <2>1 DEF Items, Marks
<1>5. /\ (l.addr % Page) + l.n <= Page /\ Within(l.addr, l.n)
      /\ l.viaDma => l.n >= W /\ Aligned(l.off)
  BY <1>1, <1>3, <1>4 DEF Legit
<1> DEFINE s == [kind |-> "program", op |-> IF l.quad THEN "PPQ" ELSE "PP", addr |-> l.addr, off |-> l.off,
                 n |-> l.n, via |-> IF l.viaDma THEN "dma" ELSE "cpu", fn |-> "none"]
<1>6. /\ s.kind = "program" /\ s.op = (IF l.quad THEN "PPQ" ELSE "PP") /\ s.addr = l.addr /\ s.off = l.off
      /\ s.n = l.n /\ s.via = (IF l.viaDma THEN "dma" ELSE "cpu") /\ s.op \in Programs
  BY DEF Programs
<1>7. s \in Sections
  <2>1. l.addr \in Cells
    BY <1>4, Geometry DEF Cells
  <2>2. l.n \in Nat
    BY <1>4
  <2> QED BY <1>4, <2>1, <2>2 DEF Sections, Writes, Programs
<1> HIDE DEF s
<1>8. Proper(s)
  <2>1. s.via = "dma" => l.viaDma
    BY <1>6
  <2>2. s.kind \notin ReadKinds /\ s.via \in {"cpu", "dma"}
    BY <1>6 DEF ReadKinds
  <2>3. s.n \in 1..Page /\ (s.addr % Page) + s.n <= Page /\ Within(s.addr, s.n)
    BY <1>4, <1>5, <1>6
  <2>4. s.via = "dma" => s.n >= W /\ Aligned(s.off)
    BY <1>5, <1>6, <2>1
  <2> QED BY <1>6, <2>2, <2>3, <2>4 DEF Proper
<1>9. PICK a : a = Body(script[1])
  OBVIOUS
<1>10. a = page_write(s.addr, s.off, s.n, l.quad, l.viaDma)
  BY <1>3, <1>4, <1>6, <1>9 DEF Body
<1>11. a \in Seq(Items(call)) /\ Len(a) = 17 /\ \A k \in 1..17 : a[k] = SectionItems(s)[0+k]
  <2>1. s.n \in 1..Page /\ s.off + s.n <= SourceLen(call)
    BY <1>4, <1>6
  <2>2. l.quad \in BOOLEAN /\ l.viaDma \in BOOLEAN
    BY <1>4
  <2>3. PICK quad \in BOOLEAN, viaDma \in BOOLEAN : quad = l.quad /\ viaDma = l.viaDma
    BY <2>2
  <2>4. /\ s.op = (IF quad THEN "PPQ" ELSE "PP") /\ s.via = (IF viaDma THEN "dma" ELSE "cpu")
        /\ a = page_write(s.addr, s.off, s.n, quad, viaDma)
    BY <1>6, <1>10, <2>3
  <2>5. s.kind = "program" /\ s.op \in Programs
    BY <1>6
  <2> QED BY <1>7, <2>1, <2>4, <2>5, ProgramItems
<1>12. Length(s) = 17
  BY <1>6, <1>7, <1>8, ProgramCounts
<1>13. Performs(a, s, Length(s), call) /\ Len(a) = Length(s)
  BY <1>11, <1>12 DEF Performs
<1>14. s.kind \notin ReadKinds
  BY <1>6 DEF ReadKinds
<1> QED BY <1>2, <1>6, <1>7, <1>8, <1>9, <1>13, <1>14, RestBegins

(***************************************************************************)
(* The reads are entered.                                                  *)
(***************************************************************************)
LEMMA ReadFields ==
  ASSUME NEW c, NEW l \in Items(c), l.k = "read"
  PROVE  /\ l.fn \in ReadFunctions /\ l.how \in {"standard", "quad", "standard_dma", "quad_dma"}
         /\ l.addr \in Cells /\ l.n \in 1..Sector
         /\ l.fn # "read" => l.how \in {"standard", "quad"}
  BY Geometry DEF Items, Marks, Hows

(* A read that performs the accesses of a section is entered. *)
LEMMA RestReadAs ==
  ASSUME FlashTypes, Sane, Proceed, Resting, script[1].k = "read", call.fn # "async",
         NEW kind \in ReadKinds, NEW addr \in Cells, NEW n \in 1..Sector, NEW via \in {"cpu", "early", "late"},
         NEW fn \in {"none", "read_standard_dma", "read_quad_dma", "application"},
         via = "early" => kind = "read",
         via = "cpu" => fn = "none", via # "cpu" => fn # "none" /\ n % W = 0,
         NEW s, s = ReadSection(kind, addr, n, via, fn), NEW a, a = Body(script[1]),
         Performs(a, s, Length(s), call),
         IF via = "cpu" THEN Len(a) = Length(s) + 1 /\ a[Length(s)+1] = Step("drain", 0, n)
         ELSE Len(a) = Length(s)
  PROVE  FlashInv'
<1>1. s \in Sections /\ Proper(s)
  BY ReadSections DEF DmaReaders
<1>2. s.kind \in ReadKinds /\ s.via = via /\ s.fn = fn /\ s.n = n
  BY DEF ReadSection
<1>3. ~Asynchronous(s)
  BY <1>2 DEF Asynchronous
<1>4. script[1].k \in Bodies
  BY DEF Bodies
<1>5. CASE via = "cpu"
  <2>1. Len(a) = Length(s) + 1 /\ s.kind \in ReadKinds /\ s.via = "cpu" /\ a[Length(s)+1] = Step("drain", 0, s.n)
    BY <1>2, <1>5
  <2> QED BY <1>1, <1>3, <1>4, <2>1, RestBegins
<1>6. CASE via # "cpu"
  <2>1. Len(a) = Length(s) /\ s.kind \in ReadKinds /\ s.via # "cpu"
    BY <1>2, <1>6
  <2> QED BY <1>1, <1>3, <1>4, <2>1, RestBegins
<1> QED BY <1>5, <1>6

(* A read is entered, whichever it is. *)
LEMMA RestRead ==
  ASSUME FlashTypes, Sane, Proceed, Resting, script[1].k = "read", call.fn # "async"
  PROVE  FlashInv'
<1>1. script # <<>> /\ script[1] \in Items(call) /\ Legit(script[1])
  BY RestHead
<1>2. PICK l : l = script[1]
  OBVIOUS
<1>3. l \in Items(call) /\ l.k = "read" /\ Legit(l)
  BY <1>1, <1>2
<1>4. /\ l.fn \in ReadFunctions /\ l.how \in {"standard", "quad", "standard_dma", "quad_dma"}
      /\ l.addr \in Cells /\ l.n \in 1..Sector
      /\ l.fn # "read" => l.how \in {"standard", "quad"}
  BY <1>3, ReadFields
<1>5. /\ l.fn # "read" \/ l.how \in {"standard_dma", "quad_dma"} => l.n % W = 0
      /\ l.fn # "async"
  BY <1>3 DEF Legit
<1>6. PICK addr \in Cells, n \in 1..Sector : addr = l.addr /\ n = l.n
  BY <1>4
<1>7. PICK a : a = Body(script[1])
  OBVIOUS
<1>8. a = ReadBody(l)
  BY <1>2, <1>3, <1>7 DEF Body
<1>9. CASE l.fn = "read" /\ l.how = "standard"
  <2>1. a = w25q128jw_read_standard(addr, n)
    BY <1>6, <1>8, <1>9 DEF ReadBody
  <2>2. PICK s : s = ReadSection("read", addr, n, "cpu", "none")
    OBVIOUS
  <2>3. Performs(a, s, 5, call) /\ Length(s) = 5 /\ Len(a) = 6 /\ a[6] = Step("drain", 0, n)
    BY <2>1, <2>2, CoreStandard
  <2>4. Performs(a, s, Length(s), call) /\ Len(a) = Length(s) + 1 /\ a[Length(s)+1] = Step("drain", 0, n)
    BY <2>3
  <2> QED BY <1>7, <2>2, <2>4, RestReadAs DEF ReadKinds
<1>10. CASE l.fn = "read" /\ l.how = "quad"
  <2>1. a = w25q128jw_read_quad(addr, n)
    BY <1>6, <1>8, <1>10 DEF ReadBody
  <2>2. PICK s : s = ReadSection("readq", addr, n, "cpu", "none")
    OBVIOUS
  <2>3. Performs(a, s, 10, call) /\ Length(s) = 10 /\ Len(a) = 11 /\ a[11] = Step("drain", 0, n)
    BY <2>1, <2>2, CoreQuad
  <2>4. Performs(a, s, Length(s), call) /\ Len(a) = Length(s) + 1 /\ a[Length(s)+1] = Step("drain", 0, n)
    BY <2>3
  <2> QED BY <1>7, <2>2, <2>4, RestReadAs DEF ReadKinds
<1>11. CASE l.fn = "read" /\ l.how = "standard_dma"
  <2>1. PICK q : q = Cat(DmaRead("read_standard_dma", n), ReadStandard(addr, n))
    OBVIOUS
  <2>2. a = Cat(q, DmaTail(n))
    BY <1>6, <1>8, <1>11, <2>1 DEF ReadBody, w25q128jw_read_standard_dma, Cat
  <2>3. PICK s : s = ReadSection("read", addr, n, "early", "read_standard_dma")
    OBVIOUS
  <2>4. n % W = 0
    BY <1>5, <1>6, <1>11
  <2>5. "read_standard_dma" \in DmaReaders
    BY DEF DmaReaders
  <2>6. Performs(a, s, 7, call) /\ Length(s) = 7 /\ Len(a) = 7
    BY <2>1, <2>2, <2>3, <2>4, <2>5, EarlyItems
  <2>7. Performs(a, s, Length(s), call) /\ Len(a) = Length(s)
    BY <2>6
  <2> QED BY <1>7, <2>3, <2>4, <2>7, RestReadAs DEF ReadKinds
<1>12. CASE l.fn = "read" /\ l.how = "quad_dma"
  <2>1. a = Cat(Cat(ReadQuad(addr, n), DmaRead("read_quad_dma", n)), DmaTail(n))
    BY <1>6, <1>8, <1>12 DEF ReadBody, w25q128jw_read_quad_dma, Cat
  <2>2. PICK s : s = ReadSection("readq", addr, n, "late", "read_quad_dma")
    OBVIOUS
  <2>3. n % W = 0
    BY <1>5, <1>6, <1>12
  <2>4. "read_quad_dma" \in DmaReaders
    BY DEF DmaReaders
  <2>5. Performs(a, s, 12, call) /\ Length(s) = 12 /\ Len(a) = 12
    BY <2>1, <2>2, <2>3, <2>4, LateQuad
  <2>6. Performs(a, s, Length(s), call) /\ Len(a) = Length(s)
    BY <2>5
  <2> QED BY <1>7, <2>2, <2>3, <2>6, RestReadAs DEF ReadKinds
<1>13. CASE l.fn = "setup" /\ l.how = "standard"
  <2>1. a = Cat(ReadStandard(addr, n), Cat(DmaRead("application", n), DmaTail(n)))
    BY <1>6, <1>8, <1>13 DEF ReadBody, ApplicationDma, Cat
  <2>2. PICK s : s = ReadSection("read", addr, n, "late", "application")
    OBVIOUS
  <2>3. n % W = 0
    BY <1>5, <1>6, <1>13
  <2>4. "application" \in DmaReaders
    BY DEF DmaReaders
  <2>5. Performs(a, s, 7, call) /\ Length(s) = 7 /\ Len(a) = 7
    BY <2>1, <2>2, <2>3, <2>4, LateStandard
  <2>6. Performs(a, s, Length(s), call) /\ Len(a) = Length(s)
    BY <2>5
  <2> QED BY <1>7, <2>2, <2>3, <2>6, RestReadAs DEF ReadKinds
<1>14. CASE l.fn = "setup" /\ l.how = "quad"
  <2>1. a = Cat(ReadQuad(addr, n), Cat(DmaRead("application", n), DmaTail(n)))
    BY <1>6, <1>8, <1>14 DEF ReadBody, ApplicationDma, Cat
  <2>2. PICK s : s = ReadSection("readq", addr, n, "late", "application")
    OBVIOUS
  <2>3. n % W = 0
    BY <1>5, <1>6, <1>14
  <2>4. "application" \in DmaReaders
    BY DEF DmaReaders
  <2>5. Performs(a, s, 12, call) /\ Length(s) = 12 /\ Len(a) = 12
    BY <2>1, <2>2, <2>3, <2>4, LateQuad
  <2>6. Performs(a, s, Length(s), call) /\ Len(a) = Length(s)
    BY <2>5
  <2> QED BY <1>7, <2>2, <2>3, <2>6, RestReadAs DEF ReadKinds
<1> QED BY <1>4, <1>5, <1>9, <1>10, <1>11, <1>12, <1>13, <1>14 DEF ReadFunctions

(***************************************************************************)
(* The loops, whose turns are more calls.                                  *)
(***************************************************************************)
LEMMA RestUnfolds ==
  ASSUME FlashTypes, Sane, Proceed, Resting, script[1].k \in Bodies, call.fn # "async",
         NEW a \in Seq(Items(call)), a = Body(script[1]), \A k \in 1..Len(a) : Legit(a[k])
  PROVE  FlashInv'
<1>1. /\ script # <<>> /\ Head(script) = script[1] /\ up /\ job = NoJob /\ ~asleep
      /\ cmds = <<>> /\ tx = <<>> /\ rx = <<>> /\ frame = NoFrame /\ dma = NoDma /\ LegitFrom(2)
  BY RestHead
<1>2. /\ script' = Body(Head(script)) \o Tail(script)
      /\ UNCHANGED <<chipVars, cmds, tx, rx, rxwm, dma, critical, call, buf, reg, res, up, pre>>
  BY <1>1, UnfoldHead
<1>3. script' = a \o Tail(script) /\ UNCHANGED call
  BY <1>1, <1>2
<1>4. /\ Len(a) \in Nat /\ Len(script) \in Nat /\ Len(script') = Len(a) + Len(script) - 1
      /\ \A k \in 1..Len(a) : script'[k] = a[k]
      /\ LegitFrom(Len(a) + 1)'
  BY <1>1, <1>3, Placed
<1>5. \A k \in 1..Len(a) : Legit(a[k])'
  BY <1>3, LegitStays
<1>6. LegitFrom(1)'
  <2> SUFFICES ASSUME NEW k \in 1..Len(script') PROVE Legit(script[k])'
    BY DEF LegitFrom
  <2>1. CASE k <= Len(a)
    <3>1. k \in 1..Len(a)
      BY <1>4, <2>1
    <3>2. script'[k] = a[k]
      BY <1>4, <3>1
    <3>3. Legit(a[k])'
      BY <1>5, <3>1
    <3> QED BY <3>2, <3>3
  <2>2. CASE k > Len(a)
    <3>1. k \in Len(a)+1..Len(script')
      BY <1>4, <2>2
    <3> QED BY <1>4, <3>1 DEF LegitFrom
  <2> QED BY <1>4, <2>1, <2>2
<1>7. Resting'
  <2>1. up' /\ cmds' = <<>> /\ tx' = <<>> /\ rx' = <<>> /\ dma' = NoDma
    BY <1>1, <1>2
  <2> QED BY <1>1, <1>2, <1>6, <2>1, Rests
<1>8. Sane'
  <2>1. script[1] # Go
    <3>1. Go.k = "ready" /\ "ready" \notin Bodies
      BY DEF Go, Step, Bodies
    <3> QED BY <3>1
  <2> QED BY <1>1, <1>2, <2>1, SaneHere
<1> QED BY <1>7, <1>8 DEF FlashInv, Flow

(* A page further is at the same place of its page. *)
LEMMA PageMultiple ==
  ASSUME NEW g \in Nat \ {0}, NEW x \in Nat
  PROVE  (x + g) % g = x % g
  BY Shift1

(* What may be written may be written in parts. *)
LEMMA WithinPart ==
  ASSUME NEW x \in Nat, NEW n \in Nat, Within(x, n), NEW y \in Nat, NEW m \in Nat, x <= y, y + m <= x + n
  PROVE  Within(y, m)
<1> SUFFICES ASSUME NEW a \in y..y+m-1 PROVE a \in Scope(call)
  BY DEF Within
<1>1. a \in x..x+n-1
  OBVIOUS
<1> QED BY <1>1 DEF Within

LoopOf(addr, off, n, quad, viaDma) ==
  [k |-> "pages", addr |-> addr, off |-> off, n |-> n, quad |-> quad, viaDma |-> viaDma]
PageOf(addr, off, n, quad, viaDma) ==
  [k |-> "page_write", addr |-> addr, off |-> off, n |-> n, quad |-> quad, viaDma |-> viaDma]

(* What pages of a loop may go through the DMA. *)
Fit(addr, off, n) ==
  \A x \in addr..addr+n-1 : x % Page = 0 =>
     Lesser(Page, addr + n - x) >= W /\ Aligned(off + (x - addr))

(* What the DMA can write from one page on it can write from the next. *)
LEMMA FitPart ==
  ASSUME NEW addr \in Nat, NEW off \in Nat, NEW n \in Nat, n > Page, Fit(addr, off, n)
  PROVE  Fit(addr + Page, off + Page, n - Page)
<1>1. Page \in Nat
  BY Geometry
<1> SUFFICES ASSUME NEW x \in addr+Page..addr+Page+(n-Page)-1, x % Page = 0
             PROVE  Lesser(Page, addr + Page + (n - Page) - x) >= W /\ Aligned(off + Page + (x - (addr + Page)))
  BY DEF Fit
<1>2. x \in addr..addr+n-1
  BY <1>1
<1>3. Lesser(Page, addr + n - x) >= W /\ Aligned(off + (x - addr))
  BY <1>2 DEF Fit
<1>4. addr + Page + (n - Page) - x = addr + n - x /\ off + Page + (x - (addr + Page)) = off + (x - addr)
  BY <1>1, <1>2
<1> QED BY <1>3, <1>4

(* The first page of what the DMA can write holds a word at an aligned     *)
(* place.                                                                  *)
LEMMA FitHead ==
  ASSUME NEW addr \in Nat, addr % Page = 0, NEW off \in Nat, NEW n \in Nat \ {0}, Fit(addr, off, n)
  PROVE  Lesser(Page, n) >= W /\ Aligned(off)
<1>1. addr \in addr..addr+n-1
  OBVIOUS
<1>2. Lesser(Page, addr + n - addr) >= W /\ Aligned(off + (addr - addr))
  BY <1>1 DEF Fit
<1>3. addr + n - addr = n /\ off + (addr - addr) = off
  OBVIOUS
<1> QED BY <1>2, <1>3

(* The program of a page is legitimate. *)
LEMMA PageLegit ==
  ASSUME NEW addr \in Nat, addr % Page = 0, NEW off, NEW n \in Nat, n <= Page, Within(addr, n),
         NEW quad, NEW viaDma, viaDma => n >= W /\ Aligned(off)
  PROVE  Legit(PageOf(addr, off, n, quad, viaDma))
<1>1. PICK i : i = PageOf(addr, off, n, quad, viaDma)
  OBVIOUS
<1>2. i.k = "page_write" /\ i.addr = addr /\ i.off = off /\ i.n = n /\ i.viaDma = viaDma
  BY <1>1 DEF PageOf
<1>3. (i.addr % Page) + i.n <= Page
  BY <1>2, Geometry
<1> QED BY <1>1, <1>2, <1>3 DEF Legit

(* The loop over the pages is legitimate. *)
LEMMA LoopLegit ==
  ASSUME NEW addr \in Nat, addr % Page = 0, NEW off, NEW n \in Nat, Within(addr, n),
         NEW quad, NEW viaDma, viaDma => Fit(addr, off, n)
  PROVE  Legit(LoopOf(addr, off, n, quad, viaDma))
<1>1. PICK i : i = LoopOf(addr, off, n, quad, viaDma)
  OBVIOUS
<1>2. i.k = "pages" /\ i.addr = addr /\ i.off = off /\ i.n = n /\ i.viaDma = viaDma
  BY <1>1 DEF LoopOf
<1> QED BY <1>1, <1>2 DEF Legit, Fit

(* The loop over the pages takes its next turn. *)
LEMMA RestPages ==
  ASSUME FlashTypes, Sane, Proceed, Resting, script[1].k = "pages"
  PROVE  FlashInv'
<1>1. script # <<>> /\ script[1] \in Items(call) /\ Legit(script[1])
  BY RestHead
<1>2. call.fn # "async" /\ script[1].k \in Bodies
  BY <1>1, RestCall DEF Bodies
<1>3. PICK l : l = script[1]
  OBVIOUS
<1>4. /\ l.k = "pages" /\ l.addr \in Nat /\ l.off \in Nat /\ l.n \in Nat \ {0} /\ l.quad \in BOOLEAN
      /\ l.viaDma \in BOOLEAN /\ l.addr + l.n <= Size /\ l.off + l.n <= SourceLen(call)
  <2>1. l \in Items(call) /\ l.k = "pages"
    BY <1>1, <1>3
  <2> QED BY <2>1 DEF Items, Marks
<1>5. l.addr % Page = 0 /\ Within(l.addr, l.n) /\ (l.viaDma => Fit(l.addr, l.off, l.n))
  BY <1>1, <1>3, <1>4 DEF Legit, Fit
<1>6. PICK addr \in Nat, off \in Nat, n \in Nat \ {0} : addr = l.addr /\ off = l.off /\ n = l.n
  BY <1>4
<1>7. PICK quad, viaDma : quad = l.quad /\ viaDma = l.viaDma
  OBVIOUS
<1>8. addr % Page = 0 /\ Within(addr, n) /\ (viaDma => Fit(addr, off, n))
  BY <1>5, <1>6, <1>7
<1>9. PICK a : a = Body(script[1])
  OBVIOUS
<1>10. a = PageTurn(l) /\ a \in Seq(Items(call))
  <2>1. a = PageTurn(l)
    BY <1>3, <1>4, <1>9 DEF Body
  <2>2. PageTurn(l) \in Seq(Items(call))
    <3>1. l \in Items(call) /\ CallShape(call)
      BY <1>1, <1>3 DEF FlashTypes, DriverTypes
    <3> QED BY <1>4, <3>1, TurnTypes
  <2> QED BY <2>1, <2>2
<1>11. viaDma => Lesser(Page, n) >= W /\ Aligned(off)
  BY <1>8, FitHead
<1>12. CASE n > Page
  <2>1. PICK x, y : x = PageOf(addr, off, Page, quad, viaDma)
                    /\ y = LoopOf(addr + Page, off + Page, n - Page, quad, viaDma)
    OBVIOUS
  <2>2. a = << x >> \o << y >>
    BY <1>6, <1>7, <1>10, <1>12, <2>1 DEF PageTurn, PageWrite, PageLoop, PageOf, LoopOf
  <2>3. Len(a) = 2 /\ a[1] = x /\ a[2] = y
    BY <2>2
  <2>4. Page \in Nat /\ Page > 0 /\ W <= Page
    BY Geometry
  <2>5. Legit(x)
    <3>1. Within(addr, Page)
      BY <1>8, <1>12, <2>4, WithinPart
    <3>2. viaDma => Page >= W /\ Aligned(off)
      BY <1>11, <2>4
    <3>3. Page <= Page
      BY <2>4
    <3>4. addr % Page = 0
      BY <1>8
    <3> QED BY <2>1, <2>4, <3>1, <3>2, <3>3, <3>4, PageLegit
  <2>6. Legit(y)
    <3>1. Within(addr + Page, n - Page)
      <4>1. addr + Page \in Nat /\ n - Page \in Nat
        BY <1>12, <2>4
      <4>2. addr <= addr + Page /\ addr + Page + (n - Page) <= addr + n
        BY <1>12, <2>4
      <4> QED BY <1>8, <4>1, <4>2, WithinPart
    <3>2. (addr + Page) % Page = 0
      BY <1>8, <2>4, PageMultiple
    <3>3. viaDma => Fit(addr + Page, off + Page, n - Page)
      BY <1>8, <1>12, FitPart
    <3>4. addr + Page \in Nat /\ n - Page \in Nat
      BY <1>12, <2>4
    <3> QED BY <2>1, <3>1, <3>2, <3>3, <3>4, LoopLegit
  <2>7. \A k \in 1..Len(a) : Legit(a[k])
    BY <2>3, <2>5, <2>6
  <2> QED BY <1>2, <1>9, <1>10, <2>7, RestUnfolds
<1>13. CASE n <= Page
  <2>1. PICK x : x = PageOf(addr, off, n, quad, viaDma)
    OBVIOUS
  <2>2. a = << x >>
    <3>1. ~(n > Page)
      BY <1>13, Geometry
    <3> QED BY <1>6, <1>7, <1>10, <2>1, <3>1 DEF PageTurn, PageWrite, PageOf
  <2>3. Len(a) = 1 /\ a[1] = x
    BY <2>2
  <2>4. Legit(x)
    <3>1. viaDma => n >= W /\ Aligned(off)
      <4>1. Lesser(Page, n) <= n
        BY Geometry DEF Lesser
      <4>2. Lesser(Page, n) \in Int /\ W \in Int
        BY Geometry DEF Lesser
      <4> QED BY <1>11, <4>1, <4>2
    <3> QED BY <1>8, <1>13, <2>1, <3>1, PageLegit
  <2>5. \A k \in 1..Len(a) : Legit(a[k])
    BY <2>3, <2>4
  <2> QED BY <1>2, <1>9, <1>10, <2>5, RestUnfolds
<1>14. n > Page \/ n <= Page
  BY Geometry
<1> QED BY <1>12, <1>13, <1>14

(***************************************************************************)
(* What a call may ask for when nothing is on its way, of the call c.      *)
(***************************************************************************)
WithinFor(c, addr, n) == \A a \in addr..addr+n-1 : a \in Scope(c)
AlignedFor(c, off) == c.fn = "erase_and_write" \/ (c.align + off) % W = 0
EraseWithinFor(c, op, addr) ==
  \A a \in Cells : a \div EraseUnit(op) = addr \div EraseUnit(op) => a \in Scope(c)
FitFor(c, addr, off, n) ==
  \A x \in addr..addr+n-1 : x % Page = 0 =>
     Lesser(Page, addr + n - x) >= W /\ AlignedFor(c, off + (x - addr))
LegitFor(c, i) ==
  /\ i.k \in {"flash_wait", "reset", "memcpy", "ret", "dmawait", "page_write", "pages", "erase",
              "read", "sectors"}
  /\ i.k = "page_write" =>
       /\ (i.addr % Page) + i.n <= Page /\ WithinFor(c, i.addr, i.n)
       /\ i.viaDma => i.n >= W /\ AlignedFor(c, i.off)
  /\ i.k = "pages" =>
       /\ i.addr % Page = 0 /\ WithinFor(c, i.addr, i.n)
       /\ i.viaDma => FitFor(c, i.addr, i.off, i.n)
  /\ i.k = "erase" => EraseWithinFor(c, i.op, i.addr)
  /\ i.k = "read" =>
       /\ i.fn # "read" \/ i.how \in {"standard_dma", "quad_dma"} => i.n % W = 0
       /\ i.fn = "async" => c.fn = "async"
  /\ i.k = "sectors" => \A x \in i.addr..i.addr+i.n-1 : x \in Span(c)

(* Legitimate for the call in progress. *)
LEMMA LegitHere ==
  ASSUME NEW i, LegitFor(call, i)
  PROVE  Legit(i)
  BY DEF Legit, LegitFor, Within, WithinFor, Aligned, AlignedFor, EraseWithin, EraseWithinFor, FitFor

(* Legitimate for the call that a step begins. *)
LEMMA LegitThere ==
  ASSUME NEW i, LegitFor(call', i)
  PROVE  Legit(i)'
  BY DEF Legit, LegitFor, Within, WithinFor, Aligned, AlignedFor, EraseWithin, EraseWithinFor, FitFor

(* Legitimate for the call in progress. *)
LEMMA LegitIs ==
  ASSUME NEW i, Legit(i)
  PROVE  LegitFor(call, i)
  BY DEF Legit, LegitFor, Within, WithinFor, Aligned, AlignedFor, EraseWithin, EraseWithinFor, FitFor

Fine(c, q) == q \in Seq(Items(c)) /\ \A k \in 1..Len(q) : LegitFor(c, q[k])

(* Fine pieces make a fine script. *)
LEMMA FineCat ==
  ASSUME NEW c, NEW a, NEW b, Fine(c, a), Fine(c, b)
  PROVE  Fine(c, Cat(a, b))
<1>1. a \in Seq(Items(c)) /\ b \in Seq(Items(c))
  BY DEF Fine
<1>2. PICK q : q = Cat(a, b)
  OBVIOUS
<1>3. /\ q \in Seq(Items(c)) /\ Len(q) = Len(a) + Len(b) /\ Len(a) \in Nat /\ Len(b) \in Nat
      /\ \A k \in 1..Len(a) : q[k] = a[k]
      /\ \A k \in 1..Len(b) : q[Len(a) + k] = b[k]
  BY <1>1, <1>2 DEF Cat
<1>4. ASSUME NEW k \in 1..Len(q) PROVE LegitFor(c, q[k])
  <2>1. CASE k <= Len(a)
    <3>1. k \in 1..Len(a)
      BY <1>3, <2>1
    <3>2. q[k] = a[k] /\ LegitFor(c, a[k])
      BY <1>3, <3>1 DEF Fine
    <3> QED BY <3>2
  <2>2. CASE k > Len(a)
    <3>1. PICK m \in 1..Len(b) : k = Len(a) + m
      <4>1. k - Len(a) \in 1..Len(b) /\ k = Len(a) + (k - Len(a))
        BY <1>3, <2>2
      <4> QED BY <4>1
    <3>2. q[k] = b[m] /\ LegitFor(c, b[m])
      BY <1>3, <3>1 DEF Fine
    <3> QED BY <3>2
  <2> QED BY <1>3, <2>1, <2>2
<1> QED BY <1>2, <1>3, <1>4 DEF Fine

(* A piece of one legitimate access. *)
LEMMA FineOne ==
  ASSUME NEW c, NEW x \in Items(c), LegitFor(c, x)
  PROVE  Fine(c, << x >>)
<1>1. Sized(<< x >>, c, 1) /\ << x >>[1] = x
  BY One
<1> QED BY <1>1 DEF Fine, Sized

(* The empty script. *)
LEMMA FineEmpty ==
  ASSUME NEW c
  PROVE  Fine(c, <<>>)
  BY DEF Fine

(* The accesses that put no command on its way, and the returns. *)
LEMMA FineMarks ==
  ASSUME NEW c
  PROVE  /\ Fine(c, << Step("dmawait", 0, 0) >>) /\ Fine(c, << Step("flash_wait", 0, 0) >>)
         /\ Fine(c, << Step("reset", 0, 0) >>)
         /\ \A status \in {"OK", "ERROR", "void"} : Fine(c, Return(status))
<1>1. /\ Step("dmawait", 0, 0) \in Items(c) /\ Step("flash_wait", 0, 0) \in Items(c)
      /\ Step("reset", 0, 0) \in Items(c)
  BY StepType DEF Marks
<1>2. ASSUME NEW k \in {"dmawait", "flash_wait", "reset"} PROVE LegitFor(c, Step(k, 0, 0))
  BY DEF LegitFor, Step
<1>3. ASSUME NEW status \in {"OK", "ERROR", "void"} PROVE Fine(c, Return(status))
  <2>1. PICK x : x = [k |-> "ret", status |-> status]
    OBVIOUS
  <2>2. x \in Items(c)
    BY <2>1 DEF Items
  <2>3. LegitFor(c, x)
    BY <2>1 DEF LegitFor
  <2>4. Return(status) = << x >>
    BY <2>1 DEF Return
  <2> QED BY <2>2, <2>3, <2>4, FineOne
<1>4. \A k \in {"dmawait", "flash_wait", "reset"} : LegitFor(c, Step(k, 0, 0))
  BY <1>2
<1> QED BY <1>1, <1>3, <1>4, FineOne

(* A read of one function. *)
LEMMA FineRead ==
  ASSUME NEW c, NEW fn \in ReadFunctions, NEW how \in Hows(fn), how # "best",
         NEW addr \in Cells, NEW n \in 1..Sector,
         fn # "read" \/ how \in {"standard_dma", "quad_dma"} => n % W = 0, fn = "async" => c.fn = "async"
  PROVE  Fine(c, Read(fn, how, addr, n))
<1>1. PICK x : x = [k |-> "read", fn |-> fn, how |-> how, addr |-> addr, n |-> n]
  OBVIOUS
<1>2. x \in Items(c)
  <2>1. how \in Hows("read") \ {"best"} /\ (fn # "read" => how \in {"standard", "quad"})
    BY DEF Hows, ReadFunctions
  <2> QED BY <1>1, <2>1 DEF Items
<1>3. LegitFor(c, x)
  BY <1>1 DEF LegitFor
<1>4. Read(fn, how, addr, n) = << x >>
  BY <1>1 DEF Read
<1> QED BY <1>2, <1>3, <1>4, FineOne

(* A read as w25q128jw_read chooses it. *)
LEMMA FineReading ==
  ASSUME NEW c, NEW how \in Hows("read"), NEW addr \in Cells, NEW n \in 1..Sector,
         how \in {"standard_dma", "quad_dma"} => n % W = 0, how = "best" /\ n >= RxDmaThreshold => n % W = 0
  PROVE  Fine(c, Reading(how, addr, n))
<1>1. "read" \in ReadFunctions
  BY DEF ReadFunctions
<1>2. CASE how # "best"
  <2>1. Fine(c, Read("read", how, addr, n))
    BY <1>1, <1>2, FineRead
  <2> QED BY <1>2, <2>1 DEF Reading
<1>3. CASE how = "best" /\ n < RxDmaThreshold
  <2>1. "quad" \in Hows("read")
    BY DEF Hows
  <2>2. Fine(c, Read("read", "quad", addr, n))
    BY <1>1, <2>1, FineRead
  <2> QED BY <1>3, <2>2 DEF Reading, w25q128jw_read
<1>4. CASE how = "best" /\ ~(n < RxDmaThreshold)
  <2>1. "quad_dma" \in Hows("read")
    BY DEF Hows
  <2>2. n % W = 0
    BY <1>4, RequestAssumption
  <2>3. Fine(c, Read("read", "quad_dma", addr, n))
    BY <1>1, <2>1, <2>2, FineRead
  <2>4. Fine(c, << Step("dmawait", 0, 0) >>)
    BY FineMarks
  <2>5. Fine(c, Cat(<< Step("dmawait", 0, 0) >>, Read("read", "quad_dma", addr, n)))
    BY <2>3, <2>4, FineCat
  <2> QED BY <1>4, <2>5 DEF Reading, w25q128jw_read, Cat
<1> QED BY <1>2, <1>3, <1>4

(* An erase inside of what the call may touch. *)
LEMMA FineErase ==
  ASSUME NEW c, NEW op \in Erases, NEW addr \in Cells, EraseWithinFor(c, op, addr)
  PROVE  Fine(c, Erase(op, addr))
<1>1. PICK x : x = [k |-> "erase", op |-> op, addr |-> addr]
  OBVIOUS
<1>2. x \in Items(c)
  BY <1>1 DEF Items
<1>3. LegitFor(c, x)
  BY <1>1 DEF LegitFor
<1>4. Fine(c, << x >>) /\ Fine(c, Wait)
  BY <1>2, <1>3, FineOne, FineMarks DEF Wait
<1>5. Fine(c, Cat(Wait, << x >>))
  BY <1>4, FineCat
<1> QED BY <1>1, <1>5 DEF Erase, Cat

(* What of n bytes at addr may go through the DMA. *)
Transferable(c, addr, n) ==
  \A x \in addr..addr+n-1 : x = addr \/ x % Page = 0 =>
     Lesser(Page - (x % Page), addr + n - x) >= W /\ AlignedFor(c, x - addr)

(* A page inside of what the call may touch. *)
LEMMA FinePage ==
  ASSUME NEW c, NEW addr \in Nat, NEW n \in 1..Page, NEW quad \in BOOLEAN, NEW viaDma \in BOOLEAN,
         addr + n <= Size, n <= SourceLen(c), (addr % Page) + n <= Page, WithinFor(c, addr, n),
         viaDma => n >= W /\ AlignedFor(c, 0)
  PROVE  Fine(c, PageWrite(addr, 0, n, quad, viaDma))
<1>1. PICK x : x = [k |-> "page_write", addr |-> addr, off |-> 0, n |-> n, quad |-> quad, viaDma |-> viaDma]
  OBVIOUS
<1>2. x \in Items(c)
  <2>1. 0 + n <= SourceLen(c)
    OBVIOUS
  <2> QED BY <1>1, <2>1 DEF Items
<1>3. LegitFor(c, x)
  BY <1>1 DEF LegitFor
<1>4. PageWrite(addr, 0, n, quad, viaDma) = << x >>
  BY <1>1 DEF PageWrite
<1> QED BY <1>2, <1>3, <1>4, FineOne

(* The pages inside of what the call may touch. *)
LEMMA FinePages ==
  ASSUME NEW c, NEW addr \in Nat, NEW off \in Nat, NEW n \in Nat \ {0}, NEW quad \in BOOLEAN,
         NEW viaDma \in BOOLEAN, addr + n <= Size, off + n <= SourceLen(c), addr % Page = 0,
         WithinFor(c, addr, n), viaDma => FitFor(c, addr, off, n)
  PROVE  Fine(c, PageLoop(addr, off, n, quad, viaDma))
<1>1. PICK x : x = [k |-> "pages", addr |-> addr, off |-> off, n |-> n, quad |-> quad, viaDma |-> viaDma]
  OBVIOUS
<1>2. x \in Items(c)
  BY <1>1 DEF Items
<1>3. LegitFor(c, x)
  BY <1>1 DEF LegitFor
<1>4. PageLoop(addr, off, n, quad, viaDma) = << x >>
  BY <1>1 DEF PageLoop
<1> QED BY <1>2, <1>3, <1>4, FineOne

(* What is left of the page that an address is in. *)
LEMMA PageRest ==
  ASSUME NEW g \in Nat \ {0}, NEW x \in Nat, NEW r, r = x % g, r # 0
  PROVE  r \in 1..g-1 /\ (x + (g - r)) % g = 0
<1>1. r \in 0..g-1 /\ x = g * (x \div g) + r /\ x \div g \in Nat
  BY SMTT(30)
<1>2. x + (g - r) = g * ((x \div g) + 1)
  BY <1>1, SMTT(30)
<1>3. PICK m \in Nat : m = (x \div g) + 1
  BY <1>1
<1>4. (g * m) % g = 0
  BY SMTT(30)
<1> QED BY <1>1, <1>2, <1>3, <1>4

(* page_write_wrapper: the rest of the first page, then the loop. *)
LEMMA FineWrapper ==
  ASSUME NEW c, NEW addr \in Nat, NEW n \in Nat \ {0}, NEW quad \in BOOLEAN, NEW viaDma \in BOOLEAN,
         addr + n <= Size, n <= SourceLen(c), SourceLen(c) \in Nat, WithinFor(c, addr, n),
         viaDma => Transferable(c, addr, n)
  PROVE  Fine(c, page_write_wrapper(addr, n, quad, viaDma))
<1>1. PICK r \in Nat : r = addr % Page
  BY Geometry
<1>2. PICK head \in Nat : head = IF r = 0 THEN 0 ELSE Lesser(Page - r, n)
  BY <1>1, Geometry, SMTT(30) DEF Lesser
<1>3. Page \in Nat \ {0} /\ W \in Nat /\ W <= Page /\ Size \in Nat
  BY Geometry
<1>4. r # 0 => r \in 1..Page-1 /\ (addr + (Page - r)) % Page = 0
  BY <1>1, <1>3, PageRest
<1>5. head <= n /\ head <= Page /\ r + head <= Page /\ (head > 0 => r # 0)
  BY <1>2, <1>3, <1>4 DEF Lesser
<1>6. head # n => (addr + head) % Page = 0
  <2>1. CASE r = 0
    BY <1>1, <1>2, <2>1
  <2>2. CASE r # 0 /\ head # n
    <3>1. head = Page - r
      BY <1>2, <2>2 DEF Lesser
    <3> QED BY <1>4, <2>2, <3>1
  <2> QED BY <2>1, <2>2
<1> DEFINE a == IF head > 0 THEN PageWrite(addr, 0, head, quad, viaDma) ELSE <<>>
           b == IF n = head THEN <<>> ELSE PageLoop(addr + head, head, n - head, quad, viaDma)
<1>7. Fine(c, a)
  <2>1. CASE head > 0
    <3>1. head \in 1..Page /\ addr + head <= Size /\ head <= SourceLen(c) /\ (addr % Page) + head <= Page
      BY <1>1, <1>3, <1>5, <2>1
    <3>2. WithinFor(c, addr, head)
      <4>1. \A x \in addr..addr+head-1 : x \in addr..addr+n-1
        BY <1>5
      <4> QED BY <4>1 DEF WithinFor
    <3>3. viaDma => head >= W /\ AlignedFor(c, 0)
      <4> SUFFICES ASSUME viaDma PROVE head >= W /\ AlignedFor(c, 0)
        OBVIOUS
      <4>1. addr \in addr..addr+n-1
        OBVIOUS
      <4>2. Lesser(Page - (addr % Page), addr + n - addr) >= W /\ AlignedFor(c, addr - addr)
        BY <4>1 DEF Transferable
      <4>3. addr + n - addr = n /\ addr - addr = 0
        OBVIOUS
      <4>4. head = Lesser(Page - r, n)
        BY <1>2, <1>5, <2>1
      <4> QED BY <1>1, <4>2, <4>3, <4>4
    <3>4. Fine(c, PageWrite(addr, 0, head, quad, viaDma))
      BY <3>1, <3>2, <3>3, FinePage
    <3> QED BY <2>1, <3>4
  <2>2. CASE ~(head > 0)
    BY <2>2, FineEmpty
  <2> QED BY <2>1, <2>2
<1>8. Fine(c, b)
  <2>1. CASE n # head
    <3>1. /\ addr + head \in Nat /\ n - head \in Nat \ {0} /\ (addr + head) + (n - head) <= Size
          /\ head + (n - head) <= SourceLen(c)
      BY <1>3, <1>5, <2>1
    <3>2. WithinFor(c, addr + head, n - head)
      <4>1. \A x \in (addr+head)..(addr+head)+(n-head)-1 : x \in addr..addr+n-1
        BY <1>5
      <4> QED BY <4>1 DEF WithinFor
    <3>3. viaDma => FitFor(c, addr + head, head, n - head)
      <4> SUFFICES ASSUME viaDma, NEW x \in (addr+head)..(addr+head)+(n-head)-1, x % Page = 0
                   PROVE  Lesser(Page, (addr + head) + (n - head) - x) >= W
                          /\ AlignedFor(c, head + (x - (addr + head)))
        BY DEF FitFor
      <4>1. x \in addr..addr+n-1
        BY <1>5
      <4>2. Lesser(Page - (x % Page), addr + n - x) >= W /\ AlignedFor(c, x - addr)
        BY <4>1 DEF Transferable
      <4>3. Page - 0 = Page /\ (addr + head) + (n - head) - x = addr + n - x
            /\ head + (x - (addr + head)) = x - addr
        BY <1>3, <4>1
      <4> QED BY <4>2, <4>3
    <3>4. (addr + head) % Page = 0
      BY <1>6, <2>1
    <3>5. Fine(c, PageLoop(addr + head, head, n - head, quad, viaDma))
      BY <3>1, <3>2, <3>3, <3>4, FinePages
    <3> QED BY <2>1, <3>5
  <2>2. CASE n = head
    BY <2>2, FineEmpty
  <2> QED BY <2>1, <2>2
<1>9. page_write_wrapper(addr, n, quad, viaDma) = Cat(a, b)
  BY <1>1, <1>2 DEF page_write_wrapper, Cat
<1> QED BY <1>7, <1>8, <1>9, FineCat

(* The pages of w25q128jw_write, however they are sent. *)
LEMMA FineWrites ==
  ASSUME NEW c, NEW how, NEW addr \in Nat, NEW n \in Nat \ {0},
         addr + n <= Size, n <= SourceLen(c), SourceLen(c) \in Nat, WithinFor(c, addr, n),
         how \in {"best", "standard_dma", "quad_dma"} => Transferable(c, addr, n)
  PROVE  Fine(c, WritePages(how, addr, n))
<1> DEFINE a == IF how = "best" THEN << Step("dmawait", 0, 0) >> ELSE <<>>
<1>1. Fine(c, a)
  BY FineMarks, FineEmpty
<1> DEFINE b == page_write_wrapper(addr, n, how \in {"best", "quad", "quad_dma"},
                                   how \in {"best", "standard_dma", "quad_dma"})
<1>4. Fine(c, b)
  <2>1. /\ (how \in {"best", "quad", "quad_dma"}) \in BOOLEAN
        /\ (how \in {"best", "standard_dma", "quad_dma"}) \in BOOLEAN
    OBVIOUS
  <2> QED BY <2>1, FineWrapper
<1>5. WritePages(how, addr, n) = Cat(a, b)
  BY DEF WritePages, Cat
<1> QED BY <1>1, <1>4, <1>5, FineCat

(***************************************************************************)
(* The loop over the sectors.                                              *)
(***************************************************************************)
LEMMA Exact ==
  ASSUME NEW g \in Nat \ {0}, NEW q \in Nat, NEW r \in 0..g-1
  PROVE  (g * q + r) \div g = q /\ (g * q + r) % g = r
<1>1. \A x \in Nat, z \in Nat : z < g => (g * x + z) \div g = x /\ (g * x + z) % g = z
  BY SMT
<1>2. r \in Nat /\ r < g
  OBVIOUS
<1> QED BY <1>1, <1>2

(* A remainder of zero, as a product. *)
LEMMA MultipleIs ==
  ASSUME NEW g \in Nat \ {0}, NEW x \in Nat, x % g = 0
  PROVE  \E q \in Nat : x = g * q
<1>1. x \div g \in Nat /\ x = g * (x \div g) + (x % g)
  BY Divide
<1>2. PICK q \in Nat : q = x \div g
  BY <1>1
<1>3. x = g * q
  BY <1>1, <1>2
<1> QED BY <1>3

(* Multiples of g that differ do so by g at least. *)
LEMMA Apart ==
  ASSUME NEW g \in Nat \ {0}, NEW x \in Nat, NEW y \in Nat, x % g = 0, y % g = 0, x < y
  PROVE  y - x >= g
<1>1. PICK q \in Nat : x = g * q
  BY MultipleIs
<1>2. PICK p \in Nat : y = g * p
  BY MultipleIs
<1>3. q < p
  <2> SUFFICES ASSUME p <= q PROVE FALSE
    OBVIOUS
  <2>1. PICK m \in Nat : q = p + m
    <3>1. q - p \in Nat /\ q = p + (q - p)
      OBVIOUS
    <3> QED BY <3>1
  <2>2. g * q = g * p + g * m
    BY <2>1, SMTT(30)
  <2>3. g * m >= 0 /\ g * m \in Int /\ g * p \in Int
    BY SMTT(30)
  <2> QED BY <1>1, <1>2, <2>2, <2>3
<1>4. PICK m \in Nat : p = q + 1 + m
  <2>1. p - q - 1 \in Nat /\ p = q + 1 + (p - q - 1)
    BY <1>3
  <2> QED BY <2>1
<1>5. g * p = g * q + g + g * m
  BY <1>4, SMTT(30)
<1>6. g * m >= 0 /\ g * m \in Int /\ g * q \in Int
  BY SMTT(30)
<1> QED BY <1>1, <1>2, <1>5, <1>6

(* The multiple of a multiple. *)
LEMMA MultipleOf ==
  ASSUME NEW g \in Nat \ {0}, NEW h \in Nat \ {0}, h % g = 0, NEW x \in Nat, x % h = 0
  PROVE  x % g = 0
<1>1. PICK q \in Nat : h = g * q
  BY MultipleIs
<1>2. PICK p \in Nat : x = h * p
  BY MultipleIs
<1>3. PICK m \in Nat : m = q * p
  BY SMTT(30)
<1>4. x = g * m
  BY <1>1, <1>2, <1>3, SMTT(30)
<1>5. (g * m + 0) % g = 0 /\ g * m + 0 = g * m
  <2>1. 0 \in 0..g-1
    OBVIOUS
  <2>2. (g * m + 0) % g = 0
    BY <2>1, Exact
  <2>3. g * m \in Int
    BY SMTT(30)
  <2> QED BY <2>2, <2>3
<1> QED BY <1>4, <1>5

(* The sector a byte is in. *)
LEMMA SectorOf ==
  ASSUME NEW addr \in Nat, NEW start, start = addr - (addr % Sector)
  PROVE  /\ start \in Nat /\ start % Page = 0 /\ start % W = 0 /\ Sector % W = 0
         /\ (start + Sector) % Page = 0
         /\ \A a \in start..start+Sector-1 : a \div Sector = addr \div Sector
<1>1. /\ Sector \in Nat \ {0} /\ Page \in Nat \ {0} /\ W \in Nat \ {0} /\ Page % W = 0 /\ Sector % Page = 0
  BY Geometry, GeometryAssumption
<1>2. PICK q \in Nat, r \in 0..Sector-1 : q = addr \div Sector /\ r = addr % Sector /\ addr = Sector * q + r
  BY <1>1, Divide
<1>3. PICK m \in Nat : m = Sector * q
  BY <1>1, SMTT(30)
<1>4. start = m
  <2>1. start = addr - r /\ addr = m + r
    BY <1>2, <1>3
  <2> QED BY <2>1
<1>5. m % Sector = 0
  <2>1. 0 \in 0..Sector-1
    BY <1>1
  <2>2. (Sector * q + 0) % Sector = 0
    BY <1>1, <2>1, Exact
  <2>3. Sector * q + 0 = m
    BY <1>3
  <2> QED BY <2>2, <2>3
<1>6. m % Page = 0 /\ Sector % W = 0
  BY <1>1, <1>5, MultipleOf
<1>7. m % W = 0
  BY <1>1, <1>6, MultipleOf
<1>8. (m + Sector) % Page = 0
  BY <1>1, <1>6, MultiplesAdd
<1>9. ASSUME NEW a \in m..m+Sector-1 PROVE a \div Sector = q
  <2>1. PICK z \in 0..Sector-1 : a = m + z
    <3>1. a - m \in 0..Sector-1 /\ a = m + (a - m)
      BY <1>1
    <3> QED BY <3>1
  <2>2. (Sector * q + z) \div Sector = q
    BY <1>1, Exact
  <2> QED BY <1>3, <2>1, <2>2
<1> QED BY <1>2, <1>4, <1>6, <1>7, <1>8, <1>9

(* The whole sector of an address in the span of                           *)
(* w25q128jw_erase_and_write may be touched.                               *)
LEMMA SectorScope ==
  ASSUME NEW c, c.fn = "erase_and_write", NEW addr \in Nat, addr \in Span(c), NEW a \in Cells,
         a \div Sector = addr \div Sector
  PROVE  a \in Scope(c)
  BY DEF Scope

(* A turn of the loop over the sectors asks for nothing outside of that    *)
(* sector.                                                                 *)
LEMMA SectorFine ==
  ASSUME NEW c, CallShape(c), NEW l \in Items(c), l.k = "sectors", LegitFor(c, l)
  PROVE  Fine(c, SectorTurn(l))
<1>1. /\ l.how \in Hows("read") /\ l.addr \in Nat /\ l.off \in Nat /\ l.n \in Nat
      /\ c.fn = "erase_and_write" /\ l.off + l.n = c.n /\ Len(c.data) = c.n
  BY DEF Items, Marks, CallShape
<1>2. \A x \in l.addr..l.addr+l.n-1 : x \in Span(c)
  BY DEF LegitFor
<1>3. PICK addr \in Nat, off \in Nat, n \in Nat : addr = l.addr /\ off = l.off /\ n = l.n
  BY <1>1
<1>4. PICK start \in Nat : start = addr - (addr % Sector)
  BY SectorOf
<1>5. PICK to \in Nat : to = addr % Sector /\ to < Sector /\ to <= addr
  <2>1. Sector \in Nat \ {0}
    BY Geometry
  <2> QED BY <2>1, Divide
<1>6. PICK part \in Nat : /\ part = Lesser(Sector - to, n) /\ part <= n /\ to + part <= Sector
                          /\ (n > 0 => part > 0)
  <2>1. Sector - to \in Nat /\ Sector - to > 0 /\ Sector \in Nat
    BY <1>5, Geometry
  <2>2. PICK m \in Nat : m = Sector - to
    BY <2>1
  <2>3. m > 0
    BY <2>1, <2>2
  <2>4. Lesser(m, n) \in Nat /\ Lesser(m, n) <= m /\ Lesser(m, n) <= n /\ Lesser(m, n) \in {m, n}
    BY Lesser_
  <2>5. to + m = Sector
    BY <2>1, <2>2
  <2> QED BY <2>2, <2>3, <2>4, <2>5
<1>7. CASE n = 0
  BY <1>3, <1>7, FineMarks DEF SectorTurn
<1>8. CASE n # 0 /\ ~w25q128jw_sanity_checks(start, Sector)
  BY <1>3, <1>4, <1>8, FineMarks DEF SectorTurn
<1>9. CASE n # 0 /\ w25q128jw_sanity_checks(start, Sector)
  <2>1. Sector \in Nat /\ Page \in Nat /\ Size \in Nat /\ W <= Page /\ 0 < Sector /\ W \in Nat
    BY Geometry
  <2>2. start + Sector <= Size /\ start \in Cells
    BY <1>9, <2>1 DEF w25q128jw_sanity_checks, Cells
  <2>3. /\ start % Page = 0 /\ Sector % W = 0 /\ (start + Sector) % Page = 0
        /\ \A a \in start..start+Sector-1 : a \div Sector = addr \div Sector
    BY <1>4, SectorOf
  <2>4. addr \in Span(c)
    <3>1. addr \in addr..addr+n-1
      BY <1>9
    <3> QED BY <1>2, <1>3, <3>1
  <2>5. WithinFor(c, start, Sector)
    <3> SUFFICES ASSUME NEW a \in start..start+Sector-1 PROVE a \in Scope(c)
      BY DEF WithinFor
    <3>1. a \in Cells
      BY <2>1, <2>2 DEF Cells
    <3>2. a \div Sector = addr \div Sector
      BY <2>3
    <3> QED BY <1>1, <2>4, <3>1, <3>2, SectorScope
  <2>6. EraseWithinFor(c, "SE", start)
    <3>1. EraseUnit("SE") = Sector
      BY DEF EraseUnit
    <3>2. start \in start..start+Sector-1
      BY <2>1
    <3>3. start \div Sector = addr \div Sector
      BY <2>3, <3>2
    <3> SUFFICES ASSUME NEW a \in Cells, a \div Sector = start \div Sector PROVE a \in Scope(c)
      BY <3>1 DEF EraseWithinFor
    <3> QED BY <1>1, <2>4, <3>3, SectorScope
  <2>7. Transferable(c, start, Sector)
    <3> SUFFICES ASSUME NEW x \in start..start+Sector-1, x = start \/ x % Page = 0
                 PROVE  Lesser(Page - (x % Page), start + Sector - x) >= W /\ AlignedFor(c, x - start)
      BY DEF Transferable
    <3>1. x % Page = 0 /\ x \in Nat /\ start + Sector \in Nat /\ x < start + Sector
      BY <2>1, <2>3
    <3>2. (start + Sector) - x >= Page
      <4>1. Page \in Nat \ {0}
        BY Geometry
      <4> QED BY <2>3, <3>1, <4>1, Apart
    <3>3. Page - (x % Page) = Page
      BY <2>1, <3>1
    <3>4. Lesser(Page, start + Sector - x) >= W
      BY <2>1, <3>1, <3>2 DEF Lesser
    <3> QED BY <1>1, <3>3, <3>4 DEF AlignedFor
  <2>8. SourceLen(c) = Sector /\ Sector <= SourceLen(c) /\ SourceLen(c) \in Nat /\ Sector \in Nat \ {0}
    BY <1>1, <2>1 DEF SourceLen
  <2>9. PICK q1 : q1 = Reading(l.how, start, Sector) /\ Fine(c, q1)
    <3>1. Sector \in 1..Sector
      BY <2>1
    <3> QED BY <1>1, <2>2, <2>3, <3>1, FineReading
  <2>10. PICK q2 : q2 = w25q128jw_4k_erase(start) /\ Fine(c, q2)
    BY <2>2, <2>6, FineErase DEF w25q128jw_4k_erase, Erases
  <2>11. PICK q3 : q3 = << [k |-> "memcpy", to |-> to, off |-> off, n |-> part] >> /\ Fine(c, q3)
    <3>1. PICK x : x = [k |-> "memcpy", to |-> to, off |-> off, n |-> part]
      OBVIOUS
    <3>2. off + part <= Len(c.data)
      <4>1. off + n = Len(c.data)
        BY <1>1, <1>3
      <4>2. part <= n
        BY <1>6
      <4>3. off + part <= off + n
        BY <4>2
      <4> QED BY <4>1, <4>3
    <3>3. x \in Items(c)
      BY <1>6, <3>1, <3>2 DEF Items
    <3>4. LegitFor(c, x)
      BY <3>1 DEF LegitFor
    <3> QED BY <3>1, <3>3, <3>4, FineOne
  <2>12. PICK q4 : q4 = WritePages(l.how, start, Sector) /\ Fine(c, q4)
    BY <2>2, <2>5, <2>7, <2>8, FineWrites
  <2>13. PICK q5 : q5 = erase_and_write(l.how, addr + part, off + part, n - part) /\ Fine(c, q5)
    <3>1. PICK x : x = [k |-> "sectors", how |-> l.how, addr |-> addr + part, off |-> off + part,
                        n |-> n - part]
      OBVIOUS
    <3>2. addr + part \in Nat /\ off + part \in Nat /\ n - part \in Nat /\ (off + part) + (n - part) = c.n
      <4>1. off + n = c.n
        BY <1>1, <1>3
      <4>2. part <= n
        BY <1>6
      <4>3. (off + part) + (n - part) = off + n
        OBVIOUS
      <4>4. addr + part \in Nat /\ off + part \in Nat /\ n - part \in Nat
        BY <4>2
      <4> QED BY <4>1, <4>3, <4>4
    <3>3. x \in Items(c)
      BY <1>1, <3>1, <3>2 DEF Items
    <3>4. LegitFor(c, x)
      <4>1. \A y \in (addr+part)..(addr+part)+(n-part)-1 : y \in addr..addr+n-1
        BY <1>6
      <4>2. \A y \in addr..addr+n-1 : y \in Span(c)
        BY <1>2, <1>3
      <4>3. x.k = "sectors" /\ x.addr = addr + part /\ x.n = n - part
        BY <3>1
      <4> QED BY <4>1, <4>2, <4>3 DEF LegitFor
    <3>5. erase_and_write(l.how, addr + part, off + part, n - part) = << x >>
      BY <3>1 DEF erase_and_write
    <3> QED BY <3>3, <3>4, <3>5, FineOne
  <2>14. SectorTurn(l) = Cat(Cat(Cat(Cat(q1, q2), q3), q4), q5)
    BY <1>3, <1>4, <1>5, <1>6, <1>9, <2>9, <2>10, <2>11, <2>12, <2>13 DEF SectorTurn, Cat
  <2>15. Fine(c, Cat(q1, q2))
    BY <2>9, <2>10, FineCat
  <2>16. Fine(c, Cat(Cat(q1, q2), q3))
    BY <2>11, <2>15, FineCat
  <2>17. Fine(c, Cat(Cat(Cat(q1, q2), q3), q4))
    BY <2>12, <2>16, FineCat
  <2>18. Fine(c, Cat(Cat(Cat(Cat(q1, q2), q3), q4), q5))
    BY <2>13, <2>17, FineCat
  <2> QED BY <2>14, <2>18
<1> QED BY <1>7, <1>8, <1>9

(* The loop over the sectors takes its next turn. *)
LEMMA RestSectors ==
  ASSUME FlashTypes, Sane, Proceed, Resting, script[1].k = "sectors"
  PROVE  FlashInv'
<1>1. script # <<>> /\ script[1] \in Items(call) /\ Legit(script[1])
  BY RestHead
<1>2. call.fn # "async" /\ script[1].k \in Bodies
  BY <1>1, RestCall DEF Bodies
<1>3. PICK l : l = script[1]
  OBVIOUS
<1>4. CallShape(call) /\ l \in Items(call) /\ l.k = "sectors"
  BY <1>1, <1>3 DEF FlashTypes, DriverTypes
<1>5. LegitFor(call, l)
  BY <1>1, <1>3, LegitIs
<1>6. PICK a : a = Body(script[1])
  OBVIOUS
<1>7. a = SectorTurn(l)
  BY <1>3, <1>4, <1>6 DEF Body
<1>8. Fine(call, a)
  BY <1>4, <1>5, <1>7, SectorFine
<1>9. a \in Seq(Items(call)) /\ \A k \in 1..Len(a) : Legit(a[k])
  BY <1>8, LegitHere DEF Fine
<1> QED BY <1>2, <1>6, <1>9, RestUnfolds

(***************************************************************************)
(* The call returns; the accesses that put nothing on its way.             *)
(***************************************************************************)
LEMMA Returns ==
  ASSUME FlashTypes, Proceed, script # <<>>, script[1].k = "ret"
  PROVE  /\ script' = <<>> /\ res' = script[1].status
         /\ up' = (CASE call.fn = "init" -> script[1].status = "OK"
                     [] call.fn = "power_down" -> FALSE
                     [] OTHER -> up)
         /\ UNCHANGED <<chipVars, hostVars, dmaVars, call, reg, pre>>
<1>1. Head(script) = script[1]
  BY ScriptHead
<1>2. ReturnStatus
  BY <1>1, HeadsA
<1>3. Finish(script[1].status)
  BY <1>1, <1>2 DEF ReturnStatus, At, Now
<1> QED BY <1>3 DEF Finish

(* The call returns. *)
LEMMA RestReturns ==
  ASSUME FlashTypes, Sane, Proceed, Resting, script[1].k = "ret"
  PROVE  FlashInv'
<1>1. /\ script # <<>> /\ up /\ job = NoJob /\ ~asleep
      /\ cmds = <<>> /\ tx = <<>> /\ rx = <<>> /\ frame = NoFrame /\ dma = NoDma
  BY RestHead
<1>2. /\ script' = <<>> /\ res' = script[1].status
      /\ UNCHANGED <<chipVars, hostVars, dmaVars, call, reg, pre>>
  BY <1>1, Returns
<1>3. ~Awaited'
  <2> SUFFICES ASSUME call.fn = "async" PROVE res' # "OK"
    BY <1>2 DEF Awaited
  <2>1. script = << [k |-> "ret", status |-> "ERROR"] >> \/ script[1].k = "read"
    BY <1>1 DEF Resting
  <2>2. script[1].status = "ERROR"
    BY <2>1
  <2> QED BY <1>2, <2>2
<1>4. Quiet'
  BY <1>1, <1>2 DEF Quiet, hostVars, dmaVars, chipVars
<1>5. job' = NoJob /\ ~asleep'
  BY <1>1, <1>2 DEF chipVars
<1>6. Resting'
  BY <1>2, <1>3, <1>4, <1>5 DEF Resting
<1>7. Sane'
  <2>1. script[1] # Go
    BY GoKind
  <2>2. UNCHANGED <<chipVars, call, pre, critical, cmds>>
    BY <1>2 DEF hostVars, dmaVars
  <2> QED BY <1>1, <2>1, <2>2, SaneHere
<1> QED BY <1>6, <1>7 DEF FlashInv, Flow

(* The copy into the sector's buffer, and a wait for a DMA that is done. *)
LEMMA RestPasses ==
  ASSUME FlashTypes, Sane, Proceed, Resting, script[1].k \in {"memcpy", "dmawait"}
  PROVE  FlashInv'
<1>1. /\ script # <<>> /\ Head(script) = script[1] /\ up /\ job = NoJob /\ ~asleep
      /\ cmds = <<>> /\ tx = <<>> /\ rx = <<>> /\ frame = NoFrame /\ dma = NoDma /\ LegitFrom(2)
  BY RestHead
<1>2. call.fn # "async"
  BY <1>1, RestCall
<1>3. script' = Tail(script) /\ UNCHANGED <<chipVars, cmds, tx, rx, dma, critical, call, up, pre>>
  <2>1. CASE script[1].k = "memcpy"
    <3>1. Merge
      BY <1>1, <2>1, HeadsA
    <3> QED BY <3>1 DEF Merge, Advance, hostVars, dmaVars
  <2>2. CASE script[1].k = "dmawait"
    <3>1. DmaWait
      BY <1>1, <2>2, HeadsA
    <3> QED BY <3>1 DEF DmaWait, Advance, hostVars, dmaVars, drvVars
  <2> QED BY <2>1, <2>2
<1>4. LegitFrom(1)'
  <2>1. 1 \in Nat \ {0} /\ 1 + 1 = 2
    OBVIOUS
  <2>2. LegitFrom(1+1) => LegitFrom(1)'
    BY <1>1, <1>3, <2>1, LegitNext
  <2> QED BY <1>1, <2>1, <2>2
<1>5. Resting'
  <2>1. up' /\ cmds' = <<>> /\ tx' = <<>> /\ rx' = <<>> /\ dma' = NoDma
    BY <1>1, <1>3
  <2> QED BY <1>1, <1>2, <1>3, <1>4, <2>1, Rests
<1>6. Sane'
  <2>1. script[1] # Go
    BY GoKind
  <2> QED BY <1>1, <1>3, <2>1, SaneHere
<1> QED BY <1>5, <1>6 DEF FlashInv, Flow

(* w25q128jw_init returns: the flash is up. *)
LEMMA CloseStep ==
  ASSUME FlashTypes, Sane, Proceed, Closing
  PROVE  FlashInv'
<1>1. /\ cmds = <<>> /\ tx = <<>> /\ rx = <<>> /\ frame = NoFrame /\ dma = NoDma
      /\ script = << Step("retqe", 0, 0) >> /\ job = NoJob /\ ~asleep
      /\ call.fn # "async" /\ (1 \in reg => 1 \in sr2)
  BY DEF Closing, Quiet
<1>2. script # <<>> /\ Head(script) = script[1] /\ script[1].k = "retqe"
  BY <1>1 DEF Step
<1>3. ReturnStatus
  BY <1>2, HeadsA
<1>4. Finish(IF 1 \in reg THEN "OK" ELSE "ERROR")
  BY <1>2, <1>3 DEF ReturnStatus, At, Now
<1>5. /\ script' = <<>> /\ UNCHANGED <<chipVars, hostVars, dmaVars, call, reg, pre>>
      /\ (up' => up \/ 1 \in reg)
  BY <1>4 DEF Finish
<1>6. Quiet'
  BY <1>1, <1>5 DEF Quiet, hostVars, dmaVars, chipVars
<1>7. job' = NoJob /\ ~asleep' /\ ~Awaited'
  BY <1>1, <1>5 DEF chipVars, Awaited
<1>8. Resting'
  BY <1>5, <1>6, <1>7 DEF Resting
<1>9. Sane'
  <2>1. script[1] # Go
    BY <1>2, GoKind
  <2>2. UNCHANGED <<chipVars, call, pre, critical, cmds>>
    BY <1>5 DEF hostVars, dmaVars
  <2>3. up' => up \/ 1 \in sr2
    BY <1>1, <1>5
  <2> QED BY <1>2, <2>1, <2>2, <2>3, SaneHere
<1> QED BY <1>8, <1>9 DEF FlashInv, Flow

(***************************************************************************)
(* The asynchronous reads.                                                 *)
(***************************************************************************)
AsyncAt(s, p, j, i, t) ==
  /\ Wire(s, Issued(s, i), Pushed(s, i), p, j, t) /\ DmaReads(s, i, t)
  /\ t > 0 => Launches(s, i) = 1
  /\ \/ Len(script) = Length(s) - i /\ script[Length(s) - i] = [k |-> "ret", status |-> "OK"]
     \/ i = Length(s) - 1 /\ script = <<>> /\ res = "OK"
  /\ \A k \in 1..Length(s)-1-i : script[k] = SectionItems(s)[i+k]

(* The states of an asynchronous read, as AsyncAt has them. *)
LEMMA AsyncIs ==
  ASSUME NEW s \in Sections, NEW p, NEW j
  PROVE  Async(s, p, j) <=>
           /\ s.kind \in ReadKinds /\ s.via # "cpu" /\ Asynchronous(s) /\ s.n = call.n
           /\ call.fn = "async" /\ up
           /\ \E i \in 0..Length(s)-1, t \in Nat : AsyncAt(s, p, j, i, t)
<1>1. PICK l \in Nat : l = Len(SectionItems(s))
  <2>1. Length(s) \in Nat
    BY LengthType
  <2> QED BY <2>1 DEF Length
<1>2. \A i \in Int : l - 1 - i + 1 = l - i /\ (l - 1 - i = 0 <=> i = l - 1)
  OBVIOUS
<1>3. ASSUME NEW i \in 0..l-1, NEW t \in Nat
      PROVE  LET d == l - 1 - i IN
             (/\ Wire(s, Issued(s, i), Pushed(s, i), p, j, t) /\ DmaReads(s, i, t)
              /\ t > 0 => Launches(s, i) = 1
              /\ \/ Len(script) = d + 1 /\ script[d+1] = [k |-> "ret", status |-> "OK"]
                 \/ d = 0 /\ script = <<>> /\ res = "OK"
              /\ \A k \in 1..d : script[k] = SectionItems(s)[i+k])
             <=> AsyncAt(s, p, j, i, t)
  <2>1. l - 1 - i + 1 = l - i /\ (l - 1 - i = 0 <=> i = l - 1)
    BY <1>2
  <2> QED BY <1>1, <2>1, Zenon DEF AsyncAt, Length
<1> QED BY <1>1, <1>3, Zenon DEF Async, Length

(* A step that leaves the driver in an asynchronous read keeps the         *)
(* invariant.                                                              *)
LEMMA AsyncMade ==
  ASSUME UNCHANGED <<chipVars, call, up>>, Sane', NEW s \in Sections, Proper(s),
         NEW p \in 0..5, NEW j \in Nat, Stage(s, p, j), up, call.fn = "async",
         s.kind \in ReadKinds, s.via # "cpu", Asynchronous(s), s.n = call.n,
         NEW i \in 0..Length(s)-1, NEW t \in Nat, AsyncAt(s, p, j, i, t)'
  PROVE  FlashInv'
<1>1. Async(s, p, j)'
  <2>1. PICK l \in Nat : l = Len(SectionItems(s))
    <3>1. Length(s) \in Nat
      BY LengthType
    <3> QED BY <3>1 DEF Length
  <2>2. i \in 0..l-1 /\ l - 1 - i + 1 = l - i /\ (l - 1 - i = 0 <=> i = l - 1)
    BY <2>1 DEF Length
  <2>3. PICK d : d = l - 1 - i
    OBVIOUS
  <2>4. /\ Wire(s, Issued(s, i), Pushed(s, i), p, j, t)' /\ DmaReads(s, i, t)'
        /\ t > 0 => Launches(s, i) = 1
        /\ \/ Len(script') = d + 1 /\ script'[d+1] = [k |-> "ret", status |-> "OK"]
           \/ d = 0 /\ script' = <<>> /\ res' = "OK"
        /\ \A k \in 1..d : script'[k] = SectionItems(s)[i+k]
    BY <2>1, <2>2, <2>3, Zenon DEF AsyncAt, Length
  <2>5. up' /\ call'.fn = "async" /\ s.n = call'.n
    OBVIOUS
  <2> QED BY <2>1, <2>2, <2>3, <2>4, <2>5, Zenon DEF Async
<1>2. Stage(s, p, j)'
  BY StageStays
<1>3. Flow'
  BY <1>1, <1>2, Lands DEF Tracked
<1> QED BY <1>3 DEF FlashInv

(* An asynchronous read is entered. *)
LEMMA AsyncEnters ==
  ASSUME FlashTypes, Sane, Proceed, Resting, script[1].k = "read", call.fn = "async",
         NEW s \in Sections, Proper(s), s.kind \in ReadKinds, s.via # "cpu", Asynchronous(s), s.n = call.n,
         NEW m \in Nat, m = Length(s) - 1, Performs(Body(script[1]), s, m, call), Len(Body(script[1])) = m
  PROVE  FlashInv'
<1>1. /\ script # <<>> /\ Head(script) = script[1] /\ up /\ job = NoJob /\ ~asleep
      /\ cmds = <<>> /\ tx = <<>> /\ rx = <<>> /\ frame = NoFrame /\ dma = NoDma
  BY RestHead
<1>2. Len(script) = 2 /\ script[2] = [k |-> "ret", status |-> "OK"]
  <2>1. script # << [k |-> "ret", status |-> "ERROR"] >>
    <3> SUFFICES ASSUME script = << [k |-> "ret", status |-> "ERROR"] >> PROVE FALSE
      OBVIOUS
    <3>1. script[1] = [k |-> "ret", status |-> "ERROR"]
      OBVIOUS
    <3>2. script[1].k = "ret"
      BY <3>1
    <3> QED BY <3>2
  <2> QED BY <1>1, <2>1 DEF Resting
<1>3. script[1].k \in Bodies
  BY DEF Bodies
<1>4. /\ script' = Body(Head(script)) \o Tail(script)
      /\ UNCHANGED <<chipVars, cmds, tx, rx, rxwm, dma, critical, call, buf, reg, res, up, pre>>
  BY <1>1, <1>3, UnfoldHead
<1>5. PICK a \in Seq(Items(call)) : a = Body(script[1])
  BY DEF Performs
<1>6. Len(a) = m /\ \A k \in 1..m : a[k] = SectionItems(s)[0+k]
  BY <1>5 DEF Performs
<1>7. script' = a \o Tail(script)
  BY <1>1, <1>4, <1>5
<1>8. /\ Len(script') = Len(a) + Len(script) - 1
      /\ \A k \in 1..Len(a) : script'[k] = a[k]
      /\ \A k \in 2..Len(script) : script'[Len(a) + k - 1] = script[k]
  BY <1>1, <1>4, <1>7, Placed
<1>9. Len(script') = m + 1 /\ script'[m+1] = [k |-> "ret", status |-> "OK"]
  <2>1. 2 \in 2..Len(script) /\ m + 2 - 1 = m + 1
    BY <1>2
  <2>2. script'[m + 2 - 1] = script[2]
    BY <1>6, <1>8, <2>1
  <2>3. Len(script') = m + 2 - 1
    BY <1>2, <1>6, <1>8
  <2> QED BY <1>2, <2>1, <2>2, <2>3
<1>10. PICK i \in Nat : i = 0
  OBVIOUS
<1>11. Issued(s, i) = i /\ Pushed(s, i) = Taken(s, i, 0) /\ Got(s, i, 0) = 0 /\ Launches(s, i) = 0
  BY <1>10, FirstCounts
<1>12. i \in 0..Length(s)-1 /\ i \in 0..5 /\ Length(s) - i = m + 1 /\ Length(s) - 1 - i = m
  BY <1>10, FirstCounts
<1>13. Wire(s, Issued(s, i), Pushed(s, i), i, 0, 0)'
  <2>1. Pushed(s, i) \in Nat
    <3>1. N(s) \in Nat
      BY LengthType
    <3>2. Pushed(s, i) \in 0..3+N(s)
      BY <1>10, Counts
    <3> QED BY <3>1, <3>2
  <2>2. cmds' = <<>> /\ tx' = <<>> /\ rx' = <<>>
    BY <1>1, <1>4
  <2> QED BY <1>10, <1>11, <2>1, <2>2, EmptyWire
<1>14. DmaReads(s, i, 0)'
  <2>1. dma' = NoDma /\ Launches(s, i) # 1
    BY <1>1, <1>4, <1>11
  <2> QED BY <2>1 DEF DmaReads
<1>15. AsyncAt(s, i, 0, i, 0)'
  <2>1. \A k \in 1..m : script'[k] = SectionItems(s)[i+k]
    BY <1>6, <1>8, <1>10
  <2> QED BY <1>9, <1>12, <1>13, <1>14, <2>1 DEF AsyncAt
<1>16. Stage(s, i, 0)
  BY <1>1, <1>10, FirstStage
<1>17. Sane'
  <2>1. script[1] # Go
    BY GoKind
  <2> QED BY <1>1, <1>4, <2>1, SaneHere
<1> QED BY <1>1, <1>4, <1>12, <1>15, <1>16, <1>17, AsyncMade

(* An asynchronous read is entered. *)
LEMMA RestAsync ==
  ASSUME FlashTypes, Sane, Proceed, Resting, script[1].k = "read", call.fn = "async"
  PROVE  FlashInv'
<1>1. script # <<>> /\ script[1] \in Items(call) /\ Legit(script[1])
  BY RestHead
<1>2. PICK l : l = script[1]
  OBVIOUS
<1>3. l \in Items(call) /\ l.k = "read" /\ Legit(l)
  BY <1>1, <1>2
<1>4. /\ l.addr \in Cells /\ l.n \in 1..Sector /\ (l.fn # "read" => l.how \in {"standard", "quad"})
  BY <1>3, ReadFields
<1>5. l.fn = "async" /\ l.n = call.n
  <2>1. script # << [k |-> "ret", status |-> "ERROR"] >>
    <3> SUFFICES ASSUME script = << [k |-> "ret", status |-> "ERROR"] >> PROVE FALSE
      OBVIOUS
    <3>1. script[1] = [k |-> "ret", status |-> "ERROR"]
      OBVIOUS
    <3>2. script[1].k = "ret"
      BY <3>1
    <3> QED BY <3>2
  <2> QED BY <1>1, <1>2, <2>1 DEF Resting
<1>6. PICK addr \in Cells, n \in 1..Sector : addr = l.addr /\ n = l.n
  BY <1>4
<1>7. n % W = 0 /\ n = call.n
  BY <1>3, <1>5, <1>6 DEF Legit
<1>8. PICK a : a = Body(script[1])
  OBVIOUS
<1>9. a = ReadBody(l)
  BY <1>2, <1>3, <1>8 DEF Body
<1>10. CASE l.how = "standard"
  <2>1. PICK q : q = Cat(DmaRead("read_standard_dma_async", n), ReadStandard(addr, n))
    OBVIOUS
  <2>2. a = q
    BY <1>5, <1>6, <1>9, <1>10, <2>1 DEF ReadBody, w25q128jw_read_standard_dma_async, Cat
  <2>3. PICK s : s = ReadSection("read", addr, n, "early", "read_standard_dma_async")
    OBVIOUS
  <2>4. "read_standard_dma_async" \in DmaReaders
    BY DEF DmaReaders
  <2>5. Performs(q, s, 6, call) /\ Length(s) = 7 /\ Sized(q, call, 6)
    BY <2>1, <2>3, <2>4, EarlyItems
  <2>6. s \in Sections /\ Proper(s)
    BY <1>7, <2>3, <2>4, ReadSections DEF ReadKinds
  <2>7. s.kind \in ReadKinds /\ s.via # "cpu" /\ Asynchronous(s) /\ s.n = call.n
    BY <1>7, <2>3 DEF ReadSection, ReadKinds, Asynchronous
  <2>8. PICK m \in Nat : m = 6
    OBVIOUS
  <2>9. m = Length(s) - 1 /\ Performs(a, s, m, call) /\ Len(a) = m
    BY <2>2, <2>5, <2>8 DEF Sized
  <2> QED BY <1>8, <2>6, <2>7, <2>9, AsyncEnters
<1>11. CASE l.how = "quad"
  <2>1. a = Cat(ReadQuad(addr, n), DmaRead("read_quad_dma_async", n))
    BY <1>5, <1>6, <1>9, <1>11 DEF ReadBody, w25q128jw_read_quad_dma_async, Cat
  <2>3. PICK s : s = ReadSection("readq", addr, n, "late", "read_quad_dma_async")
    OBVIOUS
  <2>4. "read_quad_dma_async" \in DmaReaders
    BY DEF DmaReaders
  <2>5. Performs(a, s, 11, call) /\ Length(s) = 12 /\ Len(a) = 11
    BY <2>1, <2>3, <2>4, LateQuad
  <2>6. s \in Sections /\ Proper(s)
    BY <1>7, <2>3, <2>4, ReadSections DEF ReadKinds
  <2>7. s.kind \in ReadKinds /\ s.via # "cpu" /\ Asynchronous(s) /\ s.n = call.n
    BY <1>7, <2>3 DEF ReadSection, ReadKinds, Asynchronous
  <2>8. PICK m \in Nat : m = 11
    OBVIOUS
  <2>9. m = Length(s) - 1 /\ Performs(a, s, m, call) /\ Len(a) = m
    BY <2>5, <2>8
  <2> QED BY <1>8, <2>6, <2>7, <2>9, AsyncEnters
<1> QED BY <1>4, <1>5, <1>10, <1>11

(* Every access of an asynchronous read keeps the invariant. *)
LEMMA AsyncStep ==
  ASSUME FlashTypes, Sane, Proceed, NEW s \in Sections, Proper(s), NEW p \in 0..5, NEW j \in Nat,
         Stage(s, p, j), Async(s, p, j)
  PROVE  FlashInv'
<1>1. /\ s.kind \in ReadKinds /\ s.via # "cpu" /\ Asynchronous(s) /\ s.n = call.n
      /\ call.fn = "async" /\ up
  BY AsyncIs
<1>2. PICK i \in 0..Length(s)-1, t \in Nat : AsyncAt(s, p, j, i, t)
  BY AsyncIs
<1>3. script # <<>> /\ Head(script) = script[1] /\ Len(script) \in Nat
  BY HeadsA, ScriptHead
<1>4. /\ Wire(s, Issued(s, i), Pushed(s, i), p, j, t) /\ DmaReads(s, i, t) /\ (t > 0 => Launches(s, i) = 1)
      /\ Len(script) = Length(s) - i /\ script[Length(s) - i] = [k |-> "ret", status |-> "OK"]
      /\ \A k \in 1..Length(s)-1-i : script[k] = SectionItems(s)[i+k]
  BY <1>2, <1>3 DEF AsyncAt
<1>5. Length(s) \in 5..17 /\ Row(s, i)
  BY LengthType, Table
<1>6. CASE i = Length(s) - 1
  <2>1. script[1] = [k |-> "ret", status |-> "OK"]
    <3>1. Length(s) - i = 1
      BY <1>5, <1>6
    <3> QED BY <1>4, <3>1
  <2>2. script[1].k = "ret" /\ script[1].status = "OK"
    BY <2>1
  <2>3. /\ script' = <<>> /\ res' = "OK" /\ up' = up
        /\ UNCHANGED <<chipVars, hostVars, dmaVars, call, reg, pre>>
    BY <1>1, <1>3, <2>2, Returns
  <2>4. UNCHANGED <<cmds, tx, rx, dma, critical>>
    BY <2>3 DEF hostVars, dmaVars
  <2>5. Wire(s, Issued(s, i), Pushed(s, i), p, j, t)'
    BY <1>4, <2>4, WireStays
  <2>6. DmaReads(s, i, t)'
    BY <1>4, <2>4 DEF DmaReads
  <2>7. AsyncAt(s, p, j, i, t)'
    <3>1. \A k \in 1..Length(s)-1-i : FALSE
      BY <1>5, <1>6
    <3> QED BY <1>4, <1>6, <2>3, <2>5, <2>6, <3>1 DEF AsyncAt
  <2>8. Sane'
    <3>1. script[1] # Go
      BY <2>2, GoKind
    <3> QED BY <1>3, <2>3, <2>4, <3>1, SaneHere
  <2> QED BY <1>1, <2>3, <2>7, <2>8, AsyncMade
<1>7. CASE i # Length(s) - 1
  <2>1. i \in Nat /\ i + 1 < Length(s) /\ 1 \in 1..Length(s)-1-i
    BY <1>5, <1>7
  <2>2. script[1] = SectionItems(s)[i+1]
    BY <1>4, <2>1
  <2>3. script[1].k \in Plain \/ script[1].k = "dmarx"
    <3>1. s.kind \notin Pairs /\ s.kind \notin Writes /\ s.kind # "program" /\ s.kind # "enable" /\ s.kind # "wake"
      BY <1>1 DEF ReadKinds, Pairs, Writes
    <3>2. i + 1 # Length(s)
      BY <2>1
    <3> QED BY <1>5, <2>2, <3>1, <3>2 DEF Row, Plain
  <2>4. script[1].k = "cmd" => Len(script) > 1 /\ script[2] = Go
    <3> SUFFICES ASSUME script[1].k = "cmd" PROVE Len(script) > 1 /\ script[2] = Go
      OBVIOUS
    <3>1. SectionItems(s)[i+2] = Go
      BY <1>5, <2>2 DEF Row
    <3>2. i + 2 # Length(s)
      <4> SUFFICES ASSUME i + 2 = Length(s) PROVE FALSE
        OBVIOUS
      <4>1. PICK x \in 0..Length(s)-1 : x = i + 1
        BY <2>1
      <4>2. Row(s, x) /\ x + 1 = Length(s) /\ x + 1 = i + 2
        BY <4>1, Table
      <4>3. SectionItems(s)[x+1] = Go
        BY <3>1, <4>2
      <4>4. Go.k = "ready"
        BY Kinds
      <4> QED BY <1>1, <4>2, <4>3, <4>4 DEF Row
    <3>3. 2 \in 1..Length(s)-1-i
      BY <1>5, <2>1, <3>2
    <3>4. script[2] = SectionItems(s)[i+2]
      BY <1>4, <3>3
    <3>5. Length(s) - i > 1
      BY <1>5, <2>1
    <3>6. Len(script) > 1
      BY <1>4, <3>5
    <3> QED BY <3>1, <3>4, <3>6
  <2>5. /\ script' = Tail(script) /\ UNCHANGED <<chipVars, rx, call, up, pre, res, reg>> /\ Sane'
        /\ Wire(s, Issued(s, i+1), Pushed(s, i+1), p, j, t)' /\ DmaReads(s, i+1, t)'
        /\ (t > 0 => Launches(s, i+1) = 1)
    <3>1. CASE script[1].k \in Plain
      <4>1. /\ Wire(s, Issued(s, i+1), Pushed(s, i+1), p, j, t)' /\ Launches(s, i+1) = Launches(s, i)
            /\ script' = Tail(script) /\ UNCHANGED <<chipVars, rx, dma, call, up, pre, res, reg>> /\ Sane'
        BY <1>3, <1>4, <2>2, <2>4, <3>1, AccessStep
      <4>2. DmaReads(s, i+1, t)'
        BY <1>4, <4>1 DEF DmaReads
      <4> QED BY <1>4, <4>1, <4>2
    <3>2. CASE script[1].k = "dmarx"
      <4>1. /\ Wire(s, Issued(s, i+1), Pushed(s, i+1), p, j, t)' /\ t = 0 /\ DmaReads(s, i+1, t)'
            /\ script' = Tail(script) /\ UNCHANGED <<chipVars, rx, call, up, pre, res, reg>> /\ Sane'
        BY <1>3, <1>4, <2>2, <3>2, LaunchStep
      <4> QED BY <4>1
    <3> QED BY <2>3, <3>1, <3>2
  <2>6. PICK x \in 0..Length(s)-1 : x = i + 1
    BY <1>5, <2>1
  <2>7. AsyncAt(s, p, j, x, t)'
    <3>1. Len(script') = Length(s) - x
      <4>1. Len(Tail(script)) = Len(script) - 1
        BY <1>3, ScriptHead
      <4>2. Length(s) - i - 1 = Length(s) - x
        BY <1>5, <2>1, <2>6
      <4> QED BY <1>4, <2>5, <4>1, <4>2
    <3>2. ASSUME NEW k \in Nat \ {0}, k + 1 <= Len(script) PROVE script'[k] = script[k+1]
      BY <1>3, <2>5, <3>2, NextAt
    <3>3. script'[Length(s) - x] = [k |-> "ret", status |-> "OK"]
      <4>1. Length(s) - x \in Nat \ {0} /\ (Length(s) - x) + 1 = Length(s) - i
        BY <1>5, <2>1, <2>6
      <4>2. (Length(s) - x) + 1 <= Len(script)
        BY <1>4, <1>5, <4>1
      <4>3. script'[Length(s) - x] = script[(Length(s) - x) + 1]
        BY <3>2, <4>1, <4>2
      <4> QED BY <1>4, <4>1, <4>3
    <3>4. ASSUME NEW k \in 1..Length(s)-1-x PROVE script'[k] = SectionItems(s)[x+k]
      <4>1. k \in Nat \ {0} /\ k + 1 \in 1..Length(s)-1-i /\ i + (k + 1) = x + k /\ k + 1 <= Length(s) - i
        BY <1>5, <2>1, <2>6
      <4>2. script'[k] = script[k+1]
        BY <1>4, <3>2, <4>1
      <4>3. script[k+1] = SectionItems(s)[i+(k+1)]
        BY <1>4, <4>1
      <4> QED BY <4>1, <4>2, <4>3
    <3>5. /\ Wire(s, Issued(s, x), Pushed(s, x), p, j, t)' /\ DmaReads(s, x, t)'
          /\ (t > 0 => Launches(s, x) = 1)
      BY <2>5, <2>6
    <3> QED BY <3>1, <3>3, <3>4, <3>5 DEF AsyncAt
  <2> QED BY <1>1, <2>5, <2>7, AsyncMade
<1> QED BY <1>6, <1>7

(***************************************************************************)
(* w25q128jw_power_down.                                                   *)
(***************************************************************************)
DownAt(s, p, j, i) ==
  /\ Wire(s, Issued(s, i), Pushed(s, i), p, j, 0)
  /\ \/ Len(script) = 4 - i /\ script[4-i] = [k |-> "ret", status |-> "void"]
     \/ i = 3 /\ script = <<>> /\ ~up
  /\ \A k \in 1..3-i : script[k] = WakeItems[i+k]

(* What the chip has made of a status read does not depend on the driver. *)
LEMMA PairStays ==
  ASSUME UNCHANGED <<chipVars, rx>>, NEW s, s.kind \in Pairs, NEW p, NEW j, Stage(s, p, j)
  PROVE  Stage(s, p, j)'
<1>1. s.kind \notin Writes /\ s.kind \notin ReadKinds /\ s.kind # "program"
  BY DEF Pairs, Writes, ReadKinds
<1>2. PairStage(s, p)
  BY DEF Stage
<1>3. PairStage(s, p)'
  BY <1>2 DEF PairStage, FrameOf, StatusRead, chipVars
<1> QED BY <1>1, <1>3 DEF Stage

(* A step that leaves the driver in w25q128jw_power_down keeps the         *)
(* invariant.                                                              *)
LEMMA DownMade ==
  ASSUME UNCHANGED <<chipVars, rx, call>>, Sane', dma' = NoDma, NEW s \in Sections, Proper(s),
         NEW p \in 0..5, NEW j \in Nat, Stage(s, p, j), call.fn = "power_down", s.kind = "wake",
         NEW i \in 0..3, DownAt(s, p, j, i)'
  PROVE  FlashInv'
<1>1. Down(s, p, j)'
  BY DEF Down, DownAt
<1>2. Stage(s, p, j)'
  BY PairStays DEF Pairs
<1>3. Flow'
  BY <1>1, <1>2, Lands DEF Tracked
<1> QED BY <1>3 DEF FlashInv

(* Every access of w25q128jw_power_down keeps the invariant. *)
LEMMA DownStep ==
  ASSUME FlashTypes, Sane, Proceed, NEW s \in Sections, Proper(s), NEW p \in 0..5, NEW j \in Nat,
         Stage(s, p, j), Down(s, p, j)
  PROVE  FlashInv'
<1>1. s.kind = "wake" /\ dma = NoDma /\ call.fn = "power_down"
  BY DEF Down
<1>2. PICK i \in 0..3 : DownAt(s, p, j, i)
  BY DEF Down, DownAt
<1>3. script # <<>> /\ Head(script) = script[1] /\ Len(script) \in Nat
  BY HeadsA, ScriptHead
<1>4. /\ Wire(s, Issued(s, i), Pushed(s, i), p, j, 0)
      /\ Len(script) = 4 - i /\ script[4-i] = [k |-> "ret", status |-> "void"]
      /\ \A k \in 1..3-i : script[k] = WakeItems[i+k]
  BY <1>2, <1>3 DEF DownAt
<1>5. SectionItems(s) = WakeItems /\ Length(s) = 14
  <2>1. SectionItems(s) = WakeItems
    BY <1>1 DEF SectionItems
  <2>2. Len(WakeItems) = 14
    BY DEF WakeItems
  <2> QED BY <2>1, <2>2 DEF Length
<1>6. CASE i = 3
  <2>1. script[1] = [k |-> "ret", status |-> "void"]
    <3>1. 4 - i = 1
      BY <1>6
    <3> QED BY <1>4, <3>1
  <2>2. script[1].k = "ret" /\ script[1].status = "void"
    BY <2>1
  <2>3. /\ script' = <<>> /\ up' = FALSE /\ UNCHANGED <<chipVars, hostVars, dmaVars, call, reg, pre>>
    BY <1>1, <1>3, <2>2, Returns
  <2>4. UNCHANGED <<cmds, tx, rx, dma, critical>>
    BY <2>3 DEF hostVars, dmaVars
  <2>5. Wire(s, Issued(s, i), Pushed(s, i), p, j, 0)'
    BY <1>4, <2>4, WireStays
  <2>6. DownAt(s, p, j, i)'
    <3>1. \A k \in 1..3-i : FALSE
      BY <1>6
    <3> QED BY <1>6, <2>3, <2>5, <3>1 DEF DownAt
  <2>7. Sane'
    <3>1. script[1] # Go
      BY <2>2, GoKind
    <3> QED BY <1>3, <2>3, <2>4, <3>1, SaneHere
  <2> QED BY <1>1, <2>3, <2>4, <2>6, <2>7, DownMade
<1>7. CASE i # 3
  <2>1. i \in Nat /\ i \in 0..2 /\ 1 \in 1..3-i /\ i \in 0..Length(s)-1
    BY <1>5, <1>7
  <2>2. script[1] = SectionItems(s)[i+1]
    BY <1>4, <1>5, <2>1
  <2>3. script[1].k \in Plain /\ (script[1].k = "cmd" => i = 1)
    <3>1. i = 0 \/ i = 1 \/ i = 2
      BY <2>1
    <3>2. /\ WakeItems[1] = Command("PD", 0) /\ WakeItems[2] = Item("TX", 1) /\ WakeItems[3] = Go
      BY DEF WakeItems
    <3>3. Command("PD", 0).k = "tx" /\ Item("TX", 1).k = "cmd" /\ Go.k = "ready"
      BY DEF Command, Item, Go, Step
    <3>4. script[1] = WakeItems[i+1]
      BY <1>5, <2>2
    <3> QED BY <3>1, <3>2, <3>3, <3>4 DEF Plain
  <2>4. script[1].k = "cmd" => Len(script) > 1 /\ script[2] = Go
    <3> SUFFICES ASSUME i = 1 PROVE Len(script) > 1 /\ script[2] = Go
      BY <2>3
    <3>1. 2 \in 1..3-i /\ i + 2 = 3
      OBVIOUS
    <3>2. script[2] = WakeItems[3]
      BY <1>4, <3>1
    <3>3. WakeItems[3] = Go
      BY DEF WakeItems
    <3> QED BY <1>4, <3>2, <3>3
  <2>5. /\ Wire(s, Issued(s, i+1), Pushed(s, i+1), p, j, 0)'
        /\ script' = Tail(script) /\ UNCHANGED <<chipVars, rx, dma, call, up, pre, res, reg>> /\ Sane'
    BY <1>3, <1>4, <2>1, <2>2, <2>3, <2>4, AccessStep
  <2>6. PICK x \in 0..3 : x = i + 1
    BY <2>1
  <2>7. DownAt(s, p, j, x)'
    <3>1. Len(script') = 4 - x
      <4>1. Len(Tail(script)) = Len(script) - 1
        BY <1>3, ScriptHead
      <4> QED BY <1>4, <2>1, <2>5, <2>6, <4>1
    <3>2. ASSUME NEW k \in Nat \ {0}, k + 1 <= Len(script) PROVE script'[k] = script[k+1]
      BY <1>3, <2>5, <3>2, NextAt
    <3>3. script'[4 - x] = [k |-> "ret", status |-> "void"]
      <4>1. 4 - x \in Nat \ {0} /\ (4 - x) + 1 = 4 - i /\ (4 - x) + 1 <= 4 - i
        BY <2>1, <2>6
      <4>2. (4 - x) + 1 <= Len(script)
        BY <1>4, <4>1
      <4>3. script'[4 - x] = script[(4 - x) + 1]
        BY <3>2, <4>1, <4>2
      <4> QED BY <1>4, <4>1, <4>3
    <3>4. ASSUME NEW k \in 1..3-x PROVE script'[k] = WakeItems[x+k]
      <4>1. k \in Nat \ {0} /\ k + 1 \in 1..3-i /\ i + (k + 1) = x + k /\ k + 1 <= 4 - i
        BY <2>1, <2>6
      <4>2. script'[k] = script[k+1]
        BY <1>4, <3>2, <4>1
      <4>3. script[k+1] = WakeItems[i+(k+1)]
        BY <1>4, <4>1
      <4> QED BY <4>1, <4>2, <4>3
    <3>5. Wire(s, Issued(s, x), Pushed(s, x), p, j, 0)'
      BY <2>5, <2>6
    <3> QED BY <3>1, <3>3, <3>4, <3>5 DEF DownAt
  <2>8. dma' = NoDma /\ UNCHANGED <<chipVars, rx, call>>
    BY <1>1, <2>5
  <2> QED BY <1>1, <2>5, <2>7, <2>8, DownMade
<1> QED BY <1>6, <1>7

(***************************************************************************)
(* A step of the driver.                                                   *)
(***************************************************************************)
LEMMA RestStep ==
  ASSUME FlashTypes, Sane, Proceed, Resting
  PROVE  FlashInv'
<1>1. script # <<>> /\ Legit(script[1])
  BY RestHead
<1>2. script[1].k \in {"flash_wait", "reset", "memcpy", "ret", "dmawait", "page_write", "pages", "erase",
                       "read", "sectors"}
  BY <1>1 DEF Legit
<1>3. script[1].k = "read" => FlashInv'
  BY RestRead, RestAsync
<1>4. script[1].k \in {"memcpy", "dmawait"} => FlashInv'
  BY RestPasses
<1> QED BY <1>2, <1>3, <1>4, RestWait, RestReset, RestReturns, RestProgram, RestPages, RestErase, RestSectors

(* Every step of the driver keeps the invariant. *)
LEMMA ProceedFlow ==
  ASSUME FlashTypes, FlashInv, Proceed
  PROVE  FlashInv'
<1>1. Sane /\ Flow
  BY DEF FlashInv
<1>2. ASSUME NEW s \in Sections, NEW p \in 0..5, NEW j \in Nat, Proper(s), Stage(s, p, j), Tracked(s, p, j)
      PROVE  FlashInv'
  <2>1. ASSUME NEW i \in 0..16, OnTrack(s, i, p, j) PROVE FlashInv'
    BY <1>1, <1>2, <2>1, TrackStep
  <2>2. ASSUME NEW y \in Nat, InData(s, y, p, j) PROVE FlashInv'
    BY <1>1, <1>2, <2>2, DataStep
  <2>3. Draining(s, p, j) => FlashInv'
    BY <1>1, <1>2, DrainStep
  <2>4. Async(s, p, j) => FlashInv'
    BY <1>1, <1>2, AsyncStep
  <2>5. Down(s, p, j) => FlashInv'
    BY <1>1, <1>2, DownStep
  <2> QED BY <1>2, <2>1, <2>2, <2>3, <2>4, <2>5 DEF Tracked
<1> QED BY <1>1, <1>2, RestStep, CloseStep, FlowCases

(***************************************************************************)
(* Between calls: nothing is on its way, or the command of                 *)
(* w25q128jw_power_down is.                                                *)
(***************************************************************************)
Fallen(s, p, j) ==
  /\ s.kind = "wake" /\ dma = NoDma /\ call.fn = "power_down" /\ ~up
  /\ Wire(s, Issued(s, 3), Pushed(s, 3), p, j, 0)

(* No call returns in the middle of the data of a program. *)
LEMMA IdleData ==
  ASSUME NEW s \in Sections, NEW y, NEW p, NEW j, InData(s, y, p, j), script = <<>>
  PROVE  FALSE
<1>1. s.kind = "program"
  BY DEF InData
<1>2. PICK d \in 1..2 : Ahead(s, 7, d)
  BY DEF InData
<1>3. Len(SectionItems(s)) = 17
  BY <1>1 DEF SectionItems, WriteItems, Writes
<1>4. Len(script) >= d + 17 - 7
  BY <1>2, <1>3 DEF Ahead
<1>5. Len(script) = 0
  OBVIOUS
<1> QED BY <1>4, <1>5

(* No call returns before the core has emptied the FIFO. *)
LEMMA IdleDrain ==
  ASSUME NEW s \in Sections, NEW p, NEW j, Draining(s, p, j), script = <<>>
  PROVE  FALSE
<1>1. PICK off \in 0..s.n, k \in 0..Sector, d \in 0..2, more \in BOOLEAN :
        DrainAt(s, p, j, off, k, d, more)
  BY DrainingIs
<1>2. PICK e : e = d + Past(k, 1)
  OBVIOUS
<1>3. Len(script) >= e + (IF more THEN 1 ELSE 0) /\ (d = 0 => k > 0 \/ more)
  BY <1>1, <1>2 DEF DrainAt
<1>4. Sector \in Nat
  BY Geometry
<1>5. Past(k, 1) = (IF k >= 1 THEN 1 ELSE 0)
  BY DEF Past
<1>6. e + (IF more THEN 1 ELSE 0) >= 1
  <2>1. k \in Int
    BY <1>4
  <2>2. CASE more = TRUE
    <3>1. e >= 0
      BY <1>2, <1>5
    <3> QED BY <3>1, <2>2, <1>2, <1>5
  <2>3. CASE more = FALSE
    <3>1. d > 0 \/ k > 0
      BY <1>3, <2>3
    <3> QED BY <2>1, <3>1, <1>2, <1>5, <2>3
  <2> QED BY <2>2, <2>3
<1>7. Len(script) = 0
  OBVIOUS
<1>8. e + (IF more THEN 1 ELSE 0) \in Int
  BY <1>2, <1>5
<1> QED BY <1>3, <1>6, <1>7, <1>8

(* An asynchronous read that has returned is awaited. *)
LEMMA IdleAsync ==
  ASSUME NEW s \in Sections, NEW p, NEW j, Async(s, p, j), script = <<>>
  PROVE  Awaited
<1>1. call.fn = "async" /\ \E i \in 0..Length(s)-1, t \in Nat : AsyncAt(s, p, j, i, t)
  BY AsyncIs
<1>2. PICK i \in 0..Length(s)-1, t \in Nat : AsyncAt(s, p, j, i, t)
  BY <1>1
<1>3. Len(script) = 0 /\ Length(s) \in Nat
  BY LengthType
<1>4. Len(script) # Length(s) - i
  BY <1>3
<1> QED BY <1>1, <1>2, <1>4 DEF AsyncAt, Awaited

(* w25q128jw_power_down returns with its command on its way. *)
LEMMA IdleDown ==
  ASSUME NEW s \in Sections, NEW p, NEW j, Down(s, p, j), script = <<>>
  PROVE  Fallen(s, p, j)
<1>1. s.kind = "wake" /\ dma = NoDma /\ call.fn = "power_down"
  BY DEF Down
<1>2. PICK i \in 0..3 : DownAt(s, p, j, i)
  BY DEF Down, DownAt
<1>3. Len(script) = 0
  OBVIOUS
<1>4. Len(script) # 4 - i
  BY <1>3
<1>5. i = 3 /\ ~up /\ Wire(s, Issued(s, i), Pushed(s, i), p, j, 0)
  BY <1>2, <1>4 DEF DownAt
<1> QED BY <1>1, <1>5 DEF Fallen

(* The states between calls. *)
LEMMA IdleCases ==
  ASSUME FlashTypes, Flow, script = <<>>, ~Awaited
  PROVE  \/ Resting
         \/ \E s \in Sections, p \in 0..5, j \in Nat : Proper(s) /\ Stage(s, p, j) /\ Fallen(s, p, j)
<1>1. ~Closing
  BY DEF Closing
<1>2. ASSUME NEW s \in Sections, NEW p \in 0..5, NEW j \in Nat, Proper(s), Stage(s, p, j), Tracked(s, p, j)
      PROVE  Fallen(s, p, j)
  <2>1. ASSUME NEW i \in 0..16, OnTrack(s, i, p, j) PROVE FALSE
    BY <1>2, <2>1, TrackHead
  <2>2. ASSUME NEW y \in Nat, InData(s, y, p, j) PROVE FALSE
    BY <2>2, IdleData
  <2>3. ~Draining(s, p, j)
    BY IdleDrain
  <2>4. ~Async(s, p, j)
    BY IdleAsync
  <2>5. Down(s, p, j)
    BY <1>2, <2>1, <2>2, <2>3, <2>4 DEF Tracked
  <2> QED BY <2>5, IdleDown
<1> QED BY <1>1, <1>2, FlowCases

(* Fifos and queue are empty together when the core is idle. *)
LEMMA IdleEmpty ==
  ASSUME FlashTypes, Flow
  PROVE  NothingLeftOver
<1> SUFFICES ASSUME Idle, ~Awaited, cmds = <<>> PROVE tx = <<>> /\ rx = <<>>
  BY DEF NothingLeftOver
<1>1. script = <<>>
  BY DEF Idle
<1>2. CASE Resting
  BY <1>2 DEF Resting, Quiet
<1>3. ASSUME NEW s \in Sections, NEW p \in 0..5, NEW j \in Nat, Fallen(s, p, j)
      PROVE  tx = <<>> /\ rx = <<>>
  <2>1. s.kind = "wake" /\ Wire(s, Issued(s, 3), Pushed(s, 3), p, j, 0)
    BY <1>3 DEF Fallen
  <2>2. Issued(s, 3) = 1 /\ Pushed(s, 3) = 1
    BY <2>1 DEF Issued, Pushed, Past
  <2>3. Wire(s, 1, 1, p, j, 0)
    BY <2>1, <2>2
  <2>4. p = 1
    <3>1. Len(cmds) = 1 - p
      BY <2>3 DEF Wire, CmdQueue
    <3> QED BY <3>1
  <2>5. Taken(s, 1, j) = 1 /\ Got(s, 1, j) = 0
    <3>1. s.kind \in Pairs /\ s.kind \notin ReadKinds
      BY <2>1 DEF Pairs, ReadKinds
    <3>2. Len(Segs(s)) = 4
      BY <3>1 DEF Segs
    <3> QED BY <3>1, <3>2 DEF Taken, Got, Lesser
  <2>6. Len(tx) = 0 /\ Len(rx) = 0
    <3>1. Len(tx) = 1 - Taken(s, p, j) /\ Len(rx) = Got(s, p, j) - 0
      BY <2>3 DEF Wire, TxFifo, RxFifo
    <3> QED BY <2>4, <2>5, <3>1
  <2> QED BY <2>6, NoneLeft DEF FlashTypes, HostTypes
<1> QED BY <1>1, <1>2, <1>3, IdleCases

(***************************************************************************)
(* What a call of the application may leave on its script.                 *)
(***************************************************************************)
LEMMA WholeSize ==
  ASSUME NEW a \in Cells
  PROVE  a \div Size = 0
<1>1. Size \in Nat \ {0} /\ a \in 0..Size-1
  BY Geometry DEF Cells
<1>2. (Size * 0 + a) \div Size = 0
  BY <1>1, Exact
<1>3. Size * 0 + a = a
  BY <1>1
<1> QED BY <1>2, <1>3

(* The erase functions. *)
LEMMA FineErases ==
  ASSUME NEW r \in Requests, r.fn = "erase"
  PROVE  Fine(r, Script(r))
<1>1. r.addr \in Nat /\ r.how \in {"4k", "32k", "64k", "chip"} /\ Size \in Nat
  BY RequestShape, Geometry DEF CallShape, Hows
<1>2. Fine(r, Return("ERROR")) /\ Fine(r, Return("void"))
  BY FineMarks
<1>3. CASE r.addr > Size - 1
  BY <1>2, <1>3 DEF Script
<1>4. CASE ~(r.addr > Size - 1)
  <2>1. r.addr \in Cells /\ 0 \in Cells
    BY <1>1, <1>4, Geometry DEF Cells
  <2>2. Scope(r) = Block(r)
    BY <2>1 DEF Scope
  <2>3. Script(r) = (CASE r.how = "4k"  -> Erase("SE", r.addr)
                       [] r.how = "32k" -> Erase("BE32", r.addr)
                       [] r.how = "64k" -> Erase("BE64", r.addr)
                       [] r.how = "chip" -> Erase("CE", 0)) \o Return("void")
    BY <1>4 DEF Script, w25q128jw_4k_erase, w25q128jw_32k_erase, w25q128jw_64k_erase, w25q128jw_chip_erase
  <2>4. ASSUME NEW op \in Erases, NEW addr \in Cells, EraseWithinFor(r, op, addr),
               Script(r) = Erase(op, addr) \o Return("void")
        PROVE  Fine(r, Script(r))
    <3>1. Fine(r, Erase(op, addr))
      BY <2>4, FineErase
    <3>2. Fine(r, Cat(Erase(op, addr), Return("void")))
      BY <1>2, <3>1, FineCat
    <3> QED BY <2>4, <3>2 DEF Cat
  <2>5. "SE" \in Erases /\ "BE32" \in Erases /\ "BE64" \in Erases /\ "CE" \in Erases
    BY DEF Erases
  <2>6. CASE r.how = "4k"
    <3>1. EraseWithinFor(r, "SE", r.addr)
      BY <2>2, <2>6 DEF EraseWithinFor, EraseUnit, Block
    <3> QED BY <2>1, <2>3, <2>4, <2>5, <2>6, <3>1
  <2>7. CASE r.how = "32k"
    <3>1. EraseWithinFor(r, "BE32", r.addr)
      BY <2>2, <2>7 DEF EraseWithinFor, EraseUnit, Block
    <3> QED BY <2>1, <2>3, <2>4, <2>5, <2>7, <3>1
  <2>8. CASE r.how = "64k"
    <3>1. EraseWithinFor(r, "BE64", r.addr)
      BY <2>2, <2>8 DEF EraseWithinFor, EraseUnit, Block
    <3> QED BY <2>1, <2>3, <2>4, <2>5, <2>8, <3>1
  <2>9. CASE r.how = "chip"
    <3>1. \A a \in Cells : a \in Block(r)
      BY <2>1, <2>9, WholeSize DEF Block
    <3>2. EraseWithinFor(r, "CE", 0)
      BY <2>2, <3>1 DEF EraseWithinFor
    <3> QED BY <2>1, <2>3, <2>4, <2>5, <2>9, <3>2
  <2> QED BY <1>1, <2>6, <2>7, <2>8, <2>9
<1> QED BY <1>3, <1>4

(* w25q128jw_write, of whole words where the DMA moves them. *)
LEMMA FineWriteCall ==
  ASSUME NEW r \in Requests, r.fn = "write", WholeTransfer(r)
  PROVE  Fine(r, Script(r))
<1>1. r.addr \in Nat /\ r.n \in Nat /\ Len(r.data) = r.n /\ Size \in Nat
  BY RequestShape, Geometry DEF CallShape
<1>2. Fine(r, Return("ERROR")) /\ Fine(r, Return("OK"))
  BY FineMarks
<1>3. CASE ~w25q128jw_sanity_checks(r.addr, r.n)
  BY <1>2, <1>3 DEF Script, Checked
<1>4. CASE w25q128jw_sanity_checks(r.addr, r.n)
  <2>1. r.n \in Nat \ {0} /\ r.addr + r.n <= Size
    BY <1>1, <1>4 DEF w25q128jw_sanity_checks
  <2>2. SourceLen(r) = r.n
    BY <1>1 DEF SourceLen
  <2>3. WithinFor(r, r.addr, r.n)
    <3>1. Scope(r) = r.addr..r.addr+r.n-1
      BY DEF Scope, Span
    <3> QED BY <3>1 DEF WithinFor
  <2>4. r.how \in {"best", "standard_dma", "quad_dma"} => Transferable(r, r.addr, r.n)
    <3> SUFFICES ASSUME r.how \in {"best", "standard_dma", "quad_dma"} PROVE Transferable(r, r.addr, r.n)
      OBVIOUS
    <3>1. WrittenByDma(r)
      BY DEF WrittenByDma
    <3>2. \A x \in r.addr..r.addr+r.n-1 : x = r.addr \/ x % Page = 0 =>
            /\ Lesser(Page - (x % Page), r.addr + r.n - x) >= W
            /\ (r.align + (x - r.addr)) % W = 0
      BY <1>4, <3>1 DEF WholeTransfer
    <3> QED BY <3>2, Zenon DEF Transferable, AlignedFor
  <2>5. r.n <= SourceLen(r) /\ SourceLen(r) \in Nat
    BY <1>1, <2>2
  <2>6. Fine(r, WritePages(r.how, r.addr, r.n))
    BY <1>1, <2>1, <2>3, <2>4, <2>5, FineWrites
  <2>7. Fine(r, Cat(WritePages(r.how, r.addr, r.n), Return("OK")))
    BY <1>2, <2>6, FineCat
  <2> QED BY <1>4, <2>7 DEF Script, Checked, Cat
<1> QED BY <1>3, <1>4

(* The read functions, of whole words where the DMA moves them. *)
LEMMA FineReadCall ==
  ASSUME NEW r \in Requests, r.fn \in ReadFunctions, WholeTransfer(r)
  PROVE  /\ Fine(r, Script(r))
         /\ r.fn = "async" =>
              \/ Script(r) = Return("ERROR")
              \/ Script(r) = Read("async", r.how, r.addr, r.n) \o Return("OK")
<1>1. r.addr \in Nat /\ r.n \in Nat /\ r.n <= Sector /\ r.how \in Hows(r.fn)
  BY RequestShape DEF CallShape
<1>2. Fine(r, Return("ERROR")) /\ Fine(r, Return("OK"))
  BY FineMarks
<1>3. CASE ~w25q128jw_sanity_checks(r.addr, r.n)
  <2>1. Script(r) = Return("ERROR")
    BY <1>3 DEF Script, Checked, ReadFunctions
  <2> QED BY <1>2, <2>1
<1>4. CASE w25q128jw_sanity_checks(r.addr, r.n)
  <2>1. r.n \in 1..Sector /\ r.addr \in Cells
    BY <1>1, <1>4, Geometry DEF w25q128jw_sanity_checks, Cells
  <2>2. ReadByDma(r) => r.n % W = 0
    BY <1>4 DEF WholeTransfer
  <2>3. CASE r.fn = "read"
    <3>1. /\ r.how \in {"standard_dma", "quad_dma"} => r.n % W = 0
          /\ r.how = "best" /\ r.n >= RxDmaThreshold => r.n % W = 0
      BY <2>2, <2>3 DEF ReadByDma
    <3>2. r.how \in Hows("read")
      BY <1>1, <2>3
    <3>3. Fine(r, Reading(r.how, r.addr, r.n))
      BY <2>1, <3>1, <3>2, FineReading
    <3>4. Fine(r, Cat(Reading(r.how, r.addr, r.n), Return("OK")))
      BY <1>2, <3>3, FineCat
    <3> QED BY <1>4, <2>3, <3>4 DEF Script, Checked, Cat
  <2>4. CASE r.fn \in {"async", "setup"}
    <3>1. r.how \in {"standard", "quad"}
      BY <1>1, <2>4 DEF Hows
    <3>2. CASE r.how = "standard" /\ r.n % W # 0
      <4>1. Script(r) = Return("ERROR")
        BY <1>4, <2>4, <3>2 DEF Script, Checked, WholeWords
      <4> QED BY <1>2, <4>1
    <3>3. CASE ~(r.how = "standard" /\ r.n % W # 0)
      <4>1. r.n % W = 0
        <5>1. r.how = "quad" => ReadByDma(r)
          BY <2>4 DEF ReadByDma
        <5> QED BY <2>2, <3>1, <3>3, <5>1
      <4>2. r.fn # "read" \/ r.how \in {"standard_dma", "quad_dma"} => r.n % W = 0
        BY <4>1
      <4>3. Fine(r, Read(r.fn, r.how, r.addr, r.n))
        BY <1>1, <2>1, <3>1, <4>2, FineRead
      <4>4. Fine(r, Cat(Read(r.fn, r.how, r.addr, r.n), Return("OK")))
        BY <1>2, <4>3, FineCat
      <4>5. Script(r) = Read(r.fn, r.how, r.addr, r.n) \o Return("OK")
        BY <1>4, <2>4, <3>3 DEF Script, Checked, WholeWords
      <4> QED BY <4>4, <4>5 DEF Cat
    <3> QED BY <3>2, <3>3
  <2> QED BY <2>3, <2>4 DEF ReadFunctions
<1> QED BY <1>3, <1>4

(* w25q128jw_erase_and_write. *)
LEMMA FineSectors ==
  ASSUME NEW r \in Requests, r.fn = "erase_and_write"
  PROVE  Fine(r, Script(r))
<1>1. r.addr \in Nat /\ r.n \in Nat /\ r.how \in Hows("read")
  BY RequestShape DEF CallShape, Hows
<1>2. Fine(r, Return("ERROR"))
  BY FineMarks
<1>3. PICK x : x = [k |-> "sectors", how |-> r.how, addr |-> r.addr, off |-> 0, n |-> r.n]
  OBVIOUS
<1>4. x \in Items(r)
  BY <1>1, <1>3 DEF Items
<1>5. LegitFor(r, x)
  <2>1. x.k = "sectors" /\ x.addr = r.addr /\ x.n = r.n
    BY <1>3
  <2>2. \A a \in x.addr..x.addr+x.n-1 : a \in Span(r)
    BY <2>1 DEF Span
  <2> QED BY <2>1, <2>2 DEF LegitFor
<1>6. Fine(r, << x >>)
  BY <1>4, <1>5, FineOne
<1>7. Fine(r, erase_and_write(r.how, r.addr, 0, r.n))
  BY <1>3, <1>6 DEF erase_and_write
<1> QED BY <1>2, <1>7 DEF Script, Checked

(* w25q128jw_reset. *)
LEMMA FineResets ==
  ASSUME NEW r \in Requests, r.fn = "reset"
  PROVE  Fine(r, Script(r))
<1>1. /\ Fine(r, << Step("flash_wait", 0, 0) >>) /\ Fine(r, << Step("reset", 0, 0) >>)
      /\ Fine(r, Return("void"))
  BY FineMarks
<1>2. Fine(r, w25q128jw_reset_force)
  BY <1>1 DEF w25q128jw_reset_force
<1>3. Fine(r, w25q128jw_reset)
  <2>1. Fine(r, Cat(<< Step("flash_wait", 0, 0) >>, w25q128jw_reset_force))
    BY <1>1, <1>2, FineCat
  <2> QED BY <2>1 DEF w25q128jw_reset, Wait, Cat
<1>4. Fine(r, Cat(w25q128jw_reset_force, Return("void"))) /\ Fine(r, Cat(w25q128jw_reset, Return("void")))
  BY <1>1, <1>2, <1>3, FineCat
<1> QED BY <1>4 DEF Script, Cat

(* The script of a call of the application is fine. *)
LEMMA FineScript ==
  ASSUME NEW r \in Requests, WholeTransfer(r), r.fn # "power_down"
  PROVE  Fine(r, Script(r))
<1>1. r.fn \in ApiFunctions
  BY RequestShape
<1> QED BY <1>1, FineErases, FineWriteCall, FineReadCall, FineSectors, FineResets DEF ApiFunctions

(***************************************************************************)
(* A call begins.                                                          *)
(***************************************************************************)
LEMMA IdleQueue ==
  ASSUME FlashTypes, Sane, script = <<>>
  PROVE  ~(Len(cmds) > CmdDepth)
BY DEF Sane

(* What a call begins with. *)
LEMMA BeginFrame ==
  ASSUME NEW r, Begin(r)
  PROVE  /\ script = <<>> /\ ~Awaited /\ call' = r /\ script' = Script(r) /\ res' = "none"
         /\ pre' = Settled /\ ~Awaited'
         /\ UNCHANGED <<chipVars, cmds, tx, rx, rxwm, dma, critical, reg, up>>
BY DEF Begin, Idle, Awaited, hostVars, dmaVars

(* The beginning of a call keeps Sane. *)
LEMMA BeginSane ==
  ASSUME FlashTypes, Sane, NEW r, Begin(r)
  PROVE  Sane'
<1>1. /\ script = <<>> /\ pre' = Settled
      /\ UNCHANGED <<mem, sr2, wel, asleep, rstEn, job, frame, refused, cmds, critical, up>>
  BY BeginFrame DEF chipVars
<1>2. ~(Len(cmds) > CmdDepth)
  BY <1>1, IdleQueue
<1>3. NeighboursKept'
  <2>1. Settled' = Settled
    BY <1>1 DEF Settled
  <2> QED BY <1>1, <2>1 DEF NeighboursKept
<1>4. CommandsAccepted'
  BY <1>1 DEF Sane, CommandsAccepted
<1> QED BY <1>1, <1>2, <1>3, <1>4 DEF Sane

(* A call of the application that starts with the local functions. *)
LEMMA BeginFine ==
  ASSUME FlashTypes, Resting, up, NEW r, Begin(r), Fine(r, Script(r)),
         r.fn = "async" =>
              \/ Script(r) = Return("ERROR")
              \/ Script(r) = Read("async", r.how, r.addr, r.n) \o Return("OK")
  PROVE  Flow'
<1>1. /\ script = <<>> /\ call' = r /\ script' = Script(r) /\ res' = "none" /\ ~Awaited'
      /\ UNCHANGED <<chipVars, cmds, tx, rx, dma, up>>
  BY BeginFrame
<1>2. Quiet'
  BY <1>1 DEF Resting, Quiet, chipVars
<1>3. up' /\ job' = NoJob /\ ~asleep'
  BY <1>1 DEF Resting, chipVars
<1>4. LegitFrom(1)'
  <2>1. \A k \in 1..Len(script') : LegitFor(call', script'[k])
    BY <1>1 DEF Fine
  <2>2. ASSUME NEW k \in 1..Len(script') PROVE Legit(script[k])'
    <3>1. LegitFor(call', script'[k])
      BY <2>1
    <3>2. PICK i : i = script'[k]
      OBVIOUS
    <3>3. Legit(i)'
      BY <3>1, <3>2, LegitThere
    <3> QED BY <3>2, <3>3 DEF Legit
  <2> QED BY <2>2 DEF LegitFrom
<1>5. call'.fn = "async" =>
        \/ script' = << [k |-> "ret", status |-> "ERROR"] >>
        \/ /\ Len(script') = 2 /\ script'[1].k = "read" /\ script'[1].fn = "async" /\ script'[1].n = call'.n
           /\ script'[2] = [k |-> "ret", status |-> "OK"]
  <2> SUFFICES ASSUME r.fn = "async", Script(r) = Read("async", r.how, r.addr, r.n) \o Return("OK")
               PROVE  /\ Len(script') = 2 /\ script'[1].k = "read" /\ script'[1].fn = "async"
                      /\ script'[1].n = r.n /\ script'[2] = [k |-> "ret", status |-> "OK"]
    BY <1>1 DEF Return
  <2>1. PICK x, y : /\ x = [k |-> "read", fn |-> "async", how |-> r.how, addr |-> r.addr, n |-> r.n]
                    /\ y = [k |-> "ret", status |-> "OK"]
    OBVIOUS
  <2>2. script' = << x >> \o << y >>
    BY <1>1, <2>1 DEF Read, Return
  <2>3. Len(script') = 2 /\ script'[1] = x /\ script'[2] = y
    BY <2>2
  <2> QED BY <2>1, <2>3
<1> QED BY <1>1, <1>2, <1>3, <1>4, <1>5 DEF Flow, Resting

(* w25q128jw_power_down *)
LEMMA BeginDown ==
  ASSUME FlashTypes, Resting, up, NEW r, r.fn = "power_down", Begin(r)
  PROVE  Flow'
<1>1. /\ script = <<>> /\ call' = r /\ script' = Script(r)
      /\ UNCHANGED <<chipVars, cmds, tx, rx, dma, up>>
  BY BeginFrame
<1>2. cmds = <<>> /\ tx = <<>> /\ rx = <<>> /\ frame = NoFrame /\ dma = NoDma /\ job = NoJob /\ ~asleep
  BY DEF Resting, Quiet
<1>3. PICK s \in Sections : s = WakeSection
  BY FixedSections
<1>4. s.kind = "wake" /\ Proper(s)'
  BY <1>3, FixedSections DEF WakeSection
<1>5. Stage(s, 0, 0)'
  <2>1. Stage(s, 0, 0)
    BY <1>2, FirstStage
  <2> QED BY <1>1, <1>4, <2>1, PairStays DEF Pairs
<1>6. PICK i \in 0..3 : i = 0
  OBVIOUS
<1>7. DownAt(s, 0, 0, i)'
  <2>1. Wire(s, Issued(s, i), Pushed(s, i), 0, 0, 0)'
    <3>1. Issued(s, i) = 0 /\ Pushed(s, i) = Taken(s, 0, 0) /\ Got(s, 0, 0) = 0
      BY <1>6, FirstCounts
    <3>2. PICK U \in Nat : U = Taken(s, 0, 0)
      <4>1. Pushed(s, 0) = 0 /\ Pushed(s, 0) = Taken(s, 0, 0)
        BY <1>4, FirstCounts DEF Pushed, Past
      <4> QED BY <4>1
    <3>3. cmds' = <<>> /\ tx' = <<>> /\ rx' = <<>>
      BY <1>1, <1>2
    <3>4. PICK z \in Nat : z = 0
      OBVIOUS
    <3>5. Wire(s, z, U, z, 0, 0)'
      BY <3>1, <3>2, <3>3, <3>4, EmptyWire
    <3> QED BY <3>1, <3>2, <3>4, <3>5
  <2>2. PICK a : a = Send("PD", 0, 1, FALSE)
    OBVIOUS
  <2>3. Sized(a, call', 3) /\ a[1] = Command("PD", 0) /\ a[2] = Item("TX", 1) /\ a[3] = Go
    <3>1. "PD" \in Opcodes /\ 0 \in Cells /\ 1 \in 1..Size
      BY Geometry DEF Opcodes, Cells
    <3> QED BY <2>2, <3>1, ShortSend
  <2>4. PICK b : b = Return("void")
    OBVIOUS
  <2>5. Sized(b, call', 1) /\ b[1] = [k |-> "ret", status |-> "void"]
    <3>1. b \in Seq(Items(call'))
      BY <2>4, ReturnType
    <3> QED BY <2>4, <3>1 DEF Return, Sized
  <2>6. script' = Cat(a, b)
    BY <1>1, <2>2, <2>4 DEF Script, w25q128jw_power_down, Cat
  <2>7. /\ Sized(script', call', 3 + 1)
        /\ \A k \in 1..3 : script'[k] = a[k]
        /\ \A k \in 1..1 : script'[3 + k] = b[k]
    BY <2>3, <2>5, <2>6, Joined
  <2>8. Len(script') = 4 /\ script'[4] = [k |-> "ret", status |-> "void"]
    <3>1. script'[3 + 1] = b[1]
      BY <2>7
    <3> QED BY <2>5, <2>7, <3>1 DEF Sized
  <2>9. script'[1] = WakeItems[1] /\ script'[2] = WakeItems[2] /\ script'[3] = WakeItems[3]
    <3>1. script'[1] = a[1] /\ script'[2] = a[2] /\ script'[3] = a[3]
      BY <2>7
    <3> QED BY <2>3, <3>1 DEF WakeItems
  <2>10. ASSUME NEW k \in 1..3-i PROVE script'[k] = WakeItems[i+k]
    <3>1. k = 1 \/ k = 2 \/ k = 3
      BY <1>6
    <3>2. i + k = k
      BY <1>6
    <3> QED BY <2>9, <3>1, <3>2
  <2>11. Len(script') = 4 - i /\ script'[4-i] = [k |-> "ret", status |-> "void"]
    BY <1>6, <2>8
  <2> QED BY <2>1, <2>10, <2>11 DEF DownAt
<1>8. Down(s, 0, 0)'
  <2>1. dma' = NoDma /\ call'.fn = "power_down"
    BY <1>1, <1>2
  <2> QED BY <1>4, <1>7, <2>1 DEF Down, DownAt
<1> QED BY <1>4, <1>5, <1>8 DEF Flow

(* Every call of the application keeps the invariant. *)
LEMMA CallFlow ==
  ASSUME FlashTypes, FlashInv, NEW r \in Requests, WholeTransfer(r), Call(r)
  PROVE  FlashInv'
<1>1. up /\ Begin(r) /\ Flow /\ Sane
  BY DEF Call, FlashInv
<1>2. script = <<>> /\ ~Awaited
  BY <1>1, BeginFrame
<1>3. Resting
  BY <1>1, <1>2, IdleCases DEF Fallen
<1>4. Sane'
  BY <1>1, BeginSane
<1>5. CASE r.fn = "power_down"
  BY <1>1, <1>3, <1>4, <1>5, BeginDown DEF FlashInv
<1>6. CASE r.fn # "power_down"
  <2>1. Fine(r, Script(r))
    BY <1>6, FineScript
  <2>2. r.fn = "async" =>
              \/ Script(r) = Return("ERROR")
              \/ Script(r) = Read("async", r.how, r.addr, r.n) \o Return("OK")
    BY FineReadCall DEF ReadFunctions
  <2>3. Flow'
    BY <1>1, <1>3, <2>1, <2>2, BeginFine
  <2> QED BY <1>4, <2>3 DEF FlashInv
<1> QED BY <1>5, <1>6

(***************************************************************************)
(* w25q128jw_init.                                                         *)
(***************************************************************************)
LEMMA ReadReg2Items ==
  ASSUME NEW c
  PROVE  /\ Sized(ReadReg2, c, 7)
         /\ ReadReg2[1] = Command("RSR2", 0) /\ ReadReg2[2] = HeldItem("TX", 1) /\ ReadReg2[3] = Go
         /\ ReadReg2[4] = Item("RX", 1) /\ ReadReg2[5] = Go /\ ReadReg2[6] = Step("rxwait", 0, 0)
         /\ ReadReg2[7] = Step("rxreg", 0, 0)
<1> DEFINE a == Send("RSR2", 0, 1, TRUE)
           b == Segment("RX", 1, FALSE)
           d == << Step("rxwait", 0, 0), Step("rxreg", 0, 0) >>
<1>1. Sized(a, c, 3) /\ a[1] = Command("RSR2", 0) /\ a[2] = HeldItem("TX", 1) /\ a[3] = Go
  BY Small, ShortSend DEF Opcodes
<1>2. Sized(b, c, 2) /\ b[1] = Item("RX", 1) /\ b[2] = Go
  BY Small, ShortSegment
<1>3. Sized(d, c, 2) /\ d[1] = Step("rxwait", 0, 0) /\ d[2] = Step("rxreg", 0, 0)
  <2>1. Step("rxwait", 0, 0) \in Items(c) /\ Step("rxreg", 0, 0) \in Items(c)
    BY StepType DEF Marks
  <2> QED BY <2>1, Two
<1>4. ReadReg2 = Cat(Cat(a, b), d)
  BY DEF ReadReg2, Cat
<1> HIDE DEF a, b, d
<1> DEFINE e == Cat(Cat(a, b), d)
<1>5. Sized(e, c, 7) /\ e[1] = a[1] /\ e[2] = a[2] /\ e[3] = a[3] /\ e[4] = b[1] /\ e[5] = b[2]
      /\ e[6] = d[1] /\ e[7] = d[2]
  BY <1>1, <1>2, <1>3, Joined
<1> HIDE DEF e
<1> QED BY <1>1, <1>2, <1>3, <1>4, <1>5 DEF e

(* The pieces of w25q128jw_init, one behind the other. *)
LEMMA InitJoin ==
  ASSUME NEW c, NEW u, NEW h, NEW w, NEW g, NEW z,
         Sized(u, c, 3), Sized(h, c, 8), Sized(w, c, 17), Sized(g, c, 7), Sized(z, c, 1),
         NEW q, q = Cat(Cat(u, Cat(Cat(h, w), g)), z)
  PROVE  /\ Sized(q, c, 36)
         /\ \A k \in 1..3 : q[k] = u[k]
         /\ \A k \in 1..8 : q[3+k] = h[k]
         /\ \A k \in 1..17 : q[11+k] = w[k]
         /\ \A k \in 1..7 : q[28+k] = g[k]
         /\ q[36] = z[1]
<1>1. PICK x : x = Cat(h, w)
  OBVIOUS
<1>2. /\ Sized(x, c, 8 + 17)
      /\ \A k \in 1..8 : x[k] = h[k]
      /\ \A k \in 1..17 : x[8+k] = w[k]
  BY <1>1, Joined
<1>3. PICK y : y = Cat(x, g)
  OBVIOUS
<1>4. /\ Sized(y, c, 25 + 7)
      /\ \A k \in 1..25 : y[k] = x[k]
      /\ \A k \in 1..7 : y[25+k] = g[k]
  <2>1. Sized(x, c, 25)
    BY <1>2
  <2> QED BY <1>3, <2>1, Joined
<1>5. PICK v : v = Cat(u, y)
  OBVIOUS
<1>6. /\ Sized(v, c, 3 + 32)
      /\ \A k \in 1..3 : v[k] = u[k]
      /\ \A k \in 1..32 : v[3+k] = y[k]
  <2>1. Sized(y, c, 32)
    BY <1>4
  <2> QED BY <1>5, <2>1, Joined
<1>7. q = Cat(v, z)
  BY <1>1, <1>3, <1>5
<1>8. /\ Sized(q, c, 35 + 1)
      /\ \A k \in 1..35 : q[k] = v[k]
      /\ \A k \in 1..1 : q[35+k] = z[k]
  <2>1. Sized(v, c, 35)
    BY <1>6
  <2> QED BY <1>7, <2>1, Joined
<1>9. ASSUME NEW k \in 1..8 PROVE q[3+k] = h[k]
  <2>1. k \in 1..25 /\ k \in 1..32 /\ 3 + k \in 1..35
    OBVIOUS
  <2>2. q[3+k] = v[3+k] /\ v[3+k] = y[k] /\ y[k] = x[k] /\ x[k] = h[k]
    BY <1>2, <1>4, <1>6, <1>8, <2>1
  <2> QED BY <2>2
<1>10. ASSUME NEW k \in 1..17 PROVE q[11+k] = w[k]
  <2>1. PICK j \in 1..25 : j = 8 + k
    OBVIOUS
  <2>2. j \in 1..32 /\ 3 + j \in 1..35 /\ 3 + j = 11 + k
    BY <2>1
  <2>3. q[3+j] = v[3+j] /\ v[3+j] = y[j] /\ y[j] = x[j]
    BY <1>4, <1>6, <1>8, <2>2
  <2>4. x[j] = w[k]
    BY <1>2, <2>1
  <2> QED BY <2>2, <2>3, <2>4
<1>11. ASSUME NEW k \in 1..7 PROVE q[28+k] = g[k]
  <2>1. PICK j \in 1..32 : j = 25 + k
    OBVIOUS
  <2>2. 3 + j \in 1..35 /\ 3 + j = 28 + k
    BY <2>1
  <2>3. q[3+j] = v[3+j] /\ v[3+j] = y[j]
    BY <1>6, <1>8, <2>2
  <2>4. y[j] = g[k]
    BY <1>4, <2>1
  <2> QED BY <2>2, <2>3, <2>4
<1>12. ASSUME NEW k \in 1..3 PROVE q[k] = u[k]
  <2>1. k \in 1..35
    OBVIOUS
  <2> QED BY <1>6, <1>8, <2>1
<1>13. q[36] = z[1]
  <2>1. q[35+1] = z[1]
    BY <1>8
  <2> QED BY <2>1
<1>14. Sized(q, c, 36)
  BY <1>8
<1> QED BY <1>9, <1>10, <1>11, <1>12, <1>13, <1>14

(* The pieces of the script of w25q128jw_init, from the right. *)
LEMMA Regroup ==
  ASSUME NEW S, NEW h \in Seq(S), NEW a \in Seq(S), NEW b \in Seq(S), NEW d \in Seq(S), NEW e \in Seq(S),
         NEW f \in Seq(S)
  PROVE  Cat(Cat(Cat(Cat(Cat(h, a), b), d), e), f) = Cat(h, Cat(Cat(Cat(Cat(a, b), d), e), f))
<1>1. ASSUME NEW s \in Seq(S), NEW t \in Seq(S), NEW u \in Seq(S)
      PROVE  Cat(Cat(s, t), u) = Cat(s, Cat(t, u)) /\ Cat(s, t) \in Seq(S)
  <2>1. (s \o t) \o u = s \o (t \o u)
    OBVIOUS
  <2>2. s \o t \in Seq(S)
    OBVIOUS
  <2> QED BY <2>1, <2>2 DEF Cat
<1>2. PICK x \in Seq(S) : x = Cat(a, b)
  BY <1>1
<1>3. PICK y \in Seq(S) : y = Cat(x, d)
  BY <1>1
<1>4. PICK v \in Seq(S) : v = Cat(y, e)
  BY <1>1
<1>5. Cat(Cat(h, a), b) = Cat(h, x)
  BY <1>1, <1>2
<1>6. Cat(Cat(h, x), d) = Cat(h, y)
  BY <1>1, <1>3
<1>7. Cat(Cat(h, y), e) = Cat(h, v)
  BY <1>1, <1>4
<1>8. Cat(Cat(h, v), f) = Cat(h, Cat(v, f))
  BY <1>1
<1> QED BY <1>2, <1>3, <1>4, <1>5, <1>6, <1>7, <1>8

(* w25q128jw_init makes the accesses of the wake section from the fourth   *)
(* on, then those that set QE.                                             *)
LEMMA InitItems ==
  ASSUME NEW q, q = Script(InitCall)
  PROVE  /\ Sized(q, InitCall, 36)
         /\ \A k \in 1..11 : q[k] = WakeItems[3+k]
         /\ \A k \in 1..25 : q[11+k] = EnableTail[k]
<1>1. PICK c : c = InitCall
  OBVIOUS
<1>2. PICK u : u = flash_power_up
  OBVIOUS
<1>3. Sized(u, c, 3) /\ u[1] = Command("RPD", 0) /\ u[2] = Item("TX", 1) /\ u[3] = Go
  BY <1>2, Small, ShortSend DEF Opcodes, flash_power_up
<1>4. PICK r : r = << Step("rxwm", 0, 1) >>
  OBVIOUS
<1>5. Sized(r, c, 1) /\ r[1] = Step("rxwm", 0, 1)
  <2>1. Step("rxwm", 0, 1) \in Items(c)
    BY StepType DEF Marks
  <2> QED BY <1>4, <2>1, One
<1>6. PICK g : g = ReadReg2
  OBVIOUS
<1>7. /\ Sized(g, c, 7)
      /\ g[1] = Command("RSR2", 0) /\ g[2] = HeldItem("TX", 1) /\ g[3] = Go
      /\ g[4] = Item("RX", 1) /\ g[5] = Go /\ g[6] = Step("rxwait", 0, 0) /\ g[7] = Step("rxreg", 0, 0)
  BY <1>6, ReadReg2Items
<1>8. PICK a : a = flash_write_enable
  OBVIOUS
<1>9. Sized(a, c, 3) /\ a[1] = Command("WE", 0) /\ a[2] = Item("TX", 1) /\ a[3] = Go
  BY <1>8, Small, ShortSend DEF Opcodes, flash_write_enable
<1>10. PICK b : b = Send("WSR2", 0, 1, TRUE)
  OBVIOUS
<1>11. Sized(b, c, 3) /\ b[1] = Command("WSR2", 0) /\ b[2] = HeldItem("TX", 1) /\ b[3] = Go
  BY <1>10, Small, ShortSend DEF Opcodes
<1>12. PICK d : d = << Step("txreg", 0, 0) >>
  OBVIOUS
<1>13. Sized(d, c, 1) /\ d[1] = Step("txreg", 0, 0)
  <2>1. Step("txreg", 0, 0) \in Items(c)
    BY StepType DEF Marks
  <2> QED BY <1>12, <2>1, One
<1>14. PICK e : e = Segment("TX", 1, FALSE)
  OBVIOUS
<1>15. Sized(e, c, 2) /\ e[1] = Item("TX", 1) /\ e[2] = Go
  BY <1>14, Small, ShortSegment
<1>16. PICK f : f = flash_wait
  OBVIOUS
<1>17. /\ Sized(f, c, 8)
       /\ f[1] = Step("rxwm", 0, 1) /\ f[2] = Command("RSR1", 0) /\ f[3] = HeldItem("TX", 1) /\ f[4] = Go
       /\ f[5] = Item("RX", 1) /\ f[6] = Go /\ f[7] = Step("rxwait", 0, 0) /\ f[8] = Step("poll", 0, 0)
  BY <1>16, WaitItems
<1>18. PICK z : z = << Step("retqe", 0, 0) >>
  OBVIOUS
<1>19. Sized(z, c, 1) /\ z[1] = Step("retqe", 0, 0)
  <2>1. Step("retqe", 0, 0) \in Items(c)
    BY StepType DEF Marks
  <2> QED BY <1>18, <2>1, One
<1>20. PICK h : h = Cat(r, g)
  OBVIOUS
<1>21. /\ Sized(h, c, 8) /\ h[1] = r[1] /\ h[2] = g[1] /\ h[3] = g[2] /\ h[4] = g[3] /\ h[5] = g[4]
       /\ h[6] = g[5] /\ h[7] = g[6] /\ h[8] = g[7]
  BY <1>5, <1>7, <1>20, Joined
<1>22. PICK w : w = Cat(Cat(Cat(Cat(a, b), d), e), f)
  OBVIOUS
<1>23. /\ Sized(w, c, 17)
       /\ w[1] = a[1] /\ w[2] = a[2] /\ w[3] = a[3]
       /\ w[4] = b[1] /\ w[5] = b[2] /\ w[6] = b[3] /\ w[7] = d[1] /\ w[8] = e[1] /\ w[9] = e[2]
       /\ w[10] = f[1] /\ w[11] = f[2] /\ w[12] = f[3] /\ w[13] = f[4]
       /\ w[14] = f[5] /\ w[15] = f[6] /\ w[16] = f[7] /\ w[17] = f[8]
  <2>1. Sized(a, c, 3) /\ Sized(b, c, 3) /\ Sized(d, c, 1) /\ Sized(e, c, 2) /\ Sized(f, c, 8)
    BY <1>9, <1>11, <1>13, <1>15, <1>17
  <2> QED BY <1>22, <2>1, WriteJoin
<1>24. Cat(Cat(Cat(Cat(Cat(h, a), b), d), e), f) = Cat(h, w)
  <2>1. PICK S : S = Items(c)
    OBVIOUS
  <2>2. /\ h \in Seq(S) /\ a \in Seq(S) /\ b \in Seq(S) /\ d \in Seq(S) /\ e \in Seq(S) /\ f \in Seq(S)
    BY <1>9, <1>11, <1>13, <1>15, <1>17, <1>21, <2>1 DEF Sized
  <2> QED BY <1>22, <2>2, Regroup
<1>25. q = Cat(Cat(u, Cat(Cat(h, w), g)), z)
  <2>1. InitCall.fn = "init"
    BY DEF InitCall, Request
  <2>2. q = w25q128jw_init \o << Step("retqe", 0, 0) >>
    BY <2>1 DEF Script
  <2>3. set_QE_bit = Cat(Cat(Cat(Cat(Cat(Cat(h, a), b), d), e), f), g)
    BY <1>4, <1>6, <1>8, <1>10, <1>12, <1>14, <1>16, <1>20 DEF set_QE_bit, Cat
  <2>4. set_QE_bit = Cat(Cat(h, w), g)
    BY <1>24, <2>3
  <2> QED BY <1>2, <1>18, <2>2, <2>4 DEF w25q128jw_init, Cat
<1>30. /\ Sized(q, c, 36)
       /\ \A k \in 1..3 : q[k] = u[k]
       /\ \A k \in 1..8 : q[3+k] = h[k]
       /\ \A k \in 1..17 : q[11+k] = w[k]
       /\ \A k \in 1..7 : q[28+k] = g[k]
       /\ q[36] = z[1]
  <2>1. Sized(u, c, 3) /\ Sized(h, c, 8) /\ Sized(w, c, 17) /\ Sized(g, c, 7) /\ Sized(z, c, 1)
    BY <1>3, <1>7, <1>19, <1>21, <1>23
  <2> QED BY <1>25, <2>1, InitJoin
<1>31. q[1] = u[1] /\ q[2] = u[2] /\ q[3] = u[3]
  BY <1>30
<1>32. /\ q[4] = h[1] /\ q[5] = h[2] /\ q[6] = h[3] /\ q[7] = h[4] /\ q[8] = h[5]
       /\ q[9] = h[6] /\ q[10] = h[7] /\ q[11] = h[8]
  <2>1. \A k \in 1..8 : q[3+k] = h[k]
    BY <1>30
  <2> QED BY <2>1
<1>33. /\ q[29] = g[1] /\ q[30] = g[2] /\ q[31] = g[3] /\ q[32] = g[4] /\ q[33] = g[5] /\ q[34] = g[6]
       /\ q[35] = g[7]
  <2>1. \A k \in 1..7 : q[28+k] = g[k]
    BY <1>30
  <2> QED BY <2>1
<1>26. \A k \in 1..11 : q[k] = WakeItems[3+k]
  <2>1. /\ q[1] = WakeItems[4] /\ q[2] = WakeItems[5] /\ q[3] = WakeItems[6] /\ q[4] = WakeItems[7]
        /\ q[5] = WakeItems[8] /\ q[6] = WakeItems[9] /\ q[7] = WakeItems[10] /\ q[8] = WakeItems[11]
        /\ q[9] = WakeItems[12] /\ q[10] = WakeItems[13] /\ q[11] = WakeItems[14]
    BY <1>3, <1>5, <1>7, <1>21, <1>31, <1>32 DEF WakeItems
  <2> QED BY <2>1
<1>27. \A k \in 1..17 : q[11+k] = WriteItems(EnableSection)[k]
  <2>1. /\ EnableSection.kind = "enable" /\ EnableSection.n = 1 /\ EnableSection.op = "WSR2"
        /\ EnableSection.addr = 0 /\ CommandLen(EnableSection) = 1
    BY DEF EnableSection, CommandLen
  <2>2. PICK x : x = WriteItems(EnableSection)
    OBVIOUS
  <2>3. /\ w[1] = x[1] /\ w[2] = x[2] /\ w[3] = x[3] /\ w[4] = x[4] /\ w[5] = x[5] /\ w[6] = x[6]
        /\ w[7] = x[7] /\ w[8] = x[8] /\ w[9] = x[9]
    BY <1>9, <1>11, <1>13, <1>15, <1>23, <2>1, <2>2 DEF WriteItems
  <2>4. /\ w[10] = x[10] /\ w[11] = x[11] /\ w[12] = x[12] /\ w[13] = x[13] /\ w[14] = x[14]
        /\ w[15] = x[15] /\ w[16] = x[16] /\ w[17] = x[17]
    BY <1>17, <1>23, <2>1, <2>2 DEF WriteItems
  <2>5. \A k \in 1..17 : w[k] = x[k]
    BY <2>3, <2>4
  <2> QED BY <1>30, <2>2, <2>5
<1>28. \A k \in 1..8 : q[28+k] = CheckTail[k]
  <2>1. /\ q[29] = WakeItems[8] /\ q[30] = WakeItems[9] /\ q[31] = WakeItems[10] /\ q[32] = WakeItems[11]
        /\ q[33] = WakeItems[12] /\ q[34] = WakeItems[13] /\ q[35] = WakeItems[14]
    BY <1>7, <1>33 DEF WakeItems
  <2>2. \A k \in 1..8 : CheckTail[k] = IF k = 8 THEN Step("retqe", 0, 0) ELSE WakeItems[7+k]
    BY DEF CheckTail
  <2>3. q[36] = z[1]
    BY <1>30
  <2> QED BY <1>19, <2>1, <2>2, <2>3
<1>29. \A k \in 1..25 : q[11+k] = EnableTail[k]
  <2>1. ASSUME NEW k \in 1..25 PROVE q[11+k] = EnableTail[k]
    <3>1. EnableTail[k] = IF k <= 17 THEN WriteItems(EnableSection)[k] ELSE CheckTail[k-17]
      BY DEF EnableTail
    <3>2. CASE k <= 17
      BY <1>27, <3>1, <3>2
    <3>3. CASE ~(k <= 17)
      <4>1. k - 17 \in 1..8 /\ 28 + (k - 17) = 11 + k
        BY <3>3
      <4>2. q[28 + (k - 17)] = CheckTail[k-17]
        BY <1>28, <4>1
      <4> QED BY <3>1, <3>3, <4>1, <4>2
    <3> QED BY <3>2, <3>3
  <2> QED BY <2>1
<1>34. Sized(q, c, 36)
  BY <1>30
<1> QED BY <1>1, <1>26, <1>29, <1>34

(* w25q128jw_init begins in the middle of a wake section. *)
LEMMA InitLands ==
  ASSUME FlashTypes, Begin(InitCall), NEW s \in Sections, s.kind = "wake", Proper(s), NEW p \in 0..5, NEW j \in Nat,
         Stage(s, p, j)', Wire(s, 1, 1, p, j, 0)', dma = NoDma
  PROVE  Flow'
<1>1. call' = InitCall /\ script' = Script(InitCall) /\ dma' = dma
  BY BeginFrame
<1>2. /\ Sized(script', InitCall, 36)
      /\ \A k \in 1..11 : script'[k] = WakeItems[3+k]
      /\ \A k \in 1..25 : script'[11+k] = EnableTail[k]
  BY <1>1, InitItems
<1>3. Len(script') = 36
  BY <1>2 DEF Sized
<1>4. SectionItems(s) = WakeItems /\ Len(WakeItems) = 14
  BY DEF SectionItems, WakeItems
<1>5. PICK i \in 0..16 : i = 3
  OBVIOUS
<1>6. PICK l \in Nat : l = 14
  OBVIOUS
<1>7. Ahead(s, i, 0)'
  <2>1. \A k \in 1..l-i : script'[0+k] = SectionItems(s)[i+k]
    <3> SUFFICES ASSUME NEW k \in 1..l-i PROVE script'[0+k] = SectionItems(s)[i+k]
      OBVIOUS
    <3>1. k \in 1..11 /\ 0 + k = k /\ i + k = 3 + k
      BY <1>5, <1>6
    <3> QED BY <1>2, <1>4, <3>1
  <2>2. Len(script') >= 0 + l - i
    BY <1>3, <1>5, <1>6
  <2> QED BY <1>4, <1>6, <2>1, <2>2 DEF Ahead
<1>8. Behind(11, EnableTail)'
  <2>1. Len(EnableTail) = 25
    BY DEF EnableTail
  <2> QED BY <1>2, <1>3, <2>1 DEF Behind
<1>9. Continues(s, p, 11)'
  BY <1>8 DEF Continues
<1>10. Issued(s, i) = 1 /\ Pushed(s, i) = 1
  BY <1>5 DEF Issued, Pushed, Past
<1>11. l - i = 11 /\ i < l
  BY <1>5, <1>6
<1>12. call'.fn # "async" /\ s.kind \notin ReadKinds
  BY <1>1 DEF InitCall, Request, ReadKinds
<1>13. OnTrack(s, i, p, j)'
  <2>1. i < Len(SectionItems(s)) /\ Continues(s, p, Len(SectionItems(s)) - i)'
    BY <1>4, <1>6, <1>9, <1>11
  <2>2. Wire(s, Issued(s, i), Pushed(s, i), p, j, 0)' /\ dma' = NoDma
    BY <1>1, <1>10
  <2> QED BY <1>7, <1>12, <2>1, <2>2 DEF OnTrack
<1>14. Proper(s)'
  BY DEF Proper, Writes, ReadKinds
<1> QED BY <1>13, <1>14 DEF Flow

(* w25q128jw_init keeps the invariant, whatever a reset has interrupted. *)
LEMMA InitFlow ==
  ASSUME FlashTypes, FlashInv, CallInit
  PROVE  FlashInv'
<1>1. Begin(InitCall) /\ Flow /\ Sane
  BY DEF CallInit, FlashInv
<1>2. script = <<>> /\ ~Awaited /\ UNCHANGED <<chipVars, cmds, tx, rx, dma>>
  BY <1>1, BeginFrame
<1>3. Sane'
  BY <1>1, BeginSane
<1>4. CASE Resting
  <2>1. cmds = <<>> /\ tx = <<>> /\ rx = <<>> /\ frame = NoFrame /\ dma = NoDma
    BY <1>4 DEF Resting, Quiet
  <2>2. PICK s \in Sections : s = WakeSection
    BY FixedSections
  <2>3. s.kind = "wake" /\ Proper(s)
    BY <2>2, FixedSections DEF WakeSection
  <2>4. s.kind \in Pairs /\ s.kind \notin Writes /\ s.kind \notin ReadKinds
    BY <2>3 DEF Pairs, Writes, ReadKinds
  <2>5. PICK p \in Nat : p = 1
    OBVIOUS
  <2>6. Taken(s, p, 0) = 1 /\ Got(s, p, 0) = 0
    <3>1. Len(Segs(s)) = 4
      BY <2>4 DEF Segs
    <3> QED BY <2>4, <2>5, <3>1 DEF Taken, Got, Lesser
  <2>7. PICK U \in Nat : U = 1
    OBVIOUS
  <2>8. Wire(s, p, U, p, 0, 0)'
    <3>1. cmds' = <<>> /\ tx' = <<>> /\ rx' = <<>> /\ Taken(s, p, 0) = U
      BY <1>2, <2>1, <2>6, <2>7
    <3> QED BY <2>6, <3>1, EmptyWire
  <2>9. Wire(s, 1, 1, p, 0, 0)'
    BY <2>5, <2>7, <2>8
  <2>10. Stage(s, p, 0)'
    <3>1. PairStage(s, p)'
      <4>1. frame' = NoFrame
        BY <1>2, <2>1 DEF chipVars
      <4> QED BY <2>3, <2>5, <4>1 DEF PairStage
    <3> QED BY <2>3, <2>4, <3>1 DEF Stage
  <2>11. p \in 0..5
    BY <2>5
  <2>12. Flow'
    BY <1>1, <2>1, <2>3, <2>9, <2>10, <2>11, InitLands
  <2> QED BY <1>3, <2>12 DEF FlashInv
<1>5. ASSUME NEW s \in Sections, NEW p \in 0..5, NEW j \in Nat, Proper(s), Stage(s, p, j), Fallen(s, p, j)
      PROVE  Flow'
  <2>1. s.kind = "wake" /\ dma = NoDma /\ Wire(s, Issued(s, 3), Pushed(s, 3), p, j, 0)
    BY <1>5 DEF Fallen
  <2>2. Issued(s, 3) = 1 /\ Pushed(s, 3) = 1
    BY <2>1 DEF Issued, Pushed, Past
  <2>3. Wire(s, 1, 1, p, j, 0)
    BY <2>1, <2>2
  <2>4. Wire(s, 1, 1, p, j, 0)'
    BY <1>2, <2>3, WireStays
  <2>5. Stage(s, p, j)'
    BY <1>2, <1>5, <2>1, PairStays DEF Pairs
  <2> QED BY <1>1, <1>5, <2>1, <2>4, <2>5, InitLands
<1>6. CASE ~Resting
  <2>1. \E s \in Sections, p \in 0..5, j \in Nat : Proper(s) /\ Stage(s, p, j) /\ Fallen(s, p, j)
    BY <1>1, <1>2, <1>6, IdleCases
  <2>2. Flow'
    BY <1>5, <2>1
  <2> QED BY <1>3, <2>2 DEF FlashInv
<1> QED BY <1>4, <1>6

(***************************************************************************)
(* The second half of an asynchronous read.                                *)
(***************************************************************************)
LEMMA Renamed ==
  ASSUME NEW s \in Sections, Proper(s), s.kind \in ReadKinds, s.via # "cpu",
         NEW z, z = [s EXCEPT !.fn = "application"]
  PROVE  /\ z \in Sections /\ Proper(z)' /\ ~Asynchronous(z)
         /\ z.kind = s.kind /\ z.op = s.op /\ z.addr = s.addr /\ z.n = s.n /\ z.via = s.via
         /\ Length(z) = Length(s) /\ SectionItems(z)[Length(s)] = Await
         /\ Segs(z) = Segs(s) /\ N(z) = N(s)
<1>1. /\ z \in Sections
      /\ z.kind = s.kind /\ z.op = s.op /\ z.addr = s.addr /\ z.n = s.n /\ z.via = s.via /\ z.fn = "application"
  BY DEF Sections
<1>2. Proper(z)'
  BY <1>1 DEF Proper, ReadKinds
<1>3. Segs(z) = Segs(s)
  BY <1>1 DEF Segs, CommandLen
<1>4. N(z) = N(s)
  BY <1>1 DEF N
<1>5. ~Asynchronous(z)
  BY <1>1 DEF Asynchronous
<1>6. s.via \in {"early", "late"} /\ (s.kind = "readq" => s.via = "late") /\ s.kind \in {"read", "readq"}
  BY DEF Proper, ReadKinds
<1>7. Length(z) = Length(s) /\ SectionItems(z)[Length(s)] = Await
  <2>1. CASE s.kind = "read" /\ s.via = "early"
    <3>1. SectionItems(z) = ReadItems(z) /\ SectionItems(s) = ReadItems(s)
      BY <1>1, <2>1 DEF SectionItems, Writes
    <3> QED BY <1>1, <2>1, <3>1 DEF ReadItems, Length
  <2>2. CASE s.kind = "read" /\ s.via = "late"
    <3>1. SectionItems(z) = ReadItems(z) /\ SectionItems(s) = ReadItems(s)
      BY <1>1, <2>2 DEF SectionItems, Writes
    <3> QED BY <1>1, <2>2, <3>1 DEF ReadItems, Length
  <2>3. CASE s.kind = "readq" /\ s.via = "late"
    <3>1. SectionItems(z) = ReadqItems(z) /\ SectionItems(s) = ReadqItems(s)
      BY <1>1, <2>3 DEF SectionItems, Writes
    <3> QED BY <1>1, <2>3, <3>1 DEF ReadqItems, Length
  <2> QED BY <1>6, <2>1, <2>2, <2>3
<1> QED BY <1>1, <1>2, <1>3, <1>4, <1>5, <1>7

(* The counts of a section do not depend on where the data go. *)
LEMMA SameCounts ==
  ASSUME NEW s, NEW z, s.kind \in ReadKinds,
         z.kind = s.kind, z.op = s.op, z.addr = s.addr, z.n = s.n, z.via = s.via, Segs(z) = Segs(s), N(z) = N(s)
  PROVE  /\ \A i : Issued(z, i) = Issued(s, i) /\ Pushed(z, i) = Pushed(s, i) /\ Launches(z, i) = Launches(s, i)
         /\ \A p, j : Taken(z, p, j) = Taken(s, p, j) /\ Got(z, p, j) = Got(s, p, j)
         /\ \A k : WordOp(z, k) = WordOp(s, k) /\ WordAddr(z, k) = WordAddr(s, k)
<1>1. \A i : Issued(z, i) = Issued(s, i)
  BY DEF Issued
<1>2. \A i : Pushed(z, i) = Pushed(s, i)
  BY DEF Pushed
<1>3. \A i : Launches(z, i) = Launches(s, i)
  BY DEF Launches
<1>4. \A p, j : Taken(z, p, j) = Taken(s, p, j)
  BY DEF Taken
<1>5. \A p, j : Got(z, p, j) = Got(s, p, j)
  BY DEF Got
<1>6. \A k : WordOp(z, k) = WordOp(s, k) /\ WordAddr(z, k) = WordAddr(s, k)
  BY DEF WordOp, WordAddr, ReadKinds
<1> QED BY <1>1, <1>2, <1>3, <1>4, <1>5, <1>6

(* The wire does not depend on where the data go. *)
LEMMA SameWire ==
  ASSUME NEW s, NEW z, s.kind \in ReadKinds,
         z.kind = s.kind, z.op = s.op, z.addr = s.addr, z.n = s.n, z.via = s.via, Segs(z) = Segs(s), N(z) = N(s),
         NEW i, NEW p, NEW j, NEW t, Wire(s, Issued(s, i), Pushed(s, i), p, j, t)
  PROVE  Wire(z, Issued(z, i), Pushed(z, i), p, j, t)
<1>1. Issued(z, i) = Issued(s, i) /\ Pushed(z, i) = Pushed(s, i)
  BY SameCounts
<1>2. Taken(z, p, j) = Taken(s, p, j) /\ Got(z, p, j) = Got(s, p, j)
  BY SameCounts
<1>3. PICK Q, U : Q = Issued(s, i) /\ U = Pushed(s, i)
  OBVIOUS
<1>4. Place(s, Q, p, j) /\ CmdQueue(s, Q, p, j) /\ TxFifo(s, U, Taken(s, p, j)) /\ RxFifo(Got(s, p, j), t)
  BY <1>3 DEF Wire
<1>5. Place(z, Q, p, j)
  BY <1>4 DEF Place
<1>6. CmdQueue(z, Q, p, j)
  BY <1>4 DEF CmdQueue, IsSegment
<1>7. TxFifo(z, U, Taken(s, p, j))
  <2>2. \A w, k : IsWord(w, s, k) => IsWord(w, z, k)
    <3>1. \A k : WordOp(z, k) = WordOp(s, k) /\ WordAddr(z, k) = WordAddr(s, k)
      BY SameCounts
    <3>2. s.kind # "enable"
      BY DEF ReadKinds
    <3> QED BY <3>1, <3>2 DEF IsWord
  <2> QED BY <1>4, <2>2 DEF TxFifo
<1> QED BY <1>1, <1>2, <1>3, <1>4, <1>5, <1>6, <1>7 DEF Wire

(* What the application's wait for an asynchronous read begins with. *)
LEMMA AwaitReadFrame ==
  ASSUME FlashTypes, AwaitRead
  PROVE  /\ script = <<>> /\ call.fn = "async" /\ res = "OK" /\ call'.fn = "read" /\ call'.n = call.n
         /\ script' = Cat(DmaTail(call.n), Return("OK")) /\ call.n \in Nat
         /\ UNCHANGED <<chipVars, cmds, tx, rx, dma, critical, up, pre>>
<1>1. /\ call' = [call EXCEPT !.fn = "read"] /\ call.fn = "async" /\ script = <<>> /\ res = "OK"
      /\ script' = w25q128jw_wait_quad_dma_async(call.n) \o Return("OK")
      /\ UNCHANGED <<chipVars, hostVars, dmaVars, up, pre>>
  BY DEF AwaitRead, Awaited, Idle
<1>2. call = Request(call.fn, call.how, call.addr, call.n, call.data, call.align) /\ call.n \in Nat
  BY DEF FlashTypes, DriverTypes, CallShape
<1>3. call'.fn = "read" /\ call'.n = call.n
  BY <1>1, <1>2 DEF Request
<1> QED BY <1>1, <1>2, <1>3 DEF w25q128jw_wait_quad_dma_async, Cat, hostVars, dmaVars

(* The wait for an asynchronous read keeps Sane. *)
LEMMA AwaitReadSane ==
  ASSUME FlashTypes, Sane, AwaitRead
  PROVE  Sane'
<1>1. /\ script = <<>> /\ call.fn = "async" /\ call'.fn = "read" /\ pre' = pre
      /\ UNCHANGED <<mem, sr2, wel, asleep, rstEn, job, frame, refused, cmds, critical, up>>
  BY AwaitReadFrame DEF chipVars
<1>2. ~(Len(cmds) > CmdDepth)
  BY <1>1, IdleQueue
<1>3. NeighboursKept'
  <2>1. Settled' = Settled
    BY <1>1 DEF Settled
  <2>2. Scope(call) = {} /\ Scope(call') = {}
    BY <1>1 DEF Scope
  <2>3. \A a \in Cells : Settled[a] = pre[a]
    BY <2>2 DEF Sane, NeighboursKept
  <2> QED BY <1>1, <2>1, <2>3 DEF NeighboursKept
<1>4. CommandsAccepted'
  BY <1>1 DEF Sane, CommandsAccepted
<1> QED BY <1>1, <1>2, <1>3, <1>4 DEF Sane

(* The wait for an asynchronous read keeps the invariant. *)
LEMMA AwaitReadFlow ==
  ASSUME FlashTypes, FlashInv, AwaitRead
  PROVE  FlashInv'
<1>1. /\ script = <<>> /\ call.fn = "async" /\ res = "OK" /\ call'.fn = "read" /\ call'.n = call.n
      /\ script' = Cat(DmaTail(call.n), Return("OK")) /\ call.n \in Nat
      /\ UNCHANGED <<chipVars, cmds, tx, rx, dma, critical, up, pre>>
  BY AwaitReadFrame
<1>2. Flow /\ Sane
  BY DEF FlashInv
<1>3. Sane'
  BY <1>2, AwaitReadSane
<1>4. ASSUME NEW s \in Sections, NEW p \in 0..5, NEW j \in Nat, Proper(s), Stage(s, p, j), Async(s, p, j)
      PROVE  Flow'
  <2>1. /\ s.kind \in ReadKinds /\ s.via # "cpu" /\ s.n = call.n /\ up
        /\ \E i \in 0..Length(s)-1, t \in Nat : AsyncAt(s, p, j, i, t)
    BY <1>4, AsyncIs
  <2>2. PICK i \in 0..Length(s)-1, t \in Nat : AsyncAt(s, p, j, i, t)
    BY <2>1
  <2>3. Length(s) \in 5..17 /\ Len(script) = 0
    BY <1>1, LengthType
  <2>4. /\ i = Length(s) - 1 /\ Wire(s, Issued(s, i), Pushed(s, i), p, j, t) /\ DmaReads(s, i, t)
        /\ (t > 0 => Launches(s, i) = 1)
    <3>1. Len(script) # Length(s) - i
      BY <2>3
    <3> QED BY <2>2, <3>1 DEF AsyncAt
  <2>5. PICK z : z = [s EXCEPT !.fn = "application"]
    OBVIOUS
  <2>6. /\ z \in Sections /\ Proper(z)' /\ ~Asynchronous(z)
        /\ z.kind = s.kind /\ z.op = s.op /\ z.addr = s.addr /\ z.n = s.n /\ z.via = s.via
        /\ Length(z) = Length(s) /\ SectionItems(z)[Length(s)] = Await
        /\ Segs(z) = Segs(s) /\ N(z) = N(s)
    BY <1>4, <2>1, <2>5, Renamed
  <2>7. Wire(z, Issued(z, i), Pushed(z, i), p, j, t)
    BY <2>1, <2>4, <2>6, SameWire
  <2>8. Wire(z, Issued(z, i), Pushed(z, i), p, j, t)'
    BY <1>1, <2>7, WireStays
  <2>9. Launches(z, i) = Launches(s, i)
    BY <2>1, <2>6, SameCounts
  <2>10. DmaReads(z, i, t)'
    BY <1>1, <2>4, <2>6, <2>9 DEF DmaReads
  <2>11. s.n % W = 0
    BY <1>4, <2>1 DEF Proper
  <2>12. PICK a : a = DmaTail(call.n)
    OBVIOUS
  <2>13. Sized(a, call', 1) /\ a[1] = Await
    BY <1>1, <2>1, <2>11, <2>12, AwaitItems
  <2>14. PICK b : b = Return("OK")
    OBVIOUS
  <2>15. Sized(b, call', 1) /\ b[1] = [k |-> "ret", status |-> "OK"]
    <3>1. b \in Seq(Items(call'))
      BY <2>14, ReturnType
    <3> QED BY <2>14, <3>1 DEF Return, Sized
  <2>16. Len(script') = 2 /\ script'[1] = Await /\ script'[2] = [k |-> "ret", status |-> "OK"]
    <3>1. script' = Cat(a, b)
      BY <1>1, <2>12, <2>14
    <3>2. /\ Sized(script', call', 1 + 1)
          /\ \A k \in 1..1 : script'[k] = a[k]
          /\ \A k \in 1..1 : script'[1 + k] = b[k]
      BY <2>13, <2>15, <3>1, Joined
    <3>3. script'[1] = a[1] /\ script'[1 + 1] = b[1]
      BY <3>2
    <3> QED BY <2>13, <2>15, <3>2, <3>3 DEF Sized
  <2>17. LegitFrom(1+1)'
    <3>1. PICK x : x = [k |-> "ret", status |-> "OK"]
      OBVIOUS
    <3>2. x.k = "ret"
      BY <3>1
    <3>3. Legit(x)'
      BY <3>2 DEF Legit
    <3>4. ASSUME NEW k \in (1+1)..Len(script') PROVE Legit(script[k])'
      <4>1. k = 2
        BY <2>16
      <4>2. script'[k] = x
        BY <2>16, <3>1, <4>1
      <4> QED BY <3>3, <4>2 DEF Legit
    <3> QED BY <3>4 DEF LegitFrom
  <2>18. Continues(z, p, 1)'
    <3>1. up' /\ z.kind \in ReadKinds /\ z.via # "cpu"
      BY <1>1, <2>1, <2>6
    <3> QED BY <2>17, <3>1 DEF Continues
  <2>19. PICK l \in Nat : l = Len(SectionItems(z))
    BY <2>3, <2>6 DEF Length
  <2>20. l \in 5..17 /\ i = l - 1 /\ i \in 0..16 /\ i < l /\ l - i = 1 /\ SectionItems(z)[l] = Await
    <3>1. l = Length(s)
      BY <2>6, <2>19 DEF Length
    <3> QED BY <2>3, <2>4, <2>6, <3>1
  <2>21. Ahead(z, i, 0)'
    <3>1. Len(script') >= 0 + l - i
      BY <2>16, <2>20
    <3>2. ASSUME NEW k \in 1..l-i PROVE script'[0+k] = SectionItems(z)[i+k]
      <4>1. k = 1 /\ 0 + k = 1 /\ i + k = l
        BY <2>20
      <4> QED BY <2>16, <2>20, <4>1
    <3> QED BY <2>19, <3>1, <3>2 DEF Ahead
  <2>22. OnTrack(z, i, p, j)'
    <3>1. i < Len(SectionItems(z)) /\ Continues(z, p, Len(SectionItems(z)) - i)'
      BY <2>18, <2>19, <2>20
    <3>2. call'.fn # "async" /\ z.kind \in ReadKinds /\ ~Asynchronous(z)
      BY <1>1, <2>1, <2>6
    <3>3. /\ Wire(z, Issued(z, i), Pushed(z, i), p, j, t)' /\ DmaReads(z, i, t)'
          /\ (t > 0 => Launches(z, i) = 1)
      BY <2>4, <2>8, <2>9, <2>10
    <3> QED BY <2>21, <3>1, <3>2, <3>3 DEF OnTrack
  <2>23. Stage(z, p, j)'
    <3>1. ReadStage(s, p) /\ s.kind \notin Pairs /\ s.kind \notin Writes
      BY <1>4, <2>1 DEF Stage, Pairs, Writes, ReadKinds
    <3>2. UNCHANGED <<frame, asleep, job>>
      BY <1>1 DEF chipVars
    <3>3. ReadStage(z, p)'
      BY <2>6, <3>1, <3>2 DEF ReadStage, FrameOf
    <3> QED BY <1>1, <2>1, <2>6, <3>1, <3>3 DEF Stage
  <2> QED BY <2>6, <2>20, <2>22, <2>23 DEF Flow
<1>5. ~Resting /\ ~Closing
  BY <1>1 DEF Resting, Closing, Awaited
<1>6. ASSUME NEW s \in Sections, NEW p \in 0..5, NEW j \in Nat, Proper(s), Stage(s, p, j), Tracked(s, p, j)
      PROVE  Async(s, p, j)
  <2>1. ASSUME NEW i \in 0..16, OnTrack(s, i, p, j) PROVE FALSE
    BY <1>1, <1>6, <2>1, TrackHead
  <2>2. ASSUME NEW y \in Nat, InData(s, y, p, j) PROVE FALSE
    BY <1>1, <2>2, IdleData
  <2>3. ~Draining(s, p, j)
    BY <1>1, IdleDrain
  <2>4. ~Down(s, p, j)
    BY <1>1 DEF Down
  <2> QED BY <1>6, <2>1, <2>2, <2>3, <2>4 DEF Tracked
<1>7. Flow'
  BY <1>2, <1>4, <1>5, <1>6, FlowCases
<1> QED BY <1>3, <1>7 DEF FlashInv

(***************************************************************************)
(* The invariant.                                                          *)
(***************************************************************************)
LEMMA InitInv ==
  ASSUME Init
  PROVE  FlashInv
<1>1. /\ cmds = <<>> /\ tx = <<>> /\ rx = <<>> /\ frame = NoFrame /\ dma = NoDma /\ script = <<>>
      /\ ~up /\ job = NoJob /\ refused = {} /\ critical = {} /\ res = "reset" /\ pre = mem
  BY DEF Init
<1>2. Resting
  BY <1>1 DEF Resting, Quiet, Awaited
<1>3. Sane
  <2>1. CmdDepth \in Nat /\ Len(cmds) = 0
    BY <1>1, Geometry
  <2>2. job.op = "none"
    BY <1>1 DEF NoJob
  <2>3. NeighboursKept
    <3>1. Settled = mem
      BY <2>2 DEF Settled, Effect, Programs, Erases
    <3> QED BY <1>1, <3>1 DEF NeighboursKept
  <2>4. CommandsAccepted
    BY <1>1 DEF CommandsAccepted
  <2> QED BY <1>1, <2>1, <2>2, <2>3, <2>4 DEF Sane
<1> QED BY <1>2, <1>3 DEF FlashInv, Flow

(* A step that changes nothing stays in its section. *)
LEMMA StutterTracked ==
  ASSUME UNCHANGED vars, NEW s \in Sections, NEW p \in 0..5, NEW j \in Nat, Tracked(s, p, j)
  PROVE  Tracked(s, p, j)'
<1>1. UNCHANGED <<cmds, tx, rx, rxwm, dma, script, call, res, up, job>>
  BY DEF vars, chipVars, hostVars, dmaVars, drvVars
<1>2. \A Q, U, t : Wire(s, Q, U, p, j, t) => Wire(s, Q, U, p, j, t)'
  BY <1>1, WireStays
<1>3. \A i, d : Ahead(s, i, d) => Ahead(s, i, d)'
  BY <1>1, AheadHere
<1>4. \A d : Continues(s, p, d) => Continues(s, p, d)'
  BY <1>1, ContinuesHere
<1>5. \A i, t : DmaReads(s, i, t) => DmaReads(s, i, t)'
  BY <1>1 DEF DmaReads
<1>6. \A d : LegitFrom(d) => LegitFrom(d)'
  BY <1>1, LegitFromStays
<1>7. ASSUME NEW i \in 0..16, OnTrack(s, i, p, j) PROVE OnTrack(s, i, p, j)'
  BY <1>1, <1>2, <1>3, <1>4, <1>5, <1>7 DEF OnTrack
<1>8. ASSUME NEW y \in Nat, InData(s, y, p, j) PROVE InData(s, y, p, j)'
  BY <1>1, <1>2, <1>3, <1>4, <1>8 DEF InData
<1>9. Draining(s, p, j) => Draining(s, p, j)'
  BY <1>1, <1>2, <1>6 DEF Draining
<1>10. Async(s, p, j) => Async(s, p, j)'
  BY <1>1, <1>2, <1>5 DEF Async
<1>11. Down(s, p, j) => Down(s, p, j)'
  BY <1>1, <1>2 DEF Down
<1> QED BY <1>7, <1>8, <1>9, <1>10, <1>11 DEF Tracked

(* A step that changes nothing keeps the invariant. *)
LEMMA StutterFlow ==
  ASSUME UNCHANGED vars, FlashInv
  PROVE  FlashInv'
<1>1. /\ UNCHANGED <<mem, sr2, wel, asleep, rstEn, job, frame, refused>>
      /\ UNCHANGED <<cmds, tx, rx, rxwm, dma, critical, script, call, buf, reg, res, up, pre>>
  BY DEF vars, chipVars, hostVars, dmaVars, drvVars
<1>2. Sane'
  <2>1. NeighboursKept'
    <3>1. Settled' = Settled
      BY <1>1 DEF Settled
    <3> QED BY <1>1, <3>1 DEF FlashInv, Sane, NeighboursKept
  <2>2. CommandsAccepted'
    BY <1>1 DEF FlashInv, Sane, CommandsAccepted
  <2> QED BY <1>1, <2>1, <2>2 DEF FlashInv, Sane
<1>3. CASE Resting
  <2>1. LegitFrom(1) => LegitFrom(1)'
    BY <1>1, LegitFromStays
  <2>2. Resting'
    BY <1>1, <1>3, <2>1 DEF Resting, Quiet, Awaited
  <2> QED BY <1>2, <2>2 DEF FlashInv, Flow
<1>4. CASE Closing
  <2>1. Closing'
    BY <1>1, <1>4 DEF Closing, Quiet
  <2> QED BY <1>2, <2>1 DEF FlashInv, Flow
<1>5. ASSUME NEW s \in Sections, NEW p \in 0..5, NEW j \in Nat, Proper(s), Stage(s, p, j), Tracked(s, p, j)
      PROVE  Flow'
  <2>1. Tracked(s, p, j)'
    BY <1>5, StutterTracked
  <2>2. Stage(s, p, j)'
    BY <1>1, <1>5, StageStays DEF chipVars
  <2> QED BY <1>1, <1>5, <2>1, <2>2, Lands
<1> QED BY <1>2, <1>3, <1>4, <1>5, FlowCases DEF FlashInv

(* Every step keeps the invariant. *)
LEMMA NextInv ==
  ASSUME FlashTypes, FlashInv, [Next]_vars, \A r \in Requests : WholeTransfer(r)
  PROVE  FlashInv'
<1>1. CallInit => FlashInv'
  BY InitFlow
<1>2. AwaitRead => FlashInv'
  BY AwaitReadFlow
<1>3. (\E r \in Requests : Call(r)) => FlashInv'
  BY CallFlow
<1>4. Proceed => FlashInv'
  BY ProceedFlow
<1>5. Shift \/ ChipDone => FlashInv'
  BY DeviceFlow DEF Device
<1>6. DmaMove => FlashInv'
  BY DmaMoveFlow
<1>7. SocReset => FlashInv'
  BY SocResetFlow
<1>8. UNCHANGED vars => FlashInv'
  BY StutterFlow
<1> QED BY <1>1, <1>2, <1>3, <1>4, <1>5, <1>6, <1>7, <1>8 DEF Next

(* Where the DMA moves whole words of aligned memory (WholeTransfer;       *)
(* ShortRequests of MCFlash shows what happens otherwise): in every        *)
(* reachable state, whatever the two sides of the SPI host have done so    *)
(* far, the driver is between calls with nothing on its way, or in one     *)
(* section of a call with host, FIFOs, DMA and chip where that section     *)
(* has them.                                                               *)
THEOREM FlashInvariant ==
  ASSUME \A r \in Requests : WholeTransfer(r)
  PROVE  Spec => []FlashInv
<1>1. Init => FlashInv
  BY InitInv
<1>2. FlashTypes /\ FlashInv /\ [Next]_vars => FlashInv'
  BY NextInv
<1>3. Spec => []FlashTypes
  BY FlashTyped
<1> QED BY <1>1, <1>2, <1>3, PTL DEF Spec

(* Where the DMA moves whole words of aligned memory (WholeTransfer): at   *)
(* no moment, when a call fails halfway or the system is reset in the      *)
(* middle of it, has it changed a byte outside those it writes or the      *)
(* sectors it erases.                                                      *)
THEOREM FlashNeighboursKept ==
  ASSUME \A r \in Requests : WholeTransfer(r)
  PROVE  Spec => []NeighboursKept
<1>1. FlashInv => NeighboursKept
  BY DEF FlashInv, Sane
<1> QED BY <1>1, FlashInvariant, PTL

(* Where the DMA moves whole words of aligned memory (WholeTransfer): the  *)
(* chip ignores no read, program, erase or reset, and none is cut short.   *)
(* The driver sends each to a chip that is awake, has finished the         *)
(* operation before it and has its write enable latch and its quad enable  *)
(* bit set where that is needed.                                           *)
THEOREM FlashCommandsAccepted ==
  ASSUME \A r \in Requests : WholeTransfer(r)
  PROVE  Spec => []CommandsAccepted
<1>1. FlashInv => CommandsAccepted
  BY DEF FlashInv, Sane
<1> QED BY <1>1, FlashInvariant, PTL

(* Where the DMA moves whole words of aligned memory (WholeTransfer):      *)
(* between calls, once the SPI host has worked its commands off, both      *)
(* FIFOs are empty, so that nothing is left over to be taken for the next  *)
(* call's.                                                                 *)
THEOREM FlashNothingLeftOver ==
  ASSUME \A r \in Requests : WholeTransfer(r)
  PROVE  Spec => []NothingLeftOver
<1>1. FlashTypes /\ FlashInv => NothingLeftOver
  BY IdleEmpty DEF FlashInv
<1> QED BY <1>1, FlashInvariant, FlashTyped, PTL
=============================================================================
