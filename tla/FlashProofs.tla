----------------------------- MODULE FlashProofs -----------------------------
(***************************************************************************)
(* Proofs about Flash for every geometry of the chip, depth of the FIFOs   *)
(* and of the command queue, set of requests and contents of the memory.   *)
(*                                                                         *)
(* First the types, of every step and hence of every state. Then the       *)
(* sections of FlashInv: their accesses, the counts of words and           *)
(* segments, and how the wire, which is what host and FIFOs hold of a      *)
(* section, moves on with the chip when the host shifts a word.            *)
(***************************************************************************)
EXTENDS FlashInv, TLAPS, SequenceTheorems

(***************************************************************************)
(* Types.                                                                  *)
(***************************************************************************)
Opcodes == {"WE", "RSR1", "RSR2", "WSR2", "ERESET", "RESET", "RPD", "PD", "ADDR"}
           \cup Reads \cup Programs \cup Erases
Statuses == {"none", "OK", "ERROR", "void", "reset"}
RxWords  == [1..W -> Bytes]
TxWords  == [op : Opcodes, addr : Cells, bytes : {<<>>}]
            \cup [op : {"data"}, addr : {0}, bytes : RxWords]
Segments == [dir : {"TX", "RX", "DUMMY"}, len : 1..Size, csaat : BOOLEAN]

DmaReaders == {"read_standard_dma", "read_quad_dma", "read_standard_dma_async",
               "read_quad_dma_async", "application"}

(* The bytes that a call may write from. *)
SourceLen(c) == IF c.fn = "erase_and_write" THEN Sector ELSE Len(c.data)

CallShape(c) ==
  /\ c = Request(c.fn, c.how, c.addr, c.n, c.data, c.align)
  /\ c.addr \in Nat /\ c.n \in Nat /\ c.data \in Seq(Bytes) /\ c.align \in Nat
  /\ c.fn \in ReadFunctions => c.n <= Sector
  /\ c.fn \in {"write", "erase_and_write"} => Len(c.data) = c.n

Marks == {"ready", "rxwait", "poll", "rxreg", "txreg", "dmawait", "retqe", "flash_wait", "reset"}
Items(c) ==
  [k : {"tx"}, op : Opcodes, addr : Cells]
  \cup [k : {"cmd"}, dir : {"TX", "RX", "DUMMY"}, len : 1..Size, csaat : BOOLEAN]
  \cup [k : Marks \cup {"rxwm", "drain"}, off : Nat, n : Nat]
  \cup [k : {"rx"}, off : Nat, n : Nat \ {0}]
  \cup {i \in [k : {"txdata", "dmatx"}, off : Nat, n : 1..Page] :
          i.off + i.n <= SourceLen(c)}
  \cup [k : {"dmarx"}, fn : DmaReaders, n : 0..Sector]
  \cup {i \in [k : {"page_write"}, addr : Nat, off : Nat, n : 1..Page, quad : BOOLEAN,
               viaDma : BOOLEAN] :
          i.addr + i.n <= Size /\ i.off + i.n <= SourceLen(c)}
  \cup [k : {"erase"}, op : Erases, addr : Cells]
  \cup {i \in [k : {"read"}, fn : ReadFunctions, how : Hows("read") \ {"best"}, addr : Cells,
               n : 1..Sector] :
          i.fn # "read" => i.how \in {"standard", "quad"}}
  \cup {i \in [k : {"pages"}, addr : Nat, off : Nat, n : Nat \ {0}, quad : BOOLEAN,
               viaDma : BOOLEAN] :
          i.addr + i.n <= Size /\ i.off + i.n <= SourceLen(c)}
  \cup {i \in [k : {"sectors"}, how : Hows("read"), addr : Nat, off : Nat, n : Nat] :
          c.fn = "erase_and_write" /\ i.off + i.n = c.n}
  \cup {i \in [k : {"memcpy"}, to : Nat, off : Nat, n : Nat] :
          i.to + i.n <= Sector /\ i.off + i.n <= Len(c.data)}
  \cup [k : {"ret"}, status : {"OK", "ERROR", "void"}]

ChipTypes ==
  /\ mem \in [Cells -> Bytes] /\ sr2 \in Bytes
  /\ wel \in BOOLEAN /\ asleep \in BOOLEAN /\ rstEn \in BOOLEAN
  /\ job \in [op : Opcodes \cup {"none"}, addr : Cells, data : Seq(Bytes)]
  /\ job.op \in Programs \cup {"WSR2"} => job.data # <<>>
  /\ frame \in [op : Opcodes \cup {"none", "data"}, ok : BOOLEAN, addr : Cells,
                data : Seq(Bytes), sent : Nat]
HostTypes ==
  /\ cmds \in Seq(Segments) /\ Len(cmds) <= CmdDepth + 1
  /\ tx \in Seq(TxWords) /\ Len(tx) <= TxDepth
  /\ rx \in Seq(RxWords) /\ Len(rx) <= RxDepth
  /\ rxwm \in Nat
DmaTypes ==
  /\ dma \in [dir : {"none", "tx", "rx"}, off : Nat, left : 0..Sector]
  /\ dma.dir # "none" => dma.left > 0
  /\ dma.dir = "none" => dma = NoDma
  /\ dma.dir = "tx" =>
       /\ script # <<>> /\ Head(script).k = "dmawait"
       /\ dma.off + dma.left * W <= SourceLen(call)
DriverTypes ==
  /\ CallShape(call) /\ script \in Seq(Items(call))
  /\ buf \in [0..Sector-1 -> Bytes] /\ reg \in Bytes /\ res \in Statuses
  /\ up \in BOOLEAN /\ pre \in [Cells -> Bytes] /\ events \in Nat
FlashTypes == ChipTypes /\ HostTypes /\ DmaTypes /\ DriverTypes

(***************************************************************************)
(* The geometry.                                                           *)
(***************************************************************************)
LEMMA Multiple ==
  ASSUME NEW a \in Nat \ {0}, NEW b \in Nat \ {0}, a % b = 0
  PROVE  b <= a
<1>1. CASE a < b
  <2>1. a % b = a
    BY <1>1, SMT
  <2> QED BY <2>1
<1> QED BY <1>1

LEMMA Geometry ==
  /\ W \in Nat /\ Page \in Nat /\ Sector \in Nat /\ Block32 \in Nat /\ Block64 \in Nat
  /\ Size \in Nat /\ 0 < W /\ W <= Page /\ Page <= Sector /\ Sector <= Block32
  /\ Block32 <= Block64 /\ Block64 <= Size
  /\ TxDepth \in Nat /\ RxDepth \in Nat /\ CmdDepth \in Nat
  /\ 0 < TxDepth /\ 0 < RxDepth /\ 0 < CmdDepth
<1>1. {W, Page, Sector, Block32, Block64, Size} \subseteq Nat \ {0}
  BY GeometryAssumption
<1>2. W <= Page /\ Page <= Sector /\ Sector <= Block32 /\ Block32 <= Block64 /\ Block64 <= Size
  BY <1>1, GeometryAssumption, Multiple
<1>3. {TxDepth, RxDepth, CmdDepth} \subseteq Nat \ {0}
  BY DepthAssumption
<1> QED BY <1>1, <1>2, <1>3

LEMMA SeqMono ==
  ASSUME NEW S, NEW R, S \subseteq R, NEW s \in Seq(S)
  PROVE  s \in Seq(R)
<1>1. s = [j \in 1 .. Len(s) |-> s[j]] /\ Len(s) \in Nat
  OBVIOUS
<1>2. \A j \in 1 .. Len(s) : s[j] \in R
  OBVIOUS
<1> QED BY <1>1, <1>2, SeqDef

LEMMA Lesser_ ==
  ASSUME NEW a \in Nat, NEW b \in Nat
  PROVE  /\ Lesser(a, b) \in Nat /\ Lesser(a, b) <= a /\ Lesser(a, b) <= b
         /\ Lesser(a, b) \in {a, b}
  BY DEF Lesser

(* Division by the constants of the geometry. *)
LEMMA Divide ==
  ASSUME NEW a \in Nat, NEW b \in Nat \ {0}
  PROVE  /\ a \div b \in Nat /\ a % b \in Nat /\ a % b < b /\ a = b * (a \div b) + (a % b)
         /\ a % b <= a /\ a \div b <= a
<1>1. a \div b \in Nat /\ a % b \in 0 .. b - 1 /\ a = b * (a \div b) + (a % b)
  BY SMT
<1>2. b * (a \div b) >= a \div b
  BY <1>1, SMT
<1> QED BY <1>1, <1>2

(***************************************************************************)
(* The scripts consist of accesses within the chip, the sector and the     *)
(* caller's data.                                                          *)
(***************************************************************************)
LEMMA JoinType ==
  ASSUME NEW S, NEW s \in Seq(S), NEW t \in Seq(S)
  PROVE  s \o t \in Seq(S)
  OBVIOUS

LEMMA Assoc ==
  ASSUME NEW S, NEW s \in Seq(S), NEW t \in Seq(S), NEW u \in Seq(S)
  PROVE  (s \o t) \o u = s \o (t \o u)
  OBVIOUS

LEMMA StepType ==
  ASSUME NEW c, NEW k \in Marks \cup {"rxwm", "drain"}, NEW off \in Nat, NEW n \in Nat
  PROVE  Step(k, off, n) \in Items(c)
  BY DEF Step, Items

LEMMA SegmentType ==
  ASSUME NEW c, NEW dir \in {"TX", "RX", "DUMMY"}, NEW n \in 1..Size, NEW cs \in BOOLEAN
  PROVE  Segment(dir, n, cs) \in Seq(Items(c))
<1>1. [k |-> "cmd", dir |-> dir, len |-> n, csaat |-> cs] \in Items(c)
  BY DEF Items
<1>2. Step("ready", 0, 0) \in Items(c)
  BY StepType DEF Marks
<1>3. n # 0
  BY Geometry
<1> QED BY <1>1, <1>2, <1>3 DEF Segment

LEMMA SendType ==
  ASSUME NEW c, NEW op \in Opcodes, NEW addr \in Cells, NEW n \in 1..Size, NEW cs \in BOOLEAN
  PROVE  Send(op, addr, n, cs) \in Seq(Items(c))
<1>1. Command(op, addr) \in Items(c)
  BY DEF Command, Items
<1>2. << Command(op, addr) >> \in Seq(Items(c))
  BY <1>1
<1>3. Segment("TX", n, cs) \in Seq(Items(c))
  BY SegmentType
<1> QED BY <1>2, <1>3, JoinType DEF Send

LEMMA WordsType ==
  ASSUME NEW c, NEW k \in {"txdata", "rx"}, NEW off \in Nat, NEW n \in Nat,
         k = "txdata" => n <= Page /\ off + n <= SourceLen(c)
  PROVE  Words(k, off, n) \in Seq(Items(c))
<1>1. CASE n = 0
  BY <1>1 DEF Words
<1>2. CASE n # 0
  <2>1. Step(k, off, n) \in Items(c)
    BY <1>2 DEF Step, Items
  <2> QED BY <1>2, <2>1 DEF Words
<1> QED BY <1>1, <1>2

(* The small numbers the scripts are made of. *)
LEMMA Small == 0 \in Cells /\ 1 \in 1..Size /\ W \in 1..Size /\ Sector \in 1..Size
  BY Geometry DEF Cells

LEMMA LocalTypes ==
  ASSUME NEW c
  PROVE  /\ flash_write_enable \in Seq(Items(c))
         /\ Poll \in Seq(Items(c))
         /\ flash_wait \in Seq(Items(c))
         /\ flash_reset \in Seq(Items(c))
         /\ flash_power_up \in Seq(Items(c))
         /\ ReadReg2 \in Seq(Items(c))
         /\ set_QE_bit \in Seq(Items(c))
<1> USE Small
<1>0. /\ Step("rxwait", 0, 0) \in Items(c) /\ Step("poll", 0, 0) \in Items(c)
      /\ Step("rxreg", 0, 0) \in Items(c) /\ Step("rxwm", 0, 1) \in Items(c)
      /\ Step("txreg", 0, 0) \in Items(c) /\ Step("ready", 0, 0) \in Items(c)
  BY StepType DEF Marks
<1>1. \A op \in {"WE", "RSR1", "RSR2", "WSR2", "RPD"}, cs \in BOOLEAN :
        Send(op, 0, 1, cs) \in Seq(Items(c))
  BY SendType DEF Opcodes
<1>2. \A d \in {"TX", "RX"} : Segment(d, 1, FALSE) \in Seq(Items(c))
  BY SegmentType
<1>3. << Step("rxwait", 0, 0), Step("poll", 0, 0) >> \in Seq(Items(c))
  BY <1>0
<1>4. Poll \in Seq(Items(c))
  BY <1>1, <1>2, <1>3, JoinType DEF Poll
<1>5. << Step("rxwm", 0, 1) >> \in Seq(Items(c))
  BY <1>0
<1>6. flash_wait \in Seq(Items(c))
  BY <1>4, <1>5, JoinType DEF flash_wait
<1>7. << Step("rxwait", 0, 0), Step("rxreg", 0, 0) >> \in Seq(Items(c))
  BY <1>0
<1>8. ReadReg2 \in Seq(Items(c))
  BY <1>1, <1>2, <1>7, JoinType DEF ReadReg2
<1>9. flash_write_enable \in Seq(Items(c)) /\ flash_power_up \in Seq(Items(c))
  BY <1>1 DEF flash_write_enable, flash_power_up
<1>10. << Step("txreg", 0, 0) >> \in Seq(Items(c))
  BY <1>0
<1>11. set_QE_bit \in Seq(Items(c))
  BY <1>1, <1>2, <1>5, <1>6, <1>8, <1>9, <1>10, JoinType DEF set_QE_bit
<1>12. Command("ERESET", 0) \in Items(c) /\ Command("RESET", 0) \in Items(c)
  BY DEF Command, Items, Opcodes
<1>13. << Command("ERESET", 0), Command("RESET", 0), Step("ready", 0, 0) >> \in Seq(Items(c))
  BY <1>0, <1>12
<1>14. flash_reset \in Seq(Items(c))
  BY <1>2, <1>13, JoinType DEF flash_reset
<1> QED BY <1>4, <1>6, <1>8, <1>9, <1>11, <1>14

LEMMA ReturnType ==
  ASSUME NEW c, NEW status \in {"OK", "ERROR", "void"}
  PROVE  Return(status) \in Seq(Items(c))
<1>1. [k |-> "ret", status |-> status] \in Items(c)
  BY DEF Items
<1> QED BY <1>1 DEF Return

LEMMA PageWriteType ==
  ASSUME NEW c, NEW addr \in Nat, NEW off \in Nat, NEW n \in Nat \ {0},
         NEW quad \in BOOLEAN, NEW viaDma \in BOOLEAN,
         n <= Page, addr + n <= Size, off + n <= SourceLen(c)
  PROVE  page_write(addr, off, n, quad, viaDma) \in Seq(Items(c))
<1> USE Small
<1>1. addr \in Cells /\ n \in 1..Size
  BY Geometry DEF Cells
<1>2. Send(IF quad THEN "PPQ" ELSE "PP", addr, W, TRUE) \in Seq(Items(c))
  BY <1>1, SendType DEF Opcodes, Programs
<1>3. (IF viaDma THEN << Step("dmatx", off, n) >> ELSE Words("txdata", off, n)) \in Seq(Items(c))
  <2>1. Step("dmatx", off, n) \in Items(c)
    BY Geometry DEF Step, Items
  <2>2. Words("txdata", off, n) \in Seq(Items(c))
    BY WordsType
  <2> QED BY <2>1, <2>2
<1>4. Segment("TX", n, FALSE) \in Seq(Items(c))
  BY <1>1, SegmentType
<1> QED BY <1>2, <1>3, <1>4, LocalTypes, JoinType DEF page_write

LEMMA PageItemType ==
  ASSUME NEW c, NEW addr \in Nat, NEW off \in Nat, NEW n \in Nat \ {0},
         NEW quad \in BOOLEAN, NEW viaDma \in BOOLEAN,
         n <= Page, addr + n <= Size, off + n <= SourceLen(c)
  PROVE  PageWrite(addr, off, n, quad, viaDma) \in Seq(Items(c))
<1>1. [k |-> "page_write", addr |-> addr, off |-> off, n |-> n, quad |-> quad,
       viaDma |-> viaDma] \in Items(c)
  BY Geometry DEF Items
<1> QED BY <1>1 DEF PageWrite

LEMMA PageLoopType ==
  ASSUME NEW c, NEW addr \in Nat, NEW off \in Nat, NEW n \in Nat \ {0},
         NEW quad \in BOOLEAN, NEW viaDma \in BOOLEAN,
         addr + n <= Size, off + n <= SourceLen(c)
  PROVE  PageLoop(addr, off, n, quad, viaDma) \in Seq(Items(c))
<1>1. [k |-> "pages", addr |-> addr, off |-> off, n |-> n, quad |-> quad,
       viaDma |-> viaDma] \in Items(c)
  BY DEF Items
<1> QED BY <1>1 DEF PageLoop

LEMMA WrapperType ==
  ASSUME NEW c, NEW addr \in Nat, NEW n \in Nat \ {0}, NEW quad \in BOOLEAN,
         NEW viaDma \in BOOLEAN, addr + n <= Size, n <= SourceLen(c), SourceLen(c) \in Nat
  PROVE  page_write_wrapper(addr, n, quad, viaDma) \in Seq(Items(c))
<1> DEFINE head == IF addr % Page = 0 THEN 0 ELSE Lesser(Page - (addr % Page), n)
<1>1. addr % Page \in Nat /\ addr % Page < Page /\ Page \in Nat
  BY Divide, Geometry
<1>2. head \in Nat /\ head <= n /\ head <= Page
  <2>1. Page - (addr % Page) \in Nat /\ Page - (addr % Page) <= Page
    BY <1>1
  <2>2. CASE addr % Page = 0
    BY <1>1, <2>2
  <2>3. CASE addr % Page # 0
    <3> DEFINE a == Page - (addr % Page)
    <3>1. Lesser(a, n) \in Nat /\ Lesser(a, n) <= a /\ Lesser(a, n) <= n
      BY <2>1, Lesser_
    <3>2. head = Lesser(a, n)
      BY <2>3
    <3> QED BY <1>1, <2>1, <3>1, <3>2
  <2> QED BY <2>2, <2>3
<1>3. head # 0 => PageWrite(addr, 0, head, quad, viaDma) \in Seq(Items(c))
  <2> SUFFICES ASSUME head # 0 PROVE PageWrite(addr, 0, head, quad, viaDma) \in Seq(Items(c))
    OBVIOUS
  <2>1. head \in Nat \ {0} /\ head <= Page /\ addr + head <= Size /\ 0 + head <= SourceLen(c)
    BY <1>2, Geometry
  <2> HIDE DEF head
  <2> QED BY <2>1, PageItemType
<1>4. n # head => PageLoop(addr + head, head, n - head, quad, viaDma) \in Seq(Items(c))
  <2> SUFFICES ASSUME n # head
               PROVE  PageLoop(addr + head, head, n - head, quad, viaDma) \in Seq(Items(c))
    OBVIOUS
  <2> HIDE DEF head
  <2>1. n - head \in Nat \ {0} /\ addr + head \in Nat /\ (addr + head) + (n - head) <= Size
        /\ head + (n - head) <= SourceLen(c) /\ head \in Nat
    BY <1>2, Geometry
  <2> QED BY <2>1, PageLoopType
<1> HIDE DEF head
<1>5. (IF head > 0 THEN PageWrite(addr, 0, head, quad, viaDma) ELSE <<>>) \in Seq(Items(c))
  BY <1>2, <1>3
<1>6. (IF n = head THEN <<>> ELSE PageLoop(addr + head, head, n - head, quad, viaDma))
        \in Seq(Items(c))
  BY <1>4
<1> QED BY <1>5, <1>6, JoinType DEF page_write_wrapper, head

LEMMA ReadTypes ==
  ASSUME NEW c, NEW addr \in Cells, NEW n \in 1..Size
  PROVE  /\ ReadStandard(addr, n) \in Seq(Items(c))
         /\ ReadQuad(addr, n) \in Seq(Items(c))
<1> USE Small
<1>1. Send("RD", addr, W, TRUE) \in Seq(Items(c)) /\ Send("ADDR", addr, W, TRUE) \in Seq(Items(c))
  BY SendType DEF Opcodes, Reads
<1>2. Send("RDQIO", 0, 1, TRUE) \in Seq(Items(c))
  BY SendType DEF Opcodes, Reads
<1>3. Segment("RX", n, FALSE) \in Seq(Items(c)) /\ Segment("DUMMY", 1, TRUE) \in Seq(Items(c))
  BY SegmentType
<1> QED BY <1>1, <1>2, <1>3, JoinType DEF ReadStandard, ReadQuad

LEMMA DrainType ==
  ASSUME NEW c, NEW off \in Nat, NEW n \in Nat
  PROVE  Drain(off, n) \in Seq(Items(c))
<1>1. Step("drain", off, n) \in Items(c)
  BY StepType DEF Marks
<1> QED BY <1>1 DEF Drain

LEMMA DmaTypesOfReads ==
  ASSUME NEW c, NEW n \in 0..Sector
  PROVE  /\ \A fn \in DmaReaders : DmaRead(fn, n) \in Seq(Items(c))
         /\ DmaTail(n) \in Seq(Items(c))
<1>0. n \in Nat /\ n \div W \in 0..Sector /\ n % W \in Nat /\ n % W <= n
  BY Divide, Geometry
<1>1. \A fn \in DmaReaders : [k |-> "dmarx", fn |-> fn, n |-> n \div W] \in Items(c)
  BY <1>0 DEF Items
<1>2. Step("dmawait", 0, 0) \in Items(c)
  BY StepType DEF Marks
<1>3. n - (n % W) \in Nat
  BY <1>0
<1>4. Words("rx", n - (n % W), n % W) \in Seq(Items(c))
  BY <1>0, <1>3, WordsType
<1>5. << Step("dmawait", 0, 0) >> \in Seq(Items(c))
  BY <1>2
<1> QED BY <1>1, <1>4, <1>5, JoinType DEF DmaRead, DmaTail

LEMMA ReadingTypes ==
  ASSUME NEW c, NEW addr \in Cells, NEW n \in 1..Sector
  PROVE  /\ w25q128jw_read_standard(addr, n) \in Seq(Items(c))
         /\ w25q128jw_read_quad(addr, n) \in Seq(Items(c))
         /\ w25q128jw_read_standard_dma(addr, n) \in Seq(Items(c))
         /\ w25q128jw_read_quad_dma(addr, n) \in Seq(Items(c))
         /\ w25q128jw_read_standard_dma_async(addr, n) \in Seq(Items(c))
         /\ w25q128jw_read_quad_dma_async(addr, n) \in Seq(Items(c))
         /\ ApplicationDma(n) \in Seq(Items(c))
<1>1. n \in 1..Size /\ n \in 0..Sector /\ n \in Nat /\ 0 \in Nat
  BY Geometry
<1>2. ReadStandard(addr, n) \in Seq(Items(c)) /\ ReadQuad(addr, n) \in Seq(Items(c))
  BY <1>1, ReadTypes
<1>3. ReadLoop(n) \in Seq(Items(c))
  BY <1>1, DrainType DEF ReadLoop
<1>4. /\ DmaTail(n) \in Seq(Items(c))
      /\ DmaRead("read_standard_dma", n) \in Seq(Items(c))
      /\ DmaRead("read_quad_dma", n) \in Seq(Items(c))
      /\ DmaRead("read_standard_dma_async", n) \in Seq(Items(c))
      /\ DmaRead("read_quad_dma_async", n) \in Seq(Items(c))
      /\ DmaRead("application", n) \in Seq(Items(c))
  <2>1. DmaTail(n) \in Seq(Items(c)) /\ \A fn \in DmaReaders : DmaRead(fn, n) \in Seq(Items(c))
    BY <1>1, DmaTypesOfReads
  <2> QED BY <2>1 DEF DmaReaders
<1>6. /\ w25q128jw_read_quad(addr, n) \in Seq(Items(c))
      /\ w25q128jw_read_standard(addr, n) \in Seq(Items(c))
  BY <1>2, <1>3, JoinType DEF w25q128jw_read_standard, w25q128jw_read_quad
<1>7. /\ w25q128jw_read_standard_dma(addr, n) \in Seq(Items(c))
      /\ w25q128jw_read_quad_dma(addr, n) \in Seq(Items(c))
  BY <1>2, <1>4, JoinType DEF w25q128jw_read_standard_dma, w25q128jw_read_quad_dma
<1>8. /\ w25q128jw_read_standard_dma_async(addr, n) \in Seq(Items(c))
      /\ w25q128jw_read_quad_dma_async(addr, n) \in Seq(Items(c))
      /\ ApplicationDma(n) \in Seq(Items(c))
  BY <1>2, <1>4, JoinType
  DEF w25q128jw_read_standard_dma_async, w25q128jw_read_quad_dma_async, ApplicationDma
<1> QED BY <1>6, <1>7, <1>8

LEMMA ReadBodyType ==
  ASSUME NEW c, NEW l \in Items(c), l.k = "read"
  PROVE  ReadBody(l) \in Seq(Items(c))
<1>1. /\ l.fn \in ReadFunctions /\ l.how \in {"standard", "quad", "standard_dma", "quad_dma"}
      /\ l.addr \in Cells /\ l.n \in 1..Sector /\ l.n \in 1..Size
      /\ l.fn # "read" => l.how \in {"standard", "quad"}
  BY Geometry DEF Items, Marks, Hows
<1>2. /\ w25q128jw_read_standard(l.addr, l.n) \in Seq(Items(c))
      /\ w25q128jw_read_quad(l.addr, l.n) \in Seq(Items(c))
      /\ w25q128jw_read_standard_dma(l.addr, l.n) \in Seq(Items(c))
      /\ w25q128jw_read_quad_dma(l.addr, l.n) \in Seq(Items(c))
      /\ w25q128jw_read_standard_dma_async(l.addr, l.n) \in Seq(Items(c))
      /\ w25q128jw_read_quad_dma_async(l.addr, l.n) \in Seq(Items(c))
  BY <1>1, ReadingTypes
<1>3. /\ ReadStandard(l.addr, l.n) \o ApplicationDma(l.n) \in Seq(Items(c))
      /\ ReadQuad(l.addr, l.n) \o ApplicationDma(l.n) \in Seq(Items(c))
  BY <1>1, ReadTypes, ReadingTypes, JoinType
<1>4. CASE l.fn = "read"
  BY <1>1, <1>2, <1>4 DEF ReadBody
<1>5. CASE l.fn = "async"
  BY <1>1, <1>2, <1>5 DEF ReadBody
<1>6. CASE l.fn = "setup"
  BY <1>1, <1>3, <1>6 DEF ReadBody
<1> QED BY <1>1, <1>4, <1>5, <1>6 DEF ReadFunctions

LEMMA ReadItemType ==
  ASSUME NEW c, NEW fn \in ReadFunctions, NEW how \in Hows(fn), how # "best",
         NEW addr \in Cells, NEW n \in 1..Sector
  PROVE  Read(fn, how, addr, n) \in Seq(Items(c))
<1>1. how \in Hows("read") \ {"best"} /\ (fn # "read" => how \in {"standard", "quad"})
  BY DEF Hows, ReadFunctions
<1>2. [k |-> "read", fn |-> fn, how |-> how, addr |-> addr, n |-> n] \in Items(c)
  BY <1>1 DEF Items
<1> QED BY <1>2 DEF Read

LEMMA ReadingType ==
  ASSUME NEW c, NEW how \in Hows("read"), NEW addr \in Cells, NEW n \in 1..Sector
  PROVE  Reading(how, addr, n) \in Seq(Items(c))
<1>1. \A h \in Hows("read") \ {"best"} : Read("read", h, addr, n) \in Seq(Items(c))
  BY ReadItemType DEF ReadFunctions
<1>2. << Step("dmawait", 0, 0) >> \in Seq(Items(c))
  BY StepType DEF Marks
<1>3. w25q128jw_read(addr, n) \in Seq(Items(c))
  BY <1>1, <1>2, JoinType DEF w25q128jw_read, Hows
<1> QED BY <1>1, <1>3 DEF Reading

LEMMA EraseType ==
  ASSUME NEW c, NEW op \in Erases, NEW addr \in Cells
  PROVE  /\ EraseCommand(op, addr) \in Seq(Items(c))
         /\ Erase(op, addr) \in Seq(Items(c))
<1> USE Small
<1>1. Send(op, addr, IF op = "CE" THEN 1 ELSE W, FALSE) \in Seq(Items(c))
  BY SendType DEF Opcodes
<1>2. EraseCommand(op, addr) \in Seq(Items(c))
  BY <1>1, LocalTypes, JoinType DEF EraseCommand
<1>3. Wait \in Seq(Items(c))
  BY StepType DEF Wait, Marks
<1>4. [k |-> "erase", op |-> op, addr |-> addr] \in Items(c)
  BY DEF Items
<1> QED BY <1>2, <1>3, <1>4, JoinType DEF Erase

LEMMA ResetType ==
  ASSUME NEW c
  PROVE  /\ ResetCommand \in Seq(Items(c))
         /\ w25q128jw_reset_force \in Seq(Items(c)) /\ w25q128jw_reset \in Seq(Items(c))
<1>1. Step("flash_wait", 0, 0) \in Items(c) /\ Step("reset", 0, 0) \in Items(c)
  BY StepType DEF Marks
<1>2. ResetCommand \in Seq(Items(c))
  BY LocalTypes, JoinType DEF ResetCommand
<1> QED BY <1>1, <1>2, JoinType DEF Wait, w25q128jw_reset_force, w25q128jw_reset

LEMMA WritePagesType ==
  ASSUME NEW c, NEW how, NEW addr \in Nat, NEW n \in Nat \ {0}, addr + n <= Size,
         n <= SourceLen(c), SourceLen(c) \in Nat
  PROVE  WritePages(how, addr, n) \in Seq(Items(c))
<1>1. (IF how = "best" THEN << Step("dmawait", 0, 0) >> ELSE <<>>) \in Seq(Items(c))
  BY StepType DEF Marks
<1>2. \A q, d \in BOOLEAN : page_write_wrapper(addr, n, q, d) \in Seq(Items(c))
  BY WrapperType
<1>3. (how \in {"best", "quad", "quad_dma"}) \in BOOLEAN
      /\ (how \in {"best", "standard_dma", "quad_dma"}) \in BOOLEAN
  OBVIOUS
<1>4. page_write_wrapper(addr, n, how \in {"best", "quad", "quad_dma"},
                         how \in {"best", "standard_dma", "quad_dma"}) \in Seq(Items(c))
  BY <1>2, <1>3, Zenon
<1> QED BY <1>1, <1>4, JoinType DEF WritePages

LEMMA SourceLenType ==
  ASSUME NEW c, CallShape(c)
  PROVE  SourceLen(c) \in Nat
  BY Geometry DEF SourceLen, CallShape

(* The turns of the loops. *)
LEMMA TurnTypes ==
  ASSUME NEW c, CallShape(c), NEW l \in Items(c)
  PROVE  /\ l.k = "pages" => PageTurn(l) \in Seq(Items(c))
         /\ l.k = "drain" => DrainTurn(l) \in Seq(Items(c))
         /\ l.k = "sectors" => SectorTurn(l) \in Seq(Items(c))
         /\ l.k \in Bodies => Body(l) \in Seq(Items(c))
<1>1. ASSUME l.k = "pages" PROVE PageTurn(l) \in Seq(Items(c))
  <2>1. /\ l.addr \in Nat /\ l.off \in Nat /\ l.n \in Nat \ {0} /\ l.quad \in BOOLEAN
        /\ l.viaDma \in BOOLEAN /\ l.addr + l.n <= Size /\ l.off + l.n <= SourceLen(c)
    BY <1>1 DEF Items, Marks
  <2>2. SourceLen(c) \in Nat
    BY SourceLenType
  <2>3. CASE l.n > Page
    <3>1. /\ Page \in Nat \ {0} /\ Page <= Page /\ l.addr + Page <= Size /\ l.off + Page <= SourceLen(c)
          /\ l.n - Page \in Nat \ {0} /\ l.addr + Page \in Nat /\ l.off + Page \in Nat
          /\ (l.addr + Page) + (l.n - Page) <= Size
          /\ (l.off + Page) + (l.n - Page) <= SourceLen(c)
      BY <2>1, <2>2, <2>3, Geometry
    <3>2. PageWrite(l.addr, l.off, Page, l.quad, l.viaDma) \in Seq(Items(c))
      BY <2>1, <3>1, PageItemType
    <3>3. PageLoop(l.addr + Page, l.off + Page, l.n - Page, l.quad, l.viaDma) \in Seq(Items(c))
      BY <2>1, <3>1, PageLoopType
    <3> QED BY <2>3, <3>2, <3>3, JoinType DEF PageTurn
  <2>4. CASE ~(l.n > Page)
    <3>1. PageWrite(l.addr, l.off, l.n, l.quad, l.viaDma) \in Seq(Items(c))
      BY <2>1, <2>4, Geometry, PageItemType
    <3> QED BY <2>4, <3>1 DEF PageTurn
  <2> QED BY <2>3, <2>4
<1>2. ASSUME l.k = "drain" PROVE DrainTurn(l) \in Seq(Items(c))
  <2>1. l.off \in Nat /\ l.n \in Nat
    BY <1>2 DEF Items, Marks
  <2>2. \A m \in Nat : << Step("rxwm", 0, m), Step("rxwait", 0, 0) >> \in Seq(Items(c))
    BY StepType DEF Marks
  <2>3. CASE l.n >= RxDepth
    <3>0. W \in Nat \ {0} /\ RxDepth \in Nat
      BY Geometry
    <3>1. RxDepth \div W \in Nat /\ RxDepth \in Nat /\ l.n - RxDepth \in Nat
          /\ l.off + RxDepth \in Nat
      BY <2>1, <2>3, <3>0, Divide
    <3>2. Words("rx", l.off, RxDepth) \in Seq(Items(c))
      BY <2>1, <3>1, WordsType
    <3>3. Drain(l.off + RxDepth, l.n - RxDepth) \in Seq(Items(c))
      BY <3>1, DrainType
    <3> QED BY <2>2, <2>3, <3>1, <3>2, <3>3, JoinType DEF DrainTurn
  <2>4. CASE ~(l.n >= RxDepth)
    <3>1. Ceil(l.n) \in Nat
      BY <2>1, Divide, Geometry DEF Ceil
    <3>2. Words("rx", l.off, l.n) \in Seq(Items(c))
      BY <2>1, WordsType
    <3> QED BY <2>2, <2>4, <3>1, <3>2, JoinType DEF DrainTurn
  <2> QED BY <2>3, <2>4
<1>3. ASSUME l.k = "sectors" PROVE SectorTurn(l) \in Seq(Items(c))
  <2> DEFINE start == l.addr - (l.addr % Sector)
             part  == Lesser(Sector - (l.addr % Sector), l.n)
  <2>1. /\ l.how \in Hows("read") /\ l.addr \in Nat /\ l.off \in Nat /\ l.n \in Nat
        /\ c.fn = "erase_and_write" /\ l.off + l.n = c.n /\ Len(c.data) = c.n
    BY <1>3 DEF Items, Marks, CallShape
  <2>2. l.addr % Sector \in Nat /\ l.addr % Sector < Sector /\ l.addr % Sector <= l.addr
    <3>1. Sector \in Nat \ {0} /\ l.addr \in Nat
      BY <2>1, Geometry
    <3> QED BY <3>1, Divide
  <2>3. start \in Nat /\ part \in Nat /\ part <= l.n /\ part <= Sector - (l.addr % Sector)
    <3>1. Sector - (l.addr % Sector) \in Nat /\ start \in Nat
      BY <2>1, <2>2, Geometry
    <3> QED BY <2>1, <3>1, Lesser_
  <2>4. l.n = 0 => Return("OK") \in Seq(Items(c))
    BY ReturnType
  <2>5. Return("ERROR") \in Seq(Items(c))
    BY ReturnType
  <2>6. ASSUME w25q128jw_sanity_checks(start, Sector)
        PROVE  Reading(l.how, start, Sector) \o w25q128jw_4k_erase(start)
           \o << [k |-> "memcpy", to |-> l.addr % Sector, off |-> l.off, n |-> part] >>
           \o WritePages(l.how, start, Sector)
           \o erase_and_write(l.how, l.addr + part, l.off + part, l.n - part) \in Seq(Items(c))
    <3> HIDE DEF start, part
    <3>1. start \in Cells /\ start + Sector <= Size /\ Sector \in 1..Sector
      BY <2>3, <2>6, Geometry DEF w25q128jw_sanity_checks, Cells
    <3>2. Reading(l.how, start, Sector) \in Seq(Items(c))
      BY <2>1, <3>1, ReadingType
    <3>3. w25q128jw_4k_erase(start) \in Seq(Items(c))
      BY <3>1, EraseType DEF w25q128jw_4k_erase, Erases
    <3>4. [k |-> "memcpy", to |-> l.addr % Sector, off |-> l.off, n |-> part] \in Items(c)
      <4>1. (l.addr % Sector) + part <= Sector /\ l.off + part <= Len(c.data)
        BY <2>1, <2>2, <2>3, Geometry
      <4> QED BY <2>1, <2>2, <2>3, <4>1 DEF Items
    <3>5. SourceLen(c) = Sector /\ Sector \in Nat \ {0}
      BY <2>1, Geometry DEF SourceLen
    <3>6. WritePages(l.how, start, Sector) \in Seq(Items(c))
      BY <2>3, <3>1, <3>5, WritePagesType
    <3>7. [k |-> "sectors", how |-> l.how, addr |-> l.addr + part, off |-> l.off + part,
           n |-> l.n - part] \in Items(c)
      <4>1. l.addr + part \in Nat /\ l.off + part \in Nat /\ l.n - part \in Nat
            /\ (l.off + part) + (l.n - part) = c.n
        BY <2>1, <2>3
      <4> QED BY <2>1, <4>1 DEF Items
    <3>8. << [k |-> "memcpy", to |-> l.addr % Sector, off |-> l.off, n |-> part] >>
            \in Seq(Items(c))
      BY <3>4
    <3> QED BY <3>2, <3>3, <3>6, <3>7, <3>8, JoinType DEF erase_and_write
  <2> QED BY <2>4, <2>5, <2>6 DEF SectorTurn
<1>4. ASSUME l.k = "page_write"
      PROVE  page_write(l.addr, l.off, l.n, l.quad, l.viaDma) \in Seq(Items(c))
  <2>1. /\ l.addr \in Nat /\ l.off \in Nat /\ l.n \in 1..Page /\ l.quad \in BOOLEAN
        /\ l.viaDma \in BOOLEAN /\ l.addr + l.n <= Size /\ l.off + l.n <= SourceLen(c)
    BY <1>4 DEF Items, Marks
  <2>2. l.n \in Nat \ {0} /\ l.n <= Page
    BY <2>1, Geometry
  <2> QED BY <2>1, <2>2, PageWriteType
<1>5. ASSUME l.k = "erase" PROVE EraseCommand(l.op, l.addr) \in Seq(Items(c))
  <2>1. l.op \in Erases /\ l.addr \in Cells
    BY <1>5 DEF Items, Marks
  <2> QED BY <2>1, EraseType
<1>6. l.k \in Bodies => Body(l) \in Seq(Items(c))
  BY <1>1, <1>2, <1>3, <1>4, <1>5, LocalTypes, ResetType, ReadBodyType DEF Bodies, Body
<1> QED BY <1>1, <1>2, <1>3, <1>6

LEMMA RequestShape ==
  ASSUME NEW r \in Requests
  PROVE  CallShape(r) /\ r.fn \in ApiFunctions /\ r.how \in Hows(r.fn)
<1>1. r \in [fn : ApiFunctions, how : Hows(r.fn), addr : Nat, n : Nat,
             data : Seq(Bytes), align : Nat]
  BY RequestAssumption
<1>2. r.fn \in ReadFunctions => r.n <= Sector
  BY RequestAssumption
<1>3. r.fn \in {"write", "erase_and_write"} => Len(r.data) = r.n
  BY RequestAssumption
<1> QED BY <1>1, <1>2, <1>3 DEF CallShape, Request

LEMMA InitCallShape == CallShape(InitCall)
  BY DEF CallShape, InitCall, Request, ReadFunctions

LEMMA ScriptType ==
  ASSUME NEW r, r = InitCall \/ r \in Requests
  PROVE  Script(r) \in Seq(Items(r))
<1>0. CallShape(r)
  BY RequestShape, InitCallShape
<1>1. Return("OK") \in Seq(Items(r)) /\ Return("ERROR") \in Seq(Items(r))
      /\ Return("void") \in Seq(Items(r))
  BY ReturnType
<1>2. CASE r = InitCall
  <2>1. << Step("retqe", 0, 0) >> \in Seq(Items(r))
    BY StepType DEF Marks
  <2>2. w25q128jw_init \in Seq(Items(r))
    BY LocalTypes, JoinType DEF w25q128jw_init
  <2>3. r.fn = "init"
    BY <1>2 DEF InitCall, Request
  <2> QED BY <2>1, <2>2, <2>3, JoinType DEF Script
<1>3. CASE r \in Requests
  <2>1. /\ r.fn \in ApiFunctions /\ r.how \in Hows(r.fn)
        /\ r.addr \in Nat /\ r.n \in Nat /\ (r.fn \in ReadFunctions => r.n <= Sector)
        /\ r.fn \in {"write", "erase_and_write"} => Len(r.data) = r.n
    BY <1>0, <1>3, RequestShape DEF CallShape
  <2>2. w25q128jw_sanity_checks(r.addr, r.n) =>
          r.addr \in Cells /\ r.n \in Nat \ {0} /\ r.addr + r.n <= Size
    BY <2>1, Geometry DEF w25q128jw_sanity_checks, Cells
  <2>3. ASSUME w25q128jw_sanity_checks(r.addr, r.n), r.fn \in ReadFunctions
        PROVE  r.addr \in Cells /\ r.n \in 1..Sector /\ r.n \in 1..Size
    BY <2>1, <2>2, <2>3, Geometry
  <2>4. CASE r.fn = "read"
    <3> SUFFICES ASSUME w25q128jw_sanity_checks(r.addr, r.n)
                 PROVE  Reading(r.how, r.addr, r.n) \in Seq(Items(r))
      BY <1>1, <2>4, JoinType DEF Script, Checked
    <3> QED BY <2>1, <2>3, <2>4, ReadingType DEF ReadFunctions
  <2>5. CASE r.fn \in {"async", "setup"}
    <3> SUFFICES ASSUME w25q128jw_sanity_checks(r.addr, r.n)
                 PROVE  Read(r.fn, r.how, r.addr, r.n) \in Seq(Items(r))
      BY <1>1, <2>5, JoinType DEF Script, Checked, WholeWords
    <3>1. r.fn \in ReadFunctions /\ r.how \in Hows(r.fn) /\ r.how # "best"
      BY <2>1, <2>5 DEF ReadFunctions, Hows
    <3> QED BY <2>3, <3>1, ReadItemType
  <2>7. CASE r.fn = "write"
    <3> SUFFICES ASSUME w25q128jw_sanity_checks(r.addr, r.n)
                 PROVE  WritePages(r.how, r.addr, r.n) \in Seq(Items(r))
      BY <1>1, <2>7, JoinType DEF Script, Checked
    <3>1. SourceLen(r) = r.n
      BY <2>1, <2>7 DEF SourceLen
    <3> QED BY <2>1, <2>2, <3>1, WritePagesType
  <2>8. CASE r.fn = "erase_and_write"
    <3>1. [k |-> "sectors", how |-> r.how, addr |-> r.addr, off |-> 0, n |-> r.n] \in Items(r)
      BY <2>1, <2>8 DEF Items, Hows
    <3>2. erase_and_write(r.how, r.addr, 0, r.n) \in Seq(Items(r))
      BY <3>1 DEF erase_and_write
    <3> QED BY <1>1, <2>8, <3>2 DEF Script, Checked
  <2>9. CASE r.fn = "erase"
    <3> SUFFICES ASSUME ~(r.addr > Size - 1)
                 PROVE  (CASE r.how = "4k"  -> w25q128jw_4k_erase(r.addr)
                 [] r.how = "32k" -> w25q128jw_32k_erase(r.addr)
                 [] r.how = "64k" -> w25q128jw_64k_erase(r.addr)
                 [] r.how = "chip" -> w25q128jw_chip_erase) \in Seq(Items(r))
      BY <1>1, <2>9, JoinType DEF Script
    <3>1. r.addr \in Cells /\ 0 \in Cells
      BY <2>1, Geometry DEF Cells
    <3>2. \A op \in Erases : Erase(op, r.addr) \in Seq(Items(r)) /\ Erase(op, 0) \in Seq(Items(r))
      BY <3>1, EraseType
    <3> QED BY <2>1, <2>9, <3>2
            DEF Hows, Erases, w25q128jw_4k_erase, w25q128jw_32k_erase, w25q128jw_64k_erase,
                w25q128jw_chip_erase
  <2>10. CASE r.fn = "reset"
    BY <1>1, <2>10, ResetType, JoinType DEF Script
  <2>11. CASE r.fn = "power_down"
    <3>1. w25q128jw_power_down \in Seq(Items(r))
      BY Small, SendType DEF w25q128jw_power_down, Opcodes
    <3> QED BY <1>1, <2>11, <3>1, JoinType DEF Script
  <2> QED BY <2>1, <2>4, <2>5, <2>7, <2>8, <2>9, <2>10, <2>11
          DEF ApiFunctions, ReadFunctions
<1> QED BY <1>2, <1>3

(***************************************************************************)
(* Steps of the chip, the SPI host and the DMA channel.                    *)
(***************************************************************************)
Frames == [op : Opcodes \cup {"none", "data"}, ok : BOOLEAN, addr : Cells,
           data : Seq(Bytes), sent : Nat]

LEMMA NoJobType ==
  NoJob \in [op : Opcodes \cup {"none"}, addr : Cells, data : Seq(Bytes)]
  /\ NoJob.op \notin Programs \cup {"WSR2"}
  BY Small DEF NoJob, Programs

LEMMA NoFrameType == NoFrame \in Frames
  BY Small DEF NoFrame, Frames

LEMMA AcceptsType ==
  ASSUME NEW op
  PROVE  Accepts(op) \in BOOLEAN
<1>1. CASE asleep
  BY <1>1 DEF Accepts
<1>2. CASE ~asleep /\ job # NoJob
  BY <1>2 DEF Accepts
<1>3. CASE ~asleep /\ job = NoJob
  <2> DEFINE ready == /\ op # "data"
                      /\ op \in Erases \cup Programs \cup {"WSR2"} => wel
                      /\ op \in {"PPQ", "RDQIO"} => 1 \in sr2
  <2>1. Accepts(op) = ready
    BY <1>3 DEF Accepts
  <2>2. ready \in BOOLEAN
    OBVIOUS
  <2> QED BY <2>1, <2>2
<1> QED BY <1>1, <1>2, <1>3

LEMMA ReceivedType ==
  ASSUME ChipTypes, NEW w \in TxWords, NEW n \in 1..W
  PROVE  Received(w, n) \in Frames
<1>0. frame \in Frames
  BY DEF ChipTypes, Frames
<1>1. w.op \in Opcodes \cup {"data"} /\ w.addr \in Cells
  BY Small DEF TxWords
<1>2. CASE frame.op = "none"
  <2>1. Received(w, n) = [op |-> w.op, ok |-> Accepts(w.op), addr |-> w.addr,
                          data |-> <<>>, sent |-> 0]
    BY <1>2 DEF Received, NoFrame
  <2> QED BY <1>1, <2>1, AcceptsType DEF Frames
<1>3. CASE frame.op # "none" /\ w.op = "ADDR"
  BY <1>0, <1>1, <1>3 DEF Received, Frames
<1>4. CASE frame.op # "none" /\ w.op # "ADDR"
  <2>1. (IF w.op = "data" THEN SubSeq(w.bytes, 1, n) ELSE [i \in 1..n |-> {0}]) \in Seq(Bytes)
    <3>1. CASE w.op = "data"
      <4>0. w \in [op : {"data"}, addr : {0}, bytes : RxWords]
        BY <3>1 DEF TxWords, Opcodes, Reads, Programs, Erases
      <4>1. w.bytes \in [1..W -> Bytes] /\ W \in Nat
        BY <4>0, Geometry DEF RxWords
      <4>2. w.bytes \in Seq(Bytes) /\ Len(w.bytes) = W
        BY <4>1
      <4> QED BY <3>1, <4>2
    <3>2. CASE w.op # "data"
      <4>1. n \in Nat /\ {0} \in Bytes
        BY Geometry DEF Bytes, Bits
      <4> QED BY <3>2, <4>1
    <3> QED BY <3>1, <3>2
  <2>2. frame.data \in Seq(Bytes)
    BY <1>0 DEF Frames
  <2>3. frame.data \o (IF w.op = "data" THEN SubSeq(w.bytes, 1, n) ELSE [i \in 1..n |-> {0}])
          \in Seq(Bytes)
    BY <2>1, <2>2, JoinType
  <2>4. Received(w, n) = [frame EXCEPT !.data = frame.data \o
          (IF w.op = "data" THEN SubSeq(w.bytes, 1, n) ELSE [i \in 1..n |-> {0}])]
    BY <1>4 DEF Received
  <2> QED BY <1>0, <2>3, <2>4 DEF Frames
<1> QED BY <1>2, <1>3, <1>4

LEMMA DeselectType ==
  ASSUME ChipTypes, NEW f \in Frames, Deselect(f)
  PROVE  ChipTypes'
<1>1. frame' \in Frames
  BY NoFrameType DEF Deselect
<1>2. wel' \in BOOLEAN /\ asleep' \in BOOLEAN /\ rstEn' \in BOOLEAN
  BY DEF Deselect, ChipTypes
<1>3. /\ job' \in [op : Opcodes \cup {"none"}, addr : Cells, data : Seq(Bytes)]
      /\ job'.op \in Programs \cup {"WSR2"} => job'.data # <<>>
  <2> DEFINE starts == /\ f.ok /\ f.op \in Erases \cup Programs \cup {"WSR2"}
                       /\ f.op \in Erases \/ f.data # <<>>
  <2>1. CASE starts
    <3>1. job' = [op |-> f.op, addr |-> f.addr, data |-> f.data]
      BY <2>1 DEF Deselect
    <3> QED BY <2>1, <3>1 DEF Frames, Opcodes, Programs, Erases
  <2>2. CASE ~starts
    <3>1. job' = NoJob \/ job' = job
      BY <2>2 DEF Deselect
    <3> QED BY <3>1, NoJobType DEF ChipTypes
  <2> QED BY <2>1, <2>2
<1>4. mem' = mem /\ sr2' = sr2
  BY DEF Deselect
<1> QED BY <1>1, <1>2, <1>3, <1>4 DEF ChipTypes, Frames

LEMMA EffectType ==
  ASSUME NEW j, NEW m \in [Cells -> Bytes]
  PROVE  Effect(j, m) \in [Cells -> Bytes]
<1>1. FF \in Bytes
  BY DEF FF, Bytes
<1>2. \A a \in Cells : m[a] \in Bytes /\ \A x : m[a] \cap x \in Bytes
  BY DEF Bytes
<1> QED BY <1>1, <1>2 DEF Effect

LEMMA ChipDoneType ==
  ASSUME FlashTypes, ChipDone
  PROVE  FlashTypes'
<1>1. mem' \in [Cells -> Bytes]
  BY EffectType DEF FlashTypes, ChipTypes, ChipDone
<1>2. sr2' \in Bytes
  BY DEF FlashTypes, ChipTypes, ChipDone
<1>3. ChipTypes'
  BY <1>1, <1>2, NoJobType DEF FlashTypes, ChipTypes, ChipDone
<1>4. UNCHANGED <<hostVars, dmaVars, script, drvVars, events>>
  BY DEF ChipDone
<1> QED BY <1>3, <1>4
        DEF FlashTypes, HostTypes, DmaTypes, DriverTypes, hostVars, dmaVars, drvVars

LEMMA TailType ==
  ASSUME NEW S, NEW s \in Seq(S), s # <<>>
  PROVE  /\ Head(s) \in S /\ Tail(s) \in Seq(S) /\ Len(Tail(s)) = Len(s) - 1
         /\ Len(s) \in Nat /\ Len(s) > 0
  OBVIOUS

LEMMA ShiftedType ==
  ASSUME ChipTypes, cmds \in Seq(Segments), cmds # <<>>, NEW n \in Nat \ {0}, NEW f \in Frames,
         Shifted(n, f)
  PROVE  ChipTypes' /\ cmds' \in Seq(Segments) /\ Len(cmds') <= Len(cmds)
<1>0. Head(cmds) = cmds[1] /\ cmds[1] \in Segments
  OBVIOUS
<1>1. CASE Head(cmds).len > n
  <2>1. cmds' = [cmds EXCEPT ![1].len = @ - n] /\ frame' = f
        /\ UNCHANGED <<mem, sr2, wel, asleep, rstEn, job, refused>>
    BY <1>1 DEF Shifted
  <2>2. cmds[1].len - n \in 1..Size
    BY <1>0, <1>1, Geometry DEF Segments
  <2>3. [cmds[1] EXCEPT !.len = cmds[1].len - n] \in Segments
    BY <1>0, <2>2 DEF Segments
  <2>4. cmds' = [cmds EXCEPT ![1] = [cmds[1] EXCEPT !.len = cmds[1].len - n]]
    BY <2>1
  <2>5. cmds' \in Seq(Segments) /\ Len(cmds') = Len(cmds)
    BY <2>3, <2>4
  <2> QED BY <2>1, <2>5 DEF ChipTypes, Frames
<1>2. CASE ~(Head(cmds).len > n)
  <2>1. cmds' = Tail(cmds)
    BY <1>2 DEF Shifted
  <2>2. \/ frame' = f /\ UNCHANGED <<mem, sr2, wel, asleep, rstEn, job, refused>>
        \/ Deselect(f)
    BY <1>2 DEF Shifted
  <2>3. ChipTypes'
    BY <2>2, DeselectType DEF ChipTypes, Frames
  <2> QED BY <2>1, <2>3, TailType
<1> QED BY <1>1, <1>2

LEMMA SentMore ==
  ASSUME NEW f \in Frames, NEW n \in Nat
  PROVE  [f EXCEPT !.sent = @ + n] \in Frames
<1>1. f.sent + n \in Nat
  BY DEF Frames
<1> DEFINE m == f.sent + n
<1> HIDE DEF m
<1>2. [f EXCEPT !.sent = m] \in Frames
  BY <1>1 DEF Frames, m
<1> QED BY <1>2 DEF m

LEMMA ShiftType ==
  ASSUME FlashTypes, Shift
  PROVE  FlashTypes'
<1> USE DEF FlashTypes, HostTypes
<1>0. W \in Nat \ {0}
  BY Geometry
<1>1. cmds # <<>> /\ Head(cmds) \in Segments
  BY DEF Shift, ShiftTx, ShiftRx, ShiftDummy
<1>2. Head(cmds).len \in Nat \ {0}
  BY <1>1 DEF Segments
<1>3. Lesser(W, Head(cmds).len) \in 1..W
  BY <1>0, <1>2 DEF Lesser
<1>4. frame \in Frames
  BY DEF ChipTypes, Frames
<1>5. UNCHANGED <<rxwm, dmaVars, script, drvVars, events>>
  BY DEF Shift, ShiftTx, ShiftRx, ShiftDummy
<1>6. DmaTypes' /\ DriverTypes' /\ rxwm' \in Nat
  BY <1>5 DEF DmaTypes, DriverTypes, dmaVars, drvVars
<1>7. CASE ShiftTx
  <2>1. tx # <<>> /\ Head(tx) \in TxWords /\ tx' = Tail(tx) /\ rx' = rx
    BY <1>7 DEF ShiftTx
  <2>2. Received(Head(tx), Lesser(W, Head(cmds).len)) \in Frames
    BY <1>3, <2>1, ReceivedType
  <2>3. Shifted(Lesser(W, Head(cmds).len), Received(Head(tx), Lesser(W, Head(cmds).len)))
    BY <1>7 DEF ShiftTx
  <2>4. ChipTypes' /\ cmds' \in Seq(Segments) /\ Len(cmds') <= Len(cmds)
    BY <1>1, <1>3, <2>2, <2>3, ShiftedType
  <2>5. tx' \in Seq(TxWords) /\ Len(tx') <= TxDepth
    BY <2>1, TailType, Geometry
  <2>6. Len(cmds') <= CmdDepth + 1
    BY <2>4, Geometry
  <2> QED BY <1>6, <2>1, <2>4, <2>5, <2>6
<1>8. CASE ShiftRx
  <2> DEFINE n == Lesser(W, Head(cmds).len)
             word == [i \in 1..W |-> IF i <= n THEN Sent(i) ELSE {}]
  <2>1. Len(rx) < RxDepth /\ rx' = Append(rx, word) /\ tx' = tx
        /\ Shifted(n, [frame EXCEPT !.sent = @ + n])
    BY <1>8 DEF ShiftRx
  <2>2. [frame EXCEPT !.sent = @ + n] \in Frames
    <3>1. n \in Nat
      BY <1>0, <1>3
    <3> HIDE DEF n
    <3> QED BY <1>4, <3>1, SentMore
  <2>2a. n \in Nat \ {0}
    BY <1>0, <1>3
  <2>3. ChipTypes' /\ cmds' \in Seq(Segments) /\ Len(cmds') <= Len(cmds)
    <3> HIDE DEF n
    <3> QED BY <1>1, <2>1, <2>2, <2>2a, ShiftedType
  <2>4. \A i \in 1..W : Sent(i) \in Bytes
    <3> TAKE i \in 1..W
    <3>1. frame.addr \in Nat /\ frame.sent \in Nat /\ Size \in Nat \ {0}
      BY <1>4, Geometry DEF Frames, Cells
    <3>2. (frame.addr + frame.sent + i - 1) % Size \in Cells
      <4> DEFINE a == frame.addr + frame.sent + i - 1
      <4>1. a \in Nat
        BY <1>0, <3>1
      <4> HIDE DEF a
      <4>2. a % Size \in Nat /\ a % Size < Size
        BY <3>1, <4>1, Divide
      <4>3. a % Size \in Cells
        BY <3>1, <4>2 DEF Cells
      <4> QED BY <4>3 DEF a
    <3>3. mem[(frame.addr + frame.sent + i - 1) % Size] \in Bytes /\ sr2 \in Bytes
      BY <3>2 DEF ChipTypes
    <3>4. FF \in Bytes /\ ((IF job # NoJob THEN {0} ELSE {})
                           \cup (IF wel THEN {1} ELSE {})) \in Bytes
      BY DEF FF, Bytes, Bits
    <3> QED BY <3>3, <3>4 DEF Sent
  <2>5. word \in RxWords
    BY <2>4 DEF RxWords, Bytes
  <2> HIDE DEF word
  <2>6. rx' \in Seq(RxWords) /\ Len(rx') = Len(rx) + 1
    BY <2>1, <2>5
  <2>7. Len(rx') <= RxDepth
    BY <2>1, <2>6, Geometry
  <2>8. Len(cmds') <= CmdDepth + 1
    BY <2>3, Geometry
  <2> QED BY <1>6, <2>1, <2>3, <2>6, <2>7, <2>8
<1>9. CASE ShiftDummy
  <2>1. Shifted(Head(cmds).len, frame) /\ tx' = tx /\ rx' = rx
    BY <1>9 DEF ShiftDummy
  <2>2. ChipTypes' /\ cmds' \in Seq(Segments) /\ Len(cmds') <= Len(cmds)
    BY <1>1, <1>2, <1>4, <2>1, ShiftedType
  <2>3. Len(cmds') <= CmdDepth + 1
    BY <2>2, Geometry
  <2> QED BY <1>6, <2>1, <2>2, <2>3
<1> QED BY <1>7, <1>8, <1>9 DEF Shift

LEMMA SourceType ==
  ASSUME DriverTypes, NEW off \in Nat, NEW n \in 0..W, off + n <= SourceLen(call)
  PROVE  DataWord(off, n) \in TxWords
<1>1. \A i \in 1..n : Source(off + i - 1) \in Bytes
  <2> TAKE i \in 1..n
  <2>0. i \in Nat /\ n \in Nat /\ SourceLen(call) \in Nat
    BY Geometry, SourceLenType DEF DriverTypes
  <2>1. off + i - 1 \in 0..SourceLen(call)-1
    BY <2>0
  <2>2. CASE call.fn = "erase_and_write"
    BY <2>1, <2>2 DEF Source, SourceLen, DriverTypes
  <2>3. CASE call.fn # "erase_and_write"
    <3>1. call.data \in Seq(Bytes) /\ off + i - 1 + 1 \in 1..Len(call.data)
      BY <2>0, <2>1, <2>3 DEF SourceLen, DriverTypes, CallShape
    <3> QED BY <2>3, <3>1 DEF Source
  <2> QED BY <2>2, <2>3
<1>2. [i \in 1..W |-> IF i <= n THEN Source(off + i - 1) ELSE {}] \in RxWords
  <2>1. \A i \in 1..W : i <= n => i \in 1..n
    BY Geometry
  <2>2. {} \in Bytes
    BY DEF Bytes
  <2> QED BY <1>1, <2>1, <2>2 DEF RxWords
<1> QED BY <1>2 DEF DataWord, TxWords

LEMMA StoredType ==
  ASSUME buf \in [0..Sector-1 -> Bytes], NEW word \in RxWords, NEW off \in Nat, NEW n \in 0..W
  PROVE  Stored(word, off, n) \in [0..Sector-1 -> Bytes]
<1>1. \A i \in 0..Sector-1 : i \in off..off+n-1 => i - off + 1 \in 1..W
  BY Geometry
<1> QED BY <1>1 DEF Stored, RxWords

LEMMA DmaUnitType ==
  ASSUME FlashTypes
  PROVE  DmaUnit \in 0..W
<1>1. W \in Nat /\ W > 0 /\ call.align \in Nat
  BY Geometry DEF FlashTypes, DriverTypes, CallShape
<1>2. W = 1 => call.align % W = 0
  BY <1>1
<1> QED BY <1>1, <1>2 DEF DmaUnit

LEMMA DmaMoveType ==
  ASSUME FlashTypes, DmaMove
  PROVE  FlashTypes'
<1> USE DEF FlashTypes
<1>0. W \in Nat /\ W > 0 /\ W \in 0..W
  BY Geometry
<1>1. /\ dma \in [dir : {"none", "tx", "rx"}, off : Nat, left : 0..Sector] /\ dma.left > 0
      /\ UNCHANGED <<chipVars, cmds, rxwm, script, call, reg, res, up, pre, events>>
  BY DEF DmaMove, DmaTypes
<1>2. ChipTypes'
  BY <1>1 DEF ChipTypes, chipVars
<1>3. DmaTypes'
  <2>1. CASE dma.left = 1
    <3>1. dma' = NoDma
      BY <2>1 DEF DmaMove
    <3> QED BY <3>1, Geometry DEF DmaTypes, NoDma
  <2>2. CASE dma.left # 1
    <3>1. dma' = [dma EXCEPT !.off = dma.off + W, !.left = dma.left - 1]
      BY <2>2 DEF DmaMove
    <3>2. dma.left - 1 \in 0..Sector /\ dma.left - 1 > 0 /\ dma.off + W \in Nat
      BY <1>0, <1>1, <2>2, Geometry
    <3>3. (dma.off + W) + (dma.left - 1) * W = dma.off + dma.left * W
      BY <1>0, <1>1
    <3>4. dma' = [dir |-> dma.dir, off |-> dma.off + W, left |-> dma.left - 1]
      BY <1>1, <3>1
    <3>5. SourceLen(call)' = SourceLen(call)
      BY <1>1 DEF SourceLen
    <3>6. dma.dir # "none"
      BY DEF DmaMove
    <3> QED BY <1>1, <3>2, <3>3, <3>4, <3>5, <3>6 DEF DmaTypes
  <2> QED BY <2>1, <2>2
<1>4. CASE dma.dir = "tx"
  <2>1. Len(tx) < TxDepth /\ tx' = Append(tx, DataWord(dma.off, W)) /\ UNCHANGED <<rx, buf>>
    BY <1>4 DEF DmaMove
  <2>2. dma.off + W <= SourceLen(call)
    <3>1. dma.off + dma.left * W <= SourceLen(call) /\ SourceLen(call) \in Nat
      BY <1>4, SourceLenType DEF DmaTypes, DriverTypes
    <3>2. dma.left * W >= W
      <4>1. dma.left \in Nat /\ dma.left >= 1
        BY <1>1, Geometry
      <4>2. PICK z \in Nat : dma.left = z + 1
        <5>1. dma.left = (dma.left - 1) + 1 /\ dma.left - 1 \in Nat
          BY <4>1
        <5> QED BY <5>1
      <4>3. (z + 1) * W = z * W + W /\ z * W \in Nat
        BY <1>0
      <4> QED BY <4>2, <4>3, <1>0
    <3>3. dma.left * W \in Nat /\ dma.off \in Nat
      BY <1>0, <1>1
    <3> QED BY <1>0, <3>1, <3>2, <3>3
  <2>3. DataWord(dma.off, W) \in TxWords
    BY <1>0, <1>1, <2>2, SourceType
  <2>4. tx' \in Seq(TxWords) /\ Len(tx') = Len(tx) + 1
    BY <2>1, <2>3 DEF HostTypes
  <2>5. HostTypes'
    BY <1>1, <2>1, <2>4, Geometry DEF HostTypes
  <2>6. DriverTypes'
    BY <1>1, <2>1 DEF DriverTypes
  <2> QED BY <1>2, <1>3, <2>5, <2>6
<1>5. CASE dma.dir = "rx"
  <2>1. rx # <<>> /\ rx' = Tail(rx) /\ tx' = tx
        /\ buf' = Stored(Head(rx), (dma.off \div W) * DmaUnit, DmaUnit)
    BY <1>5 DEF DmaMove
  <2>2. Head(rx) \in RxWords /\ rx' \in Seq(RxWords) /\ Len(rx') <= RxDepth
    BY <2>1, TailType, Geometry DEF HostTypes
  <2>3. buf' \in [0..Sector-1 -> Bytes]
    <3>1. DmaUnit \in 0..W
      BY DmaUnitType
    <3>2. dma.off \div W \in Nat
      BY <1>0, <1>1
    <3>3. (dma.off \div W) * DmaUnit \in Nat
      BY <1>0, <3>1, <3>2
    <3> QED BY <2>1, <2>2, <3>1, <3>3, StoredType DEF DriverTypes
  <2>4. HostTypes'
    BY <1>1, <2>1, <2>2 DEF HostTypes
  <2>5. DriverTypes'
    BY <1>1, <2>3 DEF DriverTypes
  <2> QED BY <1>2, <1>3, <2>4, <2>5
<1> QED BY <1>4, <1>5 DEF DmaMove

(***************************************************************************)
(* Steps of the driver.                                                    *)
(***************************************************************************)
LEMMA HeadType ==
  ASSUME FlashTypes, script # <<>>
  PROVE  /\ Now \in Items(call) /\ Tail(script) \in Seq(Items(call))
         /\ (Now.k # "dmawait" => dma.dir # "tx")
  BY TailType DEF FlashTypes, DriverTypes, DmaTypes, Now

(* While the driver is anywhere but in its wait for the DMA, no            *)
(* transaction towards the flash is under way.                             *)
LEMMA DriverStep ==
  ASSUME FlashTypes, script # <<>>, Now.k # "dmawait",
         UNCHANGED <<chipVars, dmaVars, call, res, up, pre, events>>,
         HostTypes', script' \in Seq(Items(call)), buf' \in [0..Sector-1 -> Bytes],
         reg' \in Bytes
  PROVE  FlashTypes'
<1>1. dma.dir # "tx"
  BY HeadType
<1>2. DmaTypes'
  BY <1>1 DEF FlashTypes, DmaTypes, dmaVars
<1> QED BY <1>2 DEF FlashTypes, ChipTypes, DriverTypes, chipVars

LEMMA AppendType ==
  ASSUME NEW S, NEW s \in Seq(S), NEW e \in S
  PROVE  Append(s, e) \in Seq(S) /\ Len(Append(s, e)) = Len(s) + 1
  OBVIOUS

(* Putting a word in the TX FIFO when there is room. *)
LEMMA PushType ==
  ASSUME HostTypes, NEW w \in TxWords,
         tx' = IF Len(tx) < TxDepth THEN Append(tx, w) ELSE tx,
         UNCHANGED <<cmds, rx, rxwm>>
  PROVE  HostTypes'
<1>1. tx' \in Seq(TxWords) /\ Len(tx') <= TxDepth
  BY AppendType, Geometry DEF HostTypes
<1> QED BY <1>1 DEF HostTypes

LEMMA SpiWriteWordType ==
  ASSUME FlashTypes, SpiWriteWord
  PROVE  FlashTypes'
<1>1. script # <<>> /\ Now.k = "tx" /\ script' = Tail(script)
  BY DEF SpiWriteWord, At, Now, Advance
<1>2. Now \in Items(call) /\ Tail(script) \in Seq(Items(call))
  BY <1>1, HeadType
<1>3. [op |-> Now.op, addr |-> Now.addr, bytes |-> <<>>] \in TxWords
  <2>1. Now.op \in Opcodes /\ Now.addr \in Cells
    BY <1>1, <1>2 DEF Items, Marks
  <2> QED BY <2>1 DEF TxWords
<1>4. HostTypes'
  BY <1>3, PushType DEF SpiWriteWord, FlashTypes
<1> QED BY <1>1, <1>2, <1>4, DriverStep DEF SpiWriteWord, drvVars, FlashTypes, DriverTypes

(* A turn of a loop over words leaves a loop over the rest. *)
LEMMA NextWordType ==
  ASSUME FlashTypes, script # <<>>, Now.k \in {"txdata", "rx"}, NextWord
  PROVE  /\ Bytewise \in 1..W /\ Bytewise <= Now.n /\ Now.off \in Nat /\ Now.n \in Nat \ {0}
         /\ (Now.k = "txdata" => Now.off + Bytewise <= SourceLen(call))
         /\ script' \in Seq(Items(call))
<1>1. Now \in Items(call) /\ Tail(script) \in Seq(Items(call))
  BY HeadType
<1>2. /\ Now.off \in Nat /\ Now.n \in Nat \ {0}
      /\ (Now.k = "txdata" => Now.n <= Page /\ Now.off + Now.n <= SourceLen(call))
  BY <1>1, Geometry DEF Items, Marks
<1>3. Bytewise \in 1..W /\ Bytewise <= Now.n
  BY <1>2, Geometry DEF Bytewise, Lesser
<1>4. SourceLen(call) \in Nat
  BY SourceLenType DEF FlashTypes, DriverTypes
<1> HIDE DEF Bytewise
<1>5. /\ Now.off + Bytewise \in Nat /\ Now.n - Bytewise \in Nat
      /\ (Now.k = "txdata" => Now.n - Bytewise <= Page
            /\ (Now.off + Bytewise) + (Now.n - Bytewise) <= SourceLen(call)
            /\ Now.off + Bytewise <= SourceLen(call))
  BY <1>2, <1>3, <1>4, Geometry
<1>6. Words(Now.k, Now.off + Bytewise, Now.n - Bytewise) \in Seq(Items(call))
  BY <1>5, WordsType
<1>7. script' \in Seq(Items(call))
  BY <1>1, <1>6, JoinType DEF NextWord
<1> QED BY <1>2, <1>3, <1>5, <1>7

LEMMA WriteDataType ==
  ASSUME FlashTypes, WriteData
  PROVE  FlashTypes'
<1>1. script # <<>> /\ Now.k = "txdata" /\ NextWord
  BY DEF WriteData, At, Now
<1>2. /\ Bytewise \in 1..W /\ Now.off \in Nat /\ Now.off + Bytewise <= SourceLen(call)
      /\ script' \in Seq(Items(call))
  BY <1>1, NextWordType
<1>3. DataWord(Now.off, Bytewise) \in TxWords
  <2>1. Bytewise \in 0..W
    BY <1>2, Geometry
  <2> QED BY <1>2, <2>1, SourceType DEF FlashTypes
<1>4. HostTypes'
  BY <1>3, PushType DEF WriteData, FlashTypes
<1> QED BY <1>1, <1>2, <1>4, DriverStep DEF WriteData, drvVars, FlashTypes, DriverTypes

LEMMA WriteRegType ==
  ASSUME FlashTypes, WriteReg
  PROVE  FlashTypes'
<1>1. script # <<>> /\ Now.k = "txreg" /\ script' = Tail(script)
  BY DEF WriteReg, At, Now, Advance
<1>2. Tail(script) \in Seq(Items(call))
  BY <1>1, HeadType
<1>3. [op |-> "data", addr |-> 0,
       bytes |-> [i \in 1..W |-> IF i = 1 THEN reg \cup {1} ELSE {}]] \in TxWords
  <2>1. reg \cup {1} \in Bytes /\ {} \in Bytes
    BY DEF FlashTypes, DriverTypes, Bytes, Bits
  <2>2. [i \in 1..W |-> IF i = 1 THEN reg \cup {1} ELSE {}] \in RxWords
    BY <2>1 DEF RxWords
  <2> QED BY <2>2 DEF TxWords
<1>4. HostTypes'
  BY <1>3, PushType DEF WriteReg, FlashTypes
<1> QED BY <1>1, <1>2, <1>4, DriverStep DEF WriteReg, drvVars, FlashTypes, DriverTypes

LEMMA SpiSetCommandType ==
  ASSUME FlashTypes, SpiSetCommand
  PROVE  FlashTypes'
<1>1. script # <<>> /\ Now.k = "cmd" /\ script' = Tail(script)
  BY DEF SpiSetCommand, At, Now, Advance
<1>2. Now \in Items(call) /\ Tail(script) \in Seq(Items(call))
  BY <1>1, HeadType
<1>3. [dir |-> Now.dir, len |-> Now.len, csaat |-> Now.csaat] \in Segments
  <2>1. Now.dir \in {"TX", "RX", "DUMMY"} /\ Now.len \in 1..Size /\ Now.csaat \in BOOLEAN
    BY <1>1, <1>2 DEF Items, Marks
  <2> QED BY <2>1 DEF Segments
<1>4. HostTypes'
  <2>1. CASE Ready
    <3>1. cmds' = Append(cmds, [dir |-> Now.dir, len |-> Now.len, csaat |-> Now.csaat])
      BY <2>1 DEF SpiSetCommand
    <3>2. cmds' \in Seq(Segments) /\ Len(cmds') = Len(cmds) + 1
      BY <1>3, <3>1, AppendType DEF FlashTypes, HostTypes
    <3>3. Len(cmds') <= CmdDepth + 1
      BY <2>1, <3>2, Geometry DEF Ready, FlashTypes, HostTypes
    <3> QED BY <3>2, <3>3 DEF SpiSetCommand, FlashTypes, HostTypes
  <2>2. CASE ~Ready
    BY <2>2 DEF SpiSetCommand, FlashTypes, HostTypes
  <2> QED BY <2>1, <2>2
<1> QED BY <1>1, <1>2, <1>4, DriverStep DEF SpiSetCommand, drvVars, FlashTypes, DriverTypes

LEMMA SpiReadWordType ==
  ASSUME FlashTypes, SpiReadWord
  PROVE  FlashTypes'
<1>1. script # <<>> /\ Now.k = "rx" /\ NextWord
  BY DEF SpiReadWord, At, Now
<1>2. Bytewise \in 1..W /\ Now.off \in Nat /\ script' \in Seq(Items(call))
  BY <1>1, NextWordType
<1>3. Bytewise \in 0..W /\ buf \in [0..Sector-1 -> Bytes]
  BY <1>2, Geometry DEF FlashTypes, DriverTypes
<1>4. CASE rx # <<>>
  <2>1. Head(rx) \in RxWords /\ Tail(rx) \in Seq(RxWords) /\ Len(Tail(rx)) <= RxDepth
    BY <1>4, TailType, Geometry DEF FlashTypes, HostTypes
  <2>2. HostTypes'
    BY <1>4, <2>1 DEF SpiReadWord, FlashTypes, HostTypes
  <2>3. buf' \in [0..Sector-1 -> Bytes]
    BY <1>2, <1>3, <1>4, <2>1, StoredType DEF SpiReadWord
  <2> QED BY <1>1, <1>2, <2>2, <2>3, DriverStep DEF SpiReadWord, FlashTypes, DriverTypes
<1>5. CASE rx = <<>>
  <2>1. [i \in 1..W |-> {}] \in RxWords
    BY DEF RxWords, Bytes
  <2>2. buf' \in [0..Sector-1 -> Bytes]
    BY <1>2, <1>3, <1>5, <2>1, StoredType DEF SpiReadWord
  <2>3. HostTypes'
    BY <1>5 DEF SpiReadWord, FlashTypes, HostTypes
  <2> QED BY <1>1, <1>2, <2>2, <2>3, DriverStep DEF SpiReadWord, FlashTypes, DriverTypes
<1> QED BY <1>4, <1>5

(* A register is the first byte of a word. *)
LEMMA RegisterType ==
  ASSUME FlashTypes, rx # <<>>
  PROVE  /\ Head(rx)[1] \in Bytes /\ Tail(rx) \in Seq(RxWords)
         /\ Len(Tail(rx)) <= RxDepth
<1>1. Head(rx) \in RxWords /\ Tail(rx) \in Seq(RxWords) /\ Len(Tail(rx)) <= RxDepth
  BY TailType, Geometry DEF FlashTypes, HostTypes
<1> QED BY <1>1, Geometry DEF RxWords

LEMMA ReadRegType ==
  ASSUME FlashTypes, ReadReg
  PROVE  FlashTypes'
<1>1. script # <<>> /\ Now.k = "rxreg" /\ script' = Tail(script) /\ rx # <<>>
  BY DEF ReadReg, At, Now, Advance
<1>2. Tail(script) \in Seq(Items(call))
  BY <1>1, HeadType
<1>3. HostTypes' /\ reg' \in Bytes
  BY <1>1, RegisterType DEF ReadReg, FlashTypes, HostTypes
<1> QED BY <1>1, <1>2, <1>3, DriverStep DEF ReadReg, FlashTypes, DriverTypes

LEMMA PollReadType ==
  ASSUME FlashTypes, PollRead
  PROVE  FlashTypes'
<1>1. script # <<>> /\ Now.k = "poll" /\ rx # <<>>
  BY DEF PollRead, At, Now
<1>2. Tail(script) \in Seq(Items(call))
  BY <1>1, HeadType
<1>3. script' \in Seq(Items(call))
  <2>1. Poll \o Tail(script) \in Seq(Items(call))
    BY <1>2, LocalTypes, JoinType
  <2> QED BY <1>2, <2>1 DEF PollRead
<1>4. HostTypes'
  BY <1>1, RegisterType DEF PollRead, FlashTypes, HostTypes
<1> QED BY <1>1, <1>3, <1>4, DriverStep DEF PollRead, drvVars, FlashTypes, DriverTypes

LEMMA UnfoldType ==
  ASSUME FlashTypes, Unfold
  PROVE  FlashTypes'
<1>1. script # <<>> /\ Now.k \in Bodies /\ script' = Body(Now) \o Tail(script)
  BY DEF Unfold
<1>2. Now \in Items(call) /\ Tail(script) \in Seq(Items(call)) /\ CallShape(call)
  BY <1>1, HeadType DEF FlashTypes, DriverTypes
<1>3. script' \in Seq(Items(call))
  BY <1>1, <1>2, TurnTypes, JoinType
<1>4. HostTypes'
  BY DEF Unfold, FlashTypes, HostTypes, hostVars
<1> QED BY <1>1, <1>3, <1>4, DriverStep DEF Unfold, Bodies, drvVars, FlashTypes, DriverTypes

LEMMA Inside ==
  ASSUME NEW to \in Nat, NEW off \in Nat, NEW n \in Nat, NEW j \in to..to+n-1,
         NEW len \in Nat, off + n <= len
  PROVE  off + j - to + 1 \in 1..len
  OBVIOUS

LEMMA MergeType ==
  ASSUME FlashTypes, Merge
  PROVE  FlashTypes'
<1>1. script # <<>> /\ Now.k = "memcpy" /\ script' = Tail(script)
  BY DEF Merge, At, Now, Advance
<1>2. Now \in Items(call) /\ Tail(script) \in Seq(Items(call)) /\ CallShape(call)
  BY <1>1, HeadType DEF FlashTypes, DriverTypes
<1>3. /\ Now.to \in Nat /\ Now.off \in Nat /\ Now.n \in Nat
      /\ Now.to + Now.n <= Sector /\ Now.off + Now.n <= Len(call.data)
  BY <1>1, <1>2 DEF Items, Marks
<1>4. \A i \in Now.to..Now.to+Now.n-1 : call.data[Now.off + i - Now.to + 1] \in Bytes
  <2> TAKE i \in Now.to..Now.to+Now.n-1
  <2>1. call.data \in Seq(Bytes) /\ Len(call.data) \in Nat
    BY <1>2 DEF CallShape
  <2>4. Now.off + i - Now.to + 1 \in 1..Len(call.data)
    BY <1>3, <2>1, Inside
  <2> QED BY <2>1, <2>4
<1>5. buf' \in [0..Sector-1 -> Bytes]
  BY <1>4 DEF Merge, FlashTypes, DriverTypes
<1>6. HostTypes'
  BY DEF Merge, FlashTypes, HostTypes, hostVars
<1> QED BY <1>1, <1>2, <1>5, <1>6, DriverStep DEF Merge, FlashTypes, DriverTypes

(* The waits, and the watermark. *)
LEMMA WaitType ==
  ASSUME FlashTypes, SpiWaitForReady \/ SpiSetRxWatermark \/ SpiWaitForRxWatermark
  PROVE  FlashTypes'
<1>1. /\ script # <<>> /\ Now.k \in {"ready", "rxwm", "rxwait"} /\ script' = Tail(script)
      /\ UNCHANGED <<chipVars, dmaVars, drvVars, events, cmds, tx, rx>>
      /\ rxwm' = IF Now.k = "rxwm" THEN Now.n ELSE rxwm
  BY DEF SpiWaitForReady, SpiSetRxWatermark, SpiWaitForRxWatermark, At, Now, Advance, hostVars
<1>2. Now \in Items(call) /\ Tail(script) \in Seq(Items(call))
  BY <1>1, HeadType
<1>3. Now.n \in Nat
  BY <1>1, <1>2 DEF Items, Marks
<1>4. HostTypes'
  BY <1>1, <1>3 DEF FlashTypes, HostTypes
<1> QED BY <1>1, <1>2, <1>4, DriverStep DEF drvVars, FlashTypes, DriverTypes

LEMMA DmaSendToFlashType ==
  ASSUME FlashTypes, DmaSendToFlash
  PROVE  FlashTypes'
<1>1. script # <<>> /\ Now.k = "dmatx"
  BY DEF DmaSendToFlash, At, Now
<1>2. Now \in Items(call) /\ Tail(script) \in Seq(Items(call)) /\ dma.dir # "tx"
  BY <1>1, HeadType
<1>3. /\ Now.off \in Nat /\ Now.n \in Nat /\ Now.n >= 1 /\ Now.n <= Page
      /\ Now.off + Now.n <= SourceLen(call)
  BY <1>1, <1>2, Geometry DEF Items, Marks
<1>4. SourceLen(call) \in Nat
  BY SourceLenType DEF FlashTypes, DriverTypes
<1>5. ChipTypes' /\ HostTypes' /\ UNCHANGED <<call, buf, reg, res, up, pre, events>>
  BY DEF DmaSendToFlash, FlashTypes, ChipTypes, HostTypes, chipVars, hostVars, drvVars
<1>6. CASE script' = Tail(script) /\ UNCHANGED dma
  BY <1>2, <1>5, <1>6 DEF FlashTypes, DmaTypes, DriverTypes
<1>7. CASE /\ Now.n >= W
           /\ dma' = [dir |-> "tx", off |-> Now.off, left |-> Now.n \div W]
           /\ script' = << Step("dmawait", 0, 0) >>
                        \o Words("txdata", Now.off + Now.n - (Now.n % W), Now.n % W)
                        \o Tail(script)
  <2>0. W \in Nat \ {0}
    BY Geometry
  <2>1. /\ Now.n \div W \in Nat /\ Now.n % W \in Nat /\ Now.n % W <= Now.n
        /\ Now.n = W * (Now.n \div W) + (Now.n % W) /\ Now.n \div W <= Now.n /\ Now.n % W < W
    BY <1>3, <2>0, Divide
  <2>2. Now.n \div W > 0
    <3>1. \A a, b, q, r \in Nat : a >= b /\ a = b * q + r /\ r < b => q # 0
      BY SMT
    <3>2. Now.n \div W # 0
      BY <1>3, <1>7, <2>0, <2>1, <3>1
    <3> QED BY <2>1, <3>2
  <2> DEFINE q == Now.n \div W
             r == Now.n % W
  <2>3. q \in Nat /\ r \in Nat /\ W * q = q * W /\ W * q \in Nat /\ Now.n = W * q + r /\ q > 0
        /\ q <= Now.n /\ r <= Now.n /\ r < W
    BY <2>0, <2>1, <2>2
  <2> HIDE DEF q, r
  <2>4. /\ Now.off + Now.n - r \in Nat /\ r <= Page
        /\ (Now.off + Now.n - r) + r <= SourceLen(call) /\ q \in 0..Sector
        /\ Now.off + q * W <= SourceLen(call)
    BY <1>3, <1>4, <2>0, <2>3, Geometry
  <2>5. Words("txdata", Now.off + Now.n - r, r) \in Seq(Items(call))
    BY <2>3, <2>4, WordsType
  <2>6. Step("dmawait", 0, 0) \in Items(call)
    BY StepType DEF Marks
  <2>7. /\ script' = << Step("dmawait", 0, 0) >>
                     \o (Words("txdata", Now.off + Now.n - r, r) \o Tail(script))
        /\ dma' = [dir |-> "tx", off |-> Now.off, left |-> q]
    <3>1. << Step("dmawait", 0, 0) >> \in Seq(Items(call))
      BY <2>6
    <3>2. script' = (<< Step("dmawait", 0, 0) >> \o Words("txdata", Now.off + Now.n - r, r))
                    \o Tail(script)
      BY <1>7 DEF r
    <3> HIDE DEF r
    <3>3. script' = << Step("dmawait", 0, 0) >>
                     \o (Words("txdata", Now.off + Now.n - r, r) \o Tail(script))
      BY <1>2, <2>5, <3>1, <3>2, Assoc
    <3> QED BY <1>7, <3>3 DEF q
  <2>8. Words("txdata", Now.off + Now.n - r, r) \o Tail(script) \in Seq(Items(call))
    BY <1>2, <2>5, JoinType
  <2>9. script' \in Seq(Items(call)) /\ script' # <<>> /\ Head(script') = Step("dmawait", 0, 0)
    BY <2>6, <2>7, <2>8
  <2>10. Head(script').k = "dmawait"
    BY <2>9 DEF Step
  <2>11. SourceLen(call)' = SourceLen(call)
    BY <1>5 DEF SourceLen
  <2>12. DmaTypes'
    BY <1>3, <2>3, <2>4, <2>7, <2>9, <2>10, <2>11 DEF DmaTypes
  <2> QED BY <1>5, <2>9, <2>12 DEF FlashTypes, DriverTypes
<1> QED BY <1>6, <1>7 DEF DmaSendToFlash, Advance

LEMMA DmaLaunchReadType ==
  ASSUME FlashTypes, DmaLaunchRead
  PROVE  FlashTypes'
<1>1. script # <<>> /\ Now.k = "dmarx" /\ script' = Tail(script)
  BY DEF DmaLaunchRead, At, Now, Advance
<1>2. Now \in Items(call) /\ Tail(script) \in Seq(Items(call)) /\ dma.dir # "tx"
  BY <1>1, HeadType
<1>3. Now.n \in 0..Sector
  BY <1>1, <1>2 DEF Items, Marks
<1>4. ChipTypes' /\ HostTypes' /\ UNCHANGED <<call, buf, reg, res, up, pre, events>>
  BY DEF DmaLaunchRead, FlashTypes, ChipTypes, HostTypes, chipVars, hostVars, drvVars
<1>5. CASE Now.fn \in critical'
  <2>1. UNCHANGED dma
    BY <1>5 DEF DmaLaunchRead
  <2> QED BY <1>1, <1>2, <1>4, <2>1 DEF FlashTypes, DmaTypes, DriverTypes
<1>6. CASE Now.fn \notin critical'
  <2>1. Now.n # 0
    BY <1>6 DEF DmaLaunchRead
  <2>2. dma' = [dir |-> "rx", off |-> 0, left |-> Now.n]
    BY <1>6 DEF DmaLaunchRead
  <2>3. Now.n > 0
    BY <1>3, <2>1, Geometry
  <2>4. DmaTypes'
    BY <1>3, <2>2, <2>3 DEF DmaTypes
  <2> QED BY <1>1, <1>2, <1>4, <2>4 DEF FlashTypes, DriverTypes
<1> QED BY <1>5, <1>6

LEMMA DmaWaitType ==
  ASSUME FlashTypes, DmaWait
  PROVE  FlashTypes'
<1>1. script # <<>> /\ dma = NoDma /\ script' = Tail(script)
      /\ UNCHANGED <<chipVars, hostVars, dmaVars, drvVars, events>>
  BY DEF DmaWait, At, Advance
<1>2. Tail(script) \in Seq(Items(call))
  BY <1>1, HeadType
<1>3. ChipTypes' /\ HostTypes' /\ DriverTypes'
  BY <1>1, <1>2
     DEF FlashTypes, ChipTypes, HostTypes, DriverTypes, chipVars, hostVars, drvVars
<1>4. DmaTypes'
  BY <1>1, Geometry DEF DmaTypes, FlashTypes, NoDma, dmaVars
<1> QED BY <1>3, <1>4 DEF FlashTypes

LEMMA ReturnStatusType ==
  ASSUME FlashTypes, ReturnStatus
  PROVE  FlashTypes'
<1>1. /\ script # <<>> /\ script' = <<>>
      /\ UNCHANGED <<chipVars, hostVars, dmaVars, call, buf, reg, pre, events>>
  BY DEF ReturnStatus, Finish, At
<1>2. res' \in Statuses
  <2>1. CASE At("ret") /\ Finish(Now.status)
    <3>1. Now \in Items(call) /\ Now.k = "ret"
      BY <1>1, <2>1, HeadType DEF At, Now
    <3>2. Now.status \in Statuses
      BY <3>1 DEF Items, Marks, Statuses
    <3> QED BY <2>1, <3>2 DEF Finish
  <2>2. CASE At("retqe")
    BY <2>2 DEF ReturnStatus, Finish, Statuses, At
  <2> QED BY <2>1, <2>2 DEF ReturnStatus
<1>3. up' \in BOOLEAN
  <2>1. PICK status : Finish(status)
    BY DEF ReturnStatus
  <2>2. CASE call.fn = "init"
    BY <2>1, <2>2 DEF Finish
  <2>3. CASE call.fn = "power_down"
    BY <2>1, <2>3 DEF Finish
  <2>4. CASE call.fn # "init" /\ call.fn # "power_down"
    BY <2>1, <2>4 DEF Finish, FlashTypes, DriverTypes
  <2> QED BY <2>2, <2>3, <2>4
<1>4. dma.dir # "tx"
  <2>1. Now.k # "dmawait"
    BY DEF ReturnStatus, At, Now
  <2> QED BY <1>1, <2>1, HeadType
<1>5. ChipTypes' /\ HostTypes' /\ DriverTypes'
  BY <1>1, <1>2, <1>3
     DEF FlashTypes, ChipTypes, HostTypes, DriverTypes, chipVars, hostVars
<1>6. DmaTypes'
  BY <1>1, <1>4 DEF DmaTypes, FlashTypes, dmaVars
<1> QED BY <1>5, <1>6 DEF FlashTypes

LEMMA ProceedType ==
  ASSUME FlashTypes, Proceed
  PROVE  FlashTypes'
  BY SpiWriteWordType, WriteDataType, WriteRegType, SpiSetCommandType, WaitType,
     SpiReadWordType, ReadRegType, PollReadType, DmaSendToFlashType, UnfoldType,
     DmaLaunchReadType, DmaWaitType, MergeType, ReturnStatusType, Zenon DEF Proceed

(***************************************************************************)
(* Calls and resets.                                                       *)
(***************************************************************************)
LEMMA CallTypes ==
  ASSUME FlashTypes, Idle, CallShape(call'), script' \in Seq(Items(call')), res' = "none",
         UNCHANGED <<chipVars, hostVars, dmaVars, buf, reg, up>>,
         events' \in Nat, pre' \in [Cells -> Bytes]
  PROVE  FlashTypes'
<1>1. dma.dir # "tx"
  BY DEF FlashTypes, DmaTypes, Idle
<1>2. ChipTypes' /\ HostTypes' /\ DriverTypes'
  BY DEF FlashTypes, ChipTypes, HostTypes, DriverTypes, chipVars, hostVars, Statuses
<1>3. DmaTypes'
  BY <1>1 DEF DmaTypes, FlashTypes, dmaVars
<1> QED BY <1>2, <1>3 DEF FlashTypes

LEMMA BeginType ==
  ASSUME FlashTypes, NEW r, r = InitCall \/ r \in Requests, Begin(r), events' \in Nat
  PROVE  FlashTypes'
<1>1. CallShape(r) /\ Script(r) \in Seq(Items(r))
  BY RequestShape, InitCallShape, ScriptType
<1>2. Settled \in [Cells -> Bytes]
  BY EffectType DEF Settled, FlashTypes, ChipTypes
<1>3. call' = r /\ script' = Script(r) /\ res' = "none" /\ pre' = Settled /\ Idle
      /\ UNCHANGED <<chipVars, hostVars, dmaVars, buf, reg, up>>
  BY DEF Begin
<1> QED BY <1>1, <1>2, <1>3, CallTypes

LEMMA AwaitReadType ==
  ASSUME FlashTypes, AwaitRead
  PROVE  FlashTypes'
<1>1. /\ call' = [call EXCEPT !.fn = "read"] /\ call.fn = "async" /\ Idle /\ res' = "none"
      /\ script' = w25q128jw_wait_quad_dma_async(call.n) \o Return("OK")
      /\ UNCHANGED <<chipVars, hostVars, dmaVars, buf, reg, up, pre, events>>
  BY DEF AwaitRead, Awaited
<1>2. CallShape(call) /\ call.n \in 0..Sector
  <2>1. CallShape(call)
    BY DEF FlashTypes, DriverTypes
  <2>2. call.n \in Nat /\ call.n <= Sector
    BY <1>1, <2>1 DEF CallShape, ReadFunctions
  <2> QED BY <2>1, <2>2, Geometry
<1>3. CallShape(call')
  <2>1. call' = Request("read", call.how, call.addr, call.n, call.data, call.align)
    BY <1>1, <1>2 DEF CallShape, Request
  <2> QED BY <1>1, <1>2, <2>1 DEF CallShape, Request, ReadFunctions
<1>4. script' \in Seq(Items(call'))
  BY <1>1, <1>2, DmaTypesOfReads, ReturnType, JoinType DEF w25q128jw_wait_quad_dma_async
<1>5. events' \in Nat /\ pre' \in [Cells -> Bytes]
  BY <1>1 DEF FlashTypes, DriverTypes
<1> QED BY <1>1, <1>3, <1>4, <1>5, CallTypes

LEMMA SocResetType ==
  ASSUME FlashTypes, SocReset
  PROVE  FlashTypes'
<1>1. /\ events' \in Nat /\ cmds' = <<>> /\ tx' = <<>> /\ rx' = <<>> /\ rxwm' = 0
      /\ dma' = NoDma /\ script' = <<>> /\ res' = "reset" /\ up' = FALSE
      /\ buf' = ZeroBuf /\ reg' = {} /\ UNCHANGED <<call, pre>>
  BY DEF SocReset, FlashTypes, DriverTypes
<1>2. HostTypes'
  BY <1>1, Geometry DEF HostTypes
<1>3. DmaTypes'
  BY <1>1, Geometry DEF DmaTypes, NoDma
<1>4. DriverTypes'
  <2>1. buf' \in [0..Sector-1 -> Bytes] /\ reg' \in Bytes
    BY <1>1 DEF ZeroBuf, Bytes
  <2>2. script' \in Seq(Items(call)') /\ CallShape(call')
    BY <1>1 DEF DriverTypes, FlashTypes
  <2> QED BY <1>1, <2>1, <2>2 DEF DriverTypes, FlashTypes, Statuses
<1>5. ChipTypes'
  <2>1. frame \in Frames
    BY DEF FlashTypes, ChipTypes, Frames
  <2>2. CASE UNCHANGED chipVars
    BY <2>2 DEF FlashTypes, ChipTypes, chipVars
  <2>3. CASE Deselect(frame)
    BY <2>1, <2>3, DeselectType DEF FlashTypes
  <2> QED BY <2>2, <2>3 DEF SocReset
<1> QED BY <1>2, <1>3, <1>4, <1>5 DEF FlashTypes

LEMMA InitType ==
  ASSUME Init
  PROVE  FlashTypes
<1>1. ChipTypes
  <2>1. mem \in [Cells -> Bytes] /\ sr2 \in Bytes
    BY RequestAssumption DEF Init, Bytes, Bits
  <2> QED BY <2>1, NoJobType, NoFrameType DEF Init, ChipTypes, Frames
<1>2. HostTypes
  BY Geometry DEF Init, HostTypes
<1>3. DmaTypes
  BY Geometry DEF Init, DmaTypes, NoDma
<1>4. DriverTypes
  <2>1. buf \in [0..Sector-1 -> Bytes] /\ reg \in Bytes
    BY DEF Init, ZeroBuf, Bytes
  <2>2. pre \in [Cells -> Bytes]
    BY <1>1 DEF Init, ChipTypes
  <2>3. script \in Seq(Items(call)) /\ CallShape(call)
    BY InitCallShape DEF Init
  <2>4. res \in Statuses /\ up \in BOOLEAN /\ events \in Nat
    BY DEF Init, Statuses
  <2> QED BY <2>1, <2>2, <2>3, <2>4 DEF DriverTypes
<1> QED BY <1>1, <1>2, <1>3, <1>4 DEF FlashTypes

LEMMA NextType ==
  ASSUME FlashTypes, [Next]_vars
  PROVE  FlashTypes'
<1>1. CASE CallInit
  <2>1. Begin(InitCall) /\ events' \in Nat
    BY <1>1 DEF CallInit, FlashTypes, DriverTypes
  <2> QED BY <2>1, BeginType
<1>2. CASE \E r \in Requests : Call(r)
  <2>1. PICK r \in Requests : Call(r)
    BY <1>2
  <2>2. Begin(r) /\ events' \in Nat
    BY <2>1 DEF Call, FlashTypes, DriverTypes
  <2> QED BY <2>2, BeginType
<1>3. CASE UNCHANGED vars
  BY <1>3 DEF vars, chipVars, hostVars, dmaVars, drvVars, FlashTypes, ChipTypes, HostTypes,
              DmaTypes, DriverTypes
<1> QED BY <1>1, <1>2, <1>3, AwaitReadType, ProceedType, ShiftType, DmaMoveType,
           ChipDoneType, SocResetType DEF Next

LEMMA FlashTypesOK ==
  ASSUME FlashTypes
  PROVE  TypeOK
<1>1. job.addr \in Cells /\ frame.addr \in Cells
  BY DEF FlashTypes, ChipTypes
<1>2. \A i \in 1..Len(cmds) : cmds[i].len \in 1..Size
  <2>1. \A i \in 1..Len(cmds) : cmds[i] \in Segments
    BY DEF FlashTypes, HostTypes
  <2> QED BY <2>1 DEF Segments
<1> QED BY <1>1, <1>2
        DEF TypeOK, FlashTypes, ChipTypes, HostTypes, DmaTypes, DriverTypes, Statuses

(* Every variable of driver, SPI host, DMA channel and chip stays in its   *)
(* range, the lengths and addresses of what is left on the script and the  *)
(* words in the FIFOs included: the inductive form of TypeOK.              *)
THEOREM FlashTyped == Spec => []FlashTypes
<1>1. Init => FlashTypes
  BY InitType
<1>2. FlashTypes /\ [Next]_vars => FlashTypes'
  BY NextType
<1> QED BY <1>1, <1>2, PTL DEF Spec

(* The state of the driver, the SPI host, the DMA channel and the chip is  *)
(* well formed whatever the driver is called with: every index into the    *)
(* sector buffer and the caller's data is in range, every length fits the  *)
(* length register, no FIFO holds more than its depth, no address is       *)
(* beyond the end of the chip.                                             *)
THEOREM FlashTypeCorrect == Spec => []TypeOK
<1>1. FlashTypes => TypeOK
  BY FlashTypesOK
<1> QED BY <1>1, FlashTyped, PTL

(***************************************************************************)
(* Sections and their tables.                                              *)
(***************************************************************************)
Length(s) == Len(SectionItems(s))

(* What the (i+1)-th access of a section adds to its words and segments. *)
Row(s, i) ==
  LET a == SectionItems(s)[i+1] IN
  /\ a.k \in {"tx", "cmd", "ready", "rxwm", "rxwait", "rxreg", "poll", "txreg", "txdata", "dmatx",
              "dmarx", "dmawait"}
  /\ a.k = "tx" => /\ a.op = WordOp(s, Pushed(s, i) + 1) /\ a.addr = WordAddr(s, Pushed(s, i) + 1)
                   /\ ~(s.kind = "enable" /\ Pushed(s, i) = 2)
  /\ a.k = "txreg" => s.kind = "enable" /\ Pushed(s, i) = 2
  /\ Pushed(s, i+1) = Pushed(s, i) + (IF a.k \in {"tx", "txreg"} THEN 1
                                      ELSE IF a.k \in {"txdata", "dmatx"} THEN N(s) ELSE 0)
  /\ a.k = "cmd" => /\ Issued(s, i) < Len(Segs(s))
                    /\ a.dir = Segs(s)[Issued(s, i) + 1].dir
                    /\ a.len = Segs(s)[Issued(s, i) + 1].len
                    /\ a.csaat = Segs(s)[Issued(s, i) + 1].csaat
                    /\ i + 1 < Length(s) /\ SectionItems(s)[i+2] = Go
  /\ Issued(s, i+1) = Issued(s, i) + (IF a.k = "cmd" THEN 1 ELSE 0)
  /\ a.k \in {"txdata", "dmatx"} => i = 6 /\ s.kind = "program"
  /\ a.k \in {"rxreg", "poll"} => i + 1 = Length(s)
  /\ a.k = "rxreg" => s.kind = "wake"
  /\ a.k = "poll" => s.kind \in (Pairs \ {"wake"}) \cup Writes
  /\ a.k = "dmarx" => s.kind \in ReadKinds /\ a = Launch(s) /\ Launches(s, i) = 0
                      /\ i + 1 < Length(s) /\ s.via # "cpu"
  /\ Launches(s, i+1) = Launches(s, i) + (IF a.k = "dmarx" THEN 1 ELSE 0)
  /\ a.k = "dmawait" => i + 1 = Length(s) /\ Launches(s, i) = 1 /\ s.kind \in ReadKinds /\ s.via # "cpu"
  /\ i + 1 = Length(s) =>
       /\ Issued(s, i+1) = Len(Segs(s)) /\ Pushed(s, i+1) = Taken(s, Len(Segs(s)), 0)
       /\ a.k \in {"rxreg", "poll", "dmawait"} \/ (a = Go /\ s.kind \in ReadKinds /\ s.via = "cpu")

(* The fields of an access that sends a command word. *)
LEMMA CommandFields ==
  ASSUME NEW op, NEW addr
  PROVE  /\ Command(op, addr).k = "tx" /\ Command(op, addr).op = op
         /\ Command(op, addr).addr = addr
  BY DEF Command

(* The access that issues a segment. *)
ItemOf(e) == [k |-> "cmd", dir |-> e.dir, len |-> e.len, csaat |-> e.csaat]

(* The access that issues a segment is one of its direction and length. *)
LEMMA ItemOfSeg ==
  ASSUME NEW d, NEW n
  PROVE  ItemOf(Seg(d, n)) = Item(d, n) /\ ItemOf(HeldSeg(d, n)) = HeldItem(d, n)
  BY DEF ItemOf, Seg, HeldSeg, Item, HeldItem

(* The rows of the tables, by kind of access. *)
LEMMA RowTx ==
  ASSUME NEW s, NEW i, NEW q, SectionItems(s)[i+1] = Command(WordOp(s, q+1), WordAddr(s, q+1)),
         Pushed(s, i) = q, Pushed(s, i+1) = q + 1, Issued(s, i+1) = Issued(s, i), Issued(s, i) \in Nat,
         Launches(s, i+1) = Launches(s, i), Launches(s, i) \in Nat, i + 1 # Length(s), ~(s.kind = "enable" /\ q = 2)
  PROVE  Row(s, i)
<1> DEFINE a == Command(WordOp(s, q+1), WordAddr(s, q+1))
<1>1. a.k = "tx" /\ a.op = WordOp(s, q+1) /\ a.addr = WordAddr(s, q+1)
  BY CommandFields
<1> HIDE DEF a
<1> QED BY <1>1 DEF Row, a

LEMMA RowCmd ==
  ASSUME NEW s, NEW i \in Nat, NEW g \in Nat, SectionItems(s)[i+1] = ItemOf(Segs(s)[g+1]),
         Issued(s, i) = g, Issued(s, i+1) = g + 1, g < Len(Segs(s)), SectionItems(s)[i+2] = Go,
         Pushed(s, i+1) = Pushed(s, i), Pushed(s, i) \in Nat,
         Launches(s, i+1) = Launches(s, i), Launches(s, i) \in Nat, i + 1 < Length(s)
  PROVE  Row(s, i)
<1> DEFINE e == Segs(s)[g+1]
           a == ItemOf(e)
<1>1. a.k = "cmd" /\ a.dir = e.dir /\ a.len = e.len /\ a.csaat = e.csaat
  BY DEF ItemOf
<1> HIDE DEF a, e
<1> QED BY <1>1 DEF Row, a, e

LEMMA RowMark ==
  ASSUME NEW s, NEW i, SectionItems(s)[i+1].k \in {"ready", "rxwm", "rxwait"},
         Pushed(s, i+1) = Pushed(s, i), Issued(s, i+1) = Issued(s, i),
         Pushed(s, i) \in Nat, Issued(s, i) \in Nat,
         Launches(s, i+1) = Launches(s, i), Launches(s, i) \in Nat, i + 1 # Length(s)
  PROVE  Row(s, i)
BY DEF Row

LEMMA RowLast ==
  ASSUME NEW s, NEW i, i + 1 = Length(s),
         Pushed(s, i+1) = Pushed(s, i), Issued(s, i+1) = Issued(s, i),
         Pushed(s, i) = Taken(s, Len(Segs(s)), 0), Issued(s, i) = Len(Segs(s)),
         Pushed(s, i) \in Nat, Issued(s, i) \in Nat,
         Launches(s, i+1) = Launches(s, i), Launches(s, i) \in Nat,
         \/ SectionItems(s)[i+1].k = "rxreg" /\ s.kind = "wake"
         \/ SectionItems(s)[i+1].k = "poll" /\ s.kind \in {"erase", "reset", "enable", "program"}
  PROVE  Row(s, i)
BY DEF Row, Pairs, Writes

LEMMA RowReg ==
  ASSUME NEW s, NEW i, SectionItems(s)[i+1].k = "txreg", s.kind = "enable",
         Pushed(s, i) = 2, Pushed(s, i+1) = 3, Issued(s, i+1) = Issued(s, i), Issued(s, i) \in Nat,
         Launches(s, i+1) = Launches(s, i), Launches(s, i) \in Nat, i + 1 # Length(s)
  PROVE  Row(s, i)
BY DEF Row

LEMMA RowData ==
  ASSUME NEW s, NEW i, SectionItems(s)[i+1].k \in {"txdata", "dmatx"}, s.kind = "program", i = 6,
         Pushed(s, i+1) = Pushed(s, i) + N(s), Issued(s, i+1) = Issued(s, i), Issued(s, i) \in Nat,
         Launches(s, i+1) = Launches(s, i), Launches(s, i) \in Nat, i + 1 # Length(s)
  PROVE  Row(s, i)
BY DEF Row

LEMMA RowLaunch ==
  ASSUME NEW s, NEW i \in Nat, SectionItems(s)[i+1] = Launch(s), s.kind \in ReadKinds, s.via # "cpu",
         Pushed(s, i+1) = Pushed(s, i), Pushed(s, i) \in Nat,
         Issued(s, i+1) = Issued(s, i), Issued(s, i) \in Nat,
         Launches(s, i+1) = 1, Launches(s, i) = 0, i + 1 < Length(s)
  PROVE  Row(s, i)
<1>1. Launch(s).k = "dmarx"
  BY DEF Launch
<1> QED BY <1>1 DEF Row

LEMMA RowAwait ==
  ASSUME NEW s, NEW i, SectionItems(s)[i+1].k = "dmawait", s.kind \in ReadKinds, s.via # "cpu",
         Pushed(s, i+1) = Pushed(s, i), Pushed(s, i) = Taken(s, Len(Segs(s)), 0), Pushed(s, i) \in Nat,
         Issued(s, i+1) = Issued(s, i), Issued(s, i) = Len(Segs(s)), Issued(s, i) \in Nat,
         Launches(s, i+1) = 1, Launches(s, i) = 1, i + 1 = Length(s)
  PROVE  Row(s, i)
BY DEF Row

LEMMA RowEnd ==
  ASSUME NEW s, NEW i, SectionItems(s)[i+1] = Go, s.kind \in ReadKinds, s.via = "cpu",
         Pushed(s, i+1) = Pushed(s, i), Pushed(s, i) = Taken(s, Len(Segs(s)), 0), Pushed(s, i) \in Nat,
         Issued(s, i+1) = Issued(s, i), Issued(s, i) = Len(Segs(s)), Issued(s, i) \in Nat,
         Launches(s, i+1) = Launches(s, i), Launches(s, i) \in Nat, i + 1 = Length(s)
  PROVE  Row(s, i)
<1>1. Go.k = "ready"
  BY DEF Go, Step
<1> QED BY <1>1 DEF Row

(* The kinds of sections. *)
LEMMA Kinds ==
  /\ Go.k = "ready" /\ Step("rxwm", 0, 1).k = "rxwm" /\ Step("rxwait", 0, 0).k = "rxwait"
  /\ Step("rxreg", 0, 0).k = "rxreg" /\ Step("poll", 0, 0).k = "poll" /\ Await.k = "dmawait"
  /\ Step("txreg", 0, 0).k = "txreg"
  BY DEF Await, Step, Go

LEMMA CeilType ==
  ASSUME NEW n \in Nat
  PROVE  Ceil(n) \in Nat
<1>1. n + W - 1 \in Nat /\ W \in Nat \ {0}
  BY Geometry
<1> QED BY <1>1, Divide DEF Ceil

LEMMA WakeTable ==
  ASSUME NEW s \in Sections, s.kind = "wake", Proper(s), NEW i \in 0..13
  PROVE  Row(s, i) /\ Length(s) = 14
<1> DEFINE A == WakeItems
<1>0. s.n \in Nat /\ N(s) \in Nat
  BY CeilType DEF Sections, N
<1>1. SectionItems(s) = A /\ Length(s) = 14
  BY DEF SectionItems, WakeItems, Length, Writes, Await
<1>2. /\ A[1] = Command("PD", 0) /\ A[2] = Item("TX", 1) /\ A[3] = Go /\ A[4] = Command("RPD", 0)
      /\ A[5] = Item("TX", 1) /\ A[6] = Go /\ A[7] = Step("rxwm", 0, 1)
      /\ A[8] = Command("RSR2", 0) /\ A[9] = HeldItem("TX", 1) /\ A[10] = Go
      /\ A[11] = Item("RX", 1) /\ A[12] = Go /\ A[13] = Step("rxwait", 0, 0)
      /\ A[14] = Step("rxreg", 0, 0)
  BY DEF WakeItems
<1> HIDE DEF A
<1>3. /\ Segs(s)[1] = Seg("TX", 1) /\ Segs(s)[2] = Seg("TX", 1) /\ Segs(s)[3] = HeldSeg("TX", 1)
      /\ Segs(s)[4] = Seg("RX", 1) /\ Len(Segs(s)) = 4
  BY DEF Segs, Pairs, Writes, CommandLen
<1>7. /\ ItemOf(Segs(s)[1]) = Item("TX", 1) /\ ItemOf(Segs(s)[2]) = Item("TX", 1)
      /\ ItemOf(Segs(s)[3]) = HeldItem("TX", 1) /\ ItemOf(Segs(s)[4]) = Item("RX", 1)
  BY <1>3, ItemOfSeg
<1>4. /\ WordOp(s, 0 + 1) = "PD" /\ WordAddr(s, 0 + 1) = 0 /\ WordOp(s, 1 + 1) = "RPD"
      /\ WordAddr(s, 1 + 1) = 0 /\ WordOp(s, 2 + 1) = "RSR2" /\ WordAddr(s, 2 + 1) = 0
  BY <1>0 DEF Proper, WordOp, WordAddr, FirstOp, StatusOp, ReadKinds, Writes
<1>5. \A j \in 0..14 :
        /\ Pushed(s, j) = (IF j < 1 THEN 0 ELSE IF j < 4 THEN 1 ELSE IF j < 8 THEN 2 ELSE 3)
        /\ Issued(s, j) = (IF j < 2 THEN 0 ELSE IF j < 5 THEN 1 ELSE IF j < 9 THEN 2 ELSE IF j < 11 THEN 3 ELSE 4)
        /\ Launches(s, j) = 0
  BY <1>0 DEF Proper, Pushed, Issued, Past, Launches, Writes, ReadKinds
<1>6. Taken(s, Len(Segs(s)), 0) = 3
  BY <1>0, <1>3 DEF Taken, Lesser, Pairs, Writes
<1>10. CASE i \in {0, 3, 7}
  BY <1>0, <1>1, <1>2, <1>4, <1>5, <1>10, RowTx
<1>11. CASE i \in {1, 4, 8, 10}
  <2>1. PICK g \in 0..3 : g = Issued(s, i)
    BY <1>5, <1>11
  <2>2. SectionItems(s)[i+1] = ItemOf(Segs(s)[g+1]) /\ SectionItems(s)[i+2] = Go
    BY <1>1, <1>2, <1>5, <1>7, <1>11, <2>1
  <2>3. /\ g < Len(Segs(s)) /\ Issued(s, i+1) = g + 1 /\ Pushed(s, i+1) = Pushed(s, i)
        /\ Pushed(s, i) \in Nat /\ Launches(s, i+1) = Launches(s, i) /\ Launches(s, i) \in Nat
        /\ i + 1 < Length(s)
    BY <1>0, <1>1, <1>3, <1>5, <1>11, <2>1
  <2> QED BY <1>1, <2>1, <2>2, <2>3, RowCmd
<1>12. CASE i \in {2, 5, 6, 9, 11, 12}
  BY <1>0, <1>1, <1>2, <1>5, <1>12, RowMark, Kinds
<1>13. CASE i = 13
  <2>1. /\ i + 1 = Length(s) /\ Pushed(s, i) = Taken(s, Len(Segs(s)), 0)
        /\ Issued(s, i) = Len(Segs(s))
    BY <1>0, <1>1, <1>3, <1>5, <1>6, <1>13
  <2>2. /\ Pushed(s, i+1) = Pushed(s, i) /\ Issued(s, i+1) = Issued(s, i)
        /\ Pushed(s, i) \in Nat /\ Issued(s, i) \in Nat
        /\ Launches(s, i+1) = Launches(s, i) /\ Launches(s, i) \in Nat
    BY <1>0, <1>5, <1>13
  <2>3. SectionItems(s)[i+1].k = "rxreg"
    BY <1>1, <1>2, <1>13, Kinds
  <2> QED BY <1>1, <2>1, <2>2, <2>3, RowLast
<1> QED BY <1>1, <1>10, <1>11, <1>12, <1>13

LEMMA EraseTable ==
  ASSUME NEW s \in Sections, s.kind = "erase", Proper(s), NEW i \in 0..13
  PROVE  Row(s, i) /\ Length(s) = 14
<1> DEFINE A == EraseItems(s)
<1>0. s.n \in Nat /\ N(s) \in Nat
  BY CeilType DEF Sections, N
<1>1. SectionItems(s) = A /\ Length(s) = 14
  BY DEF SectionItems, EraseItems, Length, Writes, Await
<1>2. /\ A[1] = Command("WE", 0) /\ A[2] = Item("TX", 1) /\ A[3] = Go
      /\ A[4] = Command(s.op, s.addr) /\ A[5] = Item("TX", CommandLen(s)) /\ A[6] = Go
      /\ A[7] = Step("rxwm", 0, 1) /\ A[8] = Command("RSR1", 0) /\ A[9] = HeldItem("TX", 1)
      /\ A[10] = Go /\ A[11] = Item("RX", 1) /\ A[12] = Go /\ A[13] = Step("rxwait", 0, 0)
      /\ A[14] = Step("poll", 0, 0)
  BY DEF EraseItems
<1> HIDE DEF A
<1>3. /\ Segs(s)[1] = Seg("TX", 1) /\ Segs(s)[2] = Seg("TX", CommandLen(s))
      /\ Segs(s)[3] = HeldSeg("TX", 1) /\ Segs(s)[4] = Seg("RX", 1) /\ Len(Segs(s)) = 4
  BY DEF Segs, Pairs, Writes, CommandLen
<1>7. /\ ItemOf(Segs(s)[1]) = Item("TX", 1) /\ ItemOf(Segs(s)[2]) = Item("TX", CommandLen(s))
      /\ ItemOf(Segs(s)[3]) = HeldItem("TX", 1) /\ ItemOf(Segs(s)[4]) = Item("RX", 1)
  BY <1>3, ItemOfSeg
<1>4. /\ WordOp(s, 0 + 1) = "WE" /\ WordAddr(s, 0 + 1) = 0 /\ WordOp(s, 1 + 1) = s.op
      /\ WordAddr(s, 1 + 1) = s.addr /\ WordOp(s, 2 + 1) = "RSR1" /\ WordAddr(s, 2 + 1) = 0
  BY <1>0 DEF Proper, WordOp, WordAddr, FirstOp, StatusOp, ReadKinds, Writes
<1>5. \A j \in 0..14 :
        /\ Pushed(s, j) = (IF j < 1 THEN 0 ELSE IF j < 4 THEN 1 ELSE IF j < 8 THEN 2 ELSE 3)
        /\ Issued(s, j) = (IF j < 2 THEN 0 ELSE IF j < 5 THEN 1 ELSE IF j < 9 THEN 2 ELSE IF j < 11 THEN 3 ELSE 4)
        /\ Launches(s, j) = 0
  BY <1>0 DEF Proper, Pushed, Issued, Past, Launches, Writes, ReadKinds
<1>6. Taken(s, Len(Segs(s)), 0) = 3
  BY <1>0, <1>3 DEF Taken, Lesser, Pairs, Writes
<1>10. CASE i \in {0, 3, 7}
  BY <1>0, <1>1, <1>2, <1>4, <1>5, <1>10, RowTx
<1>11. CASE i \in {1, 4, 8, 10}
  <2>1. PICK g \in 0..3 : g = Issued(s, i)
    BY <1>5, <1>11
  <2>2. SectionItems(s)[i+1] = ItemOf(Segs(s)[g+1]) /\ SectionItems(s)[i+2] = Go
    BY <1>1, <1>2, <1>5, <1>7, <1>11, <2>1
  <2>3. /\ g < Len(Segs(s)) /\ Issued(s, i+1) = g + 1 /\ Pushed(s, i+1) = Pushed(s, i)
        /\ Pushed(s, i) \in Nat /\ Launches(s, i+1) = Launches(s, i) /\ Launches(s, i) \in Nat
        /\ i + 1 < Length(s)
    BY <1>0, <1>1, <1>3, <1>5, <1>11, <2>1
  <2> QED BY <1>1, <2>1, <2>2, <2>3, RowCmd
<1>12. CASE i \in {2, 5, 6, 9, 11, 12}
  BY <1>0, <1>1, <1>2, <1>5, <1>12, RowMark, Kinds
<1>13. CASE i = 13
  <2>1. /\ i + 1 = Length(s) /\ Pushed(s, i) = Taken(s, Len(Segs(s)), 0)
        /\ Issued(s, i) = Len(Segs(s))
    BY <1>0, <1>1, <1>3, <1>5, <1>6, <1>13
  <2>2. /\ Pushed(s, i+1) = Pushed(s, i) /\ Issued(s, i+1) = Issued(s, i)
        /\ Pushed(s, i) \in Nat /\ Issued(s, i) \in Nat
        /\ Launches(s, i+1) = Launches(s, i) /\ Launches(s, i) \in Nat
    BY <1>0, <1>5, <1>13
  <2>3. SectionItems(s)[i+1].k = "poll"
    BY <1>1, <1>2, <1>13, Kinds
  <2> QED BY <1>1, <2>1, <2>2, <2>3, RowLast
<1> QED BY <1>1, <1>10, <1>11, <1>12, <1>13

LEMMA ResetTable ==
  ASSUME NEW s \in Sections, s.kind = "reset", Proper(s), NEW i \in 0..14
  PROVE  Row(s, i) /\ Length(s) = 15
<1> DEFINE A == ResetItems
<1>0. s.n \in Nat /\ N(s) \in Nat
  BY CeilType DEF Sections, N
<1>1. SectionItems(s) = A /\ Length(s) = 15
  BY DEF SectionItems, ResetItems, Length, Writes, Await
<1>2. /\ A[1] = Command("ERESET", 0) /\ A[2] = Command("RESET", 0) /\ A[3] = Go
      /\ A[4] = Item("TX", 1) /\ A[5] = Go /\ A[6] = Item("TX", 1) /\ A[7] = Go
      /\ A[8] = Step("rxwm", 0, 1) /\ A[9] = Command("RSR1", 0) /\ A[10] = HeldItem("TX", 1)
      /\ A[11] = Go /\ A[12] = Item("RX", 1) /\ A[13] = Go /\ A[14] = Step("rxwait", 0, 0)
      /\ A[15] = Step("poll", 0, 0)
  BY DEF ResetItems
<1> HIDE DEF A
<1>3. /\ Segs(s)[1] = Seg("TX", 1) /\ Segs(s)[2] = Seg("TX", 1) /\ Segs(s)[3] = HeldSeg("TX", 1)
      /\ Segs(s)[4] = Seg("RX", 1) /\ Len(Segs(s)) = 4
  BY DEF Segs, Pairs, Writes, CommandLen
<1>7. /\ ItemOf(Segs(s)[1]) = Item("TX", 1) /\ ItemOf(Segs(s)[2]) = Item("TX", 1)
      /\ ItemOf(Segs(s)[3]) = HeldItem("TX", 1) /\ ItemOf(Segs(s)[4]) = Item("RX", 1)
  BY <1>3, ItemOfSeg
<1>4. /\ WordOp(s, 0 + 1) = "ERESET" /\ WordAddr(s, 0 + 1) = 0 /\ WordOp(s, 1 + 1) = "RESET"
      /\ WordAddr(s, 1 + 1) = 0 /\ WordOp(s, 2 + 1) = "RSR1" /\ WordAddr(s, 2 + 1) = 0
  BY <1>0 DEF Proper, WordOp, WordAddr, FirstOp, StatusOp, ReadKinds, Writes
<1>5. \A j \in 0..15 :
        /\ Pushed(s, j) = (IF j < 1 THEN 0 ELSE IF j < 2 THEN 1 ELSE IF j < 9 THEN 2 ELSE 3)
        /\ Issued(s, j) = (IF j < 4 THEN 0 ELSE IF j < 6 THEN 1 ELSE IF j < 10 THEN 2 ELSE IF j < 12 THEN 3 ELSE 4)
        /\ Launches(s, j) = 0
  BY <1>0 DEF Proper, Pushed, Issued, Past, Launches, Writes, ReadKinds
<1>6. Taken(s, Len(Segs(s)), 0) = 3
  BY <1>0, <1>3 DEF Taken, Lesser, Pairs, Writes
<1>10. CASE i \in {0, 1, 8}
  BY <1>0, <1>1, <1>2, <1>4, <1>5, <1>10, RowTx
<1>11. CASE i \in {3, 5, 9, 11}
  <2>1. PICK g \in 0..3 : g = Issued(s, i)
    BY <1>5, <1>11
  <2>2. SectionItems(s)[i+1] = ItemOf(Segs(s)[g+1]) /\ SectionItems(s)[i+2] = Go
    BY <1>1, <1>2, <1>5, <1>7, <1>11, <2>1
  <2>3. /\ g < Len(Segs(s)) /\ Issued(s, i+1) = g + 1 /\ Pushed(s, i+1) = Pushed(s, i)
        /\ Pushed(s, i) \in Nat /\ Launches(s, i+1) = Launches(s, i) /\ Launches(s, i) \in Nat
        /\ i + 1 < Length(s)
    BY <1>0, <1>1, <1>3, <1>5, <1>11, <2>1
  <2> QED BY <1>1, <2>1, <2>2, <2>3, RowCmd
<1>12. CASE i \in {2, 4, 6, 7, 10, 12, 13}
  BY <1>0, <1>1, <1>2, <1>5, <1>12, RowMark, Kinds
<1>13. CASE i = 14
  <2>1. /\ i + 1 = Length(s) /\ Pushed(s, i) = Taken(s, Len(Segs(s)), 0)
        /\ Issued(s, i) = Len(Segs(s))
    BY <1>0, <1>1, <1>3, <1>5, <1>6, <1>13
  <2>2. /\ Pushed(s, i+1) = Pushed(s, i) /\ Issued(s, i+1) = Issued(s, i)
        /\ Pushed(s, i) \in Nat /\ Issued(s, i) \in Nat
        /\ Launches(s, i+1) = Launches(s, i) /\ Launches(s, i) \in Nat
    BY <1>0, <1>5, <1>13
  <2>3. SectionItems(s)[i+1].k = "poll"
    BY <1>1, <1>2, <1>13, Kinds
  <2> QED BY <1>1, <2>1, <2>2, <2>3, RowLast
<1> QED BY <1>1, <1>10, <1>11, <1>12, <1>13

LEMMA EnableTable ==
  ASSUME NEW s \in Sections, s.kind = "enable", Proper(s), NEW i \in 0..16
  PROVE  Row(s, i) /\ Length(s) = 17
<1> DEFINE A == WriteItems(s)
<1>0. s.n \in Nat /\ N(s) \in Nat /\ N(s) = 1
  <2>1. s.n = 1 /\ W \in Nat \ {0}
    BY Geometry DEF Proper
  <2>2. (1 + W - 1) \div W = 1
    BY <2>1, SMT
  <2> QED BY <2>1, <2>2 DEF N, Ceil
<1>1. SectionItems(s) = A /\ Length(s) = 17
  BY DEF SectionItems, WriteItems, Length, Writes, Await
<1>2. /\ A[1] = Command("WE", 0) /\ A[2] = Item("TX", 1) /\ A[3] = Go
      /\ A[4] = Command(s.op, s.addr) /\ A[5] = HeldItem("TX", CommandLen(s)) /\ A[6] = Go
      /\ A[7] = Step("txreg", 0, 0) /\ A[8] = Item("TX", s.n) /\ A[9] = Go
      /\ A[10] = Step("rxwm", 0, 1) /\ A[11] = Command("RSR1", 0) /\ A[12] = HeldItem("TX", 1)
      /\ A[13] = Go /\ A[14] = Item("RX", 1) /\ A[15] = Go /\ A[16] = Step("rxwait", 0, 0)
      /\ A[17] = Step("poll", 0, 0)
  BY DEF WriteItems
<1> HIDE DEF A
<1>3. /\ Segs(s)[1] = Seg("TX", 1) /\ Segs(s)[2] = HeldSeg("TX", CommandLen(s))
      /\ Segs(s)[3] = Seg("TX", s.n) /\ Segs(s)[4] = HeldSeg("TX", 1)
      /\ Segs(s)[5] = Seg("RX", 1) /\ Len(Segs(s)) = 5
  BY DEF Segs, Pairs, Writes, CommandLen
<1>7. /\ ItemOf(Segs(s)[1]) = Item("TX", 1) /\ ItemOf(Segs(s)[2]) = HeldItem("TX", CommandLen(s))
      /\ ItemOf(Segs(s)[3]) = Item("TX", s.n) /\ ItemOf(Segs(s)[4]) = HeldItem("TX", 1)
      /\ ItemOf(Segs(s)[5]) = Item("RX", 1)
  BY <1>3, ItemOfSeg
<1>4. /\ WordOp(s, 0 + 1) = "WE" /\ WordAddr(s, 0 + 1) = 0 /\ WordOp(s, 1 + 1) = s.op
      /\ WordAddr(s, 1 + 1) = s.addr /\ WordOp(s, 3 + 1) = "RSR1" /\ WordAddr(s, 3 + 1) = 0
  BY <1>0 DEF Proper, WordOp, WordAddr, FirstOp, StatusOp, ReadKinds, Writes
<1>5. \A j \in 0..17 :
        /\ Pushed(s, j) = (IF j < 1 THEN 0 ELSE IF j < 4 THEN 1 ELSE IF j < 7 THEN 2 ELSE IF j < 11 THEN 3 ELSE 4)
        /\ Issued(s, j) = (IF j < 2 THEN 0 ELSE IF j < 5 THEN 1 ELSE IF j < 8 THEN 2 ELSE IF j < 12 THEN 3 ELSE IF j < 14 THEN 4 ELSE 5)
        /\ Launches(s, j) = 0
  BY <1>0 DEF Proper, Pushed, Issued, Past, Launches, Writes, ReadKinds
<1>6. Taken(s, Len(Segs(s)), 0) = 4
  BY <1>0, <1>3 DEF Taken, Lesser, Pairs, Writes
<1>10. CASE i \in {0, 3, 10}
  <2>1. CASE i = 0
    BY <1>0, <1>1, <1>2, <1>4, <1>5, <2>1, RowTx
  <2>2. CASE i = 3
    BY <1>0, <1>1, <1>2, <1>4, <1>5, <2>2, RowTx
  <2>3. CASE i = 10
    BY <1>0, <1>1, <1>2, <1>4, <1>5, <2>3, RowTx
  <2> QED BY <1>10, <2>1, <2>2, <2>3
<1>11. CASE i \in {1, 4, 7, 11, 13}
  <2>1. PICK g \in 0..4 : g = Issued(s, i)
    BY <1>5, <1>11
  <2>2. SectionItems(s)[i+1] = ItemOf(Segs(s)[g+1]) /\ SectionItems(s)[i+2] = Go
    BY <1>1, <1>2, <1>5, <1>7, <1>11, <2>1
  <2>3. /\ g < Len(Segs(s)) /\ Issued(s, i+1) = g + 1 /\ Pushed(s, i+1) = Pushed(s, i)
        /\ Pushed(s, i) \in Nat /\ Launches(s, i+1) = Launches(s, i) /\ Launches(s, i) \in Nat
        /\ i + 1 < Length(s)
    BY <1>0, <1>1, <1>3, <1>5, <1>11, <2>1
  <2> QED BY <1>1, <2>1, <2>2, <2>3, RowCmd
<1>12. CASE i \in {2, 5, 8, 9, 12, 14, 15}
  BY <1>0, <1>1, <1>2, <1>5, <1>12, RowMark, Kinds
<1>13. CASE i = 16
  <2>1. /\ i + 1 = Length(s) /\ Pushed(s, i) = Taken(s, Len(Segs(s)), 0)
        /\ Issued(s, i) = Len(Segs(s))
    BY <1>0, <1>1, <1>3, <1>5, <1>6, <1>13
  <2>2. /\ Pushed(s, i+1) = Pushed(s, i) /\ Issued(s, i+1) = Issued(s, i)
        /\ Pushed(s, i) \in Nat /\ Issued(s, i) \in Nat
        /\ Launches(s, i+1) = Launches(s, i) /\ Launches(s, i) \in Nat
    BY <1>0, <1>5, <1>13
  <2>3. SectionItems(s)[i+1].k = "poll"
    BY <1>1, <1>2, <1>13, Kinds
  <2> QED BY <1>1, <2>1, <2>2, <2>3, RowLast
<1>14. CASE i = 6
  BY <1>0, <1>1, <1>2, <1>5, <1>14, RowReg, Kinds
<1> QED BY <1>1, <1>10, <1>11, <1>12, <1>13, <1>14

LEMMA ProgramTable ==
  ASSUME NEW s \in Sections, s.kind = "program", Proper(s), NEW i \in 0..16
  PROVE  Row(s, i) /\ Length(s) = 17
<1> DEFINE A == WriteItems(s)
<1>0. s.n \in Nat /\ N(s) \in Nat
  BY CeilType DEF Sections, N
<1>1. SectionItems(s) = A /\ Length(s) = 17
  BY DEF SectionItems, WriteItems, Length, Writes, Await
<1>2. /\ A[1] = Command("WE", 0) /\ A[2] = Item("TX", 1) /\ A[3] = Go
      /\ A[4] = Command(s.op, s.addr) /\ A[5] = HeldItem("TX", CommandLen(s)) /\ A[6] = Go
      /\ A[7] = Step(IF s.via = "dma" THEN "dmatx" ELSE "txdata", s.off, s.n)
      /\ A[8] = Item("TX", s.n) /\ A[9] = Go /\ A[10] = Step("rxwm", 0, 1)
      /\ A[11] = Command("RSR1", 0) /\ A[12] = HeldItem("TX", 1) /\ A[13] = Go
      /\ A[14] = Item("RX", 1) /\ A[15] = Go /\ A[16] = Step("rxwait", 0, 0)
      /\ A[17] = Step("poll", 0, 0)
  BY DEF WriteItems
<1> HIDE DEF A
<1>3. /\ Segs(s)[1] = Seg("TX", 1) /\ Segs(s)[2] = HeldSeg("TX", CommandLen(s))
      /\ Segs(s)[3] = Seg("TX", s.n) /\ Segs(s)[4] = HeldSeg("TX", 1)
      /\ Segs(s)[5] = Seg("RX", 1) /\ Len(Segs(s)) = 5
  BY DEF Segs, Pairs, Writes, CommandLen
<1>7. /\ ItemOf(Segs(s)[1]) = Item("TX", 1) /\ ItemOf(Segs(s)[2]) = HeldItem("TX", CommandLen(s))
      /\ ItemOf(Segs(s)[3]) = Item("TX", s.n) /\ ItemOf(Segs(s)[4]) = HeldItem("TX", 1)
      /\ ItemOf(Segs(s)[5]) = Item("RX", 1)
  BY <1>3, ItemOfSeg
<1>4. /\ WordOp(s, 0 + 1) = "WE" /\ WordAddr(s, 0 + 1) = 0 /\ WordOp(s, 1 + 1) = s.op
      /\ WordAddr(s, 1 + 1) = s.addr /\ WordOp(s, 2 + N(s) + 1) = "RSR1"
      /\ WordAddr(s, 2 + N(s) + 1) = 0
  BY <1>0 DEF Proper, WordOp, WordAddr, FirstOp, StatusOp, ReadKinds, Writes
<1>5. \A j \in 0..17 :
        /\ Pushed(s, j) = (IF j < 1 THEN 0 ELSE IF j < 4 THEN 1 ELSE IF j < 7 THEN 2 ELSE IF j < 11 THEN 2 + N(s) ELSE 3 + N(s))
        /\ Issued(s, j) = (IF j < 2 THEN 0 ELSE IF j < 5 THEN 1 ELSE IF j < 8 THEN 2 ELSE IF j < 12 THEN 3 ELSE IF j < 14 THEN 4 ELSE 5)
        /\ Launches(s, j) = 0
  BY <1>0 DEF Proper, Pushed, Issued, Past, Launches, Writes, ReadKinds
<1>6. Taken(s, Len(Segs(s)), 0) = 3 + N(s)
  BY <1>0, <1>3 DEF Taken, Lesser, Pairs, Writes
<1>10. CASE i \in {0, 3, 10}
  <2>1. CASE i = 0
    BY <1>0, <1>1, <1>2, <1>4, <1>5, <2>1, RowTx
  <2>2. CASE i = 3
    BY <1>0, <1>1, <1>2, <1>4, <1>5, <2>2, RowTx
  <2>3. CASE i = 10
    BY <1>0, <1>1, <1>2, <1>4, <1>5, <2>3, RowTx
  <2> QED BY <1>10, <2>1, <2>2, <2>3
<1>11. CASE i \in {1, 4, 7, 11, 13}
  <2>1. PICK g \in 0..4 : g = Issued(s, i)
    BY <1>5, <1>11
  <2>2. SectionItems(s)[i+1] = ItemOf(Segs(s)[g+1]) /\ SectionItems(s)[i+2] = Go
    BY <1>1, <1>2, <1>5, <1>7, <1>11, <2>1
  <2>3. /\ g < Len(Segs(s)) /\ Issued(s, i+1) = g + 1 /\ Pushed(s, i+1) = Pushed(s, i)
        /\ Pushed(s, i) \in Nat /\ Launches(s, i+1) = Launches(s, i) /\ Launches(s, i) \in Nat
        /\ i + 1 < Length(s)
    BY <1>0, <1>1, <1>3, <1>5, <1>11, <2>1
  <2> QED BY <1>1, <2>1, <2>2, <2>3, RowCmd
<1>12. CASE i \in {2, 5, 8, 9, 12, 14, 15}
  BY <1>0, <1>1, <1>2, <1>5, <1>12, RowMark, Kinds
<1>13. CASE i = 16
  <2>1. /\ i + 1 = Length(s) /\ Pushed(s, i) = Taken(s, Len(Segs(s)), 0)
        /\ Issued(s, i) = Len(Segs(s))
    BY <1>0, <1>1, <1>3, <1>5, <1>6, <1>13
  <2>2. /\ Pushed(s, i+1) = Pushed(s, i) /\ Issued(s, i+1) = Issued(s, i)
        /\ Pushed(s, i) \in Nat /\ Issued(s, i) \in Nat
        /\ Launches(s, i+1) = Launches(s, i) /\ Launches(s, i) \in Nat
    BY <1>0, <1>5, <1>13
  <2>3. SectionItems(s)[i+1].k = "poll"
    BY <1>1, <1>2, <1>13, Kinds
  <2> QED BY <1>1, <2>1, <2>2, <2>3, RowLast
<1>14. CASE i = 6
  <2>1. SectionItems(s)[i+1].k \in {"txdata", "dmatx"}
    BY <1>1, <1>2, <1>14 DEF Step
  <2> QED BY <1>0, <1>1, <1>5, <2>1, <1>14, RowData
<1> QED BY <1>1, <1>10, <1>11, <1>12, <1>13, <1>14

LEMMA ReadCpuTable ==
  ASSUME NEW s \in Sections, s.kind = "read", s.via = "cpu", Proper(s), NEW i \in 0..4
  PROVE  Row(s, i) /\ Length(s) = 5
<1> DEFINE A == ReadItems(s)
<1>0. s.n \in Nat /\ N(s) \in Nat
  BY CeilType DEF Sections, N
<1>1. SectionItems(s) = A /\ Length(s) = 5
  BY DEF SectionItems, ReadItems, Length, Writes, Await
<1>2. /\ A[1] = Command("RD", s.addr) /\ A[2] = HeldItem("TX", W) /\ A[3] = Go
      /\ A[4] = Item("RX", s.n) /\ A[5] = Go
  BY DEF ReadItems
<1> HIDE DEF A
<1>3. /\ Segs(s)[1] = HeldSeg("TX", W) /\ Segs(s)[2] = Seg("RX", s.n) /\ Len(Segs(s)) = 2
  BY DEF Segs, Pairs, Writes, CommandLen
<1>7. /\ ItemOf(Segs(s)[1]) = HeldItem("TX", W) /\ ItemOf(Segs(s)[2]) = Item("RX", s.n)
  BY <1>3, ItemOfSeg
<1>4. /\ WordOp(s, 0 + 1) = "RD" /\ WordAddr(s, 0 + 1) = s.addr
  BY <1>0 DEF Proper, WordOp, WordAddr, FirstOp, StatusOp, ReadKinds, Writes
<1>5. \A j \in 0..5 :
        /\ Pushed(s, j) = (IF j < 1 THEN 0 ELSE 1)
        /\ Issued(s, j) = (IF j < 2 THEN 0 ELSE IF j < 4 THEN 1 ELSE 2)
        /\ Launches(s, j) = 0
  BY <1>0 DEF Proper, Pushed, Issued, Past, Launches, Writes, ReadKinds
<1>6. Taken(s, Len(Segs(s)), 0) = 1
  BY <1>0, <1>3 DEF Taken, Lesser, Pairs, Writes
<1>10. CASE i = 0
  BY <1>0, <1>1, <1>2, <1>4, <1>5, <1>10, RowTx
<1>11. CASE i \in {1, 3}
  <2>1. PICK g \in 0..1 : g = Issued(s, i)
    BY <1>5, <1>11
  <2>2. SectionItems(s)[i+1] = ItemOf(Segs(s)[g+1]) /\ SectionItems(s)[i+2] = Go
    BY <1>1, <1>2, <1>5, <1>7, <1>11, <2>1
  <2>3. /\ g < Len(Segs(s)) /\ Issued(s, i+1) = g + 1 /\ Pushed(s, i+1) = Pushed(s, i)
        /\ Pushed(s, i) \in Nat /\ Launches(s, i+1) = Launches(s, i) /\ Launches(s, i) \in Nat
        /\ i + 1 < Length(s)
    BY <1>0, <1>1, <1>3, <1>5, <1>11, <2>1
  <2> QED BY <1>1, <2>1, <2>2, <2>3, RowCmd
<1>12. CASE i = 2
  BY <1>0, <1>1, <1>2, <1>5, <1>12, RowMark, Kinds
<1>13. CASE i = 4
  <2>1. /\ i + 1 = Length(s) /\ Pushed(s, i) = Taken(s, Len(Segs(s)), 0)
        /\ Issued(s, i) = Len(Segs(s))
    BY <1>0, <1>1, <1>3, <1>5, <1>6, <1>13
  <2>2. /\ Pushed(s, i+1) = Pushed(s, i) /\ Issued(s, i+1) = Issued(s, i)
        /\ Pushed(s, i) \in Nat /\ Issued(s, i) \in Nat
        /\ Launches(s, i+1) = 0 /\ Launches(s, i) = 0
    BY <1>0, <1>5, <1>13
  <2>3. SectionItems(s)[i+1] = Go
    BY <1>1, <1>2, <1>13, Kinds
  <2> QED BY <1>1, <2>1, <2>2, <2>3, RowEnd DEF ReadKinds
<1> QED BY <1>1, <1>10, <1>11, <1>12, <1>13

LEMMA ReadEarlyTable ==
  ASSUME NEW s \in Sections, s.kind = "read", s.via = "early", Proper(s), NEW i \in 0..6
  PROVE  Row(s, i) /\ Length(s) = 7
<1> DEFINE A == ReadItems(s)
<1>0. s.n \in Nat /\ N(s) \in Nat
  BY CeilType DEF Sections, N
<1>1. SectionItems(s) = A /\ Length(s) = 7
  BY DEF SectionItems, ReadItems, Length, Writes, Await
<1>2. /\ A[1] = Launch(s) /\ A[2] = Command("RD", s.addr) /\ A[3] = HeldItem("TX", W)
      /\ A[4] = Go /\ A[5] = Item("RX", s.n) /\ A[6] = Go /\ A[7] = Await
  BY DEF ReadItems
<1> HIDE DEF A
<1>3. /\ Segs(s)[1] = HeldSeg("TX", W) /\ Segs(s)[2] = Seg("RX", s.n) /\ Len(Segs(s)) = 2
  BY DEF Segs, Pairs, Writes, CommandLen
<1>7. /\ ItemOf(Segs(s)[1]) = HeldItem("TX", W) /\ ItemOf(Segs(s)[2]) = Item("RX", s.n)
  BY <1>3, ItemOfSeg
<1>4. /\ WordOp(s, 0 + 1) = "RD" /\ WordAddr(s, 0 + 1) = s.addr
  BY <1>0 DEF Proper, WordOp, WordAddr, FirstOp, StatusOp, ReadKinds, Writes
<1>5. \A j \in 0..7 :
        /\ Pushed(s, j) = (IF j < 2 THEN 0 ELSE 1)
        /\ Issued(s, j) = (IF j < 3 THEN 0 ELSE IF j < 5 THEN 1 ELSE 2)
        /\ Launches(s, j) = (IF j < 1 THEN 0 ELSE 1)
  BY <1>0 DEF Proper, Pushed, Issued, Past, Launches, Writes, ReadKinds
<1>6. Taken(s, Len(Segs(s)), 0) = 1
  BY <1>0, <1>3 DEF Taken, Lesser, Pairs, Writes
<1>10. CASE i = 1
  BY <1>0, <1>1, <1>2, <1>4, <1>5, <1>10, RowTx
<1>11. CASE i \in {2, 4}
  <2>1. PICK g \in 0..1 : g = Issued(s, i)
    BY <1>5, <1>11
  <2>2. SectionItems(s)[i+1] = ItemOf(Segs(s)[g+1]) /\ SectionItems(s)[i+2] = Go
    BY <1>1, <1>2, <1>5, <1>7, <1>11, <2>1
  <2>3. /\ g < Len(Segs(s)) /\ Issued(s, i+1) = g + 1 /\ Pushed(s, i+1) = Pushed(s, i)
        /\ Pushed(s, i) \in Nat /\ Launches(s, i+1) = Launches(s, i) /\ Launches(s, i) \in Nat
        /\ i + 1 < Length(s)
    BY <1>0, <1>1, <1>3, <1>5, <1>11, <2>1
  <2> QED BY <1>1, <2>1, <2>2, <2>3, RowCmd
<1>12. CASE i \in {3, 5}
  BY <1>0, <1>1, <1>2, <1>5, <1>12, RowMark, Kinds
<1>13. CASE i = 0
  BY <1>0, <1>1, <1>2, <1>5, <1>13, RowLaunch DEF ReadKinds
<1>14. CASE i = 6
  <2>1. /\ i + 1 = Length(s) /\ Pushed(s, i) = Taken(s, Len(Segs(s)), 0)
        /\ Issued(s, i) = Len(Segs(s))
    BY <1>0, <1>1, <1>3, <1>5, <1>6, <1>14
  <2>2. /\ Pushed(s, i+1) = Pushed(s, i) /\ Issued(s, i+1) = Issued(s, i)
        /\ Pushed(s, i) \in Nat /\ Issued(s, i) \in Nat
        /\ Launches(s, i+1) = 1 /\ Launches(s, i) = 1
    BY <1>0, <1>5, <1>14
  <2>3. SectionItems(s)[i+1].k = "dmawait"
    BY <1>1, <1>2, <1>14, Kinds
  <2> QED BY <1>1, <2>1, <2>2, <2>3, RowAwait DEF ReadKinds
<1> QED BY <1>1, <1>10, <1>11, <1>12, <1>13, <1>14

LEMMA ReadLateTable ==
  ASSUME NEW s \in Sections, s.kind = "read", s.via = "late", Proper(s), NEW i \in 0..6
  PROVE  Row(s, i) /\ Length(s) = 7
<1> DEFINE A == ReadItems(s)
<1>0. s.n \in Nat /\ N(s) \in Nat
  BY CeilType DEF Sections, N
<1>1. SectionItems(s) = A /\ Length(s) = 7
  BY DEF SectionItems, ReadItems, Length, Writes, Await
<1>2. /\ A[1] = Command("RD", s.addr) /\ A[2] = HeldItem("TX", W) /\ A[3] = Go
      /\ A[4] = Item("RX", s.n) /\ A[5] = Go /\ A[6] = Launch(s) /\ A[7] = Await
  BY DEF ReadItems
<1> HIDE DEF A
<1>3. /\ Segs(s)[1] = HeldSeg("TX", W) /\ Segs(s)[2] = Seg("RX", s.n) /\ Len(Segs(s)) = 2
  BY DEF Segs, Pairs, Writes, CommandLen
<1>7. /\ ItemOf(Segs(s)[1]) = HeldItem("TX", W) /\ ItemOf(Segs(s)[2]) = Item("RX", s.n)
  BY <1>3, ItemOfSeg
<1>4. /\ WordOp(s, 0 + 1) = "RD" /\ WordAddr(s, 0 + 1) = s.addr
  BY <1>0 DEF Proper, WordOp, WordAddr, FirstOp, StatusOp, ReadKinds, Writes
<1>5. \A j \in 0..7 :
        /\ Pushed(s, j) = (IF j < 1 THEN 0 ELSE 1)
        /\ Issued(s, j) = (IF j < 2 THEN 0 ELSE IF j < 4 THEN 1 ELSE 2)
        /\ Launches(s, j) = (IF j < 6 THEN 0 ELSE 1)
  BY <1>0 DEF Proper, Pushed, Issued, Past, Launches, Writes, ReadKinds
<1>6. Taken(s, Len(Segs(s)), 0) = 1
  BY <1>0, <1>3 DEF Taken, Lesser, Pairs, Writes
<1>10. CASE i = 0
  BY <1>0, <1>1, <1>2, <1>4, <1>5, <1>10, RowTx
<1>11. CASE i \in {1, 3}
  <2>1. PICK g \in 0..1 : g = Issued(s, i)
    BY <1>5, <1>11
  <2>2. SectionItems(s)[i+1] = ItemOf(Segs(s)[g+1]) /\ SectionItems(s)[i+2] = Go
    BY <1>1, <1>2, <1>5, <1>7, <1>11, <2>1
  <2>3. /\ g < Len(Segs(s)) /\ Issued(s, i+1) = g + 1 /\ Pushed(s, i+1) = Pushed(s, i)
        /\ Pushed(s, i) \in Nat /\ Launches(s, i+1) = Launches(s, i) /\ Launches(s, i) \in Nat
        /\ i + 1 < Length(s)
    BY <1>0, <1>1, <1>3, <1>5, <1>11, <2>1
  <2> QED BY <1>1, <2>1, <2>2, <2>3, RowCmd
<1>12. CASE i \in {2, 4}
  BY <1>0, <1>1, <1>2, <1>5, <1>12, RowMark, Kinds
<1>13. CASE i = 5
  BY <1>0, <1>1, <1>2, <1>5, <1>13, RowLaunch DEF ReadKinds
<1>14. CASE i = 6
  <2>1. /\ i + 1 = Length(s) /\ Pushed(s, i) = Taken(s, Len(Segs(s)), 0)
        /\ Issued(s, i) = Len(Segs(s))
    BY <1>0, <1>1, <1>3, <1>5, <1>6, <1>14
  <2>2. /\ Pushed(s, i+1) = Pushed(s, i) /\ Issued(s, i+1) = Issued(s, i)
        /\ Pushed(s, i) \in Nat /\ Issued(s, i) \in Nat
        /\ Launches(s, i+1) = 1 /\ Launches(s, i) = 1
    BY <1>0, <1>5, <1>14
  <2>3. SectionItems(s)[i+1].k = "dmawait"
    BY <1>1, <1>2, <1>14, Kinds
  <2> QED BY <1>1, <2>1, <2>2, <2>3, RowAwait DEF ReadKinds
<1> QED BY <1>1, <1>10, <1>11, <1>12, <1>13, <1>14

LEMMA ReadqCpuTable ==
  ASSUME NEW s \in Sections, s.kind = "readq", s.via = "cpu", Proper(s), NEW i \in 0..9
  PROVE  Row(s, i) /\ Length(s) = 10
<1> DEFINE A == ReadqItems(s)
<1>0. s.n \in Nat /\ N(s) \in Nat
  BY CeilType DEF Sections, N
<1>1. SectionItems(s) = A /\ Length(s) = 10
  BY DEF SectionItems, ReadqItems, Length, Writes, Await
<1>2. /\ A[1] = Command("RDQIO", 0) /\ A[2] = HeldItem("TX", 1) /\ A[3] = Go
      /\ A[4] = Command("ADDR", s.addr) /\ A[5] = HeldItem("TX", W) /\ A[6] = Go
      /\ A[7] = HeldItem("DUMMY", 1) /\ A[8] = Go /\ A[9] = Item("RX", s.n) /\ A[10] = Go
  BY DEF ReadqItems
<1> HIDE DEF A
<1>3. /\ Segs(s)[1] = HeldSeg("TX", 1) /\ Segs(s)[2] = HeldSeg("TX", W)
      /\ Segs(s)[3] = HeldSeg("DUMMY", 1) /\ Segs(s)[4] = Seg("RX", s.n) /\ Len(Segs(s)) = 4
  BY DEF Segs, Pairs, Writes, CommandLen
<1>7. /\ ItemOf(Segs(s)[1]) = HeldItem("TX", 1) /\ ItemOf(Segs(s)[2]) = HeldItem("TX", W)
      /\ ItemOf(Segs(s)[3]) = HeldItem("DUMMY", 1) /\ ItemOf(Segs(s)[4]) = Item("RX", s.n)
  BY <1>3, ItemOfSeg
<1>4. /\ WordOp(s, 0 + 1) = "RDQIO" /\ WordAddr(s, 0 + 1) = 0 /\ WordOp(s, 1 + 1) = "ADDR"
      /\ WordAddr(s, 1 + 1) = s.addr
  BY <1>0 DEF Proper, WordOp, WordAddr, FirstOp, StatusOp, ReadKinds, Writes
<1>5. \A j \in 0..10 :
        /\ Pushed(s, j) = (IF j < 1 THEN 0 ELSE IF j < 4 THEN 1 ELSE 2)
        /\ Issued(s, j) = (IF j < 2 THEN 0 ELSE IF j < 5 THEN 1 ELSE IF j < 7 THEN 2 ELSE IF j < 9 THEN 3 ELSE 4)
        /\ Launches(s, j) = 0
  BY <1>0 DEF Proper, Pushed, Issued, Past, Launches, Writes, ReadKinds
<1>6. Taken(s, Len(Segs(s)), 0) = 2
  BY <1>0, <1>3 DEF Taken, Lesser, Pairs, Writes
<1>10. CASE i \in {0, 3}
  BY <1>0, <1>1, <1>2, <1>4, <1>5, <1>10, RowTx
<1>11. CASE i \in {1, 4, 6, 8}
  <2>1. PICK g \in 0..3 : g = Issued(s, i)
    BY <1>5, <1>11
  <2>2. SectionItems(s)[i+1] = ItemOf(Segs(s)[g+1]) /\ SectionItems(s)[i+2] = Go
    BY <1>1, <1>2, <1>5, <1>7, <1>11, <2>1
  <2>3. /\ g < Len(Segs(s)) /\ Issued(s, i+1) = g + 1 /\ Pushed(s, i+1) = Pushed(s, i)
        /\ Pushed(s, i) \in Nat /\ Launches(s, i+1) = Launches(s, i) /\ Launches(s, i) \in Nat
        /\ i + 1 < Length(s)
    BY <1>0, <1>1, <1>3, <1>5, <1>11, <2>1
  <2> QED BY <1>1, <2>1, <2>2, <2>3, RowCmd
<1>12. CASE i \in {2, 5, 7}
  BY <1>0, <1>1, <1>2, <1>5, <1>12, RowMark, Kinds
<1>13. CASE i = 9
  <2>1. /\ i + 1 = Length(s) /\ Pushed(s, i) = Taken(s, Len(Segs(s)), 0)
        /\ Issued(s, i) = Len(Segs(s))
    BY <1>0, <1>1, <1>3, <1>5, <1>6, <1>13
  <2>2. /\ Pushed(s, i+1) = Pushed(s, i) /\ Issued(s, i+1) = Issued(s, i)
        /\ Pushed(s, i) \in Nat /\ Issued(s, i) \in Nat
        /\ Launches(s, i+1) = 0 /\ Launches(s, i) = 0
    BY <1>0, <1>5, <1>13
  <2>3. SectionItems(s)[i+1] = Go
    BY <1>1, <1>2, <1>13, Kinds
  <2> QED BY <1>1, <2>1, <2>2, <2>3, RowEnd DEF ReadKinds
<1> QED BY <1>1, <1>10, <1>11, <1>12, <1>13

LEMMA ReadqLateTable ==
  ASSUME NEW s \in Sections, s.kind = "readq", s.via = "late", Proper(s), NEW i \in 0..11
  PROVE  Row(s, i) /\ Length(s) = 12
<1> DEFINE A == ReadqItems(s)
<1>0. s.n \in Nat /\ N(s) \in Nat
  BY CeilType DEF Sections, N
<1>1. SectionItems(s) = A /\ Length(s) = 12
  BY DEF SectionItems, ReadqItems, Length, Writes, Await
<1>2. /\ A[1] = Command("RDQIO", 0) /\ A[2] = HeldItem("TX", 1) /\ A[3] = Go
      /\ A[4] = Command("ADDR", s.addr) /\ A[5] = HeldItem("TX", W) /\ A[6] = Go
      /\ A[7] = HeldItem("DUMMY", 1) /\ A[8] = Go /\ A[9] = Item("RX", s.n) /\ A[10] = Go
      /\ A[11] = Launch(s) /\ A[12] = Await
  BY DEF ReadqItems
<1> HIDE DEF A
<1>3. /\ Segs(s)[1] = HeldSeg("TX", 1) /\ Segs(s)[2] = HeldSeg("TX", W)
      /\ Segs(s)[3] = HeldSeg("DUMMY", 1) /\ Segs(s)[4] = Seg("RX", s.n) /\ Len(Segs(s)) = 4
  BY DEF Segs, Pairs, Writes, CommandLen
<1>7. /\ ItemOf(Segs(s)[1]) = HeldItem("TX", 1) /\ ItemOf(Segs(s)[2]) = HeldItem("TX", W)
      /\ ItemOf(Segs(s)[3]) = HeldItem("DUMMY", 1) /\ ItemOf(Segs(s)[4]) = Item("RX", s.n)
  BY <1>3, ItemOfSeg
<1>4. /\ WordOp(s, 0 + 1) = "RDQIO" /\ WordAddr(s, 0 + 1) = 0 /\ WordOp(s, 1 + 1) = "ADDR"
      /\ WordAddr(s, 1 + 1) = s.addr
  BY <1>0 DEF Proper, WordOp, WordAddr, FirstOp, StatusOp, ReadKinds, Writes
<1>5. \A j \in 0..12 :
        /\ Pushed(s, j) = (IF j < 1 THEN 0 ELSE IF j < 4 THEN 1 ELSE 2)
        /\ Issued(s, j) = (IF j < 2 THEN 0 ELSE IF j < 5 THEN 1 ELSE IF j < 7 THEN 2 ELSE IF j < 9 THEN 3 ELSE 4)
        /\ Launches(s, j) = (IF j < 11 THEN 0 ELSE 1)
  BY <1>0 DEF Proper, Pushed, Issued, Past, Launches, Writes, ReadKinds
<1>6. Taken(s, Len(Segs(s)), 0) = 2
  BY <1>0, <1>3 DEF Taken, Lesser, Pairs, Writes
<1>10. CASE i \in {0, 3}
  BY <1>0, <1>1, <1>2, <1>4, <1>5, <1>10, RowTx
<1>11. CASE i \in {1, 4, 6, 8}
  <2>1. PICK g \in 0..3 : g = Issued(s, i)
    BY <1>5, <1>11
  <2>2. SectionItems(s)[i+1] = ItemOf(Segs(s)[g+1]) /\ SectionItems(s)[i+2] = Go
    BY <1>1, <1>2, <1>5, <1>7, <1>11, <2>1
  <2>3. /\ g < Len(Segs(s)) /\ Issued(s, i+1) = g + 1 /\ Pushed(s, i+1) = Pushed(s, i)
        /\ Pushed(s, i) \in Nat /\ Launches(s, i+1) = Launches(s, i) /\ Launches(s, i) \in Nat
        /\ i + 1 < Length(s)
    BY <1>0, <1>1, <1>3, <1>5, <1>11, <2>1
  <2> QED BY <1>1, <2>1, <2>2, <2>3, RowCmd
<1>12. CASE i \in {2, 5, 7, 9}
  BY <1>0, <1>1, <1>2, <1>5, <1>12, RowMark, Kinds
<1>13. CASE i = 10
  BY <1>0, <1>1, <1>2, <1>5, <1>13, RowLaunch DEF ReadKinds
<1>14. CASE i = 11
  <2>1. /\ i + 1 = Length(s) /\ Pushed(s, i) = Taken(s, Len(Segs(s)), 0)
        /\ Issued(s, i) = Len(Segs(s))
    BY <1>0, <1>1, <1>3, <1>5, <1>6, <1>14
  <2>2. /\ Pushed(s, i+1) = Pushed(s, i) /\ Issued(s, i+1) = Issued(s, i)
        /\ Pushed(s, i) \in Nat /\ Issued(s, i) \in Nat
        /\ Launches(s, i+1) = 1 /\ Launches(s, i) = 1
    BY <1>0, <1>5, <1>14
  <2>3. SectionItems(s)[i+1].k = "dmawait"
    BY <1>1, <1>2, <1>14, Kinds
  <2> QED BY <1>1, <2>1, <2>2, <2>3, RowAwait DEF ReadKinds
<1> QED BY <1>1, <1>10, <1>11, <1>12, <1>13, <1>14

(* The accesses of a section, row by row: what each adds to its words and  *)
(* segments.                                                               *)
LEMMA Table ==
  ASSUME NEW s \in Sections, Proper(s), NEW i \in 0..Length(s)-1
  PROVE  Row(s, i)
<1>1. s.kind \in Pairs \cup Writes \cup ReadKinds
  BY DEF Sections
<1>2. CASE s.kind = "wake"
  BY <1>2, WakeTable
<1>3. CASE s.kind = "erase"
  BY <1>3, EraseTable
<1>4. CASE s.kind = "reset"
  BY <1>4, ResetTable
<1>5. CASE s.kind = "enable"
  BY <1>5, EnableTable
<1>6. CASE s.kind = "program"
  BY <1>6, ProgramTable
<1>7. CASE s.kind = "read"
  <2>1. s.via \in {"cpu", "early", "late"}
    BY <1>7 DEF Proper, ReadKinds
  <2> QED BY <1>7, <2>1, ReadCpuTable, ReadEarlyTable, ReadLateTable
<1>8. CASE s.kind = "readq"
  <2>1. s.via \in {"cpu", "late"}
    BY <1>8 DEF Proper, ReadKinds
  <2> QED BY <1>8, <2>1, ReadqCpuTable, ReadqLateTable
<1> QED BY <1>1, <1>2, <1>3, <1>4, <1>5, <1>6, <1>7, <1>8 DEF Pairs, Writes, ReadKinds

(* A section has a length and its counts are numbers. *)
LEMMA LengthType ==
  ASSUME NEW s \in Sections
  PROVE  Length(s) \in 5..17 /\ Len(Segs(s)) \in 2..5 /\ N(s) \in Nat
<1>1. Length(s) \in 5..17
  BY DEF Length, SectionItems, WakeItems, EraseItems, ResetItems, WriteItems, ReadItems, ReadqItems
<1>2. Len(Segs(s)) \in 2..5
  BY DEF Segs
<1> QED BY <1>1, <1>2, CeilType DEF Sections, N

(* The counts of a section stay within it. *)
LEMMA Counts ==
  ASSUME NEW s \in Sections, NEW i \in Nat
  PROVE  /\ Issued(s, i) \in 0..Len(Segs(s)) /\ Pushed(s, i) \in 0..3+N(s)
         /\ Issued(s, 0) = 0 /\ Pushed(s, 0) = 0 /\ Launches(s, 0) = 0 /\ Launches(s, i) \in {0, 1}
<1>1. N(s) \in Nat
  BY LengthType
<1>2. Issued(s, i) \in 0..Len(Segs(s)) /\ Issued(s, 0) = 0
  BY DEF Issued, Past, Segs, Sections, Pairs, Writes, ReadKinds
<1>3. Pushed(s, i) \in 0..3+N(s) /\ Pushed(s, 0) = 0
  BY <1>1 DEF Pushed, Past
<1>4. Launches(s, 0) = 0 /\ Launches(s, i) \in {0, 1}
  BY DEF Launches, Past
<1> QED BY <1>2, <1>3, <1>4

(***************************************************************************)
(* What is on the wire.                                                    *)
(***************************************************************************)
LEMMA Appended ==
  ASSUME NEW S, NEW q \in Seq(S), NEW e
  PROVE  /\ Len(q) \in Nat /\ Len(Append(q, e)) = Len(q) + 1 /\ Append(q, e)[Len(q) + 1] = e
         /\ \A k \in 1..Len(q) : Append(q, e)[k] = q[k]
  OBVIOUS

LEMMA TxPush ==
  ASSUME NEW s, NEW U \in Nat, NEW a \in Nat, TxFifo(s, U, a), tx \in Seq(TxWords), NEW w,
         tx' = Append(tx, w), IsWord(w, s, U+1)
  PROVE  TxFifo(s, U+1, a)'
<1>1. PICK l \in Nat : l = Len(tx)
  BY Appended
<1>2. U = a + l /\ \A k \in a+1..U : IsWord(tx[k - a], s, k)
  BY <1>1 DEF TxFifo
<1>3. Len(tx') = l + 1 /\ tx'[l + 1] = w /\ \A k \in 1..l : tx'[k] = tx[k]
  BY <1>1, Appended
<1>4. ASSUME NEW k \in a+1..U+1
      PROVE  IsWord(tx'[k - a], s, k)
  <2>1. CASE k = U + 1
    <3>1. k - a = l + 1
      BY <1>2, <2>1
    <3> QED BY <1>3, <2>1, <3>1
  <2>2. CASE k # U + 1
    <3>1. k \in a+1..U /\ k - a \in 1..l
      BY <1>2, <2>2
    <3> QED BY <1>2, <1>3, <3>1
  <2> QED BY <2>1, <2>2
<1>5. Len(tx') = U + 1 - a
  BY <1>2, <1>3
<1> QED BY <1>4, <1>5 DEF TxFifo

(* A word enters the transmit FIFO. *)
LEMMA WirePush ==
  ASSUME NEW s, NEW Q, NEW U \in Nat, NEW p, NEW j, NEW t,
         Wire(s, Q, U, p, j, t), Taken(s, p, j) \in Nat, tx \in Seq(TxWords), NEW w,
         tx' = Append(tx, w), IsWord(w, s, U+1), UNCHANGED <<cmds, rx>>
  PROVE  Wire(s, Q, U+1, p, j, t)'
<1>1. TxFifo(s, U+1, Taken(s, p, j))'
  BY TxPush DEF Wire
<1>2. CmdQueue(s, Q, p, j)' /\ RxFifo(Got(s, p, j), t)' /\ Place(s, Q, p, j)
  BY DEF Wire, CmdQueue, RxFifo
<1> QED BY <1>1, <1>2 DEF Wire

(* A segment enters the command queue. *)
LEMMA WireIssue ==
  ASSUME NEW s, NEW Q \in Nat, NEW U, NEW p \in Nat, NEW j \in Nat, NEW t,
         Wire(s, Q, U, p, j, t), cmds \in Seq(Segments), NEW e,
         cmds' = Append(cmds, e), e.dir = Segs(s)[Q+1].dir, e.len = Segs(s)[Q+1].len,
         e.len \in Nat, e.csaat = Segs(s)[Q+1].csaat, UNCHANGED <<tx, rx>>
  PROVE  Wire(s, Q+1, U, p, j, t)'
<1>1. PICK l \in Nat : l = Len(cmds)
  BY Appended
<1>2. Q = p + l /\ \A k \in 1..l : IsSegment(cmds[k], s, p, k, j)
  BY <1>1 DEF Wire, Place, CmdQueue
<1>3. Len(cmds') = l + 1 /\ cmds'[l + 1] = e /\ \A k \in 1..l : cmds'[k] = cmds[k]
  BY <1>1, Appended
<1>4. l = 0 => j * W = 0
  <2>1. l = 0 => j = 0
    BY <1>2 DEF Wire, Place
  <2> QED BY <2>1, Geometry
<1>5. IsSegment(e, s, p, l + 1, j)
  <2>1. p + (l + 1) = Q + 1
    BY <1>2
  <2>2. l + 1 = 1 => j * W = 0
    BY <1>4
  <2> QED BY <2>1, <2>2 DEF IsSegment
<1>6. \A k \in 1..l+1 : IsSegment(cmds'[k], s, p, k, j)
  BY <1>2, <1>3, <1>5
<1>7. Q + 1 - p = l + 1 /\ p \in 0..Q+1
  BY <1>2
<1>8. CmdQueue(s, Q+1, p, j)'
  BY <1>3, <1>6, <1>7 DEF CmdQueue
<1>9. Place(s, Q+1, p, j)
  BY <1>2, <1>7 DEF Wire, Place
<1>10. TxFifo(s, U, Taken(s, p, j))' /\ RxFifo(Got(s, p, j), t)'
  BY DEF Wire, TxFifo, RxFifo
<1> QED BY <1>8, <1>9, <1>10 DEF Wire

(* A word leaves the receive FIFO. *)
LEMMA WireTake ==
  ASSUME NEW s \in Sections, NEW Q, NEW U, NEW p, NEW j \in Nat, NEW t \in Nat,
         Wire(s, Q, U, p, j, t), rx # <<>>, rx \in Seq(RxWords), rx' = Tail(rx), UNCHANGED <<cmds, tx>>
  PROVE  Wire(s, Q, U, p, j, t+1)'
<1>1. Len(rx') = Len(rx) - 1 /\ Len(rx) \in Nat /\ Len(rx) > 0
  OBVIOUS
<1>2. Got(s, p, j) \in Int
  BY LengthType DEF Got
<1>3. RxFifo(Got(s, p, j), t+1)'
  BY <1>1, <1>2 DEF Wire, RxFifo
<1>4. CmdQueue(s, Q, p, j)' /\ TxFifo(s, U, Taken(s, p, j))'
  BY DEF Wire, CmdQueue, TxFifo
<1> QED BY <1>3, <1>4 DEF Wire

(***************************************************************************)
(* The SPI host shifts: how the wire moves.                                *)
(***************************************************************************)
LEMMA OneMore ==
  ASSUME NEW a \in Nat, NEW b \in Nat
  PROVE  (a + 1) * b = a * b + b /\ a * b \in Nat
  BY SMT

(* The wire's counts are numbers. *)
LEMMA WireTypes ==
  ASSUME NEW s \in Sections, NEW Q, NEW U, NEW p, NEW j, NEW t, Wire(s, Q, U, p, j, t),
         Q \in 0..Len(Segs(s))
  PROVE  /\ p \in Nat /\ j \in Nat /\ p <= Q /\ p \in 0..5 /\ Q \in Nat
         /\ Taken(s, p, j) \in Nat /\ Got(s, p, j) \in Nat
<1>1. p \in 0..Q /\ j \in Nat
  BY DEF Wire, Place
<1>2. Q \in 0..5 /\ p \in 0..5
  <2>1. PICK l \in 2..5 : l = Len(Segs(s))
    BY LengthType
  <2>2. Q \in 0..l
    BY <2>1
  <2> QED BY <1>1, <2>1, <2>2
<1>3. Taken(s, p, j) \in Nat
  BY <1>1, <1>2, LengthType DEF Taken, Lesser
<1>4. Got(s, p, j) \in Nat
  BY <1>1, LengthType DEF Got
<1> QED BY <1>1, <1>2, <1>3, <1>4

(* The segment that the host is shifting, and the word it sends. *)
LEMMA WireHead ==
  ASSUME NEW s \in Sections, NEW Q \in 0..Len(Segs(s)), NEW U, NEW p, NEW j, NEW t, Wire(s, Q, U, p, j, t),
         cmds \in Seq(Segments), cmds # <<>>
  PROVE  /\ p < Q /\ Head(cmds) \in Segments
         /\ Head(cmds).dir = Segs(s)[p+1].dir /\ Head(cmds).csaat = Segs(s)[p+1].csaat
         /\ Head(cmds).len = Segs(s)[p+1].len - j * W
<1>1. p \in Nat /\ Q \in Nat /\ p <= Q
  BY WireTypes
<1>2. Len(cmds) \in Nat /\ Len(cmds) > 0 /\ Head(cmds) = cmds[1] /\ cmds[1] \in Segments
  OBVIOUS
<1>3. Len(cmds) = Q - p /\ \A k \in 1..Q-p : IsSegment(cmds[k], s, p, k, j)
  BY DEF Wire, CmdQueue
<1>4. IsSegment(cmds[1], s, p, 1, j)
  BY <1>1, <1>2, <1>3
<1> QED BY <1>1, <1>2, <1>3, <1>4 DEF IsSegment

(* The segment at the head is finished. *)
LEMMA WireFinish ==
  ASSUME NEW s \in Sections, NEW Q \in 0..Len(Segs(s)), NEW U, NEW p, NEW j, NEW t, Wire(s, Q, U, p, j, t),
         cmds \in Seq(Segments), cmds # <<>>, cmds' = Tail(cmds),
         TxFifo(s, U, Taken(s, p+1, 0))', RxFifo(Got(s, p+1, 0), t)',
         \A k \in 1..Len(Segs(s)) : Segs(s)[k].len \in Nat
  PROVE  Wire(s, Q, U, p+1, 0, t)'
<1>1. p \in Nat /\ Q \in Nat /\ p < Q
  BY WireTypes, WireHead
<1>2. PICK l \in Nat : Len(cmds) = l + 1
  BY TailType
<1>3. Q - p = l + 1 /\ \A k \in 1..l+1 : IsSegment(cmds[k], s, p, k, j)
  BY <1>1, <1>2 DEF Wire, CmdQueue
<1>4. Len(cmds') = l /\ \A k \in 1..l : cmds'[k] = cmds[k+1]
  BY <1>2
<1>5. Q - (p+1) = l
  BY <1>1, <1>3
<1>6. \A k \in 1..l : IsSegment(cmds'[k], s, p+1, k, 0)
  <2> SUFFICES ASSUME NEW k \in 1..l PROVE IsSegment(cmds'[k], s, p+1, k, 0)
    OBVIOUS
  <2>1. cmds'[k] = cmds[k+1] /\ IsSegment(cmds[k+1], s, p, k+1, j)
    BY <1>3, <1>4
  <2>2. p + (k+1) = p + 1 + k /\ k + 1 # 1 /\ 0 * W = 0 /\ p + 1 + k \in 1..Len(Segs(s))
    BY <1>1, <1>3, Geometry, LengthType
  <2>3. Segs(s)[p+1+k].len \in Nat
    BY <2>2
  <2> QED BY <2>1, <2>2, <2>3 DEF IsSegment
<1>7. CmdQueue(s, Q, p+1, 0)'
  BY <1>4, <1>5, <1>6 DEF CmdQueue
<1>8. Place(s, Q, p+1, 0)
  BY <1>1 DEF Place
<1> QED BY <1>7, <1>8 DEF Wire

(* A word of the segment at the head, which goes on. *)
LEMMA WireGoesOn ==
  ASSUME NEW s \in Sections, NEW Q \in 0..Len(Segs(s)), NEW U, NEW p, NEW j, NEW t, Wire(s, Q, U, p, j, t),
         cmds \in Seq(Segments), cmds # <<>>, Head(cmds).len > W,
         cmds' = [cmds EXCEPT ![1].len = @ - W],
         p = IF s.kind \in Writes THEN 2 ELSE Len(Segs(s)) - 1, s.kind \in Writes \cup ReadKinds,
         TxFifo(s, U, Taken(s, p, j+1))', RxFifo(Got(s, p, j+1), t)',
         \A k \in 1..Len(Segs(s)) : Segs(s)[k].len \in Nat
  PROVE  Wire(s, Q, U, p, j+1, t)'
<1>1. p \in Nat /\ j \in Nat /\ Q \in Nat /\ p < Q
  BY WireTypes, WireHead
<1>2. PICK l \in Nat : Len(cmds) = l /\ l > 0
  BY TailType
<1>3. Q - p = l /\ \A k \in 1..l : IsSegment(cmds[k], s, p, k, j)
  BY <1>2 DEF Wire, CmdQueue
<1>4. Len(cmds') = l /\ cmds'[1] = [cmds[1] EXCEPT !.len = @ - W]
      /\ \A k \in 2..l : cmds'[k] = cmds[k]
  BY <1>2
<1>5. cmds[1].len = Segs(s)[p+1].len - j * W /\ cmds[1] \in Segments /\ Head(cmds) = cmds[1]
  <2>1. IsSegment(cmds[1], s, p, 1, j)
    BY <1>2, <1>3
  <2> QED BY <2>1, <1>2, TailType DEF IsSegment
<1>6. Segs(s)[p+1].len \in Nat
  BY <1>1, LengthType
<1>7. (j + 1) * W = j * W + W /\ j * W \in Nat
  BY <1>1, Geometry, OneMore
<1>8. (j + 1) * W < Segs(s)[p+1].len /\ cmds[1].len - W = Segs(s)[p+1].len - (j + 1) * W
  <2> DEFINE x == j * W
             y == (j + 1) * W
             z == Segs(s)[p+1].len
  <2>1. x \in Nat /\ y = x + W /\ z \in Nat /\ W \in Nat
    BY <1>6, <1>7, Geometry
  <2>2. cmds[1].len = z - x /\ cmds[1].len > W
    BY <1>5
  <2> HIDE DEF x, y, z
  <2>3. y < z /\ cmds[1].len - W = z - y
    BY <2>1, <2>2
  <2> QED BY <2>3 DEF x, y, z
<1>9. \A k \in 1..l : IsSegment(cmds'[k], s, p, k, j+1)
  <2>1. IsSegment(cmds'[1], s, p, 1, j+1)
    <3>1. cmds'[1].dir = cmds[1].dir /\ cmds'[1].csaat = cmds[1].csaat
          /\ cmds'[1].len = cmds[1].len - W
      BY <1>4, <1>5 DEF Segments
    <3>2. IsSegment(cmds[1], s, p, 1, j)
      BY <1>2, <1>3
    <3> QED BY <1>8, <3>1, <3>2 DEF IsSegment
  <2>2. \A k \in 2..l : IsSegment(cmds'[k], s, p, k, j+1)
    <3> SUFFICES ASSUME NEW k \in 2..l PROVE IsSegment(cmds'[k], s, p, k, j+1)
      OBVIOUS
    <3>1. cmds'[k] = cmds[k] /\ IsSegment(cmds[k], s, p, k, j) /\ k # 1
      BY <1>2, <1>3, <1>4
    <3> QED BY <3>1 DEF IsSegment
  <2> QED BY <1>2, <2>1, <2>2
<1>10. CmdQueue(s, Q, p, j+1)'
  BY <1>3, <1>4, <1>9 DEF CmdQueue
<1>11. Place(s, Q, p, j+1)
  BY <1>1, <1>8 DEF Place
<1> QED BY <1>10, <1>11 DEF Wire

(* A word leaves the transmit FIFO for the wire. *)
LEMMA TxPop ==
  ASSUME NEW s, NEW U \in Nat, NEW a \in Nat, TxFifo(s, U, a), tx \in Seq(TxWords), tx # <<>>,
         tx' = Tail(tx)
  PROVE  TxFifo(s, U, a+1)' /\ IsWord(Head(tx), s, a+1) /\ a + 1 <= U
<1>1. PICK l \in Nat : Len(tx) = l + 1
  BY TailType
<1>2. U = a + l + 1 /\ \A k \in a+1..U : IsWord(tx[k - a], s, k)
  BY <1>1 DEF TxFifo
<1>3. Len(tx') = l /\ Head(tx) = tx[1] /\ \A k \in 1..l : tx'[k] = tx[k+1]
  BY <1>1
<1>4. IsWord(tx[1], s, a+1)
  <2>1. a + 1 \in a+1..U /\ (a + 1) - a = 1
    BY <1>2
  <2> QED BY <1>2, <2>1
<1>5. ASSUME NEW k \in a+1+1..U
      PROVE  IsWord(tx'[k - (a+1)], s, k)
  <2>1. k \in a+1..U /\ k - (a+1) \in 1..l /\ k - (a+1) + 1 = k - a
    BY <1>2
  <2> QED BY <1>2, <1>3, <2>1
<1>6. Len(tx') = U - (a+1)
  BY <1>2, <1>3
<1> QED BY <1>2, <1>3, <1>4, <1>5, <1>6 DEF TxFifo

(* A word enters the receive FIFO from the wire. *)
LEMMA RxPush ==
  ASSUME NEW g \in Nat, NEW t \in Nat, RxFifo(g, t), rx \in Seq(RxWords), NEW w, rx' = Append(rx, w)
  PROVE  RxFifo(g+1, t)'
<1>1. Len(rx') = Len(rx) + 1 /\ Len(rx) \in Nat
  OBVIOUS
<1> QED BY <1>1 DEF RxFifo

(* The segments of a section. *)
LEMMA SegsType ==
  ASSUME NEW s \in Sections, NEW k \in 1..Len(Segs(s))
  PROVE  Segs(s)[k].len \in Nat /\ Segs(s)[k].dir \in {"TX", "RX", "DUMMY"}
<1>1. s.n \in Nat /\ CommandLen(s) \in Nat /\ W \in Nat /\ 1 \in Nat
  BY Geometry DEF Sections, CommandLen
<1>2. CASE s.kind \in Pairs
  <2>1. /\ Segs(s)[1] = Seg("TX", 1) /\ Segs(s)[2] = Seg("TX", CommandLen(s))
        /\ Segs(s)[3] = HeldSeg("TX", 1) /\ Segs(s)[4] = Seg("RX", 1) /\ Len(Segs(s)) = 4
    BY <1>2 DEF Segs
  <2> QED BY <1>1, <2>1 DEF Seg, HeldSeg
<1>3. CASE s.kind \in Writes
  <2>1. /\ Segs(s)[1] = Seg("TX", 1) /\ Segs(s)[2] = HeldSeg("TX", CommandLen(s))
        /\ Segs(s)[3] = Seg("TX", s.n) /\ Segs(s)[4] = HeldSeg("TX", 1) /\ Segs(s)[5] = Seg("RX", 1)
        /\ Len(Segs(s)) = 5
    BY <1>3 DEF Segs, Pairs, Writes
  <2> QED BY <1>1, <2>1 DEF Seg, HeldSeg
<1>4. CASE s.kind = "read"
  <2>1. Segs(s)[1] = HeldSeg("TX", W) /\ Segs(s)[2] = Seg("RX", s.n) /\ Len(Segs(s)) = 2
    BY <1>4 DEF Segs, Pairs, Writes
  <2> QED BY <1>1, <2>1 DEF Seg, HeldSeg
<1>5. CASE s.kind = "readq"
  <2>1. /\ Segs(s)[1] = HeldSeg("TX", 1) /\ Segs(s)[2] = HeldSeg("TX", W)
        /\ Segs(s)[3] = HeldSeg("DUMMY", 1) /\ Segs(s)[4] = Seg("RX", s.n) /\ Len(Segs(s)) = 4
    BY <1>5 DEF Segs, Pairs, Writes
  <2> QED BY <1>1, <2>1 DEF Seg, HeldSeg
<1> QED BY <1>2, <1>3, <1>4, <1>5 DEF Sections, ReadKinds

(***************************************************************************)
(* What a step of the SPI host does to the wire and to the chip.           *)
(***************************************************************************)
Rest == <<mem, sr2, wel, asleep, rstEn, job, refused>>

LEMMA TxStep ==
  ASSUME FlashTypes, ShiftTx
  PROVE  \E n \in 1..W :
           /\ n = Lesser(W, Head(cmds).len) /\ Shifted(n, Received(Head(tx), n))
           /\ Received(Head(tx), n) \in Frames
           /\ cmds \in Seq(Segments) /\ cmds # <<>> /\ Head(cmds) \in Segments /\ Head(cmds).dir = "TX"
           /\ tx \in Seq(TxWords) /\ tx # <<>> /\ tx' = Tail(tx) /\ Head(tx) \in TxWords
           /\ UNCHANGED <<rx, rxwm, dmaVars, script, drvVars, events>>
<1>1. cmds \in Seq(Segments) /\ cmds # <<>> /\ Head(cmds).dir = "TX" /\ tx # <<>> /\ tx \in Seq(TxWords)
  BY DEF ShiftTx, FlashTypes, HostTypes
<1>2. Head(cmds) \in Segments /\ Head(tx) \in TxWords
  BY <1>1
<1>3. Lesser(W, Head(cmds).len) \in 1..W
  BY <1>2, Geometry DEF Lesser, Segments
<1>4. Received(Head(tx), Lesser(W, Head(cmds).len)) \in Frames
  BY <1>2, <1>3, ReceivedType DEF FlashTypes
<1>5. Shifted(Lesser(W, Head(cmds).len), Received(Head(tx), Lesser(W, Head(cmds).len)))
      /\ tx' = Tail(tx) /\ UNCHANGED <<rx, rxwm, dmaVars, script, drvVars, events>>
  BY DEF ShiftTx
<1> QED BY <1>1, <1>2, <1>3, <1>4, <1>5

(* The last word of a segment. *)
LEMMA LastWord ==
  ASSUME FlashTypes, ShiftTx, NEW s \in Sections, NEW Q \in 0..Len(Segs(s)), NEW U \in Nat, NEW p, NEW j,
         NEW t, Wire(s, Q, U, p, j, t), Segs(s)[p+1].len - j * W <= W,
         Taken(s, p+1, 0) = Taken(s, p, j) + 1, Got(s, p+1, 0) = Got(s, p, j)
  PROVE  \E f \in Frames, n \in 1..W :
           /\ n = Segs(s)[p+1].len - j * W /\ f = Received(Head(tx), n)
           /\ Head(tx) \in TxWords /\ IsWord(Head(tx), s, Taken(s, p, j) + 1)
           /\ Wire(s, Q, U, p+1, 0, t)'
           /\ IF Segs(s)[p+1].csaat THEN frame' = f /\ UNCHANGED Rest ELSE Deselect(f)
<1>1. PICK n \in 1..W :
           /\ n = Lesser(W, Head(cmds).len) /\ Shifted(n, Received(Head(tx), n))
           /\ Received(Head(tx), n) \in Frames
           /\ cmds \in Seq(Segments) /\ cmds # <<>> /\ Head(cmds) \in Segments /\ Head(cmds).dir = "TX"
           /\ tx \in Seq(TxWords) /\ tx # <<>> /\ tx' = Tail(tx) /\ Head(tx) \in TxWords
           /\ UNCHANGED <<rx, rxwm, dmaVars, script, drvVars, events>>
  BY TxStep
<1>2. /\ p < Q /\ Head(cmds).dir = Segs(s)[p+1].dir /\ Head(cmds).csaat = Segs(s)[p+1].csaat
      /\ Head(cmds).len = Segs(s)[p+1].len - j * W
  BY <1>1, WireHead
<1>3. n = Head(cmds).len
  BY <1>1, <1>2, Geometry DEF Lesser, Segments
<1>4. /\ cmds' = Tail(cmds)
      /\ IF Head(cmds).csaat THEN frame' = Received(Head(tx), n) /\ UNCHANGED Rest
         ELSE Deselect(Received(Head(tx), n))
  BY <1>1, <1>3, Geometry DEF Shifted, Rest
<1>5. Taken(s, p, j) \in Nat
  BY WireTypes
<1>6. TxFifo(s, U, Taken(s, p, j) + 1)' /\ IsWord(Head(tx), s, Taken(s, p, j) + 1)
  BY <1>1, <1>5, TxPop DEF Wire
<1>7. RxFifo(Got(s, p+1, 0), t)'
  BY <1>1 DEF Wire, RxFifo
<1>8. Wire(s, Q, U, p+1, 0, t)'
  BY <1>1, <1>4, <1>6, <1>7, SegsType, WireFinish
<1> QED BY <1>1, <1>2, <1>3, <1>4, <1>6, <1>8

LEMMA OneWordMore ==
  ASSUME FlashTypes, ShiftTx, NEW s \in Sections, NEW Q \in 0..Len(Segs(s)), NEW U \in Nat, NEW p, NEW j,
         NEW t, Wire(s, Q, U, p, j, t), Segs(s)[p+1].len - j * W > W, s.kind \in Writes, p = 2
  PROVE  /\ Head(tx) \in TxWords /\ IsWord(Head(tx), s, Taken(s, p, j) + 1)
         /\ Wire(s, Q, U, p, j+1, t)' /\ frame' = Received(Head(tx), W) /\ UNCHANGED Rest
         /\ Received(Head(tx), W) \in Frames
<1>1. PICK n \in 1..W :
           /\ n = Lesser(W, Head(cmds).len) /\ Shifted(n, Received(Head(tx), n))
           /\ Received(Head(tx), n) \in Frames
           /\ cmds \in Seq(Segments) /\ cmds # <<>> /\ Head(cmds) \in Segments /\ Head(cmds).dir = "TX"
           /\ tx \in Seq(TxWords) /\ tx # <<>> /\ tx' = Tail(tx) /\ Head(tx) \in TxWords
           /\ UNCHANGED <<rx, rxwm, dmaVars, script, drvVars, events>>
  BY TxStep
<1>2. Head(cmds).len = Segs(s)[p+1].len - j * W
  BY <1>1, WireHead
<1>3. n = W /\ Head(cmds).len > W
  BY <1>1, <1>2, Geometry DEF Lesser, Segments
<1>4. /\ cmds' = [cmds EXCEPT ![1].len = @ - W]
      /\ frame' = Received(Head(tx), W) /\ UNCHANGED Rest
  BY <1>1, <1>3, Geometry DEF Shifted, Rest
<1>5. Taken(s, p, j) \in Nat /\ j \in Nat
  BY WireTypes
<1>6. TxFifo(s, U, Taken(s, p, j) + 1)' /\ IsWord(Head(tx), s, Taken(s, p, j) + 1)
  BY <1>1, <1>5, TxPop DEF Wire
<1>7. Taken(s, p, j+1) = Taken(s, p, j) + 1 /\ Got(s, p, j+1) = Got(s, p, j)
  BY <1>5 DEF Taken, Got, Pairs, Writes, ReadKinds
<1>8. RxFifo(Got(s, p, j+1), t)'
  BY <1>1, <1>7 DEF Wire, RxFifo
<1>9. Wire(s, Q, U, p, j+1, t)'
  BY <1>1, <1>3, <1>4, <1>6, <1>7, <1>8, SegsType, WireGoesOn
<1> QED BY <1>1, <1>3, <1>4, <1>6, <1>9

(***************************************************************************)
(* The chip.                                                               *)
(***************************************************************************)
Starters == Erases \cup Programs \cup {"WSR2"}
Serious == Reads \cup Programs \cup Erases \cup {"RESET", "data", "aborted"}

ChipSane ==
  /\ asleep => job = NoJob
  /\ job.op = "WSR2" => 1 \in job.data[1]
  /\ up => 1 \in sr2
  /\ CommandsAccepted /\ NeighboursKept

LEMMA FirstWord ==
  ASSUME frame = NoFrame, NEW w, NEW n
  PROVE  Received(w, n) = [op |-> w.op, ok |-> Accepts(w.op), addr |-> w.addr, data |-> <<>>, sent |-> 0]
  BY DEF Received, NoFrame

LEMMA DeselectPlain ==
  ASSUME NEW f \in Frames, Deselect(f), ChipTypes, f.ok => f.op \notin Starters \/ (f.op \notin Erases /\ f.data = <<>>),
         f.ok /\ f.op = "RESET" => job = NoJob
  PROVE  /\ frame' = NoFrame /\ job' = job /\ mem' = mem /\ sr2' = sr2
         /\ refused' = refused \cup (IF f.ok THEN {} ELSE {f.op})
         /\ ~asleep /\ (f.ok => f.op # "PD") => ~asleep'
         /\ asleep' => asleep \/ (f.ok /\ f.op = "PD")
         /\ f.ok /\ f.op = "RPD" => ~asleep'
         /\ f.ok /\ f.op = "WE" => wel'
<1> DEFINE starts == /\ f.ok /\ f.op \in Erases \cup Programs \cup {"WSR2"}
                     /\ f.op \in Erases \/ f.data # <<>>
           resets == f.ok /\ f.op = "RESET" /\ rstEn
<1>1. ~starts
  BY DEF Starters
<1>2. job' = IF starts THEN [op |-> f.op, addr |-> f.addr, data |-> f.data]
             ELSE IF resets THEN NoJob ELSE job
  BY DEF Deselect
<1>3. job' = job
  BY <1>1, <1>2
<1>4. refused' = refused \cup (IF f.ok THEN {} ELSE {f.op})
  BY DEF Deselect
<1>5. /\ asleep' = ((asleep \/ (f.ok /\ f.op = "PD")) /\ ~(f.ok /\ f.op = "RPD"))
      /\ wel' = ((wel \/ (f.ok /\ f.op = "WE")) /\ ~resets)
  BY DEF Deselect
<1>6. frame' = NoFrame /\ mem' = mem /\ sr2' = sr2
  BY DEF Deselect
<1> HIDE DEF starts
<1>7. f.ok /\ f.op = "WE" => wel'
  BY <1>5
<1> QED BY <1>3, <1>4, <1>5, <1>6, <1>7

LEMMA DeselectStart ==
  ASSUME NEW f \in Frames, Deselect(f), f.ok, f.op \in Starters, f.op \in Erases \/ f.data # <<>>
  PROVE  /\ frame' = NoFrame /\ job' = [op |-> f.op, addr |-> f.addr, data |-> f.data]
         /\ mem' = mem /\ sr2' = sr2 /\ refused' = refused
         /\ asleep' => asleep
<1>1. f.op \notin {"RESET", "PD", "RPD"}
  BY DEF Starters, Erases, Programs
<1>2. refused' = refused
  <2>1. refused' = refused \cup (IF f.ok THEN {} ELSE {f.op})
                     \cup (IF (f.ok /\ f.op = "RESET" /\ rstEn) /\ job # NoJob THEN {"aborted"} ELSE {})
    BY DEF Deselect
  <2> QED BY <1>1, <2>1
<1>3. asleep' = ((asleep \/ (f.ok /\ f.op = "PD")) /\ ~(f.ok /\ f.op = "RPD"))
  BY DEF Deselect
<1>4. frame' = NoFrame /\ mem' = mem /\ sr2' = sr2
  BY DEF Deselect
<1>5. job' = [op |-> f.op, addr |-> f.addr, data |-> f.data]
  BY DEF Deselect, Starters
<1> QED BY <1>1, <1>2, <1>3, <1>4, <1>5

(* An effect within what the call may touch keeps the neighbours. *)
LEMMA Keeps ==
  ASSUME ChipSane, UNCHANGED <<mem, sr2, asleep, job, refused, call, pre>>, up' => up
  PROVE  ChipSane'
<1>1. Settled' = Settled
  BY DEF Settled
<1> QED BY <1>1 DEF ChipSane, CommandsAccepted, NeighboursKept

LEMMA KeepsPlain ==
  ASSUME ChipSane, UNCHANGED <<mem, sr2, job, call, pre>>, up' => up, NEW f \in Frames,
         refused' = refused \cup (IF f.ok THEN {} ELSE {f.op}), ~f.ok => f.op \notin Serious,
         asleep' => asleep \/ (f.ok /\ f.op = "PD"), f.ok /\ f.op = "PD" => job = NoJob
  PROVE  ChipSane'
<1>1. Settled' = Settled
  BY DEF Settled
<1>2. CommandsAccepted'
  BY DEF ChipSane, CommandsAccepted, Serious
<1> QED BY <1>1, <1>2 DEF ChipSane, NeighboursKept

LEMMA KeepsStart ==
  ASSUME ChipSane, UNCHANGED <<mem, sr2, refused, call, pre>>, up' => up, job = NoJob,
         asleep' => asleep, ~asleep, job'.op = "WSR2" => 1 \in job'.data[1],
         \A a \in Cells \ Scope(call) : Effect(job', mem)[a] = mem[a]
  PROVE  ChipSane'
<1>1. Settled = mem
  BY DEF Settled, Effect, NoJob, Programs, Erases
<1>2. Settled' = Effect(job', mem)
  BY DEF Settled
<1>3. Scope(call)' = Scope(call)
  OBVIOUS
<1>4. NeighboursKept'
  BY <1>1, <1>2 DEF ChipSane, NeighboursKept
<1> QED BY <1>4 DEF ChipSane, CommandsAccepted

(* An erase keeps the neighbours. *)
LEMMA EraseStays ==
  ASSUME NEW op \in Erases, NEW addr, EraseWithin(op, addr), NEW data, NEW a \in Cells \ Scope(call)
  PROVE  Effect([op |-> op, addr |-> addr, data |-> data], mem)[a] = mem[a]
<1>1. a \div EraseUnit(op) # addr \div EraseUnit(op)
  BY DEF EraseWithin
<1>2. op \notin Programs
  BY DEF Erases, Programs
<1> QED BY <1>1, <1>2 DEF Effect

LEMMA ModuloSum ==
  ASSUME NEW a \in Nat, NEW b \in Nat \ {0}, NEW c \in Nat, (a % b) + c < b
  PROVE  (a + c) % b = (a % b) + c
<1>1. \A q \in Nat, d \in Nat, y \in Nat \ {0} : d < y => (y * q + d) % y = d
  BY SMT
<1>2. a \div b \in Nat /\ a % b \in Nat /\ a = b * (a \div b) + (a % b)
  BY Divide
<1>3. (a % b) + c \in Nat
  BY <1>2
<1>4. (b * (a \div b) + ((a % b) + c)) % b = (a % b) + c
  BY <1>1, <1>2, <1>3
<1>5. a + c = b * (a \div b) + ((a % b) + c)
  <2>1. \A x, y, z \in Nat : a = x + y => a + z = x + (y + z)
    OBVIOUS
  <2>2. b * (a \div b) \in Nat
    BY <1>2, SMT
  <2> QED BY <1>2, <2>1, <2>2
<1> QED BY <1>4, <1>5

LEMMA InPage ==
  ASSUME NEW addr \in Nat, NEW m \in Nat, NEW n \in Nat, NEW i \in 1..n, NEW y, y = m + (i - 1)
  PROVE  addr - m + y \in addr..addr+n-1
  OBVIOUS

(* A program keeps the neighbours: it does not pass the end of its page. *)
LEMMA ProgramStays ==
  ASSUME NEW x, x.op \in Programs, x.addr \in Cells, NEW n \in Nat, (x.addr % Page) + n <= Page,
         Within(x.addr, n), x.data \in Seq(Bytes), Len(x.data) <= n, NEW a \in Cells \ Scope(call)
  PROVE  Effect(x, mem)[a] = mem[a]
<1>1. Hits(x, a) = {}
  <2> SUFFICES ASSUME NEW i \in 1..Len(x.data), x.addr - (x.addr % Page) + ((x.addr + i - 1) % Page) = a
               PROVE  FALSE
    BY DEF Hits
  <2>1. x.addr \in Nat /\ Page \in Nat \ {0} /\ i \in 1..n
    BY Geometry DEF Cells
  <2>2. x.addr % Page \in Nat
    BY <2>1, Divide
  <2>3. i - 1 \in Nat /\ x.addr + i - 1 = x.addr + (i - 1) /\ (x.addr % Page) + (i - 1) < Page
    <3>1. \A y, z, P : y \in Nat /\ z \in 1..n /\ P \in Nat /\ y + n <= P => z - 1 \in Nat /\ y + (z - 1) < P
      OBVIOUS
    <3>2. \A y, z \in Nat : y + z - 1 = y + (z - 1)
      OBVIOUS
    <3>3. i \in Nat
      BY <2>1
    <3> QED BY <2>1, <2>2, <3>1, <3>2, <3>3
  <2>4. (x.addr + i - 1) % Page = (x.addr % Page) + (i - 1)
    BY <2>1, <2>2, <2>3, ModuloSum
  <2>5. a \in x.addr..x.addr+n-1
    BY <2>1, <2>2, <2>4, InPage
  <2> QED BY <2>5 DEF Within
<1>2. x.op \notin Erases
  BY DEF Programs, Erases
<1> QED BY <1>1, <1>2 DEF Effect

(* A serious command that an idle and enabled chip receives is not         *)
(* refused.                                                                *)
LEMMA Accepted ==
  ASSUME ~asleep
  PROVE  /\ Accepts("RSR1") /\ Accepts("RSR2")
         /\ job = NoJob => /\ Accepts("WE") /\ Accepts("PD") /\ Accepts("ERESET") /\ Accepts("RESET")
                           /\ Accepts("RD") /\ (1 \in sr2 => Accepts("RDQIO"))
                           /\ wel => /\ \A op \in Erases : Accepts(op)
                                     /\ Accepts("PP") /\ (1 \in sr2 => Accepts("PPQ"))
<1>1. CASE job # NoJob
  BY <1>1 DEF Accepts
<1>2. CASE job = NoJob
  BY <1>2 DEF Accepts, Erases, Programs
<1> QED BY <1>1, <1>2

(***************************************************************************)
(* The SPI host shifts, by section.                                        *)
(***************************************************************************)
(* A section is under way; the wire and the chip move on in step. *)
Moves(s, Q, U, p, t) ==
  \E p2 \in 0..5, j2 \in Nat :
    /\ p2 >= p /\ Wire(s, Q, U, p2, j2, t)' /\ Stage(s, p2, j2)'
    /\ (s.kind = "wake" /\ p >= 2 /\ job = NoJob => job' = NoJob)
    
On(s, Q, U, p, j, t) ==
  /\ s \in Sections /\ Proper(s) /\ Q \in 0..Len(Segs(s)) /\ U \in Nat /\ t \in Nat
  /\ Wire(s, Q, U, p, j, t) /\ Stage(s, p, j)

LEMMA Ops ==
  /\ {"WE", "RSR1", "RSR2", "ERESET", "RPD", "PD"} \cap (Starters \cup Serious \cup Reads) = {}
  /\ "RESET" \notin Starters /\ Reads \cap Starters = {} /\ "none" \notin Opcodes
  /\ \A op \in Erases : op \in Starters /\ op \notin Programs \cup {"WSR2"}
  /\ \A op \in Programs : op \in Starters /\ op \notin Erases \cup {"WSR2"}
  BY DEF Starters, Serious, Reads, Programs, Erases, Opcodes

LEMMA PairSegs ==
  ASSUME NEW s \in Sections, s.kind \in Pairs
  PROVE  /\ Len(Segs(s)) = 4 /\ Segs(s)[1].csaat = FALSE /\ Segs(s)[2].csaat = FALSE
         /\ Segs(s)[3].csaat = TRUE /\ Segs(s)[4].csaat = FALSE
         /\ Segs(s)[1].dir = "TX" /\ Segs(s)[2].dir = "TX" /\ Segs(s)[3].dir = "TX" /\ Segs(s)[4].dir = "RX"
         /\ \A k \in 1..4 : Segs(s)[k].len \in 1..W
         /\ \A p \in 0..4 : Taken(s, p, 0) = Lesser(p, 3) /\ Got(s, p, 0) = (IF p = 4 THEN 1 ELSE 0)
<1>1. /\ Segs(s)[1] = Seg("TX", 1) /\ Segs(s)[2] = Seg("TX", CommandLen(s))
      /\ Segs(s)[3] = HeldSeg("TX", 1) /\ Segs(s)[4] = Seg("RX", 1) /\ Len(Segs(s)) = 4
  BY DEF Segs
<1>2. CommandLen(s) \in 1..W /\ 1 \in 1..W
  BY Geometry DEF CommandLen
<1>3. \A p \in 0..4 : Taken(s, p, 0) = Lesser(p, 3) /\ Got(s, p, 0) = (IF p = 4 THEN 1 ELSE 0)
  BY <1>1 DEF Taken, Got, Pairs, ReadKinds, Writes
<1> QED BY <1>1, <1>2, <1>3 DEF Seg, HeldSeg

LEMMA PairsTx ==
  ASSUME FlashTypes, ChipSane, ShiftTx, NEW s, s.kind \in Pairs,
         NEW Q, NEW U, NEW p, NEW j, NEW t, On(s, Q, U, p, j, t)
  PROVE  Moves(s, Q, U, p, t) /\ ChipSane'
<1>1. /\ s \in Sections /\ Q \in 0..4 /\ U \in Nat /\ p \in Nat /\ p <= Q /\ j = 0
      /\ Wire(s, Q, U, p, 0, t) /\ PairStage(s, p) /\ Len(Segs(s)) = 4 /\ Q \in 0..Len(Segs(s))
  <2>1. s \in Sections /\ Len(Segs(s)) = 4 /\ Wire(s, Q, U, p, j, t) /\ Q \in 0..Len(Segs(s))
    BY PairSegs DEF On
  <2>2. j = 0
    BY <2>1, WireTypes DEF Wire, Place, Pairs, Writes, ReadKinds
  <2> QED BY <2>1, <2>2, WireTypes DEF On, Stage
<1>2. cmds \in Seq(Segments) /\ cmds # <<>> /\ Head(cmds).dir = "TX"
  BY TxStep
<1>3. p < Q /\ p \in 0..3 /\ Segs(s)[p+1].dir = "TX"
  <2>1. p < Q /\ Head(cmds).dir = Segs(s)[p+1].dir
    BY <1>1, <1>2, WireHead
  <2> QED BY <1>1, <1>2, <2>1
<1>4. p \in 0..2 /\ Segs(s)[p+1].len \in 1..W
  <2>1. Segs(s)[4].dir = "RX" /\ \A k \in 1..4 : Segs(s)[k].len \in 1..W
    BY <1>1, PairSegs
  <2>2. p # 3
    BY <1>3, <2>1
  <2> QED BY <1>3, <2>1, <2>2
<1>5. Taken(s, p, 0) = p /\ Taken(s, p+1, 0) = p + 1 /\ Got(s, p, 0) = 0 /\ Got(s, p+1, 0) = 0
  <2>1. /\ \A x \in 0..4 : Taken(s, x, 0) = Lesser(x, 3) /\ Got(s, x, 0) = (IF x = 4 THEN 1 ELSE 0)
    BY <1>1, PairSegs
  <2>2. p \in 0..4 /\ p + 1 \in 0..4 /\ p # 4 /\ p + 1 # 4 /\ Lesser(p, 3) = p /\ Lesser(p+1, 3) = p + 1
    BY <1>4 DEF Lesser
  <2> QED BY <2>1, <2>2
<1>6. Segs(s)[p+1].len - 0 * W <= W
  BY <1>4, Geometry
<1>7. PICK f \in Frames, n \in 1..W :
           /\ f = Received(Head(tx), n)
           /\ Head(tx) \in TxWords /\ IsWord(Head(tx), s, Taken(s, p, 0) + 1)
           /\ Wire(s, Q, U, p+1, 0, t)'
           /\ IF Segs(s)[p+1].csaat THEN frame' = f /\ UNCHANGED Rest ELSE Deselect(f)
  <2>1. Taken(s, p+1, 0) = Taken(s, p, 0) + 1 /\ Got(s, p+1, 0) = Got(s, p, 0)
    BY <1>5
  <2>2. Taken(s, p+1, 0) = Taken(s, p, j) + 1 /\ Got(s, p+1, 0) = Got(s, p, j)
    BY <1>1, <2>1
  <2>3. PICK f \in Frames, n \in 1..W :
           /\ n = Segs(s)[p+1].len - j * W /\ f = Received(Head(tx), n)
           /\ Head(tx) \in TxWords /\ IsWord(Head(tx), s, Taken(s, p, j) + 1)
           /\ Wire(s, Q, U, p+1, 0, t)'
           /\ IF Segs(s)[p+1].csaat THEN frame' = f /\ UNCHANGED Rest ELSE Deselect(f)
    <3>1. s \in Sections /\ Q \in 0..Len(Segs(s)) /\ U \in Nat /\ Wire(s, Q, U, p, j, t)
      BY <1>1
    <3>2. Segs(s)[p+1].len - j * W <= W
      BY <1>1, <1>6
    <3> QED BY <2>2, <3>1, <3>2, LastWord
  <2>4. IsWord(Head(tx), s, Taken(s, p, 0) + 1)
    BY <1>1, <2>3
  <2> QED BY <2>3, <2>4
<1>8. frame = NoFrame
  <2>1. PairStage(s, p) /\ p # 3
    BY <1>1, <1>4
  <2> QED BY <2>1 DEF PairStage
<1>9. Head(tx).op = WordOp(s, p+1)
  BY <1>5, <1>7 DEF IsWord
<1>10. Head(tx).addr = WordAddr(s, p+1)
  BY <1>5, <1>7 DEF IsWord
<1>11. /\ f.op = WordOp(s, p+1) /\ f.ok = Accepts(WordOp(s, p+1)) /\ f.addr = WordAddr(s, p+1)
       /\ f.data = <<>>
  BY <1>7, <1>8, <1>9, <1>10, FirstWord
<1>12. UNCHANGED <<call, up, pre, rx>>
  BY DEF ShiftTx, drvVars
<1>13. ChipTypes
  BY DEF FlashTypes
<1>14. Proper(s)
  BY DEF On
<1>15. Segs(s)[1].csaat = FALSE /\ Segs(s)[2].csaat = FALSE /\ Segs(s)[3].csaat = TRUE
  BY <1>1, PairSegs
<1> HIDE DEF Moves
<1>16. SUFFICES ASSUME TRUE PROVE PairStage(s, p+1)' /\ ChipSane' /\ (p >= 2 /\ job = NoJob => job' = NoJob)
  <2>1. p + 1 \in 0..5 /\ p + 1 >= p /\ 0 \in Nat
    BY <1>4
  <2>2. PairStage(s, p+1)' => Stage(s, p+1, 0)'
    BY DEF Stage, Pairs, Writes, ReadKinds
  <2> QED BY <1>7, <2>1, <2>2 DEF Moves
<1>17. /\ WordOp(s, 1) = FirstOp(s) /\ WordOp(s, 2) = s.op /\ WordOp(s, 3) = StatusOp(s)
       /\ WordAddr(s, 2) = s.addr
  BY <1>1 DEF WordOp, WordAddr, Pairs, Writes, ReadKinds, On
<1>18. /\ s.kind = "wake" => s.op = "RPD" /\ FirstOp(s) = "PD"
       /\ s.kind = "erase" => s.op \in Erases /\ EraseWithin(s.op, s.addr) /\ FirstOp(s) = "WE"
       /\ s.kind = "reset" => s.op = "RESET" /\ FirstOp(s) = "ERESET"
  BY <1>14 DEF Proper, FirstOp
<1>19. StatusOp(s) \in {"RSR1", "RSR2"} /\ s.kind \in {"wake", "erase", "reset"}
  BY DEF StatusOp, Pairs
<1>20. CASE p = 0
  <2>1. Deselect(f) /\ job = NoJob /\ ~asleep /\ f.op = FirstOp(s)
    BY <1>1, <1>7, <1>11, <1>15, <1>17, <1>20 DEF PairStage
  <2>2. f.op \in {"PD", "ERESET", "WE"} /\ f.ok
    BY <1>11, <1>18, <1>19, <2>1, <1>17, <1>20, Accepted
  <2>3. f.op \notin Starters /\ f.op # "RESET"
    BY <2>2, Ops
  <2>4. /\ frame' = NoFrame /\ job' = job /\ mem' = mem /\ sr2' = sr2 /\ refused' = refused
        /\ f.op # "PD" => ~asleep'
        /\ asleep' => f.op = "PD" /\ (f.op = "WE" => wel')
        /\ f.op = "WE" => wel'
    BY <1>13, <2>1, <2>2, <2>3, DeselectPlain
  <2>5. ChipSane'
    BY <1>12, <2>1, <2>2, <2>4, KeepsPlain
  <2>6. PairStage(s, 1)'
    BY <1>18, <1>19, <2>1, <2>4 DEF PairStage
  <2> QED BY <1>20, <2>4, <2>5, <2>6
<1>21. CASE p = 1 /\ s.kind # "erase"
  <2>1. Deselect(f) /\ f.op = s.op /\ (asleep => job = NoJob) /\ (s.kind = "reset" => job = NoJob /\ ~asleep)
    BY <1>1, <1>7, <1>11, <1>15, <1>17, <1>19, <1>21 DEF PairStage, ChipSane
  <2>2. f.op \in {"RPD", "RESET"} /\ (f.op = "RESET" => f.ok /\ s.kind = "reset") /\ (asleep => f.ok /\ f.op = "RPD")
    <3>1. CASE s.kind = "wake"
      BY <1>11, <1>17, <1>18, <1>21, <2>1, <3>1 DEF Accepts
    <3>2. CASE s.kind = "reset"
      BY <1>11, <1>17, <1>18, <1>21, <2>1, <3>2, Accepted
    <3> QED BY <1>19, <1>21, <3>1, <3>2
  <2>3. f.op \notin Starters /\ f.op # "PD" /\ (f.op = "RPD" => f.op \notin Serious)
    BY <2>2, Ops
  <2>4. f.ok /\ f.op = "RESET" => job = NoJob
    BY <2>1, <2>2
  <2>5. /\ frame' = NoFrame /\ job' = job /\ mem' = mem /\ sr2' = sr2
        /\ refused' = refused \cup (IF f.ok THEN {} ELSE {f.op}) /\ ~asleep'
    <3>1. /\ frame' = NoFrame /\ job' = job /\ mem' = mem /\ sr2' = sr2
          /\ refused' = refused \cup (IF f.ok THEN {} ELSE {f.op})
          /\ asleep' => asleep \/ (f.ok /\ f.op = "PD")
          /\ f.ok /\ f.op = "RPD" => ~asleep'
      BY <1>13, <2>1, <2>3, <2>4, DeselectPlain
    <3> QED BY <2>2, <2>3, <3>1
  <2>6. ChipSane'
    BY <1>12, <2>2, <2>3, <2>5, KeepsPlain
  <2>7. PairStage(s, 2)'
    BY <2>5 DEF PairStage
  <2> QED BY <1>21, <2>5, <2>6, <2>7
<1>22. CASE p = 1 /\ s.kind = "erase"
  <2>1. Deselect(f) /\ f.op = s.op /\ job = NoJob /\ ~asleep /\ wel /\ f.addr = s.addr
    BY <1>1, <1>7, <1>11, <1>15, <1>17, <1>19, <1>22 DEF PairStage, ChipSane
  <2>2. f.op \in Erases /\ f.ok
    BY <1>11, <1>17, <1>18, <1>22, <2>1, Accepted
  <2>3. f.op \in Starters /\ f.op # "WSR2"
    BY <2>2, Ops
  <2>4. /\ frame' = NoFrame /\ job' = [op |-> f.op, addr |-> f.addr, data |-> f.data]
        /\ mem' = mem /\ sr2' = sr2 /\ refused' = refused /\ ~asleep'
    BY <2>1, <2>2, <2>3, DeselectStart
  <2>5. \A a \in Cells \ Scope(call) : Effect(job', mem)[a] = mem[a]
    BY <1>18, <1>22, <2>1, <2>2, <2>4, EraseStays
  <2>6. job'.op # "WSR2"
    BY <2>3, <2>4
  <2>7. ChipSane'
    BY <1>12, <2>1, <2>4, <2>5, <2>6, KeepsStart
  <2>8. PairStage(s, 2)'
    BY <2>4 DEF PairStage
  <2> QED BY <1>22, <2>7, <2>8
<1>23. CASE p = 2
  <2>1. frame' = f /\ UNCHANGED Rest /\ f.op = StatusOp(s) /\ ~asleep
    BY <1>1, <1>7, <1>11, <1>15, <1>17, <1>23 DEF PairStage
  <2>2. f.ok = TRUE
    BY <1>11, <1>17, <1>19, <1>23, <2>1, Accepted
  <2>3. ChipSane'
    BY <1>12, <2>1, Keeps DEF Rest
  <2>4. PairStage(s, 3)'
    BY <2>1, <2>2 DEF PairStage, FrameOf, Rest
  <2> QED BY <1>23, <2>1, <2>3, <2>4 DEF Rest
<1> QED BY <1>4, <1>20, <1>21, <1>22, <1>23

LEMMA CeilLast ==
  ASSUME NEW n \in Nat \ {0}, NEW j \in Nat, j * W < n
  PROVE  j < Ceil(n) /\ (n - j * W <= W => Ceil(n) = j + 1) /\ Ceil(n) \in Nat
<1> DEFINE x == n + W - 1
           q == x \div W
<1>1. W \in Nat \ {0} /\ x \in Nat
  BY Geometry
<1>2. q \in Nat /\ x % W < W /\ x = W * q + (x % W) /\ x % W \in Nat
  BY <1>1, Divide
<1>3. Ceil(n) = q
  BY DEF Ceil
<1>4. \A a, b \in Nat : a <= b => W * a <= W * b /\ W * a \in Nat /\ W * b \in Nat
  <2>1. \A w, a, b \in Nat : a <= b => w * a <= w * b /\ w * a \in Nat /\ w * b \in Nat
    BY SMT
  <2> QED BY <1>1, <2>1
<1>5. W * (j + 1) = j * W + W /\ W * (j + 2) = j * W + W + W /\ W * j = j * W /\ j * W \in Nat
  <2>1. \A w, a \in Nat : w * (a + 1) = a * w + w /\ w * (a + 2) = a * w + w + w /\ w * a = a * w /\ a * w \in Nat
    BY SMT
  <2> QED BY <1>1, <2>1
<1> HIDE DEF q
<1>6. j < q
  <2>1. CASE q <= j
    <3>1. W * q <= j * W
      BY <1>2, <1>4, <1>5, <2>1
    <3>2. \A a, b, c, d, e \in Nat : a <= b /\ b < c /\ c + d - 1 = a + e /\ e < d => FALSE
      OBVIOUS
    <3>3. W * q \in Nat
      BY <1>2, <1>4
    <3> QED BY <1>1, <1>2, <1>5, <3>1, <3>2, <3>3
  <2> QED BY <1>2, <2>1
<1>7. ASSUME n - j * W <= W PROVE q = j + 1
  <2>1. CASE q >= j + 2
    <3>1. j * W + W + W <= W * q
      BY <1>2, <1>4, <1>5, <2>1
    <3>2. \A a, b, c, d, e \in Nat : b + d + d <= a /\ c - b <= d /\ d > 0 /\ c + d - 1 = a + e => FALSE
      OBVIOUS
    <3>3. W * q \in Nat
      BY <1>2, <1>4
    <3> QED BY <1>1, <1>2, <1>5, <1>7, <3>1, <3>2, <3>3
  <2> QED BY <1>2, <1>6, <2>1
<1> QED BY <1>2, <1>3, <1>6, <1>7

LEMMA WriteSegs ==
  ASSUME NEW s \in Sections, s.kind \in Writes, Proper(s)
  PROVE  /\ Len(Segs(s)) = 5 /\ Segs(s)[1].csaat = FALSE /\ Segs(s)[2].csaat = TRUE
         /\ Segs(s)[3].csaat = FALSE /\ Segs(s)[4].csaat = TRUE /\ Segs(s)[5].csaat = FALSE
         /\ Segs(s)[5].dir = "RX" /\ Segs(s)[3].len = s.n /\ s.n \in Nat \ {0}
         /\ Segs(s)[1].len \in 1..W /\ Segs(s)[2].len \in 1..W /\ Segs(s)[4].len \in 1..W
         /\ Segs(s)[5].len \in 1..W
<1>1. /\ Segs(s)[1] = Seg("TX", 1) /\ Segs(s)[2] = HeldSeg("TX", CommandLen(s))
      /\ Segs(s)[3] = Seg("TX", s.n) /\ Segs(s)[4] = HeldSeg("TX", 1) /\ Segs(s)[5] = Seg("RX", 1)
      /\ Len(Segs(s)) = 5
  BY DEF Segs, Writes, Pairs
<1>2. CommandLen(s) \in 1..W /\ 1 \in 1..W
  BY Geometry DEF CommandLen
<1>3. s.n \in Nat \ {0}
  BY DEF Proper, Writes
<1> QED BY <1>1, <1>2, <1>3 DEF Seg, HeldSeg

LEMMA WriteTaken ==
  ASSUME NEW s \in Sections, s.kind \in Writes, NEW j \in Nat
  PROVE  /\ Taken(s, 0, 0) = 0 /\ Taken(s, 1, 0) = 1 /\ Taken(s, 2, j) = 2 + j
         /\ Taken(s, 3, 0) = 2 + N(s) /\ Taken(s, 4, 0) = 3 + N(s) /\ Taken(s, 5, 0) = 3 + N(s)
<1>1. s.kind \notin Pairs
  BY DEF Writes, Pairs
<1> QED BY <1>1 DEF Taken

LEMMA WriteGot ==
  ASSUME NEW s \in Sections, s.kind \in Writes, Len(Segs(s)) = 5, NEW p \in 0..5, NEW j \in Nat
  PROVE  Got(s, p, j) = IF p = 5 THEN 1 ELSE 0
BY DEF Got, Writes, ReadKinds

LEMMA WriteWords ==
  ASSUME NEW s \in Sections, s.kind \in Writes, NEW j \in Nat
  PROVE  /\ WordOp(s, 1) = "WE" /\ WordOp(s, 2) = s.op /\ WordAddr(s, 2) = s.addr
         /\ j < N(s) => WordOp(s, 3 + j) = "data"
         /\ WordOp(s, 3 + N(s)) = "RSR1" /\ N(s) \in Nat
<1>1. s.kind \notin ReadKinds /\ s.kind \notin {"wake", "reset"}
  BY DEF Writes, ReadKinds
<1>2. N(s) \in Nat
  BY LengthType
<1>3. FirstOp(s) = "WE" /\ StatusOp(s) = "RSR1"
  BY <1>1 DEF FirstOp, StatusOp
<1> QED BY <1>1, <1>2, <1>3 DEF WordOp, WordAddr

LEMMA NextWordOf ==
  ASSUME frame.op # "none", NEW w \in TxWords, w.op = "data", NEW n \in 1..W, frame.data \in Seq(Bytes)
  PROVE  /\ Received(w, n).op = frame.op /\ Received(w, n).ok = frame.ok
         /\ Received(w, n).addr = frame.addr /\ Received(w, n).data = frame.data \o SubSeq(w.bytes, 1, n)
         /\ Len(Received(w, n).data) = Len(frame.data) + n
         /\ frame.data = <<>> => Received(w, n).data[1] = w.bytes[1]
<1>1. w.bytes \in [1..W -> Bytes] /\ W \in Nat /\ n \in Nat
  BY Geometry DEF TxWords, RxWords, Opcodes, Reads, Programs, Erases
<1>2. w.bytes \in Seq(Bytes) /\ Len(w.bytes) = W
  BY <1>1
<1>3. SubSeq(w.bytes, 1, n) \in Seq(Bytes) /\ Len(SubSeq(w.bytes, 1, n)) = n
      /\ SubSeq(w.bytes, 1, n)[1] = w.bytes[1]
  BY <1>2
<1>4. Received(w, n) = [frame EXCEPT !.data = @ \o SubSeq(w.bytes, 1, n)]
  BY DEF Received
<1> QED BY <1>3, <1>4

(* The command at p = 0 or p = 3, the opcode at p = 1. *)
LEMMA WritesWord ==
  ASSUME FlashTypes, ShiftTx, NEW s, s.kind \in Writes,
         NEW Q, NEW U, NEW p, NEW j, NEW t, On(s, Q, U, p, j, t), p \in {0, 1, 3}
  PROVE  \E f \in Frames :
           /\ f.op = Head(tx).op /\ f.ok = Accepts(Head(tx).op) /\ f.addr = Head(tx).addr
           /\ f.data = <<>> /\ IsWord(Head(tx), s, IF p = 3 THEN 3 + N(s) ELSE p + 1)
           /\ Wire(s, Q, U, p+1, 0, t)'
           /\ IF p = 0 THEN Deselect(f) ELSE frame' = f /\ UNCHANGED Rest
<1>1. /\ s \in Sections /\ Q \in 0..Len(Segs(s)) /\ U \in Nat /\ Wire(s, Q, U, p, j, t)
      /\ WriteStage(s, p, j) /\ Proper(s) /\ Len(Segs(s)) = 5
  BY WriteSegs DEF On, Stage
<1>2. j = 0
  BY <1>1, WireTypes DEF Wire, Place
<1>3. frame = NoFrame
  BY <1>1 DEF WriteStage
<1>4. 0 * W = 0
  BY Geometry
<1>5. Segs(s)[p+1].len - j * W <= W
  <2>1. Segs(s)[1].len \in 1..W /\ Segs(s)[2].len \in 1..W /\ Segs(s)[4].len \in 1..W
    BY <1>1, WriteSegs
  <2>2. Segs(s)[p+1].len \in 1..W
    BY <2>1
  <2> QED BY <1>2, <1>4, <2>2, Geometry
<1>6. Taken(s, p+1, 0) = Taken(s, p, j) + 1 /\ Taken(s, p, j) = (IF p = 3 THEN 2 + N(s) ELSE p)
  BY <1>1, <1>2, WriteTaken, LengthType
<1>7. Got(s, p+1, 0) = Got(s, p, j)
  BY <1>1, <1>2, WriteGot
<1>8. PICK f \in Frames, n \in 1..W :
           /\ n = Segs(s)[p+1].len - j * W /\ f = Received(Head(tx), n)
           /\ Head(tx) \in TxWords /\ IsWord(Head(tx), s, Taken(s, p, j) + 1)
           /\ Wire(s, Q, U, p+1, 0, t)'
           /\ IF Segs(s)[p+1].csaat THEN frame' = f /\ UNCHANGED Rest ELSE Deselect(f)
  <2> HIDE DEF ShiftTx
  <2>1. Taken(s, p+1, 0) = Taken(s, p, j) + 1
    BY <1>6
  <2>2. s \in Sections /\ Q \in 0..Len(Segs(s)) /\ U \in Nat /\ Wire(s, Q, U, p, j, t)
    BY <1>1
  <2> QED BY <1>5, <1>7, <2>1, <2>2, LastWord
<1>9. IsWord(Head(tx), s, IF p = 3 THEN 3 + N(s) ELSE p + 1)
  <2>1. Taken(s, p, j) + 1 = IF p = 3 THEN 3 + N(s) ELSE p + 1
    BY <1>1, <1>6, LengthType
  <2> QED BY <1>8, <2>1
<1>10. (p = 0 => Segs(s)[p+1].csaat = FALSE) /\ (p # 0 => Segs(s)[p+1].csaat = TRUE)
  <2>1. Segs(s)[1].csaat = FALSE /\ Segs(s)[2].csaat = TRUE /\ Segs(s)[4].csaat = TRUE
    BY <1>1, WriteSegs
  <2> QED BY <2>1
<1>11. /\ f.op = Head(tx).op /\ f.ok = Accepts(Head(tx).op) /\ f.addr = Head(tx).addr
       /\ f.data = <<>>
  BY <1>3, <1>8, FirstWord
<1> QED BY <1>8, <1>9, <1>10, <1>11

LEMMA WritesTxCommand ==
  ASSUME FlashTypes, ChipSane, ShiftTx, NEW s, s.kind \in Writes,
         NEW Q, NEW U, NEW p, NEW j, NEW t, On(s, Q, U, p, j, t), p \in {0, 1, 3}
  PROVE  Moves(s, Q, U, p, t) /\ ChipSane'
<1>1. /\ s \in Sections /\ WriteStage(s, p, j) /\ Proper(s) /\ s.kind \notin Pairs \cup ReadKinds
  BY DEF On, Stage, Pairs, Writes, ReadKinds
<1>2. PICK f \in Frames :
           /\ f.op = Head(tx).op /\ f.ok = Accepts(Head(tx).op) /\ f.addr = Head(tx).addr
           /\ f.data = <<>> /\ IsWord(Head(tx), s, IF p = 3 THEN 3 + N(s) ELSE p + 1)
           /\ Wire(s, Q, U, p+1, 0, t)'
           /\ IF p = 0 THEN Deselect(f) ELSE frame' = f /\ UNCHANGED Rest
  BY WritesWord
<1>3. UNCHANGED <<call, up, pre>> /\ ChipTypes
  BY DEF ShiftTx, drvVars, FlashTypes
<1>4. ~asleep
  BY <1>1 DEF WriteStage
<1>5. SUFFICES WriteStage(s, p+1, 0)' /\ ChipSane'
  <2>1. p + 1 \in 0..5 /\ p + 1 >= p /\ 0 \in Nat
    OBVIOUS
  <2>2. up' = up /\ (s.kind \in {"program"} \cup ReadKinds => up)
    BY <1>3 DEF On, Stage
  <2>3. WriteStage(s, p+1, 0)' => Stage(s, p+1, 0)'
    BY <1>1, <2>2 DEF Stage
  <2>4. s.kind # "wake"
    BY DEF Writes
  <2> QED BY <1>2, <2>1, <2>3, <2>4 DEF Moves
<1>6. up => 1 \in sr2
  BY DEF ChipSane
<1>7. s.kind = "program" => up /\ s.op \in Programs
  BY <1>1 DEF WriteStage, Proper
<1>8. s.kind = "enable" => s.op = "WSR2"
  BY <1>1 DEF Proper
<1>9. s.kind \in {"program", "enable"}
  BY DEF Writes
<1>10. CASE p = 0
  <2>1. f.op = "WE" /\ Deselect(f) /\ (s.kind = "program" => job = NoJob)
    BY <1>1, <1>2, <1>10, WriteWords DEF IsWord, WriteStage
  <2>2. job = NoJob => f.ok
    BY <1>2, <1>4, <2>1, Accepted
  <2>3. f.op \notin Starters /\ f.op \notin Serious /\ f.op # "RESET" /\ f.op # "PD"
    BY <2>1, Ops
  <2>4. /\ frame' = NoFrame /\ job' = job /\ mem' = mem /\ sr2' = sr2
        /\ refused' = refused \cup (IF f.ok THEN {} ELSE {f.op})
        /\ ~asleep' /\ (f.ok => wel')
    BY <1>3, <1>4, <2>1, <2>3, DeselectPlain
  <2>5. ChipSane'
    BY <1>3, <2>3, <2>4, KeepsPlain
  <2>6. WriteStage(s, 1, 0)'
    BY <1>3, <1>7, <1>9, <2>1, <2>2, <2>4 DEF WriteStage, ReadKinds
  <2> QED BY <1>10, <2>5, <2>6
<1>11. CASE p = 1
  <2>1. f.op = s.op /\ f.addr = s.addr /\ frame' = f /\ UNCHANGED Rest
        /\ (s.kind = "program" => job = NoJob /\ wel)
    BY <1>1, <1>2, <1>11, WriteWords DEF IsWord, WriteStage
  <2>2. s.kind = "program" => f.ok
    <3>1. ASSUME s.kind = "program" PROVE Accepts(s.op)
      <4>1. s.op \in {"PP", "PPQ"} /\ job = NoJob /\ wel /\ 1 \in sr2
        BY <1>6, <1>7, <2>1, <3>1 DEF Programs
      <4> QED BY <1>4, <4>1, Accepted
    <3> QED BY <1>2, <2>1, <3>1
  <2>3. f.ok => job = NoJob
    <3>1. Accepts(s.op) => job = NoJob
      BY <1>4, <1>7, <1>8, <1>9 DEF Accepts, Programs
    <3> QED BY <1>2, <2>1, <3>1
  <2>4. ChipSane'
    BY <1>3, <2>1, Keeps DEF Rest
  <2>5. Len(f.data) = 0 * W
    BY <1>2, Geometry
  <2>6. WriteStage(s, 2, 0)'
    BY <1>3, <1>4, <1>7, <1>9, <2>1, <2>2, <2>3, <2>5 DEF WriteStage, ReadKinds, Rest
  <2> QED BY <1>11, <2>4, <2>6
<1>12. CASE p = 3
  <2>1. f.op = "RSR1" /\ frame' = f /\ UNCHANGED Rest
    <3>1. IsWord(Head(tx), s, 3 + N(s)) /\ WordOp(s, 3 + N(s)) = "RSR1"
      BY <1>1, <1>2, <1>12, WriteWords
    <3> QED BY <1>2, <1>12, <3>1 DEF IsWord
  <2>2. f.ok = TRUE
    BY <1>2, <1>4, <2>1, Accepted
  <2>3. ChipSane'
    BY <1>3, <2>1, Keeps DEF Rest
  <2>4. WriteStage(s, 4, 0)'
    BY <1>3, <1>4, <1>7, <1>9, <2>1, <2>2 DEF WriteStage, ReadKinds, Rest, FrameOf
  <2> QED BY <1>12, <2>3, <2>4
<1> QED BY <1>10, <1>11, <1>12

LEMMA WritesTxData ==
  ASSUME FlashTypes, ChipSane, ShiftTx, NEW s, s.kind \in Writes,
         NEW Q, NEW U, NEW p, NEW j, NEW t, On(s, Q, U, p, j, t), p = 2
  PROVE  Moves(s, Q, U, p, t) /\ ChipSane'
<1>1. /\ s \in Sections /\ Q \in 0..Len(Segs(s)) /\ U \in Nat /\ Wire(s, Q, U, p, j, t)
      /\ WriteStage(s, p, j) /\ Proper(s) /\ Len(Segs(s)) = 5 /\ s.kind \notin Pairs \cup ReadKinds
  BY WriteSegs DEF On, Stage, Pairs, Writes, ReadKinds
<1>2. j \in Nat
  BY <1>1, WireTypes
<1>3. Segs(s)[p+1].len = s.n /\ Segs(s)[p+1].csaat = FALSE /\ s.n \in Nat \ {0}
  <2>1. Segs(s)[3].len = s.n /\ Segs(s)[3].csaat = FALSE /\ s.n \in Nat \ {0}
    BY <1>1, WriteSegs
  <2>2. p + 1 = 3
    OBVIOUS
  <2> QED BY <2>1, <2>2
<1>4. j * W \in Nat /\ (j + 1) * W = j * W + W /\ W \in Nat \ {0} /\ 0 * W = 0
  BY <1>2, Geometry, OneMore
<1>5. j * W < s.n
  <2>1. j > 0 => j * W < Segs(s)[p+1].len
    BY <1>1 DEF Wire, Place
  <2>2. j = 0 => j * W = 0
    BY <1>4
  <2> QED BY <1>2, <1>3, <2>1, <2>2
<1>6. j < N(s) /\ (s.n - j * W <= W => N(s) = j + 1) /\ N(s) \in Nat
  BY <1>2, <1>3, <1>5, CeilLast DEF N
<1>7. Taken(s, p, j) = 2 + j /\ Taken(s, p, j+1) = 3 + j /\ Taken(s, 3, 0) = 2 + N(s)
  BY <1>1, <1>2, WriteTaken
<1>8. /\ frame.op = s.op /\ frame.addr = s.addr /\ Len(frame.data) = j * W
      /\ s.kind = "program" => frame.ok
      /\ frame.ok => job = NoJob
      /\ ~asleep /\ (s.kind = "program" => job = NoJob)
  BY <1>1 DEF WriteStage
<1>9. UNCHANGED <<call, up, pre>> /\ ChipTypes /\ frame.data \in Seq(Bytes) /\ frame.ok \in BOOLEAN
  BY DEF ShiftTx, drvVars, FlashTypes, ChipTypes
<1>10. frame.op # "none" /\ s.kind \in {"program", "enable"}
  BY <1>1, <1>8 DEF Writes, Proper, Programs
<1>11. /\ s.kind = "program" => s.op \in Programs /\ up
       /\ s.kind = "enable" => s.op = "WSR2" /\ s.n = 1
  BY <1>1 DEF Proper, WriteStage
<1>12. s.kind # "wake" /\ (up' = up) /\ (s.kind \in {"program"} \cup ReadKinds => up)
  BY <1>1, <1>9 DEF WriteStage, Writes
<1>13. \A p2, j2 : WriteStage(s, p2, j2)' => Stage(s, p2, j2)'
  BY <1>1, <1>12 DEF Stage
<1>14. \A w : IsWord(w, s, 3 + j) => w.op = "data"
  BY <1>1, <1>2, <1>6, WriteWords DEF IsWord
<1>15. CASE s.n - j * W > W
  <2>1. /\ Head(tx) \in TxWords /\ IsWord(Head(tx), s, Taken(s, p, j) + 1)
        /\ Wire(s, Q, U, p, j+1, t)' /\ frame' = Received(Head(tx), W) /\ UNCHANGED Rest
    <3>1. Segs(s)[p+1].len - j * W > W
      BY <1>3, <1>15
    <3>2. s \in Sections /\ Q \in 0..Len(Segs(s)) /\ U \in Nat /\ Wire(s, Q, U, p, j, t)
      BY <1>1
    <3> QED BY <3>1, <3>2, OneWordMore
  <2>2. Head(tx).op = "data"
    <3>1. Taken(s, p, j) + 1 = 3 + j
      BY <1>2, <1>7
    <3>2. IsWord(Head(tx), s, 3 + j)
      BY <2>1, <3>1
    <3> QED BY <1>14, <3>2
  <2>3. /\ frame'.op = frame.op /\ frame'.ok = frame.ok /\ frame'.addr = frame.addr
        /\ Len(frame'.data) = Len(frame.data) + W
    <3>1. W \in 1..W
      BY <1>4
    <3> QED BY <1>9, <1>10, <2>1, <2>2, <3>1, NextWordOf
  <2>4. ChipSane'
    BY <1>9, <2>1, Keeps DEF Rest
  <2>5. Len(frame'.data) = (j + 1) * W
    BY <1>4, <1>8, <2>3
  <2>6. WriteStage(s, 2, j + 1)'
    BY <1>8, <1>10, <1>11, <1>12, <2>1, <2>3, <2>5 DEF WriteStage, Rest
  <2>7. Stage(s, 2, j + 1)' /\ 2 \in 0..5 /\ 2 >= p /\ j + 1 \in Nat
    BY <1>2, <1>13, <2>6
  <2> QED BY <1>12, <2>1, <2>4, <2>7 DEF Moves
<1>16. CASE s.n - j * W <= W
  <2>1. PICK f \in Frames, n \in 1..W :
           /\ n = Segs(s)[p+1].len - j * W /\ f = Received(Head(tx), n)
           /\ Head(tx) \in TxWords /\ IsWord(Head(tx), s, Taken(s, p, j) + 1)
           /\ Wire(s, Q, U, p+1, 0, t)'
           /\ IF Segs(s)[p+1].csaat THEN frame' = f /\ UNCHANGED Rest ELSE Deselect(f)
    <3>1. Segs(s)[p+1].len - j * W <= W
      BY <1>3, <1>16
    <3>2. Taken(s, p+1, 0) = Taken(s, p, j) + 1
      BY <1>2, <1>6, <1>7, <1>16
    <3>3. Got(s, p+1, 0) = Got(s, p, j)
      BY <1>1, <1>2, WriteGot
    <3>4. s \in Sections /\ Q \in 0..Len(Segs(s)) /\ U \in Nat /\ Wire(s, Q, U, p, j, t)
      BY <1>1
    <3> QED BY <3>1, <3>2, <3>3, <3>4, LastWord
  <2>2. Head(tx).op = "data" /\ (s.kind = "enable" => 1 \in Head(tx).bytes[1])
    <3>1. Taken(s, p, j) + 1 = 3 + j
      BY <1>2, <1>7
    <3>2. IsWord(Head(tx), s, 3 + j)
      BY <2>1, <3>1
    <3>3. s.kind = "enable" => j = 0
      BY <1>2, <1>4, <1>5, <1>11, OneMore
    <3> QED BY <1>14, <3>2, <3>3 DEF IsWord
  <2>3. /\ f.op = s.op /\ f.ok = frame.ok /\ f.addr = s.addr
        /\ Len(f.data) = Len(frame.data) + n
        /\ frame.data = <<>> => f.data[1] = Head(tx).bytes[1]
    BY <1>8, <1>9, <1>10, <2>1, <2>2, NextWordOf
  <2>4. Len(f.data) = s.n /\ f.data # <<>> /\ f.data \in Seq(Bytes)
    <3>1. n = s.n - j * W
      BY <1>3, <2>1
    <3>2. Len(f.data) = s.n
      BY <1>3, <1>4, <1>8, <2>3, <3>1
    <3> QED BY <1>3, <3>2 DEF Frames
  <2>5. Deselect(f)
    BY <1>3, <2>1
  <2>6. p + 1 = 3 /\ Wire(s, Q, U, 3, 0, t)'
    BY <2>1
  <2>7. SUFFICES frame' = NoFrame /\ ~asleep' /\ ChipSane'
    <3>1. ASSUME frame' = NoFrame, ~asleep' PROVE WriteStage(s, 3, 0)'
      BY <1>12, <3>1 DEF WriteStage
    <3>2. ASSUME frame' = NoFrame, ~asleep' PROVE Stage(s, 3, 0)' /\ 3 \in 0..5 /\ 3 >= p /\ 0 \in Nat
      BY <1>13, <3>1, <3>2
    <3> QED BY <1>12, <2>6, <3>2 DEF Moves
  <2>8. CASE f.ok
    <3>1. f.op \in Starters /\ job = NoJob
      BY <1>8, <1>10, <1>11, <2>3, <2>8 DEF Starters
    <3>2. /\ frame' = NoFrame /\ job' = [op |-> f.op, addr |-> f.addr, data |-> f.data]
          /\ mem' = mem /\ sr2' = sr2 /\ refused' = refused /\ ~asleep'
      BY <1>8, <2>4, <2>5, <2>8, <3>1, DeselectStart
    <3>3. job'.op = "WSR2" => 1 \in job'.data[1]
      <4>1. ASSUME s.kind = "enable" PROVE 1 \in f.data[1]
        <5>1. j = 0
          BY <1>2, <1>4, <1>5, <1>11, <4>1, OneMore
        <5>2. Len(frame.data) = 0
          BY <1>4, <1>8, <5>1
        <5>3. frame.data = <<>>
          BY <1>9, <5>2
        <5> QED BY <2>2, <2>3, <4>1, <5>3
      <4>2. s.kind = "program" => f.op # "WSR2"
        BY <1>11, <2>3 DEF Programs
      <4> QED BY <1>10, <3>2, <4>1, <4>2
    <3>4. \A a \in Cells \ Scope(call) : Effect(job', mem)[a] = mem[a]
      <4>1. CASE s.kind = "program"
        <5>1. /\ job'.op \in Programs /\ job'.addr \in Cells /\ s.n \in Nat
              /\ (job'.addr % Page) + s.n <= Page /\ Within(job'.addr, s.n)
              /\ job'.data \in Seq(Bytes) /\ Len(job'.data) <= s.n
          <6>1. s.addr \in Cells /\ s.op \in Programs /\ (s.addr % Page) + s.n <= Page /\ Within(s.addr, s.n)
            BY <1>1, <4>1 DEF Proper, Sections
          <6> QED BY <1>3, <2>3, <2>4, <3>2, <6>1
        <5> QED BY <5>1, ProgramStays
      <4>2. CASE s.kind = "enable"
        <5>1. job'.op = "WSR2"
          BY <1>11, <2>3, <3>2, <4>2
        <5> QED BY <5>1 DEF Effect, Programs, Erases
      <4> QED BY <1>10, <4>1, <4>2
    <3>5. ChipSane'
      BY <1>8, <1>9, <3>1, <3>2, <3>3, <3>4, KeepsStart
    <3> QED BY <3>2, <3>5
  <2>9. CASE ~f.ok
    <3>1. f.op = "WSR2"
      BY <1>8, <1>10, <1>11, <2>3, <2>9
    <3>2. /\ frame' = NoFrame /\ job' = job /\ mem' = mem /\ sr2' = sr2
          /\ refused' = refused \cup (IF f.ok THEN {} ELSE {f.op}) /\ ~asleep'
      BY <1>8, <1>9, <2>5, <2>9, DeselectPlain
    <3>3. f.op \notin Serious
      BY <3>1 DEF Serious, Reads, Programs, Erases
    <3>4. ChipSane'
      BY <1>9, <2>9, <3>2, <3>3, KeepsPlain
    <3> QED BY <3>2, <3>4
  <2> QED BY <2>8, <2>9
<1> QED BY <1>2, <1>3, <1>4, <1>15, <1>16

LEMMA ReadSegs ==
  ASSUME NEW s \in Sections, s.kind \in ReadKinds, Proper(s)
  PROVE  /\ s.n \in Nat \ {0}
         /\ s.kind = "read" => /\ Len(Segs(s)) = 2 /\ Segs(s)[1].dir = "TX" /\ Segs(s)[1].csaat = TRUE
                               /\ Segs(s)[1].len \in 1..W
                               /\ Segs(s)[2].dir = "RX" /\ Segs(s)[2].csaat = FALSE /\ Segs(s)[2].len = s.n
         /\ s.kind = "readq" =>
              /\ Len(Segs(s)) = 4 /\ Segs(s)[1].dir = "TX" /\ Segs(s)[1].csaat = TRUE /\ Segs(s)[1].len \in 1..W
              /\ Segs(s)[2].dir = "TX" /\ Segs(s)[2].csaat = TRUE /\ Segs(s)[2].len \in 1..W
              /\ Segs(s)[3].dir = "DUMMY" /\ Segs(s)[3].csaat = TRUE /\ Segs(s)[3].len = 1
              /\ Segs(s)[4].dir = "RX" /\ Segs(s)[4].csaat = FALSE /\ Segs(s)[4].len = s.n
<1>1. s.n \in Nat \ {0} /\ 1 \in 1..W /\ W \in 1..W
  BY Geometry DEF Proper
<1>2. s.kind = "read" => Segs(s) = << HeldSeg("TX", W), Seg("RX", s.n) >>
  BY DEF Segs, Pairs, Writes
<1>3. s.kind = "readq" =>
        Segs(s) = << HeldSeg("TX", 1), HeldSeg("TX", W), HeldSeg("DUMMY", 1), Seg("RX", s.n) >>
  BY DEF Segs, Pairs, Writes
<1> QED BY <1>1, <1>2, <1>3 DEF Seg, HeldSeg

LEMMA ReadsTx ==
  ASSUME FlashTypes, ChipSane, ShiftTx, NEW s, s.kind \in ReadKinds,
         NEW Q, NEW U, NEW p, NEW j, NEW t, On(s, Q, U, p, j, t)
  PROVE  Moves(s, Q, U, p, t) /\ ChipSane'
<1>1. /\ s \in Sections /\ Q \in 0..Len(Segs(s)) /\ U \in Nat /\ Wire(s, Q, U, p, j, t)
      /\ ReadStage(s, p) /\ Proper(s) /\ s.kind \notin Pairs \cup Writes /\ up
  BY DEF On, Stage, Pairs, Writes, ReadKinds
<1>2. cmds \in Seq(Segments) /\ cmds # <<>> /\ Head(cmds).dir = "TX"
  BY TxStep
<1>3. p < Q /\ p \in 0..5 /\ j \in Nat /\ Segs(s)[p+1].dir = "TX" /\ s.kind \in {"read", "readq"}
  <2>1. p < Q /\ Head(cmds).dir = Segs(s)[p+1].dir
    BY <1>1, <1>2, WireHead
  <2>2. p \in 0..5 /\ j \in Nat
    BY <1>1, WireTypes
  <2> QED BY <1>2, <2>1, <2>2 DEF ReadKinds
<1>4. /\ s.kind = "read" => p = 0
      /\ s.kind = "readq" => p \in 0..1
  <2>1. CASE s.kind = "read"
    <3>1. Len(Segs(s)) = 2 /\ Segs(s)[2].dir = "RX"
      BY <1>1, <2>1, ReadSegs
    <3>2. p < 2 /\ p # 1
      BY <1>1, <1>3, <3>1
    <3> QED BY <1>3, <2>1, <3>2
  <2>2. CASE s.kind = "readq"
    <3>1. Len(Segs(s)) = 4 /\ Segs(s)[3].dir = "DUMMY" /\ Segs(s)[4].dir = "RX"
      BY <1>1, <2>2, ReadSegs
    <3>2. p < 4 /\ p # 2 /\ p # 3
      BY <1>1, <1>3, <3>1
    <3> QED BY <1>3, <2>2, <3>2
  <2> QED BY <1>3, <2>1, <2>2
<1>5. Len(Segs(s)) = (IF s.kind = "read" THEN 2 ELSE 4) /\ Segs(s)[p+1].len \in 1..W
      /\ Segs(s)[p+1].csaat = TRUE
  <2>1. CASE s.kind = "read"
    <3>1. Len(Segs(s)) = 2 /\ Segs(s)[1].len \in 1..W /\ Segs(s)[1].csaat = TRUE
      BY <1>1, <2>1, ReadSegs
    <3>2. p + 1 = 1
      BY <1>4, <2>1
    <3> QED BY <2>1, <3>1, <3>2
  <2>2. CASE s.kind = "readq"
    <3>1. Len(Segs(s)) = 4 /\ Segs(s)[1].len \in 1..W /\ Segs(s)[1].csaat = TRUE
          /\ Segs(s)[2].len \in 1..W /\ Segs(s)[2].csaat = TRUE
      BY <1>1, <2>2, ReadSegs
    <3>2. p + 1 \in 1..2
      BY <1>4, <2>2
    <3> QED BY <2>2, <3>1, <3>2
  <2> QED BY <1>3, <2>1, <2>2
<1>6. j = 0
  <2>1. j > 0 => p = Len(Segs(s)) - 1
    BY <1>1 DEF Wire, Place
  <2> QED BY <1>3, <1>4, <1>5, <2>1
<1>7. Segs(s)[p+1].len - j * W <= W
  <2>1. j * W = 0
    BY <1>6, Geometry
  <2> QED BY <1>5, <2>1, Geometry
<1>8. Taken(s, p, j) = p /\ Taken(s, p+1, 0) = p + 1
  BY <1>1, <1>3, <1>4 DEF Taken, Lesser
<1>9. Got(s, p, j) = 0 /\ Got(s, p+1, 0) = 0
  BY <1>1, <1>3, <1>4, <1>5, <1>6 DEF Got
<1>10. PICK f \in Frames, n \in 1..W :
           /\ n = Segs(s)[p+1].len - j * W /\ f = Received(Head(tx), n)
           /\ Head(tx) \in TxWords /\ IsWord(Head(tx), s, Taken(s, p, j) + 1)
           /\ Wire(s, Q, U, p+1, 0, t)'
           /\ IF Segs(s)[p+1].csaat THEN frame' = f /\ UNCHANGED Rest ELSE Deselect(f)
  <2>1. Taken(s, p+1, 0) = Taken(s, p, j) + 1 /\ Got(s, p+1, 0) = Got(s, p, j)
    BY <1>8, <1>9
  <2>2. s \in Sections /\ Q \in 0..Len(Segs(s)) /\ U \in Nat /\ Wire(s, Q, U, p, j, t)
    BY <1>1
  <2> QED BY <1>7, <2>1, <2>2, LastWord
<1>11. frame' = Received(Head(tx), n) /\ UNCHANGED Rest
  BY <1>5, <1>10
<1>12. Head(tx).op = WordOp(s, p + 1)
  BY <1>8, <1>10 DEF IsWord
<1>13. UNCHANGED <<call, up, pre>>
  BY DEF ShiftTx, drvVars
<1>14. ChipSane'
  BY <1>11, <1>13, Keeps DEF Rest
<1>15. ~asleep /\ job = NoJob /\ 1 \in sr2
  BY <1>1 DEF ReadStage, ChipSane
<1>16. FrameOf(s.op, TRUE)'
  <2>1. CASE p = 0
    <3>1. frame = NoFrame
      BY <1>1, <2>1 DEF ReadStage
    <3>2. frame'.op = Head(tx).op /\ frame'.ok = Accepts(Head(tx).op)
      BY <1>11, <3>1, FirstWord
    <3>3. Head(tx).op = s.op
      BY <1>1, <1>12, <2>1 DEF WordOp
    <3>4. s.op \in {"RD", "RDQIO"}
      BY <1>1 DEF Proper
    <3>5. frame'.ok = TRUE
      BY <1>15, <3>2, <3>3, <3>4, Accepted
    <3> QED BY <3>2, <3>3, <3>5 DEF FrameOf
  <2>2. CASE p = 1
    <3>1. s.kind = "readq" /\ Len(Segs(s)) = 4
      BY <1>3, <1>4, <1>5, <2>2
    <3>2. frame.op = s.op /\ frame.ok = TRUE
      BY <1>1, <2>2, <3>1 DEF ReadStage, FrameOf
    <3>3. Head(tx).op = "ADDR"
      BY <1>1, <1>12, <2>2 DEF WordOp
    <3>4. s.op # "none"
      BY <1>1 DEF Proper
    <3>5. frame \in Frames
      BY DEF FlashTypes, ChipTypes, Frames
    <3>6. frame' = [frame EXCEPT !.addr = Head(tx).addr]
      BY <1>11, <3>2, <3>3, <3>4 DEF Received
    <3> QED BY <3>2, <3>5, <3>6 DEF FrameOf, Frames
  <2>3. p = 0 \/ p = 1
    BY <1>3, <1>4
  <2> QED BY <2>1, <2>2, <2>3
<1>17. Stage(s, p+1, 0)'
  <2>1. p + 1 \in 1..Len(Segs(s))-1
    BY <1>3, <1>4, <1>5
  <2>2. ReadStage(s, p+1)'
    BY <1>11, <1>15, <1>16, <2>1 DEF ReadStage, Rest
  <2> QED BY <1>1, <1>13, <2>2 DEF Stage
<1>18. p + 1 \in 0..5 /\ p + 1 >= p /\ 0 \in Nat /\ s.kind # "wake"
  BY <1>3, <1>4
<1> QED BY <1>10, <1>14, <1>17, <1>18 DEF Moves

(***************************************************************************)
(* The SPI host receives.                                                  *)
(***************************************************************************)
LEMMA RxStep ==
  ASSUME FlashTypes, ShiftRx
  PROVE  \E n \in 1..W, f \in Frames, w \in RxWords :
           /\ n = Lesser(W, Head(cmds).len) /\ Shifted(n, f) /\ rx' = Append(rx, w) /\ w[1] = Sent(1)
           /\ f.op = frame.op /\ f.ok = frame.ok /\ f.data = frame.data /\ f.addr = frame.addr
           /\ cmds \in Seq(Segments) /\ cmds # <<>> /\ Head(cmds) \in Segments /\ Head(cmds).dir = "RX"
           /\ rx \in Seq(RxWords)
           /\ UNCHANGED <<tx, rxwm, dmaVars, script, drvVars, events>>
<1> DEFINE n == Lesser(W, Head(cmds).len)
           w == [i \in 1..W |-> IF i <= n THEN Sent(i) ELSE {}]
           f == [frame EXCEPT !.sent = @ + n]
<1>1. cmds \in Seq(Segments) /\ cmds # <<>> /\ Head(cmds).dir = "RX" /\ rx \in Seq(RxWords)
  BY DEF ShiftRx, FlashTypes, HostTypes
<1>2. Head(cmds) \in Segments
  BY <1>1
<1>3. n \in 1..W
  BY <1>2, Geometry DEF Lesser, Segments
<1>4. Shifted(n, f) /\ rx' = Append(rx, w) /\ UNCHANGED <<tx, rxwm, dmaVars, script, drvVars, events>>
  BY DEF ShiftRx
<1>5. f \in Frames /\ f.op = frame.op /\ f.ok = frame.ok /\ f.data = frame.data /\ f.addr = frame.addr
  <2>1. frame \in Frames
    BY DEF FlashTypes, ChipTypes, Frames
  <2> QED BY <1>3, <2>1, SentMore DEF Frames
<1>6. w[1] = Sent(1)
  BY <1>3, Geometry
<1>7. w \in RxWords
  <2>1. rx' \in Seq(RxWords)
    BY ShiftType DEF Shift, FlashTypes, HostTypes
  <2> HIDE DEF w
  <2>2. Len(rx) \in Nat /\ Len(rx') = Len(rx) + 1 /\ rx'[Len(rx) + 1] = w
    BY <1>1, <1>4
  <2> QED BY <2>1, <2>2
<1>8. n = Lesser(W, Head(cmds).len)
  OBVIOUS
<1> HIDE DEF n, f, w
<1> QED BY <1>1, <1>2, <1>3, <1>4, <1>5, <1>6, <1>7, <1>8

(* The last word of a segment. *)
LEMMA LastRx ==
  ASSUME FlashTypes, ShiftRx, NEW s \in Sections, NEW Q \in 0..Len(Segs(s)), NEW U \in Nat, NEW p, NEW j,
         NEW t \in Nat, Wire(s, Q, U, p, j, t), Segs(s)[p+1].len - j * W <= W,
         Segs(s)[p+1].csaat = FALSE,
         Taken(s, p+1, 0) = Taken(s, p, j), Got(s, p+1, 0) = Got(s, p, j) + 1
  PROVE  \E f \in Frames, w \in RxWords :
           /\ f.op = frame.op /\ f.ok = frame.ok /\ f.data = frame.data
           /\ rx' = Append(rx, w) /\ w[1] = Sent(1)
           /\ Wire(s, Q, U, p+1, 0, t)' /\ Deselect(f)
<1>1. PICK n \in 1..W, f \in Frames, w \in RxWords :
           /\ n = Lesser(W, Head(cmds).len) /\ Shifted(n, f) /\ rx' = Append(rx, w) /\ w[1] = Sent(1)
           /\ f.op = frame.op /\ f.ok = frame.ok /\ f.data = frame.data /\ f.addr = frame.addr
           /\ cmds \in Seq(Segments) /\ cmds # <<>> /\ Head(cmds) \in Segments /\ Head(cmds).dir = "RX"
           /\ rx \in Seq(RxWords)
           /\ UNCHANGED <<tx, rxwm, dmaVars, script, drvVars, events>>
  BY RxStep
<1>2. /\ p < Q /\ Head(cmds).dir = Segs(s)[p+1].dir /\ Head(cmds).csaat = Segs(s)[p+1].csaat
      /\ Head(cmds).len = Segs(s)[p+1].len - j * W
  BY <1>1, WireHead
<1>3. n = Head(cmds).len
  BY <1>1, <1>2, Geometry DEF Lesser, Segments
<1>4. cmds' = Tail(cmds) /\ Deselect(f)
  <2>1. Shifted(n, f) /\ ~(Head(cmds).len > n) /\ Head(cmds).csaat = FALSE
    BY <1>1, <1>2, <1>3
  <2> QED BY <2>1 DEF Shifted
<1>5. Got(s, p, j) \in Nat
  BY WireTypes
<1>6. RxFifo(Got(s, p+1, 0), t)'
  BY <1>1, <1>5, RxPush DEF Wire
<1>7. TxFifo(s, U, Taken(s, p+1, 0))'
  BY <1>1 DEF Wire, TxFifo
<1>8. Wire(s, Q, U, p+1, 0, t)'
  BY <1>1, <1>4, <1>6, <1>7, SegsType, WireFinish
<1> QED BY <1>1, <1>4, <1>8

LEMMA OneRxMore ==
  ASSUME FlashTypes, ShiftRx, NEW s \in Sections, NEW Q \in 0..Len(Segs(s)), NEW U \in Nat, NEW p, NEW j,
         NEW t \in Nat, Wire(s, Q, U, p, j, t), Segs(s)[p+1].len - j * W > W, s.kind \in ReadKinds,
         p = Len(Segs(s)) - 1, Taken(s, p, j+1) = Taken(s, p, j), Got(s, p, j+1) = Got(s, p, j) + 1
  PROVE  /\ Wire(s, Q, U, p, j+1, t)' /\ UNCHANGED Rest /\ frame'.op = frame.op /\ frame'.ok = frame.ok
<1>1. PICK n \in 1..W, f \in Frames, w \in RxWords :
           /\ n = Lesser(W, Head(cmds).len) /\ Shifted(n, f) /\ rx' = Append(rx, w) /\ w[1] = Sent(1)
           /\ f.op = frame.op /\ f.ok = frame.ok /\ f.data = frame.data /\ f.addr = frame.addr
           /\ cmds \in Seq(Segments) /\ cmds # <<>> /\ Head(cmds) \in Segments /\ Head(cmds).dir = "RX"
           /\ rx \in Seq(RxWords)
           /\ UNCHANGED <<tx, rxwm, dmaVars, script, drvVars, events>>
  BY RxStep
<1>2. /\ p < Q /\ Head(cmds).dir = Segs(s)[p+1].dir /\ Head(cmds).csaat = Segs(s)[p+1].csaat
      /\ Head(cmds).len = Segs(s)[p+1].len - j * W
  BY <1>1, WireHead
<1>3. Head(cmds).len > W /\ n = W /\ j \in Nat
  <2>1. j \in Nat
    BY WireTypes
  <2> QED BY <1>1, <1>2, <2>1, Geometry DEF Lesser, Segments
<1>4. cmds' = [cmds EXCEPT ![1].len = @ - W] /\ frame' = f /\ UNCHANGED Rest
  BY <1>1, <1>3 DEF Shifted, Rest
<1>5. Got(s, p, j) \in Nat
  BY WireTypes
<1>6. RxFifo(Got(s, p, j+1), t)'
  BY <1>1, <1>5, RxPush DEF Wire
<1>7. TxFifo(s, U, Taken(s, p, j+1))'
  BY <1>1 DEF Wire, TxFifo
<1>8. p = IF s.kind \in Writes THEN 2 ELSE Len(Segs(s)) - 1
  BY DEF Writes, ReadKinds
<1>9. Wire(s, Q, U, p, j+1, t)'
  BY <1>1, <1>3, <1>4, <1>6, <1>7, <1>8, SegsType, WireGoesOn
<1> QED BY <1>1, <1>4, <1>9

LEMMA SentStatus ==
  ASSUME frame.ok = TRUE
  PROVE  /\ frame.op = "RSR1" /\ 0 \notin Sent(1) => job = NoJob
         /\ frame.op = "RSR2" => Sent(1) = sr2
<1>1. "RSR1" \notin Reads /\ "RSR2" \notin Reads
  BY DEF Reads
<1>2. frame.op = "RSR1" => Sent(1) = (IF job # NoJob THEN {0} ELSE {}) \cup (IF wel THEN {1} ELSE {})
  BY <1>1 DEF Sent
<1>3. frame.op = "RSR2" => Sent(1) = sr2
  BY <1>1 DEF Sent
<1> QED BY <1>2, <1>3

LEMMA RxHead ==
  ASSUME FlashTypes, ShiftRx, NEW s, NEW Q, NEW U, NEW p, NEW j, NEW t, On(s, Q, U, p, j, t)
  PROVE  p < Q /\ p \in 0..5 /\ j \in Nat /\ Segs(s)[p+1].dir = "RX" /\ Q \in Nat /\ Q <= Len(Segs(s))
<1>1. cmds \in Seq(Segments) /\ cmds # <<>> /\ Head(cmds).dir = "RX"
  BY DEF ShiftRx, FlashTypes, HostTypes
<1>2. s \in Sections /\ Q \in 0..Len(Segs(s)) /\ Wire(s, Q, U, p, j, t)
  BY DEF On
<1>3. p < Q /\ Head(cmds).dir = Segs(s)[p+1].dir
  BY <1>1, <1>2, WireHead
<1>4. p \in 0..5 /\ j \in Nat /\ Q \in Nat /\ Len(Segs(s)) \in Nat
  BY <1>2, WireTypes, LengthType
<1> QED BY <1>1, <1>2, <1>3, <1>4

(* A status register goes into an empty FIFO. *)
LEMMA StatusArrives ==
  ASSUME FlashTypes, ShiftRx, ChipSane, NEW s \in Sections, NEW Q \in 0..Len(Segs(s)), NEW U \in Nat,
         NEW p, NEW j, NEW t \in Nat, Wire(s, Q, U, p, j, t), j = 0, Segs(s)[p+1].len \in 1..W,
         Segs(s)[p+1].csaat = FALSE, Taken(s, p+1, 0) = Taken(s, p, 0), Got(s, p, 0) = 0,
         Got(s, p+1, 0) = 1, s.kind \in Pairs \cup Writes, FrameOf(StatusOp(s), TRUE), ~asleep
  PROVE  /\ Wire(s, Q, U, p+1, 0, t)' /\ frame' = NoFrame /\ job' = job /\ ~asleep'
         /\ StatusRead(s)' /\ ChipSane'
<1>1. Segs(s)[p+1].len - j * W <= W
  <2>1. j * W = 0
    BY Geometry
  <2> QED BY <2>1, Geometry
<1>2. Taken(s, p+1, 0) = Taken(s, p, j) /\ Got(s, p+1, 0) = Got(s, p, j) + 1
  OBVIOUS
<1>3. PICK f \in Frames, w \in RxWords :
           /\ f.op = frame.op /\ f.ok = frame.ok /\ f.data = frame.data
           /\ rx' = Append(rx, w) /\ w[1] = Sent(1)
           /\ Wire(s, Q, U, p+1, 0, t)' /\ Deselect(f)
  BY <1>1, <1>2, LastRx
<1>4. frame.op = StatusOp(s) /\ frame.ok = TRUE
  BY DEF FrameOf
<1>5. f.op \in {"RSR1", "RSR2"} /\ (s.kind = "wake" => f.op = "RSR2") /\ (s.kind # "wake" => f.op = "RSR1")
  BY <1>3, <1>4 DEF StatusOp
<1>6. f.op \notin Starters /\ f.op # "RESET" /\ f.op # "PD"
  BY <1>5, Ops
<1>7. UNCHANGED <<call, up, pre>> /\ ChipTypes
  BY DEF ShiftRx, drvVars, FlashTypes
<1>8. /\ frame' = NoFrame /\ job' = job /\ mem' = mem /\ sr2' = sr2
      /\ refused' = refused \cup (IF f.ok THEN {} ELSE {f.op}) /\ ~asleep'
  BY <1>3, <1>4, <1>6, <1>7, DeselectPlain
<1>9. ChipSane'
  BY <1>3, <1>4, <1>6, <1>7, <1>8, KeepsPlain
<1>10. rx'[1] = w
  <2>1. rx \in Seq(RxWords) /\ Len(rx) = 0
    BY <1>2 DEF FlashTypes, HostTypes, Wire, RxFifo
  <2> QED BY <1>3, <2>1
<1>11. StatusRead(s)'
  <2>1. rx'[1][1] = Sent(1)
    BY <1>3, <1>10
  <2> QED BY <1>3, <1>4, <1>5, <1>8, <2>1, SentStatus DEF StatusRead
<1> QED BY <1>3, <1>8, <1>9, <1>11

LEMMA PairsRx ==
  ASSUME FlashTypes, ChipSane, ShiftRx, NEW s, s.kind \in Pairs,
         NEW Q, NEW U, NEW p, NEW j, NEW t, On(s, Q, U, p, j, t)
  PROVE  Moves(s, Q, U, p, t) /\ ChipSane'
<1>1. /\ s \in Sections /\ Q \in 0..Len(Segs(s)) /\ U \in Nat /\ t \in Nat /\ Wire(s, Q, U, p, j, t)
      /\ PairStage(s, p) /\ Len(Segs(s)) = 4
  BY PairSegs DEF On, Stage
<1>2. p < Q /\ p \in 0..5 /\ j \in Nat /\ Segs(s)[p+1].dir = "RX" /\ Q \in Nat /\ Q <= Len(Segs(s))
  BY RxHead
<1>3. p = 3
  <2>1. Segs(s)[1].dir = "TX" /\ Segs(s)[2].dir = "TX" /\ Segs(s)[3].dir = "TX"
    BY <1>1, PairSegs
  <2> QED BY <1>1, <1>2, <2>1
<1>4. j = 0
  BY <1>1, <1>2 DEF Wire, Place, Pairs, Writes, ReadKinds
<1>5. /\ Segs(s)[p+1].len \in 1..W /\ Segs(s)[p+1].csaat = FALSE
      /\ Taken(s, p+1, 0) = Taken(s, p, 0) /\ Got(s, p, 0) = 0 /\ Got(s, p+1, 0) = 1
  <2>1. /\ \A k \in 1..4 : Segs(s)[k].len \in 1..W
        /\ Segs(s)[4].csaat = FALSE
        /\ \A x \in 0..4 : Taken(s, x, 0) = Lesser(x, 3) /\ Got(s, x, 0) = (IF x = 4 THEN 1 ELSE 0)
    BY <1>1, PairSegs
  <2>2. p \in 0..4 /\ p + 1 \in 0..4 /\ Lesser(p, 3) = Lesser(p+1, 3)
    BY <1>3 DEF Lesser
  <2> QED BY <1>3, <2>1, <2>2
<1>6. FrameOf(StatusOp(s), TRUE) /\ ~asleep
  <2>1. PairStage(s, p) /\ p >= 2
    BY <1>1, <1>3
  <2> QED BY <1>3, <2>1 DEF PairStage
<1>7. s.kind \in Pairs \cup Writes
  OBVIOUS
<1>8. /\ Wire(s, Q, U, p+1, 0, t)' /\ frame' = NoFrame /\ job' = job /\ ~asleep'
      /\ StatusRead(s)' /\ ChipSane'
  BY <1>1, <1>4, <1>5, <1>6, <1>7, StatusArrives
<1>9. PairStage(s, p+1)'
  BY <1>3, <1>8 DEF PairStage
<1>10. Stage(s, p+1, 0)'
  BY <1>9 DEF Stage, Pairs, Writes, ReadKinds
<1>11. p + 1 \in 0..5 /\ p + 1 >= p /\ 0 \in Nat
  BY <1>3
<1> QED BY <1>8, <1>10, <1>11 DEF Moves

LEMMA WritesRx ==
  ASSUME FlashTypes, ChipSane, ShiftRx, NEW s, s.kind \in Writes,
         NEW Q, NEW U, NEW p, NEW j, NEW t, On(s, Q, U, p, j, t)
  PROVE  Moves(s, Q, U, p, t) /\ ChipSane'
<1>1. /\ s \in Sections /\ Q \in 0..Len(Segs(s)) /\ U \in Nat /\ t \in Nat /\ Wire(s, Q, U, p, j, t)
      /\ WriteStage(s, p, j) /\ Len(Segs(s)) = 5 /\ Proper(s)
  BY WriteSegs DEF On, Stage
<1>2. p < Q /\ p \in 0..5 /\ j \in Nat /\ Segs(s)[p+1].dir = "RX" /\ Q \in Nat /\ Q <= Len(Segs(s))
  BY RxHead
<1>3. p = 4
  <2>1. Segs(s)[1].dir = "TX" /\ Segs(s)[2].dir = "TX" /\ Segs(s)[3].dir = "TX" /\ Segs(s)[4].dir = "TX"
    BY DEF Segs, Writes, Pairs, Seg, HeldSeg
  <2> QED BY <1>1, <1>2, <2>1
<1>4. j = 0
  BY <1>1, <1>2, <1>3 DEF Wire, Place
<1>5. /\ Segs(s)[p+1].len \in 1..W /\ Segs(s)[p+1].csaat = FALSE
  <2>1. Segs(s)[5].len \in 1..W /\ Segs(s)[5].csaat = FALSE
    BY <1>1, WriteSegs
  <2> QED BY <1>3, <2>1
<1>6. Taken(s, p+1, 0) = Taken(s, p, 0) /\ Got(s, p, 0) = 0 /\ Got(s, p+1, 0) = 1
  <2>1. Taken(s, 5, 0) = Taken(s, 4, 0)
    BY <1>1, <1>2, WriteTaken
  <2>2. Got(s, 4, 0) = 0 /\ Got(s, 5, 0) = 1
    BY <1>1, WriteGot
  <2> QED BY <1>3, <2>1, <2>2
<1>7. FrameOf(StatusOp(s), TRUE) /\ ~asleep
  BY <1>1, <1>3 DEF WriteStage, StatusOp, Writes
<1>8. s.kind \in Pairs \cup Writes
  OBVIOUS
<1>9. /\ Wire(s, Q, U, p+1, 0, t)' /\ frame' = NoFrame /\ job' = job /\ ~asleep'
      /\ StatusRead(s)' /\ ChipSane'
  BY <1>1, <1>4, <1>5, <1>6, <1>7, <1>8, StatusArrives
<1>10. up' = up
  BY DEF ShiftRx, drvVars
<1>11. WriteStage(s, p+1, 0)'
  BY <1>1, <1>3, <1>9, <1>10 DEF WriteStage
<1>12. Stage(s, p+1, 0)'
  BY <1>1, <1>11 DEF Stage, Pairs, Writes, ReadKinds, WriteStage
<1>13. p + 1 \in 0..5 /\ p + 1 >= p /\ 0 \in Nat
  BY <1>3
<1> QED BY <1>9, <1>12, <1>13 DEF Moves

LEMMA ReadsRx ==
  ASSUME FlashTypes, ChipSane, ShiftRx, NEW s, s.kind \in ReadKinds,
         NEW Q, NEW U, NEW p, NEW j, NEW t, On(s, Q, U, p, j, t)
  PROVE  Moves(s, Q, U, p, t) /\ ChipSane'
<1>1. /\ s \in Sections /\ Q \in 0..Len(Segs(s)) /\ U \in Nat /\ t \in Nat /\ Wire(s, Q, U, p, j, t)
      /\ ReadStage(s, p) /\ Proper(s) /\ s.kind \notin Pairs \cup Writes /\ s.kind \in {"read", "readq"}
  BY DEF On, Stage, Pairs, Writes, ReadKinds
<1>2. p < Q /\ p \in 0..5 /\ j \in Nat /\ Segs(s)[p+1].dir = "RX" /\ Q \in Nat /\ Q <= Len(Segs(s))
  BY RxHead
<1>3. /\ p = Len(Segs(s)) - 1 /\ Segs(s)[p+1].csaat = FALSE /\ Segs(s)[p+1].len = s.n
      /\ s.n \in Nat \ {0} /\ Len(Segs(s)) = (IF s.kind = "read" THEN 2 ELSE 4)
  <2>1. CASE s.kind = "read"
    <3>1. /\ Len(Segs(s)) = 2 /\ Segs(s)[1].dir = "TX" /\ Segs(s)[2].csaat = FALSE /\ Segs(s)[2].len = s.n
          /\ s.n \in Nat \ {0}
      BY <1>1, <2>1, ReadSegs
    <3>2. p = 1
      BY <1>2, <3>1
    <3> QED BY <2>1, <3>1, <3>2
  <2>2. CASE s.kind = "readq"
    <3>1. /\ Len(Segs(s)) = 4 /\ Segs(s)[1].dir = "TX" /\ Segs(s)[2].dir = "TX" /\ Segs(s)[3].dir = "DUMMY"
          /\ Segs(s)[4].csaat = FALSE /\ Segs(s)[4].len = s.n /\ s.n \in Nat \ {0}
      BY <1>1, <2>2, ReadSegs
    <3>2. p = 3
      BY <1>2, <3>1
    <3> QED BY <2>2, <3>1, <3>2
  <2> QED BY <1>1, <2>1, <2>2
<1>4. j * W \in Nat /\ W \in Nat \ {0} /\ 0 * W = 0
  BY <1>2, Geometry, OneMore
<1>5. j * W < s.n
  <2>1. j > 0 => j * W < Segs(s)[p+1].len
    BY <1>1 DEF Wire, Place
  <2>2. j = 0 => j * W = 0
    BY <1>4
  <2> QED BY <1>2, <1>3, <2>1, <2>2
<1>6. j < N(s) /\ (s.n - j * W <= W => N(s) = j + 1) /\ N(s) \in Nat
  BY <1>2, <1>3, <1>5, CeilLast DEF N
<1>7. Taken(s, p+1, 0) = Taken(s, p, j) /\ Taken(s, p, j+1) = Taken(s, p, j)
  BY <1>1, <1>3 DEF Taken, Lesser
<1>8. Got(s, p, j) = j /\ Got(s, p, j+1) = j + 1 /\ Got(s, p+1, 0) = N(s)
  BY <1>1, <1>3 DEF Got
<1>9. FrameOf(s.op, TRUE) /\ ~asleep /\ job = NoJob /\ up
  <2>1. p \in 1..Len(Segs(s))-1
    BY <1>3
  <2> QED BY <1>1, <2>1 DEF ReadStage, On, Stage
<1>10. UNCHANGED <<call, up, pre>> /\ ChipTypes
  BY DEF ShiftRx, drvVars, FlashTypes
<1>11. CASE s.n - j * W > W
  <2>1. /\ Wire(s, Q, U, p, j+1, t)' /\ UNCHANGED Rest /\ frame'.op = frame.op /\ frame'.ok = frame.ok
    <3>1. Segs(s)[p+1].len - j * W > W
      BY <1>3, <1>11
    <3>2. p = Len(Segs(s)) - 1 /\ Taken(s, p, j+1) = Taken(s, p, j) /\ Got(s, p, j+1) = Got(s, p, j) + 1
      BY <1>3, <1>7, <1>8
    <3>3. s \in Sections /\ Q \in 0..Len(Segs(s)) /\ U \in Nat /\ t \in Nat /\ Wire(s, Q, U, p, j, t)
      BY <1>1
    <3> QED BY <3>1, <3>2, <3>3, OneRxMore
  <2>2. ChipSane'
    BY <1>10, <2>1, Keeps DEF Rest
  <2>3. ReadStage(s, p)'
    <3>1. p \in 1..Len(Segs(s))-1
      BY <1>3
    <3> QED BY <1>9, <2>1, <3>1 DEF ReadStage, FrameOf, Rest
  <2>4. Stage(s, p, j+1)'
    BY <1>1, <1>9, <1>10, <2>3 DEF Stage
  <2>5. p \in 0..5 /\ p >= p /\ j + 1 \in Nat /\ s.kind # "wake"
    BY <1>1, <1>2
  <2> QED BY <2>1, <2>2, <2>4, <2>5 DEF Moves
<1>12. CASE s.n - j * W <= W
  <2>1. PICK f \in Frames, w \in RxWords :
           /\ f.op = frame.op /\ f.ok = frame.ok /\ f.data = frame.data
           /\ rx' = Append(rx, w) /\ w[1] = Sent(1)
           /\ Wire(s, Q, U, p+1, 0, t)' /\ Deselect(f)
    <3>1. Segs(s)[p+1].len - j * W <= W /\ Segs(s)[p+1].csaat = FALSE
      BY <1>3, <1>12
    <3>2. Taken(s, p+1, 0) = Taken(s, p, j) /\ Got(s, p+1, 0) = Got(s, p, j) + 1
      BY <1>6, <1>7, <1>8, <1>12
    <3>3. s \in Sections /\ Q \in 0..Len(Segs(s)) /\ U \in Nat /\ t \in Nat /\ Wire(s, Q, U, p, j, t)
      BY <1>1
    <3> QED BY <3>1, <3>2, <3>3, LastRx
  <2>2. f.op \in {"RD", "RDQIO"} /\ f.ok = TRUE
    BY <1>1, <1>9, <2>1 DEF FrameOf, Proper
  <2>3. f.op \notin Starters /\ f.op # "RESET" /\ f.op # "PD"
    BY <2>2 DEF Starters, Erases, Programs
  <2>4. /\ frame' = NoFrame /\ job' = job /\ mem' = mem /\ sr2' = sr2
        /\ refused' = refused \cup (IF f.ok THEN {} ELSE {f.op}) /\ ~asleep'
    BY <1>9, <1>10, <2>1, <2>2, <2>3, DeselectPlain
  <2>5. ChipSane'
    BY <1>10, <2>2, <2>3, <2>4, KeepsPlain
  <2>6. ReadStage(s, p+1)'
    <3>1. p + 1 \notin 1..Len(Segs(s))-1
      BY <1>3
    <3> QED BY <1>9, <2>4, <3>1 DEF ReadStage
  <2>7. Stage(s, p+1, 0)'
    BY <1>1, <1>9, <1>10, <2>6 DEF Stage
  <2>8. p + 1 \in 0..5 /\ p + 1 >= p /\ 0 \in Nat /\ s.kind # "wake"
    BY <1>1, <1>2, <1>3
  <2> QED BY <2>1, <2>5, <2>7, <2>8 DEF Moves
<1> QED BY <1>3, <1>4, <1>11, <1>12

LEMMA DummyMoves ==
  ASSUME FlashTypes, ChipSane, ShiftDummy, NEW s,
         NEW Q, NEW U, NEW p, NEW j, NEW t, On(s, Q, U, p, j, t)
  PROVE  Moves(s, Q, U, p, t) /\ ChipSane'
<1>1. /\ s \in Sections /\ Q \in 0..Len(Segs(s)) /\ U \in Nat /\ t \in Nat /\ Wire(s, Q, U, p, j, t)
      /\ Stage(s, p, j) /\ Proper(s)
  BY DEF On
<1>2. cmds \in Seq(Segments) /\ cmds # <<>> /\ Head(cmds).dir = "DUMMY" /\ Shifted(Head(cmds).len, frame)
      /\ UNCHANGED <<tx, rx, rxwm, dmaVars, script, drvVars, events>>
  BY DEF ShiftDummy, FlashTypes, HostTypes
<1>3. /\ p < Q /\ Head(cmds) \in Segments /\ Segs(s)[p+1].dir = "DUMMY"
      /\ Head(cmds).csaat = Segs(s)[p+1].csaat
  BY <1>1, <1>2, WireHead
<1>4. p \in 0..5 /\ j \in Nat /\ Q \in Nat /\ Q <= Len(Segs(s)) /\ Len(Segs(s)) \in Nat
  BY <1>1, WireTypes, LengthType
<1>5. s.kind = "readq" /\ p = 2
  <2>1. CASE s.kind \in Pairs
    <3>1. Len(Segs(s)) = 4 /\ Segs(s)[1].dir = "TX" /\ Segs(s)[2].dir = "TX" /\ Segs(s)[3].dir = "TX"
          /\ Segs(s)[4].dir = "RX"
      BY <1>1, <2>1, PairSegs
    <3> QED BY <1>3, <1>4, <3>1
  <2>2. CASE s.kind \in Writes
    <3>1. Len(Segs(s)) = 5 /\ Segs(s)[1].dir = "TX" /\ Segs(s)[2].dir = "TX" /\ Segs(s)[3].dir = "TX"
          /\ Segs(s)[4].dir = "TX" /\ Segs(s)[5].dir = "RX"
      BY <2>2 DEF Segs, Writes, Pairs, Seg, HeldSeg
    <3> QED BY <1>3, <1>4, <3>1
  <2>3. CASE s.kind = "read"
    <3>1. Len(Segs(s)) = 2 /\ Segs(s)[1].dir = "TX" /\ Segs(s)[2].dir = "RX"
      BY <1>1, <2>3, ReadSegs DEF ReadKinds
    <3> QED BY <1>3, <1>4, <3>1
  <2>4. CASE s.kind = "readq"
    <3>1. Len(Segs(s)) = 4 /\ Segs(s)[1].dir = "TX" /\ Segs(s)[2].dir = "TX" /\ Segs(s)[4].dir = "RX"
      BY <1>1, <2>4, ReadSegs DEF ReadKinds
    <3> QED BY <1>3, <1>4, <2>4, <3>1
  <2> QED BY <1>1, <2>1, <2>2, <2>3, <2>4 DEF Sections, ReadKinds
<1>6. Segs(s)[3].csaat = TRUE /\ Len(Segs(s)) = 4
  BY <1>1, <1>5, ReadSegs DEF ReadKinds
<1>7. cmds' = Tail(cmds) /\ frame' = frame /\ UNCHANGED Rest
  <2>1. Head(cmds).csaat = TRUE /\ ~(Head(cmds).len > Head(cmds).len)
    BY <1>3, <1>5, <1>6, Geometry DEF Segments
  <2> QED BY <1>2, <2>1 DEF Shifted, Rest
<1>8. j = 0
  BY <1>1, <1>4, <1>5, <1>6 DEF Wire, Place, Writes
<1>9. Taken(s, 3, 0) = Taken(s, p, j) /\ Got(s, 3, 0) = Got(s, p, j)
  BY <1>5, <1>6, <1>8 DEF Taken, Got, Pairs, Writes, ReadKinds, Lesser
<1>10. Wire(s, Q, U, 3, 0, t)'
  <2>1. TxFifo(s, U, Taken(s, p+1, 0))' /\ RxFifo(Got(s, p+1, 0), t)'
    BY <1>1, <1>2, <1>5, <1>9 DEF Wire, TxFifo, RxFifo
  <2>2. Wire(s, Q, U, p+1, 0, t)'
    BY <1>1, <1>2, <1>7, <2>1, SegsType, WireFinish
  <2> QED BY <1>5, <2>2
<1>11. UNCHANGED <<call, up, pre>>
  BY <1>2 DEF drvVars
<1>12. ChipSane'
  BY <1>7, <1>11, Keeps DEF Rest
<1>13. ReadStage(s, 2) /\ up
  BY <1>1, <1>5 DEF Stage, ReadKinds
<1>14. ReadStage(s, 3)'
  BY <1>6, <1>7, <1>13 DEF ReadStage, FrameOf, Rest
<1>15. Stage(s, 3, 0)'
  BY <1>5, <1>11, <1>13, <1>14 DEF Stage, Pairs, Writes
<1>16. 3 \in 0..5 /\ 3 >= p /\ 0 \in Nat /\ s.kind # "wake"
  BY <1>5
<1> QED BY <1>10, <1>12, <1>15, <1>16 DEF Moves

LEMMA ChipDoneMoves ==
  ASSUME FlashTypes, ChipSane, ChipDone, NEW s,
         NEW Q, NEW U, NEW p, NEW j, NEW t, On(s, Q, U, p, j, t)
  PROVE  Moves(s, Q, U, p, t)
<1>1. /\ s \in Sections /\ Q \in 0..Len(Segs(s)) /\ Wire(s, Q, U, p, j, t) /\ Stage(s, p, j)
  BY DEF On
<1>2. job # NoJob /\ job' = NoJob /\ UNCHANGED <<asleep, frame, cmds, tx, rx, up>>
      /\ (sr2' = IF job.op = "WSR2" THEN job.data[1] ELSE sr2)
  BY DEF ChipDone, hostVars, drvVars
<1>3. p \in 0..5 /\ j \in Nat
  BY <1>1, WireTypes
<1>4. 1 \in sr2 => 1 \in sr2'
  BY <1>2 DEF ChipSane
<1>5. Wire(s, Q, U, p, j, t)'
  BY <1>1, <1>2 DEF Wire, Place, CmdQueue, IsSegment, TxFifo, IsWord, RxFifo
<1>6. StatusRead(s) => StatusRead(s)'
  BY <1>2, <1>4 DEF StatusRead
<1>7. PairStage(s, p) => PairStage(s, p)'
  BY <1>2, <1>6 DEF PairStage, FrameOf
<1>8. WriteStage(s, p, j) => WriteStage(s, p, j)'
  BY <1>2, <1>6 DEF WriteStage, FrameOf
<1>9. ~ReadStage(s, p)
  BY <1>2 DEF ReadStage
<1>10. Stage(s, p, j)'
  BY <1>1, <1>2, <1>7, <1>8, <1>9 DEF Stage
<1>11. p >= p
  BY <1>3
<1> QED BY <1>2, <1>3, <1>5, <1>10, <1>11 DEF Moves

(* The chip's erase or program ends. *)
LEMMA ChipDoneSane ==
  ASSUME FlashTypes, ChipSane, ChipDone
  PROVE  ChipSane'
<1>1. job' = NoJob /\ mem' = Effect(job, mem) /\ UNCHANGED <<asleep, refused, call, up, pre>>
      /\ (sr2' = IF job.op = "WSR2" THEN job.data[1] ELSE sr2)
  BY DEF ChipDone, drvVars
<1>2. Settled' = Settled
  <2>1. Effect(NoJob, mem') = mem'
    BY DEF Effect, NoJob, Programs, Erases
  <2> QED BY <1>1, <2>1 DEF Settled
<1>3. NeighboursKept'
  BY <1>1, <1>2 DEF ChipSane, NeighboursKept
<1>4. job'.op # "WSR2"
  BY <1>1 DEF NoJob
<1> QED BY <1>1, <1>3, <1>4 DEF ChipSane, CommandsAccepted

Device == Shift \/ ChipDone

(* Host and chip move, the wire and the chip in step: the section is a     *)
(* word further at most.                                                   *)
LEMMA DeviceMoves ==
  ASSUME FlashTypes, ChipSane, Device, NEW s, NEW Q, NEW U, NEW p, NEW j, NEW t, On(s, Q, U, p, j, t)
  PROVE  Moves(s, Q, U, p, t) /\ ChipSane'
<1>1. s.kind \in Pairs \/ s.kind \in Writes \/ s.kind \in ReadKinds
  BY DEF On, Sections
<1>2. CASE ShiftTx
  <2>1. CASE s.kind \in Pairs
    BY <1>2, <2>1, PairsTx
  <2>2. CASE s.kind \in ReadKinds
    BY <1>2, <2>2, ReadsTx
  <2>3. CASE s.kind \in Writes
    <3>1. p \in 0..5 /\ p < Q /\ Q \in 0..5
      <4>1. s \in Sections /\ Q \in 0..Len(Segs(s)) /\ Wire(s, Q, U, p, j, t) /\ Len(Segs(s)) = 5
        BY <2>3, WriteSegs DEF On
      <4>2. cmds \in Seq(Segments) /\ cmds # <<>>
        BY <1>2, TxStep
      <4>3. p < Q
        BY <4>1, <4>2, WireHead
      <4>4. p \in 0..5
        BY <4>1, WireTypes
      <4> QED BY <4>1, <4>3, <4>4
    <3>2. p # 4
      <4>1. s \in Sections /\ Q \in 0..Len(Segs(s)) /\ Wire(s, Q, U, p, j, t) /\ Segs(s)[5].dir = "RX"
        BY <2>3, WriteSegs DEF On
      <4>2. cmds \in Seq(Segments) /\ cmds # <<>> /\ Head(cmds).dir = "TX"
        BY <1>2, TxStep
      <4>3. Head(cmds).dir = Segs(s)[p+1].dir
        BY <4>1, <4>2, WireHead
      <4>4. p = 4 => Segs(s)[p+1].dir = "RX"
        BY <4>1
      <4> QED BY <4>2, <4>3, <4>4
    <3>3. p \in {0, 1, 3} \/ p = 2
      BY <3>1, <3>2
    <3> QED BY <1>2, <2>3, <3>3, WritesTxCommand, WritesTxData
  <2> QED BY <1>1, <2>1, <2>2, <2>3
<1>3. CASE ShiftRx
  BY <1>1, <1>3, PairsRx, WritesRx, ReadsRx
<1>4. CASE ShiftDummy
  BY <1>4, DummyMoves
<1>5. CASE ChipDone
  BY <1>5, ChipDoneMoves, ChipDoneSane
<1> QED BY <1>2, <1>3, <1>4, <1>5 DEF Device, Shift

(* The rest of the state, for the devices. *)
LEMMA DeviceFrame ==
  ASSUME FlashTypes, Device
  PROVE  /\ UNCHANGED <<script, call, dma, up, res, rxwm, critical, pre, reg>>
         /\ Len(rx) \in Nat /\ Len(rx') \in Nat /\ Len(rx') >= Len(rx)
         /\ Len(cmds) \in Nat /\ Len(cmds') \in Nat /\ Len(cmds') <= Len(cmds)
<1>1. UNCHANGED <<script, call, dma, up, res, rxwm, critical, pre, reg>>
  BY DEF Device, Shift, ShiftTx, ShiftRx, ShiftDummy, ChipDone, dmaVars, drvVars, hostVars
<1>2. Len(rx) \in Nat /\ Len(rx') \in Nat /\ Len(rx') >= Len(rx)
  <2>1. rx \in Seq(RxWords)
    BY DEF FlashTypes, HostTypes
  <2>2. ASSUME NEW w, rx' = Append(rx, w) PROVE Len(rx') = Len(rx) + 1
    BY <2>1, <2>2
  <2> QED BY <2>1, <2>2 DEF Device, Shift, ShiftTx, ShiftRx, ShiftDummy, ChipDone, hostVars
<1>3. Len(cmds) \in Nat /\ Len(cmds') \in Nat /\ Len(cmds') <= Len(cmds)
  <2>1. cmds \in Seq(Segments)
    BY DEF FlashTypes, HostTypes
  <2>2. CASE ChipDone
    BY <2>1, <2>2 DEF ChipDone, hostVars
  <2>3. ASSUME NEW n, NEW f, Shifted(n, f), cmds # <<>> PROVE Len(cmds') \in Nat /\ Len(cmds') <= Len(cmds)
    <3>1. cmds' = Tail(cmds) \/ cmds' = [cmds EXCEPT ![1].len = @ - n]
      BY <2>3 DEF Shifted
    <3> QED BY <2>1, <2>3, <3>1
  <2> QED BY <2>1, <2>2, <2>3 DEF Device, Shift, ShiftTx, ShiftRx, ShiftDummy
<1> QED BY <1>1, <1>2, <1>3

(* What is legitimate stays so while the call does. *)
LEMMA LegitStays ==
  ASSUME UNCHANGED call, NEW i
  PROVE  Legit(i) => Legit(i)'
  BY DEF Legit, Within, Aligned, EraseWithin

LEMMA LegitFromStays ==
  ASSUME UNCHANGED <<script, call>>, NEW d
  PROVE  LegitFrom(d) => LegitFrom(d)'
  BY LegitStays DEF LegitFrom

LEMMA ProperStays ==
  ASSUME UNCHANGED call, NEW s
  PROVE  Proper(s) => Proper(s)'
  BY DEF Proper, Within, Aligned, EraseWithin
=============================================================================
