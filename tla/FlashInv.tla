------------------------------ MODULE FlashInv ------------------------------
(***************************************************************************)
(* The inductive invariant of Flash.                                       *)
(*                                                                         *)
(* The SPI host works behind the driver, which waits for it only where it  *)
(* reads something back: the status of the chip, or data.  A section is    *)
(* what the driver does between two such places; the invariant says of     *)
(* each section which accesses are done, which words and segments are on   *)
(* their way, and what the chip has made of those it has received.         *)
(***************************************************************************)
EXTENDS Flash

(***************************************************************************)
(* The condition of use: what goes through the DMA is whole words of       *)
(* aligned memory, at least one in each page.                              *)
(***************************************************************************)
ReadByDma(r) ==
  \/ r.fn = "read" /\ r.how \in {"standard_dma", "quad_dma"}
  \/ r.fn = "read" /\ r.how = "best" /\ r.n >= RxDmaThreshold
  \/ r.fn \in {"async", "setup"} /\ r.how = "quad"
WrittenByDma(r) == r.fn = "write" /\ r.how \in {"best", "standard_dma", "quad_dma"}

WholeTransfer(r) ==
  w25q128jw_sanity_checks(r.addr, r.n) =>
    /\ ReadByDma(r) => r.n % W = 0
    /\ WrittenByDma(r) =>
         \A x \in r.addr..r.addr+r.n-1 : x = r.addr \/ x % Page = 0 =>
           /\ Lesser(Page - (x % Page), r.addr + r.n - x) >= W
           /\ (r.align + (x - r.addr)) % W = 0

(* And for what a read returns: its buffer is aligned, too. *)
AlignedRead(r) ==
  ReadByDma(r) \/ r.fn \in {"async", "setup"} => r.align % W = 0

(***************************************************************************)
(* Sections.                                                               *)
(*   wake, erase, reset: two commands, the status                          *)
(*   enable, program: the write enable, a command with data, the status    *)
(*   read, readq: a read at standard and at quad speed                     *)
(* flash_wait alone is the end of a reset, the second ReadReg2 the end of  *)
(* a wake, and w25q128jw_power_down its beginning.                         *)
(***************************************************************************)
Pairs  == {"wake", "erase", "reset"}
Writes == {"enable", "program"}
ReadKinds == {"read", "readq"}

(* via says how the data go: "cpu" or "dma" in a write; in a read "cpu",   *)
(* or when the DMA is launched.                                            *)
Sections ==
  [kind : Pairs \cup Writes \cup ReadKinds,
   op : Erases \cup Programs \cup {"RPD", "RESET", "WSR2", "RD", "RDQIO"},
   addr : Cells, off : Nat, n : Nat, via : {"cpu", "dma", "early", "late"},
   fn : {"none", "read_standard_dma", "read_quad_dma", "read_standard_dma_async",
         "read_quad_dma_async", "application"}]
Asynchronous(s) == s.fn \in {"read_standard_dma_async", "read_quad_dma_async"}

(* The accesses of a section; a held segment leaves chip select low. *)
Item(dir, len) == [k |-> "cmd", dir |-> dir, len |-> len, csaat |-> FALSE]
HeldItem(dir, len) == [k |-> "cmd", dir |-> dir, len |-> len, csaat |-> TRUE]
Go == Step("ready", 0, 0)
CommandLen(s) == IF s.op = "CE" \/ s.kind \in {"wake", "reset", "enable"} THEN 1 ELSE W

WakeItems ==
  << Command("PD", 0), Item("TX", 1), Go,
     Command("RPD", 0), Item("TX", 1), Go,
     Step("rxwm", 0, 1), Command("RSR2", 0), HeldItem("TX", 1), Go,
     Item("RX", 1), Go, Step("rxwait", 0, 0), Step("rxreg", 0, 0) >>
EraseItems(s) ==
  << Command("WE", 0), Item("TX", 1), Go,
     Command(s.op, s.addr), Item("TX", CommandLen(s)), Go,
     Step("rxwm", 0, 1), Command("RSR1", 0), HeldItem("TX", 1), Go,
     Item("RX", 1), Go, Step("rxwait", 0, 0), Step("poll", 0, 0) >>
ResetItems ==
  << Command("ERESET", 0), Command("RESET", 0), Go, Item("TX", 1), Go,
     Item("TX", 1), Go,
     Step("rxwm", 0, 1), Command("RSR1", 0), HeldItem("TX", 1), Go,
     Item("RX", 1), Go, Step("rxwait", 0, 0), Step("poll", 0, 0) >>
WriteItems(s) ==
  << Command("WE", 0), Item("TX", 1), Go,
     Command(s.op, s.addr), HeldItem("TX", CommandLen(s)), Go,
     IF s.kind = "enable" THEN Step("txreg", 0, 0)
     ELSE Step(IF s.via = "dma" THEN "dmatx" ELSE "txdata", s.off, s.n),
     Item("TX", s.n), Go,
     Step("rxwm", 0, 1), Command("RSR1", 0), HeldItem("TX", 1), Go,
     Item("RX", 1), Go, Step("rxwait", 0, 0), Step("poll", 0, 0) >>

Launch(s) == [k |-> "dmarx", fn |-> s.fn, n |-> s.n \div W]
Await == Step("dmawait", 0, 0)
ReadItems(s) ==
  IF s.via = "early"
  THEN << Launch(s), Command("RD", s.addr), HeldItem("TX", W), Go, Item("RX", s.n), Go,
          Await >>
  ELSE IF s.via = "late"
  THEN << Command("RD", s.addr), HeldItem("TX", W), Go, Item("RX", s.n), Go, Launch(s),
          Await >>
  ELSE << Command("RD", s.addr), HeldItem("TX", W), Go, Item("RX", s.n), Go >>
ReadqItems(s) ==
  IF s.via = "late"
  THEN << Command("RDQIO", 0), HeldItem("TX", 1), Go, Command("ADDR", s.addr),
          HeldItem("TX", W), Go, HeldItem("DUMMY", 1), Go, Item("RX", s.n), Go,
          Launch(s), Await >>
  ELSE << Command("RDQIO", 0), HeldItem("TX", 1), Go, Command("ADDR", s.addr),
          HeldItem("TX", W), Go, HeldItem("DUMMY", 1), Go, Item("RX", s.n), Go >>

SectionItems(s) ==
  IF s.kind = "wake" THEN WakeItems
  ELSE IF s.kind = "erase" THEN EraseItems(s)
  ELSE IF s.kind = "reset" THEN ResetItems
  ELSE IF s.kind \in Writes THEN WriteItems(s)
  ELSE IF s.kind = "read" THEN ReadItems(s) ELSE ReadqItems(s)

(* The segments of a section, and its words. *)
Seg(dir, len) == [dir |-> dir, len |-> len, csaat |-> FALSE]
HeldSeg(dir, len) == [dir |-> dir, len |-> len, csaat |-> TRUE]
Segs(s) ==
  IF s.kind \in Pairs
  THEN << Seg("TX", 1), Seg("TX", CommandLen(s)), HeldSeg("TX", 1),
          Seg("RX", 1) >>
  ELSE IF s.kind \in Writes
  THEN << Seg("TX", 1), HeldSeg("TX", CommandLen(s)), Seg("TX", s.n),
          HeldSeg("TX", 1), Seg("RX", 1) >>
  ELSE IF s.kind = "read" THEN << HeldSeg("TX", W), Seg("RX", s.n) >>
  ELSE << HeldSeg("TX", 1), HeldSeg("TX", W), HeldSeg("DUMMY", 1), Seg("RX", s.n) >>

N(s) == Ceil(s.n)
StatusOp(s) == IF s.kind = "wake" THEN "RSR2" ELSE "RSR1"
FirstOp(s) ==
  IF s.kind = "wake" THEN "PD" ELSE IF s.kind = "reset" THEN "ERESET" ELSE "WE"
WordOp(s, k) ==
  IF s.kind \in ReadKinds THEN IF k = 1 THEN s.op ELSE "ADDR"
  ELSE IF k = 1 THEN FirstOp(s)
  ELSE IF k = 2 THEN s.op
  ELSE IF s.kind \in Writes /\ k < 3 + N(s) THEN "data" ELSE StatusOp(s)
WordAddr(s, k) ==
  IF k = 2 \/ (s.kind = "read" /\ k = 1) THEN s.addr ELSE 0

(* How many words and segments the first i accesses have put in the FIFO   *)
(* and the queue.                                                          *)
Past(i, k) == IF i >= k THEN 1 ELSE 0
Pushed(s, i) ==
  IF s.kind \in {"wake", "erase"} THEN Past(i, 1) + Past(i, 4) + Past(i, 8)
  ELSE IF s.kind = "reset" THEN Past(i, 1) + Past(i, 2) + Past(i, 9)
  ELSE IF s.kind \in Writes
       THEN Past(i, 1) + Past(i, 4) + (IF i >= 7 THEN N(s) ELSE 0) + Past(i, 11)
  ELSE IF s.kind = "read" THEN Past(i, IF s.via = "early" THEN 2 ELSE 1)
  ELSE Past(i, 1) + Past(i, 4)
Issued(s, i) ==
  IF s.kind \in {"wake", "erase"} THEN Past(i, 2) + Past(i, 5) + Past(i, 9) + Past(i, 11)
  ELSE IF s.kind = "reset" THEN Past(i, 4) + Past(i, 6) + Past(i, 10) + Past(i, 12)
  ELSE IF s.kind \in Writes
       THEN Past(i, 2) + Past(i, 5) + Past(i, 8) + Past(i, 12) + Past(i, 14)
  ELSE IF s.kind = "read"
       THEN IF s.via = "early" THEN Past(i, 3) + Past(i, 5) ELSE Past(i, 2) + Past(i, 4)
  ELSE Past(i, 2) + Past(i, 5) + Past(i, 7) + Past(i, 9)
Launches(s, i) ==
  IF s.via = "early" THEN Past(i, 1)
  ELSE IF s.via = "late" THEN Past(i, IF s.kind = "read" THEN 6 ELSE 11)
  ELSE 0

(***************************************************************************)
(* The SPI host, when p segments are finished and j words of the next.     *)
(***************************************************************************)
Taken(s, p, j) ==
  IF s.kind \in Pairs THEN Lesser(p, 3)
  ELSE IF s.kind \in Writes
  THEN IF p <= 2 THEN p + j ELSE IF p = 3 THEN 2 + N(s) ELSE 3 + N(s)
  ELSE IF s.kind = "read" THEN Lesser(p, 1) ELSE Lesser(p, 2)
Got(s, p, j) ==
  IF s.kind \in ReadKinds
  THEN IF p = Len(Segs(s)) THEN N(s) ELSE IF p = Len(Segs(s)) - 1 THEN j ELSE 0
  ELSE IF p = Len(Segs(s)) THEN 1 ELSE 0

(* Q segments have been issued, U words pushed, t words taken from rx. *)
Place(s, Q, p, j) ==
  /\ p \in 0..Q /\ j \in Nat
  /\ j > 0 => /\ p < Q /\ j * W < Segs(s)[p+1].len
              /\ p = IF s.kind \in Writes THEN 2 ELSE Len(Segs(s)) - 1
              /\ s.kind \in Writes \cup ReadKinds

IsSegment(c, s, p, k, j) ==
  /\ c.dir = Segs(s)[p+k].dir /\ c.csaat = Segs(s)[p+k].csaat
  /\ c.len = Segs(s)[p+k].len - (IF k = 1 THEN j * W ELSE 0)
CmdQueue(s, Q, p, j) ==
  Len(cmds) = Q - p /\ \A k \in 1..Q-p : IsSegment(cmds[k], s, p, k, j)

IsWord(w, s, k) ==
  /\ w.op = WordOp(s, k) /\ w.addr = WordAddr(s, k)
  /\ s.kind = "enable" /\ k = 3 => 1 \in w.bytes[1]
TxFifo(s, U, a) == Len(tx) = U - a /\ \A k \in a+1..U : IsWord(tx[k - a], s, k)

RxFifo(g, t) == t <= g /\ Len(rx) = g - t

Wire(s, Q, U, p, j, t) ==
  /\ Place(s, Q, p, j) /\ CmdQueue(s, Q, p, j)
  /\ TxFifo(s, U, Taken(s, p, j)) /\ RxFifo(Got(s, p, j), t)

(***************************************************************************)
(* The chip.                                                               *)
(***************************************************************************)
FrameOf(op, ok) == frame.op = op /\ frame.ok = ok

StatusRead(s) ==
  IF s.kind = "wake" THEN 1 \in rx[1][1] => 1 \in sr2
  ELSE 0 \notin rx[1][1] => job = NoJob

PairStage(s, p) ==
  /\ IF p = 3 THEN FrameOf(StatusOp(s), TRUE) ELSE frame = NoFrame
  /\ p >= 2 \/ p = 0 \/ s.kind # "wake" => ~asleep
  /\ p = 0 \/ (p = 1 /\ s.kind # "wake") => job = NoJob
  /\ p = 1 /\ s.kind = "erase" => wel
  /\ p = 4 => StatusRead(s)

WriteStage(s, p, j) ==
  /\ s.kind \in {"program"} \cup ReadKinds => up
  /\ p = 2 => /\ frame.op = s.op /\ frame.addr = s.addr /\ Len(frame.data) = j * W
              /\ s.kind = "program" => frame.ok
              /\ frame.ok => job = NoJob
  /\ p = 4 => FrameOf("RSR1", TRUE)
  /\ p \notin {2, 4} => frame = NoFrame
  /\ ~asleep
  /\ p <= 2 /\ s.kind = "program" => job = NoJob
  /\ p = 1 /\ s.kind = "program" => wel
  /\ p = 5 => StatusRead(s)

ReadStage(s, p) ==
  /\ IF p \in 1..Len(Segs(s))-1 THEN FrameOf(s.op, TRUE) ELSE frame = NoFrame
  /\ ~asleep /\ job = NoJob

Stage(s, p, j) ==
  /\ s.kind \in {"program"} \cup ReadKinds => up
  /\ s.kind \in Pairs => PairStage(s, p)
  /\ s.kind \in Writes => WriteStage(s, p, j)
  /\ s.kind \in ReadKinds => ReadStage(s, p)

(***************************************************************************)
(* The driver.                                                             *)
(***************************************************************************)
Within(addr, n) == \A a \in addr..addr+n-1 : a \in Scope(call)
Aligned(off) == call.fn = "erase_and_write" \/ (call.align + off) % W = 0
EraseWithin(op, addr) ==
  \A a \in Cells : a \div EraseUnit(op) = addr \div EraseUnit(op) => a \in Scope(call)

(* What may be left when the SPI host is at rest. *)
Legit(i) ==
  /\ i.k \in {"flash_wait", "reset", "memcpy", "ret", "dmawait", "page_write", "pages", "erase",
              "read", "sectors"}
  /\ i.k = "page_write" =>
       /\ (i.addr % Page) + i.n <= Page /\ Within(i.addr, i.n)
       /\ i.viaDma => i.n >= W /\ Aligned(i.off)
  /\ i.k = "pages" =>
       /\ i.addr % Page = 0 /\ Within(i.addr, i.n)
       /\ i.viaDma => \A x \in i.addr..i.addr+i.n-1 : x % Page = 0 =>
            Lesser(Page, i.addr + i.n - x) >= W /\ Aligned(i.off + (x - i.addr))
  /\ i.k = "erase" => EraseWithin(i.op, i.addr)
  /\ i.k = "read" =>
       /\ i.fn # "read" \/ i.how \in {"standard_dma", "quad_dma"} => i.n % W = 0
       /\ i.fn = "async" => call.fn = "async"
  /\ i.k = "sectors" => \A x \in i.addr..i.addr+i.n-1 : x \in Span(call)
LegitFrom(d) == \A k \in d..Len(script) : Legit(script[k])

(* A section that stays within what the call may change. *)
Proper(s) ==
  /\ s.kind \notin ReadKinds => s.via \in {"cpu", "dma"}
  /\ s.kind = "wake" => s.op = "RPD" /\ s.addr = 0
  /\ s.kind = "reset" => s.op = "RESET" /\ s.addr = 0
  /\ s.kind = "enable" => s.op = "WSR2" /\ s.addr = 0 /\ s.n = 1
  /\ s.kind = "erase" => s.op \in Erases /\ EraseWithin(s.op, s.addr)
  /\ s.kind = "program" =>
       /\ s.op \in Programs /\ s.n \in 1..Page /\ (s.addr % Page) + s.n <= Page
       /\ Within(s.addr, s.n)
       /\ s.via = "dma" => s.n >= W /\ Aligned(s.off)
  /\ s.kind \in ReadKinds =>
       /\ s.op = (IF s.kind = "read" THEN "RD" ELSE "RDQIO")
       /\ s.n \in 1..Sector /\ s.via \in {"cpu", "early", "late"}
       /\ s.kind = "readq" => s.via # "early"
       /\ IF s.via = "cpu" THEN s.fn = "none" ELSE s.fn # "none" /\ s.n % W = 0

(* The accesses of a section from the (i+1)-th on are next. *)
Ahead(s, i, d) ==
  /\ Len(script) >= d + Len(SectionItems(s)) - i
  /\ \A k \in 1..Len(SectionItems(s))-i : script[d+k] = SectionItems(s)[i+k]

(* Behind the first d accesses the script ends with those of tail. *)
Behind(d, tail) ==
  /\ Len(script) = d + Len(tail)
  /\ \A k \in 1..Len(tail) : script[d+k] = tail[k]

CheckTail  == [k \in 1..8 |-> IF k = 8 THEN Step("retqe", 0, 0) ELSE WakeItems[7+k]]
EnableSection ==
  [kind |-> "enable", op |-> "WSR2", addr |-> 0, off |-> 0, n |-> 1, via |-> "cpu", fn |-> "none"]
EnableTail == [k \in 1..25 |-> IF k <= 17 THEN WriteItems(EnableSection)[k] ELSE CheckTail[k-17]]

(* What comes behind the accesses of the section. *)
Continues(s, p, d) ==
  \/ up /\ s.kind \in {"erase", "reset", "program"} /\ LegitFrom(d+1)
  \/ up /\ s.kind \in ReadKinds /\ s.via # "cpu" /\ LegitFrom(d+1)
  \/ /\ up /\ s.kind \in ReadKinds /\ s.via = "cpu"
     /\ Len(script) > d /\ script[d+1] = Step("drain", 0, s.n) /\ LegitFrom(d+2)
  \/ s.kind = "wake" /\ Behind(d, EnableTail)
  \/ s.kind \in {"enable", "reset"} /\ Behind(d, CheckTail)
  \/ s.kind = "wake" /\ p >= 2 /\ job = NoJob /\ Behind(d, << Step("retqe", 0, 0) >>)

DmaReads(s, i, t) ==
  IF Launches(s, i) = 1 /\ t < s.n \div W THEN dma.dir = "rx" /\ dma.left = (s.n \div W) - t
  ELSE dma = NoDma

OnTrack(s, i, p, j) ==
  /\ i < Len(SectionItems(s)) /\ Ahead(s, i, 0) /\ call.fn # "async"
  /\ s.kind \in ReadKinds => ~Asynchronous(s)
  /\ Continues(s, p, Len(SectionItems(s)) - i)
  /\ \E t \in Nat : /\ Wire(s, Issued(s, i), Pushed(s, i), p, j, t)
                    /\ IF s.kind \in ReadKinds THEN DmaReads(s, i, t) /\ (t > 0 => Launches(s, i) = 1)
                       ELSE dma = NoDma /\ t = 0

(* The data of a program, y words of which are in the FIFO. *)
InData(s, y, p, j) ==
  /\ s.kind = "program" /\ y \in 0..N(s) /\ call.fn # "async"
  /\ Wire(s, 2, 2 + y, p, j, 0)
  /\ \E d \in 1..2 :
       /\ Ahead(s, 7, d) /\ Continues(s, p, d + 10)
       /\ \/ /\ d = 1 /\ dma = NoDma
             /\ y * W < s.n /\ script[1] = Step("txdata", s.off + y * W, s.n - y * W)
          \/ /\ script[1] = Await /\ s.via = "dma"
             /\ d = 2 <=> s.n % W # 0
             /\ d = 2 => script[2] = Step("txdata", s.off + s.n - (s.n % W), s.n % W)
             /\ IF y < s.n \div W
                THEN dma = [dir |-> "tx", off |-> s.off + y * W, left |-> (s.n \div W) - y]
                ELSE y = s.n \div W /\ dma = NoDma

(* The core empties the RX FIFO, off bytes so far: d accesses of a turn,   *)
(* then k bytes of a word loop, then the loop goes on or ends.             *)
Draining(s, p, j) ==
  /\ s.kind \in ReadKinds /\ s.via = "cpu" /\ dma = NoDma /\ up /\ call.fn # "async"
  /\ \E off \in 0..s.n, k \in 0..Sector, d \in 0..2, more \in BOOLEAN :
       LET e == d + Past(k, 1) IN
       /\ off % W = 0 /\ Wire(s, Len(Segs(s)), Taken(s, Len(Segs(s)), 0), p, j, off \div W)
       /\ off + k <= s.n /\ (more => (off + k) % W = 0)
       /\ Len(script) >= e + (IF more THEN 1 ELSE 0)
       /\ d = 2 => script[1] = Step("rxwm", 0, Ceil(k))
       /\ d >= 1 => script[d] = Step("rxwait", 0, 0)
       /\ d = 1 => rxwm = Ceil(k)
       /\ d = 0 => Len(rx) >= Ceil(k) /\ (k > 0 \/ more)
       /\ k > 0 => script[d+1] = Step("rx", off, k)
       /\ more => script[e+1] = Step("drain", off + k, s.n - off - k)
       /\ ~more => off + k = s.n
       /\ LegitFrom(e + (IF more THEN 2 ELSE 1))

(* An asynchronous read, which returns while the DMA copies. *)
Async(s, p, j) ==
  /\ s.kind \in ReadKinds /\ s.via # "cpu" /\ Asynchronous(s) /\ s.n = call.n
  /\ call.fn = "async" /\ up
  /\ \E i \in 0..Len(SectionItems(s))-1, t \in Nat :
       LET d == Len(SectionItems(s)) - 1 - i IN
       /\ Wire(s, Issued(s, i), Pushed(s, i), p, j, t) /\ DmaReads(s, i, t)
       /\ t > 0 => Launches(s, i) = 1
       /\ \/ Len(script) = d + 1 /\ script[d+1] = [k |-> "ret", status |-> "OK"]
          \/ d = 0 /\ script = <<>> /\ res = "OK"
       /\ \A k \in 1..d : script[k] = SectionItems(s)[i+k]

(* w25q128jw_power_down, which does not wait for its command. *)
Down(s, p, j) ==
  /\ s.kind = "wake" /\ dma = NoDma /\ call.fn = "power_down"
  /\ \E i \in 0..3 :
       /\ Wire(s, Issued(s, i), Pushed(s, i), p, j, 0)
       /\ \/ Len(script) = 4 - i /\ script[4-i] = [k |-> "ret", status |-> "void"]
          \/ i = 3 /\ script = <<>> /\ ~up
       /\ \A k \in 1..3-i : script[k] = WakeItems[i+k]

(* Nothing is on its way. *)
Quiet == cmds = <<>> /\ tx = <<>> /\ rx = <<>> /\ frame = NoFrame /\ dma = NoDma
Resting ==
  /\ Quiet
  /\ up => job = NoJob /\ ~asleep
  /\ script # <<>> => up /\ LegitFrom(1)
  /\ script = <<>> => ~Awaited
  /\ call.fn = "async" /\ script # <<>> =>
       \/ script = << [k |-> "ret", status |-> "ERROR"] >>
       \/ /\ Len(script) = 2 /\ script[1].k = "read" /\ script[1].fn = "async" /\ script[1].n = call.n
          /\ script[2] = [k |-> "ret", status |-> "OK"]
Closing ==
  /\ Quiet /\ script = << Step("retqe", 0, 0) >> /\ job = NoJob /\ ~asleep
  /\ call.fn # "async" /\ (1 \in reg => 1 \in sr2)

Flow ==
  \/ Resting \/ Closing
  \/ \E s \in Sections, p \in 0..5, j \in Nat :
       /\ Proper(s) /\ Stage(s, p, j)
       /\ \/ \E i \in 0..16 : OnTrack(s, i, p, j)
          \/ \E y \in Nat : InData(s, y, p, j)
          \/ Draining(s, p, j) \/ Async(s, p, j) \/ Down(s, p, j)

Sane ==
  /\ asleep => job = NoJob
  /\ job.op = "WSR2" => 1 \in job.data[1]
  /\ up => 1 \in sr2
  /\ critical = {}
  /\ Len(cmds) > CmdDepth => script # <<>> /\ script[1] = Go
  /\ CommandsAccepted /\ NeighboursKept

FlashInv == Flow /\ Sane
=============================================================================
