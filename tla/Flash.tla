------------------------------- MODULE Flash -------------------------------
(***************************************************************************)
(* The driver of the W25Q128JW flash (bsp/w25q/w25q.c), the SPI host it    *)
(* talks through, the DMA channel it borrows, and the chip.                *)
(*                                                                         *)
(* A function of the driver is the sequence of accesses it makes to the    *)
(* SPI host and the DMA, a script; the core works it off access by access  *)
(* while the SPI host shifts, the DMA copies and the chip programs or      *)
(* erases.  The call of a local function and a loop are one item of the    *)
(* script: at the head the call is replaced by the accesses of the         *)
(* function, the loop by its next turn and what is left of it.  Two        *)
(* accesses change what follows: the busy bit read by flash_wait and the   *)
(* DMA refusing a transaction.                                             *)
(*                                                                         *)
(* A byte is the set of its bits that are one; two bits are kept, those    *)
(* the driver looks at (0: busy, 1: write enable latch or quad enable).    *)
(* A word that carries a command is its opcode and address.                *)
(***************************************************************************)
EXTENDS Integers, Sequences, SequencesExt

CONSTANTS
  W,            \* bytes in a word (4)
  Page,         \* FLASH_PAGE_SIZE (256)
  Sector,       \* FLASH_SECTOR_SIZE (4096)
  Block32,      \* 32 KiB
  Block64,      \* 64 KiB
  Size,         \* MAX_FLASH_ADDR + 1
  TxDepth, RxDepth, CmdDepth,  \* SPI_HOST_PARAM_*_DEPTH (72, 64, 4)
  RxDmaThreshold,  \* RX_DMA_THRESHOLD (75)
  Memories,     \* contents the chip may come with
  Requests,     \* calls the application may make
  MaxEvents     \* bound on the calls, other than of w25q128jw_init, and the
                \* resets of the system on chip, together

ASSUME GeometryAssumption ==
  /\ {W, Page, Sector, Block32, Block64, Size} \subseteq Nat \ {0}
  /\ Page % W = 0 /\ Sector % Page = 0
  /\ Block32 % Sector = 0 /\ Block64 % Block32 = 0 /\ Size % Block64 = 0

(* spi_write_word drops a word when the FIFO is full, and page_write uses  *)
(* it for the commands around the data: a page and three commands must fit.*)
ASSUME DepthAssumption ==
  /\ {TxDepth, RxDepth, CmdDepth} \subseteq Nat \ {0}
  /\ TxDepth >= (Page \div W) + 3 /\ RxDepth % W = 0

Cells == 0..Size-1
Bits  == {0, 1}
Bytes == SUBSET Bits
FF    == Bits

(* The calls: the function, which of its variants, the arguments, and how  *)
(* the caller's buffer is aligned.  A read fits into the buffer, which is  *)
(* a sector long; a write comes with as many bytes as it says.             *)
Hows(fn) ==
  CASE fn = "read"  -> {"best", "standard", "quad", "standard_dma", "quad_dma"}
    [] fn = "write" -> {"best", "standard", "quad", "standard_dma", "quad_dma"}
    [] fn = "erase_and_write" -> {"best", "standard", "quad", "standard_dma", "quad_dma"}
    [] fn = "async" -> {"standard", "quad"}
    [] fn = "setup" -> {"standard", "quad"}
    [] fn = "erase" -> {"4k", "32k", "64k", "chip"}
    [] fn = "reset" -> {"force", "wait"}
    [] fn = "power_down" -> {""}
ReadFunctions == {"read", "async", "setup"}
ApiFunctions == ReadFunctions \cup {"write", "erase_and_write", "erase", "reset", "power_down"}

ASSUME RequestAssumption ==
  /\ Memories \subseteq [Cells -> Bytes] /\ RxDmaThreshold \in Nat /\ MaxEvents \in Nat
  /\ \A r \in Requests :
       /\ r \in [fn : ApiFunctions, how : Hows(r.fn), addr : Nat, n : Nat,
                 data : Seq(Bytes), align : Nat]
       /\ r.fn \in ReadFunctions => r.n <= Sector
       /\ r.fn \in {"write", "erase_and_write"} => Len(r.data) = r.n

VARIABLES
  (* the chip *)
  mem, sr2, wel, asleep, rstEn,
  job,        \* the program or erase it is busy with
  frame,      \* what it has been sent since chip select went low
  refused,    \* opcodes it has ignored so far
  (* the SPI host *)
  cmds, tx, rx, rxwm,
  (* the DMA channel, and the static transactions that hold a critical     *)
  (* error                                                                 *)
  dma, critical,
  (* the driver: what is left of the call, its arguments, its buffer, the  *)
  (* status register it has read, the status it has returned               *)
  script, call, buf, reg, res,
  up,         \* w25q128jw_init has succeeded since the last reset
  pre,        \* history: the settled memory when the call was made
  events

chipVars == <<mem, sr2, wel, asleep, rstEn, job, frame, refused>>
hostVars == <<cmds, tx, rx, rxwm>>
dmaVars  == <<dma, critical>>
drvVars  == <<call, buf, reg, res, up, pre>>
vars == <<chipVars, hostVars, dmaVars, script, drvVars, events>>

Lesser(a, b) == IF a < b THEN a ELSE b
Ceil(n) == (n + W - 1) \div W

(***************************************************************************)
(* The accesses a script is made of.                                       *)
(***************************************************************************)
Step(k, off, n) == [k |-> k, off |-> off, n |-> n]
Command(op, addr) == [k |-> "tx", op |-> op, addr |-> addr]

(* spi_set_command and the spi_wait_for_ready behind it.  The length       *)
(* register holds the length less one: zero wraps around.                  *)
LenMax == 16777216
Segment(dir, n, csaat) ==
  << [k |-> "cmd", dir |-> dir, len |-> IF n = 0 THEN LenMax ELSE n,
      csaat |-> csaat],
     Step("ready", 0, 0) >>

(* A command of n bytes is put in the FIFO and sent. *)
Send(op, addr, n, csaat) ==
  <<Command(op, addr)>> \o Segment("TX", n, csaat)

(* The loop over the words of n bytes of the buffer, from off.  The last    *)
(* word may be a partial one.                                               *)
Words(k, off, n) == IF n = 0 THEN <<>> ELSE << Step(k, off, n) >>

(***************************************************************************)
(* The local functions of the driver.                                      *)
(***************************************************************************)
flash_write_enable == Send("WE", 0, 1, FALSE)

(* One turn of flash_wait's loop; "poll" starts it over. *)
Poll == Send("RSR1", 0, 1, TRUE) \o Segment("RX", 1, FALSE)
        \o << Step("rxwait", 0, 0), Step("poll", 0, 0) >>

flash_wait == << Step("rxwm", 0, 1) >> \o Poll

(* Both opcodes are in the FIFO before the first is sent. *)
flash_reset ==
  << Command("ERESET", 0), Command("RESET", 0), Step("ready", 0, 0) >>
  \o Segment("TX", 1, FALSE) \o Segment("TX", 1, FALSE)

flash_power_up == Send("RPD", 0, 1, FALSE)

ReadReg2 == Send("RSR2", 0, 1, TRUE) \o Segment("RX", 1, FALSE)
            \o << Step("rxwait", 0, 0), Step("rxreg", 0, 0) >>

set_QE_bit_Unread ==
  << Step("rxwm", 0, 1) >> \o ReadReg2
  \o flash_write_enable
  \o Send("WSR2", 0, 1, TRUE) \o << Step("txreg", 0, 0) >>
  \o Segment("TX", 1, FALSE)
  \o flash_wait
  \o Send("RSR2", 0, 1, TRUE) \o Segment("RX", 1, FALSE)

set_QE_bit ==
  << Step("rxwm", 0, 1) >> \o ReadReg2
  \o flash_write_enable
  \o Send("WSR2", 0, 1, TRUE) \o << Step("txreg", 0, 0) >>
  \o Segment("TX", 1, FALSE)
  \o flash_wait
  \o ReadReg2

w25q128jw_sanity_checks_NoLength(addr, n) ==
  addr <= Size - 1 /\ addr + n <= Size - 1

(* The sum is compared with the last address, not with the size. *)
w25q128jw_sanity_checks(addr, n) ==
  addr <= Size - 1 /\ n > 0 /\ addr + n <= Size - 1

(* The result of dma_send_toflash is not looked at. *)
page_write(addr, off, n, quad, viaDma) ==
  flash_write_enable
  \o Send(IF quad THEN "PPQ" ELSE "PP", addr, W, TRUE)
  \o (IF viaDma THEN << Step("dmatx", off, n) >> ELSE Words("txdata", off, n))
  \o Segment("TX", n, FALSE)
  \o flash_wait

PageWrite(addr, off, n, quad, viaDma) ==
  << [k |-> "page_write", addr |-> addr, off |-> off, n |-> n, quad |-> quad,
      viaDma |-> viaDma] >>

(* The loop over the pages, from a page boundary. *)
PageLoop(addr, off, n, quad, viaDma) ==
  << [k |-> "pages", addr |-> addr, off |-> off, n |-> n, quad |-> quad,
      viaDma |-> viaDma] >>

PageTurn(l) ==
  IF l.n > Page
  THEN PageWrite(l.addr, l.off, Page, l.quad, l.viaDma)
       \o PageLoop(l.addr + Page, l.off + Page, l.n - Page, l.quad, l.viaDma)
  ELSE PageWrite(l.addr, l.off, l.n, l.quad, l.viaDma)

page_write_wrapper_NoHead(addr, n, quad, viaDma) ==
  PageLoop(addr, 0, n, quad, viaDma)

page_write_wrapper(addr, n, quad, viaDma) ==
  LET head == IF addr % Page = 0 THEN 0 ELSE Lesser(Page - (addr % Page), n)
  IN  (IF head > 0 THEN PageWrite(addr, 0, head, quad, viaDma) ELSE <<>>)
      \o (IF n = head THEN <<>>
          ELSE PageLoop(addr + head, head, n - head, quad, viaDma))

(***************************************************************************)
(* Reads.                                                                  *)
(***************************************************************************)
ReadStandard(addr, n) == Send("RD", addr, W, TRUE) \o Segment("RX", n, FALSE)

(* The opcode goes out at standard speed, address and data at quad speed.  *)
ReadQuad(addr, n) ==
  Send("RDQIO", 0, 1, TRUE) \o Send("ADDR", addr, W, TRUE)
  \o Segment("DUMMY", 1, TRUE) \o Segment("RX", n, FALSE)

(* The loop that empties the RX FIFO.  It goes by RX_DEPTH bytes, although *)
(* the FIFO holds as many words.                                           *)
Drain(off, n) == << Step("drain", off, n) >>

DrainTurn(l) ==
  IF l.n >= RxDepth
  THEN << Step("rxwm", 0, RxDepth \div W), Step("rxwait", 0, 0) >>
       \o Words("rx", l.off, RxDepth) \o Drain(l.off + RxDepth, l.n - RxDepth)
  ELSE << Step("rxwm", 0, Ceil(l.n)), Step("rxwait", 0, 0) >>
       \o Words("rx", l.off, l.n)

ReadLoop_ShortWatermark(n) ==
  << Step("rxwm", 0, n \div W), Step("rxwait", 0, 0) >> \o Words("rx", 0, n)

ReadLoop(n) == Drain(0, n)

(* A DMA transaction of the whole words, and the bytes that are left. *)
DmaRead(fn, n) == << [k |-> "dmarx", fn |-> fn, n |-> n \div W] >>
DmaTail(n) == << Step("dmawait", 0, 0) >>
              \o Words("rx", n - (n % W), n % W)

w25q128jw_read_standard(addr, n) == ReadStandard(addr, n) \o ReadLoop(n)
w25q128jw_read_quad(addr, n) == ReadQuad(addr, n) \o ReadLoop(n)
w25q128jw_read_standard_dma(addr, n) ==
  DmaRead("read_standard_dma", n) \o ReadStandard(addr, n) \o DmaTail(n)
w25q128jw_read_quad_dma(addr, n) ==
  ReadQuad(addr, n) \o DmaRead("read_quad_dma", n) \o DmaTail(n)
(* The asynchronous reads; their second half is called, or done, by the    *)
(* application once the DMA has finished.                                  *)
w25q128jw_read_standard_dma_async(addr, n) ==
  DmaRead("read_standard_dma_async", n) \o ReadStandard(addr, n)
w25q128jw_read_quad_dma_async(addr, n) ==
  ReadQuad(addr, n) \o DmaRead("read_quad_dma_async", n)
w25q128jw_wait_quad_dma_async(n) == DmaTail(n)

(* The application sets the DMA up after w25q128jw_read_standard_setup and *)
(* w25q128jw_read_quad_setup.                                              *)
ApplicationDma(n) == DmaRead("application", n) \o DmaTail(n)

Read(fn, how, addr, n) ==
  << [k |-> "read", fn |-> fn, how |-> how, addr |-> addr, n |-> n] >>

ReadBody(l) ==
  CASE l.fn = "async" ->
         IF l.how = "standard" THEN w25q128jw_read_standard_dma_async(l.addr, l.n)
                               ELSE w25q128jw_read_quad_dma_async(l.addr, l.n)
    [] l.fn = "setup" ->
         (IF l.how = "standard" THEN ReadStandard(l.addr, l.n) ELSE ReadQuad(l.addr, l.n))
         \o ApplicationDma(l.n)
    [] l.fn = "read" ->
         CASE l.how = "standard"     -> w25q128jw_read_standard(l.addr, l.n)
           [] l.how = "quad"         -> w25q128jw_read_quad(l.addr, l.n)
           [] l.how = "standard_dma" -> w25q128jw_read_standard_dma(l.addr, l.n)
           [] l.how = "quad_dma"     -> w25q128jw_read_quad_dma(l.addr, l.n)

w25q128jw_read(addr, n) ==
  IF n < RxDmaThreshold THEN Read("read", "quad", addr, n)
  ELSE << Step("dmawait", 0, 0) >> \o Read("read", "quad_dma", addr, n)

Reading(how, addr, n) ==
  IF how = "best" THEN w25q128jw_read(addr, n) ELSE Read("read", how, addr, n)

(***************************************************************************)
(* Erasing and writing.                                                    *)
(***************************************************************************)
Wait == << Step("flash_wait", 0, 0) >>

EraseCommand_NotEnabled(op, addr) ==
  Send(op, addr, IF op = "CE" THEN 1 ELSE W, FALSE) \o flash_wait

EraseCommand(op, addr) ==
  flash_write_enable \o Send(op, addr, IF op = "CE" THEN 1 ELSE W, FALSE) \o flash_wait

Erase(op, addr) == Wait \o << [k |-> "erase", op |-> op, addr |-> addr] >>

w25q128jw_4k_erase(addr)  == Erase("SE", addr)
w25q128jw_32k_erase(addr) == Erase("BE32", addr)
w25q128jw_64k_erase(addr) == Erase("BE64", addr)
w25q128jw_chip_erase      == Erase("CE", 0)

ResetCommand == flash_reset \o flash_wait

w25q128jw_reset_force == << Step("reset", 0, 0) >>
w25q128jw_reset       == Wait \o w25q128jw_reset_force
w25q128jw_power_down  == Send("PD", 0, 1, FALSE)
w25q128jw_init        == flash_power_up \o set_QE_bit

Return(status) == << [k |-> "ret", status |-> status] >>

(* erase_and_write and its four variants: sector by sector, the sector is  *)
(* saved in RAM, erased, merged with the data and written back; the first  *)
(* sector out of range ends the call.                                      *)
WritePages(how, addr, n) ==
  (IF how = "best" THEN << Step("dmawait", 0, 0) >> ELSE <<>>)
  \o page_write_wrapper(addr, n, how \in {"best", "quad", "quad_dma"},
                        how \in {"best", "standard_dma", "quad_dma"})

erase_and_write(how, addr, off, n) ==
  << [k |-> "sectors", how |-> how, addr |-> addr, off |-> off, n |-> n] >>

SectorTurn(l) ==
  LET start == l.addr - (l.addr % Sector)
      part  == Lesser(Sector - (l.addr % Sector), l.n)
  IN  IF l.n = 0 THEN Return("OK")
      ELSE IF ~w25q128jw_sanity_checks(start, Sector) THEN Return("ERROR")
      ELSE Reading(l.how, start, Sector) \o w25q128jw_4k_erase(start)
           \o << [k |-> "memcpy", to |-> l.addr % Sector, off |-> l.off, n |-> part] >>
           \o WritePages(l.how, start, Sector)
           \o erase_and_write(l.how, l.addr + part, l.off + part, l.n - part)

(***************************************************************************)
(* What a call does.                                                       *)
(***************************************************************************)
Checked(r, body) ==
  IF w25q128jw_sanity_checks(r.addr, r.n) THEN body ELSE Return("ERROR")

(* w25q128jw_read_standard_setup and w25q128jw_read_standard_dma_async     *)
(* take whole words only.                                                  *)
WholeWords(r, body) ==
  IF r.how = "standard" /\ r.n % W # 0 THEN Return("ERROR") ELSE body

Script(r) ==
  CASE r.fn = "init"  -> w25q128jw_init \o << Step("retqe", 0, 0) >>
    [] r.fn = "read"  -> Checked(r, Reading(r.how, r.addr, r.n) \o Return("OK"))
    [] r.fn \in {"async", "setup"} ->
         Checked(r, WholeWords(r, Read(r.fn, r.how, r.addr, r.n) \o Return("OK")))
    [] r.fn = "write" -> Checked(r, WritePages(r.how, r.addr, r.n) \o Return("OK"))
    [] r.fn = "erase_and_write" ->
         IF r.how = "best" THEN Checked(r, erase_and_write(r.how, r.addr, 0, r.n))
                           ELSE erase_and_write(r.how, r.addr, 0, r.n)
    [] r.fn = "erase" ->
         IF r.addr > Size - 1 THEN Return("ERROR")
         ELSE (CASE r.how = "4k"  -> w25q128jw_4k_erase(r.addr)
                 [] r.how = "32k" -> w25q128jw_32k_erase(r.addr)
                 [] r.how = "64k" -> w25q128jw_64k_erase(r.addr)
                 [] r.how = "chip" -> w25q128jw_chip_erase) \o Return("void")
    [] r.fn = "reset" ->
         (IF r.how = "force" THEN w25q128jw_reset_force ELSE w25q128jw_reset)
         \o Return("void")
    [] r.fn = "power_down" -> w25q128jw_power_down \o Return("void")

(***************************************************************************)
(* The chip (external): what the driver relies on.                         *)
(***************************************************************************)
NoFrame == [op |-> "none", ok |-> FALSE, addr |-> 0, data |-> <<>>, sent |-> 0]
NoJob   == [op |-> "none", addr |-> 0, data |-> <<>>]

EraseUnit(op) == CASE op = "SE" -> Sector [] op = "BE32" -> Block32
                   [] op = "BE64" -> Block64 [] op = "CE" -> Size
Erases   == {"SE", "BE32", "BE64", "CE"}
Programs == {"PP", "PPQ"}
Reads    == {"RD", "RDQIO"}

Accepts(op) ==
  IF asleep THEN op = "RPD"
  ELSE IF job # NoJob THEN op \in {"RSR1", "RSR2", "ERESET", "RESET"}
  ELSE /\ op # "data"
       /\ op \in Erases \cup Programs \cup {"WSR2"} => wel
       /\ op \in {"PPQ", "RDQIO"} => 1 \in sr2

(* The frame after n bytes of a word.  A command taken for data leaves the *)
(* low bits of FC_RSR1.                                                    *)
Received(w, n) ==
  IF frame.op = "none"
  THEN [NoFrame EXCEPT !.op = w.op, !.ok = Accepts(w.op), !.addr = w.addr]
  ELSE IF w.op = "ADDR" THEN [frame EXCEPT !.addr = w.addr]
  ELSE [frame EXCEPT !.data = @ \o IF w.op = "data" THEN SubSeq(w.bytes, 1, n)
                                   ELSE [i \in 1..n |-> {0}]]

(* The i-th byte the chip sends next. *)
Sent(i) ==
  IF ~frame.ok THEN FF
  ELSE CASE frame.op \in Reads -> mem[(frame.addr + frame.sent + i - 1) % Size]
         [] frame.op = "RSR1" -> (IF job # NoJob THEN {0} ELSE {})
                                 \cup (IF wel THEN {1} ELSE {})
         [] frame.op = "RSR2" -> sr2
         [] OTHER -> FF

(* Chip select goes high: the command takes effect. *)
Deselect(f) ==
  LET is(op) == f.ok /\ f.op = op
      resets_it == is("RESET") /\ rstEn
      starts == /\ f.ok /\ f.op \in Erases \cup Programs \cup {"WSR2"}
                /\ f.op \in Erases \/ f.data # <<>>
  IN  /\ frame' = NoFrame
      /\ refused' = refused \cup (IF f.ok THEN {} ELSE {f.op})
                     \cup (IF resets_it /\ job # NoJob THEN {"aborted"} ELSE {})
      /\ wel' = ((wel \/ is("WE")) /\ ~resets_it)
      /\ asleep' = ((asleep \/ is("PD")) /\ ~is("RPD"))
      /\ rstEn' = is("ERESET")
      /\ job' = IF starts THEN [op |-> f.op, addr |-> f.addr, data |-> f.data]
                ELSE IF resets_it THEN NoJob ELSE job
      /\ UNCHANGED <<mem, sr2>>

(* Programming clears bits and wraps around at the end of the page. *)
Hits(j, a) ==
  {i \in 1..Len(j.data) : j.addr - (j.addr % Page) + ((j.addr + i - 1) % Page) = a}
Effect(j, m) ==
  CASE j.op \in Programs ->
         [a \in Cells |-> IF Hits(j, a) = {} THEN m[a] ELSE m[a] \cap j.data[Max(Hits(j, a))]]
    [] j.op \in Erases ->
         [a \in Cells |-> IF a \div EraseUnit(j.op) = j.addr \div EraseUnit(j.op)
                          THEN FF ELSE m[a]]
    [] OTHER -> m

ChipDone ==
  /\ job # NoJob
  /\ mem' = Effect(job, mem)
  /\ sr2' = IF job.op = "WSR2" THEN job.data[1] ELSE sr2
  /\ wel' = FALSE /\ job' = NoJob
  /\ UNCHANGED <<asleep, rstEn, frame, refused, hostVars, dmaVars, script,
                 drvVars, events>>

(***************************************************************************)
(* The SPI host and the DMA channel (external).                            *)
(***************************************************************************)
Ready == Len(cmds) <= CmdDepth     \* the segment being shifted has left the queue

(* n bytes of the segment at the head have been shifted, frame f is the    *)
(* result.                                                                 *)
Shifted(n, f) ==
  IF Head(cmds).len > n
  THEN /\ cmds' = [cmds EXCEPT ![1].len = @ - n]
       /\ frame' = f
       /\ UNCHANGED <<mem, sr2, wel, asleep, rstEn, job, refused>>
  ELSE /\ cmds' = Tail(cmds)
       /\ IF Head(cmds).csaat
          THEN frame' = f /\ UNCHANGED <<mem, sr2, wel, asleep, rstEn, job, refused>>
          ELSE Deselect(f)

ShiftTx ==
  /\ cmds # <<>> /\ Head(cmds).dir = "TX" /\ tx # <<>>
  /\ LET n == Lesser(W, Head(cmds).len) IN Shifted(n, Received(Head(tx), n))
  /\ tx' = Tail(tx)
  /\ UNCHANGED <<rx, rxwm, dmaVars, script, drvVars, events>>

ShiftRx ==
  /\ cmds # <<>> /\ Head(cmds).dir = "RX" /\ Len(rx) < RxDepth
  /\ LET n == Lesser(W, Head(cmds).len)
     IN  /\ rx' = Append(rx, [i \in 1..W |-> IF i <= n THEN Sent(i) ELSE {}])
         /\ Shifted(n, [frame EXCEPT !.sent = @ + n])
  /\ UNCHANGED <<tx, rxwm, dmaVars, script, drvVars, events>>

ShiftDummy ==
  /\ cmds # <<>> /\ Head(cmds).dir = "DUMMY"
  /\ Shifted(Head(cmds).len, frame)
  /\ UNCHANGED <<tx, rx, rxwm, dmaVars, script, drvVars, events>>

Shift == ShiftTx \/ ShiftRx \/ ShiftDummy

(* What page_write sends: the merged sector, or the caller's data. *)
Source(a) == IF call.fn = "erase_and_write" THEN buf[a] ELSE call.data[a + 1]

(* A partial word is filled up with zeros. *)
DataWord(off, n) ==
  [op |-> "data", addr |-> 0,
   bytes |-> [i \in 1..W |-> IF i <= n THEN Source(off + i - 1) ELSE {}]]

(* The bytes of a word from the RX FIFO go to the buffer. *)
Stored(word, off, n) ==
  [i \in DOMAIN buf |-> IF i \in off..off+n-1 THEN word[i - off + 1] ELSE buf[i]]

NoDma == [dir |-> "none", off |-> 0, left |-> 0]

(* What the channel stores of a word it has read: validation replaces the  *)
(* type of a misaligned destination by one that is aligned, and the number *)
(* of units stays.  The saved sector (w25q.c:222) is aligned.              *)
DmaUnit ==
  IF call.fn = "erase_and_write" \/ call.align % W = 0 THEN W
  ELSE IF call.align % 2 = 0 THEN 2 ELSE 1

(* The channel moves one word when the SPI host's trigger lets it. *)
DmaMove ==
  /\ \/ /\ dma.dir = "tx" /\ Len(tx) < TxDepth
        /\ tx' = Append(tx, DataWord(dma.off, W))
        /\ UNCHANGED <<rx, buf>>
     \/ /\ dma.dir = "rx" /\ rx # <<>>
        /\ buf' = Stored(Head(rx), (dma.off \div W) * DmaUnit, DmaUnit)
        /\ rx' = Tail(rx)
        /\ UNCHANGED tx
  /\ dma' = IF dma.left = 1 THEN NoDma
            ELSE [dma EXCEPT !.off = @ + W, !.left = @ - 1]
  /\ UNCHANGED <<chipVars, cmds, rxwm, critical, script, call, reg, res, up,
                 pre, events>>

(***************************************************************************)
(* The driver works the script off.                                        *)
(***************************************************************************)
At(k) == script # <<>> /\ Head(script).k = k
Now == Head(script)
Advance == script' = Tail(script)

(* The next word of a loop over words. *)
Bytewise == Lesser(W, Now.n)
NextWord == script' = Words(Now.k, Now.off + Bytewise, Now.n - Bytewise) \o Tail(script)

(* A function is entered, a loop goes into its next turn. *)
Body(l) ==
  CASE l.k = "flash_wait" -> flash_wait
    [] l.k = "page_write" -> page_write(l.addr, l.off, l.n, l.quad, l.viaDma)
    [] l.k = "erase"      -> EraseCommand(l.op, l.addr)
    [] l.k = "reset"      -> ResetCommand
    [] l.k = "read"       -> ReadBody(l)
    [] l.k = "pages"      -> PageTurn(l)
    [] l.k = "drain"      -> DrainTurn(l)
    [] l.k = "sectors"    -> SectorTurn(l)

Bodies == {"flash_wait", "page_write", "erase", "reset", "read", "pages", "drain", "sectors"}

Unfold ==
  /\ script # <<>> /\ Now.k \in Bodies
  /\ script' = Body(Now) \o Tail(script)
  /\ UNCHANGED <<chipVars, hostVars, dmaVars, drvVars, events>>

(* spi_write_word: a word that finds the FIFO full is dropped. *)
SpiWriteWord ==
  /\ At("tx")
  /\ tx' = IF Len(tx) < TxDepth
           THEN Append(tx, [op |-> Now.op, addr |-> Now.addr, bytes |-> <<>>])
           ELSE tx
  /\ Advance
  /\ UNCHANGED <<chipVars, cmds, rx, rxwm, dmaVars, drvVars, events>>

(* spi_wait_for_tx_not_full, spi_write_word *)
WriteData ==
  /\ At("txdata") /\ Len(tx) < TxDepth
  /\ tx' = Append(tx, DataWord(Now.off, Bytewise))
  /\ NextWord
  /\ UNCHANGED <<chipVars, cmds, rx, rxwm, dmaVars, drvVars, events>>

(* reg2_data |= 0x2 *)
WriteReg ==
  /\ At("txreg")
  /\ tx' = IF Len(tx) < TxDepth
           THEN Append(tx, [op |-> "data", addr |-> 0,
                            bytes |-> [i \in 1..W |-> IF i = 1 THEN reg \cup {1} ELSE {}]])
           ELSE tx
  /\ Advance
  /\ UNCHANGED <<chipVars, cmds, rx, rxwm, dmaVars, drvVars, events>>

(* spi_set_command: a command that finds the queue full is dropped. *)
SpiSetCommand ==
  /\ At("cmd")
  /\ cmds' = IF Ready THEN Append(cmds, [dir |-> Now.dir, len |-> Now.len,
                                         csaat |-> Now.csaat])
             ELSE cmds
  /\ Advance
  /\ UNCHANGED <<chipVars, tx, rx, rxwm, dmaVars, drvVars, events>>

SpiWaitForReady ==
  /\ At("ready") /\ Ready
  /\ Advance
  /\ UNCHANGED <<chipVars, hostVars, dmaVars, drvVars, events>>

SpiSetRxWatermark ==
  /\ At("rxwm")
  /\ rxwm' = Now.n
  /\ Advance
  /\ UNCHANGED <<chipVars, cmds, tx, rx, dmaVars, drvVars, events>>

SpiWaitForRxWatermark ==
  /\ At("rxwait") /\ Len(rx) >= rxwm
  /\ Advance
  /\ UNCHANGED <<chipVars, hostVars, dmaVars, drvVars, events>>

(* spi_read_word leaves the FIFO and the variable alone when the FIFO is   *)
(* empty; a whole word then stays as it was, the last bytes become zero.   *)
SpiReadWord ==
  /\ At("rx")
  /\ IF rx # <<>>
     THEN rx' = Tail(rx) /\ buf' = Stored(Head(rx), Now.off, Bytewise)
     ELSE /\ rx' = rx
          /\ buf' = IF Bytewise = W THEN buf
                    ELSE Stored([i \in 1..W |-> {}], Now.off, Bytewise)
  /\ NextWord
  /\ UNCHANGED <<chipVars, cmds, tx, rxwm, dmaVars, call, reg, res, up, pre,
                 events>>

ReadReg ==
  /\ At("rxreg") /\ rx # <<>>
  /\ reg' = Head(rx)[1] /\ rx' = Tail(rx)
  /\ Advance
  /\ UNCHANGED <<chipVars, cmds, tx, rxwm, dmaVars, call, buf, res, up, pre,
                 events>>

PollRead_Snapshot ==
  /\ At("poll") /\ rx # <<>>
  /\ IF 0 \in Head(rx)[1] THEN UNCHANGED <<rx, script>>
     ELSE rx' = Tail(rx) /\ script' = Tail(script)
  /\ UNCHANGED <<chipVars, cmds, tx, rxwm, dmaVars, drvVars, events>>

(* flash_wait looks at the busy bit. *)
PollRead ==
  /\ At("poll") /\ rx # <<>>
  /\ rx' = Tail(rx)
  /\ script' = IF 0 \in Head(rx)[1] THEN Poll \o Tail(script) ELSE Tail(script)
  /\ UNCHANGED <<chipVars, cmds, tx, rxwm, dmaVars, drvVars, events>>

(* dma_send_toflash: validation refuses a transaction of no words, for     *)
(* good, since the structure keeps its critical flag, and one from a       *)
(* buffer that is not word aligned.                                        *)
DmaSendToFlash ==
  /\ At("dmatx")
  /\ LET aligned == call.fn = "erase_and_write" \/ (call.align + Now.off) % W = 0
         rest == Now.n % W
     IN  IF "send_toflash" \notin critical /\ aligned /\ Now.n >= W
         THEN /\ dma' = [dir |-> "tx", off |-> Now.off, left |-> Now.n \div W]
              /\ script' = << Step("dmawait", 0, 0) >>
                           \o Words("txdata", Now.off + Now.n - rest, rest)
                           \o Tail(script)
              /\ UNCHANGED critical
         ELSE /\ critical' = critical \cup IF Now.n < W THEN {"send_toflash"} ELSE {}
              /\ Advance /\ UNCHANGED dma
  /\ UNCHANGED <<chipVars, hostVars, drvVars, events>>

(* The reads ignore what validation, load and launch return; a misaligned  *)
(* buffer is realigned (DmaUnit).                                          *)
DmaLaunchRead ==
  /\ At("dmarx")
  /\ critical' = critical \cup IF Now.n = 0 THEN {Now.fn} ELSE {}
  /\ dma' = IF Now.fn \in critical' THEN dma
            ELSE [dir |-> "rx", off |-> 0, left |-> Now.n]
  /\ Advance
  /\ UNCHANGED <<chipVars, hostVars, drvVars, events>>

DmaWait ==
  /\ At("dmawait") /\ dma = NoDma
  /\ Advance
  /\ UNCHANGED <<chipVars, hostVars, dmaVars, drvVars, events>>

Merge_AtStart ==
  /\ At("memcpy")
  /\ buf' = [i \in DOMAIN buf |->
               IF i < Now.n THEN call.data[Now.off + i + 1] ELSE buf[i]]
  /\ Advance
  /\ UNCHANGED <<chipVars, hostVars, dmaVars, call, reg, res, up, pre, events>>

(* The new data go into the saved sector. *)
Merge ==
  /\ At("memcpy")
  /\ buf' = [i \in DOMAIN buf |->
               IF i \in Now.to..Now.to+Now.n-1
               THEN call.data[Now.off + i - Now.to + 1] ELSE buf[i]]
  /\ Advance
  /\ UNCHANGED <<chipVars, hostVars, dmaVars, call, reg, res, up, pre, events>>

(* The call returns.  After w25q128jw_power_down the application must call *)
(* w25q128jw_init again.                                                   *)
Finish(status) ==
  /\ res' = status
  /\ up' = CASE call.fn = "init" -> status = "OK"
             [] call.fn = "power_down" -> FALSE
             [] OTHER -> up
  /\ script' = <<>>
  /\ UNCHANGED <<chipVars, hostVars, dmaVars, call, buf, reg, pre, events>>

ReturnStatus ==
  \/ At("ret") /\ Finish(Now.status)
  \/ At("retqe") /\ Finish(IF 1 \in reg THEN "OK" ELSE "ERROR")

Proceed ==
  \/ SpiWriteWord \/ WriteData \/ WriteReg \/ SpiSetCommand
  \/ SpiWaitForReady \/ SpiSetRxWatermark \/ SpiWaitForRxWatermark
  \/ SpiReadWord \/ ReadReg \/ PollRead \/ DmaSendToFlash \/ Unfold
  \/ DmaLaunchRead \/ DmaWait \/ Merge \/ ReturnStatus

(***************************************************************************)
(* The application and the system on chip.                                 *)
(***************************************************************************)
Idle == script = <<>>
Request(fn, how, addr, n, data, align) ==
  [fn |-> fn, how |-> how, addr |-> addr, n |-> n, data |-> data, align |-> align]
InitCall == Request("init", "", 0, 0, <<>>, 0)

(* An asynchronous read is under way. *)
Awaited == call.fn = "async" /\ res = "OK"

Settled == Effect(job, mem)

Begin(r) ==
  /\ Idle /\ ~Awaited
  /\ call' = r /\ script' = Script(r) /\ res' = "none" /\ pre' = Settled
  /\ UNCHANGED <<chipVars, hostVars, dmaVars, buf, reg, up>>

CallInit == Begin(InitCall) /\ UNCHANGED events

Call(r) ==
  /\ up /\ events < MaxEvents
  /\ Begin(r)
  /\ events' = events + 1

(* w25q128jw_wait_quad_dma_async, or the application's own wait. *)
AwaitRead ==
  /\ Idle /\ Awaited
  /\ call' = [call EXCEPT !.fn = "read"] /\ res' = "none"
  /\ script' = w25q128jw_wait_quad_dma_async(call.n) \o Return("OK")
  /\ UNCHANGED <<chipVars, hostVars, dmaVars, buf, reg, up, pre, events>>

ZeroBuf == [i \in 0..Sector-1 |-> {}]

(* The system on chip is reset, the flash is not: chip select goes high,   *)
(* and the chip goes on with its program or erase.                         *)
SocReset ==
  /\ events < MaxEvents /\ events' = events + 1
  /\ cmds' = <<>> /\ tx' = <<>> /\ rx' = <<>> /\ rxwm' = 0
  /\ dma' = NoDma /\ critical' = {}
  /\ script' = <<>> /\ res' = "reset" /\ up' = FALSE
  /\ buf' = ZeroBuf /\ reg' = {}
  /\ IF frame = NoFrame THEN UNCHANGED chipVars ELSE Deselect(frame)
  /\ UNCHANGED <<call, pre>>

Init ==
  /\ mem \in Memories /\ sr2 \in {{}, {1}} /\ asleep \in BOOLEAN
  /\ wel = FALSE /\ rstEn = FALSE /\ job = NoJob /\ frame = NoFrame
  /\ refused = {}
  /\ cmds = <<>> /\ tx = <<>> /\ rx = <<>> /\ rxwm = 0
  /\ dma = NoDma /\ critical = {}
  /\ script = <<>> /\ call = InitCall /\ buf = ZeroBuf /\ reg = {}
  /\ res = "reset" /\ up = FALSE /\ pre = mem
  /\ events = 0

Next ==
  \/ CallInit \/ AwaitRead \/ \E r \in Requests : Call(r)
  \/ Proceed
  \/ Shift
  \/ DmaMove
  \/ ChipDone
  \/ SocReset

Spec == Init /\ [][Next]_vars

(* The core, the SPI host, the DMA and the chip all go on. *)
FairSpec ==
  Spec /\ WF_vars(Proceed) /\ WF_vars(Shift) /\ WF_vars(DmaMove) /\ WF_vars(ChipDone)

(***************************************************************************)
(* Properties.                                                             *)
(***************************************************************************)
TypeOK ==
  /\ mem \in [Cells -> Bytes] /\ sr2 \in Bytes /\ reg \in Bytes
  /\ wel \in BOOLEAN /\ asleep \in BOOLEAN /\ rstEn \in BOOLEAN /\ up \in BOOLEAN
  /\ job.addr \in Cells /\ frame.addr \in Cells
  /\ Len(tx) <= TxDepth /\ Len(rx) <= RxDepth /\ Len(cmds) <= CmdDepth + 1
  /\ \A i \in 1..Len(cmds) : cmds[i].len \in 1..Size
  /\ buf \in [0..Sector-1 -> Bytes]
  /\ dma.left \in 0..Sector
  /\ res \in {"none", "OK", "ERROR", "void", "reset"}

Span(r) == r.addr..r.addr+r.n-1
Block(r) == LET unit == CASE r.how = "4k" -> Sector [] r.how = "32k" -> Block32
                          [] r.how = "64k" -> Block64 [] r.how = "chip" -> Size
            IN  {a \in Cells : a \div unit = r.addr \div unit}

(* What the call promises to make of the memory. *)
Promised(r) ==
  [a \in Cells |->
     IF r.fn = "write" /\ a \in Span(r) THEN pre[a] \cap r.data[a - r.addr + 1]
     ELSE IF r.fn = "erase_and_write" /\ a \in Span(r) THEN r.data[a - r.addr + 1]
     ELSE IF r.fn = "erase" /\ a \in Block(r) THEN FF
     ELSE pre[a]]

(* A call that returns without error has done its work in the chip, to the *)
(* last page and sector, and the chip is no longer busy: writing programs  *)
(* exactly the bytes given, erase and write replaces them and copies the   *)
(* rest of their sectors back, erasing erases the block; reads, resets and *)
(* the initialisation leave the memory as it was.                          *)
CallsDoTheirWork ==
  Idle /\ res \in {"OK", "void"} => job = NoJob /\ mem = Promised(call)

(* A read that returns FLASH_OK has put the bytes asked for in the buffer: *)
(* by the core at either speed and any length, by the DMA when the length  *)
(* is whole words and the buffer aligned.  Of other reads by the DMA it is *)
(* false (flash_tail.cfg, MisalignedRequests of MCFlash).                  *)
ReadsAreRight ==
  Idle /\ res = "OK" /\ call.fn \in {"read", "setup"} =>
    \A i \in 0..call.n-1 : buf[i] = mem[call.addr + i]

(* The bytes a call may change. *)
Scope(r) ==
  CASE r.fn = "write" -> Span(r)
    [] r.fn = "erase_and_write" ->
         {a \in Cells : \E b \in Span(r) : a \div Sector = b \div Sector}
    [] r.fn = "erase" /\ r.addr \in Cells -> Block(r)
    [] OTHER -> {}

(* At no moment, when the call fails halfway or the system is reset in the *)
(* middle of it, has it changed a byte outside those it writes or the      *)
(* sectors it erases, counting what the chip is still busy with.           *)
NeighboursKept ==
  \A a \in Cells \ Scope(call) : Settled[a] = pre[a]

(* The chip never ignores a read, program, erase or reset: the driver has  *)
(* waited for the operation before it, set the write enable latch and the  *)
(* quad enable bit.  None is cut short by a reset of the chip.             *)
CommandsAccepted ==
  refused \cap (Reads \cup Programs \cup Erases \cup {"RESET", "data", "aborted"}) = {}

(* Between calls the FIFOs are empty once the SPI host has worked its      *)
(* commands off: nothing is left over to be taken for the next call's.     *)
NothingLeftOver ==
  Idle /\ ~Awaited /\ cmds = <<>> => tx = <<>> /\ rx = <<>>

(* Every call returns. *)
CallsReturn == ~Idle ~> Idle
=============================================================================
