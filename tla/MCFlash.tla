------------------------------ MODULE MCFlash ------------------------------
(***************************************************************************)
(* A small instance of Flash for TLC: words of two bytes, pages of four,   *)
(* four sectors of eight.                                                  *)
(***************************************************************************)
EXTENDS FlashInv

(* Bytes that tell neighbouring addresses apart. *)
Byte(i) == <<{}, {0}, {1}, {0}, {1}, {}, {1}>>[(i % 7) + 1]
Data(n) == [i \in 1..n |-> Byte(i)]

MCMemories == {[a \in Cells |-> IF a \div Sector = 2 THEN FF ELSE Byte(a + 3)]}

R(how, addr, n) == Request("read", how, addr, n, <<>>, 0)
Wr(how, addr, n, align) == Request("write", how, addr, n, Data(n), align)
EW(how, addr, n) == Request("erase_and_write", how, addr, n, Data(n), 0)
Do(fn, how, addr, n) == Request(fn, how, addr, n, <<>>, 0)

(* Reads that fill the RX FIFO exactly, that end in the middle of a word,  *)
(* that go out of range; writes that start and end in the middle of a      *)
(* page, from a misaligned buffer too where the core copies; erase and     *)
(* write over two sectors and up to the last one.                          *)
MCRequests ==
  {R("standard", 3, 5), R("quad", 8, 4), R("best", 1, 3), R("best", 2, 6),
   R("standard_dma", 4, 4), R("standard", 31, 1), R("quad_dma", 0, 0),
   Do("async", "standard", 2, 4), Do("async", "standard", 2, 3),
   Do("async", "quad", 2, 2), Do("setup", "standard", 6, 4),
   Do("setup", "quad", 0, 6),
   Wr("standard", 18, 5, 1), Wr("standard_dma", 18, 5, 0),
   Wr("quad", 17, 2, 0), Wr("best", 16, 7, 0),
   EW("standard", 6, 4), EW("best", 9, 3), EW("quad", 20, 6),
   EW("standard_dma", 8, 8), EW("quad_dma", 3, 1),
   Do("erase", "4k", 9, 0), Do("erase", "32k", 4, 0), Do("erase", "64k", 4, 0),
   Do("erase", "chip", 0, 0), Do("erase", "4k", 32, 0),
   Do("reset", "wait", 0, 0), Do("reset", "force", 0, 0),
   Do("power_down", "", 0, 0)}

(* All of them are what the theorems about Flash and ReadsAreRight ask     *)
(* for; the next ones are not.                                             *)
ASSUME \A r \in MCRequests : WholeTransfer(r) /\ AlignedRead(r)

(* Writes through the DMA whose last page gets less than a word. *)
ShortRequests == {Wr("best", 16, 1, 0)}

(* Reads through the DMA that end in the middle of a word. *)
TailRequests == {R("standard_dma", 4, 3), R("quad_dma", 4, 3)}

(* A read through the DMA into a buffer that is not aligned. *)
MisalignedRequests == {Request("read", "quad_dma", 4, 4, <<>>, 1)}
=============================================================================
