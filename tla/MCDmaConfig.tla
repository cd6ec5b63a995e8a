----------------------------- MODULE MCDmaConfig -----------------------------
(***************************************************************************)
(* Small instances of DmaConfig for TLC.                                   *)
(***************************************************************************)
EXTENDS DmaConfig

Tgt(p, i1, i2, ty, tr, e) ==
  [ptr |-> p, inc1 |-> i1, inc2 |-> i2, type |-> ty, trig |-> tr, env |-> e]
Mem(p, ty) == Tgt(p, 1, 0, ty, "MEMORY", <<>>)
Peri == Tgt(64, 0, 0, 0, "SPI_RX", <<>>)
X(s, d, n, dm, m) ==
  [src |-> s, dst |-> d, size1 |-> n, size2 |-> 0, dim |-> dm, mode |-> m,
   win |-> 0, pad |-> NoPad, fifo |-> FALSE]
Pad(a, b, c, d) == [top |-> a, bottom |-> b, left |-> c, right |-> d]
Env(p, i1, ty, a, b) == Tgt(p, i1, 0, ty, "MEMORY", <<a, b>>)
TwoD(p, i2) == Tgt(p, 1, i2, 1, "MEMORY", <<>>)

(* One-dimensional copies of every data type, aligned and misaligned by    *)
(* one and by two bytes; inside an environment up to its last byte, just   *)
(* behind it, and before it with a gap between the units; without anything *)
(* to copy; to and from a peripheral; circular; in address mode; with      *)
(* windows larger and smaller than the transaction; two dimensions; and    *)
(* padding in one and in two.                                              *)
MCConfigs ==
  {X(Mem(0, 0), Env(16, 1, 0, 16, e), 2, "1D", "SINGLE") : e \in {22, 23}}
  \cup {X(Mem(p, 0), Env(q, 1, 0, 16, 22), 2, "1D", "SINGLE") :
          p \in {2}, q \in {16, 17}}
  \cup {X(Mem(0, 1), Env(17, 1, 1, 16, 18), 2, "1D", "SINGLE"),
        X(Mem(0, 2), Mem(16, 2), 0, "1D", "SINGLE"),
        X(Mem(0, 2), Env(16, 2, 2, 18, 20), 3, "1D", "SINGLE"),
        X(Mem(1, 0), Tgt(16, 2, 0, 0, "MEMORY", <<>>), 2, "1D", "SINGLE"),
        X(Peri, Mem(16, 0), 2, "1D", "CIRCULAR"),
        X(Mem(0, 0), Mem(16, 0), 2, "1D", "CIRCULAR"),
        X(Mem(0, 0), Peri, 2, "1D", "ADDRESS"),
        X(TwoD(0, 1), TwoD(16, 0), 2, "2D", "SINGLE"),
        [X(Mem(0, 0), Mem(16, 0), 2, "1D", "SINGLE") EXCEPT !.win = 3],
        [X(Mem(0, 2), Mem(16, 2), 2, "1D", "SINGLE") EXCEPT !.win = 1],
        [X(Mem(0, 2), Mem(16, 2), 2, "1D", "SINGLE") EXCEPT !.pad = Pad(0, 0, 1, 2)],
        [X(TwoD(0, 3), TwoD(16, 2), 2, "2D", "SINGLE") EXCEPT !.size2 = 2],
        [X(TwoD(0, 3), TwoD(16, 1), 2, "2D", "SINGLE") EXCEPT !.size2 = 2,
                                                    !.pad = Pad(1, 0, 1, 1)]}

MCCopies == {[src |-> 0, dst |-> 16, size |-> 3, type |-> 0]}

(* A padded transaction, and a plain one. *)
PadConfigs ==
  {[X(Mem(0, 2), Mem(16, 2), 2, "1D", "SINGLE") EXCEPT !.pad = Pad(0, 0, 1, 2)],
   X(Mem(0, 2), Mem(16, 2), 2, "1D", "SINGLE")}

(* The instances are within the conditions of the proofs. *)
ASSUME \A x \in MCConfigs \cup PadConfigs : Fits(x) /\ Realignable(x)
=============================================================================
