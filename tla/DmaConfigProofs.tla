-------------------------- MODULE DmaConfigProofs --------------------------
(***************************************************************************)
(* Proofs about DmaConfig, for every set of transactions and of copies:    *)
(*   - an accepted structure is accepted again;                            *)
(*   - a started channel writes what was asked for, whatever earlier       *)
(*     transactions left in its registers;                                 *)
(*   - it does not write behind its destination's environment.             *)
(*                                                                         *)
(* The invariant follows a transaction from the structure that was         *)
(* validated (Accepted) through the registers that dma_load_transaction    *)
(* writes (LoadedFor) to the channel that dma_launch starts (LaunchedFor). *)
(***************************************************************************)
EXTENDS DmaConfig, TLAPS

Flags == {"SRC", "DST", "MISALIGN", "DISCONTINUOUS", "OUTBOUNDS",
          "INCOMPATIBLE", "WINDOW_SIZE", "CRITICAL"}
Types == [src : 0..2, dst : 0..4, inc_b : 0..2]
RegTargets == [ptr : Nat, inc1 : -32..31, inc2 : Int, trig : Triggers, type : 0..3]
Sizes == {n \in Nat : n < 65536}
Regs == [src : RegTargets, dst : RegTargets, pad : Paddings, dim : {"1D", "2D"},
         mode : Modes, win : Nat, fifo : BOOLEAN, size1 : Sizes, size2 : Sizes]

ConfigTypes ==
  /\ flags \subseteq Flags /\ types \in Types /\ reg \in Regs
  /\ t \in Transactions /\ asked \in Configs
  /\ loaded \in BOOLEAN /\ running \in BOOLEAN /\ checked \in BOOLEAN /\ same \in BOOLEAN

(* The structure holds what the application put there, or what             *)
(* dma_load_transaction has made of one-dimensional padding.               *)
AsPadded(x, inc) == [x EXCEPT !.dim = "2D", !.size2 = 1, !.src.inc2 = inc]
Structure ==
  \/ t = asked
  \/ /\ Padded1D(asked) /\ ~Contradictory(asked)
     /\ \E inc \in Nat : t = AsPadded(asked, inc)

(* The outcome of the integrity checks is that for the asked contents. *)
Accepted ==
  checked /\ "CRITICAL" \notin flags =>
    /\ ~Contradictory(asked)
    /\ \E realign \in BOOLEAN :
         Integrity(asked, realign) = [flags |-> flags, types |-> types]

(* The registers r are those of the accepted contents x, except the sizes. *)
HoldsTypes(r, x, ty) ==
  /\ r.dst.type = ty.dst % 4
  /\ x.mode # "ADDRESS" =>
       /\ r.dst.ptr = x.dst.ptr
       /\ r.dst.inc1 = Signed(Increment(x.dst, x.dst.inc1, ty), 6)
       /\ x.dim = "2D" => r.dst.inc2 = Signed(Increment(x.dst, x.dst.inc2, ty), 23)
LoadedFor(r, x) ==
  /\ ~Contradictory(x)
  /\ r.src.trig = x.src.trig /\ r.dst.trig = x.dst.trig /\ r.mode = x.mode
  /\ r.pad = x.pad
  /\ r.dim = IF Padded1D(x) THEN "2D" ELSE x.dim
  /\ \E realign \in BOOLEAN :
       /\ "CRITICAL" \notin Integrity(x, realign).flags
       /\ HoldsTypes(r, x, Integrity(x, realign).types)
LaunchedFor(r, x) ==
  /\ LoadedFor(r, x)
  /\ r.size1 = x.size1 % 65536
  /\ r.dim = "2D" => r.size2 = IF Padded1D(x) THEN 1 ELSE x.size2 % 65536
CopiedFor(r, c) ==
  /\ r.pad = NoPad /\ r.dim = "1D" /\ r.src.trig = "MEMORY" /\ r.dst.trig = "MEMORY"
  /\ r.dst.ptr = c.dst /\ r.dst.inc1 = Size(c.type) /\ r.dst.type = c.type
  /\ r.size1 = c.size % 65536

Started ==
  /\ same => LoadedFor(reg, asked) /\ ~Padded1D(t)
  /\ running /\ doing.kind = "trans" => doing.what \in Configs /\ LaunchedFor(reg, doing.what)
  /\ running /\ doing.kind = "copy" => doing.what \in Copies /\ CopiedFor(reg, doing.what)

NoFifo == (\A x \in Configs : ~x.fifo) => ~reg.fifo

ConfigInv ==
  /\ ConfigTypes /\ Structure /\ Accepted /\ NoFifo
  /\ ReInit => Started

(***************************************************************************)
(* Types.                                                                  *)
(***************************************************************************)

(* The widths of the register fields. *)
LEMMA Powers == 2 ^ 6 = 64 /\ 2 ^ 5 = 32 /\ 2 ^ 23 = 8388608 /\ 2 ^ 22 = 4194304
BY SMT

(* The size of a data type. *)
LEMMA SizeType ==
  /\ \A ty \in 0..4 : Size(ty) \in 0..4
  /\ \A ty \in 1..4 : Size(ty) \in 0..2
  /\ \A ty \in 0..2 : Size(ty) \in 1..4
BY DEF Size

(* A field holds a value that fits, whatever is written to it is in range. *)
LEMMA SignedType ==
  ASSUME NEW x \in Int
  PROVE  /\ Signed(x, 6) \in -32..31 /\ Signed(x, 23) \in Int
         /\ 0 <= x /\ x < 32 => Signed(x, 6) = x
         /\ 0 <= x /\ x < 2 ^ 22 => Signed(x, 23) = x
<1>1. 6 - 1 = 5 /\ 23 - 1 = 22
  BY SMT
<1>2. Signed(x, 6) \in -32..31 /\ (0 <= x /\ x < 32 => Signed(x, 6) = x)
  <2>1. x % 64 \in 0..63
    BY SMT
  <2>2. 0 <= x /\ x < 32 => x % 64 = x
    BY SMT
  <2>3. Signed(x, 6) = IF x % 64 < 32 THEN x % 64 ELSE (x % 64) - 64
    BY <1>1, Powers, SMT DEF Signed
  <2> QED BY <2>1, <2>2, <2>3, SMT
<1>3. Signed(x, 23) \in Int /\ (0 <= x /\ x < 2 ^ 22 => Signed(x, 23) = x)
  <2>1. x % 8388608 \in Int
    BY SMT
  <2>2. 0 <= x /\ x < 4194304 => x % 8388608 = x
    BY SMT
  <2>3. Signed(x, 23) =
          IF x % 8388608 < 4194304 THEN x % 8388608 ELSE (x % 8388608) - 8388608
    BY <1>1, Powers, SMT DEF Signed
  <2> QED BY <2>1, <2>2, <2>3, Powers, SMT
<1> QED BY <1>2, <1>3

(* A misalignment costs at most two sizes. *)
LEMMA MisType ==
  ASSUME NEW x \in Transactions
  PROVE  /\ Misalignment(x.src) \in 0..2 /\ Misalignment(x.dst) \in 0..2
         /\ Larger(Misalignment(x.src), Misalignment(x.dst)) \in 0..2
<1>1. Misalignment(x.src) \in 0..2 /\ Misalignment(x.dst) \in 0..2
  BY DEF Misalignment
<1> QED BY <1>1 DEF Larger

(* The checks of the sizes report known flags only. *)
LEMMA SizeErrorsType ==
  ASSUME NEW x, NEW ty PROVE SizeErrors(x, ty) \subseteq Flags
BY DEF SizeErrors, Flags

(* The integrity checks: their flags and the data types they choose. *)
LEMMA IntegrityType ==
  ASSUME NEW x \in Transactions, NEW realign \in BOOLEAN
  PROVE  /\ Integrity(x, realign).flags \subseteq Flags
         /\ Integrity(x, realign).types \in Types
         /\ Integrity(x, realign) = [flags |-> Integrity(x, realign).flags,
                                     types |-> Integrity(x, realign).types]
<1> DEFINE mis == Larger(Misalignment(x.src), Misalignment(x.dst))
           found == {f \in {"SRC", "DST", "MISALIGN"} :
                       \/ f = "SRC" /\ Misalignment(x.src) # 0
                       \/ f = "DST" /\ Misalignment(x.dst) # 0
                       \/ f = "MISALIGN" /\ mis # 0}
           type == x.dst.type + mis
           new == IF mis = 0 THEN Defaults(x)
                  ELSE [src |-> x.src.type, dst |-> type, inc_b |-> Size(type)]
<1>1. mis \in 0..2 /\ x.dst.type \in 0..2 /\ x.src.type \in 0..2
  BY MisType DEF Transactions, Targets
<1>2. Defaults(x) \in Types
  BY <1>1 DEF Defaults, Types
<1>3. new \in Types
  <2>1. CASE mis = 0
    BY <1>2, <2>1
  <2>2. CASE mis # 0
    <3>1. type \in 1..4 /\ Size(type) \in 0..2
      BY <1>1, <2>2, SizeType
    <3> HIDE DEF type, mis
    <3> QED BY <1>1, <2>2, <3>1 DEF Types
  <2> QED BY <2>1, <2>2
<1>4. found \subseteq Flags
  BY DEF Flags
<1>5. Integrity(x, realign) =
        CASE mis # 0 /\ ~realign -> [flags |-> found \cup {"CRITICAL"}, types |-> Defaults(x)]
          [] mis # 0 /\ realign /\ (x.src.inc1 > 1 \/ x.dst.inc1 > 1) ->
               [flags |-> found \cup {"DISCONTINUOUS", "CRITICAL"}, types |-> Defaults(x)]
          [] OTHER -> [flags |-> found \cup SizeErrors(x, new.dst), types |-> new]
  BY DEF Integrity
<1> HIDE DEF mis, found, new, type
<1>6. \E f, ty : /\ Integrity(x, realign) = [flags |-> f, types |-> ty]
                 /\ f \subseteq Flags /\ ty \in Types
  <2>1. CASE mis # 0 /\ ~realign
    BY <1>2, <1>4, <1>5, <2>1 DEF Flags
  <2>2. CASE mis # 0 /\ realign /\ (x.src.inc1 > 1 \/ x.dst.inc1 > 1)
    BY <1>2, <1>4, <1>5, <2>2 DEF Flags
  <2>3. CASE ~(mis # 0 /\ ~realign)
             /\ ~(mis # 0 /\ realign /\ (x.src.inc1 > 1 \/ x.dst.inc1 > 1))
    <3>1. Integrity(x, realign) = [flags |-> found \cup SizeErrors(x, new.dst), types |-> new]
      BY <1>5, <2>3
    <3> QED BY <1>3, <1>4, <3>1, SizeErrorsType
  <2> QED BY <2>1, <2>2, <2>3
<1> QED BY <1>6

(* What validation leaves in the structure. *)
LEMMA ValidatedType ==
  ASSUME NEW x \in Transactions, NEW f \in SUBSET Flags, NEW ty \in Types,
         NEW realign \in BOOLEAN, NEW check \in BOOLEAN
  PROVE  /\ Validated(x, f, ty, realign, check).flags \subseteq Flags
         /\ Validated(x, f, ty, realign, check).types \in Types
<1>1. SideErrors(x) \subseteq Flags
  BY DEF SideErrors, TargetErrors, Flags
<1>2. Defaults(x) \in Types
  BY DEF Defaults, Types, Transactions, Targets
<1>3. f \cup SideErrors(x) \cup {"INCOMPATIBLE", "CRITICAL"} \subseteq Flags
  BY <1>1 DEF Flags
<1>4. CASE "CRITICAL" \in f
  BY <1>1, <1>4 DEF Validated
<1>5. CASE "CRITICAL" \notin f /\ check /\ Contradictory(x)
  BY <1>3, <1>5 DEF Validated
<1>6. CASE "CRITICAL" \notin f /\ check /\ ~Contradictory(x)
  BY <1>6, IntegrityType DEF Validated
<1>7. CASE "CRITICAL" \notin f /\ ~check
  BY <1>2, <1>7 DEF Validated
<1> QED BY <1>4, <1>5, <1>6, <1>7

(* An increment in bytes. *)
LEMMA IncrementType ==
  ASSUME NEW g \in Targets, NEW inc \in Nat, NEW ty \in Types
  PROVE  Increment(g, inc, ty) \in Int
<1>1. g.type \in 0..2 /\ Size(g.type) \in Nat /\ ty.inc_b \in Nat
  BY SizeType DEF Targets, Types
<1>2. inc * Size(g.type) \in Int
  BY <1>1
<1> QED BY <1>1, <1>2 DEF Increment

(* The registers that dma_load_transaction writes. *)
LEMMA TargetRegsType ==
  ASSUME NEW old \in RegTargets, NEW g \in Targets, NEW x, NEW ty \in Types,
         NEW type \in 0..4, NEW skip \in BOOLEAN
  PROVE  TargetRegs(old, g, x, ty, type, skip) \in RegTargets
<1>1. /\ Signed(Increment(g, g.inc1, ty), 6) \in -32..31
      /\ Signed(Increment(g, g.inc2, ty), 23) \in Int
  <2>1. g.inc1 \in Nat /\ g.inc2 \in Nat
    <3>1. g.inc1 \in 0..255 /\ g.inc2 \in Nat
      BY DEF Targets
    <3> QED BY <3>1, SMT
  <2>2. Increment(g, g.inc1, ty) \in Int /\ Increment(g, g.inc2, ty) \in Int
    BY <2>1, IncrementType
  <2> QED BY <2>2, SignedType
<1>2. g.ptr \in Nat /\ g.trig \in Triggers /\ type % 4 \in 0..3
  BY DEF Targets
<1>3. old.ptr \in Nat /\ old.inc1 \in -32..31 /\ old.inc2 \in Int
  BY DEF RegTargets
<1> QED BY <1>1, <1>2, <1>3 DEF TargetRegs, RegTargets

(* The structure of a transaction with one-dimensional padding, rewritten. *)
LEMMA PaddedIs ==
  ASSUME NEW x \in Transactions, NEW inc \in Nat
  PROVE  /\ AsPadded(x, inc) \in Transactions
         /\ AsPadded(x, inc).dst = x.dst /\ AsPadded(x, inc).src.trig = x.src.trig
         /\ AsPadded(x, inc).mode = x.mode /\ AsPadded(x, inc).pad = x.pad
         /\ AsPadded(x, inc).fifo = x.fifo /\ AsPadded(x, inc).size1 = x.size1
         /\ AsPadded(x, inc).dim = "2D" /\ AsPadded(x, inc).size2 = 1
         /\ ~Padded1D(AsPadded(x, inc))
<1> DEFINE s == [x.src EXCEPT !.inc2 = inc]
           y == AsPadded(x, inc)
<1>1. x.src \in Targets
  BY DEF Transactions
<1>2. s \in Targets /\ s.trig = x.src.trig
  BY <1>1 DEF Targets
<1>3. y = [x EXCEPT !.dim = "2D", !.size2 = 1, !.src = s]
  BY DEF AsPadded
<1> HIDE DEF s, y
<1>4. /\ y.dst = x.dst /\ y.src = s /\ y.mode = x.mode /\ y.pad = x.pad
      /\ y.fifo = x.fifo /\ y.size1 = x.size1 /\ y.dim = "2D" /\ y.size2 = 1
  BY <1>3 DEF Transactions
<1>5. y \in Transactions
  BY <1>2, <1>3 DEF Transactions
<1>6. ~Padded1D(y)
  BY <1>4 DEF Padded1D
<1> QED BY <1>2, <1>4, <1>5, <1>6 DEF y

(* dma_load_transaction turns padding in one dimension into two. *)
LEMMA PadTo2DIs ==
  ASSUME NEW x \in Transactions, NEW ty \in Types
  PROVE  /\ Size(ty.dst) \in Nat
         /\ Padded1D(x) => PadTo2D(x, ty) = AsPadded(x, Size(ty.dst))
         /\ ~Padded1D(x) => PadTo2D(x, ty) = x
         /\ PadTo2D(x, ty) \in Transactions
<1>1. Size(ty.dst) \in Nat
  <2>1. ty.dst \in 0..4
    BY DEF Types
  <2>2. Size(ty.dst) \in 0..4
    BY <2>1, SizeType
  <2> QED BY <2>2
<1>2. /\ Padded1D(x) => PadTo2D(x, ty) = AsPadded(x, Size(ty.dst))
      /\ ~Padded1D(x) => PadTo2D(x, ty) = x
  BY DEF PadTo2D, AsPadded
<1> QED BY <1>1, <1>2, PaddedIs

(* What dma_load_transaction writes to the registers. *)
LEMMA LoadRegsIs ==
  ASSUME NEW r \in Regs, NEW x \in Transactions, NEW ty \in Types
  PROVE  /\ LoadRegs(r, x, ty) \in Regs
         /\ LoadRegs(r, x, ty).src.trig = x.src.trig
         /\ LoadRegs(r, x, ty).dst.trig = x.dst.trig
         /\ LoadRegs(r, x, ty).mode = x.mode
         /\ LoadRegs(r, x, ty).fifo = (r.fifo \/ x.fifo)
         /\ LoadRegs(r, x, ty).pad = PadRegs(r, x)
         /\ LoadRegs(r, x, ty).dim = IF Padded1D(x) THEN "2D" ELSE x.dim
         /\ HoldsTypes(LoadRegs(r, x, ty), x, ty)
<1> DEFINE y == PadTo2D(x, ty)
           s == TargetRegs(r.src, y.src, y, ty, ty.src, FALSE)
           d == TargetRegs(r.dst, y.dst, y, ty, ty.dst, y.mode = "ADDRESS")
           p == PadRegs(r, x)
           w == IF y.win # 0 THEN y.win ELSE y.size1
           q == r.fifo \/ y.fifo
           z == LoadRegs(r, x, ty)
<1>1. /\ y \in Transactions /\ y.dst = x.dst /\ y.src.trig = x.src.trig /\ y.mode = x.mode
      /\ y.fifo = x.fifo /\ y.dim = IF Padded1D(x) THEN "2D" ELSE x.dim
  BY PadTo2DIs, PaddedIs
<1>2. /\ y.src \in Targets /\ y.dst \in Targets /\ y.mode \in Modes /\ y.dim \in {"1D", "2D"}
      /\ y.win \in Nat /\ y.size1 \in Nat /\ y.fifo \in BOOLEAN
  <2> HIDE DEF y
  <2> QED BY <1>1 DEF Transactions
<1>3. s \in RegTargets /\ d \in RegTargets
  <2>1. r.src \in RegTargets /\ r.dst \in RegTargets
    BY DEF Regs
  <2>2. ty.src \in 0..2 /\ ty.dst \in 0..4
    BY DEF Types
  <2>3. ty.src \in 0..4
    BY <2>2
  <2> HIDE DEF y
  <2> QED BY <1>2, <2>1, <2>2, <2>3, TargetRegsType
<1>4. p \in Paddings
  <2>1. r.pad \in Paddings /\ x.pad \in Paddings
    BY DEF Regs, Transactions
  <2>2. x.pad.left \in Nat /\ x.pad.right \in Nat
    BY <2>1 DEF Paddings
  <2>3. [r.pad EXCEPT !.left = x.pad.left, !.right = x.pad.right] \in Paddings
    BY <2>1, <2>2 DEF Paddings
  <2> QED BY <2>1, <2>3 DEF PadRegs
<1>5. z = [r EXCEPT !.src = s, !.dst = d, !.pad = p, !.dim = y.dim, !.mode = y.mode,
                    !.win = w, !.fifo = q]
  BY DEF LoadRegs
<1>6. /\ s.trig = y.src.trig /\ d.trig = y.dst.trig /\ d.type = ty.dst % 4
      /\ y.mode # "ADDRESS" =>
           /\ d.ptr = y.dst.ptr
           /\ d.inc1 = Signed(Increment(y.dst, y.dst.inc1, ty), 6)
           /\ y.dim # "1D" => d.inc2 = Signed(Increment(y.dst, y.dst.inc2, ty), 23)
  <2> HIDE DEF y
  <2> QED BY DEF TargetRegs
<1>7. w \in Nat /\ q \in BOOLEAN
  <2> HIDE DEF y
  <2>1. w \in Nat
    BY <1>2
  <2>2. q \in BOOLEAN
    BY Zenon
  <2> QED BY <2>1, <2>2
<1> HIDE DEF y, s, d, p, w, q, z
<1>8. /\ z \in Regs /\ z.src = s /\ z.dst = d /\ z.pad = p /\ z.dim = y.dim /\ z.mode = y.mode
      /\ z.fifo = q
  BY <1>2, <1>3, <1>4, <1>5, <1>7 DEF Regs
<1>9. HoldsTypes(z, x, ty)
  BY <1>1, <1>6, <1>8 DEF HoldsTypes
<1> QED BY <1>1, <1>6, <1>8, <1>9 DEF z, p, q

(* What is left of a size in its register. *)
LEMMA SizesMod == ASSUME NEW n \in Nat PROVE n % 65536 \in Sizes
<1>1. n % 65536 \in Int /\ 0 <= n % 65536 /\ n % 65536 < 65536
  BY SMT
<1>2. \A m \in Int : 0 <= m /\ m < 65536 => m \in Sizes
  BY SMT DEF Sizes
<1> QED BY <1>1, <1>2, SMT

(* What dma_copy writes to the registers. *)
LEMMA CopyRegsIs ==
  ASSUME NEW r \in Regs, NEW c \in Copies
  PROVE  /\ CopyRegs(r, c) \in Regs /\ CopyRegs(r, c).fifo = r.fifo
         /\ r.pad = NoPad /\ r.dim = "1D" /\ r.src.trig = "MEMORY" /\ r.dst.trig = "MEMORY"
              => CopiedFor(CopyRegs(r, c), c)
<1> DEFINE s == [r.src EXCEPT !.ptr = c.src, !.inc1 = Size(c.type), !.type = c.type]
           d == [r.dst EXCEPT !.ptr = c.dst, !.inc1 = Size(c.type), !.type = c.type]
           n == c.size % 65536
           z == CopyRegs(r, c)
<1>1. c.src \in Nat /\ c.dst \in Nat /\ c.size \in Nat /\ c.type \in 0..2
  BY ConfigAssumption
<1>2. Size(c.type) \in -32..31 /\ c.type \in 0..3 /\ n \in Sizes
  <2>1. Size(c.type) \in 1..4
    BY <1>1, SizeType
  <2>2. n \in Sizes
    BY <1>1, SizesMod
  <2> QED BY <1>1, <2>1, <2>2, SMT
<1>3. r.src \in RegTargets /\ r.dst \in RegTargets
  BY DEF Regs
<1>4. /\ s \in RegTargets /\ s.trig = r.src.trig
      /\ d \in RegTargets /\ d.trig = r.dst.trig
      /\ d.ptr = c.dst /\ d.inc1 = Size(c.type) /\ d.type = c.type
  <2> HIDE DEF n, z
  <2> QED BY <1>1, <1>2, <1>3 DEF RegTargets
<1>5. z = [r EXCEPT !.src = s, !.dst = d, !.mode = "SINGLE", !.size1 = n]
  BY SMT DEF CopyRegs
<1>6. z.size1 = c.size % 65536 /\ n = c.size % 65536
  BY <1>5, SMT DEF Regs
<1> HIDE DEF s, d, n, z
<1>7. "SINGLE" \in Modes
  BY DEF Modes
<1>8. /\ z \in Regs /\ z.fifo = r.fifo /\ z.pad = r.pad /\ z.dim = r.dim
      /\ z.src = s /\ z.dst = d
  BY <1>2, <1>4, <1>5, <1>7 DEF Regs
<1>9. r.pad = NoPad /\ r.dim = "1D" /\ r.src.trig = "MEMORY" /\ r.dst.trig = "MEMORY"
        => CopiedFor(z, c)
  BY <1>4, <1>6, <1>8, SMT DEF CopiedFor
<1> QED BY <1>8, <1>9 DEF z

(* What dma_launch writes to the registers. *)
LEMMA LaunchRegsIs ==
  ASSUME NEW r \in Regs, NEW x \in Transactions
  PROVE  /\ LaunchRegs(r, x) \in Regs
         /\ LaunchRegs(r, x).fifo = r.fifo /\ LaunchRegs(r, x).pad = r.pad
         /\ LaunchRegs(r, x).dim = r.dim /\ LaunchRegs(r, x).mode = r.mode
         /\ LaunchRegs(r, x).src = r.src /\ LaunchRegs(r, x).dst = r.dst
         /\ LaunchRegs(r, x).size1 = x.size1 % 65536
         /\ x.dim = "2D" => LaunchRegs(r, x).size2 = x.size2 % 65536
<1> DEFINE m == IF x.dim = "2D" THEN x.size2 % 65536 ELSE r.size2
           n == x.size1 % 65536
           z == LaunchRegs(r, x)
<1>1. x.size1 \in Nat /\ x.size2 \in Nat
  BY DEF Transactions
<1>2. r.size2 \in Sizes
  BY DEF Regs
<1>3. m \in Sizes /\ n \in Sizes
  <2>1. n \in Sizes /\ x.size2 % 65536 \in Sizes
    BY <1>1, SizesMod
  <2> QED BY <1>2, <2>1, SMT
<1>4. z = [r EXCEPT !.size2 = m, !.size1 = n]
  BY SMT DEF LaunchRegs
<1>5. n = x.size1 % 65536 /\ (x.dim = "2D" => m = x.size2 % 65536)
  BY SMT
<1> HIDE DEF m, n, z
<1>6. /\ z \in Regs /\ z.fifo = r.fifo /\ z.pad = r.pad /\ z.dim = r.dim /\ z.mode = r.mode
      /\ z.src = r.src /\ z.dst = r.dst /\ z.size1 = n /\ z.size2 = m
  BY <1>3, <1>4 DEF Regs
<1> QED BY <1>5, <1>6, SMT DEF z

(***************************************************************************)
(* The invariant holds initially and every step preserves it.              *)
(***************************************************************************)
(* The registers after dma_init. *)
LEMMA ZeroRegsIs == ZeroRegs \in Regs /\ ~ZeroRegs.fifo
<1>1. ZeroTarget \in RegTargets /\ NoPad \in Paddings
  <2>1. 0 \in -32..31 /\ 0 \in 0..3
    OBVIOUS
  <2>2. "MEMORY" \in Triggers
    BY DEF Triggers
  <2> QED BY <2>1, <2>2 DEF ZeroTarget, RegTargets, NoPad, Paddings
<1>2. 0 \in Sizes /\ "SINGLE" \in Modes
  BY SMT DEF Sizes, Modes
<1> QED BY <1>1, <1>2 DEF ZeroRegs, Regs

(* The data types of a fresh structure. *)
LEMMA ZeroTypes == [src |-> 0, dst |-> 0, inc_b |-> 0] \in Types
BY DEF Types

(* The invariant holds initially. *)
LEMMA InitConfig == Init => ConfigInv
<1> SUFFICES ASSUME Init PROVE ConfigInv
  OBVIOUS
<1>1. ConfigTypes
  BY ZeroRegsIs, ZeroTypes, ConfigAssumption, Zenon DEF Init, ConfigTypes
<1>2. Structure /\ Accepted /\ Started
  BY DEF Init, Structure, Accepted, Started
<1>3. NoFifo
  BY ZeroRegsIs DEF Init, NoFifo
<1> QED BY <1>1, <1>2, <1>3 DEF ConfigInv

(* Filling in the structure. *)
LEMMA SetupInv == ASSUME ConfigInv, NEW x \in Configs, Setup(x) \/ Refill(x) PROVE ConfigInv'
<1>1. x \in Transactions
  BY ConfigAssumption
<1>2. ConfigTypes'
  BY <1>1, ZeroTypes, Zenon DEF ConfigInv, ConfigTypes, Setup, Refill
<1>3. Structure' /\ Accepted' /\ NoFifo'
  BY DEF ConfigInv, Setup, Refill, Structure, Accepted, NoFifo
<1>4. Started'
  BY DEF Setup, Refill, Started
<1> QED BY <1>2, <1>3, <1>4 DEF ConfigInv

(* A structure that dma_load_transaction has rewritten is contradictory:   *)
(* the destination has no second increment.                                *)
LEMMA PaddedIsRefused ==
  ASSUME NEW x \in Transactions, NEW inc \in Nat, Padded1D(x), ~Contradictory(x)
  PROVE  Contradictory(AsPadded(x, inc))
<1>1. x.dim = "1D" /\ x.dst.inc2 = 0
  BY DEF Padded1D, Contradictory
<1> QED BY <1>1, PaddedIs DEF Contradictory

(* dma_validate_transaction: an accepted structure holds the asked contents. *)
LEMMA ValidateInv ==
  ASSUME ConfigInv, NEW realign \in BOOLEAN, NEW check \in BOOLEAN, Validate(realign, check)
  PROVE  ConfigInv'
<1> DEFINE v == Validated(t, flags, types, realign, check)
<1>1. v.flags \subseteq Flags /\ v.types \in Types
  BY ValidatedType DEF ConfigInv, ConfigTypes
<1>2. ConfigTypes'
  BY <1>1 DEF ConfigInv, ConfigTypes, Validate
<1>3. Structure' /\ NoFifo' /\ (ReInit => Started')
  BY DEF ConfigInv, Validate, Structure, NoFifo, Started
<1>4. Accepted'
  <2> SUFFICES ASSUME check, "CRITICAL" \notin v.flags
               PROVE  /\ ~Contradictory(asked)
                      /\ Integrity(asked, realign) = [flags |-> v.flags, types |-> v.types]
    BY DEF Accepted, Validate
  <2>1. "CRITICAL" \notin flags /\ ~Contradictory(t) /\ v = Integrity(t, realign)
    BY DEF Validated
  <2> HIDE DEF v
  <2>2. asked \in Transactions
    BY ConfigAssumption DEF ConfigInv, ConfigTypes
  <2>3. t = asked
    BY <2>1, <2>2, PaddedIsRefused DEF ConfigInv, Structure
  <2>4. Integrity(asked, realign) = [flags |-> Integrity(asked, realign).flags,
                                     types |-> Integrity(asked, realign).types]
    BY <2>2, IntegrityType
  <2> QED BY <2>1, <2>3, <2>4
<1> QED BY <1>2, <1>3, <1>4 DEF ConfigInv

(* Two paddings with the same top and bottom. *)
LEMMA PadsEqual ==
  ASSUME NEW a \in Paddings, NEW b \in Paddings, a.top = b.top, a.bottom = b.bottom
  PROVE  [a EXCEPT !.left = b.left, !.right = b.right] = b
<1> DEFINE c == [a EXCEPT !.left = b.left, !.right = b.right]
<1>1. c = [top |-> a.top, bottom |-> a.bottom, left |-> b.left, right |-> b.right]
  BY DEF Paddings
<1>2. b = [top |-> b.top, bottom |-> b.bottom, left |-> b.left, right |-> b.right]
  BY DEF Paddings
<1> HIDE DEF c
<1>3. c = b
  BY <1>1, <1>2
<1> QED BY <1>3 DEF c

(* dma_load_transaction: in an application that calls dma_init after       *)
(* padding, the registers are those of the accepted transaction.           *)
LEMMA LoadInv == ASSUME ConfigInv, Load PROVE ConfigInv'
<1>1. /\ asked \in Transactions /\ t \in Transactions /\ types \in Types /\ reg \in Regs
  BY ConfigAssumption DEF ConfigInv, ConfigTypes
<1>2. CASE "CRITICAL" \in flags
  <2>1. ConfigTypes'
    BY <1>2, Zenon DEF ConfigInv, ConfigTypes, Load
  <2>2. Structure' /\ Accepted' /\ NoFifo' /\ (ReInit => Started')
    BY <1>2 DEF ConfigInv, Load, Structure, Accepted, NoFifo, Started
  <2> QED BY <2>1, <2>2 DEF ConfigInv
<1>3. CASE "CRITICAL" \notin flags /\ running
  <2>1. ConfigTypes'
    BY <1>3, Zenon DEF ConfigInv, ConfigTypes, Load
  <2>2. Structure' /\ Accepted' /\ NoFifo' /\ (ReInit => Started')
    BY <1>3 DEF ConfigInv, Load, Structure, Accepted, NoFifo, Started
  <2> QED BY <2>1, <2>2 DEF ConfigInv
<1>4. CASE "CRITICAL" \notin flags /\ ~running
  <2>1. /\ t' = PadTo2D(t, types) /\ reg' = LoadRegs(reg, t, types)
        /\ loaded' = TRUE /\ same' = TRUE
        /\ UNCHANGED <<flags, types, running, asked, checked, doing>>
        /\ checked /\ (ReInit => Clean(t))
    BY <1>4 DEF Load
  <2>2. t' \in Transactions /\ reg' \in Regs
    BY <1>1, <2>1, PadTo2DIs, LoadRegsIs
  <2>3. ConfigTypes'
    BY <2>1, <2>2, Zenon DEF ConfigInv, ConfigTypes
  <2>4. /\ ~Contradictory(asked)
        /\ \E realign \in BOOLEAN :
             Integrity(asked, realign) = [flags |-> flags, types |-> types]
    BY <1>4, <2>1 DEF ConfigInv, Accepted
  <2>5. Structure'
    <3>1. CASE t = asked /\ Padded1D(asked)
      BY <1>1, <2>1, <2>4, <3>1, PadTo2DIs DEF Structure
    <3>2. CASE t = asked /\ ~Padded1D(asked)
      BY <1>1, <2>1, <3>2, PadTo2DIs DEF Structure
    <3>3. CASE t # asked
      <4>1. ~Padded1D(t)
        BY <1>1, <3>3, PaddedIs DEF ConfigInv, Structure
      <4>2. t' = t
        BY <1>1, <2>1, <4>1, PadTo2DIs
      <4> QED BY <2>1, <4>2 DEF ConfigInv, Structure
    <3> QED BY <3>1, <3>2, <3>3
  <2>6. Accepted'
    BY <2>1 DEF ConfigInv, Accepted
  <2>7. t.fifo = asked.fifo /\ t.mode = asked.mode /\ t.pad = asked.pad /\ t.dst = asked.dst
        /\ t.src.trig = asked.src.trig
    BY <1>1, PaddedIs DEF ConfigInv, Structure
  <2>8. NoFifo'
    <3>1. reg'.fifo = (reg.fifo \/ t.fifo)
      BY <1>1, <2>1, LoadRegsIs
    <3>2. asked \in Configs
      BY DEF ConfigInv, ConfigTypes
    <3> QED BY <2>7, <3>1, <3>2 DEF ConfigInv, NoFifo
  <2>9. ASSUME ReInit PROVE LoadedFor(reg', asked)
    <3>1. /\ reg'.src.trig = asked.src.trig /\ reg'.dst.trig = asked.dst.trig
          /\ reg'.mode = asked.mode /\ reg'.pad = PadRegs(reg, t)
          /\ reg'.dim = IF Padded1D(t) THEN "2D" ELSE t.dim
          /\ HoldsTypes(reg', t, types)
      BY <1>1, <2>1, <2>7, LoadRegsIs
    <3>2. t # asked => Padded1D(asked) /\ t.dim = "2D" /\ ~Padded1D(t)
      BY <1>1, PaddedIs DEF ConfigInv, Structure
    <3>3. reg'.dim = IF Padded1D(asked) THEN "2D" ELSE asked.dim
      BY <3>1, <3>2
    <3>4. HoldsTypes(reg', asked, types)
      <4>1. CASE t = asked
        BY <3>1, <4>1
      <4>2. CASE t # asked
        BY <2>7, <3>1, <3>2, <4>2 DEF HoldsTypes, Padded1D
      <4> QED BY <4>1, <4>2
    <3>5. reg'.pad = asked.pad
      <4>1. reg.pad \in Paddings /\ asked.pad \in Paddings
        BY <1>1 DEF Regs, Transactions
      <4>2. asked.dim = "1D" => asked.pad.top = 0 /\ asked.pad.bottom = 0
        BY <2>4 DEF Contradictory
      <4>3. CASE Padded1D(t)
        <5>1. t = asked /\ asked.dim = "1D" /\ reg.pad.top = 0 /\ reg.pad.bottom = 0
          BY <2>1, <2>9, <3>2, <4>3 DEF Clean, Padded1D, NoPad
        <5>2. reg'.pad = [reg.pad EXCEPT !.left = asked.pad.left, !.right = asked.pad.right]
          BY <3>1, <4>3, <5>1 DEF PadRegs
        <5>3. reg.pad.top = asked.pad.top /\ reg.pad.bottom = asked.pad.bottom
          BY <4>2, <5>1
        <5>4. [reg.pad EXCEPT !.left = asked.pad.left, !.right = asked.pad.right] = asked.pad
          BY ONLY <4>1, <5>3, PadsEqual
        <5> QED BY <5>2, <5>4
      <4>4. CASE t.dim = "2D"
        BY <2>7, <3>1, <4>4 DEF PadRegs, Padded1D
      <4>5. CASE ~Padded1D(t) /\ t.dim # "2D"
        <5>1. t = asked /\ asked.dim = "1D"
          BY <1>1, <3>2, <4>5 DEF Transactions
        <5>2. reg'.pad = reg.pad /\ reg.pad = NoPad
          BY <2>1, <2>9, <3>1, <4>5 DEF PadRegs, Clean
        <5>3. asked.pad.left = 0 /\ asked.pad.right = 0
          BY <4>5, <5>1 DEF Padded1D
        <5>4. asked.pad = NoPad
          BY <4>1, <4>2, <5>1, <5>3 DEF NoPad, Paddings
        <5> QED BY <5>2, <5>4
      <4> QED BY <4>3, <4>4, <4>5
    <3>6. \E realign \in BOOLEAN :
            /\ "CRITICAL" \notin Integrity(asked, realign).flags
            /\ HoldsTypes(reg', asked, Integrity(asked, realign).types)
      <4>1. PICK realign \in BOOLEAN :
              Integrity(asked, realign) = [flags |-> flags, types |-> types]
        BY <2>4
      <4> QED BY <1>4, <3>4, <4>1
    <3> QED BY <2>4, <3>1, <3>3, <3>5, <3>6 DEF LoadedFor
  <2>10. ReInit => Started'
    <3>1. ~Padded1D(t')
      <4>1. CASE Padded1D(t)
        <5>1. t' = AsPadded(t, Size(types.dst)) /\ Size(types.dst) \in Nat
          BY <1>1, <2>1, <4>1, PadTo2DIs
        <5>2. ~Padded1D(AsPadded(t, Size(types.dst)))
          BY <1>1, <5>1, PaddedIs
        <5> QED BY <5>1, <5>2
      <4>2. CASE ~Padded1D(t)
        <5>1. t' = t
          BY <1>1, <2>1, <4>2, PadTo2DIs
        <5> QED BY <4>2, <5>1
      <4> QED BY <4>1, <4>2
    <3>2. ASSUME ReInit PROVE LoadedFor(reg', asked')
      BY <2>1, <2>9, <3>2
    <3>3. ~running'
      BY <1>4, <2>1
    <3> HIDE DEF LoadedFor
    <3> QED BY <3>1, <3>2, <3>3 DEF Started
  <2> QED BY <2>3, <2>5, <2>6, <2>8, <2>10 DEF ConfigInv
<1> QED BY <1>2, <1>3, <1>4

(* dma_launch writes the sizes of the transaction that was loaded. *)
LEMMA LaunchInv == ASSUME ConfigInv, Launch PROVE ConfigInv'
<1>1. /\ asked \in Configs /\ asked \in Transactions /\ t \in Transactions /\ reg \in Regs
  BY ConfigAssumption DEF ConfigInv, ConfigTypes
<1>2. CASE ~loaded \/ running
  <2>1. UNCHANGED vars
    BY <1>2 DEF Launch, vars
  <2> QED BY <2>1 DEF vars, ConfigInv, ConfigTypes, Structure, Accepted, Started, NoFifo
<1>3. CASE loaded /\ ~running
  <2>1. /\ reg' = LaunchRegs(reg, t) /\ running' = Starts(t.size1)
        /\ doing' = [kind |-> "trans", what |-> asked] /\ same
        /\ UNCHANGED <<t, flags, types, loaded, asked, checked, same>>
    BY <1>3 DEF Launch
  <2>2. /\ reg' \in Regs /\ reg'.fifo = reg.fifo /\ reg'.pad = reg.pad /\ reg'.dim = reg.dim
        /\ reg'.mode = reg.mode /\ reg'.src = reg.src /\ reg'.dst = reg.dst
        /\ reg'.size1 = t.size1 % 65536
        /\ t.dim = "2D" => reg'.size2 = t.size2 % 65536
    BY <1>1, <2>1, LaunchRegsIs, SMT
  <2>3. ConfigTypes'
    <3>1. Starts(t.size1) \in BOOLEAN
      BY SMT DEF Starts
    <3>2. reg' \in Regs
      BY <1>1, <2>1, LaunchRegsIs, SMT
    <3> QED BY <2>1, <3>1, <3>2, Zenon DEF ConfigInv, ConfigTypes
  <2>4. Structure' /\ Accepted' /\ NoFifo'
    BY <2>1, <2>2 DEF ConfigInv, Structure, Accepted, NoFifo
  <2>5. ASSUME ReInit PROVE Started'
    <3>1. LoadedFor(reg, asked) /\ ~Padded1D(t)
      BY <2>1, <2>5 DEF ConfigInv, Started
    <3>2. LoadedFor(reg', asked)
      BY <2>2, <3>1 DEF LoadedFor, HoldsTypes
    <3>3. reg'.dim = IF Padded1D(asked) THEN "2D" ELSE asked.dim
      BY <2>2, <3>1 DEF LoadedFor
    <3>4. t.size1 = asked.size1
      BY <1>1, PaddedIs DEF ConfigInv, Structure
    <3>5. ASSUME reg'.dim = "2D"
          PROVE  reg'.size2 = IF Padded1D(asked) THEN 1 ELSE asked.size2 % 65536
      <4>1. CASE t = asked
        BY <2>2, <3>1, <3>3, <3>5, <4>1, SMT
      <4>2. CASE t # asked
        <5>1. Padded1D(asked) /\ t.dim = "2D" /\ t.size2 = 1
          BY <1>1, <4>2, PaddedIs DEF ConfigInv, Structure
        <5>2. 1 % 65536 = 1
          BY SMT
        <5> QED BY <2>2, <5>1, <5>2, SMT
      <4> QED BY <4>1, <4>2
    <3>6. LaunchedFor(reg', asked)
      BY <2>2, <3>2, <3>4, <3>5, SMT DEF LaunchedFor
    <3>7. doing'.kind = "trans" /\ doing'.what = asked
      BY <2>1
    <3> HIDE DEF LoadedFor, LaunchedFor
    <3> QED BY <1>1, <2>1, <3>1, <3>2, <3>6, <3>7 DEF Started
  <2> QED BY <2>3, <2>4, <2>5 DEF ConfigInv
<1> QED BY <1>2, <1>3 DEF ConfigInv, ConfigTypes

(* dma_copy. *)
LEMMA CopyInv == ASSUME ConfigInv, NEW c \in Copies, Copy(c) PROVE ConfigInv'
<1>1. /\ reg' = CopyRegs(reg, c) /\ running' = Starts(c.size)
      /\ doing' = [kind |-> "copy", what |-> c] /\ same' = FALSE
      /\ UNCHANGED <<t, flags, types, loaded, asked, checked>>
      /\ ReInit => CleanForCopy
  BY DEF Copy
<1>2. reg \in Regs
  BY DEF ConfigInv, ConfigTypes
<1>3. reg' \in Regs /\ reg'.fifo = reg.fifo /\ (ReInit => CopiedFor(reg', c))
  BY <1>1, <1>2, CopyRegsIs DEF CleanForCopy
<1>4. ConfigTypes'
  <2>1. Starts(c.size) \in BOOLEAN
    BY SMT DEF Starts
  <2> QED BY <1>1, <1>3, <2>1, Zenon DEF ConfigInv, ConfigTypes
<1>5. Structure' /\ Accepted' /\ NoFifo'
  BY <1>1, <1>3 DEF ConfigInv, Structure, Accepted, NoFifo
<1>6. ReInit => Started'
  <2>1. doing'.kind = "copy" /\ doing'.what = c
    BY <1>1
  <2> HIDE DEF CopiedFor
  <2> QED BY <1>1, <1>3, <2>1 DEF Started
<1> QED BY <1>4, <1>5, <1>6 DEF ConfigInv

(* The end of a transaction, and dma_init. *)
LEMMA FinishInv == ASSUME ConfigInv, Finish \/ InitDma PROVE ConfigInv'
<1>1. CASE Finish
  <2>1. ConfigTypes'
    BY <1>1, Zenon DEF ConfigInv, ConfigTypes, Finish
  <2>2. Structure' /\ Accepted' /\ NoFifo' /\ (ReInit => Started')
    BY <1>1 DEF ConfigInv, Finish, Structure, Accepted, NoFifo, Started
  <2> QED BY <2>1, <2>2 DEF ConfigInv
<1>2. CASE InitDma
  <2>1. reg.fifo \in BOOLEAN
    BY DEF ConfigInv, ConfigTypes, Regs
  <2>2. reg' = [ZeroRegs EXCEPT !.fifo = reg.fifo]
    BY <1>2 DEF InitDma
  <2>3. reg' \in Regs /\ reg'.fifo = reg.fifo
    BY <2>1, <2>2, ZeroRegsIs DEF Regs
  <2>4. ConfigTypes'
    BY <1>2, <2>3, Zenon DEF ConfigInv, ConfigTypes, InitDma
  <2>5. Structure' /\ Accepted' /\ NoFifo'
    BY <1>2, <2>3 DEF ConfigInv, InitDma, Structure, Accepted, NoFifo
  <2>6. Started'
    BY <1>2 DEF InitDma, Started
  <2> QED BY <2>4, <2>5, <2>6 DEF ConfigInv
<1> QED BY <1>1, <1>2

\* ConfigInv holds in every state: from the structure that was validated to
\* the registers of the channel that runs.
THEOREM ConfigInvariant == Spec => []ConfigInv
<1>1. ConfigInv /\ [Next]_vars => ConfigInv'
  <2> SUFFICES ASSUME ConfigInv, [Next]_vars PROVE ConfigInv'
    OBVIOUS
  <2>1. CASE \E x \in Configs : Setup(x) \/ Refill(x)
    BY <2>1, SetupInv
  <2>2. CASE \E r, c \in BOOLEAN : Validate(r, c)
    BY <2>2, ValidateInv
  <2>3. CASE Load \/ Launch \/ Finish \/ InitDma
    BY <2>3, LoadInv, LaunchInv, FinishInv
  <2>4. CASE \E c \in Copies : Copy(c)
    BY <2>4, CopyInv
  <2>5. CASE UNCHANGED vars
    BY <2>5 DEF vars, ConfigInv, ConfigTypes, Structure, Accepted, Started, NoFifo
  <2> QED BY <2>1, <2>2, <2>3, <2>4, <2>5 DEF Next
<1> QED BY <1>1, InitConfig, PTL DEF Spec

\* The flags, the data types and the register fields stay in their ranges,
\* whatever the application asks for.
THEOREM ConfigTypeCorrect == Spec => []TypeOK
<1>1. ConfigInv => TypeOK
  <2> SUFFICES ASSUME ConfigInv PROVE TypeOK
    OBVIOUS
  <2> USE DEF ConfigInv, ConfigTypes
  <2>1. types.src \in 0..2 /\ types.dst \in 0..4 /\ types.inc_b \in 0..2
    BY DEF Types
  <2>2. reg.src \in RegTargets /\ reg.dst \in RegTargets
    BY DEF Regs
  <2>3. /\ reg.dst.inc1 \in -32..31 /\ reg.src.inc1 \in -32..31
        /\ reg.dst.type \in 0..3 /\ reg.src.type \in 0..3
    BY <2>2 DEF RegTargets
  <2>4. {reg.size1, reg.size2} \subseteq {n \in Nat : n < 65536}
    <3>1. reg.size1 \in Sizes /\ reg.size2 \in Sizes
      BY DEF Regs
    <3> HIDE DEF ConfigInv, ConfigTypes
    <3> QED BY <3>1, SMT DEF Sizes
  <2>5. {loaded, running, checked, same} \subseteq BOOLEAN
    BY Zenon
  <2>6. flags \subseteq {"SRC", "DST", "MISALIGN", "DISCONTINUOUS", "OUTBOUNDS",
                         "INCOMPATIBLE", "WINDOW_SIZE", "CRITICAL"} /\ asked \in Configs
    BY DEF Flags
  <2> HIDE DEF ConfigInv, ConfigTypes
  <2> QED BY <2>1, <2>3, <2>4, <2>5, <2>6, SMT DEF TypeOK
<1> QED BY <1>1, ConfigInvariant, PTL

\* dma_validate_transaction is repeatable: an accepted structure, loaded and
\* launched or not, is accepted again with the same flags and data types.
THEOREM AcceptedStaysAcceptedHolds == Spec => []AcceptedStaysAccepted
<1>1. ConfigInv => AcceptedStaysAccepted
  <2> SUFFICES ASSUME ConfigInv, checked, "CRITICAL" \notin flags, ~Padded1D(asked)
               PROVE  \E realign \in BOOLEAN :
                        Validated(t, flags, types, realign, TRUE)
                          = [flags |-> flags, types |-> types]
    BY DEF AcceptedStaysAccepted
  <2>1. t = asked
    BY DEF ConfigInv, Structure
  <2>2. ~Contradictory(asked)
    BY DEF ConfigInv, Accepted
  <2>3. PICK realign \in BOOLEAN :
          Integrity(asked, realign) = [flags |-> flags, types |-> types]
    BY DEF ConfigInv, Accepted
  <2>4. Validated(t, flags, types, realign, TRUE) = Integrity(asked, realign)
    BY <2>1, <2>2 DEF Validated
  <2> QED BY <2>3, <2>4
<1> QED BY <1>1, ConfigInvariant, PTL

(***************************************************************************)
(* What a started channel writes.                                          *)
(***************************************************************************)

(* Aligned targets keep their data types. *)
LEMMA AlignedTypes ==
  ASSUME NEW x, NEW realign \in BOOLEAN, Misalignment(x.src) = 0, Misalignment(x.dst) = 0
  PROVE  Integrity(x, realign).types = Defaults(x)
<1>1. Larger(Misalignment(x.src), Misalignment(x.dst)) = 0
  BY DEF Larger
<1> QED BY <1>1 DEF Integrity

(* The second increment of one row does not matter. *)
LEMMA OneRow ==
  ASSUME NEW ptr \in Int, NEW inc1 \in Int, NEW a \in Int, NEW b \in Int,
         NEW cols \in Int, NEW type
  PROVE  Grid(ptr, inc1, a, cols, 1, type) = Grid(ptr, inc1, b, cols, 1, type)
<1> DEFINE At(i, r, c) == ptr + r * ((cols - 1) * inc1 + i) + c * inc1
<1>1. 1 - 1 = 0 /\ \A r \in 0..0 : r = 0
  OBVIOUS
<1>2. ASSUME NEW i \in Int, NEW c \in 0..cols-1 PROVE At(i, 0, c) = ptr + c * inc1
  <2>1. (cols - 1) * inc1 + i \in Int /\ c * inc1 \in Int
    OBVIOUS
  <2>2. 0 * ((cols - 1) * inc1 + i) = 0
    BY <2>1
  <2> QED BY <2>1, <2>2
<1>3. \A r \in 0..1-1, c \in 0..cols-1 : At(a, r, c) = At(b, r, c)
  BY <1>1, <1>2
<1>4. /\ Grid(ptr, inc1, a, cols, 1, type)
           = UNION {Unit(At(a, r, c), type) : r \in 0..1-1, c \in 0..cols-1}
      /\ Grid(ptr, inc1, b, cols, 1, type)
           = UNION {Unit(At(b, r, c), type) : r \in 0..1-1, c \in 0..cols-1}
  BY DEF Grid, At
<1> HIDE DEF At
<1>5. {Unit(At(a, r, c), type) : r \in 0..1-1, c \in 0..cols-1}
        = {Unit(At(b, r, c), type) : r \in 0..1-1, c \in 0..cols-1}
  BY <1>3
<1> QED BY <1>4, <1>5

(* A transaction that fits: what its increments are in the registers. *)
LEMMA FitsIs ==
  ASSUME NEW x \in Transactions, Fits(x)
  PROVE  /\ x.size1 % 65536 = x.size1 /\ x.size2 % 65536 = x.size2
         /\ Signed(AskedInc(x.dst, x.dst.inc1), 6) = AskedInc(x.dst, x.dst.inc1)
         /\ Signed(AskedInc(x.dst, x.dst.inc2), 23) = AskedInc(x.dst, x.dst.inc2)
         /\ AskedInc(x.dst, x.dst.inc1) \in Nat /\ AskedInc(x.dst, x.dst.inc2) \in Nat
         /\ Size(x.dst.type) \in Nat /\ x.dst.inc1 \in Nat /\ x.dst.ptr \in Nat
<1>1. x.dst \in Targets /\ x.size1 \in Nat /\ x.size2 \in Nat
  BY DEF Transactions
<1>2. x.dst.inc1 \in 0..255 /\ x.dst.inc2 \in Nat /\ x.dst.type \in 0..2 /\ x.dst.ptr \in Nat
  BY <1>1 DEF Targets
<1>3. Size(x.dst.type) \in 1..4
  BY <1>2, SizeType
<1>4. x.dst.inc1 \in Nat /\ Size(x.dst.type) \in Nat
  BY <1>2, <1>3, SMT
<1>5. x.size1 % 65536 = x.size1 /\ x.size2 % 65536 = x.size2
  BY <1>1, SMT DEF Fits
<1>6. x.dst.inc1 * Size(x.dst.type) \in Nat /\ x.dst.inc2 * Size(x.dst.type) \in Nat
  BY <1>2, <1>4, SMT
<1>7. AskedInc(x.dst, x.dst.inc1) \in Nat /\ AskedInc(x.dst, x.dst.inc1) < 32
  BY <1>6, SMT DEF AskedInc, Fits
<1>8. AskedInc(x.dst, x.dst.inc2) \in Nat /\ AskedInc(x.dst, x.dst.inc2) < 2 ^ 22
  BY <1>6, Powers, SMT DEF AskedInc, Fits
<1>9. \A n \in Nat : n \in Int /\ 0 <= n
  OBVIOUS
<1>10. Signed(AskedInc(x.dst, x.dst.inc1), 6) = AskedInc(x.dst, x.dst.inc1)
  BY <1>7, <1>9, SignedType
<1>11. Signed(AskedInc(x.dst, x.dst.inc2), 23) = AskedInc(x.dst, x.dst.inc2)
  BY <1>8, <1>9, SignedType
<1> QED BY <1>2, <1>4, <1>5, <1>7, <1>8, <1>10, <1>11, SMT

(* A launched transaction writes what was asked for. *)
LEMMA LaunchedWrites ==
  ASSUME NEW r \in Regs, NEW x \in Transactions, Fits(x), LaunchedFor(r, x),
         x.mode # "ADDRESS", Misalignment(x.src) = 0, Misalignment(x.dst) = 0
  PROVE  Writes(r) = AskedWrites(x)
<1>1. PICK realign \in BOOLEAN : HoldsTypes(r, x, Integrity(x, realign).types)
  BY DEF LaunchedFor, LoadedFor
<1>2. HoldsTypes(r, x, Defaults(x))
  BY <1>1, AlignedTypes
<1>3. \A inc : Increment(x.dst, inc, Defaults(x)) = AskedInc(x.dst, inc)
  BY DEF Increment, Defaults, AskedInc
<1>4. x.dst.type \in 0..2 /\ x.dst.type % 4 = x.dst.type
  BY DEF Transactions, Targets
<1>5. /\ r.dst.type = x.dst.type /\ r.dst.ptr = x.dst.ptr
      /\ r.dst.inc1 = AskedInc(x.dst, x.dst.inc1)
      /\ x.dim = "2D" => r.dst.inc2 = AskedInc(x.dst, x.dst.inc2)
  BY <1>2, <1>3, <1>4, FitsIs DEF HoldsTypes, Defaults
<1>6. r.pad = x.pad /\ r.size1 = x.size1
  BY FitsIs, SMT DEF LaunchedFor, LoadedFor
<1> DEFINE cols == x.size1 + x.pad.left + x.pad.right
           rows == IF x.dim = "2D" THEN x.size2 + x.pad.top + x.pad.bottom ELSE 1
<1>7. Writes(r) = Grid(x.dst.ptr, AskedInc(x.dst, x.dst.inc1), r.dst.inc2, cols,
                       IF r.dim = "2D" THEN r.size2 + x.pad.top + x.pad.bottom ELSE 1,
                       x.dst.type)
  BY <1>5, <1>6 DEF Writes
<1>8. (IF r.dim = "2D" THEN r.size2 + x.pad.top + x.pad.bottom ELSE 1) = rows
  <2>1. CASE x.dim = "2D"
    <3>1. ~Padded1D(x)
      BY <2>1 DEF Padded1D
    <3>2. r.dim = "2D" /\ r.size2 = x.size2
      BY <2>1, <3>1, FitsIs, SMT DEF LaunchedFor, LoadedFor
    <3> QED BY <2>1, <3>2
  <2>2. CASE x.dim # "2D"
    <3>1. x.dim = "1D" /\ x.pad.top = 0 /\ x.pad.bottom = 0
      BY <2>2 DEF LaunchedFor, LoadedFor, Contradictory, Transactions
    <3>2. r.dim = "2D" => r.size2 = 1
      BY <3>1, SMT DEF LaunchedFor, LoadedFor
    <3> QED BY <2>2, <3>1, <3>2
  <2> QED BY <2>1, <2>2
<1>9. AskedWrites(x) = Grid(x.dst.ptr, AskedInc(x.dst, x.dst.inc1),
                            AskedInc(x.dst, x.dst.inc2), cols, rows, x.dst.type)
  BY DEF AskedWrites
<1>10. CASE x.dim = "2D"
  BY <1>5, <1>7, <1>8, <1>9, <1>10
<1>11. CASE x.dim # "2D"
  <2>1. rows = 1
    BY <1>11
  <2>2. r.dst.inc2 \in Int
    BY DEF Regs, RegTargets
  <2>3. cols \in Int /\ AskedInc(x.dst, x.dst.inc1) \in Int /\ AskedInc(x.dst, x.dst.inc2) \in Int
        /\ x.dst.ptr \in Int
    <3>1. x.pad \in Paddings /\ x.size1 \in Nat
      BY DEF Transactions
    <3>2. x.pad.left \in Nat /\ x.pad.right \in Nat
      BY <3>1 DEF Paddings
    <3>3. cols \in Int
      BY <3>1, <3>2
    <3> HIDE DEF cols
    <3> QED BY <3>3, FitsIs
  <2> HIDE DEF cols, rows
  <2> QED BY <1>7, <1>8, <1>9, <2>1, <2>2, <2>3, OneRow
<1> QED BY <1>10, <1>11

(* A dma_copy writes what was asked for. *)
LEMMA CopyWrites ==
  ASSUME NEW r \in Regs, NEW c \in Copies, c.size < 65536, CopiedFor(r, c)
  PROVE  Writes(r) = Grid(c.dst, Size(c.type), 0, c.size, 1, c.type)
<1>1. c.dst \in Nat /\ c.size \in Nat /\ c.type \in 0..2
  BY ConfigAssumption
<1>2. c.size % 65536 = c.size
  BY <1>1, SMT
<1>3. /\ r.pad = NoPad /\ r.dim = "1D" /\ r.dst.ptr = c.dst
      /\ r.dst.inc1 = Size(c.type) /\ r.dst.type = c.type /\ r.size1 = c.size
  BY <1>2, SMT DEF CopiedFor
<1>4. c.size + NoPad.left + NoPad.right = c.size
  BY <1>1 DEF NoPad
<1>5. Writes(r) = Grid(c.dst, Size(c.type), r.dst.inc2, c.size, 1, c.type)
  BY <1>3, <1>4 DEF Writes
<1>6. Size(c.type) \in 1..4
  BY <1>1, SizeType
<1>7. r.dst.inc2 \in Int
  BY DEF Regs, RegTargets
<1>8. c.dst \in Int /\ c.size \in Int /\ Size(c.type) \in Int /\ 0 \in Int
  BY <1>1, <1>6
<1> QED BY <1>5, <1>7, <1>8, OneRow

(* The application stays within what the registers can hold and calls      *)
(* dma_init where the driver relies on cleared registers.                  *)
AppFits ==
  /\ ReInit
  /\ \A x \in Configs : Fits(x)
  /\ \A c \in Copies : c.size < 65536

\* A transaction that was validated, loaded and launched, and a dma_copy,
\* write exactly the bytes their arguments describe, in the mode and with the
\* triggers they ask for, whatever the channel did before.
THEOREM StartedAsAskedHolds == AppFits /\ Spec => []StartedAsAsked
<1>1. AppFits /\ ConfigInv => StartedAsAsked
  <2> SUFFICES ASSUME AppFits, ConfigInv, running PROVE StartedAsAsked
    BY DEF StartedAsAsked
  <2> DEFINE x == doing.what
  <2>1. Started /\ reg \in Regs
    BY DEF AppFits, ConfigInv, ConfigTypes
  <2>2. ~reg.fifo /\ \A y \in Configs : ~y.fifo
    BY DEF AppFits, Fits, ConfigInv, NoFifo
  <2>3. ASSUME doing.kind = "copy"
        PROVE  /\ Writes(reg) = Grid(x.dst, Size(x.type), 0, x.size, 1, x.type)
               /\ reg.src.trig = "MEMORY" /\ reg.dst.trig = "MEMORY" /\ ~reg.fifo
    <3>1. x \in Copies /\ CopiedFor(reg, x)
      BY <2>1, <2>3 DEF Started
    <3>2. x.size < 65536
      BY <3>1, SMT DEF AppFits
    <3> HIDE DEF x
    <3>3. Writes(reg) = Grid(x.dst, Size(x.type), 0, x.size, 1, x.type)
      BY <2>1, <3>1, <3>2, CopyWrites, SMT
    <3>4. reg.src.trig = "MEMORY" /\ reg.dst.trig = "MEMORY"
      BY <3>1, SMT DEF CopiedFor
    <3> QED BY <2>2, <3>3, <3>4
  <2>4. ASSUME doing.kind = "trans"
        PROVE  /\ x.mode # "ADDRESS" /\ Misalignment(x.src) = 0 /\ Misalignment(x.dst) = 0
                    => Writes(reg) = AskedWrites(x)
               /\ reg.src.trig = x.src.trig /\ reg.dst.trig = x.dst.trig
               /\ reg.mode = x.mode /\ reg.fifo = x.fifo
    <3>1. x \in Configs /\ LaunchedFor(reg, x)
      BY <2>1, <2>4 DEF Started
    <3> HIDE DEF x
    <3>2. x \in Transactions /\ Fits(x)
      BY <3>1, ConfigAssumption DEF AppFits
    <3>3. x.mode # "ADDRESS" /\ Misalignment(x.src) = 0 /\ Misalignment(x.dst) = 0
            => Writes(reg) = AskedWrites(x)
      BY <2>1, <3>1, <3>2, LaunchedWrites
    <3>4. reg.src.trig = x.src.trig /\ reg.dst.trig = x.dst.trig /\ reg.mode = x.mode
      BY <3>1, SMT DEF LaunchedFor, LoadedFor
    <3>5. reg.fifo \in BOOLEAN /\ x.fifo \in BOOLEAN
      BY <2>1, <3>2 DEF Regs, Transactions
    <3>6. reg.fifo = x.fifo
      BY <2>2, <3>1, <3>5
    <3> QED BY <3>3, <3>4, <3>6
  <2> HIDE DEF x
  <2>5. StartedAsAsked
    BY <2>3, <2>4 DEF StartedAsAsked, x
  <2> QED BY <2>5
<1>2. AppFits => []AppFits
  <2>1. AppFits => AppFits'
    BY DEF AppFits, Fits
  <2> QED BY <2>1, PTL
<1> QED BY <1>1, <1>2, ConfigInvariant, PTL

(***************************************************************************)
(* The environment.                                                        *)
(***************************************************************************)

(* What an accepting integrity check has established. *)
LEMMA AcceptedIs ==
  ASSUME NEW x \in Transactions, NEW realign \in BOOLEAN,
         "CRITICAL" \notin Integrity(x, realign).flags
  PROVE  LET mis == Larger(Misalignment(x.src), Misalignment(x.dst))
             ty == Integrity(x, realign).types
         IN  /\ "CRITICAL" \notin SizeErrors(x, ty.dst)
             /\ mis = 0 => ty = Defaults(x)
             /\ mis # 0 => /\ ty = [src |-> x.src.type, dst |-> x.dst.type + mis,
                                    inc_b |-> Size(x.dst.type + mis)]
                           /\ ~(x.dst.inc1 > 1)
<1> DEFINE mis == Larger(Misalignment(x.src), Misalignment(x.dst))
           found == {f \in {"SRC", "DST", "MISALIGN"} :
                       \/ f = "SRC" /\ Misalignment(x.src) # 0
                       \/ f = "DST" /\ Misalignment(x.dst) # 0
                       \/ f = "MISALIGN" /\ mis # 0}
           type == x.dst.type + mis
           new == IF mis = 0 THEN Defaults(x)
                  ELSE [src |-> x.src.type, dst |-> type, inc_b |-> Size(type)]
<1>1. Integrity(x, realign) =
        CASE mis # 0 /\ ~realign -> [flags |-> found \cup {"CRITICAL"}, types |-> Defaults(x)]
          [] mis # 0 /\ realign /\ (x.src.inc1 > 1 \/ x.dst.inc1 > 1) ->
               [flags |-> found \cup {"DISCONTINUOUS", "CRITICAL"}, types |-> Defaults(x)]
          [] OTHER -> [flags |-> found \cup SizeErrors(x, new.dst), types |-> new]
  BY DEF Integrity
<1> HIDE DEF found, new
<1>2. ~(mis # 0 /\ ~realign)
  BY <1>1
<1>3. ~(mis # 0 /\ realign /\ (x.src.inc1 > 1 \/ x.dst.inc1 > 1))
  BY <1>1, <1>2
<1>4. Integrity(x, realign) = [flags |-> found \cup SizeErrors(x, new.dst), types |-> new]
  BY <1>1, <1>2, <1>3
<1>5. "CRITICAL" \notin SizeErrors(x, new.dst) /\ Integrity(x, realign).types = new
  BY <1>4
<1>6. (mis = 0 => new = Defaults(x)) /\ (mis # 0 => ~(x.dst.inc1 > 1))
  BY <1>2, <1>3 DEF new
<1>7. mis # 0 => new = [src |-> x.src.type, dst |-> x.dst.type + mis,
                        inc_b |-> Size(x.dst.type + mis)]
  BY DEF new
<1> QED BY <1>5, <1>6, <1>7

(* The last byte of a unit. *)
LEMMA UnitEnd ==
  ASSUME NEW base \in Nat, NEW ty \in 0..2, NEW b \in Unit(base, ty)
  PROVE  b <= base + Size(ty) - 1
<1>1. Size(ty) \in 1..4 /\ ty # 3
  BY SizeType
<1>2. PICK k \in 0..Size(ty)-1 : b = base - (base % Size(ty)) + k
  BY <1>1 DEF Unit
<1>3. base % Size(ty) \in Nat
  BY <1>1
<1> HIDE DEF Unit
<1> QED BY <1>1, <1>2, <1>3

(* The arithmetic of the last unit: s more units after the first one, i    *)
(* units of w bytes apart.                                                 *)
LEMMA LastUnit ==
  ASSUME NEW s \in Nat, NEW i \in Nat, NEW w \in {1, 2, 4}, NEW z \in Nat, w <= z,
         NEW c \in Nat, c <= s, NEW inc, inc = 0 \/ inc = w * i
  PROVE  /\ s * i \in Nat /\ s * i + 1 <= w * (s * i + 1) /\ w * (s * i + 1) \in Nat
         /\ w * (s * i + 1) <= z * (s * i + 1)
         /\ c * inc \in Nat /\ c * inc + w <= w * (s * i + 1)
<1>1. s * i \in Nat /\ c * i \in Nat /\ c * i <= s * i
  <2>1. s * i \in Nat /\ c * i \in Nat
    OBVIOUS
  <2>2. s = c + (s - c) /\ s - c \in Nat
    OBVIOUS
  <2>3. s * i = c * i + (s - c) * i /\ (s - c) * i \in Nat
    BY <2>2
  <2> QED BY <2>1, <2>3
<1> DEFINE n == s * i
           m == c * i
<1>2. n \in Nat /\ m \in Nat /\ m <= n
  BY <1>1
<1>3. c * (w * i) = w * m
  OBVIOUS
<1>4. z * (n + 1) = w * (n + 1) + (z - w) * (n + 1) /\ (z - w) * (n + 1) \in Nat
  <2>1. z - w \in Nat /\ n + 1 \in Nat
    BY <1>2
  <2> HIDE DEF n
  <2> QED BY <2>1, <1>2
<1>5. c * inc = 0 \/ c * inc = w * m
  BY <1>3
<1> HIDE DEF n, m
<1>6. n + 1 <= w * (n + 1) /\ w * (n + 1) \in Nat /\ w * m + w <= w * (n + 1) /\ w * m \in Nat
      /\ w <= w * (n + 1)
  BY <1>2
<1>7. c * inc \in Nat /\ c * inc + w <= w * (n + 1)
  BY <1>5, <1>6
<1>8. w * (n + 1) <= z * (n + 1)
  BY <1>4, <1>6
<1> QED BY <1>2, <1>6, <1>7, <1>8 DEF n

(* An address that does not wrap around. *)
LEMMA NoWrap == ASSUME NEW a \in Nat, a < 2 ^ AddrBits PROVE Wrap(a) = a
<1> DEFINE M == 2 ^ AddrBits
<1>1. M \in Nat \ {0} /\ a < M
  BY ConfigAssumption
<1> HIDE DEF M
<1>2. a % M = a
  BY <1>1
<1> QED BY <1>2 DEF M, Wrap

(* An accepted region ends within the environment. *)
LEMMA LaunchedInside ==
  ASSUME NEW r \in Regs, NEW x \in Transactions, Fits(x), Realignable(x), LaunchedFor(r, x),
         HasEnv(x.dst), x.dim = "1D", x.pad = NoPad, x.mode # "ADDRESS",
         NEW b \in Writes(r)
  PROVE  b <= EnvEnd(x.dst)
<1>1. PICK realign \in BOOLEAN : /\ "CRITICAL" \notin Integrity(x, realign).flags
                                 /\ HoldsTypes(r, x, Integrity(x, realign).types)
  BY DEF LaunchedFor, LoadedFor
<1> DEFINE mis == Larger(Misalignment(x.src), Misalignment(x.dst))
           ty == Integrity(x, realign).types
           w == Size(ty.dst)
           z == Size(x.dst.type)
           i == x.dst.inc1
           e == EnvEnd(x.dst)
           s == x.size1 - 1
<1>2. /\ "CRITICAL" \notin SizeErrors(x, ty.dst)
      /\ mis = 0 => ty = Defaults(x)
      /\ mis # 0 => /\ ty = [src |-> x.src.type, dst |-> x.dst.type + mis,
                             inc_b |-> Size(x.dst.type + mis)]
                    /\ ~(i > 1)
  BY <1>1, AcceptedIs
<1>3. /\ mis \in 0..2 /\ x.dst.type \in 0..2 /\ x.dst.ptr \in Nat /\ i \in Nat
      /\ x.size1 \in Nat /\ x.dst.env # <<>> /\ x.dst.env \in {<<>>} \cup (Nat \X Nat)
  <2>1. mis \in 0..2
    BY MisType
  <2>2. x.dst \in Targets /\ x.size1 \in Nat
    BY DEF Transactions
  <2>3. /\ x.dst.type \in 0..2 /\ x.dst.ptr \in Nat
        /\ x.dst.env \in {<<>>} \cup (Nat \X Nat)
    BY <2>2 DEF Targets
  <2>4. i \in Nat
    BY FitsIs, SMT
  <2> QED BY <2>1, <2>2, <2>3, <2>4 DEF HasEnv
<1>4. e \in Nat
  BY <1>3 DEF EnvEnd
<1>5. /\ x.dst.ptr + z * ((x.size1 - 1) * i + 1) < 2 ^ AddrBits
      /\ mis # 0 => x.dst.type + mis <= 2 /\ (Memory(x.dst) => i # 0)
  BY DEF Realignable
<1>6. x.size1 # 0 /\ ~IsRegionOutbound1D(x.dst.ptr, e, ty.dst, x.size1, i)
  BY <1>2 DEF SizeErrors
<1>7. ty.dst \in 0..2 /\ w \in {1, 2, 4} /\ z \in Nat /\ w <= z
  <2>1. CASE mis = 0
    <3>1. ty.dst = x.dst.type
      BY <1>2, <2>1 DEF Defaults
    <3> QED BY <1>3, <3>1 DEF Size
  <2>2. CASE mis # 0
    <3>1. ty.dst = x.dst.type + mis /\ x.dst.type + mis <= 2
      BY <1>2, <1>5, <2>2
    <3> HIDE DEF ty, mis
    <3> QED BY <1>3, <3>1 DEF Size
  <2> QED BY <2>1, <2>2
<1>8. r.dst.inc1 = 0 \/ r.dst.inc1 = w * i
  <2>1. r.dst.inc1 = Signed(Increment(x.dst, i, ty), 6)
    BY <1>1 DEF HoldsTypes
  <2>2. CASE ~Memory(x.dst)
    BY <2>1, <2>2, SignedType DEF Increment
  <2>3. CASE Memory(x.dst) /\ mis = 0
    <3>1. Increment(x.dst, i, ty) = i * z /\ w = z /\ AskedInc(x.dst, i) = i * z
      BY <1>2, <2>3 DEF Increment, Defaults, AskedInc
    <3>2. r.dst.inc1 = i * z
      BY <2>1, <3>1, FitsIs, SMT
    <3> HIDE DEF w, z, i
    <3> QED BY <1>3, <1>7, <3>1, <3>2
  <2>4. CASE Memory(x.dst) /\ mis # 0
    <3>1. ty.inc_b = w /\ i = 1
      BY <1>2, <1>3, <1>5, <2>4
    <3>2. Increment(x.dst, i, ty) = w
      BY <1>7, <2>4, <3>1 DEF Increment
    <3>3. w \in Int /\ 0 <= w /\ w < 32
      BY <1>7
    <3>4. r.dst.inc1 = w
      BY <2>1, <3>2, <3>3, SignedType
    <3> HIDE DEF w, i
    <3> QED BY <1>7, <3>1, <3>4
  <2> QED BY <2>2, <2>3, <2>4
<1>9. PICK c \in 0..s : b \in Unit(x.dst.ptr + c * r.dst.inc1, ty.dst)
  <2>1. ~Padded1D(x)
    BY DEF Padded1D, NoPad
  <2>2. r.dim = "1D" /\ r.pad = NoPad /\ r.size1 = x.size1
    BY <2>1, FitsIs, SMT DEF LaunchedFor, LoadedFor
  <2>3. r.dst.ptr = x.dst.ptr /\ r.dst.type = ty.dst
    BY <1>1, <1>7 DEF HoldsTypes
  <2>4. r.size1 + r.pad.left + r.pad.right = x.size1
    BY <1>3, <2>2 DEF NoPad
  <2>5. b \in Grid(x.dst.ptr, r.dst.inc1, r.dst.inc2, x.size1, 1, ty.dst)
    BY <2>2, <2>3, <2>4 DEF Writes
  <2>6. r.dst.inc1 \in Int /\ r.dst.inc2 \in Int
    BY DEF Regs, RegTargets
  <2> HIDE DEF ty
  <2>7. PICK q \in 0..1-1, c \in 0..x.size1-1 :
          b \in Unit(x.dst.ptr + q * ((x.size1 - 1) * r.dst.inc1 + r.dst.inc2) + c * r.dst.inc1,
                     ty.dst)
    BY <2>5 DEF Grid
  <2>8. q = 0 /\ (x.size1 - 1) * r.dst.inc1 + r.dst.inc2 \in Int
    BY <1>3, <2>6, <2>7
  <2>9. x.dst.ptr + q * ((x.size1 - 1) * r.dst.inc1 + r.dst.inc2) + c * r.dst.inc1
          = x.dst.ptr + c * r.dst.inc1
    BY <1>3, <2>8
  <2> QED BY <2>7, <2>9
<1>10. s \in Nat /\ c \in Nat /\ c <= s
  BY <1>3, <1>6, <1>9
<1> DEFINE k == s * i + 1
           wk == w * (s * i + 1)
           zk == z * (s * i + 1)
           d == c * r.dst.inc1
<1> HIDE DEF mis, ty, w, z, i, e, s
<1>11. /\ k \in Nat /\ k >= 1 /\ k <= wk /\ wk \in Nat /\ wk <= zk /\ zk \in Int
       /\ d \in Nat /\ d + w <= wk
  <2>1. i \in Nat /\ w \in {1, 2, 4} /\ z \in Nat /\ w <= z
    BY <1>3, <1>7
  <2> DEFINE inc == r.dst.inc1
  <2> HIDE DEF inc
  <2>2. inc = 0 \/ inc = w * i
    BY <1>8 DEF inc
  <2>3. /\ s * i \in Nat /\ k <= wk /\ wk \in Nat /\ wk <= zk
        /\ c * inc \in Nat /\ c * inc + w <= wk
    BY ONLY <1>10, <2>1, <2>2, LastUnit DEF k, wk, zk
  <2>4. k \in Nat /\ k >= 1
    BY <2>3
  <2>5. zk \in Int
    BY <1>7, <2>4
  <2> QED BY <2>3, <2>4, <2>5 DEF inc
<1>12. x.dst.ptr + zk < 2 ^ AddrBits
  BY <1>5 DEF s
<1>13. e < Wrap(x.dst.ptr + w * Wrap(k) - 1)
         <=> IsRegionOutbound1D(x.dst.ptr, e, ty.dst, x.size1, i)
  BY DEF IsRegionOutbound1D, w, s
<1>14. w * k = wk
  OBVIOUS
<1> DEFINE M == 2 ^ AddrBits
<1>15. M \in Nat /\ x.dst.ptr + zk < M
  BY <1>12, ConfigAssumption
<1> HIDE DEF k, wk, zk, d, M
<1>16. x.dst.ptr + wk - 1 <= e
  <2>0. x.dst.ptr \in Nat
    BY <1>3
  <2>1. k < M /\ x.dst.ptr + wk - 1 \in Nat /\ x.dst.ptr + wk - 1 < M
    BY ONLY <1>11, <1>15, <2>0
  <2>2. Wrap(k) = k /\ Wrap(x.dst.ptr + wk - 1) = x.dst.ptr + wk - 1
    BY <1>11, <2>1, NoWrap DEF M
  <2>3. ~(e < x.dst.ptr + wk - 1)
    BY <1>6, <1>13, <1>14, <2>2
  <2> QED BY <1>4, <2>1, <2>3
<1>17. b <= x.dst.ptr + d + w - 1
  <2>1. x.dst.ptr + d \in Nat /\ b \in Unit(x.dst.ptr + d, ty.dst)
    BY <1>3, <1>9, <1>11 DEF d
  <2> QED BY <1>7, <2>1, UnitEnd DEF w
<1>18. b \in Int
  <2>1. x.dst.ptr + d \in Nat /\ b \in Unit(x.dst.ptr + d, ty.dst)
    BY <1>3, <1>9, <1>11 DEF d
  <2>2. PICK n \in 0..w-1 : b = (x.dst.ptr + d) - ((x.dst.ptr + d) % w) + n
    BY <1>7, <2>1 DEF Unit, w
  <2> QED BY <1>7, <2>1, <2>2
<1>19. w \in Int /\ x.dst.ptr \in Int /\ d \in Int /\ wk \in Int
  BY <1>3, <1>7, <1>11
<1>20. b <= e
  BY ONLY <1>4, <1>11, <1>16, <1>17, <1>18, <1>19
<1> QED BY <1>20 DEF e

\* A one-dimensional transaction that was accepted with integrity checks never
\* writes behind its destination's environment, realigned or not, if it is one
\* the realignment has a data type for.
THEOREM InsideEnvironmentHolds ==
  AppFits /\ (\A x \in Configs : Realignable(x)) /\ Spec => []InsideEnvironment
<1> DEFINE App == AppFits /\ \A x \in Configs : Realignable(x)
<1>1. App /\ ConfigInv => InsideEnvironment
  <2> SUFFICES ASSUME App, ConfigInv, running, doing.kind = "trans",
                      HasEnv(doing.what.dst), doing.what.dim = "1D",
                      doing.what.pad = NoPad, doing.what.mode # "ADDRESS",
                      NEW b \in Writes(reg)
               PROVE  b <= EnvEnd(doing.what.dst)
    BY DEF InsideEnvironment
  <2>1. doing.what \in Configs /\ LaunchedFor(reg, doing.what) /\ reg \in Regs
    BY DEF AppFits, ConfigInv, ConfigTypes, Started
  <2>2. doing.what \in Transactions /\ Fits(doing.what) /\ Realignable(doing.what)
    BY <2>1, ConfigAssumption DEF AppFits
  <2> QED BY <2>1, <2>2, LaunchedInside
<1>2. App => []App
  <2>1. App => App'
    BY DEF AppFits, Fits, Realignable
  <2> QED BY <2>1, PTL
<1> QED BY <1>1, <1>2, ConfigInvariant, PTL
=============================================================================
