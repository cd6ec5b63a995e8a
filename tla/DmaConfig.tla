----------------------------- MODULE DmaConfig -----------------------------
(***************************************************************************)
(* What a DMA transaction copies: a transaction structure of the           *)
(* application, dma_validate_transaction, dma_load_transaction and         *)
(* dma_launch of drivers/dma/dma.c, the copies of sdk/dma, and the         *)
(* registers of one channel, which keep what earlier transactions left in  *)
(* them.  When the channel ends and interrupts is the subject of Dma.      *)
(*                                                                         *)
(* Transposition and sign extension are left out; addresses are those of a *)
(* memory of 2^AddrBits bytes.                                             *)
(***************************************************************************)
EXTENDS Integers, FiniteSets

CONSTANTS
  AddrBits,   \* the width of a pointer
  Configs,    \* the transactions the application sets up
  Copies,     \* the arguments of dma_copy: [src, dst, size, type]
  Threshold,  \* dma_window_ratio_warning_threshold()
  ReInit      \* the application calls dma_init before it uses a channel
              \* where an earlier transaction left padding in the registers,
              \* or, for dma_copy, two dimensions or a trigger

(* dma_target_t and dma_trans_t; an environment is <<>> or its two ends. *)
Triggers == {"MEMORY", "SPI_RX", "SPI_TX", "SPI_FLASH_RX", "SPI_FLASH_TX", "I2S",
             "EXT_TX", "EXT_RX"}
Modes == {"SINGLE", "CIRCULAR", "ADDRESS"}
Paddings == [top : Nat, bottom : Nat, left : Nat, right : Nat]
Targets == [ptr : Nat, inc1 : 0..255, inc2 : Nat, type : 0..2, trig : Triggers,
            env : {<<>>} \cup (Nat \X Nat)]
Transactions == [src : Targets, dst : Targets, size1 : Nat, size2 : Nat,
                 dim : {"1D", "2D"}, mode : Modes, win : Nat, pad : Paddings,
                 fifo : BOOLEAN]

ASSUME ConfigAssumption ==
  /\ AddrBits \in Nat /\ 2 ^ AddrBits \in Nat \ {0}
  /\ Configs \subseteq Transactions
  /\ Copies \subseteq [src : Nat, dst : Nat, size : Nat, type : 0..2]
  /\ Threshold \in Nat /\ ReInit \in BOOLEAN

Wrap(x) == x % (2 ^ AddrBits)
Larger(a, b) == IF a < b THEN b ELSE a

Size_Wide(type) == CASE type = 0 -> 8 [] type = 1 -> 4 [] type = 2 -> 2 [] OTHER -> 1

(* DMA_DATA_TYPE_WORD, _HALF_WORD and _BYTE are 0, 1 and 2; the macro      *)
(* DMA_DATA_TYPE_2_SIZE is 0b100 >> type.                                  *)
Size(type) == CASE type = 0 -> 4 [] type = 1 -> 2 [] type = 2 -> 1 [] OTHER -> 0

Memory(g) == g.trig = "MEMORY"
HasEnv(g) == g.env # <<>>
EnvStart(g) == g.env[1]
EnvEnd(g) == g.env[2]
NoPad == [top |-> 0, bottom |-> 0, left |-> 0, right |-> 0]
Padded1D(t) == t.dim = "1D" /\ (t.pad.left # 0 \/ t.pad.right # 0)

VARIABLES
  t,         \* the structure, as the application and the driver leave it
  flags,     \* its flags, ...
  types,     \* ... src_type, dst_type and inc_b
  reg,       \* the registers of the channel
  loaded,    \* dma_subsys_per[channel].trans is the structure
  running,
  asked,     \* the contents the application gave the structure last
  checked,   \* they were validated with integrity checks
  same,      \* the structure was not modified since it was loaded
  doing      \* what the running channel was started for

vars == <<t, flags, types, reg, loaded, running, asked, checked, same, doing>>

(***************************************************************************)
(* dma_validate_transaction                                                *)
(***************************************************************************)
IsRegionOutbound1D_NoLast(start, end, type, size, inc) ==
  end < Wrap(start + Size(type) * Wrap((size - 1) * inc) - 1)

IsRegionOutbound1D(start, end, type, size, inc) ==
  end < Wrap(start + Size(type) * Wrap((size - 1) * inc + 1) - 1)

IsRegionOutbound2D(start, end, type, size1, size2, inc1, inc2) ==
  end < Wrap(start + Size(type) *
               Wrap(((size1 - 1) * inc1 + 1) * size2 + inc2 * (size2 - 1)) - 1)

OutsideEnv(g, x) ==
  \/ IF x.size2 # 0
     THEN IsRegionOutbound2D(g.ptr, EnvEnd(g), g.type, x.size1, x.size2,
                             g.inc1, g.inc2)
     ELSE IsRegionOutbound1D(g.ptr, EnvEnd(g), g.type, x.size1, g.inc1)
  \/ g.ptr < EnvStart(g) \/ g.ptr > EnvEnd(g)

(* validate_target and validate_environment *)
TargetErrors(g, x) ==
  {f \in {"INCOMPATIBLE", "OUTBOUNDS"} :
     \/ f = "INCOMPATIBLE" /\ HasEnv(g) /\ EnvEnd(g) < EnvStart(g)
     \/ f = "OUTBOUNDS" /\ HasEnv(g) /\ OutsideEnv(g, x)
     \/ f = "INCOMPATIBLE" /\ Memory(g) /\ g.inc1 = 0
     \/ f = "INCOMPATIBLE" /\ ~Memory(g) /\ (HasEnv(g) \/ g.inc1 # 0)}

(* Errors of either target are filed under the source. *)
SideErrors(x) ==
  LET e == TargetErrors(x.src, x) \cup TargetErrors(x.dst, x)
  IN  IF e = {} THEN {} ELSE e \cup {"SRC"}

(* The combinations that are refused before the flags are cleared. *)
Contradictory(x) ==
  \/ x.dim = "2D" /\ (x.src.inc2 = 0 \/ x.dst.inc2 = 0)
  \/ x.dim = "1D" /\ (x.src.inc2 # 0 \/ x.dst.inc2 # 0)
  \/ x.dim = "1D" /\ (x.pad.top # 0 \/ x.pad.bottom # 0)
  \/ ~Memory(x.src) /\ ~Memory(x.dst)
  \/ Memory(x.src) /\ Memory(x.dst) /\ x.mode = "CIRCULAR"

(* get_misalignment_b: how many sizes smaller the data type must be. *)
Misalignment(g) ==
  IF ~Memory(g) THEN 0
  ELSE (IF g.type = 0 /\ g.ptr % 4 # 0 THEN 1 ELSE 0)
       + (IF g.type <= 1 /\ g.ptr % 2 # 0 THEN 1 ELSE 0)

Defaults(x) == [src |-> x.src.type, dst |-> x.dst.type, inc_b |-> 0]

(* The checks of the sizes, of the destination's environment for the type  *)
(* it will be written with, and of the window, in the order of the code.   *)
SizeErrors(x, type) ==
  IF x.size1 = 0 \/ (x.dim = "2D" /\ x.size2 = 0) THEN {"SRC", "CRITICAL"}
  ELSE IF HasEnv(x.dst) /\ IsRegionOutbound1D(x.dst.ptr, EnvEnd(x.dst), type,
                                             x.size1, x.dst.inc1)
  THEN {"DST", "OUTBOUNDS", "CRITICAL"}
  ELSE IF x.win > x.size1 /\ x.mode # "CIRCULAR" THEN {"WINDOW_SIZE", "CRITICAL"}
  ELSE IF x.win # 0 /\ Threshold # 0 /\ x.size1 \div x.win > Threshold
  THEN {"WINDOW_SIZE"}
  ELSE {}

(* The integrity checks that follow, in the order of the code. *)
Integrity(x, realign) ==
  LET mis == Larger(Misalignment(x.src), Misalignment(x.dst))
      found == {f \in {"SRC", "DST", "MISALIGN"} :
                  \/ f = "SRC" /\ Misalignment(x.src) # 0
                  \/ f = "DST" /\ Misalignment(x.dst) # 0
                  \/ f = "MISALIGN" /\ mis # 0}
      type == x.dst.type + mis
      new == IF mis = 0 THEN Defaults(x)
             ELSE [src |-> x.src.type, dst |-> type, inc_b |-> Size(type)]
      Is(fs, ts) == [flags |-> found \cup fs, types |-> ts]
  IN  CASE mis # 0 /\ ~realign -> Is({"CRITICAL"}, Defaults(x))
        [] mis # 0 /\ realign /\ (x.src.inc1 > 1 \/ x.dst.inc1 > 1) ->
             Is({"DISCONTINUOUS", "CRITICAL"}, Defaults(x))
        [] OTHER -> Is(SizeErrors(x, new.dst), new)

(* The outcome for the contents x of a structure that holds flags f and    *)
(* types ty: a critical flag of an earlier validation ends it at once.     *)
Validated(x, f, ty, realign, check) ==
  LET before == f \cup SideErrors(x)
  IN  IF "CRITICAL" \in f THEN [flags |-> before, types |-> ty]
      ELSE IF check /\ Contradictory(x)
      THEN [flags |-> before \cup {"INCOMPATIBLE", "CRITICAL"}, types |-> ty]
      ELSE IF check THEN Integrity(x, realign)
      ELSE [flags |-> {}, types |-> Defaults(x)]

(***************************************************************************)
(* dma_load_transaction: what it writes to the registers.                  *)
(***************************************************************************)

(* A register field of w bits that the hardware extends by its sign. *)
Signed(x, w) ==
  LET y == x % (2 ^ w) IN IF y < 2 ^ (w - 1) THEN y ELSE y - 2 ^ w

(* get_increment_b_1D, get_increment_b_2D *)
Increment(g, inc, ty) ==
  IF ~Memory(g) THEN 0 ELSE IF ty.inc_b # 0 THEN ty.inc_b ELSE inc * Size(g.type)

PadTo2D_Always(x, ty) ==
  IF x.dim = "1D"
  THEN [x EXCEPT !.dim = "2D", !.size2 = 1, !.src.inc2 = Size(ty.dst)]
  ELSE x

(* A one-dimensional transaction with padding becomes one of two           *)
(* dimensions, in the structure itself.                                    *)
PadTo2D(x, ty) ==
  IF Padded1D(x)
  THEN [x EXCEPT !.dim = "2D", !.size2 = 1, !.src.inc2 = Size(ty.dst)]
  ELSE x

PadRegs(r, x) ==
  IF Padded1D(x)
  THEN [r.pad EXCEPT !.left = x.pad.left, !.right = x.pad.right]
  ELSE IF x.dim = "2D" THEN x.pad ELSE r.pad

(* The registers of one target.  The second increment is written in two    *)
(* dimensions only; in address mode the destination is not written at all  *)
(* but for its trigger and type.                                           *)
TargetRegs(old, g, x, ty, type, skip) ==
  [ptr  |-> IF skip THEN old.ptr ELSE g.ptr,
   inc1 |-> IF skip THEN old.inc1 ELSE Signed(Increment(g, g.inc1, ty), 6),
   inc2 |-> IF skip \/ x.dim = "1D" THEN old.inc2
            ELSE Signed(Increment(g, g.inc2, ty), 23),
   trig |-> g.trig,
   type |-> type % 4]

LoadRegs(r, x, ty) ==
  LET y == PadTo2D(x, ty)
  IN  [r EXCEPT !.src = TargetRegs(r.src, y.src, y, ty, ty.src, FALSE),
                !.dst = TargetRegs(r.dst, y.dst, y, ty, ty.dst, y.mode = "ADDRESS"),
                !.pad = PadRegs(r, x),
                !.dim = y.dim,
                !.mode = y.mode,
                !.win = IF y.win # 0 THEN y.win ELSE y.size1,
                !.fifo = r.fifo \/ y.fifo]

LaunchRegs_NoD2(r, x) == [r EXCEPT !.size1 = x.size1 % 65536]

(* dma_launch writes the sizes; the second one in two dimensions only. *)
LaunchRegs(r, x) ==
  [r EXCEPT !.size2 = IF x.dim = "2D" THEN x.size2 % 65536 ELSE r.size2,
            !.size1 = x.size1 % 65536]

(* dma_copy and dma_copy_async write neither the dimension, the padding,   *)
(* the triggers, the window nor the FIFO mode.  The size goes to SIZE_D1   *)
(* as it is and counts data units; dma_sdk.h:87 calls it bytes.            *)
CopyRegs(r, c) ==
  [r EXCEPT !.src = [r.src EXCEPT !.ptr = c.src, !.inc1 = Size(c.type), !.type = c.type],
            !.dst = [r.dst EXCEPT !.ptr = c.dst, !.inc1 = Size(c.type), !.type = c.type],
            !.mode = "SINGLE", !.size1 = c.size % 65536]

(* Writing SIZE_D1 starts the channel, unless its 16 bits are zero. *)
Starts(size) == size % 65536 # 0

ZeroTarget == [ptr |-> 0, inc1 |-> 0, inc2 |-> 0, trig |-> "MEMORY", type |-> 0]
ZeroRegs == [src |-> ZeroTarget, dst |-> ZeroTarget, pad |-> NoPad, dim |-> "1D",
             mode |-> "SINGLE", win |-> 0, fifo |-> FALSE, size1 |-> 0, size2 |-> 0]

(***************************************************************************)
(* The hardware: the bytes a started channel writes.                       *)
(***************************************************************************)
Unit(base, type) ==
  LET w == IF type = 3 THEN 1 ELSE Size(type)
  IN  {base - (base % w) + b : b \in 0..w-1}

Grid(ptr, inc1, inc2, cols, rows, type) ==
  UNION {Unit(ptr + r * ((cols - 1) * inc1 + inc2) + c * inc1, type) :
           r \in 0..rows-1, c \in 0..cols-1}

(* The write unit adds the padding to the sizes, in one dimension too. *)
Writes(r) ==
  Grid(r.dst.ptr, r.dst.inc1, r.dst.inc2, r.size1 + r.pad.left + r.pad.right,
       IF r.dim = "2D" THEN r.size2 + r.pad.top + r.pad.bottom ELSE 1, r.dst.type)

(***************************************************************************)
(* The application and the channel.                                        *)
(***************************************************************************)

Clean(x) ==
  \/ x.dim = "2D"
  \/ reg.pad = NoPad
  \/ Padded1D(x) /\ reg.pad.top = 0 /\ reg.pad.bottom = 0

CleanForCopy ==
  reg.pad = NoPad /\ reg.dim = "1D"
    /\ reg.src.trig = "MEMORY" /\ reg.dst.trig = "MEMORY"

(* The structure is filled in while the channel is idle, its flags cleared *)
(* (as the examples do).                                                   *)
Setup(x) ==
  /\ ~running
  /\ t' = x /\ asked' = x /\ flags' = {}
  /\ types' = [src |-> 0, dst |-> 0, inc_b |-> 0]
  /\ checked' = FALSE /\ same' = FALSE
  /\ UNCHANGED <<reg, loaded, running, doing>>

(* The same, except that the flags are left as they are. *)
Refill(x) ==
  /\ ~running
  /\ t' = x /\ asked' = x
  /\ checked' = FALSE /\ same' = FALSE
  /\ UNCHANGED <<flags, types, reg, loaded, running, doing>>

Validate(realign, check) ==
  LET v == Validated(t, flags, types, realign, check)
  IN  /\ flags' = v.flags /\ types' = v.types
      /\ checked' = check
      /\ UNCHANGED <<t, reg, loaded, running, asked, same, doing>>

Load ==
  /\ checked /\ (ReInit => Clean(t))
  /\ IF "CRITICAL" \in flags
     THEN loaded' = FALSE /\ UNCHANGED <<t, reg, same>>
     ELSE IF running THEN UNCHANGED <<t, reg, loaded, same>>
     ELSE /\ loaded' = TRUE
          /\ t' = PadTo2D(t, types)
          /\ reg' = LoadRegs(reg, t, types)
          /\ same' = TRUE
  /\ UNCHANGED <<flags, types, running, asked, checked, doing>>

(* The caller does not modify a structure between loading and launching it.*)
Launch ==
  /\ same
  /\ IF ~loaded \/ running THEN UNCHANGED <<reg, running, doing>>
     ELSE /\ reg' = LaunchRegs(reg, t)
          /\ running' = Starts(t.size1)
          /\ doing' = [kind |-> "trans", what |-> asked]
  /\ UNCHANGED <<t, flags, types, loaded, asked, checked, same>>

Copy(c) ==
  /\ ReInit => CleanForCopy
  /\ ~running
  /\ reg' = CopyRegs(reg, c)
  /\ running' = Starts(c.size)
  /\ doing' = [kind |-> "copy", what |-> c]
  /\ same' = FALSE
  /\ UNCHANGED <<t, flags, types, loaded, asked, checked>>

Finish ==
  /\ running /\ running' = FALSE
  /\ doing' = [kind |-> "none"]
  /\ UNCHANGED <<t, flags, types, reg, loaded, asked, checked, same>>

(* dma_init: every register but the FIFO mode is cleared. *)
InitDma ==
  /\ ~running
  /\ loaded' = FALSE /\ same' = FALSE
  /\ reg' = [ZeroRegs EXCEPT !.fifo = reg.fifo]
  /\ UNCHANGED <<t, flags, types, running, asked, checked, doing>>

Init ==
  /\ t \in Configs /\ asked = t /\ flags = {}
  /\ types = [src |-> 0, dst |-> 0, inc_b |-> 0]
  /\ reg = ZeroRegs /\ loaded = FALSE /\ running = FALSE
  /\ checked = FALSE /\ same = FALSE
  /\ doing = [kind |-> "none"]

Next ==
  \/ \E x \in Configs : Setup(x) \/ Refill(x)
  \/ \E r, c \in BOOLEAN : Validate(r, c)
  \/ Load \/ Launch \/ Finish \/ InitDma
  \/ \E c \in Copies : Copy(c)

Spec == Init /\ [][Next]_vars

(***************************************************************************)
(* Properties.                                                             *)
(***************************************************************************)
AskedInc(g, inc) == IF Memory(g) THEN inc * Size(g.type) ELSE 0

AskedWrites(x) ==
  Grid(x.dst.ptr, AskedInc(x.dst, x.dst.inc1), AskedInc(x.dst, x.dst.inc2),
       x.size1 + x.pad.left + x.pad.right,
       IF x.dim = "2D" THEN x.size2 + x.pad.top + x.pad.bottom ELSE 1, x.dst.type)

TypeOK ==
  /\ flags \subseteq {"SRC", "DST", "MISALIGN", "DISCONTINUOUS", "OUTBOUNDS",
                      "INCOMPATIBLE", "WINDOW_SIZE", "CRITICAL"}
  /\ types.src \in 0..2 /\ types.dst \in 0..4 /\ types.inc_b \in 0..2
  /\ reg.dst.inc1 \in -32..31 /\ reg.src.inc1 \in -32..31
  /\ reg.dst.type \in 0..3 /\ reg.src.type \in 0..3
  /\ {reg.size1, reg.size2} \subseteq {n \in Nat : n < 65536}
  /\ asked \in Configs
  /\ {loaded, running, checked, same} \subseteq BOOLEAN

(* The sizes and increments the application asks for fit into the          *)
(* registers, which the validation does not check, and the FIFO mode,      *)
(* which nothing clears, is not used.                                      *)
Fits(x) ==
  /\ x.size1 < 65536 /\ x.size2 < 65536 /\ ~x.fifo
  /\ x.dst.inc1 * Size(x.dst.type) < 32 /\ x.dst.inc2 * Size(x.dst.type) < 2 ^ 22

(* What dma_validate_transaction takes for granted of a destination with   *)
(* an environment: the region ends within the memory, and a realigned one  *)
(* has a data type left to be written with and increments by one unit.     *)
Realignable(x) ==
  LET mis == Larger(Misalignment(x.src), Misalignment(x.dst))
  IN  HasEnv(x.dst) =>
        /\ x.dst.ptr + Size(x.dst.type) * ((x.size1 - 1) * x.dst.inc1 + 1) < 2 ^ AddrBits
        /\ mis # 0 => /\ x.dst.type + mis <= 2
                      /\ Memory(x.dst) => x.dst.inc1 # 0

(* Whatever the channel did before, a transaction that was validated,      *)
(* loaded and launched, and a dma_copy, write exactly the bytes their      *)
(* arguments describe, in the mode and with the triggers they ask for.     *)
(* The size of a copy is taken in data units, as the code and its example  *)
(* (example_dma_sdk/main.c:77) do and dma_sdk.h:87, 102 and 113 do not.    *)
(* (A realigned transaction writes fewer: see InsideEnvironment.)          *)
StartedAsAsked ==
  LET x == doing.what
  IN  /\ running /\ doing.kind = "copy" =>
           /\ Writes(reg) = Grid(x.dst, Size(x.type), 0, x.size, 1, x.type)
           /\ reg.src.trig = "MEMORY" /\ reg.dst.trig = "MEMORY"
           /\ ~reg.fifo
      /\ running /\ doing.kind = "trans" =>
           /\ x.mode # "ADDRESS" /\ Misalignment(x.src) = 0 /\ Misalignment(x.dst) = 0
                => Writes(reg) = AskedWrites(x)
           /\ reg.src.trig = x.src.trig /\ reg.dst.trig = x.dst.trig
           /\ reg.mode = x.mode /\ reg.fifo = x.fifo

(* A running one-dimensional transaction that was accepted with integrity  *)
(* checks never writes behind its destination's environment, realigned or  *)
(* not.  (The start of the environment and the second dimension are only   *)
(* warnings, which the validation erases; padding is not counted.)         *)
InsideEnvironment ==
  running /\ doing.kind = "trans" =>
    LET x == doing.what
    IN  HasEnv(x.dst) /\ x.dim = "1D" /\ x.pad = NoPad /\ x.mode # "ADDRESS" =>
          \A b \in Writes(reg) : b <= EnvEnd(x.dst)

(* Validation is repeatable: an accepted structure, loaded and launched or *)
(* not, is accepted again with the same flags and data types, unless it is *)
(* a padded one-dimensional one, which dma_load_transaction rewrites.      *)
AcceptedStaysAccepted ==
  checked /\ "CRITICAL" \notin flags /\ ~Padded1D(asked) =>
    \E realign \in BOOLEAN :
      Validated(t, flags, types, realign, TRUE) = [flags |-> flags, types |-> types]
=============================================================================
