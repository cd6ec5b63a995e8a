--------------------------- MODULE RvTimerProofs ---------------------------
(***************************************************************************)
(* Proofs about RvTimer, for every width of the half registers, number of  *)
(* harts, set of thresholds and number of calls:                           *)
(*   - rv_timer_counter_read returns a value the counter has had;          *)
(*   - rv_timer_arm sets off no alarm before the threshold.                *)
(*                                                                         *)
(* Both are about accesses that only make sense together.  Pair says which *)
(* access follows which, Script that a sequence of accesses holds only     *)
(* complete groups, and Remainder the same of what is left of one.         *)
(***************************************************************************)
EXTENDS RvTimer, TLAPS, SequenceTheorems

Names == {"read_upper", "read_lower", "read_check", "read_ctrl", "set_ctrl",
          "clear_ctrl", "ask", "lower", "upper", "ie_set", "ie_clear", "is_clear",
          "is_test", "zero_lower", "zero_upper", "stop_all", "init", "val_start",
          "val_stop", "val_reset", "wfi"}
Ops == [op : Names, hart : Hart, val : 0 .. Max64]

(* Accesses that need the one before them, and those that need the next. *)
NeedsPrev(o) == o.op \in {"lower", "upper", "read_lower", "read_check",
                          "val_start", "val_stop"}
NeedsNext(o) == o.op \in {"ask", "lower", "read_upper", "read_lower"}

Pair(a, b) ==
  \/ a.op = "ask" /\ b.op = "lower" /\ b.hart = a.hart /\ b.val = a.val
  \/ a.op = "lower" /\ b.op = "upper" /\ b.hart = a.hart /\ b.val = a.val
  \/ a.op = "read_upper" /\ b.op = "read_lower" /\ b.hart = a.hart
  \/ a.op = "read_lower" /\ b.op = "read_check" /\ b.hart = a.hart
  \/ a.op = "read_check" /\ b.op \in {"val_start", "val_stop"} /\ a.hart = 0

Linked(s) ==
  /\ \A i \in 1 .. Len(s) : NeedsNext(s[i]) => i < Len(s) /\ Pair(s[i], s[i + 1])
  /\ \A i \in 2 .. Len(s) : NeedsPrev(s[i]) => Pair(s[i - 1], s[i])
Remainder(s) == s \in Seq(Ops) /\ Linked(s)
Script(s) == Remainder(s) /\ (s # <<>> => ~NeedsPrev(s[1]))

(***************************************************************************)
(* The scripts of the driver and of the SDK.                               *)
(***************************************************************************)
LEMMA ConcatRemainder ==
  ASSUME NEW s, NEW u, Remainder(s), Remainder(u),
         u # <<>> /\ NeedsPrev(u[1]) => s = <<>> \/ Pair(s[Len(s)], u[1])
  PROVE  /\ Remainder(s \o u)
         /\ s # <<>> => s \o u # <<>> /\ (s \o u)[1] = s[1]
         /\ s = <<>> => s \o u = u
<1>1. /\ s \o u \in Seq(Ops) /\ Len(s \o u) = Len(s) + Len(u)
      /\ \A i \in 1 .. Len(s) + Len(u) :
           (s \o u)[i] = IF i <= Len(s) THEN s[i] ELSE u[i - Len(s)]
  BY ConcatProperties DEF Remainder
<1>2. s \in Seq(Ops) /\ u \in Seq(Ops) /\ Len(s) \in Nat /\ Len(u) \in Nat
  BY DEF Remainder
<1>3. ASSUME NEW i \in 1 .. Len(s \o u), NeedsNext((s \o u)[i])
      PROVE  i < Len(s \o u) /\ Pair((s \o u)[i], (s \o u)[i + 1])
  BY <1>1, <1>2, <1>3 DEF Linked, Remainder
<1>4. ASSUME NEW i \in 2 .. Len(s \o u), NeedsPrev((s \o u)[i])
      PROVE  Pair((s \o u)[i - 1], (s \o u)[i])
  <2>1. CASE i <= Len(s)
    BY <1>1, <1>2, <1>4, <2>1 DEF Linked, Remainder
  <2>2. CASE i = Len(s) + 1
    <3>1. s # <<>> /\ u # <<>>
      BY <1>1, <1>2, <2>2
    <3> QED BY <1>1, <1>2, <1>4, <2>2, <3>1
  <2>3. CASE i > Len(s) + 1
    BY <1>1, <1>2, <1>4, <2>3 DEF Linked, Remainder
  <2> QED BY <1>2, <2>1, <2>2, <2>3
<1>5. Remainder(s \o u)
  BY <1>1, <1>3, <1>4 DEF Linked, Remainder
<1>6. s # <<>> => s \o u # <<>> /\ (s \o u)[1] = s[1]
  <2>1. s # <<>> => Len(s) >= 1
    BY <1>2
  <2>2. Len(s \o u) >= 1 => s \o u # <<>>
    BY <1>1
  <2> QED BY <1>1, <1>2, <2>1, <2>2
<1>7. s = <<>> => s \o u = u
  BY <1>2, ConcatEmptySeq
<1> QED BY <1>5, <1>6, <1>7

(* Scripts follow each other. *)
LEMMA ConcatScript ==
  ASSUME NEW s, NEW u, Remainder(s), Script(u)
  PROVE  Remainder(s \o u) /\ (Script(s) => Script(s \o u))
BY ConcatRemainder DEF Script

(* The fields of an access. *)
LEMMA OpType ==
  ASSUME NEW n \in Names, NEW h \in Hart, NEW v \in 0 .. Max64
  PROVE  /\ Op(n, h, v) \in Ops
         /\ Op(n, h, v).op = n /\ Op(n, h, v).hart = h /\ Op(n, h, v).val = v
BY DEF Op, Ops

(* What TimeAssumption says of the constants, in the forms used below. *)
LEMMA Constants ==
  /\ 0 \in Hart /\ Max64 \in Nat /\ 0 \in 0 .. Max64 /\ Max64 \in 0 .. Max64
  /\ B \in Nat /\ B > 1 /\ Harts \in Nat /\ Harts > 0
  /\ \A v \in Thresholds : v \in 0 .. Max64
  /\ MaxTime \in Nat /\ MaxTime < (B - 1) * B
<1>1. B \in Nat /\ B > 1 /\ B * B > 1 /\ Harts \in Nat /\ Harts > 0
  BY TimeAssumption
<1>2. B * B - 1 \in Nat /\ (B - 1) * B \in Nat
  BY <1>1
<1> QED BY <1>1, <1>2, TimeAssumption DEF Hart, Max64

(* Single accesses that stand for themselves. *)
LEMMA OneScript ==
  ASSUME NEW n \in Names, NEW h \in Hart, ~NeedsPrev(Op(n, h, 0)), ~NeedsNext(Op(n, h, 0))
  PROVE  Script(<<Op(n, h, 0)>>)
<1>1. Op(n, h, 0) \in Ops
  BY OpType, Constants
<1> QED BY <1>1 DEF Script, Remainder, Linked

(* The groups: a counter read, alone and with the use of its value, and the *)
(* arming of a comparator.                                                  *)
LEMMA GroupScripts ==
  ASSUME NEW h \in Hart, NEW v \in 0 .. Max64
  PROVE  Script(rv_timer_counter_read(h)) /\ Script(rv_timer_arm(h, v))
<1>1. /\ Op("read_upper", h, 0) \in Ops /\ Op("read_lower", h, 0) \in Ops
      /\ Op("read_check", h, 0) \in Ops /\ Op("ask", h, v) \in Ops
      /\ Op("lower", h, v) \in Ops /\ Op("upper", h, v) \in Ops
  BY Constants DEF Op, Ops, Names
<1>2. Script(rv_timer_counter_read(h))
  <2> DEFINE s == <<Op("read_upper", h, 0), Op("read_lower", h, 0), Op("read_check", h, 0)>>
  <2>1. s \in Seq(Ops) /\ Len(s) = 3
    BY <1>1
  <2>2. Linked(s)
    BY <2>1 DEF Linked, NeedsNext, NeedsPrev, Pair, Op
  <2> QED BY <2>1, <2>2 DEF Script, Remainder, rv_timer_counter_read, NeedsPrev, Op
<1>3. Script(rv_timer_arm(h, v))
  <2> DEFINE s == <<Op("ask", h, v), Op("lower", h, v), Op("upper", h, v)>>
  <2>1. s \in Seq(Ops) /\ Len(s) = 3
    BY <1>1
  <2>2. Linked(s)
    BY <2>1 DEF Linked, NeedsNext, NeedsPrev, Pair, Op
  <2> QED BY <2>1, <2>2 DEF Script, Remainder, rv_timer_arm, NeedsPrev, Op
<1> QED BY <1>2, <1>3

(* A concatenation, from its elements. *)
LEMMA Joined ==
  ASSUME NEW s \in Seq(Ops), NEW u \in Seq(Ops), NEW w \in Seq(Ops),
         Len(w) = Len(s) + Len(u),
         \A i \in 1 .. Len(w) : w[i] = IF i <= Len(s) THEN s[i] ELSE u[i - Len(s)]
  PROVE  s \o u = w
<1>1. /\ s \o u \in Seq(Ops) /\ Len(s \o u) = Len(w)
      /\ \A i \in 1 .. Len(w) : (s \o u)[i] = w[i]
  BY ConcatProperties
<1> QED BY <1>1, SeqEqual

(* A counter read whose value timer_start or timer_stop uses. *)
LEMMA ReadScript ==
  ASSUME NEW n \in {"val_start", "val_stop"}
  PROVE  Script(timer_get_cycles \o <<Op(n, 0, 0)>>)
<1> DEFINE s == <<Op("read_upper", 0, 0), Op("read_lower", 0, 0), Op("read_check", 0, 0),
                  Op(n, 0, 0)>>
<1>1. /\ Op("read_upper", 0, 0) \in Ops /\ Op("read_lower", 0, 0) \in Ops
      /\ Op("read_check", 0, 0) \in Ops /\ Op(n, 0, 0) \in Ops
  BY Constants DEF Op, Ops, Names
<1>2. s \in Seq(Ops) /\ Len(s) = 4
  BY <1>1
<1>3. Linked(s)
  BY <1>2 DEF Linked, NeedsNext, NeedsPrev, Pair, Op
<1>4. timer_get_cycles \o <<Op(n, 0, 0)>> = s
  <2> DEFINE a == <<Op("read_upper", 0, 0), Op("read_lower", 0, 0), Op("read_check", 0, 0)>>
             b == <<Op(n, 0, 0)>>
  <2>1. a \in Seq(Ops) /\ b \in Seq(Ops) /\ Len(a) = 3 /\ Len(b) = 1
    BY <1>1
  <2>2. \A i \in 1 .. 4 : s[i] = IF i <= 3 THEN a[i] ELSE b[i - 3]
    OBVIOUS
  <2> HIDE DEF a, b, s
  <2>3. \A i \in 1 .. Len(s) : s[i] = IF i <= Len(a) THEN a[i] ELSE b[i - Len(a)]
    BY <1>2, <2>1, <2>2
  <2>4. a \o b = s
    BY ONLY <1>2, <2>1, <2>3, Joined, Len(s) = Len(a) + Len(b)
  <2> QED BY <2>4 DEF a, b, timer_get_cycles, rv_timer_counter_read
<1>5. Script(s)
  BY <1>2, <1>3 DEF Script, Remainder, NeedsPrev, Op
<1> HIDE DEF s
<1> QED BY <1>4, <1>5

(* The functions whose accesses stand for themselves. *)
LEMMA PlainScripts ==
  ASSUME NEW h \in Hart, NEW b \in BOOLEAN
  PROVE  /\ Script(rv_timer_counter_set_enabled(h, b)) /\ Script(rv_timer_irq_enable(h, b))
         /\ Script(rv_timer_irq_clear(h)) /\ Script(rv_timer_irq_force(h))
<1>1. \A n \in {"ie_set", "ie_clear", "is_clear", "is_test"} : Script(<<Op(n, h, 0)>>)
  BY OneScript DEF NeedsPrev, NeedsNext, Op, Names
<1>2. ASSUME NEW n \in {"set_ctrl", "clear_ctrl"}
      PROVE  Script(<<Op("read_ctrl", h, 0), Op(n, h, 0)>>)
  <2> DEFINE s == <<Op("read_ctrl", h, 0), Op(n, h, 0)>>
  <2>1. s \in Seq(Ops) /\ Len(s) = 2
    BY Constants DEF Op, Ops, Names
  <2> QED BY <2>1 DEF Script, Remainder, Linked, NeedsPrev, NeedsNext, Op
<1> QED BY <1>1, <1>2 DEF rv_timer_counter_set_enabled, rv_timer_irq_enable,
                          rv_timer_irq_clear, rv_timer_irq_force

(* The seven accesses of the reset of a hart, and the reset of all. *)
LEMMA ResetHartIs ==
  ASSUME NEW h \in Hart
  PROVE  ResetHart(h) = <<Op("ie_clear", h, 0), Op("is_clear", h, 0),
                          Op("ask", h, Max64), Op("lower", h, Max64), Op("upper", h, Max64),
                          Op("zero_lower", h, 0), Op("zero_upper", h, 0)>>
<1> DEFINE a == <<Op("ie_clear", h, 0)>>
           b == <<Op("is_clear", h, 0)>>
           c == <<Op("ask", h, Max64), Op("lower", h, Max64), Op("upper", h, Max64)>>
           d == <<Op("zero_lower", h, 0), Op("zero_upper", h, 0)>>
           ab == <<Op("ie_clear", h, 0), Op("is_clear", h, 0)>>
           abc == <<Op("ie_clear", h, 0), Op("is_clear", h, 0), Op("ask", h, Max64),
                    Op("lower", h, Max64), Op("upper", h, Max64)>>
           all == <<Op("ie_clear", h, 0), Op("is_clear", h, 0), Op("ask", h, Max64),
                    Op("lower", h, Max64), Op("upper", h, Max64), Op("zero_lower", h, 0),
                    Op("zero_upper", h, 0)>>
<1>1. /\ Op("ie_clear", h, 0) \in Ops /\ Op("is_clear", h, 0) \in Ops
      /\ Op("ask", h, Max64) \in Ops /\ Op("lower", h, Max64) \in Ops
      /\ Op("upper", h, Max64) \in Ops /\ Op("zero_lower", h, 0) \in Ops
      /\ Op("zero_upper", h, 0) \in Ops
  BY Constants DEF Op, Ops, Names
<1>2. /\ a \in Seq(Ops) /\ b \in Seq(Ops) /\ c \in Seq(Ops) /\ d \in Seq(Ops)
      /\ ab \in Seq(Ops) /\ abc \in Seq(Ops) /\ all \in Seq(Ops)
      /\ Len(a) = 1 /\ Len(b) = 1 /\ Len(c) = 3 /\ Len(d) = 2
      /\ Len(ab) = 2 /\ Len(abc) = 5 /\ Len(all) = 7
  BY <1>1
<1>3. /\ \A i \in 1 .. 2 : ab[i] = IF i <= 1 THEN a[i] ELSE b[i - 1]
      /\ \A i \in 1 .. 5 : abc[i] = IF i <= 2 THEN ab[i] ELSE c[i - 2]
      /\ \A i \in 1 .. 7 : all[i] = IF i <= 5 THEN abc[i] ELSE d[i - 5]
  OBVIOUS
<1>4. ResetHart(h) = a \o b \o c \o d
  BY DEF ResetHart, rv_timer_irq_enable, rv_timer_irq_clear, rv_timer_arm
<1> HIDE DEF a, b, c, d, ab, abc, all
<1>5. a \o b = ab
  <2>1. \A i \in 1 .. Len(ab) : ab[i] = IF i <= Len(a) THEN a[i] ELSE b[i - Len(a)]
    BY <1>2, <1>3
  <2> QED BY ONLY <1>2, <2>1, Joined, Len(ab) = Len(a) + Len(b)
<1>6. ab \o c = abc
  <2>1. \A i \in 1 .. Len(abc) : abc[i] = IF i <= Len(ab) THEN ab[i] ELSE c[i - Len(ab)]
    BY <1>2, <1>3
  <2> QED BY ONLY <1>2, <2>1, Joined, Len(abc) = Len(ab) + Len(c)
<1>7. abc \o d = all
  <2>1. \A i \in 1 .. Len(all) : all[i] = IF i <= Len(abc) THEN abc[i] ELSE d[i - Len(abc)]
    BY <1>2, <1>3
  <2> QED BY ONLY <1>2, <2>1, Joined, Len(all) = Len(abc) + Len(d)
<1> QED BY <1>4, <1>5, <1>6, <1>7 DEF all

(* Within the reset of a hart every access has the neighbours it needs. *)
LEMMA ResetHartLinks ==
  ASSUME NEW h \in Hart, NEW j \in 1 .. 7
  PROVE  /\ NeedsNext(ResetHart(h)[j]) => j < 7 /\ Pair(ResetHart(h)[j], ResetHart(h)[j + 1])
         /\ NeedsPrev(ResetHart(h)[j]) => j > 1 /\ Pair(ResetHart(h)[j - 1], ResetHart(h)[j])
BY ResetHartIs DEF NeedsNext, NeedsPrev, Pair, Op

(* rv_timer_reset, for any number of harts. *)
LEMMA ResetScript == Script(rv_timer_reset)
<1>1. ResetHarts \in Seq(Ops) /\ Len(ResetHarts) = 7 * Harts
  <2>1. ASSUME NEW i \in 1 .. 7 * Harts
        PROVE  ResetHart((i - 1) \div 7)[((i - 1) % 7) + 1] \in Ops
    <3>1. (i - 1) \div 7 \in Hart /\ (i - 1) % 7 \in 0 .. 6
      BY Constants DEF Hart
    <3> QED BY <3>1, ResetHartIs, Constants DEF Op, Ops, Names
  <2> QED BY <2>1, Constants DEF ResetHarts
<1>2. \A i \in 1 .. 7 * Harts : ResetHarts[i] = ResetHart((i - 1) \div 7)[((i - 1) % 7) + 1]
  BY DEF ResetHarts
<1>3. ASSUME NEW i \in 1 .. 7 * Harts
      PROVE  /\ NeedsNext(ResetHarts[i]) => i < 7 * Harts /\ Pair(ResetHarts[i], ResetHarts[i + 1])
             /\ NeedsPrev(ResetHarts[i]) => i > 1 /\ Pair(ResetHarts[i - 1], ResetHarts[i])
  <2> DEFINE q == (i - 1) \div 7
             r == (i - 1) % 7
  <2>1. q \in 0 .. Harts - 1 /\ r \in 0 .. 6 /\ i = 7 * q + r + 1
    BY Constants
  <2>2. r < 6 => i < 7 * Harts /\ i \div 7 = q /\ i % 7 = r + 1
    BY <2>1, Constants
  <2>3. r > 0 => i > 1 /\ (i - 2) \div 7 = q /\ (i - 2) % 7 = r - 1
    BY <2>1, Constants
  <2> HIDE DEF q, r
  <2>4. ResetHarts[i] = ResetHart(q)[r + 1]
    BY <1>2 DEF q, r
  <2>5. r < 6 => ResetHarts[i + 1] = ResetHart(q)[r + 2]
    <3> SUFFICES ASSUME r < 6 PROVE ResetHarts[i + 1] = ResetHart(q)[r + 2]
      OBVIOUS
    <3>1. i + 1 \in 1 .. 7 * Harts /\ (i + 1) - 1 = i
      BY <2>2, Constants
    <3>2. ResetHarts[i + 1] = ResetHart(i \div 7)[(i % 7) + 1]
      BY <1>2, <3>1
    <3> QED BY <2>1, <2>2, <3>2
  <2>6. r > 0 => ResetHarts[i - 1] = ResetHart(q)[r]
    <3> SUFFICES ASSUME r > 0 PROVE ResetHarts[i - 1] = ResetHart(q)[r]
      OBVIOUS
    <3>1. i - 1 \in 1 .. 7 * Harts /\ (i - 1) - 1 = i - 2
      BY <2>3, Constants
    <3>2. ResetHarts[i - 1] = ResetHart((i - 2) \div 7)[((i - 2) % 7) + 1]
      BY <1>2, <3>1
    <3> QED BY <2>1, <2>3, <3>2
  <2>7. q \in Hart /\ r + 1 \in 1 .. 7
    BY <2>1 DEF Hart
  <2>8. /\ NeedsNext(ResetHart(q)[r + 1]) => r + 1 < 7 /\ Pair(ResetHart(q)[r + 1], ResetHart(q)[r + 2])
        /\ NeedsPrev(ResetHart(q)[r + 1]) => r + 1 > 1 /\ Pair(ResetHart(q)[r], ResetHart(q)[r + 1])
    <3>1. (r + 1) + 1 = r + 2 /\ (r + 1) - 1 = r
      BY <2>1
    <3> QED BY <2>7, <3>1, ResetHartLinks
  <2>9. NeedsNext(ResetHarts[i]) => i < 7 * Harts /\ Pair(ResetHarts[i], ResetHarts[i + 1])
    BY <2>1, <2>2, <2>4, <2>5, <2>8
  <2>10. NeedsPrev(ResetHarts[i]) => i > 1 /\ Pair(ResetHarts[i - 1], ResetHarts[i])
    BY <2>1, <2>3, <2>4, <2>6, <2>8
  <2> QED BY <2>9, <2>10
<1>4. Script(ResetHarts)
  BY <1>1, <1>3, Constants DEF Script, Remainder, Linked
<1>5. Script(<<Op("stop_all", 0, 0)>>)
  BY OneScript, Constants DEF NeedsPrev, NeedsNext, Op, Names
<1> QED BY <1>4, <1>5, ConcatScript DEF rv_timer_reset, Script

(* The functions of the SDK. *)
LEMMA SetUpScripts ==
  ASSUME NEW b \in BOOLEAN, NEW v \in 0 .. Max64
  PROVE  /\ Script(rv_timer_init) /\ Script(timer_cycles_init)
         /\ Script(timer_start) /\ Script(timer_stop)
         /\ Script(timer_arm_start(v)) /\ Script(timer_wait_us(v))
<1>1. /\ Script(<<Op("init", 0, 0)>>) /\ Script(<<Op("val_reset", 0, 0)>>)
      /\ Script(<<Op("wfi", 0, 0)>>)
  BY OneScript, Constants DEF NeedsPrev, NeedsNext, Op, Names
<1>2. Script(<<>>)
  BY DEF Script, Remainder, Linked
<1>3. \A s, u : Script(s) /\ Script(u) => Script(s \o u)
  BY ConcatScript DEF Script
<1> HIDE DEF Script
<1>4. Script(rv_timer_init)
  BY <1>1, <1>3, ResetScript DEF rv_timer_init
<1>5. Script(timer_reset)
  BY <1>1, <1>2, <1>3, ResetScript DEF timer_reset
<1>6. Script(timer_cycles_init)
  BY <1>3, <1>4, <1>5 DEF timer_cycles_init
<1>7. Script(timer_start) /\ Script(timer_stop)
  <2>1. /\ Script(timer_get_cycles \o <<Op("val_start", 0, 0)>>)
        /\ Script(timer_get_cycles \o <<Op("val_stop", 0, 0)>>)
    BY ReadScript
  <2>2. /\ Script(rv_timer_counter_set_enabled(0, TRUE))
        /\ Script(rv_timer_counter_set_enabled(0, FALSE))
    BY PlainScripts, Constants
  <2> QED BY <1>3, <2>1, <2>2 DEF timer_start, timer_stop
<1>8. Script(timer_arm_start(v))
  BY <1>3, <1>7, GroupScripts, Constants DEF timer_arm_start
<1>9. Script(timer_wait_us(v))
  <2>1. Script(rv_timer_irq_enable(0, TRUE)) /\ Script(rv_timer_irq_clear(0))
    BY PlainScripts, Constants
  <2>2. Script(timer_cycles_init \o rv_timer_irq_enable(0, TRUE))
    BY <1>3, <1>6, <2>1
  <2>3. Script(timer_cycles_init \o rv_timer_irq_enable(0, TRUE) \o timer_arm_start(v))
    BY <1>3, <1>8, <2>2
  <2>4. Script(timer_cycles_init \o rv_timer_irq_enable(0, TRUE) \o timer_arm_start(v)
                 \o <<Op("wfi", 0, 0)>>)
    BY <1>1, <1>3, <2>3
  <2> QED BY <1>3, <2>1, <2>4 DEF timer_wait_us
<1> QED BY <1>4, <1>6, <1>7, <1>8, <1>9

(* What is left of a script after its first access. *)
LEMMA TailRemainder ==
  ASSUME NEW s, Remainder(s), s # <<>>
  PROVE  /\ Head(s) = s[1] /\ s[1] \in Ops /\ Remainder(Tail(s))
         /\ Tail(s) # <<>> /\ NeedsPrev(Tail(s)[1]) => Pair(s[1], Tail(s)[1])
         /\ NeedsNext(s[1]) => Tail(s) # <<>> /\ Pair(s[1], Tail(s)[1])
<1>1. /\ s \in Seq(Ops) /\ Tail(s) \in Seq(Ops) /\ Len(Tail(s)) = Len(s) - 1
      /\ \A i \in 1 .. Len(s) - 1 : Tail(s)[i] = s[i + 1]
      /\ Len(s) \in Nat \ {0} /\ Head(s) = s[1]
  BY HeadTailProperties DEF Remainder
<1>2. Linked(Tail(s))
  BY <1>1 DEF Remainder, Linked
<1>3. Tail(s) # <<>> => Len(s) >= 2 /\ Tail(s)[1] = s[2]
  BY <1>1
<1>4. Len(s) >= 2 => Tail(s) # <<>>
  <2>1. Len(s) >= 2 => Len(Tail(s)) # 0
    BY <1>1
  <2>2. Len(<<>>) = 0
    OBVIOUS
  <2> QED BY ONLY <2>1, <2>2
<1> QED BY <1>1, <1>2, <1>3, <1>4 DEF Remainder, Linked

(***************************************************************************)
(* Halves.                                                                 *)
(***************************************************************************)
LEMMA Halves ==
  ASSUME NEW v \in Nat
  PROVE  /\ Upper(v) \in Nat /\ Lower(v) \in 0 .. B - 1 /\ v = Upper(v) * B + Lower(v)
         /\ Upper(v) * B \in 0 .. v /\ Lower(v) \in 0 .. v
<1>1. Upper(v) \in Nat /\ Lower(v) \in 0 .. B - 1 /\ v = Upper(v) * B + Lower(v)
  BY Constants DEF Upper, Lower
<1>2. Upper(v) * B \in Nat
  BY <1>1, Constants
<1> QED BY <1>1, <1>2

(* A register from its halves. *)
LEMMA Join ==
  ASSUME NEW u \in 0 .. B - 1, NEW l \in 0 .. B - 1
  PROVE  /\ Upper(u * B + l) = u /\ Lower(u * B + l) = l
         /\ u * B + l \in 0 .. Max64
<1>1. Upper(u * B + l) = u /\ Lower(u * B + l) = l
  BY Constants DEF Upper, Lower
<1>2. u * B <= (B - 1) * B /\ u * B \in Nat
  BY Constants
<1> QED BY <1>1, <1>2, Constants DEF Max64

(* The upper half of a 64-bit value. *)
LEMMA UpperRange ==
  ASSUME NEW v \in 0 .. Max64
  PROVE  Upper(v) \in 0 .. B - 1 /\ (v >= (B - 1) * B => Upper(v) = B - 1)
<1>0. v \in Nat
  BY Constants
<1>1. Upper(v) \in Nat /\ Lower(v) \in 0 .. B - 1 /\ v = Upper(v) * B + Lower(v)
  BY <1>0, Halves
<1>2. Upper(v) >= B => Upper(v) * B >= B * B
  BY <1>1, Constants
<1>3. Upper(v) < B - 1 => Upper(v) * B + B <= (B - 1) * B
  BY <1>1, Constants
<1> QED BY <1>1, <1>2, <1>3, Constants DEF Max64

(* Two equal upper halves: none between them differs. *)
LEMMA UpperBetween ==
  ASSUME NEW a \in Nat, NEW b \in Nat, NEW c \in Nat, a <= b, b <= c, Upper(a) = Upper(c)
  PROVE  Upper(b) = Upper(a)
<1>1. /\ Upper(a) \in Nat /\ Upper(b) \in Nat
      /\ a = Upper(a) * B + Lower(a) /\ Lower(a) \in 0 .. B - 1
      /\ b = Upper(b) * B + Lower(b) /\ Lower(b) \in 0 .. B - 1
      /\ c = Upper(a) * B + Lower(c) /\ Lower(c) \in 0 .. B - 1
  BY Halves
<1>2. Upper(b) < Upper(a) => Upper(b) * B + B <= Upper(a) * B
  BY <1>1, Constants
<1>3. Upper(b) > Upper(a) => Upper(a) * B + B <= Upper(b) * B
  BY <1>1, Constants
<1> QED BY <1>1, <1>2, <1>3, Constants

(***************************************************************************)
(* The invariant.                                                          *)
(***************************************************************************)
HandlerOps == [op : {"read_ctrl", "clear_ctrl", "is_clear"}, hart : Hart, val : {0}]

TimerTypes ==
  /\ mtime \in [Hart -> 0 .. MaxTime]
  /\ mtimecmp \in [Hart -> 0 .. Max64] /\ asked \in [Hart -> 0 .. Max64]
  /\ active \subseteq Hart /\ hctrl \subseteq Hart
  /\ loc \in [ctrl : SUBSET Hart, upper : Nat, lower : Nat, out : Nat]
  /\ from \in Nat
  /\ Remainder(todo) /\ isr \in Seq(HandlerOps)

(* The comparator is what was asked for, or out of reach while the two     *)
(* halves are being written.                                               *)
Arming(h) == todo # <<>> /\ todo[1].op \in {"lower", "upper"} /\ todo[1].hart = h
Armed ==
  \A h \in Hart :
    /\ ~Arming(h) => mtimecmp[h] = asked[h]
    /\ Arming(h) => /\ mtimecmp[h] >= (B - 1) * B
                    /\ todo[1].val = asked[h]
                    /\ todo[1].op = "upper" => Lower(mtimecmp[h]) = Lower(asked[h])

(* What rv_timer_counter_read has read so far: the upper half of the       *)
(* counter at its first access and the lower half of a later value.        *)
Halfway(h, v) ==
  /\ from <= v /\ v <= mtime[h]
  /\ loc.upper = Upper(from) /\ loc.out = Upper(from) * B + Lower(v)
Reading ==
  todo # <<>> =>
    /\ todo[1].op = "read_lower" =>
         from <= mtime[todo[1].hart] /\ loc.upper = Upper(from)
    /\ todo[1].op = "read_check" => \E v \in Nat : Halfway(todo[1].hart, v)
    /\ todo[1].op \in {"val_start", "val_stop"} => from <= loc.out /\ loc.out <= mtime[0]

TimerInv == TimerTypes /\ Armed /\ Reading

(* The invariant holds initially. *)
LEMMA InitTimer == Init => TimerInv
<1> SUFFICES ASSUME Init PROVE TimerInv
  OBVIOUS
<1>1. TimerTypes
  BY Constants DEF Init, TimerTypes, Remainder, Linked
<1>2. Armed /\ Reading
  BY DEF Init, Armed, Arming, Reading
<1> QED BY <1>1, <1>2 DEF TimerInv

(* A step of the peripheral or of the handler lets no counter run          *)
(* backwards and touches neither the comparators nor the thread.           *)
LEMMA OutsideThread ==
  ASSUME TimerInv, TimerTypes', \A h \in Hart : mtime[h] <= mtime'[h],
         UNCHANGED <<mtimecmp, asked, todo, loc, from>>
  PROVE  TimerInv'
<1> USE DEF TimerInv
<1>1. Armed'
  BY DEF Armed, Arming
<1>2. ASSUME todo # <<>> PROVE todo[1] \in Ops /\ todo[1].hart \in Hart
  BY <1>2, TailRemainder DEF TimerTypes, Ops
<1>3. \A h \in Hart : mtime[h] \in Nat /\ mtime'[h] \in Nat
  BY Constants DEF TimerTypes
<1>4. Reading'
  <2> SUFFICES ASSUME todo # <<>>
               PROVE  /\ todo[1].op = "read_lower" =>
                           from <= mtime'[todo[1].hart] /\ loc.upper = Upper(from)
                      /\ todo[1].op = "read_check" => \E v \in Nat : Halfway(todo[1].hart, v)'
                      /\ todo[1].op \in {"val_start", "val_stop"} =>
                           from <= loc.out /\ loc.out <= mtime'[0]
    BY DEF Reading
  <2>1. todo[1].op = "read_lower" =>
          from <= mtime'[todo[1].hart] /\ loc.upper = Upper(from)
    BY <1>2, <1>3 DEF Reading, TimerTypes
  <2>2. ASSUME NEW v \in Nat, Halfway(todo[1].hart, v)
        PROVE  Halfway(todo[1].hart, v)'
    BY <1>2, <1>3, <2>2 DEF Halfway
  <2>3. todo[1].op \in {"val_start", "val_stop"} => from <= loc.out /\ loc.out <= mtime'[0]
    BY <1>3, Constants DEF Reading, TimerTypes
  <2> QED BY <2>1, <2>2, <2>3 DEF Reading
<1> QED BY <1>1, <1>4

(* The peripheral preserves it: time passes, an alarm is raised. *)
LEMMA TickInv == ASSUME TimerInv, NEW h \in Hart, Tick(h) \/ Alarm(h) PROVE TimerInv'
<1> USE DEF TimerInv
<1>1. CASE Tick(h)
  <2>1. mtime' \in [Hart -> 0 .. MaxTime] /\ \A g \in Hart : mtime[g] <= mtime'[g]
    BY <1>1, Constants DEF Tick, TimerTypes
  <2>2. TimerTypes'
    BY <1>1, <2>1 DEF Tick, TimerTypes
  <2> QED BY <1>1, <2>1, <2>2, OutsideThread DEF Tick
<1>2. CASE Alarm(h)
  <2>1. TimerTypes'
    BY <1>2 DEF Alarm, TimerTypes
  <2>2. \A g \in Hart : mtime[g] <= mtime'[g]
    BY <1>2, Constants DEF Alarm, TimerTypes
  <2> QED BY <1>2, <2>1, <2>2, OutsideThread DEF Alarm
<1> QED BY <1>1, <1>2

(* The handler preserves it: it writes neither counter nor comparator. *)
LEMMA HandlerInv == ASSUME TimerInv, Trap \/ Handler PROVE TimerInv'
<1> USE DEF TimerInv
<1>0. \A g \in Hart : mtime[g] \in Nat
  BY Constants DEF TimerTypes
<1>1. CASE Trap
  <2>1. handler_irq_timer \in Seq(HandlerOps)
    <3> DEFINE a == <<Op("read_ctrl", 0, 0), Op("clear_ctrl", 0, 0)>>
               b == <<Op("is_clear", 0, 0)>>
    <3>1. a \in Seq(HandlerOps) /\ b \in Seq(HandlerOps)
      BY Constants DEF Op, HandlerOps
    <3>2. handler_irq_timer = a \o b
      BY DEF handler_irq_timer, timer_arm_stop, rv_timer_counter_set_enabled,
             rv_timer_irq_clear
    <3> HIDE DEF a, b
    <3> QED BY <3>1, <3>2, ConcatProperties
  <2>2. TimerTypes'
    BY <1>1, <2>1 DEF Trap, TimerTypes, dev
  <2> QED BY <1>0, <1>1, <2>2, OutsideThread DEF Trap, dev
<1>2. CASE Handler
  <2>1. /\ Head(isr) \in HandlerOps /\ Tail(isr) \in Seq(HandlerOps)
    BY <1>2, HeadTailProperties DEF Handler, TimerTypes
  <2>2. Head(isr).op \in {"read_ctrl", "clear_ctrl", "is_clear"} /\ Head(isr).hart \in Hart
    BY <2>1 DEF HandlerOps
  <2>3. UNCHANGED <<mtime, mtimecmp>> /\ active' \subseteq Hart
    BY <1>2, <2>2 DEF Handler, Device, TimerTypes
  <2>4. hctrl' \subseteq Hart
    BY <1>2 DEF Handler, TimerTypes
  <2>5. TimerTypes'
    BY <1>2, <2>1, <2>3, <2>4 DEF Handler, TimerTypes
  <2> QED BY <1>0, <1>2, <2>3, <2>5, OutsideThread DEF Handler
<1> QED BY <1>1, <1>2

(* A call starts with an access that needs none before it. *)
LEMMA CallInv == ASSUME TimerInv, NEW script, Script(script), Call(script) PROVE TimerInv'
<1> USE DEF TimerInv
<1>1. TimerTypes'
  BY DEF Call, TimerTypes, Script, dev
<1>2. todo' # <<>> => ~NeedsPrev(todo'[1])
  BY DEF Call, Script
<1>3. todo = <<>> /\ UNCHANGED <<mtimecmp, asked>>
  BY DEF Call, dev
<1>4. Armed'
  BY <1>2, <1>3 DEF Armed, Arming, NeedsPrev
<1>5. Reading'
  BY <1>2 DEF Reading, NeedsPrev
<1> QED BY <1>1, <1>4, <1>5

(* Every call of the application preserves it. *)
LEMMA CallsInv ==
  ASSUME TimerInv, CallSdk \/ \E h \in Hart : CallDriver(h)
  PROVE  TimerInv'
<1>1. ASSUME CallSdk PROVE \E s : Script(s) /\ Call(s)
  <2>1. Script(rv_timer_irq_enable(0, TRUE))
    BY PlainScripts, Constants
  <2>2. /\ Script(timer_cycles_init) /\ Script(timer_start) /\ Script(timer_stop)
        /\ \A v \in Thresholds : Script(timer_arm_start(v)) /\ Script(timer_wait_us(v))
    BY SetUpScripts, Constants
  <2> QED BY <1>1, <2>1, <2>2 DEF CallSdk
<1>2. ASSUME NEW h \in Hart, CallDriver(h) PROVE \E s : Script(s) /\ Call(s)
  <2>1. Script(rv_timer_counter_read(h)) /\ \A v \in Thresholds : Script(rv_timer_arm(h, v))
    BY GroupScripts, Constants
  <2>2. /\ \A b \in BOOLEAN : Script(rv_timer_counter_set_enabled(h, b))
        /\ Script(rv_timer_irq_clear(h)) /\ Script(rv_timer_irq_force(h))
    BY PlainScripts
  <2> QED BY <1>2, <2>1, <2>2 DEF CallDriver
<1> QED BY <1>1, <1>2, CallInv

(* What the thread has left after an access: the next access of the same   *)
(* group, if the group is not complete, or one that needs none before it.  *)
LEMMA StepTodo ==
  ASSUME TimerInv, Step
  PROVE  /\ Head(todo) = todo[1] /\ todo[1] \in Ops /\ Remainder(todo')
         /\ todo' # <<>> /\ NeedsPrev(todo'[1]) => Pair(todo[1], todo'[1])
         /\ NeedsNext(todo[1]) => todo' # <<>> /\ Pair(todo[1], todo'[1])
         /\ todo[1].op = "read_check" /\ todo' # <<>> /\ NeedsPrev(todo'[1]) =>
              loc.upper = Upper(mtime[todo[1].hart])
<1> USE DEF TimerInv, TimerTypes
<1>1. /\ todo # <<>> /\ Head(todo) = todo[1] /\ todo[1] \in Ops /\ Remainder(Tail(todo))
      /\ Tail(todo) # <<>> /\ NeedsPrev(Tail(todo)[1]) => Pair(todo[1], Tail(todo)[1])
      /\ NeedsNext(todo[1]) => Tail(todo) # <<>> /\ Pair(todo[1], Tail(todo)[1])
  BY TailRemainder DEF Step
<1>2. CASE todo[1].op = "read_check" /\ loc.upper # Upper(mtime[todo[1].hart])
  <2> DEFINE r == rv_timer_counter_read(todo[1].hart)
  <2>1. todo' = r \o Tail(todo)
    BY <1>1, <1>2 DEF Step
  <2>2. /\ Script(r) /\ r # <<>> /\ r[1] = Op("read_upper", todo[1].hart, 0)
        /\ Len(r) = 3 /\ r[3] = Op("read_check", todo[1].hart, 0)
    BY <1>1, GroupScripts, Constants DEF Ops, rv_timer_counter_read
  <2> HIDE DEF r
  <2>3. Tail(todo) # <<>> /\ NeedsPrev(Tail(todo)[1]) => Pair(r[3], Tail(todo)[1])
    BY <1>1, <1>2, <2>2 DEF Pair, Op
  <2>4. Remainder(todo') /\ todo' # <<>> /\ todo'[1] = r[1]
    BY <1>1, <2>1, <2>2, <2>3, ConcatRemainder DEF Script
  <2>5. ~NeedsPrev(todo'[1])
    BY <2>2, <2>4 DEF NeedsPrev, Op
  <2>6. ~NeedsNext(todo[1])
    BY <1>2 DEF NeedsNext
  <2> QED BY <1>1, <2>4, <2>5, <2>6
<1>3. CASE ~(todo[1].op = "read_check" /\ loc.upper # Upper(mtime[todo[1].hart]))
  <2>1. todo' = Tail(todo)
    BY <1>1, <1>3 DEF Step
  <2> QED BY <1>1, <1>3, <2>1
<1> QED BY <1>2, <1>3

(* An access of the thread keeps the types. *)
LEMMA StepTypes == ASSUME TimerInv, Step PROVE TimerTypes'
<1> USE DEF TimerInv, TimerTypes
<1>1. /\ Head(todo) = todo[1] /\ todo[1] \in Ops /\ Remainder(todo')
      /\ todo[1].hart \in Hart /\ todo[1].val \in 0 .. Max64
  BY StepTodo DEF Ops
<1>2. /\ \A h \in Hart : mtime[h] \in 0 .. MaxTime /\ mtime[h] \in Nat
      /\ B - 1 \in 0 .. B - 1 /\ loc.upper \in Nat
  BY Constants
<1>3. mtime' \in [Hart -> 0 .. MaxTime]
  <2>1. \A h \in Hart : Upper(mtime[h]) * B \in 0 .. MaxTime /\ Lower(mtime[h]) \in 0 .. MaxTime
    <3> SUFFICES ASSUME NEW h \in Hart
                 PROVE  /\ Upper(mtime[h]) * B \in 0 .. MaxTime
                        /\ Lower(mtime[h]) \in 0 .. MaxTime
      OBVIOUS
    <3>1. Upper(mtime[h]) * B \in 0 .. mtime[h] /\ Lower(mtime[h]) \in 0 .. mtime[h]
      BY <1>2, Halves
    <3> QED BY <1>2, <3>1, Constants
  <2> QED BY <1>1, <2>1 DEF Step, Device
<1>4. mtimecmp' \in [Hart -> 0 .. Max64]
  <2>1. ASSUME NEW a \in 0 .. Max64, NEW b \in 0 .. Max64
        PROVE  /\ (B - 1) * B + Lower(a) \in 0 .. Max64
               /\ Upper(a) * B + Lower(b) \in 0 .. Max64
    <3>1. a \in Nat /\ b \in Nat
      BY Constants
    <3>2. Upper(a) \in 0 .. B - 1 /\ Lower(a) \in 0 .. B - 1 /\ Lower(b) \in 0 .. B - 1
      BY <3>1, Halves, UpperRange
    <3> QED BY <1>2, <3>2, Join
  <2>2. \A h \in Hart :
          /\ (B - 1) * B + Lower(mtimecmp[h]) \in 0 .. Max64
          /\ Upper(mtimecmp[h]) * B + Lower(todo[1].val) \in 0 .. Max64
          /\ Upper(todo[1].val) * B + Lower(mtimecmp[h]) \in 0 .. Max64
    BY <1>1, <2>1
  <2> QED BY <1>1, <2>2 DEF Step, Device
<1>5. active' \subseteq Hart
  BY <1>1 DEF Step, Device
<1>6. loc' \in [ctrl : SUBSET Hart, upper : Nat, lower : Nat, out : Nat]
  <2>1. \A h \in Hart : /\ Upper(mtime[h]) \in Nat /\ Lower(mtime[h]) \in Nat
                         /\ loc.upper * B + Lower(mtime[h]) \in Nat
    <3> SUFFICES ASSUME NEW h \in Hart
                 PROVE  /\ Upper(mtime[h]) \in Nat /\ Lower(mtime[h]) \in Nat
                        /\ loc.upper * B + Lower(mtime[h]) \in Nat
      OBVIOUS
    <3>1. Upper(mtime[h]) \in Nat /\ Lower(mtime[h]) \in 0 .. B - 1
      BY <1>2, Halves
    <3>2. loc.upper * B \in Nat
      BY <1>2, Constants
    <3>3. Lower(mtime[h]) \in Nat
      BY <3>1, Constants
    <3> HIDE DEF TimerTypes, TimerInv
    <3> QED BY <3>1, <3>2, <3>3
  <2> QED BY <1>1, <2>1 DEF Step
<1>7. asked' \in [Hart -> 0 .. Max64] /\ from' \in Nat
  BY <1>1, <1>2, Zenon DEF Step
<1> QED BY <1>1, <1>3, <1>4, <1>5, <1>6, <1>7 DEF Step

(* The three writes of rv_timer_arm: the upper half is out of reach, then  *)
(* the lower half is the threshold's, then both are.                       *)
LEMMA StepArmed == ASSUME TimerInv, Step PROVE Armed'
<1> DEFINE o == todo[1]
<1>0. /\ Head(todo) = o /\ o \in Ops /\ o.hart \in Hart /\ o.val \in 0 .. Max64
      /\ todo # <<>>
  BY StepTodo DEF Ops, Step
<1>1. /\ Head(todo) = o /\ o.hart \in Hart /\ o.val \in 0 .. Max64 /\ o.val \in Nat
      /\ todo' # <<>> /\ NeedsPrev(todo'[1]) => Pair(o, todo'[1])
      /\ NeedsNext(o) => todo' # <<>> /\ Pair(o, todo'[1])
  BY <1>0, StepTodo, Constants
<1>2. /\ mtimecmp \in [Hart -> 0 .. Max64] /\ asked \in [Hart -> 0 .. Max64]
      /\ \A h \in Hart : mtimecmp[h] \in Nat
  BY Constants DEF TimerInv, TimerTypes
<1>3. \A h \in Hart :
        /\ ~Arming(h) => mtimecmp[h] = asked[h]
        /\ Arming(h) => /\ mtimecmp[h] >= (B - 1) * B
                        /\ o.val = asked[h]
                        /\ o.op = "upper" => Lower(mtimecmp[h]) = Lower(asked[h])
  BY DEF TimerInv, Armed
<1>4. /\ mtimecmp' =
           CASE o.op = "ask" -> [mtimecmp EXCEPT ![o.hart] = (B - 1) * B + Lower(mtimecmp[o.hart])]
             [] o.op = "lower" ->
                  [mtimecmp EXCEPT ![o.hart] = Upper(mtimecmp[o.hart]) * B + Lower(o.val)]
             [] o.op = "upper" ->
                  [mtimecmp EXCEPT ![o.hart] = Upper(o.val) * B + Lower(mtimecmp[o.hart])]
             [] OTHER -> mtimecmp
      /\ asked' = IF o.op = "ask" THEN [asked EXCEPT ![o.hart] = o.val] ELSE asked
  BY <1>1 DEF Step, Device
<1>5. /\ Lower(mtimecmp[o.hart]) \in 0 .. B - 1 /\ Lower(o.val) \in 0 .. B - 1
      /\ (B - 1) * B \in Nat /\ B - 1 \in 0 .. B - 1
  <2>1. Lower(mtimecmp[o.hart]) \in 0 .. B - 1 /\ Lower(o.val) \in 0 .. B - 1
    BY <1>1, <1>2, Halves
  <2>2. (B - 1) * B \in Nat /\ B - 1 \in 0 .. B - 1
    BY Constants
  <2> QED BY <2>1, <2>2
<1>6. \A h \in Hart : Arming(h) <=> o.op \in {"lower", "upper"} /\ h = o.hart
  BY <1>0 DEF Arming
<1>7. \A h \in Hart : Arming(h)' <=>
        todo' # <<>> /\ todo'[1].op \in {"lower", "upper"} /\ h = todo'[1].hart
  BY DEF Arming
<1> HIDE DEF o
<1>8. CASE o.op = "ask"
  <2>1. /\ todo' # <<>> /\ todo'[1].op = "lower" /\ todo'[1].hart = o.hart
        /\ todo'[1].val = o.val
    BY <1>1, <1>8 DEF NeedsNext, Pair
  <2>2. /\ mtimecmp'[o.hart] >= (B - 1) * B /\ asked'[o.hart] = o.val
        /\ \A h \in Hart \ {o.hart} : mtimecmp'[h] = mtimecmp[h] /\ asked'[h] = asked[h]
    BY <1>1, <1>2, <1>4, <1>5, <1>8
  <2> QED BY <1>1, <1>3, <1>6, <1>7, <1>8, <2>1, <2>2 DEF Armed
<1>9. CASE o.op = "lower"
  <2>1. /\ todo' # <<>> /\ todo'[1].op = "upper" /\ todo'[1].hart = o.hart
        /\ todo'[1].val = o.val
    BY <1>1, <1>9 DEF NeedsNext, Pair
  <2>2. /\ mtimecmp[o.hart] >= (B - 1) * B /\ o.val = asked[o.hart]
    BY <1>1, <1>3, <1>6, <1>9
  <2>3. Upper(mtimecmp[o.hart]) = B - 1
    BY <1>1, <1>2, <2>2, UpperRange
  <2>4. mtimecmp'[o.hart] = (B - 1) * B + Lower(o.val) /\ asked' = asked
    BY <1>1, <1>2, <1>4, <1>9, <2>3
  <2>5. Lower(mtimecmp'[o.hart]) = Lower(o.val) /\ mtimecmp'[o.hart] >= (B - 1) * B
    BY <1>5, <2>4, Join
  <2>6. \A h \in Hart \ {o.hart} : mtimecmp'[h] = mtimecmp[h]
    BY <1>1, <1>2, <1>4, <1>9
  <2> QED BY <1>1, <1>3, <1>6, <1>7, <1>9, <2>1, <2>2, <2>4, <2>5, <2>6 DEF Armed
<1>10. CASE o.op = "upper"
  <2>1. ~(todo' # <<>> /\ todo'[1].op \in {"lower", "upper"})
    BY <1>1, <1>10 DEF NeedsPrev, Pair
  <2>2. /\ o.val = asked[o.hart] /\ Lower(mtimecmp[o.hart]) = Lower(o.val)
    BY <1>1, <1>3, <1>6, <1>10
  <2>3. o.val = Upper(o.val) * B + Lower(o.val)
    BY <1>1, Halves
  <2>4. mtimecmp'[o.hart] = o.val /\ asked' = asked
    BY <1>1, <1>2, <1>4, <1>10, <2>2, <2>3
  <2>5. \A h \in Hart \ {o.hart} : mtimecmp'[h] = mtimecmp[h]
    BY <1>1, <1>2, <1>4, <1>10
  <2> QED BY <1>1, <1>3, <1>6, <1>7, <1>10, <2>1, <2>2, <2>4, <2>5 DEF Armed
<1>11. CASE o.op \notin {"ask", "lower", "upper"}
  <2>1. ~(todo' # <<>> /\ todo'[1].op \in {"lower", "upper"})
    BY <1>1, <1>11 DEF NeedsPrev, Pair
  <2>2. UNCHANGED <<mtimecmp, asked>>
    BY <1>4, <1>11
  <2> QED BY <1>3, <1>6, <1>7, <1>11, <2>1, <2>2 DEF Armed
<1> QED BY <1>8, <1>9, <1>10, <1>11

(* The three reads of rv_timer_counter_read: when the upper half is the    *)
(* same before and after, it was the same when the lower half was read.    *)
LEMMA StepReading == ASSUME TimerInv, Step PROVE Reading'
<1> DEFINE o == todo[1]
<1>1. /\ Head(todo) = o /\ o \in Ops /\ o.hart \in Hart /\ todo # <<>>
      /\ todo' # <<>> /\ NeedsPrev(todo'[1]) => Pair(o, todo'[1])
      /\ NeedsNext(o) => todo' # <<>> /\ Pair(o, todo'[1])
      /\ o.op = "read_check" /\ todo' # <<>> /\ NeedsPrev(todo'[1]) =>
           loc.upper = Upper(mtime[o.hart])
  BY StepTodo DEF Ops, Step
<1>2. /\ \A h \in Hart : mtime[h] \in Nat
      /\ loc \in [ctrl : SUBSET Hart, upper : Nat, lower : Nat, out : Nat] /\ from \in Nat
  BY Constants DEF TimerInv, TimerTypes
<1>3. /\ o.op = "read_lower" => from <= mtime[o.hart] /\ loc.upper = Upper(from)
      /\ o.op = "read_check" => \E v \in Nat : Halfway(o.hart, v)
  BY <1>1 DEF TimerInv, Reading
<1>4. /\ o.op = "read_upper" => /\ loc' = [loc EXCEPT !.upper = Upper(mtime[o.hart])]
                                /\ from' = mtime[o.hart]
      /\ o.op = "read_lower" => /\ loc' = [loc EXCEPT !.lower = Lower(mtime[o.hart]),
                                             !.out = loc.upper * B + Lower(mtime[o.hart])]
                                /\ from' = from
      /\ o.op = "read_check" => loc' = loc /\ from' = from
      /\ o.op \in {"read_upper", "read_lower", "read_check"} => mtime' = mtime
  BY <1>1 DEF Step, Device
<1> HIDE DEF o
<1>5. CASE o.op = "read_upper"
  <2>1. todo' # <<>> /\ todo'[1].op = "read_lower" /\ todo'[1].hart = o.hart
    BY <1>1, <1>5 DEF NeedsNext, Pair
  <2>2. /\ from' = mtime[o.hart] /\ mtime' = mtime /\ loc'.upper = Upper(mtime[o.hart])
        /\ mtime[o.hart] \in Nat
    BY <1>1, <1>2, <1>4, <1>5
  <2> QED BY <2>1, <2>2 DEF Reading
<1>6. CASE o.op = "read_lower"
  <2>1. todo' # <<>> /\ todo'[1].op = "read_check" /\ todo'[1].hart = o.hart
    BY <1>1, <1>6 DEF NeedsNext, Pair
  <2>2. /\ from' = from /\ mtime' = mtime /\ loc'.upper = Upper(from)
        /\ loc'.out = Upper(from) * B + Lower(mtime[o.hart])
        /\ mtime[o.hart] \in Nat /\ from <= mtime[o.hart]
    BY <1>1, <1>2, <1>3, <1>4, <1>6
  <2>3. \E v \in Nat :
          /\ from' <= v /\ v <= mtime'[todo'[1].hart]
          /\ loc'.upper = Upper(from') /\ loc'.out = Upper(from') * B + Lower(v)
    <3>1. /\ from' <= mtime[o.hart] /\ mtime[o.hart] <= mtime'[todo'[1].hart]
          /\ loc'.upper = Upper(from') /\ loc'.out = Upper(from') * B + Lower(mtime[o.hart])
      BY <2>1, <2>2
    <3> QED BY <2>2, <3>1
  <2> QED BY <2>1, <2>3 DEF Reading, Halfway
<1>7. CASE o.op = "read_check"
  <2> SUFFICES ASSUME todo' # <<>>, NeedsPrev(todo'[1]) PROVE Reading'
    BY DEF Reading, NeedsPrev
  <2>1. todo'[1].op \in {"val_start", "val_stop"} /\ o.hart = 0
    BY <1>1, <1>7 DEF Pair
  <2>2. PICK v \in Nat : Halfway(o.hart, v)
    BY <1>3, <1>7
  <2>3. /\ from <= v /\ v <= mtime[o.hart] /\ loc.upper = Upper(from)
        /\ loc.out = Upper(from) * B + Lower(v) /\ Upper(from) = Upper(mtime[o.hart])
    BY <1>1, <1>7, <2>2 DEF Halfway
  <2>4. Upper(v) = Upper(from)
    BY <1>1, <1>2, <2>3, UpperBetween
  <2>5. loc.out = v
    BY <2>3, <2>4, Halves
  <2>6. from' <= loc'.out /\ loc'.out <= mtime'[0]
    BY <1>4, <1>7, <2>1, <2>3, <2>5
  <2> QED BY <2>1, <2>6 DEF Reading
<1>8. CASE o.op \notin {"read_upper", "read_lower", "read_check"}
  <2>1. ~(todo' # <<>> /\ todo'[1].op \in {"read_lower", "read_check", "val_start", "val_stop"})
    BY <1>1, <1>8 DEF NeedsPrev, Pair
  <2> QED BY <2>1 DEF Reading
<1> QED BY <1>5, <1>6, <1>7, <1>8

(***************************************************************************)
(* The theorems.                                                           *)
(***************************************************************************)

\* TimerInv holds in every state: what the comparators hold between the
\* writes of rv_timer_arm, and what the thread knows of a counter between the
\* reads of rv_timer_counter_read, whatever the handler does in between.
THEOREM TimerInvariant == Spec => []TimerInv
<1>1. ASSUME TimerInv, [Next]_vars PROVE TimerInv'
  <2>1. CASE \E h \in Hart : Tick(h) \/ Alarm(h)
    BY <1>1, <2>1, TickInv
  <2>2. CASE CallSdk \/ \E h \in Hart : CallDriver(h)
    BY <1>1, <2>2, CallsInv
  <2>3. CASE Step
    BY <1>1, <2>3, StepTypes, StepArmed, StepReading DEF TimerInv
  <2>4. CASE Trap \/ Handler
    BY <1>1, <2>4, HandlerInv
  <2>5. CASE UNCHANGED vars
    BY <1>1, <2>5 DEF vars, TimerInv, TimerTypes, Armed, Arming, Reading, Halfway
  <2> QED BY <1>1, <2>1, <2>2, <2>3, <2>4, <2>5 DEF Next
<1> QED BY <1>1, InitTimer, PTL DEF Spec

\* rv_timer_counter_read: timer_start and timer_stop compute with a value that
\* the counter has had during the call.
THEOREM CounterReadIsCurrentHolds == Spec => []CounterReadIsCurrent
<1>1. TimerInv => CounterReadIsCurrent
  <2> SUFFICES ASSUME TimerInv, todo # <<>> PROVE CounterReadIsCurrent
    BY DEF CounterReadIsCurrent
  <2>1. Head(todo) = todo[1]
    BY TailRemainder DEF TimerInv, TimerTypes
  <2> QED BY <2>1 DEF TimerInv, Reading, CounterReadIsCurrent
<1> QED BY <1>1, TimerInvariant, PTL

\* rv_timer_arm and rv_timer_reset: the comparator sets off no alarm before the
\* threshold that was asked for.
THEOREM NoEarlyAlarmHolds == Spec => NoEarlyAlarm
<1> DEFINE Late == \A h \in Hart : h \in is' \ is /\ UNCHANGED <<todo, isr>> => mtime[h] >= asked[h]
<1>1. ASSUME TimerInv, [Next]_vars PROVE [Late]_vars
  <2> SUFFICES ASSUME NEW h \in Hart, h \in is', h \notin is, UNCHANGED <<todo, isr>>
               PROVE  mtime[h] >= asked[h]
    OBVIOUS
  <2> USE <1>1
  <2>1. ASSUME NEW g \in Hart, Alarm(g) PROVE mtime[h] >= asked[h]
    <3>1. g = h /\ mtime[h] >= mtimecmp[h]
      BY <2>1 DEF Alarm
    <3>2. mtime[h] \in 0 .. MaxTime /\ mtimecmp[h] \in 0 .. Max64
      BY DEF TimerInv, TimerTypes
    <3>3. ~(mtimecmp[h] >= (B - 1) * B)
      BY <3>1, <3>2, Constants
    <3>4. mtimecmp[h] = asked[h]
      BY <3>3 DEF TimerInv, Armed
    <3> QED BY <3>1, <3>4
  <2>2. ~Step
    <3> SUFFICES ASSUME Step PROVE FALSE
      OBVIOUS
    <3>0. todo \in Seq(Ops) /\ todo # <<>>
      BY DEF Step, TimerInv, TimerTypes, Remainder
    <3>1. /\ Head(todo) = todo[1] /\ todo[1].hart \in Hart
          /\ Len(Tail(todo)) = Len(todo) - 1 /\ Tail(todo) \in Seq(Ops) /\ Len(todo) \in Nat
      <4>1. /\ Head(todo) \in Ops
            /\ Len(Tail(todo)) = Len(todo) - 1 /\ Tail(todo) \in Seq(Ops) /\ Len(todo) \in Nat
        BY <3>0, HeadTailProperties
      <4>2. Head(todo) = todo[1]
        BY <3>0
      <4> QED BY <4>1, <4>2 DEF Ops
    <3>2. Tail(todo) # todo
      <4>0. Len(Tail(todo)) = Len(todo) - 1 /\ Len(todo) \in Nat
        BY <3>1
      <4>1. Len(Tail(todo)) # Len(todo)
        BY ONLY <4>0
      <4> QED BY ONLY <4>1
    <3>3. rv_timer_counter_read(todo[1].hart) \o Tail(todo) # todo
      <4> DEFINE r == rv_timer_counter_read(todo[1].hart)
      <4>1. r \in Seq(Ops) /\ Len(r) = 3
        BY <3>1, GroupScripts, Constants DEF Script, Remainder, rv_timer_counter_read
      <4> HIDE DEF r
      <4>2. Len(r \o Tail(todo)) = 3 + Len(todo) - 1
        <5>1. Len(r \o Tail(todo)) = Len(r) + Len(Tail(todo))
          BY ONLY <3>1, <4>1, ConcatProperties
        <5> QED BY ONLY <3>1, <4>1, <5>1
      <4>3. Len(r \o Tail(todo)) # Len(todo)
        BY <3>1, <4>2
      <4> QED BY <4>3 DEF r
    <3> QED BY <3>0, <3>1, <3>2, <3>3 DEF Step
  <2>3. ~Trap
    <3>1. handler_irq_timer # <<>>
      <4> DEFINE a == <<Op("read_ctrl", 0, 0), Op("clear_ctrl", 0, 0)>>
                 b == <<Op("is_clear", 0, 0)>>
      <4>1. a \in Seq(HandlerOps) /\ b \in Seq(HandlerOps) /\ Len(a) = 2 /\ Len(b) = 1
        BY Constants DEF Op, HandlerOps
      <4>2. handler_irq_timer = a \o b
        BY DEF handler_irq_timer, timer_arm_stop, rv_timer_counter_set_enabled,
               rv_timer_irq_clear
      <4> HIDE DEF a, b
      <4>3. Len(handler_irq_timer) = 3
        <5>1. Len(a \o b) = Len(a) + Len(b)
          BY ONLY <4>1, ConcatProperties
        <5> QED BY ONLY <4>1, <4>2, <5>1
      <4>4. Len(<<>>) = 0
        OBVIOUS
      <4> QED BY ONLY <4>3, <4>4
    <3> QED BY <3>1 DEF Trap
  <2>4. ~Handler
    <3>1. isr # <<>> => Tail(isr) # isr
      <4> SUFFICES ASSUME isr # <<>> PROVE Tail(isr) # isr
        OBVIOUS
      <4>1. Len(Tail(isr)) = Len(isr) - 1 /\ Len(isr) \in Nat
        BY HeadTailProperties DEF TimerInv, TimerTypes
      <4>2. Len(Tail(isr)) # Len(isr)
        BY ONLY <4>1
      <4> QED BY ONLY <4>2
    <3> QED BY <3>1 DEF Handler
  <2>5. \A g \in Hart : ~Tick(g)
    BY DEF Tick
  <2>6. ~CallSdk /\ \A g \in Hart : ~CallDriver(g)
    BY DEF CallSdk, CallDriver, Call, dev
  <2>7. ~UNCHANGED vars
    BY DEF vars
  <2> QED BY <2>1, <2>2, <2>3, <2>4, <2>5, <2>6, <2>7 DEF Next
<1> QED BY <1>1, TimerInvariant, PTL DEF Spec, NoEarlyAlarm
=============================================================================
