------------------------- MODULE PowerManagerProofs -------------------------
(***************************************************************************)
(* Proofs about PowerManager, for every number of domains, interrupts and  *)
(* calls, every width of the counters and every set of counter values:     *)
(*   - the registers and the calls keep their types (PowerTypes);          *)
(*   - the core is switched off only when it was asked to and comes back   *)
(*     to the call it left (CoreInv);                                      *)
(*   - a domain without supply is isolated, and switches move in order     *)
(*     (CoreInv for the core, DomInv for the other domains).               *)
(*                                                                         *)
(* CoreInv is a disjunction of the phases of the core: Serving, Storing,   *)
(* Falling, Rising, Restoring and Cleaning.  DomInv says of every domain   *)
(* that it rests on or off, and of the one that a call is working on how   *)
(* far the call, its registers, its sequencers and its supply have got.    *)
(* Early and Patient are as in the runs: no interrupt comes before the     *)
(* core is off, and the application polls a domain it has switched.        *)
(***************************************************************************)
EXTENDS PowerManager, TLAPS, SequenceTheorems

(***************************************************************************)
(* Types.                                                                  *)
(***************************************************************************)
Bits == Regs \ (Counters \cup {"en_wait_for_intr"})
DomAccesses ==
  [op : {"put"}, dom : Domains, field : Fields, val : BOOLEAN]
  \cup [op : {"poll"}, dom : Domains, off : BOOLEAN]
Accesses ==
  [op : {"set"}, field : Counters, val : 0 .. Width - 1]
  \cup [op : {"set"}, field : {"en_wait_for_intr"}, val : SUBSET Irqs]
  \cup [op : {"set"}, field : Bits, val : BOOLEAN]
  \cup DomAccesses
  \cup [op : {"save", "wfi", "load", "boot", "stray"}]

RegTypes(r) ==
  /\ DOMAIN r = Regs /\ r = [f \in Regs |-> r[f]]
  /\ \A k \in Counters : r[k] \in 0 .. Width - 1
  /\ r["en_wait_for_intr"] \subseteq Irqs
  /\ \A f \in Bits : r[f] \in BOOLEAN
HwTypes ==
  /\ seq \in [Signals -> SeqStates] /\ out \in [Signals -> BOOLEAN]
  /\ ctr \in [Counters -> {"idle", "count", "expire"}]
  /\ dseq \in [Domains -> [DomSignals -> SeqStates \ {"WAIT_OFF", "SWITCH_OFF"}]]
  /\ dout \in [Domains -> [DomSignals -> BOOLEAN]]
  /\ vdd \in [Domains \cup {Cpu} -> BOOLEAN] /\ ack \in [Domains \cup {Cpu} -> BOOLEAN]
CoreTypes ==
  /\ pend \subseteq Irqs /\ core \in {"run", "sleep", "lost"}
  /\ todo \in Seq(Accesses) /\ Len(todo) <= 15 /\ (core = "sleep" => todo # <<>>)
  /\ saved \in [ctx : Lost .. MaxCalls, ret : {<<>>, CleanUp}]
  /\ ctx \in Lost .. MaxCalls /\ calls \in 0 .. MaxCalls
  /\ want \in [Domains -> SelStates]
PowerTypes ==
  RegTypes(reg) /\ dreg \in [Domains -> [Fields -> BOOLEAN]] /\ HwTypes /\ CoreTypes

(* A sequence over a set is one over every larger set.                     *)
LEMMA SeqMono ==
  ASSUME NEW S, NEW R, S \subseteq R, NEW s \in Seq(S)
  PROVE  s \in Seq(R)
<1>1. s = [j \in 1 .. Len(s) |-> s[j]] /\ Len(s) \in Nat
  OBVIOUS
<1>2. \A j \in 1 .. Len(s) : s[j] \in R
  OBVIOUS
<1> QED BY <1>1, <1>2, SeqDef

(* The scripts consist of accesses the registers have room for. *)
LEMMA AccessTypes ==
  /\ \A k \in Counters, n \in 0 .. Width - 1 : Set(k, n) \in Accesses
  /\ \A i \in SUBSET Irqs : Set("en_wait_for_intr", i) \in Accesses
  /\ \A f \in Bits, v \in BOOLEAN : Set(f, v) \in Accesses
  /\ \A d \in Domains, f \in Fields, v \in BOOLEAN : Put(d, f, v) \in Accesses
  /\ \A d \in Domains, v \in BOOLEAN : Poll(d, v) \in Accesses
  /\ Do("save") \in Accesses /\ Do("wfi") \in Accesses
  /\ Do("load") \in Accesses /\ Do("boot") \in Accesses /\ Do("stray") \in Accesses
BY DEF Accesses, DomAccesses, Set, Put, Poll, Do

(* The accesses of power_manager_pwr_gate_core, at most 15 of them.        *)
LEMMA CoreScriptTypes ==
  ASSUME NEW i \in Irqs, NEW c \in CounterValues
  PROVE  /\ power_manager_pwr_gate_core(i, c) \in Seq(Accesses)
         /\ Len(power_manager_pwr_gate_core(i, c)) <= 15
<1>1. \A k \in Counters : c[k] \in 0 .. Width - 1
  BY CounterAssumption, WidthAssumption
<1>2. /\ <<Set("reset_off", c.reset_off), Set("reset_on", c.reset_on),
           Set("switch_off", c.switch_off), Set("switch_on", c.switch_on),
           Set("iso_off", c.iso_off), Set("iso_on", c.iso_on),
           Set("en_wait_for_intr", {i}), Set("wait_ack", TRUE)>> \in Seq(Accesses)
  BY <1>1 DEF Accesses, DomAccesses, Bits, Regs, Counters, Set
<1>3. CleanUp \in Seq(Accesses)
  BY DEF CleanUp, Accesses, DomAccesses, Bits, Regs, Counters, Set
<1>4. power_manager_cpu_store \in Seq(Accesses)
  BY DEF power_manager_cpu_store, Accesses, DomAccesses, Bits, Regs, Counters, Set, Do
<1>5. power_manager_pwr_gate_core(i, c) \in Seq(Accesses)
  BY <1>2, <1>3, <1>4, ConcatProperties DEF power_manager_pwr_gate_core
<1>6. Len(power_manager_pwr_gate_core(i, c)) <= 15
  BY DEF power_manager_pwr_gate_core, power_manager_cpu_store, CleanUp
<1> QED BY <1>5, <1>6

(* The accesses of power_manager_cpu_restore and of what follows it.       *)
LEMMA RestoreTypes ==
  /\ power_manager_cpu_restore \in Seq(Accesses) /\ Len(power_manager_cpu_restore) <= 15
  /\ CleanUp \in Seq(Accesses) /\ Len(CleanUp) <= 15
BY DEF power_manager_cpu_restore, CleanUp, Accesses, DomAccesses, Bits, Regs, Counters, Set, Do

(* The accesses of a call that gates a domain, with and without its poll.  *)
LEMMA DomainScriptTypes ==
  ASSUME NEW d \in Domains, NEW s \in SelStates, NEW off \in BOOLEAN
  PROVE  /\ Gate(d, s) \in Seq(DomAccesses) /\ Len(Gate(d, s)) <= 4
         /\ Gate(d, s) \o <<Poll(d, off)>> \in Seq(DomAccesses)
         /\ Gate(d, s) \o <<>> \in Seq(DomAccesses)
         /\ Len(Gate(d, s) \o <<Poll(d, off)>>) <= 15 /\ Len(Gate(d, s) \o <<>>) <= 15
<1>1. Retention(d, s) \in Seq(DomAccesses) /\ Len(Retention(d, s)) <= 4
  BY DEF Retention, DomAccesses, Fields, DomSignals, Signals, Put
<1>2. Gate(d, s) \in Seq(DomAccesses) /\ Len(Gate(d, s)) <= 4
  <2>1. CASE Kind[d] = "periph"
    <3>1. /\ <<Put(d, "wait_ack", TRUE)>> \in Seq(DomAccesses)
          /\ <<Put(d, "switch", FALSE), Put(d, "iso", FALSE), Put(d, "reset", FALSE)>> \in Seq(DomAccesses)
          /\ <<Put(d, "iso", TRUE), Put(d, "switch", TRUE), Put(d, "reset", TRUE)>> \in Seq(DomAccesses)
      BY DEF DomAccesses, Fields, DomSignals, Signals, Put
    <3>2. power_manager_pwr_gate_periph(d, s) \in Seq(DomAccesses)
      BY <3>1, ConcatProperties DEF power_manager_pwr_gate_periph
    <3>3. Len(power_manager_pwr_gate_periph(d, s)) <= 4
      BY DEF power_manager_pwr_gate_periph
    <3>4. Gate(d, s) = power_manager_pwr_gate_periph(d, s)
      BY <2>1 DEF Gate
    <3> QED BY <3>2, <3>3, <3>4, Zenon
  <2>2. CASE Kind[d] = "ram"
    <3>1. CASE s = "kOn"
      BY <2>2, <3>1 DEF Gate, power_manager_pwr_gate_ram_block, DomAccesses, Fields, DomSignals, Signals, Put
    <3>2. CASE s = "kOff"
      BY <2>2, <3>2 DEF Gate, power_manager_pwr_gate_ram_block, DomAccesses, Fields, DomSignals, Signals, Put
    <3>3. CASE s \notin {"kOn", "kOff"}
      <4>1. Gate(d, s) = Retention(d, s)
        BY <2>2, <3>3 DEF Gate, power_manager_pwr_gate_ram_block
      <4> QED BY <1>1, <4>1, Zenon
    <3> QED BY <3>1, <3>2, <3>3
  <2>3. CASE Kind[d] = "external"
    <3>1. CASE s = "kOn"
      BY <2>3, <3>1 DEF Gate, power_manager_pwr_gate_external, DomAccesses, Fields, DomSignals, Signals, Put
    <3>2. CASE s = "kOff"
      BY <2>3, <3>2 DEF Gate, power_manager_pwr_gate_external, DomAccesses, Fields, DomSignals, Signals, Put
    <3>3. CASE s \notin {"kOn", "kOff"}
      <4>1. Gate(d, s) = Retention(d, s)
        BY <2>3, <3>3 DEF Gate, power_manager_pwr_gate_external
      <4> QED BY <1>1, <4>1, Zenon
    <3> QED BY <3>1, <3>2, <3>3
  <2> QED BY <2>1, <2>2, <2>3, KindAssumption
<1>3. <<Poll(d, off)>> \in Seq(DomAccesses) /\ Len(<<Poll(d, off)>>) = 1
      /\ <<>> \in Seq(DomAccesses) /\ Len(<<>>) = 0
  BY DEF DomAccesses, Poll
<1> QED BY <1>2, <1>3, ConcatProperties

(* After a reset everything has its type.                                  *)
LEMMA InitTypes == Init => PowerTypes
<1> SUFFICES ASSUME Init PROVE PowerTypes
  OBVIOUS
<1>1. RegTypes(reg)
  <2>1. reg = [f \in Regs |-> CASE f \in Counters -> 0 [] f = "en_wait_for_intr" -> {}
                                [] OTHER -> FALSE]
    BY DEF Init
  <2>2. \A k \in Counters : reg[k] \in 0 .. Width - 1
    <3> SUFFICES ASSUME NEW k \in Counters PROVE reg[k] \in 0 .. Width - 1
      OBVIOUS
    <3>1. k \in Regs /\ k # "en_wait_for_intr"
      BY DEF Regs, Counters
    <3>2. reg[k] = 0
      BY <2>1, <3>1
    <3> QED BY <3>2, WidthAssumption
  <2>3. reg["en_wait_for_intr"] = {}
    BY <2>1 DEF Regs, Counters
  <2>4. \A f \in Bits : reg[f] \in BOOLEAN
    BY <2>1 DEF Bits, Regs
  <2>5. DOMAIN reg = Regs /\ reg = [f \in Regs |-> reg[f]]
    BY <2>1
  <2> QED BY <2>2, <2>3, <2>4, <2>5 DEF RegTypes
<1>2. dreg \in [Domains -> [Fields -> BOOLEAN]] /\ HwTypes
  BY DEF Init, HwTypes, SeqStates
<1>3. CoreTypes
  BY WidthAssumption DEF Init, CoreTypes, Lost, SelStates
<1> QED BY <1>1, <1>2, <1>3 DEF PowerTypes

(* The hardware's half of a cycle: reg_to_counter and the sequencers. *)
LEMMA CountedTypes ==
  ASSUME PowerTypes, NEW w, RegTypes(w)
  PROVE  RegTypes(Counted(w))
<1> DEFINE r == Counted(w)
<1>1. \A k \in Counters : reg[k] \in 0 .. Width - 1 /\ w[k] \in 0 .. Width - 1
  BY DEF PowerTypes, RegTypes
<1>2. \A n \in 0 .. Width - 1 : (n - 1) % Width \in 0 .. Width - 1
  BY WidthAssumption
<1>3. DOMAIN w = Regs /\ r = [f \in Regs |-> r[f]]
  BY DEF RegTypes, Counted
<1>4. \A k \in Counters : r[k] \in 0 .. Width - 1
  <2> SUFFICES ASSUME NEW k \in Counters PROVE r[k] \in 0 .. Width - 1
    OBVIOUS
  <2>1. k \in DOMAIN w
    BY <1>3 DEF Regs
  <2>2. r[k] = IF Decrements(ctr[k], Started(k)) THEN (reg[k] - 1) % Width ELSE w[k]
    BY <2>1 DEF Counted
  <2> QED BY <1>1, <1>2, <2>2
<1>5. \A f \in Regs \ Counters : r[f] = w[f]
  BY <1>3 DEF Counted
<1>6. "en_wait_for_intr" \in Regs \ Counters /\ Bits \subseteq Regs \ Counters
  BY DEF Bits, Regs, Counters
<1>7. r["en_wait_for_intr"] \subseteq Irqs /\ \A f \in Bits : r[f] \in BOOLEAN
  BY <1>5, <1>6 DEF RegTypes
<1>8. DOMAIN r = Regs
  BY <1>3
<1> HIDE DEF r
<1>9. RegTypes(r)
  BY <1>3, <1>4, <1>7, <1>8 DEF RegTypes
<1> QED BY <1>9 DEF r

(* A cycle keeps the states and the outputs of the sequencers in their types.*)
LEMMA ClockTypes ==
  ASSUME PowerTypes, Clock
  PROVE  /\ seq' \in [Signals -> SeqStates] /\ out' \in [Signals -> BOOLEAN]
         /\ ctr' \in [Counters -> {"idle", "count", "expire"}]
         /\ dseq' \in [Domains -> [DomSignals -> SeqStates \ {"WAIT_OFF", "SWITCH_OFF"}]]
         /\ dout' \in [Domains -> [DomSignals -> BOOLEAN]]
<1>1. out' \in [Signals -> BOOLEAN] /\ dout' \in [Domains -> [DomSignals -> BOOLEAN]]
  BY DEF Clock, SeqOut, DomOut
<1>2. seq' \in [Signals -> SeqStates]
  <2>1. \A x \in Signals : seq'[x] \in SeqStates
    BY DEF Clock, PowerTypes, HwTypes, SeqNext, SeqStates
  <2> QED BY <2>1 DEF Clock
<1>3. ctr' \in [Counters -> {"idle", "count", "expire"}]
  <2>1. \A k \in Counters : ctr'[k] \in {"idle", "count", "expire"}
    BY DEF Clock, PowerTypes, HwTypes, CtrNext
  <2> QED BY <2>1 DEF Clock
<1>4. dseq' \in [Domains -> [DomSignals -> SeqStates \ {"WAIT_OFF", "SWITCH_OFF"}]]
  <2>1. \A d \in Domains, x \in DomSignals : dseq[d][x] \in SeqStates \ {"WAIT_OFF", "SWITCH_OFF"}
    BY DEF PowerTypes, HwTypes
  <2>2. \A d \in Domains, x \in DomSignals : dseq'[d][x] \in SeqStates \ {"WAIT_OFF", "SWITCH_OFF"}
    BY <2>1 DEF Clock, DomNext, SeqStates
  <2> QED BY <2>2 DEF Clock
<1> QED BY <1>1, <1>2, <1>3, <1>4

(* What an access writes to the registers of the core's domain. *)
LEMMA Written ==
  ASSUME PowerTypes, todo # <<>>, NEW o, o = Head(todo)
  PROVE  RegTypes(IF o.op = "set" THEN [reg EXCEPT ![o.field] = o.val] ELSE reg)
<1> DEFINE w == IF o.op = "set" THEN [reg EXCEPT ![o.field] = o.val] ELSE reg
<1>1. o \in Accesses
  BY DEF PowerTypes, CoreTypes
<1>2. RegTypes(w)
  <2>1. CASE o.op # "set"
    BY <2>1 DEF PowerTypes
  <2>2. CASE o.op = "set"
    <3> DEFINE f == o.field
               v == o.val
    <3>1. w = [reg EXCEPT ![f] = v]
      BY <2>2
    <3>2. \/ f \in Counters /\ v \in 0 .. Width - 1
          \/ f = "en_wait_for_intr" /\ v \subseteq Irqs
          \/ f \in Bits /\ v \in BOOLEAN
      BY <1>1, <2>2 DEF Accesses, DomAccesses
    <3> HIDE DEF f, v, w
    <3>3. "en_wait_for_intr" \notin Counters /\ "en_wait_for_intr" \notin Bits
      BY DEF Counters, Bits
    <3>4. DOMAIN reg = Regs /\ f \in Regs
      BY <3>2 DEF PowerTypes, RegTypes, Bits, Regs
    <3>5. w[f] = v /\ \A g \in Regs : g # f => w[g] = reg[g]
      BY <3>1, <3>4
    <3>6. DOMAIN w = Regs /\ w = [g \in Regs |-> w[g]]
      BY <3>1, <3>4
    <3>7. Counters \subseteq Regs /\ Bits \subseteq Regs /\ Counters \cap Bits = {}
          /\ "en_wait_for_intr" \in Regs
      BY DEF Regs, Bits
    <3>8. \A k \in Counters : w[k] \in 0 .. Width - 1
      BY <3>2, <3>3, <3>5, <3>7 DEF PowerTypes, RegTypes
    <3>9. w["en_wait_for_intr"] \subseteq Irqs
      BY <3>2, <3>3, <3>5, <3>7 DEF PowerTypes, RegTypes
    <3>10. \A g \in Bits : w[g] \in BOOLEAN
      BY <3>2, <3>3, <3>5, <3>7 DEF PowerTypes, RegTypes
    <3> QED BY <3>6, <3>8, <3>9, <3>10 DEF RegTypes
  <2> QED BY <2>1, <2>2
<1> QED BY <1>2

(* An access leaves the registers, the core and the call well typed. *)
LEMMA AccessTypesKept ==
  ASSUME PowerTypes, Access, UNCHANGED <<pend, calls, want>>
  PROVE  RegTypes(reg') /\ dreg' \in [Domains -> [Fields -> BOOLEAN]] /\ CoreTypes'
<1> DEFINE o == Head(todo)
           w == IF o.op = "set" THEN [reg EXCEPT ![o.field] = o.val] ELSE reg
<1>1. /\ todo # <<>> /\ o \in Accesses /\ Tail(todo) \in Seq(Accesses)
      /\ Len(Tail(todo)) <= 15
  BY HeadTailProperties DEF Access, PowerTypes, CoreTypes
<1>2. RegTypes(w)
  BY <1>1, Written
<1>3. reg' = Counted(w)
  BY DEF Access
<1>4. RegTypes(reg')
  BY <1>2, <1>3, CountedTypes
<1>5. dreg' \in [Domains -> [Fields -> BOOLEAN]]
  <2>1. CASE o.op # "put"
    BY <2>1 DEF Access, PowerTypes
  <2>2. CASE o.op = "put"
    <3>1. o.dom \in Domains /\ o.field \in Fields /\ o.val \in BOOLEAN
      BY <1>1, <2>2 DEF Accesses, DomAccesses
    <3>2. dreg' = [dreg EXCEPT ![o.dom][o.field] = o.val]
      BY <2>2 DEF Access
    <3> HIDE DEF o
    <3> QED BY <3>1, <3>2 DEF PowerTypes
  <2> QED BY <2>1, <2>2
<1>6. core' \in {"run", "sleep"} /\ (core' = "sleep" => o.op = "wfi" /\ pend = {})
  BY DEF Access
<1>7. /\ saved' \in [ctx : Lost .. MaxCalls, ret : {<<>>, CleanUp}]
      /\ ctx' \in Lost .. MaxCalls
  BY DEF Access, PowerTypes, CoreTypes
<1>8. /\ todo' \in Seq(Accesses) /\ Len(todo') <= 15
      /\ o.op = "wfi" /\ pend = {} => todo' = todo
  <2>1. CASE o.op = "wfi" /\ pend = {}
    BY <2>1 DEF Access, PowerTypes, CoreTypes
  <2>2. CASE o.op = "load"
    <3>1. todo' = saved.ret /\ saved.ret \in {<<>>, CleanUp}
      BY <2>2 DEF Access, PowerTypes, CoreTypes
    <3>2. Len(<<>>) <= 15 /\ <<>> \in Seq(Accesses)
      OBVIOUS
    <3> QED BY <2>2, <3>1, <3>2, RestoreTypes, Zenon
  <2>3. CASE o.op = "boot"
    <3>1. todo' \in {<<>>, power_manager_cpu_restore, <<Do("stray")>>}
      BY <2>3 DEF Access, entry
    <3>2. Len(<<>>) <= 15 /\ <<>> \in Seq(Accesses)
      OBVIOUS
    <3>3. Len(<<Do("stray")>>) <= 15 /\ <<Do("stray")>> \in Seq(Accesses)
      BY AccessTypes
    <3> QED BY <2>3, <3>1, <3>2, <3>3, RestoreTypes, Zenon
  <2>4. CASE ~(o.op = "wfi" /\ pend = {}) /\ o.op # "load" /\ o.op # "boot"
    <3>1. todo' = todo \/ todo' = Tail(todo)
      BY <2>4 DEF Access
    <3> QED BY <1>1, <2>4, <3>1 DEF PowerTypes, CoreTypes
  <2> QED BY <2>1, <2>2, <2>3, <2>4
<1>9. /\ pend' \subseteq Irqs /\ calls' \in 0 .. MaxCalls /\ want' \in [Domains -> SelStates]
  BY DEF PowerTypes, CoreTypes
<1>10. core' \in {"run", "sleep", "lost"} /\ (core' = "sleep" => todo' # <<>>)
  BY <1>1, <1>6, <1>8
<1> QED BY <1>4, <1>5, <1>7, <1>8, <1>9, <1>10 DEF CoreTypes

(* A cycle without an access keeps the types.                              *)
LEMMA NoAccessTypesKept ==
  ASSUME PowerTypes, NoAccess, UNCHANGED <<pend, calls, want>>
  PROVE  RegTypes(reg') /\ dreg' \in [Domains -> [Fields -> BOOLEAN]] /\ CoreTypes'
<1>1. RegTypes(reg')
  BY CountedTypes DEF NoAccess, PowerTypes
<1>2. dreg' \in [Domains -> [Fields -> BOOLEAN]]
  BY DEF NoAccess, PowerTypes
<1>3. <<Do("boot")>> \in Seq(Accesses) /\ Len(<<Do("boot")>>) <= 15 /\ <<Do("boot")>> # <<>>
  BY DEF Accesses, DomAccesses, Do
<1>4. /\ saved' \in [ctx : Lost .. MaxCalls, ret : {<<>>, CleanUp}]
      /\ pend' \subseteq Irqs /\ calls' \in 0 .. MaxCalls /\ want' \in [Domains -> SelStates]
  BY DEF NoAccess, PowerTypes, CoreTypes
<1>5. Lost \in Lost .. MaxCalls
  BY WidthAssumption DEF Lost
<1>6. /\ core' \in {"run", "sleep", "lost"} /\ ctx' \in Lost .. MaxCalls
      /\ todo' \in Seq(Accesses) /\ Len(todo') <= 15 /\ (core' = "sleep" => todo' # <<>>)
  <2>1. CASE ~Alive
    <3>1. core' = "lost" /\ todo' = <<Do("boot")>> /\ ctx' = Lost
      BY <2>1 DEF NoAccess
    <3>2. core' # "sleep"
      BY <3>1
    <3>3. todo' \in Seq(Accesses) /\ Len(todo') <= 15
      BY <1>3, <3>1, Zenon
    <3> QED BY <1>5, <3>1, <3>2, <3>3
  <2>2. CASE Alive /\ core = "lost"
    BY <2>2 DEF NoAccess, PowerTypes, CoreTypes
  <2>3. CASE Alive /\ core = "sleep" /\ pend # {}
    <3>1. core' = "run" /\ todo' = Tail(todo) /\ ctx' = ctx
      BY <2>3 DEF NoAccess
    <3>2. todo # <<>> /\ todo \in Seq(Accesses) /\ Len(todo) <= 15
      BY <2>3 DEF PowerTypes, CoreTypes
    <3>3. Tail(todo) \in Seq(Accesses) /\ Len(Tail(todo)) <= 15
      BY <3>2, HeadTailProperties
    <3> QED BY <3>1, <3>3 DEF PowerTypes, CoreTypes
  <2>4. CASE Alive /\ core # "lost" /\ ~(core = "sleep" /\ pend # {})
    BY <2>4 DEF NoAccess, PowerTypes, CoreTypes
  <2> QED BY <2>1, <2>2, <2>3, <2>4
<1> QED BY <1>1, <1>2, <1>4, <1>6 DEF CoreTypes

(* Every cycle keeps the types.                                            *)
LEMMA TickTypes ==
  ASSUME PowerTypes, NEW busy \in BOOLEAN, Tick(busy)
  PROVE  PowerTypes'
<1>1. Clock /\ (Access \/ NoAccess) /\ UNCHANGED <<ack, pend, calls, want>>
  BY DEF Tick
<1>2. RegTypes(reg') /\ dreg' \in [Domains -> [Fields -> BOOLEAN]] /\ CoreTypes'
  BY <1>1, AccessTypesKept, NoAccessTypesKept
<1>3. vdd' \in [Domains \cup {Cpu} -> BOOLEAN] /\ ack' \in [Domains \cup {Cpu} -> BOOLEAN]
  <2>1. vdd' = [x \in Domains \cup {Cpu} |->
                  vdd[x] /\ IF x = Cpu THEN out'.switch ELSE dout'[x].switch]
    BY DEF Tick, PowerTypes, HwTypes
  <2>2. \A x \in Domains \cup {Cpu} : vdd'[x] \in BOOLEAN
    BY <2>1
  <2> QED BY <1>1, <2>1, <2>2 DEF PowerTypes, HwTypes
<1>4. HwTypes'
  BY <1>1, <1>3, ClockTypes DEF HwTypes
<1> QED BY <1>2, <1>4 DEF PowerTypes

(* The steps of the switches, the interrupt lines and the application. *)
LEMMA OtherTypes ==
  ASSUME PowerTypes,
         \/ \E x \in Domains \cup {Cpu} : PowerUp(x) \/ Acknowledge(x)
         \/ \E i \in Irqs : Raise(i) \/ Handle(i)
         \/ UNCHANGED vars
  PROVE  PowerTypes'
<1>1. UNCHANGED <<reg, dreg, seq, out, ctr, dseq, dout, core, todo, ctx, saved, calls, want>>
  BY DEF PowerUp, Acknowledge, Raise, Handle, vars, hw
<1>2. vdd' \in [Domains \cup {Cpu} -> BOOLEAN] /\ ack' \in [Domains \cup {Cpu} -> BOOLEAN]
  BY DEF PowerUp, Acknowledge, Raise, Handle, vars, PowerTypes, HwTypes
<1>3. pend' \subseteq Irqs
  BY DEF PowerUp, Acknowledge, Raise, Handle, vars, PowerTypes, CoreTypes
<1>4. RegTypes(reg') /\ dreg' \in [Domains -> [Fields -> BOOLEAN]]
  BY <1>1 DEF PowerTypes
<1>5. HwTypes'
  BY <1>1, <1>2 DEF PowerTypes, HwTypes
<1>6. CoreTypes'
  BY <1>1, <1>3 DEF PowerTypes, CoreTypes
<1> QED BY <1>4, <1>5, <1>6 DEF PowerTypes

(* A call whose accesses have their types keeps the types.                 *)
LEMMA CallTypes ==
  ASSUME PowerTypes, NEW script \in Seq(Accesses), Len(script) <= 15, Call(script),
         want' \in [Domains -> SelStates]
  PROVE  PowerTypes'
<1>1. UNCHANGED <<reg, dreg, seq, out, ctr, dseq, dout, vdd, ack, pend, core, saved>>
  BY DEF Call, hw
<1>2. /\ todo' \in Seq(Accesses) /\ Len(todo') <= 15 /\ core' # "sleep"
      /\ calls' \in 0 .. MaxCalls /\ ctx' \in Lost .. MaxCalls
  BY WidthAssumption DEF Call, Idle, Lost, PowerTypes, CoreTypes
<1>3. CoreTypes'
  BY <1>1, <1>2 DEF PowerTypes, CoreTypes
<1> QED BY <1>1, <1>3 DEF PowerTypes, RegTypes, HwTypes

(* The application gates or restores a domain. *)
LEMMA GateScript ==
  ASSUME NEW d \in Domains, NEW s \in SelStates, CallGate(d, s)
  PROVE  \E script \in Seq(DomAccesses) : Len(script) <= 15 /\ Call(script)
<1>1. \/ Call(Gate(d, s) \o <<Poll(d, s = "kOff")>>)
      \/ Call(Gate(d, s) \o <<>>)
  BY DEF CallGate
<1>2. CASE Call(Gate(d, s) \o <<Poll(d, s = "kOff")>>)
  <2> DEFINE off == (s = "kOff")
             t == Gate(d, s) \o <<Poll(d, off)>>
  <2>1. off \in BOOLEAN
    OBVIOUS
  <2> HIDE DEF off
  <2>2. t \in Seq(DomAccesses) /\ Len(t) <= 15
    BY <2>1, DomainScriptTypes
  <2>3. Call(t)
    BY <1>2 DEF off
  <2> HIDE DEF t
  <2> QED BY <2>2, <2>3
<1>3. CASE Call(Gate(d, s) \o <<>>)
  <2> DEFINE t == Gate(d, s) \o <<>>
  <2>2. t \in Seq(DomAccesses) /\ Len(t) <= 15
    BY DomainScriptTypes
  <2>3. Call(t)
    BY <1>3
  <2> HIDE DEF t
  <2> QED BY <2>2, <2>3
<1> QED BY <1>1, <1>2, <1>3

(* Every call of the application keeps the types.                          *)
LEMMA CallsTypes ==
  ASSUME PowerTypes,
         \/ \E i \in Irqs, c \in CounterValues : CallCore(i, c)
         \/ CallWfi
         \/ \E d \in Domains : \/ \E enable \in BOOLEAN : CallClkGate(d, enable)
                               \/ \E s \in SelStates : CallGate(d, s)
  PROVE  PowerTypes'
<1>0. want \in [Domains -> SelStates]
  BY DEF PowerTypes, CoreTypes
<1>1. ASSUME NEW i \in Irqs, NEW c \in CounterValues, CallCore(i, c) PROVE PowerTypes'
  BY <1>0, <1>1, CoreScriptTypes, CallTypes DEF CallCore
<1>2. ASSUME CallWfi PROVE PowerTypes'
  <2>1. <<Do("wfi")>> \in Seq(Accesses) /\ Len(<<Do("wfi")>>) <= 15
    BY DEF Accesses, DomAccesses, Do
  <2> QED BY <1>0, <1>2, <2>1, CallTypes DEF CallWfi
<1>3. ASSUME NEW d \in Domains, NEW enable \in BOOLEAN, CallClkGate(d, enable) PROVE PowerTypes'
  <2>1. ClkGate(d, enable) \in Seq(Accesses) /\ Len(ClkGate(d, enable)) <= 15
    BY DEF ClkGate, Accesses, DomAccesses, Put, Fields
  <2> QED BY <1>0, <1>3, <2>1, CallTypes DEF CallClkGate
<1>4. ASSUME NEW d \in Domains, NEW s \in SelStates, CallGate(d, s) PROVE PowerTypes'
  <2>1. want' \in [Domains -> SelStates]
    BY <1>0, <1>4 DEF CallGate
  <2>2. PICK script \in Seq(DomAccesses) : Len(script) <= 15 /\ Call(script)
    BY <1>4, GateScript
  <2>3. script \in Seq(Accesses)
    <3>1. DomAccesses \subseteq Accesses
      BY DEF Accesses
    <3> QED BY <3>1, SeqMono
  <2> QED BY <2>1, <2>2, <2>3, CallTypes
<1> QED BY <1>1, <1>2, <1>3, <1>4

(* The types are invariant, for every use of the driver.                   *)
LEMMA PowerTyping == Spec => []PowerTypes
<1>1. PowerTypes /\ [Next]_vars => PowerTypes'
  BY TickTypes, OtherTypes, CallsTypes DEF Next
<1> QED BY <1>1, InitTypes, PTL DEF Spec

\* The counters of the power manager stay in their registers, and a call leaves
\* at most its own accesses to do, in whatever order the application uses the
\* driver.
THEOREM PowerTypeCorrect == Spec => []TypeOK
<1>1. PowerTypes => TypeOK
  <2> SUFFICES ASSUME PowerTypes PROVE TypeOK
    OBVIOUS
  <2>1. DOMAIN reg \ (Counters \cup {"en_wait_for_intr"}) = Bits
    BY DEF PowerTypes, RegTypes, Bits
  <2> QED BY <2>1 DEF PowerTypes, RegTypes, HwTypes, CoreTypes, TypeOK
<1> QED BY <1>1, PowerTyping, PTL

(***************************************************************************)
(* The core: its invariant.                                                *)
(***************************************************************************)

(* What is left of a call, by the distance of its accesses from its end.   *)
Part(s, f, k) == \A j \in 1 .. Len(s) : s[j] = f[k + Len(s) + 1 - j]
Rest(s, f) == \A j \in 1 .. Len(s) : s[j] = f[Len(s) + 1 - j]

StoreAt(i, c) ==
  [n \in 1 .. 15 |->
     CASE n = 15 -> Set("reset_off", c.reset_off)   [] n = 14 -> Set("reset_on", c.reset_on)
       [] n = 13 -> Set("switch_off", c.switch_off) [] n = 12 -> Set("switch_on", c.switch_on)
       [] n = 11 -> Set("iso_off", c.iso_off)       [] n = 10 -> Set("iso_on", c.iso_on)
       [] n = 9 -> Set("en_wait_for_intr", {i})     [] n = 8 -> Set("wait_ack", TRUE)
       [] n = 7 -> Set("power_gate_core", TRUE)     [] n = 6 -> Set("wakeup_state", TRUE)
       [] n = 5 -> Do("save")                       [] n = 4 -> Set("restore_address", TRUE)
       [] n = 3 -> Do("wfi")
       [] n = 2 -> Set("en_wait_for_intr", {})      [] n = 1 -> Set("stop", TRUE)]
RestoreAt ==
  [n \in 1 .. 4 |->
     CASE n = 4 -> Set("power_gate_core", FALSE)    [] n = 3 -> Set("wakeup_state", FALSE)
       [] n = 2 -> Set("restore_address", FALSE)    [] n = 1 -> Do("load")]

(* A plain wfi, or accesses to the registers of the other domains. *)
Plain(s) == s = <<Do("wfi")>> \/ \A j \in 1 .. Len(s) : s[j].op \in {"put", "poll"}

(* The core's domain is on and no sequencer moves. *)
Quiet ==
  /\ seq.switch = "IDLE" /\ seq.iso = "IDLE" /\ seq.reset = "IDLE"
  /\ out.switch = TRUE /\ out.iso = TRUE /\ out.reset = TRUE
  /\ vdd[Cpu] = TRUE /\ ack[Cpu] = TRUE
  /\ ctr.iso_off \in {"idle", "expire"} /\ ctr.switch_off \in {"idle", "expire"}
Stopped == ctr.iso_off = "idle" /\ ctr.switch_off = "idle"

(* The context is in memory, and the boot ROM will find it. *)
Context == saved.ctx = calls /\ saved.ret = CleanUp
Armed ==
  /\ reg.wait_ack = TRUE /\ reg.power_gate_core = TRUE
  /\ reg.wakeup_state = TRUE /\ reg.restore_address = TRUE

(* No call, or one that does not switch the core off. *)
Serving ==
  /\ Quiet /\ Plain(todo) /\ reg.power_gate_core = FALSE /\ ctx = calls
  /\ Stopped \/ reg.stop = TRUE
  /\ core = "run" \/ (core = "sleep" /\ todo = <<Do("wfi")>>)

(* power_manager_pwr_gate_core up to the wfi, n accesses before its end. *)
StoringAt(n, i, c) ==
  /\ Quiet /\ core = "run" /\ pend = {} /\ ctx = calls
  /\ Len(todo) = n /\ Rest(todo, StoreAt(i, c))
  /\ Stopped \/ (n = 15 /\ reg.stop = TRUE)
  /\ n <= 12 => reg.switch_off = c.switch_off
  /\ n <= 10 => reg.iso_off = c.iso_off
  /\ n <= 7 => reg.wait_ack = TRUE
  /\ n <= 6 => reg.power_gate_core = TRUE
  /\ n <= 5 => reg.wakeup_state = TRUE
  /\ n <= 4 => Context
  /\ n <= 3 => reg.restore_address = TRUE
Storing == \E n \in 3 .. 15, i \in Irqs, c \in CounterValues : StoringAt(n, i, c)

(* Asleep in that wfi: the isolation is ahead of the switch. *)
Ahead ==
  \/ /\ seq.iso = "WAIT_OFF" /\ seq.switch = "WAIT_OFF" /\ ctr.switch_off = "count"
     /\ \/ ctr.iso_off = "count" /\ 1 <= reg.iso_off /\ reg.iso_off < reg.switch_off
        \/ ctr.iso_off = "expire" /\ 1 <= reg.switch_off
  \/ /\ seq.iso = "SWITCH_OFF" /\ ctr.iso_off \in {"idle", "expire"}
     /\ \/ seq.switch = "WAIT_OFF"
        \/ /\ seq.switch = "SWITCH_OFF" /\ out.iso = FALSE
           /\ ctr.switch_off \in {"idle", "expire"}
Leaving(z, o) == (z = "WAIT_OFF" /\ o = TRUE) \/ z = "SWITCH_OFF"
Asleep ==
  /\ core = "sleep" /\ ctx = calls /\ out.reset = TRUE /\ out.switch = TRUE
  /\ Len(todo) = 3 /\ \E i \in Irqs, c \in CounterValues : Rest(todo, StoreAt(i, c))
Gone == core = "lost" /\ todo = <<Do("boot")>> /\ (out.reset = FALSE \/ out.switch = FALSE)
Falling ==
  /\ Armed /\ Context /\ (Asleep \/ Gone)
  /\ pend # {} => CoreOff
  /\ vdd[Cpu] = out.switch /\ (ack[Cpu] = TRUE \/ vdd[Cpu] = FALSE)
  /\ \/ Quiet /\ Stopped /\ Asleep /\ 2 <= reg.iso_off /\ reg.iso_off < reg.switch_off
     \/ /\ Leaving(seq.switch, out.switch) /\ Leaving(seq.iso, out.iso)
        /\ Leaving(seq.reset, out.reset) /\ Ahead

(* Switched on again: isolation and reset wait for the acknowledge a. *)
Gated(z, o, a) ==
  \/ z \in {"WAIT_ON", "WAIT_ACK"} /\ o = FALSE
  \/ z = "SWITCH_ON" /\ o = FALSE /\ a = TRUE
  \/ z = "IDLE" /\ o = TRUE /\ a = TRUE
Rising ==
  /\ Armed /\ Context /\ todo = <<Do("boot")>>
  /\ core = "lost" \/ (core = "run" /\ out.reset = TRUE /\ out.switch = TRUE)
  /\ ctr.iso_off \in {"idle", "expire"} /\ ctr.switch_off \in {"idle", "expire"}
  /\ Gated(seq.iso, out.iso, ack[Cpu]) /\ Gated(seq.reset, out.reset, ack[Cpu])
  /\ Gated(seq.switch, out.switch, TRUE)
  /\ vdd[Cpu] = TRUE => out.switch = TRUE
  /\ ack[Cpu] = TRUE => vdd[Cpu] = TRUE

(* power_manager_cpu_restore, and what follows it. *)
RestoringAt(n) ==
  /\ Quiet /\ core = "run" /\ Context
  /\ Len(todo) = n /\ Rest(todo, RestoreAt)
  /\ n < 4 => reg.power_gate_core = FALSE
Restoring == \E n \in 1 .. 4 : RestoringAt(n)
Cleaning ==
  /\ Quiet /\ core = "run" /\ ctx = calls /\ reg.power_gate_core = FALSE
  /\ todo = CleanUp \/ todo = <<Set("stop", TRUE)>>

CoreInv == Serving \/ Storing \/ Falling \/ Rising \/ Restoring \/ Cleaning

(***************************************************************************)
(* The core: lemmas on scripts and on a cycle.                             *)
(***************************************************************************)
LEMMA RestTail ==
  ASSUME NEW S, NEW s \in Seq(S), s # <<>>, NEW f, Rest(s, f)
  PROVE  /\ Head(s) = f[Len(s)] /\ Rest(Tail(s), f) /\ Len(Tail(s)) = Len(s) - 1
         /\ Len(s) >= 1
<1>1. Len(s) \in Nat /\ Len(s) >= 1 /\ Head(s) = s[1]
  OBVIOUS
<1>2. Len(Tail(s)) = Len(s) - 1 /\ \A j \in 1 .. Len(s) - 1 : Tail(s)[j] = s[j + 1]
  BY HeadTailProperties
<1>3. s[1] = f[Len(s)]
  BY <1>1 DEF Rest
<1>4. Rest(Tail(s), f)
  <2> SUFFICES ASSUME NEW j \in 1 .. Len(Tail(s)) PROVE Tail(s)[j] = f[Len(Tail(s)) + 1 - j]
    BY DEF Rest
  <2>1. j + 1 \in 1 .. Len(s) /\ Tail(s)[j] = s[j + 1]
    BY <1>1, <1>2
  <2>2. s[j + 1] = f[Len(s) + 1 - (j + 1)]
    BY <2>1 DEF Rest
  <2>3. Len(s) + 1 - (j + 1) = Len(Tail(s)) + 1 - j
    <3> DEFINE n == Len(s)
               m == Len(Tail(s))
    <3>1. m = n - 1 /\ n \in Int /\ j \in Int
      BY <1>1, <1>2
    <3> HIDE DEF n, m
    <3>2. n + 1 - (j + 1) = m + 1 - j
      BY <3>1
    <3> QED BY <3>2 DEF n, m
  <2> QED BY <2>1, <2>2, <2>3
<1> QED BY <1>1, <1>2, <1>3, <1>4

(* A call made of three parts. *)
LEMMA PartConcat ==
  ASSUME NEW S, NEW a \in Seq(S), NEW b \in Seq(S), NEW f, NEW k \in Nat,
         Part(a, f, k + Len(b)), Part(b, f, k)
  PROVE  Part(a \o b, f, k)
<1> DEFINE u == a \o b
           m == Len(a)
           n == Len(b)
<1>1. /\ u \in Seq(S) /\ Len(u) = m + n
      /\ \A j \in 1 .. m + n : u[j] = IF j <= m THEN a[j] ELSE b[j - m]
  BY ConcatProperties
<1>2. m \in Nat /\ n \in Nat
  OBVIOUS
<1> HIDE DEF u
<1>3. ASSUME NEW j \in 1 .. m + n PROVE u[j] = f[k + (m + n) + 1 - j]
  <2>1. CASE j <= m
    <3>1. u[j] = a[j] /\ a[j] = f[(k + n) + m + 1 - j]
      BY <1>1, <1>2, <2>1 DEF Part
    <3> HIDE DEF m, n
    <3>2. (k + n) + m + 1 - j = k + (m + n) + 1 - j
      BY <1>2
    <3> QED BY <3>1, <3>2
  <2>2. CASE ~(j <= m)
    <3> HIDE DEF m, n
    <3>1. j - m \in 1 .. n /\ u[j] = b[j - m]
      BY <1>1, <1>2, <2>2
    <3>2. b[j - m] = f[k + n + 1 - (j - m)]
      BY <3>1 DEF Part, n
    <3>3. k + n + 1 - (j - m) = k + (m + n) + 1 - j
      BY <1>2
    <3> QED BY <3>1, <3>2, <3>3
  <2> QED BY <2>1, <2>2
<1>4. Part(u, f, k)
  BY <1>1, <1>3 DEF Part
<1> QED BY <1>4 DEF u

(* A script made of three parts, each of them the matching part of f.      *)
LEMMA ThreeParts ==
  ASSUME NEW S, NEW a \in Seq(S), NEW b \in Seq(S), NEW e \in Seq(S), NEW f,
         Part(a, f, Len(e) + Len(b)), Part(b, f, Len(e)), Part(e, f, 0)
  PROVE  Part((a \o b) \o e, f, 0)
<1>0. Len(e) \in Nat /\ 0 \in Nat /\ Len(e) = 0 + Len(e)
  OBVIOUS
<1>1. Part(a \o b, f, Len(e))
  BY <1>0, PartConcat, Zenon
<1>2. a \o b \in Seq(S)
  BY ConcatProperties
<1>3. Part(a \o b, f, 0 + Len(e))
  BY <1>0, <1>1, Zenon
<1> QED BY <1>0, <1>2, <1>3, PartConcat, Zenon

(* power_manager_pwr_gate_core, access by access from the end.             *)
LEMMA StoreScript ==
  ASSUME NEW i \in Irqs, NEW c \in CounterValues
  PROVE  /\ Len(power_manager_pwr_gate_core(i, c)) = 15
         /\ Rest(power_manager_pwr_gate_core(i, c), StoreAt(i, c))
<1> DEFINE s == power_manager_pwr_gate_core(i, c)
           f == StoreAt(i, c)
           a == <<Set("reset_off", c.reset_off), Set("reset_on", c.reset_on),
                  Set("switch_off", c.switch_off), Set("switch_on", c.switch_on),
                  Set("iso_off", c.iso_off), Set("iso_on", c.iso_on),
                  Set("en_wait_for_intr", {i}), Set("wait_ack", TRUE)>>
           b == power_manager_cpu_store
           e == CleanUp
<1>2. /\ a \in Seq(Accesses) /\ Len(a) = 8
      /\ a[1] = Set("reset_off", c.reset_off)
      /\ a[2] = Set("reset_on", c.reset_on)
      /\ a[3] = Set("switch_off", c.switch_off)
      /\ a[4] = Set("switch_on", c.switch_on)
      /\ a[5] = Set("iso_off", c.iso_off)
      /\ a[6] = Set("iso_on", c.iso_on)
      /\ a[7] = Set("en_wait_for_intr", {i})
      /\ a[8] = Set("wait_ack", TRUE)
  <2>1. \A k \in Counters : c[k] \in 0 .. Width - 1
    BY CounterAssumption, WidthAssumption
  <2> QED BY <2>1 DEF Accesses, DomAccesses, Bits, Regs, Counters, Set
<1>3. /\ b \in Seq(Accesses) /\ Len(b) = 5
      /\ b[1] = Set("power_gate_core", TRUE)
      /\ b[2] = Set("wakeup_state", TRUE)
      /\ b[3] = Do("save")
      /\ b[4] = Set("restore_address", TRUE)
      /\ b[5] = Do("wfi")
  BY DEF power_manager_cpu_store, Accesses, DomAccesses, Bits, Regs, Counters, Set, Do
<1>4. /\ e \in Seq(Accesses) /\ Len(e) = 2
      /\ e[1] = Set("en_wait_for_intr", {})
      /\ e[2] = Set("stop", TRUE)
  BY DEF CleanUp, Accesses, DomAccesses, Bits, Regs, Counters, Set
<1>5. /\ f[15] = Set("reset_off", c.reset_off)
      /\ f[14] = Set("reset_on", c.reset_on)
      /\ f[13] = Set("switch_off", c.switch_off)
      /\ f[12] = Set("switch_on", c.switch_on)
      /\ f[11] = Set("iso_off", c.iso_off)
      /\ f[10] = Set("iso_on", c.iso_on)
      /\ f[9] = Set("en_wait_for_intr", {i})
      /\ f[8] = Set("wait_ack", TRUE)
  BY DEF StoreAt, Set, Do
<1>6. /\ f[7] = Set("power_gate_core", TRUE)
      /\ f[6] = Set("wakeup_state", TRUE)
      /\ f[5] = Do("save")
      /\ f[4] = Set("restore_address", TRUE)
      /\ f[3] = Do("wfi")
      /\ f[2] = Set("en_wait_for_intr", {})
      /\ f[1] = Set("stop", TRUE)
  BY DEF StoreAt, Set, Do
<1>7. s = a \o b \o e
  BY DEF power_manager_pwr_gate_core
<1>8. /\ a \in Seq(Accesses) /\ Len(a) = 8 /\ b \in Seq(Accesses) /\ Len(b) = 5
      /\ e \in Seq(Accesses) /\ Len(e) = 2
  BY <1>2, <1>3, <1>4
<1>9. /\ a[1] = f[15] /\ a[2] = f[14] /\ a[3] = f[13] /\ a[4] = f[12]
      /\ a[5] = f[11] /\ a[6] = f[10] /\ a[7] = f[9] /\ a[8] = f[8]
      /\ b[1] = f[7] /\ b[2] = f[6] /\ b[3] = f[5] /\ b[4] = f[4] /\ b[5] = f[3]
      /\ e[1] = f[2] /\ e[2] = f[1]
  BY <1>2, <1>3, <1>4, <1>5, <1>6, Zenon
<1> HIDE DEF s, f, a, b, e
<1>10. Part(a, f, 7) /\ Part(b, f, 2) /\ Part(e, f, 0)
  BY <1>8, <1>9 DEF Part
<1>11. Part(a, f, Len(e) + Len(b)) /\ Part(b, f, Len(e))
  <2>1. 7 = 2 + 5
    OBVIOUS
  <2> QED BY <1>8, <1>10, <2>1, Zenon
<1>12. Part((a \o b) \o e, f, 0)
  BY <1>8, <1>10, <1>11, ThreeParts, Zenon
<1>13. Len((a \o b) \o e) = 15
  <2>0. a \in Seq(Accesses) /\ b \in Seq(Accesses) /\ e \in Seq(Accesses)
    BY <1>8
  <2>1. a \o b \in Seq(Accesses) /\ Len(a \o b) = Len(a) + Len(b)
    BY ONLY <2>0, ConcatProperties
  <2>2. Len((a \o b) \o e) = Len(a \o b) + Len(e)
    BY ONLY <2>0, <2>1, ConcatProperties
  <2>3. Len((a \o b) \o e) = Len(a) + Len(b) + Len(e)
    BY ONLY <2>1, <2>2
  <2>4. 15 = 8 + 5 + 2
    OBVIOUS
  <2> QED BY <1>8, <2>3, <2>4, Zenon
<1> DEFINE u == (a \o b) \o e
<1>14. u = s
  BY <1>7
<1>15. Part(u, f, 0) /\ Len(u) = 15
  BY <1>12, <1>13
<1> HIDE DEF u
<1>16. Rest(u, f)
  BY <1>15 DEF Part, Rest
<1> QED BY <1>14, <1>15, <1>16, Zenon DEF s, f

(* power_manager_cpu_restore, access by access from the end.               *)
LEMMA RestoreScript ==
  Len(power_manager_cpu_restore) = 4 /\ Rest(power_manager_cpu_restore, RestoreAt)
<1> DEFINE s == power_manager_cpu_restore
<1>1. Len(s) = 4
  BY DEF power_manager_cpu_restore
<1>2. /\ s[1] = RestoreAt[4] /\ s[2] = RestoreAt[3]
      /\ s[3] = RestoreAt[2] /\ s[4] = RestoreAt[1]
  BY DEF power_manager_cpu_restore, RestoreAt, Set, Do
<1> HIDE DEF s
<1>3. Rest(s, RestoreAt)
  BY <1>1, <1>2 DEF Rest
<1> QED BY <1>1, <1>3 DEF s

(* A cycle of the core's domain. *)
LEMMA Cycle ==
  ASSUME PowerTypes, Clock, NEW x \in Signals
  PROVE  /\ seq[x] \in {"IDLE", "WAIT_OFF", "SWITCH_ON"} => out'[x] = TRUE
         /\ seq[x] \in {"SWITCH_OFF", "WAIT_ON", "WAIT_ACK"} => out'[x] = FALSE
         /\ seq[x] = "IDLE" => seq'[x] = IF StartOff THEN "WAIT_OFF" ELSE "IDLE"
         /\ seq[x] = "WAIT_OFF" =>
              seq'[x] = IF ctr[OffCounter[x]] = "expire" THEN "SWITCH_OFF" ELSE "WAIT_OFF"
         /\ seq[x] = "SWITCH_OFF" => seq'[x] = IF StartOn THEN "WAIT_ON" ELSE "SWITCH_OFF"
         /\ seq[x] = "WAIT_ON" =>
              \/ seq'[x] \in {"WAIT_ON", "WAIT_ACK"}
              \/ seq'[x] = "SWITCH_ON" /\ Acked(x, Cpu, reg.wait_ack)
         /\ seq[x] = "WAIT_ACK" =>
              \/ seq'[x] = "WAIT_ACK"
              \/ seq'[x] = "SWITCH_ON" /\ Acked(x, Cpu, reg.wait_ack)
         /\ seq[x] = "SWITCH_ON" => seq'[x] = "IDLE"
<1>1. seq'[x] = SeqNext(seq[x], StartOff, StartOn, ctr[OffCounter[x]] = "expire",
                        ctr[OnCounter[x]] = "expire", Acked(x, Cpu, reg.wait_ack))
  BY Zenon DEF Clock
<1>2. seq[x] \in {"IDLE", "WAIT_OFF", "SWITCH_ON"} => out'[x] = TRUE
  BY DEF Clock, SeqOut
<1>3. seq[x] \in {"SWITCH_OFF", "WAIT_ON", "WAIT_ACK"} => out'[x] = FALSE
  <2>1. out'[x] = SeqOut(seq[x])
    BY Zenon DEF Clock
  <2>2. seq[x] \in {"SWITCH_OFF", "WAIT_ON", "WAIT_ACK"} => SeqOut(seq[x]) = FALSE
    BY DEF SeqOut
  <2> QED BY <2>1, <2>2, Zenon
<1>4. /\ seq[x] = "IDLE" => seq'[x] = IF StartOff THEN "WAIT_OFF" ELSE "IDLE"
      /\ seq[x] = "WAIT_OFF" =>
           seq'[x] = IF ctr[OffCounter[x]] = "expire" THEN "SWITCH_OFF" ELSE "WAIT_OFF"
      /\ seq[x] = "SWITCH_OFF" => seq'[x] = IF StartOn THEN "WAIT_ON" ELSE "SWITCH_OFF"
      /\ seq[x] = "SWITCH_ON" => seq'[x] = "IDLE"
  BY <1>1 DEF SeqNext
<1>5. seq[x] = "WAIT_ON" =>
        \/ seq'[x] \in {"WAIT_ON", "WAIT_ACK"}
        \/ seq'[x] = "SWITCH_ON" /\ Acked(x, Cpu, reg.wait_ack)
  BY <1>1 DEF SeqNext
<1>6. seq[x] = "WAIT_ACK" =>
         \/ seq'[x] = "WAIT_ACK"
         \/ seq'[x] = "SWITCH_ON" /\ Acked(x, Cpu, reg.wait_ack)
  BY <1>1 DEF SeqNext
<1> QED BY <1>2, <1>3, <1>4, <1>5, <1>6, Zenon

(* A counter of the core's domain. *)
LEMMA CycleCounter ==
  ASSUME PowerTypes, Clock, NEW x \in {"iso", "switch"}, NEW k, k = OffCounter[x]
  PROVE  /\ ctr[k] = "idle" => ctr'[k] = IF seq[x] = "IDLE" /\ StartOff THEN "count" ELSE "idle"
         /\ ctr[k] = "count" => ctr'[k] = IF (reg[k] - 1) % Width = 0 THEN "expire" ELSE "count"
         /\ ctr[k] = "expire" => ctr'[k] = IF reg.stop THEN "idle" ELSE "expire"
         /\ Decrements(ctr[k], Started(k)) <=>
               ctr[k] = "count" \/ (ctr[k] = "idle" /\ seq[x] = "IDLE" /\ StartOff)
<1>1. k \in Counters /\ (Started(k) <=> seq[x] = "IDLE" /\ StartOff)
  BY DEF Started, Signals, OffCounter, OnCounter, Counters
<1>2. ctr'[k] = CtrNext(ctr[k], Started(k), reg[k], reg.stop)
  BY <1>1, Zenon DEF Clock
<1>3. ctr'[k] = CASE ctr[k] = "idle" -> (IF Started(k) THEN "count" ELSE ctr[k])
                  [] ctr[k] = "count" -> (IF (reg[k] - 1) % Width = 0 THEN "expire" ELSE ctr[k])
                  [] ctr[k] = "expire" -> (IF reg.stop THEN "idle" ELSE ctr[k])
  BY <1>2, Zenon DEF CtrNext
<1> QED BY <1>1, <1>3 DEF Decrements

(***************************************************************************)
(* The core: what a cycle does to the state of its domain.                 *)
(***************************************************************************)
CoreFields == {"iso_off", "switch_off"} \cup Bits

(* A cycle: the supply of the core follows its switch, and only downwards. *)
LEMMA Supply ==
  ASSUME PowerTypes, NEW busy, Tick(busy)
  PROVE  /\ vdd'[Cpu] = (vdd[Cpu] /\ out'.switch)
         /\ ack' = ack /\ pend' = pend /\ calls' = calls /\ Clock
<1>1. DOMAIN vdd = Domains \cup {Cpu} /\ Cpu \in Domains \cup {Cpu}
  BY DEF PowerTypes, HwTypes
<1>2. vdd' = [x \in DOMAIN vdd |->
                vdd[x] /\ IF x = Cpu THEN out'.switch ELSE dout'[x].switch]
  BY DEF Tick
<1>3. vdd'[Cpu] = (vdd[Cpu] /\ out'.switch)
  BY <1>1, <1>2
<1> QED BY <1>3 DEF Tick

(* Nothing moves while the domain is on and the core is not to be gated. *)
LEMMA QuietCycle ==
  ASSUME PowerTypes, NEW busy, Tick(busy), Quiet, ~StartOff
  PROVE  /\ Quiet' /\ Alive /\ (Stopped \/ reg.stop = TRUE => Stopped')
         /\ \A k \in {"iso_off", "switch_off"} : ~Decrements(ctr[k], Started(k))
<1>1. \A x \in Signals : seq[x] = "IDLE"
  BY DEF Quiet, Signals
<1>2. Clock
  BY DEF Tick
<1>3. \A x \in Signals : seq'[x] = "IDLE" /\ out'[x] = TRUE
  BY <1>1, <1>2, Cycle
<1>4. /\ seq'.switch = "IDLE" /\ seq'.iso = "IDLE" /\ seq'.reset = "IDLE"
      /\ out'.switch = TRUE /\ out'.iso = TRUE /\ out'.reset = TRUE
  BY <1>3 DEF Signals
<1>5. OffCounter["iso"] = "iso_off" /\ OffCounter["switch"] = "switch_off"
  BY DEF OffCounter
<1>6. ctr["iso_off"] \in {"idle", "expire"} /\ ctr["switch_off"] \in {"idle", "expire"}
  BY DEF Quiet
<1>7. \A k \in {"iso_off", "switch_off"} :
         /\ ctr'[k] \in {"idle", "expire"} /\ (ctr[k] = "idle" => ctr'[k] = "idle")
         /\ ctr[k] = "expire" /\ reg.stop = TRUE => ctr'[k] = "idle"
         /\ ~Decrements(ctr[k], Started(k))
  <2>1. ASSUME NEW x \in {"iso", "switch"}, NEW k, k = OffCounter[x], ctr[k] \in {"idle", "expire"}
        PROVE  /\ ctr'[k] \in {"idle", "expire"} /\ (ctr[k] = "idle" => ctr'[k] = "idle")
               /\ ctr[k] = "expire" /\ reg.stop = TRUE => ctr'[k] = "idle"
               /\ ~Decrements(ctr[k], Started(k))
    BY <1>2, <2>1, CycleCounter
  <2> QED BY <1>5, <1>6, <2>1
<1>8. vdd'[Cpu] = TRUE /\ ack'[Cpu] = TRUE
  BY <1>4, Supply DEF Quiet
<1>9. Quiet'
  BY <1>4, <1>7, <1>8 DEF Quiet
<1>10. Alive
  BY <1>4 DEF Alive
<1>11. Stopped \/ reg.stop = TRUE => Stopped'
  BY <1>6, <1>7 DEF Stopped
<1> QED BY <1>7, <1>9, <1>10, <1>11

(* The registers that no counter decrements hold what was written. *)
LEMMA CountedReads ==
  ASSUME PowerTypes, NEW w, RegTypes(w)
  PROVE  /\ \A f \in Bits : Counted(w)[f] = w[f]
         /\ \A k \in Counters :
              Counted(w)[k] = IF Decrements(ctr[k], Started(k)) THEN (reg[k] - 1) % Width ELSE w[k]
<1>1. DOMAIN w = Regs
  BY DEF RegTypes
<1> QED BY <1>1 DEF Counted, Regs, Bits

(* While the core is on, a cycle without an access loses nothing.          *)
LEMMA QuietNoAccess ==
  ASSUME PowerTypes, NoAccess, \A k \in {"iso_off", "switch_off"} : ~Decrements(ctr[k], Started(k)),
         NEW f \in CoreFields
  PROVE  reg'[f] = reg[f]
<1>1. RegTypes(reg) /\ reg' = Counted(reg)
  BY DEF PowerTypes, NoAccess
<1>2. {"iso_off", "switch_off"} \subseteq Counters
  BY DEF Counters
<1> QED BY <1>1, <1>2, CountedReads DEF CoreFields

(* While the core is on, a cycle with an access makes exactly that access. *)
LEMMA QuietAccess ==
  ASSUME PowerTypes, Access, \A k \in {"iso_off", "switch_off"} : ~Decrements(ctr[k], Started(k)),
         NEW f \in CoreFields, NEW o, o = Head(todo)
  PROVE  reg'[f] = IF o.op = "set" /\ o.field = f THEN o.val ELSE reg[f]
<1> DEFINE w == IF o.op = "set" THEN [reg EXCEPT ![o.field] = o.val] ELSE reg
<1>1. RegTypes(w) /\ reg' = Counted(w)
  BY Written DEF Access
<1>2. {"iso_off", "switch_off"} \subseteq Counters
  BY DEF Counters
<1>3. reg'[f] = w[f]
  <2> HIDE DEF w
  <2> QED BY <1>1, <1>2, CountedReads DEF CoreFields
<1>4. DOMAIN reg = Regs /\ f \in Regs
  BY DEF PowerTypes, RegTypes, CoreFields, Bits, Regs, Counters
<1>5. w[f] = IF o.op = "set" /\ o.field = f THEN o.val ELSE reg[f]
  BY <1>4
<1> QED BY <1>3, <1>5

(***************************************************************************)
(* The core: a cycle, phase by phase.                                      *)
(***************************************************************************)
LEMMA BitNames ==
  {"power_gate_core", "wakeup_state", "restore_address", "wait_ack", "stop"} \subseteq CoreFields
  /\ {"iso_off", "switch_off"} \subseteq CoreFields
BY DEF CoreFields, Bits, Regs, Counters

(* A cycle without an access. *)
LEMMA QuietIdles ==
  ASSUME PowerTypes, NEW busy, Tick(busy), ~busy, Quiet, ~StartOff, core \in {"run", "sleep"}
  PROVE  /\ Quiet' /\ (Stopped \/ reg.stop = TRUE => Stopped')
         /\ \A f \in CoreFields : reg'[f] = reg[f]
         /\ pend' = pend /\ calls' = calls /\ saved' = saved /\ ctx' = ctx
         /\ \/ core = "sleep" /\ pend # {} /\ core' = "run" /\ todo' = Tail(todo)
            \/ core' = core /\ todo' = todo
<1>1. NoAccess
  BY DEF Tick
<1>2. /\ Quiet' /\ Alive /\ (Stopped \/ reg.stop = TRUE => Stopped')
      /\ \A k \in {"iso_off", "switch_off"} : ~Decrements(ctr[k], Started(k))
  BY QuietCycle
<1>3. \A f \in CoreFields : reg'[f] = reg[f]
  BY <1>1, <1>2, QuietNoAccess
<1>4. pend' = pend /\ calls' = calls
  BY Supply
<1>5. /\ saved' = saved /\ ctx' = ctx
      /\ \/ core = "sleep" /\ pend # {} /\ core' = "run" /\ todo' = Tail(todo)
         \/ core' = core /\ todo' = todo
  BY <1>1, <1>2 DEF NoAccess
<1> QED BY <1>2, <1>3, <1>4, <1>5

(* A cycle with an access. *)
LEMMA QuietAccesses ==
  ASSUME PowerTypes, NEW busy, Tick(busy), busy, Quiet, ~StartOff, NEW o, o = Head(todo)
  PROVE  /\ Quiet' /\ (Stopped \/ reg.stop = TRUE => Stopped')
         /\ \A f \in CoreFields : reg'[f] = IF o.op = "set" /\ o.field = f THEN o.val ELSE reg[f]
         /\ pend' = pend /\ calls' = calls /\ core = "run" /\ todo # <<>>
         /\ core' = IF o.op = "wfi" /\ pend = {} THEN "sleep" ELSE "run"
         /\ saved' = IF o.op = "save" THEN [ctx |-> ctx, ret |-> CleanUp] ELSE saved
         /\ ctx' = IF o.op = "load" THEN saved.ctx ELSE ctx
         /\ o.op = "wfi" /\ pend = {} => todo' = todo
         /\ o.op = "wfi" /\ pend # {} => todo' = Tail(todo)
         /\ o.op \in {"set", "save", "put"} => todo' = Tail(todo)
         /\ o.op = "poll" => todo' = todo \/ todo' = Tail(todo)
         /\ o.op = "load" => todo' = saved.ret
<1>1. Access
  BY DEF Tick
<1>2. /\ Quiet' /\ Alive /\ (Stopped \/ reg.stop = TRUE => Stopped')
      /\ \A k \in {"iso_off", "switch_off"} : ~Decrements(ctr[k], Started(k))
  BY QuietCycle
<1>3. \A f \in CoreFields : reg'[f] = IF o.op = "set" /\ o.field = f THEN o.val ELSE reg[f]
  BY <1>1, <1>2, QuietAccess
<1>4. pend' = pend /\ calls' = calls
  BY Supply
<1>5. /\ core = "run" /\ todo # <<>>
      /\ core' = IF o.op = "wfi" /\ pend = {} THEN "sleep" ELSE "run"
      /\ saved' = IF o.op = "save" THEN [ctx |-> ctx, ret |-> CleanUp] ELSE saved
      /\ ctx' = IF o.op = "load" THEN saved.ctx ELSE ctx
  BY <1>1 DEF Access, Connected
<1>6. /\ o.op = "wfi" /\ pend = {} => todo' = todo
      /\ o.op = "wfi" /\ pend # {} => todo' = Tail(todo)
      /\ o.op \in {"set", "save", "put"} => todo' = Tail(todo)
      /\ o.op = "poll" => todo' = todo \/ todo' = Tail(todo)
      /\ o.op = "load" => todo' = saved.ret
  BY <1>1 DEF Access
<1> QED BY <1>2, <1>3, <1>4, <1>5, <1>6

(* What is left of a call that leaves the core alone leaves it alone too.  *)
LEMMA PlainTail ==
  ASSUME NEW s \in Seq(Accesses), s # <<>>, Plain(s)
  PROVE  /\ Plain(Tail(s))
         /\ s = <<Do("wfi")>> => Head(s).op = "wfi" /\ Tail(s) = <<>>
         /\ s # <<Do("wfi")>> => Head(s).op \in {"put", "poll"}
<1>1. Plain(<<>>)
  BY DEF Plain
<1>2. CASE s = <<Do("wfi")>>
  <2>1. Head(s).op = "wfi" /\ Tail(s) = <<>>
    BY <1>2 DEF Do
  <2> QED BY <1>1, <1>2, <2>1
<1>3. CASE s # <<Do("wfi")>>
  <2>1. \A j \in 1 .. Len(s) : s[j].op \in {"put", "poll"}
    BY <1>3 DEF Plain
  <2>2. Len(s) \in Nat /\ Len(s) >= 1 /\ Head(s) = s[1]
    OBVIOUS
  <2>3. Len(Tail(s)) = Len(s) - 1 /\ \A j \in 1 .. Len(s) - 1 : Tail(s)[j] = s[j + 1]
    BY HeadTailProperties
  <2>4. \A j \in 1 .. Len(Tail(s)) : Tail(s)[j].op \in {"put", "poll"}
    <3> SUFFICES ASSUME NEW j \in 1 .. Len(Tail(s)) PROVE Tail(s)[j].op \in {"put", "poll"}
      OBVIOUS
    <3>1. j + 1 \in 1 .. Len(s) /\ Tail(s)[j] = s[j + 1]
      BY <2>2, <2>3
    <3> QED BY <2>1, <3>1
  <2> QED BY <1>3, <2>1, <2>2, <2>4 DEF Plain
<1> QED BY <1>2, <1>3

(* A cycle between two calls, or in a call that leaves the core alone.     *)
LEMMA ServingTick ==
  ASSUME PowerTypes, NEW busy \in BOOLEAN, Tick(busy), Serving
  PROVE  Serving'
<1>1. /\ Quiet /\ Plain(todo) /\ reg["power_gate_core"] = FALSE /\ ctx = calls
      /\ Stopped \/ reg.stop = TRUE
      /\ core = "run" \/ (core = "sleep" /\ todo = <<Do("wfi")>>)
  BY DEF Serving
<1>2. ~StartOff
  BY <1>1 DEF StartOff
<1>3. todo \in Seq(Accesses)
  BY DEF PowerTypes, CoreTypes
<1>4. CASE ~busy
  <2>1. /\ Quiet' /\ Stopped' /\ reg'["power_gate_core"] = FALSE /\ ctx' = calls'
        /\ \/ core = "sleep" /\ core' = "run" /\ todo' = Tail(todo)
           \/ core' = core /\ todo' = todo
    BY <1>1, <1>2, <1>4, QuietIdles, BitNames
  <2>2. Plain(todo') /\ (core' = "run" \/ (core' = "sleep" /\ todo' = <<Do("wfi")>>))
    <3>1. CASE core' = core /\ todo' = todo
      BY <1>1, <3>1
    <3>2. CASE core = "sleep" /\ core' = "run" /\ todo' = Tail(todo)
      <4>1. todo # <<>>
        BY <3>2 DEF PowerTypes, CoreTypes
      <4> QED BY <1>1, <1>3, <3>2, <4>1, PlainTail
    <3> QED BY <2>1, <3>1, <3>2
  <2> QED BY <2>1, <2>2 DEF Serving
<1>5. CASE busy
  <2> DEFINE o == Head(todo)
  <2>1. /\ Quiet' /\ Stopped' /\ todo # <<>>
        /\ \A f \in CoreFields : reg'[f] = IF o.op = "set" /\ o.field = f THEN o.val ELSE reg[f]
        /\ calls' = calls /\ core = "run"
        /\ core' = IF o.op = "wfi" /\ pend = {} THEN "sleep" ELSE "run"
        /\ ctx' = IF o.op = "load" THEN saved.ctx ELSE ctx
        /\ o.op = "wfi" /\ pend = {} => todo' = todo
        /\ o.op = "wfi" /\ pend # {} => todo' = Tail(todo)
        /\ o.op = "put" => todo' = Tail(todo)
        /\ o.op = "poll" => todo' = todo \/ todo' = Tail(todo)
    BY <1>1, <1>2, <1>5, QuietAccesses
  <2>2. /\ Plain(Tail(todo)) /\ (todo = <<Do("wfi")>> => o.op = "wfi")
        /\ (todo # <<Do("wfi")>> => o.op \in {"put", "poll"})
    BY <1>1, <1>3, <2>1, PlainTail
  <2> HIDE DEF o
  <2>3. o.op \in {"wfi", "put", "poll"} /\ ctx' = calls' /\ Plain(todo')
    BY <1>1, <2>1, <2>2
  <2>4. core' = "run" \/ (core' = "sleep" /\ todo' = <<Do("wfi")>>)
    BY <2>1, <2>2
  <2>5. reg'["power_gate_core"] = FALSE
    BY <1>1, <2>1, <2>3, BitNames
  <2> QED BY <2>1, <2>3, <2>4, <2>5 DEF Serving
<1> QED BY <1>4, <1>5

(* The accesses of power_manager_pwr_gate_core by their distance from the end. *)
StoreAccess(o, n, c) ==
  /\ n = 3 <=> o.op = "wfi"
  /\ n = 5 <=> o.op = "save"
  /\ n \notin {3, 5} => o.op = "set"
  /\ n = 13 => o.field = "switch_off" /\ o.val = c.switch_off
  /\ n \notin {3, 5, 13} => o.field # "switch_off"
  /\ n = 11 => o.field = "iso_off" /\ o.val = c.iso_off
  /\ n \notin {3, 5, 11} => o.field # "iso_off"
  /\ n = 8 => o.field = "wait_ack" /\ o.val = TRUE
  /\ n \notin {3, 5, 8} => o.field # "wait_ack"
  /\ n = 7 => o.field = "power_gate_core" /\ o.val = TRUE
  /\ n \notin {3, 5, 7} => o.field # "power_gate_core"
  /\ n = 6 => o.field = "wakeup_state" /\ o.val = TRUE
  /\ n \notin {3, 5, 6} => o.field # "wakeup_state"
  /\ n = 4 => o.field = "restore_address" /\ o.val = TRUE
  /\ n \notin {3, 4, 5} => o.field # "restore_address"

(* What each access of power_manager_pwr_gate_core does.                   *)
LEMMA StoreAccesses ==
  ASSUME NEW i \in Irqs, NEW c \in CounterValues, NEW n \in Int, 3 <= n, n <= 15,
         NEW o, o = StoreAt(i, c)[n]
  PROVE  StoreAccess(o, n, c)
<1>1. n \in 1 .. 15
  OBVIOUS
<1>2. /\ n = 15 => o = Set("reset_off", c.reset_off)
      /\ n = 14 => o = Set("reset_on", c.reset_on)
      /\ n = 13 => o = Set("switch_off", c.switch_off)
      /\ n = 12 => o = Set("switch_on", c.switch_on)
      /\ n = 11 => o = Set("iso_off", c.iso_off)
      /\ n = 10 => o = Set("iso_on", c.iso_on)
      /\ n = 9 => o = Set("en_wait_for_intr", {i})
      /\ n = 8 => o = Set("wait_ack", TRUE)
  BY <1>1 DEF StoreAt, Set, Do
<1>3. /\ n = 7 => o = Set("power_gate_core", TRUE)
      /\ n = 6 => o = Set("wakeup_state", TRUE)
      /\ n = 5 => o = Do("save")
      /\ n = 4 => o = Set("restore_address", TRUE)
      /\ n = 3 => o = Do("wfi")
  BY <1>1 DEF StoreAt, Set, Do
<1>4. n = 3 \/ n = 4 \/ n = 5 \/ n = 6 \/ n = 7 \/ n = 8 \/ n = 9 \/ n = 10 \/ n = 11
      \/ n = 12 \/ n = 13 \/ n = 14 \/ n = 15
  OBVIOUS
<1> QED BY <1>2, <1>3, <1>4 DEF StoreAccess, Set, Do

(* A cycle of power_manager_pwr_gate_core up to its wfi.                   *)
LEMMA StoringTick ==
  ASSUME PowerTypes, NEW busy \in BOOLEAN, Tick(busy), NEW n \in 3 .. 15, NEW i \in Irqs,
         NEW c \in CounterValues, StoringAt(n, i, c)
  PROVE  Storing' \/ Falling'
<1>0. n \in Int /\ 3 <= n /\ n <= 15
  OBVIOUS
<1>1. /\ Quiet /\ core = "run" /\ pend = {} /\ ctx = calls
      /\ Len(todo) = n /\ Rest(todo, StoreAt(i, c))
      /\ Stopped \/ reg.stop = TRUE
      /\ n <= 12 => reg["switch_off"] = c.switch_off
      /\ n <= 10 => reg["iso_off"] = c.iso_off
      /\ n <= 7 => reg["wait_ack"] = TRUE
      /\ n <= 6 => reg["power_gate_core"] = TRUE
      /\ n <= 5 => reg["wakeup_state"] = TRUE
      /\ n <= 4 => Context
      /\ n <= 3 => reg["restore_address"] = TRUE
      /\ n # 15 => Stopped
  BY DEF StoringAt
<1>2. ~StartOff
  BY <1>1 DEF StartOff
<1>3. todo \in Seq(Accesses)
  BY DEF PowerTypes, CoreTypes
<1>4. CASE ~busy
  <2>1. /\ Quiet' /\ Stopped' /\ \A f \in CoreFields : reg'[f] = reg[f]
        /\ pend' = pend /\ calls' = calls /\ saved' = saved /\ ctx' = ctx
        /\ core' = core /\ todo' = todo
    BY <1>1, <1>2, <1>4, QuietIdles
  <2>2. StoringAt(n, i, c)'
    BY <1>1, <2>1, BitNames DEF StoringAt, Context
  <2> QED BY <2>2 DEF Storing
<1>5. CASE busy
  <2> DEFINE o == Head(todo)
  <2>1. /\ Quiet' /\ Stopped' /\ todo # <<>>
        /\ \A f \in CoreFields : reg'[f] = IF o.op = "set" /\ o.field = f THEN o.val ELSE reg[f]
        /\ pend' = pend /\ calls' = calls /\ core = "run"
        /\ core' = IF o.op = "wfi" /\ pend = {} THEN "sleep" ELSE "run"
        /\ saved' = IF o.op = "save" THEN [ctx |-> ctx, ret |-> CleanUp] ELSE saved
        /\ ctx' = IF o.op = "load" THEN saved.ctx ELSE ctx
        /\ o.op = "wfi" /\ pend = {} => todo' = todo
        /\ o.op \in {"set", "save"} => todo' = Tail(todo)
    BY <1>1, <1>2, <1>5, QuietAccesses
  <2>2. o = StoreAt(i, c)[n] /\ Rest(Tail(todo), StoreAt(i, c)) /\ Len(Tail(todo)) = n - 1
    BY <1>1, <1>3, <2>1, RestTail
  <2> HIDE DEF o
  <2>3. StoreAccess(o, n, c)
    BY <1>0, <2>2, StoreAccesses
  <2>4. \A f \in CoreFields : reg'[f] = IF n \notin {3, 5} /\ o.field = f THEN o.val ELSE reg[f]
    BY <2>1, <2>3 DEF StoreAccess
  <2>5. CASE n = 3
    <3>1. core' = "sleep" /\ todo' = todo /\ saved' = saved /\ ctx' = ctx
      BY <1>1, <2>1, <2>3, <2>5 DEF StoreAccess
    <3>2. Armed' /\ Context'
      BY <1>1, <2>1, <2>4, <2>5, <3>1, BitNames DEF Armed, Context
    <3>3. Asleep'
      BY <1>1, <2>1, <2>5, <3>1 DEF Asleep, Quiet
    <3>4. 2 <= reg'["iso_off"] /\ reg'["iso_off"] < reg'["switch_off"]
      <4>1. reg'["iso_off"] = c.iso_off /\ reg'["switch_off"] = c.switch_off
        BY <1>1, <2>4, <2>5, BitNames
      <4>2. c.iso_off \in 2 .. Width - 1 /\ c.iso_off < c.switch_off
        BY CounterAssumption DEF Counters
      <4> QED BY <4>1, <4>2, WidthAssumption
    <3>5. pend' = {} /\ vdd'[Cpu] = out'.switch /\ ack'[Cpu] = TRUE
      BY <1>1, <2>1 DEF Quiet
    <3>6. Falling'
      BY <2>1, <3>2, <3>3, <3>4, <3>5 DEF Falling
    <3> QED BY <3>6
  <2>6. CASE n # 3
    <3>1. /\ core' = "run" /\ todo' = Tail(todo) /\ ctx' = ctx
          /\ saved' = IF n = 5 THEN [ctx |-> ctx, ret |-> CleanUp] ELSE saved
      BY <2>1, <2>3, <2>6 DEF StoreAccess
    <3>2. n - 1 \in 3 .. 15
      BY <1>0, <2>6
    <3>3. /\ n - 1 <= 12 => reg'["switch_off"] = c.switch_off
          /\ n - 1 <= 10 => reg'["iso_off"] = c.iso_off
          /\ n - 1 <= 7 => reg'["wait_ack"] = TRUE
      BY <1>0, <1>1, <2>3, <2>4, <2>6, BitNames DEF StoreAccess
    <3>4. /\ n - 1 <= 6 => reg'["power_gate_core"] = TRUE
          /\ n - 1 <= 5 => reg'["wakeup_state"] = TRUE
          /\ n - 1 <= 3 => reg'["restore_address"] = TRUE
      BY <1>0, <1>1, <2>3, <2>4, <2>6, BitNames DEF StoreAccess
    <3>5. n - 1 <= 4 => Context'
      BY <1>0, <1>1, <2>1, <2>6, <3>1 DEF Context
    <3>6. Len(todo') = n - 1 /\ Rest(todo', StoreAt(i, c))
      BY <2>2, <3>1
    <3>7. StoringAt(n - 1, i, c)'
      BY <1>1, <2>1, <3>1, <3>3, <3>4, <3>5, <3>6 DEF StoringAt
    <3> QED BY <3>2, <3>7 DEF Storing
  <2> QED BY <2>5, <2>6
<1> QED BY <1>4, <1>5

(* A cycle of power_manager_cpu_restore.                                   *)
LEMMA RestoringTick ==
  ASSUME PowerTypes, NEW busy \in BOOLEAN, Tick(busy), NEW n \in 1 .. 4, RestoringAt(n)
  PROVE  Restoring' \/ Cleaning'
<1>1. /\ Quiet /\ core = "run" /\ Context /\ Len(todo) = n /\ Rest(todo, RestoreAt)
      /\ n < 4 => reg["power_gate_core"] = FALSE
  BY DEF RestoringAt
<1>2. ~StartOff
  BY <1>1 DEF StartOff
<1>3. todo \in Seq(Accesses)
  BY DEF PowerTypes, CoreTypes
<1>4. CASE ~busy
  <2>1. /\ Quiet' /\ \A f \in CoreFields : reg'[f] = reg[f]
        /\ calls' = calls /\ saved' = saved /\ core' = core /\ todo' = todo
    BY <1>1, <1>2, <1>4, QuietIdles
  <2>2. RestoringAt(n)'
    BY <1>1, <2>1, BitNames DEF RestoringAt, Context
  <2> QED BY <2>2 DEF Restoring
<1>5. CASE busy
  <2> DEFINE o == Head(todo)
  <2>1. /\ Quiet' /\ todo # <<>>
        /\ \A f \in CoreFields : reg'[f] = IF o.op = "set" /\ o.field = f THEN o.val ELSE reg[f]
        /\ calls' = calls
        /\ core' = IF o.op = "wfi" /\ pend = {} THEN "sleep" ELSE "run"
        /\ saved' = IF o.op = "save" THEN [ctx |-> ctx, ret |-> CleanUp] ELSE saved
        /\ ctx' = IF o.op = "load" THEN saved.ctx ELSE ctx
        /\ o.op \in {"set", "save", "put"} => todo' = Tail(todo)
        /\ o.op = "load" => todo' = saved.ret
    BY <1>1, <1>2, <1>5, QuietAccesses
  <2>2. o = RestoreAt[n] /\ Rest(Tail(todo), RestoreAt) /\ Len(Tail(todo)) = n - 1
    BY <1>1, <1>3, <2>1, RestTail
  <2> HIDE DEF o
  <2>3. /\ n = 1 => o.op = "load"
        /\ n # 1 => o.op = "set" /\ (n = 4 <=> o.field = "power_gate_core")
        /\ n = 4 => o.val = FALSE
    BY <2>2 DEF RestoreAt, Set, Do
  <2>4. CASE n = 1
    <3>1. /\ core' = "run" /\ ctx' = saved.ctx /\ todo' = saved.ret
          /\ reg'["power_gate_core"] = reg["power_gate_core"]
      BY <2>1, <2>3, <2>4, BitNames
    <3>2. Cleaning'
      BY <1>1, <2>1, <2>4, <3>1 DEF Cleaning, Context
    <3> QED BY <3>2
  <2>5. CASE n # 1
    <3>1. core' = "run" /\ saved' = saved /\ todo' = Tail(todo)
      BY <2>1, <2>3, <2>5
    <3>2. reg'["power_gate_core"] = FALSE
      BY <1>1, <2>1, <2>3, <2>5, BitNames
    <3>3. n - 1 \in 1 .. 4
      BY <2>5
    <3>4. RestoringAt(n - 1)'
      BY <1>1, <2>1, <2>2, <3>1, <3>2 DEF RestoringAt, Context
    <3> QED BY <3>3, <3>4 DEF Restoring
  <2> QED BY <2>4, <2>5
<1> QED BY <1>4, <1>5

(* A cycle of what follows power_manager_cpu_store.                        *)
LEMMA CleaningTick ==
  ASSUME PowerTypes, NEW busy \in BOOLEAN, Tick(busy), Cleaning
  PROVE  Cleaning' \/ Serving'
<1>1. /\ Quiet /\ core = "run" /\ ctx = calls /\ reg["power_gate_core"] = FALSE
      /\ todo = CleanUp \/ todo = <<Set("stop", TRUE)>>
  BY DEF Cleaning
<1>2. ~StartOff
  BY <1>1 DEF StartOff
<1>3. CASE ~busy
  <2>1. /\ Quiet' /\ \A f \in CoreFields : reg'[f] = reg[f]
        /\ calls' = calls /\ ctx' = ctx /\ core' = core /\ todo' = todo
    BY <1>1, <1>2, <1>3, QuietIdles
  <2>2. Cleaning'
    BY <1>1, <2>1, BitNames DEF Cleaning
  <2> QED BY <2>2
<1>4. CASE busy
  <2> DEFINE o == Head(todo)
  <2>1. /\ Quiet'
        /\ \A f \in CoreFields : reg'[f] = IF o.op = "set" /\ o.field = f THEN o.val ELSE reg[f]
        /\ calls' = calls
        /\ core' = IF o.op = "wfi" /\ pend = {} THEN "sleep" ELSE "run"
        /\ ctx' = IF o.op = "load" THEN saved.ctx ELSE ctx
        /\ o.op \in {"set", "save", "put"} => todo' = Tail(todo)
    BY <1>1, <1>2, <1>4, QuietAccesses
  <2>2. CASE todo = CleanUp
    <3>1. o = Set("en_wait_for_intr", {}) /\ Tail(todo) = <<Set("stop", TRUE)>>
      <4>1. \A x, y : Head(<<x, y>>) = x /\ Tail(<<x, y>>) = <<y>>
        OBVIOUS
      <4> QED BY <2>2, <4>1, Zenon DEF CleanUp
    <3>2. o.op = "set" /\ o.field = "en_wait_for_intr"
      BY <3>1 DEF Set
    <3> HIDE DEF o
    <3>3. core' = "run" /\ ctx' = ctx /\ todo' = Tail(todo)
          /\ reg'["power_gate_core"] = FALSE
      BY <1>1, <2>1, <3>2, BitNames
    <3>4. Cleaning'
      BY <1>1, <2>1, <3>1, <3>3, Zenon DEF Cleaning
    <3> QED BY <3>4
  <2>3. CASE todo = <<Set("stop", TRUE)>>
    <3>1. o.op = "set" /\ o.field = "stop" /\ o.val = TRUE /\ Tail(todo) = <<>>
      BY <2>3 DEF Set
    <3> HIDE DEF o
    <3>2. core' = "run" /\ ctx' = ctx /\ todo' = <<>> /\ reg'["stop"] = TRUE
          /\ reg'["power_gate_core"] = FALSE
      BY <1>1, <2>1, <3>1, BitNames
    <3>3. Plain(<<>>)
      BY DEF Plain
    <3>4. Serving'
      BY <1>1, <2>1, <3>2, <3>3 DEF Serving
    <3> QED BY <3>4
  <2> QED BY <1>1, <2>2, <2>3
<1> QED BY <1>3, <1>4

(* The core's state survives a cycle in which it is off or asleep, or is lost. *)
LEMMA OffNoAccess ==
  ASSUME PowerTypes, NEW busy, Tick(busy), core # "run"
  PROVE  /\ ~busy /\ saved' = saved /\ calls' = calls
         /\ \A f \in Bits : reg'[f] = reg[f]
         /\ \A k \in Counters :
              reg'[k] = IF Decrements(ctr[k], Started(k)) THEN (reg[k] - 1) % Width ELSE reg[k]
         /\ ~Alive => core' = "lost" /\ todo' = <<Do("boot")>>
         /\ Alive /\ core = "lost" => core' = "run" /\ todo' = todo
         /\ Alive /\ core = "sleep" /\ pend = {} => core' = core /\ todo' = todo /\ ctx' = ctx
<1>1. ~busy /\ NoAccess
  BY DEF Tick, Access, Connected
<1>2. RegTypes(reg) /\ reg' = Counted(reg)
  BY <1>1 DEF PowerTypes, NoAccess
<1>3. /\ \A f \in Bits : reg'[f] = reg[f]
      /\ \A k \in Counters :
           reg'[k] = IF Decrements(ctr[k], Started(k)) THEN (reg[k] - 1) % Width ELSE reg[k]
  BY <1>2, CountedReads
<1>4. saved' = saved /\ calls' = calls
  BY <1>1, Supply DEF NoAccess
<1>5. /\ ~Alive => core' = "lost" /\ todo' = <<Do("boot")>>
      /\ Alive /\ core = "lost" => core' = "run" /\ todo' = todo
      /\ Alive /\ core = "sleep" /\ pend = {} => core' = core /\ todo' = todo /\ ctx' = ctx
  BY <1>1 DEF NoAccess
<1> QED BY <1>1, <1>3, <1>4, <1>5

(* A cycle in which the core makes no access keeps it armed.               *)
LEMMA ArmedKept ==
  ASSUME Armed, \A f \in Bits : reg'[f] = reg[f]
  PROVE  Armed'
<1>1. {"power_gate_core", "wakeup_state", "restore_address", "wait_ack"} \subseteq Bits
  BY DEF Bits, Regs, Counters
<1>2. /\ reg["power_gate_core"] = TRUE /\ reg["wakeup_state"] = TRUE
      /\ reg["restore_address"] = TRUE /\ reg["wait_ack"] = TRUE
  BY DEF Armed
<1> QED BY <1>1, <1>2 DEF Armed

(* A cycle of a sequencer that waits for the acknowledge of the switch.    *)
LEMMA GatedCycle ==
  ASSUME PowerTypes, Clock, ~StartOff, reg.wait_ack = TRUE, NEW x \in Signals, NEW a,
         a = TRUE \/ (x # "switch" /\ a = ack[Cpu]), x = "switch" => a = TRUE,
         x # "switch" => a = ack[Cpu],
         Gated(seq[x], out[x], a)
  PROVE  /\ Gated(seq'[x], out'[x], a) /\ (out'[x] = TRUE => seq'[x] = "IDLE")
         /\ (out[x] = TRUE => out'[x] = TRUE)
<1>1. Acked(x, Cpu, reg.wait_ack) => a = TRUE
  <2>1. ack[Cpu] \in BOOLEAN
    BY DEF PowerTypes, HwTypes
  <2> QED BY <2>1 DEF Acked
<1>2. seq[x] \in {"WAIT_ON", "WAIT_ACK", "SWITCH_ON", "IDLE"}
  BY DEF Gated
<1>3. CASE seq[x] = "WAIT_ON"
  <2>1. out'[x] = FALSE /\ seq'[x] \in {"WAIT_ON", "WAIT_ACK", "SWITCH_ON"}
        /\ (seq'[x] = "SWITCH_ON" => a = TRUE)
    BY <1>1, <1>3, Cycle
  <2> QED BY <1>3, <2>1 DEF Gated
<1>4. CASE seq[x] = "WAIT_ACK"
  <2>1. out'[x] = FALSE /\ seq'[x] \in {"WAIT_ON", "WAIT_ACK", "SWITCH_ON"}
        /\ (seq'[x] = "SWITCH_ON" => a = TRUE)
    BY <1>1, <1>4, Cycle
  <2> QED BY <1>4, <2>1 DEF Gated
<1>5. CASE seq[x] = "SWITCH_ON"
  <2>1. out'[x] = TRUE /\ seq'[x] = "IDLE"
    BY <1>5, Cycle
  <2> QED BY <1>5, <2>1 DEF Gated
<1>6. CASE seq[x] = "IDLE"
  <2>1. out'[x] = TRUE /\ seq'[x] = "IDLE"
    BY <1>6, Cycle
  <2> QED BY <1>6, <2>1 DEF Gated
<1> QED BY <1>2, <1>3, <1>4, <1>5, <1>6

(* A cycle while the core is switched on again, up to the boot ROM.        *)
LEMMA RisingTick ==
  ASSUME PowerTypes, NEW busy \in BOOLEAN, Tick(busy), Rising
  PROVE  Rising' \/ Restoring'
<1>1. /\ Armed /\ Context /\ todo = <<Do("boot")>>
      /\ core = "lost" \/ (core = "run" /\ out["reset"] = TRUE /\ out["switch"] = TRUE)
      /\ ctr["iso_off"] \in {"idle", "expire"} /\ ctr["switch_off"] \in {"idle", "expire"}
      /\ Gated(seq["iso"], out["iso"], ack[Cpu]) /\ Gated(seq["reset"], out["reset"], ack[Cpu])
      /\ Gated(seq["switch"], out["switch"], TRUE)
      /\ vdd[Cpu] = TRUE => out["switch"] = TRUE
      /\ ack[Cpu] = TRUE => vdd[Cpu] = TRUE
  BY DEF Rising
<1>2. ~StartOff /\ Clock /\ reg.wait_ack = TRUE
  BY <1>1 DEF StartOff, Tick, Armed
<1>3. /\ Gated(seq'["iso"], out'["iso"], ack[Cpu]) /\ Gated(seq'["reset"], out'["reset"], ack[Cpu])
      /\ Gated(seq'["switch"], out'["switch"], TRUE)
      /\ out["switch"] = TRUE => out'["switch"] = TRUE
      /\ out["reset"] = TRUE => out'["reset"] = TRUE
  <2>1. Gated(seq'["iso"], out'["iso"], ack[Cpu])
    BY <1>1, <1>2, GatedCycle DEF Signals
  <2>2. Gated(seq'["reset"], out'["reset"], ack[Cpu]) /\ (out["reset"] = TRUE => out'["reset"] = TRUE)
    BY <1>1, <1>2, GatedCycle DEF Signals
  <2>3. Gated(seq'["switch"], out'["switch"], TRUE) /\ (out["switch"] = TRUE => out'["switch"] = TRUE)
    BY <1>1, <1>2, GatedCycle DEF Signals
  <2> QED BY <2>1, <2>2, <2>3
<1>4. vdd'[Cpu] = (vdd[Cpu] /\ out'.switch) /\ ack' = ack /\ pend' = pend /\ calls' = calls
  BY Supply
<1>5. /\ vdd[Cpu] \in BOOLEAN /\ ack[Cpu] \in BOOLEAN /\ out'["switch"] \in BOOLEAN
      /\ out'["reset"] \in BOOLEAN
  BY <1>2, ClockTypes DEF PowerTypes, HwTypes, Signals
<1>6. /\ vdd'[Cpu] = TRUE => out'["switch"] = TRUE
      /\ ack'[Cpu] = TRUE => vdd'[Cpu] = TRUE
  BY <1>1, <1>3, <1>4, <1>5
<1>7. ctr'["iso_off"] \in {"idle", "expire"} /\ ctr'["switch_off"] \in {"idle", "expire"}
  <2>1. OffCounter["iso"] = "iso_off" /\ OffCounter["switch"] = "switch_off"
    BY DEF OffCounter
  <2> QED BY <1>1, <1>2, <2>1, CycleCounter
<1>8. CASE core = "lost"
  <2>1. /\ saved' = saved /\ \A f \in Bits : reg'[f] = reg[f]
        /\ ~Alive => core' = "lost" /\ todo' = <<Do("boot")>>
        /\ Alive => core' = "run" /\ todo' = todo
    BY <1>8, OffNoAccess
  <2>2. core' = "lost" \/ (core' = "run" /\ out'["reset"] = TRUE /\ out'["switch"] = TRUE)
    BY <1>5, <2>1 DEF Alive
  <2>3. Rising'
    BY <1>1, <1>3, <1>4, <1>6, <1>7, <2>1, <2>2, ArmedKept DEF Rising, Context
  <2> QED BY <2>3
<1>9. CASE core = "run" /\ ~busy
  <2>1. NoAccess /\ Alive
    BY <1>1, <1>3, <1>9 DEF Tick, Alive
  <2>2. saved' = saved /\ core' = core /\ todo' = todo
    BY <1>9, <2>1 DEF NoAccess
  <2>3. \A f \in Bits : reg'[f] = reg[f]
    BY <2>1, CountedReads DEF NoAccess, PowerTypes
  <2>4. Rising'
    BY <1>1, <1>3, <1>4, <1>6, <1>7, <1>9, <2>2, <2>3, ArmedKept DEF Rising, Context
  <2> QED BY <2>4
<1>10. CASE core = "run" /\ busy
  <2>1. Access
    BY <1>10 DEF Tick
  <2>2. Quiet
    <3>1. out["iso"] = TRUE /\ out["reset"] = TRUE /\ vdd[Cpu] = TRUE
      BY <1>5, <2>1 DEF Access, Connected, PowerTypes, HwTypes, Signals
    <3> QED BY <1>1, <3>1 DEF Gated, Quiet
  <2>3. Quiet' /\ \A k \in {"iso_off", "switch_off"} : ~Decrements(ctr[k], Started(k))
    BY <1>2, <2>2, QuietCycle
  <2>4. Head(todo) = Do("boot")
    BY <1>1
  <2>5. Head(todo).op = "boot"
    BY <2>4 DEF Do
  <2>6. core' = "run" /\ saved' = saved /\ todo' = power_manager_cpu_restore
    BY <1>1, <2>1, <2>5 DEF Access, entry, Armed
  <2>7. Len(power_manager_cpu_restore) = 4 /\ Rest(power_manager_cpu_restore, RestoreAt)
    BY RestoreScript
  <2>8. RestoringAt(4)'
    BY <1>1, <1>4, <2>3, <2>6, <2>7 DEF RestoringAt, Context
  <2> QED BY <2>8 DEF Restoring
<1> QED BY <1>1, <1>8, <1>9, <1>10

(* The core falls asleep: the sequencers and the counters start. *)
LEMMA FallingStarts ==
  ASSUME PowerTypes, NEW busy, Tick(busy), Falling,
         Quiet, Stopped, Asleep, 2 <= reg.iso_off, reg.iso_off < reg.switch_off
  PROVE  Falling'
<1>1. /\ Armed /\ Context /\ core = "sleep" /\ ctx = calls /\ pend = {}
      /\ \A x \in Signals : seq[x] = "IDLE" /\ out[x] = TRUE
  <2>1. ~CoreOff
    BY DEF Quiet, CoreOff, Signals
  <2> QED BY <2>1 DEF Falling, Asleep, Quiet, Signals
<1>2. StartOff /\ Clock
  BY <1>1 DEF StartOff, Armed, Tick
<1>3. \A x \in Signals : seq'[x] = "WAIT_OFF" /\ out'[x] = TRUE
  BY <1>1, <1>2, Cycle
<1>4. \A k \in {"iso_off", "switch_off"} : ctr'[k] = "count" /\ Decrements(ctr[k], Started(k))
  <2>1. OffCounter["iso"] = "iso_off" /\ OffCounter["switch"] = "switch_off"
    BY DEF OffCounter
  <2>2. ctr["iso_off"] = "idle" /\ ctr["switch_off"] = "idle" /\ seq["iso"] = "IDLE" /\ seq["switch"] = "IDLE"
    BY <1>1 DEF Stopped, Signals
  <2> QED BY <1>2, <2>1, <2>2, CycleCounter
<1>5. /\ saved' = saved /\ calls' = calls /\ \A f \in Bits : reg'[f] = reg[f]
      /\ \A k \in {"iso_off", "switch_off"} : reg'[k] = (reg[k] - 1) % Width
      /\ Alive => core' = core /\ todo' = todo /\ ctx' = ctx
  BY <1>1, <1>4, OffNoAccess DEF Counters
<1>6. 1 <= reg'["iso_off"] /\ reg'["iso_off"] < reg'["switch_off"]
  <2>1. /\ reg["iso_off"] \in 0 .. Width - 1 /\ reg["switch_off"] \in 0 .. Width - 1
        /\ 2 <= reg["iso_off"] /\ reg["iso_off"] < reg["switch_off"]
    BY DEF PowerTypes, RegTypes, Counters
  <2>2. \A n \in 1 .. Width - 1 : (n - 1) % Width = n - 1
    BY WidthAssumption
  <2>3. reg["iso_off"] \in 1 .. Width - 1 /\ reg["switch_off"] \in 1 .. Width - 1
    BY <2>1, WidthAssumption
  <2>4. reg'["iso_off"] = reg["iso_off"] - 1 /\ reg'["switch_off"] = reg["switch_off"] - 1
    BY <1>5, <2>2, <2>3
  <2> QED BY <2>1, <2>4, WidthAssumption
<1>7. Asleep'
  BY <1>1, <1>3, <1>5 DEF Asleep, Alive, Signals
<1>8. vdd'[Cpu] = out'.switch /\ ack'[Cpu] = TRUE /\ pend' = {}
  BY <1>1, <1>3, Supply DEF Quiet, Signals
<1>9. Ahead'
  BY <1>3, <1>4, <1>6 DEF Ahead, Signals
<1>10. /\ Leaving(seq'.switch, out'.switch) /\ Leaving(seq'.iso, out'.iso)
       /\ Leaving(seq'.reset, out'.reset)
  BY <1>3 DEF Leaving, Signals
<1> QED BY <1>1, <1>5, <1>7, <1>8, <1>9, <1>10, ArmedKept DEF Falling, Context

(* The wake-up interrupt: everything is off, and is switched on again. *)
LEMMA FallingEnds ==
  ASSUME PowerTypes, NEW busy, Tick(busy), Falling, Ahead, StartOn
  PROVE  Rising'
<1>1. /\ Armed /\ Context /\ (Asleep \/ Gone)
      /\ (\A x \in Signals : seq[x] = "SWITCH_OFF" /\ ~out[x]) /\ ~ack[Cpu]
      /\ vdd[Cpu] = out.switch
  BY DEF Falling, StartOn, CoreOff
<1>2. Clock
  BY DEF Tick
<1>3. \A x \in Signals : seq'[x] = "WAIT_ON" /\ out'[x] = FALSE
  BY <1>1, <1>2, Cycle
<1>4. \A k \in {"iso_off", "switch_off"} : ctr'[k] \in {"idle", "expire"}
  <2>1. OffCounter["iso"] = "iso_off" /\ OffCounter["switch"] = "switch_off"
    BY DEF OffCounter
  <2>2. /\ ctr["iso_off"] \in {"idle", "expire"} /\ ctr["switch_off"] \in {"idle", "expire"}
        /\ seq["iso"] # "IDLE" /\ seq["switch"] # "IDLE"
    BY <1>1 DEF Ahead, Signals
  <2> QED BY <1>2, <2>1, <2>2, CycleCounter
<1>5. core # "run" /\ ~Alive
  BY <1>1, <1>3 DEF Asleep, Gone, Alive, Signals
<1>6. /\ saved' = saved /\ calls' = calls /\ \A f \in Bits : reg'[f] = reg[f]
      /\ core' = "lost" /\ todo' = <<Do("boot")>>
  BY <1>5, OffNoAccess
<1>7. vdd'[Cpu] = FALSE /\ ack'[Cpu] = FALSE
  <2>1. ack[Cpu] \in BOOLEAN /\ ack' = ack
    BY Supply DEF PowerTypes, HwTypes
  <2>2. out'.switch = FALSE
    BY <1>3 DEF Signals
  <2> QED BY <1>1, <2>1, <2>2, Supply
<1>8. /\ Gated(seq'.iso, out'.iso, ack'[Cpu]) /\ Gated(seq'.reset, out'.reset, ack'[Cpu])
      /\ Gated(seq'.switch, out'.switch, TRUE)
  BY <1>3 DEF Gated, Signals
<1> QED BY <1>1, <1>4, <1>6, <1>7, <1>8, ArmedKept DEF Rising, Context

(* One sequencer on its way off. *)
LEMMA LeavingCycle ==
  ASSUME PowerTypes, Clock, ~StartOn, NEW x \in Signals, Leaving(seq[x], out[x])
  PROVE  /\ Leaving(seq'[x], out'[x])
         /\ seq[x] = "SWITCH_OFF" => seq'[x] = "SWITCH_OFF" /\ out'[x] = FALSE
         /\ out[x] = FALSE => seq[x] = "SWITCH_OFF"
         /\ seq[x] = "WAIT_OFF" =>
              seq'[x] = IF ctr[OffCounter[x]] = "expire" THEN "SWITCH_OFF" ELSE "WAIT_OFF"
<1>1. CASE seq[x] = "WAIT_OFF"
  <2>1. out'[x] = TRUE /\ out[x] = TRUE
        /\ seq'[x] = IF ctr[OffCounter[x]] = "expire" THEN "SWITCH_OFF" ELSE "WAIT_OFF"
    BY <1>1, Cycle DEF Leaving
  <2> QED BY <1>1, <2>1 DEF Leaving
<1>2. CASE seq[x] = "SWITCH_OFF"
  <2>1. out'[x] = FALSE /\ seq'[x] = "SWITCH_OFF"
    BY <1>2, Cycle
  <2> QED BY <1>2, <2>1 DEF Leaving
<1> QED BY <1>1, <1>2 DEF Leaving

(* The switch stays behind the isolation. *)
LEMMA AheadCycle ==
  ASSUME PowerTypes, NEW busy, Tick(busy), ~StartOn, core # "run", Ahead,
         Leaving(seq["iso"], out["iso"]), Leaving(seq["switch"], out["switch"])
  PROVE  Ahead'
<1>0. Clock /\ OffCounter["iso"] = "iso_off" /\ OffCounter["switch"] = "switch_off"
  BY DEF Tick, OffCounter
<1>1. /\ seq["iso"] = "SWITCH_OFF" => seq'["iso"] = "SWITCH_OFF" /\ out'["iso"] = FALSE
      /\ seq["switch"] = "SWITCH_OFF" => seq'["switch"] = "SWITCH_OFF"
      /\ seq["iso"] = "WAIT_OFF" =>
           seq'["iso"] = IF ctr["iso_off"] = "expire" THEN "SWITCH_OFF" ELSE "WAIT_OFF"
      /\ seq["switch"] = "WAIT_OFF" =>
           seq'["switch"] = IF ctr["switch_off"] = "expire" THEN "SWITCH_OFF" ELSE "WAIT_OFF"
  <2>1. "iso" \in Signals /\ "switch" \in Signals
    BY DEF Signals
  <2>2. /\ seq["iso"] = "SWITCH_OFF" => seq'["iso"] = "SWITCH_OFF" /\ out'["iso"] = FALSE
        /\ seq["iso"] = "WAIT_OFF" =>
             seq'["iso"] = IF ctr["iso_off"] = "expire" THEN "SWITCH_OFF" ELSE "WAIT_OFF"
    BY <1>0, <2>1, LeavingCycle
  <2>3. /\ seq["switch"] = "SWITCH_OFF" => seq'["switch"] = "SWITCH_OFF"
        /\ seq["switch"] = "WAIT_OFF" =>
             seq'["switch"] = IF ctr["switch_off"] = "expire" THEN "SWITCH_OFF" ELSE "WAIT_OFF"
    BY <1>0, <2>1, LeavingCycle
  <2> QED BY <2>2, <2>3
<1>2. \A k \in {"iso_off", "switch_off"} :
        /\ ctr[k] = "count" => /\ ctr'[k] = IF (reg[k] - 1) % Width = 0 THEN "expire" ELSE "count"
                               /\ reg'[k] = (reg[k] - 1) % Width
        /\ ctr[k] = "expire" => ctr'[k] \in {"idle", "expire"} /\ reg'[k] = reg[k]
  <2> SUFFICES ASSUME NEW x \in {"iso", "switch"}, NEW k, k = OffCounter[x], k \in Counters
      PROVE  /\ ctr[k] = "count" => /\ ctr'[k] = IF (reg[k] - 1) % Width = 0 THEN "expire" ELSE "count"
                                    /\ reg'[k] = (reg[k] - 1) % Width
             /\ ctr[k] = "expire" => ctr'[k] \in {"idle", "expire"} /\ reg'[k] = reg[k]
    BY <1>0 DEF Counters
  <2>1. /\ ctr[k] = "count" => ctr'[k] = IF (reg[k] - 1) % Width = 0 THEN "expire" ELSE "count"
        /\ ctr[k] = "expire" => ctr'[k] \in {"idle", "expire"}
        /\ ctr[k] = "count" => Decrements(ctr[k], Started(k))
        /\ ctr[k] = "expire" => ~Decrements(ctr[k], Started(k))
    BY <1>0, CycleCounter
  <2>2. reg'[k] = IF Decrements(ctr[k], Started(k)) THEN (reg[k] - 1) % Width ELSE reg[k]
    BY OffNoAccess
  <2> QED BY <2>1, <2>2
<1>3. \A k \in {"iso_off", "switch_off"}, x \in {"iso", "switch"} :
        k = OffCounter[x] /\ seq[x] # "IDLE" /\ ctr[k] = "idle" => ctr'[k] = "idle"
  BY <1>0, CycleCounter
<1>4. /\ reg["iso_off"] \in 0 .. Width - 1 /\ reg["switch_off"] \in 0 .. Width - 1
      /\ \A n \in 1 .. Width - 1 : (n - 1) % Width = n - 1
  BY WidthAssumption DEF PowerTypes, RegTypes, Counters
<1>5. CASE /\ seq["iso"] = "WAIT_OFF" /\ seq["switch"] = "WAIT_OFF" /\ ctr["switch_off"] = "count"
           /\ ctr["iso_off"] = "count" /\ 1 <= reg["iso_off"] /\ reg["iso_off"] < reg["switch_off"]
  <2>1. seq'["iso"] = "WAIT_OFF" /\ seq'["switch"] = "WAIT_OFF"
    BY <1>1, <1>5
  <2>2. /\ (reg["iso_off"] - 1) % Width = reg["iso_off"] - 1
        /\ (reg["switch_off"] - 1) % Width = reg["switch_off"] - 1
        /\ reg["switch_off"] - 1 # 0
    BY <1>4, <1>5
  <2>3. /\ ctr'["switch_off"] = "count" /\ reg'["switch_off"] = reg["switch_off"] - 1
        /\ reg'["iso_off"] = reg["iso_off"] - 1
        /\ ctr'["iso_off"] = IF reg["iso_off"] - 1 = 0 THEN "expire" ELSE "count"
    BY <1>2, <1>5, <2>2
  <2>4. /\ reg'["iso_off"] < reg'["switch_off"] /\ 1 <= reg'["switch_off"]
        /\ reg["iso_off"] - 1 # 0 => 1 <= reg'["iso_off"]
    BY <1>4, <1>5, <2>3
  <2> QED BY <2>1, <2>3, <2>4 DEF Ahead
<1>6. CASE /\ seq["iso"] = "WAIT_OFF" /\ seq["switch"] = "WAIT_OFF" /\ ctr["switch_off"] = "count"
           /\ ctr["iso_off"] = "expire"
  <2>1. seq'["iso"] = "SWITCH_OFF" /\ seq'["switch"] = "WAIT_OFF"
        /\ ctr'["iso_off"] \in {"idle", "expire"}
    BY <1>1, <1>2, <1>6
  <2> QED BY <2>1 DEF Ahead
<1>7. CASE /\ seq["iso"] = "SWITCH_OFF" /\ ctr["iso_off"] \in {"idle", "expire"}
           /\ seq["switch"] = "WAIT_OFF"
  <2>1. /\ seq'["iso"] = "SWITCH_OFF" /\ out'["iso"] = FALSE
        /\ ctr'["iso_off"] \in {"idle", "expire"}
    BY <1>0, <1>1, <1>2, <1>3, <1>7
  <2>2. seq'["switch"] = "WAIT_OFF" \/ (seq'["switch"] = "SWITCH_OFF" /\ ctr["switch_off"] = "expire")
    BY <1>1, <1>7
  <2>3. seq'["switch"] = "SWITCH_OFF" => ctr'["switch_off"] \in {"idle", "expire"}
    BY <1>2, <2>2
  <2> QED BY <2>1, <2>2, <2>3 DEF Ahead
<1>8. CASE /\ seq["iso"] = "SWITCH_OFF" /\ ctr["iso_off"] \in {"idle", "expire"}
           /\ seq["switch"] = "SWITCH_OFF" /\ ctr["switch_off"] \in {"idle", "expire"}
  <2>1. /\ seq'["iso"] = "SWITCH_OFF" /\ out'["iso"] = FALSE /\ seq'["switch"] = "SWITCH_OFF"
        /\ ctr'["iso_off"] \in {"idle", "expire"} /\ ctr'["switch_off"] \in {"idle", "expire"}
    BY <1>0, <1>1, <1>2, <1>3, <1>8
  <2> QED BY <2>1 DEF Ahead
<1> QED BY <1>5, <1>6, <1>7, <1>8 DEF Ahead

(* A cycle in the wfi of power_manager_cpu_store and while the core is off.*)
LEMMA FallingTick ==
  ASSUME PowerTypes, NEW busy \in BOOLEAN, Tick(busy), Falling
  PROVE  Falling' \/ Rising'
<1>1. CASE Quiet /\ Stopped /\ Asleep /\ 2 <= reg.iso_off /\ reg.iso_off < reg.switch_off
  BY <1>1, FallingStarts
<1>2. CASE /\ Leaving(seq.switch, out.switch) /\ Leaving(seq.iso, out.iso)
           /\ Leaving(seq.reset, out.reset) /\ Ahead
  <2>1. CASE StartOn
    BY <1>2, <2>1, FallingEnds
  <2>2. CASE ~StartOn
    <3>1. /\ Armed /\ Context /\ (Asleep \/ Gone) /\ (pend # {} => CoreOff)
          /\ vdd[Cpu] = out["switch"] /\ (ack[Cpu] = TRUE \/ vdd[Cpu] = FALSE)
          /\ core # "run" /\ Clock
      BY DEF Falling, Asleep, Gone, Tick
    <3>2. Ahead'
      BY <1>2, <2>2, <3>1, AheadCycle
    <3>3. \A x \in Signals :
            /\ Leaving(seq'[x], out'[x])
            /\ seq[x] = "SWITCH_OFF" => seq'[x] = "SWITCH_OFF" /\ out'[x] = FALSE
            /\ out[x] = FALSE => seq[x] = "SWITCH_OFF"
      <4>1. \A x \in Signals : Leaving(seq[x], out[x])
        BY <1>2 DEF Signals
      <4> QED BY <2>2, <3>1, <4>1, LeavingCycle
    <3>4. /\ Leaving(seq'.switch, out'.switch) /\ Leaving(seq'.iso, out'.iso)
          /\ Leaving(seq'.reset, out'.reset)
      BY <3>3 DEF Signals
    <3>5. /\ vdd'[Cpu] = (vdd[Cpu] /\ out'.switch)
          /\ ack' = ack /\ pend' = pend /\ calls' = calls
      BY Supply
    <3>6. /\ saved' = saved /\ \A f \in Bits : reg'[f] = reg[f]
          /\ ~Alive => core' = "lost" /\ todo' = <<Do("boot")>>
          /\ Alive /\ core = "sleep" /\ pend = {} => core' = core /\ todo' = todo /\ ctx' = ctx
      BY <3>1, OffNoAccess
    <3>7. /\ out'["switch"] \in BOOLEAN /\ out'["reset"] \in BOOLEAN /\ out'["iso"] \in BOOLEAN
          /\ out["switch"] \in BOOLEAN
      BY <3>1, ClockTypes DEF Signals, PowerTypes, HwTypes
    <3>8. vdd'[Cpu] = out'["switch"] /\ (ack'[Cpu] = TRUE \/ vdd'[Cpu] = FALSE)
      <4>1. out["switch"] = FALSE => out'["switch"] = FALSE
        BY <3>3 DEF Signals
      <4> QED BY <3>1, <3>5, <3>7, <4>1
    <3>9. Asleep' \/ Gone'
      <4>1. CASE ~Alive
        BY <3>6, <3>7, <4>1 DEF Gone, Alive
      <4>2. CASE Alive
        <5>1. out["reset"] = TRUE /\ out["switch"] = TRUE
          BY <3>3, <4>2 DEF Alive, Signals, PowerTypes, HwTypes
        <5>2. Asleep /\ pend = {}
          BY <3>1, <5>1 DEF Gone, CoreOff, Signals
        <5> QED BY <3>5, <3>6, <3>7, <4>2, <5>2 DEF Asleep, Alive
      <4> QED BY <4>1, <4>2
    <3>10. pend' # {} => CoreOff'
      BY <3>1, <3>3, <3>5 DEF CoreOff
    <3> QED BY <3>1, <3>2, <3>4, <3>5, <3>6, <3>8, <3>9, <3>10, ArmedKept DEF Falling, Context
  <2> QED BY <2>1, <2>2
<1> QED BY <1>1, <1>2 DEF Falling

(* Every cycle keeps the invariant of the core.                            *)
LEMMA CoreTick ==
  ASSUME PowerTypes, NEW busy \in BOOLEAN, Tick(busy), CoreInv
  PROVE  CoreInv'
<1>1. CASE Serving
  BY <1>1, ServingTick DEF CoreInv
<1>2. CASE Storing
  BY <1>2, StoringTick DEF CoreInv, Storing
<1>3. CASE Falling
  BY <1>3, FallingTick DEF CoreInv
<1>4. CASE Rising
  BY <1>4, RisingTick DEF CoreInv
<1>5. CASE Restoring
  BY <1>5, RestoringTick DEF CoreInv, Restoring
<1>6. CASE Cleaning
  BY <1>6, CleaningTick DEF CoreInv
<1> QED BY <1>1, <1>2, <1>3, <1>4, <1>5, <1>6 DEF CoreInv

(***************************************************************************)
(* The core: the switches, the interrupts and the application.             *)
(***************************************************************************)
LEMMA CoreSwitches ==
  ASSUME PowerTypes, CoreInv, NEW x \in Domains \cup {Cpu}, PowerUp(x) \/ Acknowledge(x)
  PROVE  CoreInv'
<1>1. /\ reg' = reg /\ seq' = seq /\ out' = out /\ ctr' = ctr /\ pend' = pend /\ core' = core
      /\ todo' = todo /\ ctx' = ctx /\ saved' = saved /\ calls' = calls
      /\ vdd \in [Domains \cup {Cpu} -> BOOLEAN] /\ ack \in [Domains \cup {Cpu} -> BOOLEAN]
      /\ out.switch \in BOOLEAN
  BY DEF PowerUp, Acknowledge, hw, PowerTypes, HwTypes, Signals
<1>2. \/ vdd'[Cpu] = vdd[Cpu] /\ ack'[Cpu] = ack[Cpu]
      \/ vdd[Cpu] = FALSE /\ out.switch = TRUE /\ vdd'[Cpu] = TRUE /\ ack'[Cpu] = ack[Cpu]
      \/ vdd'[Cpu] = vdd[Cpu] /\ ack[Cpu] # vdd[Cpu] /\ ack'[Cpu] = vdd[Cpu]
  BY <1>1 DEF PowerUp, Acknowledge
<1>3. Quiet => Quiet'
  BY <1>1, <1>2 DEF Quiet
<1>4. CASE Serving
  BY <1>1, <1>3, <1>4 DEF CoreInv, Serving, Stopped
<1>5. CASE Storing
  <2>1. PICK n \in 3 .. 15, i \in Irqs, c \in CounterValues : StoringAt(n, i, c)
    BY <1>5 DEF Storing
  <2>2. StoringAt(n, i, c)'
    BY <1>1, <1>3, <2>1 DEF StoringAt, Stopped, Context
  <2> QED BY <2>2 DEF CoreInv, Storing
<1>6. CASE Falling
  <2>1. Armed' /\ Context' /\ (Asleep' \/ Gone')
    BY <1>1, <1>6 DEF Falling, Armed, Context, Asleep, Gone
  <2>2. /\ vdd'[Cpu] = vdd[Cpu] /\ (pend' # {} => CoreOff')
        /\ (ack'[Cpu] = TRUE \/ vdd'[Cpu] = FALSE)
    BY <1>1, <1>2, <1>6 DEF Falling, CoreOff
  <2>3. Ahead => Ahead'
    BY <1>1 DEF Ahead
  <2>4. Asleep => Asleep'
    BY <1>1 DEF Asleep
  <2>5. Falling'
    BY <1>1, <1>3, <1>6, <2>1, <2>2, <2>3, <2>4 DEF Falling, Stopped
  <2> QED BY <2>5 DEF CoreInv
<1>7. CASE Rising
  <2>1. Armed' /\ Context'
    BY <1>1, <1>7 DEF Rising, Armed, Context
  <2>2. \A z, o : Gated(z, o, ack[Cpu]) => Gated(z, o, ack'[Cpu])
    BY <1>1, <1>2, <1>7 DEF Rising, Gated
  <2>3. Rising'
    BY <1>1, <1>2, <1>7, <2>1, <2>2 DEF Rising
  <2> QED BY <2>3 DEF CoreInv
<1>8. CASE Restoring
  <2>1. PICK n \in 1 .. 4 : RestoringAt(n)
    BY <1>8 DEF Restoring
  <2>2. RestoringAt(n)'
    BY <1>1, <1>3, <2>1 DEF RestoringAt, Context
  <2> QED BY <2>2 DEF CoreInv, Restoring
<1>9. CASE Cleaning
  BY <1>1, <1>3, <1>9 DEF CoreInv, Cleaning
<1> QED BY <1>4, <1>5, <1>6, <1>7, <1>8, <1>9 DEF CoreInv

(* An interrupt line that rises or is handled keeps it.                    *)
LEMMA CoreInterrupts ==
  ASSUME PowerTypes, CoreInv, Early = FALSE, NEW i \in Irqs, Raise(i) \/ Handle(i)
  PROVE  CoreInv'
<1>1. /\ reg' = reg /\ seq' = seq /\ out' = out /\ ctr' = ctr /\ vdd' = vdd /\ ack' = ack
      /\ core' = core /\ todo' = todo /\ ctx' = ctx /\ saved' = saved /\ calls' = calls
      /\ CoreOff \/ (core = "sleep" /\ Len(todo) = 1) \/ (core = "run" /\ i \in pend)
  BY DEF Raise, Handle, hw, Idle
<1>2. Quiet => Quiet' /\ ~CoreOff
  BY <1>1 DEF Quiet, CoreOff, Signals
<1>3. CASE Serving
  BY <1>1, <1>2, <1>3 DEF CoreInv, Serving, Stopped
<1>4. CASE Storing
  BY <1>1, <1>2, <1>4 DEF Storing, StoringAt
<1>5. CASE Falling
  <2>1. core # "run" /\ ~(core = "sleep" /\ Len(todo) = 1)
    BY <1>5 DEF Falling, Asleep, Gone
  <2>2. CoreOff'
    BY <1>1, <2>1 DEF CoreOff
  <2>3. Armed' /\ Context' /\ (Asleep' \/ Gone') /\ (Asleep => Asleep') /\ (Ahead => Ahead')
    BY <1>1, <1>5 DEF Falling, Armed, Context, Asleep, Gone, Ahead
  <2>4. Falling'
    BY <1>1, <1>2, <1>5, <2>2, <2>3 DEF Falling, Stopped
  <2> QED BY <2>4 DEF CoreInv
<1>6. CASE Rising
  BY <1>1, <1>6 DEF CoreInv, Rising, Armed, Context
<1>7. CASE Restoring
  BY <1>1, <1>2, <1>7 DEF CoreInv, Restoring, RestoringAt, Context
<1>8. CASE Cleaning
  BY <1>1, <1>2, <1>8 DEF CoreInv, Cleaning
<1> QED BY <1>3, <1>4, <1>5, <1>6, <1>7, <1>8 DEF CoreInv

(* Between two calls. *)
LEMMA IdleServes ==
  ASSUME CoreInv, Idle
  PROVE  Serving
<1>1. core = "run" /\ todo = <<>> /\ Len(todo) = 0
  BY DEF Idle
<1>2. ~Storing /\ ~Restoring
  BY <1>1 DEF Storing, StoringAt, Restoring, RestoringAt
<1>3. ~Falling
  BY <1>1 DEF Falling, Asleep, Gone
<1>4. ~Rising /\ ~Cleaning
  BY <1>1 DEF Rising, Cleaning, CleanUp
<1> QED BY <1>2, <1>3, <1>4 DEF CoreInv

(* A call that does not switch the core off. *)
LEMMA PlainCall ==
  ASSUME CoreInv, NEW script, Plain(script), Call(script)
  PROVE  CoreInv'
<1>1. Serving
  BY IdleServes DEF Call
<1>2. /\ reg' = reg /\ seq' = seq /\ out' = out /\ ctr' = ctr /\ vdd' = vdd /\ ack' = ack
      /\ core' = "run" /\ todo' = script /\ ctx' = calls'
  BY DEF Call, hw, Idle
<1>3. Serving'
  BY <1>1, <1>2 DEF Serving, Quiet, Stopped
<1> QED BY <1>3 DEF CoreInv

(* So does every call of the application.                                  *)
LEMMA CoreCalls ==
  ASSUME CoreInv,
         \/ \E i \in Irqs, c \in CounterValues : CallCore(i, c)
         \/ CallWfi
         \/ \E d \in Domains : \/ \E enable \in BOOLEAN : CallClkGate(d, enable)
                               \/ \E s \in SelStates : CallGate(d, s)
  PROVE  CoreInv'
<1>0. \A s \in Seq(DomAccesses) : Plain(s)
  <2> SUFFICES ASSUME NEW s \in Seq(DomAccesses), NEW j \in 1 .. Len(s)
               PROVE  s[j].op \in {"put", "poll"}
    BY DEF Plain
  <2>1. s[j] \in DomAccesses
    OBVIOUS
  <2> QED BY <2>1 DEF DomAccesses
<1>1. ASSUME NEW i \in Irqs, NEW c \in CounterValues, CallCore(i, c) PROVE CoreInv'
  <2>1. Serving
    BY <1>1, IdleServes DEF CallCore, Call
  <2>2. /\ reg' = reg /\ seq' = seq /\ out' = out /\ ctr' = ctr /\ vdd' = vdd /\ ack' = ack
        /\ core' = "run" /\ todo' = power_manager_pwr_gate_core(i, c) /\ ctx' = calls' /\ pend' = {}
    BY <1>1 DEF CallCore, Call, hw, Idle
  <2>3. Len(todo') = 15 /\ Rest(todo', StoreAt(i, c))
    BY <2>2, StoreScript
  <2>4. StoringAt(15, i, c)'
    BY <2>1, <2>2, <2>3 DEF Serving, StoringAt, Quiet, Stopped
  <2> QED BY <2>4 DEF CoreInv, Storing
<1>2. ASSUME CallWfi PROVE CoreInv'
  BY <1>2, PlainCall DEF CallWfi, Plain
<1>3. ASSUME NEW d \in Domains, NEW enable \in BOOLEAN, CallClkGate(d, enable) PROVE CoreInv'
  <2>1. ClkGate(d, enable) \in Seq(DomAccesses)
    BY DEF ClkGate, DomAccesses, Put, Fields
  <2> QED BY <1>0, <1>3, <2>1, PlainCall DEF CallClkGate
<1>4. ASSUME NEW d \in Domains, NEW s \in SelStates, CallGate(d, s) PROVE CoreInv'
  BY <1>0, <1>4, GateScript, PlainCall
<1> QED BY <1>1, <1>2, <1>3, <1>4

(* The invariant holds after a reset.                                      *)
LEMMA CoreInit == Init => CoreInv
<1> SUFFICES ASSUME Init PROVE CoreInv
  OBVIOUS
<1>1. Quiet /\ Stopped
  BY DEF Init, Quiet, Stopped, Signals, Counters
<1>2. reg["power_gate_core"] = FALSE
  BY DEF Init, Regs, Counters
<1>3. Plain(todo)
  BY DEF Init, Plain
<1>4. Serving
  BY <1>1, <1>2, <1>3 DEF Init, Serving
<1> QED BY <1>4 DEF CoreInv

(* And nothing changes it when nothing happens.                            *)
LEMMA CoreStutters ==
  ASSUME CoreInv, UNCHANGED vars
  PROVE  CoreInv'
<1>1. /\ reg' = reg /\ seq' = seq /\ out' = out /\ ctr' = ctr /\ vdd' = vdd /\ ack' = ack
      /\ pend' = pend /\ core' = core /\ todo' = todo /\ ctx' = ctx /\ saved' = saved /\ calls' = calls
  BY DEF vars
<1>2. /\ Quiet' = Quiet /\ Stopped' = Stopped /\ Context' = Context /\ Armed' = Armed
      /\ Asleep' = Asleep /\ Gone' = Gone /\ Ahead' = Ahead /\ CoreOff' = CoreOff
  BY <1>1 DEF Quiet, Stopped, Context, Armed, Asleep, Gone, Ahead, CoreOff
<1>3. Serving => Serving'
  BY <1>1, <1>2 DEF Serving
<1>4. Storing => Storing'
  BY <1>1, <1>2 DEF Storing, StoringAt
<1>5. Falling => Falling'
  BY <1>1, <1>2 DEF Falling
<1>6. Rising => Rising'
  BY <1>1, <1>2 DEF Rising
<1>7. Restoring => Restoring'
  BY <1>1, <1>2 DEF Restoring, RestoringAt
<1>8. Cleaning => Cleaning'
  BY <1>1, <1>2 DEF Cleaning
<1> QED BY <1>3, <1>4, <1>5, <1>6, <1>7, <1>8 DEF CoreInv

(* Every step keeps the invariant of the core.                             *)
LEMMA CoreStep ==
  ASSUME PowerTypes, CoreInv, Early = FALSE, [Next]_vars
  PROVE  CoreInv'
<1>1. CASE \E busy \in BOOLEAN : Tick(busy)
  BY <1>1, CoreTick
<1>2. CASE \E x \in Domains \cup {Cpu} : PowerUp(x) \/ Acknowledge(x)
  BY <1>2, CoreSwitches
<1>3. CASE \E i \in Irqs : Raise(i) \/ Handle(i)
  BY <1>3, CoreInterrupts
<1>4. CASE \/ \E i \in Irqs, c \in CounterValues : CallCore(i, c)
           \/ CallWfi
           \/ \E d \in Domains : \/ \E enable \in BOOLEAN : CallClkGate(d, enable)
                                 \/ \E s \in SelStates : CallGate(d, s)
  BY <1>4, CoreCalls
<1>5. CASE UNCHANGED vars
  BY <1>5, CoreStutters
<1> QED BY <1>1, <1>2, <1>3, <1>4, <1>5 DEF Next

(* The invariant of the core, when no interrupt comes before the core is off.*)
LEMMA CoreInvariant == Early = FALSE /\ Spec => []CoreInv
<1>1. PowerTypes /\ CoreInv /\ Early = FALSE /\ [Next]_vars => CoreInv'
  BY CoreStep
<1>2. Early = FALSE => (Early = FALSE)'
  OBVIOUS
<1> QED BY <1>1, <1>2, CoreInit, PowerTyping, PTL DEF Spec

\* Code that is neither the boot ROM's nor power_manager_cpu_restore's runs with
\* the registers of the call it belongs to, for every number of calls, domains,
\* interrupts and counter values, as long as interrupts come when the driver
\* can handle them.
THEOREM ContextKeptHolds == Early = FALSE /\ Spec => []ContextKept
<1>1. CoreInv => ContextKept
  <2> SUFFICES ASSUME CoreInv, core # "lost", ctx # calls,
                      todo = <<>> \/ todo[Len(todo)].op \notin {"boot", "load"}
               PROVE  FALSE
    BY DEF ContextKept
  <2>1. CASE Serving
    BY <2>1 DEF Serving
  <2>2. CASE Storing
    BY <2>2 DEF Storing, StoringAt
  <2>3. CASE Falling
    BY <2>3 DEF Falling, Asleep, Gone
  <2>4. CASE Rising
    <3>1. todo = <<Do("boot")>>
      BY <2>4 DEF Rising
    <3>2. todo # <<>> /\ Len(todo) = 1 /\ todo[1].op = "boot"
      BY <3>1 DEF Do
    <3> QED BY <3>2
  <2>5. CASE Restoring
    <3>1. PICK n \in 1 .. 4 : Len(todo) = n /\ Rest(todo, RestoreAt)
      BY <2>5 DEF Restoring, RestoringAt
    <3>2. todo[Len(todo)] = RestoreAt[1]
      <4>1. todo[n] = RestoreAt[n + 1 - n]
        BY <3>1 DEF Rest
      <4> QED BY <3>1, <4>1
    <3>3. RestoreAt[1].op = "load"
      BY DEF RestoreAt, Do, Set
    <3>4. todo # <<>>
      BY <3>1
    <3> QED BY <3>2, <3>3, <3>4
  <2>6. CASE Cleaning
    BY <2>6 DEF Cleaning
  <2> QED BY <2>1, <2>2, <2>3, <2>4, <2>5, <2>6 DEF CoreInv
<1> QED BY <1>1, CoreInvariant, PTL

\* A wfi switches the core off only when power_manager_pwr_gate_core has armed it
\* and the context of this call is in memory.
THEOREM GatedOnlyWhenAskedHolds == Early = FALSE /\ Spec => GatedOnlyWhenAsked
<1>1. ASSUME PowerTypes, CoreInv, [Next]_vars, core # "lost", core' = "lost"
      PROVE  core = "sleep" /\ saved.ctx = calls
  <2>1. PICK busy \in BOOLEAN : Tick(busy)
    BY <1>1 DEF Next, vars, PowerUp, Acknowledge, Raise, Handle, CallCore, CallWfi, CallClkGate,
               CallGate, Call, hw
  <2>2. NoAccess /\ ~Alive
    BY <1>1, <2>1 DEF Tick, Access, NoAccess
  <2>3. ASSUME Quiet, ~StartOff PROVE FALSE
    BY <1>1, <2>1, <2>2, <2>3, QuietCycle
  <2>4. CASE Serving
    BY <2>3, <2>4 DEF Serving, StartOff
  <2>5. CASE Storing
    BY <2>3, <2>5 DEF Storing, StoringAt, StartOff
  <2>6. CASE Falling
    BY <1>1, <2>6 DEF Falling, Asleep, Gone, Context
  <2>7. CASE Rising
    <3>1. /\ core = "run" /\ out["reset"] = TRUE /\ out["switch"] = TRUE
          /\ Gated(seq["reset"], out["reset"], ack[Cpu]) /\ Gated(seq["switch"], out["switch"], TRUE)
      BY <1>1, <2>7 DEF Rising
    <3>2. seq["reset"] = "IDLE" /\ seq["switch"] = "IDLE" /\ ~StartOff /\ Clock
      BY <2>1, <3>1 DEF Gated, StartOff, Tick
    <3>3. out'["reset"] = TRUE /\ out'["switch"] = TRUE
      BY <1>1, <3>2, Cycle DEF Signals
    <3> QED BY <2>2, <3>3 DEF Alive
  <2>8. CASE Restoring
    BY <2>3, <2>8 DEF Restoring, RestoringAt, StartOff
  <2>9. CASE Cleaning
    BY <2>3, <2>9 DEF Cleaning, StartOff
  <2> QED BY <1>1, <2>4, <2>5, <2>6, <2>7, <2>8, <2>9 DEF CoreInv
<1>2. PowerTypes /\ CoreInv /\ [Next]_vars =>
        [core # "lost" /\ core' = "lost" => core = "sleep" /\ saved.ctx = calls]_vars
  BY <1>1
<1> QED BY <1>2, CoreInvariant, PowerTyping, PTL DEF Spec, GatedOnlyWhenAsked

(***************************************************************************)
(* The domains that software switches: their invariant.                    *)
(***************************************************************************)
Ram(d) == Kind[d] = "ram"

(* What is left of a call that gates (v = TRUE) or restores domain d.      *)
Next1(s, o) == s # <<>> /\ Head(s) = o
ToPoll(d, v, s) == s = <<Poll(d, v)>>
ToReset(d, v, s) == Next1(s, Put(d, "reset", v)) /\ ToPoll(d, v, Tail(s))
ToLast(d, v, s) == IF Ram(d) THEN ToPoll(d, v, s) ELSE ToReset(d, v, s)
ToOpen(d, s) == Next1(s, Put(d, "switch", TRUE)) /\ ToLast(d, TRUE, Tail(s))
ToIsolate(d, s) == Next1(s, Put(d, "iso", TRUE)) /\ ToOpen(d, Tail(s))
ToGate(d, s) == Next1(s, Put(d, "wait_ack", TRUE)) /\ ToIsolate(d, Tail(s))
ToConnect(d, s) == Next1(s, Put(d, "iso", FALSE)) /\ ToLast(d, FALSE, Tail(s))
ToClose(d, s) == Next1(s, Put(d, "switch", FALSE)) /\ ToConnect(d, Tail(s))
ToRestore(d, s) == Next1(s, Put(d, "wait_ack", TRUE)) /\ ToClose(d, Tail(s))

(* A call that does not touch what keeps the domains on or off. *)
Calm(s) == \A j \in 1 .. Len(s) : /\ s[j].op # "poll"
                                  /\ s[j].op = "put" => s[j].field \notin Signals

(* The registers of a domain, and its sequencers and supply. *)
Written3(d, i, s, r) == dreg[d].iso = i /\ dreg[d].switch = s /\ dreg[d].reset = r
Powered(d) ==
  /\ ack[d] = TRUE /\ vdd[d] = TRUE /\ dseq[d].switch = "IDLE" /\ dout[d].switch = TRUE
IsOn(d) ==
  /\ Written3(d, FALSE, FALSE, FALSE) /\ Powered(d)
  /\ dseq[d].iso \in {"WAIT_ACK", "SWITCH_ON", "IDLE"}
  /\ dseq[d].reset \in {"WAIT_ACK", "SWITCH_ON", "IDLE"}
Ready(d) ==
  /\ Written3(d, FALSE, FALSE, FALSE) /\ Powered(d)
  /\ dseq[d].iso \in {"SWITCH_ON", "IDLE"} /\ dseq[d].reset \in {"SWITCH_ON", "IDLE"}
Isolating(d) ==
  /\ Written3(d, TRUE, FALSE, FALSE) /\ Powered(d)
  /\ dseq[d].iso \in {"IDLE", "WAIT_ON"} /\ dseq[d].reset = "IDLE"
Down(d) ==
  /\ dseq[d].iso = "WAIT_ON"
  /\ \/ Powered(d)
     \/ /\ dseq[d].switch = "WAIT_ON" /\ dout[d].iso = FALSE /\ vdd[d] = dout[d].switch
        /\ ack[d] = TRUE \/ vdd[d] = FALSE
Opening(d) == Written3(d, TRUE, TRUE, FALSE) /\ Down(d) /\ dseq[d].reset = "IDLE"
Resetting(d) == Written3(d, TRUE, TRUE, TRUE) /\ Down(d) /\ dseq[d].reset \in {"IDLE", "WAIT_ON"}
Unpowered(d) ==
  /\ ack[d] = FALSE /\ vdd[d] = FALSE /\ dseq[d].switch = "WAIT_ON" /\ dout[d].switch = FALSE
  /\ dseq[d].iso = "WAIT_ON" /\ dout[d].iso = FALSE
ResetHeld(d) == dseq[d].reset = IF Ram(d) THEN "IDLE" ELSE "WAIT_ON"
IsOff(d) == Written3(d, TRUE, TRUE, ~Ram(d)) /\ Unpowered(d) /\ ResetHeld(d)
Waiting(d) == IsOff(d) /\ dreg[d].wait_ack = TRUE /\ (Ram(d) \/ dout[d].reset = FALSE)
Up(d) ==
  /\ dreg[d].wait_ack = TRUE
  /\ \/ /\ dseq[d].switch \in {"WAIT_ON", "WAIT_ACK", "SWITCH_ON"}
        /\ dout[d].switch = FALSE /\ vdd[d] = FALSE
     \/ dseq[d].switch = "IDLE" /\ dout[d].switch = TRUE
  /\ ack[d] = TRUE => vdd[d] = TRUE
  /\ Gated(dseq[d].iso, dout[d].iso, ack[d])
  /\ IF Ram(d) THEN dseq[d].reset = "IDLE" ELSE Gated(dseq[d].reset, dout[d].reset, ack[d])
Closing(d) ==
  Written3(d, TRUE, FALSE, ~Ram(d)) /\ Up(d) /\ dseq[d].iso = "WAIT_ON" /\ ResetHeld(d)
Connecting(d) == Written3(d, FALSE, FALSE, TRUE) /\ Up(d) /\ dseq[d].reset = "WAIT_ON"
Releasing(d) == Written3(d, FALSE, FALSE, FALSE) /\ Up(d)

Resting(d) == IF want[d] = "kOff" THEN IsOff(d) ELSE IsOn(d)
GoingOff(d) ==
  /\ want[d] = "kOff"
  /\ \/ ToGate(d, todo) /\ IsOn(d)
     \/ ToIsolate(d, todo) /\ Ready(d)
     \/ ToOpen(d, todo) /\ Isolating(d)
     \/ ToReset(d, TRUE, todo) /\ ~Ram(d) /\ Opening(d)
     \/ ToPoll(d, TRUE, todo) /\ IF Ram(d) THEN Opening(d) ELSE Resetting(d)
GoingOn(d) ==
  /\ want[d] = "kOn"
  /\ \/ ToRestore(d, todo) /\ IsOff(d)
     \/ ToClose(d, todo) /\ Waiting(d)
     \/ ToConnect(d, todo) /\ Closing(d)
     \/ ToReset(d, FALSE, todo) /\ ~Ram(d) /\ Connecting(d)
     \/ ToPoll(d, FALSE, todo) /\ Releasing(d)
DomInv ==
  \/ Calm(todo) /\ \A d \in Domains : Resting(d)
  \/ \E d \in Domains : /\ GoingOff(d) \/ GoingOn(d)
                        /\ \A e \in Domains \ {d} : Resting(e)

(***************************************************************************)
(* The domains: a cycle.                                                   *)
(***************************************************************************)
LEMMA DomSupply ==
  ASSUME PowerTypes, NEW busy, Tick(busy), NEW d \in Domains
  PROVE  /\ vdd'[d] = (vdd[d] /\ dout'[d].switch)
         /\ ack' = ack /\ want' = want /\ pend' = pend /\ calls' = calls
         /\ vdd[d] \in BOOLEAN /\ ack[d] \in BOOLEAN /\ vdd'[d] \in BOOLEAN
         /\ \A x \in DomSignals : dout[d][x] \in BOOLEAN /\ dout'[d][x] \in BOOLEAN
<1>1. DOMAIN vdd = Domains \cup {Cpu} /\ d # Cpu /\ d \in Domains \cup {Cpu}
  BY KindAssumption DEF PowerTypes, HwTypes
<1>2. vdd' = [x \in DOMAIN vdd |->
                vdd[x] /\ IF x = Cpu THEN out'.switch ELSE dout'[x].switch]
  BY DEF Tick
<1>3. vdd'[d] = (vdd[d] /\ dout'[d].switch)
  BY <1>1, <1>2
<1>4. Clock /\ ack' = ack /\ want' = want /\ pend' = pend /\ calls' = calls
  BY DEF Tick
<1>5. vdd[d] \in BOOLEAN /\ ack[d] \in BOOLEAN
  BY <1>1 DEF PowerTypes, HwTypes
<1>6. \A x \in DomSignals : dout[d][x] \in BOOLEAN /\ dout'[d][x] \in BOOLEAN
  BY <1>4, ClockTypes DEF PowerTypes, HwTypes
<1>7. vdd'[d] \in BOOLEAN
  BY <1>3
<1> QED BY <1>3, <1>4, <1>5, <1>6, <1>7

(* A cycle of the sequencers of a domain.                                  *)
LEMMA DomCycle ==
  ASSUME PowerTypes, NEW busy, Tick(busy), NEW d \in Domains, NEW x \in Signals
  PROVE  /\ dseq[d][x] \in {"IDLE", "SWITCH_ON"} => dout'[d][x] = TRUE
         /\ dseq[d][x] \in {"WAIT_ON", "WAIT_ACK"} => dout'[d][x] = FALSE
         /\ dseq[d][x] = "IDLE" => dseq'[d][x] = IF dreg[d][x] THEN "WAIT_ON" ELSE "IDLE"
         /\ dseq[d][x] = "WAIT_ON" => dseq'[d][x] = IF dreg[d][x] THEN "WAIT_ON" ELSE "WAIT_ACK"
         /\ dseq[d][x] = "WAIT_ACK" =>
              dseq'[d][x] = IF Acked(x, d, dreg[d].wait_ack) THEN "SWITCH_ON" ELSE "WAIT_ACK"
         /\ dseq[d][x] = "SWITCH_ON" => dseq'[d][x] = "IDLE"
<1>1. Clock /\ x \in DomSignals /\ x # "retentive"
  BY DEF Tick, DomSignals, Signals
<1>2. dout'[d][x] = DomOut(dseq[d][x])
  BY <1>1 DEF Clock
<1>3. dseq'[d][x] = DomNext(dseq[d][x], dreg[d][x], x = "retentive" \/ Acked(x, d, dreg[d].wait_ack))
  BY <1>1 DEF Clock
<1>4. (x = "retentive" \/ Acked(x, d, dreg[d].wait_ack)) <=> Acked(x, d, dreg[d].wait_ack)
  BY <1>1
<1>5. /\ dseq[d][x] = "IDLE" => dseq'[d][x] = IF dreg[d][x] THEN "WAIT_ON" ELSE "IDLE"
      /\ dseq[d][x] = "WAIT_ON" => dseq'[d][x] = IF dreg[d][x] THEN "WAIT_ON" ELSE "WAIT_ACK"
      /\ dseq[d][x] = "SWITCH_ON" => dseq'[d][x] = "IDLE"
  BY <1>3 DEF DomNext
<1>6. dseq[d][x] = "WAIT_ACK" =>
        dseq'[d][x] = IF Acked(x, d, dreg[d].wait_ack) THEN "SWITCH_ON" ELSE "WAIT_ACK"
  BY <1>3, <1>4 DEF DomNext
<1>7. /\ dseq[d][x] \in {"IDLE", "SWITCH_ON"} => DomOut(dseq[d][x]) = TRUE
      /\ dseq[d][x] \in {"WAIT_ON", "WAIT_ACK"} => DomOut(dseq[d][x]) = FALSE
  BY DEF DomOut
<1> QED BY <1>2, <1>5, <1>6, <1>7, Zenon

(* What the registers say before a cycle decides what the sequencers do. *)
LEMMA OnCycle ==
  ASSUME PowerTypes, NEW busy, Tick(busy), NEW d \in Domains, IsOn(d)
  PROVE  /\ Powered(d)'
         /\ dseq'[d].iso \in {"SWITCH_ON", "IDLE"} /\ dseq'[d].reset \in {"SWITCH_ON", "IDLE"}
         /\ Ready(d) => dseq'[d].iso = "IDLE" /\ dseq'[d].reset = "IDLE"
<1>1. /\ dreg[d]["iso"] = FALSE /\ dreg[d]["switch"] = FALSE /\ dreg[d]["reset"] = FALSE
      /\ ack[d] = TRUE /\ vdd[d] = TRUE /\ dseq[d]["switch"] = "IDLE" /\ dout[d]["switch"] = TRUE
      /\ dseq[d]["iso"] \in {"WAIT_ACK", "SWITCH_ON", "IDLE"}
      /\ dseq[d]["reset"] \in {"WAIT_ACK", "SWITCH_ON", "IDLE"}
  BY DEF IsOn, Written3, Powered
<1>2. \A x \in Signals : \A w : Acked(x, d, w)
  BY <1>1 DEF Acked
<1>3. "iso" \in Signals /\ "switch" \in Signals /\ "reset" \in Signals
  BY DEF Signals
<1>4. dseq'[d]["iso"] \in {"SWITCH_ON", "IDLE"} /\ (dseq[d]["iso"] # "WAIT_ACK" => dseq'[d]["iso"] = "IDLE")
  BY <1>1, <1>2, <1>3, DomCycle
<1>5. dseq'[d]["reset"] \in {"SWITCH_ON", "IDLE"} /\ (dseq[d]["reset"] # "WAIT_ACK" => dseq'[d]["reset"] = "IDLE")
  BY <1>1, <1>2, <1>3, DomCycle
<1>6. dseq'[d]["switch"] = "IDLE" /\ dout'[d]["switch"] = TRUE
  BY <1>1, <1>3, DomCycle
<1>7. Powered(d)'
  BY <1>1, <1>6, DomSupply DEF Powered
<1> QED BY <1>4, <1>5, <1>7 DEF Ready

(* A cycle of a domain whose isolation has been asked for.                 *)
LEMMA IsolatingCycle ==
  ASSUME PowerTypes, NEW busy, Tick(busy), NEW d \in Domains, Isolating(d)
  PROVE  Powered(d)' /\ dseq'[d].iso = "WAIT_ON" /\ dseq'[d].reset = "IDLE"
<1>1. /\ dreg[d]["iso"] = TRUE /\ dreg[d]["switch"] = FALSE /\ dreg[d]["reset"] = FALSE
      /\ ack[d] = TRUE /\ vdd[d] = TRUE /\ dseq[d]["switch"] = "IDLE" /\ dout[d]["switch"] = TRUE
      /\ dseq[d]["iso"] \in {"IDLE", "WAIT_ON"} /\ dseq[d]["reset"] = "IDLE"
  BY DEF Isolating, Written3, Powered
<1>3. "iso" \in Signals /\ "switch" \in Signals /\ "reset" \in Signals
  BY DEF Signals
<1>4. dseq'[d]["iso"] = "WAIT_ON"
  BY <1>1, <1>3, DomCycle
<1>5. dseq'[d]["reset"] = "IDLE"
  BY <1>1, <1>3, DomCycle
<1>6. dseq'[d]["switch"] = "IDLE" /\ dout'[d]["switch"] = TRUE
  BY <1>1, <1>3, DomCycle
<1>7. Powered(d)'
  BY <1>1, <1>6, DomSupply DEF Powered
<1> QED BY <1>4, <1>5, <1>7

(* A cycle of a domain whose switch has been asked to open.                *)
LEMMA DownCycle ==
  ASSUME PowerTypes, NEW busy, Tick(busy), NEW d \in Domains, Down(d),
         dreg[d].iso = TRUE, dreg[d].switch = TRUE
  PROVE  /\ Down(d)' /\ (ack[d] = FALSE => Unpowered(d)')
         /\ dreg[d].reset = FALSE /\ dseq[d].reset = "IDLE" => dseq'[d].reset = "IDLE"
         /\ dreg[d].reset = TRUE /\ dseq[d].reset \in {"IDLE", "WAIT_ON"} =>
              dseq'[d].reset = "WAIT_ON"
<1>3. "iso" \in Signals /\ "switch" \in Signals /\ "reset" \in Signals
  BY DEF Signals
<1>4. dseq[d]["iso"] = "WAIT_ON" /\ dseq'[d]["iso"] = "WAIT_ON" /\ dout'[d]["iso"] = FALSE
  BY <1>3, DomCycle DEF Down
<1>5. /\ dreg[d]["reset"] = FALSE /\ dseq[d]["reset"] = "IDLE" => dseq'[d]["reset"] = "IDLE"
      /\ dreg[d]["reset"] = TRUE /\ dseq[d]["reset"] \in {"IDLE", "WAIT_ON"} =>
           dseq'[d]["reset"] = "WAIT_ON"
  BY <1>3, DomCycle
<1>6. CASE Powered(d)
  <2>1. /\ ack[d] = TRUE /\ vdd[d] = TRUE
        /\ dseq[d]["switch"] = "IDLE"
    BY <1>6 DEF Powered
  <2>2. dseq'[d]["switch"] = "WAIT_ON" /\ dout'[d]["switch"] = TRUE
    BY <1>3, <2>1, DomCycle
  <2>3. vdd'[d] = dout'[d]["switch"] /\ ack'[d] = TRUE
    BY <2>1, <2>2, DomSupply
  <2>4. Down(d)'
    BY <1>4, <2>2, <2>3 DEF Down
  <2> QED BY <1>5, <2>1, <2>4
<1>7. CASE /\ dseq[d]["switch"] = "WAIT_ON" /\ dout[d]["iso"] = FALSE
           /\ vdd[d] = dout[d]["switch"] /\ (ack[d] = TRUE \/ vdd[d] = FALSE)
  <2>1. dseq'[d]["switch"] = "WAIT_ON" /\ dout'[d]["switch"] = FALSE
    BY <1>3, <1>7, DomCycle
  <2>2. vdd'[d] = FALSE /\ ack'[d] = ack[d]
    BY <2>1, DomSupply
  <2>3. Down(d)'
    BY <1>4, <2>1, <2>2 DEF Down
  <2>4. ack[d] = FALSE => Unpowered(d)'
    BY <1>4, <2>1, <2>2 DEF Unpowered
  <2> QED BY <1>5, <2>3, <2>4
<1> QED BY <1>6, <1>7 DEF Down

(* A cycle of a domain without supply whose registers say so.              *)
LEMMA OffCycle ==
  ASSUME PowerTypes, NEW busy, Tick(busy), NEW d \in Domains, IsOff(d)
  PROVE  Unpowered(d)' /\ ResetHeld(d)' /\ (Ram(d) \/ dout'[d].reset = FALSE)
<1>1. /\ dreg[d]["iso"] = TRUE /\ dreg[d]["switch"] = TRUE /\ dreg[d]["reset"] = ~Ram(d)
      /\ ack[d] = FALSE /\ vdd[d] = FALSE /\ dseq[d]["switch"] = "WAIT_ON" /\ dseq[d]["iso"] = "WAIT_ON"
      /\ dseq[d]["reset"] = IF Ram(d) THEN "IDLE" ELSE "WAIT_ON"
  BY DEF IsOff, Written3, Unpowered, ResetHeld
<1>3. "iso" \in Signals /\ "switch" \in Signals /\ "reset" \in Signals
  BY DEF Signals
<1>4. dseq'[d]["iso"] = "WAIT_ON" /\ dout'[d]["iso"] = FALSE
  BY <1>1, <1>3, DomCycle
<1>5. dseq'[d]["switch"] = "WAIT_ON" /\ dout'[d]["switch"] = FALSE
  BY <1>1, <1>3, DomCycle
<1>6. /\ dseq'[d]["reset"] = IF Ram(d) THEN "IDLE" ELSE "WAIT_ON"
      /\ Ram(d) \/ dout'[d]["reset"] = FALSE
  <2>1. CASE Ram(d)
    BY <1>1, <1>3, <2>1, DomCycle
  <2>2. CASE ~Ram(d)
    BY <1>1, <1>3, <2>2, DomCycle
  <2> QED BY <2>1, <2>2
<1>7. vdd'[d] = FALSE /\ ack'[d] = FALSE
  BY <1>1, DomSupply
<1> QED BY <1>4, <1>5, <1>6, <1>7 DEF Unpowered, ResetHeld

(* Isolation and reset of a domain on its way up. *)
LEMMA DomGatedCycle ==
  ASSUME PowerTypes, NEW busy, Tick(busy), NEW d \in Domains, NEW x \in {"iso", "reset"},
         dreg[d].wait_ack = TRUE, Gated(dseq[d][x], dout[d][x], ack[d]),
         dreg[d][x] = FALSE \/ dseq[d][x] = "WAIT_ON"
  PROVE  /\ Gated(dseq'[d][x], dout'[d][x], ack[d])
         /\ dreg[d][x] = TRUE => dseq'[d][x] = "WAIT_ON"
         /\ dreg[d][x] = FALSE => dseq'[d][x] \in {"WAIT_ACK", "SWITCH_ON", "IDLE"}
<1>1. x \in Signals /\ ack[d] \in BOOLEAN /\ dreg[d][x] \in BOOLEAN
  BY DomSupply DEF Signals, PowerTypes, Fields, DomSignals
<1>2. Acked(x, d, dreg[d].wait_ack) => ack[d] = TRUE
  BY <1>1 DEF Acked
<1>3. CASE dseq[d][x] = "WAIT_ON"
  <2>1. dout'[d][x] = FALSE /\ dseq'[d][x] = IF dreg[d][x] THEN "WAIT_ON" ELSE "WAIT_ACK"
    BY <1>1, <1>3, DomCycle
  <2> QED BY <1>1, <2>1 DEF Gated
<1>4. CASE dseq[d][x] = "WAIT_ACK"
  <2>1. /\ dout'[d][x] = FALSE /\ dseq'[d][x] \in {"WAIT_ACK", "SWITCH_ON"}
        /\ dseq'[d][x] = "SWITCH_ON" => ack[d] = TRUE
    BY <1>1, <1>2, <1>4, DomCycle
  <2> QED BY <1>1, <1>4, <2>1 DEF Gated
<1>5. CASE dseq[d][x] = "SWITCH_ON"
  <2>1. dout'[d][x] = TRUE /\ dseq'[d][x] = "IDLE"
    BY <1>1, <1>5, DomCycle
  <2> QED BY <1>1, <1>5, <2>1 DEF Gated
<1>6. CASE dseq[d][x] = "IDLE"
  <2>1. dout'[d][x] = TRUE /\ dseq'[d][x] = "IDLE"
    BY <1>1, <1>6, DomCycle
  <2> QED BY <1>1, <1>6, <2>1 DEF Gated
<1> QED BY <1>3, <1>4, <1>5, <1>6 DEF Gated

(* A cycle of a domain whose switch has been asked to close.               *)
LEMMA UpCycle ==
  ASSUME PowerTypes, NEW busy, Tick(busy), NEW d \in Domains, Up(d),
         dreg[d].switch = FALSE, dreg'[d].wait_ack = TRUE,
         dreg[d].iso = FALSE \/ dseq[d].iso = "WAIT_ON",
         ~Ram(d) => dreg[d].reset = FALSE \/ dseq[d].reset = "WAIT_ON",
         Ram(d) => dreg[d].reset = FALSE
  PROVE  /\ Up(d)'
         /\ dreg[d].iso = TRUE => dseq'[d].iso = "WAIT_ON"
         /\ dreg[d].iso = FALSE => dseq'[d].iso \in {"WAIT_ACK", "SWITCH_ON", "IDLE"}
         /\ Ram(d) => dseq'[d].reset = "IDLE"
         /\ ~Ram(d) /\ dreg[d].reset = TRUE => dseq'[d].reset = "WAIT_ON"
         /\ dreg[d].reset = FALSE => dseq'[d].reset \in {"WAIT_ACK", "SWITCH_ON", "IDLE"}
         /\ ack[d] = TRUE => Powered(d)'
<1>1. /\ dreg[d].wait_ack = TRUE
      /\ \/ dseq[d]["switch"] \in {"WAIT_ON", "WAIT_ACK", "SWITCH_ON"} /\ dout[d]["switch"] = FALSE
            /\ vdd[d] = FALSE
         \/ dseq[d]["switch"] = "IDLE" /\ dout[d]["switch"] = TRUE
      /\ ack[d] = TRUE => vdd[d] = TRUE
      /\ Gated(dseq[d]["iso"], dout[d]["iso"], ack[d])
      /\ Ram(d) => dseq[d]["reset"] = "IDLE"
      /\ ~Ram(d) => Gated(dseq[d]["reset"], dout[d]["reset"], ack[d])
  BY DEF Up
<1>2. /\ Gated(dseq'[d]["iso"], dout'[d]["iso"], ack[d])
      /\ dreg[d]["iso"] = TRUE => dseq'[d]["iso"] = "WAIT_ON"
      /\ dreg[d]["iso"] = FALSE => dseq'[d]["iso"] \in {"WAIT_ACK", "SWITCH_ON", "IDLE"}
  BY <1>1, DomGatedCycle
<1>3. Ram(d) => dseq'[d]["reset"] = "IDLE"
  BY <1>1, DomCycle DEF Signals
<1>4. ~Ram(d) => /\ Gated(dseq'[d]["reset"], dout'[d]["reset"], ack[d])
                 /\ dreg[d]["reset"] = TRUE => dseq'[d]["reset"] = "WAIT_ON"
                 /\ dreg[d]["reset"] = FALSE => dseq'[d]["reset"] \in {"WAIT_ACK", "SWITCH_ON", "IDLE"}
  BY <1>1, DomGatedCycle
<1>5. /\ vdd'[d] = (vdd[d] /\ dout'[d]["switch"]) /\ ack'[d] = ack[d]
      /\ vdd[d] \in BOOLEAN /\ dout'[d]["switch"] \in BOOLEAN
  BY DomSupply DEF DomSignals, Signals
<1>6. "switch" \in Signals /\ \A w : Acked("switch", d, w)
  BY DEF Signals, Acked
<1>7. CASE dseq[d]["switch"] = "IDLE" /\ dout[d]["switch"] = TRUE
  <2>1. dseq'[d]["switch"] = "IDLE" /\ dout'[d]["switch"] = TRUE
    BY <1>6, <1>7, DomCycle
  <2>2. vdd'[d] = vdd[d]
    BY <1>5, <2>1
  <2>3. Up(d)'
    BY <1>1, <1>2, <1>3, <1>4, <1>5, <2>1, <2>2 DEF Up
  <2>4. ack[d] = TRUE => Powered(d)'
    BY <1>1, <1>5, <2>1, <2>2 DEF Powered
  <2> QED BY <1>2, <1>3, <1>4, <2>3, <2>4
<1>8. CASE dseq[d]["switch"] \in {"WAIT_ON", "WAIT_ACK", "SWITCH_ON"} /\ dout[d]["switch"] = FALSE
           /\ vdd[d] = FALSE
  <2>1. vdd'[d] = FALSE /\ ack[d] # TRUE
    BY <1>1, <1>5, <1>8
  <2>2. \/ dseq'[d]["switch"] \in {"WAIT_ON", "WAIT_ACK", "SWITCH_ON"} /\ dout'[d]["switch"] = FALSE
        \/ dseq'[d]["switch"] = "IDLE" /\ dout'[d]["switch"] = TRUE
    <3>1. CASE dseq[d]["switch"] = "WAIT_ON"
      BY <1>6, <3>1, DomCycle
    <3>2. CASE dseq[d]["switch"] = "WAIT_ACK"
      BY <1>6, <3>2, DomCycle
    <3>3. CASE dseq[d]["switch"] = "SWITCH_ON"
      BY <1>6, <3>3, DomCycle
    <3> QED BY <1>8, <3>1, <3>2, <3>3
  <2>3. Up(d)'
    BY <1>1, <1>2, <1>3, <1>4, <1>5, <2>1, <2>2 DEF Up
  <2> QED BY <1>2, <1>3, <1>4, <2>1, <2>3
<1> QED BY <1>1, <1>7, <1>8

(* A domain nobody works on. *)
LEMMA RestingCycle ==
  ASSUME PowerTypes, NEW busy, Tick(busy), NEW d \in Domains, Resting(d),
         \A x \in Signals : dreg'[d][x] = dreg[d][x]
  PROVE  Resting(d)'
<1>1. want' = want
  BY DomSupply
<1>2. "iso" \in Signals /\ "switch" \in Signals /\ "reset" \in Signals
  BY DEF Signals
<1>3. \A i, s, r : Written3(d, i, s, r) => Written3(d, i, s, r)'
  BY <1>2 DEF Written3
<1>4. IsOn(d) => IsOn(d)'
  <2> SUFFICES ASSUME IsOn(d) PROVE IsOn(d)'
    OBVIOUS
  <2>1. Written3(d, FALSE, FALSE, FALSE)'
    BY <1>3 DEF IsOn
  <2>2. /\ Powered(d)' /\ dseq'[d].iso \in {"SWITCH_ON", "IDLE"}
        /\ dseq'[d].reset \in {"SWITCH_ON", "IDLE"}
    BY OnCycle
  <2> QED BY <2>1, <2>2 DEF IsOn
<1>5. IsOff(d) => IsOff(d)'
  <2> SUFFICES ASSUME IsOff(d) PROVE IsOff(d)'
    OBVIOUS
  <2>1. Unpowered(d)' /\ ResetHeld(d)'
    BY OffCycle
  <2>2. Written3(d, TRUE, TRUE, ~Ram(d))'
    BY <1>2 DEF IsOff, Written3, Ram
  <2> QED BY <2>1, <2>2 DEF IsOff, Ram
<1> QED BY <1>1, <1>4, <1>5 DEF Resting

(***************************************************************************)
(* The domains: what the core writes.                                      *)
(***************************************************************************)
LEMMA CalmScripts ==
  Calm(<<>>) /\ Calm(<<Do("boot")>>) /\ Calm(<<Do("stray")>>) /\ Calm(<<Do("wfi")>>) /\ Calm(CleanUp)
  /\ Calm(power_manager_cpu_restore)
BY DEF Calm, Do, Set, CleanUp, power_manager_cpu_restore

(* What is left of a call that leaves the domains on or off does so too.   *)
LEMMA CalmTail ==
  ASSUME NEW s \in Seq(Accesses), s # <<>>, Calm(s)
  PROVE  /\ Calm(Tail(s)) /\ Head(s).op # "poll"
         /\ Head(s).op = "put" => Head(s).field \notin Signals
<1>1. Len(s) \in Nat /\ Len(s) >= 1 /\ Head(s) = s[1]
  OBVIOUS
<1>2. Len(Tail(s)) = Len(s) - 1 /\ \A j \in 1 .. Len(s) - 1 : Tail(s)[j] = s[j + 1]
  BY HeadTailProperties
<1>3. Calm(Tail(s))
  <2> SUFFICES ASSUME NEW j \in 1 .. Len(Tail(s))
               PROVE  /\ Tail(s)[j].op # "poll"
                      /\ Tail(s)[j].op = "put" => Tail(s)[j].field \notin Signals
    BY DEF Calm
  <2>1. j + 1 \in 1 .. Len(s) /\ Tail(s)[j] = s[j + 1]
    BY <1>1, <1>2
  <2> QED BY <2>1 DEF Calm
<1> QED BY <1>1, <1>3 DEF Calm

(* A write to a register of a domain. *)
LEMMA PutEffect ==
  ASSUME PowerTypes, NEW d \in Domains, NEW f \in Fields, NEW v,
         dreg' = [dreg EXCEPT ![d][f] = v]
  PROVE  /\ dreg'[d][f] = v
         /\ \A g \in Fields \ {f} : dreg'[d][g] = dreg[d][g]
         /\ \A e \in Domains \ {d} : dreg'[e] = dreg[e]
<1>1. dreg \in [Domains -> [Fields -> BOOLEAN]]
  BY DEF PowerTypes
<1> QED BY <1>1

(* A cycle of a call that leaves the domains alone. *)
LEMMA CalmTick ==
  ASSUME PowerTypes, NEW busy \in BOOLEAN, Tick(busy), Calm(todo)
  PROVE  /\ Calm(todo')
         /\ \A d \in Domains, x \in Signals : dreg'[d][x] = dreg[d][x]
<1>0. todo \in Seq(Accesses) /\ (core = "sleep" => todo # <<>>) /\ saved.ret \in {<<>>, CleanUp}
  BY DEF PowerTypes, CoreTypes
<1>1. CASE ~busy
  <2>1. dreg' = dreg /\ (todo' \in {todo, <<Do("boot")>>} \/ (core = "sleep" /\ todo' = Tail(todo)))
    BY <1>1 DEF Tick, NoAccess
  <2>2. Calm(todo')
    BY <1>0, <2>1, CalmScripts, CalmTail
  <2> QED BY <2>1, <2>2
<1>2. CASE busy
  <2> DEFINE o == Head(todo)
  <2>1. todo # <<>> /\ Access
    BY <1>2 DEF Tick, Access
  <2>2. Calm(Tail(todo)) /\ o.op # "poll" /\ (o.op = "put" => o.field \notin Signals)
    BY <1>0, <2>1, CalmTail
  <2>3. o \in Accesses
    BY <1>0, <2>1
  <2>4. todo' \in {todo, Tail(todo), saved.ret, power_manager_cpu_restore, <<>>, <<Do("stray")>>}
    BY <2>1 DEF Access, entry
  <2>5. Calm(todo')
    BY <1>0, <2>2, <2>4, CalmScripts
  <2>6. CASE o.op = "put"
    <3>1. o.dom \in Domains /\ o.field \in Fields
      BY <2>3, <2>6 DEF Accesses, DomAccesses
    <3>2. dreg' = [dreg EXCEPT ![o.dom][o.field] = o.val]
      BY <2>1, <2>6 DEF Access
    <3> HIDE DEF o
    <3>3. \A d \in Domains, x \in Signals : dreg'[d][x] = dreg[d][x]
      <4>1. \A g \in Fields \ {o.field} : dreg'[o.dom][g] = dreg[o.dom][g]
        BY <3>1, <3>2, PutEffect
      <4>2. \A e \in Domains \ {o.dom} : dreg'[e] = dreg[e]
        BY <3>1, <3>2, PutEffect
      <4>3. Signals \subseteq Fields \ {o.field}
        BY <2>2, <2>6 DEF Fields, DomSignals
      <4> QED BY <4>1, <4>2, <4>3
    <3> QED BY <2>5, <3>3
  <2>7. CASE o.op # "put"
    BY <2>1, <2>5, <2>7 DEF Access
  <2> QED BY <2>6, <2>7
<1> QED BY <1>1, <1>2

(* While the core works on a domain, its own domain is on. *)
LEMMA WorkServes ==
  ASSUME PowerTypes, CoreInv, todo # <<>>, Head(todo).op \in {"put", "poll"}
  PROVE  Serving /\ core = "run"
<1>0. todo \in Seq(Accesses)
  BY DEF PowerTypes, CoreTypes
<1>1. Head(<<Do("boot")>>).op = "boot" /\ Head(<<Do("wfi")>>).op = "wfi"
  BY DEF Do
<1>2. ASSUME NEW n \in 3 .. 15, NEW i \in Irqs, NEW c \in CounterValues, Len(todo) = n,
             Rest(todo, StoreAt(i, c))
      PROVE  FALSE
  <2>1. Head(todo) = StoreAt(i, c)[n]
    BY <1>0, <1>2, RestTail
  <2>2. StoreAccess(Head(todo), n, c)
    BY <2>1, StoreAccesses
  <2> QED BY <2>2 DEF StoreAccess
<1>3. ~Storing
  BY <1>2 DEF Storing, StoringAt
<1>4. ~Falling
  BY <1>1, <1>2 DEF Falling, Asleep, Gone
<1>5. ~Rising
  BY <1>1 DEF Rising
<1>6. ~Restoring
  <2> SUFFICES ASSUME NEW n \in 1 .. 4, Len(todo) = n, Rest(todo, RestoreAt) PROVE FALSE
    BY DEF Restoring, RestoringAt
  <2>1. Head(todo) = RestoreAt[n]
    BY <1>0, RestTail
  <2>2. RestoreAt[n].op \in {"set", "load"}
    BY DEF RestoreAt, Set, Do
  <2> QED BY <2>1, <2>2
<1>7. ~Cleaning
  <2>1. Head(CleanUp).op = "set" /\ Head(<<Set("stop", TRUE)>>).op = "set"
    BY DEF CleanUp, Set
  <2> QED BY <2>1 DEF Cleaning
<1>8. Serving
  BY <1>3, <1>4, <1>5, <1>6, <1>7 DEF CoreInv
<1> QED BY <1>1, <1>8 DEF Serving

(* A cycle of a call that gates or restores a domain: its next access, or none.*)
LEMMA WorkTick ==
  ASSUME PowerTypes, CoreInv, NEW busy \in BOOLEAN, Tick(busy), todo # <<>>,
         NEW o, o = Head(todo), o.op \in {"put", "poll"}
  PROVE  \/ todo' = todo /\ dreg' = dreg
         \/ /\ todo' = Tail(todo) /\ o.op = "put"
            /\ dreg' = [dreg EXCEPT ![o.dom][o.field] = o.val]
         \/ /\ todo' = Tail(todo) /\ o.op = "poll"
            /\ dreg' = dreg /\ ack[o.dom] # o.off
<1>1. Quiet /\ core = "run" /\ ~StartOff
  BY WorkServes DEF Serving, StartOff
<1>2. CASE ~busy
  <2>1. todo' = todo
    BY <1>1, <1>2, QuietIdles
  <2>2. dreg' = dreg
    BY <1>2 DEF Tick, NoAccess
  <2> QED BY <2>1, <2>2
<1>3. CASE busy
  <2>1. Access
    BY <1>3 DEF Tick
  <2>2. CASE o.op = "put"
    BY <2>1, <2>2 DEF Access
  <2>3. CASE o.op = "poll"
    BY <2>1, <2>3 DEF Access
  <2> QED BY <2>2, <2>3
<1> QED BY <1>2, <1>3

(* The fields of a write and of a poll.                                    *)
LEMMA PutFields ==
  /\ \A d, f, v : /\ Put(d, f, v).op = "put" /\ Put(d, f, v).dom = d
                  /\ Put(d, f, v).field = f /\ Put(d, f, v).val = v
  /\ \A d, v : /\ Poll(d, v).op = "poll" /\ Poll(d, v).dom = d /\ Poll(d, v).off = v
               /\ <<Poll(d, v)>> # <<>> /\ Head(<<Poll(d, v)>>) = Poll(d, v)
               /\ Tail(<<Poll(d, v)>>) = <<>>
BY DEF Put, Poll

(* One write of a call on domain d, or a cycle without it. *)
LEMMA PutTick ==
  ASSUME PowerTypes, CoreInv, NEW busy \in BOOLEAN, Tick(busy), NEW d \in Domains,
         NEW f \in {"iso", "switch", "reset", "wait_ack"}, NEW v, Next1(todo, Put(d, f, v))
  PROVE  /\ \A e \in Domains \ {d} : dreg'[e] = dreg[e]
         /\ want' = want
         /\ \/ todo' = todo /\ dreg' = dreg
            \/ /\ todo' = Tail(todo) /\ dreg'[d][f] = v
               /\ \A g \in {"iso", "switch", "reset", "wait_ack"} \ {f} : dreg'[d][g] = dreg[d][g]
<1>1. todo # <<>> /\ Head(todo) = Put(d, f, v)
  BY DEF Next1
<1>2. /\ Head(todo).op = "put" /\ Head(todo).dom = d /\ Head(todo).field = f
      /\ Head(todo).val = v
  BY <1>1, PutFields
<1>3. {"iso", "switch", "reset", "wait_ack"} \subseteq Fields
  BY DEF Fields, DomSignals, Signals
<1>4. want' = want
  BY DEF Tick
<1>5. CASE todo' = todo /\ dreg' = dreg
  BY <1>4, <1>5
<1>6. CASE todo' = Tail(todo) /\ dreg' = [dreg EXCEPT ![d][f] = v]
  <2>1. /\ dreg'[d][f] = v /\ (\A g \in Fields \ {f} : dreg'[d][g] = dreg[d][g])
        /\ \A e \in Domains \ {d} : dreg'[e] = dreg[e]
    <3>1. f \in Fields
      BY <1>3
    <3>2. dreg \in [Domains -> [Fields -> BOOLEAN]]
      BY DEF PowerTypes
    <3> QED BY <1>6, <3>1, <3>2
  <2> QED BY <1>3, <1>4, <1>6, <2>1
<1> QED BY <1>1, <1>2, <1>5, <1>6, WorkTick

(* The poll at the end of such a call. *)
LEMMA PollTick ==
  ASSUME PowerTypes, CoreInv, NEW busy \in BOOLEAN, Tick(busy), NEW d \in Domains,
         NEW v, ToPoll(d, v, todo)
  PROVE  /\ dreg' = dreg /\ want' = want
         /\ \/ todo' = todo
            \/ todo' = <<>> /\ ack[d] # v
<1>1. /\ todo # <<>> /\ Head(todo).op = "poll" /\ Head(todo).dom = d /\ Head(todo).off = v
      /\ Tail(todo) = <<>>
  BY PutFields DEF ToPoll
<1>2. want' = want
  BY DEF Tick
<1> QED BY <1>1, <1>2, WorkTick

(* A cycle of a call that gates domain d: it comes nearer to off.          *)
LEMMA GoingOffTick ==
  ASSUME PowerTypes, CoreInv, NEW busy \in BOOLEAN, Tick(busy), NEW d \in Domains, GoingOff(d)
  PROVE  /\ \A e \in Domains \ {d} : dreg'[e] = dreg[e]
         /\ GoingOff(d)' \/ (Calm(todo') /\ Resting(d)')
<1>0. want[d] = "kOff" /\ Calm(<<>>)
  BY CalmScripts DEF GoingOff
<1>1. CASE ToGate(d, todo) /\ IsOn(d)
  <2>1. Next1(todo, Put(d, "wait_ack", TRUE)) /\ ToIsolate(d, Tail(todo))
    BY <1>1 DEF ToGate
  <2>2. /\ \A e \in Domains \ {d} : dreg'[e] = dreg[e]
        /\ want' = want
        /\ \/ todo' = todo /\ dreg' = dreg
           \/ /\ todo' = Tail(todo)
              /\ \A g \in {"iso", "switch", "reset"} : dreg'[d][g] = dreg[d][g]
    BY <2>1, PutTick
  <2>3. /\ Powered(d)' /\ dseq'[d].iso \in {"SWITCH_ON", "IDLE"}
        /\ dseq'[d].reset \in {"SWITCH_ON", "IDLE"}
    BY <1>1, OnCycle
  <2>4. Written3(d, FALSE, FALSE, FALSE)'
    BY <1>1, <2>2 DEF IsOn, Written3
  <2>5. IsOn(d)' /\ Ready(d)'
    BY <2>3, <2>4 DEF IsOn, Ready
  <2>6. ToGate(d, todo') \/ ToIsolate(d, todo')
    BY <1>1, <2>1, <2>2
  <2> QED BY <1>0, <2>2, <2>5, <2>6 DEF GoingOff
<1>2. CASE ToIsolate(d, todo) /\ Ready(d)
  <2>1. Next1(todo, Put(d, "iso", TRUE)) /\ ToOpen(d, Tail(todo))
    BY <1>2 DEF ToIsolate
  <2>2. /\ \A e \in Domains \ {d} : dreg'[e] = dreg[e]
        /\ want' = want
        /\ \/ todo' = todo /\ dreg' = dreg
           \/ /\ todo' = Tail(todo) /\ dreg'[d]["iso"] = TRUE
              /\ \A g \in {"switch", "reset"} : dreg'[d][g] = dreg[d][g]
    BY <2>1, PutTick
  <2>3. Powered(d)' /\ dseq'[d].iso = "IDLE" /\ dseq'[d].reset = "IDLE"
    <3>1. IsOn(d)
      BY <1>2 DEF Ready, IsOn
    <3> QED BY <1>2, <3>1, OnCycle
  <2>4. CASE todo' = todo /\ dreg' = dreg
    <3>1. Ready(d)'
      BY <1>2, <2>3, <2>4 DEF Ready, Written3
    <3> QED BY <1>0, <1>2, <2>2, <2>4, <3>1 DEF GoingOff
  <2>5. CASE /\ todo' = Tail(todo) /\ dreg'[d]["iso"] = TRUE
             /\ \A g \in {"switch", "reset"} : dreg'[d][g] = dreg[d][g]
    <3>1. Isolating(d)'
      BY <1>2, <2>3, <2>5 DEF Ready, Isolating, Written3
    <3> QED BY <1>0, <2>1, <2>2, <2>5, <3>1 DEF GoingOff
  <2> QED BY <2>2, <2>4, <2>5
<1>3. CASE ToOpen(d, todo) /\ Isolating(d)
  <2>1. Next1(todo, Put(d, "switch", TRUE)) /\ ToLast(d, TRUE, Tail(todo))
    BY <1>3 DEF ToOpen
  <2>2. /\ \A e \in Domains \ {d} : dreg'[e] = dreg[e]
        /\ want' = want
        /\ \/ todo' = todo /\ dreg' = dreg
           \/ /\ todo' = Tail(todo) /\ dreg'[d]["switch"] = TRUE
              /\ \A g \in {"iso", "reset"} : dreg'[d][g] = dreg[d][g]
    BY <2>1, PutTick
  <2>3. Powered(d)' /\ dseq'[d].iso = "WAIT_ON" /\ dseq'[d].reset = "IDLE"
    BY <1>3, IsolatingCycle
  <2>4. CASE todo' = todo /\ dreg' = dreg
    <3>1. Isolating(d)'
      BY <1>3, <2>3, <2>4 DEF Isolating, Written3
    <3> QED BY <1>0, <1>3, <2>2, <2>4, <3>1 DEF GoingOff
  <2>5. CASE /\ todo' = Tail(todo) /\ dreg'[d]["switch"] = TRUE
             /\ \A g \in {"iso", "reset"} : dreg'[d][g] = dreg[d][g]
    <3>1. Opening(d)'
      BY <1>3, <2>3, <2>5 DEF Isolating, Opening, Down, Written3
    <3>2. CASE Ram(d)
      <4>1. ToPoll(d, TRUE, todo')
        BY <2>1, <2>5, <3>2 DEF ToLast
      <4> QED BY <1>0, <2>2, <3>1, <3>2, <4>1 DEF GoingOff, Ram
    <3>3. CASE ~Ram(d)
      <4>1. ToReset(d, TRUE, todo')
        BY <2>1, <2>5, <3>3 DEF ToLast
      <4> QED BY <1>0, <2>2, <3>1, <3>3, <4>1 DEF GoingOff, Ram
    <3> QED BY <3>2, <3>3
  <2> QED BY <2>2, <2>4, <2>5
<1>4. CASE ToReset(d, TRUE, todo) /\ ~Ram(d) /\ Opening(d)
  <2>1. Next1(todo, Put(d, "reset", TRUE)) /\ ToPoll(d, TRUE, Tail(todo))
    BY <1>4 DEF ToReset
  <2>2. /\ \A e \in Domains \ {d} : dreg'[e] = dreg[e]
        /\ want' = want
        /\ \/ todo' = todo /\ dreg' = dreg
           \/ /\ todo' = Tail(todo) /\ dreg'[d]["reset"] = TRUE
              /\ \A g \in {"iso", "switch"} : dreg'[d][g] = dreg[d][g]
    BY <2>1, PutTick
  <2>3. Down(d)' /\ dseq'[d].reset = "IDLE"
    BY <1>4, DownCycle DEF Opening, Written3
  <2>4. CASE todo' = todo /\ dreg' = dreg
    <3>1. Opening(d)'
      BY <1>4, <2>3, <2>4 DEF Opening, Written3
    <3> QED BY <1>0, <1>4, <2>2, <2>4, <3>1 DEF GoingOff, Ram
  <2>5. CASE /\ todo' = Tail(todo) /\ dreg'[d]["reset"] = TRUE
             /\ \A g \in {"iso", "switch"} : dreg'[d][g] = dreg[d][g]
    <3>1. Resetting(d)'
      BY <1>4, <2>3, <2>5 DEF Opening, Resetting, Written3
    <3> QED BY <1>0, <1>4, <2>1, <2>2, <2>5, <3>1 DEF GoingOff, Ram
  <2> QED BY <2>2, <2>4, <2>5
<1>5. CASE ToPoll(d, TRUE, todo) /\ Ram(d) /\ Opening(d)
  <2>1. dreg' = dreg /\ want' = want /\ (todo' = todo \/ (todo' = <<>> /\ ack[d] # TRUE))
    BY <1>5, PollTick
  <2>2. Down(d)' /\ (ack[d] = FALSE => Unpowered(d)') /\ dseq'[d].reset = "IDLE"
    BY <1>5, DownCycle DEF Opening, Written3
  <2>3. CASE todo' = todo
    <3>1. Opening(d)'
      BY <1>5, <2>1, <2>2 DEF Opening, Written3
    <3> QED BY <1>0, <1>5, <2>1, <2>3, <3>1 DEF GoingOff, Ram
  <2>4. CASE todo' = <<>> /\ ack[d] # TRUE
    <3>1. ack[d] = FALSE
      BY <2>4, DomSupply
    <3>2. IsOff(d)'
      BY <1>5, <2>1, <2>2, <3>1 DEF Opening, IsOff, ResetHeld, Written3, Ram
    <3> QED BY <1>0, <2>1, <2>4, <3>2 DEF Resting
  <2> QED BY <2>1, <2>3, <2>4
<1>6. CASE ToPoll(d, TRUE, todo) /\ ~Ram(d) /\ Resetting(d)
  <2>1. dreg' = dreg /\ want' = want /\ (todo' = todo \/ (todo' = <<>> /\ ack[d] # TRUE))
    BY <1>6, PollTick
  <2>2. Down(d)' /\ (ack[d] = FALSE => Unpowered(d)') /\ dseq'[d].reset = "WAIT_ON"
    BY <1>6, DownCycle DEF Resetting, Written3
  <2>3. CASE todo' = todo
    <3>1. Resetting(d)'
      BY <1>6, <2>1, <2>2 DEF Resetting, Written3
    <3> QED BY <1>0, <1>6, <2>1, <2>3, <3>1 DEF GoingOff, Ram
  <2>4. CASE todo' = <<>> /\ ack[d] # TRUE
    <3>1. ack[d] = FALSE
      BY <2>4, DomSupply
    <3>2. IsOff(d)'
      BY <1>6, <2>1, <2>2, <3>1 DEF Resetting, IsOff, ResetHeld, Written3, Ram
    <3> QED BY <1>0, <2>1, <2>4, <3>2 DEF Resting
  <2> QED BY <2>1, <2>3, <2>4
<1> QED BY <1>1, <1>2, <1>3, <1>4, <1>5, <1>6 DEF GoingOff

(* A cycle of a call that restores domain d: it comes nearer to on.        *)
LEMMA GoingOnTick ==
  ASSUME PowerTypes, CoreInv, NEW busy \in BOOLEAN, Tick(busy), NEW d \in Domains, GoingOn(d)
  PROVE  /\ \A e \in Domains \ {d} : dreg'[e] = dreg[e]
         /\ GoingOn(d)' \/ (Calm(todo') /\ Resting(d)')
<1>0. want[d] = "kOn" /\ Calm(<<>>)
  BY CalmScripts DEF GoingOn
<1>1. CASE ToRestore(d, todo) /\ IsOff(d)
  <2>1. Next1(todo, Put(d, "wait_ack", TRUE)) /\ ToClose(d, Tail(todo))
    BY <1>1 DEF ToRestore
  <2>2. /\ \A e \in Domains \ {d} : dreg'[e] = dreg[e]
        /\ want' = want
        /\ \/ todo' = todo /\ dreg' = dreg
           \/ /\ todo' = Tail(todo) /\ dreg'[d]["wait_ack"] = TRUE
              /\ \A g \in {"iso", "switch", "reset"} : dreg'[d][g] = dreg[d][g]
    BY <2>1, PutTick
  <2>3. Unpowered(d)' /\ ResetHeld(d)' /\ (Ram(d) \/ dout'[d].reset = FALSE)
    BY <1>1, OffCycle
  <2>4. IsOff(d)'
    BY <1>1, <2>2, <2>3 DEF IsOff, Written3, Ram
  <2>5. CASE todo' = todo /\ dreg' = dreg
    BY <1>0, <1>1, <2>2, <2>4, <2>5 DEF GoingOn
  <2>6. CASE todo' = Tail(todo) /\ dreg'[d]["wait_ack"] = TRUE
    <3>1. Waiting(d)'
      BY <2>3, <2>4, <2>6 DEF Waiting, Ram
    <3> QED BY <1>0, <2>1, <2>2, <2>6, <3>1 DEF GoingOn
  <2> QED BY <2>2, <2>5, <2>6
<1>2. CASE ToClose(d, todo) /\ Waiting(d)
  <2>1. Next1(todo, Put(d, "switch", FALSE)) /\ ToConnect(d, Tail(todo))
    BY <1>2 DEF ToClose
  <2>2. /\ \A e \in Domains \ {d} : dreg'[e] = dreg[e]
        /\ want' = want
        /\ \/ todo' = todo /\ dreg' = dreg
           \/ /\ todo' = Tail(todo) /\ dreg'[d]["switch"] = FALSE
              /\ \A g \in {"iso", "reset", "wait_ack"} : dreg'[d][g] = dreg[d][g]
    BY <2>1, PutTick
  <2>3. Unpowered(d)' /\ ResetHeld(d)' /\ (Ram(d) \/ dout'[d].reset = FALSE)
    BY <1>2, OffCycle DEF Waiting
  <2>4. CASE todo' = todo /\ dreg' = dreg
    <3>1. Waiting(d)'
      BY <1>2, <2>3, <2>4 DEF Waiting, IsOff, Written3, Ram
    <3> QED BY <1>0, <1>2, <2>2, <2>4, <3>1 DEF GoingOn
  <2>5. CASE /\ todo' = Tail(todo) /\ dreg'[d]["switch"] = FALSE
             /\ \A g \in {"iso", "reset", "wait_ack"} : dreg'[d][g] = dreg[d][g]
    <3>1. Up(d)'
      BY <1>2, <2>3, <2>5 DEF Waiting, Unpowered, ResetHeld, Up, Gated, Ram
    <3>2. Closing(d)'
      BY <1>2, <2>3, <2>5, <3>1 DEF Waiting, IsOff, Unpowered, Closing, Written3, ResetHeld, Ram
    <3> QED BY <1>0, <2>1, <2>2, <2>5, <3>2 DEF GoingOn
  <2> QED BY <2>2, <2>4, <2>5
<1>3. CASE ToConnect(d, todo) /\ Closing(d)
  <2>1. Next1(todo, Put(d, "iso", FALSE)) /\ ToLast(d, FALSE, Tail(todo))
    BY <1>3 DEF ToConnect
  <2>2. /\ \A e \in Domains \ {d} : dreg'[e] = dreg[e]
        /\ want' = want
        /\ \/ todo' = todo /\ dreg' = dreg
           \/ /\ todo' = Tail(todo) /\ dreg'[d]["iso"] = FALSE
              /\ \A g \in {"switch", "reset", "wait_ack"} : dreg'[d][g] = dreg[d][g]
    BY <2>1, PutTick
  <2>3. Up(d) /\ dreg'[d].wait_ack = TRUE
    BY <1>3, <2>2 DEF Closing, Up
  <2>4. Up(d)' /\ dseq'[d].iso = "WAIT_ON" /\ ResetHeld(d)'
    BY <1>3, <2>3, UpCycle DEF Closing, Written3, ResetHeld, Ram
  <2>5. CASE todo' = todo /\ dreg' = dreg
    <3>1. Closing(d)'
      BY <1>3, <2>4, <2>5 DEF Closing, Written3, Ram
    <3> QED BY <1>0, <1>3, <2>2, <2>5, <3>1 DEF GoingOn
  <2>6. CASE /\ todo' = Tail(todo) /\ dreg'[d]["iso"] = FALSE
             /\ \A g \in {"switch", "reset"} : dreg'[d][g] = dreg[d][g]
    <3>1. CASE Ram(d)
      <4>1. Releasing(d)'
        BY <1>3, <2>4, <2>6, <3>1 DEF Closing, Releasing, Written3
      <4>2. ToPoll(d, FALSE, todo')
        BY <2>1, <2>6, <3>1 DEF ToLast
      <4> QED BY <1>0, <2>2, <4>1, <4>2 DEF GoingOn
    <3>2. CASE ~Ram(d)
      <4>1. Connecting(d)'
        BY <1>3, <2>4, <2>6, <3>2 DEF Closing, Connecting, Written3, ResetHeld, Ram
      <4>2. ToReset(d, FALSE, todo')
        BY <2>1, <2>6, <3>2 DEF ToLast
      <4> QED BY <1>0, <2>2, <3>2, <4>1, <4>2 DEF GoingOn, Ram
    <3> QED BY <3>1, <3>2
  <2> QED BY <2>2, <2>5, <2>6
<1>4. CASE ToReset(d, FALSE, todo) /\ ~Ram(d) /\ Connecting(d)
  <2>1. Next1(todo, Put(d, "reset", FALSE)) /\ ToPoll(d, FALSE, Tail(todo))
    BY <1>4 DEF ToReset
  <2>2. /\ \A e \in Domains \ {d} : dreg'[e] = dreg[e]
        /\ want' = want
        /\ \/ todo' = todo /\ dreg' = dreg
           \/ /\ todo' = Tail(todo) /\ dreg'[d]["reset"] = FALSE
              /\ \A g \in {"iso", "switch", "wait_ack"} : dreg'[d][g] = dreg[d][g]
    BY <2>1, PutTick
  <2>3. Up(d) /\ dreg'[d].wait_ack = TRUE
    BY <1>4, <2>2 DEF Connecting, Up
  <2>4. Up(d)' /\ dseq'[d].reset = "WAIT_ON"
    BY <1>4, <2>3, UpCycle DEF Connecting, Written3
  <2>5. CASE todo' = todo /\ dreg' = dreg
    <3>1. Connecting(d)'
      BY <1>4, <2>4, <2>5 DEF Connecting, Written3
    <3> QED BY <1>0, <1>4, <2>2, <2>5, <3>1 DEF GoingOn, Ram
  <2>6. CASE /\ todo' = Tail(todo) /\ dreg'[d]["reset"] = FALSE
             /\ \A g \in {"iso", "switch"} : dreg'[d][g] = dreg[d][g]
    <3>1. Releasing(d)'
      BY <1>4, <2>4, <2>6 DEF Connecting, Releasing, Written3
    <3> QED BY <1>0, <2>1, <2>2, <2>6, <3>1 DEF GoingOn
  <2> QED BY <2>2, <2>5, <2>6
<1>5. CASE ToPoll(d, FALSE, todo) /\ Releasing(d)
  <2>1. dreg' = dreg /\ want' = want /\ (todo' = todo \/ (todo' = <<>> /\ ack[d] # FALSE))
    BY <1>5, PollTick
  <2>2. Up(d) /\ dreg'[d].wait_ack = TRUE
    BY <1>5, <2>1 DEF Releasing, Up
  <2>3. /\ Up(d)' /\ (ack[d] = TRUE => Powered(d)')
        /\ dseq'[d].iso \in {"WAIT_ACK", "SWITCH_ON", "IDLE"}
        /\ dseq'[d].reset \in {"WAIT_ACK", "SWITCH_ON", "IDLE"}
    BY <1>5, <2>2, UpCycle DEF Releasing, Written3
  <2>4. Written3(d, FALSE, FALSE, FALSE)'
    BY <1>5, <2>1 DEF Releasing, Written3
  <2>5. CASE todo' = todo
    <3>1. Releasing(d)'
      BY <2>3, <2>4 DEF Releasing
    <3> QED BY <1>0, <1>5, <2>1, <2>5, <3>1 DEF GoingOn
  <2>6. CASE todo' = <<>> /\ ack[d] # FALSE
    <3>1. ack[d] = TRUE
      BY <2>6, DomSupply
    <3>2. IsOn(d)'
      BY <2>3, <2>4, <3>1 DEF IsOn
    <3> QED BY <1>0, <2>1, <2>6, <3>2 DEF Resting
  <2> QED BY <2>1, <2>5, <2>6
<1> QED BY <1>1, <1>2, <1>3, <1>4, <1>5 DEF GoingOn

(* Every cycle keeps the invariant of the domains.                         *)
LEMMA DomTick ==
  ASSUME PowerTypes, CoreInv, NEW busy \in BOOLEAN, Tick(busy), DomInv
  PROVE  DomInv'
<1>1. CASE Calm(todo) /\ \A d \in Domains : Resting(d)
  <2>1. /\ Calm(todo')
        /\ \A d \in Domains, x \in Signals : dreg'[d][x] = dreg[d][x]
    BY <1>1, CalmTick
  <2>2. \A d \in Domains : Resting(d)'
    BY <1>1, <2>1, RestingCycle
  <2> QED BY <2>1, <2>2 DEF DomInv
<1>2. ASSUME NEW d \in Domains, GoingOff(d) \/ GoingOn(d), \A e \in Domains \ {d} : Resting(e)
      PROVE  DomInv'
  <2>1. /\ \A e \in Domains \ {d} : dreg'[e] = dreg[e]
        /\ (GoingOff(d) \/ GoingOn(d))' \/ (Calm(todo') /\ Resting(d)')
    BY <1>2, GoingOffTick, GoingOnTick
  <2>2. \A e \in Domains \ {d} : Resting(e)'
    BY <1>2, <2>1, RestingCycle
  <2> QED BY <2>1, <2>2 DEF DomInv
<1> QED BY <1>1, <1>2 DEF DomInv

(***************************************************************************)
(* The domains: the switches, the interrupts and the application.          *)
(***************************************************************************)
LEMMA DomSwitches ==
  ASSUME PowerTypes, DomInv, NEW x \in Domains \cup {Cpu}, PowerUp(x) \/ Acknowledge(x)
  PROVE  DomInv'
<1>1. /\ dreg' = dreg /\ dseq' = dseq /\ dout' = dout /\ todo' = todo /\ want' = want
      /\ vdd \in [Domains \cup {Cpu} -> BOOLEAN] /\ ack \in [Domains \cup {Cpu} -> BOOLEAN]
  BY DEF PowerUp, Acknowledge, hw, PowerTypes, HwTypes
<1>2. \A d \in Domains :
        \/ vdd'[d] = vdd[d] /\ ack'[d] = ack[d]
        \/ vdd[d] = FALSE /\ dout[d].switch = TRUE /\ vdd'[d] = TRUE /\ ack'[d] = ack[d]
        \/ vdd'[d] = vdd[d] /\ ack[d] # vdd[d] /\ ack'[d] = vdd[d]
  <2> SUFFICES ASSUME NEW d \in Domains
               PROVE  \/ vdd'[d] = vdd[d] /\ ack'[d] = ack[d]
                      \/ vdd[d] = FALSE /\ dout[d]["switch"] = TRUE /\ vdd'[d] = TRUE /\ ack'[d] = ack[d]
                      \/ vdd'[d] = vdd[d] /\ ack[d] # vdd[d] /\ ack'[d] = vdd[d]
    OBVIOUS
  <2>1. d # Cpu /\ vdd[d] \in BOOLEAN /\ ack[d] \in BOOLEAN /\ dout[d]["switch"] \in BOOLEAN
    BY <1>1, KindAssumption DEF PowerTypes, HwTypes, DomSignals, Signals
  <2> QED BY <1>1, <2>1 DEF PowerUp, Acknowledge
<1>3. \A d \in Domains : Powered(d) => Powered(d)'
  BY <1>1, <1>2 DEF Powered
<1>4. \A d \in Domains : Down(d) => Down(d)'
  BY <1>1, <1>2, <1>3 DEF Down
<1>5. \A d \in Domains : Unpowered(d) => Unpowered(d)'
  BY <1>1, <1>2 DEF Unpowered
<1>6. \A d \in Domains : Up(d) => Up(d)'
  <2> SUFFICES ASSUME NEW d \in Domains, Up(d) PROVE Up(d)'
    OBVIOUS
  <2>1. ack[d] = TRUE => ack'[d] = TRUE
    BY <1>2 DEF Up
  <2>2. \A z, o : Gated(z, o, ack[d]) => Gated(z, o, ack'[d])
    BY <2>1 DEF Gated
  <2>3. ack'[d] = TRUE => vdd'[d] = TRUE
    BY <1>2 DEF Up
  <2> QED BY <1>1, <1>2, <2>2, <2>3 DEF Up, Ram
<1>7. \A d \in Domains : \A i, s, r : Written3(d, i, s, r) => Written3(d, i, s, r)'
  BY <1>1 DEF Written3
<1>8. \A d \in Domains : /\ IsOn(d) => IsOn(d)'
                         /\ IsOff(d) => IsOff(d)'
                         /\ Resting(d) => Resting(d)'
  BY <1>1, <1>3, <1>5 DEF IsOn, IsOff, Resting, ResetHeld, Written3, Ram
<1>9. \A d \in Domains : GoingOff(d) => GoingOff(d)'
  BY <1>1, <1>3, <1>4, <1>8 DEF GoingOff, Ready, Isolating, Opening, Resetting, Written3, Ram,
                               ToGate, ToIsolate, ToOpen, ToLast, ToReset, ToPoll
<1>10. \A d \in Domains : GoingOn(d) => GoingOn(d)'
  BY <1>1, <1>6, <1>8 DEF GoingOn, Waiting, Closing, Connecting, Releasing, Written3, ResetHeld, Ram,
                          ToRestore, ToClose, ToConnect, ToLast, ToReset, ToPoll
<1> QED BY <1>1, <1>8, <1>9, <1>10 DEF DomInv

(* A step that changes nothing of the domains keeps it.                    *)
LEMMA DomUnchanged ==
  ASSUME DomInv, dreg' = dreg, dseq' = dseq, dout' = dout, vdd' = vdd, ack' = ack,
         todo' = todo, want' = want
  PROVE  DomInv'
<1>1. \A d \in Domains : /\ Powered(d) => Powered(d)'
                         /\ Down(d) => Down(d)'
                         /\ Unpowered(d) => Unpowered(d)'
  BY DEF Powered, Down, Unpowered
<1>2. \A d \in Domains : Up(d) => Up(d)'
  BY DEF Up, Ram, Gated
<1>3. \A d \in Domains : /\ IsOn(d) => IsOn(d)'
                         /\ IsOff(d) => IsOff(d)'
                         /\ Resting(d) => Resting(d)'
  BY <1>1 DEF IsOn, IsOff, Resting, ResetHeld, Written3, Ram
<1>4. \A d \in Domains : GoingOff(d) => GoingOff(d)'
  BY <1>1, <1>3 DEF GoingOff, Ready, Isolating, Opening, Resetting, Written3, Ram,
                    ToGate, ToIsolate, ToOpen, ToLast, ToReset, ToPoll
<1>5. \A d \in Domains : GoingOn(d) => GoingOn(d)'
  BY <1>2, <1>3 DEF GoingOn, Waiting, Closing, Connecting, Releasing, Written3, ResetHeld, Ram,
                    ToRestore, ToClose, ToConnect, ToLast, ToReset, ToPoll
<1> QED BY <1>3, <1>4, <1>5 DEF DomInv

(* A script taken apart access by access. *)
LEMMA Peel ==
  /\ \A a : <<a>> # <<>> /\ Head(<<a>>) = a /\ Tail(<<a>>) = <<>>
  /\ \A a, b : <<a, b>> # <<>> /\ Head(<<a, b>>) = a /\ Tail(<<a, b>>) = <<b>>
  /\ \A a, b, c : <<a, b, c>> # <<>> /\ Head(<<a, b, c>>) = a /\ Tail(<<a, b, c>>) = <<b, c>>
  /\ \A a, b, c, e : /\ <<a, b, c, e>> # <<>> /\ Head(<<a, b, c, e>>) = a
                     /\ Tail(<<a, b, c, e>>) = <<b, c, e>>
OBVIOUS

(* The first access of a script made of two parts.                         *)
LEMMA ConcatNext ==
  ASSUME NEW S, NEW s \in Seq(S), NEW t \in Seq(S), s # <<>>
  PROVE  Next1(s \o t, Head(s)) /\ Tail(s \o t) = Tail(s) \o t
<1> DEFINE u == s \o t
           w == Tail(s) \o t
<1>1. /\ u \in Seq(S) /\ Len(u) = Len(s) + Len(t)
      /\ \A j \in 1 .. Len(s) + Len(t) : u[j] = IF j <= Len(s) THEN s[j] ELSE t[j - Len(s)]
  BY ConcatProperties
<1>2. /\ Tail(s) \in Seq(S) /\ Len(Tail(s)) = Len(s) - 1
      /\ \A j \in 1 .. Len(Tail(s)) : Tail(s)[j] = s[j + 1]
  BY HeadTailProperties
<1>3. /\ w \in Seq(S) /\ Len(w) = Len(Tail(s)) + Len(t)
      /\ \A j \in 1 .. Len(Tail(s)) + Len(t) :
           w[j] = IF j <= Len(Tail(s)) THEN Tail(s)[j] ELSE t[j - Len(Tail(s))]
  BY <1>2, ConcatProperties
<1>4. Len(s) \in Nat /\ Len(t) \in Nat /\ Len(s) >= 1 /\ Head(s) = s[1]
  OBVIOUS
<1> HIDE DEF u, w
<1>5. u # <<>> /\ Head(u) = Head(s)
  BY <1>1, <1>4
<1>6. /\ Tail(u) \in Seq(S) /\ Len(Tail(u)) = Len(u) - 1
      /\ \A j \in 1 .. Len(Tail(u)) : Tail(u)[j] = u[j + 1]
  BY <1>1, <1>5, HeadTailProperties
<1>7. Len(Tail(u)) = Len(w)
  BY <1>1, <1>2, <1>3, <1>4, <1>6
<1>8. ASSUME NEW j \in 1 .. Len(Tail(u)) PROVE Tail(u)[j] = w[j]
  <2>1. Tail(u)[j] = u[j + 1] /\ j + 1 \in 1 .. Len(s) + Len(t)
    BY <1>1, <1>4, <1>6
  <2>2. CASE j + 1 <= Len(s)
    BY <1>1, <1>2, <1>3, <1>4, <2>1, <2>2
  <2>3. CASE ~(j + 1 <= Len(s))
    <3> DEFINE n == Len(s)
               m == Len(Tail(s))
    <3>1. n \in Nat /\ m = n - 1 /\ j \in 1 .. m + Len(t) /\ ~(j <= m) /\ j \in Int
      BY <1>1, <1>2, <1>4, <1>6, <2>3
    <3>2. u[j + 1] = t[(j + 1) - n]
      BY <1>1, <2>1, <2>3
    <3>3. w[j] = t[j - m]
      BY <1>3, <3>1
    <3> HIDE DEF n, m
    <3>4. (j + 1) - n = j - m
      BY <3>1
    <3> QED BY <2>1, <3>2, <3>3, <3>4
  <2> QED BY <2>2, <2>3
<1>9. Tail(u) = w
  BY <1>3, <1>6, <1>7, <1>8, SeqEqual, Zenon
<1> QED BY <1>5, <1>9 DEF u, w, Next1

Three(u, a, b, c, p) ==
  /\ Next1(u, a) /\ Next1(Tail(u), b) /\ Next1(Tail(Tail(u)), c)
  /\ Tail(Tail(Tail(u))) = <<p>>
Four(u, a, b, c, e, p) == Next1(u, a) /\ Three(Tail(u), b, c, e, p)

(* A script of three accesses and a poll, one access after the other.      *)
LEMMA Follow3 ==
  ASSUME NEW S, NEW a \in S, NEW b \in S, NEW c \in S, NEW p \in S,
         NEW s, s = <<a, b, c>>
  PROVE  Three(s \o <<p>>, a, b, c, p)
<1> DEFINE t == <<p>>
           x == <<b, c>>
           y == <<c>>
<1>1. s \in Seq(S) /\ x \in Seq(S) /\ y \in Seq(S) /\ <<>> \in Seq(S) /\ t \in Seq(S)
  OBVIOUS
<1>2. /\ s # <<>> /\ Head(s) = a /\ Tail(s) = x
      /\ x # <<>> /\ Head(x) = b /\ Tail(x) = y
      /\ y # <<>> /\ Head(y) = c /\ Tail(y) = <<>>
  BY Peel
<1> HIDE DEF t, x, y
<1>3. /\ Next1(s \o t, a) /\ Tail(s \o t) = x \o t
      /\ Next1(x \o t, b) /\ Tail(x \o t) = y \o t
      /\ Next1(y \o t, c) /\ Tail(y \o t) = <<>> \o t
  BY ONLY <1>1, <1>2, ConcatNext
<1>4. <<>> \o t = t
  BY <1>1, ConcatEmptySeq
<1>5. Next1(Tail(s \o t), b) /\ Tail(Tail(s \o t)) = y \o t
  BY ONLY <1>3
<1>6. Next1(Tail(Tail(s \o t)), c) /\ Tail(Tail(Tail(s \o t))) = t
  BY ONLY <1>3, <1>4, <1>5
<1> QED BY <1>3, <1>5, <1>6 DEF t, Three

(* A script of four accesses and a poll, one access after the other.       *)
LEMMA Follow4 ==
  ASSUME NEW S, NEW a \in S, NEW b \in S, NEW c \in S, NEW e \in S, NEW p \in S,
         NEW s \in Seq(S), s # <<>>, Head(s) = a, Tail(s) = <<b, c, e>>
  PROVE  Four(s \o <<p>>, a, b, c, e, p)
<1> DEFINE t == <<p>>
           x == <<b, c, e>>
<1>1. t \in Seq(S) /\ Tail(s) = x
  OBVIOUS
<1>2. Three(x \o t, b, c, e, p)
  BY Follow3, Zenon
<1> HIDE DEF t, x
<1>3. Next1(s \o t, a) /\ Tail(s \o t) = x \o t
  BY ONLY s \in Seq(S), s # <<>>, Head(s) = a, <1>1, ConcatNext
<1> QED BY <1>2, <1>3 DEF t, Four

(* power_manager_pwr_gate_core leaves the other domains alone.             *)
LEMMA CalmCore ==
  ASSUME NEW i \in Irqs, NEW c \in CounterValues
  PROVE  Calm(power_manager_pwr_gate_core(i, c))
<1> DEFINE s == power_manager_pwr_gate_core(i, c)
<1>1. Len(s) = 15 /\ \A j \in 1 .. Len(s) : s[j] = StoreAt(i, c)[Len(s) + 1 - j]
  BY StoreScript DEF Rest
<1>2. ASSUME NEW n \in 1 .. 15 PROVE StoreAt(i, c)[n].op \notin {"put", "poll"}
  <2>1. n \in Int /\ 1 <= n /\ n <= 15
    OBVIOUS
  <2> QED BY <2>1 DEF StoreAt, Set, Do
<1> HIDE DEF s
<1>3. ASSUME NEW j \in 1 .. Len(s) PROVE s[j].op \notin {"put", "poll"}
  <2>1. 16 - j \in 1 .. 15 /\ s[j] = StoreAt(i, c)[16 - j]
    BY <1>1
  <2> QED BY <1>2, <2>1
<1> QED BY <1>3 DEF Calm, s

(* The accesses of the three functions that gate a domain are in the right order.*)
LEMMA GateScripts ==
  ASSUME NEW d \in Domains
  PROVE  /\ ToGate(d, Gate(d, "kOff") \o <<Poll(d, TRUE)>>)
         /\ ToRestore(d, Gate(d, "kOn") \o <<Poll(d, FALSE)>>)
<1> DEFINE S == DomAccesses
           w == Put(d, "wait_ack", TRUE)
           p1 == Put(d, "iso", TRUE)
           p2 == Put(d, "switch", TRUE)
           p3 == Put(d, "reset", TRUE)
           q1 == Put(d, "switch", FALSE)
           q2 == Put(d, "iso", FALSE)
           q3 == Put(d, "reset", FALSE)
           e == Poll(d, TRUE)
           g == Poll(d, FALSE)
           off == Gate(d, "kOff")
           on == Gate(d, "kOn")
<1>1. /\ w \in S /\ p1 \in S /\ p2 \in S /\ p3 \in S /\ q1 \in S /\ q2 \in S /\ q3 \in S
      /\ e \in S /\ g \in S
  BY DEF Put, Poll, DomAccesses, Fields, DomSignals, Signals
<1>2. CASE Ram(d)
  <2>1. off = <<w, p1, p2>> /\ on = <<w, q1, q2>>
    BY <1>2 DEF Ram, Gate, power_manager_pwr_gate_ram_block
  <2> HIDE DEF S, w, p1, p2, p3, q1, q2, q3, e, g, off, on
  <2>2. Three(off \o <<e>>, w, p1, p2, e) /\ Three(on \o <<g>>, w, q1, q2, g)
    BY <1>1, <2>1, Follow3, Zenon
  <2>4. ToGate(d, off \o <<e>>)
    BY <1>2, <2>2 DEF Three, w, p1, p2, e, ToGate, ToIsolate, ToOpen, ToLast, ToPoll
  <2>5. ToRestore(d, on \o <<g>>)
    BY <1>2, <2>2 DEF Three, w, q1, q2, g, ToRestore, ToClose, ToConnect, ToLast, ToPoll
  <2> QED BY <2>4, <2>5 DEF e, g, off, on
<1>3. CASE ~Ram(d)
  <2>1. /\ off \in Seq(S) /\ off # <<>> /\ Head(off) = w /\ Tail(off) = <<p1, p2, p3>>
        /\ on \in Seq(S) /\ on # <<>> /\ Head(on) = w /\ Tail(on) = <<q1, q2, q3>>
    <3>1. CASE Kind[d] = "external"
      <4>1. off = <<w, p1, p2, p3>> /\ on = <<w, q1, q2, q3>>
        BY <3>1 DEF Gate, power_manager_pwr_gate_external
      <4> HIDE DEF S, w, p1, p2, p3, q1, q2, q3, e, g, off, on
      <4> QED BY ONLY <1>1, <4>1
    <3>2. CASE Kind[d] = "periph"
      <4>1. off = <<w>> \o <<p1, p2, p3>> /\ on = <<w>> \o <<q1, q2, q3>>
        BY <3>2 DEF Gate, power_manager_pwr_gate_periph
      <4> DEFINE h == <<w>>
                 x == <<p1, p2, p3>>
                 y == <<q1, q2, q3>>
      <4>2. /\ h \in Seq(S) /\ h # <<>> /\ Head(h) = w /\ Tail(h) = <<>>
            /\ x \in Seq(S) /\ y \in Seq(S)
        <5> HIDE DEF S, w, p1, p2, p3, q1, q2, q3
        <5> QED BY <1>1
      <4> HIDE DEF S, w, p1, p2, p3, q1, q2, q3, e, g, off, on, h, x, y
      <4>3. /\ Next1(h \o x, w) /\ Tail(h \o x) = <<>> \o x
            /\ Next1(h \o y, w) /\ Tail(h \o y) = <<>> \o y
        BY ONLY <4>2, ConcatNext
      <4>4. /\ <<>> \o x = x /\ <<>> \o y = y
            /\ h \o x \in Seq(S) /\ h \o y \in Seq(S)
        BY ONLY <4>2, ConcatEmptySeq, ConcatProperties
      <4>5. off = h \o x /\ on = h \o y
        BY <4>1 DEF h, x, y
      <4>6. /\ off \in Seq(S) /\ off # <<>> /\ Head(off) = w /\ Tail(off) = x
            /\ on \in Seq(S) /\ on # <<>> /\ Head(on) = w /\ Tail(on) = y
        BY ONLY <4>3, <4>4, <4>5 DEF Next1
      <4> QED BY <4>6 DEF x, y
    <3> QED BY <1>3, <3>1, <3>2, KindAssumption DEF Ram
  <2> HIDE DEF S, w, p1, p2, p3, q1, q2, q3, e, g, off, on
  <2>2. Four(off \o <<e>>, w, p1, p2, p3, e) /\ Four(on \o <<g>>, w, q1, q2, q3, g)
    BY <1>1, <2>1, Follow4, Zenon
  <2>4. ToGate(d, off \o <<e>>)
    BY <1>3, <2>2 DEF Three, Four, w, p1, p2, p3, e, ToGate, ToIsolate, ToOpen, ToLast, ToReset, ToPoll
  <2>5. ToRestore(d, on \o <<g>>)
    BY <1>3, <2>2 DEF Three, Four, w, q1, q2, q3, g, ToRestore, ToClose, ToConnect, ToLast, ToReset, ToPoll
  <2> QED BY <2>4, <2>5 DEF e, g, off, on
<1> QED BY <1>2, <1>3

(* The retentive modes neither gate a domain nor wait for it.              *)
LEMMA RetentionScript ==
  ASSUME NEW d \in Domains, NEW s \in {"kRetOn", "kRetOff"}, Kind[d] # "periph"
  PROVE  Calm(Gate(d, s) \o <<>>)
<1> DEFINE t == Gate(d, s)
<1>1. t = Retention(d, s)
  BY KindAssumption DEF Gate, power_manager_pwr_gate_ram_block, power_manager_pwr_gate_external
<1>2. t \in Seq(DomAccesses)
  BY <1>1 DEF Retention, DomAccesses, Fields, DomSignals, Signals, Put
<1>3. Calm(t)
  BY <1>1 DEF Calm, Retention, Put, Signals
<1> HIDE DEF t
<1>4. t \o <<>> = t
  BY <1>2, ConcatEmptySeq
<1> QED BY <1>3, <1>4 DEF t

(* Every call of an application that waits for its domains keeps the invariant.*)
LEMMA DomCalls ==
  ASSUME PowerTypes, DomInv, Patient = TRUE,
         \/ \E i \in Irqs, c \in CounterValues : CallCore(i, c)
         \/ CallWfi
         \/ \E d \in Domains : \/ \E enable \in BOOLEAN : CallClkGate(d, enable)
                               \/ \E s \in SelStates : CallGate(d, s)
  PROVE  DomInv'
<1>1. \E script : Call(script) /\ Idle
  BY DEF CallCore, CallWfi, CallClkGate, CallGate, Call
<1>2. /\ dreg' = dreg /\ dseq' = dseq /\ dout' = dout /\ vdd' = vdd /\ ack' = ack /\ todo = <<>>
      /\ want \in [Domains -> SelStates]
  BY <1>1 DEF Call, Idle, hw, PowerTypes, CoreTypes
<1>3. \A d \in Domains : Resting(d)
  <2>1. \A d \in Domains : ~GoingOff(d) /\ ~GoingOn(d)
    BY <1>2 DEF GoingOff, GoingOn, ToGate, ToIsolate, ToOpen, ToReset, ToPoll, ToRestore, ToClose,
                ToConnect, Next1
  <2> QED BY <2>1 DEF DomInv
<1>4. \A d \in Domains : (IsOn(d) => IsOn(d)') /\ (IsOff(d) => IsOff(d)')
  BY <1>2 DEF IsOn, IsOff, Powered, Unpowered, ResetHeld, Written3, Ram
<1>5. ASSUME Calm(todo'), want' = want PROVE DomInv'
  BY <1>3, <1>4, <1>5 DEF DomInv, Resting
<1>6. ASSUME NEW i \in Irqs, NEW c \in CounterValues, CallCore(i, c) PROVE DomInv'
  BY <1>5, <1>6, CalmCore DEF CallCore, Call
<1>7. ASSUME CallWfi PROVE DomInv'
  BY <1>5, <1>7, CalmScripts DEF CallWfi, Call
<1>8. ASSUME NEW d \in Domains, NEW enable \in BOOLEAN, CallClkGate(d, enable) PROVE DomInv'
  <2>1. Calm(ClkGate(d, enable))
    BY DEF Calm, ClkGate, Put, Signals
  <2> QED BY <1>5, <1>8, <2>1 DEF CallClkGate, Call
<1>9. ASSUME NEW d \in Domains, NEW s \in SelStates, CallGate(d, s) PROVE DomInv'
  <2>1. /\ want'[d] = s /\ \A e \in Domains \ {d} : want'[e] = want[e]
    BY <1>2, <1>9 DEF CallGate
  <2>2. \A e \in Domains \ {d} : Resting(e)'
    BY <1>3, <1>4, <2>1 DEF Resting
  <2>3. CASE s = "kOff"
    <3>1. todo' = Gate(d, "kOff") \o <<Poll(d, TRUE)>>
      BY <1>9, <2>3 DEF CallGate, Call
    <3>2. ToGate(d, todo')
      BY <3>1, GateScripts
    <3>3. IsOn(d)'
      BY <1>3, <1>4, <1>9, <2>3 DEF CallGate, Resting
    <3>4. GoingOff(d)'
      BY <2>1, <2>3, <3>2, <3>3 DEF GoingOff
    <3> QED BY <2>2, <3>4 DEF DomInv
  <2>4. CASE s = "kOn"
    <3>1. todo' = Gate(d, "kOn") \o <<Poll(d, FALSE)>>
      BY <1>9, <2>4 DEF CallGate, Call
    <3>2. ToRestore(d, todo')
      BY <3>1, GateScripts
    <3>3. IsOff(d)'
      BY <1>3, <1>4, <1>9, <2>4 DEF CallGate, Resting
    <3>4. GoingOn(d)'
      BY <2>1, <2>4, <3>2, <3>3 DEF GoingOn
    <3> QED BY <2>2, <3>4 DEF DomInv
  <2>5. CASE s \in {"kRetOn", "kRetOff"}
    <3>1. todo' = Gate(d, s) \o <<>> /\ Kind[d] # "periph" /\ want[d] # "kOff"
      BY <1>9, <2>5 DEF CallGate, Call
    <3>2. Calm(todo')
      BY <2>5, <3>1, RetentionScript
    <3>3. Resting(d)'
      BY <1>3, <1>4, <2>1, <2>5, <3>1 DEF Resting
    <3> QED BY <2>2, <3>2, <3>3 DEF DomInv
  <2> QED BY <2>3, <2>4, <2>5 DEF SelStates
<1> QED BY <1>6, <1>7, <1>8, <1>9

(* It holds after a reset.                                                 *)
LEMMA DomInit == Init => DomInv
<1> SUFFICES ASSUME Init PROVE DomInv
  OBVIOUS
<1>1. Calm(todo)
  BY CalmScripts DEF Init
<1>2. \A d \in Domains : IsOn(d) /\ want[d] = "kOn"
  BY DEF Init, IsOn, Written3, Powered, Fields, DomSignals, Signals
<1> QED BY <1>1, <1>2 DEF DomInv, Resting

(* Every step keeps the invariant of the domains.                          *)
LEMMA DomStep ==
  ASSUME PowerTypes, CoreInv, DomInv, Patient = TRUE, [Next]_vars
  PROVE  DomInv'
<1>1. CASE \E busy \in BOOLEAN : Tick(busy)
  BY <1>1, DomTick
<1>2. CASE \E x \in Domains \cup {Cpu} : PowerUp(x) \/ Acknowledge(x)
  BY <1>2, DomSwitches
<1>3. CASE \E i \in Irqs : Raise(i) \/ Handle(i)
  BY <1>3, DomUnchanged DEF Raise, Handle, hw
<1>4. CASE \/ \E i \in Irqs, c \in CounterValues : CallCore(i, c)
           \/ CallWfi
           \/ \E d \in Domains : \/ \E enable \in BOOLEAN : CallClkGate(d, enable)
                                 \/ \E s \in SelStates : CallGate(d, s)
  BY <1>4, DomCalls
<1>5. CASE UNCHANGED vars
  BY <1>5, DomUnchanged DEF vars
<1> QED BY <1>1, <1>2, <1>3, <1>4, <1>5 DEF Next

(* The invariant of the domains, for an application that waits for what it asked.*)
LEMMA DomInvariant == Early = FALSE /\ Patient = TRUE /\ Spec => []DomInv
<1>1. PowerTypes /\ CoreInv /\ DomInv /\ Patient = TRUE /\ [Next]_vars => DomInv'
  BY DomStep
<1>2. Patient = TRUE => (Patient = TRUE)'
  OBVIOUS
<1> QED BY <1>1, <1>2, DomInit, CoreInvariant, PowerTyping, PTL DEF Spec

(***************************************************************************)
(* Isolation and order of the switches.                                    *)
(***************************************************************************)
LEMMA CorePhases == CoreInv => Quiet \/ Falling \/ Rising
BY DEF CoreInv, Serving, Storing, StoringAt, Restoring, RestoringAt, Cleaning

(* A domain is on, on its way down, off, or on its way up.                 *)
LEMMA DomPhases ==
  ASSUME DomInv, NEW d \in Domains
  PROVE  Powered(d) \/ Down(d) \/ Unpowered(d) \/ Up(d)
<1>1. CASE Resting(d)
  BY <1>1 DEF Resting, IsOn, IsOff
<1>2. CASE GoingOff(d)
  BY <1>2 DEF GoingOff, IsOn, Ready, Isolating, Opening, Resetting
<1>3. CASE GoingOn(d)
  BY <1>3 DEF GoingOn, IsOff, Waiting, Closing, Connecting, Releasing
<1> QED BY <1>1, <1>2, <1>3 DEF DomInv

(* The core without supply is isolated.                                    *)
LEMMA CoreIsolated ==
  ASSUME PowerTypes, CoreInv, ~vdd[Cpu]
  PROVE  ~out.iso
<1>1. vdd[Cpu] = FALSE /\ vdd[Cpu] # TRUE
  BY DEF PowerTypes, HwTypes
<1>2. CASE Falling
  BY <1>1, <1>2 DEF Falling, Quiet, Leaving, Ahead
<1>3. CASE Rising
  BY <1>1, <1>3 DEF Rising, Gated
<1> QED BY <1>1, <1>2, <1>3, CorePhases DEF Quiet

(* A domain without supply is isolated.                                    *)
LEMMA DomIsolated ==
  ASSUME PowerTypes, DomInv, NEW d \in Domains, ~vdd[d]
  PROVE  ~dout[d].iso
<1>1. vdd[d] = FALSE /\ vdd[d] # TRUE
  BY DEF PowerTypes, HwTypes
<1> QED BY <1>1, DomPhases DEF Powered, Down, Unpowered, Up, Gated

\* Whatever the delays of the switches, of the acknowledges and of the driver's
\* nop loops: power_manager_pwr_gate_core, _periph, _ram_block and _external
\* never leave a domain without supply connected to one that has it.
THEOREM IsolatedWhenOffHolds == Early = FALSE /\ Patient = TRUE /\ Spec => []IsolatedWhenOff
<1>1. PowerTypes /\ CoreInv /\ DomInv => IsolatedWhenOff
  <2> SUFFICES ASSUME PowerTypes, CoreInv, DomInv, NEW x \in Domains \cup {Cpu}, ~vdd[x]
               PROVE  ~Iso(x)
    BY DEF IsolatedWhenOff
  <2>1. CASE x = Cpu
    BY <2>1, CoreIsolated DEF Iso
  <2>2. CASE x # Cpu
    BY <2>2, DomIsolated DEF Iso
  <2> QED BY <2>1, <2>2
<1> QED BY <1>1, PowerTyping, CoreInvariant, DomInvariant, PTL

(* Only a cycle moves the outputs, and only a switch raises a supply.       *)
LEMMA WhoMoves ==
  ASSUME PowerTypes, [Next]_vars
  PROVE  /\ out' # out \/ dout' # dout => \E busy \in BOOLEAN : Tick(busy)
         /\ \A x \in Domains \cup {Cpu} :
              ~vdd[x] /\ vdd'[x] => PowerUp(x) /\ out' = out /\ dout' = dout
<1>0. vdd \in [Domains \cup {Cpu} -> BOOLEAN]
  BY DEF PowerTypes, HwTypes
<1>1. CASE \E busy \in BOOLEAN : Tick(busy)
  <2>1. vdd' = [x \in DOMAIN vdd |->
                  vdd[x] /\ IF x = Cpu THEN out'.switch ELSE dout'[x].switch]
    BY <1>1 DEF Tick
  <2>2. \A x \in Domains \cup {Cpu} : vdd'[x] => vdd[x]
    <3> SUFFICES ASSUME NEW x \in Domains \cup {Cpu}, vdd'[x] PROVE vdd[x]
      OBVIOUS
    <3>1. vdd'[x] = (vdd[x] /\ IF x = Cpu THEN out'.switch ELSE dout'[x].switch)
      BY <1>0, <2>1
    <3> QED BY <3>1
  <2> QED BY <1>1, <2>2
<1>2. CASE \E y \in Domains \cup {Cpu} : PowerUp(y)
  <2>1. PICK y \in Domains \cup {Cpu} : PowerUp(y)
    BY <1>2
  <2>2. vdd' = [vdd EXCEPT ![y] = TRUE] /\ out' = out /\ dout' = dout
    BY <2>1 DEF PowerUp, hw
  <2>3. ASSUME NEW x \in Domains \cup {Cpu}, ~vdd[x], vdd'[x] PROVE x = y
    BY <1>0, <2>2, <2>3
  <2> QED BY <2>1, <2>2, <2>3
<1>3. CASE /\ vdd' = vdd /\ out' = out /\ dout' = dout
  BY <1>3
<1>4. CASE \E y \in Domains \cup {Cpu} : Acknowledge(y)
  BY <1>3, <1>4 DEF Acknowledge, hw
<1>5. CASE \E i \in Irqs : Raise(i) \/ Handle(i)
  BY <1>3, <1>5 DEF Raise, Handle, hw
<1>6. CASE \/ \E i \in Irqs, c \in CounterValues : CallCore(i, c)
           \/ CallWfi
           \/ \E d \in Domains : \/ \E enable \in BOOLEAN : CallClkGate(d, enable)
                                 \/ \E s \in SelStates : CallGate(d, s)
  BY <1>3, <1>6 DEF CallCore, CallWfi, CallClkGate, CallGate, Call, hw
<1>7. CASE UNCHANGED vars
  BY <1>3, <1>7 DEF vars, hw
<1> QED BY <1>1, <1>2, <1>4, <1>5, <1>6, <1>7 DEF Next

(* The switch of the core opens behind its isolation.                      *)
LEMMA CoreOpens ==
  ASSUME PowerTypes, CoreInv, [Next]_vars, out.switch, ~out'.switch
  PROVE  ~out.iso
<1>1. out["switch"] = TRUE /\ out'["switch"] # TRUE /\ out' # out
  BY DEF PowerTypes, HwTypes, Signals
<1>2. PICK busy \in BOOLEAN : Tick(busy)
  BY <1>1, WhoMoves
<1>3. out'["switch"] = SeqOut(seq["switch"])
  BY <1>2 DEF Tick, Clock, Signals
<1>4. seq["switch"] \notin {"IDLE", "WAIT_OFF", "SWITCH_ON"}
  BY <1>1, <1>3 DEF SeqOut
<1>5. CASE Falling
  BY <1>4, <1>5 DEF Falling, Quiet, Leaving, Ahead
<1>6. CASE Rising
  BY <1>1, <1>4, <1>6 DEF Rising, Gated
<1> QED BY <1>4, <1>5, <1>6, CorePhases DEF Quiet

(* The supply of the core comes up under reset.                            *)
LEMMA CoreRises ==
  ASSUME PowerTypes, CoreInv, PowerUp(Cpu)
  PROVE  ~out.reset
<1>1. vdd[Cpu] # TRUE /\ out["switch"] = TRUE
  BY DEF PowerUp, PowerTypes, HwTypes, Signals
<1>2. CASE Falling
  BY <1>1, <1>2 DEF Falling
<1>3. CASE Rising
  BY <1>1, <1>3 DEF Rising, Gated
<1> QED BY <1>1, <1>2, <1>3, CorePhases DEF Quiet

(* The switch of a domain opens behind its isolation.                      *)
LEMMA DomOpens ==
  ASSUME PowerTypes, DomInv, [Next]_vars, NEW d \in Domains, dout[d].switch, ~dout'[d].switch
  PROVE  ~dout[d].iso
<1>1. dout[d]["switch"] = TRUE /\ dout'[d]["switch"] # TRUE /\ dout' # dout
  BY DEF PowerTypes, HwTypes, DomSignals, Signals
<1>2. PICK busy \in BOOLEAN : Tick(busy)
  BY <1>1, WhoMoves
<1>3. dout'[d]["switch"] = DomOut(dseq[d]["switch"])
  BY <1>2 DEF Tick, Clock, DomSignals, Signals
<1>4. dseq[d]["switch"] \notin {"IDLE", "SWITCH_ON"}
  BY <1>1, <1>3 DEF DomOut
<1> QED BY <1>1, <1>4, DomPhases DEF Powered, Down, Unpowered, Up

(* The supply of a domain with a reset comes up under reset.               *)
LEMMA DomRises ==
  ASSUME PowerTypes, DomInv, NEW d \in Domains, PowerUp(d), Kind[d] # "ram"
  PROVE  ~dout[d].reset
<1>1. vdd[d] # TRUE /\ dout[d]["switch"] = TRUE
  BY KindAssumption DEF PowerUp, PowerTypes, HwTypes, DomSignals, Signals
<1>2. Up(d)
  BY <1>1, DomPhases DEF Powered, Down, Unpowered
<1> QED BY <1>1, <1>2 DEF Up, Ram, Gated

\* The sequencers open the switch of a domain only behind its isolation, and the
\* supply of a domain with a reset comes up under reset: the order in which the
\* driver writes the registers, and the counters of the core, are enough.
THEOREM SwitchedInOrderHolds == Early = FALSE /\ Patient = TRUE /\ Spec => SwitchedInOrder
<1> DEFINE Order(x) ==
      /\ Switch(x) /\ ~Switch(x)' => ~Iso(x)
      /\ ~vdd[x] /\ vdd'[x] /\ (x \in Domains => Kind[x] # "ram") => ~Reset(x)'
<1>1. ASSUME PowerTypes, CoreInv, DomInv, [Next]_vars, NEW x \in Domains \cup {Cpu}
      PROVE  Order(x)
  <2>1. CASE x = Cpu
    <3>1. Switch(x) /\ ~Switch(x)' => ~Iso(x)
      BY <1>1, <2>1, CoreOpens DEF Switch, Iso
    <3>2. ASSUME ~vdd[x], vdd'[x] PROVE ~Reset(x)'
      <4>1. PowerUp(x) /\ out' = out
        BY <1>1, <3>2, WhoMoves
      <4> QED BY <1>1, <2>1, <4>1, CoreRises DEF Reset
    <3> QED BY <3>1, <3>2
  <2>2. CASE x # Cpu
    <3>0. x \in Domains
      BY <2>2
    <3>1. Switch(x) /\ ~Switch(x)' => ~Iso(x)
      BY <1>1, <2>2, <3>0, DomOpens DEF Switch, Iso
    <3>2. ASSUME ~vdd[x], vdd'[x], Kind[x] # "ram" PROVE ~Reset(x)'
      <4>1. PowerUp(x) /\ dout' = dout
        BY <1>1, <3>2, WhoMoves
      <4> QED BY <1>1, <2>2, <3>0, <3>2, <4>1, DomRises DEF Reset
    <3> QED BY <3>0, <3>1, <3>2
  <2> QED BY <2>1, <2>2
<1>2. PowerTypes /\ CoreInv /\ DomInv /\ [Next]_vars => \A x \in Domains \cup {Cpu} : Order(x)
  BY <1>1
<1>3. PowerTypes /\ CoreInv /\ DomInv /\ [Next]_vars
      => [\A x \in Domains \cup {Cpu} : Order(x)]_vars
  BY <1>2
<1> QED BY <1>3, PowerTyping, CoreInvariant, DomInvariant, PTL DEF SwitchedInOrder, Spec
====
