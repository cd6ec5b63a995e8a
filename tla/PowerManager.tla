---------------------------- MODULE PowerManager ----------------------------
(***************************************************************************)
(* The power manager: the driver in sw/device/lib/drivers/power_manager    *)
(* (power_manager.c and the two assembly routines that store and restore   *)
(* the context of the core), the sequencers of the peripheral that it      *)
(* programs (hw/ip/power_manager/rtl), the boot ROM's wake-up test, and    *)
(* the power switches themselves.                                          *)
(*                                                                         *)
(* Time is the clock: Tick advances every sequencer and every counter by   *)
(* one cycle and lets the core make at most one access.  A cycle without   *)
(* an access stands for the "nop" loops and for everything else the core   *)
(* executes between two accesses.  The driver's functions are sequences of *)
(* accesses, `todo' being what is left of the call; a function called from *)
(* the application starts in Call.                                         *)
(*                                                                         *)
(* Signals are as in the RTL: TRUE is the idle value, that is powered for  *)
(* `switch', not isolated for `iso', not in reset for `reset'.             *)
(***************************************************************************)
EXTENDS Integers, Sequences

CONSTANTS
    Irqs,           \* interrupt lines that INTR_STATE samples
    Kind,           \* a function: the kind of each software-gated domain
    CounterValues,  \* the power_manager_counters_t the application passes
    Width,          \* number of values of a counter register (2^16 in RTL)
    MaxCalls,       \* bound on the application's calls
    Patient,        \* the application waits for what it has asked for
    Early           \* an interrupt may come before the core is off

Domains == DOMAIN Kind
Cpu == "cpu"
Signals == {"switch", "iso", "reset"}
Counters == {"switch_off", "switch_on", "iso_off", "iso_on", "reset_off", "reset_on"}
OffCounter == [switch |-> "switch_off", iso |-> "iso_off", reset |-> "reset_off"]
OnCounter == [switch |-> "switch_on", iso |-> "iso_on", reset |-> "reset_on"]
SelStates == {"kOn", "kOff", "kRetOn", "kRetOff"}
DomSignals == Signals \cup {"retentive"}
Regs == Counters \cup {"en_wait_for_intr", "wait_ack", "stop", "power_gate_core",
                       "wakeup_state", "restore_address"}
Fields == DomSignals \cup {"wait_ack", "clk_gate"}

ASSUME WidthAssumption == Width \in Nat /\ Width > 2 /\ MaxCalls \in Nat
ASSUME UseAssumption == Patient \in BOOLEAN /\ Early \in BOOLEAN
\* "Turn off: first, isolate the CPU outputs" (example_power_manager/main.c).
\* A counter register of 0 or 1 wraps around before it expires.
ASSUME CounterAssumption ==
    \A c \in CounterValues : /\ c \in [Counters -> 2 .. Width - 1]
                             /\ c.iso_off < c.switch_off
ASSUME KindAssumption ==
    /\ Cpu \notin Domains
    /\ \A d \in Domains : Kind[d] \in {"periph", "ram", "external"}

VARIABLES
    reg,     \* the registers of the core's domain
    seq,     \* the states of its three power_manager_counter_sequence
    out,     \* their outputs
    ctr,     \* the states of the six reg_to_counter
    dreg,    \* the registers of the other domains
    dseq,    \* the states of their power_manager_sequence
    dout,    \* their outputs
    vdd,     \* the supply of a domain is up
    ack,     \* POWER_GATE_*_ACK
    pend,    \* interrupt lines that are high
    core,    \* "run", "sleep" (wfi) or "lost" (in reset or without power)
    todo,    \* what is left of the call
    ctx,     \* the registers of the core, identified by the call they are in
    saved,   \* the context in memory: registers and where they return
    calls,   \* number of calls the application has made
    want     \* the last state the application has asked of a domain

hw == <<seq, out, ctr, dseq, dout>>
vars == <<reg, seq, out, ctr, dreg, dseq, dout, vdd, ack, pend, core, todo,
          ctx, saved, calls, want>>

Lost == -1      \* no context: the registers after a reset

----------------------------------------------------------------------------
(* Accesses *)

\* A register of the core's domain, and one of domain d.
Set(f, v) == [op |-> "set", field |-> f, val |-> v]
Put(d, f, v) == [op |-> "put", dom |-> d, field |-> f, val |-> v]
\* An access that is not a write to the peripheral.
Do(what) == [op |-> what]
\* while (power_manager_*_domain_is_off() != off);
Poll(d, off) == [op |-> "poll", dom |-> d, off |-> off]

\* Mutant: the boot ROM is not told that the core wakes up.
power_manager_cpu_store_Cold ==
    <<Set("power_gate_core", TRUE), Do("save"), Set("restore_address", TRUE), Do("wfi")>>

\* The context and the registers that make the next wfi switch the core off.
power_manager_cpu_store ==
    <<Set("power_gate_core", TRUE), Set("wakeup_state", TRUE), Do("save"),
      Set("restore_address", TRUE), Do("wfi")>>

\* Mutant: the core stays armed for power gating.
power_manager_cpu_restore_Armed ==
    <<Set("wakeup_state", FALSE), Set("restore_address", FALSE), Do("load")>>

power_manager_cpu_restore ==
    <<Set("power_gate_core", FALSE), Set("wakeup_state", FALSE),
      Set("restore_address", FALSE), Do("load")>>

\* Mutant: the expired counters are not stopped.
CleanUp_NoStop == <<Set("en_wait_for_intr", {})>>

\* What power_manager_pwr_gate_core does once power_manager_cpu_store returns.
CleanUp == <<Set("en_wait_for_intr", {}), Set("stop", TRUE)>>

\* Mutant: no wake-up interrupt is selected.
power_manager_pwr_gate_core_NoIntr(sel_intr, c) ==
    <<Set("reset_off", c.reset_off), Set("reset_on", c.reset_on),
      Set("switch_off", c.switch_off), Set("switch_on", c.switch_on),
      Set("iso_off", c.iso_off), Set("iso_on", c.iso_on), Set("wait_ack", TRUE)>>
    \o power_manager_cpu_store \o CleanUp


power_manager_pwr_gate_core(sel_intr, c) ==
    <<Set("reset_off", c.reset_off), Set("reset_on", c.reset_on),
      Set("switch_off", c.switch_off), Set("switch_on", c.switch_on),
      Set("iso_off", c.iso_off), Set("iso_on", c.iso_on),
      Set("en_wait_for_intr", {sel_intr}), Set("wait_ack", TRUE)>>
    \o power_manager_cpu_store \o CleanUp

power_manager_pwr_gate_periph(d, s) ==
    <<Put(d, "wait_ack", TRUE)>>
    \o IF s = "kOn"
       THEN <<Put(d, "switch", FALSE), Put(d, "iso", FALSE), Put(d, "reset", FALSE)>>
       ELSE <<Put(d, "iso", TRUE), Put(d, "switch", TRUE), Put(d, "reset", TRUE)>>

\* kRetOn and kRetOff, the same in the RAM and the external domains.
Retention(d, s) ==
    <<Put(d, "wait_ack", FALSE), Put(d, "retentive", s = "kRetOn")>>

\* Mutant: kOn leaves the acknowledge bypassed.
power_manager_pwr_gate_ram_block_NoWait(d, s) ==
    CASE s = "kOn"  -> <<Put(d, "wait_ack", FALSE), Put(d, "switch", FALSE), Put(d, "iso", FALSE)>>
      [] s = "kOff" -> <<Put(d, "wait_ack", TRUE), Put(d, "iso", TRUE), Put(d, "switch", TRUE)>>
      [] OTHER      -> Retention(d, s)

power_manager_pwr_gate_ram_block(d, s) ==
    CASE s = "kOn"  -> <<Put(d, "wait_ack", TRUE), Put(d, "switch", FALSE), Put(d, "iso", FALSE)>>
      [] s = "kOff" -> <<Put(d, "wait_ack", TRUE), Put(d, "iso", TRUE), Put(d, "switch", TRUE)>>
      [] OTHER      -> Retention(d, s)

\* Mutant: the retentive modes of the external domain are exchanged.
power_manager_pwr_gate_external_Swapped(d, s) ==
    CASE s = "kOn"  -> <<Put(d, "wait_ack", TRUE), Put(d, "switch", FALSE),
                         Put(d, "iso", FALSE), Put(d, "reset", FALSE)>>
      [] s = "kOff" -> <<Put(d, "wait_ack", TRUE), Put(d, "iso", TRUE),
                         Put(d, "switch", TRUE), Put(d, "reset", TRUE)>>
      [] OTHER      -> <<Put(d, "wait_ack", FALSE), Put(d, "retentive", s = "kRetOff")>>

power_manager_pwr_gate_external(d, s) ==
    CASE s = "kOn"  -> <<Put(d, "wait_ack", TRUE), Put(d, "switch", FALSE),
                         Put(d, "iso", FALSE), Put(d, "reset", FALSE)>>
      [] s = "kOff" -> <<Put(d, "wait_ack", TRUE), Put(d, "iso", TRUE),
                         Put(d, "switch", TRUE), Put(d, "reset", TRUE)>>
      [] OTHER      -> Retention(d, s)

Gate(d, s) ==
    CASE Kind[d] = "periph"   -> power_manager_pwr_gate_periph(d, s)
      [] Kind[d] = "ram"      -> power_manager_pwr_gate_ram_block(d, s)
      [] Kind[d] = "external" -> power_manager_pwr_gate_external(d, s)

\* power_manager_clk_gate_periph, _ram_block and _external.
ClkGate(d, enable) == <<Put(d, "clk_gate", enable)>>

----------------------------------------------------------------------------
(* The sequencers *)

\* power_manager_counter_sequence, one of the core's three.
SeqNext(s, start_off, start_on, off_done, on_done, switch_ack) ==
    CASE s = "IDLE"     -> IF start_off THEN "WAIT_OFF" ELSE s
      [] s = "WAIT_OFF" -> IF off_done THEN "SWITCH_OFF" ELSE s
      [] s = "SWITCH_OFF" -> IF start_on THEN "WAIT_ON" ELSE s
      [] s = "WAIT_ON"  -> IF ~on_done THEN s ELSE IF switch_ack THEN "SWITCH_ON" ELSE "WAIT_ACK"
      [] s = "WAIT_ACK" -> IF switch_ack THEN "SWITCH_ON" ELSE s
      [] s = "SWITCH_ON" -> "IDLE"
SeqOut(s) == s \in {"IDLE", "WAIT_OFF", "SWITCH_ON"}

\* power_manager_sequence, of the domains that software switches.
DomNext(s, off, switch_ack) ==
    CASE s = "IDLE"      -> IF off THEN "WAIT_ON" ELSE s
      [] s = "WAIT_ON"   -> IF ~off THEN "WAIT_ACK" ELSE s
      [] s = "WAIT_ACK"  -> IF switch_ack THEN "SWITCH_ON" ELSE s
      [] s = "SWITCH_ON" -> "IDLE"
DomOut(s) == s \in {"IDLE", "SWITCH_ON"}

\* reg_to_counter: it decrements the register when started and then once per
\* cycle until the value after the decrement is zero.
CtrNext(c, start, value, stop) ==
    CASE c = "idle"   -> IF start THEN "count" ELSE c
      [] c = "count"  -> IF (value - 1) % Width = 0 THEN "expire" ELSE c
      [] c = "expire" -> IF stop THEN "idle" ELSE c
Decrements(c, start) == c = "count" \/ (c = "idle" /\ start)

\* The six MASTER_CPU_FORCE registers, which a debugger sets over JTAG and no
\* driver touches, are taken to be 0.
StartOff == reg.power_gate_core /\ core = "sleep"
StartOn == reg.en_wait_for_intr \cap pend # {}
Acked(signal, x, wait_ack) == signal = "switch" \/ ~wait_ack \/ ack[x]

\* The start input of each counter.
Started(k) ==
    \E x \in Signals : \/ k = OffCounter[x] /\ seq[x] = "IDLE" /\ StartOff
                       \/ k = OnCounter[x] /\ seq[x] = "SWITCH_OFF" /\ StartOn

\* One cycle of the peripheral.  The registers are those before the cycle.
Clock ==
    /\ seq' = [x \in Signals |->
                 SeqNext(seq[x], StartOff, StartOn, ctr[OffCounter[x]] = "expire",
                         ctr[OnCounter[x]] = "expire", Acked(x, Cpu, reg.wait_ack))]
    /\ out' = [x \in Signals |-> SeqOut(seq[x])]
    /\ ctr' = [k \in Counters |-> CtrNext(ctr[k], Started(k), reg[k], reg.stop)]
    /\ dseq' = [d \in Domains |-> [x \in DomSignals |->
                 DomNext(dseq[d][x], dreg[d][x],
                         x = "retentive" \/ Acked(x, d, dreg[d].wait_ack))]]
    /\ dout' = [d \in Domains |-> [x \in DomSignals |-> DomOut(dseq[d][x])]]

\* Mutant: a counter decrements by two and runs past zero.
Counted_Wide(written) ==
    [f \in DOMAIN written |->
        IF f \in Counters /\ Decrements(ctr[f], Started(f)) THEN reg[f] - 2 ELSE written[f]]

\* The register file after a cycle in which the core writes what `written' says.
Counted(written) ==
    [f \in DOMAIN written |->
        IF f \in Counters /\ Decrements(ctr[f], Started(f))
        THEN (reg[f] - 1) % Width ELSE written[f]]

----------------------------------------------------------------------------
(* The core *)

\* The core keeps its state; it reaches the bus.
Alive == out'.reset /\ out'.switch
Connected == core = "run" /\ out.iso /\ out.reset /\ vdd[Cpu]

\* The boot ROM, entered when the core comes out of reset: with WAKEUP_STATE
\* set it jumps to what RESTORE_ADDRESS holds, be it the address that
\* power_manager_cpu_store wrote or the reset value; otherwise it boots.
entry ==
    IF ~reg.wakeup_state THEN <<>>
    ELSE IF reg.restore_address THEN power_manager_cpu_restore ELSE <<Do("stray")>>

\* The core makes its next access.
Access ==
    LET o == Head(todo) IN
    /\ Connected /\ todo # <<>> /\ Alive
    /\ reg' = Counted(IF o.op = "set" THEN [reg EXCEPT ![o.field] = o.val] ELSE reg)
    /\ dreg' = IF o.op = "put" THEN [dreg EXCEPT ![o.dom][o.field] = o.val] ELSE dreg
    /\ core' = IF o.op = "wfi" /\ pend = {} THEN "sleep" ELSE "run"
    /\ saved' = IF o.op = "save" THEN [ctx |-> ctx, ret |-> CleanUp] ELSE saved
    /\ ctx' = IF o.op = "load" THEN saved.ctx ELSE ctx
    /\ todo' = CASE o.op = "wfi" /\ pend = {} -> todo
                 [] o.op = "poll" /\ ack[o.dom] = o.off -> todo
                 [] o.op = "load" -> saved.ret
                 [] o.op = "boot" -> entry
                 [] OTHER -> Tail(todo)

\* The core makes no access in this cycle: it executes nops, sleeps or is
\* woken up by an interrupt, or loses its state.
NoAccess ==
    /\ reg' = Counted(reg)
    /\ UNCHANGED <<dreg, saved>>
    /\ CASE ~Alive -> core' = "lost" /\ todo' = <<Do("boot")>> /\ ctx' = Lost
         [] Alive /\ core = "lost" -> core' = "run" /\ UNCHANGED <<todo, ctx>>
         [] Alive /\ core = "sleep" /\ pend # {} ->
                core' = "run" /\ todo' = Tail(todo) /\ UNCHANGED ctx
         [] OTHER -> UNCHANGED <<core, todo, ctx>>

Tick(busy) ==
    /\ Clock
    /\ IF busy THEN Access ELSE NoAccess
    \* a domain loses its supply when its switch opens
    /\ vdd' = [x \in DOMAIN vdd |->
                 vdd[x] /\ IF x = Cpu THEN out'.switch ELSE dout'[x].switch]
    /\ UNCHANGED <<ack, pend, calls, want>>

----------------------------------------------------------------------------
(* The power switches and the interrupt lines *)

\* A closed switch brings the supply up after some time; the acknowledge
\* follows the supply after some time.
PowerUp(x) ==
    /\ ~vdd[x]
    /\ IF x = Cpu THEN out.switch ELSE dout[x].switch
    /\ vdd' = [vdd EXCEPT ![x] = TRUE]
    /\ UNCHANGED <<reg, hw, dreg, ack, pend, core, todo, ctx, saved, calls, want>>
Acknowledge(x) ==
    /\ ack[x] # vdd[x]
    /\ ack' = [ack EXCEPT ![x] = vdd[x]]
    /\ UNCHANGED <<reg, hw, dreg, vdd, pend, core, todo, ctx, saved, calls, want>>

\* An interrupt line rises, the one the core waits for or any other: while
\* the core is off, while it sleeps in a plain wfi and, if Early, at any
\* time.  The driver does not handle the early ones: see the README.
CoreOff == (\A x \in Signals : seq[x] = "SWITCH_OFF" /\ ~out[x]) /\ ~ack[Cpu]
Raise(i) ==
    /\ i \notin pend
    /\ Early \/ CoreOff \/ (core = "sleep" /\ Len(todo) = 1)
    /\ pend' = pend \cup {i}
    /\ UNCHANGED <<reg, hw, dreg, vdd, ack, core, todo, ctx, saved, calls, want>>

----------------------------------------------------------------------------
(* The application *)

Idle == core = "run" /\ todo = <<>> /\ ctx # Lost

\* The handler of a pending interrupt, between two calls.
Handle(i) ==
    /\ Idle /\ i \in pend
    /\ pend' = pend \ {i}
    /\ UNCHANGED <<reg, hw, dreg, vdd, ack, core, todo, ctx, saved, calls, want>>

Call(script) ==
    /\ Idle /\ pend = {} /\ calls < MaxCalls
    /\ todo' = script
    /\ calls' = calls + 1 /\ ctx' = calls + 1
    /\ UNCHANGED <<reg, hw, dreg, vdd, ack, pend, core, saved>>

CallCore(i, c) == Call(power_manager_pwr_gate_core(i, c)) /\ UNCHANGED want

\* A plain wfi, as the other drivers execute it while they wait.
CallWfi == Call(<<Do("wfi")>>) /\ UNCHANGED want

CallClkGate(d, enable) ==
    /\ dreg[d].clk_gate # enable
    /\ Call(ClkGate(d, enable)) /\ UNCHANGED want

\* The application gates a domain that is on and restores one that is off.
CallGate(d, s) ==
    LET waits == IF Patient /\ s \in {"kOn", "kOff"} THEN <<Poll(d, s = "kOff")>> ELSE <<>> IN
    /\ s = "kOn" => want[d] = "kOff"
    /\ s \in {"kOff", "kRetOn"} => want[d] \notin {"kOff", "kRetOn"}
    /\ s = "kRetOff" => want[d] = "kRetOn"
    /\ s \in {"kRetOn", "kRetOff"} => Kind[d] # "periph"
    /\ Call(Gate(d, s) \o waits)
    /\ want' = [want EXCEPT ![d] = s]

Init ==
    /\ reg = [f \in Regs |-> CASE f \in Counters -> 0
                               [] f = "en_wait_for_intr" -> {}
                               [] OTHER -> FALSE]
    /\ seq = [x \in Signals |-> "IDLE"]
    /\ out = [x \in Signals |-> TRUE]
    /\ ctr = [k \in Counters |-> "idle"]
    /\ dreg = [d \in Domains |-> [f \in Fields |-> FALSE]]
    /\ dseq = [d \in Domains |-> [x \in DomSignals |-> "IDLE"]]
    /\ dout = [d \in Domains |-> [x \in DomSignals |-> TRUE]]
    /\ vdd = [x \in Domains \cup {Cpu} |-> TRUE]
    /\ ack = [x \in Domains \cup {Cpu} |-> TRUE]
    /\ pend = {}
    /\ core = "run" /\ todo = <<>> /\ ctx = 0
    /\ saved = [ctx |-> Lost, ret |-> <<>>]
    /\ calls = 0
    /\ want = [d \in Domains |-> "kOn"]

Next ==
    \/ \E busy \in BOOLEAN : Tick(busy)
    \/ \E x \in Domains \cup {Cpu} : PowerUp(x) \/ Acknowledge(x)
    \/ \E i \in Irqs : Raise(i) \/ Handle(i)
    \/ \E i \in Irqs, c \in CounterValues : CallCore(i, c)
    \/ CallWfi
    \/ \E d \in Domains : \/ \E enable \in BOOLEAN : CallClkGate(d, enable)
                          \/ \E s \in SelStates : CallGate(d, s)

Spec == Init /\ [][Next]_vars

\* The clock runs, the core executes, switches and acknowledges take finite
\* time, and every interrupt source fires again.
Fairness ==
    /\ \A busy \in BOOLEAN : WF_vars(Tick(busy))
    /\ \A x \in Domains \cup {Cpu} : WF_vars(PowerUp(x)) /\ WF_vars(Acknowledge(x))
    /\ \A i \in Irqs : WF_vars(Raise(i)) /\ WF_vars(Handle(i))

FairSpec == Spec /\ Fairness

----------------------------------------------------------------------------
(* Properties *)

SeqStates == {"IDLE", "WAIT_OFF", "SWITCH_OFF", "WAIT_ON", "WAIT_ACK", "SWITCH_ON"}

\* Type invariant: no counter is decremented out of its register's range, a
\* call leaves at most its own accesses to do, and the core is in a call's
\* context or in none.
TypeOK ==
    /\ \A k \in Counters : reg[k] \in 0 .. Width - 1
    /\ reg.en_wait_for_intr \subseteq Irqs
    /\ \A f \in DOMAIN reg \ (Counters \cup {"en_wait_for_intr"}) : reg[f] \in BOOLEAN
    /\ seq \in [Signals -> SeqStates] /\ out \in [Signals -> BOOLEAN]
    /\ ctr \in [Counters -> {"idle", "count", "expire"}]
    /\ dreg \in [Domains -> [Fields -> BOOLEAN]]
    /\ dseq \in [Domains -> [DomSignals -> SeqStates \ {"WAIT_OFF", "SWITCH_OFF"}]]
    /\ dout \in [Domains -> [DomSignals -> BOOLEAN]]
    /\ vdd \in [Domains \cup {Cpu} -> BOOLEAN] /\ ack \in [Domains \cup {Cpu} -> BOOLEAN]
    /\ pend \subseteq Irqs /\ core \in {"run", "sleep", "lost"}
    /\ Len(todo) <= 15 /\ ctx \in Lost .. MaxCalls
    /\ saved.ctx \in Lost .. MaxCalls /\ calls \in 0 .. MaxCalls
    /\ want \in [Domains -> SelStates]

Iso(x) == IF x = Cpu THEN out.iso ELSE dout[x].iso
Reset(x) == IF x = Cpu THEN out.reset ELSE dout[x].reset
Switch(x) == IF x = Cpu THEN out.switch ELSE dout[x].switch

\* A domain without supply is isolated: none of its floating outputs reaches
\* a domain that is on, however long the switches, the acknowledges and the
\* driver's nop loops take.
IsolatedWhenOff == \A x \in Domains \cup {Cpu} : ~vdd[x] => ~Iso(x)

\* A switch opens only when the isolation of its domain has been in place
\* for a cycle, and the supply of a domain with a reset comes up under reset,
\* in the second gating of the domain as in the first.
SwitchedInOrder ==
    [][\A x \in Domains \cup {Cpu} :
          /\ Switch(x) /\ ~Switch(x)' => ~Iso(x)
          /\ ~vdd[x] /\ vdd'[x] /\ (x \in Domains => Kind[x] # "ram") => ~Reset(x)']_vars

\* The core is switched off only asleep in power_manager_cpu_store and with
\* the context of this very call in memory: a wfi of another driver never
\* switches it off.
GatedOnlyWhenAsked ==
    [][core # "lost" /\ core' = "lost" => core = "sleep" /\ saved.ctx = calls]_vars

\* Code that is not the boot ROM's or power_manager_cpu_restore's runs with
\* the registers of the call it belongs to.
ContextKept ==
    core # "lost" /\ (todo = <<>> \/ todo[Len(todo)].op \notin {"boot", "load"})
        => ctx = calls

\* Every call returns: the core comes back from power_manager_pwr_gate_core
\* when the selected interrupt comes, and the polls of a domain end.
CallsReturn == todo # <<>> ~> todo = <<>>

\* A domain ends in the state that was asked for last.
Settled(d) ==
    /\ want[d] = "kOff" => ~vdd[d] /\ ~dout[d].iso /\ (Kind[d] # "ram" => ~dout[d].reset)
    /\ want[d] # "kOff" => vdd[d] /\ dout[d].iso /\ dout[d].reset
    /\ dout[d].retentive = (want[d] # "kRetOn")
DomainsSettle == <>[](\A d \in Domains : Settled(d))
=============================================================================
