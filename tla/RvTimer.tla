------------------------------ MODULE RvTimer ------------------------------
(***************************************************************************)
(* The RISC-V timer: the driver rv_timer.c, the functions of timer_sdk.c   *)
(* on top of it, the peripheral (64-bit counters and comparators that the  *)
(* 32-bit core reaches one half at a time) and the timer's interrupt       *)
(* handler, which preempts the driver between any two accesses.            *)
(*                                                                         *)
(* A half register has B values.  The tick parameters are those of         *)
(* timer_cycles_init (prescale 0, step 1).  As in PowerManager, a function *)
(* is the sequence of its accesses; `todo' is what the thread has left and *)
(* `isr' what the handler has left.                                        *)
(***************************************************************************)
EXTENDS Integers, Sequences

CONSTANTS
    B,           \* values of a half register (2^32)
    Harts,       \* number of counters: config.hart_count
    Thresholds,  \* alarms and delays the application asks for
    MaxTime,     \* bound on the counters
    MaxCalls     \* bound on the calls

\* Bounds: a counter is not within one upper-half step of wrapping around.
ASSUME TimeAssumption ==
    /\ B \in Nat \ {0, 1} /\ Harts \in Nat \ {0}
    /\ MaxTime \in 0 .. (B - 1) * B - 1
    /\ Thresholds \subseteq 0 .. B * B - 1

Hart == 0 .. Harts - 1
Max64 == B * B - 1
Upper(v) == v \div B
Lower(v) == v % B

VARIABLES
    active,   \* CTRL: the counters that run
    mtime,    \* TIMER_V, per hart
    mtimecmp, \* COMPARE, per hart
    ie,       \* INTR_ENABLE
    is,       \* INTR_STATE
    ready,    \* the SDK's `timer' structure has been initialised
    todo, isr,
    asleep,   \* the thread is in wfi
    loc,      \* the thread's locals: CTRL as read, the halves, the result
    hctrl,    \* CTRL as the handler has read it
    hwval,    \* hw_timer_value, modulo 2^32
    calls,
    \* what is recorded for the properties:
    asked,    \* the threshold of the last rv_timer_arm of a hart
    from      \* the counter at the start of rv_timer_counter_read

dev == <<active, mtime, mtimecmp, ie, is>>
vars == <<active, mtime, mtimecmp, ie, is, ready, todo, isr, asleep, loc, hctrl,
          hwval, calls, asked, from>>

----------------------------------------------------------------------------
(* The driver *)

Op(op, h, v) == [op |-> op, hart |-> h, val |-> v]

\* Mutant: the upper half is not read again.
rv_timer_counter_read_Once(h) ==
    <<Op("read_upper", h, 0), Op("read_lower", h, 0)>>

rv_timer_counter_read(h) ==
    <<Op("read_upper", h, 0), Op("read_lower", h, 0), Op("read_check", h, 0)>>

\* mmio_region_nonatomic_set_bit32 and _clear_bit32 on CTRL.
rv_timer_counter_set_enabled(h, state) ==
    <<Op("read_ctrl", h, 0), Op(IF state THEN "set_ctrl" ELSE "clear_ctrl", h, 0)>>

\* Mutant: the lower half is written first.
rv_timer_arm_LowerFirst(h, threshold) ==
    <<Op("lower", h, threshold), Op("ask", h, threshold), Op("upper", h, threshold)>>

\* Mutant: the last write goes to the register of the lower half, and the
\* upper half stays at UINT32_MAX.
rv_timer_arm_NoUpper(h, threshold) ==
    <<Op("ask", h, threshold), Op("lower", h, threshold), Op("lower", h, threshold)>>

rv_timer_arm(h, threshold) ==
    <<Op("ask", h, threshold),        \* UINT32_MAX in the upper half
      Op("lower", h, threshold), Op("upper", h, threshold)>>

rv_timer_irq_enable(h, state) == <<Op(IF state THEN "ie_set" ELSE "ie_clear", h, 0)>>
rv_timer_irq_clear(h) == <<Op("is_clear", h, 0)>>
rv_timer_irq_force(h) == <<Op("is_test", h, 0)>>

ResetHart(h) ==
    rv_timer_irq_enable(h, FALSE) \o rv_timer_irq_clear(h) \o rv_timer_arm(h, Max64)
    \o <<Op("zero_lower", h, 0), Op("zero_upper", h, 0)>>

\* The loop over the harts: seven accesses for each.
ResetHarts == [i \in 1 .. 7 * Harts |-> ResetHart((i - 1) \div 7)[((i - 1) % 7) + 1]]

rv_timer_reset == <<Op("stop_all", 0, 0)>> \o ResetHarts

rv_timer_init == <<Op("init", 0, 0)>> \o rv_timer_reset

----------------------------------------------------------------------------
(* The SDK *)

timer_get_cycles == rv_timer_counter_read(0)

timer_start ==
    timer_get_cycles \o <<Op("val_start", 0, 0)>> \o rv_timer_counter_set_enabled(0, TRUE)

timer_stop ==
    timer_get_cycles \o <<Op("val_stop", 0, 0)>> \o rv_timer_counter_set_enabled(0, FALSE)

timer_arm_start(threshold) == rv_timer_arm(0, threshold) \o timer_start

timer_arm_stop == rv_timer_counter_set_enabled(0, FALSE)

\* Before the first rv_timer_init the structure names no timer.
timer_reset == <<Op("val_reset", 0, 0)>> \o IF ready THEN rv_timer_reset ELSE <<>>

timer_cycles_init == timer_reset \o rv_timer_init

timer_wait_us(delay) ==
    timer_cycles_init \o rv_timer_irq_enable(0, TRUE) \o timer_arm_start(delay)
    \o <<Op("wfi", 0, 0)>> \o rv_timer_irq_clear(0)

\* The applications' handler_irq_timer: timer_arm_stop and timer_irq_clear.
handler_irq_timer == timer_arm_stop \o rv_timer_irq_clear(0)

----------------------------------------------------------------------------
(* The peripheral *)

Tick(h) ==
    /\ h \in active /\ mtime[h] < MaxTime
    /\ mtime' = [mtime EXCEPT ![h] = @ + 1]
    /\ UNCHANGED <<active, mtimecmp, ie, is, ready, todo, isr, asleep, loc, hctrl,
                   hwval, calls, asked, from>>

\* An active counter that has reached its comparator sets INTR_STATE.
Alarm(h) ==
    /\ h \in active /\ mtime[h] >= mtimecmp[h] /\ h \notin is
    /\ is' = is \cup {h}
    /\ UNCHANGED <<active, mtime, mtimecmp, ie, ready, todo, isr, asleep, loc, hctrl,
                   hwval, calls, asked, from>>

Interrupt == 0 \in is \cap ie

\* What an access o does to the device, for the thread and for the handler;
\* ctrl is the value of CTRL that the caller has read.
Device(o, ctrl) ==
    /\ active' = CASE o.op = "stop_all" -> {}
                   [] o.op = "set_ctrl" -> ctrl \cup {o.hart}
                   [] o.op = "clear_ctrl" -> ctrl \ {o.hart}
                   [] OTHER -> active
    /\ mtime' = CASE o.op = "zero_lower" -> [mtime EXCEPT ![o.hart] = Upper(@) * B]
                  [] o.op = "zero_upper" -> [mtime EXCEPT ![o.hart] = Lower(@)]
                  [] OTHER -> mtime
    /\ mtimecmp' =
         CASE o.op = "ask" -> [mtimecmp EXCEPT ![o.hart] = (B - 1) * B + Lower(@)]
           [] o.op = "lower" -> [mtimecmp EXCEPT ![o.hart] = Upper(@) * B + Lower(o.val)]
           [] o.op = "upper" -> [mtimecmp EXCEPT ![o.hart] = Upper(o.val) * B + Lower(@)]
           [] OTHER -> mtimecmp
    /\ ie' = CASE o.op = "ie_set" -> ie \cup {o.hart}
               [] o.op = "ie_clear" -> ie \ {o.hart}
               [] OTHER -> ie
    \* a write to hart 0's comparator clears the interrupt state of all harts
    /\ is' = CASE o.op = "is_clear" -> is \ {o.hart}
               [] o.op = "is_test" -> is \cup {o.hart}
               [] o.op \in {"ask", "lower", "upper"} /\ o.hart = 0 -> {}
               [] OTHER -> is

----------------------------------------------------------------------------
(* The thread and the handler *)

\* The thread makes its next access, unless an interrupt is taken first.
Step ==
    LET o == Head(todo) IN
    /\ todo # <<>> /\ isr = <<>> /\ ~Interrupt /\ ~asleep
    /\ Device(o, loc.ctrl)
    /\ loc' = CASE o.op = "read_ctrl"  -> [loc EXCEPT !.ctrl = active]
                [] o.op = "read_upper" -> [loc EXCEPT !.upper = Upper(mtime[o.hart])]
                [] o.op = "read_lower" ->
                     [loc EXCEPT !.lower = Lower(mtime[o.hart]),
                                 !.out = loc.upper * B + Lower(mtime[o.hart])]
                [] OTHER -> loc
    /\ todo' = IF o.op = "read_check" /\ loc.upper # Upper(mtime[o.hart])
               THEN rv_timer_counter_read(o.hart) \o Tail(todo)
               ELSE Tail(todo)
    /\ ready' = (ready \/ o.op = "init")
    /\ asleep' = (o.op = "wfi")
    /\ hwval' = CASE o.op = "val_start" -> (0 - Lower(loc.out)) % B
                  [] o.op = "val_stop" -> (hwval + Lower(loc.out)) % B
                  [] o.op = "val_reset" -> 0
                  [] OTHER -> hwval
    /\ asked' = IF o.op = "ask" THEN [asked EXCEPT ![o.hart] = o.val] ELSE asked
    /\ from' = IF o.op = "read_upper" THEN mtime[o.hart] ELSE from
    /\ UNCHANGED <<isr, hctrl, calls>>

\* The core takes the timer interrupt; wfi returns.
Trap ==
    /\ isr = <<>> /\ Interrupt
    /\ isr' = handler_irq_timer
    /\ asleep' = FALSE
    /\ UNCHANGED <<dev, ready, todo, loc, hctrl, hwval, calls, asked, from>>

Handler ==
    LET o == Head(isr) IN
    /\ isr # <<>>
    /\ Device(o, hctrl)
    /\ hctrl' = IF o.op = "read_ctrl" THEN active ELSE hctrl
    /\ isr' = Tail(isr)
    /\ UNCHANGED <<ready, todo, asleep, loc, hwval, calls, asked, from>>

\* The application calls a function of the driver or of the SDK.
Call(script) ==
    /\ todo = <<>> /\ isr = <<>> /\ calls < MaxCalls
    /\ todo' = script
    /\ calls' = calls + 1
    /\ UNCHANGED <<dev, ready, isr, asleep, loc, hctrl, hwval, asked, from>>

CallSdk ==
    \/ Call(timer_cycles_init)
    \/ ready /\ Call(timer_start)
    \/ ready /\ Call(timer_stop)
    \/ ready /\ Call(rv_timer_irq_enable(0, TRUE))
    \/ \E t \in Thresholds : \/ ready /\ Call(timer_arm_start(t))
                             \/ Call(timer_wait_us(t))

CallDriver(h) ==
    /\ ready
    /\ \/ Call(rv_timer_counter_read(h))
       \/ \E state \in BOOLEAN : Call(rv_timer_counter_set_enabled(h, state))
       \/ \E t \in Thresholds : Call(rv_timer_arm(h, t))
       \/ Call(rv_timer_irq_clear(h)) \/ Call(rv_timer_irq_force(h))

Init ==
    /\ active = {} /\ ie = {} /\ is = {}
    /\ mtime = [h \in Hart |-> 0] /\ mtimecmp = [h \in Hart |-> Max64]
    /\ ready = FALSE /\ todo = <<>> /\ isr = <<>> /\ asleep = FALSE
    /\ loc = [ctrl |-> {}, upper |-> 0, lower |-> 0, out |-> 0]
    /\ hctrl = {} /\ hwval = 0 /\ calls = 0
    /\ asked = [h \in Hart |-> Max64] /\ from = 0

Next ==
    \/ \E h \in Hart : Tick(h) \/ Alarm(h) \/ CallDriver(h)
    \/ Step \/ Trap \/ Handler \/ CallSdk

Spec == Init /\ [][Next]_vars

\* The clock ticks, alarms are raised and the core executes.
FairSpec ==
    /\ Spec
    /\ \A h \in Hart : WF_vars(Tick(h)) /\ WF_vars(Alarm(h))
    /\ WF_vars(Step) /\ WF_vars(Trap) /\ WF_vars(Handler)

----------------------------------------------------------------------------
(* Properties *)

\* rv_timer_counter_read returns a value that the counter has had during the
\* call, although it reads the two halves one after the other while the
\* counter runs: timer_start and timer_stop compute with such a value.
CounterReadIsCurrent ==
    todo # <<>> /\ Head(todo).op \in {"val_start", "val_stop"}
        => from <= loc.out /\ loc.out <= mtime[0]

\* The comparator sets off no alarm before the threshold that was asked for,
\* neither between two writes of rv_timer_arm nor in rv_timer_reset.
NoEarlyAlarm ==
    [][\A h \in Hart : h \in is' \ is /\ UNCHANGED <<todo, isr>> => mtime[h] >= asked[h]]_vars

\* A counter that runs towards an alarm is stopped by the handler, by the
\* application, or the alarm is moved out of reach.
AlarmComes ==
    0 \in active \cap ie /\ asked[0] <= MaxTime
        ~> 0 \notin active \cap ie \/ asked[0] > MaxTime
=============================================================================
