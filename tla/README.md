# X-HEEP: a verification project

X-HEEP is a RISC-V microcontroller: RTL (`hw/`), and the C drivers, HALs and SDKs
(`sw/device/lib/`) that run on it.  This directory holds TLA+ modules that model parts of it,
TLC configurations that check them on small instances, and TLAPS proofs.

Modelled: the SPI path end to end (SDK, host driver, interrupt handler, SPI host controller, the
two interrupt controllers); the DMA HAL and SDK, as a concurrent program and as the translation
of transactions into registers; the flash driver with the SPI host, the DMA and the chip; the
power manager's driver, assembly routines and sequencers; the RISC-V timer's driver and SDK.

## 1. Inventory

| Component | State it keeps | Operations | Meets | Hard behaviour | What makes it correct |
|---|---|---|---|---|---|
| SPI SDK (`sdk/spi`) | `peripherals[]`: state, transaction, `scnt`, `txcnt`, `rxcnt`, callbacks; the caller's `spi_t` | init, deinit, reset, watermarks, blocking and non-blocking transfers, the event and error handler | host driver, callbacks of the application | handler and thread share every field; the handler works from a snapshot; timeouts reset under it; callbacks call back in | words and segments are moved once, in order; DONE means done; nothing leaks into the next transfer; every transfer ends |
| SPI host driver (`drivers/spi_host`) | none, registers only | command, data, enables, reset, three interrupt entry points | SDK, controller | order of acknowledge and status read | no event lost, queues never overrun |
| SPI host controller (`hw/vendor/xheep/spi`) | command queue, two FIFOs, byte select and merge, state machine, event edge detectors, interrupt and error registers | register accesses, shifting | driver, interrupt controllers | events are edges of levels, stalls, error freeze | as the driver assumes |
| Fast interrupt controller | pending and enable registers | set, clear | core, peripherals | one write enable for all pending bits | a line that is up is pending |
| PLIC and its driver | gateway, pending, claim | claim, dispatch, complete | core, peripherals | deaf between claim and completion; handler table bounds | an event is seen at the latest on completion |
| DMA HAL and SDK (`drivers/dma`, `sdk/dma`) | per channel: loaded transaction, interrupt flag; counters of high-priority interrupts; flags and types in the caller's structure | init, validate, load, launch, stop, interrupt handlers, copies, waits | DMA, fast controller | waiting for an interrupt that may have come; channels configured while others run; state of earlier validations and loads | every flag is served; waits end; the hardware writes what was asked, inside the environments |
| DMA subsystem RTL | arbiter, response routing | request, grant, response | bus, channels | responses of several channels share ports | responses go back where the request came from |
| Power manager (driver and RTL) | sequencer and counter states per domain | sleep, wake, gate, retain | core, interrupts | counters at 0 and 1, wake during sleep entry | switch, isolate and reset in order |
| RISC-V timer and timer SDK | 64-bit counter and comparator in halves | read, arm, wait | core | carry between two halves; interrupt before `wfi` | time is monotone, a wait ends |
| OBI crossbar, OBI FIFO | outstanding requests | request, grant, response | all masters | ordering across slaves | one response per request, in order |
| I2C driver and SDK | FIFO levels | read, write | application | level loops with equality | loops end |
| W25Q flash driver (`bsp/w25q`) | a sector buffer, static DMA transactions; the chip keeps memory, write enable, busy | init, reads, writes, erases and erase-and-write, each by core or DMA, in standard or quad speed | SPI host, DMA channel 0, chip | four machines run at once; a reset of the system finds the chip busy; pages, sectors and words are straddled | a call that returns has done its work and harmed no other byte; every call returns |
| SPI slave SDK, flash controller driver | none of their own | sequences of SPI commands | SPI SDK | none beyond SPI | |
| GPIO, pads, SoC control, UART, I2S, serial link, im2col drivers | registers | accessors | application | none | |
| SoC generator (`util/`) | none at run time | code generation | build | none | |
| Boot ROM | none | wake-up test, boot | power manager | takes the restored path or the cold one | |
| PDM2PCM, memory-mapped flash | data path | | | none | |

The interactions that matter: the application calls the SDK in its thread; the SDK writes the
controller's registers; the controller raises one event line per host; the line reaches the
core through the fast interrupt controller (SPI flash, SPI host 1) or the PLIC (SPI host 2); the
driver's entry point acknowledges it and calls the SDK's handler, which changes the same
`spi_peripheral_t` as the thread and calls the application's callbacks.  The DMA's two lines
reach the core through the fast interrupt controller as well, whose pending bits share a write
enable.  The flash driver uses the SPI host by polling, past the SDK, and borrows DMA channel 0.
The power manager takes the core's supply away in `wfi` and the boot ROM leads it back into the
driver; the timer and the DMA are what wakes it.  `PROJECT.json` lists the hazards, each at its
line.

## 2. Modules

| Module | What it is | EXTENDS |
|---|---|---|
| `SpiTransfer` | abstract: what the SDK promises about one peripheral | |
| `SpiHost` | the controller, and how its event line reaches the core | |
| `SpiSdk` | the thread, the handler and the controller together; all properties | `SpiHost` |
| `SpiSdkInv` | the inductive invariant `SdkInv` and the assumptions it needs | `SpiSdk` |
| `SpiSdkProofs` | proofs for every constant: types, no event forgotten; `SdkInv` and the safety properties; that `SpiSdk` implements `SpiTransfer` | `SpiSdkInv` |
| `MCSpiSdk` | the instances TLC checks | `SpiSdkInv` |
| `Dma` | thread, two handlers, channels and fast interrupt controller | |
| `DmaProofs` | proofs for every constant: types, flags neither stranded nor stale | `Dma` |
| `DmaConfig` | what validation accepts and the registers make the hardware write | |
| `DmaConfigProofs` | proofs for every set of transactions: what runs is what was asked for | `DmaConfig` |
| `Flash` | the flash driver, SPI host, DMA channel and chip | |
| `FlashInv` | the inductive invariant `FlashInv` and the condition of use it needs | `Flash` |
| `FlashProofs` | proofs for every geometry, FIFO depth and call: types; how a section's words and segments move through host and chip | `FlashInv` |
| `FlashSteps` | every step within a section keeps `FlashInv` | `FlashProofs` |
| `FlashSafety` | and every step between sections; the safety properties | `FlashSteps` |
| `PowerManager` | driver, store and restore routines, sequencers, counters, switches | |
| `PowerManagerProofs` | proofs for every number of domains and calls: isolation, order, saved context | `PowerManager` |
| `RvTimer` | timer driver and SDK, peripheral, handler | |
| `RvTimerProofs` | proofs for every number of harts: readings, no early alarm | `RvTimer` |
| `MCDma`, `MCDmaConfig`, `MCFlash`, `MCPowerManager`, `MCRvTimer` | the instances TLC checks | each its module, `MCFlash` `FlashInv` |

### SpiHost: the controller

`cmds` is the command queue, its head the segment being shifted; a segment is a direction and a
number of words.  `txq` and `rxq` count the words in a FIFO and in the byte select or byte
merge next to it, `Txqd` and `Rxqd` are the levels software reads.  `busy` is STATUS.active.
`ShiftWord` moves a word or, by its guard, stalls; `EndSegment` takes the next segment or goes
idle.  A segment leaves the idle state at once (`CoreStart`) unless it needs a transmit word
and there is none: `stall` then freezes the state machine in a state that counts as idle.
`LatchEvent` sets INTR_STATE on the rise of one of four levels (idle, ready, transmit and
receive watermark); `LatchLine` passes INTR_STATE and INTR_ENABLE on to the interrupt
controller.  `TakeInterrupt` and `CompleteInterrupt` cover both controllers, chosen by the
constant `Fic`: the fast controller's pending bit is cleared on entry and set again while the
line is up; the PLIC's gateway is deaf from claim to completion.  `AccessError` sets
ERROR_STATUS, which disables the core.

### SpiSdk: thread and handler

`mpc` is the thread's place, `ipc` the handler's; the atomic steps are the accesses to
registers and to `spi_peripheral_t` that the two contexts share, in program order.  `At` lets
the thread run only when the handler does not and no interrupt is pending.

* `spi_prepare_transfer` accepts a call; `LaunchState` ... `LaunchCommand` are the lines of
  `spi_launch`: state, transaction, fill the FIFO word by word, enable events, enable the
  interrupt, wait for ready, fetch and count the first segment, write the command.
* `WaitDone`, `WaitTimeout`, `ResetTxn`, `ResetHost`, `ResetState`, `TimeoutState` are
  `spi_wait_transaction_done` and `spi_reset_peri`.
* `IsrEnter` ... `IsrExit` are the entry points of `spi_host.c`, `spi_intr_handler_event` and
  `spi_event_handler`, `IsrError*` is `spi_error_handler`.  `IsrCallbackLaunch` is a `done_cb`
  that starts the next transfer.
* `asked`, `sent`, `got`, `told` are history: the transaction last accepted, the words shifted
  out and stored for it, and whether its `done_cb` was called.

### Dma: channels and handlers

`running`, `mode`, `enabled`, `ifr` are a channel's registers; `trans` and `intrFlag` are
`dma_subsys_per`, `hpCounter` the two counters of high-priority interrupts.  `mie` and `gie` are
the CSR bits, `pend` the two pending bits of the fast controller: `FicSample` writes both while
either line is up.  A handler visits the channels in order (`isr`, `isrAt`), one flag per step;
`EndsLoop` is its early return.  The thread's steps are the accesses of `dma_load_transaction`
(`LoadDisable` ... `LoadEnable`), `dma_launch` (`CallLaunch`, `LaunchStart`, `LaunchCheck`) and
`DMA_WAIT` (`WaitCheck` ... `WaitUnmask`).  A transaction is its channel, end event, mode,
whether it has a window and whether validation found it critical.  `dma_init` and a polled load
are called only while no other channel's interrupt is awaited (`InFlight`, `Mixed = FALSE`): both
take the interrupts away, and with `Mixed = TRUE` waits do not end.

### DmaConfig: transactions and registers

One channel.  `Validated` is `dma_validate_transaction` (`TargetErrors`, `Contradictory`,
`Integrity` and `SizeErrors` are its parts), with the flags and types it leaves in the structure;
`LoadRegs`, `LaunchRegs` and `CopyRegs` are what load, launch and the SDK's copies write, masks and
sign extension of the increments included; `Writes` is the set of bytes the hardware then writes,
`AskedWrites` the set the structure asks for.  `Setup` fills a fresh structure, `Refill` changes one
that has been used.  Addresses have `AddrBits` bits and wrap.  `ReInit` says whether the application
calls `dma_init` before it loads another transaction.  `Fits` and `Realignable` are what the
validation leaves to the application (section 5); the transactions of the run satisfy both, and TLC
evaluates that.

### Flash

A function of the driver is its sequence of accesses (`Script`), which the core works off while
the SPI host shifts (`Shift`), the DMA copies (`DmaMove`) and the chip works (`ChipDone`).  The call
of a local function and a loop (over pages, sectors or FIFO loads) are one item of the script:
`Unfold` replaces it by the accesses of the function (`Body`), or by those of the next turn and the
rest of the loop; `NextWord` shortens a loop over words.  The
chip keeps memory, status, write enable latch, power-down and reset-enable state, and refuses what
a W25Q128JW refuses (`Accepts`); a program ANDs and wraps in its page, as the chip does.  `SocReset`
cuts a call at any access: SPI host, DMA and RAM are reset, the chip goes on.  `pre` is the memory
before the call; `refused` collects what the chip has ignored.

### PowerManager

One step is a clock cycle (`Tick`): sequencers, counters and registers move together, and the core
makes the next access of its call (`Access`) or none.  The six counters, the three
`power_manager_counter_sequence` of the core and the `power_manager_sequence` of each domain are
translated state by state.  A core whose `reset` or `switch` output goes down loses its state and
starts in the boot ROM; `saved` is the context in memory.  `vdd` and `ack` are the supply and its
acknowledge, each of which follows after some time.  `Patient` and `Early` are the two conditions of
use explained in section 4.

### RvTimer

Counters and comparators are accessed in halves of `B` values; a function is its sequence of
accesses, the handler preempts between any two of them.  `asked` is the last threshold, `from` the
counter when a reading began.

### Modelling decisions (SPI)

* Words are counted, not named; the driver never looks at their contents.  A byte-exact tail
  of a word is a word.
* The single-direction, bidirectional and multi-segment transfer functions differ in the
  segments they pass; one action with `\E t \in Txns` stands for all.
* `spi_get_active` has no return statement: a call may be refused (no change) or accepted
  whatever the controller does.
* A read past the segment array or through NULL yields an arbitrary segment of `Garbage`.
* The software reset is visible in STATUS at once; `spi_sw_reset` reads STATUS only once and
  would otherwise spin for ever (listed as a hazard).
* A pending interrupt is taken before the thread's next shared step: the core has interrupts
  enabled and takes one within a few instructions.
* The watermark registers equal the fields the SDK keeps; the line is enabled in the interrupt
  controller and in `mie`; other sources of the fast controller are absent.
* `error_cb`, `txwm_cb` and `rxwm_cb` are taken to call nothing of the SDK.
* Segments have at least one word (`SdkAssumption`).  `spi_validate_segments` accepts length 0,
  for which `len - 1` wraps; listed as a hazard.

## 3. Properties

| Property | Says | Kind |
|---|---|---|
| `TypeOK` | types; FIFOs never overfilled or read empty | invariant |
| `ScntInBounds` | the shared segment counter stays inside the array, up to the first access error | invariant |
| `NothingLeftOver` | a transfer starts on an empty peripheral, however the last one ended, up to the first access error | invariant |
| `BusyHasTransaction` | BUSY implies a transaction with an issued segment | invariant |
| `NoWordLost` | words taken = words sent + words queued; words read = words stored | invariant |
| `DoneMeansTransferred` | DONE is never early | invariant |
| `EventReachesCore` | a latched, enabled event is pending or awaits completion | invariant |
| `SdkInv` | the inductive invariant, up to the first access error | invariant |
| `Implements` | `SpiSdk` implements `SpiTransfer` | refinement |
| `TransferEnds` | BUSY leads to not BUSY, or an access error has come | liveness |
| `WaitEnds` | a blocking call returns | liveness |
| `NotStarved` | interrupts never keep the thread out for ever | liveness |
| **Dma** `FlagsCanBeAcknowledged` | a raised interrupt flag is enabled, so reading clears it | invariant |
| `FlagIsFresh` | `intrFlag` is about the transaction launched last | invariant |
| `EveryChannelServiced` | every raised flag is served, of low priority too | liveness |
| `CallsReturn` | load and wait return | liveness |
| `LaunchWaits` | `INTR_WAIT` waits | action, violated |
| **DmaConfig** `StartedAsAsked` | the bytes the hardware writes are the bytes asked for (sizes of copies in data units) | invariant |
| `InsideEnvironment` | and lie in the environment the transaction names | invariant |
| `AcceptedStaysAccepted` | a structure that was accepted is accepted again | action |
| **Flash** `CallsDoTheirWork` | a call without error has made the promised memory | invariant |
| `ReadsAreRight` | the buffer holds what the chip holds: reads by the core, and by the DMA of whole words into aligned buffers | invariant |
| `NeighboursKept` | no byte outside the range (or its sectors) changes, at any moment, through any reset | invariant |
| `CommandsAccepted` | the chip ignores nothing that matters | invariant |
| `NothingLeftOver` | FIFOs are empty between calls | invariant |
| `CallsReturn` | every call returns | liveness |
| **PowerManager** `IsolatedWhenOff` | outputs of a domain without supply are isolated | invariant |
| `SwitchedInOrder` | a switch opens only behind isolation, and a supply comes up under reset | action |
| `GatedOnlyWhenAsked` | only `power_manager_pwr_gate_core` switches the core off | action |
| `ContextKept` | the core goes on with the registers it was cut with | invariant |
| `CallsReturn`, `DomainsSettle` | calls return; a domain reaches the state asked for last | liveness |
| **RvTimer** `CounterReadIsCurrent` | a reading is a value the counter had during the call | invariant |
| `NoEarlyAlarm` | no alarm before the threshold, at no step of arming | action |
| `AlarmComes` | the alarm comes | liveness |

`Dma`, `DmaConfig`, `Flash` and `PowerManager` have a `TypeOK` of their own, which bounds counters,
registers and FIFO levels.

## 4. Runs

| Run | Question | Answer |
|---|---|---|
| `fic` | SPI behind the fast controller, timeouts, resets and access errors at any step | all properties but `EventReachesCore` (`plic`): those that say `~err` and `TransferEnds` up to the first access error, the others, DONE among them, whatever happens |
| `plic` | PLIC, callbacks that relaunch, resets | no event is forgotten, blocking calls return |
| `dma` | two channels, handlers of both kinds, all calls | all hold |
| `dma_config` | sequences of validations, loads, launches, copies | all hold, if `dma_init` comes before each load |
| `flash` | all functions against SPI host, DMA, chip and resets | all hold |
| `power` | the core and a domain of each kind | all hold, under `Patient` and not `Early` |
| `timer` | two counters, SDK and handler | all hold |
| `relaunch_lost` | `BusyHasTransaction` when `done_cb` starts a transfer | violated |
| `dma_wait` | `LaunchWaits` | violated |
| `dma_stale` | `StartedAsAsked` without `dma_init` between loads | violated |
| `flash_short` | `CallsReturn` for a write of less than a word | violated |
| `flash_tail` | `ReadsAreRight` for blocking DMA reads that end inside a word | violated |

**Bounds.**

* SPI: FIFOs of two words and a queue of two commands (72, 64 and 4 in silicon).  With the word
  in byte select or merge a FIFO of depth 2 can be empty, at each watermark, full and over-full,
  and the transactions of four words cannot be held by it, so every refill, drain, stall and wrap
  of the handler's loops happens.  The queue of two is full with one segment shifting and two
  waiting; no transaction needs more.  The application repeats transfers for ever: counters stay
  bounded because each transfer resets them, so no other bound is needed.
* `dma`: two channels, one on either side of `DMA_HP_INTR_INDEX`, with `DMA_NUM_HP_INTR` 1: the
  early return is taken and refused.  Calls are unbounded.  Deadlock is not checked: a launch that
  ends with `INTR_WAIT` may sleep for ever (finding `dma_wait`).
* `dma_config`: 16-bit addresses, structures with increments, environments that fit exactly and
  by one unit not, misaligned pointers, windows, padding and two dimensions, each structure used
  twice; `MCDmaConfig` says which.
* `flash`: words of two bytes, pages of four, sectors of eight, four sectors, a TX FIFO that just
  holds a page and its commands and an RX FIFO smaller than a sector.  The requests straddle
  words, pages and sectors; two calls or resets in a row after initialisation.
* `power`: counters of 8 values, three calls.  The two sets of counter values differ in the order
  of reset and switch, so that every order the assumption allows happens.
* `timer`: halves of three values, counters up to 5, so that the carry into the upper half
  happens during every two-half access; four calls.  Deadlock is not checked: `timer_wait_us`
  may sleep for ever when its alarm is handled before its `wfi`.

`plic` does not check deadlock: `spi_wait_for_ready` really waits for ever there.  `TransferEnds`
is checked for watermarks of at least 1: `spi_set_txwm(0)` is accepted, the level `txqd < 0` never
rises, and a transfer longer than the FIFO is never refilled.

**Conditions of use.**  Some properties hold only for applications that keep to a rule the code
does not enforce.  Each rule is a constant or a guard, and dropping it makes TLC refute the
property:

* `Patient`: a caller of the power manager waits for a domain before it asks it for another state.
  `kRetOn` right after `kOn` clears WAIT_ACK and un-isolates a domain without supply
  (`example_power_manager/main.c:377-392` does this).
* `Early`: the wake-up interrupt comes when the core is off.  An earlier one makes `wfi` fall
  through with POWER_GATE_CORE set; the clean-up clears EN_WAIT_FOR_INTR, and the next `wfi`
  switches the core off with nothing to wake it.
* `Mixed`: no channel is polled while another's interrupt is awaited; a polled load leaves the
  DMA interrupts masked.
* `WholeTransfer` and `AlignedRead`: what the flash driver sends or reads through the DMA is whole
  words of aligned memory, in a write at least a word in each page.  A read that ends inside a word
  returns wrong bytes (`flash_tail`); a write of less than a word never returns (`flash_short`).  A
  read into a misaligned buffer is realigned by `dma_validate_transaction` (`dma.c:592-697`): the
  destination's type becomes a half-word or a byte, the number of units stays, and the DMA stores two
  bytes or one of each word (`DmaUnit`).  The driver ignores the result and returns `FLASH_OK`:
  `flash_tail.cfg` with `Requests <- MisalignedRequests` violates `ReadsAreRight`.  `MCFlash` states
  both conditions of the requests of `flash`.

### Findings

* `relaunch_lost`.  `spi_event_handler` calls `done_cb` in state DONE and then resets the
  transaction, the one `done_cb` has just launched included.
* `dma_wait`.  The loop of `dma_launch` tests `intrFlag` the wrong way round: it returns at once,
  or, if the interrupt was quick, sleeps after it.
* `dma_stale`.  `dma_load_transaction` writes the padding registers only for transactions that
  have padding or two dimensions, and the hardware applies them to all.
* `flash_short`.  A page chunk of less than a word through the DMA is a transaction of size zero.
  It is refused, `page_write` ignores the error, the data segment takes the next command word for
  data and the status read starves.
* `flash_tail`.  A blocking DMA read takes the bytes behind the last whole word from the RX FIFO as
  soon as the DMA is done; the SPI host is still shifting them in, `spi_read_word` finds the FIFO
  empty, and the read returns `FLASH_OK` (`w25q128jw.h:201`, `:273`) with zeros in their place and
  the word left in the FIFO.
* The size of `dma_copy`, `dma_fill` and `dma_copy_to_addr` is "in bytes" in `dma_sdk.h:87`, `:102`
  and `:113`, while `dma_start` writes it to SIZE_D1 as a number of data units, which is what
  `example_dma_sdk` passes.  `DmaConfig` counts as the code does: the word copy of size 3 in
  `MCCopies` writes 12 bytes, and `StartedAsAsked`, which `dma_config` checks, takes those 12 as
  asked for.

The SPI modules show more when their runs are varied; the constants needed are in the cfgs.

* `plic.cfg` with `ScntInBounds` and without `Relaunch`: `spi_launch` enables the interrupt before
  it issues the first segment.  Behind the PLIC an event latched after the acknowledge of the last
  handler of the previous transfer survives in INTR_STATE, interrupts the launch, and handler and
  thread both issue a segment: the thread's is the one behind the array.  Behind the fast
  controller the same event calls the handler again before the thread runs: there `ScntInBounds`
  is proved.
* `fic.cfg` with `TransferEnds` without its `\/ err`: ERROR_STATUS is never cleared, by a reset ("clears all status",
  `spi_sdk.h:294`) or by the error handler, and the error interrupt of no SPI host is connected
  ("doesn't get stuck if there is an error", `spi_sdk.c:400`): the transfer stays BUSY.  The error
  branch does not acknowledge the event, so it is still latched when the next launch enables the
  interrupt: the error handler then resets the transaction under the launch, which goes on to
  fetch a segment through NULL (`ScntInBounds` without its `~err`).
* `fic.cfg` with `Txns <- LateTxns` and `DoneMeansTransferred`: a later transmit segment does not
  fit the FIFO with all words before it, the core stalls in an idle state, and ready and idle without a segment left is taken for the end
  (`DoneMeansTransferred`).  `Preloaded` states the condition under which this cannot happen; the
  proofs show it is sufficient.

### Fairness

`FairSpec` adds weak fairness of `MainStep` (the core executes the thread when no interrupt
keeps it), `IsrStep` (and the handler once entered or pending) and `Hardware` (the controller
has its clock).  Nothing is assumed of `AppCall` (the application owes no call) or of `Disturb`.
The polling loop of a thread in `wait` is no step of its own; its two ways out are `WaitDone`
and `WaitTimeout`.  With `Timeouts` on, fairness of `MainStep` says that the clock advances: a
wait whose transfer never ends times out in the end.  `TransferEnds` does not rest on this: a
non-blocking transfer has no timeout.

`Dma`: a running channel finishes (`Complete`), the interrupt controller samples, the handler and
the thread proceed.  Strong fairness of each interrupt's `Trap` says that the other kind's handler
gets its turn between two interrupts of one kind: windows and transactions take longer than the
handlers.  `Flash`: core, SPI host, DMA and chip go on.  `PowerManager`: the clock ticks, the core
makes its accesses, switches and acknowledges follow, and an awaited interrupt comes.  `RvTimer`:
the clock ticks, alarms are raised and the core executes.  No module assumes that the application
makes a call.

## 5. Proofs

TLAPS checks about 23400 obligations.

### SpiSdk

For every value of the constants (FIFO and queue depths, transactions, watermarks, either
interrupt controller; errors, resets, timeouts and relaunching callbacks on or off):

* `TypeCorrect`: `Spec => []TypeOK`.
* `EventReachesCoreHolds`: `Spec => []EventReachesCore`.

Under `Assumptions` (fast interrupt controller, no relaunching callback, every transaction
`Preloaded`), for every depth, transaction and watermark, with timeouts, resets and access errors:

* `SdkInvariant`: `Spec => []SdkInv`, where `SdkInv` is `~err => SoundInv`;
* `ScntInBoundsHolds`, `NothingLeftOverHolds`, which say `~err` themselves, and
  `BusyHasTransactionHolds`, `NoWordLostHolds`, `DoneMeansTransferredHolds`, each
  `[](~err => ...)`;
* `ImplementsHolds`, without access errors: `Spec => Transfer!Spec`.

No clause of `Assumptions` can be dropped: `relaunch_lost` drops one, and the variations under
Findings the others.

**The argument.**  None of the properties is inductive.  ERROR_STATUS is never cleared (`ErrNext`), so
that a step that ends without an error began without one, and `SoundInv` need only be kept by
those.  It is a conjunction of

* `CoreInv`: the core is busy exactly when it has a command.  This is what makes "ready, idle,
  no segment left" mean "over".  It is preserved by issuing a segment only if the segment's
  first word is there, hence `Preloaded`, and hence the clause of `Accounted` that either all
  words have been handed over or more than a FIFO of them.
* `IrqInv`: a latched event is pending unless the handler is between entry and acknowledge.
  With it nothing is latched when the thread runs, so a launch is not interrupted.
* `LaunchInv`, `HandlerInv`: what each place of the thread and of the handler implies; that
  the snapshot's idle and ready cannot have become false is the core of the latter.
* `ClearInv`: outside a transaction everything is clear.
* `AccountInv`: under way, the segments in the queue are the last issued ones of the
  transaction, and the words sent and received are those of the finished segments plus the
  moved part of the head.

`SpiSdkProofs` first shows what a step of the controller or of the driver does to the accounts; then
it has one lemma per action (or group of similar ones) with a step per conjunct.  The refinement
adds `ToldInv` (the transfer in progress has not been announced) and matches
every step with a step of `SpiTransfer` or a stutter.

**Assumed.**  `HostAssumption` and `SdkAssumption` bound the constants.  `TotalsAssumption`
states of the running totals of `spi_validate_segments` (a fold over the segments) that they
start at 0, grow by each segment's words and end in the total; it is a fact about every finite
sequence, by an induction over data that the installed provers cannot do, and TLC evaluates it
on the transactions of every run.

### Dma

For every number of channels, every set of transactions and every setting of the high-priority
interrupts:

* `TypeCorrect`: `Spec => []TypeOK`; the counters of high-priority interrupts stay within
  `DMA_NUM_HP_INTR`.

If the application polls no channel while others rely on their interrupts (`~Mixed`):

* `FlagsCanBeAcknowledgedHolds`, `FlagIsFreshHolds`, both from `InvariantHolds`:
  `Spec => []DmaInv`.

**The argument.**  A flag is stranded when the thread clears `INTERRUPT_EN` of a channel whose
flag is high, and stale when the thread relaunches one.  `QuietThread` shows that no flag is high
at those steps: it would have been serviced, unless interrupts are masked.  So the invariant
accounts for the masks.  `MaskedIsQuiet`: while MIE masks the DMA, outside the two steps of
`dma_load_transaction` that undo it, no channel can raise a flag.  `DisabledOnlyToSleep`:
MSTATUS.MIE is off only around the `wfi` of `dma_wait`.  `PolledAlone` and `LaunchedUnmasked` carry
what the guards of `dma_load_transaction` and `dma_launch` established to the later steps of the
calls; without the first (`Mixed`) the masks of a polled transaction leave other channels' flags
high.  `WindowNeedsTrans` and `RaisedIsFresh` complete it.

### DmaConfig

For every set of transactions and copies, and every order of `Setup`, `Refill`, validation, load,
launch, end, copy and `dma_init`:

* `ConfigTypeCorrect`: `Spec => []TypeOK`; flags, data types and register fields stay within their
  widths, whatever the application asks for;
* `AcceptedStaysAcceptedHolds`: validation is repeatable.

If `AppFits` (the application calls `dma_init` where an earlier transaction left padding, two
dimensions or a trigger behind; sizes and increments fit into their registers; no hardware FIFO):

* `StartedAsAskedHolds`: what runs writes the bytes the application asked for and no other.

If moreover every transaction is `Realignable`:

* `InsideEnvironmentHolds`: an accepted one-dimensional transaction does not write behind its
  environment.

**The argument.**  `ConfigInv` follows a transaction from the structure to the channel.
`Structure`: the structure holds what was asked for, except that loading has put a padded
one-dimensional one into two dimensions.  `Accepted`: a checked structure without a critical flag
holds exactly the flags and types that one more validation would give it.  `Started`: a loaded and
unmodified structure has its fields in the registers (`LoadedFor`), a running channel has the sizes
as well (`LaunchedFor`), and a copy has its own (`CopiedFor`), which is where registers an earlier
transaction left behind would show.  The properties then follow without a step being taken:
`StartedAsAsked` by comparing `Writes` with `AskedWrites`, `InsideEnvironment` by arithmetic on the
last byte of the last unit.

**The conditions.**  `dma_stale` shows what happens without `dma_init`.  `Fits` and `Realignable`
came out of the proof, and TLC confirmed on instances without them that they are needed.
`dma_validate_transaction` compares no size or increment with the width of its register.  A
transaction that it realigns may end up with a data type above `DMA_DATA_TYPE_BYTE` (a word source
at an odd address and a half-word destination: `dst_type` becomes 3); `DMA_DATA_TYPE_2_SIZE` is
then 0, and the check of the environment against the new type passes for any size.  The same check
counts with the increment of the structure, which is 0 for a destination that only got a warning
that it does not increment, while the realigned transaction advances by `inc_b`.  And the end of a
region is computed in 32 bits, so a region that wraps around ends below the environment's end.

**Assumed.**  `ConfigAssumption` gives the constants their C types.

### RvTimer

For every number of harts, every width `B` of a counter half and every interleaving of thread,
handler and ticks:

* `TimerInvariant`: `Spec => []TimerInv`;
* `CounterReadIsCurrentHolds`: what `timer_start` and `timer_stop` take for the time is a value the
  counter had during the call, although the halves are read separately;
* `NoEarlyAlarmHolds`: no comparator sets off an alarm before the threshold asked for.

**The argument.**  A function is a sequence of accesses, so the invariant has to say what may still
be to come: `TimerTypes` states that `todo` is the rest of one of the functions' sequences, access
by access (`Remainder`, `Linked`), which is what lets a step conclude what came before it.  `Armed`:
the comparator holds what was asked for, except between the writes of `rv_timer_arm`, where its
upper half is all ones and out of the counter's reach.  `Reading`: at the second read of the upper half, if
the first still agrees, the lower half was read while the upper half was that one; the counter is
monotonic during a call, so the two belong together.

**Assumed.**  `TimeAssumption`: `B` is at least 2, thresholds are representable, and time ends
before the upper half of the counter is all ones (`MaxTime < (B-1)*B`), the 2^64 cycles that the
code too takes as never: `rv_timer_arm` writes all ones to park a comparator.

### PowerManager

For every number of domains of each kind, interrupts and calls, every counter width and every set
of counter values:

* `PowerTypeCorrect`: `Spec => []TypeOK`, without a condition of use.

If no interrupt comes before the core is off (`Early = FALSE`):

* `ContextKeptHolds`: the core goes on with the registers of the call it left;
* `GatedOnlyWhenAskedHolds`: only the `wfi` of `power_manager_cpu_store` switches it off, with the
  context of that call in memory.

If moreover the application polls a domain it has switched (`Patient = TRUE`):

* `IsolatedWhenOffHolds`: whatever has no supply is isolated, the core included;
* `SwitchedInOrderHolds`: a switch opens only behind the isolation, and a supply comes up under
  reset.

**The argument.**  `ContextKept` and `IsolatedWhenOff` say little of the state between two of their
violations, so neither is inductive.  `CoreInv` is the life of the core in six phases.  `Serving`
and `Storing`: it is on, no sequencer moves (`Quiet`), and what is left of the call fixes which
registers have been written.  `Falling`: the isolation counter is smaller than the switch counter
and both count down together, so `seq.iso` is in SWITCH_OFF before `seq.switch` is (`Ahead`); this
is where `CounterAssumption` is needed.  `Rising`: isolation and reset wait for the acknowledge
(`Gated`), and the boot ROM finds both words it tests (`Armed`).  `Restoring` and `Cleaning` undo
what `Storing` did; that the stopped counters are back in `idle` when the next call starts the
sequencers is `Stopped`, without which the second gating would not wait.

`DomInv` says that every domain rests, on or off, except the one whose call is running, and of that
one which accesses are left (`ToGate` ... `ToPoll`) and how far its registers, sequencers, supply and
acknowledge have followed.  The poll at the end is what ties the last write to the next call: it
returns only when the acknowledge has changed, and by then the sequencers have passed the states in
which another write would cut the order short.  The `nop` loops of the driver play no part: nothing
is assumed of the number of cycles between two accesses.

**Assumed.**  `WidthAssumption`, `KindAssumption` and `CounterAssumption` (counter values that fit,
of at least 2, `iso_off` smaller than `switch_off`); the two conditions of use, which section 4
shows to be needed.

### Flash

For every geometry, FIFO depth, memory and set of calls, without a condition of use:

* `FlashTyped`: `Spec => []FlashTypes`, and `FlashTypeCorrect`: `Spec => []TypeOK`.

When every call is a `WholeTransfer` (section 4), with the system reset at any access:

* `FlashInvariant`: `Spec => []FlashInv`;
* `FlashNeighboursKept`, `FlashCommandsAccepted`, `FlashNothingLeftOver`.

**The types.**  `TypeOK` bounds the chip's addresses, the FIFO levels, the segment lengths, the
buffer and the DMA's count; none of that is inductive, because each of these comes from an access
that was put into the script long before.  `FlashTypes` types what is left of the script item by
item: the words of a loop lie within the buffer or the caller's data, a command has an address of
the chip or zero, a segment at most `LenMax` bytes, and a loop over pages, sectors or FIFO loads
unrolls into such items again (`PageTurnType`, `DrainTurnType`, `SectorTurnType`).  A sector that
starts in range ends in range only because the sanity check and `GeometryAssumption` say so.  The
DMA fetches from the buffer or the caller's data only while the driver waits for it, which is why
neither can have changed below it.

**The argument.**  None of the three properties is inductive: whether a word that the chip is about
to receive does harm was decided when the driver pushed it, and the driver may be far ahead.  What
ties the two together is that the driver polls: it waits for the SPI host wherever it reads
something back.  A *section* is what it does between two such places: two commands and the status
(wake, erase, reset), the write enable, a command with data and the status (enable, program), or a
read.  `FlashInv` is a disjunction, `Flow`, of the places the system can be in, and of what holds at
all of them, `Sane`.

* `Resting`: nothing is on its way, the chip is idle and awake, and what is left of the script is
  legitimate: every erase and program in it stays within what the call may touch (`Scope`).
* One of the sections, given by the segments `p` that the host has finished and the words `j` of the
  next: `Stage` says what the chip has made of them (a frame, the latch, a job, a status word in the
  FIFO that was read after the job began), `Wire` says that command queue and FIFOs hold exactly the
  segments and words that the driver has issued and the host has not shifted.  The driver is at the
  `i`-th access of the section (`OnTrack`), in the middle of its data (`InData`, by core or DMA),
  emptying the receive FIFO (`Draining`), in an asynchronous read (`Async`) or in
  `w25q128jw_power_down` (`Down`), which is the one call that returns with its command on its way.
* `Closing`: the end of `w25q128jw_init`, where `QE` has been read back.

A step of the host or of the chip moves `p` and `j` on and leaves the place of the driver
(`DeviceMoves`, proved once per kind of section); an access of the driver moves `i` on and leaves the
wire with a word or a segment more (`AccessStep`); the access that reads the status, or the last
word, finds `p` at the section's end (`PairsEnd`, `ReadsEnd`), because only then is there a word to
read.  A reset of the system cuts the wire at any word: chip select goes
high and the chip takes the frame as it is (`CutFrame`), a program with a part of its data included,
so that `w25q128jw_init` may find it busy; its first accesses are the rest of a wake section
(`InitLands`).  Between sections, every function of the driver is shown to
unfold into the accesses of a section and every loop into turns that stay within `Scope`
(`PageLegit`, `LoopLegit`, `SectorFine`): this is where pages, sectors and the arithmetic of
`page_write_wrapper` and `erase_and_write` come in.

**Assumed.**  `GeometryAssumption` (pages are whole words, sectors whole pages, and so on),
`DepthAssumption`, `RequestAssumption` (a read fits the buffer, a write comes with its data).
`WholeTransfer` is a hypothesis of the theorems of the second list; TLC evaluates it on the requests
of `flash`.  (`FlashInv` was checked on that instance too, with finite sets in place of `Nat` and
`Sections`; no run repeats it, because a configuration would have to replace definitions.)

### Limits

**Only model-checked.**  Liveness of all modules, `RvTimer`'s `AlarmComes` included; after an
access error, `Implements`, `BusyHasTransaction`, `NoWordLost` and `DoneMeansTransferred`; and, of `Flash`, `CallsDoTheirWork` and
`ReadsAreRight`, which need the contents of every word on its way, and of the sector buffer, tied to
the caller's data.  Nothing is claimed of calls of the flash driver that are no `WholeTransfer`,
other than their types.

## 6. Not modelled

Of the SPI path: slave configuration, chip selects and speeds, argument checks, the second and
third host at the same time (their state is disjoint), `spi_set_timeout`'s arithmetic (a
timeout may expire at any step), segments of length 0, callbacks other than `done_cb`, bytes
within words, `cpha = 1`.

Of the DMA: transposition, sign extension and the hardware FIFO mode (data path), the slot wait
counter and hardware configuration mode (single register writes), the arbitration of
`dma_NtoM_xbar`.  `Dma` and `DmaConfig` are not composed: they share the structure's criticality,
which `Dma` takes as given.

Of the flash: the clock divider, the memory-mapped mode, write protection of the chip.  Of the
power manager: the `MASTER_CPU_FORCE_*` registers, six writes by JTAG that override the core's
sequencers (`power_manager.sv.tpl:227-228`, `281-282`, `335-336`), the DMA channels' clock gates and
the monitors.  Of the timer: tick parameters other than
those `timer_cycles_init` sets, `rv_timer_irq_disable` and `_restore`, the conversion to seconds.

Of X-HEEP: the I2C driver (a polling loop over a vendored controller), the OBI crossbar (hardware
handshakes only), register accessors without state, register headers, example applications,
generated code, vendored cores, the data path of PDM2PCM and the SoC generator.  Most of the
repository's C lines are of these kinds (generated register headers and examples above all), so the
share of lines that a model can stand for is small.

## 7. Plan

What is left, most useful first: the contents of words in
`FlashInv`, for `CallsDoTheirWork` and `ReadsAreRight`;
`Implements` with access errors, which
needs an invariant that survives them; `DmaXbar` (slicing, arbitration and response routing of
`dma_NtoM_xbar`); the argument checks of the SPI SDK with the widths of `seglen` and `len`; the
composition of `PowerManager` with `RvTimer` as the source of its wake-up.
