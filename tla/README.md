# Freedom Metal, verified

TLA+ models of the run-time library of this repository (`src/metal`, with the
start-up code of `src/gloss`): the parts of it that several harts, an interrupt
handler and its thread, or a driver and a free-running device execute at the
same time, and the drivers whose arithmetic or bookkeeping decides what a device
does. Each module is checked by TLC on a small instance, and every safety
property that a passing run checks is proved with TLAPS for every value of the
constants, some under hypotheses that are named below.

## The system

Freedom Metal is linked into a bare-metal program. There is no scheduler: the
actors are the **harts**, the **interrupt handlers** that preempt the thread of
their hart, and the **devices** (counters, interrupt controllers, FIFOs). They
share memory, memory-mapped registers and, within one hart, its CSRs. Calls go
from the application through a vtable to a driver; interrupts come back through
`mtvec`, the handler table of the CPU driver and, for external interrupts, the
table of the PLIC driver.

| component | source | state it keeps | operations | what is hard | what makes it correct |
|---|---|---|---|---|---|
| spin lock | `lock.h`, `memory.c` | one word | init, take, give | harts and handlers compete; not recursive | mutual exclusion; the lock is never lost; a free lock is taken |
| machine timer | `riscv_clint0.c`, `riscv_cpu.c`, `timer.c` | `mtime`, `mtimecmp`, `mie.MTIE` | read, set, enable, default handler | 64 bits in words of 32, running counter, preemption | reads are snapshots; no interrupt that was not asked for; the compare value is whole |
| hart start-up | `entry.S`, `scrub.S`, `crt0.S`, `init.c`, `synchronize_harts.c` | memory segments, `init_done`, `fini_done`, MSIP bits, `mie` | scrub, copy, zero, constructors, barrier, clean-up, destructors | ordering of harts; MSIP bits shared with main | nobody uses memory before it is ready; everybody starts |
| CPU interrupt controller | `riscv_cpu.c`, `vector.S`, `trap.S`, `interrupt.c` | handler table per hart, `init_done`, `mtvec`, `mie`, `mstatus` | init, register, enable, trap | tables in memory against CSRs of the executing hart; traps between writes | a trap finds its handler and the data that goes with it |
| CLINT set-up | `riscv_clint0.c` | `init_done`, entries in the CPU tables, MSIP | init, register, enable, set and clear IPI | initialised once for all harts | every hart can use its timer |
| PLIC | `riscv_plic0.c` | priorities, enable words, thresholds, handler table | init, register, enable, affinity, thresholds, claim, complete | several harts claim at once; read-modify-write of shared words | one server per source; no completion is ignored; interrupts are served |
| board description | `bsp/*/include/metal/machine.h` | constants | lookups | generated tables that may not fit the machine | every hart has its context |
| clock tree | `clock.h`, `clock.c`, `fixed-*.c` | callback lists | register, set rate | a cell registered twice; callbacks that register | a rate change ends and reaches every client |
| FE310 clocks, PLL | `sifive_fe310-g000_*.c` | `pllcfg`, dividers | init, set rate | the core runs from the clock being changed | the core runs only from a stable clock, at the closest rate |
| watchdog | `sifive_wdog0.c` | configuration, counter, compare | run, feed, set time-out, interrupt | each write needs an unlock just before | no expiry before the time-out asked for, except while the scale is changed |
| real-time clock | `sifive_rtc0.c` | count, compare, scale | run, stop, get and set | scaling; split reads | the alarm is never late, and hardly early |
| SPI | `sifive_spi0.c` | FIFOs, chip select, format | init, transfer, set baud | command, address, dummy and data phases; time-out | one received byte per sent byte, of this transfer |
| I2C | `sifive_i2c0.c` | controller status, `init_done`, rate | init, read, write, transfer | refusals and time-outs in mid-transfer; clock callbacks | a command waits for the one before |
| UART | `sifive_uart0.c`, `uart.c`, `tty.c` | FIFOs, watermarks, rate | init, putc, getc, watermarks | drain before a rate change | no byte is sent at a mixed rate; the drain ends |
| PWM | `sifive_pwm0.c` | registers, frequency and duty of the driver | enable, set frequency and duty, trigger, stop | registers and variables of the driver diverge | quiet over a rate change |
| GPIO, buttons, LEDs, switches | `sifive_gpio*.c` | registers | set, clear, configure | read-modify-write without a lock | the thread's pins are what it asked for |
| CLIC | `sifive_clic0.c` | level and priority fields, vector table | like CLINT and PLIC together | packed fields of configurable width; two tables | a registered interrupt finds its handler |
| interrupt forwarders | `sifive_*-external-interrupts0.c` | `init_done` | forward to the parent | initialise what others have used | a trap runs the handler last registered |
| PMP | `pmp.c` | packed configuration and address registers | init, set, get, lock | packing into 32 or 64 bits; locked entries | setting a region changes that region only |
| performance counters | `hpm.c` | counters, events, count | init, read, clear, set | split 64-bit access; probing | a read returns a value the counter had |
| C library time | `sys_times.c`, `sys_gettimeofday.c`, ... | none | convert cycles | products that do not fit | the exact quotient, the same in all calls |
| heap | `sys_sbrk.c` | the break | sbrk | the end of the heap | the break stays within it |
| atomics | `atomic.h` | none | one AMO each | none | |
| caches, L2 prefetcher | `cache.c`, `sifive_ccache0.c`, `sifive_fu540-c000_l2.c` | way enables | enable, flush | the LIM shares the ways; a trap in mid-flush | no LIM is taken by the cache |
| bus error unit | `sifive_buserror0.c` | event masks, cause | enable, get, clear | bits set while they are read | what is reported cleared is cleared |
| HTIF, simulated UART, test finisher, trace | `ucb_htif0.c`, `sifive_simuart0.c`, `sifive_test0.c`, `sifive_trace.c` | request and reply words | putc, exit | reply awaited by polling | |
| privilege change | `privilege.c`, `trap.S` | CSRs | drop to S or U mode | one way | |
| generator scripts, test programs | `scripts/`, `tests/` | | | host side; read as users of the library | |

`PROJECT.json` has the same list with the state of each, and the hazards: 40
places where something can go wrong that a test would hardly reach, each with
the properties that watch it or the reason why none does.

## The modules

The variables keep the names of the code where it has names. An action is one
access to shared state together with the local computation that goes with it:
one load or store of a register or of a word that another actor also uses. Where
no other actor can see the difference, a whole function is one action.

### SpinLock, Mutex, SpinLockProofs, MCSpinLock

`word` is `lock->_state`; `pc[c]` and `backoff[c]` are the program counter and the
local variable of `metal_lock_take` in context `c`. A context is the thread of a
hart or an interrupt handler that uses the lock too; `Runs` says that the thread
of a hart does not move while the handler of that hart is in the lock functions.
`Swap` is one `amoswap.w.aq`; `Spin` is the delay loop and the doubling of
`backoff`; `Give` is `amoswap.w.rl`; `LockInit` is `metal_lock_init` with its
three error returns.

What `metal_lock_init` answers and what the memory does are two things. The answer
(`InitCode`) comes from the compiler's flag (`isa`) and from the generated memory
table (`table`); whether an `amoswap` succeeds depends on `amo`, a trait of the
memory that the code never reads. All three are any at all, and `TakeCall` is
called whatever init answered, as nothing in the code prevents it. If the memory
refuses, the bus faults and the handler, if it returns, comes back to the
`amoswap` (`BusFault`, `BusFaultReturn`); compiled without atomics `metal_lock_take`
traps and, if that returns, answers 1 (`TrapTake`, `TakeRefused`). `NotLeaked` says
that in all this the word is set only while somebody holds the lock. `Mutex` is
what a lock promises: a set of holders that has at most one member. `SpinLock`
implements it with `holders <- Holders`.

Assumed: `metal_lock_init` is called once, before the lock is shared, and only the
holder gives the lock back. Initialising a lock that is held breaks mutual
exclusion (the mutation `LockInitAgain`).

### MachineTimer, MachineTimerProofs, MCMachineTimer

A 64-bit value is a record of two words of `B` values. `ReadHi`, `ReadLo` and
`CheckHi` are the three loads of `__metal_clint0_mtime_get`, `SetMax`, `SetLo` and
`SetHi` the three stores of `mtimecmp_set`. `Tick` lets the counter advance by any
amount between two of them. Two contexts per hart execute this code: the
thread, and the default timer handler, which reads the time and sets the compare
register `Period` later (`HandlerRearm`). `snap` and `armed` are history
variables: the counter when the low word was read, and the argument of the last
`mtimecmp_set` that finished.

Assumed: a hart writes its own compare register; the interrupt follows the
comparison at once; `mtime` never reaches the last 2^32 ticks of its range
(within those the write of the largest value to the high word would not silence
the interrupt; a counter of 10 MHz needs 58,000 years to get there).

### HartStart, HartStartProofs, MCHartStart

`pc[h]` is where hart `h` is between reset and `main` or `wfi`. Memory is
abstracted to what the segments hold: `garbage`, `zero` (scrubbed) or the
`image`; `initDone` is the run-once flag of `metal_init`, which lies in the bss
and holds anything before it is zeroed. The barrier is modelled by its loads and
stores of the MSIP bits: hart 0 waits for each bit in turn (`WaitMsip`) and
clears them in turn (`ClearMsip`), the others raise theirs (`RaiseMsip`) and wait
(`WaitClear`). After it, `main` on the boot hart sets and clears software
interrupts with the same bits. The boot hart may be any hart, as
`__metal_boot_hart` may; hart 0 always runs the barrier, as in the code.

A constructor may enable interrupt lines (`mie`); behind the barrier every hart
switches its own off (`CleanUp`), so that `main` finds them off (what `main` enables
later is the business of `LocalInterrupts`). `main` may call
`metal_fini` itself, and `exit` calls it when `main` returns (`MetalFini`): the
first call runs the destructors (`RunDtor`), a second one returns at `fini_done`.
Then the boot hart is `off`: the shutdown is the one that spins, and the other
harts run on.

Not modelled: the thread-local storage pointer and the floating-point, vector,
delegation and `satp` registers, which are written once and read by no other step.

### LocalInterrupts, LocalInterruptsProofs, MCLocalInterrupts

What a trap finds while harts initialise. `handler`, `data` and `sub` are the
fields of `metal_int_table` of each controller, in memory; `mtvec`, `mie` and
`mstatus` belong to the executing hart. A call is a sequence of writes: `at[h]`
names the write that hart `h` comes to next, `job[h]` the function it has called
and the controller and line it is at, and one action does each kind of write
(`Wipe`, `Vector`, `SetDefault`, `SetSub`, `SetHandler`, ...). `Loop` takes the
functions that run over all harts to the next one, and `IntcReturns` comes back
from the CPU controller to the PLIC that initialises it. An interrupt may come
between any two writes: `TrapEnter` reads the private data of the entry, as
`__metal_exception_handler` does first, and `TrapCall` calls the handler it finds
then. `fate` tells what became of the hart.

Assumed of the application, after `metal/interrupt.h`: nobody initialises a
controller twice; a hart initialises its own CPU controller; it registers a
handler before it enables the line. Only direct mode and the software, timer and
external lines are modelled here; `InterruptLines` has the vectored mode and the
other lines.

### Plic, PlicProofs, MCPlic

The controller is external: gateways (`ip`, `busy`), priorities, thresholds, the
claim that takes the best pending source and the completion that is ignored for a
source the context does not have enabled. The driver is modelled operation by
operation: `PlicInit`; `Register`, which sets the priority first and the table
then (`RegisterTable`); `SetEnable` and `AffinityEnable`, which read and write the
enable word of one context after the other (`ReadWord`, `WriteWord`); thresholds
and priorities with the strict comparison of `set_priority`; and the handler,
`Claim`, `CallIsr` and `Complete`. Source `s` stands for bit `s` of an enable
word that all sources of the model share. `ContextIds` is the generated table
from harts to contexts: the claim uses it, while enable and disable use the
number of the hart.

Assumed of the application: a handler is registered before its source is
enabled; a device is silenced and its source not in service when the source is
disabled; calls that change enable words exclude each other (the driver has no
lock, and `lock.h` is what the library offers for it). Without the last, one of
two simultaneous changes to a word is lost. A context number outside the
contexts reads 0 and its completion does nothing. A `NULL` handler means the
driver's default, which shuts the machine down: the hart goes no further.

### Clock, Uart, Spi, I2c, Pwm, ClockedDrivers, ClockedDriversProofs, MCClockedDrivers

`Clock` has the two lists of rate change callbacks as a head and one `_next`
pointer per driver, `Append1` with all it does to a cell that is in the list
already, and the traversal of `metal_clock_set_rate_hz` cell by cell, on one
thread with the label `pc`. The drivers extend it: a callback starts at a label of
its own and comes back to `preNext` or `postNext`, and the walk goes on from
wherever the pointer of the cell leads by then. `ClockedDrivers` puts them on one
clock; `used` says which of them an application uses.

* `Uart`: `fifo` and `left` are the transmit FIFO and the bits still to go out;
  the callback sets the watermark to one, waits and counts the time of a symbol
  (`UartPre`, `UartWait`, `UartDrain`). The number of turns is computed in a `long`
  as in the code (`CyclesToWait`, `CLong`): where the product of bits and rate
  exceeds `LongMax` it wraps, and a negative number makes no turn. `div + 1` turns
  cover a bit, since a turn takes a cycle at least. A watermark is a set of bits,
  because the setters only set bits.
* `Spi`: a byte is named by its transfer and index. `SpiSend` and `SpiAnswer` are the
  loops of all four stages with the switches of protocol between them,
  `SpiTimeout` leaves as the code does, with the FIFOs as they are, and `late`
  counts how often.
* `I2c`: one action per command (`I2cAddress`, `I2cByte`) and per wait
  (`I2cAddressed`, `I2cDone`), with `I2cTimeout` at every wait and a slave that may
  refuse any written byte. `WithI2cBaud` and `I2cRegisters` are `set_baud_rate`,
  which registers both callbacks each time.
* `Pwm`: registers (`cfg`, `scale`, `cmp0`, `cmp`) apart from what the driver
  remembers (`freq`, `count`, `duty`).

Assumed: one thread calls the drivers and initialises the UART and SPI
drivers once; interrupts of these devices do not call them. A time-out happens
at any time while a wait lasts. No UART is asked for more bits a second than its
clock has cycles (`UartAssumption`). Fields that only choose pins or polarities
are left out.

### Devices, DevicesProofs, InterruptLinesProofs, MCDevices

The units below share nothing, neither registers nor driver state, so `Devices`
chooses one of them per behaviour (`unit`).

* `Watchdog`: every write is an unlock and a store, with a read first for the
  configuration (`Unlock`, `ReadCfg`, `Write`); a call is the sequence of its
  writes. `Handler` clears the interrupt between any two of them and may feed, which
  locks the registers again: `wdogLost` remembers that a write of the thread was in
  vain for it. `WdogTick` and `WdogExpire` are the timer, which resets the chip or
  interrupts. `wdogAsked` holds scale and compare value as the calls asked for them
  (`now`) and as they were before the call under way (`before`), so that a time-out
  is measured in the ticks that the application knows of and not in those of the
  register. `MCWatchdog` is the watchdog alone.
* `Rtc`: `set_compare` turn by turn of its loop of growing shifts (`ShiftTurn`), then
  scale, compare and the value read back; `set_count` and `get_count` in two words
  against the running counter. A word has `RtcWord` values.
* `Pll`: the table of the driver entry by entry, the choice of the closest
  configuration, and `set_rate_hz` as its accesses in order: off the PLL, each
  field of the configuration, the wait of four ticks, the wait for the lock, on
  again. The PLL needs `SettleTicks` to settle and its lock bit says anything only
  after that. The rates of the fixed clocks are computed as in the drivers;
  `TableAgrees`, an assumption about nothing but the literal table, says of each of
  its entries that the fields give the ratio the entry promises.
* `Pmp`: a configuration is a set of bits; `Spread` says on which regions the
  shifted mask and value of `set_region` fall, for both widths. `Refused` has the
  early returns; `PmpModify` the calls that read, change and set again; locked
  entries, top-of-range neighbours and the granularity are the hardware's.
* `Counters`: the split counters as one number and the halves the code reads or
  writes (`HpmRead`, `HpmClear`); probing, events, `mcounteren` with the trap that skips a
  write; and the cycles-to-time conversion with the width of its products.
* `Clic`: a control register is a set of bits whose level, priority and vector
  fields depend on the configuration; two tables, the driver's and the vector
  table; `ClicTake` chooses between them as mode and bit say. The common handler is
  given `clicSub`, the `sub_int` of the software interrupt in the CPU's table
  (`riscv_cpu.c:202`), which a registration of that line without a handler
  overwrites (`:513`); with any other pointer than the controller it runs nothing
  (`Handled`).
* `Gpio`: a call is a list of read-modify-writes, `GpioLoad` and `GpioStore` per
  register; a handler runs its whole call between them.
* `BusError`: load, store, check and second read of each call, with errors that
  arrive in between.
* `Caches`: ways of the level 2 cache beside the LIM and the flush of level 1 lines,
  with the trap that skips it.
* `InterruptLines`: the CPU controller with its vector modes, the local and the
  global forwarder, the CLINT and one PLIC source behind one hart; a call is one
  step, `LineTrap` and `LineFault` run what the tables say then.

Assumed: the watchdog's and GPIO's handlers run to their end on the hart of the
thread; a line is disabled while its handler changes and every controller is
initialised once, the CPU controller first; in the run, bus errors and exceptions
come in direct mode only (`FaultsVectored = FALSE`, see below). 64-bit counters do
not wrap. The shift of `pmp.c` on 64-bit harts, undefined in C, does what the
RISC-V instruction does. `metal_pmp_init` is not called while region 0 is NAPOT,
nor is an address of all ones set as NAPOT: for both the search for the
granularity does not end.

## The runs

| run | instance | what it shows |
|---|---|---|
| `spin_lock` | 3 harts, 1 with a handler, `MaxBackoff = 3`, with and without atomics, every table and memory | the lock is a mutex, implements `Mutex` and is never lost; a free lock is taken and a release is seen |
| `machine_timer` | 1 hart with its handler, words of 3 values, period 2, any start value of `mtimecmp` | reads are snapshots, the compare value is whole, no spurious interrupt; a due interrupt is served and the handler returns |
| `hart_start` | 3 harts, each as boot hart, scrubbed memory, 2 constructors, 2 destructors, 2 software interrupts of main | memory is ready behind the barrier, interrupt lines are off in `main`, the destructors run before the shutdown, nobody leaves early, with boot hart 0 an interrupt of main stays, and without interrupts everybody starts |
| `hart_start_ipi` | 3 harts, 1 software interrupt | *violated*: a hart whose bit was cleared may wait for ever |
| `local_interrupts` | 2 harts, CPU controllers initialised first | every trap finds its handler with its data and the vector set, registered handlers stay, the timer of each hart works |
| `timer_unusable` | 2 harts, any order | *violated*: a hart initialised after the CLINT has no timer |
| `vector_unset` | 2 harts, any order | *violated*: a hart initialised after the PLIC stays on `early_trap_vector` |
| `plic` | 2 harts, 2 sources, one with a handler and one with the default, an affinity mask | one server per source, completions take effect, what is claimed has a handler, calls take effect in all contexts asked for and no other bit changes, interrupts are served |
| `plic_context` | the same with the table of `qemu-sifive_e_rv64x2` | *violated*: hart 1 claims nothing and is interrupted for ever |
| `clocked` | UART, SPI, I2C and PWM alone and UART with SPI, on a clock of two rates | a rate change never cuts a byte (of the UART: while the wait fits in a `long`), reaches every driver and (UART, SPI) ends; SPI answers match their bytes until a transfer gives up, and each that does leaves one byte behind; an I2C command waits for the one before; a PWM is quiet over a change |
| `wdog_rate` | the watchdog of `devices` | *violated*: between the two writes of `set_rate` the timer is not scaled and expires |
| `devices` | each unit on its own | see the properties below |

The properties of `devices`: `WdogNotEarly` (no expiry before the time-out asked for,
in ticks of the scale asked for, or during a call the one before it; outside the
two writes of `set_rate`, and until a handler has made a write be in vain),
`RtcNeverLate`, `PllSound` (the core runs from a stable PLL at the
rate closest to the one asked for), `PmpOthersKept`, `HpmReadsTrue`, `TimesExact`,
`ClicLands`, `GpioThreadKept`, `BeuQuiet`, `LimKept` and `LandsAsAsked` (a trap runs
the handler last registered for its line, with its data, in both modes).

### Why these bounds are enough

*Lock.* Two contexts suffice to break exclusion; the third hart and the handler
add a waiter behind a waiter and a holder that is preempted. `MaxBackoff = 3` is
not a power of two, so that the test before the doubling matters.
*Timer.* Three values are the fewest with a word that is neither the lowest nor
the highest; a carry, a rollover between two reads and a write of the highest
value all occur. One hart: harts share only the counter, which moves anyhow.
*Start-up.* Three harts give hart 0 two bits to loop over, so that it can be
between them when something happens.
*Local interrupts.* Two harts are enough for one to initialise the other.
*PLIC.* Two harts compete for a source; two sources of different priority
compete at a hart and share a word. `Levels = {1}` gives a threshold and
priorities on both sides of it (register sets 2 or 1, init sets 0).

*Drivers on a clock.* One rate change with up to two clients shows every order of
a list; two transfers of up to three frames with one time-out between them show a
late byte; three I2C calls suffice for init, a call that gives up and the next.
FIFOs of two and one entries fill up and run empty. `LongMax = 31` lies
between the two rates (a symbol has one bit), so that the wait of the UART wraps at
one of them: alone the UART starts at either rate, with others at the lower one.
*Devices.* The registers are scaled down to where their ends are reached: RTC words
of four values and compare values of up to three shifts, counter halves of two
values, so that they carry during a read, five PMP regions in two registers, four
ways and a LIM of whole and partial ways. The PLL table is the real one. Its
`SettleTicks = 5` is the longest settling the wait of the driver covers.

Counters with a bound: `MaxIpi` in `HartStart` (two software interrupts set a bit
again after it was cleared), `MaxChanges`, `MaxSetups`, `MaxTransfers`,
`MaxTimeouts`, `MaxCalls` and `MaxBytes` of the drivers on a clock, and in `Devices`
the calls of each unit (`WdogMaxCalls` to `LineMaxCalls`), the counters of watchdog
and RTC, counted events, edges and errors. Each cuts off repetition only.

### Deadlock

It is checked for the timer and the start-up. It is off in `spin_lock`
(a handler may wait for the thread it has interrupted), in the runs of `LocalInterrupts` (a hart that meets a `NULL` handler
or a shutdown stops), in those of `Plic` (the default handler stops a hart), in
`clocked` (the application may stop, and an append to a list without an end never
returns), in `wdog_rate` and in `devices` (the bounds end them).

### Fairness

A hart executes: a call in progress goes on and an enabled interrupt that stays
pending is taken (`WF` of the steps of each context). Nothing obliges the
application to call anything, the counter to advance or a device to interrupt.
For the lock this gives progress of the system, not of a given waiter: the
exchange loop has no queue, and `FreeLockIsTaken` claims no more.
`WaiterSeesRelease` excludes the one case where the lock is lost for good, a
handler that waits for its own thread.
In `clocked` the running call goes on, the transmitter of the UART is clocked and
the SPI controller shifts; nobody has to send anything to the UART.

## The proofs

The modules `*Proofs` prove, for all constants that satisfy the named assumptions
of the modules they extend, the properties listed in `PROJECT.json`: every
invariant and every action property of the passing runs, and the refinement of
`Mutex`.

| proofs | about | besides the named assumptions, assumed of the constants |
|---|---|---|
| `SpinLockProofs` | `SpinLock`, `Mutex` | |
| `MachineTimerProofs` | `MachineTimer` | |
| `HartStartProofs` | `HartStart` | |
| `LocalInterruptsProofs` | `LocalInterrupts` | `IntcsFirst`, for all but the types |
| `PlicProofs` | `Plic` | no mask names context 0, for `CallTakesEffectHolds`; no mask has gaps, for `EnableOnlyAskedHolds` |
| `InterruptLinesProofs` | `InterruptLines` | `~FaultsVectored` |
| `ClockedDriversProofs` | `Clock`, `Uart`, `Spi`, `I2c`, `Pwm`, `ClockedDrivers` | |
| `DevicesProofs` | the other units of `Devices` | see each unit below |

Each follows one argument: an inductive invariant holds initially, every action
keeps it (one step per action or group of actions that touch the same parts), and
it implies the property. The type invariants are parts of the inductive ones;
those proved as theorems of their own are in no run, and neither is
`BackoffBounded`.

* *Lock.* `MutualExclusion` needs `FreeWordFree` (a word of 0 means no holder), and
  `NotLeaked` is its converse: a failed exchange writes 1 over a 1 that is a
  holder's. Both need that nobody is under way before the init call, which stores 0.
  `LockRefinesMutex` shows that a successful `Swap` is an acquisition, `Give` a
  release and everything else a stutter. `BackoffBounded` holds because the value
  is tested before it is doubled.
* *Timer.* `ReadsAreSnapshots`: the high word read first is at most that of the
  snapshot, which is at most the one read last, so that equality of the two
  means that all three are equal (`ReaderInv`). `CompareWhole`: while a
  `mtimecmp_set` is under way the high word is the largest value, the interrupt is
  off and the handler cannot start (`WriterInv`); this is where the assumption on
  the range of `mtime` is used.
* *Start-up.* Until hart 0 has seen everyone, a bit is set exactly while its hart
  waits (`BitsMeanWaiting`); hart 0 passes only harts that have arrived
  (`SeenArrived`); the boot hart arrives only with memory ready (`BootOrder`).
  So `MemoryReady` follows from `BarrierHolds` for any boot hart; its last part, that
  the destructors are done at the shutdown, from `FiniOrder`.
* *Local interrupts.* If all CPU controllers come first, each by its own hart, the
  init functions of the CLINT and the PLIC are run by one hart each (`OnceEach`), and
  the entries they have passed hold what they registered (`ClintProgress`,
  `PlicProgress`, over the position of the loop). What the application registers
  later is on lines that are off, so nobody sees the handler without its data
  (`EntriesKept`), and a trap on its way still finds the data it has read
  (`TrapsTrue`). Without the hypothesis the properties are false: the runs
  `timer_unusable` and `vector_unset` are the counterexamples. The hypothesis
  is an order an application can keep to: every hart initialises its own CPU
  controller, and only then one of them the CLINT and the PLIC.
* *PLIC.* A source in service is not pending (`NotPendingTwice`), is served by one
  hart and still enabled where it was claimed (`ServedEnabled`); this needs that
  what a call has read is still in the register when it writes (`CallFresh`),
  that calls exclude each other (`CallsApart`) and that a source is disabled only
  while quiet. For the affinity calls, behind the context a call is at everything is
  as asked, and nothing asked for is ahead of the last (`Progress`). The two
  hypotheses are two traits of the loop at `riscv_plic0.c:235`: it skips context 0
  (with a mask that holds 0 TLC finds `CallTakesEffect` violated), and its iterator (`interrupt.h`) stops at the highest bit but
  visits the clear bits below it too, so that a mask with a gap changes a context it
  does not name.
* *Interrupt lines.* `LandsAsAskedHolds` follows from what the table holds for every
  line the application has registered (`LineIInv` ties it to `lineAsked`), and
  that no later initialisation touches it, because `init_done` is tested. It
  assumes `~FaultsVectored`.
* *Callback lists.* `Reached` is the set of cells a walk meets: with four drivers it
  is closed under `_next` (`CellsReached`) and least (`ReachedLeast`). A list that ends
  holds every registered driver; appending a cell that is in the list makes it its
  own successor and the list has no end any more (`AppendHolds`, `AppendAgain`). A
  walk under way has left a set of cells behind whose successors are in it or at
  the cursor (`Behind`), all of them quiet before the change and at the new rate
  after it; when it meets the end the set is all there is (`WalkEnds`). So a walk
  that comes back has visited everybody, and one on a broken list never comes to
  `rate' # rate`: `NothingCutHolds`, `PwmQuietHolds` and `DividersFollowHolds` need no
  hypothesis about registering twice. What a driver does between the cells is one
  lemma per driver (`UartEffect` and so on): it keeps the others as they are. The
  UART is quiet after its callback because a symbol has at most `SymbolBits` bits left
  and the wait is long enough for them (`UartOK`): if the product fits in a `long`
  (`LongHolds`), its quotient by the baud rate is at least `SymbolBits` times the
  quotient of rate and baud rate, which is `div + 1` (`FloorTimes`, `LongEnough`). If
  it does not fit the theorem claims nothing for the UART's shift register, and TLC
  finds the byte cut. I2C tests its controller, and `I2cOK` gives
  `CommandsQueueUpHolds`.
* *SPI answers.* Bytes in both FIFOs and on the line are as many as transfers have
  timed out, and one more while an answer is awaited (`Slip`). Without a time-out that
  one is the byte just sent (`Awaiting`), which gives `AnswersMatchHolds`. `Slip` breaks
  when as many transfers have timed out as the receive FIFO has entries: it is full
  and the next answer is lost. `SlipCountedHolds` therefore says
  `Spec => [](spi.late < FifoDepth => SlipCounted)`; the run has `MaxTimeouts` below
  `FifoDepth`, where the two are the same.
* *Memory protection.* `PmpOthersKept` is an action property without an invariant:
  on a 32-bit hart the mask has exactly the bits of one region (`SpreadOwn`).
  It assumes `PmpXlen = 32`; with 64 TLC finds it violated.
* *PLL.* `PllStableHolds`: off the PLL nothing can happen; from the last change of the
  configuration to the selection the wait covers the settling, and the lock is seen
  after that. It assumes `SettleTicks <= PLL_LOCK_WAIT_TICKS + 1`, which is what the
  driver waits for at least. `PllSoundHolds` adds the rate (`RateIInv`): the search
  from the end of the table ends at an entry of least distance (`ClosestIsNearest`; that
  there is one is the well-foundedness of the natural numbers), its fields are
  written one by one (`Written`), and the registers then tell the rate the entry
  promises. The last is arithmetic of nested divisions (`GainBehind`,
  `DividedTwice`) on top of the one fact about the 68 entries of the table,
  `TableAgrees`, which has no parameter: TLC evaluates it in the run `devices`, and the
  proof uses it as an assumption.
* *Real-time clock.* What is left after a turn, shifted back by the turns counted, is
  not above what was asked (`LoopOK`), since the loop shifts by at least as much; and
  after k turns it is below `RtcWord * Room(k)`, so that the loop makes at most eight
  turns and the scale fits in its field. This is the hypothesis on `RtcCompares`,
  less than `RtcWord * 2^32`: the argument of `set_compare` has 64 bits and the
  register of the code 32.
* *Counters.* As for the timer: the counter only grows, so equal high halves
  before and after the low half mean that they were equal in between. `TimesExact`
  splits the division into quotient and remainder as the code does.
* *Watchdog.* Between calls the compare register and the scale are those asked for
  (`InForce`); during one, either the call writes neither, or the old ones are in
  force and the write of the new ones is still to come, or the scale is cleared
  and its last write is still to come (`ToWrite`). A write to come is not in vain,
  because only a write or the handler undoes the unlock before it, and what the
  thread has read of the scale is what is set (`Unlocked`). The handler runs at any
  point; where it does undo the unlock, `wdogLost` is set and nothing is claimed
  until the next reset, since then a whole call may be missing.
* *GPIO.* What the thread has read of its own pins is still right when it writes
  (`HeldTrue`), because the handler writes only its own and runs to its end.
* *Bus errors, CLIC, caches.* `BeuQuiet` and `LimKept` are inductive with the types;
  for the CLIC, no interrupt is ready in direct mode (`NoneReady`) and the entry that
  the mode chooses for a ready one is not empty (`ReadyLands`). `LimKeptHolds`
  assumes `WaysAsked \subseteq 1..257`: the low byte of the number less one is written
  (`sifive_ccache0.c:97`), and from 258 on it can enable more ways than there were,
  although the call answers -2. Up to 256 it is the number itself; for 257 it is 0.
* `DevicesHold` puts the units side by side again under all these hypotheses.

Only model-checked:

* All liveness properties (`FreeLockIsTaken`, `WaiterSeesRelease`, `TimerServed`,
  `EveryoneStarts`, `WaitEnds`, `InterruptServed`, `DrainEnds`): the prover has no fairness
  and no `ENABLED`.
* What lies outside the hypotheses above. For most it is false, as the violated
  runs and the list below show.

## What the violations show

1. **Lost start** (`hart_start_ipi`, `synchronize_harts.c:61`). The barrier ends for
   hart 0 when it has *written* the last 0, not when the others have *read* it. If
   main then sends a software interrupt to a hart that has not looked yet, that
   hart reads 1 and waits on.
2. **No timer** (`timer_unusable`, `riscv_clint0.c:73`). The CLINT registers itself
   with the controllers of all harts once. A hart that initialises its
   controller later wipes the entry, and its `mtimecmp_set` returns -1 although
   everything is initialised. `tests/qemu/src/time.c` works around it.
3. **No vector** (`vector_unset`, `riscv_plic0.c:139`). The PLIC initialises the
   controllers of all harts on one hart: `init_done` is set for all, `mtvec` for
   one. The later call on the other hart does nothing.
4. **No context** (`plic_context`, `machine.h:356`). The generated table tests for
   hart 0 twice.
5. **Watchdog scale** (`wdog_rate`, `sifive_wdog0.c:102`). `set_rate` clears the scale
   of the running timer and sets the new one with a second unlocked write. Between
   the two the count is compared unscaled: at scale 3 a watchdog resets the chip
   after an eighth of its time-out. `set_timeout` avoids the like for the compare register, and
   says why in its comment.

Other places where code and documentation disagree, met while modelling; the
modules describe what the code does:

* `metal_lock_init` may fail and the lock work all the same, since it asks a table and
  nobody asks it again; the fault promised in `lock.h:45` is raised by the memory or
  not at all. Without atomics `_metal_trap` is to raise it, but keeps the mode bits
  of `mtvec` instead of its base and jumps to an address below 4 (`trap.S:49`).
* The wait for the last byte of the UART overflows on 32-bit harts from 215 MHz on,
  which the PLL reaches, and is then no wait (`sifive_uart0.c:176`): without the
  condition `SymbolFits` TLC finds `NothingCut` violated.
* Registering the software interrupt without a handler takes the common handler of
  the CLIC from all its interrupts (`riscv_cpu.c:513`).
* The affinity functions of the PLIC skip context 0 and report success for it
  (`riscv_plic0.c:235`).
* I2C registers its callbacks at every `set_baud_rate`, and PWM after every
  `enable`: a cell becomes its own successor and the next rate change never ends
  (`sifive_i2c0.c:137`). `DrainEnds` is therefore stated without these two.
* A byte refused in the writing part of an I2C transfer is forgotten if a reading
  part follows (`sifive_i2c0.c:381`).
* On 64-bit harts the PMP configuration is shifted in 32 bits (`pmp.c:238`), and a
  region one too large is accepted (`pmp.c:122`).
* RTC compare values from 2^33 on are scaled wrongly (`sifive_rtc0.c:60`); the alarm
  is early, never late.
* In vectored mode exceptions shut the machine down whatever was registered
  (`riscv_cpu.c:122`): `FaultsVectored = TRUE` violates `LandsAsAsked`.
* UART watermarks can only grow (`sifive_uart0.c:83`), `set_baud_rate` returns 0
  (`:150`), the threshold of the CLIC is its number of level bits
  (`sifive_clic0.c:679`), a failed counter read returns 1 (`hpm.c:265`), and a level 1
  flush acts on the calling hart (`cache.c:163`).

## The plan

Done, in this order because each runs on top of the one before: lock, timer,
start-up, local interrupts, PLIC; the clock tree with the drivers on it; the
remaining devices and the interrupt lines. Worth doing next:

1. An abstract channel of bytes that `Spi` and `Uart` implement between rate changes.
2. An abstract interrupt dispatcher (a registered line is served by its handler)
   that `LocalInterrupts`, `InterruptLines` and `Plic` implement, as `SpinLock` does
   `Mutex`.
3. `SlipCounted` for a receive FIFO that overflows, which needs the number of lost
   answers as a variable.

## Not modelled

* *Heap* (`sys_sbrk.c`): one comparison, no other actor. A request that does not fit
  moves the break to the end of the heap; listed as a hazard.
* *Atomics*: each function is one instruction.
* *HTIF, simulated UART, test finisher, trace*: output to a simulator that polls one
  word.
* *Privilege change*: writes of CSRs and one `mret`; nothing comes back.
* *L2 prefetcher and FU540 L2*: the way enable of an older chip, as in `Caches`, and
  configuration registers that are only written.
* *Generated headers*: constants of the boards, of which the contexts of the PLIC
  are modelled.
* *Generator scripts, test programs*: run on a host, or are the application.

## Running it

`tlc -config MCPlic.cfg MCPlic` and so on for each line of the table above (the
longest take about a minute and a half); `tlapm SpinLockProofs.tla` and so on for the
proofs. The operators named in comments as mutations are used by no
specification: they are the bugs that the properties were tried against, and
`PROJECT.json` says which breaks which.
