# Verification of the stm32_rtos driver layer

`stm32_rtos` is a bare-metal project for the STM32F446RE (NUCLEO board): register-level drivers, a
board-support package, start-up code and an on-target smoke test. The RTOS kernel it is named for is not
written yet (`rtos/`, `api/` are empty, `app/src/main.c` is an endless loop). What there is to verify is a
layer of C functions over memory-mapped registers whose other half, the hardware, moves on its own: an
oscillator settles late, a requested clock switch completes after the driver gave up, a watchdog counts
down while it is being configured, a byte arrives between two register reads. None of that is reachable
from the host unit tests, which run the drivers over plain memory.

This directory holds TLA+ models of that layer, TLC configurations that check them, and proofs for TLAPS.

## 1. Inventory

### The execution model

One processor, one main context, interrupts. `docs/DESIGN.md` 82-108 assigns every driver function to a
context: clocks, regulator and `iwdgStart()` are configured once from one context; a UART instance has
one owner; `iwdgRefresh()`, `gpioWritePin()` and the EXTI pending functions are single stores and may be
called from anywhere; functions that read, modify and write a shared register need the caller to exclude
others. A function that can fail returns a `DriverStatus_e`; refusals (`INVALID_PARAM`, `BUSY`) come
before the first store. A function that waits polls one flag a bounded number of times (100000), then
reads the flag once more, and that last reading decides.

### Components

| Component | State it keeps | Operations | What is hard | What makes it correct |
|---|---|---|---|---|
| **Driver call** (`driver_status.h`, the wait loops of `rcc.c`, `pwr.c`, `iwdg.c`, `uart.c`) | local counter and status | poll, recheck, return | flag that settles on the last poll | every call ends; OK is never answered without the flag; refusals write nothing |
| **RCC clock tree** (`rcc.c`, `flash.c`) | CR, PLLCFGR, CFGR, flash ACR | enable/disable HSI, HSE, PLL; PLL and prescaler configuration; SYSCLK switch with flash latency | hardware acts after the function has returned; guard and store are apart | flash never outpaced; OK and TIMEOUT say what happened |
| **RCC peripheral clocks, reset flags** (`rcc.c`) | AHB1ENR, APB1ENR, APB2ENR, CSR | enable per peripheral, read and clear reset flags | read-modify-write of shared registers; flags accumulate over resets | no enable is lost, and a clock runs when its enable returns; each reset is attributed once |
| **PWR** (`pwr.c`) | CR.VOS, ODEN, ODSWEN; CSR | voltage scale, over-drive hand-shake | the regulator ignores stores that come at the wrong time | no store ignored; ODSWEN only after ODRDY |
| **Board bring-up** (`bsp.c`) | none of its own | `bspClockInit()`: nine calls, stop at the first failure | stops anywhere with earlier effects in place; hardware moves on | every electrical limit holds throughout; OK means complete |
| **IWDG** (`iwdg.c`) | KR, PR, RLR, SR; LSI-domain copies; counter | start, refresh | two clock domains, updates in flight, refresh from an interrupt, reset in the middle | OK means in effect; no bite before the time promised |
| **WWDG** (`wwdg.c`) | CR, CFR, SR | start, refresh, early wakeup | counter runs before the start; window; refresh from handler and from main | no refresh above the window; no stale early wakeup |
| **UART** (`uart.c`) | BRR, CR1-3, SR, DR | init, deinit, flush, transmit and receive bytes and buffers | two-stage transmitter; overrun between two reads; timeouts with bytes in flight | order and integrity of bytes; OK means idle line; reconfiguration in silence |
| **GPIO** (`gpio.c`) | MODER ... AFR, ODR | pin configuration and its reset values, read, write, toggle | ports share registers between pins and contexts; toggle is a read and a store; order of the stores | no context undoes another's pin; the mode is switched last; a released pin is as at power-on |
| **EXTI, NVIC** (`exti.c`, `nvic.c`) | IMR, RTSR, FTSR, SWIER, PR, SYSCFG; ISER, ICER, ISPR, IPR | line configuration, pending flags, software triggers; enable, pend, prioritise | lines share a vector and their registers; edges during a handler; stores still under way when a handler ends or a function returns | no event lost, none handled twice, none from before a reconfiguration, none after a disable |
| **SysTick** (`systick.c`) | LOAD, VAL, CTRL; tick count in the user | start, stop | reload arithmetic, restart at any count, wrap of the tick | period exact to the clock; waits and rates survive the wrap |
| **Fault capture** (`fault.c`, `Fault_Handler`) | a record in memory | enable, capture and stop | which stack has the frame, and whether the core could write it | the record is that of the fault, and the handler never faults itself |
| **Start-up** (`startup_stm32f446re.s`, linker script) | memory | copy `.data`, clear `.bss`, FPU, call `main` | loop bounds | memory as C expects it |
| **Smoke test** (`tests/target/smoke.c`) | statics, the reset flags | checks each driver on the board, over several resets | place recovered from reset flags | every stage reached once |

Interactions: `rccSysclkSwitch()` calls `flashSetLatency()`; `bspClockInit()` calls RCC, PWR and Flash;
the regulator's stores depend on RCC's PLLON and PWREN; `boardIoInit()` of the smoke test reads
CFGR and PPRE1 to compute the divisor `uartInit()` stores; the watchdogs reset everything; EXTI lines reach
the processor through the NVIC. The hazards of each component are listed with their source line in
`PROJECT.json`.

## 2. The modules

| Module | Models | Role |
|---|---|---|
| `DriverCall` | call convention, bounded wait | the running function's activation record; extended by all driver models |
| `RccClock` | `rcc.c` clock part, `flash.c` latency, clock-tree hardware | detailed model of the core |
| `SafeClock` | - | abstract: a clock that flash can always follow |
| `Pwr` | `pwr.c`, the PWR clock enable, the regulator | extends `RccClock` |
| `BspClockInit` | `bsp.c`, `boardIoInit()`/`actualPclk1Hz()` of the smoke test | composes RCC, PWR and Flash |
| `Iwdg` | `iwdg.c`, the watchdog's two clock domains, reset | on its own: it shares no register |
| `Wwdg` | `wwdg.c`, the free-running counter, the early-wakeup interrupt and its handler | on its own |
| `Uart` | `uart.c`, one USART | on its own |
| `ByteFifo` | - | abstract: a queue of bounded capacity |
| `RegisterCalls` | `gpio.c`, `exti.c`, `nvic.c`, `faultEnable()`, the clock enables of `rcc.c`, the debug freezes of the watchdogs | per function: argument check, status and register accesses in order; no state |
| `SharedRegisters` | those functions called from the main program and from an interrupt | extends `RegisterCalls`; each read-modify-write in two steps |
| `AtomicRegisters` | - | abstract: every access takes effect at once |
| `Interrupts` | EXTI, NVIC, the shared handlers and `checkExti()` of the smoke test | extends `RegisterCalls`; executes the same accesses over the hardware that answers them |
| `SysTick` | `systick.c`, `SysTick_Handler`, `waitMs()` and the blinking | on its own |
| `Faults` | `fault.c`, `Fault_Handler`, exception entry on a fault | no next-state relation of its own |
| `BootChain` | `main()` of the smoke test over its resets, `smokeBoot()`, the reset flags, the watchdogs in the abstract | extends `Faults` |
| `MC...` | - | constants for TLC |
| `ClockProofs` | - | theorems about `RccClock`, its refinement of `SafeClock`, and `BspClockInit` with `Pwr` |
| `IwdgProofs`, `WwdgProofs`, `UartProofs`, `SharedRegistersProofs`, `InterruptsProofs`, `SysTickProofs`, `BootChainProofs` | - | theorems about the module each is named after and what it extends |

### How a function becomes actions

A driver function runs in one context, but registers change under it. Each function is cut exactly at the
register accesses between which a hardware move (or, for the IWDG, an interrupt) can change what happens;
what lies between two cuts is one action. `at` names the place, `fn` the function, `polls`, `status` and
the `want`/`current`/`source`/`left`/`arg...` variables are its locals. A refusal is an action of its own
disjunct (`Answer`): it takes effect at the read its guard depends on. A wait is two places: `Poll` (one turn of the
loop) and `Recheck` (the reading after the loop). `wrote` is history: it lets `RefusalWritesNothing` speak
about a whole call.

*RccClock.* Registers are records of their fields: `on`/`rdy` are CR's ON and RDY bits per source,
`sw`/`sws`, `bus`, `pllcfg`, `latency` the fields of CFGR, PLLCFGR and ACR. `stopping` is the interval in
which an ON bit is already clear and the ready flag still set, which RM0390 gives as some cycles. A PLL
setting is a model value with an input (PLLSRC) and the wait states its output needs; argument checks on M,
N, P collapse to membership in `PllSettings`. The hardware actions are `OscReady`, `OscStopped`,
`PllUnlock` and `SwitchCompletes`, each possible at any time its cause is present, none of them obliged to
happen. `flashSetLatency` may read back a different value (the code's HW_FAULT branch). The `Caller` calls
any function with any argument in any order subject to what the headers demand of it, spelled out above
the action. It may turn a source on again that is still stopping: then the flag it waits for may be the old one, and
the source may run on or stop first. `restarted` is history: it marks such a call until the next one.

*Pwr, BspClockInit.* `WaitCsrFlag` is `pwrWaitCsrFlag()`. `dropped` is history: a store to PWR_CR that the
hardware ignored. `step` is the position in the chain of `if (status == OK)` of `bspClockInit()`; the
sequence `BringUp` is that chain. `Mhz` computes frequencies from the registers, so that the limits are
those of the real 16, 8, 96 and 180 MHz. `console` is the PCLK1 the console's divisor was computed from.

*Iwdg.* PR and RLR each exist twice; PVU and RVU are set from the store until the LSI domain has copied.
`LsiCycle` counts `phase` up to the divider in use and then `counter` down; after 0 comes `bitten` and then
`Reboot`, wherever the program was. A store is taken only if unlocked and not in update. `elapsed` and
`promised` are history, for `NeverBitesEarly`; `restarted` tells the watchdog that was started again apart from the
one that was not.

*Wwdg.* CR, CFR and SR are `wdga`/`t`, `w`/`ewi` and `ewif`; the counter's width is the constant `Middle`
(0x40 on the chip). `wwdgStart()` is three actions, one per store, since a count may end between two of them.
`CountEnds` is possible whenever the clock is on, started or not: it sets EWIF at the middle and resets the
chip past it. The interrupt request is EWI and EWIF; the NVIC latches a rise of it in `pend`, which `TakeInterrupt`
clears on entry, and takes a request still up at the handler's return again. The handler is that of the smoke test: clear, then
refresh. Counts end at any time with one exception: a handler raised by the count that just ended finishes
before the next one ends (`prompt`, `HandlerDue`), since a count lasts 91 us or longer and the handler a few
instructions. A handler that was pending for another reason gets no such promise. The main program
(`Main`) follows the order of wwdg.h: clock, start, then the early wakeup and its interrupt. It refreshes
by itself only inside the window and without the early wakeup on. `HandsOver` says whether it may turn the
early wakeup on after refreshes of its own, with the EWIF they left set. A start value at or next to
the middle is allowed, and so is a watchdog nobody refreshes: it is reset, and the program begins again.

*Uart.* `tdr` and `shift` are the two stages, `tc` is latched as in the chip (cleared by an SR read followed
by a DR write, hence `srRead`). Bytes are numbers in the order of writing or arrival, so order, loss and
repetition are visible. `ReadSr` and `ReadDr` are apart, because a byte can arrive between them; `sr` is the error
flags the first one saw, and the second clears no others. The
caller obeys the documented ownership: it reconfigures only when what it wrote has been waited for with TC.

*RegisterCalls.* A function is a record of its status and its accesses. An access names a register and the
fields it gives a value; its kind says how: `rmw` (load, later store of the whole word), `put` (a store the
hardware applies to the named fields alone: BSRR, ISER, ICER, ISPR, ICPR, a byte of IP, PR), `flip` (a toggle: load of one bit,
store to BSRR), `readBack` and `barrier`. A register is a function from its fields (pins, lines, interrupts,
named bits) to values. `After` is what the registers hold after a store; for most it is what was stored, but a 1 stored to
EXTI_PR clears the line's bit there and in SWIER, and a bit that rises in SWIER sets the one in PR if the line is
unmasked. The argument checks are those of the code: the reserved pull, line 19, port H, the
reserved vectors as the masks of `nvicValidateIrq()`, held against the vector table as the headers list it.

*SharedRegisters.* `Begin` enters any call of the context's set, `Load`, `StoreRmw`, `StorePut`, `StoreFlip`
and `WaitForStores` execute its accesses, `held` is the word in a CPU register between a load and its store. The handler
comes between any two accesses of the main program and runs to its end. `Serialised` is the caller's side as
docs/DESIGN.md "Concurrency" words it: the functions listed there as single stores and the pins with a single
owner are free, of all others no two on a common register overlap. One pair that the section leaves free is
kept apart all the same: no pending bit is cleared inside `extiTriggerSoftware()`, unless `OverlapTriggers` says so. `unclocked` holds the enable bits whose peripheral
clock has not started yet.

*Interrupts.* Stores go through a buffer of one entry; loads, barriers and the next store wait for it, the end
of a handler and the return of a function do not. `Edge` sets pending bits, `PrStore`, `SwierStore`,
`MaskOrEdgeStore` and `NvicStore` are the arrivals of the stores with what the hardware makes of them, `Latch` is the NVIC's
reaction to a request that rises. A handler is `Take`, `CheckPending`, the accesses of
`extiClearPending()`, `Count`, `Return`. `Configure` is the sequence exti.h asks for (mask, configure, clear,
unmask); `Unmask` is `extiEnableInterrupt()` by itself. `owed` and `cause` are history: events set and not yet counted, and what
set a pending bit. So is `overlooked`: the lines whose SWIER bit was set when such a bare unmasking reached IMR, until they are cleared.

*SysTick.* `Clock` is one core clock: the counter, its reload, the pending exception. `systickInit()` is four
stores, each an action. `waitMs()` and the blinking are loops whose turns come at any time, at most `MaxLate`
ticks apart. `waited`, `since`, `period` and `due` are history: time without the wrap.

*Faults, BootChain.* `FaultHits` is the exception entry: the stack in use, a stacking that may fail, a class
that may be disabled or out-prioritised and so escalates. `faultCapture` reads the frame the way the code does; a
read of a frame that is not there is `FaultsAgain`, which correct code never takes. `at` is the place in
`main()`; `Press` (the button, or a supply that fails), `Starve`, `Violate`, `Bites` and `SpinBites` reset the chip, which keeps only
the flags. A provocation may also come back without a reset (`NothingFired`), which is a failed check. Time is
abstract except in the hold-off, where `RefreshInterval` and `Timeouts` are computed from the clock. `cause`,
`provoker` and `before` are history: whose reset it was, and how and where in the chain the boot stood that it ended.

## 3. The runs

Run names refer to `PROJECT.json`.

| Run | Question | Bounds |
|---|---|---|
| `rcc_clock` | Does any order of clock calls, over hardware that may answer at any time or never, keep flash safe and the statuses true, sources turned on again while they stop included? Is it an implementation of `SafeClock`? | 2 PLL settings (reset value on HSI, faster on HSE), latencies 0-2 and one out of range, poll budget 1 |
| `rcc_retuned` | *(violation)* does it stay so if a caller retunes a PLL that a timed-out switch still requests? | same |
| `bsp_clock_init` | Are regulator, bus and flash limits met throughout a bring-up that fails anywhere, is called twice, and is followed by the console? | the chip's values, 2 calls, poll budget 2 |
| `iwdg` | Is OK of `iwdgStart()` true over restarts, timed-out updates and resets in the middle? Does a watchdog started once, as DESIGN.md asks, and refreshed from the same context never bite early? | 2 prescalers, reload 0-3, restarts |
| `wwdg` | With a counter that runs before the start, is every refresh, from the main program or from the handler, inside the window? Does a handler in charge hold the watchdog off for good? | a counter of 0-7 with its middle at 4, every window and start value and one out of range on each side |
| `uart` | Configuration, transmission and reception: order, idle line, timeouts, divisors, overrun and damaged frames at any point | buffers up to 2 bytes, 3 bytes arriving, 5 rates (divisors 16 and 65535, one below, one above, one without a rate), poll budget 1 |
| `shared_registers` | Is what docs/DESIGN.md asks of callers, the pair of `exti_retrigger` apart, enough for every call to take effect at once, whichever read-modify-write it comes into? Do calls leave what their headers promise? | 29 calls of the main program, 21 of the interrupt, 3 calls in all, two ports, debug pins, two EXTI lines |
| `interrupts` | Is every event counted once, none stale, none behind a disable? Is every line served? | lines 5 and 13 with their two vectors, any number of edges, 2 calls of the main program |
| `exti_retrigger` | *(violation)* does a software trigger raise its own line only, when a handler clears a pending line during it? | same |
| `systick` | Is the period exact through restarts? Do waits and the blinking survive the wrap? | counter 0-7, tick modulo 16, 8 requests (5 refused), waits of 0, 1, 5 ticks, turns up to 3 ticks late |
| `boot_chain` | Does each boot find its place over resets at any point? Is none skipped? Is a fault recorded? Does the chain end? | 2 presses, both builds, both stacks |
| `smoke_chain` | *(violation)* does only a boot whose checks passed lead to the next? | no presses, main stack |

**Why the bounds suffice.** The poll budget only bounds how often a wait looks; whether the flag comes
before, at the last poll, between the last poll and the recheck, or never, is all there with a budget of 1,
and with 0 the loop's body is never entered but the recheck is. Two PLL settings are enough for a retune to
raise or lower the need; two prescalers and reload values of 0 to 3 let a fast prescaler with a long reload
tie with a slow one with a short reload. A counter of eight values has all
the places the watchdog tells apart: below, at and above the middle, inside and above the window, the top; the proofs below hold
for every width. Two bytes fill the transmitter's two places, and a third
comes with the next call; three arriving bytes let one be held, one be lost, and one follow the loss. Two calls of
`bspClockInit()` are the first and any later one: the second changes nothing it has not changed.
The rates of `uart` lie on the two bounds of BRR and one step past each of them.
In `shared_registers` three calls let two follow one another inside, before or after a third. Pairs of the call sets meet in
AHB1ENR and APB1ENR, the configuration registers and ODR of a port, SHPR, IP, ISER, ISPR, SYSCFG, the five EXTI registers and the
watchdogs' freeze bits; APB2ENR, SHCSR and CCR have one function each that the program could call. A pair
that the discipline keeps apart is seen one after the other, in either order. Two lines with a vector each show both what lines share (the registers)
and what vectors do not; two calls of the main program are enough for a trigger, a mask or a disable after a reconfiguration, from both
a fresh and a configured start. In `systick` the tick wraps after 16, well within a wait or a blink after another, and the counter
has periods that divide it and that do not. `SMOKE_FAULT` may differ from boot to boot in `boot_chain`, which is more than any build does.
`LsiCycle` and `PrTaken`/`RlrTaken` are unordered, so a run covers every ratio of bus clock to LSI clock.

**Deadlock.** It is checked in the `rcc_*`, `iwdg`, `wwdg`, `uart` and `systick` runs. `bsp_clock_init` really ends, with the
calls used up and the hardware settled; so do `shared_registers` and the `boot_chain` runs, whose program blinks, hangs
or spins in its fault at the end; with its calls used up `interrupts` may have no edge selected and nothing left to do.

**Fairness.** Liveness assumes weak fairness of the processor's own steps: it executes the function it
has entered (`CallsReturn`), the handlers it has taken and the stores it has issued
(`EveryLineServed`), and its loops (`WaitEnds`, `ChainEnds`). Of the hardware only what has no choice is fair: the clock of a timer
that runs, and watchdogs nobody refreshes. Nothing is assumed of oscillators, edges, resets or callers;
the waits end because they are bounded. Line 13 is served if line 5 comes to rest: its vector is the lower in priority order.

### What the properties say

*Clock tree.* `FlashWaitStates`: never too few wait states for the running clock. `SwitchOkTruth`,
`OscillatorTruth`: what OK and TIMEOUT tell the caller is so, at the return and until the next call. Each of the
latter's two parts has one exception, which is what the code does and listed below: OK of a source turned on
while it was stopping, and TIMEOUT of a disable whose store the hardware ignored. `SwitchFailureKeepsWaits`: a switch that gave up,
whether at the ready flag or at the wait, leaves the larger of the two latencies, as the note in rcc.h says; one whose
latency did not read back leaves the old one. `RefusalWritesNothing`: a refused call has stored nothing.
`ImplementsSafeClock`: each step is one of the abstract clock's; in particular a source is requested only when flash can
follow it already, however late the multiplexer takes it. `CallsReturn`: the bounded waits end.
*Bring-up.* `RegulatorFollows`, `BusLimits`: no electrical limit is exceeded at any moment. `RegulatorHandshake`: the
regulator is spoken to in the order it insists on. `BringUpTruth`: OK means complete, and a second call says BUSY.
`ConsoleBaudSettled`.
*IWDG.* `StartOkInEffect`, `StartedOnceNeverBitesEarly`.
*WWDG.* `WindowRespected`: no refresh comes above the window, whatever EWIF held when the watchdog was
started; this is what the last store of `wwdgStart()` is for. `HandlerHoldsOff`: once EWI and the interrupt
are on before the middle is reached, no wakeup is missed and none is served twice.
`WindowInPlace`: the counter never runs started with a window other than the one asked for (the timer base is not modelled).
*UART.* `OkMeansIdle`, `ReconfiguresInSilence`, `EnabledMeansConfigured`, `ReceivedInOrder`, `ImplementsFifo`.
*Shared registers.* `ImplementsAtomic`: under DESIGN.md's rules, and with triggers serialised against clears, the registers of
`SharedRegisters` go through the states of `AtomicRegisters`, so no update is lost or undone and no line is raised twice. `EnableReturnsRunning`: a clock enable returns with the clock running.
`ModeSwitchedLast`. `DeinitRestores`: all five fields of a released pin are back at their reset values, from any configuration.
*Interrupts.* `Accounting`: every setting of a pending bit is counted exactly once unless the main program cleared it.
`NoStaleEvent`: after the documented reconfiguration no event of the old configuration is handled.
`NotTakenAfterDisable` (the barrier), `TriggerNotSwallowed`: no SWIER bit is stuck that would swallow a later trigger, but on a line
triggered while masked and unmasked without clearing it; `EveryLineServed`.
*SysTick.* `PeriodExact`, `WaitExact`, `WaitEnds`, `BlinkKeepsRate`.
*Boots and faults.* `PlaceFromLastReset`: a boot knows whose reset it follows; `NoBootSkipped`: the boot
that ended in it was the one before in the chain, so the third report stands for all three; `FaultRecorded`: the record shows the registers of the faulting code or none; `ChainEnds`.

Every property of a passing run has a mutant in `PROJECT.json`: a plausible bug, put in place of a definition,
under which the property fails. The mutated definitions stand in the modules, marked "Mutant", next to the definition
they replace.

### Findings

Places where the code and its own documentation disagree, each with a run that shows it:

1. `rcc_retuned` - after `rccSysclkSwitch()` to the PLL timed out, CFGR.SW still requests the PLL.
   `rccPllDisable()` and `rccPllConfig()` look at SWS and PLLON only, so the PLL can be retuned and enabled again,
   and the pending switch then runs flash with too few wait states (rcc.h 249-251 rules that out).
2. `exti_retrigger` - SWIER bits stay set until their line's pending bit is cleared. A handler that clears another
   triggered line between the load and the store of `extiTriggerSoftware()` clears that line's SWIER bit too, and the store
   writes the stale 1 back: 0 to 1, so the line is raised again. exti.c 184 calls setting a set bit
   harmless, exti.h 125-126 says `extiClearPending()` needs no serialising. The passing runs `interrupts` and
   `shared_registers` have `OverlapTriggers` FALSE; with TRUE, `ImplementsAtomic` fails for this pair and no other.
3. `smoke_chain` - after a failed `bspClockInit()` SYSCLK is 16 MHz while the tick was set up for 180 MHz: a tick lasts 11.25
   ms, the hold-off of `checkIwdg()` refreshes every 225 ms, the watchdog bites after 69 to 190 ms, and the
   next boot takes the reset for the one the chain waits for (smoke.c 23 and 680 say a failed boot leads nowhere). The
   property fails in a second way, which the run does not reach first: built with `SMOKE_FAULT` a boot that failed a check divides by
   zero after its verdict (smoke.c 697-708), under the IWDG that `checkIwdg()` started, whose reset the next boot takes for the
   chain's. `SMOKE_FAULT = {1}` with `ClockFails = FALSE` shows it.

Smaller disagreements met while modelling. The passing runs are under the discipline that avoids them;
each can be seen by giving the named constant its other value, or is covered by the property named:

- A pending switch that completes between a disable's guard and its store makes the hardware ignore the
  store: TIMEOUT with the ON bit set (rcc.h 156, 178, 221 say it is clear). `DisableTruth`, a part of `OscillatorTruth`,
  allows just this: on TIMEOUT the ON bit is clear, or both SW and SWS name the source.
- A disable that timed out leaves the ready flag set for some more cycles (rcc.h 178). The enable that retries (rcc.h 167:
  "call rccHseDisable() first") finds that flag set and returns OK at once; then the source stops, and is
  not running although nothing else was called. `EnableOkMeansRunning` has `restarted` for this and nothing else.
- After a bring-up that timed out at the switch, SYSCLK may become the PLL (bsp.h 88-90 says it is still HSI).
  `ConsoleBaudSettled` excludes this case: the console's divisor, computed from SWS at one moment, is then wrong too.
- A refresh from an interrupt inside `iwdgStart()` (`IsrRefreshes`) locks PR and RLR again; the stores
  are ignored and the function returns OK with old values (iwdg.h 58 allows a refresh from an interrupt).
- On a running watchdog a faster prescaler takes effect while the counter holds what is left of the
  old timeout (iwdg.h 39, 49); hence the `~restarted` of `StartedOnceNeverBitesEarly`.
- `wwdgRefresh()` leaves EWIF set and `wwdgEnableEarlyWakeup()` does not clear it, so a main program that
  refreshed by itself (`HandsOver`) gets the interrupt at once, with the counter anywhere (wwdg.h 79: "when the counter
  reaches 0x40"). With a window below the top, the handler's refresh then resets the chip.
- `uart.c` compares the *rounded* quotient with 16, so rates up to pclk/15.5 pass where uart.h 61-62 names pclk/16.
- A line triggered while masked has its SWIER bit set and no pending bit (exti.h 100-102). `extiEnableInterrupt()` on its own, as the
  example at exti.h 12-15 has it, leaves SWIER set; every later `extiTriggerSoftware()` of the line is then no 0-to-1
  write and does nothing, although exti.h 98 says "Raise" and exti.c 184 "harmless". `TriggerNotSwallowed` excludes the lines so
  unmasked (`overlooked`) until they are cleared, and no others.
- smoke.c 480 reconfigures line 5 while it is unmasked, against exti.h 67.
- An edge between `extiIsPending()` and the arrival of the clearing store merges with the event being handled: the
  flag has one bit. Line 13 waits as long as line 5 keeps coming.
- A fault in a boot with the IWDG running is followed by a watchdog reset, which loses `faultRecord` and which the next boot
  takes for the chain's. `OnlyCleanBootsLeadOn` grants it where nobody provoked the fault.
- `gpioDeinitToReset()` restores MODER first and AFR last, the reverse of `gpioInit()`: a debug pin is for some
  cycles an alternate function of the old number.

## 4. What is proved

All theorems hold for every value of the constants that the named assumptions of the modules admit: any
poll budget, any set of PLL settings with any wait states, any latency and prescaler arguments, any table of
LSI dividers, any counter width and tick modulus, any buffers, any number of calls of any functions of
`RegisterCalls` with any arguments. Every safety property, action property and refinement that a passing run
checks is the statement of one of them.

| Module | Theorem | States | Further assumption |
|---|---|---|---|
| `ClockProofs` | `TypeCorrect` | `Spec => []TypeOK` of `RccClock` | - |
| | `FlashSafe`, `SwitchOk` | `[]FlashWaitStates`, `[]SwitchOkTruth` | `~RetunesRequested` |
| | `Implements` | `Spec => ImplementsSafeClock` | `~RetunesRequested` |
| | `OscillatorAnswers` | `[]OscillatorTruth` | - |
| | `RefusalsWriteNothing`, `SwitchFailures` | `[]RefusalWritesNothing`, `[]SwitchFailureKeepsWaits` | - |
| | `BringUpAnswers` | `BspSpec => []BringUpTruth` | - |
| | `RegulatorKeepsUp`, `BusesInRange`, `HandshakeKept` | `[]RegulatorFollows`, `[]BusLimits`, `[]RegulatorHandshake` | - |
| | `ConsoleSettled` | `[]ConsoleBaudSettled` | - |
| `IwdgProofs` | `TypeCorrect` | `Spec => []TypeOK` | - |
| | `OkIsInEffect` | `[]StartOkInEffect` | `~IsrRefreshes` |
| | `NoEarlyBite` | `[]StartedOnceNeverBitesEarly` | `~IsrRefreshes` |
| `WwdgProofs` | `WwdgTypeCorrect` | `Spec => []TypeOK` | - |
| | `InsideTheWindow`, `HoldsOff`, `WindowFirst` | `[]WindowRespected`, `[]HandlerHoldsOff`, `[]WindowInPlace` | `~HandsOver` |
| `UartProofs` | `UartTypeCorrect` | `Spec => []TypeOK` | - |
| | `OkIsIdle`, `EnabledIsConfigured`, `TakenInOrder` | `[]OkMeansIdle`, `[]EnabledMeansConfigured`, `[]ReceivedInOrder` | - |
| | `SilentReconfiguration` | `ReconfiguresInSilence` | - |
| | `TransmitterIsFifo` | `Spec => ImplementsFifo` | - |
| `SharedRegistersProofs` | `SharedRegistersInvariant`, `CallsInOrder` | the inductive invariants | - |
| | `ImplementsAtomicRegisters` | `Spec => ImplementsAtomic` | `~OverlapTriggers` |
| | `ReturnsRunning`, `SwitchedLast`, `BackToReset` | `EnableReturnsRunning`, `ModeSwitchedLast`, `DeinitRestores` | - |
| `InterruptsProofs` | `Invariance`, `TypeCorrect` | `[]IInv`, `[]TypeOK` | - |
| | `EveryEventCounted`, `TriggersWork` | `[]Accounting`, `[]TriggerNotSwallowed` | - |
| | `OnlySelectedEdges`, `DisabledStaysOff` | `NoStaleEvent`, `NotTakenAfterDisable` | - |
| `SysTickProofs` | `Invariance`, `TypeCorrect` | `[]IInv`, `[]TypeOK` | - |
| | `BlinkingKeepsRate`, `PeriodIsExact`, `WaitsAreExact` | `[]BlinkKeepsRate`, `PeriodExact`, `WaitExact` | - |
| `BootChainProofs` | `Invariance`, `TypeCorrect` | `[]IInv`, `[]TypeOK` | - |
| | `PlaceIsRight`, `NoneSkipped`, `FaultsRecorded` | `[]PlaceFromLastReset`, `[]NoBootSkipped`, `[]FaultRecorded` | - |

The four further assumptions are on the caller, and each marks a disagreement of section 3.
`~RetunesRequested` is the caller's side of finding 1: it does not retune a PLL that CFGR.SW requests.
Without it `FlashWaitStates` is false (`rcc_retuned`), so the assumption cannot be dropped. `~HandsOver` is the
caller's side of the stale early wakeup, `~IsrRefreshes` that of a refresh inside `iwdgStart()`, and `~OverlapTriggers`
that of finding 2: no pending bit is cleared inside `extiTriggerSoftware()`. Each is what the passing runs assume too, and without
it the property is false. The theorems about the interrupts do not need `~OverlapTriggers`: a stale SWIER bit raises
its line once more, but loses, doubles or misattributes no event.

Most assumptions of the modules only give constants their types. Those that say more: `SysTickAssumption` keeps a wait, with the
lateness of a turn, below the modulus of the tick, and a blink below half of it. `CallsAssumption` of `SharedRegisters` is
the caller's side of a toggle: its pin has one owner. `OscAssumption` has the chip start on HSI without
wait states. The bring-up is proved for the frequencies of the chip, which `BspClockInit` computes from the registers; of the
PLL settings `BspAssumption` asks only that its own is among them, with the input it names.

**The argument for the clock tree.** `FlashWaitStates` is not inductive: it says nothing of a switch that has been requested
and not taken, nor of a function halfway through. The inductive invariant `IInv` of `ClockProofs` adds:

- `PlaceInv`: the switch's own places belong to the switch, the clearing store to a disable;
- `OnInv`: a ready source is on or on its way down, and the PLL that feeds SYSCLK is on - so `rccPllConfig()`'s
  look at PLLON protects the clock in use, although it never looks at SWS;
- `WaitsInv`: `latency` suffices for the source in use *and* for the one requested - the heart of the matter, since the
  hardware moves from one to the other at a time of its own;
- `SwitchInv`: what a running `rccSysclkSwitch()` has established at each place: its latency argument suits the
  source, the latency in effect is the larger of the old and the new one once the raise is past, from the
  request on `sw = source`, and at the lowering `sws = source` too, which is what makes lowering safe;
- `SwitchOkTruth` itself, which depends on `SwitchInv` at the return.

One lemma per function and hardware action shows that it is kept; `Implements` maps each action to a step
of `SafeClock` or a stutter, using `IInv` for the guards of `Request`, `Lower` and `Retune`.

**The argument for the oscillators' answers.** `OscInv` does without any assumption on the caller, since flash
has no part in it. `SourceInv` is about the tree: a ready source is on or on its way down, a PLL that is on has its input running, and the clock in use runs.
`EnableInv` says that the source a running enable waits for is on, and not stopping unless the call was marked `restarted`. `DisableInv` carries the hard case:
a disable whose guard held can find SYSCLK on its source at the store, because a pending switch completed in between. Then
nothing is pending any more, so SYSCLK stays there (`Held`), the store stays ignored, and TIMEOUT is what is answered; this is why OK
of a disable is true without exception. `RefusalsWriteNothing` needs to know at which two places a call that has begun
can still be refused and that nothing is stored before them (`RunInv`). `SwitchFailures` needs what the latency is at each place of
the switch: from the raise to the wait it is the larger of the two, so that whichever exit is taken finds it there, and at
the lowering it is the one found at the call, as only a switch that lowers, or keeps, the latency gets there.

**The argument for the bring-up.** The caller is `bspClockInit()`, so its own order of calls is the invariant.
`BringUpInv` consists of `RegistersInv` (what the registers can be at all under this caller), `CallsInv` (only the
first bring-up reaches a driver's second call; a later one is refused with HSE on), `FirstInv` (what each call that has
returned OK leaves to the ones after it: HSE running, then the PLL's configuration, then the PLL, the scale, the over-drive, the
prescalers, the switch), `PlacesInv` (the places inside the drivers), `ResultInv` and `ConsoleInv`. The limits
follow from `RegistersInv` alone: once `sw` requests the PLL, the scale and the over-drive have been reached and the prescalers are in
place. So they hold however late the multiplexer follows, and also after a switch that timed out.

**The argument for the IWDG.** `StartOkInEffect` follows from `StartInv`: at each place of `iwdgStart()` what has been
waited for. PVU and RVU are clear when the new values are stored, so the stores are taken; from then on PR and RLR
hold the arguments, and the LSI domain does too or an update is on its way (`PrSettled`, `RlrSettled`); at the last refresh
no update is. A refresh by an interrupt would break `unlocked`, hence the assumption.
`StartedOnceNeverBitesEarly` relates the time since the last refresh to counts that are taken at a divider that
changes in between. `BiteInv` bounds it: `Covered` says that what has passed and what is left, counted at the *faster* of the divider in
use and the one asked for (`Pace`), reaches what is promised. The faster one counts because the new divider may take effect
before any count; `elapsed` is zero as long as nothing runs (`Untouched`), and at a refresh `PromiseKnown` says which promise is made.

**The argument for the window watchdog.** `WindowRespected` and `HandlerHoldsOff` are about the moment of the
reset; what rules it out is spread over the counter, the flag, the NVIC and the places of two programs.
The inductive invariant `IInv` of `WwdgProofs` is `TypeOK`, the two properties, `ConfigInv` (from
`wwdgStart()`'s first store on, the window is the argument's) and, as long as nothing resets the chip, `Watching`:

- `PlaceInv`: at its stores the main program has neither EWI on nor, at a refresh, left the window: the
  counter only falls while it runs;
- `CountInv`: a started counter is at the middle or above;
- `WakeupInv`: EWIF of a started watchdog is set only with the counter at the middle, unless `wwdgStart()` is about to
  clear it or the main program refreshed since; so a pending or running handler finds the counter there, which is inside any window;
- `ServedInv`: when a handler in charge is due, it is due with the count that raised it, so it
  finishes before the next one ends.

**The argument for the UART.** `TxInv` relates the transmitter to the count of bytes written: what is not on the line
is in one of the two registers. TC, and the caller's account of what it has waited for, mean both are empty; at the store of a
byte SR has been read and DR is empty, so that store clears TC. `ConfigInv` says that an instance is configured disabled and silent.
For reception `RxInv` says what the flags mean for the byte held and the one to come: without RXNE or an overrun the next to arrive follows
the last taken, with RXNE and no overrun the one held does; and a byte whose SR was read clean is undamaged and
the right one, even if another arrives between the readings of SR and DR, because an overrun leaves the byte in DR.
`TransmitterIsFifo` maps `shift` and `tdr` to the queue of `ByteFifo`; the case that needs `TxInv` is the byte that goes to the shift register at once.

**The argument for the shared registers.** `SharedRegisters` cuts a read-modify-write in two and `AtomicRegisters` does not,
so the refinement needs that nobody changes the word in between. The inductive invariant `IInv` of `SharedRegistersProofs` has

- `RegInv` and `CallInv`: the registers keep their fields, and what a context has still to do are accesses of its call;
- `NestInv`: a handler is inside a call of the main program only as `Serialised` allows;
- `HeldCurrent`: the word or bit that a context has loaded is what the register still holds, so storing it
  with the call's fields replaced is replacing those fields now.

`HeldCurrent` survives a handler's store for one of two reasons (`NoInterference`). Either the handler's call shares no
register with the call it came into, or it is one that the design notes call safe; then `CallsWellMade`, which goes through every
function of the four drivers, says that its registers (ODR, the NVIC's, PR) are ones that no function reads, modifies and writes.
What a store to PR or SWIER does to the other of the two is left: only `extiTriggerSoftware()` reads, modifies and writes SWIER and only
`extiClearPending()` stores to PR, so `Undisturbed` names the one case in which a loaded word may be stale, and `~OverlapTriggers`
rules it out. The invariant itself, and the theorems about returns and pins, hold without that. A toggle
in the main program has a bit of its own: the caller's side, `CallsAssumption`.

A second invariant, `OrderInv`, is about the calls with several accesses. What is left of a call is the end of it
(`ProgressInv`), and what a pin's configuration has set still stands until its last access (`KeptInv`): the accesses of one
configuration touch a register each, and a handler that comes in between shares none with it, or makes single stores to others. When the mode is switched, or when `gpioDeinit()`
returns, all its fields stand. `EnableReturnsRunning` needs that the read back after the enable bit waits for that clock and for nothing else (`ClockInv`).

**The argument for the interrupts.** The store buffer makes this the longest proof: what a context knows and what the
registers hold are apart while a store is on its way. `ProgramInv` lists what the main program can have left to do;
`BufferInv` says of a store under way which bits it changes, and in what knowledge it was issued (a handler's clearing store,
that its line is pending); `HeldInv` is `HeldCurrent`'s counterpart, for every register but SWIER, which is finding 2.
`ConfigureInv` goes through the documented reconfiguration with each of its stores issued or arrived: the line is masked before its edges
change, and cleared after. `SelectInv` then gives `NoStaleEvent`. `OffInv` is the barrier: a disabled interrupt is off when
`nvicDisableIrq()` has passed it, and only a call of the main program turns it on again. With `HandlerInv` (a handler about to clear its line found it
pending with no store on its way) `Accounting` and `TriggerNotSwallowed` become inductive. For the latter `BufferInv` says of
an unmasking store under way that the line's SWIER bit is clear, as it is behind the clear of a configuration, or that
the line is among the `overlooked` ones, as after a bare `extiEnableInterrupt()` that found it set.

**The argument for SysTick.** `SetUpInv` follows the four stores: the timer is stopped before the reload and the counter change, so
the first period is whole. `CountInv` relates `since` to the counter, which gives `PeriodExact`. `WaitInv` and `BlinkInv` relate the
difference of two ticks modulo `TickModulus`, which is all the code has, to the true times `waited` and `due`; the lemmas on
`Minus` say that the difference is right as long as it stays below the modulus (a wait) or half of it (the comparison of the
blinking by sign), and the assumption on the constants keeps it there.

**The argument for the boot chain.** `FlagsInv`: until a boot clears the flags they show at most the watchdog of the last
reset, since no watchdog runs so early that a second could bite. `PlaceInv` ties the watchdog that runs to the boot that started it, so the
next reset of this kind has a known cause: the IWDG's ends a first boot, at the hold-off, at the starvation or in a fault's spin,
the WWDG's a boot after it. `ProvokeInv` has the places at which a boot provokes a reset, and
with the flags `NoBootSkipped` is what the next boot sees of it. `FaultInv` says what the core has set when the handler is entered: the cause, what a lost frame adds, and an
active handler that matches one of the two; that the code looks at the stacking errors before it touches the frame is what keeps it from faulting again.

**Only model-checked.** The four liveness properties: `CallsReturn`, `EveryLineServed`, `WaitEnds` and `ChainEnds`. They need
fairness and ENABLED, which the installed provers do not reason about. The properties of the violation runs are false. The inductive
invariants stand in the proof modules and have no runs of their own: a theorem says more of them than a run could.

## 5. What is not modelled

- *Preemption among interrupts*: the program gives EXTI lines one priority; priorities are stores in
  `SharedRegisters`, and `Interrupts` keeps the order of equal ones.
- *The copy of `.data`, the FPU and the priority grouping* in `Reset_Handler`: straight code before anything can interleave.
  The cleared `.bss` is the state each boot starts from.
- *`systickInit()` called with exceptions masked*: it leaves a pending SysTick exception pending, so the first tick would come early. The
  program calls it once, from the main program at the lowest priority, which an exception never waits for.
- *The smoke test's console output and arithmetic*: a check is one that passes or fails.
- *PSP*: there are no tasks yet; `Faults` has the process stack because `Fault_Handler` provides for it. The main
  stack is taken to hold: a fault while stacking on it could not be recorded by any handler.
- *The WWDG refreshed by the main program while its handler is on*: the header leaves it to the caller to stay inside the
  window, and no order of the two is right.
- *Register headers* (`device/inc`, `core/inc`): constants and layouts; those the models use are mapped, the rest is not.
- *Host tests, linker scripts and tools*: they are a reference for what the drivers promise, not part of the program.
- *Application*: an endless loop.
- Undocumented hardware behaviour: HSE failing while in use (the clock security system is not used).

## 6. Plan

Done in this order, because a wrong clock breaks all else: `DriverCall`, `RccClock` with `SafeClock` and its
proofs, `Pwr`, `BspClockInit`, `Iwdg`, `Uart` with `ByteFifo`, `Wwdg` with its proofs.

Then `RegisterCalls` with `SharedRegisters`, `AtomicRegisters` and their refinement proof, `Interrupts`, `SysTick`, `Faults` and `BootChain`.

Then the theorems: the clock tree's answers, the bring-up, the IWDG, the UART, the interrupts, SysTick, the boot chain, and
the order of accesses in the shared registers.

What could follow: `SafeClock`'s `WaitStatesSuffice`, carried over to `RccClock` by `Implements`, as a second way to
`FlashSafe`; the answers of the bring-up's own drivers (`pwr.c`) under any caller, as `OscillatorAnswers` has them for
`rcc.c`.
