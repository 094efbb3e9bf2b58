------------------------------ MODULE SysTick ------------------------------
(***************************************************************************)
(* The tick timer: drivers/src/systick.c, the counter it programs, and the *)
(* users of the tick in the smoke test, which compare tick values that     *)
(* wrap.  The counter's width and the modulus of the tick are constants.   *)
(***************************************************************************)
EXTENDS Integers

CONSTANTS
    LoadMax,        \* SYSTICK_LOAD_RELOAD_Msk, 2^24 - 1 on the chip
    TickModulus,    \* 2^32 on the chip
    Requests,       \* pairs <<core_hz, tick_hz>> systickInit() is called with
    Waits,          \* arguments of waitMs()
    RefreshMs,      \* its second argument
    BlinkMs,        \* blink_ms
    MaxLate         \* bound: ticks that pass between two turns of a loop

ASSUME SysTickAssumption ==
    /\ LoadMax \in Nat \ {0} /\ TickModulus \in Nat /\ Requests \subseteq Nat \X Nat
    /\ RefreshMs \in Nat /\ BlinkMs \in Nat /\ MaxLate \in Nat \ {0}
    /\ Waits \subseteq Nat
    /\ \A ms \in Waits : ms + MaxLate < TickModulus
    /\ MaxLate <= BlinkMs /\ 2 * BlinkMs < TickModulus

VARIABLES
    enabled,    \* CTRL: counting, from the processor clock, with the interrupt on
    load, val,  \* LOAD and VAL
    pendst,     \* the SysTick exception is pending
    ticks,      \* the count of SysTick_Handler
    at,         \* place of the main program
    reload,     \* local of systickInit()
    start, want, lastRefresh,   \* locals of waitMs()
    nextToggle                  \* local of main()

\* History, for the properties only.
VARIABLES
    asked,      \* clocks between ticks that the last systickInit() was asked for
    period,     \* and those the timer was last started for
    since,      \* clocks since the timer was started or ticked last
    waited,     \* clocks since waitMs() was entered
    due,        \* ticks until the LED is to change, unwrapped
    late        \* ticks since the running loop took its last turn

registers == <<enabled, load, val>>
locals == <<reload, start, want, lastRefresh, nextToggle>>
history == <<asked, period, since, waited, due, late>>
vars == <<registers, pendst, ticks, at, locals, history>>

Loops == {"wait", "blink"}

Init ==
    /\ enabled = FALSE /\ load = 0 /\ val = 0
    /\ pendst = FALSE
    /\ ticks = 0
    /\ at = "idle"
    /\ reload = 0 /\ start = 0 /\ want = 0 /\ lastRefresh = 0 /\ nextToggle = 0
    /\ asked = 0 /\ period = 0 /\ since = 0 /\ waited = 0 /\ due = 0 /\ late = 0

-----------------------------------------------------------------------------
(* The counter.                                                             *)

Longest == LoadMax + 2
Capped(n, cap) == IF n < cap THEN n ELSE cap
WaitCap == (TickModulus + 1) * (LoadMax + 1)

(* One clock: down to 0, which raises the exception, then back to LOAD.     *)
(* The handler has run before the next tick, and a loop of the main program *)
(* takes a turn at least every MaxLate ticks.                               *)
Clock ==
    LET raise == val = 1
    IN  /\ enabled
        /\ raise => ~pendst /\ (at \in Loops => late < MaxLate)
        /\ val' = IF val = 0 THEN load ELSE val - 1
        /\ pendst' = (pendst \/ raise)
        /\ since' = IF raise THEN 0 ELSE Capped(since + 1, Longest)
        /\ waited' = IF at = "wait" THEN Capped(waited + 1, WaitCap) ELSE waited
        /\ UNCHANGED <<enabled, load, ticks, at, locals, asked, period, due, late>>

SysTick_Handler ==
    /\ pendst
    /\ pendst' = FALSE
    /\ ticks' = (ticks + 1) % TickModulus
    /\ due' = IF at = "blink" THEN due - 1 ELSE due
    /\ late' = IF at \in Loops THEN late + 1 ELSE late
    /\ UNCHANGED <<registers, at, locals, asked, period, since, waited>>

-----------------------------------------------------------------------------
(* systick.c.  The main program waits while the exception is pending: its   *)
(* priority is below every exception's.                                     *)

MainAt(place) == at = place /\ ~pendst

\* The division truncates; the reload value has to fit its field.
ValidPeriod(coreHz, tickHz) ==
    /\ coreHz # 0 /\ tickHz # 0
    /\ coreHz \div tickHz >= 2
    /\ coreHz \div tickHz - 1 <= LoadMax

\* A request that is refused stores nothing.
systickInit(coreHz, tickHz) ==
    /\ MainAt("idle")
    /\ ValidPeriod(coreHz, tickHz)
    /\ at' = "stop"
    /\ reload' = coreHz \div tickHz - 1
    /\ asked' = coreHz \div tickHz
    /\ UNCHANGED <<registers, pendst, ticks, start, want, lastRefresh, nextToggle>>
    /\ UNCHANGED <<period, since, waited, due, late>>

StoreStop ==
    /\ MainAt("stop")
    /\ at' = "load"
    /\ enabled' = FALSE
    /\ UNCHANGED <<load, val, pendst, ticks, locals, history>>

StoreLoad ==
    /\ MainAt("load")
    /\ at' = "clear"
    /\ load' = reload % (LoadMax + 1)
    /\ UNCHANGED <<enabled, val, pendst, ticks, locals, history>>

\* Mutant: the count goes on from where the timer was stopped.
ClearForgotten ==
    /\ MainAt("clear")
    /\ at' = "go"
    /\ UNCHANGED <<registers, pendst, ticks, locals, history>>

StoreVal ==
    /\ MainAt("clear")
    /\ at' = "go"
    /\ val' = 0
    /\ UNCHANGED <<enabled, load, pendst, ticks, locals, history>>

StoreGo ==
    /\ MainAt("go")
    /\ at' = "idle"
    /\ enabled' = TRUE
    /\ since' = 0 /\ period' = asked /\ reload' = 0
    /\ UNCHANGED <<load, val, pendst, ticks, start, want, lastRefresh, nextToggle>>
    /\ UNCHANGED <<asked, waited, due, late>>

\* Three stores, the first of which stops the timer; nothing can come of the others.
systickDeinit ==
    /\ MainAt("idle")
    /\ enabled' = FALSE /\ load' = 0 /\ val' = 0
    /\ UNCHANGED <<pendst, ticks, at, locals, history>>

-----------------------------------------------------------------------------
(* smoke.c: waitMs() and the blinking of LD2.                               *)

\* uint32_t and (int32_t) differences.
Minus(a, b) == (a - b) % TickModulus
Signed(n) == IF 2 * n < TickModulus THEN n ELSE n - TickModulus

\* Mutant: ticks < start + ms.
WaitingForInstant == ticks < (start + want) % TickModulus

\* Mutant: the difference is taken as a signed one.
WaitingSigned == ticks - start < want

Waiting == Minus(ticks, start) < want

waitMs(ms) ==
    /\ MainAt("idle") /\ enabled
    /\ at' = "wait"
    /\ start' = ticks /\ lastRefresh' = ticks /\ want' = ms
    /\ waited' = 0 /\ late' = 0
    /\ UNCHANGED <<registers, pendst, ticks, reload, nextToggle, asked, period, since, due>>

\* The loop refreshes the IWDG every RefreshMs ticks.  Its locals end with it.
WaitTurn ==
    /\ MainAt("wait")
    /\ late' = 0
    /\ IF Waiting
       THEN /\ lastRefresh' = IF RefreshMs # 0 /\ Minus(ticks, lastRefresh) >= RefreshMs
                              THEN ticks ELSE lastRefresh
            /\ UNCHANGED <<at, start, want, waited>>
       ELSE /\ at' = "idle"
            /\ start' = 0 /\ want' = 0 /\ lastRefresh' = 0 /\ waited' = 0
    /\ UNCHANGED <<registers, pendst, ticks, reload, nextToggle, asked, period, since, due>>

\* Mutant: ticks >= next_toggle.
ExpiredUnsigned == ticks >= nextToggle

Expired == Signed(Minus(ticks, nextToggle)) >= 0

startBlinking ==
    /\ MainAt("idle") /\ enabled
    /\ at' = "blink"
    /\ nextToggle' = (ticks + BlinkMs) % TickModulus
    /\ due' = BlinkMs /\ late' = 0
    /\ UNCHANGED <<registers, pendst, ticks, reload, start, want, lastRefresh>>
    /\ UNCHANGED <<asked, period, since, waited>>

BlinkTurn ==
    /\ MainAt("blink")
    /\ late' = 0
    /\ nextToggle' = IF Expired THEN (nextToggle + BlinkMs) % TickModulus ELSE nextToggle
    /\ due' = IF Expired THEN due + BlinkMs ELSE due
    /\ UNCHANGED <<registers, pendst, ticks, at, reload, start, want, lastRefresh>>
    /\ UNCHANGED <<asked, period, since, waited>>

-----------------------------------------------------------------------------
Calls ==
    \/ \E r \in Requests : systickInit(r[1], r[2])
    \/ systickDeinit
    \/ \E ms \in Waits : waitMs(ms)
    \/ startBlinking

Goes == StoreStop \/ StoreLoad \/ StoreVal \/ StoreGo \/ WaitTurn \/ BlinkTurn

Next == Clock \/ SysTick_Handler \/ Calls \/ Goes

(* The clock runs, and the processor goes on.                               *)
Spec == Init /\ [][Next]_vars /\ WF_vars(Clock) /\ WF_vars(SysTick_Handler) /\ WF_vars(Goes)

-----------------------------------------------------------------------------
TypeOK ==
    /\ enabled \in BOOLEAN /\ pendst \in BOOLEAN
    /\ load \in 0..LoadMax /\ val \in 0..LoadMax /\ reload \in 0..LoadMax
    /\ ticks \in 0..TickModulus - 1
    /\ at \in {"idle", "stop", "load", "clear", "go"} \union Loops
    /\ start \in 0..TickModulus - 1 /\ lastRefresh \in 0..TickModulus - 1
    /\ nextToggle \in 0..TickModulus - 1
    /\ late \in 0..MaxLate

(* systick.h: the period is core_hz / tick_hz clocks.  Every tick comes     *)
(* just so many clocks after the one before, and the first so many after    *)
(* the start, whatever was left in a timer that was running or stopped.     *)
PeriodExact == [][~pendst /\ pendst' => since + 1 = period]_vars

(* smoke.c, waitMs(): the wait is the ticks asked for, short of the part of *)
(* one that had passed at its start, and no longer than its last turn is    *)
(* late, wherever the tick wraps.                                           *)
WaitExact ==
    [][at = "wait" /\ at' = "idle" =>
           /\ want > 0 => waited > (want - 1) * period
           /\ waited < (want + MaxLate + 1) * period]_vars

WaitEnds == at = "wait" ~> at = "idle"

(* smoke.c, main(): LD2 is due for a change just when that many ticks have  *)
(* gone by since it was last due, across the wrap and however late the loop *)
(* noticed the changes before: the lateness does not add up.                *)
BlinkKeepsRate == at = "blink" => (Expired <=> due <= 0)
=============================================================================
