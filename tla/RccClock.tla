------------------------------ MODULE RccClock ------------------------------
(***************************************************************************)
(* The RCC clock driver (drivers/src/rcc.c) with flashSetLatency()         *)
(* (drivers/src/flash.c) and the clock tree both of them write.            *)
(*                                                                         *)
(* A driver function runs to completion in the one context that configures *)
(* clocks, but the clock tree moves on its own while it runs and long      *)
(* after it has returned: an oscillator settles or stops, the PLL loses    *)
(* lock, the system clock multiplexer takes the requested source.  Each    *)
(* function is therefore split between the register accesses at which one  *)
(* of those moves can matter, and every hardware move is an action.        *)
(***************************************************************************)
EXTENDS DriverCall

CONSTANTS
    PllSettings,    \* values of PLLCFGR: an input and a frequency
    PllReset,       \* its reset value
    PllInvalid,     \* arguments outside the ranges of M, N, P or PLLSRC
    PllInputOf,     \* [PllSettings -> {"HSI", "HSE"}], the PLLSRC bit
    PllWait,        \* [PllSettings -> 0..15], wait states the PLL output needs
    OscWait,        \* [{"HSI", "HSE"} -> 0..15], wait states the oscillators need
    Latencies,      \* latency arguments a caller passes, out-of-range ones too
    BusSettings,    \* prescaler arguments a caller passes, invalid ones too
    RetunesRequested    \* may the caller retune the PLL while CFGR.SW requests it

Oscillators == {"HSI", "HSE"}
Sources == {"HSI", "HSE", "PLL"}
HseModes == {"crystal", "bypass"}
MaxLatency == 15        \* FLASH_ACR_LATENCY is 4 bits wide

\* RCC_CFGR_HPRE_DIV*, RCC_CFGR_PPRE_DIV* as the divisors they stand for
AhbDivisors == {1, 2, 4, 8, 16, 64, 128, 256, 512}
ApbDivisors == {1, 2, 4, 8, 16}

ASSUME PllAssumption ==
    /\ PllReset \in PllSettings
    /\ PllInvalid \notin PllSettings
    /\ PllInputOf \in [PllSettings -> Oscillators]
    /\ PllWait \in [PllSettings -> 0..MaxLatency]
    /\ PllInputOf[PllReset] = "HSI"

ASSUME OscAssumption ==
    /\ OscWait \in [Oscillators -> 0..MaxLatency]
    /\ OscWait["HSI"] = 0       \* the chip starts on HSI with no wait states

ASSUME CallerAssumption ==
    /\ Latencies \subseteq Nat
    /\ BusSettings \subseteq Nat \X Nat \X Nat
    /\ RetunesRequested \in BOOLEAN

VARIABLES
    on,         \* CR.HSION, HSEON, PLLON
    rdy,        \* CR.HSIRDY, HSERDY, PLLRDY
    stopping,   \* sources whose ON bit was cleared and whose ready flag has yet to drop
    hsebyp,     \* CR.HSEBYP: HSE from a crystal or from an external clock
    pllcfg,     \* PLLCFGR
    sw, sws,    \* CFGR.SW, the requested source; CFGR.SWS, the source in use
    bus,        \* CFGR.HPRE, PPRE1, PPRE2
    latency,    \* flash ACR.LATENCY
    source,     \* local: the source whose flag is waited for / argument of the switch
    want,       \* local: latency argument of rccSysclkSwitch
    current,    \* local: current_latency
    restarted   \* history: the last call to wait turned on a source that was still stopping

crVars == <<on, rdy, stopping, hsebyp>>
cfgrVars == <<sw, sws, bus>>
localVars == <<source, want, current, restarted>>
rccVars == <<crVars, pllcfg, cfgrVars, latency, localVars>>
vars == <<callVars, on, rdy, stopping, hsebyp, pllcfg, sw, sws, bus, latency,
          source, want, current, restarted>>

-----------------------------------------------------------------------------
PllInput == PllInputOf[pllcfg]

\* Wait states a source needs at its present frequency (RM0390 Table 5).
Needed(s) == IF s = "PLL" THEN PllWait[pllcfg] ELSE OscWait[s]

\* rccOscillatorDisableGuard: s feeds SYSCLK, directly or through the PLL.
Feeds(s) == sws = s \/ (sws = "PLL" /\ s = PllInput)

EnabledBy == [rccHsiEnable |-> "HSI", rccHseEnable |-> "HSE", rccPllEnable |-> "PLL"]
DisabledBy == [rccHsiDisable |-> "HSI", rccHseDisable |-> "HSE", rccPllDisable |-> "PLL"]

RccFns == DOMAIN EnabledBy \union DOMAIN DisabledBy
              \union {"rccPllConfig", "rccBusPrescalerConfig", "rccSysclkSwitch"}

Init ==
    /\ CallInit
    /\ on = [s \in Sources |-> s = "HSI"]
    /\ rdy = [s \in Sources |-> s = "HSI"]
    /\ stopping = {}
    /\ hsebyp = "crystal"
    /\ pllcfg = PllReset
    /\ sw = "HSI" /\ sws = "HSI"
    /\ bus = <<1, 1, 1>>
    /\ latency = 0
    /\ source = "HSI" /\ want = 0 /\ current = 0 /\ restarted = FALSE

-----------------------------------------------------------------------------
(* Waiting.  rccWaitCrFlag() reads a ready flag; rccSysclkSwitch() reads    *)
(* CFGR.SWS in the same loop.                                               *)

\* Mutant: a disable waits for its ready flag to be set.
ReachedAlwaysSet ==
    \/ fn = "rccSysclkSwitch" /\ sws = source
    \/ fn # "rccSysclkSwitch" /\ rdy[source]

\* What the running function waits for.
Reached ==
    \/ fn = "rccSysclkSwitch" /\ sws = source
    \/ fn \in DOMAIN DisabledBy /\ ~rdy[source]
    \/ fn \in DOMAIN EnabledBy /\ rdy[source]

WaitFlag ==
    /\ at = "poll"
    /\ Poll(Reached, "recheck")
    /\ UNCHANGED rccVars

\* The switch still has a latency to lower; the other functions are done.
WaitOver ==
    /\ at = "recheck"
    /\ Recheck(Reached, IF fn = "rccSysclkSwitch" /\ want <= current
                        THEN "lower" ELSE "returned")
    /\ UNCHANGED rccVars

-----------------------------------------------------------------------------
(* Turning a source on.                                                     *)

\* A source that has yet to stop may run on, or stop first and start afresh: until
\* it does its ready flag is the old one.
SwitchOnAndWait(f, s) ==
    /\ Enter(f, "poll", TRUE)
    /\ on' = [on EXCEPT ![s] = TRUE]
    /\ stopping' \in {stopping, stopping \ {s}}
    /\ source' = s
    /\ restarted' = (s \in stopping)
    /\ UNCHANGED <<rdy, pllcfg, cfgrVars, latency, want, current>>

rccHsiEnable == SwitchOnAndWait("rccHsiEnable", "HSI") /\ UNCHANGED hsebyp

\* Mutant: HSEON is set before the function looks whether it was.
HseEnableWritesFirst(bypass) ==
    \/ /\ bypass \notin HseModes
       /\ Answer("rccHseEnable", "INVALID_PARAM", FALSE)
       /\ UNCHANGED rccVars
    \/ /\ bypass \in HseModes /\ on["HSE"]
       /\ Answer("rccHseEnable", "BUSY", TRUE)
       /\ UNCHANGED rccVars
    \/ /\ bypass \in HseModes /\ ~on["HSE"]
       /\ SwitchOnAndWait("rccHseEnable", "HSE")
       /\ hsebyp' = bypass

\* HSEBYP is writable only while HSEON is clear, hence the BUSY.
rccHseEnable(bypass) ==
    \/ /\ bypass \notin HseModes
       /\ Answer("rccHseEnable", "INVALID_PARAM", FALSE)
       /\ UNCHANGED rccVars
    \/ /\ bypass \in HseModes /\ on["HSE"]
       /\ Answer("rccHseEnable", "BUSY", FALSE)
       /\ UNCHANGED rccVars
    \/ /\ bypass \in HseModes /\ ~on["HSE"]
       /\ SwitchOnAndWait("rccHseEnable", "HSE")
       /\ hsebyp' = bypass

rccPllEnable == SwitchOnAndWait("rccPllEnable", "PLL") /\ UNCHANGED hsebyp

-----------------------------------------------------------------------------
(* Turning a source off: a guard, then the store, then the wait.            *)

DisableGuard(f, s) ==
    \/ /\ Feeds(s)
       /\ Answer(f, "BUSY", FALSE)
       /\ UNCHANGED rccVars
    \/ /\ ~Feeds(s)
       /\ Enter(f, "clear", FALSE)
       /\ source' = s /\ restarted' = FALSE
       /\ UNCHANGED <<crVars, pllcfg, cfgrVars, latency, want, current>>

rccHsiDisable == DisableGuard("rccHsiDisable", "HSI")
rccHseDisable == DisableGuard("rccHseDisable", "HSE")
rccPllDisable == DisableGuard("rccPllDisable", "PLL")

\* The store that clears the ON bit.  The hardware ignores it for a source that
\* feeds SYSCLK by now; otherwise the ready flag drops some cycles later.
ClearOn ==
    /\ at = "clear"
    /\ GoTo("poll", TRUE)
    /\ IF Feeds(source)
       THEN UNCHANGED <<on, stopping>>
       ELSE /\ on' = [on EXCEPT ![source] = FALSE]
            /\ stopping' = IF rdy[source] THEN stopping \union {source} ELSE stopping
    /\ UNCHANGED <<rdy, hsebyp, pllcfg, cfgrVars, latency, localVars>>

-----------------------------------------------------------------------------
(* Configuration registers.                                                 *)

rccPllConfig(p) ==
    \/ /\ p \notin PllSettings
       /\ Answer("rccPllConfig", "INVALID_PARAM", FALSE)
       /\ UNCHANGED rccVars
    \/ /\ p \in PllSettings /\ on["PLL"]
       /\ Answer("rccPllConfig", "BUSY", FALSE)
       /\ UNCHANGED rccVars
    \/ /\ p \in PllSettings /\ ~on["PLL"]
       /\ Answer("rccPllConfig", "OK", TRUE)
       /\ pllcfg' = p
       /\ UNCHANGED <<crVars, cfgrVars, latency, localVars>>

\* Mutant: the APB2 prescaler is not looked at.
IgnorePpre2(b) == b[1] \in AhbDivisors /\ b[2] \in ApbDivisors

ValidPrescalers(b) ==
    b[1] \in AhbDivisors /\ b[2] \in ApbDivisors /\ b[3] \in ApbDivisors

rccBusPrescalerConfig(b) ==
    \/ /\ ~ValidPrescalers(b)
       /\ Answer("rccBusPrescalerConfig", "INVALID_PARAM", FALSE)
       /\ UNCHANGED rccVars
    \/ /\ ValidPrescalers(b)
       /\ Answer("rccBusPrescalerConfig", "OK", TRUE)
       /\ bus' = b
       /\ UNCHANGED <<crVars, pllcfg, sw, sws, latency, localVars>>

-----------------------------------------------------------------------------
(* rccSysclkSwitch(): raise the latency, look whether the source is ready,  *)
(* request it, wait, lower the latency.                                     *)

\* flashSetLatency(): the register may refuse the value, which reads back.
flashSetLatency(l, next) ==
    \/ /\ l > MaxLatency
       /\ Return("INVALID_PARAM", FALSE)
       /\ UNCHANGED latency
    \/ /\ l <= MaxLatency
       /\ latency' = l
       /\ GoTo(next, TRUE)
    \/ /\ l <= MaxLatency
       /\ Return("HW_FAULT", TRUE)
       /\ UNCHANGED latency

rccSysclkSwitch(s, l) ==
    \/ /\ s \notin Sources
       /\ Answer("rccSysclkSwitch", "INVALID_PARAM", FALSE)
       /\ UNCHANGED rccVars
    \/ /\ s \in Sources
       /\ Enter("rccSysclkSwitch", "raise", FALSE)
       /\ source' = s /\ want' = l /\ current' = latency /\ restarted' = FALSE
       /\ UNCHANGED <<crVars, pllcfg, cfgrVars, latency>>

\* Mutant: the latency is set to the new source's before the switch, up or down.
SetLatencyFirst ==
    /\ at = "raise"
    /\ flashSetLatency(want, "ready")
    /\ UNCHANGED <<crVars, pllcfg, cfgrVars, localVars>>

\* Mutant: the latency is never raised before the switch.
SkipRaise ==
    /\ at = "raise"
    /\ IF want > MaxLatency
       THEN flashSetLatency(want, "ready")
       ELSE GoTo("ready", FALSE) /\ UNCHANGED latency
    /\ UNCHANGED <<crVars, pllcfg, cfgrVars, localVars>>

RaiseLatency ==
    /\ at = "raise"
    /\ IF want > current
       THEN flashSetLatency(want, "ready")
       ELSE GoTo("ready", FALSE) /\ UNCHANGED latency
    /\ UNCHANGED <<crVars, pllcfg, cfgrVars, localVars>>

CheckReady ==
    /\ at = "ready"
    /\ \/ rdy[source] /\ GoTo("request", FALSE)
       \/ ~rdy[source] /\ Return("NOT_INITIALIZED", FALSE)
    /\ UNCHANGED rccVars

\* Mutant: the latency is lowered with the request, not after the switch.
LowerWithRequest ==
    /\ at = "request"
    /\ GoTo("poll", TRUE)
    /\ sw' = source
    /\ latency' = want
    /\ UNCHANGED <<crVars, pllcfg, sws, bus, localVars>>

RequestSwitch ==
    /\ at = "request"
    /\ GoTo("poll", TRUE)
    /\ sw' = source
    /\ UNCHANGED <<crVars, pllcfg, sws, bus, latency, localVars>>

LowerLatency ==
    /\ at = "lower"
    /\ flashSetLatency(want, "returned")
    /\ UNCHANGED <<crVars, pllcfg, cfgrVars, localVars>>

-----------------------------------------------------------------------------
(* The hardware.                                                            *)

hwUnchanged == UNCHANGED <<callVars, hsebyp, pllcfg, sw, bus, latency, localVars>>

\* An oscillator settles; the PLL locks once its input runs.  HSE may never.
OscReady(s) ==
    /\ on[s] /\ ~rdy[s]
    /\ s = "PLL" => rdy[PllInput] /\ PllInput \notin stopping
    /\ rdy' = [rdy EXCEPT ![s] = TRUE]
    /\ UNCHANGED <<on, stopping, sws>>
    /\ hwUnchanged

OscStopped(s) ==
    /\ s \in stopping
    /\ stopping' = stopping \ {s}
    /\ rdy' = [rdy EXCEPT ![s] = FALSE]
    /\ UNCHANGED <<on, sws>>
    /\ hwUnchanged

\* A PLL that is on loses lock when its input stops.
PllUnlock ==
    /\ rdy["PLL"] /\ ~rdy[PllInput]
    /\ rdy' = [rdy EXCEPT !["PLL"] = FALSE]
    /\ stopping' = stopping \ {"PLL"}
    /\ UNCHANGED <<on, sws>>
    /\ hwUnchanged

\* The multiplexer takes the requested source once it runs: at once, or long
\* after rccSysclkSwitch() gave up waiting.
SwitchCompletes ==
    /\ sw # sws
    /\ rdy[sw] /\ sw \notin stopping
    /\ sws' = sw
    /\ UNCHANGED <<on, rdy, stopping>>
    /\ hwUnchanged

-----------------------------------------------------------------------------
(* The caller: any function, with any argument, in any order.               *)
(*                                                                          *)
(* It keeps to what the headers ask of it:                                  *)
(*   - the latency it passes suits the source as that is set at the call    *)
(*     (RM0390 Table 5), or is out of range;                                *)
(*   - it turns the PLL on with its input ready (rcc.h, rccPllEnable @pre), *)
(*     which an input still stopping is not, whatever its flag says, and    *)
(*     does not turn the input off under it (rccHseDisable @warning).       *)
(* No header forbids turning a source on again that was turned off a moment *)
(* ago and has yet to stop, so it does that too.  None forbids retuning the *)
(* PLL while CFGR.SW still requests it either, as it does after a switch to *)
(* the PLL that timed out; RetunesRequested says whether the caller does.   *)

Running(s) == rdy[s] /\ s \notin stopping

MayEnablePll == Running(PllInput)

MayDisable(s) == ~(on["PLL"] /\ s = PllInput)

MayRetune == RetunesRequested \/ sw # "PLL"

Suits(l, s) == s \in Sources => (l >= Needed(s) \/ l > MaxLatency)

Caller ==
    \/ rccHsiEnable
    \/ \E b \in HseModes \union {"invalid"} : rccHseEnable(b)
    \/ MayEnablePll /\ rccPllEnable
    \/ MayDisable("HSI") /\ rccHsiDisable
    \/ MayDisable("HSE") /\ rccHseDisable
    \/ rccPllDisable
    \/ \E p \in PllSettings \union {PllInvalid} :
           (p \in PllSettings => MayRetune) /\ rccPllConfig(p)
    \/ \E b \in BusSettings : rccBusPrescalerConfig(b)
    \/ \E s \in Sources \union {"invalid"}, l \in Latencies :
           Suits(l, s) /\ rccSysclkSwitch(s, l)

Driver ==
    \/ WaitFlag \/ WaitOver \/ ClearOn
    \/ RaiseLatency \/ CheckReady \/ RequestSwitch \/ LowerLatency

Hardware ==
    \/ \E s \in Sources : OscReady(s) \/ OscStopped(s)
    \/ PllUnlock
    \/ SwitchCompletes

Next == Caller \/ Driver \/ Hardware

Spec == Init /\ [][Next]_vars

\* The processor executes the function it has entered.
FairSpec == Spec /\ WF_vars(Driver)

-----------------------------------------------------------------------------
Places == {"poll", "recheck", "clear", "raise", "ready", "request", "lower"}

ClockTypeOK ==
    /\ on \in [Sources -> BOOLEAN]
    /\ rdy \in [Sources -> BOOLEAN]
    /\ stopping \in SUBSET Sources
    /\ hsebyp \in HseModes
    /\ pllcfg \in PllSettings
    /\ sw \in Sources /\ sws \in Sources
    /\ bus \in AhbDivisors \X ApbDivisors \X ApbDivisors
    /\ latency \in 0..MaxLatency
    /\ source \in Sources
    /\ want \in Nat /\ current \in 0..MaxLatency /\ restarted \in BOOLEAN

TypeOK == CallTypeOK(RccFns, Places) /\ ClockTypeOK

(* rcc.h 249-251: "flash is never read with too few wait states".  The      *)
(* running clock never outpaces the flash, whatever the driver is in the    *)
(* middle of and whenever the hardware takes a requested source.            *)
FlashWaitStates == latency >= Needed(sws)

(* rccSysclkSwitch() == OK means what rcc.h 258 says: switched, and the     *)
(* latency is the one asked for; no late switch can undo it afterwards.     *)
SwitchOkTruth ==
    (Idle /\ fn = "rccSysclkSwitch" /\ status = "OK")
        => sws = source /\ sw = source /\ latency = want

(* The note at rcc.h 262-264: a switch that failed leaves a raised latency  *)
(* written, and "a lowered latency is never written unless the switch       *)
(* completed".  Whatever a failed call got done before it gave up, the      *)
(* flash keeps the larger of the two latencies, and a latency that did not  *)
(* read back is the one found at the call.                                  *)
SwitchFailureKeepsWaits ==
    (Idle /\ fn = "rccSysclkSwitch") =>
        /\ status \in {"NOT_INITIALIZED", "TIMEOUT"}
               => latency = IF want > current THEN want ELSE current
        /\ status = "HW_FAULT" => latency = current

(* An enable answers OK (rcc.h 144, 167, 211) only for a source that is on  *)
(* and running, and it stays so until another call.  The one exception is a *)
(* source turned on while it was still stopping from a disable that timed   *)
(* out: no header forbids it, and the flag the call reads may be the old    *)
(* one, which drops later.                                                  *)
EnableOkMeansRunning ==
    (Idle /\ fn \in DOMAIN EnabledBy /\ status = "OK")
        => on[EnabledBy[fn]] /\ (Running(EnabledBy[fn]) \/ restarted)

(* A disable answers OK only for a source that is off.  On TIMEOUT the ON   *)
(* bit is cleared (rcc.h 156, 178, 221), unless a switch to that source was *)
(* still pending at the call and completed between the guard and the store: *)
(* the hardware then ignored the store, which the headers do not say.       *)
DisableTruth ==
    (Idle /\ fn \in DOMAIN DisabledBy) =>
        LET s == DisabledBy[fn] IN
        /\ status = "OK" => ~on[s] /\ ~rdy[s]
        /\ status = "TIMEOUT" => ~on[s] \/ (sw = s /\ sws = s)

(* What an enable or a disable answered is so at its return and until the   *)
(* next call, although sources start and stop at times of their own.        *)
OscillatorTruth == EnableOkMeansRunning /\ DisableTruth

(* Every wait is bounded: each call returns, whatever the hardware does.    *)
CallsReturn == ~Idle ~> Idle

-----------------------------------------------------------------------------
(* The driver and its hardware implement SafeClock.                         *)

Clock == INSTANCE SafeClock WITH
    Clocks <- Sources, active <- sws, request <- sw, waits <- latency,
    need <- [s \in Sources |-> Needed(s)]

(* Every step is a step SafeClock allows, or none: wait states go down only *)
(* when the requested source is in use, a source is requested only when the *)
(* flash can follow it, the PLL is retuned only while nothing rides on it.  *)
ImplementsSafeClock == Clock!Spec
=============================================================================
