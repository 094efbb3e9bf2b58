---------------------------- MODULE BspClockInit ----------------------------
(***************************************************************************)
(* The bring-up of the board's clocks: bspClockInit() (bsp/src/bsp.c) over *)
(* the RCC, PWR and Flash drivers, and the console that is started from    *)
(* whatever clock it left (boardIoInit() of the on-target smoke test,      *)
(* tests/target/smoke.c).                                                  *)
(*                                                                         *)
(* bspClockInit() calls nine driver functions in order and stops at the    *)
(* first that does not return OK, undoing nothing.  The hardware keeps     *)
(* moving under each call, and after the last.                             *)
(***************************************************************************)
EXTENDS Pwr, Sequences

CONSTANT MaxCalls       \* how often bspClockInit() is called

VARIABLES
    step,       \* index in BringUp of the call bspClockInit() makes next, 0 outside it
    calls,      \* times bspClockInit() has been called
    result,     \* what it returned last, UNINITIALIZED while it runs
    caches,     \* flash ACR.PRFTEN, ICEN, DCEN
    console     \* PCLK1 in MHz the UART divisor was computed from, 0 before uartInit()

bspVars == <<step, calls, result, caches, console>>
allVars == <<callVars, rccVars, pwrVars, bspVars>>

-----------------------------------------------------------------------------
(* The configuration (bsp.h 41-56).                                         *)

\* 8 MHz / 8 x 360 / 2
BspPll == [src |-> "HSE", m |-> 8, n |-> 360, p |-> 2]
BspBus == <<1, 4, 2>>
BspLatency == 5

ASSUME BspAssumption ==
    /\ BspPll \in PllSettings
    /\ PllInputOf[BspPll] = BspPll.src
    /\ MaxCalls \in Nat

\* SYSCLK in MHz when s feeds it.  BSP_HSE_HZ is 8 MHz, HSI is 16 MHz.
Mhz(s) ==
    CASE s = "HSI" -> 16
      [] s = "HSE" -> 8
      [] s = "PLL" -> LET input == IF pllcfg.src = "HSI" THEN 16 ELSE 8
                      IN  (input * pllcfg.n) \div (pllcfg.m * pllcfg.p)

Hclk == Mhz(sws) \div bus[1]
Pclk1 == Hclk \div bus[2]
Pclk2 == Hclk \div bus[3]

-----------------------------------------------------------------------------
BspInit ==
    /\ Init /\ PwrInit
    /\ step = 0 /\ calls = 0
    /\ result = "UNINITIALIZED"
    /\ caches = FALSE
    /\ console = 0

\* Mutant: the regulator scale after the PLL, as a voltage "ready" wait suggests.
ScaleAfterPll ==
    <<"rccHseEnable", "rccPllConfig", "rccPllEnable", "pwrSetVoltageScale",
      "pwrWaitVoltageScaleReady", "pwrEnableOverdrive", "rccBusPrescalerConfig",
      "rccSysclkSwitch", "flashEnableCaches">>

\* Mutant: the switch before the regulator and over-drive are waited for.
SwitchBeforeRegulator ==
    <<"rccHseEnable", "pwrSetVoltageScale", "rccPllConfig", "rccPllEnable",
      "rccBusPrescalerConfig", "rccSysclkSwitch", "pwrWaitVoltageScaleReady",
      "pwrEnableOverdrive", "flashEnableCaches">>

\* Mutant: the bus prescalers last.
PrescalersLast ==
    <<"rccHseEnable", "pwrSetVoltageScale", "rccPllConfig", "rccPllEnable",
      "pwrWaitVoltageScaleReady", "pwrEnableOverdrive", "rccSysclkSwitch",
      "rccBusPrescalerConfig", "flashEnableCaches">>

\* Mutant: over-drive forgotten.
NoOverdrive ==
    <<"rccHseEnable", "pwrSetVoltageScale", "rccPllConfig", "rccPllEnable",
      "pwrWaitVoltageScaleReady", "rccBusPrescalerConfig", "rccSysclkSwitch",
      "flashEnableCaches">>

\* The driver calls of bspClockInit(), after rccPwrClockEnable().
BringUp ==
    <<"rccHseEnable", "pwrSetVoltageScale", "rccPllConfig", "rccPllEnable",
      "pwrWaitVoltageScaleReady", "pwrEnableOverdrive", "rccBusPrescalerConfig",
      "rccSysclkSwitch", "flashEnableCaches">>

flashEnableCaches ==
    /\ Answer("flashEnableCaches", "OK", TRUE)
    /\ caches' = TRUE
    /\ UNCHANGED <<rccVars, pwrVars>>

\* One call, with the arguments bspClockInit() passes.
DriverFunction(f) ==
    \/ f = "rccHseEnable" /\ rccHseEnable("bypass") /\ UNCHANGED <<pwrVars, caches>>
    \/ f = "pwrSetVoltageScale" /\ pwrSetVoltageScale(1) /\ UNCHANGED caches
    \/ f = "rccPllConfig" /\ rccPllConfig(BspPll) /\ UNCHANGED <<pwrVars, caches>>
    \/ f = "rccPllEnable" /\ rccPllEnable /\ UNCHANGED <<pwrVars, caches>>
    \/ f = "pwrWaitVoltageScaleReady" /\ pwrWaitVoltageScaleReady /\ UNCHANGED caches
    \/ f = "pwrEnableOverdrive" /\ pwrEnableOverdrive /\ UNCHANGED caches
    \/ /\ f = "rccBusPrescalerConfig"
       /\ rccBusPrescalerConfig(BspBus)
       /\ UNCHANGED <<pwrVars, caches>>
    \/ /\ f = "rccSysclkSwitch"
       /\ rccSysclkSwitch("PLL", BspLatency)
       /\ UNCHANGED <<pwrVars, caches>>
    \/ f = "flashEnableCaches" /\ flashEnableCaches

\* bspClockInit() is called; rccPwrClockEnable() cannot fail.
bspClockInit ==
    /\ step = 0 /\ calls < MaxCalls
    /\ rccPwrClockEnable
    /\ step' = 1
    /\ calls' = calls + 1
    /\ result' = "UNINITIALIZED"
    /\ UNCHANGED <<caches, console>>

\* if (status == DRIVER_STATUS_OK) { status = the next call; }
NextCall ==
    /\ step \in 1..Len(BringUp)
    /\ status = "OK"
    /\ DriverFunction(BringUp[step])
    /\ step' = step + 1
    /\ UNCHANGED <<calls, result, console>>

\* A call failed, or all have succeeded.
BspReturn ==
    /\ Idle /\ step # 0
    /\ status # "OK" \/ step > Len(BringUp)
    /\ step' = 0
    /\ result' = status
    /\ UNCHANGED <<callVars, rccVars, pwrVars, calls, caches, console>>

-----------------------------------------------------------------------------
\* Mutant: the clock the bring-up aims at, whatever it reached.
BspPclk1Hz == 45

\* actualPclk1Hz(): from SWS and PPRE1 as they are now; HPRE is taken to be 1.
actualPclk1Hz ==
    (CASE sws = "PLL" -> 180 [] sws = "HSE" -> 8 [] OTHER -> 16) \div bus[2]

\* boardIoInit(): clocks for GPIOA and USART2, and uartInit(), whatever
\* bspClockInit() returned.
boardIoInit ==
    /\ Idle /\ step = 0
    /\ calls > 0 /\ console = 0
    /\ console' = actualPclk1Hz
    /\ UNCHANGED <<callVars, rccVars, pwrVars, step, calls, result, caches>>

Program == bspClockInit \/ NextCall \/ BspReturn

RunningCall ==
    \/ (WaitFlag \/ WaitOver \/ ClearOn) /\ UNCHANGED pwrVars
    \/ (RaiseLatency \/ CheckReady \/ RequestSwitch \/ LowerLatency) /\ UNCHANGED pwrVars
    \/ PwrDriver

ClockHardware == Hardware /\ UNCHANGED pwrVars

BspNext ==
    \/ Program
    \/ boardIoInit
    \/ (RunningCall \/ ClockHardware \/ PwrHardware) /\ UNCHANGED bspVars

BspSpec == BspInit /\ [][BspNext]_allVars

-----------------------------------------------------------------------------
BspTypeOK ==
    /\ CallTypeOK(RccFns \union PwrFns \union {"flashEnableCaches"}, Places \union PwrPlaces)
    /\ PwrTypeOK
    /\ step \in 0..(Len(BringUp) + 1)
    /\ calls \in 0..MaxCalls
    /\ result \in DriverStatus
    /\ caches \in BOOLEAN
    /\ console \in 0..45

(* bspClockInit() == OK means the whole configuration is in place: what     *)
(* checkClocks() of the smoke test reads back (smoke.c 289-300), now and    *)
(* from then on.                                                            *)
BringUpComplete ==
    result = "OK" =>
        /\ sws = "PLL" /\ sw = "PLL"
        /\ Running("HSE") /\ hsebyp = "bypass" /\ Running("PLL")
        /\ pllcfg = BspPll /\ bus = BspBus
        /\ pwren /\ vos = 1 /\ vosrdy /\ odrdy /\ odswrdy
        /\ latency = BspLatency /\ caches

(* HCLK is never above what the regulator carries in the scale and the      *)
(* over-drive it has reached (pwr.h 19-25): not in the middle of the        *)
(* bring-up, not after one that failed, and not when a switch completes     *)
(* after its call gave up.                                                  *)
RegulatorFollows == Hclk <= MaxHclk

(* rcc.h 234: APB1 at most 45 MHz, APB2 at most 90 MHz, at every moment.    *)
BusLimits == Pclk1 <= 45 /\ Pclk2 <= 90

(* The order respects what the hardware insists on (pwr.h 5-9): no store to *)
(* PWR_CR is ignored for want of a clock or because the PLL is on.          *)
NoStoreIgnored == ~dropped

(* pwr.c 67: ODSWEN is never set before ODRDY has confirmed ODEN.           *)
OdSwitchAfterReady == odswen => odrdy

(* The regulator is spoken to in the order it insists on.                   *)
RegulatorHandshake == NoStoreIgnored /\ OdSwitchAfterReady

(* bsp.h 90: a second call reports BUSY, wherever the first one stopped.    *)
SecondCallIsBusy == (calls > 1 /\ result # "UNINITIALIZED") => result = "BUSY"

(* What bspClockInit() answers is so, after whatever came before.           *)
BringUpTruth == BringUpComplete /\ SecondCallIsBusy

(* The console's divisor is right, and stays right, whether the bring-up    *)
(* succeeded or stopped anywhere before the switch was taken.               *)
ConsoleBaudSettled == (console # 0 /\ (caches \/ sws = "HSI")) => console = Pclk1

=============================================================================
