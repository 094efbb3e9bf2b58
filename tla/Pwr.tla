-------------------------------- MODULE Pwr --------------------------------
(***************************************************************************)
(* The PWR driver (drivers/src/pwr.c) over the clock tree of RccClock.     *)
(*                                                                         *)
(* The regulator and the PLL are tied together: CR.VOS takes a write only  *)
(* while the PLL is off, and the scale it selects is reached only once the *)
(* PLL is on (pwr.h 5-9).  Over-drive is a hand-shake of two steps.        *)
(* All of it needs the PWR clock.                                          *)
(***************************************************************************)
EXTENDS RccClock

VARIABLES
    pwren,              \* RCC APB1ENR.PWREN
    vos, vosrdy,        \* CR.VOS as the scale's number; CSR.VOSRDY
    oden, odrdy,        \* CR.ODEN, CSR.ODRDY
    odswen, odswrdy,    \* CR.ODSWEN, CSR.ODSWRDY
    dropped             \* history: did the hardware ignore a store to PWR_CR

pwrVars == <<pwren, vos, vosrdy, oden, odrdy, odswen, odswrdy, dropped>>
overdriveVars == <<oden, odrdy, odswen, odswrdy>>

Scales == 1..3

PwrFns == {"rccPwrClockEnable", "pwrSetVoltageScale",
           "pwrWaitVoltageScaleReady", "pwrEnableOverdrive"}
PwrPlaces == {"pollVos", "recheckVos", "pollOd", "recheckOd",
              "odswen", "pollOdsw", "recheckOdsw"}

\* Scale 1 is the reset value of CR.VOS.
PwrInit ==
    /\ pwren = FALSE
    /\ vos = 1 /\ vosrdy = FALSE
    /\ oden = FALSE /\ odrdy = FALSE
    /\ odswen = FALSE /\ odswrdy = FALSE
    /\ dropped = FALSE

-----------------------------------------------------------------------------
rccPwrClockEnable ==
    /\ Answer("rccPwrClockEnable", "OK", TRUE)
    /\ pwren' = TRUE
    /\ UNCHANGED <<rccVars, vos, vosrdy, overdriveVars, dropped>>

pwrSetVoltageScale(scale) ==
    /\ UNCHANGED <<rccVars, pwren, vosrdy, overdriveVars>>
    /\ \/ /\ scale \notin Scales
          /\ Answer("pwrSetVoltageScale", "INVALID_PARAM", FALSE)
          /\ UNCHANGED <<vos, dropped>>
       \/ /\ scale \in Scales
          /\ Answer("pwrSetVoltageScale", "OK", TRUE)
          /\ LET taken == pwren /\ ~on["PLL"]
             IN  /\ vos' = IF taken THEN scale ELSE vos
                 /\ dropped' = (dropped \/ ~taken)

-----------------------------------------------------------------------------
\* pwrWaitCsrFlag() on the flag named by the places of the wait.
WaitCsrFlag(flag, poll, recheck, next) ==
    /\ UNCHANGED <<rccVars, pwrVars>>
    /\ \/ at = poll /\ Poll(flag, recheck)
       \/ at = recheck /\ Recheck(flag, next)

pwrWaitVoltageScaleReady ==
    /\ Enter("pwrWaitVoltageScaleReady", "pollVos", FALSE)
    /\ UNCHANGED <<rccVars, pwrVars>>

WaitVos == WaitCsrFlag(vosrdy, "pollVos", "recheckVos", "returned")

pwrEnableOverdrive ==
    /\ Enter("pwrEnableOverdrive", "pollOd", TRUE)
    /\ oden' = (oden \/ pwren)
    /\ dropped' = (dropped \/ ~pwren)
    /\ UNCHANGED <<rccVars, pwren, vos, vosrdy, odrdy, odswen, odswrdy>>

WaitOd == WaitCsrFlag(odrdy, "pollOd", "recheckOd", "odswen")

\* ODSWEN only after ODRDY confirms ODEN.
SetOdswen ==
    /\ at = "odswen"
    /\ GoTo("pollOdsw", TRUE)
    /\ odswen' = (odswen \/ pwren)
    /\ dropped' = (dropped \/ ~pwren)
    /\ UNCHANGED <<rccVars, pwren, vos, vosrdy, oden, odrdy, odswrdy>>

WaitOdsw == WaitCsrFlag(odswrdy, "pollOdsw", "recheckOdsw", "returned")

PwrDriver == WaitVos \/ WaitOd \/ SetOdswen \/ WaitOdsw

-----------------------------------------------------------------------------
(* The regulator.                                                           *)

VosReady ==
    /\ pwren /\ on["PLL"] /\ ~vosrdy
    /\ vosrdy' = TRUE
    /\ UNCHANGED <<callVars, rccVars, pwren, vos, overdriveVars, dropped>>

OdReady ==
    /\ oden /\ ~odrdy
    /\ odrdy' = TRUE
    /\ UNCHANGED <<callVars, rccVars, pwren, vos, vosrdy, oden, odswen, odswrdy, dropped>>

OdswReady ==
    /\ odswen /\ odrdy /\ ~odswrdy
    /\ odswrdy' = TRUE
    /\ UNCHANGED <<callVars, rccVars, pwren, vos, vosrdy, oden, odrdy, odswen, dropped>>

PwrHardware == VosReady \/ OdReady \/ OdswReady

\* Highest HCLK the regulator carries, in MHz (pwr.h 19-25).  Until VOSRDY it
\* still runs at scale 3.
MaxHclk ==
    LET scale == IF vosrdy THEN vos ELSE 3
    IN  CASE scale = 1 -> IF odswrdy THEN 180 ELSE 168
          [] scale = 2 -> IF odswrdy THEN 168 ELSE 144
          [] OTHER     -> 120

PwrTypeOK ==
    /\ {pwren, vosrdy, oden, odrdy, odswen, odswrdy, dropped} \subseteq BOOLEAN
    /\ vos \in Scales
=============================================================================
