-------------------------------- MODULE Wwdg --------------------------------
(***************************************************************************)
(* The window watchdog driver (drivers/src/wwdg.c), its peripheral, and    *)
(* the interrupt that refreshes it (WWDG_IRQHandler of the on-target smoke *)
(* test, the pattern of wwdg.h).                                           *)
(*                                                                         *)
(* The counter runs from the moment its clock is on, started or not, and   *)
(* sets EWIF each time it passes its middle.  Once started, the next count *)
(* after the middle resets the chip, and so does a refresh that comes      *)
(* while the counter is above the window.  Main program and handler share  *)
(* one processor: the handler may come between any two stores of the main  *)
(* program, a count may end between any two steps of either.               *)
(***************************************************************************)
EXTENDS DriverCall

CONSTANTS
    Middle,         \* WWDG_COUNTER_MIN, 0x40: the counter is 0..2 * Middle - 1
    HandsOver       \* may the main program refresh first and leave it to the handler later

ASSUME WwdgAssumption ==
    /\ Middle \in Nat /\ Middle > 1
    /\ HandsOver \in BOOLEAN

MaxCount == 2 * Middle - 1      \* WWDG_COUNTER_MAX

VARIABLES
    clk,        \* RCC APB1ENR.WWDGEN
    wdga, t,    \* CR.WDGA, CR.T
    w,          \* CFR.W
    ewi, ewif,  \* CFR.EWI, SR.EWIF
    enabled,    \* NVIC ISER of WWDG_IRQn
    pend,       \* NVIC: the interrupt is pending
    isr,        \* where WWDG_IRQHandler is, "none" outside it
    argW, argC, \* local: window and counter
    cause,      \* what resets the chip, "none" as long as nothing does
    prompt,     \* history: the last count to end raised the interrupt
    served,     \* history: the handler was in charge before the middle was reached
    refreshed   \* history: has the main program refreshed since EWIF was last cleared

watchdogVars == <<clk, wdga, t, w, ewi, ewif, cause>>
irqVars == <<enabled, pend, isr>>
argVars == <<argW, argC>>
historyVars == <<prompt, served, refreshed>>
vars == <<callVars, clk, wdga, t, w, ewi, ewif, cause, irqVars, argVars, historyVars>>

Init ==
    /\ CallInit
    /\ clk = FALSE
    /\ wdga = FALSE /\ t = MaxCount
    /\ w = MaxCount
    /\ ewi = FALSE /\ ewif = FALSE
    /\ enabled = FALSE /\ pend = FALSE
    /\ isr = "none"
    /\ argW = MaxCount /\ argC = MaxCount
    /\ cause = "none"
    /\ prompt = FALSE /\ served = FALSE /\ refreshed = FALSE

-----------------------------------------------------------------------------
(* Registers.                                                               *)

\* CR = WDGA | c.  On a running watchdog it is a refresh, checked against the window.
StoreCr(c) ==
    /\ wdga' = TRUE
    /\ t' = c
    /\ cause' = IF wdga /\ t > w THEN "window" ELSE cause

\* The request to the NVIC follows EWI and EWIF; a rise of it leaves the interrupt
\* pending, also when the flag is cleared before the interrupt is taken.
Line == ewi /\ ewif

-----------------------------------------------------------------------------
(* The driver, called by the main program.                                  *)

ValidCount(c) == c \in Middle..MaxCount

rccWwdgClockEnable ==
    /\ Answer("rccWwdgClockEnable", "OK", TRUE)
    /\ clk' = TRUE
    /\ UNCHANGED <<wdga, t, w, ewi, ewif, cause, irqVars, argVars, historyVars>>

\* Mutant: the counter is started before the window is in place.
StartBeforeWindow(timebase, window, counter) ==
    /\ UNCHANGED <<irqVars, historyVars, clk, ewi, ewif>>
    /\ \/ /\ ~timebase \/ ~ValidCount(window) \/ ~ValidCount(counter)
          /\ Answer("wwdgStart", "INVALID_PARAM", FALSE)
          /\ UNCHANGED <<wdga, t, w, cause, argVars>>
       \/ /\ timebase /\ ValidCount(window) /\ ValidCount(counter)
          /\ Enter("wwdgStart", "cr", TRUE)
          /\ StoreCr(counter)
          /\ argW' = window /\ argC' = counter
          /\ UNCHANGED w

\* timebase: is the prescaler one of WWDG_CFR_WDGTB_DIV*.  CFR is stored, EWI kept.
wwdgStart(timebase, window, counter) ==
    /\ UNCHANGED <<irqVars, historyVars, clk, wdga, t, ewi, ewif, cause>>
    /\ \/ /\ ~timebase \/ ~ValidCount(window) \/ ~ValidCount(counter)
          /\ Answer("wwdgStart", "INVALID_PARAM", FALSE)
          /\ UNCHANGED <<w, argVars>>
       \/ /\ timebase /\ ValidCount(window) /\ ValidCount(counter)
          /\ Enter("wwdgStart", "cr", TRUE)
          /\ w' = window
          /\ argW' = window /\ argC' = counter

StartCounter ==
    /\ at = "cr"
    /\ GoTo("sr", TRUE)
    /\ StoreCr(argC)
    /\ UNCHANGED <<clk, w, ewi, ewif, irqVars, argVars, historyVars>>

\* Mutant: the flag the free-running counter left behind stays.
KeepStaleEwif ==
    /\ at = "sr"
    /\ Return("OK", FALSE)
    /\ UNCHANGED <<watchdogVars, irqVars, argVars, historyVars>>

ClearStaleEwif ==
    /\ at = "sr"
    /\ Return("OK", TRUE)
    /\ ewif' = FALSE
    /\ UNCHANGED <<clk, wdga, t, w, ewi, cause, irqVars, argVars, historyVars>>

\* wwdgRefresh() from the main program: the argument is checked, then stored.
wwdgRefresh(counter) ==
    /\ UNCHANGED <<watchdogVars, irqVars, argW, historyVars>>
    /\ \/ /\ ~ValidCount(counter)
          /\ Answer("wwdgRefresh", "INVALID_PARAM", FALSE)
          /\ UNCHANGED argC
       \/ /\ ValidCount(counter)
          /\ Enter("wwdgRefresh", "refresh", FALSE)
          /\ argC' = counter

StoreRefresh ==
    /\ at = "refresh"
    /\ Return("OK", TRUE)
    /\ StoreCr(argC)
    /\ refreshed' = TRUE
    /\ UNCHANGED <<clk, w, ewi, ewif, irqVars, argVars, prompt, served>>

\* wwdgClearEarlyWakeup() from the main program.
ClearFromMain ==
    /\ Answer("wwdgClearEarlyWakeup", "OK", TRUE)
    /\ ewif' = FALSE
    /\ refreshed' = FALSE
    /\ UNCHANGED <<clk, wdga, t, w, ewi, cause, irqVars, argVars, prompt, served>>

\* The handler is in charge: what it needs is on, before the middle is reached.
InCharge(e, n) == e /\ n /\ t > Middle

wwdgEnableEarlyWakeup ==
    /\ Answer("wwdgEnableEarlyWakeup", "OK", TRUE)
    /\ ewi' = TRUE
    /\ pend' = (pend \/ (ewif /\ ~ewi))
    /\ served' = (served \/ InCharge(TRUE, enabled))
    /\ UNCHANGED <<clk, wdga, t, w, ewif, cause, enabled, isr, argVars, prompt, refreshed>>

nvicEnableIrq ==
    /\ Answer("nvicEnableIrq", "OK", TRUE)
    /\ enabled' = TRUE
    /\ served' = (served \/ InCharge(ewi, TRUE))
    /\ UNCHANGED <<watchdogVars, pend, isr, argVars, prompt, refreshed>>

-----------------------------------------------------------------------------
(* WWDG_IRQHandler: wwdgClearEarlyWakeup(), then wwdgRefresh().             *)

TakeInterrupt ==
    /\ isr = "none" /\ pend /\ enabled
    /\ isr' = "clear"
    /\ pend' = FALSE
    /\ UNCHANGED <<callVars, watchdogVars, enabled, argVars, historyVars>>

\* Mutant: the handler leaves EWIF set.
ClearForgotten ==
    /\ isr = "clear"
    /\ isr' = "refresh"
    /\ UNCHANGED <<callVars, watchdogVars, enabled, pend, argVars, historyVars>>

wwdgClearEarlyWakeup ==
    /\ isr = "clear"
    /\ isr' = "refresh"
    /\ ewif' = FALSE
    /\ UNCHANGED <<callVars, clk, wdga, t, w, ewi, cause, enabled, pend, argVars, historyVars>>

\* The handler refreshes with 0x7F and returns; a request still up is taken again.
HandlerRefresh ==
    /\ isr = "refresh"
    /\ isr' = "none"
    /\ StoreCr(MaxCount)
    /\ pend' = (pend \/ Line)
    /\ UNCHANGED <<callVars, clk, w, ewi, ewif, enabled, argVars, historyVars>>

-----------------------------------------------------------------------------
(* The counter.                                                             *)

\* Serving the interrupt takes less than a count, counted from the end of the
\* count that raised it (91 us or more at 45 MHz).
HandlerDue == isr # "none" \/ (pend /\ enabled)

\* A count ends.  It passes the middle, started or not; past it a started watchdog
\* resets the chip.
CountEnds ==
    /\ clk
    /\ ~(prompt /\ HandlerDue)
    /\ t' = IF t = 0 THEN MaxCount ELSE t - 1
    /\ cause' = IF wdga /\ t <= Middle THEN "timeout" ELSE cause
    /\ ewif' = (ewif \/ t = Middle + 1)
    /\ pend' = (pend \/ (~ewif /\ t = Middle + 1 /\ ewi))
    /\ prompt' = (~ewif /\ t = Middle + 1 /\ ewi /\ enabled)
    /\ UNCHANGED <<callVars, clk, wdga, w, ewi, enabled, isr, argVars, served, refreshed>>

Reboot ==
    /\ CallReset
    /\ clk' = FALSE
    /\ wdga' = FALSE /\ t' = MaxCount
    /\ w' = MaxCount
    /\ ewi' = FALSE /\ ewif' = FALSE
    /\ enabled' = FALSE /\ pend' = FALSE
    /\ isr' = "none"
    /\ argW' = MaxCount /\ argC' = MaxCount
    /\ cause' = "none"
    /\ prompt' = FALSE /\ served' = FALSE /\ refreshed' = FALSE

-----------------------------------------------------------------------------
(* The main program, in the order wwdg.h gives: clock, start, early wakeup  *)
(* and its interrupt.  It refreshes by itself only inside the window and    *)
(* without the early wakeup.  HandsOver says whether it turns the early     *)
(* wakeup on later, with EWIF as its own refreshes left it.                 *)

InsideWindow == t <= w

Main ==
    \/ ~clk /\ rccWwdgClockEnable
    \/ /\ clk /\ ~wdga
       /\ \E timebase \in BOOLEAN, window, counter \in (Middle - 1)..(MaxCount + 1) :
              wwdgStart(timebase, window, counter)
    \/ wdga /\ ~ewi /\ (HandsOver \/ ~refreshed) /\ wwdgEnableEarlyWakeup
    \/ wdga /\ ~enabled /\ nvicEnableIrq
    \/ wdga /\ ~ewi /\ ClearFromMain
    \/ /\ wdga /\ InsideWindow /\ ~ewi
       /\ \E counter \in (Middle - 1)..(MaxCount + 1) : wwdgRefresh(counter)

Driver == StartCounter \/ ClearStaleEwif \/ StoreRefresh

Handler == TakeInterrupt \/ wwdgClearEarlyWakeup \/ HandlerRefresh

Next ==
    \/ cause = "none" /\ isr = "none" /\ ((Idle /\ Main) \/ Driver)
    \/ cause = "none" /\ (Handler \/ CountEnds)
    \/ cause # "none" /\ Reboot

Spec == Init /\ [][Next]_vars

-----------------------------------------------------------------------------
WwdgFns == {"rccWwdgClockEnable", "wwdgStart", "wwdgRefresh",
            "wwdgEnableEarlyWakeup", "wwdgClearEarlyWakeup", "nvicEnableIrq"}

TypeOK ==
    /\ CallTypeOK(WwdgFns, {"cr", "sr", "refresh"})
    /\ clk \in BOOLEAN /\ wdga \in BOOLEAN
    /\ ewi \in BOOLEAN /\ ewif \in BOOLEAN
    /\ enabled \in BOOLEAN /\ pend \in BOOLEAN
    /\ prompt \in BOOLEAN /\ served \in BOOLEAN /\ refreshed \in BOOLEAN
    /\ t \in 0..MaxCount
    /\ w \in Middle..MaxCount
    /\ argW \in Middle..MaxCount /\ argC \in Middle..MaxCount
    /\ isr \in {"none", "clear", "refresh"}
    /\ cause \in {"none", "window", "timeout"}

(* wwdg.c 47-56: a flag set before the start raises no early wakeup "above  *)
(* the window".  No refresh, the handler's or the main program's, ever      *)
(* resets the chip, wherever the counter was when the watchdog was started. *)
WindowRespected == cause # "window"

(* wwdg.h, the usual pattern: once the early wakeup and its interrupt are   *)
(* on before the counter reaches the middle, refreshing from the handler    *)
(* holds the watchdog off for good - no wakeup is missed, none comes twice. *)
HandlerHoldsOff == served => cause = "none"

(* wwdg.h: the window is "in place before the counter starts", whichever    *)
(* way the start and the counter interleave.                                *)
WindowInPlace == wdga => w = argW
=============================================================================
