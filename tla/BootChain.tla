----------------------------- MODULE BootChain -----------------------------
(***************************************************************************)
(* The boots of the on-target smoke test (tests/target/smoke.c, main()).   *)
(* A full run is three boots: the first starves the IWDG, the second       *)
(* refreshes the WWDG above its window, and each boot takes its place in   *)
(* the chain from the reset flags, which accumulate until they are         *)
(* cleared.  Resets can come at any point, checks can fail, and so can the *)
(* clock bring-up; faults are those of Faults.                             *)
(***************************************************************************)
EXTENDS Faults

CONSTANTS
    ClockFails,     \* whether bspClockInit() may fail
    SMOKE_FAULT,    \* the values of the build option looked at, of {0, 1}
    MaxPresses      \* bound: resets from the pin or the supply

ASSUME BootAssumption ==
    /\ ClockFails \in BOOLEAN /\ SMOKE_FAULT \subseteq {0, 1} /\ MaxPresses \in Nat

VARIABLES
    flags,      \* RCC_CSR's reset flags
    at,         \* place in main()
    boot,       \* its local
    failed,     \* checks_failed # 0
    hclkMhz,    \* what the core really runs at
    iwdg, wwdg, \* the watchdogs that run
    presses

\* History, for the properties only.
VARIABLES
    cause,      \* the watchdog whose reset no boot has seen and cleared yet, or "other"
    provoker,   \* how the boot stood that ended in that reset
    before      \* the place in the chain of that boot

history == <<cause, provoker, before>>
bootVars == <<flags, at, boot, failed, hclkMhz, iwdg, wwdg, presses, history>>
vars == <<bootVars, faultVars>>

\* The pin is pulled down by every reset.
PowerOn == {"POR", "BOR", "PIN"}

Init ==
    /\ FaultInit
    /\ flags = PowerOn
    /\ at = "flags" /\ boot = "FIRST"
    /\ failed = FALSE
    /\ hclkMhz = 16
    /\ iwdg = FALSE /\ wwdg = FALSE
    /\ presses = 0
    /\ cause = "other" /\ provoker = "none" /\ before = "none"

-----------------------------------------------------------------------------
(* Resets.                                                                  *)

BeforeClear == {"flags", "clear"}

Restart(newFlags) ==
    /\ FaultReset
    /\ flags' = newFlags
    /\ at' = "flags" /\ boot' = "FIRST" /\ failed' = FALSE
    /\ hclkMhz' = 16
    /\ iwdg' = FALSE /\ wwdg' = FALSE

Forgotten == cause' = "other" /\ provoker' = "none" /\ before' = "none"

\* The button adds its flag to those no boot has cleared yet; a supply that fails
\* clears them.
PinReset ==
    /\ Restart(flags \union {"PIN"})
    /\ IF at \in BeforeClear THEN UNCHANGED history ELSE Forgotten

SupplyReset == Restart(PowerOn) /\ Forgotten

Press ==
    /\ presses < MaxPresses
    /\ presses' = presses + 1
    /\ PinReset \/ SupplyReset

WatchdogReset(name, how) ==
    /\ Restart(flags \union {name, "PIN"})
    /\ cause' = name /\ provoker' = how /\ before' = boot
    /\ UNCHANGED presses

Standing == IF failed THEN "failed" ELSE "clean"

-----------------------------------------------------------------------------
(* main().                                                                  *)

\* Mutant: an IWDG reset is not looked for.
OnlyWwdg(resetFlags) == IF "WWDG" \in resetFlags THEN "AFTER_WWDG" ELSE "FIRST"

smokeBoot(resetFlags) ==
    CASE "WWDG" \in resetFlags -> "AFTER_WWDG"
      [] "WWDG" \notin resetFlags /\ "IWDG" \in resetFlags -> "AFTER_IWDG"
      [] OTHER -> "FIRST"

Running(place) == at = place /\ mode = "program"

ReadFlags ==
    /\ Running("flags")
    /\ at' = "clear"
    /\ boot' = smokeBoot(flags)
    /\ UNCHANGED <<flags, failed, hclkMhz, iwdg, wwdg, presses, history, faultVars>>

\* Mutant: the flags are left to accumulate.
FlagsKept ==
    /\ Running("clear")
    /\ at' = "enable"
    /\ UNCHANGED <<flags, boot, failed, hclkMhz, iwdg, wwdg, presses, history, faultVars>>

\* RMVF clears every flag.
rccClearResetFlags ==
    /\ Running("clear")
    /\ at' = "enable"
    /\ flags' = {}
    /\ UNCHANGED <<boot, failed, hclkMhz, iwdg, wwdg, presses, history, faultVars>>

EnableFaults ==
    /\ Running("enable")
    /\ at' = "clocks"
    /\ faultEnable
    /\ UNCHANGED <<flags, boot, failed, hclkMhz, iwdg, wwdg, presses, history>>

(* bspClockInit(), whose status is a check of its own, and boardIoInit(),   *)
(* which spins when it fails.  A bring-up that fails leaves the HSI or, at  *)
(* its last steps, the PLL.                                                 *)
BringUp ==
    /\ Running("clocks")
    /\ \E ok \in {TRUE, ~ClockFails} :
           /\ failed' = (failed \/ ~ok)
           /\ hclkMhz' \in IF ok THEN {180} ELSE {16, 180}
    /\ at' \in {"checks", "dead"}
    /\ UNCHANGED <<flags, boot, iwdg, wwdg, presses, history, faultVars>>

\* checkClocks() to checkExti(): any of them may fail.
Checks ==
    /\ Running("checks")
    /\ failed' \in {failed, TRUE}
    /\ at' = CASE boot = "FIRST" -> "checkIwdg"
               [] boot = "AFTER_IWDG" -> "checkWwdg"
               [] OTHER -> "verdict"
    /\ UNCHANGED <<flags, boot, hclkMhz, iwdg, wwdg, presses, history, faultVars>>

\* iwdgStart() starts the watchdog whatever its status.
StartIwdg ==
    /\ Running("checkIwdg")
    /\ at' = "holdOff"
    /\ iwdg' = TRUE
    /\ failed' \in {failed, TRUE}
    /\ UNCHANGED <<flags, boot, hclkMhz, wwdg, presses, history, faultVars>>

(* waitMs(300, 20): the timer was set up for 180 MHz, so that 20 ticks last *)
(* 20 ms only if the core runs at that; the watchdog's timeout is 101       *)
(* counts of 32 cycles of an LSI of 17 to 47 kHz.                           *)
RefreshInterval == (20 * 180) \div hclkMhz
Timeouts == {3232 \div kHz : kHz \in 17..47}

\* Mutant: the break after checkIwdg() is missing, so the first boot runs checkWwdg() too.
FallsThrough ==
    /\ \E t \in Timeouts : RefreshInterval < t
    /\ at' = "checkWwdg"
    /\ UNCHANGED <<flags, boot, failed, hclkMhz, iwdg, wwdg, presses, history, faultVars>>

HeldOff ==
    /\ \E t \in Timeouts : RefreshInterval < t
    /\ at' = "verdict"
    /\ UNCHANGED <<flags, boot, failed, hclkMhz, iwdg, wwdg, presses, history, faultVars>>

Bites ==
    /\ \E t \in Timeouts : RefreshInterval >= t
    /\ WatchdogReset("IWDG", IF hclkMhz = 16 THEN "slow" ELSE Standing)

HoldOff == Running("holdOff") /\ (HeldOff \/ Bites)

StartWwdg ==
    /\ Running("checkWwdg")
    /\ at' = "verdict"
    /\ wwdg' = TRUE
    /\ failed' \in {failed, TRUE}
    /\ UNCHANGED <<flags, boot, hclkMhz, iwdg, presses, history, faultVars>>

Ends == {IF option = 1 THEN "divide" ELSE "blink" : option \in SMOKE_FAULT}

\* "The next reset only after a clean boot, so a failure stays on the console."
Onward(to) ==
    \/ ~failed /\ boot = "FIRST" /\ to = "starve"
    \/ ~failed /\ boot = "AFTER_IWDG" /\ to = "violate"
    \/ /\ failed \/ boot = "AFTER_WWDG"
       /\ to \in Ends

Verdict ==
    /\ Running("verdict")
    /\ \E to \in {"starve", "violate", "divide", "blink"} : Onward(to) /\ at' = to
    /\ UNCHANGED <<flags, boot, failed, hclkMhz, iwdg, wwdg, presses, history, faultVars>>

\* A provocation that comes back is a failed check: the watchdog did not fire, and
\* perhaps does not run.
NothingFired ==
    /\ failed' = TRUE
    /\ at' \in Ends
    /\ iwdg' \in {iwdg, FALSE} /\ wwdg' \in {wwdg, FALSE}
    /\ UNCHANGED <<flags, boot, hclkMhz, presses, history, faultVars>>

\* starveIwdg() waits a second without a refresh.
Starve ==
    /\ Running("starve")
    /\ WatchdogReset("IWDG", Standing) \/ NothingFired

\* violateWwdgWindow() refreshes twice in a row.
Violate ==
    /\ Running("violate")
    /\ WatchdogReset("WWDG", Standing) \/ NothingFired

Divide == Running("divide") /\ FaultHits("DIVBYZERO") /\ UNCHANGED bootVars

\* Any code may fault once.
Strikes ==
    /\ at \notin {"flags", "clear", "divide"}
    /\ \E c \in Causes \ {"DIVBYZERO"} : FaultHits(c)
    /\ UNCHANGED bootVars

Capture == faultCapture /\ UNCHANGED bootVars

(* A handler of faults refreshes nothing, and no interrupt comes through.   *)
SpinBites ==
    /\ mode = "spin"
    /\ LET how == IF at = "divide" THEN "divide" ELSE "fault" IN
       \/ iwdg /\ WatchdogReset("IWDG", how)
       \/ wwdg /\ WatchdogReset("WWDG", how)

-----------------------------------------------------------------------------
Program ==
    \/ ReadFlags \/ rccClearResetFlags \/ EnableFaults \/ BringUp \/ Checks
    \/ StartIwdg \/ HoldOff \/ StartWwdg \/ Verdict \/ Starve \/ Violate
    \/ Divide \/ Capture \/ SpinBites

Next == Program \/ Press \/ Strikes

(* The program goes on and the watchdogs bite; nobody need press anything.  *)
Spec == Init /\ [][Next]_vars /\ WF_vars(Program)

-----------------------------------------------------------------------------
PlaceNames ==
    {"flags", "clear", "enable", "clocks", "checks", "dead", "checkIwdg", "holdOff",
     "checkWwdg", "verdict", "starve", "violate", "divide", "blink"}

(* A watchdog runs only in the boot that has got to starting it.            *)
TypeOK ==
    /\ flags \subseteq {"POR", "BOR", "PIN", "IWDG", "WWDG"}
    /\ at \in PlaceNames
    /\ boot \in {"FIRST", "AFTER_IWDG", "AFTER_WWDG"}
    /\ iwdg => boot = "FIRST"
    /\ wwdg => boot = "AFTER_IWDG"
    /\ mode \in {"program", "handler", "spin", "lockup"}
    /\ at \in BeforeClear => mode = "program"
    /\ presses \in 0..MaxPresses

(* smoke.c, smokeBoot(): the boot after a watchdog's reset is the one that  *)
(* comes after it in the chain, also when it is cut short before the flags  *)
(* are cleared and starts again; any other boot starts the chain, whatever  *)
(* resets there were earlier.                                               *)
PlaceFromLastReset ==
    at # "flags" =>
        boot = CASE cause = "IWDG" -> "AFTER_IWDG"
                 [] cause = "WWDG" -> "AFTER_WWDG"
                 [] OTHER -> "FIRST"

(* smoke.c 15-21: the boots of a run come in order.  Whatever boot reports  *)
(* itself as the one after the IWDG's reset, that reset ended a first boot; *)
(* the one after the WWDG's ended a boot after the IWDG's.  No flag left    *)
(* over, no fault under a running watchdog and no reset in between makes a  *)
(* boot skip a part of the chain, so the third report stands for all three. *)
NoBootSkipped ==
    /\ boot = "AFTER_IWDG" => before = "FIRST"
    /\ boot = "AFTER_WWDG" => before = "AFTER_IWDG"

(* smoke.c 23: "A boot provokes the next reset only if all its checks       *)
(* passed".  A fault nobody provoked may end a boot under a running         *)
(* watchdog and is granted.  Two ways past the verdict are not: a hold-off  *)
(* that a slow clock makes too long, and the deliberate divide of           *)
(* SMOKE_FAULT, which a failed boot runs as well (smoke.c 697-708).         *)
OnlyCleanBootsLeadOn == boot # "FIRST" => provoker \in {"clean", "fault"}

(* With nobody pressing any more the chain comes to an end: no boot leads   *)
(* back to one that came before it, and the last one blinks, hangs without  *)
(* a console or holds its fault for the debugger with no watchdog running.  *)
ChainEnds == <>[](at \in {"blink", "dead"} \/ (mode = "spin" /\ ~iwdg /\ ~wwdg))
=============================================================================
