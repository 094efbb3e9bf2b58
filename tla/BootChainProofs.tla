-------------------------- MODULE BootChainProofs --------------------------
(***************************************************************************)
(* Proofs about BootChain and about Faults within it, for a main stack     *)
(* alone or with tasks, whether the clock bring-up can fail or not, and    *)
(* for any number of resets from outside.                                  *)
(***************************************************************************)
EXTENDS BootChain, TLAPS

Watchdogs == {"IWDG", "WWDG"}

-----------------------------------------------------------------------------
(* The inductive invariant.                                                 *)

TypeInv ==
    /\ at \in PlaceNames
    /\ flags \subseteq {"POR", "BOR", "PIN"} \union Watchdogs
    /\ boot \in {"FIRST", "AFTER_IWDG", "AFTER_WWDG"}
    /\ cause \in Watchdogs \union {"other"}
    /\ failed \in BOOLEAN /\ iwdg \in BOOLEAN /\ wwdg \in BOOLEAN
    /\ hclkMhz \in {16, 180}
    /\ presses \in 0..MaxPresses

(* Until a boot clears them the flags show the one watchdog that bit since  *)
(* they were cleared last: no watchdog runs so early that a second one      *)
(* could bite before.                                                       *)
FlagsInv ==
    /\ at \in BeforeClear =>
           /\ flags \intersect Watchdogs = {cause} \ {"other"}
           /\ mode = "program" /\ ~iwdg /\ ~wwdg
    /\ at \notin BeforeClear => flags = {}

\* The place of a boot, and what follows from it.
PlaceInv ==
    /\ at = "flags" => boot = "FIRST"
    /\ PlaceFromLastReset
    /\ iwdg => boot = "FIRST"
    /\ wwdg => boot = "AFTER_IWDG"
    /\ at = "checkWwdg" => boot = "AFTER_IWDG"
    /\ at = "checkIwdg" => boot = "FIRST"
    /\ cause = "IWDG" => before = "FIRST"
    /\ cause = "WWDG" => before = "AFTER_IWDG"

\* Only the first boot gets to the IWDG's reset, only the second to the WWDG's.
ProvokeInv ==
    /\ at \in {"holdOff", "starve"} => boot = "FIRST"
    /\ at = "violate" => boot = "AFTER_IWDG"

Lost == {{}, {"STKERR"}, {"MSTKERR"}}

\* A fault: what the core has set when it enters the handler.
Entered(bit, lost) ==
    /\ cfsr = {bit} \union lost
    /\ active \in {HardFault} \union {ClassOf(b) : b \in cfsr}
    /\ excReturn \in {"MSP", "PSP"}
    /\ frames[excReturn] = IF lost = {} THEN "program" ELSE "nothing"

FaultInv ==
    /\ mode \in {"program", "handler", "spin"}
    /\ DOMAIN frames = {"MSP", "PSP"}
    /\ mode = "program" => cfsr = {} /\ record = Zero
    /\ mode = "handler" =>
           record = Zero /\ \E bit \in Causes, lost \in Lost : Entered(bit, lost)
    /\ FaultRecorded

IInv == TypeInv /\ FlagsInv /\ PlaceInv /\ ProvokeInv /\ FaultInv

-----------------------------------------------------------------------------
(* The driver of faults.                                                    *)

\* The status bits the program's faults set, and those a lost frame adds.
LEMMA Bits ==
    /\ \A bit \in Causes : ClassOf(bit) \in {MemManage, BusFault, UsageFault}
    /\ \A bit \in Causes : bit # "STKERR" /\ bit # "MSTKERR"
    /\ Lost = {{}, {"STKERR"}, {"MSTKERR"}}
BY DEF Causes, ClassOf, Lost

\* A reset leaves no fault behind.
LEMMA ResetFaults == ASSUME FaultReset PROVE FaultInv' /\ mode' = "program"
BY DEF FaultReset, FaultInv, FaultRecorded

\* A fault strikes.
LEMMA HitFaults ==
    ASSUME FaultInv, NEW c \in Causes, FaultHits(c)
    PROVE  FaultInv' /\ mode' = "handler"
<1>1. mode = "program" /\ mode' = "handler" /\ cfsr = {} /\ record' = Zero
  BY DEF FaultHits, FaultInv
<1>2. PICK stack \in Stacks, lost \in Lost, escalated \in BOOLEAN :
           /\ cfsr' = cfsr \union {c} \union lost
           /\ active' \in {IF faultsOn /\ ~escalated THEN ClassOf(bit) ELSE HardFault :
                              bit \in {c} \union lost}
           /\ frames' = [frames EXCEPT ![stack] = IF lost = {} THEN "program" ELSE "nothing"]
           /\ excReturn' = stack
  BY DEF FaultHits, Lost
<1>3. stack \in {"MSP", "PSP"} /\ cfsr' = {c} \union lost
  BY <1>1, <1>2, StacksAssumption
<1>4. active' \in {HardFault} \union {ClassOf(b) : b \in cfsr'}
  BY <1>2, <1>3
<1>5. /\ frames'[excReturn'] = IF lost = {} THEN "program" ELSE "nothing"
      /\ DOMAIN frames' = {"MSP", "PSP"}
  BY <1>2, <1>3 DEF FaultInv
<1>6. \E bit \in Causes, l \in Lost : Entered(bit, l)'
  BY <1>2, <1>3, <1>4, <1>5 DEF Entered
<1> QED
  BY <1>1, <1>5, <1>6 DEF FaultInv, FaultRecorded

\* The handler records the frame if there is one, and does not fault itself.
LEMMA CaptureFaults ==
    ASSUME FaultInv, faultCapture
    PROVE  FaultInv' /\ mode' = "spin"
<1>1. mode = "handler" /\ record = Zero
  BY DEF faultCapture, FaultInv
<1>2. PICK bit \in Causes, lost \in Lost : Entered(bit, lost)
  BY <1>1 DEF FaultInv
<1>3. FrameValid(cfsr) <=> lost = {}
  BY <1>2, Bits DEF FrameValid, Entered
<1>4. frames[FrameStack(excReturn)] = IF lost = {} THEN "program" ELSE "nothing"
  BY <1>2 DEF FrameStack, Entered
<1>5. ~(FrameValid(cfsr) /\ frames[FrameStack(excReturn)] = "nothing")
  BY <1>3, <1>4
<1>6. /\ mode' = "spin"
      /\ record' = [exception |-> active, cfsr |-> cfsr,
                    frame |-> IF lost = {} THEN "program" ELSE "nothing"]
      /\ UNCHANGED <<faultsOn, cfsr, active, frames, excReturn>>
  <2>1. /\ mode' = "spin"
        /\ record' = [exception |-> active, cfsr |-> cfsr,
                      frame |-> IF FrameValid(cfsr) THEN frames[FrameStack(excReturn)] ELSE "nothing"]
        /\ UNCHANGED <<faultsOn, cfsr, active, frames, excReturn>>
    BY <1>5 DEF faultCapture
  <2>2. (IF FrameValid(cfsr) THEN frames[FrameStack(excReturn)] ELSE "nothing")
            = IF lost = {} THEN "program" ELSE "nothing"
    BY <1>3, <1>4
  <2> QED
    BY <2>1, <2>2
<1>7. /\ record'.exception = active /\ record'.cfsr = cfsr
      /\ record'.frame = IF lost = {} THEN "program" ELSE "nothing"
  BY <1>6
<1>8. cfsr \subseteq {bit, "STKERR", "MSTKERR"} /\ (cfsr \subseteq Causes <=> lost = {})
  BY <1>2, Bits DEF Entered
<1>9. (record'.frame = "program") <=> (record'.cfsr \subseteq Causes)
  BY <1>7, <1>8
<1>10. FaultRecorded'
  <2>1. record'.exception \in {HardFault} \union {ClassOf(b) : b \in record'.cfsr}
    BY <1>2, <1>7 DEF Entered
  <2>2. \E c \in Causes : record'.cfsr \subseteq {c, "STKERR", "MSTKERR"}
    BY <1>7, <1>8
  <2> QED
    BY <1>6, <1>9, <2>1, <2>2 DEF FaultRecorded
<1> QED
  BY <1>6, <1>10 DEF FaultInv

-----------------------------------------------------------------------------
(* Resets.                                                                  *)

\* A restart begins a boot that has not looked at the flags yet.
LEMMA RestartInv ==
    ASSUME IInv, NEW newFlags, Restart(newFlags),
           newFlags \subseteq {"POR", "BOR", "PIN"} \union Watchdogs,
           presses' \in 0..MaxPresses, cause' \in Watchdogs \union {"other"},
           newFlags \intersect Watchdogs = {cause'} \ {"other"},
           cause' = "IWDG" => before' = "FIRST", cause' = "WWDG" => before' = "AFTER_IWDG"
    PROVE  IInv'
<1>1. /\ FaultReset /\ flags' = newFlags
      /\ at' = "flags" /\ boot' = "FIRST" /\ failed' = FALSE /\ hclkMhz' = 16
      /\ iwdg' = FALSE /\ wwdg' = FALSE
  BY DEF Restart
<1>2. FaultInv' /\ mode' = "program"
  BY <1>1, ResetFaults
<1>3. TypeInv'
  BY <1>1 DEF TypeInv, PlaceNames
<1>4. FlagsInv' /\ PlaceInv' /\ ProvokeInv'
  BY <1>1, <1>2 DEF FlagsInv, PlaceInv, ProvokeInv, BeforeClear, PlaceFromLastReset
<1> QED
  BY <1>2, <1>3, <1>4 DEF IInv

\* The button resets the chip, or it loses power.
LEMMA PressInv == IInv /\ Press => IInv'
<1> SUFFICES ASSUME IInv, Press PROVE IInv'
  OBVIOUS
<1>1. TypeInv /\ FlagsInv /\ PlaceInv
  BY DEF IInv
<1>2. presses' \in 0..MaxPresses
  BY <1>1, BootAssumption DEF Press, TypeInv
<1>3. flags \union {"PIN"} \subseteq {"POR", "BOR", "PIN"} \union Watchdogs
      /\ PowerOn \subseteq {"POR", "BOR", "PIN"} \union Watchdogs
  BY <1>1 DEF TypeInv, PowerOn
\* The flags, and the history with them, are those of the boot cut short.
<1>4. CASE PinReset /\ at \in BeforeClear
  <2>1. Restart(flags \union {"PIN"}) /\ UNCHANGED <<cause, before>>
    BY <1>4 DEF PinReset, history
  <2>2. (flags \union {"PIN"}) \intersect Watchdogs = {cause'} \ {"other"}
    BY <1>1, <1>4, <2>1 DEF FlagsInv, Watchdogs
  <2> QED
    BY <1>1, <1>2, <1>3, <2>1, <2>2, RestartInv DEF TypeInv, PlaceInv
\* No flag of a watchdog is left.
<1>5. ASSUME NEW new \in {flags \union {"PIN"}, PowerOn}, Restart(new), Forgotten,
             new = PowerOn \/ at \notin BeforeClear
      PROVE  IInv'
  <2>1. cause' = "other" /\ cause' \notin Watchdogs
    BY <1>5 DEF Forgotten, Watchdogs
  <2>2. new \intersect Watchdogs = {cause'} \ {"other"}
    BY <1>1, <1>5, <2>1 DEF FlagsInv, Watchdogs, PowerOn
  <2> QED
    BY <1>2, <1>3, <1>5, <2>1, <2>2, RestartInv
<1> QED
  BY <1>4, <1>5, Zenon DEF Press, PinReset, SupplyReset

\* A watchdog bites in a boot that has cleared the flags.
LEMMA BiteInv ==
    ASSUME IInv, NEW name, NEW how, WatchdogReset(name, how), at \notin BeforeClear,
           \/ name = "IWDG" /\ boot = "FIRST"
           \/ name = "WWDG" /\ boot = "AFTER_IWDG"
    PROVE  IInv'
<1>1. TypeInv /\ FlagsInv
  BY DEF IInv
<1>2. Restart(flags \union {name, "PIN"}) /\ presses' = presses
      /\ cause' = name /\ before' = boot
  BY DEF WatchdogReset
<1>3. name \in Watchdogs /\ name # "other"
  BY DEF Watchdogs
<1>4. flags = {}
  BY <1>1 DEF FlagsInv
<1>5. (flags \union {name, "PIN"}) \intersect Watchdogs = {cause'} \ {"other"}
  BY <1>2, <1>3, <1>4 DEF Watchdogs
<1>6. flags \union {name, "PIN"} \subseteq {"POR", "BOR", "PIN"} \union Watchdogs
  BY <1>3, <1>4
<1>7. (cause' = "IWDG" => before' = "FIRST") /\ (cause' = "WWDG" => before' = "AFTER_IWDG")
  BY <1>2
<1> QED
  BY <1>1, <1>2, <1>3, <1>5, <1>6, <1>7, RestartInv DEF TypeInv

-----------------------------------------------------------------------------
(* main().                                                                  *)

\* A step of main() that no fault and no watchdog has a part in.
LEMMA ProgramStep ==
    ASSUME IInv, UNCHANGED <<presses, cause, before>>,
           UNCHANGED <<mode, cfsr, active, frames, excReturn, record>>,
           mode = "program", at' \in PlaceNames \ BeforeClear, flags' = {}, boot' = boot,
           failed' \in BOOLEAN, iwdg' \in BOOLEAN, wwdg' \in BOOLEAN, hclkMhz' \in {16, 180},
           at # "flags",
           iwdg' => boot = "FIRST", wwdg' => boot = "AFTER_IWDG",
           at' = "checkWwdg" => boot = "AFTER_IWDG", at' = "checkIwdg" => boot = "FIRST",
           at' \in {"holdOff", "starve"} => boot = "FIRST", at' = "violate" => boot = "AFTER_IWDG"
    PROVE  IInv'
<1>1. TypeInv /\ FlagsInv /\ PlaceInv /\ ProvokeInv /\ FaultInv
  BY DEF IInv
<1>2. TypeInv'
  BY <1>1 DEF TypeInv
<1>3. FlagsInv'
  BY DEF FlagsInv
<1>4. PlaceInv'
  BY <1>1 DEF PlaceInv, PlaceFromLastReset, BeforeClear
<1>5. ProvokeInv'
  BY <1>1 DEF ProvokeInv
<1>6. FaultInv'
  BY <1>1 DEF FaultInv, FaultRecorded, Entered
<1> QED
  BY <1>2, <1>3, <1>4, <1>5, <1>6 DEF IInv

\* The place a boot takes is what the flags say.
LEMMA ReadFlagsInv == IInv /\ ReadFlags => IInv'
<1> SUFFICES ASSUME IInv, ReadFlags PROVE IInv'
  OBVIOUS
<1>1. TypeInv /\ FlagsInv /\ PlaceInv /\ ProvokeInv /\ FaultInv
  BY DEF IInv
<1>2. /\ at = "flags" /\ mode = "program" /\ at' = "clear" /\ boot' = smokeBoot(flags)
      /\ UNCHANGED <<flags, failed, hclkMhz, iwdg, wwdg, presses, cause, provoker, before>>
      /\ UNCHANGED <<mode, faultsOn, cfsr, active, frames, excReturn, record>>
  BY DEF ReadFlags, Running, faultVars, history
<1>3. flags \intersect Watchdogs = {cause} \ {"other"} /\ ~iwdg /\ ~wwdg
  BY <1>1, <1>2 DEF FlagsInv, BeforeClear
<1>4. boot' = CASE cause = "IWDG" -> "AFTER_IWDG"
                [] cause = "WWDG" -> "AFTER_WWDG"
                [] OTHER -> "FIRST"
  <2>1. cause \in {"IWDG", "WWDG", "other"}
    BY <1>1 DEF TypeInv, Watchdogs
  <2>2. ("WWDG" \in flags <=> cause = "WWDG") /\ ("IWDG" \in flags <=> cause = "IWDG")
    BY <1>3, <2>1 DEF Watchdogs
  <2> QED
    BY <1>2, <2>1, <2>2 DEF smokeBoot
<1>5. TypeInv'
  BY <1>1, <1>2, <1>4 DEF TypeInv, PlaceNames
<1>6. FlagsInv' /\ ProvokeInv'
  BY <1>1, <1>2, <1>3 DEF FlagsInv, ProvokeInv, BeforeClear
<1>7. PlaceInv'
  BY <1>1, <1>2, <1>3, <1>4 DEF PlaceInv, PlaceFromLastReset
<1>8. FaultInv'
  BY <1>1, <1>2 DEF FaultInv, FaultRecorded, Entered
<1> QED
  BY <1>5, <1>6, <1>7, <1>8 DEF IInv

\* The steps from the clearing of the flags to the verdict.
LEMMA MainInv ==
    ASSUME IInv,
           \/ rccClearResetFlags \/ EnableFaults \/ BringUp \/ Checks
           \/ StartIwdg \/ StartWwdg \/ Verdict \/ (Running("holdOff") /\ HeldOff)
           \/ (Running("starve") \/ Running("violate")) /\ NothingFired
    PROVE  IInv'
<1>1. TypeInv /\ FlagsInv /\ PlaceInv /\ ProvokeInv /\ FaultInv
  BY DEF IInv
<1>2. \A place : Running(place) => at = place /\ mode = "program"
  BY DEF Running
<1>3. \A p : p \notin {"flags", "clear"} => p \notin BeforeClear
  BY DEF BeforeClear
<1>4. at \notin BeforeClear => flags = {}
  BY <1>1 DEF FlagsInv
<1> USE DEF faultVars, history, TypeInv, PlaceNames
<1>5. CASE rccClearResetFlags
  <2>1. /\ at = "clear" /\ mode = "program" /\ at' = "enable" /\ flags' = {}
        /\ ~iwdg /\ ~wwdg
        /\ UNCHANGED <<boot, failed, hclkMhz, iwdg, wwdg, presses, history, faultVars>>
    BY <1>1, <1>2, <1>5 DEF rccClearResetFlags, FlagsInv, BeforeClear
  <2> QED
    BY <1>1, <1>3, <2>1, ProgramStep
<1>6. CASE EnableFaults
  <2>1. /\ at = "enable" /\ mode = "program" /\ at' = "clocks"
        /\ UNCHANGED <<flags, boot, failed, hclkMhz, iwdg, wwdg, presses, history>>
        /\ UNCHANGED <<mode, cfsr, active, frames, excReturn, record>>
    BY <1>2, <1>6 DEF EnableFaults, faultEnable
  <2> QED
    BY <1>1, <1>3, <1>4, <2>1, ProgramStep DEF PlaceInv
<1>7. CASE BringUp
  <2>1. /\ at = "clocks" /\ mode = "program" /\ at' \in {"checks", "dead"}
        /\ failed' \in BOOLEAN /\ hclkMhz' \in {16, 180}
        /\ UNCHANGED <<flags, boot, iwdg, wwdg, presses, history, faultVars>>
    BY <1>1, <1>2, <1>7 DEF BringUp
  <2> QED
    BY <1>1, <1>3, <1>4, <2>1, ProgramStep DEF PlaceInv
<1>8. CASE Checks
  <2>1. /\ at = "checks" /\ mode = "program"
        /\ at' = CASE boot = "FIRST" -> "checkIwdg"
                   [] boot = "AFTER_IWDG" -> "checkWwdg"
                   [] OTHER -> "verdict"
        /\ failed' \in BOOLEAN
        /\ UNCHANGED <<flags, boot, hclkMhz, iwdg, wwdg, presses, history, faultVars>>
    BY <1>1, <1>2, <1>8 DEF Checks
  <2>2. /\ at' \in {"checkIwdg", "checkWwdg", "verdict"}
        /\ (at' = "checkWwdg" => boot = "AFTER_IWDG") /\ (at' = "checkIwdg" => boot = "FIRST")
    BY <1>1, <2>1
  <2> QED
    BY <1>1, <1>3, <1>4, <2>1, <2>2, ProgramStep DEF PlaceInv
<1>9. CASE StartIwdg
  <2>1. /\ at = "checkIwdg" /\ mode = "program" /\ at' = "holdOff" /\ iwdg' = TRUE
        /\ failed' \in BOOLEAN
        /\ UNCHANGED <<flags, boot, hclkMhz, wwdg, presses, history, faultVars>>
    BY <1>1, <1>2, <1>9 DEF StartIwdg
  <2> QED
    BY <1>1, <1>3, <1>4, <2>1, ProgramStep DEF PlaceInv
<1>10. CASE StartWwdg
  <2>1. /\ at = "checkWwdg" /\ mode = "program" /\ at' = "verdict" /\ wwdg' = TRUE
        /\ failed' \in BOOLEAN
        /\ UNCHANGED <<flags, boot, hclkMhz, iwdg, presses, history, faultVars>>
    BY <1>1, <1>2, <1>10 DEF StartWwdg
  <2> QED
    BY <1>1, <1>3, <1>4, <2>1, ProgramStep DEF PlaceInv
<1>11. CASE Verdict
  <2>1. /\ at = "verdict" /\ mode = "program" /\ at' \in {"starve", "violate", "divide", "blink"}
        /\ (at' = "starve" => boot = "FIRST") /\ (at' = "violate" => boot = "AFTER_IWDG")
        /\ UNCHANGED <<flags, boot, failed, hclkMhz, iwdg, wwdg, presses, history, faultVars>>
    BY <1>2, <1>11 DEF Verdict, Onward, Ends
  <2> QED
    BY <1>1, <1>3, <1>4, <2>1, ProgramStep DEF PlaceInv
<1>12. CASE Running("holdOff") /\ HeldOff
  <2>1. /\ at = "holdOff" /\ mode = "program" /\ at' = "verdict"
        /\ UNCHANGED <<flags, boot, failed, hclkMhz, iwdg, wwdg, presses, history, faultVars>>
    BY <1>2, <1>12 DEF HeldOff
  <2> QED
    BY <1>1, <1>3, <1>4, <2>1, ProgramStep DEF PlaceInv
<1>13. CASE (Running("starve") \/ Running("violate")) /\ NothingFired
  <2>1. /\ at \in {"starve", "violate"} /\ mode = "program" /\ at' \in {"divide", "blink"}
        /\ failed' = TRUE /\ iwdg' \in {iwdg, FALSE} /\ wwdg' \in {wwdg, FALSE}
        /\ UNCHANGED <<flags, boot, hclkMhz, presses, history, faultVars>>
    BY <1>2, <1>13 DEF NothingFired, Ends
  <2>2. iwdg' \in BOOLEAN /\ (iwdg' => boot = "FIRST")
    <3>1. CASE iwdg' = iwdg
      BY <1>1, <3>1 DEF PlaceInv
    <3>2. CASE iwdg' = FALSE
      BY <3>2
    <3> QED
      BY <2>1, <3>1, <3>2
  <2>3. wwdg' \in BOOLEAN /\ (wwdg' => boot = "AFTER_IWDG")
    <3>1. CASE wwdg' = wwdg
      BY <1>1, <3>1 DEF PlaceInv
    <3>2. CASE wwdg' = FALSE
      BY <3>2
    <3> QED
      BY <2>1, <3>1, <3>2
  <2>4. hclkMhz' \in {16, 180}
    BY <1>1, <2>1 DEF TypeInv
  <2> QED
    BY <1>1, <1>3, <1>4, <2>1, <2>2, <2>3, <2>4, ProgramStep DEF PlaceInv
<1> QED
  BY <1>5, <1>6, <1>7, <1>8, <1>9, <1>10, <1>11, <1>12, <1>13

\* The resets of the watchdogs: each comes from the boot that started it.
LEMMA BitesInv ==
    ASSUME IInv,
           \/ Running("holdOff") /\ Bites
           \/ Running("starve") /\ WatchdogReset("IWDG", Standing)
           \/ Running("violate") /\ WatchdogReset("WWDG", Standing)
           \/ SpinBites
    PROVE  IInv'
<1>1. TypeInv /\ FlagsInv /\ PlaceInv /\ ProvokeInv
  BY DEF IInv
<1>2. CASE Running("holdOff") /\ Bites
  <2>1. at = "holdOff" /\ \E how : WatchdogReset("IWDG", how)
    BY <1>2 DEF Running, Bites
  <2> QED
    BY <1>1, <2>1, BiteInv DEF BeforeClear, ProvokeInv
<1>3. CASE Running("starve") /\ WatchdogReset("IWDG", Standing)
  BY <1>1, <1>3, BiteInv DEF Running, BeforeClear, ProvokeInv
<1>4. CASE Running("violate") /\ WatchdogReset("WWDG", Standing)
  BY <1>1, <1>4, BiteInv DEF Running, BeforeClear, ProvokeInv
<1>5. CASE SpinBites
  <2>1. /\ mode = "spin"
        /\ \/ iwdg /\ \E how : WatchdogReset("IWDG", how)
           \/ wwdg /\ \E how : WatchdogReset("WWDG", how)
    BY <1>5 DEF SpinBites
  <2>2. at \notin BeforeClear
    BY <1>1, <2>1 DEF FlagsInv
  <2> QED
    BY <1>1, <2>1, <2>2, BiteInv DEF PlaceInv
<1> QED
  BY <1>2, <1>3, <1>4, <1>5

\* A fault, and its capture.
LEMMA FaultInvariant ==
    ASSUME IInv, Divide \/ Strikes \/ Capture
    PROVE  IInv'
<1>1. TypeInv /\ FlagsInv /\ PlaceInv /\ ProvokeInv /\ FaultInv
  BY DEF IInv
<1>2. /\ UNCHANGED <<flags, at, boot, failed, hclkMhz, iwdg, wwdg, presses>>
      /\ UNCHANGED <<cause, provoker, before>>
  BY DEF Divide, Strikes, Capture, bootVars, history
<1>3. at \notin BeforeClear
  <2>1. Capture => mode = "handler"
    BY DEF Capture, faultCapture
  <2> QED
    BY <1>1, <2>1 DEF Divide, Running, Strikes, BeforeClear, FlagsInv
<1>4. FaultInv'
  <2>1. "DIVBYZERO" \in Causes
    BY DEF Causes
  <2> QED
    BY <1>1, <2>1, HitFaults, CaptureFaults DEF Divide, Strikes, Capture
<1>5. TypeInv' /\ FlagsInv' /\ PlaceInv' /\ ProvokeInv'
  BY <1>1, <1>2, <1>3 DEF TypeInv, FlagsInv, PlaceInv, ProvokeInv, PlaceFromLastReset
<1> QED
  BY <1>4, <1>5 DEF IInv

-----------------------------------------------------------------------------
(* What holds in every behaviour.                                           *)

LEMMA InitInv == Init => IInv
<1> SUFFICES ASSUME Init PROVE IInv
  OBVIOUS
<1>1. FaultInv
  BY DEF Init, FaultInit, FaultInv, FaultRecorded
<1>2. TypeInv
  <2>1. 0 \in 0..MaxPresses
    BY BootAssumption
  <2> QED
    BY <2>1, Zenon DEF Init, PowerOn, TypeInv, PlaceNames, Watchdogs
<1>3. FlagsInv /\ PlaceInv /\ ProvokeInv
  BY DEF Init, FaultInit, PowerOn, FlagsInv, PlaceInv, ProvokeInv, PlaceFromLastReset, Watchdogs,
         BeforeClear
<1> QED
  BY <1>1, <1>2, <1>3 DEF IInv

LEMMA NextInv == IInv /\ [Next]_vars => IInv'
<1> SUFFICES ASSUME IInv, [Next]_vars PROVE IInv'
  OBVIOUS
<1>1. CASE Program
  BY <1>1, ReadFlagsInv, MainInv, BitesInv, FaultInvariant
     DEF Program, HoldOff, Starve, Violate
<1>2. CASE Press
  BY <1>2, PressInv
<1>3. CASE Strikes
  BY <1>3, FaultInvariant
<1>4. CASE UNCHANGED vars
  BY <1>4
     DEF vars, bootVars, history, faultVars, IInv, TypeInv, FlagsInv, PlaceInv, ProvokeInv, FaultInv,
         PlaceFromLastReset, FaultRecorded, Entered
<1> QED
  BY <1>1, <1>2, <1>3, <1>4 DEF Next

\* The inductive invariant holds in every behaviour.
THEOREM Invariance == Spec => []IInv
<1>1. IInv /\ [Next]_vars => IInv'
  BY NextInv
<1> QED
  BY InitInv, <1>1, PTL DEF Spec

(* Places, flags and modes keep to their ranges, and a watchdog runs only   *)
(* in a boot that starts it.                                                *)
THEOREM TypeCorrect == Spec => []TypeOK
<1>1. IInv => TypeOK
  BY DEF IInv, TypeInv, FlagsInv, PlaceInv, FaultInv, TypeOK, Watchdogs
<1> QED
  BY Invariance, <1>1, PTL

(* smoke.c, smokeBoot(): a boot stands after the watchdog whose reset was   *)
(* the last, and at the start of the chain after any other.                 *)
THEOREM PlaceIsRight == Spec => []PlaceFromLastReset
<1>1. IInv => PlaceFromLastReset
  BY DEF IInv, PlaceInv
<1> QED
  BY Invariance, <1>1, PTL

(* smoke.c 15-21: a boot that reports itself after the WWDG's reset follows *)
(* one after the IWDG's, which follows a first one, whatever fails, faults  *)
(* or is pressed in between.                                                *)
THEOREM NoneSkipped == Spec => []NoBootSkipped
<1>1. IInv => NoBootSkipped
  BY DEF IInv, TypeInv, PlaceInv, PlaceFromLastReset, NoBootSkipped, Watchdogs
<1> QED
  BY Invariance, <1>1, PTL

(* fault.c, faultCapture(): a fault is recorded with the registers of the   *)
(* program or with none, and the handler does not fault.                    *)
THEOREM FaultsRecorded == Spec => []FaultRecorded
<1>1. IInv => FaultRecorded
  BY DEF IInv, FaultInv
<1> QED
  BY Invariance, <1>1, PTL
=============================================================================
