----------------------------- MODULE WwdgProofs -----------------------------
(***************************************************************************)
(* Proofs about Wwdg, for every width of the counter, every window and     *)
(* start value, and a main program that does not hand a counter it         *)
(* refreshed itself over to the handler with EWIF as it is.                *)
(***************************************************************************)
EXTENDS Wwdg, TLAPS

-----------------------------------------------------------------------------
(* The inductive invariant.                                                 *)

\* What the main program has established where it is.
PlaceInv ==
    /\ at = "cr" => ~wdga
    /\ at = "sr" => wdga /\ ~ewi
    /\ at = "refresh" => wdga /\ ~ewi /\ InsideWindow
    /\ ewi => wdga

\* A started counter has not gone past the middle.
CountInv == wdga => t >= Middle

\* The flag and the interrupt are up only from the middle on.
WakeupInv ==
    /\ (wdga /\ ewif /\ ~refreshed /\ at # "sr") => t <= Middle
    /\ (pend \/ isr # "none") => ewi /\ t <= Middle
    /\ isr # "none" => ~pend
    /\ ewi => ~refreshed
    /\ isr = "refresh" => ~ewif

\* A handler in charge is due as soon as the middle is reached, and in time.
ServedInv ==
    served => wdga /\ ewi /\ enabled /\ (t = Middle => prompt /\ HandlerDue)

Watching == PlaceInv /\ CountInv /\ WakeupInv /\ ServedInv

ConfigInv == (wdga \/ at = "cr") => w = argW

IInv ==
    /\ TypeOK
    /\ ConfigInv
    /\ WindowRespected /\ HandlerHoldsOff
    /\ cause = "none" => Watching

-----------------------------------------------------------------------------
\* The middle is below the top of the counter.
LEMMA Counts == Middle \in Nat /\ Middle > 1 /\ MaxCount \in Nat /\ MaxCount > Middle
BY WwdgAssumption DEF MaxCount

\* The wait's counter starts in its range and stays there when it is taken down.
LEMMA Budget ==
    /\ PollBudget \in 0..PollBudget
    /\ \A n \in 0..PollBudget : n > 0 => n - 1 \in 0..PollBudget
BY PollBudgetAssumption

\* The ways a step moves the activation record keep it well formed.
LEMMA RecordMoves ==
    ASSUME CallTypeOK(WwdgFns, {"cr", "sr", "refresh"}),
           \/ \E f \in WwdgFns, s \in DriverStatus, b \in BOOLEAN : Answer(f, s, b)
           \/ \E f \in WwdgFns, label \in {"cr", "sr", "refresh"}, b \in BOOLEAN : Enter(f, label, b)
           \/ \E label \in {"cr", "sr", "refresh"} \union {"returned"}, b \in BOOLEAN : GoTo(label, b)
           \/ \E s \in DriverStatus, b \in BOOLEAN : Return(s, b)
           \/ CallReset
    PROVE  CallTypeOK(WwdgFns, {"cr", "sr", "refresh"})'
<1> USE DEF CallTypeOK
<1>1. CASE \E f \in WwdgFns, s \in DriverStatus, b \in BOOLEAN : Answer(f, s, b)
  BY <1>1, Budget, Zenon DEF Answer
<1>2. CASE \E f \in WwdgFns, label \in {"cr", "sr", "refresh"}, b \in BOOLEAN : Enter(f, label, b)
  BY <1>2, Budget, Zenon DEF Enter, DriverStatus
<1>3. CASE \E label \in {"cr", "sr", "refresh"} \union {"returned"}, b \in BOOLEAN : GoTo(label, b)
  BY <1>3, Budget, Zenon DEF GoTo
<1>4. CASE \E s \in DriverStatus, b \in BOOLEAN : Return(s, b)
  BY <1>4, Budget, Zenon DEF Return
<1>5. CASE CallReset
  BY <1>5, Budget, Zenon DEF CallReset, DriverStatus
<1> QED
  BY <1>1, <1>2, <1>3, <1>4, <1>5

LEMMA InitType == Init => TypeOK
<1> SUFFICES ASSUME Init PROVE TypeOK
  OBVIOUS
<1>1. CallTypeOK(WwdgFns, {"cr", "sr", "refresh"})
  BY Budget, Zenon DEF Init, CallInit, CallTypeOK, DriverStatus
<1>2. /\ t \in 0..MaxCount /\ w \in Middle..MaxCount
      /\ argW \in Middle..MaxCount /\ argC \in Middle..MaxCount
  BY Counts DEF Init
<1> QED
  BY <1>1, <1>2 DEF Init, TypeOK

LEMMA RebootType == TypeOK /\ Reboot => TypeOK'
<1> SUFFICES ASSUME TypeOK, Reboot PROVE TypeOK'
  OBVIOUS
<1>1. CallTypeOK(WwdgFns, {"cr", "sr", "refresh"})'
  BY RecordMoves DEF Reboot, TypeOK
<1>2. /\ t' \in 0..MaxCount /\ w' \in Middle..MaxCount
      /\ argW' \in Middle..MaxCount /\ argC' \in Middle..MaxCount
  BY Counts DEF Reboot
<1> QED
  BY <1>1, <1>2 DEF Reboot, TypeOK

-----------------------------------------------------------------------------
(* Type correctness of the steps.                                           *)

\* The main program.
LEMMA MainType == TypeOK /\ Main => TypeOK'
<1> SUFFICES ASSUME TypeOK, Main PROVE TypeOK'
  OBVIOUS
<1> USE DEF irqVars, argVars, historyVars, watchdogVars
<1>1. ASSUME NEW f \in WwdgFns, NEW s \in DriverStatus, NEW stores \in BOOLEAN, Answer(f, s, stores)
      PROVE  CallTypeOK(WwdgFns, {"cr", "sr", "refresh"})'
  BY <1>1, RecordMoves DEF TypeOK
<1>2. ASSUME NEW f \in WwdgFns, NEW label \in {"cr", "sr", "refresh"}, NEW stores \in BOOLEAN,
             Enter(f, label, stores)
      PROVE  CallTypeOK(WwdgFns, {"cr", "sr", "refresh"})'
  BY <1>2, RecordMoves DEF TypeOK
<1>3. CASE rccWwdgClockEnable
  <2>1. CallTypeOK(WwdgFns, {"cr", "sr", "refresh"})'
    BY <1>1, <1>3 DEF rccWwdgClockEnable, WwdgFns, DriverStatus
  <2> QED
    BY <1>3, <2>1 DEF rccWwdgClockEnable, TypeOK
<1>4. CASE wwdgEnableEarlyWakeup
  <2>1. CallTypeOK(WwdgFns, {"cr", "sr", "refresh"})'
    BY <1>1, <1>4 DEF wwdgEnableEarlyWakeup, WwdgFns, DriverStatus
  <2>2. pend' \in BOOLEAN /\ served' \in BOOLEAN
    BY <1>4, Zenon DEF wwdgEnableEarlyWakeup, TypeOK, InCharge
  <2> QED
    BY <1>4, <2>1, <2>2 DEF wwdgEnableEarlyWakeup, TypeOK
<1>5. CASE nvicEnableIrq
  <2>1. CallTypeOK(WwdgFns, {"cr", "sr", "refresh"})'
    BY <1>1, <1>5 DEF nvicEnableIrq, WwdgFns, DriverStatus
  <2>2. served' \in BOOLEAN
    BY <1>5, Zenon DEF nvicEnableIrq, TypeOK, InCharge
  <2> QED
    BY <1>5, <2>1, <2>2 DEF nvicEnableIrq, TypeOK
<1>6. CASE ClearFromMain
  <2>1. CallTypeOK(WwdgFns, {"cr", "sr", "refresh"})'
    BY <1>1, <1>6 DEF ClearFromMain, WwdgFns, DriverStatus
  <2> QED
    BY <1>6, <2>1 DEF ClearFromMain, TypeOK
<1>7. ASSUME NEW timebase, NEW window, NEW counter, wwdgStart(timebase, window, counter)
      PROVE  TypeOK'
  <2>1. CallTypeOK(WwdgFns, {"cr", "sr", "refresh"})'
    BY <1>1, <1>2, <1>7 DEF wwdgStart, WwdgFns, DriverStatus
  <2>2. w' \in Middle..MaxCount /\ argW' \in Middle..MaxCount /\ argC' \in Middle..MaxCount
    BY <1>7 DEF wwdgStart, ValidCount, TypeOK
  <2> QED
    BY <1>7, <2>1, <2>2 DEF wwdgStart, TypeOK
<1>8. ASSUME NEW counter, wwdgRefresh(counter) PROVE TypeOK'
  <2>1. CallTypeOK(WwdgFns, {"cr", "sr", "refresh"})'
    BY <1>1, <1>2, <1>8 DEF wwdgRefresh, WwdgFns, DriverStatus
  <2>2. argC' \in Middle..MaxCount
    BY <1>8 DEF wwdgRefresh, ValidCount, TypeOK
  <2> QED
    BY <1>8, <2>1, <2>2 DEF wwdgRefresh, TypeOK
<1> QED
  BY <1>3, <1>4, <1>5, <1>6, <1>7, <1>8 DEF Main

\* The rest of a driver function.
LEMMA DriverType == TypeOK /\ Driver => TypeOK'
<1> SUFFICES ASSUME TypeOK, Driver PROVE TypeOK'
  OBVIOUS
<1> USE DEF irqVars, argVars, historyVars, watchdogVars
<1>1. ASSUME NEW c \in Middle..MaxCount, StoreCr(c)
      PROVE  /\ wdga' \in BOOLEAN /\ t' \in 0..MaxCount
             /\ cause' \in {"none", "window", "timeout"}
  BY <1>1, Counts DEF StoreCr, TypeOK
<1>2. CASE StartCounter
  <2>1. CallTypeOK(WwdgFns, {"cr", "sr", "refresh"})'
    BY <1>2, RecordMoves DEF StartCounter, TypeOK
  <2>2. argC \in Middle..MaxCount /\ StoreCr(argC)
    BY <1>2 DEF StartCounter, TypeOK
  <2> QED
    BY <1>1, <1>2, <2>1, <2>2 DEF StartCounter, TypeOK
<1>3. CASE ClearStaleEwif
  <2>1. CallTypeOK(WwdgFns, {"cr", "sr", "refresh"})'
    BY <1>3, RecordMoves DEF ClearStaleEwif, TypeOK, DriverStatus
  <2> QED
    BY <1>3, <2>1, ZenonT(40) DEF ClearStaleEwif, TypeOK
<1>4. CASE StoreRefresh
  <2>1. CallTypeOK(WwdgFns, {"cr", "sr", "refresh"})'
    BY <1>4, RecordMoves DEF StoreRefresh, TypeOK, DriverStatus
  <2>2. argC \in Middle..MaxCount /\ StoreCr(argC)
    BY <1>4 DEF StoreRefresh, TypeOK
  <2> QED
    BY <1>1, <1>4, <2>1, <2>2 DEF StoreRefresh, TypeOK
<1> QED
  BY <1>2, <1>3, <1>4 DEF Driver

\* The handler.
LEMMA HandlerType == TypeOK /\ Handler => TypeOK'
<1> SUFFICES ASSUME TypeOK, Handler PROVE TypeOK'
  OBVIOUS
<1> USE DEF irqVars, argVars, historyVars, watchdogVars, callVars
<1>1. CallTypeOK(WwdgFns, {"cr", "sr", "refresh"})'
  BY DEF Handler, TakeInterrupt, wwdgClearEarlyWakeup, HandlerRefresh, TypeOK, CallTypeOK
<1>2. CASE TakeInterrupt
  BY <1>1, <1>2 DEF TakeInterrupt, TypeOK
<1>3. CASE wwdgClearEarlyWakeup
  BY <1>1, <1>3 DEF wwdgClearEarlyWakeup, TypeOK
<1>4. CASE HandlerRefresh
  <2>1. wdga' \in BOOLEAN /\ t' \in 0..MaxCount /\ cause' \in {"none", "window", "timeout"}
    BY <1>4, Counts DEF HandlerRefresh, StoreCr, TypeOK
  <2>2. pend' \in BOOLEAN
    BY <1>4, Zenon DEF HandlerRefresh, TypeOK, Line
  <2> QED
    BY <1>1, <1>4, <2>1, <2>2 DEF HandlerRefresh, TypeOK
<1> QED
  BY <1>2, <1>3, <1>4 DEF Handler

\* A count ends.
LEMMA CountType == TypeOK /\ CountEnds => TypeOK'
<1> SUFFICES ASSUME TypeOK, CountEnds PROVE TypeOK'
  OBVIOUS
<1> USE DEF irqVars, argVars, historyVars, watchdogVars, callVars
<1>1. CallTypeOK(WwdgFns, {"cr", "sr", "refresh"})'
  BY DEF CountEnds, TypeOK, CallTypeOK
<1>2. t' \in 0..MaxCount /\ cause' \in {"none", "window", "timeout"}
  BY Counts DEF CountEnds, TypeOK
<1>3. ewif' \in BOOLEAN /\ pend' \in BOOLEAN /\ prompt' \in BOOLEAN
  BY Zenon DEF CountEnds, TypeOK
<1> QED
  BY <1>1, <1>2, <1>3 DEF CountEnds, TypeOK

\* Every register, local and interrupt flag of the window watchdog stays in its
\* range, whatever the main program asks for and wherever the counter is.
THEOREM WwdgTypeCorrect == Spec => []TypeOK
<1>1. Init => TypeOK
  BY InitType
<1>2. TypeOK /\ [Next]_vars => TypeOK'
  <2>1. ASSUME TypeOK, Next PROVE TypeOK'
    BY <2>1, MainType, DriverType, HandlerType, CountType, RebootType DEF Next
  <2>2. ASSUME TypeOK, UNCHANGED vars PROVE TypeOK'
    BY <2>2 DEF vars, callVars, irqVars, argVars, historyVars, TypeOK, CallTypeOK
  <2> QED
    BY <2>1, <2>2
<1> QED
  BY <1>1, <1>2, PTL DEF Spec

-----------------------------------------------------------------------------
(* The inductive invariant.                                                 *)

LEMMA InitInv == Init => IInv
<1> SUFFICES ASSUME Init PROVE IInv
  OBVIOUS
<1>1. TypeOK
  BY InitType
<1>2. ConfigInv /\ WindowRespected /\ HandlerHoldsOff
  BY DEF Init, CallInit, ConfigInv, WindowRespected, HandlerHoldsOff
<1>3. PlaceInv /\ CountInv /\ WakeupInv /\ ServedInv
  BY DEF Init, CallInit, PlaceInv, CountInv, WakeupInv, ServedInv
<1> QED
  BY <1>1, <1>2, <1>3 DEF IInv, Watching

LEMMA RebootInv == IInv /\ Reboot => IInv'
<1> SUFFICES ASSUME IInv, Reboot PROVE IInv'
  OBVIOUS
<1>1. TypeOK'
  BY RebootType DEF IInv
<1>2. ConfigInv' /\ WindowRespected' /\ HandlerHoldsOff'
  BY DEF Reboot, CallReset, ConfigInv, WindowRespected, HandlerHoldsOff
<1>3. PlaceInv' /\ CountInv' /\ WakeupInv' /\ ServedInv'
  BY DEF Reboot, CallReset, PlaceInv, CountInv, WakeupInv, ServedInv
<1> QED
  BY <1>1, <1>2, <1>3 DEF IInv, Watching

\* A call by the main program, no reset being due.
LEMMA MainInv ==
    ASSUME ~HandsOver, IInv, cause = "none", isr = "none", Idle, Main
    PROVE  IInv'
<1> USE DEF irqVars, argVars, historyVars, watchdogVars
<1>1. TypeOK /\ Watching /\ TypeOK' /\ at = "returned"
  BY MainType DEF IInv, Idle
<1>2. /\ t \in Nat /\ w \in Nat
  BY <1>1, Counts DEF TypeOK
<1>3. ASSUME ConfigInv', Watching', cause' = cause PROVE IInv'
  BY <1>1, <1>3 DEF IInv, WindowRespected, HandlerHoldsOff
<1>4. CASE rccWwdgClockEnable
  BY <1>1, <1>3, <1>4
     DEF rccWwdgClockEnable, Answer, IInv, ConfigInv, Watching, PlaceInv, InsideWindow, CountInv,
         WakeupInv, ServedInv, HandlerDue
<1>5. CASE wdga /\ ~ewi /\ ~refreshed /\ wwdgEnableEarlyWakeup
  <2>1. ConfigInv' /\ cause' = cause
    BY <1>5 DEF wwdgEnableEarlyWakeup, Answer, IInv, ConfigInv
  <2>2. PlaceInv' /\ CountInv'
    BY <1>1, <1>5 DEF wwdgEnableEarlyWakeup, Answer, Watching, PlaceInv, CountInv
  <2>3. WakeupInv'
    BY <1>1, <1>5 DEF wwdgEnableEarlyWakeup, Answer, Watching, WakeupInv
  <2>4. ServedInv'
    <3>1. served' => enabled /\ t > Middle
      BY <1>1, <1>5, Zenon DEF wwdgEnableEarlyWakeup, Watching, ServedInv, InCharge
    <3>2. wdga' /\ ewi' /\ enabled' = enabled /\ t' = t
      BY <1>5 DEF wwdgEnableEarlyWakeup
    <3>3. served' => t' # Middle
      BY <1>2, <3>1, <3>2, Counts
    <3> QED
      BY <3>1, <3>2, <3>3 DEF ServedInv
  <2> QED
    BY <1>3, <2>1, <2>2, <2>3, <2>4 DEF Watching
<1>6. CASE wdga /\ ~enabled /\ nvicEnableIrq
  <2>1. ConfigInv' /\ cause' = cause
    BY <1>6 DEF nvicEnableIrq, Answer, IInv, ConfigInv
  <2>2. PlaceInv' /\ CountInv' /\ WakeupInv'
    BY <1>1, <1>6 DEF nvicEnableIrq, Answer, Watching, PlaceInv, CountInv, WakeupInv
  <2>3. ServedInv'
    <3>1. served' => ewi /\ t > Middle
      BY <1>1, <1>6, Zenon DEF nvicEnableIrq, Watching, ServedInv, InCharge
    <3>2. wdga' /\ enabled' /\ ewi' = ewi /\ t' = t
      BY <1>6 DEF nvicEnableIrq
    <3>3. served' => t' # Middle
      BY <1>2, <3>1, <3>2, Counts
    <3> QED
      BY <3>1, <3>2, <3>3 DEF ServedInv
  <2> QED
    BY <1>3, <2>1, <2>2, <2>3 DEF Watching
<1>7. CASE wdga /\ ~ewi /\ ClearFromMain
  BY <1>1, <1>3, <1>7
     DEF ClearFromMain, Answer, IInv, ConfigInv, Watching, PlaceInv, CountInv, WakeupInv, ServedInv
<1>8. ASSUME ~wdga, NEW timebase, NEW window, NEW counter, wwdgStart(timebase, window, counter)
      PROVE  IInv'
  <2>1. ConfigInv' /\ cause' = cause
    BY <1>1, <1>8 DEF wwdgStart, Answer, Enter, IInv, ConfigInv
  <2>2. Watching'
    BY <1>1, <1>8
       DEF wwdgStart, Answer, Enter, Watching, PlaceInv, CountInv, WakeupInv, ServedInv
  <2> QED
    BY <1>3, <2>1, <2>2
<1>9. ASSUME wdga, InsideWindow, ~ewi, NEW counter, wwdgRefresh(counter)
      PROVE  IInv'
  <2>1. ConfigInv' /\ cause' = cause
    BY <1>1, <1>9 DEF wwdgRefresh, Answer, Enter, IInv, ConfigInv
  <2>2. Watching'
    BY <1>1, <1>9
       DEF wwdgRefresh, Answer, Enter, Watching, PlaceInv, InsideWindow, CountInv, WakeupInv, ServedInv
  <2> QED
    BY <1>3, <2>1, <2>2
<1> QED
  BY <1>4, <1>5, <1>6, <1>7, <1>8, <1>9 DEF Main

\* A step of the running function.
LEMMA DriverInv ==
    ASSUME IInv, cause = "none", isr = "none", Driver
    PROVE  IInv'
<1> USE DEF irqVars, argVars, historyVars, watchdogVars
<1>1. TypeOK /\ Watching /\ TypeOK'
  BY DriverType DEF IInv
<1>2. t \in Nat /\ w \in Nat /\ argC \in Nat /\ argC >= Middle
  BY <1>1, Counts DEF TypeOK
<1>3. ASSUME ConfigInv', Watching', cause' = cause PROVE IInv'
  BY <1>1, <1>3 DEF IInv, WindowRespected, HandlerHoldsOff
<1>4. CASE StartCounter
  <2>1. ConfigInv' /\ cause' = cause
    BY <1>1, <1>4 DEF StartCounter, StoreCr, GoTo, IInv, ConfigInv, Watching, PlaceInv
  <2>2. PlaceInv' /\ CountInv'
    BY <1>1, <1>2, <1>4 DEF StartCounter, StoreCr, GoTo, Watching, PlaceInv, CountInv
  <2>3. WakeupInv' /\ ServedInv'
    BY <1>1, <1>4 DEF StartCounter, StoreCr, GoTo, Watching, PlaceInv, WakeupInv, ServedInv
  <2> QED
    BY <1>3, <2>1, <2>2, <2>3 DEF Watching
<1>5. CASE ClearStaleEwif
  BY <1>1, <1>3, <1>5
     DEF ClearStaleEwif, Return, IInv, ConfigInv, Watching, PlaceInv, CountInv, WakeupInv, ServedInv
<1>6. CASE StoreRefresh
  <2>1. ConfigInv' /\ cause' = cause
    BY <1>1, <1>2, <1>6
       DEF StoreRefresh, StoreCr, Return, IInv, ConfigInv, Watching, PlaceInv, InsideWindow
  <2>2. PlaceInv' /\ CountInv'
    BY <1>1, <1>2, <1>6 DEF StoreRefresh, StoreCr, Return, Watching, PlaceInv, CountInv
  <2>3. WakeupInv' /\ ServedInv'
    BY <1>1, <1>6 DEF StoreRefresh, StoreCr, Return, Watching, PlaceInv, WakeupInv, ServedInv
  <2> QED
    BY <1>3, <2>1, <2>2, <2>3 DEF Watching
<1> QED
  BY <1>4, <1>5, <1>6 DEF Driver

\* A step of the handler: its refresh comes at the middle, inside every window.
LEMMA HandlerInv ==
    ASSUME IInv, cause = "none", Handler
    PROVE  IInv'
<1> USE DEF irqVars, argVars, historyVars, watchdogVars, callVars
<1>1. TypeOK /\ Watching /\ TypeOK'
  BY HandlerType DEF IInv
<1>2. t \in Nat /\ w \in Nat /\ w >= Middle
  BY <1>1, Counts DEF TypeOK
<1>3. ASSUME ConfigInv', Watching', cause' = cause PROVE IInv'
  BY <1>1, <1>3 DEF IInv, WindowRespected, HandlerHoldsOff
<1>4. CASE TakeInterrupt
  BY <1>1, <1>3, <1>4
     DEF TakeInterrupt, IInv, ConfigInv, Watching, PlaceInv, InsideWindow, CountInv, WakeupInv,
         ServedInv, HandlerDue
<1>5. CASE wwdgClearEarlyWakeup
  BY <1>1, <1>3, <1>5
     DEF wwdgClearEarlyWakeup, IInv, ConfigInv, Watching, PlaceInv, InsideWindow, CountInv,
         WakeupInv, ServedInv, HandlerDue
<1>6. CASE HandlerRefresh
  <2>1. ConfigInv' /\ cause' = cause
    BY <1>1, <1>2, <1>6, Counts
       DEF HandlerRefresh, StoreCr, IInv, ConfigInv, Watching, WakeupInv, PlaceInv
  <2>2. PlaceInv' /\ CountInv'
    BY <1>1, <1>6, Counts
       DEF HandlerRefresh, StoreCr, Watching, PlaceInv, CountInv, WakeupInv
  <2>3. ~ewif /\ ~pend'
    BY <1>1, <1>6 DEF HandlerRefresh, Line, Watching, WakeupInv
  <2>4. WakeupInv' /\ ServedInv'
    BY <1>1, <1>6, <2>3, Counts
       DEF HandlerRefresh, StoreCr, Watching, WakeupInv, ServedInv
  <2> QED
    BY <1>3, <2>1, <2>2, <2>4 DEF Watching
<1> QED
  BY <1>4, <1>5, <1>6 DEF Handler

\* A count ends: with the handler in charge it is not the one past the middle.
LEMMA CountEndsInv ==
    ASSUME IInv, cause = "none", CountEnds
    PROVE  IInv'
<1> USE DEF irqVars, argVars, historyVars, watchdogVars, callVars
<1>1. TypeOK /\ Watching /\ TypeOK'
  BY CountType DEF IInv
<1>2. t \in Nat /\ w \in Nat /\ w >= Middle
  BY <1>1, Counts DEF TypeOK
<1>3. ConfigInv'
  BY DEF CountEnds, IInv, ConfigInv
<1>4. CASE wdga /\ t <= Middle
  <2>1. t = Middle
    BY <1>1, <1>2, <1>4, Counts DEF Watching, CountInv
  <2>2. ~served
    BY <1>1, <2>1, Zenon DEF CountEnds, Watching, ServedInv
  <2>3. cause' = "timeout" /\ served' = served
    BY <1>4 DEF CountEnds
  <2> QED
    BY <1>1, <1>3, <2>2, <2>3 DEF IInv, WindowRespected, HandlerHoldsOff
<1>5. CASE ~(wdga /\ t <= Middle)
  <2>1. cause' = "none" /\ wdga' = wdga
    BY <1>5 DEF CountEnds
  <2>2. CASE ~wdga
    <3>1. ~ewi /\ ~pend /\ isr = "none" /\ ~served
      BY <1>1, <2>2 DEF Watching, PlaceInv, WakeupInv, ServedInv
    <3>2. ~pend' /\ ~ewi' /\ isr' = "none" /\ ~served' /\ at' = at
      BY <3>1 DEF CountEnds
    <3>3. Watching'
      BY <1>1, <2>1, <2>2, <3>2
         DEF Watching, PlaceInv, CountInv, WakeupInv, ServedInv
    <3> QED
      BY <1>1, <1>3, <2>1, <3>3 DEF IInv, WindowRespected, HandlerHoldsOff
  <2>3. CASE wdga
    <3>1. t > Middle /\ t' = t - 1 /\ t' >= Middle
      BY <1>2, <1>5, <2>3, Counts DEF CountEnds
    <3>2. isr = "none" /\ ~pend
      BY <1>1, <1>2, <3>1, Counts DEF Watching, WakeupInv
    <3>3. PlaceInv' /\ CountInv'
      BY <1>1, <1>2, <2>3, <3>1 DEF CountEnds, Watching, PlaceInv, InsideWindow, CountInv
    <3>a. t = Middle + 1 => t' = Middle
      BY <1>2, <3>1, Counts
    <3>4. ewif' => ewif \/ t' = Middle
      <4>1. ewif' = (ewif \/ t = Middle + 1)
        BY Zenon DEF CountEnds
      <4> QED
        BY <1>1, <3>a, <4>1, Zenon
    <3>5. pend' => ewi /\ t' = Middle
      <4>1. pend' = (pend \/ (~ewif /\ t = Middle + 1 /\ ewi))
        BY Zenon DEF CountEnds
      <4> QED
        BY <3>2, <3>a, <4>1, Zenon
    <3>6. WakeupInv'
      <4>1. (wdga' /\ ewif' /\ ~refreshed' /\ at' # "sr") => t' <= Middle
        BY <1>1, <1>2, <3>1, <3>4, Counts DEF CountEnds, Watching, WakeupInv
      <4>2. isr' = "none" /\ ewi' = ewi /\ refreshed' = refreshed
        BY <3>2 DEF CountEnds
      <4> QED
        BY <1>1, <3>1, <3>5, <4>1, <4>2, Counts DEF Watching, WakeupInv
    <3>7. ServedInv'
      <4>1. served' = served /\ ewi' = ewi /\ enabled' = enabled /\ isr' = isr
        BY DEF CountEnds
      <4>2. ASSUME served, t' = Middle PROVE prompt' /\ pend'
        <5>1. ewi /\ enabled /\ ~refreshed /\ at # "sr"
          BY <1>1, <4>2 DEF Watching, ServedInv, WakeupInv, PlaceInv
        <5>2. ~ewif
          BY <1>1, <1>2, <2>3, <3>1, <5>1, Counts DEF Watching, WakeupInv
        <5>3. t = Middle + 1
          BY <1>2, <3>1, <4>2, Counts
        <5> QED
          BY <5>1, <5>2, <5>3, Zenon DEF CountEnds
      <4>3. served => wdga' /\ ewi' /\ enabled'
        BY <1>1, <2>1, <4>1 DEF Watching, ServedInv
      <4>4. (served /\ t' = Middle) => prompt' /\ pend' /\ enabled'
        BY <4>2, <4>3
      <4> QED
        BY <4>1, <4>3, <4>4 DEF ServedInv, HandlerDue
    <3> QED
      BY <1>1, <1>3, <2>1, <3>3, <3>6, <3>7
         DEF IInv, Watching, WindowRespected, HandlerHoldsOff
  <2> QED
    BY <1>1, <2>2, <2>3 DEF TypeOK
<1> QED
  BY <1>4, <1>5

LEMMA Invariance == ASSUME ~HandsOver PROVE Spec => []IInv
<1>1. Init => IInv
  BY InitInv
<1>2. IInv /\ [Next]_vars => IInv'
  <2>1. ASSUME IInv, Next PROVE IInv'
    BY <2>1, MainInv, DriverInv, HandlerInv, CountEndsInv, RebootInv DEF Next
  <2>2. ASSUME IInv, UNCHANGED vars PROVE IInv'
    BY <2>2
       DEF vars, callVars, irqVars, argVars, historyVars, IInv, TypeOK, CallTypeOK, ConfigInv,
           WindowRespected, HandlerHoldsOff, Watching, PlaceInv, InsideWindow, CountInv,
           WakeupInv, ServedInv, HandlerDue
  <2> QED
    BY <2>1, <2>2
<1> QED
  BY <1>1, <1>2, PTL DEF Spec

-----------------------------------------------------------------------------
\* No refresh ever comes above the window, the handler's or the main program's,
\* wherever the counter was when the watchdog was started (wwdg.c 47-57).
THEOREM InsideTheWindow == ASSUME ~HandsOver PROVE Spec => []WindowRespected
<1>1. IInv => WindowRespected
  BY DEF IInv
<1> QED
  BY <1>1, Invariance, PTL

\* A handler that is in charge before the middle of the counter is reached keeps
\* the chip from being reset for good (wwdg.h, the usual pattern).
THEOREM HoldsOff == ASSUME ~HandsOver PROVE Spec => []HandlerHoldsOff
<1>1. IInv => HandlerHoldsOff
  BY DEF IInv
<1> QED
  BY <1>1, Invariance, PTL

\* The counter never runs started with a window other than the one asked for
\* (wwdg.h, wwdgStart()).
THEOREM WindowFirst == ASSUME ~HandsOver PROVE Spec => []WindowInPlace
<1>1. IInv => WindowInPlace
  BY DEF IInv, ConfigInv, WindowInPlace
<1> QED
  BY <1>1, Invariance, PTL
=============================================================================
