---------------------------- MODULE ClockProofs ----------------------------
(***************************************************************************)
(* Proofs about RccClock, for every set of PLL settings, every wait-state  *)
(* table and every poll budget, and about BspClockInit, the bring-up that  *)
(* drives it and the regulator.                                            *)
(*                                                                         *)
(* What concerns the flash under RccClock's own caller assumes that it     *)
(* does not retune the PLL while CFGR.SW requests it; types, the answers   *)
(* of enables and disables, refusals and what a failed switch leaves       *)
(* behind do not.                                                          *)
(***************************************************************************)
EXTENDS BspClockInit, TLAPS

-----------------------------------------------------------------------------
(* The inductive invariant.                                                 *)

\* The switch's own places belong to the switch, the clearing store to a disable.
PlaceInv ==
    /\ at \in {"raise", "ready", "request", "lower"} => fn = "rccSysclkSwitch"
    /\ at = "clear" => fn \in DOMAIN DisabledBy

\* A ready source is on or on its way down; the running clock's PLL is on.
OnInv ==
    /\ \A s \in Sources : rdy[s] => on[s] \/ s \in stopping
    /\ sws = "PLL" => on["PLL"]

\* The flash follows the clock in use and the one requested.
WaitsInv == latency >= Needed(sws) /\ latency >= Needed(sw)

\* What a running rccSysclkSwitch() has established at each of its places.
SwitchInv ==
    (fn = "rccSysclkSwitch" /\ ~Idle) =>
        /\ want >= Needed(source) \/ want > MaxLatency
        /\ at = "raise" => latency = current
        /\ at # "raise" => /\ want <= MaxLatency
                           /\ latency = IF want > current THEN want ELSE current
        /\ at \in {"poll", "recheck", "lower"} => sw = source
        /\ at = "lower" => sws = source /\ want <= current

IInv == TypeOK /\ PlaceInv /\ OnInv /\ WaitsInv /\ SwitchInv /\ SwitchOkTruth

-----------------------------------------------------------------------------
\* Wait states fit the latency field.
LEMMA NeededType ==
    ASSUME pllcfg \in PllSettings, NEW s \in Sources
    PROVE  Needed(s) \in 0..MaxLatency
BY PllAssumption, OscAssumption DEF Needed, Sources, Oscillators

LEMMA InitInv == Init => IInv
<1> SUFFICES ASSUME Init PROVE IInv
  OBVIOUS
<1> USE DEF Init, CallInit, Sources, HseModes, Idle
<1>1. TypeOK
  <2>1. CallTypeOK(RccFns, Places)
    <3>1. polls \in 0..PollBudget
      BY PollBudgetAssumption
    <3>2. status \in DriverStatus /\ wrote \in BOOLEAN
      BY DEF DriverStatus
    <3>3. fn \in RccFns \union {"none"} /\ at \in Places \union {"returned"}
      OBVIOUS
    <3> QED
      BY <3>1, <3>2, <3>3, Zenon DEF CallTypeOK
  <2>2. on \in [Sources -> BOOLEAN] /\ rdy \in [Sources -> BOOLEAN]
    OBVIOUS
  <2>3. bus \in AhbDivisors \X ApbDivisors \X ApbDivisors
    BY DEF AhbDivisors, ApbDivisors
  <2> QED
    <3>1. restarted \in BOOLEAN
      BY Zenon
    <3> QED
      BY <2>1, <2>2, <2>3, <3>1, PllAssumption DEF TypeOK, ClockTypeOK, MaxLatency
<1>2. PlaceInv /\ OnInv /\ SwitchInv /\ SwitchOkTruth
  BY DEF PlaceInv, OnInv, SwitchInv, SwitchOkTruth
<1>3. WaitsInv
  BY OscAssumption DEF WaitsInv, Needed
<1> QED
  BY <1>1, <1>2, <1>3 DEF IInv

-----------------------------------------------------------------------------
(* Type correctness is preserved by each kind of step.                      *)

\* The wait's counter starts in its range and stays there when it is taken down.
LEMMA Budget ==
    /\ PollBudget \in 0..PollBudget
    /\ \A n \in 0..PollBudget : n > 0 => n - 1 \in 0..PollBudget
BY PollBudgetAssumption

\* The ways a step moves the activation record keep it well formed.
LEMMA RecordMoves ==
    ASSUME CallTypeOK(RccFns, Places),
           \/ \E f \in RccFns, s \in DriverStatus, b \in BOOLEAN : Answer(f, s, b)
           \/ \E f \in RccFns, label \in Places, b \in BOOLEAN : Enter(f, label, b)
           \/ \E label \in Places \union {"returned"}, b \in BOOLEAN : GoTo(label, b)
           \/ \E s \in DriverStatus, b \in BOOLEAN : Return(s, b)
           \/ \E reached : \E label \in Places : Poll(reached, label)
           \/ \E reached : \E label \in Places \union {"returned"} : Recheck(reached, label)
    PROVE  CallTypeOK(RccFns, Places)'
<1> USE DEF CallTypeOK
<1>1. CASE \E f \in RccFns, s \in DriverStatus, b \in BOOLEAN : Answer(f, s, b)
  BY <1>1, Budget, Zenon DEF Answer
<1>2. CASE \E f \in RccFns, label \in Places, b \in BOOLEAN : Enter(f, label, b)
  BY <1>2, Budget, Zenon DEF Enter, DriverStatus
<1>3. CASE \E label \in Places \union {"returned"}, b \in BOOLEAN : GoTo(label, b)
  BY <1>3, Budget, Zenon DEF GoTo
<1>4. CASE \E s \in DriverStatus, b \in BOOLEAN : Return(s, b)
  BY <1>4, Budget, Zenon DEF Return
<1>5. CASE \E reached : \E label \in Places : Poll(reached, label)
  BY <1>5, Budget, Zenon DEF Poll
<1>6. CASE \E reached : \E label \in Places \union {"returned"} : Recheck(reached, label)
  BY <1>6, Budget, Zenon DEF Recheck, GoTo, Return, DriverStatus
<1> QED
  BY <1>1, <1>2, <1>3, <1>4, <1>5, <1>6

\* Facts about the sets of names the proofs below need over and over.
LEMMA Names ==
    /\ RccFns = {"rccHsiEnable", "rccHseEnable", "rccPllEnable",
                 "rccHsiDisable", "rccHseDisable", "rccPllDisable",
                 "rccPllConfig", "rccBusPrescalerConfig", "rccSysclkSwitch"}
    /\ DOMAIN DisabledBy = {"rccHsiDisable", "rccHseDisable", "rccPllDisable"}
    /\ DOMAIN EnabledBy = {"rccHsiEnable", "rccHseEnable", "rccPllEnable"}
BY DEF RccFns, DisabledBy, EnabledBy

\* A call is made.
LEMMA CallerType == TypeOK /\ Caller => TypeOK'
<1> SUFFICES ASSUME TypeOK, Caller PROVE TypeOK'
  OBVIOUS
<1> USE DEF TypeOK, ClockTypeOK, rccVars, crVars, cfgrVars, localVars
<1>1. ASSUME NEW f \in RccFns, NEW s \in Sources, SwitchOnAndWait(f, s), hsebyp' \in HseModes
      PROVE  TypeOK'
  <2>1. CallTypeOK(RccFns, Places)'
    BY <1>1, RecordMoves DEF SwitchOnAndWait, Places
  <2>2. ClockTypeOK'
    BY <1>1 DEF SwitchOnAndWait
  <2> QED
    BY <2>1, <2>2
<1>2. ASSUME NEW f \in RccFns, NEW s \in DriverStatus, NEW w \in BOOLEAN,
             Answer(f, s, w), UNCHANGED rccVars
      PROVE  TypeOK'
  BY <1>2, RecordMoves
<1>3. ASSUME NEW f \in RccFns, NEW s \in Sources, DisableGuard(f, s)
      PROVE  TypeOK'
  <2>1. CASE Answer(f, "BUSY", FALSE) /\ UNCHANGED rccVars
    BY <2>1, <1>2 DEF DriverStatus
  <2>2. CASE Enter(f, "clear", FALSE) /\ source' = s
             /\ restarted' = FALSE
             /\ UNCHANGED <<crVars, pllcfg, cfgrVars, latency, want, current>>
    BY <2>2, RecordMoves DEF Places
  <2> QED
    BY <1>3, <2>1, <2>2 DEF DisableGuard
<1>4. CASE rccHsiEnable \/ rccPllEnable
  BY <1>4, <1>1, Names DEF rccHsiEnable, rccPllEnable, Sources
<1>5. ASSUME NEW b, rccHseEnable(b) PROVE TypeOK'
  BY <1>5, <1>1, <1>2, Names DEF rccHseEnable, Sources, DriverStatus
<1>6. CASE rccHsiDisable \/ rccHseDisable \/ rccPllDisable
  BY <1>6, <1>3, Names DEF rccHsiDisable, rccHseDisable, rccPllDisable, Sources
<1>7. ASSUME NEW p, rccPllConfig(p) PROVE TypeOK'
  BY <1>7, <1>2, RecordMoves, Names DEF rccPllConfig, DriverStatus
<1>8. ASSUME NEW b \in BusSettings, rccBusPrescalerConfig(b) PROVE TypeOK'
  <2>1. CASE Answer("rccBusPrescalerConfig", "INVALID_PARAM", FALSE) /\ UNCHANGED rccVars
    BY <2>1, <1>2, Names DEF DriverStatus
  <2>2. CASE ValidPrescalers(b) /\ Answer("rccBusPrescalerConfig", "OK", TRUE) /\ bus' = b
             /\ UNCHANGED <<crVars, pllcfg, sw, sws, latency, localVars>>
    <3>1. CallTypeOK(RccFns, Places)'
      BY <2>2, RecordMoves, Names DEF DriverStatus
    <3>2. bus' \in AhbDivisors \X ApbDivisors \X ApbDivisors
      BY <2>2, CallerAssumption DEF ValidPrescalers
    <3> QED
      BY <2>2, <3>1, <3>2
  <2> QED
    BY <1>8, <2>1, <2>2 DEF rccBusPrescalerConfig
<1>9. ASSUME NEW s, NEW l \in Latencies, rccSysclkSwitch(s, l) PROVE TypeOK'
  <2>1. CASE Answer("rccSysclkSwitch", "INVALID_PARAM", FALSE) /\ UNCHANGED rccVars
    BY <2>1, <1>2, Names DEF DriverStatus
  <2>2. CASE s \in Sources /\ Enter("rccSysclkSwitch", "raise", FALSE)
             /\ source' = s /\ want' = l /\ current' = latency /\ restarted' = FALSE
             /\ UNCHANGED <<crVars, pllcfg, cfgrVars, latency>>
    <3>1. CallTypeOK(RccFns, Places)'
      BY <2>2, RecordMoves, Names DEF Places
    <3> QED
      BY <2>2, <3>1, CallerAssumption
  <2> QED
    BY <1>9, <2>1, <2>2 DEF rccSysclkSwitch
<1> QED
  BY <1>4, <1>5, <1>6, <1>7, <1>8, <1>9 DEF Caller

\* A function goes on.
LEMMA DriverType == TypeOK /\ Driver => TypeOK'
<1> SUFFICES ASSUME TypeOK, Driver PROVE TypeOK'
  OBVIOUS
<1> USE DEF TypeOK, ClockTypeOK, rccVars, crVars, cfgrVars, localVars
<1>1. CASE WaitFlag
  BY <1>1, RecordMoves DEF WaitFlag, Places
<1>2. CASE WaitOver
  BY <1>2, RecordMoves DEF WaitOver, Places
<1>3. CASE ClearOn
  <2>1. CallTypeOK(RccFns, Places)'
    BY <1>3, RecordMoves DEF ClearOn, Places
  <2>2. ClockTypeOK'
    BY <1>3, ZenonT(40) DEF ClearOn
  <2> QED
    BY <2>1, <2>2
<1>4. ASSUME NEW l \in Nat, NEW next \in Places \union {"returned"},
             flashSetLatency(l, next)
      PROVE  CallTypeOK(RccFns, Places)' /\ latency' \in 0..MaxLatency
  <2>1. CASE Return("INVALID_PARAM", FALSE) /\ UNCHANGED latency
    BY <2>1, RecordMoves DEF DriverStatus
  <2>2. CASE l <= MaxLatency /\ latency' = l /\ GoTo(next, TRUE)
    <3>1. CallTypeOK(RccFns, Places)'
      BY <2>2, RecordMoves
    <3>2. latency' \in 0..MaxLatency
      BY <2>2 DEF MaxLatency
    <3> QED
      BY <3>1, <3>2
  <2>3. CASE Return("HW_FAULT", TRUE) /\ UNCHANGED latency
    BY <2>3, RecordMoves DEF DriverStatus
  <2> QED
    BY <1>4, <2>1, <2>2, <2>3 DEF flashSetLatency
<1>5. CASE RaiseLatency
  <2>1. CASE flashSetLatency(want, "ready")
    BY <2>1, <1>4, <1>5 DEF RaiseLatency, Places
  <2>2. CASE GoTo("ready", FALSE) /\ UNCHANGED latency
    BY <2>2, RecordMoves, <1>5 DEF RaiseLatency, Places
  <2> QED
    BY <1>5, <2>1, <2>2 DEF RaiseLatency
<1>6. CASE CheckReady
  BY <1>6, RecordMoves DEF CheckReady, Places, DriverStatus
<1>7. CASE RequestSwitch
  BY <1>7, RecordMoves DEF RequestSwitch, Places
<1>8. CASE LowerLatency
  BY <1>8, <1>4 DEF LowerLatency, Places
<1> QED
  BY <1>1, <1>2, <1>3, <1>5, <1>6, <1>7, <1>8 DEF Driver

\* The hardware answers.
LEMMA HardwareType == TypeOK /\ Hardware => TypeOK'
<1> SUFFICES ASSUME TypeOK, Hardware PROVE TypeOK'
  OBVIOUS
<1> USE DEF TypeOK, ClockTypeOK, CallTypeOK, hwUnchanged, callVars, cfgrVars, localVars
<1>1. ASSUME NEW s \in Sources, OscReady(s) PROVE TypeOK'
  BY <1>1 DEF OscReady
<1>2. ASSUME NEW s \in Sources, OscStopped(s) PROVE TypeOK'
  BY <1>2 DEF OscStopped
<1>3. CASE PllUnlock
  BY <1>3 DEF PllUnlock
<1>4. CASE SwitchCompletes
  BY <1>4 DEF SwitchCompletes
<1> QED
  BY <1>1, <1>2, <1>3, <1>4 DEF Hardware

LEMMA TypeStep == TypeOK /\ [Next]_vars => TypeOK'
<1>1. TypeOK /\ UNCHANGED vars => TypeOK'
  BY DEF TypeOK, ClockTypeOK, CallTypeOK, vars, callVars
<1> QED
  BY <1>1, CallerType, DriverType, HardwareType DEF Next

-----------------------------------------------------------------------------
(* The rest of the invariant.  A step that starts a call, moves the record  *)
(* of the running one, or moves the hardware disturbs few of its parts.     *)

\* Steps that leave the flash, the clock requested and the clock in use alone,
\* and the PLL setting with them, keep the flash fast enough.
LEMMA WaitsKept ==
    ASSUME WaitsInv, UNCHANGED <<latency, pllcfg, sw, sws>>
    PROVE  WaitsInv'
BY DEF WaitsInv, Needed

\* The parts that do not speak of the running call.
OutsideInv == OnInv /\ WaitsInv

\* The parts that do.
CallInv == PlaceInv /\ SwitchInv /\ SwitchOkTruth

\* A call that returns at once changes nothing a running switch relies on.
LEMMA AnswerInv ==
    ASSUME NEW f, NEW s, NEW w, Answer(f, s, w), f # "rccSysclkSwitch" \/ s # "OK"
    PROVE  CallInv'
BY DEF Answer, CallInv, PlaceInv, SwitchInv, SwitchOkTruth, Idle

\* A call of another function than the switch has no switch running.
LEMMA EnterInv ==
    ASSUME NEW f, NEW label, NEW w, Enter(f, label, w), f # "rccSysclkSwitch",
           \/ label = "poll"
           \/ label = "clear" /\ f \in DOMAIN DisabledBy
    PROVE  CallInv'
BY DEF Enter, CallInv, PlaceInv, SwitchInv, SwitchOkTruth, Idle

LEMMA CallerInv == IInv /\ ~RetunesRequested /\ Caller => IInv'
<1> SUFFICES ASSUME IInv, ~RetunesRequested, Caller PROVE OutsideInv' /\ CallInv'
  BY CallerType DEF IInv, OutsideInv, CallInv
<1> USE DEF IInv, rccVars, crVars, cfgrVars, localVars
<1>1. ASSUME NEW f, NEW s \in Sources, f # "rccSysclkSwitch", SwitchOnAndWait(f, s)
      PROVE  OutsideInv' /\ CallInv'
  <2>1. CallInv'
    BY <1>1, EnterInv DEF SwitchOnAndWait
  <2>2. OnInv'
    BY <1>1 DEF SwitchOnAndWait, OnInv, TypeOK, ClockTypeOK
  <2>3. WaitsInv'
    BY <1>1, WaitsKept DEF SwitchOnAndWait
  <2> QED
    BY <2>1, <2>2, <2>3 DEF OutsideInv
<1>2. ASSUME NEW f, NEW s, NEW w, Answer(f, s, w), f # "rccSysclkSwitch" \/ s # "OK",
             UNCHANGED <<on, rdy, stopping, pllcfg, sw, sws, latency>>
      PROVE  OutsideInv' /\ CallInv'
  BY <1>2, AnswerInv, WaitsKept DEF OutsideInv, OnInv
<1>3. ASSUME NEW f \in DOMAIN DisabledBy, NEW s \in Sources, DisableGuard(f, s)
      PROVE  OutsideInv' /\ CallInv'
  <2>1. CASE Answer(f, "BUSY", FALSE) /\ UNCHANGED rccVars
    BY <2>1, <1>2
  <2>2. CASE Enter(f, "clear", FALSE) /\ source' = s
             /\ restarted' = FALSE
             /\ UNCHANGED <<crVars, pllcfg, cfgrVars, latency, want, current>>
    <3>1. CallInv'
      BY <2>2, EnterInv, Names
    <3> QED
      BY <2>2, <3>1, WaitsKept DEF OutsideInv, OnInv
  <2> QED
    BY <1>3, <2>1, <2>2 DEF DisableGuard
<1>4. CASE rccHsiEnable \/ rccPllEnable
  BY <1>4, <1>1 DEF rccHsiEnable, rccPllEnable, Sources
<1>5. ASSUME NEW b, rccHseEnable(b) PROVE OutsideInv' /\ CallInv'
  BY <1>5, <1>1, <1>2 DEF rccHseEnable, Sources
<1>6. CASE rccHsiDisable \/ rccHseDisable \/ rccPllDisable
  BY <1>6, <1>3, Names DEF rccHsiDisable, rccHseDisable, rccPllDisable, Sources
\* The PLL is off, so it feeds nothing, and nothing is about to take it.
<1>7. ASSUME NEW p, MayRetune \/ p \notin PllSettings, rccPllConfig(p)
      PROVE  OutsideInv' /\ CallInv'
  <2>1. CASE UNCHANGED rccVars
    BY <1>7, <2>1, <1>2 DEF rccPllConfig
  <2>2. CASE p \in PllSettings /\ ~on["PLL"] /\ Answer("rccPllConfig", "OK", TRUE)
             /\ pllcfg' = p /\ UNCHANGED <<crVars, cfgrVars, latency, localVars>>
    <3>1. sws # "PLL" /\ sw # "PLL"
      BY <2>2, <1>7 DEF OnInv, MayRetune
    <3>2. WaitsInv'
      BY <2>2, <3>1 DEF WaitsInv, Needed
    <3>3. CallInv'
      BY <2>2, AnswerInv
    <3> QED
      BY <2>2, <3>2, <3>3 DEF OutsideInv, OnInv
  <2> QED
    BY <1>7, <2>1, <2>2 DEF rccPllConfig
<1>8. ASSUME NEW b, rccBusPrescalerConfig(b) PROVE OutsideInv' /\ CallInv'
  BY <1>8, <1>2 DEF rccBusPrescalerConfig
<1>9. ASSUME NEW s, NEW l \in Latencies, Suits(l, s), rccSysclkSwitch(s, l)
      PROVE  OutsideInv' /\ CallInv'
  <2>1. CASE Answer("rccSysclkSwitch", "INVALID_PARAM", FALSE) /\ UNCHANGED rccVars
    BY <2>1, <1>2
  <2>2. CASE s \in Sources /\ Enter("rccSysclkSwitch", "raise", FALSE)
             /\ source' = s /\ want' = l /\ current' = latency /\ restarted' = FALSE
             /\ UNCHANGED <<crVars, pllcfg, cfgrVars, latency>>
    <3>1. CallInv'
      BY <2>2, <1>9
         DEF CallInv, PlaceInv, SwitchInv, SwitchOkTruth, Idle, Enter, Suits, Needed
    <3> QED
      BY <2>2, <3>1, WaitsKept DEF OutsideInv, OnInv
  <2> QED
    BY <1>9, <2>1, <2>2 DEF rccSysclkSwitch
<1> QED
  BY <1>4, <1>5, <1>6, <1>7, <1>8, <1>9, PllAssumption DEF Caller

\* What flashSetLatency() can do with a value that fits, and with one that does not.
LEMMA FlashFits ==
    ASSUME NEW l \in Nat, NEW next, flashSetLatency(l, next), l <= MaxLatency
    PROVE  \/ latency' = l /\ GoTo(next, TRUE)
           \/ Return("HW_FAULT", TRUE) /\ UNCHANGED latency
<1>1. ~(l > MaxLatency)
  BY DEF MaxLatency
<1> QED
  BY <1>1, Zenon DEF flashSetLatency

\* A latency past the field is refused with nothing written.
LEMMA FlashRefuses ==
    ASSUME NEW l \in Nat, NEW next, flashSetLatency(l, next), l > MaxLatency
    PROVE  Return("INVALID_PARAM", FALSE) /\ UNCHANGED latency
<1>1. ~(l <= MaxLatency)
  BY DEF MaxLatency
<1> QED
  BY <1>1, Zenon DEF flashSetLatency

LEMMA DriverInv == IInv /\ Driver => IInv'
<1> SUFFICES ASSUME IInv, Driver PROVE OutsideInv' /\ CallInv'
  BY DriverType DEF IInv, OutsideInv, CallInv
<1> USE DEF IInv, rccVars, crVars, cfgrVars, localVars
\* A reading of a flag changes no register and no argument.
<1>1. CASE WaitFlag
  <2>1. /\ UNCHANGED <<fn, status, on, rdy, stopping, pllcfg, sw, sws, latency, source, want, current>>
        /\ at = "poll" /\ at' \in {"poll", "recheck"}
    BY <1>1 DEF WaitFlag, Poll
  <2>2. CallInv'
    BY <2>1 DEF CallInv, PlaceInv, SwitchInv, SwitchOkTruth, Idle, Needed
  <2> QED
    BY <2>1, <2>2, WaitsKept DEF OutsideInv, OnInv
<1>2. CASE WaitOver
  <2>1. UNCHANGED rccVars /\ at = "recheck"
    BY <1>2 DEF WaitOver
  <2>2. OutsideInv'
    BY <2>1, WaitsKept DEF OutsideInv, OnInv
  <2>3. CASE Reached /\ fn = "rccSysclkSwitch" /\ UNCHANGED fn
             /\ at' = IF want <= current THEN "lower" ELSE "returned"
    <3>1. sws = source
      BY <2>3, Names DEF Reached
    <3>2. CallInv'
      BY <2>1, <2>3, <3>1
         DEF CallInv, PlaceInv, SwitchInv, SwitchOkTruth, Idle, Needed, TypeOK, ClockTypeOK
    <3> QED
      BY <2>2, <3>2
  <2>4. CASE fn # "rccSysclkSwitch" /\ UNCHANGED fn /\ at' = "returned"
    BY <2>2, <2>4 DEF CallInv, PlaceInv, SwitchInv, SwitchOkTruth, Idle
  <2>5. CASE Return("TIMEOUT", FALSE)
    BY <2>2, <2>5 DEF Return, CallInv, PlaceInv, SwitchInv, SwitchOkTruth, Idle
  <2>6. \/ Reached /\ GoTo(IF fn = "rccSysclkSwitch" /\ want <= current
                          THEN "lower" ELSE "returned", FALSE)
        \/ Return("TIMEOUT", FALSE)
    BY <1>2, Zenon DEF WaitOver, Recheck
  <2> QED
    BY <2>3, <2>4, <2>5, <2>6 DEF GoTo
\* A source that feeds SYSCLK stays on: the store is ignored.
<1>3. CASE ClearOn
  <2>1. fn # "rccSysclkSwitch" /\ fn' = fn /\ at' = "poll"
    BY <1>3, Names DEF ClearOn, PlaceInv, GoTo
  <2>2. CallInv'
    BY <2>1 DEF CallInv, PlaceInv, SwitchInv, SwitchOkTruth, Idle
  <2>3. OnInv'
    BY <1>3 DEF ClearOn, OnInv, Feeds, TypeOK, ClockTypeOK
  <2>4. WaitsInv'
    BY <1>3, WaitsKept DEF ClearOn
  <2> QED
    BY <2>2, <2>3, <2>4 DEF OutsideInv
\* Raised: the latency goes up only, to what the new source needs.
<1>4. CASE RaiseLatency
  <2>1. fn = "rccSysclkSwitch" /\ at = "raise" /\ latency = current
    BY <1>4 DEF RaiseLatency, PlaceInv, SwitchInv, Idle
  <2>2. OnInv'
    BY <1>4 DEF RaiseLatency, OnInv
  <2>3. CASE want > MaxLatency
    <3>1. want > current
      BY <2>3 DEF TypeOK, ClockTypeOK, MaxLatency
    <3>2. Return("INVALID_PARAM", FALSE) /\ UNCHANGED latency
      <4>1. flashSetLatency(want, "ready")
        BY <1>4, <3>1, Zenon DEF RaiseLatency
      <4>2. want \in Nat
        BY DEF TypeOK, ClockTypeOK
      <4> QED
        BY <2>3, <4>1, <4>2, FlashRefuses
    <3> QED
      BY <1>4, <2>2, <3>2, WaitsKept
         DEF RaiseLatency, Return, CallInv, PlaceInv, SwitchInv, SwitchOkTruth, Idle, OutsideInv
  <2>4. CASE want <= MaxLatency /\ want > current
    <3>1. CASE latency' = want /\ GoTo("ready", TRUE)
      <4>1. WaitsInv'
        <5>1. Needed(sws) \in Nat /\ Needed(sw) \in Nat
          BY NeededType DEF TypeOK, ClockTypeOK
        <5>2. Needed(sws)' = Needed(sws) /\ Needed(sw)' = Needed(sw)
          BY <1>4 DEF RaiseLatency, Needed
        <5> QED
          BY <2>1, <2>4, <3>1, <5>1, <5>2 DEF WaitsInv, TypeOK, ClockTypeOK
      <4>2. CallInv'
        BY <1>4, <2>1, <2>4, <3>1
           DEF RaiseLatency, GoTo, CallInv, PlaceInv, SwitchInv, SwitchOkTruth, Idle,
               Needed, TypeOK, ClockTypeOK, MaxLatency
      <4> QED
        BY <2>2, <4>1, <4>2 DEF OutsideInv
    <3>2. CASE Return("HW_FAULT", TRUE) /\ UNCHANGED latency
      BY <1>4, <2>2, <3>2, WaitsKept
         DEF RaiseLatency, Return, CallInv, PlaceInv, SwitchInv, SwitchOkTruth, Idle, OutsideInv
    <3> QED
      <4>1. flashSetLatency(want, "ready")
        BY <1>4, <2>4, Zenon DEF RaiseLatency
      <4>2. want \in Nat
        BY DEF TypeOK, ClockTypeOK
      <4> QED
        BY <2>4, <3>1, <3>2, <4>1, <4>2, FlashFits
  <2>5. CASE want <= current
    <3>1. GoTo("ready", FALSE) /\ UNCHANGED latency
      <4>1. ~(want > current)
        BY <2>5 DEF TypeOK, ClockTypeOK, MaxLatency
      <4> QED
        BY <1>4, <4>1, Zenon DEF RaiseLatency
    <3>2. want <= MaxLatency
      BY <2>5 DEF TypeOK, ClockTypeOK, MaxLatency
    <3>3. CallInv'
      BY <1>4, <2>1, <2>5, <3>1, <3>2
         DEF RaiseLatency, GoTo, CallInv, PlaceInv, SwitchInv, SwitchOkTruth, Idle,
             Needed, TypeOK, ClockTypeOK, MaxLatency
    <3> QED
      BY <1>4, <2>2, <3>1, <3>3, WaitsKept DEF RaiseLatency, OutsideInv
  <2> QED
    BY <2>3, <2>4, <2>5 DEF TypeOK, ClockTypeOK, MaxLatency
<1>5. CASE CheckReady
  BY <1>5, WaitsKept
     DEF CheckReady, GoTo, Return, CallInv, PlaceInv, SwitchInv, SwitchOkTruth, Idle,
         OutsideInv, OnInv, Needed
\* Requested: the latency already suits the source.
<1>6. CASE RequestSwitch
  <2>1. fn = "rccSysclkSwitch" /\ at = "request" /\ ~Idle
    BY <1>6 DEF RequestSwitch, PlaceInv, Idle
  <2>2. want >= Needed(source) /\ latency >= want
    BY <2>1, NeededType DEF SwitchInv, TypeOK, ClockTypeOK, MaxLatency
  <2>3. Needed(source) \in Nat /\ Needed(sws) \in Nat
    BY NeededType DEF TypeOK, ClockTypeOK
  <2>4. WaitsInv'
    <3>1. latency >= Needed(source)
      BY <2>2, <2>3 DEF TypeOK, ClockTypeOK
    <3> QED
      BY <1>6, <3>1 DEF RequestSwitch, WaitsInv, Needed
  <2>5. CallInv'
    BY <1>6, <2>1
       DEF RequestSwitch, GoTo, CallInv, PlaceInv, SwitchInv, SwitchOkTruth, Idle, Needed
  <2> QED
    BY <1>6, <2>4, <2>5 DEF RequestSwitch, OutsideInv, OnInv
\* Lowered: both the clock in use and the one requested are the new source.
<1>7. CASE LowerLatency
  <2>1. /\ fn = "rccSysclkSwitch" /\ ~Idle
        /\ sw = source /\ sws = source /\ want <= MaxLatency
        /\ want >= Needed(source)
    BY <1>7, NeededType DEF LowerLatency, PlaceInv, SwitchInv, Idle, TypeOK, ClockTypeOK, MaxLatency
  <2>2. CASE latency' = want /\ GoTo("returned", TRUE)
    <3>1. WaitsInv'
      BY <1>7, <2>1, <2>2 DEF LowerLatency, WaitsInv, Needed
    <3>2. CallInv'
      BY <1>7, <2>1, <2>2
         DEF LowerLatency, GoTo, CallInv, PlaceInv, SwitchInv, SwitchOkTruth, Idle
    <3> QED
      BY <1>7, <3>1, <3>2 DEF LowerLatency, OutsideInv, OnInv
  <2>3. CASE Return("HW_FAULT", TRUE) /\ UNCHANGED latency
    BY <1>7, <2>3, WaitsKept
       DEF LowerLatency, Return, CallInv, PlaceInv, SwitchInv, SwitchOkTruth, Idle,
           OutsideInv, OnInv
  <2> QED
    <3>1. flashSetLatency(want, "returned") /\ want \in Nat
      BY <1>7 DEF LowerLatency, TypeOK, ClockTypeOK
    <3> QED
      BY <2>1, <2>2, <2>3, <3>1, FlashFits
<1> QED
  BY <1>1, <1>2, <1>3, <1>4, <1>5, <1>6, <1>7 DEF Driver

LEMMA HardwareInv == IInv /\ Hardware => IInv'
<1> SUFFICES ASSUME IInv, Hardware PROVE OutsideInv' /\ CallInv'
  BY HardwareType DEF IInv, OutsideInv, CallInv
<1> USE DEF IInv, hwUnchanged, callVars, localVars, TypeOK, ClockTypeOK
\* A flag that moves is a running switch's business only through SWS.
<1>1. ASSUME UNCHANGED <<callVars, latency, pllcfg, sw, sws, localVars>>
      PROVE  CallInv' /\ WaitsInv'
  BY <1>1, WaitsKept DEF CallInv, PlaceInv, SwitchInv, SwitchOkTruth, Idle, Needed
<1>2. ASSUME NEW s \in Sources, OscReady(s) PROVE OutsideInv' /\ CallInv'
  BY <1>1, <1>2 DEF OscReady, OutsideInv, OnInv
<1>3. ASSUME NEW s \in Sources, OscStopped(s) PROVE OutsideInv' /\ CallInv'
  BY <1>1, <1>3 DEF OscStopped, OutsideInv, OnInv
<1>4. CASE PllUnlock
  BY <1>1, <1>4 DEF PllUnlock, OutsideInv, OnInv
\* The requested clock is one the flash already follows.
<1>5. CASE SwitchCompletes
  <2>1. WaitsInv'
    BY <1>5 DEF SwitchCompletes, WaitsInv, Needed
  <2>2. OnInv'
    BY <1>5 DEF SwitchCompletes, OnInv
  <2>3. CallInv'
    BY <1>5 DEF SwitchCompletes, CallInv, PlaceInv, SwitchInv, SwitchOkTruth, Idle, Needed
  <2> QED
    BY <2>1, <2>2, <2>3 DEF OutsideInv
<1> QED
  BY <1>2, <1>3, <1>4, <1>5 DEF Hardware

LEMMA NextInv == IInv /\ ~RetunesRequested /\ [Next]_vars => IInv'
<1>1. IInv /\ UNCHANGED vars => IInv'
  BY DEF IInv, TypeOK, ClockTypeOK, CallTypeOK, PlaceInv, OnInv, WaitsInv, Needed,
         SwitchInv, SwitchOkTruth, Idle, vars, callVars
<1> QED
  BY <1>1, CallerInv, DriverInv, HardwareInv DEF Next

LEMMA Inductive == ASSUME ~RetunesRequested PROVE Spec => []IInv
<1>1. IInv /\ [Next]_vars => IInv'
  BY NextInv
<1> QED
  BY <1>1, InitInv, PTL DEF Spec

-----------------------------------------------------------------------------
(* rcc.c keeps every register and every local in its range, and the call    *)
(* record well formed, whatever the caller and the hardware do.             *)
THEOREM TypeCorrect == Spec => []TypeOK
<1>1. Init => TypeOK
  BY InitInv DEF IInv
<1> QED
  BY <1>1, TypeStep, PTL DEF Spec

(* The flash is never read with too few wait states (rcc.h 249-251),        *)
(* however the calls are ordered and whenever a requested switch completes, *)
(* as long as the PLL is not retuned while CFGR.SW requests it.             *)
THEOREM FlashSafe == ASSUME ~RetunesRequested PROVE Spec => []FlashWaitStates
<1>1. IInv => FlashWaitStates
  BY DEF IInv, WaitsInv, FlashWaitStates
<1> QED
  BY <1>1, Inductive, PTL

(* OK from rccSysclkSwitch() is the truth and stays the truth until the     *)
(* next call (rcc.h 258).                                                   *)
THEOREM SwitchOk == ASSUME ~RetunesRequested PROVE Spec => []SwitchOkTruth
<1>1. IInv => SwitchOkTruth
  BY DEF IInv
<1> QED
  BY <1>1, Inductive, PTL

-----------------------------------------------------------------------------
(* The driver with its hardware implements SafeClock: each step of RccClock *)
(* maps to one step of SafeClock or to none.                                *)

\* The substituted `need` is a function into the naturals.
LEMMA NeedType == TypeOK => [s \in Sources |-> Needed(s)] \in [Sources -> Nat]
<1> SUFFICES ASSUME TypeOK, NEW s \in Sources PROVE Needed(s) \in Nat
  OBVIOUS
<1> QED
  BY NeededType DEF TypeOK, ClockTypeOK, MaxLatency

LEMMA InitRefines == Init => Clock!Init
<1> SUFFICES ASSUME Init PROVE Clock!Init
  OBVIOUS
<1>1. sws = "HSI" /\ sw = "HSI" /\ latency = 0 /\ "HSI" \in Sources
  BY DEF Init, Sources
<1>2. Needed("HSI") = 0
  BY OscAssumption DEF Needed
<1>3. [s \in Sources |-> Needed(s)] \in [Sources -> Nat]
  BY InitInv, NeedType DEF IInv
<1> QED
  BY <1>1, <1>2, <1>3 DEF Clock!Init

\* A step that leaves the flash, the sources and the PLL setting alone is none.
LEMMA Stutter ==
    ASSUME UNCHANGED <<latency, pllcfg, sw, sws>>
    PROVE  UNCHANGED Clock!clockVars
BY DEF Clock!clockVars, Needed

\* Only rccPllConfig() changes what a source needs, and only what the PLL does.
LEMMA CallerRefines ==
    ASSUME IInv, IInv', ~RetunesRequested, Caller
    PROVE  [Clock!Next]_(Clock!clockVars)
<1> USE DEF rccVars, crVars, cfgrVars, localVars
<1>1. ASSUME NEW f, NEW s, SwitchOnAndWait(f, s) PROVE UNCHANGED Clock!clockVars
  BY <1>1, Stutter DEF SwitchOnAndWait
<1>2. ASSUME NEW f, NEW s, DisableGuard(f, s) PROVE UNCHANGED Clock!clockVars
  BY <1>2, Stutter DEF DisableGuard
<1>3. ASSUME NEW b, rccHseEnable(b) PROVE UNCHANGED Clock!clockVars
  BY <1>3, <1>1, Stutter DEF rccHseEnable
<1>4. ASSUME NEW b, rccBusPrescalerConfig(b) PROVE UNCHANGED Clock!clockVars
  BY <1>4, Stutter DEF rccBusPrescalerConfig
<1>5. ASSUME NEW s, NEW l, rccSysclkSwitch(s, l) PROVE UNCHANGED Clock!clockVars
  BY <1>5, Stutter DEF rccSysclkSwitch
<1>6. ASSUME NEW p, MayRetune \/ p \notin PllSettings, rccPllConfig(p)
      PROVE  [Clock!Next]_(Clock!clockVars)
  <2>1. CASE UNCHANGED rccVars
    BY <2>1, Stutter
  <2>2. CASE p \in PllSettings /\ ~on["PLL"] /\ pllcfg' = p
             /\ UNCHANGED <<crVars, cfgrVars, latency, localVars>>
    <3>1. sws # "PLL" /\ sw # "PLL"
      BY <2>2, <1>6 DEF IInv, OnInv, MayRetune
    <3>2. Clock!Retune("PLL")
      <4>1. ([s \in Sources |-> Needed(s)] \in [Sources -> Nat])'
        <5> SUFFICES ASSUME NEW s \in Sources PROVE Needed(s)' \in Nat
          OBVIOUS
        <5> QED
          BY <2>2, PllAssumption, OscAssumption
             DEF Needed, Sources, Oscillators, MaxLatency
      <4>2. \A t \in Sources \ {"PLL"} : Needed(t)' = Needed(t)
        BY DEF Needed
      <4> QED
        BY <2>2, <3>1, <4>1, <4>2 DEF Clock!Retune
    <3> QED
      BY <3>2 DEF Clock!Next, Sources
  <2> QED
    BY <1>6, <2>1, <2>2 DEF rccPllConfig
<1> QED
  BY <1>1, <1>2, <1>3, <1>4, <1>5, <1>6, PllAssumption
     DEF Caller, rccHsiEnable, rccPllEnable, rccHsiDisable, rccHseDisable, rccPllDisable

\* The driver raises before it requests, and lowers once the request is taken.
LEMMA DriverRefines ==
    ASSUME IInv, Driver
    PROVE  [Clock!Next]_(Clock!clockVars)
<1> USE DEF rccVars, crVars, cfgrVars, localVars, IInv
<1>1. CASE WaitFlag \/ WaitOver \/ ClearOn \/ CheckReady
  BY <1>1, Stutter DEF WaitFlag, WaitOver, ClearOn, CheckReady
<1>2. CASE RaiseLatency
  <2>1. UNCHANGED <<sw, sws, pllcfg>> /\ latency = current
    BY <1>2 DEF RaiseLatency, PlaceInv, SwitchInv, Idle
  <2>2. CASE UNCHANGED latency
    BY <2>1, <2>2, Stutter
  <2>3. CASE latency' = want /\ want > current
    <3>1. Clock!Raise
      BY <2>1, <2>3 DEF Clock!Raise, Needed, TypeOK, ClockTypeOK, MaxLatency
    <3> QED
      BY <3>1 DEF Clock!Next
  <2>4. UNCHANGED latency \/ (want > current /\ latency' = want)
    BY <1>2, Zenon DEF RaiseLatency, flashSetLatency
  <2> QED
    BY <2>2, <2>3, <2>4
<1>3. CASE RequestSwitch
  <2>1. ~Idle /\ fn = "rccSysclkSwitch" /\ at = "request"
    BY <1>3 DEF RequestSwitch, PlaceInv, Idle
  <2>2. Needed(source) \in 0..MaxLatency
    BY NeededType DEF TypeOK, ClockTypeOK
  <2>3. latency >= Needed(source)
    BY <2>1, <2>2 DEF SwitchInv, TypeOK, ClockTypeOK, MaxLatency
  <2>4. Clock!Request(source)
    BY <1>3, <2>3 DEF RequestSwitch, Clock!Request, Needed, TypeOK, ClockTypeOK
  <2> QED
    BY <2>4 DEF Clock!Next, TypeOK, ClockTypeOK
<1>4. CASE LowerLatency
  <2>1. fn = "rccSysclkSwitch" /\ ~Idle /\ at = "lower"
    BY <1>4 DEF LowerLatency, PlaceInv, Idle
  <2>2. Needed(source) \in 0..MaxLatency
    BY NeededType DEF TypeOK, ClockTypeOK
  <2>3. /\ sw = source /\ sws = source
        /\ want >= Needed(source) /\ want <= current /\ latency = current
    BY <2>1, <2>2 DEF SwitchInv, TypeOK, ClockTypeOK, MaxLatency
  <2>4. UNCHANGED <<sw, sws, pllcfg>> /\ (UNCHANGED latency \/ latency' = want)
    BY <1>4, Zenon DEF LowerLatency, flashSetLatency
  <2>5. CASE latency' = want /\ want # current
    <3>1. Clock!Lower
      BY <2>3, <2>4, <2>5 DEF Clock!Lower, Needed, TypeOK, ClockTypeOK, MaxLatency
    <3> QED
      BY <3>1 DEF Clock!Next
  <2> QED
    BY <2>3, <2>4, <2>5, Stutter
<1> QED
  BY <1>1, <1>2, <1>3, <1>4 DEF Driver

\* The hardware's steps are the abstract switch, or stutters.
LEMMA HardwareRefines ==
    ASSUME Hardware
    PROVE  [Clock!Next]_(Clock!clockVars)
<1> USE DEF hwUnchanged
<1>1. ASSUME NEW s \in Sources, OscReady(s) \/ OscStopped(s)
      PROVE  UNCHANGED Clock!clockVars
  BY <1>1, Stutter DEF OscReady, OscStopped
<1>2. CASE PllUnlock
  BY <1>2, Stutter DEF PllUnlock
<1>3. CASE SwitchCompletes
  BY <1>3 DEF SwitchCompletes, Clock!Next, Clock!Complete, Needed
<1> QED
  BY <1>1, <1>2, <1>3 DEF Hardware

(* The driver is a SafeClock: wait states go down only once the requested   *)
(* source is in use, a source is requested only when the flash can follow   *)
(* it, and only a PLL nothing rides on changes frequency.                   *)
THEOREM Implements == ASSUME ~RetunesRequested PROVE Spec => ImplementsSafeClock
<1>1. IInv /\ IInv' /\ [Next]_vars => [Clock!Next]_(Clock!clockVars)
  <2>1. UNCHANGED vars => UNCHANGED Clock!clockVars
    BY Stutter DEF vars
  <2> QED
    BY <2>1, CallerRefines, DriverRefines, HardwareRefines DEF Next
<1> QED
  BY <1>1, Inductive, InitRefines, PTL DEF Spec, ImplementsSafeClock, Clock!Spec

-----------------------------------------------------------------------------
(* What the enables and disables answer.  The invariant is about sources:   *)
(* which can still start or stop by itself, and which cannot.  It holds for *)
(* every caller, one that retunes the PLL while CFGR.SW requests it too.    *)

\* A ready source is on or on its way down, a PLL that is on has its input
\* running, and the clock in use runs.
SourceInv ==
    /\ \A s \in Sources : rdy[s] => on[s] \/ s \in stopping
    /\ on["PLL"] => Running(PllInput)
    /\ Running(sws)

\* A running enable waits for a source that is on and stays on.  Its flag may be
\* about to drop only if the source was still stopping at the call.
EnableInv ==
    (fn \in DOMAIN EnabledBy /\ ~Idle) =>
        /\ source = EnabledBy[fn]
        /\ on[source]
        /\ source \notin stopping \/ restarted

\* SYSCLK runs from s and no switch away from it is pending.
Held(s) == sws = s /\ sw = s

\* A disable meets a source that SYSCLK uses only when a pending switch took it
\* after the guard; nothing is pending then, so SYSCLK stays with it.
DisableInv ==
    fn \in DOMAIN DisabledBy =>
        /\ ~Idle =>
            /\ source = DisabledBy[fn]
            /\ MayDisable(source)
            /\ at = "clear" => sws # source \/ sw = source
            /\ at # "clear" => ~on[source] \/ Held(source)
        /\ (Idle /\ status = "TIMEOUT") => ~on[DisabledBy[fn]] \/ Held(DisabledBy[fn])
        /\ (Idle /\ status = "OK") => ~on[DisabledBy[fn]] /\ ~rdy[DisabledBy[fn]]

OscInv == SourceInv /\ EnableInv /\ EnableOkMeansRunning /\ DisableInv

\* The parts that speak of the last enable or disable.
AnswersInv == EnableInv /\ EnableOkMeansRunning /\ DisableInv

\* The source each enable and each disable is about.
LEMMA SourceOf ==
    /\ EnabledBy["rccHsiEnable"] = "HSI" /\ EnabledBy["rccHseEnable"] = "HSE"
    /\ EnabledBy["rccPllEnable"] = "PLL"
    /\ DisabledBy["rccHsiDisable"] = "HSI" /\ DisabledBy["rccHseDisable"] = "HSE"
    /\ DisabledBy["rccPllDisable"] = "PLL"
BY DEF EnabledBy, DisabledBy

\* The PLL is fed by HSI or HSE.
LEMMA InputIsOscillator == pllcfg \in PllSettings => PllInput \in Oscillators
BY PllAssumption DEF PllInput

LEMMA InitOsc == Init => OscInv /\ PlaceInv
<1> SUFFICES ASSUME Init PROVE OscInv /\ PlaceInv
  OBVIOUS
<1> USE DEF Init, CallInit, Sources, Idle
<1>1. SourceInv
  BY DEF SourceInv, Running
<1>2. AnswersInv /\ PlaceInv
  BY Names DEF AnswersInv, EnableInv, EnableOkMeansRunning, DisableInv, PlaceInv
<1> QED
  BY <1>1, <1>2 DEF OscInv, AnswersInv

\* A source is turned on, the PLL only over a running input.
LEMMA EnableOsc ==
    ASSUME TypeOK, OscInv,
           NEW f \in DOMAIN EnabledBy, f = "rccPllEnable" => MayEnablePll,
           SwitchOnAndWait(f, EnabledBy[f])
    PROVE  OscInv' /\ PlaceInv'
<1> DEFINE s == EnabledBy[f]
<1>1. s \in Sources /\ f \notin DOMAIN DisabledBy
  BY Names, SourceOf DEF Sources
<1>2. /\ on' = [on EXCEPT ![s] = TRUE] /\ source' = s /\ fn' = f /\ at' = "poll"
      /\ stopping' \in {stopping, stopping \ {s}} /\ restarted' = (s \in stopping)
      /\ UNCHANGED <<rdy, pllcfg, sw, sws>>
  BY DEF SwitchOnAndWait, Enter, cfgrVars
<1>3. s = "PLL" => Running(PllInput)
  BY Names, SourceOf DEF MayEnablePll
<1> HIDE DEF s
<1>4. on'[s] /\ \A t \in Sources : t # s => on'[t] = on[t]
  BY <1>1, <1>2 DEF TypeOK, ClockTypeOK
<1>5. SourceInv'
  <2>1. \A t \in Sources : rdy'[t] => on'[t] \/ t \in stopping'
    BY <1>2, <1>4 DEF OscInv, SourceInv
  <2>3. on'["PLL"] => Running(PllInput)'
    BY <1>2, <1>3, <1>4 DEF OscInv, SourceInv, Running, PllInput, Sources
  <2>4. Running(sws)'
    BY <1>2 DEF OscInv, SourceInv, Running
  <2> QED
    BY <2>1, <2>3, <2>4 DEF SourceInv
<1>6. EnableInv'
  BY <1>2, <1>4 DEF EnableInv, s
<1>7. EnableOkMeansRunning' /\ DisableInv' /\ PlaceInv'
  BY <1>1, <1>2 DEF EnableOkMeansRunning, DisableInv, PlaceInv, Idle
<1> QED
  BY <1>5, <1>6, <1>7 DEF OscInv

\* A call that changes no source and is neither an enable nor a disable, or is
\* one that was refused.
LEMMA OtherOsc ==
    ASSUME SourceInv',
           fn' \in DOMAIN EnabledBy \union DOMAIN DisabledBy
               => at' = "returned" /\ status' \notin {"OK", "TIMEOUT"},
           at' \in {"returned", "raise"},
           at' = "raise" => fn' = "rccSysclkSwitch"
    PROVE  OscInv' /\ PlaceInv'
BY DEF OscInv, EnableInv, EnableOkMeansRunning, DisableInv, PlaceInv, Idle

\* The invariant of the sources reads no more than these.
LEMMA SourcesKept ==
    ASSUME SourceInv, UNCHANGED <<on, rdy, stopping, pllcfg, sws>>
    PROVE  SourceInv'
BY DEF SourceInv, Running, PllInput

LEMMA CallerOsc == TypeOK /\ OscInv /\ PlaceInv /\ Caller => OscInv' /\ PlaceInv'
<1> SUFFICES ASSUME TypeOK, OscInv, PlaceInv, Caller PROVE OscInv' /\ PlaceInv'
  OBVIOUS
<1> USE DEF rccVars, crVars, cfgrVars, localVars
<1>1. ASSUME NEW f, NEW s, NEW w, Answer(f, s, w), UNCHANGED rccVars,
             f \in DOMAIN EnabledBy \union DOMAIN DisabledBy => s \notin {"OK", "TIMEOUT"}
      PROVE  OscInv' /\ PlaceInv'
  <2>1. SourceInv'
    BY <1>1, SourcesKept DEF OscInv
  <2>2. at' = "returned" /\ fn' = f /\ status' = s
    BY <1>1 DEF Answer, Idle
  <2> QED
    BY <1>1, <2>1, <2>2, OtherOsc
<1>2. ASSUME NEW f \in DOMAIN DisabledBy, DisableGuard(f, DisabledBy[f]),
             MayDisable(DisabledBy[f])
      PROVE  OscInv' /\ PlaceInv'
  <2>1. CASE Answer(f, "BUSY", FALSE) /\ UNCHANGED rccVars
    BY <2>1, <1>1
  <2>2. CASE ~Feeds(DisabledBy[f]) /\ Enter(f, "clear", FALSE) /\ source' = DisabledBy[f]
             /\ restarted' = FALSE
             /\ UNCHANGED <<crVars, pllcfg, cfgrVars, latency, want, current>>
    <3>1. SourceInv'
      BY <2>2, SourcesKept DEF OscInv
    <3>2. f \notin DOMAIN EnabledBy /\ fn' = f /\ at' = "clear"
      BY <2>2, Names DEF Enter
    <3>3. DisableInv'
      BY <1>2, <2>2, <3>2 DEF DisableInv, Feeds, MayDisable, PllInput, Idle
    <3>4. EnableInv' /\ EnableOkMeansRunning' /\ PlaceInv'
      BY <3>2 DEF EnableInv, EnableOkMeansRunning, PlaceInv
    <3> QED
      BY <3>1, <3>3, <3>4 DEF OscInv
  <2> QED
    BY <1>2, <2>1, <2>2 DEF DisableGuard
<1>3. CASE rccHsiEnable \/ (MayEnablePll /\ rccPllEnable)
  BY <1>3, EnableOsc, Names, SourceOf DEF rccHsiEnable, rccPllEnable
<1>4. ASSUME NEW b, rccHseEnable(b) PROVE OscInv' /\ PlaceInv'
  BY <1>4, <1>1, EnableOsc, Names, SourceOf DEF rccHseEnable
<1>5. CASE \/ MayDisable("HSI") /\ rccHsiDisable
           \/ MayDisable("HSE") /\ rccHseDisable
           \/ rccPllDisable
  <2>1. MayDisable("PLL")
    BY InputIsOscillator DEF MayDisable, TypeOK, ClockTypeOK, Oscillators
  <2> QED
    BY <1>5, <2>1, <1>2, Names, SourceOf DEF rccHsiDisable, rccHseDisable, rccPllDisable
<1>6. ASSUME NEW p, rccPllConfig(p) PROVE OscInv' /\ PlaceInv'
  <2>1. CASE UNCHANGED rccVars
    BY <1>6, <2>1, <1>1, Names DEF rccPllConfig
  \* The PLL is off, so what feeds it does not matter.
  <2>2. CASE ~on["PLL"] /\ Answer("rccPllConfig", "OK", TRUE)
             /\ UNCHANGED <<crVars, cfgrVars, latency, localVars>>
    <3>1. SourceInv'
      BY <2>2 DEF OscInv, SourceInv, Running
    <3>2. at' = "returned" /\ fn' = "rccPllConfig"
      BY <2>2 DEF Answer, Idle
    <3> QED
      BY <3>1, <3>2, OtherOsc, Names
  <2> QED
    BY <1>6, <2>1, <2>2 DEF rccPllConfig
<1>7. ASSUME NEW b, rccBusPrescalerConfig(b) PROVE OscInv' /\ PlaceInv'
  <2>1. UNCHANGED <<on, rdy, stopping, pllcfg, sws>>
        /\ at' = "returned" /\ fn' = "rccBusPrescalerConfig"
    BY <1>7 DEF rccBusPrescalerConfig, Answer, Idle
  <2> QED
    BY <2>1, SourcesKept, OtherOsc, Names DEF OscInv
<1>8. ASSUME NEW s, NEW l, rccSysclkSwitch(s, l) PROVE OscInv' /\ PlaceInv'
  <2>1. UNCHANGED <<on, rdy, stopping, pllcfg, sws>>
        /\ at' \in {"returned", "raise"} /\ fn' = "rccSysclkSwitch"
    BY <1>8 DEF rccSysclkSwitch, Answer, Enter, Idle
  <2> QED
    BY <2>1, SourcesKept, OtherOsc, Names DEF OscInv
<1>9. \/ rccHsiEnable \/ (MayEnablePll /\ rccPllEnable)
      \/ \E b : rccHseEnable(b)
      \/ MayDisable("HSI") /\ rccHsiDisable
      \/ MayDisable("HSE") /\ rccHseDisable
      \/ rccPllDisable
      \/ \E p : rccPllConfig(p)
      \/ \E b : rccBusPrescalerConfig(b)
      \/ \E s, l : rccSysclkSwitch(s, l)
  BY ZenonT(40) DEF Caller
<1> QED
  BY <1>3, <1>4, <1>5, <1>6, <1>7, <1>8, <1>9, ZenonT(40)

\* The steps of a switch: no enable or disable is running or has just returned.
LEMMA SwitchOsc ==
    ASSUME SourceInv', fn' = "rccSysclkSwitch", at' # "clear"
    PROVE  OscInv' /\ PlaceInv'
BY Names DEF OscInv, EnableInv, EnableOkMeansRunning, DisableInv, PlaceInv

LEMMA DriverOsc == TypeOK /\ OscInv /\ PlaceInv /\ Driver => OscInv' /\ PlaceInv'
<1> SUFFICES ASSUME TypeOK, OscInv, PlaceInv, Driver PROVE OscInv' /\ PlaceInv'
  OBVIOUS
<1> USE DEF rccVars, crVars, cfgrVars, localVars
<1>1. CASE WaitFlag
  <2>1. /\ UNCHANGED <<fn, status, on, rdy, stopping, pllcfg, sw, sws, source, restarted>>
        /\ at = "poll" /\ at' \in {"poll", "recheck"}
    BY <1>1 DEF WaitFlag, Poll
  <2>2. SourceInv'
    BY <2>1, SourcesKept DEF OscInv
  <2>3. EnableInv' /\ EnableOkMeansRunning' /\ PlaceInv'
    BY <2>1 DEF OscInv, EnableInv, EnableOkMeansRunning, PlaceInv, Idle
  <2>4. DisableInv'
    BY <2>1 DEF OscInv, DisableInv, MayDisable, Held, PllInput, Idle
  <2> QED
    BY <2>2, <2>3, <2>4 DEF OscInv
\* The flag is read at the moment of the answer.
<1>2. CASE WaitOver
  <2>1. /\ UNCHANGED <<fn, on, rdy, stopping, pllcfg, sw, sws, source, restarted>>
        /\ at = "recheck"
    BY <1>2 DEF WaitOver, Recheck, GoTo, Return
  <2>2. SourceInv'
    BY <2>1, SourcesKept DEF OscInv
  <2>3. \/ Reached /\ at' = IF fn = "rccSysclkSwitch" /\ want <= current
                            THEN "lower" ELSE "returned"
        \/ at' = "returned" /\ status' = "TIMEOUT"
    BY <1>2 DEF WaitOver, Recheck, GoTo, Return
  <2>4. CASE fn = "rccSysclkSwitch"
    BY <2>1, <2>2, <2>3, <2>4, SwitchOsc
  <2>5. CASE fn # "rccSysclkSwitch"
    <3>1. at' = "returned" /\ (Reached \/ status' = "TIMEOUT")
      BY <2>3, <2>5
    <3>2. EnableInv' /\ PlaceInv'
      BY <3>1 DEF EnableInv, PlaceInv, Idle
    <3>3. EnableOkMeansRunning'
      <4>1. fn \in DOMAIN EnabledBy /\ status' = "OK"
                => /\ rdy[source] /\ source = EnabledBy[fn] /\ on[source]
                   /\ source \notin stopping \/ restarted
        BY <2>1, <3>1, Names DEF Reached, OscInv, EnableInv, Idle
      <4>2. fn \in DOMAIN EnabledBy /\ status' = "OK"
                => /\ on[EnabledBy[fn]] /\ rdy[EnabledBy[fn]]
                   /\ EnabledBy[fn] \notin stopping \/ restarted
        BY <4>1, Zenon
      <4> QED
        BY <2>1, <4>2 DEF EnableOkMeansRunning, Running
    <3>4. DisableInv'
      <4>1. fn \in DOMAIN DisabledBy
                => source = DisabledBy[fn] /\ (~on[source] \/ Held(source))
        BY <2>1 DEF OscInv, DisableInv, Idle
      <4>2. fn \in DOMAIN DisabledBy /\ status' = "OK" => ~rdy[source]
        BY <2>5, <3>1, Names DEF Reached
      <4>3. Held(source) => rdy[source]
        BY DEF OscInv, SourceInv, Held, Running
      <4>4. fn \in DOMAIN DisabledBy =>
                LET s == DisabledBy[fn] IN
                /\ ~on[s] \/ (sws = s /\ sw = s)
                /\ status' = "OK" => ~on[s] /\ ~rdy[s]
        BY <4>1, <4>2, <4>3 DEF Held
      <4> QED
        BY <2>1, <3>1, <4>4 DEF DisableInv, Idle, Held
    <3> QED
      BY <2>2, <3>2, <3>3, <3>4 DEF OscInv
  <2> QED
    BY <2>4, <2>5
\* The clock in use is not stopped, nor what feeds it: the store is ignored.
<1>3. CASE ClearOn
  <2>1. /\ UNCHANGED <<fn, rdy, pllcfg, sw, sws, source>>
        /\ at = "clear" /\ at' = "poll"
    BY <1>3 DEF ClearOn, GoTo
  <2>2. /\ fn \in DOMAIN DisabledBy /\ fn \notin DOMAIN EnabledBy
        /\ source = DisabledBy[fn] /\ MayDisable(source)
        /\ sws # source \/ sw = source
    BY <2>1, Names DEF PlaceInv, OscInv, DisableInv, Idle
  <2>3. source \in Sources /\ sws \in Sources /\ on \in [Sources -> BOOLEAN]
        /\ stopping \subseteq Sources
    BY DEF TypeOK, ClockTypeOK
  <2>4. CASE Feeds(source)
    <3>1. UNCHANGED <<on, stopping>>
      BY <1>3, <2>4 DEF ClearOn
    \* MayDisable: what is in use is the source itself, not a PLL it feeds.
    <3>2. Held(source)
      <4>1. sws = "PLL" => on["PLL"]
        BY DEF OscInv, SourceInv, Running, Sources
      <4> QED
        BY <2>2, <2>4, <4>1 DEF Feeds, MayDisable, Held
    <3>3. DisableInv'
      BY <2>1, <2>2, <3>1, <3>2 DEF DisableInv, MayDisable, Held, PllInput, Idle
    <3>4. SourceInv'
      BY <2>1, <3>1, SourcesKept DEF OscInv
    <3> QED
      BY <2>1, <2>2, <3>3, <3>4
         DEF OscInv, EnableInv, EnableOkMeansRunning, PlaceInv
  <2>5. CASE ~Feeds(source)
    <3>1. /\ on' = [on EXCEPT ![source] = FALSE]
          /\ stopping' = IF rdy[source] THEN stopping \union {source} ELSE stopping
      BY <1>3, <2>5 DEF ClearOn
    <3>2. ~on'[source] /\ \A t \in Sources : t # source => on'[t] = on[t]
      BY <2>3, <3>1
    <3>3. SourceInv'
      <4>1. \A t \in Sources : rdy'[t] => on'[t] \/ t \in stopping'
        BY <2>1, <3>1, <3>2 DEF OscInv, SourceInv
      <4>3. on'["PLL"] => Running(PllInput)'
        <5>1. on'["PLL"] => on["PLL"] /\ source # PllInput
          BY <2>2, <3>2 DEF MayDisable, Sources
        <5> QED
          BY <2>1, <3>1, <5>1 DEF OscInv, SourceInv, Running, PllInput
      <4>4. Running(sws)'
        <5>1. sws # source
          BY <2>5 DEF Feeds
        <5> QED
          BY <2>1, <3>1, <5>1 DEF OscInv, SourceInv, Running
      <4> QED
        BY <4>1, <4>3, <4>4 DEF SourceInv
    <3>4. DisableInv'
      <4>1. MayDisable(source)'
        BY <2>1, <2>2, <3>2 DEF MayDisable, PllInput, Sources
      <4> QED
        BY <2>1, <2>2, <3>2, <4>1 DEF DisableInv, Idle
    <3> QED
      BY <2>1, <2>2, <3>3, <3>4
         DEF OscInv, EnableInv, EnableOkMeansRunning, PlaceInv
  <2> QED
    BY <2>4, <2>5
<1>4. CASE RaiseLatency \/ CheckReady \/ RequestSwitch \/ LowerLatency
  <2>1. /\ UNCHANGED <<fn, on, rdy, stopping, pllcfg, sws>>
        /\ at \in {"raise", "ready", "request", "lower"}
        /\ at' \in {"ready", "request", "poll", "returned"}
    BY <1>4 DEF RaiseLatency, CheckReady, RequestSwitch, LowerLatency, flashSetLatency,
                GoTo, Return
  <2>2. fn = "rccSysclkSwitch"
    BY <2>1 DEF PlaceInv
  <2> QED
    BY <2>1, <2>2, SourcesKept, SwitchOsc DEF OscInv
<1> QED
  BY <1>1, <1>2, <1>3, <1>4 DEF Driver

\* Sources start and stop by themselves only where no answer forbids it.
LEMMA HardwareOsc == TypeOK /\ OscInv /\ PlaceInv /\ Hardware => OscInv' /\ PlaceInv'
<1> SUFFICES ASSUME TypeOK, OscInv, PlaceInv, Hardware PROVE OscInv' /\ PlaceInv'
  OBVIOUS
<1> USE DEF hwUnchanged, callVars, localVars
<1>1. UNCHANGED <<fn, at, status, on, pllcfg, sw, source, restarted>>
  BY DEF Hardware, OscReady, OscStopped, PllUnlock, SwitchCompletes
<1>2. PlaceInv'
  BY <1>1 DEF PlaceInv
<1>3. rdy \in [Sources -> BOOLEAN] /\ stopping \subseteq Sources
      /\ sws \in Sources /\ sw \in Sources
      /\ PllInput \in Sources /\ PllInput # "PLL"
  BY InputIsOscillator DEF TypeOK, ClockTypeOK, Oscillators, Sources
\* What is running stays so, and what is off stays off.
<1>4. ASSUME NEW s \in Sources, \/ OscReady(s) \/ OscStopped(s)
                                \/ PllUnlock /\ s = "PLL"
      PROVE  OscInv'
  <2>1. /\ \A t \in Sources : t # s => rdy'[t] = rdy[t]
        /\ \A t \in Sources : rdy'[t] => rdy[t] \/ on[t]
        /\ \A t \in Sources : t # s => (t \in stopping' <=> t \in stopping)
        /\ stopping' \subseteq stopping
        /\ sws' = sws
    BY <1>3, <1>4 DEF OscReady, OscStopped, PllUnlock
  <2>2. \A t \in Sources : on[t] /\ Running(t) => Running(t)'
    <3>1. CASE OscReady(s)
      BY <1>3, <2>1, <3>1 DEF OscReady, Running
    <3>2. CASE OscStopped(s)
      BY <1>3, <2>1, <3>2 DEF OscStopped, Running
    <3>3. CASE PllUnlock /\ s = "PLL"
      <4>1. ~on["PLL"]
        BY <3>3 DEF PllUnlock, OscInv, SourceInv, Running
      <4> QED
        BY <1>3, <2>1, <3>3, <4>1 DEF Running
    <3> QED
      BY <1>4, <3>1, <3>2, <3>3
  <2>3. \A t \in Sources : Running(t) => on[t]
    BY DEF OscInv, SourceInv, Running
  <2>4. SourceInv'
    <3>1. \A t \in Sources : rdy'[t] => on'[t] \/ t \in stopping'
      BY <1>1, <1>3, <1>4, <2>1
         DEF OscInv, SourceInv, OscReady, OscStopped, PllUnlock
    <3>3. on'["PLL"] => Running(PllInput)'
      BY <1>1, <1>3, <2>2, <2>3 DEF OscInv, SourceInv, PllInput, Running
    <3>4. Running(sws)'
      BY <1>3, <2>1, <2>2, <2>3 DEF OscInv, SourceInv, Running
    <3> QED
      BY <3>1, <3>3, <3>4 DEF SourceInv
  <2>5. EnableInv'
    BY <1>1, <2>1 DEF OscInv, EnableInv, Idle
  <2>6. EnableOkMeansRunning'
    <3>1. \A f \in DOMAIN EnabledBy : EnabledBy[f] \in Sources
      BY Names, SourceOf DEF Sources
    <3> QED
      BY <1>1, <2>2, <3>1 DEF OscInv, EnableOkMeansRunning, Idle, Running
  <2>7. DisableInv'
    <3>1. \A f \in DOMAIN DisabledBy : DisabledBy[f] \in Sources
      BY Names, SourceOf DEF Sources
    <3> QED
      BY <1>1, <2>1, <3>1 DEF OscInv, DisableInv, MayDisable, Held, PllInput, Idle
  <2> QED
    BY <2>4, <2>5, <2>6, <2>7 DEF OscInv
\* Once taken, the requested clock is held: no other switch is pending.
<1>5. CASE SwitchCompletes
  <2>1. sw # sws /\ rdy[sw] /\ sw \notin stopping /\ sws' = sw /\ UNCHANGED <<rdy, stopping>>
    BY <1>5 DEF SwitchCompletes
  <2>2. SourceInv'
    BY <1>1, <2>1 DEF OscInv, SourceInv, Running, PllInput
  <2>3. EnableInv' /\ EnableOkMeansRunning'
    BY <1>1, <2>1 DEF OscInv, EnableInv, EnableOkMeansRunning, Running, Idle
  <2>4. DisableInv'
    BY <1>1, <2>1 DEF OscInv, DisableInv, MayDisable, Held, PllInput, Idle
  <2> QED
    BY <1>2, <2>2, <2>3, <2>4 DEF OscInv
<1>6. CASE \E s \in Sources : OscReady(s) \/ OscStopped(s)
  BY <1>2, <1>4, <1>6
<1>7. CASE PllUnlock
  <2>1. "PLL" \in Sources
    BY DEF Sources
  <2> QED
    BY <1>2, <1>4, <1>7, <2>1
<1> QED
  BY <1>2, <1>5, <1>6, <1>7 DEF Hardware

(* What rccHsiEnable() ... rccPllDisable() answered is so until the next    *)
(* call (rcc.h), for a caller that turns sources on and off in any order:   *)
(* an OK disable has a source that is off, an OK enable one that runs       *)
(* unless it was still stopping when it was turned on, and a TIMEOUT of a   *)
(* disable left the ON bit set only on a source SYSCLK took meanwhile.      *)
THEOREM OscillatorAnswers == Spec => []OscillatorTruth
<1>1. Init => TypeOK /\ OscInv /\ PlaceInv
  BY InitInv, InitOsc DEF IInv
<1>2. TypeOK /\ OscInv /\ PlaceInv /\ [Next]_vars => (TypeOK /\ OscInv /\ PlaceInv)'
  <2>1. OscInv /\ PlaceInv /\ UNCHANGED vars => (OscInv /\ PlaceInv)'
    BY DEF OscInv, SourceInv, EnableInv, EnableOkMeansRunning, DisableInv, PlaceInv,
           MayDisable, Held, Running, PllInput, Idle, vars, callVars
  <2> QED
    BY <2>1, TypeStep, CallerOsc, DriverOsc, HardwareOsc DEF Next
<1>3. OscInv => OscillatorTruth
  BY DEF OscInv, DisableInv, OscillatorTruth, DisableTruth, Held
<1> QED
  BY <1>1, <1>2, <1>3, PTL DEF Spec

-----------------------------------------------------------------------------
(* What the record of a call says while it runs: no status but success has  *)
(* been assigned, and the two places at which a call can still be refused   *)
(* are known.                                                               *)

RunInv ==
    /\ ~Idle => status = "OK"
    /\ at = "raise" => ~wrote
    /\ at = "lower" => want <= current
    /\ RefusalWritesNothing

LEMMA CallerRun == RunInv /\ Caller => RunInv'
<1> SUFFICES ASSUME RunInv, Caller PROVE RunInv'
  OBVIOUS
<1> USE DEF RunInv, RefusalWritesNothing, Refusals, Idle
<1>1. ASSUME NEW f, NEW s, NEW w, Answer(f, s, w), s \in Refusals => ~w
      PROVE  RunInv'
  BY <1>1 DEF Answer
<1>2. ASSUME NEW f, NEW label, NEW w, Enter(f, label, w), label # "returned",
             label # "lower", label = "raise" => ~w
      PROVE  RunInv'
  BY <1>2 DEF Enter
<1>3. CASE rccHsiEnable \/ rccPllEnable \/ \E b : rccHseEnable(b)
  BY <1>3, <1>1, <1>2 DEF rccHsiEnable, rccPllEnable, rccHseEnable, SwitchOnAndWait
<1>4. CASE rccHsiDisable \/ rccHseDisable \/ rccPllDisable
  BY <1>4, <1>1, <1>2 DEF rccHsiDisable, rccHseDisable, rccPllDisable, DisableGuard
<1>5. CASE \/ \E p : rccPllConfig(p)
           \/ \E b : rccBusPrescalerConfig(b)
  BY <1>5, <1>1 DEF rccPllConfig, rccBusPrescalerConfig
<1>6. ASSUME NEW s, NEW l, rccSysclkSwitch(s, l)
      PROVE  RunInv'
  BY <1>6, <1>1, <1>2 DEF rccSysclkSwitch
<1> QED
  BY <1>3, <1>4, <1>5, <1>6 DEF Caller

\* A latency already raised fits the field, so lowering it is never refused.
LEMMA DriverRun == ASSUME TypeOK, RunInv, Driver PROVE RunInv'
<1> USE DEF RunInv, RefusalWritesNothing, Refusals, Idle
<1> USE DEF rccVars, localVars
<1>1. CASE WaitFlag
  BY <1>1 DEF WaitFlag, Poll
<1>2. CASE WaitOver
  <2>1. at = "recheck" /\ UNCHANGED <<want, current>>
    BY <1>2 DEF WaitOver
  <2>2. CASE Return("TIMEOUT", FALSE) /\ ~Reached
    BY <2>2 DEF Return
  <2>3. CASE GoTo(IF fn = "rccSysclkSwitch" /\ want <= current
                  THEN "lower" ELSE "returned", FALSE)
    BY <2>1, <2>3 DEF GoTo
  <2> QED
    BY <1>2, <2>2, <2>3, Zenon DEF WaitOver, Recheck
<1>3. CASE ClearOn
  BY <1>3 DEF ClearOn, GoTo
<1>4. CASE RaiseLatency
  BY <1>4 DEF RaiseLatency, flashSetLatency, GoTo, Return
<1>5. CASE CheckReady \/ RequestSwitch
  BY <1>5 DEF CheckReady, RequestSwitch, GoTo, Return
<1>6. CASE LowerLatency
  <2>1. at = "lower" /\ want \in Nat /\ want <= MaxLatency
        /\ flashSetLatency(want, "returned")
    BY <1>6 DEF LowerLatency, TypeOK, ClockTypeOK, MaxLatency
  <2>2. GoTo("returned", TRUE) \/ Return("HW_FAULT", TRUE)
    BY <2>1, FlashFits
  <2> QED
    BY <2>1, <2>2 DEF GoTo, Return
<1> QED
  BY <1>1, <1>2, <1>3, <1>4, <1>5, <1>6 DEF Driver

LEMMA HardwareRun == RunInv /\ Hardware => RunInv'
BY DEF Hardware, OscReady, OscStopped, PllUnlock, SwitchCompletes, hwUnchanged, callVars,
       localVars, RunInv, RefusalWritesNothing, Refusals, Idle

LEMMA StutterRun == RunInv /\ UNCHANGED vars => RunInv'
BY DEF RunInv, RefusalWritesNothing, Refusals, Idle, vars, callVars

LEMMA InductiveRun == Spec => [](TypeOK /\ RunInv)
<1>1. Init => RunInv
  BY DEF Init, CallInit, RunInv, RefusalWritesNothing, Refusals, Idle
<1>2. TypeOK /\ RunInv /\ [Next]_vars => (TypeOK /\ RunInv)'
  BY TypeStep, CallerRun, DriverRun, HardwareRun, StutterRun DEF Next
<1>3. Init => TypeOK
  BY InitInv DEF IInv
<1> QED
  BY <1>1, <1>2, <1>3, PTL DEF Spec

(* A refused call of the clock driver wrote nothing (docs/DESIGN.md, error  *)
(* contract), not even where rccSysclkSwitch() passes on the refusal of     *)
(* flashSetLatency() from the middle of its work.                           *)
THEOREM RefusalsWriteNothing == Spec => []RefusalWritesNothing
<1>1. RunInv => RefusalWritesNothing
  BY DEF RunInv
<1> QED
  BY <1>1, InductiveRun, PTL

-----------------------------------------------------------------------------
(* What a switch leaves in the latency field when it fails.                 *)

Larger == IF want > current THEN want ELSE current

\* Until it lowers, a running switch has the larger of the two latencies written.
KeepInv ==
    /\ PlaceInv
    /\ (fn = "rccSysclkSwitch" /\ ~Idle) =>
           /\ status = "OK"
           /\ latency = IF at = "raise" THEN current ELSE Larger
           /\ at = "lower" => want <= current
    /\ SwitchFailureKeepsWaits

\* A call of any function: the switch finds its own reading of the field.
LEMMA CallerKeep == TypeOK /\ KeepInv /\ Caller => KeepInv'
<1> SUFFICES ASSUME TypeOK, KeepInv, Caller PROVE KeepInv'
  OBVIOUS
<1> USE DEF KeepInv, PlaceInv, SwitchFailureKeepsWaits, Idle
<1>1. ASSUME NEW f, NEW s, NEW w, Answer(f, s, w), f # "rccSysclkSwitch" \/ s = "INVALID_PARAM"
      PROVE  KeepInv'
  BY <1>1 DEF Answer
<1>2. ASSUME NEW f, NEW label, NEW w, Enter(f, label, w), f # "rccSysclkSwitch",
             label = "poll" \/ (label = "clear" /\ f \in DOMAIN DisabledBy)
      PROVE  KeepInv'
  BY <1>2 DEF Enter
<1>3. CASE rccHsiEnable \/ rccPllEnable \/ \E b : rccHseEnable(b)
  BY <1>3, <1>1, <1>2 DEF rccHsiEnable, rccPllEnable, rccHseEnable, SwitchOnAndWait
<1>4. CASE rccHsiDisable \/ rccHseDisable \/ rccPllDisable
  BY <1>4, <1>1, <1>2, Names DEF rccHsiDisable, rccHseDisable, rccPllDisable, DisableGuard
<1>5. CASE (\E p : rccPllConfig(p)) \/ \E b : rccBusPrescalerConfig(b)
  BY <1>5, <1>1 DEF rccPllConfig, rccBusPrescalerConfig
<1>6. ASSUME NEW s, NEW l, rccSysclkSwitch(s, l) PROVE KeepInv'
  <2>1. CASE Answer("rccSysclkSwitch", "INVALID_PARAM", FALSE)
    BY <2>1, <1>1
  <2>2. CASE Enter("rccSysclkSwitch", "raise", FALSE) /\ current' = latency /\ UNCHANGED latency
    BY <2>2, Names DEF Enter
  <2> QED
    BY <1>6, <2>1, <2>2, Zenon DEF rccSysclkSwitch
<1> QED
  BY <1>3, <1>4, <1>5, <1>6 DEF Caller

\* A step of the running function: only the switch touches the field.
LEMMA DriverKeep == TypeOK /\ KeepInv /\ Driver => KeepInv'
<1> SUFFICES ASSUME TypeOK, KeepInv, Driver PROVE KeepInv'
  OBVIOUS
<1> USE DEF rccVars, localVars
<1>1. want \in Nat /\ current \in 0..MaxLatency
  BY DEF TypeOK, ClockTypeOK
<1>2. CASE WaitFlag
  BY <1>2 DEF WaitFlag, Poll, KeepInv, PlaceInv, Larger, SwitchFailureKeepsWaits, Idle
<1>3. CASE WaitOver
  <2>1. at = "recheck" /\ UNCHANGED <<fn, latency, want, current>>
    BY <1>3 DEF WaitOver, Recheck, GoTo, Return
  <2>2. \/ /\ UNCHANGED status
           /\ at' = IF fn = "rccSysclkSwitch" /\ want <= current THEN "lower" ELSE "returned"
        \/ at' = "returned" /\ status' = "TIMEOUT"
    BY <1>3 DEF WaitOver, Recheck, GoTo, Return
  <2> QED
    BY <2>1, <2>2 DEF KeepInv, PlaceInv, Larger, SwitchFailureKeepsWaits, Idle
<1>4. CASE ClearOn
  BY <1>4, Names DEF ClearOn, GoTo, KeepInv, PlaceInv, SwitchFailureKeepsWaits, Idle
\* Raised, or larger as it was; a field that does not take the value keeps its own.
<1>5. CASE RaiseLatency
  <2>1. fn = "rccSysclkSwitch" /\ latency = current /\ status = "OK"
        /\ UNCHANGED <<fn, want, current>>
    BY <1>5 DEF RaiseLatency, flashSetLatency, GoTo, Return, KeepInv, PlaceInv, Idle
  <2>2. \/ at' = "returned" /\ status' \in {"INVALID_PARAM", "HW_FAULT"} /\ UNCHANGED latency
        \/ at' = "ready" /\ UNCHANGED status /\ latency' = Larger
    BY <1>5, <2>1 DEF RaiseLatency, flashSetLatency, GoTo, Return, Larger
  <2> QED
    BY <2>1, <2>2 DEF KeepInv, PlaceInv, Larger, SwitchFailureKeepsWaits, Idle
<1>6. CASE CheckReady \/ RequestSwitch
  <2>1. /\ at \in {"ready", "request"} /\ UNCHANGED <<fn, latency, want, current>>
        /\ \/ at' = "returned" /\ status' = "NOT_INITIALIZED"
           \/ at' \in {"request", "poll"} /\ UNCHANGED status
    BY <1>6 DEF CheckReady, RequestSwitch, GoTo, Return
  <2> QED
    BY <2>1 DEF KeepInv, PlaceInv, Larger, SwitchFailureKeepsWaits, Idle
\* Lowered, which completes the call, or not lowered.
<1>7. CASE LowerLatency
  <2>1. /\ fn = "rccSysclkSwitch" /\ latency = current /\ status = "OK"
        /\ want <= MaxLatency
    BY <1>1, <1>7 DEF LowerLatency, KeepInv, PlaceInv, Larger, Idle, MaxLatency
  <2>2. flashSetLatency(want, "returned") /\ UNCHANGED <<want, current>>
    BY <1>7 DEF LowerLatency
  <2>3. \/ GoTo("returned", TRUE)
        \/ Return("HW_FAULT", TRUE) /\ UNCHANGED latency
    BY <1>1, <2>1, <2>2, FlashFits
  <2> QED
    BY <2>1, <2>2, <2>3
       DEF GoTo, Return, KeepInv, PlaceInv, SwitchFailureKeepsWaits, Idle
<1> QED
  BY <1>2, <1>3, <1>4, <1>5, <1>6, <1>7 DEF Driver

(* rcc.h 262-264: a raised latency stays written when a switch fails, and a *)
(* lowered one is never written unless the switch completed, for every      *)
(* caller, one that retunes the PLL under CFGR.SW too.                      *)
THEOREM SwitchFailures == Spec => []SwitchFailureKeepsWaits
<1>1. Init => TypeOK /\ KeepInv
  <2>1. Init => KeepInv
    BY DEF Init, CallInit, KeepInv, PlaceInv, SwitchFailureKeepsWaits, Idle
  <2> QED
    BY <2>1, InitInv DEF IInv
<1>2. TypeOK /\ KeepInv /\ [Next]_vars => (TypeOK /\ KeepInv)'
  <2>1. KeepInv /\ (Hardware \/ UNCHANGED vars) => KeepInv'
    BY DEF Hardware, OscReady, OscStopped, PllUnlock, SwitchCompletes, hwUnchanged, callVars,
           localVars, vars, KeepInv, PlaceInv, Larger, SwitchFailureKeepsWaits, Idle
  <2> QED
    BY <2>1, TypeStep, CallerKeep, DriverKeep DEF Next
<1>3. KeepInv => SwitchFailureKeepsWaits
  BY DEF KeepInv
<1> QED
  BY <1>1, <1>2, <1>3, PTL DEF Spec

-----------------------------------------------------------------------------
(* The bring-up.  Its invariant says what each of its calls has put in      *)
(* place, and that a later bring-up ends at its first call.                 *)

\* What the registers say of each other.  Nothing the bring-up turned on is
\* turned off again, and the PLL is requested only when all else is in place.
RegistersInv ==
    /\ on \in [Sources -> BOOLEAN] /\ rdy \in [Sources -> BOOLEAN]
    /\ stopping = {} /\ \A s \in Sources : rdy[s] => on[s]
    /\ on["HSE"] => hsebyp = "bypass"
    /\ on["PLL"] => rdy["HSE"] /\ pllcfg = BspPll
    /\ vos = 1
    /\ odswrdy => odswen
    /\ RegulatorHandshake
    /\ bus \in {<<1, 1, 1>>, BspBus}
    /\ sw \in {"HSI", "PLL"} /\ sws \in {"HSI", sw}
    /\ sw = "PLL" => rdy["PLL"] /\ vosrdy /\ odswrdy /\ bus = BspBus
    /\ caches => sws = "PLL" /\ latency = BspLatency

\* The n-th call of the running bring-up has returned OK.
Passed(n) == step > n + 1 \/ (step = n + 1 /\ Idle /\ status = "OK")

\* The first bring-up is under way.
FirstCall == calls = 1 /\ step # 0

\* Driver calls are made by the first bring-up only; a later one is refused by
\* its first call, HSE being on.
CallsInv ==
    /\ calls \in Nat /\ step \in 0..10
    /\ calls > 0 => pwren
    /\ calls = 0 => /\ step = 0 /\ console = 0 /\ result = "UNINITIALIZED"
                    /\ ~on["HSE"] /\ ~on["PLL"] /\ latency = 0 /\ sw = "HSI"
    /\ step # 0 => result = "UNINITIALIZED"
    /\ ~Idle => FirstCall
    /\ calls > 0 /\ ~(calls = 1 /\ step = 1) => on["HSE"]
    /\ step = 1 => Idle /\ status = "OK"
    /\ calls > 1 => /\ step <= 2
                    /\ step = 2 => status = "BUSY"
                    /\ step = 0 => result = "BUSY"

\* What each call of the first bring-up leaves to the next.
FirstInv ==
    FirstCall =>
        /\ console = 0
        /\ step > 1 => fn = BringUp[step - 1]
        /\ step = 1 => ~on["HSE"]
        /\ step <= 4 => ~on["PLL"]
        /\ step <= 8 => latency = 0 /\ sw = "HSI"
        /\ Passed(1) => rdy["HSE"]
        /\ Passed(3) => pllcfg = BspPll
        /\ Passed(4) => rdy["PLL"]
        /\ Passed(5) => vosrdy
        /\ Passed(6) => odswrdy
        /\ Passed(7) => bus = BspBus
        /\ Passed(8) => sws = "PLL" /\ latency = BspLatency
        /\ Passed(9) => caches

\* Where a driver function can be, and what it has done by then.
PlacesInv ==
    /\ at \in {"poll", "recheck"} =>
           \/ fn = "rccHseEnable" /\ source = "HSE"
           \/ fn = "rccPllEnable" /\ source = "PLL"
           \/ fn = "rccSysclkSwitch" /\ sw = "PLL"
    /\ at \in {"raise", "ready", "request"} => fn = "rccSysclkSwitch"
    /\ at = "request" => rdy["PLL"]
    /\ (fn = "rccSysclkSwitch" /\ ~Idle) =>
           /\ source = "PLL" /\ want = BspLatency /\ current = 0
           /\ at # "raise" => latency = BspLatency
    /\ at \in {"returned", "poll", "recheck", "raise", "ready", "request"} \union PwrPlaces
    /\ at \in {"pollVos", "recheckVos"} => fn = "pwrWaitVoltageScaleReady"
    /\ at \in {"pollOd", "recheckOd", "odswen", "pollOdsw", "recheckOdsw"}
           => fn = "pwrEnableOverdrive"
    /\ at = "odswen" => odrdy

\* OK is answered by the first bring-up, and only after its last call.
ResultInv == result = "OK" => calls = 1 /\ step = 0 /\ caches

\* The console is started after the first bring-up, so no divider moves under it.
ConsoleInv ==
    console # 0 =>
        /\ calls > 0 /\ (calls > 1 \/ step = 0)
        /\ sws = "HSI" => console = 16 \div bus[2]
        /\ caches => console = 45

BringUpInv ==
    RegistersInv /\ CallsInv /\ FirstInv /\ PlacesInv /\ ResultInv /\ ConsoleInv

-----------------------------------------------------------------------------
\* The calls of bspClockInit() by their place in it.
LEMMA BringUpCalls ==
    /\ Len(BringUp) = 9
    /\ BringUp[1] = "rccHseEnable" /\ BringUp[2] = "pwrSetVoltageScale"
    /\ BringUp[3] = "rccPllConfig" /\ BringUp[4] = "rccPllEnable"
    /\ BringUp[5] = "pwrWaitVoltageScaleReady" /\ BringUp[6] = "pwrEnableOverdrive"
    /\ BringUp[7] = "rccBusPrescalerConfig" /\ BringUp[8] = "rccSysclkSwitch"
    /\ BringUp[9] = "flashEnableCaches"
BY DEF BringUp

\* The running function tells which call the bring-up is at.
LEMMA WhichCall ==
    ASSUME CallsInv, FirstInv, ~Idle
    PROVE  /\ calls = 1 /\ step \in 2..10 /\ console = 0
           /\ fn = "rccHseEnable" => step = 2
           /\ fn = "rccPllEnable" => step = 5
           /\ fn = "pwrWaitVoltageScaleReady" => step = 6
           /\ fn = "pwrEnableOverdrive" => step = 7
           /\ fn = "rccSysclkSwitch" => step = 9
<1>1. calls = 1 /\ step \in 2..10 /\ console = 0 /\ fn = BringUp[step - 1]
  BY DEF CallsInv, FirstInv, FirstCall
<1>2. step - 1 \in {1, 2, 3, 4, 5, 6, 7, 8, 9}
  BY <1>1
<1> QED
  BY <1>1, <1>2, BringUpCalls

\* The board's PLL runs from HSE; the chip's reset setting does not.
LEMMA BspPllFacts ==
    /\ PllInputOf[BspPll] = "HSE" /\ BspPll \in PllSettings
BY BspAssumption DEF BspPll

LEMMA BringUpInit == BspInit => BringUpInv
<1> SUFFICES ASSUME BspInit PROVE BringUpInv
  OBVIOUS
<1> USE DEF BspInit, Init, CallInit, PwrInit, Sources, Idle
<1>1. RegistersInv
  BY DEF RegistersInv, RegulatorHandshake, NoStoreIgnored, OdSwitchAfterReady
<1>2. CallsInv
  <2>1. calls = 0 /\ step = 0 /\ console = 0 /\ result = "UNINITIALIZED" /\ latency = 0
        /\ sw = "HSI" /\ ~on["HSE"] /\ ~on["PLL"] /\ Idle
    OBVIOUS
  <2> QED
    BY <2>1 DEF CallsInv
<1>3. FirstInv /\ PlacesInv /\ ResultInv /\ ConsoleInv
  BY DEF FirstInv, FirstCall, PlacesInv, ResultInv, ConsoleInv
<1> QED
  BY <1>1, <1>2, <1>3 DEF BringUpInv

-----------------------------------------------------------------------------
(* Steps of the bring-up itself.                                            *)

\* A bring-up starts, the first one or a later one.
LEMMA FirstOrLater ==
    ASSUME BringUpInv, bspClockInit
    PROVE  BringUpInv'
<1> USE DEF BringUpInv, rccVars, crVars, cfgrVars, localVars, overdriveVars
<1>1. /\ step = 0 /\ step' = 1 /\ calls' = calls + 1 /\ result' = "UNINITIALIZED"
      /\ Idle /\ at' = at /\ fn' = "rccPwrClockEnable" /\ status' = "OK" /\ pwren'
      /\ UNCHANGED <<on, rdy, stopping, hsebyp, pllcfg, sw, sws, bus, latency, source,
                     want, current, vos, vosrdy, odrdy, odswen, odswrdy, dropped,
                     caches, console>>
  BY DEF bspClockInit, rccPwrClockEnable, Answer
<1>2. RegistersInv'
  BY <1>1 DEF RegistersInv, RegulatorHandshake, NoStoreIgnored, OdSwitchAfterReady
<1>3. CallsInv'
  BY <1>1 DEF CallsInv, FirstCall, Idle
<1>4. FirstInv'
  BY <1>1 DEF CallsInv, FirstInv, FirstCall, Passed, Idle
<1>5. PlacesInv'
  BY <1>1 DEF PlacesInv, Idle
<1>6. ResultInv' /\ ConsoleInv'
  BY <1>1 DEF CallsInv, ResultInv, ConsoleInv
<1> QED
  BY <1>2, <1>3, <1>4, <1>5, <1>6

\* The bring-up returns what its last call returned.
LEMMA ReturnStep ==
    ASSUME BringUpInv, BspReturn
    PROVE  BringUpInv'
<1> USE DEF BringUpInv, rccVars, crVars, cfgrVars, localVars, callVars, pwrVars
<1>1. /\ step # 0 /\ step' = 0 /\ result' = status /\ Idle
      /\ status # "OK" \/ step > 9
      /\ UNCHANGED <<fn, at, status, on, rdy, stopping, hsebyp, pllcfg, sw, sws, bus,
                     latency, source, want, current, pwren, vos, vosrdy, odrdy,
                     odswen, odswrdy, dropped, calls, caches, console>>
  BY BringUpCalls DEF BspReturn
<1>2. RegistersInv'
  BY <1>1 DEF RegistersInv, RegulatorHandshake, NoStoreIgnored, OdSwitchAfterReady
<1>3. CallsInv'
  BY <1>1 DEF CallsInv, FirstCall, Idle
<1>4. FirstInv' /\ PlacesInv'
  BY <1>1 DEF FirstInv, FirstCall, PlacesInv, Idle
<1>5. ResultInv'
  BY <1>1 DEF CallsInv, FirstInv, FirstCall, Passed, ResultInv
<1>6. ConsoleInv'
  BY <1>1 DEF CallsInv, FirstInv, FirstCall, ConsoleInv
<1> QED
  BY <1>2, <1>3, <1>4, <1>5, <1>6

\* The console's baud rate is set from the clock the board reports.
LEMMA ConsoleStep ==
    ASSUME BringUpInv, boardIoInit
    PROVE  BringUpInv'
<1> USE DEF BringUpInv, rccVars, crVars, cfgrVars, localVars, callVars, pwrVars
<1>1. /\ Idle /\ step = 0 /\ calls > 0 /\ console' = actualPclk1Hz
      /\ UNCHANGED <<fn, at, status, on, rdy, stopping, hsebyp, pllcfg, sw, sws, bus,
                     latency, source, want, current, pwren, vos, vosrdy, odrdy,
                     odswen, odswrdy, dropped, step, calls, result, caches>>
  BY DEF boardIoInit
<1>2. RegistersInv' /\ ResultInv'
  BY <1>1 DEF RegistersInv, RegulatorHandshake, NoStoreIgnored, OdSwitchAfterReady,
              ResultInv
<1>3. CallsInv' /\ FirstInv' /\ PlacesInv'
  BY <1>1 DEF CallsInv, FirstInv, FirstCall, PlacesInv, Idle
<1>4. ConsoleInv'
  <2>1. sws = "HSI" => console' = 16 \div bus[2]
    BY <1>1 DEF actualPclk1Hz
  <2>2. caches => console' = 45
    <3>1. caches => sws = "PLL" /\ bus = <<1, 4, 2>>
      BY DEF RegistersInv, BspBus
    <3>2. 180 \div 4 = 45
      OBVIOUS
    <3> QED
      BY <1>1, <3>1, <3>2 DEF actualPclk1Hz
  <2> QED
    BY <1>1, <2>1, <2>2 DEF ConsoleInv
<1> QED
  BY <1>2, <1>3, <1>4

-----------------------------------------------------------------------------
(* The calls, one by one.                                                   *)

\* Only the first bring-up gets past its first call.
LEMMA NextIsFirst ==
    ASSUME BringUpInv, NextCall
    PROVE  /\ step \in 1..9 /\ status = "OK" /\ calls > 0
           /\ step > 1 => calls = 1
           /\ calls = 1 => console = 0
           /\ console # 0 => calls > 1
           /\ result = "UNINITIALIZED" /\ pwren
           /\ step' = step + 1 /\ UNCHANGED <<calls, result, console>>
           /\ DriverFunction(BringUp[step])
BY BringUpCalls DEF BringUpInv, NextCall, CallsInv, FirstInv, FirstCall

\* Nothing is on its way down when the bring-up turns a source on.
LEMMA NothingStopping ==
    ASSUME BringUpInv, NEW s
    PROVE  stopping = {} /\ {stopping, stopping \ {s}} = {stopping}
BY DEF BringUpInv, RegistersInv

\* Between calls 1 and 2: rccHseEnable() is called, and may refuse.
LEMMA CallHse ==
    ASSUME BringUpInv, NextCall, step = 1
    PROVE  BringUpInv'
<1> USE DEF BringUpInv, rccVars, crVars, cfgrVars, localVars, pwrVars
<1>1. /\ Idle /\ fn' = "rccHseEnable" /\ status = "OK" /\ calls > 0
      /\ step' = 2 /\ result = "UNINITIALIZED" /\ pwren
      /\ calls = 1 => console = 0
      /\ UNCHANGED <<rdy, stopping, pllcfg, sw, sws, bus, latency, want, current,
                     pwren, vos, vosrdy, odrdy, odswen, odswrdy, dropped, calls,
                     result, caches, console>>
      /\ \/ /\ on["HSE"] /\ at' = at /\ status' = "BUSY"
            /\ UNCHANGED <<on, hsebyp, source>>
         \/ /\ ~on["HSE"] /\ at' = "poll" /\ status' = "OK"
            /\ on' = [on EXCEPT !["HSE"] = TRUE] /\ hsebyp' = "bypass" /\ source' = "HSE"
  <2>1. /\ step' = 2 /\ UNCHANGED <<calls, result, console>> /\ status = "OK" /\ calls > 0
        /\ result = "UNINITIALIZED" /\ pwren /\ (calls = 1 => console = 0)
        /\ DriverFunction("rccHseEnable")
    BY NextIsFirst, BringUpCalls
  <2>2. rccHseEnable("bypass") /\ UNCHANGED <<pwrVars, caches>>
    BY <2>1 DEF DriverFunction
  <2> QED
    BY <2>1, <2>2, NothingStopping
       DEF rccHseEnable, SwitchOnAndWait, Enter, Answer, HseModes
<1>2. RegistersInv'
  BY <1>1 DEF RegistersInv, RegulatorHandshake, NoStoreIgnored, OdSwitchAfterReady, Sources
<1>3. calls = 1 => ~on["HSE"]
  BY <1>1 DEF FirstInv, FirstCall
<1>4. CallsInv'
  BY <1>1, <1>3 DEF CallsInv, FirstCall, RegistersInv, Idle, Sources
<1>5. FirstInv'
  <2>1. 2 - 1 = 1
    OBVIOUS
  <2> QED
    BY <1>1, <1>3, <2>1, BringUpCalls
       DEF FirstInv, FirstCall, Passed, RegistersInv, Idle, Sources
<1>6. PlacesInv' /\ ResultInv' /\ ConsoleInv'
  BY <1>1 DEF CallsInv, PlacesInv, ResultInv, ConsoleInv, Idle
<1> QED
  BY <1>2, <1>4, <1>5, <1>6

\* A call that answers OK at once, and the registers it writes.
LEMMA CallAnswered ==
    ASSUME BringUpInv, NextCall, step \in {2, 3, 7, 9}
    PROVE  BringUpInv'
<1> USE DEF BringUpInv, rccVars, crVars, cfgrVars, localVars, pwrVars, overdriveVars
<1>1. /\ calls = 1 /\ console = 0 /\ result = "UNINITIALIZED" /\ pwren /\ status = "OK"
      /\ step' = step + 1 /\ UNCHANGED <<calls, result, console>>
      /\ DriverFunction(BringUp[step])
  BY NextIsFirst
<1>2. /\ Idle /\ at' = at /\ status' = "OK" /\ fn' = BringUp[step]
      /\ UNCHANGED <<on, rdy, stopping, hsebyp, sw, sws, latency, source, want, current,
                     pwren, vosrdy, odrdy, odswen, odswrdy>>
      /\ step = 2 => vos' = 1 /\ ~dropped'
      /\ step # 2 => UNCHANGED <<vos, dropped>>
      /\ pllcfg' = IF step = 3 THEN BspPll ELSE pllcfg
      /\ bus' = IF step = 7 THEN BspBus ELSE bus
      /\ caches' = IF step = 9 THEN TRUE ELSE caches
  <2>1. CASE step = 2
    <3>1. pwrSetVoltageScale(1) /\ UNCHANGED caches
      BY <1>1, <2>1, BringUpCalls DEF DriverFunction
    <3>2. ~on["PLL"] /\ ~dropped /\ vos = 1 /\ 1 \in Scales
      BY <1>1, <2>1
         DEF FirstInv, FirstCall, RegistersInv, RegulatorHandshake, NoStoreIgnored, Scales
    <3>3. /\ Answer("pwrSetVoltageScale", "OK", TRUE)
          /\ vos' = 1 /\ ~dropped'
          /\ UNCHANGED <<rccVars, pwren, vosrdy, overdriveVars>>
      BY <1>1, <3>1, <3>2 DEF pwrSetVoltageScale
    <3> QED
      BY <2>1, <3>1, <3>3, BringUpCalls DEF Answer
  <2>2. CASE step = 3
    <3>1. rccPllConfig(BspPll) /\ UNCHANGED <<pwrVars, caches>>
      BY <1>1, <2>2, BringUpCalls DEF DriverFunction
    <3>2. ~on["PLL"]
      BY <1>1, <2>2 DEF FirstInv, FirstCall
    <3> QED
      BY <2>2, <3>1, <3>2, BspPllFacts, BringUpCalls DEF rccPllConfig, Answer
  <2>3. CASE step = 7
    <3>1. rccBusPrescalerConfig(BspBus) /\ UNCHANGED <<pwrVars, caches>>
      BY <1>1, <2>3, BringUpCalls DEF DriverFunction
    <3>2. ValidPrescalers(BspBus)
      BY DEF ValidPrescalers, BspBus, AhbDivisors, ApbDivisors
    <3> QED
      BY <2>3, <3>1, <3>2, BringUpCalls DEF rccBusPrescalerConfig, Answer
  <2>4. CASE step = 9
    <3>1. flashEnableCaches
      BY <1>1, <2>4, BringUpCalls DEF DriverFunction
    <3> QED
      BY <2>4, <3>1, BringUpCalls DEF flashEnableCaches, Answer
  <2> QED
    BY <2>1, <2>2, <2>3, <2>4
\* All that the call relies on has been passed.
<1>3. /\ step = 3 => ~on["PLL"]
      /\ step = 9 => sws = "PLL" /\ latency = BspLatency
  BY <1>1, <1>2 DEF FirstInv, FirstCall, Passed
<1>4. RegistersInv'
  BY <1>2, <1>3 DEF RegistersInv, RegulatorHandshake, NoStoreIgnored, OdSwitchAfterReady
<1>5. CallsInv'
  BY <1>1, <1>2 DEF CallsInv, FirstCall, Idle
<1>6. FirstInv'
  <2>1. (step + 1) - 1 = step
    OBVIOUS
  <2> QED
    BY <1>1, <1>2, <2>1 DEF FirstInv, FirstCall, Passed, Idle
<1>7. PlacesInv' /\ ResultInv' /\ ConsoleInv'
  BY <1>1, <1>2 DEF PlacesInv, ResultInv, ConsoleInv, Idle
<1> QED
  BY <1>4, <1>5, <1>6, <1>7

\* A call that goes on to wait, and the registers it writes first.
LEMMA CallEntered ==
    ASSUME BringUpInv, NextCall, step \in {4, 5, 6, 8}
    PROVE  BringUpInv'
<1> USE DEF BringUpInv, rccVars, crVars, cfgrVars, localVars, pwrVars, overdriveVars
<1>1. /\ calls = 1 /\ console = 0 /\ result = "UNINITIALIZED" /\ pwren /\ status = "OK"
      /\ step' = step + 1 /\ UNCHANGED <<calls, result, console>>
      /\ DriverFunction(BringUp[step])
  BY NextIsFirst
<1>2. /\ Idle /\ fn' = BringUp[step] /\ status' = "OK"
      /\ UNCHANGED <<rdy, stopping, hsebyp, pllcfg, sw, sws, bus, latency,
                     pwren, vos, vosrdy, odrdy, odswen, odswrdy, caches>>
      /\ ~dropped'
      /\ step = 4 => /\ at' = "poll" /\ source' = "PLL"
                     /\ on' = [on EXCEPT !["PLL"] = TRUE]
      /\ step # 4 => on' = on
      /\ step = 5 => at' = "pollVos"
      /\ step = 6 => at' = "pollOd"
      /\ step = 8 => /\ at' = "raise" /\ source' = "PLL"
                     /\ want' = BspLatency /\ current' = latency
  <2>0. ~dropped
    BY DEF RegistersInv, RegulatorHandshake, NoStoreIgnored
  <2>1. CASE step = 4
    <3>1. rccPllEnable /\ UNCHANGED <<pwrVars, caches>>
      BY <1>1, <2>1, BringUpCalls DEF DriverFunction
    <3> QED
      BY <2>0, <2>1, <3>1, BringUpCalls, NothingStopping
         DEF rccPllEnable, SwitchOnAndWait, Enter
  <2>2. CASE step = 5
    <3>1. pwrWaitVoltageScaleReady /\ UNCHANGED caches
      BY <1>1, <2>2, BringUpCalls DEF DriverFunction
    <3> QED
      BY <2>0, <2>2, <3>1, BringUpCalls DEF pwrWaitVoltageScaleReady, Enter
  <2>3. CASE step = 6
    <3>1. pwrEnableOverdrive /\ UNCHANGED caches
      BY <1>1, <2>3, BringUpCalls DEF DriverFunction
    <3>2. ~dropped'
      BY <1>1, <2>0, <3>1, Zenon DEF pwrEnableOverdrive
    <3> QED
      BY <2>3, <3>1, <3>2, BringUpCalls DEF pwrEnableOverdrive, Enter
  <2>4. CASE step = 8
    <3>1. rccSysclkSwitch("PLL", BspLatency) /\ UNCHANGED <<pwrVars, caches>>
      BY <1>1, <2>4, BringUpCalls DEF DriverFunction
    <3> QED
      BY <2>0, <2>4, <3>1, BringUpCalls DEF rccSysclkSwitch, Enter, Sources
  <2> QED
    BY <2>1, <2>2, <2>3, <2>4
<1>3. rdy["HSE"] /\ pllcfg = BspPll /\ (step = 8 => latency = 0)
  <2>1. FirstCall /\ Passed(1) /\ Passed(3)
    BY <1>1, <1>2 DEF FirstCall, Passed
  <2> QED
    BY <2>1 DEF FirstInv
<1>4. RegistersInv'
  BY <1>2, <1>3
     DEF RegistersInv, RegulatorHandshake, NoStoreIgnored, OdSwitchAfterReady, Sources
<1>5. CallsInv'
  BY <1>1, <1>2 DEF CallsInv, FirstCall, Idle, RegistersInv, Sources
<1>6. FirstInv'
  <2>1. (step + 1) - 1 = step
    OBVIOUS
  <2> QED
    BY <1>1, <1>2, <2>1 DEF FirstInv, FirstCall, Passed, Idle
<1>7. PlacesInv'
  <2>1. CASE step = 4
    BY <1>2, <2>1, BringUpCalls DEF PlacesInv, Idle
  <2>2. CASE step \in {5, 6}
    BY <1>2, <2>2, BringUpCalls DEF PlacesInv, PwrPlaces, Idle
  <2>3. CASE step = 8
    BY <1>2, <1>3, <2>3, BringUpCalls DEF PlacesInv, Idle
  <2> QED
    BY <2>1, <2>2, <2>3
<1>8. ResultInv' /\ ConsoleInv'
  BY <1>1, <1>2 DEF ResultInv, ConsoleInv
<1> QED
  BY <1>4, <1>5, <1>6, <1>7, <1>8

-----------------------------------------------------------------------------
(* The steps of the function that runs.  Each leaves all but a few          *)
(* registers alone.                                                         *)

\* A reading of a flag, and the reading after the loop.
LEMMA ReadingStep ==
    ASSUME BringUpInv, ~Idle,
           UNCHANGED <<fn, rccVars, pwrVars, bspVars>>,
           \/ /\ UNCHANGED status
              /\ \/ at \in {"poll", "recheck"} /\ at' \in {"poll", "recheck"}
                 \/ at \in {"pollVos", "recheckVos"} /\ at' \in {"pollVos", "recheckVos"}
                 \/ at \in {"pollOd", "recheckOd"} /\ at' \in {"pollOd", "recheckOd"}
                 \/ /\ at \in {"pollOdsw", "recheckOdsw"}
                    /\ at' \in {"pollOdsw", "recheckOdsw"}
                 \/ at = "recheckOd" /\ at' = "odswen" /\ odrdy
           \/ /\ at' = "returned" /\ status' = "TIMEOUT"
           \/ /\ at' = "returned" /\ UNCHANGED status
              /\ fn = "rccHseEnable" => rdy["HSE"]
              /\ fn = "rccPllEnable" => rdy["PLL"]
              /\ fn = "rccSysclkSwitch" => sws = "PLL" /\ latency = BspLatency
              /\ fn = "pwrWaitVoltageScaleReady" => vosrdy
              /\ fn = "pwrEnableOverdrive" => odswrdy
    PROVE  BringUpInv'
<1> USE DEF BringUpInv, rccVars, crVars, cfgrVars, localVars, pwrVars, overdriveVars, bspVars
<1>1. calls = 1 /\ step \in 2..10 /\ fn = BringUp[step - 1]
  BY WhichCall DEF FirstInv, FirstCall
<1>2. RegistersInv' /\ ResultInv' /\ ConsoleInv'
  BY DEF RegistersInv, RegulatorHandshake, NoStoreIgnored, OdSwitchAfterReady,
         ResultInv, ConsoleInv
<1>3. CallsInv'
  BY <1>1 DEF CallsInv, FirstCall, Idle
<1>4. PlacesInv'
  <2>1. UNCHANGED <<fn, rdy, sw, latency, source, want, current, odrdy>>
    OBVIOUS
  <2>2. CASE at' = "returned"
    BY <2>2 DEF PlacesInv, Idle
  <2>3. CASE at \in {"poll", "recheck"} /\ at' \in {"poll", "recheck"}
    BY <2>1, <2>3 DEF PlacesInv, Idle
  <2>4. CASE at' \in PwrPlaces /\ at \in PwrPlaces
    BY <2>1, <2>4 DEF PlacesInv, PwrPlaces, Idle
  <2> QED
    BY <2>2, <2>3, <2>4 DEF PwrPlaces
<1>5. FirstInv'
  <2>1. CASE ~(at' = "returned" /\ status' = "OK")
    BY <1>1, <2>1 DEF FirstInv, FirstCall, Passed, Idle
  <2>2. CASE at' = "returned" /\ status' = "OK"
    <3>1. \/ fn = "rccHseEnable" /\ step = 2
          \/ fn = "rccPllEnable" /\ step = 5
          \/ fn = "pwrWaitVoltageScaleReady" /\ step = 6
          \/ fn = "pwrEnableOverdrive" /\ step = 7
          \/ fn = "rccSysclkSwitch" /\ step = 9
      BY WhichCall DEF PlacesInv, PwrPlaces, Idle
    <3>2. \A n \in 1..9 : Passed(n)' <=> Passed(n) \/ step = n + 1
      BY <1>1, <2>2 DEF Passed, Idle
    <3> QED
      BY <1>1, <2>2, <3>1, <3>2 DEF FirstInv, FirstCall
  <2> QED
    BY <2>1, <2>2
<1> QED
  BY <1>2, <1>3, <1>4, <1>5

\* How the waits of the two drivers read a flag.
LEMMA WaitStep ==
    ASSUME BringUpInv,
           \/ (WaitFlag \/ WaitOver) /\ UNCHANGED pwrVars
           \/ WaitVos \/ WaitOd \/ WaitOdsw,
           UNCHANGED bspVars
    PROVE  BringUpInv'
<1>1. ~Idle /\ UNCHANGED <<fn, rccVars, pwrVars, bspVars>>
  BY DEF WaitFlag, WaitOver, WaitVos, WaitOd, WaitOdsw, WaitCsrFlag, Poll, Recheck,
         GoTo, Return, Idle
<1>2. CASE WaitFlag
  BY <1>1, <1>2, ReadingStep DEF WaitFlag, Poll
<1>3. CASE WaitOver
  <2>1. \/ at' = "returned" /\ status' = "TIMEOUT"
        \/ Reached /\ status' = status
           /\ at' = IF fn = "rccSysclkSwitch" /\ want <= current THEN "lower" ELSE "returned"
    BY <1>3 DEF WaitOver, Recheck, GoTo, Return
  <2>2. CASE at' = "returned" /\ status' = "TIMEOUT"
    BY <1>1, <2>2, ReadingStep
  <2>3. CASE Reached /\ status' = status
             /\ at' = IF fn = "rccSysclkSwitch" /\ want <= current THEN "lower" ELSE "returned"
    <3>1. \/ fn = "rccHseEnable" /\ source = "HSE"
          \/ fn = "rccPllEnable" /\ source = "PLL"
          \/ /\ fn = "rccSysclkSwitch" /\ source = "PLL"
             /\ want = BspLatency /\ current = 0 /\ latency = BspLatency
      BY <1>3 DEF WaitOver, BringUpInv, PlacesInv, Idle
    <3>2. at' = "returned"
      BY <2>3, <3>1 DEF BspLatency
    <3>3. /\ fn = "rccHseEnable" => rdy["HSE"]
          /\ fn = "rccPllEnable" => rdy["PLL"]
          /\ fn = "rccSysclkSwitch" => sws = "PLL" /\ latency = BspLatency
      BY <2>3, <3>1 DEF Reached, DisabledBy, EnabledBy
    <3> QED
      BY <1>1, <2>3, <3>1, <3>2, <3>3, ReadingStep
  <2> QED
    BY <2>1, <2>2, <2>3
<1>4. ASSUME NEW flag, NEW poll, NEW recheck, WaitCsrFlag(flag, poll, recheck, "returned"),
             \/ poll = "pollVos" /\ recheck = "recheckVos" /\ flag = vosrdy
             \/ poll = "pollOdsw" /\ recheck = "recheckOdsw" /\ flag = odswrdy
      PROVE  BringUpInv'
  <2>1. /\ fn = IF poll = "pollVos" THEN "pwrWaitVoltageScaleReady" ELSE "pwrEnableOverdrive"
        /\ at \in {poll, recheck}
    BY <1>4 DEF WaitCsrFlag, BringUpInv, PlacesInv
  <2>2. \/ at' \in {poll, recheck} /\ UNCHANGED status
        \/ at' = "returned" /\ status' = "TIMEOUT"
        \/ at' = "returned" /\ UNCHANGED status /\ flag
    BY <1>4 DEF WaitCsrFlag, Poll, Recheck, GoTo, Return
  <2> QED
    BY <1>1, <1>4, <2>1, <2>2, ReadingStep
<1>5. CASE WaitVos \/ WaitOdsw
  BY <1>4, <1>5 DEF WaitVos, WaitOdsw
<1>6. CASE WaitOd
  <2>1. /\ at \in {"pollOd", "recheckOd"}
        /\ \/ at' \in {"pollOd", "recheckOd"} /\ UNCHANGED status
           \/ at' = "returned" /\ status' = "TIMEOUT"
           \/ at = "recheckOd" /\ at' = "odswen" /\ odrdy /\ UNCHANGED status
    BY <1>6 DEF WaitOd, WaitCsrFlag, Poll, Recheck, GoTo, Return
  <2> QED
    BY <1>1, <2>1, ReadingStep
<1> QED
  BY <1>2, <1>3, <1>5, <1>6

\* ODSWEN is set under the PWR clock, after ODRDY.
LEMMA OdswenStep ==
    ASSUME BringUpInv, SetOdswen, UNCHANGED bspVars
    PROVE  BringUpInv'
<1> USE DEF BringUpInv, rccVars, crVars, cfgrVars, localVars, bspVars
<1>1. /\ ~Idle /\ calls = 1 /\ pwren /\ odrdy /\ ~dropped
  BY WhichCall
     DEF SetOdswen, PlacesInv, CallsInv, RegistersInv, RegulatorHandshake, NoStoreIgnored, Idle
<1>2. /\ at = "odswen" /\ at' = "pollOdsw"
      /\ UNCHANGED <<fn, status, on, rdy, stopping, hsebyp, pllcfg, sw, sws, bus, latency,
                     source, want, current, pwren, vos, vosrdy, odrdy, odswrdy,
                     step, calls, result, caches, console>>
  BY DEF SetOdswen, GoTo
<1>3. odswen' /\ ~dropped'
  BY <1>1, Zenon DEF SetOdswen
<1>4. RegistersInv' /\ ResultInv' /\ ConsoleInv'
  BY <1>1, <1>2, <1>3
     DEF RegistersInv, RegulatorHandshake, NoStoreIgnored, OdSwitchAfterReady,
         ResultInv, ConsoleInv
<1>5. CallsInv'
  BY <1>2 DEF CallsInv, FirstCall, Idle
<1>6. FirstInv'
  BY <1>2 DEF FirstInv, FirstCall, Passed, Idle
<1>7. PlacesInv'
  BY <1>2 DEF PlacesInv, PwrPlaces, Idle
<1> QED
  BY <1>4, <1>5, <1>6, <1>7

\* The steps of rccSysclkSwitch() up to its wait: the latency goes from 0 to the
\* one asked for, or the call fails.
LEMMA SwitchStep ==
    ASSUME BringUpInv,
           RaiseLatency \/ CheckReady \/ RequestSwitch,
           UNCHANGED <<pwrVars, bspVars>>
    PROVE  BringUpInv'
<1> USE DEF BringUpInv, rccVars, crVars, cfgrVars, localVars, pwrVars, overdriveVars, bspVars
<1>1. at \in {"raise", "ready", "request"} /\ ~Idle
  BY DEF RaiseLatency, CheckReady, RequestSwitch, Idle
<1>2. /\ fn = "rccSysclkSwitch" /\ source = "PLL" /\ want = BspLatency /\ current = 0
      /\ at # "raise" => latency = BspLatency
  BY <1>1 DEF PlacesInv
<1>3. calls = 1 /\ step = 9 /\ console = 0 /\ fn = BringUp[step - 1]
  BY <1>1, <1>2, WhichCall DEF FirstInv, FirstCall
<1>4. rdy["HSE"] /\ pllcfg = BspPll /\ rdy["PLL"] /\ vosrdy /\ odswrdy /\ bus = BspBus
  <2>1. FirstCall /\ Passed(1) /\ Passed(3) /\ Passed(4) /\ Passed(5) /\ Passed(6) /\ Passed(7)
    BY <1>3 DEF FirstCall, Passed
  <2> QED
    BY <2>1 DEF FirstInv
<1>5. /\ UNCHANGED <<fn, on, rdy, stopping, hsebyp, pllcfg, sws, bus, source, want, current,
                     pwren, vos, vosrdy, odrdy, odswen, odswrdy, dropped,
                     step, calls, result, caches, console>>
      /\ \/ /\ at' = "returned" /\ status' \in {"INVALID_PARAM", "HW_FAULT", "NOT_INITIALIZED"}
            /\ UNCHANGED <<latency, sw>>
         \/ /\ at' = "ready" /\ latency' = BspLatency /\ UNCHANGED <<status, sw>>
         \/ /\ at = "ready" /\ at' = "request" /\ rdy["PLL"]
            /\ UNCHANGED <<status, sw, latency>>
         \/ /\ at' = "poll" /\ sw' = "PLL" /\ latency = BspLatency
            /\ UNCHANGED <<status, latency>>
  <2>1. CASE RaiseLatency
    <3>1. flashSetLatency(BspLatency, "ready")
      BY <1>2, <2>1 DEF RaiseLatency, BspLatency
    <3> QED
      BY <2>1, <3>1 DEF RaiseLatency, flashSetLatency, GoTo, Return
  <2>2. CASE CheckReady
    BY <1>2, <2>2 DEF CheckReady, GoTo, Return
  <2>3. CASE RequestSwitch
    BY <1>2, <2>3 DEF RequestSwitch, GoTo
  <2> QED
    BY <2>1, <2>2, <2>3
<1>6. RegistersInv'
  BY <1>4, <1>5
     DEF RegistersInv, RegulatorHandshake, NoStoreIgnored, OdSwitchAfterReady
<1>7. CallsInv' /\ ResultInv' /\ ConsoleInv'
  BY <1>3, <1>5 DEF CallsInv, FirstCall, ResultInv, ConsoleInv, Idle
<1>8. FirstInv'
  <2>1. \A n \in 1..9 : Passed(n)' <=> n < 8
    BY <1>3, <1>5 DEF Passed, Idle
  <2>2. FirstCall /\ \A n \in 1..9 : n < 8 => Passed(n)
    BY <1>3 DEF FirstCall, Passed
  <2> QED
    BY <1>3, <1>4, <1>5, <2>1, <2>2 DEF FirstInv, FirstCall
<1>9. PlacesInv'
  BY <1>2, <1>5 DEF PlacesInv, PwrPlaces, Idle
<1> QED
  BY <1>6, <1>7, <1>8, <1>9

\* A step inside the call the bring-up has under way.
LEMMA RunningStep ==
    ASSUME BringUpInv, RunningCall, UNCHANGED bspVars
    PROVE  BringUpInv'
<1>1. ~ClearOn /\ ~LowerLatency
  BY DEF ClearOn, LowerLatency, BringUpInv, PlacesInv, PwrPlaces
<1> QED
  BY <1>1, WaitStep, OdswenStep, SwitchStep DEF RunningCall, PwrDriver

-----------------------------------------------------------------------------
(* The hardware.                                                            *)

\* The chip settles: flags only rise, over what is on, and the multiplexer follows.
Settles ==
    /\ UNCHANGED <<fn, at, status, on, stopping, hsebyp, pllcfg, sw, bus, latency,
                   source, want, current, pwren, vos, odswen, dropped,
                   step, calls, result, caches, console>>
    /\ rdy' \in [Sources -> BOOLEAN]
    /\ \A s \in Sources : (rdy[s] => rdy'[s]) /\ (rdy'[s] => on[s])
    /\ sws' \in {sws, sw}
    /\ vosrdy => vosrdy'
    /\ odrdy => odrdy'
    /\ odswrdy => odswrdy'
    /\ odswrdy' => odswen

\* Nothing the bring-up turned on stops again.
LEMMA HardwareSettles ==
    ASSUME BringUpInv, ClockHardware \/ PwrHardware, UNCHANGED bspVars
    PROVE  Settles
<1> USE DEF BringUpInv, hwUnchanged, callVars, rccVars, crVars, cfgrVars, localVars,
            pwrVars, overdriveVars, bspVars
<1>1. stopping = {} /\ ~PllUnlock
  <2>1. on["PLL"] => PllInput = "HSE" /\ rdy["HSE"]
    BY BspPllFacts DEF RegistersInv, PllInput
  <2> QED
    BY <2>1 DEF RegistersInv, PllUnlock, Sources
<1>2. ASSUME NEW s \in Sources, OscReady(s) \/ OscStopped(s), UNCHANGED pwrVars
      PROVE  Settles
  BY <1>1, <1>2 DEF OscReady, OscStopped, RegistersInv, Settles
<1>3. CASE SwitchCompletes /\ UNCHANGED pwrVars
  BY <1>1, <1>3 DEF SwitchCompletes, RegistersInv, Settles
<1>4. CASE PwrHardware
  BY <1>1, <1>4 DEF PwrHardware, VosReady, OdReady, OdswReady, RegistersInv, Settles
<1> QED
  BY <1>1, <1>2, <1>3, <1>4 DEF ClockHardware, Hardware

\* An oscillator, the regulator or the switch settles.
LEMMA HardwareStep ==
    ASSUME BringUpInv, ClockHardware \/ PwrHardware, UNCHANGED bspVars
    PROVE  BringUpInv'
<1> USE DEF BringUpInv
<1>1. Settles
  BY HardwareSettles
<1> USE DEF Settles
<1>2. RegistersInv'
  BY <1>1 DEF RegistersInv, RegulatorHandshake, NoStoreIgnored, OdSwitchAfterReady, Sources
<1>3. CallsInv' /\ ResultInv'
  BY <1>1 DEF CallsInv, FirstCall, ResultInv, Idle
<1>4. FirstInv'
  BY <1>1 DEF FirstInv, FirstCall, Passed, Idle, RegistersInv, Sources
<1>5. PlacesInv'
  BY <1>1 DEF PlacesInv, Idle, Sources
<1>6. ConsoleInv'
  BY <1>1 DEF ConsoleInv, RegistersInv
<1> QED
  BY <1>2, <1>3, <1>4, <1>5, <1>6

LEMMA BringUpInductive == BspSpec => []BringUpInv
<1>1. BringUpInv /\ [BspNext]_allVars => BringUpInv'
  <2> SUFFICES ASSUME BringUpInv, [BspNext]_allVars PROVE BringUpInv'
    OBVIOUS
  <2>1. CASE UNCHANGED allVars
    BY <2>1
       DEF allVars, callVars, rccVars, crVars, cfgrVars, localVars, pwrVars, bspVars,
           BringUpInv, RegistersInv, RegulatorHandshake, NoStoreIgnored,
           OdSwitchAfterReady, CallsInv, FirstInv, FirstCall, Passed, PlacesInv,
           ResultInv, ConsoleInv, Idle
  <2>2. CASE NextCall
    <3>1. step \in {1, 2, 3, 4, 5, 6, 7, 8, 9}
      BY <2>2, NextIsFirst
    <3> QED
      BY <2>2, <3>1, CallHse, CallAnswered, CallEntered
  <2>3. CASE bspClockInit \/ BspReturn \/ boardIoInit
    BY <2>3, FirstOrLater, ReturnStep, ConsoleStep
  <2>4. CASE (RunningCall \/ ClockHardware \/ PwrHardware) /\ UNCHANGED bspVars
    BY <2>4, RunningStep, HardwareStep
  <2> QED
    BY <2>1, <2>2, <2>3, <2>4 DEF BspNext, Program
<1> QED
  BY <1>1, BringUpInit, PTL DEF BspSpec

-----------------------------------------------------------------------------
\* The clocks of the configuration, in MHz.
LEMMA Speeds ==
    ASSUME BringUpInv
    PROVE  /\ bus[1] = 1 /\ sws \in {"HSI", "PLL"}
           /\ sws = "HSI" => Hclk = 16
           /\ sws = "PLL" => bus = <<1, 4, 2>> /\ Hclk = 180
<1>1. bus \in {<<1, 1, 1>>, <<1, 4, 2>>} /\ sws \in {"HSI", "PLL"}
  BY DEF BringUpInv, RegistersInv, BspBus
<1>2. sws = "PLL" => sw = "PLL"
  BY DEF BringUpInv, RegistersInv
<1>3. sw = "PLL" => pllcfg = BspPll /\ bus = <<1, 4, 2>>
  BY DEF BringUpInv, RegistersInv, BspBus, Sources
<1>4. bus[1] = 1
  BY <1>1
<1>5. sws = "HSI" => Hclk = 16
  BY <1>4 DEF Hclk, Mhz
<1>6. sws = "PLL" => Hclk = 180
  <2>1. sws = "PLL" => Mhz(sws) = (8 * 360) \div (8 * 2)
    BY <1>2, <1>3 DEF Mhz, BspPll
  <2>2. (8 * 360) \div (8 * 2) = 180 /\ 180 \div 1 = 180
    OBVIOUS
  <2> QED
    BY <1>4, <2>1, <2>2 DEF Hclk
<1> QED
  BY <1>1, <1>2, <1>3, <1>4, <1>5, <1>6

(* bspClockInit() == OK means the whole configuration is in place, now and  *)
(* from then on, and every bring-up after the first is refused (bsp.h 90),  *)
(* wherever the first one stopped.                                          *)
THEOREM BringUpAnswers == BspSpec => []BringUpTruth
<1>1. BringUpInv => BringUpComplete
  <2> SUFFICES ASSUME BringUpInv, result = "OK"
               PROVE  /\ sws = "PLL" /\ sw = "PLL"
                      /\ Running("HSE") /\ hsebyp = "bypass" /\ Running("PLL")
                      /\ pllcfg = BspPll /\ bus = BspBus
                      /\ pwren /\ vos = 1 /\ vosrdy /\ odrdy /\ odswrdy
                      /\ latency = BspLatency /\ caches
    BY DEF BringUpComplete
  <2>1. caches /\ calls = 1
    BY DEF BringUpInv, ResultInv
  <2>2. pwren
    BY <2>1 DEF BringUpInv, CallsInv
  <2> QED
    BY <2>1, <2>2
       DEF BringUpInv, RegistersInv, RegulatorHandshake, OdSwitchAfterReady, Running, Sources
<1>2. BringUpInv => SecondCallIsBusy
  BY DEF BringUpInv, CallsInv, SecondCallIsBusy
<1> QED
  BY <1>1, <1>2, BringUpInductive, PTL DEF BringUpTruth

(* HCLK is never above what the regulator carries at that moment (pwr.h     *)
(* 19-25), in the middle of the bring-up and after one that failed too.     *)
THEOREM RegulatorKeepsUp == BspSpec => []RegulatorFollows
<1>1. BringUpInv => RegulatorFollows
  <2> SUFFICES ASSUME BringUpInv PROVE RegulatorFollows
    OBVIOUS
  <2>1. sws = "PLL" => vosrdy /\ odswrdy
    BY DEF BringUpInv, RegistersInv
  <2>2. vos = 1
    BY DEF BringUpInv, RegistersInv
  <2>3. MaxHclk \in {120, 168, 180} /\ (vosrdy /\ odswrdy => MaxHclk = 180)
    BY <2>2 DEF MaxHclk
  <2> QED
    BY <2>1, <2>3, Speeds DEF RegulatorFollows
<1> QED
  BY <1>1, BringUpInductive, PTL

(* APB1 never runs above 45 MHz, nor APB2 above 90 MHz (rcc.h 234).         *)
THEOREM BusesInRange == BspSpec => []BusLimits
<1>1. BringUpInv => BusLimits
  <2> SUFFICES ASSUME BringUpInv PROVE BusLimits
    OBVIOUS
  <2>1. CASE sws = "HSI"
    <3>1. bus \in {<<1, 1, 1>>, <<1, 4, 2>>}
      BY DEF BringUpInv, RegistersInv, BspBus
    <3>2. 16 \div 1 = 16 /\ 16 \div 4 = 4 /\ 16 \div 2 = 8
      OBVIOUS
    <3> QED
      BY <2>1, <3>1, <3>2, Speeds DEF BusLimits, Pclk1, Pclk2
  <2>2. CASE sws = "PLL"
    <3>1. 180 \div 4 = 45 /\ 180 \div 2 = 90
      OBVIOUS
    <3> QED
      BY <2>2, <3>1, Speeds DEF BusLimits, Pclk1, Pclk2
  <2> QED
    BY <2>1, <2>2, Speeds
<1> QED
  BY <1>1, BringUpInductive, PTL

(* No store to PWR_CR is lost, for want of a clock or because the PLL runs, *)
(* and ODSWEN is never set ahead of ODRDY (pwr.h 5-9, pwr.c 67).            *)
THEOREM HandshakeKept == BspSpec => []RegulatorHandshake
<1>1. BringUpInv => RegulatorHandshake
  BY DEF BringUpInv, RegistersInv
<1> QED
  BY <1>1, BringUpInductive, PTL

(* The divisor the console was started with is right for the clock that     *)
(* feeds it, whether the bring-up succeeded or stopped before its switch.   *)
THEOREM ConsoleSettled == BspSpec => []ConsoleBaudSettled
<1>1. BringUpInv => ConsoleBaudSettled
  <2> SUFFICES ASSUME BringUpInv, console # 0, caches \/ sws = "HSI"
               PROVE  console = Pclk1
    BY DEF ConsoleBaudSettled
  <2>1. CASE sws = "HSI"
    BY <2>1, Speeds DEF BringUpInv, ConsoleInv, Pclk1
  <2>2. CASE caches
    <3>1. sws = "PLL" /\ console = 45
      BY <2>2 DEF BringUpInv, RegistersInv, ConsoleInv
    <3>2. 180 \div 4 = 45
      OBVIOUS
    <3> QED
      BY <3>1, <3>2, Speeds DEF Pclk1
  <2> QED
    BY <2>1, <2>2
<1> QED
  BY <1>1, BringUpInductive, PTL
=============================================================================
