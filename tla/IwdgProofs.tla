----------------------------- MODULE IwdgProofs -----------------------------
(***************************************************************************)
(* Proofs about Iwdg, for every poll budget, every range of PR and RLR,    *)
(* every table of dividers, and a program that may start the watchdog any  *)
(* number of times.  What is said of OK and of early bites assumes that no *)
(* interrupt refreshes while iwdgStart() runs.                             *)
(***************************************************************************)
EXTENDS Iwdg, TLAPS

-----------------------------------------------------------------------------
(* Types.                                                                   *)

\* The wait's counter starts in its range and stays there when it is taken down.
LEMMA Budget ==
    /\ PollBudget \in 0..PollBudget
    /\ \A n \in 0..PollBudget : n > 0 => n - 1 \in 0..PollBudget
BY PollBudgetAssumption

\* The peripheral's part of TypeOK, the flags apart from the numbers.
FlagTypes == {running, unlocked, pvu, rvu, restarted, bitten} \subseteq BOOLEAN
NumberTypes ==
    /\ {pr, prLsi, argPr} \subseteq 0..MaxPr
    /\ {rlr, rlrLsi, argRlr, counter} \subseteq 0..MaxRlr
    /\ {phase, elapsed, promised} \subseteq Nat

\* TypeOK, the three parts apart.
LEMMA TypeParts == TypeOK <=> CallTypeOK({"iwdgStart"}, Places) /\ FlagTypes /\ NumberTypes
BY DEF TypeOK, FlagTypes, NumberTypes

\* A timeout is a number of LSI cycles.
LEMMA TimeoutType ==
    ASSUME NEW p \in 0..MaxPr, NEW r \in 0..MaxRlr
    PROVE  Timeout(p, r) \in Nat
<1>1. Divider[p] \in Nat /\ r + 1 \in Nat
  BY IwdgAssumption
<1>2. \A a, b \in Nat : a * b \in Nat
  OBVIOUS
<1> QED
  BY <1>1, <1>2 DEF Timeout

\* The values a reset leaves are in their ranges.
LEMMA ResetTypes ==
    /\ 0 \in 0..MaxPr /\ MaxRlr \in 0..MaxRlr
    /\ Timeout(0, MaxRlr) \in Nat
BY TimeoutType, IwdgAssumption

LEMMA InitType == Init => TypeOK
<1> SUFFICES ASSUME Init PROVE TypeOK
  OBVIOUS
<1> USE DEF Init, ResetValues
<1>1. CallTypeOK({"iwdgStart"}, Places)
  BY Budget, Zenon DEF CallInit, CallTypeOK, DriverStatus
<1>2. FlagTypes
  BY DEF FlagTypes
<1>3. NumberTypes
  BY ResetTypes DEF NumberTypes
<1> QED
  BY <1>1, <1>2, <1>3, TypeParts

\* The ways a step moves the activation record keep it well formed.
LEMMA RecordMoves ==
    ASSUME CallTypeOK({"iwdgStart"}, Places),
           \/ \E s \in DriverStatus, w \in BOOLEAN : Answer("iwdgStart", s, w)
           \/ \E label \in Places, w \in BOOLEAN : Enter("iwdgStart", label, w)
           \/ \E label \in Places, w \in BOOLEAN : GoTo(label, w)
           \/ \E s \in DriverStatus, w \in BOOLEAN : Return(s, w)
           \/ \E reached \in BOOLEAN, label \in Places : Poll(reached, label)
           \/ CallReset
           \/ UNCHANGED callVars
    PROVE  CallTypeOK({"iwdgStart"}, Places)'
<1> USE DEF CallTypeOK
<1>1. CASE \E s \in DriverStatus, w \in BOOLEAN : Answer("iwdgStart", s, w)
  BY <1>1, Budget, Zenon DEF Answer
<1>2. CASE \E label \in Places, w \in BOOLEAN : Enter("iwdgStart", label, w)
  BY <1>2, Budget, Zenon DEF Enter, DriverStatus
<1>3. CASE \E label \in Places, w \in BOOLEAN : GoTo(label, w)
  BY <1>3, Budget, Zenon DEF GoTo
<1>4. CASE \E s \in DriverStatus, w \in BOOLEAN : Return(s, w)
  BY <1>4, Budget, Zenon DEF Return
<1>5. CASE \E reached \in BOOLEAN, label \in Places : Poll(reached, label)
  BY <1>5, Budget, Zenon DEF Poll
<1>6. CASE CallReset
  BY <1>6, Budget, Zenon DEF CallReset, DriverStatus
<1>7. CASE UNCHANGED callVars
  BY <1>7, Zenon DEF callVars
<1> QED
  BY <1>1, <1>2, <1>3, <1>4, <1>5, <1>6, <1>7

\* Every step keeps the activation record well formed.
LEMMA CallStep ==
    ASSUME TypeOK, [Next]_vars
    PROVE  CallTypeOK({"iwdgStart"}, Places)'
<1>1. CallTypeOK({"iwdgStart"}, Places)
  BY TypeParts
<1>2. {"OK", "INVALID_PARAM", "TIMEOUT"} \subseteq DriverStatus
  BY DEF DriverStatus
<1>3. ASSUME NEW p, NEW r, iwdgStart(p, r) PROVE CallTypeOK({"iwdgStart"}, Places)'
  BY <1>1, <1>2, <1>3, RecordMoves DEF iwdgStart, Places
<1>4. ASSUME NEW poll \in Places, NEW recheck \in Places, NEW next \in Places,
             WaitUpdates(poll, recheck, next)
      PROVE  CallTypeOK({"iwdgStart"}, Places)'
  <2>1. CASE Poll(~pvu /\ ~rvu, recheck)
    BY <1>1, <2>1, RecordMoves
  <2>2. CASE GoTo(next, FALSE) \/ Return("TIMEOUT", FALSE)
    BY <1>1, <1>2, <2>2, RecordMoves
  <2> QED
    BY <1>4, <2>1, <2>2 DEF WaitUpdates, Recheck
<1>5. CASE Driver
  <2>1. CASE WaitOld \/ WaitNew
    BY <1>4, <2>1 DEF WaitOld, WaitNew, Places
  <2>2. CASE StoreStart \/ StoreUnlock \/ StorePr \/ StoreRlr
    BY <1>1, <2>2, RecordMoves DEF StoreStart, StoreUnlock, StorePr, StoreRlr, Places
  <2>3. CASE FinalRefresh
    BY <1>1, <1>2, <2>3, RecordMoves DEF FinalRefresh
  <2> QED
    BY <1>5, <2>1, <2>2, <2>3 DEF Driver
<1>6. CASE iwdgRefresh \/ PrTaken \/ RlrTaken \/ LsiCycle \/ Reboot \/ UNCHANGED vars
  BY <1>1, <1>6, RecordMoves DEF iwdgRefresh, PrTaken, RlrTaken, LsiCycle, Reboot, vars, callVars
<1> QED
  BY <1>3, <1>5, <1>6 DEF Next, Program

\* Every step keeps the flags Boolean.
LEMMA FlagStep ==
    ASSUME TypeOK, [Next]_vars
    PROVE  FlagTypes'
<1>1. /\ running \in BOOLEAN /\ unlocked \in BOOLEAN /\ pvu \in BOOLEAN /\ rvu \in BOOLEAN
      /\ restarted \in BOOLEAN /\ bitten \in BOOLEAN
  BY DEF TypeOK
<1> USE DEF registerVars, lsiVars, argVars, historyVars
<1> DEFINE Flags == /\ running' \in BOOLEAN /\ unlocked' \in BOOLEAN /\ pvu' \in BOOLEAN
                    /\ rvu' \in BOOLEAN /\ restarted' \in BOOLEAN /\ bitten' \in BOOLEAN
<1> SUFFICES Flags
  BY DEF FlagTypes
<1>2. ASSUME NEW p, NEW r, iwdgStart(p, r) PROVE Flags
  BY <1>1, <1>2 DEF iwdgStart
<1>3. CASE Driver
  BY <1>1, <1>3
     DEF Driver, StoreStart, KeyStart, StoreUnlock, KeyEnableAccess, WaitOld, WaitNew,
         WaitUpdates, StorePr, StoreRlr, FinalRefresh, KeyReload
<1>4. CASE iwdgRefresh \/ PrTaken \/ RlrTaken \/ LsiCycle \/ Reboot
  BY <1>1, <1>4 DEF iwdgRefresh, KeyReload, PrTaken, RlrTaken, LsiCycle, Reboot
<1>5. CASE UNCHANGED vars
  BY <1>1, <1>5 DEF vars
<1> HIDE DEF Flags
<1> QED
  BY <1>2, <1>3, <1>4, <1>5 DEF Next, Program

\* Counting down and up stays in range.
LEMMA NumberStep ==
    ASSUME TypeOK, [Next]_vars
    PROVE  NumberTypes'
<1> USE DEF registerVars, lsiVars, argVars, historyVars
<1>1. /\ pr \in 0..MaxPr /\ prLsi \in 0..MaxPr /\ argPr \in 0..MaxPr
      /\ rlr \in 0..MaxRlr /\ rlrLsi \in 0..MaxRlr /\ argRlr \in 0..MaxRlr
      /\ counter \in 0..MaxRlr
      /\ phase \in Nat /\ elapsed \in Nat /\ promised \in Nat
  BY DEF TypeOK
<1> DEFINE Numbers == /\ pr' \in 0..MaxPr /\ prLsi' \in 0..MaxPr /\ argPr' \in 0..MaxPr
                      /\ rlr' \in 0..MaxRlr /\ rlrLsi' \in 0..MaxRlr /\ argRlr' \in 0..MaxRlr
                      /\ counter' \in 0..MaxRlr
                      /\ phase' \in Nat /\ elapsed' \in Nat /\ promised' \in Nat
<1> SUFFICES Numbers
  BY DEF NumberTypes
<1>2. ASSUME NEW p \in Nat, NEW r \in Nat, iwdgStart(p, r) PROVE Numbers
  <2>1. CASE ValidArguments(p, r)
    <3>1. p \in 0..MaxPr /\ r \in 0..MaxRlr
      BY <2>1, IwdgAssumption DEF ValidArguments
    <3>2. Least(promised, Timeout(p, r)) \in Nat
      BY <1>1, <3>1, TimeoutType DEF Least
    <3> QED
      BY <1>1, <1>2, <2>1, <3>1, <3>2 DEF iwdgStart
  <2>2. CASE ~ValidArguments(p, r)
    BY <1>1, <1>2, <2>2 DEF iwdgStart
  <2> QED
    BY <2>1, <2>2
<1>3. CASE Driver
  <2>1. CASE StoreStart \/ StoreUnlock \/ StorePr \/ StoreRlr
    BY <1>1, <2>1
       DEF StoreStart, KeyStart, StoreUnlock, KeyEnableAccess, StorePr, StoreRlr
  <2>2. CASE WaitOld \/ WaitNew
    <3>1. 0 \in Nat
      OBVIOUS
    <3> QED
      BY <1>1, <2>2, <3>1 DEF WaitOld, WaitNew, WaitUpdates
  <2>3. CASE FinalRefresh
    <3>1. 0 \in Nat /\ Timeout(argPr, argRlr) \in Nat
      BY <1>1, TimeoutType
    <3> QED
      BY <1>1, <2>3, <3>1 DEF FinalRefresh, KeyReload
  <2> QED
    BY <1>3, <2>1, <2>2, <2>3 DEF Driver
<1>4. CASE iwdgRefresh \/ PrTaken \/ RlrTaken \/ Reboot
  <2>1. 0 \in Nat /\ 0 \in 0..MaxPr
    BY ResetTypes
  <2> QED
    BY <1>1, <1>4, <2>1, ResetTypes DEF iwdgRefresh, KeyReload, PrTaken, RlrTaken, Reboot
<1>5. CASE LsiCycle
  <2>1. elapsed' \in Nat /\ phase' \in Nat /\ counter' \in 0..MaxRlr
    BY <1>1, <1>5, IwdgAssumption DEF LsiCycle
  <2> QED
    BY <1>1, <1>5, <2>1 DEF LsiCycle
<1>6. CASE UNCHANGED vars
  BY <1>1, <1>6 DEF vars
<1> HIDE DEF Numbers
<1>7. \A p \in 0..(MaxPr + 1), r \in 0..(MaxRlr + 1) : iwdgStart(p, r) => Numbers
  BY <1>2, IwdgAssumption
<1> QED
  BY <1>3, <1>4, <1>5, <1>6, <1>7 DEF Next, Program

LEMMA TypeStep == TypeOK /\ [Next]_vars => TypeOK'
BY CallStep, FlagStep, NumberStep, TypeParts DEF TypeOK, FlagTypes, NumberTypes

(* Every register, counter and local of iwdg.c stays in its range, however  *)
(* starts, refreshes, updates and resets interleave.                        *)
THEOREM TypeCorrect == Spec => []TypeOK
<1> QED
  BY InitType, TypeStep, PTL DEF Spec

-----------------------------------------------------------------------------
(* OK of iwdgStart().  At each of its places it has made sure of something  *)
(* that no refresh, update or count undoes.                                 *)

\* PR holds the argument, and its copy is under way or done.
PrSettled == pr = argPr /\ (pvu \/ prLsi = argPr)
RlrSettled == rlr = argRlr /\ (rvu \/ rlrLsi = argRlr)

StartInv ==
    /\ at \notin {"start", "returned"} => running
    /\ at \notin {"start", "unlock", "returned"} => unlocked
    /\ at = "pr" => ~pvu
    /\ at \in {"pr", "rlr"} => ~rvu
    /\ at \in {"rlr", "pollNew", "recheckNew", "refresh"} => PrSettled
    /\ at \in {"pollNew", "recheckNew", "refresh"} => RlrSettled
    /\ at = "refresh" => ~pvu /\ ~rvu

EffectInv == StartInv /\ StartOkInEffect

LEMMA EffectInit == Init => EffectInv
BY DEF Init, CallInit, EffectInv, StartInv, StartOkInEffect, Idle

\* A step of iwdgStart() from one place to another, or out of it.
LEMMA EffectDriver ==
    ASSUME TypeOK, EffectInv, Driver
    PROVE  EffectInv'
<1> USE DEF EffectInv, StartInv, StartOkInEffect, PrSettled, RlrSettled, Idle,
            registerVars, lsiVars, argVars, historyVars, GoTo, Return
<1>1. CASE StoreStart \/ StoreUnlock
  BY <1>1 DEF StoreStart, KeyStart, StoreUnlock, KeyEnableAccess
<1>2. ASSUME NEW poll, NEW recheck, NEW next, WaitUpdates(poll, recheck, next),
             \/ poll = "pollOld" /\ recheck = "recheckOld" /\ next = "pr"
             \/ poll = "pollNew" /\ recheck = "recheckNew" /\ next = "refresh"
      PROVE  EffectInv'
  <2>1. UNCHANGED <<running, unlocked, pr, rlr, pvu, rvu, prLsi, rlrLsi, counter, argPr, argRlr>>
    BY <1>2 DEF WaitUpdates
  <2>2. \/ at \in {poll, recheck} /\ at' \in {poll, recheck}
        \/ at = recheck /\ at' = next /\ ~pvu /\ ~rvu
        \/ at' = "returned" /\ status' = "TIMEOUT"
    BY <1>2 DEF WaitUpdates, Poll, Recheck
  <2> QED
    BY <1>2, <2>1, <2>2
<1>3. CASE WaitOld \/ WaitNew
  BY <1>2, <1>3 DEF WaitOld, WaitNew
\* Unlocked, and with no copy in progress, the store is taken.
<1>4. CASE StorePr
  <2>1. unlocked /\ ~pvu /\ ~rvu
    BY <1>4 DEF StorePr
  <2>2. pr' = argPr /\ pvu'
    BY <2>1, <1>4, Zenon DEF StorePr
  <2> QED
    BY <2>1, <2>2, <1>4 DEF StorePr
<1>5. CASE StoreRlr
  <2>1. unlocked /\ ~rvu
    BY <1>5 DEF StoreRlr
  <2>2. rlr' = argRlr /\ rvu'
    BY <2>1, <1>5, Zenon DEF StoreRlr
  <2> QED
    BY <2>1, <2>2, <1>5 DEF StoreRlr
\* The reload comes from the new value.
<1>6. CASE FinalRefresh
  BY <1>6 DEF FinalRefresh, KeyReload, TypeOK
<1> QED
  BY <1>1, <1>3, <1>4, <1>5, <1>6 DEF Driver

\* The calls, the refreshes between them and the hardware keep it.
LEMMA EffectOther ==
    ASSUME TypeOK, EffectInv, ~IsrRefreshes,
           \/ \E p, r : iwdgStart(p, r)
           \/ MayRefresh /\ iwdgRefresh
           \/ PrTaken \/ RlrTaken \/ LsiCycle \/ Reboot \/ UNCHANGED vars
    PROVE  EffectInv'
<1> USE DEF EffectInv, StartInv, StartOkInEffect, PrSettled, RlrSettled, Idle,
            registerVars, lsiVars, argVars, historyVars, callVars
<1>1. ASSUME NEW p, NEW r, iwdgStart(p, r) PROVE EffectInv'
  BY <1>1 DEF iwdgStart, Answer, Enter
<1>2. CASE MayRefresh /\ iwdgRefresh
  BY <1>2 DEF MayRefresh, iwdgRefresh, KeyReload, TypeOK
<1>3. CASE PrTaken
  BY <1>3 DEF PrTaken
<1>4. CASE RlrTaken
  BY <1>4 DEF RlrTaken
<1>5. CASE LsiCycle
  BY <1>5, IwdgAssumption, SMTT(40) DEF LsiCycle, TypeOK
<1>6. CASE Reboot
  BY <1>6 DEF Reboot, CallReset
<1>7. CASE UNCHANGED vars
  BY <1>7 DEF vars
<1> QED
  BY <1>1, <1>2, <1>3, <1>4, <1>5, <1>6, <1>7

LEMMA EffectStep == TypeOK /\ EffectInv /\ ~IsrRefreshes /\ [Next]_vars => EffectInv'
BY EffectDriver, EffectOther DEF Next, Program

(* iwdgStart() == OK: "Running with the new values, just refreshed"         *)
(* (iwdg.h), and it stays so: both values have reached the LSI domain, the  *)
(* counter was loaded from the new one, PR and RLR are locked again, also   *)
(* after an earlier call gave up on an update that was still going on.      *)
THEOREM OkIsInEffect == ASSUME ~IsrRefreshes PROVE Spec => []StartOkInEffect
<1>1. EffectInv => StartOkInEffect
  BY DEF EffectInv
<1>2. TypeOK /\ EffectInv /\ [Next]_vars => EffectInv'
  BY EffectStep
<1> QED
  BY <1>1, <1>2, EffectInit, TypeCorrect, PTL DEF Spec

-----------------------------------------------------------------------------
(* No early bite.  A count lasts at least Pace LSI cycles, the shorter of   *)
(* the divider in use and the one asked for; what is left of the counter at *)
(* that pace, on top of the cycles already gone, covers what is promised.   *)

Pace == Least(Divider[prLsi], Divider[argPr])

Covered == elapsed + (counter + 1) * Pace >= promised + phase

\* A watchdog that was never started is as after a reset.
Untouched ==
    /\ ~pvu /\ ~rvu
    /\ prLsi = 0 /\ rlrLsi = MaxRlr /\ counter = MaxRlr
    /\ phase = 0 /\ elapsed = 0

\* Between calls the promise is none, that of the reset values, or that of the
\* values in use.
PromiseKnown ==
    \/ promised = 0
    \/ ~running /\ argPr = 0 /\ promised = Timeout(0, MaxRlr)
    \/ /\ running /\ ~pvu
       /\ prLsi = argPr /\ rlrLsi = argRlr /\ ~rvu
       /\ promised = Timeout(argPr, argRlr)

BiteInv ==
    ~restarted =>
        /\ pvu => pr = argPr
        /\ ~running => Untouched
        /\ at = "start" => ~running
        /\ Idle => PromiseKnown
        /\ promised = 0 \/ Covered
        /\ bitten => elapsed >= promised

\* Fewer counts at a slower pace do not last longer.
LEMMA Products ==
    ASSUME NEW a \in Nat, NEW b \in Nat, NEW c \in Nat, NEW d \in Nat, a <= b, c <= d
    PROVE  (a + 1) * c <= (b + 1) * d
<1>1. (a + 1) * c <= (b + 1) * c
  <2>1. PICK n \in Nat : b = a + n
    <3>1. b - a \in Nat /\ b = a + (b - a)
      OBVIOUS
    <3> QED
      BY <3>1
  <2>2. n * c \in Nat /\ (b + 1) * c = (a + 1) * c + n * c
    BY <2>1
  <2>3. (a + 1) * c \in Nat
    OBVIOUS
  <2> QED
    BY <2>2, <2>3
<1>2. (b + 1) * c <= (b + 1) * d
  <2>1. PICK n \in Nat : d = c + n
    <3>1. d - c \in Nat /\ d = c + (d - c)
      OBVIOUS
    <3> QED
      BY <3>1
  <2>2. (b + 1) * n \in Nat /\ (b + 1) * d = (b + 1) * c + (b + 1) * n
    BY <2>1
  <2>3. (b + 1) * c \in Nat
    OBVIOUS
  <2> QED
    BY <2>2, <2>3
<1>3. (a + 1) * c \in Nat /\ (b + 1) * c \in Nat /\ (b + 1) * d \in Nat
  OBVIOUS
<1> QED
  BY <1>1, <1>2, <1>3

\* The shorter of two dividers.
LEMMA PaceFacts ==
    ASSUME NEW p \in 0..MaxPr, NEW q \in 0..MaxPr
    PROVE  /\ Divider[p] \in Nat \ {0}
           /\ Least(Divider[p], Divider[q]) \in Nat
           /\ Least(Divider[p], Divider[q]) <= Divider[p]
           /\ Least(Divider[p], Divider[q]) <= Divider[q]
           /\ Least(Divider[p], Divider[q]) = Divider[p] \/ Least(Divider[p], Divider[q]) = Divider[q]
BY IwdgAssumption DEF Least

\* Loaded at the divider in use, the counter covers exactly its timeout.
LEMMA FreshCount ==
    ASSUME NEW p \in 0..MaxPr, NEW r \in 0..MaxRlr
    PROVE  0 + (r + 1) * Least(Divider[p], Divider[p]) >= Timeout(p, r) + 0
<1>1. Least(Divider[p], Divider[p]) = Divider[p]
  BY DEF Least
<1>2. Timeout(p, r) \in Nat /\ Timeout(p, r) = (r + 1) * Divider[p]
  BY TimeoutType DEF Timeout
<1> QED
  BY <1>1, <1>2

LEMMA BiteInit == Init => BiteInv
<1> SUFFICES ASSUME Init PROVE BiteInv
  OBVIOUS
<1>1. prLsi = 0 /\ argPr = 0 /\ counter = MaxRlr /\ phase = 0 /\ elapsed = 0
      /\ promised = Timeout(0, MaxRlr) /\ ~running /\ ~pvu /\ ~rvu /\ rlrLsi = MaxRlr
      /\ at = "returned" /\ ~bitten
  BY DEF Init, ResetValues, CallInit
<1>2. Covered
  BY <1>1, FreshCount, ResetTypes DEF Covered, Pace
<1> QED
  BY <1>1, <1>2 DEF BiteInv, Untouched, PromiseKnown

\* The first start: nothing counts yet, and the promise is the shorter one.
LEMMA BiteStart ==
    ASSUME TypeOK, BiteInv, ~bitten, NEW p \in Nat, NEW r \in Nat, iwdgStart(p, r)
    PROVE  BiteInv'
<1> USE DEF registerVars, lsiVars, argVars, historyVars
<1>1. CASE ~ValidArguments(p, r)
  BY <1>1
     DEF iwdgStart, Answer, BiteInv, Covered, Pace, Untouched, PromiseKnown, Idle
<1>2. CASE ValidArguments(p, r) /\ ~restarted'
  <2>1. /\ Idle /\ at' = "start" /\ argPr' = p /\ ~running /\ ~restarted
        /\ promised' = Least(promised, Timeout(p, r))
        /\ UNCHANGED <<running, pr, rlr, pvu, rvu, prLsi, rlrLsi, counter, phase,
                       bitten, elapsed>>
    BY <1>2 DEF iwdgStart, Enter
  <2>2. p \in 0..MaxPr /\ r \in 0..MaxRlr
    BY <1>2, IwdgAssumption DEF ValidArguments
  <2>3. Untouched /\ (promised = 0 \/ promised = Timeout(0, MaxRlr))
    BY <2>1 DEF BiteInv, PromiseKnown
  <2>4. /\ Timeout(p, r) \in Nat /\ Timeout(0, MaxRlr) \in Nat /\ promised \in Nat
        /\ Timeout(p, r) = (r + 1) * Divider[p]
        /\ Timeout(0, MaxRlr) = (MaxRlr + 1) * Divider[0]
    BY <2>2, TimeoutType, ResetTypes DEF Timeout, TypeOK
  <2>5. promised' = 0 \/ Covered'
    <3> DEFINE d == Least(Divider[0], Divider[p])
    <3>1. /\ promised' \in Nat
          /\ promised' <= Timeout(p, r)
          /\ promised' = 0 \/ promised' <= Timeout(0, MaxRlr)
      BY <2>1, <2>3, <2>4 DEF Least
    <3>2. d \in Nat /\ (d = Divider[0] \/ d = Divider[p])
      BY <2>2, PaceFacts, ResetTypes
    <3>3. (r + 1) * d <= (MaxRlr + 1) * d
      BY <2>2, <3>2, Products, IwdgAssumption, SMTT(40)
    <3>4. promised' = 0 \/ promised' <= (MaxRlr + 1) * d
      <4>1. (MaxRlr + 1) * d \in Nat /\ (r + 1) * d \in Nat
        BY <2>2, <3>2, IwdgAssumption
      <4> HIDE DEF d
      <4> QED
        BY <2>4, <3>1, <3>2, <3>3, <4>1
    <3>5. Pace' = d /\ counter' = MaxRlr /\ phase' = 0 /\ elapsed' = 0
      BY <2>1, <2>3 DEF Pace, Untouched
    <3> HIDE DEF d
    <3>6. (MaxRlr + 1) * d \in Nat
      BY <3>2, IwdgAssumption
    <3> QED
      BY <3>1, <3>4, <3>5, <3>6 DEF Covered
  <2> QED
    BY <1>2, <2>1, <2>3, <2>5 DEF BiteInv, Untouched, Idle
<1>3. CASE restarted'
  BY <1>3 DEF BiteInv
<1> QED
  BY <1>1, <1>2, <1>3

\* The other steps of the driver count nothing and promise nothing new, but the
\* last, which starts afresh.
LEMMA BiteDriver ==
    ASSUME TypeOK, EffectInv, BiteInv, ~bitten, Driver
    PROVE  BiteInv'
<1> USE DEF registerVars, lsiVars, argVars, historyVars, GoTo, Return
<1>1. at # "start" => running
  <2>1. CASE StoreStart
    BY <2>1 DEF StoreStart
  <2>2. CASE WaitOld \/ WaitNew
    BY <2>2 DEF WaitOld, WaitNew, WaitUpdates, EffectInv, StartInv
  <2>3. CASE StoreUnlock \/ StorePr \/ StoreRlr \/ FinalRefresh
    BY <2>3 DEF StoreUnlock, StorePr, StoreRlr, FinalRefresh, EffectInv, StartInv
  <2> QED
    BY <2>1, <2>2, <2>3 DEF Driver
<1>2. CASE FinalRefresh
  <2>1. /\ running' /\ ~pvu' /\ ~rvu' /\ prLsi' = argPr' /\ rlrLsi' = argRlr'
        /\ counter' = argRlr' /\ phase' = 0 /\ elapsed' = 0 /\ at' = "returned"
        /\ promised' = Timeout(argPr', argRlr') /\ argPr' = argPr /\ argRlr' = argRlr
        /\ bitten' = bitten
    BY <1>1, <1>2 DEF FinalRefresh, KeyReload, EffectInv, StartInv, PrSettled, RlrSettled
  <2>2. argPr \in 0..MaxPr /\ argRlr \in 0..MaxRlr
    BY DEF TypeOK
  <2>3. Covered'
    BY <2>1, <2>2, FreshCount DEF Covered, Pace
  <2> QED
    BY <2>1, <2>3 DEF BiteInv, PromiseKnown
<1>3. ASSUME UNCHANGED <<prLsi, counter, phase, argPr, restarted, bitten, elapsed>>,
             pvu' => pr' = argPr \/ (pvu /\ pr' = pr),
             running' \/ UNCHANGED running, running' \/ at # "start",
             at' \notin {"start", "returned"} \/ (at' = "returned" /\ promised' = 0),
             promised' = promised \/ promised' = 0
      PROVE  BiteInv'
  <2> SUFFICES ASSUME ~restarted PROVE BiteInv'
    BY <1>3 DEF BiteInv
  <2>1. running'
    BY <1>1, <1>3
  <2>2. pvu' => pr' = argPr'
    BY <1>3 DEF BiteInv
  <2>3. promised' = 0 \/ (Covered' /\ promised' = promised)
    BY <1>3 DEF BiteInv, Covered, Pace
  <2>4. ~bitten'
    BY <1>3
  <2>5. at' # "start"
    BY <1>3
  <2>6. Idle' => PromiseKnown'
    BY <1>3 DEF Idle, PromiseKnown
  <2> QED
    BY <2>1, <2>2, <2>3, <2>4, <2>5, <2>6 DEF BiteInv
<1>4. CASE StoreStart \/ StoreUnlock
  BY <1>3, <1>4 DEF StoreStart, KeyStart, StoreUnlock, KeyEnableAccess
<1>5. CASE WaitOld \/ WaitNew
  BY <1>3, <1>5 DEF WaitOld, WaitNew, WaitUpdates, Poll, Recheck
<1>6. CASE StorePr
  <2>1. pvu' => pr' = argPr \/ (pvu /\ pr' = pr)
    BY <1>6, Zenon DEF StorePr
  <2> QED
    BY <1>3, <1>6, <2>1 DEF StorePr
<1>7. CASE StoreRlr
  BY <1>3, <1>7 DEF StoreRlr
<1> QED
  BY <1>2, <1>4, <1>5, <1>6, <1>7 DEF Driver

\* A refresh between calls loads the counter with what was promised.
LEMMA BiteRefresh ==
    ASSUME TypeOK, BiteInv, ~bitten, ~IsrRefreshes, MayRefresh, iwdgRefresh
    PROVE  BiteInv'
<1> USE DEF registerVars, lsiVars, argVars, historyVars, callVars
<1>1. /\ at = "returned" /\ at' = at
      /\ UNCHANGED <<running, pr, pvu, rvu, prLsi, rlrLsi, argPr, argRlr, restarted,
                     bitten, promised>>
      /\ counter' = rlrLsi /\ phase' = 0 /\ elapsed' = 0
  BY DEF MayRefresh, iwdgRefresh, KeyReload, Idle
<1> SUFFICES ASSUME ~restarted PROVE BiteInv'
  BY <1>1 DEF BiteInv
<1>2. (pvu => pr = argPr) /\ (~running => Untouched) /\ PromiseKnown
  BY <1>1 DEF BiteInv, Idle
<1>3. promised' = 0 \/ Covered'
  <2>1. CASE promised = 0
    BY <1>1, <2>1
  <2>2. CASE ~running /\ argPr = 0 /\ promised = Timeout(0, MaxRlr)
    BY <1>1, <1>2, <2>2, FreshCount, ResetTypes DEF Covered, Pace, Untouched
  <2>3. CASE prLsi = argPr /\ rlrLsi = argRlr /\ promised = Timeout(argPr, argRlr)
    BY <1>1, <2>3, FreshCount DEF Covered, Pace, TypeOK
  <2> QED
    BY <1>2, <2>1, <2>2, <2>3 DEF PromiseKnown
<1> QED
  BY <1>1, <1>2, <1>3 DEF BiteInv, Untouched, PromiseKnown, Idle

\* A prescaler taken over in the middle of a count is the one asked for.
LEMMA BiteTaken ==
    ASSUME TypeOK, BiteInv, ~bitten, PrTaken \/ RlrTaken
    PROVE  BiteInv'
<1> USE DEF registerVars, lsiVars, argVars, historyVars, callVars
<1> SUFFICES ASSUME ~restarted PROVE BiteInv'
  BY DEF PrTaken, RlrTaken, BiteInv
<1>1. CASE PrTaken
  <2>1. /\ pvu /\ running /\ ~pvu' /\ prLsi' = argPr
        /\ UNCHANGED <<at, running, pr, counter, phase, argPr, restarted, bitten,
                       elapsed, promised>>
    BY <1>1 DEF PrTaken, BiteInv
  <2>2. Idle => promised = 0
    BY <2>1 DEF BiteInv, PromiseKnown
  <2>3. Covered => Covered'
    <3>1. /\ prLsi \in 0..MaxPr /\ argPr \in 0..MaxPr /\ counter \in Nat /\ phase \in Nat
          /\ elapsed \in Nat /\ promised \in Nat
      BY IwdgAssumption DEF TypeOK
    <3>2. Pace \in Nat /\ Pace' \in Nat /\ Pace <= Pace'
      <4>1. Pace <= Divider[argPr] /\ Pace \in Nat
        BY <3>1, PaceFacts DEF Pace
      <4>2. Pace' = Divider[argPr]
        BY <2>1 DEF Pace, Least
      <4> QED
        BY <3>1, <4>1, <4>2, PaceFacts
    <3>3. PICK before \in Nat, after \in Nat : before = Pace /\ after = Pace' /\ before <= after
      BY <3>2
    <3>4. /\ Covered = (elapsed + (counter + 1) * before >= promised + phase)
          /\ Covered' = (elapsed + (counter + 1) * after >= promised + phase)
      BY <2>1, <3>3 DEF Covered
    <3>5. before \in Nat /\ after \in Nat /\ before <= after
      BY <3>3
    <3>6. (counter + 1) * before <= (counter + 1) * after
      BY <3>1, <3>5, Products
    <3>7. (counter + 1) * before \in Nat /\ (counter + 1) * after \in Nat
      BY <3>1, <3>5
    <3>8. ASSUME NEW less \in Nat, NEW more \in Nat, less <= more,
                 elapsed + less >= promised + phase
          PROVE  elapsed + more >= promised + phase
      BY <3>1, <3>8
    <3> QED
      BY <3>4, <3>6, <3>7, <3>8
  <2> QED
    BY <2>1, <2>2, <2>3 DEF BiteInv, PromiseKnown, Idle
<1>2. CASE RlrTaken
  BY <1>2 DEF RlrTaken, BiteInv, Covered, Pace, PromiseKnown, Idle
<1> QED
  BY <1>1, <1>2

\* One LSI cycle: a count that ends has lasted Pace cycles at least.
LEMMA BiteCycle ==
    ASSUME TypeOK, BiteInv, ~bitten, LsiCycle
    PROVE  BiteInv'
<1> USE DEF registerVars, lsiVars, argVars, historyVars, callVars
<1> SUFFICES ASSUME ~restarted PROVE BiteInv'
  BY DEF LsiCycle, BiteInv
<1>1. /\ running /\ elapsed' = elapsed + 1
      /\ phase' = IF CountDue THEN 0 ELSE phase + 1
      /\ counter' = IF CountDue /\ counter > 0 THEN counter - 1 ELSE counter
      /\ bitten' => CountDue /\ counter = 0
      /\ UNCHANGED <<at, running, pr, pvu, rvu, prLsi, rlrLsi, argPr, argRlr, restarted,
                     promised>>
  BY DEF LsiCycle
<1>2. /\ counter \in Nat /\ phase \in Nat /\ elapsed \in Nat /\ promised \in Nat
      /\ Pace \in Nat /\ Pace <= Divider[prLsi] /\ Divider[prLsi] \in Nat
  BY PaceFacts, IwdgAssumption DEF TypeOK, Pace
<1>3. CountDue => phase + 1 >= Pace
  BY <1>2 DEF CountDue
<1>4. Pace' = Pace
  BY <1>1 DEF Pace
<1>5. (counter + 1) * Pace = counter * Pace + Pace /\ counter * Pace \in Nat
  BY <1>2
<1>6. Covered => Covered'
  <2>1. CASE ~CountDue
    BY <1>1, <1>2, <1>4, <1>5, <2>1 DEF Covered
  <2>2. CASE CountDue /\ counter > 0
    <3>1. counter' = counter - 1 /\ (counter' + 1) * Pace' = counter * Pace
      BY <1>1, <1>2, <1>4, <2>2
    <3> QED
      BY <1>1, <1>2, <1>3, <1>5, <2>2, <3>1 DEF Covered
  <2>3. CASE CountDue /\ counter = 0
    BY <1>1, <1>2, <1>3, <1>4, <1>5, <2>3 DEF Covered
  <2> QED
    BY <1>2, <2>1, <2>2, <2>3
<1>7. bitten' => elapsed' >= promised'
  <2> SUFFICES ASSUME bitten' PROVE elapsed' >= promised
    BY <1>1
  <2>1. CASE promised = 0
    BY <1>1, <1>2, <2>1
  <2>2. CASE Covered
    <3>1. counter * Pace = 0
      BY <1>1, <1>2
    <3>2. elapsed + Pace >= promised + phase
      BY <1>2, <1>5, <2>2, <3>1 DEF Covered
    <3> QED
      BY <1>1, <1>2, <1>3, <3>2
  <2> QED
    BY <2>1, <2>2 DEF BiteInv
<1> QED
  BY <1>1, <1>6, <1>7 DEF BiteInv, PromiseKnown, Idle

\* The chip starts over, with the promise of the reset values.
LEMMA BiteReboot ==
    ASSUME Reboot
    PROVE  BiteInv'
<1>1. prLsi' = 0 /\ argPr' = 0 /\ counter' = MaxRlr /\ phase' = 0 /\ elapsed' = 0
      /\ promised' = Timeout(0, MaxRlr) /\ ~running' /\ ~pvu' /\ ~rvu' /\ rlrLsi' = MaxRlr
      /\ at' = "returned" /\ ~bitten'
  BY DEF Reboot, CallReset
<1>2. Covered'
  BY <1>1, FreshCount, ResetTypes DEF Covered, Pace
<1> QED
  BY <1>1, <1>2 DEF BiteInv, Untouched, PromiseKnown

LEMMA BiteStep ==
    TypeOK /\ EffectInv /\ BiteInv /\ ~IsrRefreshes /\ [Next]_vars => BiteInv'
<1> SUFFICES ASSUME TypeOK, EffectInv, BiteInv, ~IsrRefreshes, [Next]_vars PROVE BiteInv'
  OBVIOUS
<1>1. ASSUME NEW p \in 0..(MaxPr + 1), NEW r \in 0..(MaxRlr + 1), ~bitten, iwdgStart(p, r)
      PROVE  BiteInv'
  <2>1. p \in Nat /\ r \in Nat
    BY IwdgAssumption
  <2> QED
    BY <1>1, <2>1, BiteStart
<1>2. CASE UNCHANGED vars
  BY <1>2 DEF vars, callVars, BiteInv, Covered, Pace, Untouched, PromiseKnown, Idle
<1> QED
  BY <1>1, <1>2, BiteDriver, BiteRefresh, BiteTaken, BiteCycle, BiteReboot DEF Next, Program

(* A watchdog started once and refreshed in time does not bite: before the  *)
(* timeout in force has passed since the last refresh the chip is not       *)
(* reset, not in the middle of iwdgStart() either, whatever the dividers    *)
(* and whenever the new values reach the LSI domain (iwdg.h 39, 49).        *)
THEOREM NoEarlyBite == ASSUME ~IsrRefreshes PROVE Spec => []StartedOnceNeverBitesEarly
<1>1. BiteInv => StartedOnceNeverBitesEarly
  BY DEF BiteInv, StartedOnceNeverBitesEarly
<1>2. TypeOK /\ EffectInv /\ BiteInv /\ [Next]_vars => EffectInv' /\ BiteInv'
  BY EffectStep, BiteStep
<1> QED
  BY <1>1, <1>2, EffectInit, BiteInit, TypeCorrect, PTL DEF Spec
=============================================================================
