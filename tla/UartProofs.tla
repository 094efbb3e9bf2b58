----------------------------- MODULE UartProofs -----------------------------
(***************************************************************************)
(* Proofs about Uart, for every budget of polls, every set of rates, and   *)
(* any number of bytes either way.                                         *)
(***************************************************************************)
EXTENDS Uart, TLAPS, SequenceTheorems

-----------------------------------------------------------------------------
(* The inductive invariant.                                                 *)

ConfigPlaces == {"brr", "frame", "enable"}
TxPlaces == {"txe", "txeRecheck", "store"}
FlushPlaces == {"tc", "tcRecheck"}
RxPlaces == {"rxne", "rxneRecheck", "sr", "dr"}

\* Whose code the places are, and what is left of the buffer there.
PlaceInv ==
    /\ at \in ConfigPlaces => fn = "uartInit"
    /\ at \in FlushPlaces => fn \in {"uartFlush", "uartTransmit"}
    /\ at \in TxPlaces => /\ fn \in {"uartTransmitByte", "uartTransmit"}
                          /\ left >= 1 /\ written + left <= MaxTx
    /\ at \in RxPlaces => fn \in {"uartReceiveByte", "uartReceive"} /\ left >= 1

\* The transmitter holds what is written and not out; TC, and the caller's
\* account of it, tell when that is nothing.
TxInv ==
    /\ Len(line) + (IF tdr = 0 THEN 0 ELSE 1) + (IF shift = 0 THEN 0 ELSE 1) = written
    /\ tc => tdr = 0 /\ shift = 0
    /\ ~unflushed => tdr = 0 /\ shift = 0
    /\ at = "store" => srRead /\ tdr = 0

\* The instance is disabled and silent while it is configured.
ConfigInv ==
    /\ at \in ConfigPlaces => ~ue /\ ~unflushed /\ FitsBrr(rate)
    /\ at \in {"frame", "enable"} => brr = RoundedBrr(rate)
    /\ at = "enable" => m = pce
    /\ ue => FitsBrr(rate) /\ brr = RoundedBrr(rate) /\ m = pce

\* b would follow the last byte taken.
Follows(b) == IF taken = <<>> THEN b = 1 ELSE taken[Len(taken)] \in {0, b - 1}

\* What the flags say of the byte in DR and of the next to arrive; the byte a
\* clean reading of SR was about is still there when DR is read.
RxInv ==
    /\ ~rxne /\ ~ore => Follows(arrived + 1)
    /\ rxne /\ ~ore => Follows(rdr) /\ rdr = arrived
    /\ rxne /\ ~err => rdr \notin damaged
    /\ rxne => rdr \in 1..arrived
    /\ at \in {"sr", "dr"} => rxne
    /\ at = "dr" /\ sr = {} => rdr \notin damaged /\ Follows(rdr)
    /\ \A i \in 1..Len(taken) : taken[i] <= arrived

IInv ==
    /\ TypeOK
    /\ PlaceInv /\ TxInv /\ ConfigInv /\ RxInv
    /\ OkMeansIdle /\ ReceivedInOrder

-----------------------------------------------------------------------------
\* A quotient, its product and what it was taken of.
LEMMA Quotient ==
    ASSUME NEW n \in Nat, NEW b \in Nat \ {0}
    PROVE  /\ n \div b \in Nat
           /\ (n \div b) * b \in Nat
           /\ (n \div b) * b <= n
           /\ n < (n \div b) * b + b
<1>1. n \div b \in Nat
  OBVIOUS
<1>2. ASSUME NEW q \in Nat, q = n \div b
      PROVE  q * b \in Nat /\ q * b <= n /\ n < q * b + b
  BY <1>2
<1> QED
  BY <1>1, <1>2

\* uartComputeBrr() gives the divisor nearest to the quotient.
LEMMA Nearest ==
    ASSUME NEW r \in Nat \X Nat, FitsBrr(r)
    PROVE  /\ RoundedBrr(r) \in MinBrr..MaxBrr
           /\ 2 * (r[1] - RoundedBrr(r) * r[2]) <= r[2]
           /\ 2 * (RoundedBrr(r) * r[2] - r[1]) <= r[2]
<1> DEFINE a == r[1]
           b == r[2]
           h == b \div 2
           product == RoundedBrr(r) * b
<1>1. a \in Nat /\ b \in Nat \ {0} /\ RoundedBrr(r) \in MinBrr..MaxBrr
  BY DEF FitsBrr
<1>2. h \in Nat /\ 2 * h <= b /\ b <= 2 * h + 1
  BY <1>1
<1>3. a + h \in Nat /\ product = ((a + h) \div b) * b
  BY <1>1, <1>2 DEF RoundedBrr
<1> HIDE DEF a, b, h
<1>4. product \in Nat /\ product <= a + h /\ a + h < product + b
  BY <1>1, <1>3, Quotient
<1> HIDE DEF product
<1>5. 2 * (a - product) <= b /\ 2 * (product - a) <= b
  BY <1>1, <1>2, <1>4
<1> QED
  BY <1>1, <1>5 DEF product, a, b

-----------------------------------------------------------------------------
(* The parts of the invariant that a step leaves alone.                     *)

\* The transmitter's part.
LEMMA TxKept ==
    ASSUME TxInv, UNCHANGED <<tdr, shift, tc, line, written, unflushed>>,
           at' = "store" => srRead' /\ tdr = 0
    PROVE  TxInv'
BY DEF TxInv

\* The configuration's part.
LEMMA ConfigKept ==
    ASSUME ConfigInv, UNCHANGED <<ue, m, pce, brr, rate>>,
           at' \in ConfigPlaces => at' = at /\ unflushed' = unflushed
    PROVE  ConfigInv'
BY DEF ConfigInv, ConfigPlaces, FitsBrr, RoundedBrr

\* The receiver's part.
LEMMA RxKept ==
    ASSUME RxInv, ReceivedInOrder, UNCHANGED <<rxVars, taken>>,
           at' \in {"sr", "dr"} => at' = at /\ sr' = sr
    PROVE  RxInv' /\ ReceivedInOrder'
BY DEF RxInv, Follows, ReceivedInOrder, rxVars

-----------------------------------------------------------------------------
\* The wait's counter starts in its range and stays there when it is taken down.
LEMMA Budget ==
    /\ PollBudget \in 0..PollBudget
    /\ \A n \in 0..PollBudget : n > 0 => n - 1 \in 0..PollBudget
BY PollBudgetAssumption

\* The ways a step moves the activation record keep it well formed.
LEMMA RecordMoves ==
    ASSUME CallTypeOK(UartFns, Places),
           \/ \E f \in UartFns, s \in DriverStatus, b \in BOOLEAN : Answer(f, s, b)
           \/ \E f \in UartFns, label \in Places, b \in BOOLEAN : Enter(f, label, b)
           \/ \E label \in Places \union {"returned"}, b \in BOOLEAN : GoTo(label, b)
           \/ \E s \in DriverStatus, b \in BOOLEAN : Return(s, b)
           \/ \E reached : \E label \in Places : Poll(reached, label)
           \/ \E reached : \E label \in Places \union {"returned"} : Recheck(reached, label)
    PROVE  CallTypeOK(UartFns, Places)'
<1> USE DEF CallTypeOK
<1>1. CASE \E f \in UartFns, s \in DriverStatus, b \in BOOLEAN : Answer(f, s, b)
  BY <1>1, Budget, Zenon DEF Answer
<1>2. CASE \E f \in UartFns, label \in Places, b \in BOOLEAN : Enter(f, label, b)
  BY <1>2, Budget, Zenon DEF Enter, DriverStatus
<1>3. CASE \E label \in Places \union {"returned"}, b \in BOOLEAN : GoTo(label, b)
  BY <1>3, Budget, Zenon DEF GoTo
<1>4. CASE \E s \in DriverStatus, b \in BOOLEAN : Return(s, b)
  BY <1>4, Budget, Zenon DEF Return
<1>5. CASE \E reached : \E label \in Places : Poll(reached, label)
  BY <1>5, Budget, Zenon DEF Poll
<1>6. CASE \E reached : \E label \in Places \union {"returned"} : Recheck(reached, label)
  BY <1>6, Budget, Zenon DEF Recheck, GoTo, Return, DriverStatus
<1> QED
  BY <1>1, <1>2, <1>3, <1>4, <1>5, <1>6

LEMMA InitInv == Init => IInv
<1> SUFFICES ASSUME Init PROVE IInv
  OBVIOUS
<1>1. CallTypeOK(UartFns, Places)
  BY Budget, Zenon DEF Init, CallInit, CallTypeOK, DriverStatus
<1>2. TypeOK
  <2>1. line \in Seq(1..MaxTx) /\ taken \in Seq(0..MaxRx) /\ rate \in Rates \union {<<0, 0>>}
    BY DEF Init
  <2>2. damaged \subseteq 1..arrived /\ dir \subseteq {"TE", "RE"}
    BY DEF Init
  <2>3. /\ brr \in 0..MaxBrr /\ tdr \in 0..MaxTx /\ shift \in 0..MaxTx /\ written \in 0..MaxTx
        /\ rdr \in 0..MaxRx /\ arrived \in 0..MaxRx /\ left \in 0..MaxLength
    BY UartAssumption DEF Init, MaxBrr, MaxLength
  <2> QED
    BY <1>1, <2>1, <2>2, <2>3, Zenon DEF Init, TypeOK
<1>3. at = "returned" /\ status = "UNINITIALIZED"
  BY DEF Init, CallInit
<1>4. PlaceInv /\ TxInv /\ ConfigInv
  BY <1>3 DEF Init, PlaceInv, TxInv, ConfigInv, ConfigPlaces, TxPlaces, FlushPlaces, RxPlaces
<1>5. RxInv /\ OkMeansIdle /\ ReceivedInOrder
  BY <1>3 DEF Init, RxInv, Follows, OkMeansIdle, ReceivedInOrder
<1> QED
  BY <1>2, <1>4, <1>5 DEF IInv

\* A call: whatever is asked for, nothing is under way.
LEMMA CallerInv == IInv /\ Caller => IInv'
<1> SUFFICES ASSUME IInv, Caller PROVE IInv'
  OBVIOUS
<1> USE DEF configVars, txVars, argVars
<1>1. /\ TypeOK /\ PlaceInv /\ TxInv /\ ConfigInv /\ RxInv
      /\ OkMeansIdle /\ ReceivedInOrder
  BY DEF IInv
<1>2. UNCHANGED <<txVars, rxVars, sr, taken>> /\ at = "returned"
  BY DEF Caller, uartInit, uartDeinit, uartFlush, uartTransmitByte, uartTransmit,
         uartReceiveByte, uartReceive, Enter, Answer, Idle
<1>3. /\ \/ at' = "returned"
         \/ at' \in {"brr", "txe", "tc", "rxne"}
      /\ CallTypeOK(UartFns, Places)'
  <2>1. ASSUME NEW f \in UartFns, NEW s \in DriverStatus, NEW stores \in BOOLEAN, Answer(f, s, stores)
        PROVE  CallTypeOK(UartFns, Places)' /\ at' = "returned"
    BY <1>1, <1>2, <2>1, RecordMoves DEF TypeOK, Answer
  <2>2. ASSUME NEW f \in UartFns, NEW label \in {"brr", "txe", "tc", "rxne"}, NEW stores \in BOOLEAN,
               Enter(f, label, stores)
        PROVE  CallTypeOK(UartFns, Places)' /\ at' = label
    BY <1>1, <2>2, RecordMoves DEF TypeOK, Enter, Places
  <2> QED
    BY <2>1, <2>2
       DEF Caller, uartInit, uartDeinit, uartFlush, uartTransmitByte, uartTransmit,
           uartReceiveByte, uartReceive, UartFns, DriverStatus
<1>4. TxInv' /\ RxInv' /\ ReceivedInOrder'
  BY <1>1, <1>2, <1>3, TxKept, RxKept
<1>5. ASSUME TypeOK', PlaceInv', ConfigInv', OkMeansIdle' PROVE IInv'
  BY <1>4, <1>5 DEF IInv
<1>6. CASE MayConfigure /\ \E r \in Rates, framing \in BOOLEAN : uartInit(r, framing)
  <2> PICK r \in Rates, framing \in BOOLEAN : uartInit(r, framing)
    BY <1>6
  <2>1. CASE Answer("uartInit", "INVALID_PARAM", FALSE) /\ UNCHANGED <<ue, argVars>>
    <3>1. TypeOK'
      BY <1>1, <1>2, <1>3, <2>1 DEF uartInit, TypeOK, rxVars
    <3>2. PlaceInv' /\ ConfigInv' /\ OkMeansIdle'
      BY <1>1, <1>2, <2>1, ConfigKept
         DEF uartInit, Answer, PlaceInv, ConfigPlaces, TxPlaces, FlushPlaces, RxPlaces, OkMeansIdle
    <3> QED
      BY <1>5, <3>1, <3>2
  <2>2. CASE /\ FitsBrr(r) /\ Enter("uartInit", "brr", TRUE)
             /\ ue' = FALSE /\ rate' = r
             /\ parity' \in BOOLEAN /\ dir' \in SUBSET {"TE", "RE"}
    <3>1. TypeOK'
      <4>1. UNCHANGED <<te, re, m, pce, brr, left>>
        BY DEF uartInit
      <4>2. /\ ue' \in BOOLEAN /\ parity' \in BOOLEAN
            /\ rate' \in Rates \union {<<0, 0>>} /\ dir' \subseteq {"TE", "RE"}
        BY <2>2
      <4> QED
        BY <1>1, <1>2, <1>3, <4>1, <4>2, ZenonT(40) DEF TypeOK, rxVars
    <3>2. PlaceInv' /\ OkMeansIdle'
      BY <1>1, <1>2, <2>2
         DEF uartInit, Enter, Idle, PlaceInv, ConfigPlaces, TxPlaces, FlushPlaces, RxPlaces, OkMeansIdle
    <3>3. ConfigInv'
      BY <1>2, <1>6, <2>2 DEF MayConfigure, Enter, ConfigInv, FitsBrr, RoundedBrr
    <3> QED
      BY <1>5, <3>1, <3>2, <3>3
  <2> QED
    BY <2>1, <2>2 DEF uartInit
<1>7. CASE MayConfigure /\ uartDeinit
  <2>1. TypeOK'
    <3>1. brr' \in 0..MaxBrr
      BY <1>7 DEF uartDeinit, MaxBrr
    <3> QED
      BY <1>1, <1>2, <1>3, <1>7, <3>1, ZenonT(40) DEF uartDeinit, TypeOK, rxVars
  <2>2. PlaceInv' /\ ConfigInv' /\ OkMeansIdle'
    BY <1>1, <1>2, <1>7
       DEF uartDeinit, Answer, PlaceInv, ConfigInv, ConfigPlaces, TxPlaces, FlushPlaces, RxPlaces,
           OkMeansIdle
  <2> QED
    BY <1>5, <2>1, <2>2
<1>8. ASSUME UNCHANGED <<configVars, argVars>>, left' \in 0..MaxLength, at' # "brr",
             PlaceInv', OkMeansIdle'
      PROVE  IInv'
  <2>1. TypeOK'
    BY <1>1, <1>2, <1>3, <1>8 DEF TypeOK, rxVars
  <2>2. ConfigInv'
    BY <1>1, <1>2, <1>3, <1>8, ConfigKept DEF ConfigPlaces
  <2> QED
    BY <1>5, <1>8, <2>1, <2>2
<1>9. ASSUME UNCHANGED <<configVars, argVars>>,
             NEW f \in UartFns, NEW s \in {"INVALID_PARAM", "OK"}, Answer(f, s, FALSE), UNCHANGED left,
             f # "uartFlush"
      PROVE  IInv'
  <2>1. PlaceInv' /\ OkMeansIdle' /\ left' \in 0..MaxLength /\ at' # "brr"
    BY <1>1, <1>2, <1>9
       DEF Answer, PlaceInv, ConfigPlaces, TxPlaces, FlushPlaces, RxPlaces, OkMeansIdle, TypeOK
  <2> QED
    BY <1>8, <1>9, <2>1
<1>10. CASE ue /\ te /\ uartFlush
  BY <1>1, <1>2, <1>8, <1>10
     DEF uartFlush, Enter, Idle, PlaceInv, ConfigPlaces, TxPlaces, FlushPlaces, RxPlaces, OkMeansIdle, TypeOK
<1>11. CASE MaySend(1) /\ uartTransmitByte
  BY <1>1, <1>2, <1>8, <1>11
     DEF uartTransmitByte, MaySend, Enter, Idle, PlaceInv, ConfigPlaces, TxPlaces, FlushPlaces, RxPlaces,
         OkMeansIdle, TypeOK, MaxLength
<1>12. ASSUME NEW n \in 0..MaxLength, NEW null \in BOOLEAN, MaySend(n), uartTransmit(n, null)
       PROVE  IInv'
  <2>1. CASE Enter("uartTransmit", "txe", FALSE) /\ n > 0 /\ left' = n
    BY <1>1, <1>2, <1>8, <1>12, <2>1
       DEF uartTransmit, MaySend, Enter, Idle, PlaceInv, ConfigPlaces, TxPlaces, FlushPlaces, RxPlaces,
           OkMeansIdle, TypeOK, MaxLength
  <2> QED
    BY <1>9, <1>12, <2>1 DEF uartTransmit, UartFns
<1>13. ASSUME NEW null \in BOOLEAN, uartReceiveByte(null) PROVE IInv'
  <2>1. CASE Enter("uartReceiveByte", "rxne", FALSE) /\ left' = 1
    BY <1>1, <1>2, <1>8, <1>13, <2>1
       DEF uartReceiveByte, Enter, Idle, PlaceInv, ConfigPlaces, TxPlaces, FlushPlaces, RxPlaces,
           OkMeansIdle, TypeOK, MaxLength
  <2> QED
    BY <1>9, <1>13, <2>1 DEF uartReceiveByte, UartFns
<1>14. ASSUME NEW n \in 0..MaxLength, NEW null \in BOOLEAN, uartReceive(n, null)
       PROVE  IInv'
  <2>1. CASE Enter("uartReceive", "rxne", FALSE) /\ n > 0 /\ left' = n
    BY <1>1, <1>2, <1>8, <1>14, <2>1
       DEF uartReceive, Enter, Idle, PlaceInv, ConfigPlaces, TxPlaces, FlushPlaces, RxPlaces,
           OkMeansIdle, TypeOK, MaxLength
  <2> QED
    BY <1>9, <1>14, <2>1 DEF uartReceive, UartFns
<1> QED
  BY <1>6, <1>7, <1>10, <1>11, <1>12, <1>13, <1>14 DEF Caller

\* Configuring the instance.
LEMMA ConfigureInv == IInv /\ (StoreBrr \/ StoreFrame \/ StoreEnable) => IInv'
<1> SUFFICES ASSUME IInv, StoreBrr \/ StoreFrame \/ StoreEnable PROVE IInv'
  OBVIOUS
<1>1. /\ TypeOK /\ PlaceInv /\ TxInv /\ ConfigInv /\ RxInv
      /\ OkMeansIdle /\ ReceivedInOrder
  BY DEF IInv
<1>2. /\ UNCHANGED <<txVars, rxVars, sr, left, argVars, taken, fn>>
      /\ at \in ConfigPlaces /\ at' \in {"frame", "enable", "returned"}
      /\ CallTypeOK(UartFns, Places)'
  <2>1. ASSUME NEW label \in {"frame", "enable"}, GoTo(label, TRUE)
        PROVE  CallTypeOK(UartFns, Places)'
    BY <1>1, <2>1, RecordMoves DEF TypeOK, Places
  <2>2. ASSUME Return("OK", TRUE) PROVE CallTypeOK(UartFns, Places)'
    BY <1>1, <2>2, RecordMoves DEF TypeOK, DriverStatus
  <2> QED
    BY <2>1, <2>2 DEF StoreBrr, StoreFrame, StoreEnable, GoTo, Return, ConfigPlaces
<1>3. TxInv' /\ RxInv' /\ ReceivedInOrder'
  BY <1>1, <1>2, TxKept, RxKept DEF txVars
<1>4. ~ue /\ ~unflushed /\ FitsBrr(rate) /\ fn = "uartInit"
  BY <1>1, <1>2 DEF ConfigInv, PlaceInv
<1>5. PlaceInv' /\ OkMeansIdle'
  BY <1>2, <1>4 DEF PlaceInv, ConfigPlaces, TxPlaces, FlushPlaces, RxPlaces, OkMeansIdle
<1>6. ASSUME TypeOK', ConfigInv' PROVE IInv'
  BY <1>3, <1>5, <1>6 DEF IInv
<1>7. CASE StoreBrr
  <2>1. brr' \in 0..MaxBrr
    <3>1. brr' \in MinBrr..MaxBrr
      BY <1>4, <1>7, Zenon DEF StoreBrr, FitsBrr
    <3> QED
      BY <3>1 DEF MinBrr
  <2>2. TypeOK'
    BY <1>1, <1>2, <1>7, <2>1 DEF StoreBrr, TypeOK, txVars, rxVars, argVars
  <2>3. ConfigInv'
    BY <1>2, <1>4, <1>7 DEF StoreBrr, GoTo, ConfigInv, FitsBrr, RoundedBrr, txVars, argVars
  <2> QED
    BY <1>6, <2>2, <2>3
<1>8. CASE StoreFrame
  <2>1. m' \in BOOLEAN /\ pce' \in BOOLEAN /\ te' \in BOOLEAN /\ re' \in BOOLEAN
    <3>1. parity \in BOOLEAN /\ m' = parity /\ pce' = parity
      BY <1>1, <1>8 DEF StoreFrame, TypeOK
    <3>2. te' \in BOOLEAN /\ re' \in BOOLEAN
      <4>1. te' = ("TE" \in dir) /\ re' = ("RE" \in dir)
        BY <1>8 DEF StoreFrame
      <4> QED
        BY <4>1
    <3> QED
      BY <3>1, <3>2
  <2>2. TypeOK'
    BY <1>1, <1>2, <1>8, <2>1 DEF StoreFrame, TypeOK, txVars, rxVars, argVars
  <2>3. ConfigInv'
    BY <1>1, <1>2, <1>4, <1>8
       DEF StoreFrame, GoTo, ConfigInv, FitsBrr, RoundedBrr, txVars, argVars
  <2> QED
    BY <1>6, <2>2, <2>3
<1>9. CASE StoreEnable
  <2>1. TypeOK'
    BY <1>1, <1>2, <1>9 DEF StoreEnable, TypeOK, txVars, rxVars, argVars
  <2>2. ConfigInv'
    BY <1>1, <1>2, <1>4, <1>9
       DEF StoreEnable, Return, ConfigInv, ConfigPlaces, FitsBrr, RoundedBrr, argVars
  <2> QED
    BY <1>6, <2>1, <2>2
<1> QED
  BY <1>7, <1>8, <1>9

\* A wait for a flag: where it leads, and that it only reads.
LEMMA Waits ==
    ASSUME TypeOK, NEW poll \in Places, NEW recheck \in Places,
           NEW next \in Places \union {"returned"}, WaitSrFlag(poll, recheck, next)
    PROVE  /\ CallTypeOK(UartFns, Places)'
           /\ UNCHANGED <<fn, wrote>> /\ srRead'
           /\ \/ at = poll /\ at' \in {poll, recheck} /\ UNCHANGED status
              \/ at = recheck /\ ~FlagOf(recheck) /\ at' = "returned" /\ status' = "TIMEOUT"
              \/ at = recheck /\ FlagOf(recheck) /\ at' = next /\ UNCHANGED status
<1>1. CASE at = poll /\ Poll(FlagOf(poll), recheck)
  BY <1>1, RecordMoves DEF TypeOK, Poll, WaitSrFlag
<1>2. CASE at = recheck /\ Recheck(FlagOf(recheck), next)
  <2>1. CallTypeOK(UartFns, Places)'
    BY <1>2, RecordMoves DEF TypeOK
  <2>2. wrote' = wrote
    BY <1>2, Zenon DEF Recheck, GoTo, Return, TypeOK, CallTypeOK
  <2> QED
    BY <1>2, <2>1, <2>2 DEF WaitSrFlag, Recheck, GoTo, Return
<1> QED
  BY <1>1, <1>2 DEF WaitSrFlag

\* The three waits.
LEMMA WaitInv == IInv /\ (WaitTxe \/ WaitTc \/ WaitRxne) => IInv'
<1> SUFFICES ASSUME IInv, WaitTxe \/ WaitTc \/ WaitRxne PROVE IInv'
  OBVIOUS
<1>1. /\ TypeOK /\ PlaceInv /\ TxInv /\ ConfigInv /\ RxInv
      /\ OkMeansIdle /\ ReceivedInOrder
  BY DEF IInv
<1>2. UNCHANGED <<configVars, tdr, shift, tc, line, written, rxVars, sr, left, argVars, taken>>
  BY DEF WaitTxe, WaitTc, WaitRxne
<1>3. ASSUME CallTypeOK(UartFns, Places)', srRead' \in BOOLEAN, unflushed' \in BOOLEAN
      PROVE  TypeOK'
  BY <1>1, <1>2, <1>3 DEF TypeOK, configVars, rxVars, argVars
<1>4. ASSUME at' \notin ConfigPlaces PROVE ConfigInv'
  BY <1>1, <1>2, <1>4, ConfigKept DEF configVars, argVars
<1>5. CASE WaitTxe
  <2>1. /\ CallTypeOK(UartFns, Places)' /\ UNCHANGED fn /\ srRead'
        /\ \/ at \in {"txe", "txeRecheck"} /\ at' \in {"txe", "txeRecheck"}
           \/ at' = "returned" /\ status' = "TIMEOUT"
           \/ at \in {"txe", "txeRecheck"} /\ at' = "store" /\ tdr = 0
    <3>1. WaitSrFlag("txe", "txeRecheck", "store") /\ "store" \in Places
      BY <1>5 DEF WaitTxe, Places
    <3>2. FlagOf("txeRecheck") => tdr = 0
      BY DEF FlagOf, txe
    <3>3. "txe" \in Places /\ "txeRecheck" \in Places
      BY DEF Places
    <3>4. /\ CallTypeOK(UartFns, Places)' /\ UNCHANGED fn /\ srRead'
          /\ \/ at = "txe" /\ at' \in {"txe", "txeRecheck"}
             \/ at' = "returned" /\ status' = "TIMEOUT"
             \/ at = "txeRecheck" /\ FlagOf("txeRecheck") /\ at' = "store"
      BY <1>1, <3>1, <3>3, Waits
    <3> QED
      BY <3>2, <3>4
  <2>2. unflushed' = unflushed
    BY <1>5 DEF WaitTxe
  <2>3. TypeOK'
    BY <1>1, <1>3, <2>1, <2>2, Zenon DEF TypeOK
  <2>4. PlaceInv' /\ OkMeansIdle'
    BY <1>1, <1>2, <2>1 DEF PlaceInv, ConfigPlaces, TxPlaces, FlushPlaces, RxPlaces, OkMeansIdle, Idle
  <2>5. TxInv' /\ RxInv' /\ ReceivedInOrder' /\ ConfigInv'
    BY <1>1, <1>2, <1>4, <2>1, <2>2, TxKept, RxKept DEF ConfigPlaces
  <2> QED
    BY <2>3, <2>4, <2>5 DEF IInv
<1>6. CASE WaitTc
  <2>1. /\ CallTypeOK(UartFns, Places)' /\ UNCHANGED fn /\ srRead'
        /\ \/ at \in {"tc", "tcRecheck"} /\ at' \in {"tc", "tcRecheck"}
           \/ at' = "returned" /\ status' = "TIMEOUT"
           \/ at' = "returned" /\ tc
    <3>1. WaitSrFlag("tc", "tcRecheck", "returned")
      BY <1>6 DEF WaitTc
    <3>2. FlagOf("tcRecheck") => tc
      BY DEF FlagOf
    <3> QED
      BY <1>1, <3>1, <3>2, Waits, ZenonT(40) DEF Places
  <2>2. unflushed' \in BOOLEAN /\ (~unflushed' => ~unflushed \/ tc)
    BY <1>6, <1>1, Zenon DEF WaitTc, TypeOK
  <2>3. TypeOK'
    BY <1>3, <2>1, <2>2
  <2>4. tc => tdr = 0 /\ shift = 0 /\ Len(line) = written
    <3>1. tdr = 0 /\ shift = 0 => Len(line) = written
      BY <1>1 DEF TxInv, TypeOK
    <3> QED
      BY <1>1, <3>1 DEF TxInv
  <2>5. at' # "store" /\ (tdr' = tdr /\ shift' = shift /\ line' = line /\ written' = written)
    BY <1>2, <2>1
  <2>6. TxInv'
    BY <1>1, <1>2, <2>2, <2>4, <2>5 DEF TxInv
  <2>7. PlaceInv' /\ OkMeansIdle'
    <3>1. PlaceInv'
      BY <1>1, <2>1 DEF PlaceInv, ConfigPlaces, TxPlaces, FlushPlaces, RxPlaces
    <3>2. OkMeansIdle'
      BY <2>1, <2>4, <2>5 DEF OkMeansIdle, Idle
    <3> QED
      BY <3>1, <3>2
  <2>8. RxInv' /\ ReceivedInOrder' /\ ConfigInv'
    BY <1>1, <1>2, <1>4, <2>1, RxKept DEF ConfigPlaces
  <2> QED
    BY <2>3, <2>6, <2>7, <2>8 DEF IInv
<1>7. CASE WaitRxne
  <2>1. /\ CallTypeOK(UartFns, Places)' /\ UNCHANGED fn /\ srRead'
        /\ \/ at \in {"rxne", "rxneRecheck"} /\ at' \in {"rxne", "rxneRecheck"}
           \/ at' = "returned" /\ status' = "TIMEOUT"
           \/ at \in {"rxne", "rxneRecheck"} /\ at' = "sr" /\ rxne
    <3>1. WaitSrFlag("rxne", "rxneRecheck", "sr") /\ "sr" \in Places
      BY <1>7 DEF WaitRxne, Places
    <3>2. FlagOf("rxneRecheck") => rxne
      BY DEF FlagOf
    <3> QED
      BY <1>1, <3>1, <3>2, Waits, ZenonT(40) DEF Places
  <2>2. unflushed' = unflushed
    BY <1>7 DEF WaitRxne
  <2>3. TypeOK'
    BY <1>1, <1>3, <2>1, <2>2, Zenon DEF TypeOK
  <2>4. PlaceInv' /\ OkMeansIdle'
    BY <1>1, <1>2, <2>1 DEF PlaceInv, ConfigPlaces, TxPlaces, FlushPlaces, RxPlaces, OkMeansIdle, Idle
  <2>5. TxInv' /\ ConfigInv'
    BY <1>1, <1>2, <1>4, <2>1, <2>2, TxKept DEF ConfigPlaces
  <2>6. RxInv' /\ ReceivedInOrder'
    BY <1>1, <1>2, <2>1 DEF RxInv, Follows, ReceivedInOrder, rxVars
  <2> QED
    BY <2>3, <2>4, <2>5, <2>6 DEF IInv
<1> QED
  BY <1>5, <1>6, <1>7

\* A store to DR: it is empty, and SR has been read since the last one, so TC
\* goes down.
LEMMA StoreDrInv == IInv /\ StoreDr => IInv'
<1> SUFFICES ASSUME IInv, StoreDr PROVE IInv'
  OBVIOUS
<1>1. /\ TypeOK /\ PlaceInv /\ TxInv /\ ConfigInv /\ RxInv
      /\ OkMeansIdle /\ ReceivedInOrder
  BY DEF IInv
<1>2. /\ UNCHANGED <<configVars, shift, line, rxVars, sr, argVars, taken>>
      /\ at = "store"
      /\ tdr' = written + 1 /\ written' = written + 1 /\ left' = left - 1
      /\ unflushed' = TRUE /\ srRead' = FALSE
  BY DEF StoreDr
<1>3. /\ fn \in {"uartTransmitByte", "uartTransmit"}
      /\ left >= 1 /\ written + left <= MaxTx /\ srRead /\ tdr = 0
  BY <1>1, <1>2 DEF PlaceInv, TxInv, TxPlaces
<1>4. written \in Nat /\ left \in Nat /\ left <= MaxLength /\ Len(line) \in Nat
  BY <1>1 DEF TypeOK, MaxLength
<1>5. tc' = FALSE
  BY <1>3, Zenon DEF StoreDr
<1>6. /\ CallTypeOK(UartFns, Places)'
      /\ UNCHANGED fn
      /\ \/ fn = "uartTransmitByte" /\ at' = "returned"
         \/ fn = "uartTransmit" /\ left > 1 /\ at' = "txe"
         \/ fn = "uartTransmit" /\ left = 1 /\ at' = "tc"
  <2>1. CASE fn = "uartTransmitByte" /\ Return("OK", TRUE)
    BY <1>1, <2>1, RecordMoves DEF TypeOK, DriverStatus, Return
  <2>2. ASSUME NEW label \in {"txe", "tc"}, GoTo(label, TRUE)
        PROVE  CallTypeOK(UartFns, Places)' /\ UNCHANGED fn /\ at' = label
    BY <1>1, <2>2, RecordMoves DEF TypeOK, GoTo, Places
  <2> QED
    BY <2>1, <2>2 DEF StoreDr
<1>7. TypeOK'
  <2>1. tdr' \in 0..MaxTx /\ written' \in 0..MaxTx /\ left' \in 0..MaxLength
    BY <1>2, <1>3, <1>4, UartAssumption DEF MaxLength
  <2> QED
    BY <1>1, <1>2, <1>5, <1>6, <2>1, ZenonT(40) DEF TypeOK, configVars, rxVars, argVars
<1>8. PlaceInv' /\ OkMeansIdle'
  <2>1. left > 1 => left' >= 1 /\ written' + left' <= MaxTx
    BY <1>2, <1>3, <1>4
  <2> QED
    BY <1>6, <2>1
       DEF PlaceInv, ConfigPlaces, TxPlaces, FlushPlaces, RxPlaces, OkMeansIdle, Idle
<1>9. TxInv'
  <2>1. Len(line) + (IF shift = 0 THEN 0 ELSE 1) = written
    BY <1>1, <1>3, <1>4 DEF TxInv
  <2>2. tdr' # 0 /\ shift' = shift /\ line' = line /\ at' # "store"
    BY <1>2, <1>4, <1>6
  <2> QED
    BY <1>2, <1>4, <1>5, <2>1, <2>2 DEF TxInv
<1>10. ConfigInv' /\ RxInv' /\ ReceivedInOrder'
  BY <1>1, <1>2, <1>6, ConfigKept, RxKept DEF configVars, argVars, ConfigPlaces
<1> QED
  BY <1>7, <1>8, <1>9, <1>10 DEF IInv

\* SR is read: a clean reading is about the byte in DR.
LEMMA ReadSrInv == IInv /\ ReadSr => IInv'
<1> SUFFICES ASSUME IInv, ReadSr PROVE IInv'
  OBVIOUS
<1>1. /\ TypeOK /\ PlaceInv /\ TxInv /\ ConfigInv /\ RxInv
      /\ OkMeansIdle /\ ReceivedInOrder
  BY DEF IInv
<1>2. /\ UNCHANGED <<configVars, tdr, shift, tc, line, written, unflushed, rxVars,
                     left, argVars, taken, fn>>
      /\ at = "sr" /\ at' = "dr" /\ srRead' = TRUE
  BY DEF ReadSr, GoTo
<1>3. sr' \subseteq ErrorFlags /\ (sr' = {} => ~ore /\ ~err)
  <2>1. sr' = {f \in ErrorFlags : IF f = "ORE" THEN ore ELSE err}
    BY DEF ReadSr
  <2>2. ore => "ORE" \in sr'
    BY <2>1 DEF ErrorFlags
  <2>3. err => "ERR" \in sr'
    BY <2>1 DEF ErrorFlags
  <2> QED
    BY <2>1, <2>2, <2>3
<1>4. CallTypeOK(UartFns, Places)'
  BY <1>1, RecordMoves DEF ReadSr, TypeOK, Places
<1>5. TypeOK'
  BY <1>1, <1>2, <1>3, <1>4 DEF TypeOK, configVars, rxVars, argVars
<1>6. PlaceInv' /\ OkMeansIdle'
  BY <1>1, <1>2 DEF PlaceInv, ConfigPlaces, TxPlaces, FlushPlaces, RxPlaces, OkMeansIdle, Idle
<1>7. TxInv' /\ ConfigInv'
  BY <1>1, <1>2, TxKept, ConfigKept DEF configVars, argVars, ConfigPlaces
<1>8. RxInv' /\ ReceivedInOrder'
  BY <1>1, <1>2, <1>3 DEF RxInv, Follows, ReceivedInOrder, rxVars
<1> QED
  BY <1>5, <1>6, <1>7, <1>8 DEF IInv

\* DR is read.  With the clean reading of SR before it the byte follows the last
\* one taken; without, the caller is told.
LEMMA ReadDrInv == IInv /\ ReadDr => IInv'
<1> SUFFICES ASSUME IInv, ReadDr PROVE IInv'
  OBVIOUS
<1> DEFINE byte == IF sr # {} THEN 0 ELSE rdr
<1>1. /\ TypeOK /\ PlaceInv /\ TxInv /\ ConfigInv /\ RxInv
      /\ OkMeansIdle /\ ReceivedInOrder
  BY DEF IInv
<1>2. /\ UNCHANGED <<configVars, txVars, rdr, arrived, damaged, sr, argVars>>
      /\ at = "dr" /\ rxne' = FALSE /\ left' = left - 1
      /\ taken' = Append(taken, byte)
  BY DEF ReadDr, TakeByte
<1>3. /\ fn \in {"uartReceiveByte", "uartReceive"} /\ left >= 1 /\ rxne
  BY <1>1, <1>2 DEF PlaceInv, RxPlaces, RxInv
<1>4. /\ arrived \in Nat /\ rdr \in 1..arrived /\ rdr \in 0..MaxRx
      /\ taken \in Seq(0..MaxRx) /\ Len(taken) \in Nat
  BY <1>1, <1>3 DEF TypeOK, RxInv
<1>5. /\ ore' \in BOOLEAN /\ err' \in BOOLEAN
      /\ ~ore' => sr # {} \/ ~ore
  BY <1>1, Zenon DEF ReadDr, TakeByte, TypeOK
<1>6. /\ CallTypeOK(UartFns, Places)'
      /\ UNCHANGED fn
      /\ \/ at' = "rxne" /\ left > 1
         \/ at' = "returned"
  <2>1. ASSUME NEW s \in {"HW_FAULT", "OK"}, Return(s, FALSE)
        PROVE  CallTypeOK(UartFns, Places)' /\ UNCHANGED fn /\ at' = "returned"
    BY <1>1, <2>1, RecordMoves DEF TypeOK, DriverStatus, Return
  <2>2. ASSUME GoTo("rxne", FALSE)
        PROVE  CallTypeOK(UartFns, Places)' /\ UNCHANGED fn /\ at' = "rxne"
    BY <1>1, <2>2, RecordMoves DEF TypeOK, GoTo, Places
  <2> QED
    BY <2>1, <2>2 DEF ReadDr
<1>7. TypeOK'
  <2>1. left' \in 0..MaxLength
    BY <1>1, <1>2, <1>3 DEF TypeOK, MaxLength
  <2>2. taken' \in Seq(0..MaxRx)
    BY <1>2, <1>4, UartAssumption
  <2> QED
    BY <1>1, <1>2, <1>5, <1>6, <2>1, <2>2, ZenonT(40) DEF TypeOK, configVars, txVars, argVars
<1>8. PlaceInv' /\ OkMeansIdle'
  <2>1. left > 1 => left' >= 1
    BY <1>1, <1>2 DEF TypeOK, MaxLength
  <2> QED
    BY <1>3, <1>6, <2>1
       DEF PlaceInv, ConfigPlaces, TxPlaces, FlushPlaces, RxPlaces, OkMeansIdle, Idle
<1>9. TxInv' /\ ConfigInv'
  BY <1>1, <1>2, <1>6, TxKept, ConfigKept DEF configVars, txVars, argVars, ConfigPlaces
<1>10. /\ Len(taken') = Len(taken) + 1
       /\ taken'[Len(taken')] = byte
       /\ \A i \in 1..Len(taken) : taken'[i] = taken[i]
  BY <1>2, <1>4
<1>11. byte \in Nat /\ byte <= arrived
  BY <1>4
<1>12. RxInv'
  <2>1. taken' # <<>> /\ \A i \in 1..Len(taken') : taken'[i] <= arrived'
    <3>1. \A i \in 1..Len(taken) : taken[i] <= arrived
      BY <1>1 DEF RxInv
    <3> QED
      BY <1>2, <1>4, <1>10, <1>11, <3>1
  <2>2. ~ore' => Follows(arrived + 1)'
    <3>1. CASE sr # {}
      BY <1>2, <1>10, <2>1, <3>1 DEF Follows
    <3>2. CASE sr = {} /\ ~ore
      <4>1. rdr = arrived
        BY <1>1, <1>3, <3>2 DEF RxInv
      <4> QED
        BY <1>2, <1>4, <1>10, <2>1, <3>2, <4>1 DEF Follows
    <3> QED
      BY <1>1, <1>5, <3>1, <3>2
  <2> QED
    BY <1>2, <1>6, <2>1, <2>2 DEF RxInv
<1>13. ReceivedInOrder'
  <2> SUFFICES ASSUME NEW i \in 1..Len(taken)', taken'[i] # 0
               PROVE  /\ taken'[i] \notin damaged
                      /\ i = 1 => taken'[i] = 1
                      /\ i > 1 => taken'[i - 1] = 0 \/ taken'[i] = taken'[i - 1] + 1
    BY <1>2 DEF ReceivedInOrder
  <2>1. CASE i \in 1..Len(taken)
    <3>1. i > 1 => i - 1 \in 1..Len(taken)
      BY <1>4, <2>1
    <3> QED
      BY <1>1, <1>10, <2>1, <3>1 DEF ReceivedInOrder
  <2>2. CASE i = Len(taken) + 1
    <3>1. taken'[i] = rdr /\ sr = {}
      BY <1>10, <2>2
    <3>2. rdr \notin damaged /\ Follows(rdr)
      BY <1>1, <1>2, <3>1 DEF RxInv
    <3>3. CASE taken = <<>>
      BY <2>2, <3>1, <3>2, <3>3 DEF Follows
    <3>4. CASE taken # <<>>
      <4>1. Len(taken) \in 1..Len(taken)
        BY <1>4, <3>4
      <4>2. taken[Len(taken)] \in {0, rdr - 1}
        BY <3>2, <3>4 DEF Follows
      <4>3. i - 1 = Len(taken) /\ i # 1
        BY <1>4, <2>2, <4>1
      <4>4. taken'[i - 1] = taken[Len(taken)]
        BY <1>10, <4>1, <4>3
      <4> QED
        BY <1>4, <3>1, <3>2, <4>2, <4>3, <4>4
    <3> QED
      BY <3>3, <3>4
  <2> QED
    BY <1>4, <1>10, <2>1, <2>2
<1> QED
  BY <1>7, <1>8, <1>9, <1>12, <1>13 DEF IInv

\* The transmitter moves on: what was written is as far from out, or one nearer.
LEMMA TransmitterInv == IInv /\ (ShiftLoad \/ FrameSent) => IInv'
<1> SUFFICES ASSUME IInv, ShiftLoad \/ FrameSent PROVE IInv'
  OBVIOUS
<1>1. /\ TypeOK /\ PlaceInv /\ TxInv /\ ConfigInv /\ RxInv
      /\ OkMeansIdle /\ ReceivedInOrder
  BY DEF IInv
<1>2. /\ UNCHANGED <<callVars, configVars, srRead, written, unflushed, rxVars, sr, left, argVars,
                     taken>>
      /\ tdr # 0 \/ shift # 0
  BY DEF ShiftLoad, FrameSent
<1>3. CallTypeOK(UartFns, Places)'
  BY <1>1, <1>2 DEF TypeOK, CallTypeOK, callVars
<1>4. PlaceInv' /\ ConfigInv' /\ RxInv' /\ ReceivedInOrder'
  BY <1>1, <1>2, ConfigKept, RxKept DEF PlaceInv, callVars, configVars, argVars, ConfigPlaces
<1>5. OkMeansIdle'
  BY <1>1, <1>2 DEF OkMeansIdle, Idle, callVars
<1>6. ~tc /\ unflushed
  BY <1>1, <1>2 DEF TxInv
<1>7. /\ tdr \in 0..MaxTx /\ shift \in 0..MaxTx /\ line \in Seq(1..MaxTx)
      /\ Len(line) \in Nat /\ written \in Nat
  BY <1>1 DEF TypeOK
<1>8. ASSUME tdr' \in 0..MaxTx, shift' \in 0..MaxTx, line' \in Seq(1..MaxTx), tc' \in BOOLEAN, TxInv'
      PROVE  IInv'
  <2>1. TypeOK'
    BY <1>1, <1>2, <1>3, <1>8 DEF TypeOK, callVars, configVars, rxVars, argVars
  <2> QED
    BY <1>4, <1>5, <1>8, <2>1 DEF IInv
<1>9. CASE ShiftLoad
  <2>1. /\ tdr' = 0 /\ shift' = tdr /\ line' = line /\ tc' = tc
        /\ tdr # 0 /\ shift = 0
    BY <1>9 DEF ShiftLoad
  <2>2. Len(line) + 1 = written
    BY <1>1, <1>7, <2>1 DEF TxInv
  <2>3. at # "store"
    BY <1>1, <2>1 DEF TxInv
  <2>4. TxInv'
    BY <1>2, <1>6, <2>1, <2>2, <2>3 DEF TxInv, callVars
  <2> QED
    BY <1>1, <1>7, <1>8, <2>1, <2>4, UartAssumption DEF TypeOK
<1>10. CASE FrameSent
  <2>1. shift # 0 /\ shift' = 0 /\ line' = Append(line, shift) /\ tdr' = tdr
    BY <1>10 DEF FrameSent
  <2>2. Len(line') = Len(line) + 1 /\ line' \in Seq(1..MaxTx)
    BY <1>7, <2>1
  <2>3. tc' = (tdr = 0)
    BY <1>6, <1>10, Zenon DEF FrameSent, txe
  <2>4. Len(line') + (IF tdr = 0 THEN 0 ELSE 1) = written
    BY <1>1, <1>7, <2>1, <2>2 DEF TxInv
  <2>5. TxInv'
    <3>1. /\ written' = written /\ unflushed' = unflushed /\ at' = at /\ srRead' = srRead
          /\ at = "store" => srRead /\ tdr = 0
      BY <1>1, <1>2 DEF TxInv, callVars
    <3>2. Len(line') + (IF tdr' = 0 THEN 0 ELSE 1) + (IF shift' = 0 THEN 0 ELSE 1) = written'
      BY <1>7, <2>1, <2>2, <2>4, <3>1
    <3> QED
      BY <1>6, <2>1, <2>3, <3>1, <3>2 DEF TxInv
  <2> QED
    BY <1>7, <1>8, <2>1, <2>2, <2>3, <2>5, UartAssumption
<1> QED
  BY <1>9, <1>10

\* A byte arrives, wherever the driver is: with the last one unread it leaves DR
\* alone and raises ORE.
LEMMA FrameReceivedInv == ASSUME IInv, NEW bad \in BOOLEAN, FrameReceived(bad) PROVE IInv'
<1>1. /\ TypeOK /\ PlaceInv /\ TxInv /\ ConfigInv /\ RxInv
      /\ OkMeansIdle /\ ReceivedInOrder
  BY DEF IInv
<1>2. /\ UNCHANGED <<callVars, configVars, txVars, sr, left, argVars, taken>>
      /\ arrived < MaxRx /\ arrived' = arrived + 1
      /\ damaged' = IF bad THEN damaged \union {arrived + 1} ELSE damaged
  BY DEF FrameReceived
<1>3. /\ arrived \in Nat /\ rdr \in 0..MaxRx /\ damaged \subseteq 1..arrived
      /\ taken \in Seq(0..MaxRx)
  BY <1>1 DEF TypeOK
<1>4. /\ arrived + 1 \notin damaged
      /\ \A b \in 0..arrived : b \in damaged' => b \in damaged
      /\ damaged' \subseteq 1..arrived' /\ arrived' \in 0..MaxRx
  BY <1>2, <1>3, UartAssumption
<1>5. \A i \in 1..Len(taken) : taken[i] \in 0..arrived /\ taken[i] <= arrived'
  <2> SUFFICES ASSUME NEW i \in 1..Len(taken)
               PROVE  taken[i] \in 0..arrived /\ taken[i] <= arrived'
    OBVIOUS
  <2>1. taken[i] <= arrived
    BY <1>1 DEF RxInv
  <2>2. taken[i] \in 0..MaxRx
    BY <1>3, ElementOfSeq
  <2> QED
    BY <1>2, <1>3, <2>1, <2>2, UartAssumption
<1>6. ASSUME rxne
      PROVE  RxInv' /\ rxne' \in BOOLEAN /\ ore' \in BOOLEAN /\ err' \in BOOLEAN /\ rdr' \in 0..MaxRx
  <2>1. ore' = TRUE /\ UNCHANGED <<rxne, rdr, err>>
    BY <1>6 DEF FrameReceived
  <2>2. rxne' \in BOOLEAN /\ ore' \in BOOLEAN /\ err' \in BOOLEAN /\ rdr' \in 0..MaxRx
    BY <1>1, <2>1 DEF TypeOK
  <2>3. rdr \in 1..arrived /\ rdr \in 1..arrived'
    BY <1>1, <1>2, <1>3, <1>6 DEF RxInv
  <2>4. RxInv'
    BY <1>1, <1>2, <1>4, <1>6, <1>5, <2>1, <2>3 DEF RxInv, Follows, callVars
  <2> QED
    BY <2>2, <2>4
<1>7. ASSUME ~rxne
      PROVE  RxInv' /\ rxne' \in BOOLEAN /\ ore' \in BOOLEAN /\ err' \in BOOLEAN /\ rdr' \in 0..MaxRx
  <2>1. rxne' = TRUE /\ rdr' = arrived + 1 /\ ore' = ore
    BY <1>7 DEF FrameReceived
  <2>2. err' \in BOOLEAN /\ (~err' => ~bad)
    BY <1>1, <1>7, Zenon DEF FrameReceived, TypeOK
  <2>3. rxne' \in BOOLEAN /\ ore' \in BOOLEAN /\ rdr' \in 0..MaxRx
    BY <1>1, <1>2, <1>4, <2>1 DEF TypeOK
  <2>4. ~bad => rdr' \notin damaged'
    BY <1>2, <1>4, <2>1
  <2>5. rdr' \in 1..arrived' /\ rdr' = arrived'
    BY <1>2, <1>3, <2>1
  <2>6. ~ore => Follows(rdr)'
    BY <1>1, <1>2, <1>7, <2>1 DEF RxInv, Follows
  <2>7. at \notin {"sr", "dr"}
    BY <1>1, <1>7 DEF RxInv
  <2>8. RxInv'
    BY <1>2, <1>5, <2>1, <2>2, <2>4, <2>5, <2>6, <2>7 DEF RxInv, callVars
  <2> QED
    BY <2>2, <2>3, <2>8
<1>8. RxInv' /\ rxne' \in BOOLEAN /\ ore' \in BOOLEAN /\ err' \in BOOLEAN /\ rdr' \in 0..MaxRx
  BY <1>6, <1>7
<1>9. CallTypeOK(UartFns, Places)'
  BY <1>1, <1>2 DEF TypeOK, CallTypeOK, callVars
<1>10. TypeOK'
  BY <1>1, <1>2, <1>4, <1>8, <1>9 DEF TypeOK, callVars, configVars, txVars, argVars
<1>11. PlaceInv' /\ TxInv' /\ ConfigInv' /\ OkMeansIdle'
  BY <1>1, <1>2, TxKept, ConfigKept
     DEF PlaceInv, TxInv, OkMeansIdle, Idle, callVars, configVars, txVars, argVars, ConfigPlaces
<1>12. ReceivedInOrder'
  <2> SUFFICES ASSUME NEW i \in 1..Len(taken), taken[i] # 0
               PROVE  taken[i] \notin damaged'
    BY <1>1, <1>2 DEF ReceivedInOrder
  <2>1. taken[i] \in 0..arrived
    BY <1>5
  <2>2. taken[i] \notin damaged
    BY <1>1 DEF ReceivedInOrder
  <2> QED
    BY <1>4, <2>1, <2>2
<1> QED
  BY <1>8, <1>10, <1>11, <1>12 DEF IInv

LEMMA Invariance == Spec => []IInv
<1>1. Init => IInv
  BY InitInv
<1>2. IInv /\ [Next]_vars => IInv'
  <2>1. ASSUME IInv, Next PROVE IInv'
    BY <2>1, CallerInv, ConfigureInv, WaitInv, StoreDrInv, ReadSrInv, ReadDrInv, TransmitterInv,
       FrameReceivedInv DEF Next, Driver, Hardware
  <2>2. ASSUME IInv, UNCHANGED vars PROVE IInv'
    <3>1. /\ TypeOK /\ PlaceInv /\ TxInv /\ ConfigInv /\ RxInv
          /\ OkMeansIdle /\ ReceivedInOrder
      BY <2>2 DEF IInv
    <3>2. TypeOK'
      BY <2>2, <3>1 DEF vars, callVars, configVars, txVars, rxVars, argVars, TypeOK, CallTypeOK
    <3>3. TxInv' /\ ConfigInv' /\ RxInv' /\ ReceivedInOrder'
      BY <2>2, <3>1, TxKept, ConfigKept, RxKept
         DEF vars, callVars, configVars, txVars, argVars, TxInv
    <3>4. PlaceInv' /\ OkMeansIdle'
      BY <2>2, <3>1 DEF vars, callVars, txVars, PlaceInv, OkMeansIdle, Idle
    <3> QED
      BY <3>2, <3>3, <3>4 DEF IInv
  <2> QED
    BY <2>1, <2>2
<1> QED
  BY <1>1, <1>2, PTL DEF Spec

-----------------------------------------------------------------------------
\* Every register, local and count of the UART stays in its range, whatever the
\* caller asks for and however the bytes come and go.
THEOREM UartTypeCorrect == Spec => []TypeOK
<1>1. IInv => TypeOK
  BY DEF IInv
<1> QED
  BY <1>1, Invariance, PTL

\* OK from uartFlush() or uartTransmit() means that every byte is out (uart.h).
THEOREM OkIsIdle == Spec => []OkMeansIdle
<1>1. IInv => OkMeansIdle
  BY DEF IInv
<1> QED
  BY <1>1, Invariance, PTL

\* An enabled instance runs at the divisor nearest to the rate asked for, for
\* every bus clock and baud rate uartComputeBrr() accepts.
THEOREM EnabledIsConfigured == Spec => []EnabledMeansConfigured
<1>1. IInv => EnabledMeansConfigured
  <2> SUFFICES ASSUME IInv, ue PROVE EnabledMeansConfigured
    BY DEF EnabledMeansConfigured
  <2>1. FitsBrr(rate) /\ brr = RoundedBrr(rate) /\ m = pce /\ m \in BOOLEAN
    BY DEF IInv, ConfigInv, TypeOK
  <2>2. rate \in Nat \X Nat
    BY UartAssumption DEF IInv, TypeOK
  <2> QED
    BY <2>1, <2>2, Nearest DEF EnabledMeansConfigured
<1> QED
  BY <1>1, Invariance, PTL

\* A byte uartReceive() or uartReceiveByte() gives with OK is undamaged and
\* follows the last, unless a HW_FAULT told of the loss.
THEOREM TakenInOrder == Spec => []ReceivedInOrder
<1>1. IInv => ReceivedInOrder
  BY DEF IInv
<1> QED
  BY <1>1, Invariance, PTL

\* BRR and the framing change only with UE clear or being cleared, and nothing
\* on the line (uart.c, uartInit()).
THEOREM SilentReconfiguration == Spec => ReconfiguresInSilence
<1>1. IInv /\ [Next]_vars
        => (<<brr, m, pce>>' # <<brr, m, pce>> => (~ue \/ ~ue') /\ tdr = 0 /\ shift = 0)
  <2> SUFFICES ASSUME IInv, [Next]_vars, <<brr, m, pce>>' # <<brr, m, pce>>
               PROVE  (~ue \/ ~ue') /\ tdr = 0 /\ shift = 0
    OBVIOUS
  <2>1. \/ StoreBrr \/ StoreFrame
        \/ MayConfigure /\ uartDeinit
    BY DEF Next, Caller, Driver, Hardware, uartInit, uartFlush, uartTransmitByte, uartTransmit,
           uartReceiveByte, uartReceive, StoreEnable, WaitTxe, WaitTc, WaitRxne, StoreDr, ReadSr,
           ReadDr, ShiftLoad, FrameSent, FrameReceived, vars, configVars
  <2>2. CASE StoreBrr \/ StoreFrame
    BY <2>2 DEF StoreBrr, StoreFrame, IInv, ConfigInv, ConfigPlaces, TxInv
  <2>3. CASE MayConfigure /\ uartDeinit
    BY <2>3 DEF MayConfigure, uartDeinit, IInv, TxInv
  <2> QED
    BY <2>1, <2>2, <2>3
<1> QED
  BY <1>1, Invariance, PTL DEF Spec, ReconfiguresInSilence

-----------------------------------------------------------------------------
(* The transmitter is a queue of two.                                       *)

\* Two registers that hold a byte or none, as a queue.
LEMMA Holding ==
    ASSUME NEW a \in Nat, NEW b \in Nat
    PROVE  /\ a = 0 => Held(a) \o Held(b) = Held(b)
           /\ b = 0 => Held(a) \o Held(b) = Held(a) /\ Len(Held(a)) < 2
           /\ b # 0 => Held(a) \o Held(b) = Append(Held(a), b)
           /\ a # 0 => /\ Held(a) \o Held(b) # <<>>
                       /\ Head(Held(a) \o Held(b)) = a
                       /\ Tail(Held(a) \o Held(b)) = Held(b)
<1>1. Held(a) \in Seq(Nat) /\ Held(b) \in Seq(Nat) /\ Len(Held(a)) < 2
  BY DEF Held
<1>2. a = 0 => Held(a) \o Held(b) = Held(b)
  BY <1>1, ConcatEmptySeq DEF Held
<1>3. b = 0 => Held(a) \o Held(b) = Held(a)
  BY <1>1, ConcatEmptySeq DEF Held
<1>4. b # 0 => Held(a) \o Held(b) = Append(Held(a), b)
  BY <1>1, AppendIsConcat DEF Held
<1>5. ASSUME a # 0
      PROVE  /\ Held(a) \o Held(b) # <<>>
             /\ Head(Held(a) \o Held(b)) = a
             /\ Tail(Held(a) \o Held(b)) = Held(b)
  <2>1. CASE b = 0
    <3>1. Held(a) = <<a>> /\ Held(b) = <<>>
      BY <1>5, <2>1 DEF Held
    <3>2. <<a>> # <<>> /\ Head(<<a>>) = a /\ Tail(<<a>>) = <<>>
      OBVIOUS
    <3>3. Held(a) \o Held(b) = <<a>>
      BY <1>3, <2>1, <3>1
    <3> QED
      BY <3>1, <3>2, <3>3, Zenon
  <2>2. CASE b # 0
    <3>1. Held(a) = <<a>> /\ Held(b) = <<b>>
      BY <1>5, <2>2 DEF Held
    <3>2. <<a>> # <<>> /\ Head(<<a>>) = a /\ Tail(<<a>>) = <<>> /\ Append(<<>>, b) = <<b>>
      OBVIOUS
    <3>3. /\ Append(<<a>>, b) # <<>>
          /\ Head(Append(<<a>>, b)) = a
          /\ Tail(Append(<<a>>, b)) = <<b>>
      <4>1. <<a>> \in Seq(Nat)
        OBVIOUS
      <4>2. Append(<<a>>, b) # <<>>
        BY <4>1, AppendProperties
      <4>3. /\ Head(Append(<<a>>, b)) = (IF <<a>> = <<>> THEN b ELSE Head(<<a>>))
            /\ Tail(Append(<<a>>, b)) = (IF <<a>> = <<>> THEN <<>> ELSE Append(Tail(<<a>>), b))
        BY <4>1, HeadTailAppend, Zenon
      <4> QED
        BY <3>2, <4>2, <4>3, Zenon
    <3> QED
      BY <1>4, <2>2, <3>1, <3>3
  <2> QED
    BY <2>1, <2>2
<1> QED
  BY <1>1, <1>2, <1>3, <1>4, <1>5

\* The transmitter starts as an empty queue.
LEMMA QueueInit == Init => Fifo!Init
BY DEF Init, Fifo!Init, Held

\* A store to DR is Accept, the end of a frame Deliver, and the rest a stutter.
LEMMA QueueStep == IInv /\ [Next]_vars => [Fifo!Next]_(Fifo!fifoVars)
<1> SUFFICES ASSUME IInv, [Next]_vars PROVE [Fifo!Next]_(Fifo!fifoVars)
  OBVIOUS
<1>1. tdr \in Nat /\ shift \in Nat /\ line \in Seq(1..MaxTx) /\ written \in Nat
  BY DEF IInv, TypeOK
<1>2. CASE UNCHANGED <<tdr, shift, line>>
  BY <1>2 DEF Fifo!fifoVars, Held
<1>3. CASE StoreDr
  <2>1. tdr = 0 /\ written + 1 \in 1..MaxTx
    BY <1>1, <1>3, UartAssumption DEF StoreDr, IInv, TxInv, PlaceInv, TxPlaces, TypeOK, MaxLength
  <2>2. tdr' = written + 1 /\ shift' = shift /\ line' = line
    BY <1>3 DEF StoreDr
  <2>3. Held(shift) \o Held(tdr) = Held(shift) /\ Len(Held(shift)) < 2
    BY <1>1, <2>1, Holding
  <2>4. (Held(shift) \o Held(tdr))' = Append(Held(shift), written + 1)
    <3>1. written + 1 \in Nat /\ written + 1 # 0
      BY <1>1
    <3> QED
      BY <1>1, <2>2, <3>1, Holding DEF Held
  <2>5. Fifo!Accept(written + 1)
    BY <2>2, <2>3, <2>4 DEF Fifo!Accept
  <2> QED
    BY <2>1, <2>5 DEF Fifo!Next
<1>4. CASE ShiftLoad
  <2>1. shift = 0 /\ shift' = tdr /\ tdr' = 0 /\ line' = line
    BY <1>4 DEF ShiftLoad
  <2>2. (Held(shift) \o Held(tdr))' = Held(shift) \o Held(tdr)
    <3>1. Held(0) \o Held(tdr) = Held(tdr) /\ Held(tdr) \o Held(0) = Held(tdr)
      BY <1>1, Holding
    <3> QED
      BY <2>1, <3>1 DEF Held
  <2> QED
    BY <2>1, <2>2 DEF Fifo!fifoVars
<1>5. CASE FrameSent
  <2>1. shift # 0 /\ shift' = 0 /\ line' = Append(line, shift) /\ tdr' = tdr
    BY <1>5 DEF FrameSent
  <2>2. /\ Held(shift) \o Held(tdr) # <<>>
        /\ Head(Held(shift) \o Held(tdr)) = shift
        /\ Tail(Held(shift) \o Held(tdr)) = Held(tdr)
    BY <1>1, <2>1, Holding
  <2>3. (Held(shift) \o Held(tdr))' = Held(tdr)
    BY <1>1, <2>1, Holding
  <2> QED
    BY <2>1, <2>2, <2>3 DEF Fifo!Deliver, Fifo!Next
<1> QED
  BY <1>2, <1>3, <1>4, <1>5
     DEF Next, Caller, Driver, Hardware, uartInit, uartDeinit, uartFlush, uartTransmitByte,
         uartTransmit, uartReceiveByte, uartReceive, StoreBrr, StoreFrame, StoreEnable, WaitTxe,
         WaitTc, WaitRxne, ReadSr, ReadDr, FrameReceived, vars, txVars

\* The transmitter as the driver feeds it implements a queue of two bytes: none
\* is lost, repeated or overtaken, whichever calls time out.
THEOREM TransmitterIsFifo == Spec => ImplementsFifo
BY QueueInit, QueueStep, Invariance, PTL DEF Spec, ImplementsFifo, Fifo!Spec
=============================================================================
