--------------------------- MODULE SysTickProofs ---------------------------
(***************************************************************************)
(* Proofs about SysTick, for any width of the counter, any modulus of the  *)
(* tick, any requests and waits, and any lateness that the assumption on   *)
(* the constants allows.                                                   *)
(***************************************************************************)
EXTENDS SysTick, TLAPS

M == TickModulus

-----------------------------------------------------------------------------
(* Arithmetic modulo M.                                                     *)

\* What the assumption says of the constants, with the modulus by its name.
LEMMA Constants ==
    /\ M \in Nat \ {0} /\ LoadMax \in Nat \ {0} /\ MaxLate \in Nat \ {0} /\ BlinkMs \in Nat
    /\ MaxLate <= BlinkMs /\ 2 * BlinkMs < M
    /\ \A ms \in Waits : ms \in Nat /\ ms + MaxLate < M
BY SysTickAssumption DEF M

\* A number less than one modulus away from the range is brought back by one addition.
LEMMA Brought ==
    ASSUME NEW x \in Int
    PROVE  /\ x % M \in 0..M - 1
           /\ 0 <= x /\ x < M => x % M = x
           /\ -M <= x /\ x < 0 => x % M = x + M
           /\ M <= x /\ x < 2 * M => x % M = x - M
<1>1. M \in Nat \ {0}
  BY Constants
<1>2. ASSUME NEW m \in Nat \ {0}
      PROVE  /\ x % m \in 0..m - 1
             /\ 0 <= x /\ x < m => x % m = x
             /\ -m <= x /\ x < 0 => x % m = x + m
             /\ m <= x /\ x < 2 * m => x % m = x - m
  OBVIOUS
<1> QED
  BY <1>1, <1>2

\* A product grows with its factors.
LEMMA Products ==
    ASSUME NEW a \in Nat, NEW b \in Nat, NEW c \in Nat, NEW d \in Nat, a <= c, b <= d
    PROVE  a * b <= c * d
<1>1. a * b <= c * b
  <2>1. c * b - a * b = (c - a) * b /\ (c - a) * b \in Nat
    OBVIOUS
  <2> QED
    BY <2>1
<1>2. c * b <= c * d
  <2>1. c * d - c * b = c * (d - b) /\ c * (d - b) \in Nat
    OBVIOUS
  <2> QED
    BY <2>1
<1> QED
  BY <1>1, <1>2

\* One factor more.
LEMMA NextProduct ==
    ASSUME NEW a \in Nat, NEW b \in Nat
    PROVE  a * b \in Nat /\ (a + 1) * b = a * b + b
OBVIOUS

\* Ticks from one value of the counter to another.
LEMMA Difference ==
    ASSUME NEW t \in 0..M - 1, NEW s \in 0..M - 1
    PROVE  Minus(t, s) \in 0..M - 1 /\ Minus(t, s) = IF t >= s THEN t - s ELSE t - s + M
<1> DEFINE x == t - s
<1>1. Minus(t, s) = x % M
  BY DEF Minus, M
<1>2. M \in Nat \ {0}
  BY Constants
<1>3. x \in Int /\ x = t - s /\ -M <= x /\ x < M /\ (t >= s <=> 0 <= x)
  BY <1>2
<1> HIDE DEF x
<1>4. /\ x % M \in 0..M - 1
      /\ 0 <= x /\ x < M => x % M = x
      /\ -M <= x /\ x < 0 => x % M = x + M
  BY <1>3, Brought
<1>5. CASE 0 <= x
  BY <1>1, <1>3, <1>4, <1>5
<1>6. CASE ~(0 <= x)
  BY <1>1, <1>3, <1>4, <1>6
<1> QED
  BY <1>5, <1>6

\* Later by some ticks, fewer than a modulus.
LEMMA Later ==
    ASSUME NEW t \in 0..M - 1, NEW n \in 0..M - 1
    PROVE  (t + n) % M \in 0..M - 1 /\ (t + n) % M = IF t + n < M THEN t + n ELSE t + n - M
<1> DEFINE x == t + n
<1>1. M \in Nat \ {0}
  BY Constants
<1>2. (t + n) % M = x % M
  OBVIOUS
<1>3. x \in Int /\ x = t + n /\ 0 <= x /\ x < 2 * M
  BY <1>1
<1> HIDE DEF x
<1>4. /\ x % M \in 0..M - 1
      /\ 0 <= x /\ x < M => x % M = x
      /\ M <= x /\ x < 2 * M => x % M = x - M
  BY <1>3, Brought
<1>5. CASE x < M
  BY <1>2, <1>3, <1>4, <1>5
<1>6. CASE ~(x < M)
  <2>1. M <= x
    BY <1>1, <1>3, <1>6
  <2>2. x % M \in 0..M - 1 /\ x % M = x - M
    BY <1>3, <1>4, <2>1
  <2>3. x - M = t + n - M /\ ~(t + n < M)
    BY <1>1, <1>3, <1>6
  <2> QED
    BY <1>2, <2>2, <2>3, Zenon
<1> QED
  BY <1>5, <1>6

\* One tick more, as long as that is less than a modulus.
LEMMA TickOn ==
    ASSUME NEW t \in 0..M - 1, NEW s \in 0..M - 1, Minus(t, s) + 1 < M
    PROVE  Minus((t + 1) % M, s) = Minus(t, s) + 1
<1>1. M \in Nat \ {0} /\ 1 \in 0..M - 1
  BY Constants
<1>2. (t + 1) % M \in 0..M - 1 /\ (t + 1) % M = IF t + 1 < M THEN t + 1 ELSE t + 1 - M
  BY <1>1, Later
<1>3. Minus(t, s) = IF t >= s THEN t - s ELSE t - s + M
  BY Difference
<1>4. ASSUME NEW u \in 0..M - 1, u = (t + 1) % M
      PROVE  Minus(u, s) = Minus(t, s) + 1
  <2>1. Minus(u, s) = IF u >= s THEN u - s ELSE u - s + M
    BY Difference
  <2> QED
    BY <1>1, <1>2, <1>3, <1>4, <2>1
<1> QED
  BY <1>2, <1>4

-----------------------------------------------------------------------------
(* The inductive invariant.                                                 *)

TypeInv ==
    /\ enabled \in BOOLEAN /\ pendst \in BOOLEAN
    /\ load \in 0..LoadMax /\ val \in 0..LoadMax /\ reload \in 0..LoadMax
    /\ ticks \in 0..M - 1
    /\ at \in {"idle", "stop", "load", "clear", "go"} \union Loops
    /\ start \in 0..M - 1 /\ lastRefresh \in 0..M - 1 /\ nextToggle \in 0..M - 1
    /\ late \in 0..MaxLate
    /\ asked \in Nat /\ period \in Nat /\ since \in Nat /\ waited \in Nat /\ want \in Nat
    /\ due \in Int

\* Between the calls, and while the timer is being set up.
SetUpInv ==
    /\ at \in {"stop", "load", "clear", "go"} => asked >= 2 /\ reload = asked - 1
    /\ at \in {"load", "clear", "go"} => ~enabled
    /\ at \in {"clear", "go"} => load = reload
    /\ at = "go" => val = 0
    /\ at \in Loops => enabled /\ (pendst => late < MaxLate)

\* What the counter holds tells how long ago the last tick was.
CountInv ==
    enabled =>
        /\ period >= 2 /\ load = period - 1 /\ val <= load
        /\ since = IF val = 0 THEN 0 ELSE period - val

\* Ticks since waitMs() was entered, one that is pending included.
Elapsed == Minus(ticks, start) + IF pendst THEN 1 ELSE 0

WaitInv ==
    at = "wait" =>
        /\ want \in Waits
        /\ Minus(ticks, start) <= want + late
        /\ waited <= Elapsed * period + since
        /\ Elapsed * period + since < waited + period

\* The LED is due where nextToggle stands, BlinkMs away at most on either side.
BlinkInv ==
    at = "blink" =>
        /\ 1 - late <= due /\ due <= BlinkMs
        /\ nextToggle - ticks - due \in {-M, 0, M}

IInv == TypeInv /\ SetUpInv /\ CountInv /\ WaitInv /\ BlinkInv

-----------------------------------------------------------------------------
LEMMA InitInv == Init => IInv
<1> SUFFICES ASSUME Init PROVE IInv
  OBVIOUS
<1>1. TypeInv
  <2>1. 0 \in 0..LoadMax /\ 0 \in 0..M - 1 /\ 0 \in 0..MaxLate /\ 0 \in Nat /\ 0 \in Int
    BY Constants
  <2> QED
    BY <2>1, Zenon DEF Init, TypeInv
<1>2. SetUpInv /\ CountInv /\ WaitInv /\ BlinkInv
  BY DEF Init, SetUpInv, CountInv, WaitInv, BlinkInv, Loops
<1> QED
  BY <1>1, <1>2 DEF IInv

\* A running timer: the clocks of a period are one more than LOAD, and fit its field.
LEMMA Running ==
    ASSUME TypeInv, CountInv, enabled
    PROVE  /\ period \in 2..LoadMax + 1 /\ load = period - 1
           /\ since < period /\ (val = 0 => since = 0) /\ (val # 0 => since = period - val)
BY Constants DEF TypeInv, CountInv

\* In a wait: fewer ticks than a modulus go by.
LEMMA Short ==
    ASSUME TypeInv, WaitInv, at = "wait"
    PROVE  /\ Minus(ticks, start) \in 0..M - 1
           /\ want \in Nat /\ want + late < M /\ Minus(ticks, start) <= want + late
           /\ Elapsed \in 0..M
<1>1. Minus(ticks, start) \in 0..M - 1
  BY Difference DEF TypeInv
<1>2. want \in Waits /\ want \in Nat /\ want + MaxLate < M /\ late \in 0..MaxLate
  BY Constants DEF TypeInv, WaitInv
<1>3. want + late < M
  BY <1>2, Constants
<1> QED
  BY <1>1, <1>2, <1>3, Constants DEF WaitInv, Elapsed, TypeInv
-----------------------------------------------------------------------------
(* The counter and its handler.                                             *)

\* A clock: the counter goes down, or ticks and starts again.
LEMMA ClockInv == IInv /\ Clock => IInv'
<1> SUFFICES ASSUME IInv, Clock PROVE IInv'
  OBVIOUS
<1>1. TypeInv /\ SetUpInv /\ CountInv /\ WaitInv /\ BlinkInv
  BY DEF IInv
<1>2. /\ enabled
      /\ val = 1 => ~pendst /\ (at \in Loops => late < MaxLate)
      /\ val' = IF val = 0 THEN load ELSE val - 1
      /\ pendst' = (pendst \/ val = 1)
      /\ since' = IF val = 1 THEN 0 ELSE Capped(since + 1, Longest)
      /\ waited' = IF at = "wait" THEN Capped(waited + 1, WaitCap) ELSE waited
      /\ UNCHANGED <<enabled, load, ticks, at, reload, start, want, lastRefresh, nextToggle>>
      /\ UNCHANGED <<asked, period, due, late>>
  BY DEF Clock, locals
<1>3. /\ period \in 2..LoadMax + 1 /\ load = period - 1
      /\ since < period /\ (val = 0 => since = 0) /\ (val # 0 => since = period - val)
  BY <1>1, <1>2, Running
<1>4. /\ val \in 0..LoadMax /\ since \in Nat /\ LoadMax \in Nat \ {0} /\ val <= load
  BY <1>1, <1>2, Constants DEF TypeInv, CountInv
<1>5. since' = IF val = 1 THEN 0 ELSE since + 1
  BY <1>2, <1>3, <1>4 DEF Capped, Longest
<1>6. CountInv'
  BY <1>2, <1>3, <1>4, <1>5 DEF CountInv
<1>7. WaitCap \in Nat /\ (at = "wait" => waited' = waited + 1)
  <2>1. WaitCap = (M + 1) * (LoadMax + 1) /\ WaitCap \in Nat
    BY Constants DEF WaitCap, M
  <2>2. ASSUME at = "wait" PROVE waited + 1 <= WaitCap
    <3>1. Elapsed \in 0..M /\ waited <= Elapsed * period + since
      BY <1>1, <2>2, Short DEF WaitInv
    <3>2. waited \in Nat /\ M \in Nat
      BY <1>1, Constants DEF TypeInv
    <3>3. Elapsed * period \in Nat /\ (Elapsed + 1) * period = Elapsed * period + period
      BY <1>3, <1>4, <3>1, <3>2, NextProduct
    <3>4. (Elapsed + 1) * period <= (M + 1) * (LoadMax + 1)
      BY <1>3, <1>4, <3>1, <3>2, Products
    <3>5. waited + 1 <= (Elapsed + 1) * period
      BY <1>3, <1>4, <3>1, <3>2, <3>3
    <3>6. (Elapsed + 1) * period \in Nat
      BY <1>3, <1>4, <3>3
    <3> QED
      BY <2>1, <3>2, <3>4, <3>5, <3>6
  <2> QED
    BY <1>1, <1>2, <2>1, <2>2 DEF Capped, TypeInv
<1>8. TypeInv'
  <2>1. val' \in 0..LoadMax /\ since' \in Nat /\ pendst' \in BOOLEAN
    BY <1>1, <1>2, <1>3, <1>4, <1>5 DEF TypeInv
  <2>2. waited' \in Nat
    BY <1>1, <1>2, <1>7 DEF TypeInv
  <2> QED
    BY <1>1, <1>2, <2>1, <2>2 DEF TypeInv
<1>9. SetUpInv'
  <2>1. at \notin {"load", "clear", "go"}
    BY <1>1, <1>2 DEF SetUpInv
  <2>2. at \in Loops => enabled /\ (pendst' => late < MaxLate)
    BY <1>1, <1>2 DEF SetUpInv, TypeInv
  <2> QED
    BY <1>1, <1>2, <2>1, <2>2 DEF SetUpInv
<1>10. WaitInv'
  <2> SUFFICES ASSUME at = "wait"
               PROVE  /\ waited' <= Elapsed' * period + since'
                      /\ Elapsed' * period + since' < waited' + period
    BY <1>1, <1>2 DEF WaitInv, Minus
  <2>1. Elapsed \in 0..M /\ Minus(ticks, start) \in 0..M - 1
    BY <1>1, Short
  <2>2. waited <= Elapsed * period + since /\ Elapsed * period + since < waited + period
    BY <1>1 DEF WaitInv
  <2>3. waited \in Nat /\ M \in Nat /\ pendst \in BOOLEAN
    BY <1>1, Constants DEF TypeInv
  <2>4. Elapsed * period \in Nat /\ (Elapsed + 1) * period = Elapsed * period + period
    BY <1>3, <1>4, <2>1, <2>3, NextProduct
  <2>5. CASE val = 1
    <3>1. ~pendst /\ pendst' /\ Minus(ticks, start)' = Minus(ticks, start)
      BY <1>2, <2>5 DEF Minus
    <3>2. Elapsed' = Elapsed + 1
      BY <2>1, <3>1 DEF Elapsed
    <3>3. Elapsed' * period = Elapsed * period + period
      BY <2>4, <3>2
    <3> QED
      BY <1>3, <1>4, <1>5, <1>7, <2>2, <2>3, <2>4, <2>5, <3>3
  <2>6. CASE val # 1
    <3>1. Elapsed' = Elapsed
      BY <1>2, <2>3, <2>6 DEF Elapsed, Minus
    <3> QED
      BY <1>3, <1>4, <1>5, <1>7, <2>2, <2>3, <2>4, <2>6, <3>1
  <2> QED
    BY <2>5, <2>6
<1>11. BlinkInv'
  BY <1>1, <1>2 DEF BlinkInv
<1> QED
  BY <1>6, <1>8, <1>9, <1>10, <1>11 DEF IInv

\* The handler counts a tick.
LEMMA HandlerInv == IInv /\ SysTick_Handler => IInv'
<1> SUFFICES ASSUME IInv, SysTick_Handler PROVE IInv'
  OBVIOUS
<1>1. TypeInv /\ SetUpInv /\ CountInv /\ WaitInv /\ BlinkInv
  BY DEF IInv
<1>2. /\ pendst /\ pendst' = FALSE
      /\ ticks' = (ticks + 1) % M
      /\ due' = IF at = "blink" THEN due - 1 ELSE due
      /\ late' = IF at \in Loops THEN late + 1 ELSE late
      /\ UNCHANGED <<enabled, load, val, at, reload, start, want, lastRefresh, nextToggle>>
      /\ UNCHANGED <<asked, period, since, waited>>
  BY DEF SysTick_Handler, registers, locals, M
<1>3. /\ M \in Nat \ {0} /\ 1 \in 0..M - 1 /\ MaxLate \in Nat \ {0} /\ BlinkMs \in Nat
      /\ MaxLate <= BlinkMs /\ 2 * BlinkMs < M
  BY Constants
<1>4. ticks \in 0..M - 1 /\ late \in 0..MaxLate /\ due \in Int
  BY <1>1 DEF TypeInv
<1>5. ticks' \in 0..M - 1 /\ ticks' = IF ticks + 1 < M THEN ticks + 1 ELSE ticks + 1 - M
  BY <1>2, <1>3, <1>4, Later
<1>6. late' \in 0..MaxLate /\ due' \in Int
  BY <1>1, <1>2, <1>3, <1>4 DEF SetUpInv
<1>7. TypeInv'
  BY <1>1, <1>2, <1>5, <1>6 DEF TypeInv
<1>8. SetUpInv' /\ CountInv'
  BY <1>1, <1>2 DEF SetUpInv, CountInv
<1>9. WaitInv'
  <2> SUFFICES ASSUME at = "wait" PROVE WaitInv'
    BY <1>2 DEF WaitInv
  <2>1. /\ Minus(ticks, start) \in 0..M - 1 /\ want \in Nat /\ want + late < M
        /\ Minus(ticks, start) <= want + late /\ want + MaxLate < M
    BY <1>1, Short, Constants DEF WaitInv
  <2>2. late' = late + 1 /\ late < MaxLate
    BY <1>1, <1>2 DEF SetUpInv, Loops
  <2>3. Minus(ticks, start) + 1 < M /\ Minus(ticks, start) + 1 <= want + late'
    BY <1>3, <1>4, <2>1, <2>2
  <2>4. Minus(ticks', start) = Minus(ticks, start) + 1
    BY <1>1, <1>2, <2>3, TickOn DEF TypeInv
  <2>5. Elapsed' = Elapsed
    BY <1>2, <2>1, <2>4 DEF Elapsed, Minus
  <2> QED
    BY <1>1, <1>2, <2>3, <2>4, <2>5 DEF WaitInv, Minus
<1>10. BlinkInv'
  <2> SUFFICES ASSUME at = "blink"
               PROVE  /\ 1 - late' <= due' /\ due' <= BlinkMs
                      /\ nextToggle - ticks' - due' \in {-M, 0, M}
    BY <1>2 DEF BlinkInv
  <2>1. /\ 1 - late <= due /\ due <= BlinkMs /\ nextToggle - ticks - due \in {-M, 0, M}
        /\ nextToggle \in 0..M - 1
    BY <1>1 DEF BlinkInv, TypeInv
  <2>2. late' = late + 1 /\ due' = due - 1
    BY <1>2 DEF Loops
  <2> QED
    BY <1>3, <1>4, <1>5, <1>6, <2>1, <2>2
<1> QED
  BY <1>7, <1>8, <1>9, <1>10 DEF IInv
-----------------------------------------------------------------------------
(* The main program.                                                        *)

\* A step of the main program outside its loops.
LEMMA OutsideLoops ==
    ASSUME IInv, TypeInv', CountInv', at' \notin Loops,
           /\ at' \in {"stop", "load", "clear", "go"} => asked' >= 2 /\ reload' = asked' - 1
           /\ at' \in {"load", "clear", "go"} => ~enabled'
           /\ at' \in {"clear", "go"} => load' = reload'
           /\ at' = "go" => val' = 0
    PROVE  IInv'
BY DEF IInv, SetUpInv, WaitInv, BlinkInv, Loops

\* systickInit() and systickDeinit(), store by store.
LEMMA DriverInv ==
    ASSUME IInv,
           \/ \E r \in Requests : systickInit(r[1], r[2])
           \/ systickDeinit \/ StoreStop \/ StoreLoad \/ StoreVal \/ StoreGo
    PROVE  IInv'
<1>1. TypeInv /\ SetUpInv /\ CountInv
  BY DEF IInv
<1>2. LoadMax \in Nat \ {0}
  BY Constants
<1>3. ASSUME NEW r \in Requests, systickInit(r[1], r[2]) PROVE IInv'
  <2>1. r[1] \in Nat /\ r[2] \in Nat
    BY SysTickAssumption
  <2>2. PICK q \in Nat : /\ q = r[1] \div r[2] /\ q >= 2 /\ q - 1 <= LoadMax
                         /\ at' = "stop" /\ reload' = q - 1 /\ asked' = q
                         /\ UNCHANGED <<enabled, load, val, pendst, ticks, start, want>>
                         /\ UNCHANGED <<lastRefresh, nextToggle, period, since, waited, due, late>>
    <3>1. r[2] # 0 /\ r[1] \div r[2] \in Nat
      BY <1>3, <2>1 DEF systickInit, ValidPeriod
    <3> QED
      BY <1>3, <3>1 DEF systickInit, ValidPeriod, registers
  <2>3. TypeInv' /\ CountInv'
    BY <1>1, <1>2, <2>2 DEF TypeInv, CountInv
  <2> QED
    BY <2>2, <2>3, OutsideLoops DEF Loops
<1>4. CASE systickDeinit
  <2>1. /\ at = "idle" /\ at' = "idle" /\ enabled' = FALSE /\ load' = 0 /\ val' = 0
        /\ UNCHANGED <<pendst, ticks, reload, start, want, lastRefresh, nextToggle>>
        /\ UNCHANGED <<asked, period, since, waited, due, late>>
    BY <1>4 DEF systickDeinit, MainAt, locals, history
  <2>2. CountInv'
    BY <2>1 DEF CountInv
  <2>3. 0 \in 0..LoadMax
    BY <1>2
  <2>4. TypeInv'
    BY <1>1, <2>1, <2>3 DEF TypeInv
  <2> QED
    BY <2>1, <2>2, <2>4, OutsideLoops DEF Loops
<1>5. CASE StoreStop
  <2>1. /\ at = "stop" /\ at' = "load" /\ enabled' = FALSE
        /\ UNCHANGED <<load, val, pendst, ticks, reload, start, want, lastRefresh, nextToggle>>
        /\ UNCHANGED <<asked, period, since, waited, due, late>>
    BY <1>5 DEF StoreStop, MainAt, locals, history
  <2>2. TypeInv' /\ CountInv'
    BY <1>1, <2>1 DEF TypeInv, CountInv
  <2> QED
    BY <1>1, <2>1, <2>2, OutsideLoops DEF Loops, SetUpInv
<1>6. CASE StoreLoad
  <2>1. /\ at = "load" /\ at' = "clear" /\ load' = reload % (LoadMax + 1)
        /\ UNCHANGED <<enabled, val, pendst, ticks, reload, start, want, lastRefresh, nextToggle>>
        /\ UNCHANGED <<asked, period, since, waited, due, late>>
    BY <1>6 DEF StoreLoad, MainAt, locals, history
  <2>2. load' = reload
    BY <1>1, <1>2, <2>1 DEF TypeInv
  <2>3. TypeInv' /\ CountInv'
    BY <1>1, <2>1, <2>2 DEF TypeInv, CountInv, SetUpInv
  <2> QED
    BY <1>1, <2>1, <2>2, <2>3, OutsideLoops DEF Loops, SetUpInv
<1>7. CASE StoreVal
  <2>1. /\ at = "clear" /\ at' = "go" /\ val' = 0
        /\ UNCHANGED <<enabled, load, pendst, ticks, reload, start, want, lastRefresh, nextToggle>>
        /\ UNCHANGED <<asked, period, since, waited, due, late>>
    BY <1>7 DEF StoreVal, MainAt, locals, history
  <2>2. TypeInv' /\ CountInv'
    BY <1>1, <1>2, <2>1 DEF TypeInv, CountInv, SetUpInv
  <2> QED
    BY <1>1, <2>1, <2>2, OutsideLoops DEF Loops, SetUpInv
<1>8. CASE StoreGo
  <2>1. /\ at = "go" /\ at' = "idle" /\ enabled' = TRUE
        /\ since' = 0 /\ period' = asked /\ reload' = 0
        /\ UNCHANGED <<load, val, pendst, ticks, start, want, lastRefresh, nextToggle>>
        /\ UNCHANGED <<asked, waited, due, late>>
    BY <1>8 DEF StoreGo, MainAt
  <2>2. TypeInv'
    BY <1>1, <1>2, <2>1 DEF TypeInv
  <2>3. CountInv'
    BY <1>1, <2>1 DEF CountInv, SetUpInv, TypeInv
  <2> QED
    BY <2>1, <2>2, <2>3, OutsideLoops DEF Loops
<1> QED
  BY <1>3, <1>4, <1>5, <1>6, <1>7, <1>8

\* waitMs() is entered, and takes a turn.
LEMMA WaitingInv ==
    ASSUME IInv, (\E ms \in Waits : waitMs(ms)) \/ WaitTurn
    PROVE  IInv'
<1>1. TypeInv /\ SetUpInv /\ CountInv /\ WaitInv
  BY DEF IInv
<1>2. M \in Nat \ {0} /\ MaxLate \in Nat \ {0} /\ 0 \in 0..M - 1
  BY Constants
<1>3. ASSUME NEW ms \in Waits, waitMs(ms) PROVE IInv'
  <2>1. /\ ~pendst /\ enabled /\ at' = "wait"
        /\ start' = ticks /\ lastRefresh' = ticks /\ want' = ms /\ waited' = 0 /\ late' = 0
        /\ UNCHANGED <<enabled, load, val, pendst, ticks, reload, nextToggle>>
        /\ UNCHANGED <<asked, period, since, due>>
    BY <1>3 DEF waitMs, MainAt, registers
  <2>2. ms \in Nat /\ ticks \in 0..M - 1 /\ since \in Nat /\ period \in Nat
    BY <1>1, Constants DEF TypeInv
  <2>3. TypeInv' /\ CountInv'
    BY <1>1, <1>2, <2>1, <2>2 DEF TypeInv, CountInv, Loops
  <2>4. Minus(ticks, start)' = 0 /\ Elapsed' = 0
    <3>1. Minus(ticks, ticks) = 0
      BY <1>2, <2>2, Difference
    <3> QED
      BY <2>1, <3>1 DEF Elapsed
  <2>5. since < period
    BY <1>1, <2>1, Running
  <2>6. WaitInv'
    BY <2>1, <2>2, <2>4, <2>5 DEF WaitInv
  <2>7. SetUpInv' /\ BlinkInv'
    BY <2>1 DEF SetUpInv, BlinkInv, Loops
  <2> QED
    BY <2>3, <2>6, <2>7 DEF IInv
<1>4. CASE WaitTurn
  <2>1. /\ ~pendst /\ at = "wait" /\ late' = 0
        /\ UNCHANGED <<enabled, load, val, pendst, ticks, reload, nextToggle>>
        /\ UNCHANGED <<asked, period, since, due>>
    BY <1>4 DEF WaitTurn, MainAt, registers
  <2>2. CountInv'
    BY <1>1, <2>1 DEF CountInv
  <2>3. CASE Waiting
    <3>1. /\ UNCHANGED <<at, start, want, waited>> /\ lastRefresh' \in {lastRefresh, ticks}
      BY <1>4, <2>3 DEF WaitTurn
    <3>2. TypeInv'
      BY <1>1, <1>2, <2>1, <3>1 DEF TypeInv
    <3>3. SetUpInv' /\ BlinkInv'
      BY <1>1, <2>1, <3>1 DEF SetUpInv, BlinkInv, Loops
    <3>4. Minus(ticks, start) < want /\ Minus(ticks, start) \in 0..M - 1 /\ want \in Nat
      BY <1>1, <2>1, <2>3, Short DEF Waiting
    <3>5. WaitInv'
      <4>1. Elapsed' = Elapsed /\ Minus(ticks, start)' = Minus(ticks, start)
        BY <2>1, <3>1 DEF Elapsed, Minus
      <4> QED
        BY <1>1, <1>2, <2>1, <3>1, <3>4, <4>1 DEF WaitInv
    <3> QED
      BY <2>2, <3>2, <3>3, <3>5 DEF IInv
  <2>4. CASE ~Waiting
    <3>1. at' = "idle" /\ start' = 0 /\ want' = 0 /\ lastRefresh' = 0 /\ waited' = 0
      BY <1>4, <2>4 DEF WaitTurn
    <3>2. TypeInv'
      BY <1>1, <1>2, <2>1, <3>1 DEF TypeInv
    <3> QED
      BY <2>2, <3>1, <3>2, OutsideLoops DEF Loops
  <2> QED
    BY <2>3, <2>4
<1> QED
  BY <1>3, <1>4

\* At the LED's instant and after it, and at no other time, the difference is not negative.
LEMMA ExpiredMeansDue == ASSUME TypeInv, BlinkInv, at = "blink" PROVE Expired <=> due <= 0
<1>1. /\ M \in Nat \ {0} /\ MaxLate \in Nat \ {0} /\ BlinkMs \in Nat
      /\ MaxLate <= BlinkMs /\ 2 * BlinkMs < M
  BY Constants
<1>2. /\ ticks \in 0..M - 1 /\ nextToggle \in 0..M - 1 /\ late \in 0..MaxLate /\ due \in Int
      /\ 1 - late <= due /\ due <= BlinkMs /\ nextToggle - ticks - due \in {-M, 0, M}
  BY DEF TypeInv, BlinkInv
<1>3. Minus(ticks, nextToggle) =
          IF ticks >= nextToggle THEN ticks - nextToggle ELSE ticks - nextToggle + M
  BY <1>2, Difference
<1>4. Minus(ticks, nextToggle) = IF due <= 0 THEN -due ELSE M - due
  BY <1>1, <1>2, <1>3
<1>5. Signed(Minus(ticks, nextToggle)) = -due
  BY <1>1, <1>2, <1>4 DEF Signed, M
<1> QED
  BY <1>2, <1>5 DEF Expired

\* The blinking begins, and takes a turn.
LEMMA BlinkingInv ==
    ASSUME IInv, startBlinking \/ BlinkTurn
    PROVE  IInv'
<1>1. TypeInv /\ SetUpInv /\ CountInv /\ BlinkInv
  BY DEF IInv
<1>2. /\ M \in Nat \ {0} /\ MaxLate \in Nat \ {0} /\ BlinkMs \in Nat
      /\ MaxLate <= BlinkMs /\ 2 * BlinkMs < M /\ BlinkMs \in 0..M - 1
  BY Constants
<1>3. /\ ~pendst /\ enabled /\ at' = "blink" /\ late' = 0
      /\ UNCHANGED <<enabled, load, val, pendst, ticks, reload, start, want, lastRefresh>>
      /\ UNCHANGED <<asked, period, since, waited>>
  BY <1>1 DEF startBlinking, BlinkTurn, MainAt, registers, SetUpInv, Loops
<1>4. ticks \in 0..M - 1 /\ nextToggle \in 0..M - 1 /\ late \in 0..MaxLate /\ due \in Int
  BY <1>1 DEF TypeInv
<1>5. /\ nextToggle' \in 0..M - 1 /\ due' \in Int
      /\ 1 <= due' /\ due' <= BlinkMs /\ nextToggle' - ticks - due' \in {-M, 0, M}
  <2>1. CASE startBlinking
    <3>1. nextToggle' = (ticks + BlinkMs) % M /\ due' = BlinkMs
      BY <2>1 DEF startBlinking, M
    <3>2. /\ nextToggle' \in 0..M - 1
          /\ nextToggle' = IF ticks + BlinkMs < M THEN ticks + BlinkMs ELSE ticks + BlinkMs - M
      BY <1>2, <1>4, <3>1, Later
    <3> QED
      BY <1>2, <1>4, <3>1, <3>2
  <2>2. CASE BlinkTurn
    <3>1. /\ at = "blink"
          /\ nextToggle' = IF due <= 0 THEN (nextToggle + BlinkMs) % M ELSE nextToggle
          /\ due' = IF due <= 0 THEN due + BlinkMs ELSE due
      BY <1>1, <2>2, ExpiredMeansDue DEF BlinkTurn, MainAt, M
    <3>2. 1 - late <= due /\ due <= BlinkMs /\ nextToggle - ticks - due \in {-M, 0, M}
      BY <1>1, <3>1 DEF BlinkInv
    <3>3. /\ (nextToggle + BlinkMs) % M \in 0..M - 1
          /\ (nextToggle + BlinkMs) % M =
                 IF nextToggle + BlinkMs < M THEN nextToggle + BlinkMs ELSE nextToggle + BlinkMs - M
      BY <1>2, <1>4, Later
    <3>4. CASE due <= 0
      <4>1. ASSUME NEW n \in 0..M - 1, n = (nextToggle + BlinkMs) % M
            PROVE  n - ticks - (due + BlinkMs) \in {-M, 0, M}
        BY <1>2, <1>4, <3>2, <3>3, <3>4, <4>1
      <4>2. nextToggle' = (nextToggle + BlinkMs) % M /\ due' = due + BlinkMs
        BY <3>1, <3>4
      <4>3. 1 <= due + BlinkMs /\ due + BlinkMs <= BlinkMs /\ due + BlinkMs \in Int
        BY <1>2, <1>4, <3>2, <3>4
      <4> QED
        BY <3>3, <4>1, <4>2, <4>3
    <3>5. CASE ~(due <= 0)
      BY <1>2, <1>4, <3>1, <3>2, <3>5
    <3> QED
      BY <3>4, <3>5
  <2> QED
    BY <2>1, <2>2
<1>6. TypeInv' /\ CountInv'
  BY <1>1, <1>2, <1>3, <1>5 DEF TypeInv, CountInv, Loops
<1>7. SetUpInv' /\ WaitInv'
  BY <1>3 DEF SetUpInv, WaitInv, Loops
<1>8. BlinkInv'
  BY <1>3, <1>5 DEF BlinkInv
<1> QED
  BY <1>6, <1>7, <1>8 DEF IInv

-----------------------------------------------------------------------------
(* What holds in every behaviour.                                           *)

LEMMA NextInv == IInv /\ [Next]_vars => IInv'
<1> SUFFICES ASSUME IInv, [Next]_vars PROVE IInv'
  OBVIOUS
<1>1. CASE Clock \/ SysTick_Handler
  BY <1>1, ClockInv, HandlerInv
<1>2. CASE Calls \/ Goes
  BY <1>2, DriverInv, WaitingInv, BlinkingInv DEF Calls, Goes
<1>3. CASE UNCHANGED vars
  BY <1>3
     DEF vars, registers, locals, history, IInv, TypeInv, SetUpInv, CountInv, WaitInv, BlinkInv,
         Elapsed, Minus
<1> QED
  BY <1>1, <1>2, <1>3 DEF Next

\* The inductive invariant holds in every behaviour.
THEOREM Invariance == Spec => []IInv
<1>1. IInv /\ [Next]_vars => IInv'
  BY NextInv
<1> QED
  BY InitInv, <1>1, PTL DEF Spec

(* Registers, ticks and locals keep to their ranges.                        *)
THEOREM TypeCorrect == Spec => []TypeOK
<1>1. IInv => TypeOK
  BY DEF IInv, TypeInv, TypeOK, M
<1> QED
  BY Invariance, <1>1, PTL

(* smoke.c, main(): the LED is due when its ticks have gone by, wherever    *)
(* the tick wraps and however late the loop has been.                       *)
THEOREM BlinkingKeepsRate == Spec => []BlinkKeepsRate
<1>1. IInv => BlinkKeepsRate
  BY ExpiredMeansDue DEF IInv, BlinkKeepsRate
<1> QED
  BY Invariance, <1>1, PTL

(* systick.c, systickInit(): ticks come at the period it was asked for.     *)
THEOREM PeriodIsExact == Spec => PeriodExact
<1>1. IInv /\ [Next]_vars => [~pendst /\ pendst' => since + 1 = period]_vars
  <2> SUFFICES ASSUME IInv, Next, ~pendst, pendst'
               PROVE  since + 1 = period
    OBVIOUS
  <2>1. ASSUME ~Clock PROVE FALSE
    <3>1. pendst' = pendst \/ pendst' = FALSE
      BY <2>1
         DEF Next, SysTick_Handler, Calls, Goes, systickInit, systickDeinit, StoreStop, StoreLoad,
             StoreVal, StoreGo, waitMs, WaitTurn, startBlinking, BlinkTurn
    <3> QED
      BY <3>1
  <2>2. enabled /\ val = 1
    BY <2>1 DEF Clock
  <2>3. period \in 2..LoadMax + 1 /\ since = period - 1
    BY <2>2, Running DEF IInv
  <2> QED
    BY <2>3, Constants
<1>2. PeriodExact <=> [][~pendst /\ pendst' => since + 1 = period]_vars
  BY DEF PeriodExact
<1> QED
  BY Invariance, <1>1, <1>2, PTL DEF Spec

(* smoke.c, waitMs(): no wait is short of the ticks it was asked for by     *)
(* more than the part of one that had passed, or longer than a late turn.   *)
THEOREM WaitsAreExact == Spec => WaitExact
<1> DEFINE Step == at = "wait" /\ at' = "idle" =>
                       /\ want > 0 => waited > (want - 1) * period
                       /\ waited < (want + MaxLate + 1) * period
<1>1. IInv /\ [Next]_vars => [Step]_vars
  <2> SUFFICES ASSUME IInv, Next, at = "wait", at' = "idle"
               PROVE  /\ want > 0 => waited > (want - 1) * period
                      /\ waited < (want + MaxLate + 1) * period
    OBVIOUS
  <2>1. TypeInv /\ SetUpInv /\ CountInv /\ WaitInv
    BY DEF IInv
  <2>2. WaitTurn
    BY DEF Next, Clock, SysTick_Handler, Calls, Goes, systickInit, systickDeinit, StoreStop,
           StoreLoad, StoreVal, StoreGo, waitMs, startBlinking, BlinkTurn, MainAt
  <2>3. ~pendst /\ ~(Minus(ticks, start) < want)
    BY <2>2 DEF WaitTurn, MainAt, Waiting
  <2>4. /\ Minus(ticks, start) \in 0..M - 1 /\ want \in Nat /\ want + late < M
        /\ Minus(ticks, start) <= want + late
    BY <2>1, Short
  <2>5. /\ waited <= Elapsed * period + since /\ Elapsed * period + since < waited + period
        /\ waited \in Nat /\ late \in 0..MaxLate
    BY <2>1 DEF WaitInv, TypeInv
  <2>6. Elapsed = Minus(ticks, start)
    BY <2>3, <2>4 DEF Elapsed
  <2>7. /\ period \in Nat /\ since \in Nat /\ since < period /\ M \in Nat /\ MaxLate \in Nat
        /\ LoadMax \in Nat
    BY <2>1, Running, Constants DEF SetUpInv, Loops, TypeInv
  <2>8. Elapsed \in Nat /\ want <= Elapsed /\ Elapsed <= want + MaxLate
    BY <2>3, <2>4, <2>5, <2>6, <2>7
  <2>9. Elapsed * period \in Nat /\ (Elapsed + 1) * period = Elapsed * period + period
    BY <2>7, <2>8, NextProduct
  <2>10. waited < (want + MaxLate + 1) * period
    <3>1. (Elapsed + 1) * period <= (want + MaxLate + 1) * period
      BY <2>4, <2>7, <2>8, Products
    <3>2. (want + MaxLate + 1) * period \in Nat
      BY <2>4, <2>7
    <3> QED
      BY <2>5, <2>7, <2>9, <3>1, <3>2
  <2>11. ASSUME want > 0 PROVE waited > (want - 1) * period
    <3>1. want - 1 \in Nat
      BY <2>4, <2>11
    <3>2. (want - 1) * period \in Nat /\ (want - 1 + 1) * period = (want - 1) * period + period
      BY <2>7, <3>1, NextProduct
    <3>3. want - 1 + 1 = want
      BY <2>4
    <3>4. want * period <= Elapsed * period
      BY <2>4, <2>7, <2>8, Products
    <3> QED
      BY <2>5, <2>7, <2>9, <3>2, <3>3, <3>4
  <2> QED
    BY <2>10, <2>11
<1>2. WaitExact <=> [][Step]_vars
  BY DEF WaitExact
<1> QED
  BY Invariance, <1>1, <1>2, PTL DEF Spec
=============================================================================
