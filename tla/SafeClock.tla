------------------------------ MODULE SafeClock ------------------------------
(***************************************************************************)
(* What the clock driver promises about flash, with no registers in sight. *)
(*                                                                         *)
(* A system clock is taken from one of several sources.  Software requests *)
(* a source; the hardware takes it when it likes, possibly long after the  *)
(* software stopped waiting.  Each source needs a number of flash wait     *)
(* states, and a source may be given another frequency, hence another      *)
(* need, while it neither feeds nor is asked to feed the clock.            *)
(***************************************************************************)
EXTENDS Naturals

CONSTANT Clocks         \* what can be the system clock

VARIABLES
    active,     \* the source feeding the system clock
    request,    \* the source software last asked for
    waits,      \* wait states the flash inserts
    need        \* wait states each source needs

clockVars == <<active, request, waits, need>>

Init ==
    /\ active \in Clocks
    /\ request = active
    /\ need \in [Clocks -> Nat]
    /\ waits \in Nat
    /\ waits >= need[active]

\* More wait states never hurt.
Raise ==
    /\ waits' \in Nat
    /\ waits' > waits
    /\ UNCHANGED <<active, request, need>>

\* A source is asked for only when the flash can already follow it.
Request(s) ==
    /\ waits >= need[s]
    /\ request' = s
    /\ UNCHANGED <<active, waits, need>>

\* The hardware takes the requested source.
Complete ==
    /\ active' = request
    /\ UNCHANGED <<request, waits, need>>

\* Wait states are taken away only once the request has been taken, and never
\* below what the source needs.
Lower ==
    /\ active = request
    /\ waits' \in Nat
    /\ waits' < waits
    /\ waits' >= need[active]
    /\ UNCHANGED <<active, request, need>>

\* A source changes frequency while nothing rides on it.
Retune(s) ==
    /\ s # active
    /\ s # request
    /\ need' \in [Clocks -> Nat]
    /\ \A t \in Clocks \ {s} : need'[t] = need[t]
    /\ UNCHANGED <<active, request, waits>>

Next ==
    \/ Raise
    \/ Complete
    \/ Lower
    \/ \E s \in Clocks : Request(s) \/ Retune(s)

Spec == Init /\ [][Next]_clockVars

-----------------------------------------------------------------------------
(* The flash always inserts the wait states the running clock needs, and    *)
(* those the requested clock will need when the hardware takes it.          *)
WaitStatesSuffice == waits >= need[active] /\ waits >= need[request]
=============================================================================
