----------------------------- MODULE DriverCall -----------------------------
(***************************************************************************)
(* The activation record of the driver function that is running.           *)
(*                                                                         *)
(* The drivers are plain C functions over memory-mapped registers, called  *)
(* one at a time from one context.  A function that can fail returns a     *)
(* DriverStatus_e; a function that waits for the hardware polls one flag   *)
(* a bounded number of times and reads it once more after the loop.  Four  *)
(* drivers (RCC, PWR, IWDG, UART) hold a copy of that loop; it is modelled *)
(* here once.                                                              *)
(*                                                                         *)
(* A model built on this module splits a function at the register accesses *)
(* between which the hardware can move, and names the places `at`.         *)
(***************************************************************************)
EXTENDS Naturals

CONSTANT PollBudget     \* polls a wait allows (100000 in the RCC, PWR and IWDG drivers)

ASSUME PollBudgetAssumption == PollBudget \in Nat

VARIABLES
    fn,         \* the function running, or the last one that ran
    at,         \* where in it, "returned" when no driver code runs
    polls,      \* the wait's local counter: `timeout` / `remaining`
    status,     \* the local `status`, and what was returned once it has
    wrote       \* history: has this call stored to a register yet

callVars == <<fn, at, polls, status, wrote>>

-----------------------------------------------------------------------------
\* driver_status.h: success is not 0, so an unassigned status is not success.
DriverStatus ==
    {"UNINITIALIZED", "OK", "INVALID_PARAM", "NOT_INITIALIZED",
     "TIMEOUT", "HW_FAULT", "BUSY", "UNSUPPORTED"}

\* Statuses the contract says come with no register written.
Refusals == {"INVALID_PARAM", "BUSY"}

Idle == at = "returned"

CallInit ==
    /\ fn = "none"
    /\ at = "returned"
    /\ polls = PollBudget
    /\ status = "UNINITIALIZED"
    /\ wrote = FALSE

\* The chip is reset: no function runs any more.
CallReset ==
    /\ fn' = "none"
    /\ at' = "returned"
    /\ polls' = PollBudget
    /\ status' = "UNINITIALIZED"
    /\ wrote' = FALSE

-----------------------------------------------------------------------------
(* The ways a step of a function moves the record.  `stores` says whether   *)
(* the step stores to a register.                                           *)

\* f is called and runs up to the place `label`.
Enter(f, label, stores) ==
    /\ Idle
    /\ fn' = f
    /\ at' = label
    /\ polls' = PollBudget
    /\ status' = "OK"
    /\ wrote' = stores

\* f is called and returns s before anything can intervene.
Answer(f, s, stores) ==
    /\ Idle
    /\ fn' = f
    /\ status' = s
    /\ polls' = PollBudget
    /\ wrote' = stores
    /\ UNCHANGED at

\* The running function goes on to the place `label`; a wait there starts afresh.
GoTo(label, stores) ==
    /\ at' = label
    /\ polls' = PollBudget
    /\ wrote' = (wrote \/ stores)
    /\ UNCHANGED <<fn, status>>

\* The running function returns s.
Return(s, stores) ==
    /\ at' = "returned"
    /\ status' = s
    /\ polls' = PollBudget
    /\ wrote' = (wrote \/ stores)
    /\ UNCHANGED fn

-----------------------------------------------------------------------------
(* while (!reached && (timeout > 0U)) { timeout--; }                        *)

\* Mutant: the counter is never taken down.
PollForever(reached, recheck) ==
    /\ UNCHANGED <<fn, status, wrote, polls>>
    /\ at' = IF reached THEN recheck ELSE at

\* One reading of the flag: another turn of the loop, or out of it.
Poll(reached, recheck) ==
    /\ UNCHANGED <<fn, status, wrote>>
    /\ \/ /\ ~reached /\ polls > 0
          /\ polls' = polls - 1
          /\ UNCHANGED at
       \/ /\ reached \/ polls = 0
          /\ at' = recheck
          /\ UNCHANGED polls

\* Mutant: leaving the loop is taken for success.
NoRecheck(reached, next) == GoTo(next, FALSE)

\* The flag is read once more after the loop, and that reading decides.
Recheck(reached, next) ==
    \/ reached /\ GoTo(next, FALSE)
    \/ ~reached /\ Return("TIMEOUT", FALSE)

-----------------------------------------------------------------------------
\* The record's part of a type invariant, for a model whose functions are fns
\* and whose places, "returned" aside, are places.
CallTypeOK(fns, places) ==
    /\ fn \in fns \union {"none"}
    /\ at \in places \union {"returned"}
    /\ polls \in 0..PollBudget
    /\ status \in DriverStatus
    /\ wrote \in BOOLEAN

(* A refused call leaves every register as it was (docs/DESIGN.md, error    *)
(* contract; driver_status.h: "Nothing was written"): no path through a     *)
(* function stores to a register and then answers INVALID_PARAM or BUSY.    *)
RefusalWritesNothing == (Idle /\ status \in Refusals) => ~wrote
=============================================================================
