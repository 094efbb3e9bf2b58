-------------------------- MODULE AtomicRegisters --------------------------
(***************************************************************************)
(* What the callers of the drivers want of the registers they share: every *)
(* access takes effect at once, on the fields it names and on what the     *)
(* hardware changes with them.  Nothing is loaded in one step and stored   *)
(* in a later one.                                                         *)
(***************************************************************************)
EXTENDS RegisterCalls

CONSTANTS
    Contexts,   \* the main program and the interrupt handlers
    Calls,      \* for each context, the calls it makes
    Initial     \* the registers' values at reset

VARIABLES
    reg,        \* register -> field -> value
    todo        \* for each context, the accesses its call has still to make

Flipped(set, word) == [f \in DOMAIN set |-> 1 - word[f]]

Effect(a) ==
    CASE a.kind \in {"rmw", "put"} -> After(reg, a.reg, a.set)
      [] a.kind = "flip" -> After(reg, a.reg, Flipped(a.set, reg[a.reg]))
      [] OTHER -> reg

Begin(c) ==
    /\ todo[c] = << >>
    /\ \E call \in Calls[c] : todo' = [todo EXCEPT ![c] = call.accesses]
    /\ UNCHANGED reg

Do(c) ==
    /\ todo[c] # << >>
    /\ reg' = Effect(Head(todo[c]))
    /\ todo' = [todo EXCEPT ![c] = Tail(@)]

Init == reg = Initial /\ todo = [c \in Contexts |-> << >>]

Next == \E c \in Contexts : Begin(c) \/ Do(c)

Spec == Init /\ [][Next]_<<reg, todo>>
=============================================================================
