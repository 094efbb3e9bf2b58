-------------------------- MODULE SharedRegisters --------------------------
(***************************************************************************)
(* Driver calls on shared registers from two contexts: the main program    *)
(* and an interrupt handler that preempts it between any two accesses and  *)
(* runs to its end.  A read-modify-write is a load and a later store of    *)
(* the whole word.                                                         *)
(*                                                                         *)
(* docs/DESIGN.md, "Concurrency", says which functions are safe from any   *)
(* context, and that the caller must serialise the others.  The model lets *)
(* the handler call just what that section allows; the properties then say *)
(* that this is enough, but for one pair: extiClearPending() in the midst  *)
(* of extiTriggerSoftware(), which OverlapTriggers lets in.                *)
(***************************************************************************)
EXTENDS RegisterCalls

CONSTANTS
    Calls,      \* [context -> the calls it makes], as records of RegisterCalls
    MaxCalls,   \* calls made in a run
    OverlapTriggers \* whether a handler clears a pending bit inside extiTriggerSoftware()

Contexts == {"main", "handler"}

(* docs/DESIGN.md, "Concurrency".                                           *)

\* Safe on distinct bits.
SingleStores ==
    {"gpioWritePin", "nvicEnableIrq", "nvicDisableIrq", "nvicSetPending",
     "nvicClearPending", "nvicSetPriority", "extiClearPending"}

\* Single owner only: each pin is driven from one context.
SingleOwner == {"gpioTogglePin"}

Touched(accesses) == {accesses[i].reg : i \in DOMAIN accesses}
FieldsTouched(accesses) ==
    UNION {{accesses[i].reg} \X DOMAIN accesses[i].set : i \in DOMAIN accesses}

ASSUME CallsAssumption ==
    /\ DOMAIN Calls = Contexts
    /\ \A c \in Contexts : \A f \in Calls[c] : IsCall(f)
    /\ \A f \in Calls["main"], g \in Calls["handler"] :
           f.fn \in SingleOwner \/ g.fn \in SingleOwner =>
               FieldsTouched(f.accesses) \intersect FieldsTouched(g.accesses) = {}
    /\ OverlapTriggers \in BOOLEAN

VARIABLES
    reg,        \* [register -> [field -> value]]
    call,       \* for each context, the call it makes or made last
    todo,       \* the accesses that call has still to make
    held,       \* the word or bit its access under way has loaded, or nothing
    unclocked,  \* enable bits whose clock has not started yet
    calls       \* calls made so far, bounded by MaxCalls

vars == <<reg, call, todo, held, unclocked, calls>>

Nothing == << >>
AllAccesses == UNION {{f.accesses[i] : i \in DOMAIN f.accesses} : f \in UNION {Calls[c] : c \in Contexts}}

\* A store to SWIER or to PR looks at, and changes, all three.
TriggerRegisters == {IMR, SWIER, PR}
Registers == {a.reg : a \in AllAccesses} \union TriggerRegisters
Fields(r) ==
    UNION {DOMAIN a.set :
           a \in {b \in AllAccesses : b.reg = r \/ {b.reg, r} \subseteq TriggerRegisters}}

(* Values at reset.  The pins of the debug port start as such: PA13 to PA15 *)
(* and PB3, PB4 as alternate functions, PB3 fast, with the pulls SWD needs. *)
ResetValue(r, f) ==
    CASE r[2] = "MODER" /\ <<r[1], f>> \in ({"GPIOA"} \X (13..15)) \union ({"GPIOB"} \X (3..4)) -> AF
      [] r = <<"GPIOB", "OSPEEDR">> /\ f = 3 -> 3
      [] r[2] = "PUPDR" /\ <<r[1], f>> \in {<<"GPIOA", 13>>, <<"GPIOA", 15>>, <<"GPIOB", 4>>} -> 1
      [] r = <<"GPIOA", "PUPDR">> /\ f = 14 -> 2
      [] r[1] = "SYSCFG" -> "GPIOA"
      [] OTHER -> 0

AtReset == [r \in Registers |-> [f \in Fields(r) |-> ResetValue(r, f)]]

Init ==
    /\ reg = AtReset
    /\ call = [c \in Contexts |-> Ok("none", << >>)]
    /\ todo = [c \in Contexts |-> << >>]
    /\ held = [c \in Contexts |-> Nothing]
    /\ unclocked = {}
    /\ calls = 0

-----------------------------------------------------------------------------
Busy(c) == todo[c] # << >>

\* The handler runs to its end before the main program goes on.
Runs(c) == c = "handler" \/ ~Busy("handler")

(* What the caller has to see to: a function that is neither a single store *)
(* nor its pin's one owner shares no register with a call it interrupts.    *)
(* The section names extiClearPending() a single store, safe anywhere; the  *)
(* store also changes SWIER, which extiTriggerSoftware() writes back.       *)
Serialised(f, g) ==
    /\ \/ f.fn \in SingleStores \union SingleOwner
       \/ Touched(f.accesses) \intersect Touched(g.accesses) = {}
    /\ f.fn = "extiClearPending" /\ g.fn = "extiTriggerSoftware" => OverlapTriggers

Begin(c) ==
    /\ Runs(c) /\ ~Busy(c)
    /\ calls < MaxCalls
    /\ \E f \in Calls[c] :
           /\ \A d \in Contexts : d # c /\ Busy(d) => Serialised(f, call[d])
           /\ call' = [call EXCEPT ![c] = f]
           /\ todo' = [todo EXCEPT ![c] = f.accesses]
    /\ calls' = calls + 1
    /\ UNCHANGED <<reg, held, unclocked>>

Access(c) == Head(todo[c])

Advance(c) ==
    /\ todo' = [todo EXCEPT ![c] = Tail(@)]
    /\ held' = [held EXCEPT ![c] = Nothing]
    /\ UNCHANGED <<call, calls>>

\* The load of a read-modify-write, or of the bit a toggle looks at.
Load(c) ==
    /\ Runs(c) /\ Busy(c)
    /\ Access(c).kind \in {"rmw", "flip"}
    /\ held[c] = Nothing
    /\ held' = [held EXCEPT ![c] =
           IF Access(c).kind = "rmw" THEN reg[Access(c).reg]
           ELSE [f \in DOMAIN Access(c).set |-> reg[Access(c).reg][f]]]
    /\ UNCHANGED <<reg, call, todo, unclocked, calls>>

EnableRegisters == {AHB1ENR, APB1ENR, APB2ENR}

\* A clock starts some cycles after the bit that enables it.
ClocksAfter(r, word) ==
    IF r \notin EnableRegisters THEN unclocked
    ELSE (unclocked \union {<<r, f>> : f \in {g \in DOMAIN word : word[g] = 1 /\ reg[r][g] = 0}})
             \ {<<r, f>> : f \in {g \in DOMAIN word : word[g] = 0}}

StoreWord(c, written) ==
    /\ reg' = After(reg, Access(c).reg, written)
    /\ unclocked' = ClocksAfter(Access(c).reg, written)
    /\ Advance(c)

\* The whole word goes back, as it was loaded but for the fields of the call.
StoreRmw(c) ==
    /\ Runs(c) /\ Busy(c)
    /\ Access(c).kind = "rmw" /\ held[c] # Nothing
    /\ StoreWord(c, Over(Access(c).set, held[c]))

\* A single store: the hardware leaves the other fields alone.
StorePut(c) ==
    /\ Runs(c) /\ Busy(c)
    /\ Access(c).kind = "put"
    /\ StoreWord(c, Access(c).set)

StoreFlip(c) ==
    /\ Runs(c) /\ Busy(c)
    /\ Access(c).kind = "flip" /\ held[c] # Nothing
    /\ StoreWord(c, [f \in DOMAIN held[c] |-> 1 - held[c][f]])

\* Reading an enable register back takes until the clocks it enables run.
WaitForStores(c) ==
    /\ Runs(c) /\ Busy(c)
    /\ Access(c).kind \in {"readBack", "barrier"}
    /\ unclocked' = {e \in unclocked : e[1] # Access(c).reg}
    /\ Advance(c)
    /\ UNCHANGED reg

\* The hardware.
ClockStarts ==
    \E e \in unclocked :
        /\ unclocked' = unclocked \ {e}
        /\ UNCHANGED <<reg, call, todo, held, calls>>

Next ==
    \/ ClockStarts
    \/ \E c \in Contexts :
           Begin(c) \/ Load(c) \/ StoreRmw(c) \/ StorePut(c) \/ StoreFlip(c) \/ WaitForStores(c)

Spec == Init /\ [][Next]_vars

-----------------------------------------------------------------------------
(* The registers keep their fields, every field that has reserved values    *)
(* keeps clear of them, and an access under way has loaded its fields.      *)
TypeOK ==
    /\ DOMAIN reg = Registers
    /\ \A r \in Registers :
           /\ DOMAIN reg[r] = Fields(r)
           /\ r[2] = "PUPDR" => \A f \in Fields(r) : reg[r][f] \in 0..2
    /\ call \in [Contexts -> UNION {Calls[c] : c \in Contexts} \union {Ok("none", << >>)}]
    /\ \A c \in Contexts : held[c] # Nothing =>
           Busy(c) /\ DOMAIN Access(c).set \subseteq DOMAIN held[c]
    /\ \A e \in unclocked : e[1] \in EnableRegisters /\ reg[e[1]][e[2]] = 1
    /\ calls \in 0..MaxCalls

Atomic == INSTANCE AtomicRegisters WITH Initial <- AtReset

(* docs/DESIGN.md, "Concurrency": under its rules, and without a pending    *)
(* bit cleared inside extiTriggerSoftware(), no update is lost and none is  *)
(* undone, although a handler can come between the load and the store of    *)
(* any read-modify-write or toggle.                                         *)
ImplementsAtomic == Atomic!Spec

Returns(c, f) == Busy(c) /\ todo'[c] = << >> /\ call[c].fn = f

(* rcc.c, "read back: the clock is running before first use": when the      *)
(* enable of a clock returns the clock runs, so the next access to the      *)
(* peripheral is not lost.                                                  *)
EnableReturnsRunning ==
    [][\A c \in Contexts : Busy(c) /\ todo'[c] = << >> =>
           FieldsTouched(call[c].accesses) \intersect unclocked' = {}]_vars

(* gpio.c, "MODER last": a pin switches mode when its output type, speed    *)
(* and pull are those of the same call, whatever a handler configures       *)
(* meanwhile.                                                               *)
ModeSwitchedLast ==
    [][\A c \in Contexts :
           /\ Busy(c) /\ Access(c).reg[2] = "MODER" /\ call[c].fn = "gpioInit"
           /\ todo'[c] # todo[c]
           => \A i \in DOMAIN call[c].accesses :
                  LET a == call[c].accesses[i]
                  IN  \A f \in DOMAIN a.set : reg'[a.reg][f] = a.set[f]]_vars

\* The fields that configure a pin.
PinFields(port, pin) ==
    ({MODER(port), OTYPER(port), OSPEEDR(port), PUPDR(port)} \X {pin})
    \union {<<AFR(port, pin), pin % 8>>}

(* gpio.h, gpioDeinit(): "Return a pin to its power-on configuration", the  *)
(* whole of it and from any configuration, so that releasing a pin of the   *)
(* debug port gives it back to the debugger.                                *)
DeinitRestores ==
    [][\A c \in Contexts, port \in GpioPorts, pin \in Pins :
           Returns(c, "gpioDeinit") /\ call[c] = gpioDeinit(port, pin) =>
               \A e \in PinFields(port, pin) : reg'[e[1]][e[2]] = ResetValue(e[1], e[2])]_vars
=============================================================================
