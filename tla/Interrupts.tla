----------------------------- MODULE Interrupts -----------------------------
(***************************************************************************)
(* External interrupts from end to end: edges and software triggers set    *)
(* pending bits in the EXTI, the NVIC latches an interrupt, the handler of *)
(* the vector asks which line it was, clears it and counts it, while the   *)
(* main program masks, reconfigures, triggers, clears and disables.        *)
(*                                                                         *)
(* The code is the accesses of RegisterCalls and the handlers of the smoke *)
(* test.  A store waits in a buffer of one entry before it reaches its     *)
(* register; a load, a later store and a barrier wait for it, but neither  *)
(* the entry nor the end of a handler does.                                *)
(***************************************************************************)
EXTENDS RegisterCalls, FiniteSets

CONSTANTS
    MaxCalls,         \* bound: calls of the main program
    OverlapTriggers   \* whether a handler may come inside extiTriggerSoftware()

ASSUME BoundsAssumption == MaxCalls \in Nat /\ OverlapTriggers \in BOOLEAN

Lines == {5, 13}

EXTI9_5 == 23
EXTI15_10 == 40
IRQs == {EXTI9_5, EXTI15_10}

VectorOf(line) == IF line \in 5..9 THEN EXTI9_5 ELSE EXTI15_10

\* Mutant: one handler is a copy of the other.
SameLine(irqn) == 13

\* The line that the handler of a vector looks at.
ServedLine(irqn) == IF irqn = EXTI9_5 THEN 5 ELSE 13

VARIABLES
    reg,        \* [IMR, RTSR, FTSR, SWIER, PR -> [Lines -> 0..1]]
    enabled,    \* interrupts enabled in the NVIC
    pending,    \* interrupts latched in the NVIC
    op,         \* the call of the main program: its name and its line or interrupt
    todo,       \* for main and handler, the accesses still to make
    held,       \* for main and handler, the word loaded by the access under way
    buffer,     \* the store on its way and the fields its call names, or Nothing
    handler,    \* [irqn: the handler that runs or None, at: its next step]
    calls       \* calls of the main program so far, bounded by MaxCalls

\* What happened, for the properties only.
VARIABLES
    owed,       \* for each line: times its pending bit went from 0 to 1, less those
                \* counted (exti5_count, exti13_count) or cleared by the main program
    cause,      \* what set each pending bit
    selected,   \* the edges the main program last asked for
    off,        \* interrupts disabled: nvicDisableIrq() has returned
    overlooked  \* lines that a bare extiEnableInterrupt() unmasked with their SWIER bit
                \* set, and that were not cleared since

core == <<op, todo, held, handler>>
ghosts == <<owed, cause, selected, off, overlooked>>
vars == <<reg, enabled, pending, core, buffer, calls, ghosts>>

None == -1
Nothing == << >>
Contexts == {"main", "handler"}
Idle == [fn |-> "none", on |-> None, edge |-> "RISING"]

(* At reset, or as checkExti() sets the lines up: line 5 for rising edges,  *)
(* line 13 (the button) for falling ones, both unmasked, their interrupts   *)
(* enabled.                                                                 *)
Init ==
    /\ selected \in {[l \in Lines |-> "NONE"], [l \in Lines |-> IF l = 5 THEN "RISING" ELSE "FALLING"]}
    /\ LET lines(edge) == [l \in Lines |-> IF selected[l] = edge THEN 1 ELSE 0]
           masks == [l \in Lines |-> IF selected[l] = "NONE" THEN 0 ELSE 1]
           none == [l \in Lines |-> 0]
       IN  reg = [r \in {IMR, RTSR, FTSR, SWIER, PR} |->
                     CASE r = IMR -> masks [] r = RTSR -> lines("RISING")
                       [] r = FTSR -> lines("FALLING") [] OTHER -> none]
    /\ enabled = {VectorOf(l) : l \in {k \in Lines : reg[IMR][k] = 1}}
    /\ pending = {}
    /\ op = Idle
    /\ todo = [c \in Contexts |-> << >>]
    /\ held = [c \in Contexts |-> Nothing]
    /\ buffer = Nothing
    /\ handler = [irqn |-> None, at |-> "idle"]
    /\ calls = 0
    /\ owed = [l \in Lines |-> 0]
    /\ cause = [l \in Lines |-> "none"]
    /\ off = {}
    /\ overlooked = {}

-----------------------------------------------------------------------------
(* The EXTI and the NVIC.                                                   *)

\* The lines of a vector share one request, a level.
Asserted(r) == {VectorOf(l) : l \in {k \in Lines : r[PR][k] = 1 /\ r[IMR][k] = 1}}

\* Pending bits of `lines` are set, `why`; those already set stay as they are.
Raise(r, lines, why) ==
    LET new == {l \in lines : r[PR][l] = 0}
    IN  /\ reg' = [r EXCEPT ![PR] = [l \in Lines |-> IF l \in new THEN 1 ELSE @[l]]]
        /\ owed' = [l \in Lines |-> owed[l] + IF l \in new THEN 1 ELSE 0]
        /\ cause' = [l \in Lines |-> IF l \in new THEN why ELSE cause[l]]

\* A request that rises is latched.
Latch(before) == pending' = before \union (Asserted(reg') \ Asserted(reg))

(* An edge of a selected kind sets the pending bit, masked or not; one that *)
(* is lost because RTSR or FTSR is being written is no step at all.         *)
Edge(line, kind) ==
    /\ reg[IF kind = "RISING" THEN RTSR ELSE FTSR][line] = 1
    /\ Raise(reg, {line}, kind)
    /\ Latch(pending)
    /\ UNCHANGED <<enabled, core, buffer, calls, selected, off, overlooked>>

Reaches(r) == buffer # Nothing /\ buffer.reg = r

Arrived == buffer' = Nothing /\ UNCHANGED <<core, calls, selected, off>>

\* PR: every bit stored as 1 is cleared, and its SWIER bit with it.
PrStore ==
    /\ Reaches(PR)
    /\ LET cleared == {l \in DOMAIN buffer.word : buffer.word[l] = 1}
           clear(bits) == [l \in Lines |-> IF l \in cleared THEN 0 ELSE bits[l]]
       IN  /\ reg' = [reg EXCEPT ![PR] = clear(@), ![SWIER] = clear(@)]
           /\ cause' = [l \in Lines |-> IF l \in cleared THEN "none" ELSE cause[l]]
           /\ owed' = [l \in Lines |->
                  IF buffer.by = "main" /\ l \in cleared \intersect buffer.names
                  THEN owed[l] - reg[PR][l] ELSE owed[l]]
           /\ overlooked' = overlooked \ cleared
    /\ Latch(pending)
    /\ Arrived
    /\ UNCHANGED enabled

\* SWIER: a bit that goes from 0 to 1 sets the pending bit if its line is unmasked.
SwierStore ==
    /\ Reaches(SWIER)
    /\ LET fired == {l \in Lines : reg[SWIER][l] = 0 /\ buffer.word[l] = 1 /\ reg[IMR][l] = 1}
       IN  Raise([reg EXCEPT ![SWIER] = buffer.word], fired, "software")
    /\ Latch(pending)
    /\ Arrived
    /\ UNCHANGED <<enabled, overlooked>>

MaskOrEdgeStore ==
    /\ Reaches(IMR) \/ Reaches(RTSR) \/ Reaches(FTSR)
    /\ reg' = [reg EXCEPT ![buffer.reg] = buffer.word]
    /\ Latch(pending)
    /\ Arrived
    /\ UNCHANGED <<enabled, owed, cause, overlooked>>

\* A pending bit whose request is still up cannot be cleared in the NVIC.
NvicStore ==
    /\ Reaches(ISER) \/ Reaches(ISPR)
    /\ LET on == {i \in DOMAIN buffer.word : buffer.word[i] = 1}
           out == DOMAIN buffer.word \ on
       IN  IF buffer.reg = ISER
           THEN enabled' = (enabled \union on) \ out /\ pending' = pending
           ELSE enabled' = enabled /\ pending' = (pending \union on) \ (out \ Asserted(reg))
    /\ Arrived
    /\ UNCHANGED <<reg, owed, cause, overlooked>>

Drain == PrStore \/ SwierStore \/ MaskOrEdgeStore \/ NvicStore

-----------------------------------------------------------------------------
(* The accesses of the two contexts.                                        *)

Runs(c) == todo[c] # << >> /\ (c = "main" => handler.irqn = None)

Access(c) == Head(todo[c])

\* What the caller may rely on once the last access is issued.
Advance(c) ==
    /\ todo' = [todo EXCEPT ![c] = Tail(@)]
    /\ held' = [held EXCEPT ![c] = Nothing]
    /\ LET returns == c = "main" /\ Len(todo[c]) = 1
       IN  /\ selected' = IF returns /\ op.fn = "configure"
                          THEN [selected EXCEPT ![op.on] = op.edge] ELSE selected
           /\ off' = IF returns /\ op.fn = "disableIrq" THEN off \union {op.on} ELSE off
           /\ overlooked' = IF returns /\ op.fn = "unmask" /\ reg[SWIER][op.on] = 1
                            THEN overlooked \union {op.on} ELSE overlooked
    /\ UNCHANGED <<reg, enabled, pending, op, handler, calls, owed, cause>>

Load(c) ==
    /\ Runs(c) /\ buffer = Nothing
    /\ Access(c).kind = "rmw" /\ held[c] = Nothing
    /\ held' = [held EXCEPT ![c] = reg[Access(c).reg]]
    /\ UNCHANGED <<reg, enabled, pending, op, todo, handler, buffer, calls, ghosts>>

Store(c) ==
    /\ Runs(c) /\ buffer = Nothing
    /\ Access(c).kind = "put" \/ (Access(c).kind = "rmw" /\ held[c] # Nothing)
    /\ buffer' = [reg |-> Access(c).reg, word |-> Over(Access(c).set, held[c]),
                   names |-> DOMAIN Access(c).set, by |-> c]
    /\ Advance(c)

WaitForStore(c) ==
    /\ Runs(c) /\ buffer = Nothing
    /\ Access(c).kind = "barrier"
    /\ buffer' = buffer
    /\ Advance(c)

-----------------------------------------------------------------------------
(* The main program.                                                        *)

Accesses(f) == f.accesses

\* Mutant: unmasked without clearing the pending bit first.
ConfigureWithoutClear(line, edge) ==
    Accesses(extiDisableInterrupt(line)) \o Accesses(extiConfigure(line, edge))
    \o Accesses(extiEnableInterrupt(line))

(* As extiConfigure() wants it: masked, and cleared before it is unmasked.  *)
configureLine(line, edge) ==
    Accesses(extiDisableInterrupt(line)) \o Accesses(extiConfigure(line, edge))
    \o Accesses(extiClearPending(line)) \o Accesses(extiEnableInterrupt(line))

Call(fn, on, edge, accesses) ==
    /\ todo["main"] = << >> /\ handler.irqn = None
    /\ calls < MaxCalls /\ calls' = calls + 1
    /\ op' = [fn |-> fn, on |-> on, edge |-> edge]
    /\ todo' = [todo EXCEPT !["main"] = accesses]
    /\ off' = IF fn = "enableIrq" THEN off \ {on} ELSE off
    /\ UNCHANGED <<reg, enabled, pending, held, buffer, handler, owed, cause, selected, overlooked>>

Configure(line) == \E edge \in Edges : Call("configure", line, edge, configureLine(line, edge))
Unmask(line) == Call("unmask", line, "RISING", Accesses(extiEnableInterrupt(line)))
Mask(line) == Call("mask", line, "RISING", Accesses(extiDisableInterrupt(line)))
Trigger(line) == Call("trigger", line, "RISING", Accesses(extiTriggerSoftware(line)))
ClearLine(line) == Call("clear", line, "RISING", Accesses(extiClearPending(line)))
EnableIrq(irqn) == Call("enableIrq", irqn, "RISING", Accesses(nvicEnableIrq(irqn)))
DisableIrq(irqn) == Call("disableIrq", irqn, "RISING", Accesses(nvicDisableIrq(irqn)))
PendIrq(irqn) == Call("pendIrq", irqn, "RISING", Accesses(nvicSetPending(irqn)))
UnpendIrq(irqn) == Call("unpendIrq", irqn, "RISING", Accesses(nvicClearPending(irqn)))

Main ==
    \/ \E l \in Lines : Configure(l) \/ Unmask(l) \/ Mask(l) \/ Trigger(l) \/ ClearLine(l)
    \/ \E i \in IRQs : EnableIrq(i) \/ DisableIrq(i) \/ PendIrq(i) \/ UnpendIrq(i)

-----------------------------------------------------------------------------
(* The handlers: equal priorities, so neither interrupts the other and the  *)
(* lower number goes first.                                                 *)

Ready == enabled \intersect pending

\* extiTriggerSoftware() is one the caller must serialise.
Serialised == op.fn = "trigger" /\ todo["main"] # << >> /\ ~OverlapTriggers

Take(irqn) ==
    /\ handler.irqn = None
    /\ irqn \in Ready /\ \A i \in Ready : irqn <= i
    /\ ~Serialised
    /\ handler' = [irqn |-> irqn, at |-> "check"]
    /\ pending' = pending \ {irqn}
    /\ UNCHANGED <<reg, enabled, op, todo, held, buffer, calls, ghosts>>

HandlerAt(step) == handler.irqn # None /\ handler.at = step /\ todo["handler"] = << >>

\* extiIsPending(), and extiClearPending() if it is.
CheckPending ==
    /\ HandlerAt("check") /\ buffer = Nothing
    /\ LET line == ServedLine(handler.irqn)
       IN  IF reg[PR][line] = 1
           THEN /\ handler' = [handler EXCEPT !.at = "count"]
                /\ todo' = [todo EXCEPT !["handler"] = Accesses(extiClearPending(line))]
           ELSE handler' = [handler EXCEPT !.at = "return"] /\ todo' = todo
    /\ UNCHANGED <<reg, enabled, pending, op, held, buffer, calls, ghosts>>

Count ==
    /\ HandlerAt("count")
    /\ handler' = [handler EXCEPT !.at = "return"]
    /\ owed' = [owed EXCEPT ![ServedLine(handler.irqn)] = @ - 1]
    /\ UNCHANGED <<reg, enabled, pending, op, todo, held, buffer, calls, cause, selected, off, overlooked>>

\* A request that is still up is latched again.
Return ==
    /\ HandlerAt("return")
    /\ handler' = [irqn |-> None, at |-> "idle"]
    /\ pending' = pending \union (Asserted(reg) \intersect {handler.irqn})
    /\ UNCHANGED <<reg, enabled, op, todo, held, buffer, calls, ghosts>>

Handlers ==
    \/ \E i \in IRQs : Take(i)
    \/ CheckPending \/ Count \/ Return

Core == \E c \in Contexts : Load(c) \/ Store(c) \/ WaitForStore(c)

Next == (\E l \in Lines, kind \in {"RISING", "FALLING"} : Edge(l, kind)) \/ Drain \/ Core \/ Main \/ Handlers

(* The processor goes on with what it has begun, and stores arrive; no edge *)
(* need ever come and the main program need make no further call.           *)
Fairness == WF_vars(Drain) /\ WF_vars(Core) /\ WF_vars(Handlers)

Spec == Init /\ [][Next]_vars /\ Fairness

-----------------------------------------------------------------------------
(* A line owes at most the event its handler is counting and the next one.  *)
TypeOK ==
    /\ reg \in [{IMR, RTSR, FTSR, SWIER, PR} -> [Lines -> 0..1]]
    /\ enabled \subseteq IRQs /\ pending \subseteq IRQs /\ off \subseteq IRQs
    /\ \A l \in Lines : (reg[PR][l] = 1) <=> (cause[l] # "none")
    /\ handler \in [irqn : IRQs \union {None}, at : {"idle", "check", "count", "return"}]
    /\ calls \in 0..MaxCalls
    /\ owed \in [Lines -> 0..2]
    /\ selected \in [Lines -> Edges \union {"NONE"}]
    /\ overlooked \subseteq Lines

HandlersClear(line) ==
    Reaches(PR) /\ buffer.by = "handler" /\ line \in buffer.names

\* Pending with no handler's clear on its way; cleared and about to be counted.
Uncleared(line) == reg[PR][line] = 1 /\ ~HandlersClear(line)
Counting(line) == HandlerAt("count") /\ ServedLine(handler.irqn) = line

(* smoke.c, extiCountLine(): every time a pending bit was set is counted    *)
(* just once, unless the main program cleared it, although the store that   *)
(* clears it may arrive after the handler has ended and the handler is then *)
(* entered again, and although the two lines share the register.            *)
Accounting ==
    \A l \in Lines :
        owed[l] = (IF Uncleared(l) THEN 1 ELSE 0) + (IF Counting(l) THEN 1 ELSE 0)

(* exti.h, extiConfigure(): "Configure a line while its interrupt is        *)
(* masked, and clear its pending bit before unmasking it" is enough: while  *)
(* the line is unmasked its handler never sees an edge that the last        *)
(* configuration does not select.                                           *)
NoStaleEvent ==
    [][HandlerAt("check") /\ handler'.at = "count" =>
           LET l == ServedLine(handler.irqn)
           IN  reg[IMR][l] = 1 =>
                   cause[l] = "software" \/ selected[l] \in {cause[l], "BOTH"}]_vars

(* nvic.c, nvicSyncBarrier(): "so a disabled interrupt cannot be taken      *)
(* after nvicDisableIrq() returns".                                         *)
NotTakenAfterDisable ==
    [][\A i \in IRQs : handler.irqn # i /\ handler'.irqn = i => i \notin off]_vars

(* exti.h, extiTriggerSoftware(): "Raise the line's interrupt from          *)
(* software": an unmasked line whose SWIER bit is set is pending.  Were it  *)
(* not, the next trigger of the line would find the bit set and do nothing. *)
(* That does come about, but in one way: the line is triggered while it is  *)
(* masked and then unmasked by extiEnableInterrupt() with no                *)
(* extiClearPending() before it.  No configuration, edge, handler or        *)
(* trigger of another line does it.                                         *)
TriggerNotSwallowed ==
    \A l \in Lines \ overlooked : reg[SWIER][l] = 1 /\ reg[IMR][l] = 1 => reg[PR][l] = 1

(* smoke.c, extiCountLine(), EXTI9_5_IRQHandler(), EXTI15_10_IRQHandler():  *)
(* a pending line that is unmasked and whose interrupt is enabled is        *)
(* cleared: no handler is entered again and again without serving it, and   *)
(* no request is left unlatched.  Line 13 has to wait for as long as line 5 *)
(* is raised again each time it has been served: its vector comes first.    *)
Served(l) ==
    reg[PR][l] = 1 /\ reg[IMR][l] = 1 /\ VectorOf(l) \in enabled
    ~> reg[PR][l] = 0 \/ reg[IMR][l] = 0 \/ VectorOf(l) \notin enabled

EveryLineServed == Served(5) /\ (<>[](reg[PR][5] = 0) => Served(13))

(* exti.c, extiTriggerSoftware(): "setting a bit that is already set is     *)
(* harmless"; exti.h, extiClearPending(): "needs no serialising".  Then the *)
(* store of a trigger raises the line it names and no other.                *)
TriggersOneLine ==
    [][Reaches(SWIER) /\ buffer' = Nothing =>
           \A l \in Lines : reg'[PR][l] # reg[PR][l] => l \in buffer.names]_vars
=============================================================================
