-------------------------- MODULE InterruptsProofs --------------------------
(***************************************************************************)
(* Proofs about Interrupts, for any number of calls of the main program,   *)
(* with triggers serialised or not.                                        *)
(***************************************************************************)
EXTENDS Interrupts, SequenceTheorems, TLAPS

Regs == {IMR, RTSR, FTSR, SWIER, PR}

-----------------------------------------------------------------------------
(* Where the main program is in a call: the accesses still to make.         *)

Rise(e) == IF e \in {"RISING", "BOTH"} THEN 1 ELSE 0
Fall(e) == IF e \in {"FALLING", "BOTH"} THEN 1 ELSE 0

Masks(l) == Rmw(IMR, Field(l, 0))
Rises(l, e) == Rmw(RTSR, Field(l, Rise(e)))
Falls(l, e) == Rmw(FTSR, Field(l, Fall(e)))
Clears(l) == Put(PR, Field(l, 1))
Unmasks(l) == Rmw(IMR, Field(l, 1))

Rest5(l, e) == <<Masks(l), Rises(l, e), Falls(l, e), Clears(l), Unmasks(l)>>
Rest4(l, e) == <<Rises(l, e), Falls(l, e), Clears(l), Unmasks(l)>>
Rest3(l, e) == <<Falls(l, e), Clears(l), Unmasks(l)>>
Rest2(l) == <<Clears(l), Unmasks(l)>>
Rest1(l) == <<Unmasks(l)>>

Configuring(s) == op.fn = "configure" /\ op.on \in Lines /\ op.edge \in Edges /\ todo["main"] = s

At5 == Configuring(Rest5(op.on, op.edge))
At4 == Configuring(Rest4(op.on, op.edge))
At3 == Configuring(Rest3(op.on, op.edge))
At2 == Configuring(Rest2(op.on))
At1 == Configuring(Rest1(op.on))

OneLine(fn, access) == op.fn = fn /\ op.on \in Lines /\ todo["main"] = <<access>>
OneIrq(fn, access) == op.fn = fn /\ op.on \in IRQs /\ todo["main"] = <<access>>

AtEnable == OneIrq("enableIrq", Put(ISER, Field(op.on, 1)))
AtDisable ==
    op.fn = "disableIrq" /\ op.on \in IRQs /\ todo["main"] = <<Put(ISER, Field(op.on, 0)), Barrier>>
AtBarrier == OneIrq("disableIrq", Barrier)

ProgramInv ==
    \/ todo["main"] = << >>
    \/ At5 \/ At4 \/ At3 \/ At2 \/ At1
    \/ OneLine("mask", Masks(op.on))
    \/ OneLine("unmask", Unmasks(op.on))
    \/ OneLine("trigger", Rmw(SWIER, Field(op.on, 1)))
    \/ OneLine("clear", Clears(op.on))
    \/ AtEnable \/ AtDisable \/ AtBarrier
    \/ OneIrq("pendIrq", Put(ISPR, Field(op.on, 1)))
    \/ OneIrq("unpendIrq", Put(ISPR, Field(op.on, 0)))

-----------------------------------------------------------------------------
(* The inductive invariant.                                                 *)

TypeInv ==
    /\ reg \in [Regs -> [Lines -> 0..1]]
    /\ enabled \subseteq IRQs /\ pending \subseteq IRQs /\ off \subseteq IRQs
    /\ selected \in [Lines -> Edges \union {"NONE"}]
    /\ handler \in [irqn : IRQs \union {None}, at : {"idle", "check", "count", "return"}]
    /\ calls \in 0..MaxCalls
    /\ \A l \in Lines : (reg[PR][l] = 1) <=> (cause[l] # "none")
    /\ owed \in [Lines -> Int]
    /\ overlooked \subseteq Lines
    /\ DOMAIN todo = Contexts /\ DOMAIN held = Contexts

\* On its way, if anything is: a store to one of rs.
OnItsWay(rs) == buffer # Nothing => buffer.reg \in rs

\* A word loaded by the main program is still in its register, but for SWIER.
HeldInv ==
    /\ held["handler"] = Nothing
    /\ held["main"] # Nothing =>
           /\ todo["main"] # << >>
           /\ Access("main").kind = "rmw" /\ Access("main").reg \in {IMR, RTSR, FTSR, SWIER}
           /\ held["main"] \in [Lines -> 0..1] /\ OnItsWay({PR})
           /\ Access("main").reg # SWIER => held["main"] = reg[Access("main").reg]

\* The store on its way: what it changes, and what it was issued in the knowledge of.
IsStore(r, l, v) ==
    /\ buffer.names = {l}
    /\ \A k \in Lines : buffer.word[k] = IF k = l THEN v ELSE reg[r][k]

BufferInv ==
    buffer # Nothing =>
        /\ buffer.reg \in {IMR, RTSR, FTSR, SWIER, PR, ISER, ISPR}
        /\ buffer.by \in Contexts
        /\ buffer.by = "handler" => buffer.reg = PR
        /\ buffer.reg \in {IMR, RTSR, FTSR, SWIER} => buffer.word \in [Lines -> 0..1]
        /\ buffer.reg = IMR =>
               \E l \in Lines, v \in 0..1 :
                   IsStore(IMR, l, v) /\ (v = 1 => reg[SWIER][l] = 0 \/ l \in overlooked)
        /\ buffer.reg = RTSR => At3 /\ IsStore(RTSR, op.on, Rise(op.edge))
        /\ buffer.reg = FTSR => At2 /\ IsStore(FTSR, op.on, Fall(op.edge))
        /\ buffer.reg = PR =>
               \E l \in Lines : /\ buffer.names = {l} /\ buffer.word = Field(l, 1)
                                /\ buffer.by = "handler" => reg[PR][l] = 1
        /\ buffer.reg = ISER =>
               \E i \in IRQs, v \in 0..1 : buffer.word = Field(i, v) /\ (v = 1 => i \notin off)
        /\ buffer.reg = ISPR => \E i \in IRQs, v \in 0..1 : buffer.word = Field(i, v)

\* A handler that is about to clear its line found it pending, with no store on its way.
HandlerInv ==
    /\ handler.irqn = None <=> handler.at = "idle"
    /\ todo["handler"] # << >> =>
           /\ handler.at = "count" /\ handler.irqn \in IRQs
           /\ todo["handler"] = <<Clears(ServedLine(handler.irqn))>>
           /\ buffer = Nothing
           /\ reg[PR][ServedLine(handler.irqn)] = 1

\* Edges come and causes are as selected.
Selects(l, e) == reg[RTSR][l] = Rise(e) /\ reg[FTSR][l] = Fall(e)
CauseFits(l, e) == reg[PR][l] = 1 => cause[l] = "software" \/ e \in {cause[l], "BOTH"}

Between(l) == op.on = l /\ (At3 \/ At2 \/ At1)

SelectInv ==
    \A l \in Lines :
        /\ ~Between(l) => Selects(l, selected[l]) /\ CauseFits(l, selected[l])
        /\ Between(l) => reg[IMR][l] = 0

ConfigureInv ==
    /\ At4 => /\ OnItsWay({IMR, PR})
              /\ IF Reaches(IMR) THEN buffer.word[op.on] = 0 ELSE reg[IMR][op.on] = 0
    /\ At3 => /\ OnItsWay({RTSR, PR})
              /\ Reaches(RTSR) \/ reg[RTSR][op.on] = Rise(op.edge)
    /\ At2 => /\ OnItsWay({FTSR, PR})
              /\ reg[RTSR][op.on] = Rise(op.edge)
              /\ Reaches(FTSR) \/ reg[FTSR][op.on] = Fall(op.edge)
    /\ At1 => /\ OnItsWay({PR})
              /\ Selects(op.on, op.edge)
              /\ \/ Reaches(PR) /\ buffer.by = "main" /\ buffer.names = {op.on}
                 \/ CauseFits(op.on, op.edge) /\ reg[SWIER][op.on] = 0

\* An interrupt reported off is off, and stays off.
OffInv ==
    /\ off \intersect enabled = {}
    /\ AtEnable => op.on \notin off
    /\ AtBarrier => \/ Reaches(ISER) /\ buffer.word = Field(op.on, 0)
                    \/ ~Reaches(ISER) /\ op.on \notin enabled

IInv ==
    /\ TypeInv /\ ProgramInv /\ HeldInv /\ BufferInv /\ HandlerInv
    /\ SelectInv /\ ConfigureInv /\ OffInv
    /\ Accounting /\ TriggerNotSwallowed

-----------------------------------------------------------------------------
(* Registers, words and programs.                                           *)

\* No two names stand for one register.
LEMMA Distinct ==
    /\ IMR # RTSR /\ IMR # FTSR /\ IMR # SWIER /\ IMR # PR /\ IMR # ISER /\ IMR # ISPR
    /\ RTSR # FTSR /\ RTSR # SWIER /\ RTSR # PR /\ RTSR # ISER /\ RTSR # ISPR
    /\ FTSR # SWIER /\ FTSR # PR /\ FTSR # ISER /\ FTSR # ISPR
    /\ SWIER # PR /\ SWIER # ISER /\ SWIER # ISPR
    /\ PR # ISER /\ PR # ISPR /\ ISER # ISPR
BY DEF IMR, RTSR, FTSR, SWIER, PR, ISER, ISPR

\* Each vector serves one line, and looks at that line.
LEMMA Vectors ==
    /\ \A l \in Lines : VectorOf(l) \in IRQs /\ ServedLine(VectorOf(l)) = l
    /\ \A i \in IRQs : ServedLine(i) \in Lines /\ VectorOf(ServedLine(i)) = i /\ i # None
BY DEF Lines, IRQs, VectorOf, ServedLine, EXTI9_5, EXTI15_10, None

LEMMA LinesValid == \A l \in Lines : ValidLine(l)
BY DEF Lines, ValidLine

LEMMA IrqsValid == \A i \in IRQs : ValidIrq(i)
<1>1. ValidIrq(23)
  <2>1. 23 \div 32 = 0 /\ ReservedMask(0) = {}
    BY DEF ReservedMask
  <2> QED
    BY <2>1 DEF ValidIrq
<1>2. ValidIrq(40)
  <2>1. 40 \div 32 = 1 /\ 40 % 32 = 8 /\ ReservedMask(1) = {29, 30}
    BY DEF ReservedMask
  <2> QED
    BY <2>1 DEF ValidIrq
<1> QED
  BY <1>1, <1>2 DEF IRQs, EXTI9_5, EXTI15_10

\* A word with one field replaced.
LEMMA OverWord ==
    ASSUME NEW w \in [Lines -> 0..1], NEW l \in Lines, NEW v \in 0..1
    PROVE  /\ Over(Field(l, v), w) \in [Lines -> 0..1]
           /\ \A k \in Lines : Over(Field(l, v), w)[k] = IF k = l THEN v ELSE w[k]
BY DEF Over, Field

\* A field stored over an empty word is the whole word.
LEMMA OverNothing ==
    ASSUME NEW x, NEW v
    PROVE  Over(Field(x, v), Nothing) = Field(x, v) /\ DOMAIN Field(x, v) = {x} /\ Field(x, v)[x] = v
BY DEF Over, Field, Nothing

\* A word, and a store, are something.
LEMMA Something ==
    /\ \A w \in [Lines -> 0..1] : w # Nothing
    /\ \A r, w, n, b : [reg |-> r, word |-> w, names |-> n, by |-> b] # Nothing
<1>1. \A w \in [Lines -> 0..1] : w # Nothing
  BY DEF Nothing, Lines
<1>2. ASSUME NEW r, NEW w, NEW n, NEW b
      PROVE  [reg |-> r, word |-> w, names |-> n, by |-> b] # Nothing
  <2>1. "reg" \in DOMAIN [reg |-> r, word |-> w, names |-> n, by |-> b]
    OBVIOUS
  <2>2. "reg" \notin DOMAIN Nothing
    BY DEF Nothing
  <2> QED
    BY <2>1, <2>2
<1> QED
  BY <1>1, <1>2

\* A sequence of one.
LEMMA Single ==
    ASSUME NEW a
    PROVE  Head(<<a>>) = a /\ Tail(<<a>>) = <<>> /\ <<a>> # <<>> /\ Len(<<a>>) = 1
OBVIOUS

\* A sequence of two.
LEMMA Pair ==
    ASSUME NEW a, NEW b
    PROVE  Head(<<a, b>>) = a /\ Tail(<<a, b>>) = <<b>> /\ <<a, b>> # <<>> /\ Len(<<a, b>>) = 2
OBVIOUS

\* The rest of a configuration after each access.
LEMMA Rests ==
    ASSUME NEW l, NEW e
    PROVE  /\ Head(Rest5(l, e)) = Masks(l) /\ Tail(Rest5(l, e)) = Rest4(l, e)
           /\ Rest5(l, e) # <<>> /\ Len(Rest5(l, e)) = 5
           /\ Head(Rest4(l, e)) = Rises(l, e) /\ Tail(Rest4(l, e)) = Rest3(l, e)
           /\ Rest4(l, e) # <<>> /\ Len(Rest4(l, e)) = 4
           /\ Head(Rest3(l, e)) = Falls(l, e) /\ Tail(Rest3(l, e)) = Rest2(l)
           /\ Rest3(l, e) # <<>> /\ Len(Rest3(l, e)) = 3
           /\ Head(Rest2(l)) = Clears(l) /\ Tail(Rest2(l)) = Rest1(l)
           /\ Rest2(l) # <<>> /\ Len(Rest2(l)) = 2
           /\ Head(Rest1(l)) = Unmasks(l) /\ Tail(Rest1(l)) = <<>>
           /\ Rest1(l) # <<>> /\ Len(Rest1(l)) = 1
BY DEF Rest5, Rest4, Rest3, Rest2, Rest1

\* A sequence with one element more.
LEMMA Longer ==
    ASSUME NEW S, NEW s \in Seq(S), NEW x \in S
    PROVE  /\ s \o <<x>> \in Seq(S) /\ Len(s \o <<x>>) = Len(s) + 1
           /\ (s \o <<x>>)[Len(s) + 1] = x
           /\ \A i \in 1..Len(s) : (s \o <<x>>)[i] = s[i]
<1>1. <<x>> \in Seq(S) /\ Len(<<x>>) = 1 /\ <<x>>[1] = x /\ Len(s) \in Nat
  OBVIOUS
<1>2. /\ s \o <<x>> \in Seq(S)
      /\ Len(s \o <<x>>) = Len(s) + Len(<<x>>)
      /\ \A i \in 1..Len(s) + Len(<<x>>) :
             (s \o <<x>>)[i] = IF i <= Len(s) THEN s[i] ELSE <<x>>[i - Len(s)]
  BY <1>1, ConcatProperties
<1>3. Len(s) + 1 - Len(s) = 1 /\ ~(Len(s) + 1 <= Len(s)) /\ Len(s) + 1 \in 1..Len(s) + Len(<<x>>)
  BY <1>1
<1>4. \A i \in 1..Len(s) : i <= Len(s) /\ i \in 1..Len(s) + Len(<<x>>)
  BY <1>1
<1> QED
  BY <1>1, <1>2, <1>3, <1>4

\* The three parts of a line's configuration, as one sequence.
LEMMA Concatenation ==
    ASSUME NEW a, NEW b, NEW c, NEW d, NEW e
    PROVE  <<a>> \o <<b, c>> \o <<d>> \o <<e>> = <<a, b, c, d, e>>
<1> DEFINE S == {a, b, c, d, e}
           two == <<a>> \o <<b, c>>
           three == two \o <<d>>
           whole == three \o <<e>>
           same == <<a, b, c, d, e>>
<1>1. <<a>> \in Seq(S) /\ <<b, c>> \in Seq(S) /\ d \in S /\ e \in S /\ same \in Seq(S)
  OBVIOUS
<1>2. two \in Seq(S) /\ Len(two) = 3 /\ two[1] = a /\ two[2] = b /\ two[3] = c
  BY <1>1
<1> HIDE DEF S, two
<1>3. /\ three \in Seq(S) /\ Len(three) = Len(two) + 1 /\ three[Len(two) + 1] = d
      /\ \A i \in 1..Len(two) : three[i] = two[i]
  <2>1. two \in Seq(S) /\ d \in S
    BY <1>1, <1>2
  <2> QED
    BY <2>1, Longer
<1> HIDE DEF three
<1>4. /\ whole \in Seq(S) /\ Len(whole) = Len(three) + 1 /\ whole[Len(three) + 1] = e
      /\ \A i \in 1..Len(three) : whole[i] = three[i]
  BY <1>1, <1>3, Longer
<1> HIDE DEF whole
<1>5. Len(whole) = 5 /\ \A i \in 1..5 : whole[i] = same[i]
  BY <1>2, <1>3, <1>4
<1>6. whole = same
  BY <1>1, <1>4, <1>5, SeqEqual
<1> QED
  BY <1>6 DEF whole, three, two

\* What the calls of the main program are made of.
LEMMA Programs ==
    /\ \A l \in Lines, e \in Edges : configureLine(l, e) = Rest5(l, e)
    /\ \A l \in Lines : /\ Accesses(extiDisableInterrupt(l)) = <<Masks(l)>>
                        /\ Accesses(extiEnableInterrupt(l)) = <<Unmasks(l)>>
                        /\ Accesses(extiTriggerSoftware(l)) = <<Rmw(SWIER, Field(l, 1))>>
                        /\ Accesses(extiClearPending(l)) = <<Clears(l)>>
    /\ \A i \in IRQs : /\ Accesses(nvicEnableIrq(i)) = <<Put(ISER, Field(i, 1))>>
                       /\ Accesses(nvicDisableIrq(i)) = <<Put(ISER, Field(i, 0)), Barrier>>
                       /\ Accesses(nvicSetPending(i)) = <<Put(ISPR, Field(i, 1))>>
                       /\ Accesses(nvicClearPending(i)) = <<Put(ISPR, Field(i, 0))>>
<1>1. ASSUME NEW l \in Lines
      PROVE  /\ Accesses(extiDisableInterrupt(l)) = <<Masks(l)>>
             /\ Accesses(extiEnableInterrupt(l)) = <<Unmasks(l)>>
             /\ Accesses(extiTriggerSoftware(l)) = <<Rmw(SWIER, Field(l, 1))>>
             /\ Accesses(extiClearPending(l)) = <<Clears(l)>>
  BY LinesValid
     DEF Accesses, extiDisableInterrupt, extiEnableInterrupt, extiTriggerSoftware,
         extiClearPending, Checked, Ok, Masks, Unmasks, Clears
<1>2. ASSUME NEW l \in Lines, NEW e \in Edges
      PROVE  configureLine(l, e) = Rest5(l, e)
  <2>1. Accesses(extiConfigure(l, e)) = <<Rises(l, e), Falls(l, e)>>
    <3>1. /\ (IF e = "FALLING" THEN 0 ELSE 1) = Rise(e)
          /\ (IF e = "RISING" THEN 0 ELSE 1) = Fall(e)
      BY DEF Edges, Rise, Fall
    <3> QED
      BY <3>1, LinesValid DEF Accesses, extiConfigure, Checked, Ok, Rises, Falls
  <2>2. configureLine(l, e) =
            <<Masks(l)>> \o <<Rises(l, e), Falls(l, e)>> \o <<Clears(l)>> \o <<Unmasks(l)>>
    BY <1>1, <2>1 DEF configureLine
  <2> QED
    BY <2>2, Concatenation DEF Rest5
<1>3. ASSUME NEW i \in IRQs
      PROVE  /\ Accesses(nvicEnableIrq(i)) = <<Put(ISER, Field(i, 1))>>
             /\ Accesses(nvicDisableIrq(i)) = <<Put(ISER, Field(i, 0)), Barrier>>
             /\ Accesses(nvicSetPending(i)) = <<Put(ISPR, Field(i, 1))>>
             /\ Accesses(nvicClearPending(i)) = <<Put(ISPR, Field(i, 0))>>
  BY IrqsValid
     DEF Accesses, nvicEnableIrq, nvicDisableIrq, nvicSetPending, nvicClearPending, Checked, Ok
<1> QED
  BY <1>1, <1>2, <1>3

-----------------------------------------------------------------------------
LEMMA InitInv == Init => IInv
<1> SUFFICES ASSUME Init PROVE IInv
  OBVIOUS
<1> USE Distinct
<1>1. /\ buffer = Nothing /\ todo["main"] = <<>> /\ todo["handler"] = <<>>
      /\ held["main"] = Nothing /\ held["handler"] = Nothing
      /\ DOMAIN todo = Contexts /\ DOMAIN held = Contexts
      /\ handler = [irqn |-> None, at |-> "idle"] /\ off = {} /\ pending = {} /\ calls = 0
      /\ \A l \in Lines : owed[l] = 0 /\ cause[l] = "none"
      /\ owed = [l \in Lines |-> 0] /\ overlooked = {}
  BY DEF Init, Contexts
<1>2. /\ reg \in [Regs -> [Lines -> 0..1]]
      /\ \A l \in Lines : /\ reg[PR][l] = 0 /\ reg[SWIER][l] = 0
                          /\ reg[RTSR][l] = IF selected[l] = "RISING" THEN 1 ELSE 0
                          /\ reg[FTSR][l] = IF selected[l] = "FALLING" THEN 1 ELSE 0
  BY DEF Init, Regs
<1>3. selected \in [Lines -> {"NONE", "RISING", "FALLING"}]
  BY DEF Init
<1>4. enabled \subseteq IRQs
  BY Vectors DEF Init
<1>5. TypeInv
  BY <1>1, <1>2, <1>3, <1>4, BoundsAssumption DEF TypeInv, Edges
<1>6. ProgramInv /\ HeldInv /\ BufferInv /\ OffInv
  BY <1>1 DEF ProgramInv, HeldInv, BufferInv, OffInv, AtEnable, AtBarrier, OneIrq
<1>7. HandlerInv
  BY <1>1 DEF HandlerInv
<1>8. ~At5 /\ ~At4 /\ ~At3 /\ ~At2 /\ ~At1
  BY <1>1, Rests DEF At5, At4, At3, At2, At1, Configuring
<1>9. SelectInv /\ ConfigureInv
  BY <1>2, <1>3, <1>8 DEF SelectInv, Between, Selects, CauseFits, Rise, Fall, ConfigureInv
<1>10. Accounting /\ TriggerNotSwallowed
  BY <1>1, <1>2
     DEF Accounting, Uncleared, Counting, HandlersClear, HandlerAt, Reaches, TriggerNotSwallowed
<1> QED
  BY <1>5, <1>6, <1>7, <1>9, <1>10 DEF IInv

-----------------------------------------------------------------------------
(* Steps of the EXTI and the NVIC.                                          *)

\* A step that leaves the call of the main program where it is.
LEMMA SamePlace ==
    ASSUME ProgramInv, UNCHANGED <<op, todo>>
    PROVE  /\ ProgramInv'
           /\ \A l : Between(l)' <=> Between(l)
           /\ (At5' <=> At5) /\ (At4' <=> At4) /\ (At3' <=> At3) /\ (At2' <=> At2) /\ (At1' <=> At1)
           /\ (AtEnable' <=> AtEnable) /\ (AtBarrier' <=> AtBarrier)
BY DEF ProgramInv, Between, At5, At4, At3, At2, At1, Configuring, AtEnable, AtDisable, AtBarrier,
       OneLine, OneIrq

\* Pending bits that are set: a line that had none owes one more.
LEMMA Raised ==
    ASSUME TypeInv, NEW r \in [Regs -> [Lines -> 0..1]], r[PR] = reg[PR],
           NEW lines \in SUBSET Lines, NEW why \in {"RISING", "FALLING", "software"},
           Raise(r, lines, why)
    PROVE  /\ reg' \in [Regs -> [Lines -> 0..1]]
           /\ \A x \in Regs \ {PR} : reg'[x] = r[x]
           /\ \A l \in Lines : reg'[PR][l] = IF l \in lines THEN 1 ELSE reg[PR][l]
           /\ \A l \in Lines : cause'[l] = IF l \in lines /\ reg[PR][l] = 0 THEN why ELSE cause[l]
           /\ owed' \in [Lines -> Int]
           /\ \A l \in Lines : owed'[l] = owed[l] + reg'[PR][l] - reg[PR][l]
           /\ \A l \in Lines : (reg'[PR][l] = 1) <=> (cause'[l] # "none")
<1> DEFINE bits == [l \in Lines |-> IF l \in {k \in lines : r[PR][k] = 0} THEN 1 ELSE r[PR][l]]
<1>1. PR \in Regs
  BY DEF Regs
<1>2. reg' = [r EXCEPT ![PR] = bits]
  BY <1>1 DEF Raise
<1>3. bits \in [Lines -> 0..1] /\ \A l \in Lines : bits[l] = IF l \in lines THEN 1 ELSE reg[PR][l]
  BY <1>1 DEF TypeInv
<1> HIDE DEF bits
<1>4. reg' \in [Regs -> [Lines -> 0..1]] /\ reg'[PR] = bits /\ \A x \in Regs \ {PR} : reg'[x] = r[x]
  BY <1>1, <1>2, <1>3
<1>5. \A l \in Lines : reg[PR][l] \in 0..1 /\ owed[l] \in Int
  BY <1>1 DEF TypeInv
<1>6. \A l \in Lines : cause'[l] = IF l \in lines /\ reg[PR][l] = 0 THEN why ELSE cause[l]
  BY DEF Raise
<1>7. /\ owed' = [l \in Lines |-> owed[l] + IF l \in {k \in lines : reg[PR][k] = 0} THEN 1 ELSE 0]
      /\ \A l \in Lines : owed'[l] = owed[l] + reg'[PR][l] - reg[PR][l]
  <2>1. owed' = [l \in Lines |-> owed[l] + IF l \in {k \in lines : reg[PR][k] = 0} THEN 1 ELSE 0]
    BY DEF Raise
  <2> QED
    BY <1>3, <1>4, <1>5, <2>1
<1>8. \A l \in Lines : (reg'[PR][l] = 1) <=> (cause'[l] # "none")
  BY <1>3, <1>4, <1>5, <1>6 DEF TypeInv
<1> QED
  BY <1>3, <1>4, <1>5, <1>6, <1>7, <1>8

\* An edge comes.
LEMMA EdgeInv ==
    ASSUME IInv, NEW line \in Lines, NEW kind \in {"RISING", "FALLING"}, Edge(line, kind)
    PROVE  IInv'
<1> USE Distinct
<1>1. /\ TypeInv /\ ProgramInv /\ HeldInv /\ BufferInv /\ HandlerInv
      /\ SelectInv /\ ConfigureInv /\ OffInv
      /\ Accounting /\ TriggerNotSwallowed
  BY DEF IInv
<1>2. /\ reg[IF kind = "RISING" THEN RTSR ELSE FTSR][line] = 1
      /\ Raise(reg, {line}, kind)
      /\ pending' = pending \union (Asserted(reg') \ Asserted(reg))
      /\ UNCHANGED <<enabled, op, todo, held, handler, buffer, calls, selected, off, overlooked>>
  BY DEF Edge, Latch, core
<1>3. /\ reg' \in [Regs -> [Lines -> 0..1]]
      /\ \A x \in Regs \ {PR} : reg'[x] = reg[x]
      /\ \A l \in Lines : reg'[PR][l] = IF l = line THEN 1 ELSE reg[PR][l]
      /\ \A l \in Lines : cause'[l] = IF l = line /\ reg[PR][l] = 0 THEN kind ELSE cause[l]
      /\ owed' \in [Lines -> Int]
      /\ \A l \in Lines : owed'[l] = owed[l] + reg'[PR][l] - reg[PR][l]
      /\ \A l \in Lines : (reg'[PR][l] = 1) <=> (cause'[l] # "none")
  <2>1. reg \in [Regs -> [Lines -> 0..1]]
    BY <1>1 DEF TypeInv
  <2> QED
    BY <1>1, <1>2, <2>1, Raised
<1>4. /\ reg'[IMR] = reg[IMR] /\ reg'[RTSR] = reg[RTSR]
      /\ reg'[FTSR] = reg[FTSR] /\ reg'[SWIER] = reg[SWIER]
  BY <1>3 DEF Regs
<1>5. \A l \in Lines : reg[PR][l] \in 0..1 /\ (reg[PR][l] = 1 => reg'[PR][l] = 1)
  BY <1>1, <1>3 DEF TypeInv, Regs
<1>6. pending' \subseteq IRQs
  BY <1>1, <1>2, Vectors DEF Asserted, TypeInv
<1>7. TypeInv'
  BY <1>1, <1>2, <1>3, <1>6 DEF TypeInv
<1>8. /\ ProgramInv'
      /\ \A l : Between(l)' <=> Between(l)
      /\ (At5' <=> At5) /\ (At4' <=> At4) /\ (At3' <=> At3) /\ (At2' <=> At2) /\ (At1' <=> At1)
      /\ (AtEnable' <=> AtEnable) /\ (AtBarrier' <=> AtBarrier)
  BY <1>1, <1>2, SamePlace
<1>9. HeldInv'
  BY <1>1, <1>2, <1>4 DEF HeldInv, Access, OnItsWay
<1>10. BufferInv'
  BY <1>1, <1>2, <1>4, <1>5, <1>8 DEF BufferInv, IsStore
<1>11. HandlerInv'
  BY <1>1, <1>2, <1>5, Vectors DEF HandlerInv
<1>12. ASSUME NEW l \in Lines, NEW e, Selects(l, e), CauseFits(l, e)
       PROVE  /\ reg'[RTSR][l] = Rise(e) /\ reg'[FTSR][l] = Fall(e)
              /\ reg'[PR][l] = 1 => cause'[l] = "software" \/ e \in {cause'[l], "BOTH"}
  <2>1. l = line => e \in {kind, "BOTH"}
    BY <1>2, <1>12 DEF Selects, Rise, Fall
  <2>2. reg'[RTSR][l] = Rise(e) /\ reg'[FTSR][l] = Fall(e)
    BY <1>4, <1>12 DEF Selects
  <2>3. CASE l = line /\ reg[PR][l] = 0
    BY <1>3, <2>1, <2>2, <2>3
  <2>4. CASE ~(l = line /\ reg[PR][l] = 0)
    BY <1>3, <1>5, <1>12, <2>2, <2>4 DEF CauseFits
  <2> QED
    BY <2>3, <2>4
<1>13. SelectInv'
  <2> SUFFICES ASSUME NEW l \in Lines
               PROVE  /\ ~Between(l) => Selects(l, selected[l])' /\ CauseFits(l, selected[l])'
                      /\ Between(l) => reg[IMR][l] = 0
    BY <1>4, <1>8 DEF SelectInv
  <2> QED
    BY <1>1, <1>2, <1>12 DEF SelectInv, Selects, CauseFits
<1>14. ConfigureInv'
  <2>1. At1 => op.on \in Lines
    BY DEF At1, Configuring
  <2>2. At1 => Selects(op.on, op.edge)' /\ (CauseFits(op.on, op.edge) => CauseFits(op.on, op.edge)')
    BY <1>1, <1>2, <1>4, <1>12, <2>1 DEF ConfigureInv, Selects, CauseFits
  <2> QED
    BY <1>1, <1>2, <1>4, <1>8, <2>2 DEF ConfigureInv, OnItsWay, Reaches
<1>15. OffInv'
  BY <1>1, <1>2, <1>8 DEF OffInv, Reaches
<1>16. Accounting'
  <2> SUFFICES ASSUME NEW l \in Lines
               PROVE  owed'[l] = (IF Uncleared(l)' THEN 1 ELSE 0) + (IF Counting(l)' THEN 1 ELSE 0)
    BY DEF Accounting
  <2>1. HandlersClear(l) => reg[PR][l] = 1
    BY <1>1 DEF BufferInv, HandlersClear, Reaches
  <2>2. (HandlersClear(l)' <=> HandlersClear(l)) /\ (Counting(l)' <=> Counting(l))
    BY <1>2 DEF HandlersClear, Reaches, Counting, HandlerAt
  <2>3. owed[l] = (IF Uncleared(l) THEN 1 ELSE 0) + (IF Counting(l) THEN 1 ELSE 0)
    BY <1>1 DEF Accounting
  <2>4. owed'[l] = owed[l] + reg'[PR][l] - reg[PR][l] /\ reg[PR][l] \in 0..1 /\ owed[l] \in Int
    BY <1>1, <1>3, <1>5 DEF TypeInv
  <2> QED
    BY <1>3, <1>5, <2>1, <2>2, <2>3, <2>4 DEF Uncleared
<1>17. TriggerNotSwallowed'
  BY <1>1, <1>2, <1>3, <1>4, <1>5 DEF TriggerNotSwallowed
<1> QED
  BY <1>7, <1>8, <1>9, <1>10, <1>11, <1>13, <1>14, <1>15, <1>16, <1>17 DEF IInv

\* A trigger arrives.
LEMMA SwierStoreInv == IInv /\ SwierStore => IInv'
<1> SUFFICES ASSUME IInv, SwierStore PROVE IInv'
  OBVIOUS
<1> USE Distinct
<1> DEFINE fired == {l \in Lines : reg[SWIER][l] = 0 /\ buffer.word[l] = 1 /\ reg[IMR][l] = 1}
           r == [reg EXCEPT ![SWIER] = buffer.word]
<1>1. /\ TypeInv /\ ProgramInv /\ HeldInv /\ BufferInv /\ HandlerInv
      /\ SelectInv /\ ConfigureInv /\ OffInv
      /\ Accounting /\ TriggerNotSwallowed
  BY DEF IInv
<1>2. /\ Reaches(SWIER) /\ Raise(r, fired, "software")
      /\ pending' = pending \union (Asserted(reg') \ Asserted(reg))
      /\ buffer' = Nothing
      /\ UNCHANGED <<enabled, op, todo, held, handler, calls, selected, off, overlooked>>
  BY DEF SwierStore, Latch, Arrived, core
<1>3. buffer # Nothing /\ buffer.reg = SWIER /\ buffer.word \in [Lines -> 0..1]
  BY <1>1, <1>2 DEF Reaches, BufferInv
<1>4. /\ r \in [Regs -> [Lines -> 0..1]] /\ r[SWIER] = buffer.word
      /\ \A x \in Regs \ {SWIER} : r[x] = reg[x]
  BY <1>1, <1>3 DEF TypeInv, Regs
<1> HIDE DEF r
<1>5. r[PR] = reg[PR]
  BY <1>4 DEF Regs
<1>6. /\ reg' \in [Regs -> [Lines -> 0..1]]
      /\ \A x \in Regs \ {PR} : reg'[x] = r[x]
      /\ \A l \in Lines : reg'[PR][l] = IF l \in fired THEN 1 ELSE reg[PR][l]
      /\ \A l \in Lines : cause'[l] = IF l \in fired /\ reg[PR][l] = 0 THEN "software" ELSE cause[l]
      /\ owed' \in [Lines -> Int]
      /\ \A l \in Lines : owed'[l] = owed[l] + reg'[PR][l] - reg[PR][l]
      /\ \A l \in Lines : (reg'[PR][l] = 1) <=> (cause'[l] # "none")
  BY <1>1, <1>2, <1>4, <1>5, Raised
<1>7. /\ reg'[IMR] = reg[IMR] /\ reg'[RTSR] = reg[RTSR]
      /\ reg'[FTSR] = reg[FTSR] /\ reg'[SWIER] = buffer.word
  BY <1>4, <1>6 DEF Regs
<1>8. \A l \in Lines : reg[PR][l] \in 0..1 /\ (reg[PR][l] = 1 => reg'[PR][l] = 1)
  BY <1>1, <1>6 DEF TypeInv, Regs
<1>9. TypeInv'
  <2>1. pending' \subseteq IRQs
    BY <1>1, <1>2, Vectors DEF Asserted, TypeInv
  <2> QED
    BY <1>1, <1>2, <1>6, <2>1 DEF TypeInv
<1>10. /\ ProgramInv'
       /\ \A l : Between(l)' <=> Between(l)
       /\ (At5' <=> At5) /\ (At4' <=> At4) /\ (At3' <=> At3) /\ (At2' <=> At2) /\ (At1' <=> At1)
       /\ (AtEnable' <=> AtEnable) /\ (AtBarrier' <=> AtBarrier)
  BY <1>1, <1>2, SamePlace
<1>11. ~At4 /\ ~At3 /\ ~At2 /\ ~At1
  BY <1>1, <1>3 DEF ConfigureInv, OnItsWay
<1>12. HeldInv'
  BY <1>1, <1>2, <1>7 DEF HeldInv, Access, OnItsWay
<1>13. BufferInv' /\ HandlerInv' /\ ConfigureInv'
  BY <1>1, <1>2, <1>3, <1>10, <1>11 DEF BufferInv, HandlerInv, ConfigureInv
<1>14. SelectInv'
  <2> SUFFICES ASSUME NEW l \in Lines
               PROVE  ~Between(l) => Selects(l, selected[l])' /\ CauseFits(l, selected[l])'
    BY <1>10, <1>11 DEF SelectInv, Between
  <2> QED
    BY <1>1, <1>2, <1>6, <1>7, <1>8 DEF SelectInv, Selects, CauseFits
<1>15. OffInv'
  BY <1>1, <1>2, <1>3, <1>10 DEF OffInv, Reaches
<1>16. Accounting'
  <2> SUFFICES ASSUME NEW l \in Lines
               PROVE  owed'[l] = (IF Uncleared(l)' THEN 1 ELSE 0) + (IF Counting(l)' THEN 1 ELSE 0)
    BY DEF Accounting
  <2>1. ~HandlersClear(l) /\ ~HandlersClear(l)'
    BY <1>2, <1>3 DEF HandlersClear, Reaches
  <2>2. Counting(l)' <=> Counting(l)
    BY <1>2 DEF Counting, HandlerAt
  <2>3. owed[l] = (IF Uncleared(l) THEN 1 ELSE 0) + (IF Counting(l) THEN 1 ELSE 0)
    BY <1>1 DEF Accounting
  <2>4. owed'[l] = owed[l] + reg'[PR][l] - reg[PR][l] /\ reg[PR][l] \in 0..1 /\ owed[l] \in Int
    BY <1>1, <1>6, <1>8 DEF TypeInv
  <2> QED
    BY <1>6, <1>8, <2>1, <2>2, <2>3, <2>4 DEF Uncleared
<1>17. TriggerNotSwallowed'
  <2> SUFFICES ASSUME NEW l \in Lines \ overlooked, buffer.word[l] = 1, reg[IMR][l] = 1
               PROVE  reg'[PR][l] = 1
    BY <1>2, <1>7 DEF TriggerNotSwallowed
  <2>1. reg[SWIER][l] \in 0..1
    BY <1>1 DEF TypeInv, Regs
  <2> QED
    BY <1>1, <1>6, <1>8, <2>1 DEF TriggerNotSwallowed
<1> QED
  BY <1>9, <1>10, <1>12, <1>13, <1>14, <1>15, <1>16, <1>17 DEF IInv

\* A store to PR arrives: one line loses its pending bit and its trigger.
LEMMA PrStoreInv == IInv /\ PrStore => IInv'
<1> SUFFICES ASSUME IInv, PrStore PROVE IInv'
  OBVIOUS
<1> USE Distinct
<1>1. /\ TypeInv /\ ProgramInv /\ HeldInv /\ BufferInv /\ HandlerInv
      /\ SelectInv /\ ConfigureInv /\ OffInv
      /\ Accounting /\ TriggerNotSwallowed
  BY DEF IInv
<1>2. Reaches(PR) /\ buffer # Nothing /\ buffer.reg = PR
  BY DEF PrStore, Reaches
<1>3. PICK c \in Lines : /\ buffer.names = {c} /\ buffer.word = Field(c, 1)
                         /\ buffer.by = "handler" => reg[PR][c] = 1
  BY <1>1, <1>2 DEF BufferInv
<1>4. /\ {l \in DOMAIN buffer.word : buffer.word[l] = 1} = {c}
      /\ {c} \intersect buffer.names = {c}
  BY <1>3, OverNothing, ZenonT(40)
<1>5. /\ reg' = [reg EXCEPT ![PR] = [l \in Lines |-> IF l \in {c} THEN 0 ELSE reg[PR][l]],
                            ![SWIER] = [l \in Lines |-> IF l \in {c} THEN 0 ELSE reg[SWIER][l]]]
      /\ cause' = [l \in Lines |-> IF l \in {c} THEN "none" ELSE cause[l]]
      /\ owed' = [l \in Lines |->
                      IF buffer.by = "main" /\ l \in {c} THEN owed[l] - reg[PR][l] ELSE owed[l]]
      /\ pending' = pending \union (Asserted(reg') \ Asserted(reg))
      /\ overlooked' = overlooked \ {c}
      /\ buffer' = Nothing
      /\ UNCHANGED <<enabled, op, todo, held, handler, calls, selected, off>>
  BY <1>1, <1>4 DEF PrStore, Latch, Arrived, core, TypeInv, Regs
<1>6. /\ reg' \in [Regs -> [Lines -> 0..1]]
      /\ reg'[IMR] = reg[IMR] /\ reg'[RTSR] = reg[RTSR] /\ reg'[FTSR] = reg[FTSR]
      /\ \A l \in Lines : /\ reg'[PR][l] = IF l = c THEN 0 ELSE reg[PR][l]
                          /\ reg'[SWIER][l] = IF l = c THEN 0 ELSE reg[SWIER][l]
  BY <1>1, <1>5 DEF TypeInv, Regs
<1>7. /\ \A l \in Lines : /\ cause'[l] = IF l = c THEN "none" ELSE cause[l]
                          /\ owed'[l] = IF buffer.by = "main" /\ l = c
                                         THEN owed[l] - reg[PR][l] ELSE owed[l]
                          /\ reg[PR][l] \in 0..1 /\ owed[l] \in Int
      /\ owed' \in [Lines -> Int]
  BY <1>1, <1>5 DEF TypeInv, Regs
<1>8. TypeInv'
  <2>1. pending' \subseteq IRQs
    <3>1. pending' = pending \union (Asserted(reg') \ Asserted(reg)) /\ pending \subseteq IRQs
      BY <1>1, <1>5 DEF TypeInv
    <3> QED
      BY <3>1, Vectors DEF Asserted
  <2>2. \A l \in Lines : (reg'[PR][l] = 1) <=> (cause'[l] # "none")
    BY <1>1, <1>6, <1>7 DEF TypeInv
  <2> QED
    BY <1>1, <1>5, <1>6, <1>7, <2>1, <2>2 DEF TypeInv
<1>9. /\ ProgramInv'
      /\ \A l : Between(l)' <=> Between(l)
      /\ (At5' <=> At5) /\ (At4' <=> At4) /\ (At3' <=> At3) /\ (At2' <=> At2) /\ (At1' <=> At1)
      /\ (AtEnable' <=> AtEnable) /\ (AtBarrier' <=> AtBarrier)
  BY <1>1, <1>5, SamePlace
<1>10. HeldInv'
  BY <1>1, <1>5, <1>6 DEF HeldInv, Access, OnItsWay
<1>11. BufferInv' /\ HandlerInv'
  BY <1>1, <1>2, <1>5 DEF BufferInv, HandlerInv
<1>12. SelectInv'
  <2> SUFFICES ASSUME NEW l \in Lines
               PROVE  /\ ~Between(l) => Selects(l, selected[l])' /\ CauseFits(l, selected[l])'
                      /\ Between(l) => reg[IMR][l] = 0
    BY <1>6, <1>9 DEF SelectInv
  <2>1. Between(l) => reg[IMR][l] = 0
    BY <1>1 DEF SelectInv
  <2>2. ~Between(l) => Selects(l, selected[l]) /\ CauseFits(l, selected[l])
    BY <1>1 DEF SelectInv
  <2>3. selected' = selected
    BY <1>5
  <2>4. Selects(l, selected[l]) => Selects(l, selected[l])'
    BY <1>6, <2>3 DEF Selects
  <2>5. CauseFits(l, selected[l]) => CauseFits(l, selected[l])'
    BY <1>6, <1>7, <2>3 DEF CauseFits
  <2> QED
    BY <2>1, <2>2, <2>4, <2>5
<1>13. ConfigureInv'
  <2>1. At4 => reg[IMR][op.on] = 0
    BY <1>1, <1>2 DEF ConfigureInv, Reaches
  <2>2. At3 => reg[RTSR][op.on] = Rise(op.edge)
    BY <1>1, <1>2 DEF ConfigureInv, Reaches
  <2>3. At2 => reg[RTSR][op.on] = Rise(op.edge) /\ reg[FTSR][op.on] = Fall(op.edge)
    BY <1>1, <1>2 DEF ConfigureInv, Reaches
  <2>4. At1 => /\ op.on \in Lines /\ Selects(op.on, op.edge)
               /\ op.on = c \/ (CauseFits(op.on, op.edge) /\ reg[SWIER][op.on] = 0)
    BY <1>1, <1>2, <1>3 DEF ConfigureInv, Reaches, At1, Configuring
  <2>5. At1 => Selects(op.on, op.edge)' /\ CauseFits(op.on, op.edge)' /\ reg'[SWIER][op.on] = 0
    <3> SUFFICES ASSUME At1
                 PROVE  Selects(op.on, op.edge)' /\ CauseFits(op.on, op.edge)' /\ reg'[SWIER][op.on] = 0
      OBVIOUS
    <3>1. op' = op /\ op.on \in Lines
      BY <1>5, <2>4
    <3>2. Selects(op.on, op.edge)'
      BY <1>6, <2>4, <3>1 DEF Selects
    <3>3. CASE op.on = c
      BY <1>6, <3>1, <3>2, <3>3 DEF CauseFits
    <3>4. CASE op.on # c
      BY <1>6, <1>7, <2>4, <3>1, <3>2, <3>4 DEF CauseFits
    <3> QED
      BY <3>3, <3>4
  <2> QED
    BY <1>5, <1>6, <1>9, <2>1, <2>2, <2>3, <2>5 DEF ConfigureInv, OnItsWay, Reaches
<1>14. OffInv'
  BY <1>1, <1>2, <1>5, <1>9 DEF OffInv, Reaches
<1>15. Accounting'
  <2> SUFFICES ASSUME NEW l \in Lines
               PROVE  owed'[l] = (IF Uncleared(l)' THEN 1 ELSE 0) + (IF Counting(l)' THEN 1 ELSE 0)
    BY DEF Accounting
  <2>1. ~HandlersClear(l)' /\ (HandlersClear(l) <=> buffer.by = "handler" /\ l = c)
    BY <1>2, <1>3, <1>5 DEF HandlersClear, Reaches
  <2>2. Counting(l)' <=> Counting(l)
    BY <1>5 DEF Counting, HandlerAt
  <2>3. owed[l] = (IF Uncleared(l) THEN 1 ELSE 0) + (IF Counting(l) THEN 1 ELSE 0)
    BY <1>1 DEF Accounting
  <2>4. buffer.by = "main" \/ buffer.by = "handler"
    BY <1>1, <1>2 DEF BufferInv, Contexts
  <2> QED
    BY <1>6, <1>7, <2>1, <2>2, <2>3, <2>4 DEF Uncleared
<1>16. TriggerNotSwallowed'
  BY <1>1, <1>5, <1>6, ZenonT(40) DEF TriggerNotSwallowed
<1> QED
  BY <1>8, <1>9, <1>10, <1>11, <1>12, <1>13, <1>14, <1>15, <1>16 DEF IInv

\* A mask or an edge selection arrives: it changes the line of the call that made it.
LEMMA MaskOrEdgeStoreInv == IInv /\ MaskOrEdgeStore => IInv'
<1> SUFFICES ASSUME IInv, MaskOrEdgeStore PROVE IInv'
  OBVIOUS
<1> USE Distinct
<1>1. /\ TypeInv /\ ProgramInv /\ HeldInv /\ BufferInv /\ HandlerInv
      /\ SelectInv /\ ConfigureInv /\ OffInv
      /\ Accounting /\ TriggerNotSwallowed
  BY DEF IInv
<1>2. /\ reg' = [reg EXCEPT ![buffer.reg] = buffer.word]
      /\ pending' = pending \union (Asserted(reg') \ Asserted(reg))
      /\ buffer' = Nothing
      /\ UNCHANGED <<enabled, op, todo, held, handler, calls, owed, cause, selected, off, overlooked>>
  BY DEF MaskOrEdgeStore, Latch, Arrived, core
<1>3. /\ buffer # Nothing /\ buffer.reg \in {IMR, RTSR, FTSR}
      /\ buffer.word \in [Lines -> 0..1]
  BY <1>1 DEF MaskOrEdgeStore, Reaches, BufferInv
<1>4. /\ reg' \in [Regs -> [Lines -> 0..1]] /\ reg'[buffer.reg] = buffer.word
      /\ \A x \in Regs \ {buffer.reg} : reg'[x] = reg[x]
      /\ reg'[PR] = reg[PR] /\ reg'[SWIER] = reg[SWIER]
  BY <1>1, <1>2, <1>3 DEF TypeInv, Regs
<1>5. TypeInv'
  <2>1. pending' \subseteq IRQs
    <3>1. pending' = pending \union (Asserted(reg') \ Asserted(reg)) /\ pending \subseteq IRQs
      BY <1>1, <1>2 DEF TypeInv
    <3> QED
      BY <3>1, Vectors DEF Asserted
  <2> QED
    BY <1>1, <1>2, <1>4, <2>1 DEF TypeInv
<1>6. /\ ProgramInv'
      /\ \A l : Between(l)' <=> Between(l)
      /\ (At5' <=> At5) /\ (At4' <=> At4) /\ (At3' <=> At3) /\ (At2' <=> At2) /\ (At1' <=> At1)
      /\ (AtEnable' <=> AtEnable) /\ (AtBarrier' <=> AtBarrier)
  BY <1>1, <1>2, SamePlace
<1>7. HeldInv'
  BY <1>1, <1>2, <1>3 DEF HeldInv, OnItsWay
<1>8. BufferInv' /\ HandlerInv'
  BY <1>1, <1>2, <1>3 DEF BufferInv, HandlerInv
<1>9. OffInv'
  BY <1>1, <1>2, <1>3, <1>6 DEF OffInv, Reaches
<1>10. Accounting'
  BY <1>1, <1>2, <1>3, <1>4
     DEF Accounting, Uncleared, HandlersClear, Reaches, Counting, HandlerAt
<1>11. SelectInv' /\ ConfigureInv' /\ TriggerNotSwallowed'
  <2>1. CASE buffer.reg = IMR
    <3>1. ~At3 /\ ~At2 /\ ~At1 /\ (At4 => op.on \in Lines /\ buffer.word[op.on] = 0)
      BY <1>1, <1>3, <2>1 DEF ConfigureInv, OnItsWay, Reaches, At4, Configuring
    <3>2. PICK l \in Lines, v \in 0..1 :
              IsStore(IMR, l, v) /\ (v = 1 => reg[SWIER][l] = 0 \/ l \in overlooked)
      BY <1>1, <1>3, <2>1 DEF BufferInv
    <3>3. reg'[RTSR] = reg[RTSR] /\ reg'[FTSR] = reg[FTSR]
      BY <1>4, <2>1 DEF Regs
    <3>4. SelectInv'
      BY <1>1, <1>2, <1>4, <1>6, <3>1, <3>3 DEF SelectInv, Between, Selects, CauseFits
    <3>5. ConfigureInv'
      BY <1>2, <1>4, <1>6, <2>1, <3>1 DEF ConfigureInv, OnItsWay, Reaches
    <3>6. TriggerNotSwallowed'
      BY <1>1, <1>2, <1>4, <2>1, <3>2 DEF TriggerNotSwallowed, IsStore
    <3> QED
      BY <3>4, <3>5, <3>6
  <2>2. CASE buffer.reg = RTSR
    <3>1. ~At4 /\ ~At2 /\ ~At1 /\ At3 /\ op.on \in Lines /\ IsStore(RTSR, op.on, Rise(op.edge))
      BY <1>1, <1>3, <2>2 DEF ConfigureInv, BufferInv, OnItsWay, At3, Configuring
    <3>2. reg'[IMR] = reg[IMR] /\ reg'[FTSR] = reg[FTSR]
      BY <1>4, <2>2 DEF Regs
    <3>3. \A k \in Lines : reg'[RTSR][k] = IF k = op.on THEN Rise(op.edge) ELSE reg[RTSR][k]
      BY <1>4, <2>2, <3>1 DEF IsStore
    <3>4. SelectInv'
      BY <1>1, <1>2, <1>4, <1>6, <3>1, <3>2, <3>3 DEF SelectInv, Between, Selects, CauseFits
    <3>5. ConfigureInv'
      BY <1>2, <1>6, <3>1, <3>3 DEF ConfigureInv, OnItsWay
    <3>6. TriggerNotSwallowed'
      BY <1>1, <1>2, <1>4, <3>2 DEF TriggerNotSwallowed
    <3> QED
      BY <3>4, <3>5, <3>6
  <2>3. CASE buffer.reg = FTSR
    <3>1. /\ ~At4 /\ ~At3 /\ ~At1 /\ At2 /\ op.on \in Lines /\ IsStore(FTSR, op.on, Fall(op.edge))
          /\ reg[RTSR][op.on] = Rise(op.edge)
      BY <1>1, <1>3, <2>3 DEF ConfigureInv, BufferInv, OnItsWay, At2, Configuring
    <3>2. reg'[IMR] = reg[IMR] /\ reg'[RTSR] = reg[RTSR]
      BY <1>4, <2>3 DEF Regs
    <3>3. \A k \in Lines : reg'[FTSR][k] = IF k = op.on THEN Fall(op.edge) ELSE reg[FTSR][k]
      BY <1>4, <2>3, <3>1 DEF IsStore
    <3>4. SelectInv'
      BY <1>1, <1>2, <1>4, <1>6, <3>1, <3>2, <3>3 DEF SelectInv, Between, Selects, CauseFits
    <3>5. ConfigureInv'
      BY <1>2, <1>6, <3>1, <3>2, <3>3 DEF ConfigureInv, OnItsWay
    <3>6. TriggerNotSwallowed'
      BY <1>1, <1>2, <1>4, <3>2 DEF TriggerNotSwallowed
    <3> QED
      BY <3>4, <3>5, <3>6
  <2> QED
    BY <1>3, <2>1, <2>2, <2>3
<1> QED
  BY <1>5, <1>6, <1>7, <1>8, <1>9, <1>10, <1>11 DEF IInv

\* A store to ISER or ISPR arrives: one interrupt is switched.
LEMMA NvicStoreInv == IInv /\ NvicStore => IInv'
<1> SUFFICES ASSUME IInv, NvicStore PROVE IInv'
  OBVIOUS
<1> USE Distinct
<1>1. /\ TypeInv /\ ProgramInv /\ HeldInv /\ BufferInv /\ HandlerInv
      /\ SelectInv /\ ConfigureInv /\ OffInv
      /\ Accounting /\ TriggerNotSwallowed
  BY DEF IInv
<1>2. /\ buffer' = Nothing
      /\ UNCHANGED <<reg, op, todo, held, handler, calls, owed, cause, selected, off, overlooked>>
  BY DEF NvicStore, Arrived, core
<1>3. buffer # Nothing /\ buffer.reg \in {ISER, ISPR}
  BY DEF NvicStore, Reaches
<1>4. PICK i \in IRQs, v \in 0..1 :
          buffer.word = Field(i, v) /\ (buffer.reg = ISER /\ v = 1 => i \notin off)
  BY <1>1, <1>3 DEF BufferInv
<1>5. DOMAIN buffer.word = {i} /\ buffer.word[i] = v
  BY <1>4, OverNothing
<1>6. {k \in DOMAIN buffer.word : buffer.word[k] = 1} = IF v = 1 THEN {i} ELSE {}
  BY <1>5
<1> DEFINE on == IF v = 1 THEN {i} ELSE {}
           out == {i} \ on
<1>7. IF buffer.reg = ISER
      THEN enabled' = (enabled \union on) \ out /\ pending' = pending
      ELSE enabled' = enabled /\ pending' = (pending \union on) \ (out \ Asserted(reg))
  BY <1>5, <1>6 DEF NvicStore
<1>8. TypeInv'
  <2>1. enabled' \subseteq IRQs /\ pending' \subseteq IRQs
    BY <1>1, <1>7 DEF TypeInv
  <2> QED
    BY <1>1, <1>2, <2>1 DEF TypeInv
<1>9. /\ ProgramInv'
      /\ \A l : Between(l)' <=> Between(l)
      /\ (At5' <=> At5) /\ (At4' <=> At4) /\ (At3' <=> At3) /\ (At2' <=> At2) /\ (At1' <=> At1)
      /\ (AtEnable' <=> AtEnable) /\ (AtBarrier' <=> AtBarrier)
  BY <1>1, <1>2, SamePlace
<1>10. ~At4 /\ ~At3 /\ ~At2 /\ ~At1
  BY <1>1, <1>3 DEF ConfigureInv, OnItsWay
<1>11. HeldInv' /\ BufferInv' /\ HandlerInv'
  BY <1>1, <1>2, <1>3 DEF HeldInv, OnItsWay, BufferInv, HandlerInv
<1>12. SelectInv' /\ ConfigureInv'
  BY <1>1, <1>2, <1>9, <1>10 DEF SelectInv, Selects, CauseFits, ConfigureInv
<1>13. OffInv'
  <2>1. off' \intersect enabled' = {}
    BY <1>1, <1>2, <1>4, <1>7 DEF OffInv
  <2>2. AtBarrier => op.on \notin enabled'
    <3>1. CASE buffer.reg = ISER
      <4> SUFFICES ASSUME AtBarrier PROVE op.on \notin enabled'
        OBVIOUS
      <4>1. buffer.word = Field(op.on, 0)
        BY <1>1, <1>3, <3>1 DEF OffInv, Reaches
      <4>2. DOMAIN Field(op.on, 0) = {op.on} /\ Field(op.on, 0)[op.on] = 0
        BY OverNothing
      <4>3. i = op.on /\ v = 0
        BY <1>5, <4>1, <4>2
      <4> QED
        BY <1>7, <3>1, <4>3
    <3>2. CASE buffer.reg = ISPR
      BY <1>1, <1>7, <3>2 DEF OffInv, Reaches
    <3> QED
      BY <1>3, <3>1, <3>2
  <2> QED
    BY <1>1, <1>2, <1>9, <2>1, <2>2 DEF OffInv, Reaches
<1>14. Accounting' /\ TriggerNotSwallowed'
  BY <1>1, <1>2, <1>3
     DEF Accounting, Uncleared, HandlersClear, Reaches, Counting, HandlerAt, TriggerNotSwallowed
<1> QED
  BY <1>8, <1>9, <1>11, <1>12, <1>13, <1>14 DEF IInv
-----------------------------------------------------------------------------
(* Accesses of the main program.                                            *)

\* The accesses that a call is made of, by what they do.
LEMMA MainAccess ==
    ASSUME ProgramInv, todo["main"] # << >>
    PROVE  /\ Access("main").kind = "rmw" => Access("main").reg \in {IMR, RTSR, FTSR, SWIER}
           /\ Access("main").kind = "barrier" => AtBarrier
<1>1. \A r : \A s : /\ Rmw(r, s).kind = "rmw" /\ Rmw(r, s).reg = r
                /\ Put(r, s).kind = "put" /\ Put(r, s).kind # "rmw" /\ Barrier.kind = "barrier"
  BY DEF Rmw, Put, Barrier
<1>2. \/ \E r \in {IMR, RTSR, FTSR, SWIER} : \E s : Head(todo["main"]) = Rmw(r, s)
      \/ \E r, s : Head(todo["main"]) = Put(r, s)
      \/ AtBarrier /\ Head(todo["main"]) = Barrier
  <2>1. CASE At5 \/ At4 \/ At3 \/ At2 \/ At1
    BY <2>1, Rests
       DEF At5, At4, At3, At2, At1, Configuring, Masks, Rises, Falls, Clears, Unmasks
  <2>2. CASE \/ OneLine("mask", Masks(op.on))
             \/ OneLine("unmask", Unmasks(op.on))
             \/ OneLine("trigger", Rmw(SWIER, Field(op.on, 1)))
             \/ OneLine("clear", Clears(op.on))
    BY <2>2, Single DEF OneLine, Masks, Unmasks, Clears
  <2>3. CASE AtEnable \/ AtDisable \/ AtBarrier
    BY <2>3, Single, Pair DEF AtEnable, AtDisable, AtBarrier, OneIrq
  <2>4. CASE \/ OneIrq("pendIrq", Put(ISPR, Field(op.on, 1)))
             \/ OneIrq("unpendIrq", Put(ISPR, Field(op.on, 0)))
    BY <2>4, Single DEF OneIrq
  <2> QED
    BY <2>1, <2>2, <2>3, <2>4 DEF ProgramInv
<1> QED
  BY <1>1, <1>2 DEF Access

\* The handler has one access to make, a store.
LEMMA HandlerAccess ==
    ASSUME HandlerInv, todo["handler"] # << >>
    PROVE  /\ Access("handler") = Clears(ServedLine(handler.irqn))
           /\ Tail(todo["handler"]) = << >>
           /\ Access("handler").kind = "put"
<1>1. todo["handler"] = <<Clears(ServedLine(handler.irqn))>>
  BY DEF HandlerInv
<1>2. /\ Head(todo["handler"]) = Clears(ServedLine(handler.irqn))
      /\ Tail(todo["handler"]) = << >>
  BY <1>1, Single
<1> QED
  BY <1>2 DEF Access, Clears, Put

\* How many accesses are left tells the steps of a configuration apart.
LEMMA Lengths ==
    /\ At5 => Len(todo["main"]) = 5
    /\ At4 => Len(todo["main"]) = 4
    /\ At3 => Len(todo["main"]) = 3
    /\ At2 => Len(todo["main"]) = 2
    /\ At1 => Len(todo["main"]) = 1
BY Rests, ZenonT(40) DEF At5, At4, At3, At2, At1, Configuring

\* As Lengths, after the step.
LEMMA NextLengths ==
    /\ At5' => Len(todo'["main"]) = 5
    /\ At4' => Len(todo'["main"]) = 4
    /\ At3' => Len(todo'["main"]) = 3
    /\ At2' => Len(todo'["main"]) = 2
    /\ At1' => Len(todo'["main"]) = 1
BY Rests, ZenonT(40) DEF At5, At4, At3, At2, At1, Configuring

\* A word is loaded.
LEMMA LoadInv == ASSUME IInv, NEW c \in Contexts, Load(c) PROVE IInv'
<1> USE Distinct
<1>1. /\ TypeInv /\ ProgramInv /\ HeldInv /\ BufferInv /\ HandlerInv
      /\ SelectInv /\ ConfigureInv /\ OffInv
      /\ Accounting /\ TriggerNotSwallowed
  BY DEF IInv
<1>2. /\ todo[c] # << >> /\ buffer = Nothing /\ Access(c).kind = "rmw"
      /\ held' = [held EXCEPT ![c] = reg[Access(c).reg]]
      /\ UNCHANGED <<reg, enabled, pending, op, todo, handler, buffer, calls,
                     owed, cause, selected, off, overlooked>>
  BY DEF Load, Runs, ghosts
<1>3. c = "main"
  BY <1>1, <1>2, HandlerAccess DEF Contexts
<1>4. Access("main").reg \in {IMR, RTSR, FTSR, SWIER}
  BY <1>1, <1>2, <1>3, MainAccess
<1>5. /\ DOMAIN held' = Contexts /\ held'["handler"] = Nothing
      /\ held'["main"] = reg[Access("main").reg] /\ reg[Access("main").reg] \in [Lines -> 0..1]
  BY <1>1, <1>2, <1>3, <1>4 DEF TypeInv, HeldInv, Contexts, Regs
<1>6. TypeInv' /\ HandlerInv' /\ TriggerNotSwallowed'
  BY <1>1, <1>2, <1>5 DEF TypeInv, HandlerInv, TriggerNotSwallowed
<1>7. HeldInv'
  BY <1>2, <1>3, <1>4, <1>5 DEF HeldInv, Access, OnItsWay
<1>8. /\ ProgramInv'
      /\ \A l : Between(l)' <=> Between(l)
      /\ (At5' <=> At5) /\ (At4' <=> At4) /\ (At3' <=> At3) /\ (At2' <=> At2) /\ (At1' <=> At1)
      /\ (AtEnable' <=> AtEnable) /\ (AtBarrier' <=> AtBarrier)
  BY <1>1, <1>2, SamePlace
<1>9. BufferInv' /\ OffInv'
  BY <1>1, <1>2, <1>8 DEF BufferInv, OffInv, Reaches
<1>10. SelectInv'
  BY <1>1, <1>2, <1>8 DEF SelectInv, Selects, CauseFits
<1>11. ConfigureInv'
  BY <1>1, <1>2, <1>8 DEF ConfigureInv, OnItsWay, Reaches, Selects, CauseFits
<1>12. Accounting'
  BY <1>1, <1>2 DEF Accounting, Uncleared, HandlersClear, Reaches, Counting, HandlerAt
<1> QED
  BY <1>6, <1>7, <1>8, <1>9, <1>10, <1>11, <1>12 DEF IInv

\* A store of the main program leaves: what does not depend on the store.
LEMMA Issued ==
    ASSUME IInv, Store("main")
    PROVE  /\ todo["main"] # << >> /\ buffer = Nothing
           /\ handler.irqn = None /\ todo["handler"] = << >>
           /\ todo'["main"] = Tail(todo["main"]) /\ todo'["handler"] = << >> /\ DOMAIN todo' = Contexts
           /\ held'["main"] = Nothing /\ held'["handler"] = Nothing /\ DOMAIN held' = Contexts
           /\ UNCHANGED <<reg, enabled, pending, op, handler, calls, owed, cause>>
           /\ buffer' = [reg |-> Access("main").reg,
                         word |-> Over(Access("main").set, held["main"]),
                         names |-> DOMAIN Access("main").set, by |-> "main"]
           /\ buffer' # Nothing /\ buffer'.by = "main"
           /\ Access("main").kind = "put" \/ (Access("main").kind = "rmw" /\ held["main"] # Nothing)
           /\ off' = off
           /\ overlooked' \subseteq Lines /\ overlooked \subseteq overlooked'
           /\ OneLine("unmask", Unmasks(op.on)) /\ reg[SWIER][op.on] = 1 => op.on \in overlooked'
           /\ selected' = IF At1 THEN [selected EXCEPT ![op.on] = op.edge] ELSE selected
           /\ HeldInv' /\ HandlerInv' /\ Accounting' /\ TriggerNotSwallowed'
<1>1. /\ TypeInv /\ ProgramInv /\ HeldInv /\ BufferInv /\ HandlerInv
      /\ Accounting /\ TriggerNotSwallowed
  BY DEF IInv
<1>2. /\ todo["main"] # << >> /\ buffer = Nothing /\ handler.irqn = None
      /\ Access("main").kind = "put" \/ (Access("main").kind = "rmw" /\ held["main"] # Nothing)
      /\ buffer' = [reg |-> Access("main").reg,
                    word |-> Over(Access("main").set, held["main"]),
                    names |-> DOMAIN Access("main").set, by |-> "main"]
      /\ todo' = [todo EXCEPT !["main"] = Tail(todo["main"])]
      /\ held' = [held EXCEPT !["main"] = Nothing]
      /\ UNCHANGED <<reg, enabled, pending, op, handler, calls, owed, cause>>
  BY <1>1 DEF Store, Runs, Advance, TypeInv, Contexts
<1>3. todo["handler"] = << >>
  BY <1>1, <1>2, Vectors DEF HandlerInv
<1>4. /\ todo'["main"] = Tail(todo["main"]) /\ todo'["handler"] = << >> /\ DOMAIN todo' = Contexts
      /\ held'["main"] = Nothing /\ held'["handler"] = Nothing /\ DOMAIN held' = Contexts
  BY <1>1, <1>2, <1>3 DEF TypeInv, Contexts, HeldInv
<1>5. buffer' # Nothing /\ buffer'.by = "main"
  BY <1>2, Something
<1>6. ~AtBarrier
  BY <1>2, Single DEF AtBarrier, OneIrq, Access, Barrier
<1>7. (op.fn = "configure" /\ Len(todo["main"]) = 1) <=> At1
  <2>1. op.fn = "configure" /\ Len(todo["main"]) = 1 => At1
    BY <1>1, <1>2, Lengths DEF ProgramInv, OneLine, OneIrq, AtEnable, AtDisable, AtBarrier
  <2> QED
    BY <2>1, Lengths DEF At1, Configuring
<1>8. ~(Len(todo["main"]) = 1 /\ op.fn = "disableIrq")
  <2>1. AtDisable => Len(todo["main"]) = 2
    BY Pair DEF AtDisable
  <2> QED
    BY <1>1, <1>2, <1>6, <2>1
       DEF ProgramInv, At5, At4, At3, At2, At1, Configuring, OneLine, OneIrq, AtEnable
<1>9. off' = off /\ selected' = IF At1 THEN [selected EXCEPT ![op.on] = op.edge] ELSE selected
  BY <1>7, <1>8 DEF Store, Advance
<1>12. /\ overlooked' \subseteq Lines /\ overlooked \subseteq overlooked'
       /\ OneLine("unmask", Unmasks(op.on)) /\ reg[SWIER][op.on] = 1 => op.on \in overlooked'
  <2>1. overlooked' = IF Len(todo["main"]) = 1 /\ op.fn = "unmask" /\ reg[SWIER][op.on] = 1
                      THEN overlooked \union {op.on} ELSE overlooked
    BY DEF Store, Advance
  <2>2. op.fn = "unmask" => op.on \in Lines
    BY <1>1, <1>2
       DEF ProgramInv, At5, At4, At3, At2, At1, Configuring, OneLine, OneIrq, AtEnable, AtDisable,
           AtBarrier
  <2>3. OneLine("unmask", Unmasks(op.on)) => Len(todo["main"]) = 1 /\ op.fn = "unmask"
    BY Single DEF OneLine
  <2> QED
    BY <1>1, <2>1, <2>2, <2>3 DEF TypeInv
<1>10. HeldInv' /\ HandlerInv' /\ TriggerNotSwallowed'
  BY <1>1, <1>2, <1>4, <1>12 DEF HeldInv, HandlerInv, TriggerNotSwallowed
<1>11. Accounting'
  <2> SUFFICES ASSUME NEW l \in Lines
               PROVE  owed'[l] = (IF Uncleared(l)' THEN 1 ELSE 0) + (IF Counting(l)' THEN 1 ELSE 0)
    BY DEF Accounting
  <2>1. ~HandlersClear(l) /\ ~HandlersClear(l)'
    BY <1>2, <1>5 DEF HandlersClear, Reaches
  <2>2. ~Counting(l) /\ ~Counting(l)'
    BY <1>2 DEF Counting, HandlerAt
  <2> QED
    BY <1>1, <1>2, <2>1, <2>2 DEF Accounting, Uncleared
<1> QED
  BY <1>2, <1>3, <1>4, <1>5, <1>9, <1>10, <1>11, <1>12

\* A store that follows a load replaces one field of the register.
LEMMA RmwIssued ==
    ASSUME IInv, Store("main"), NEW r \in {IMR, RTSR, FTSR, SWIER}, NEW l \in Lines, NEW v \in 0..1,
           Head(todo["main"]) = Rmw(r, Field(l, v))
    PROVE  /\ buffer'.reg = r /\ buffer'.names = {l} /\ buffer'.word \in [Lines -> 0..1]
           /\ r # SWIER => \A k \in Lines : buffer'.word[k] = IF k = l THEN v ELSE reg[r][k]
<1>1. Access("main").kind = "rmw" /\ Access("main").reg = r /\ Access("main").set = Field(l, v)
  BY DEF Access, Rmw
<1>2. held["main"] \in [Lines -> 0..1] /\ (r # SWIER => held["main"] = reg[r])
  BY <1>1, Issued DEF IInv, HeldInv
<1>3. buffer'.reg = r /\ buffer'.names = {l} /\ buffer'.word = Over(Field(l, v), held["main"])
  <2>1. buffer' = [reg |-> r, word |-> Over(Field(l, v), held["main"]),
                   names |-> DOMAIN Field(l, v), by |-> "main"]
    BY <1>1, Issued
  <2>2. DOMAIN Field(l, v) = {l}
    BY OverNothing
  <2> QED
    BY <2>1, <2>2
<1> QED
  BY <1>2, <1>3, OverWord

\* A store that follows no load has one field.
LEMMA PutIssued ==
    ASSUME IInv, Store("main"), NEW r, NEW x, NEW v, Head(todo["main"]) = Put(r, Field(x, v))
    PROVE  buffer'.reg = r /\ buffer'.names = {x} /\ buffer'.word = Field(x, v)
<1>1. Access("main").kind = "put" /\ Access("main").reg = r /\ Access("main").set = Field(x, v)
  BY DEF Access, Put
<1>2. held["main"] = Nothing
  BY <1>1, Issued DEF IInv, HeldInv
<1>3. buffer' = [reg |-> r, word |-> Over(Field(x, v), Nothing),
                 names |-> DOMAIN Field(x, v), by |-> "main"]
  BY <1>1, <1>2, Issued
<1>4. DOMAIN Field(x, v) = {x} /\ Over(Field(x, v), Nothing) = Field(x, v)
  BY OverNothing
<1> QED
  BY <1>3, <1>4

\* The last store of a call that is no configuration.
LEMMA LastStoreInv ==
    ASSUME IInv, Store("main"), op.fn # "configure", Tail(todo["main"]) = << >>, BufferInv'
    PROVE  IInv'
<1>1. TypeInv /\ SelectInv /\ OffInv
  BY DEF IInv
<1>2. todo'["main"] = << >>
  BY Issued
<1>3. ~At5 /\ ~At4 /\ ~At3 /\ ~At2 /\ ~At1
  BY DEF At5, At4, At3, At2, At1, Configuring
<1>4. ~At5' /\ ~At4' /\ ~At3' /\ ~At2' /\ ~At1' /\ ~AtEnable' /\ ~AtBarrier'
  BY <1>2, NextLengths, Single DEF AtEnable, AtBarrier, OneIrq
<1>5. TypeInv'
  BY <1>1, <1>3, Issued DEF TypeInv, Store, Advance
<1>6. SelectInv'
  BY <1>1, <1>3, <1>4, Issued DEF SelectInv, Between, Selects, CauseFits
<1>7. OffInv' /\ ConfigureInv' /\ ProgramInv'
  BY <1>1, <1>2, <1>4, Issued DEF OffInv, ConfigureInv, ProgramInv
<1> QED
  BY <1>5, <1>6, <1>7, Issued DEF IInv

\* The stores of a configuration.
LEMMA ConfigureStoreInv ==
    ASSUME IInv, Store("main"), At5 \/ At4 \/ At3 \/ At2 \/ At1
    PROVE  IInv'
<1> USE Distinct
<1>1. TypeInv /\ SelectInv /\ ConfigureInv /\ OffInv
  BY DEF IInv
<1>2. op.on \in Lines /\ op.edge \in Edges /\ op.fn = "configure"
  BY DEF At5, At4, At3, At2, At1, Configuring
<1>3. Rise(op.edge) \in 0..1 /\ Fall(op.edge) \in 0..1
  BY DEF Rise, Fall
<1>4. /\ buffer = Nothing /\ buffer' # Nothing /\ buffer'.by = "main"
      /\ todo'["main"] = Tail(todo["main"]) /\ DOMAIN todo' = Contexts /\ DOMAIN held' = Contexts
      /\ UNCHANGED <<reg, enabled, pending, op, handler, calls, owed, cause, off>>
      /\ selected' = IF At1 THEN [selected EXCEPT ![op.on] = op.edge] ELSE selected
      /\ overlooked' \subseteq Lines
  BY Issued
<1>5. TypeInv'
  BY <1>1, <1>2, <1>4 DEF TypeInv
<1>6. ~AtEnable' /\ ~AtBarrier'
  BY <1>2, <1>4 DEF AtEnable, AtBarrier, OneIrq
<1>7. OffInv'
  BY <1>1, <1>4, <1>6 DEF OffInv
<1> SUFFICES ProgramInv' /\ BufferInv' /\ SelectInv' /\ ConfigureInv'
  BY <1>5, <1>7, Issued DEF IInv
<1>8. CASE At5
  <2>1. Head(todo["main"]) = Masks(op.on) /\ Tail(todo["main"]) = Rest4(op.on, op.edge)
    BY <1>8, Rests DEF At5, Configuring
  <2>2. /\ buffer'.reg = IMR /\ buffer'.names = {op.on} /\ buffer'.word \in [Lines -> 0..1]
        /\ IsStore(IMR, op.on, 0)'
    BY <1>2, <1>4, <2>1, RmwIssued DEF Masks, IsStore
  <2>3. At4'
    BY <1>2, <1>4, <2>1 DEF At4, Configuring
  <2>4. Len(todo["main"]) = 5 /\ Len(todo'["main"]) = 4
    BY <1>4, <1>8, <2>1, Lengths, Rests
  <2>5. ~At3' /\ ~At2' /\ ~At1' /\ ~At3 /\ ~At2 /\ ~At1
    BY <2>4, Lengths, NextLengths
  <2>6. BufferInv'
    BY <1>2, <1>4, <2>2 DEF BufferInv, IsStore, Contexts
  <2>7. SelectInv'
    BY <1>1, <1>4, <2>5 DEF SelectInv, Between, Selects, CauseFits
  <2>8. ConfigureInv'
    BY <1>2, <1>4, <2>2, <2>5 DEF ConfigureInv, OnItsWay, Reaches, IsStore
  <2> QED
    BY <2>3, <2>6, <2>7, <2>8 DEF ProgramInv
<1>9. CASE At4
  <2>1. Head(todo["main"]) = Rises(op.on, op.edge) /\ Tail(todo["main"]) = Rest3(op.on, op.edge)
    BY <1>9, Rests DEF At4, Configuring
  <2>2. /\ buffer'.reg = RTSR /\ buffer'.names = {op.on} /\ buffer'.word \in [Lines -> 0..1]
        /\ IsStore(RTSR, op.on, Rise(op.edge))'
    BY <1>2, <1>3, <1>4, <2>1, RmwIssued DEF Rises, IsStore
  <2>3. At3'
    BY <1>2, <1>4, <2>1 DEF At3, Configuring
  <2>4. Len(todo["main"]) = 4 /\ Len(todo'["main"]) = 3
    BY <1>4, <1>9, <2>1, Lengths, Rests
  <2>5. ~At4' /\ ~At2' /\ ~At1' /\ ~At3 /\ ~At2 /\ ~At1
    BY <2>4, Lengths, NextLengths
  <2>6. BufferInv'
    BY <1>2, <1>4, <2>2, <2>3 DEF BufferInv, IsStore, Contexts
  <2>7. reg[IMR][op.on] = 0
    BY <1>1, <1>4, <1>9 DEF ConfigureInv, Reaches
  <2>8. SelectInv'
    BY <1>1, <1>4, <2>3, <2>5, <2>7 DEF SelectInv, Between, Selects, CauseFits
  <2>9. ConfigureInv'
    BY <1>2, <1>4, <2>2, <2>5 DEF ConfigureInv, OnItsWay, Reaches
  <2> QED
    BY <2>3, <2>6, <2>8, <2>9 DEF ProgramInv
<1>10. CASE At3
  <2>1. Head(todo["main"]) = Falls(op.on, op.edge) /\ Tail(todo["main"]) = Rest2(op.on)
    BY <1>10, Rests DEF At3, Configuring
  <2>2. /\ buffer'.reg = FTSR /\ buffer'.names = {op.on} /\ buffer'.word \in [Lines -> 0..1]
        /\ IsStore(FTSR, op.on, Fall(op.edge))'
    BY <1>2, <1>3, <1>4, <2>1, RmwIssued DEF Falls, IsStore
  <2>3. At2'
    BY <1>2, <1>4, <2>1 DEF At2, Configuring
  <2>4. Len(todo["main"]) = 3 /\ Len(todo'["main"]) = 2
    BY <1>4, <1>10, <2>1, Lengths, Rests
  <2>5. ~At4' /\ ~At3' /\ ~At1' /\ ~At4 /\ ~At2 /\ ~At1
    BY <2>4, Lengths, NextLengths
  <2>6. BufferInv'
    BY <1>2, <1>4, <2>2, <2>3 DEF BufferInv, IsStore, Contexts
  <2>7. reg[RTSR][op.on] = Rise(op.edge)
    BY <1>1, <1>4, <1>10 DEF ConfigureInv, Reaches
  <2>8. SelectInv'
    BY <1>1, <1>4, <1>10, <2>3, <2>5 DEF SelectInv, Between, Selects, CauseFits
  <2>9. ConfigureInv'
    BY <1>2, <1>4, <2>2, <2>5, <2>7 DEF ConfigureInv, OnItsWay, Reaches
  <2> QED
    BY <2>3, <2>6, <2>8, <2>9 DEF ProgramInv
<1>11. CASE At2
  <2>1. Head(todo["main"]) = Clears(op.on) /\ Tail(todo["main"]) = Rest1(op.on)
    BY <1>11, Rests DEF At2, Configuring
  <2>2. buffer'.reg = PR /\ buffer'.names = {op.on} /\ buffer'.word = Field(op.on, 1)
    BY <2>1, PutIssued DEF Clears
  <2>3. At1'
    BY <1>2, <1>4, <2>1 DEF At1, Configuring
  <2>4. Len(todo["main"]) = 2 /\ Len(todo'["main"]) = 1
    BY <1>4, <1>11, <2>1, Lengths, Rests
  <2>5. ~At4' /\ ~At3' /\ ~At2' /\ ~At4 /\ ~At3 /\ ~At1
    BY <2>4, Lengths, NextLengths
  <2>6. BufferInv'
    BY <1>2, <1>4, <2>2 DEF BufferInv, Contexts
  <2>7. Selects(op.on, op.edge)
    BY <1>1, <1>4, <1>11 DEF ConfigureInv, Reaches, Selects
  <2>8. SelectInv'
    BY <1>1, <1>4, <1>11, <2>3, <2>5 DEF SelectInv, Between, Selects, CauseFits
  <2>9. ConfigureInv'
    BY <1>2, <1>4, <2>2, <2>5, <2>7 DEF ConfigureInv, OnItsWay, Reaches, Selects
  <2> QED
    BY <2>3, <2>6, <2>8, <2>9 DEF ProgramInv
<1>12. CASE At1
  <2>1. Head(todo["main"]) = Unmasks(op.on) /\ Tail(todo["main"]) = << >>
    BY <1>12, Rests DEF At1, Configuring
  <2>2. /\ buffer'.reg = IMR /\ buffer'.names = {op.on} /\ buffer'.word \in [Lines -> 0..1]
        /\ IsStore(IMR, op.on, 1)'
    BY <1>2, <1>4, <2>1, RmwIssued DEF Unmasks, IsStore
  <2>3. Selects(op.on, op.edge) /\ CauseFits(op.on, op.edge) /\ reg[SWIER][op.on] = 0
    BY <1>1, <1>4, <1>12 DEF ConfigureInv, Reaches
  <2>4. todo'["main"] = << >> /\ Len(todo["main"]) = 1
    BY <1>4, <1>12, <2>1, Lengths
  <2>5. ~At4' /\ ~At3' /\ ~At2' /\ ~At1' /\ ~At3 /\ ~At2
    BY <2>4, Lengths, NextLengths
  <2>6. BufferInv'
    BY <1>2, <1>4, <2>2, <2>3 DEF BufferInv, IsStore, Contexts
  <2>7. \A l \in Lines : selected'[l] = IF l = op.on THEN op.edge ELSE selected[l]
    BY <1>1, <1>2, <1>4, <1>12 DEF TypeInv
  <2>8. SelectInv'
    BY <1>1, <1>4, <1>12, <2>3, <2>5, <2>7 DEF SelectInv, Between, Selects, CauseFits
  <2>9. ConfigureInv'
    BY <2>5 DEF ConfigureInv
  <2> QED
    BY <2>4, <2>6, <2>8, <2>9 DEF ProgramInv
<1> QED
  BY <1>8, <1>9, <1>10, <1>11, <1>12

\* A store of the main program leaves.
LEMMA MainStoreInv == IInv /\ Store("main") => IInv'
<1> SUFFICES ASSUME IInv, Store("main") PROVE IInv'
  OBVIOUS
<1> USE Distinct
<1>1. TypeInv /\ ProgramInv /\ SelectInv /\ ConfigureInv /\ OffInv
  BY DEF IInv
<1>2. /\ todo["main"] # << >> /\ buffer = Nothing /\ buffer' # Nothing /\ buffer'.by = "main"
      /\ todo'["main"] = Tail(todo["main"]) /\ DOMAIN todo' = Contexts /\ DOMAIN held' = Contexts
      /\ UNCHANGED <<reg, enabled, pending, op, handler, calls, owed, cause, off>>
      /\ Access("main").kind = "put" \/ (Access("main").kind = "rmw" /\ held["main"] # Nothing)
      /\ selected' = IF At1 THEN [selected EXCEPT ![op.on] = op.edge] ELSE selected
  BY Issued
<1>3. CASE At5 \/ At4 \/ At3 \/ At2 \/ At1
  BY <1>3, ConfigureStoreInv
<1>4. CASE OneLine("mask", Masks(op.on))
  <2>1. /\ op.on \in Lines /\ op.fn # "configure"
        /\ Head(todo["main"]) = Masks(op.on) /\ Tail(todo["main"]) = << >>
    BY <1>4, Single DEF OneLine
  <2>2. /\ buffer'.reg = IMR /\ buffer'.names = {op.on} /\ buffer'.word \in [Lines -> 0..1]
        /\ IsStore(IMR, op.on, 0)'
    BY <1>2, <2>1, RmwIssued DEF Masks, IsStore
  <2>3. BufferInv'
    BY <1>2, <2>1, <2>2 DEF BufferInv, IsStore, Contexts
  <2> QED
    BY <2>1, <2>3, LastStoreInv
<1>11. CASE OneLine("unmask", Unmasks(op.on))
  <2>1. /\ op.on \in Lines /\ op.fn # "configure"
        /\ Head(todo["main"]) = Unmasks(op.on) /\ Tail(todo["main"]) = << >>
    BY <1>11, Single DEF OneLine
  <2>2. /\ buffer'.reg = IMR /\ buffer'.names = {op.on} /\ buffer'.word \in [Lines -> 0..1]
        /\ IsStore(IMR, op.on, 1)'
    BY <1>2, <2>1, RmwIssued DEF Unmasks, IsStore
  <2>3. reg[SWIER][op.on] = 0 \/ op.on \in overlooked'
    <3>1. reg[SWIER][op.on] \in 0..1
      BY <1>1, <2>1 DEF TypeInv, Regs
    <3> QED
      BY <1>11, <3>1, Issued
  <2>4. BufferInv'
    BY <1>2, <2>1, <2>2, <2>3 DEF BufferInv, IsStore, Contexts
  <2> QED
    BY <2>1, <2>4, LastStoreInv
<1>5. CASE OneLine("trigger", Rmw(SWIER, Field(op.on, 1)))
  <2>1. /\ op.on \in Lines /\ op.fn # "configure"
        /\ Head(todo["main"]) = Rmw(SWIER, Field(op.on, 1)) /\ Tail(todo["main"]) = << >>
    BY <1>5, Single DEF OneLine
  <2>2. buffer'.reg = SWIER /\ buffer'.word \in [Lines -> 0..1]
    BY <2>1, RmwIssued
  <2>3. BufferInv'
    BY <1>2, <2>2 DEF BufferInv, Contexts
  <2> QED
    BY <2>1, <2>3, LastStoreInv
<1>6. CASE OneLine("clear", Clears(op.on))
  <2>1. /\ op.on \in Lines /\ op.fn # "configure"
        /\ Head(todo["main"]) = Clears(op.on) /\ Tail(todo["main"]) = << >>
    BY <1>6, Single DEF OneLine
  <2>2. buffer'.reg = PR /\ buffer'.names = {op.on} /\ buffer'.word = Field(op.on, 1)
    BY <2>1, PutIssued DEF Clears
  <2>3. BufferInv'
    BY <1>2, <2>1, <2>2 DEF BufferInv, Contexts
  <2> QED
    BY <2>1, <2>3, LastStoreInv
<1>7. CASE AtEnable
  <2>1. /\ op.on \in IRQs /\ op.fn # "configure" /\ op.on \notin off
        /\ Head(todo["main"]) = Put(ISER, Field(op.on, 1)) /\ Tail(todo["main"]) = << >>
    BY <1>1, <1>7, Single DEF AtEnable, OneIrq, OffInv
  <2>2. buffer'.reg = ISER /\ buffer'.word = Field(op.on, 1)
    BY <2>1, PutIssued
  <2>3. BufferInv'
    BY <1>2, <2>1, <2>2 DEF BufferInv, Contexts
  <2> QED
    BY <2>1, <2>3, LastStoreInv
<1>8. CASE AtDisable
  <2>1. /\ op.on \in IRQs /\ op.fn = "disableIrq"
        /\ Head(todo["main"]) = Put(ISER, Field(op.on, 0)) /\ Tail(todo["main"]) = <<Barrier>>
    BY <1>8, Pair DEF AtDisable
  <2>2. buffer'.reg = ISER /\ buffer'.word = Field(op.on, 0)
    BY <2>1, PutIssued
  <2>3. BufferInv'
    BY <1>2, <2>1, <2>2 DEF BufferInv, Contexts
  <2>4. AtBarrier' /\ ~AtEnable'
    BY <1>2, <2>1 DEF AtBarrier, AtEnable, OneIrq
  <2>5. ~At5' /\ ~At4' /\ ~At3' /\ ~At2' /\ ~At1' /\ ~At3 /\ ~At2 /\ ~At1
    BY <1>2, <2>1 DEF At5, At4, At3, At2, At1, Configuring
  <2>6. TypeInv'
    BY <1>1, <1>2, <2>5, Issued DEF TypeInv
  <2>7. SelectInv' /\ ConfigureInv'
    BY <1>1, <1>2, <2>5 DEF SelectInv, Between, Selects, CauseFits, ConfigureInv
  <2>8. OffInv'
    BY <1>1, <1>2, <2>2, <2>4 DEF OffInv, Reaches
  <2> QED
    BY <2>3, <2>4, <2>6, <2>7, <2>8, Issued DEF IInv, ProgramInv
<1>9. CASE AtBarrier
  BY <1>2, <1>9, Single DEF AtBarrier, OneIrq, Access, Barrier
<1>10. CASE \/ OneIrq("pendIrq", Put(ISPR, Field(op.on, 1)))
            \/ OneIrq("unpendIrq", Put(ISPR, Field(op.on, 0)))
  <2>1. PICK v \in 0..1 : /\ op.on \in IRQs /\ op.fn # "configure"
                          /\ todo["main"] = <<Put(ISPR, Field(op.on, v))>>
    BY <1>10 DEF OneIrq
  <2>2. /\ Head(todo["main"]) = Put(ISPR, Field(op.on, v)) /\ Tail(todo["main"]) = << >>
    BY <2>1, Single
  <2>3. buffer'.reg = ISPR /\ buffer'.word = Field(op.on, v)
    BY <2>2, PutIssued
  <2>4. BufferInv'
    BY <1>2, <2>1, <2>3 DEF BufferInv, Contexts
  <2> QED
    BY <2>1, <2>2, <2>4, LastStoreInv
<1> QED
  BY <1>1, <1>2, <1>3, <1>4, <1>5, <1>6, <1>7, <1>8, <1>9, <1>10, <1>11 DEF ProgramInv

\* The store of a handler leaves.
LEMMA HandlerStoreInv == IInv /\ Store("handler") => IInv'
<1> SUFFICES ASSUME IInv, Store("handler") PROVE IInv'
  OBVIOUS
<1> USE Distinct
<1> DEFINE line == ServedLine(handler.irqn)
<1>1. /\ TypeInv /\ ProgramInv /\ HeldInv /\ BufferInv /\ HandlerInv
      /\ SelectInv /\ ConfigureInv /\ OffInv
      /\ Accounting /\ TriggerNotSwallowed
  BY DEF IInv
<1>2. /\ todo["handler"] # << >> /\ buffer = Nothing
      /\ buffer' = [reg |-> Access("handler").reg,
                    word |-> Over(Access("handler").set, held["handler"]),
                    names |-> DOMAIN Access("handler").set, by |-> "handler"]
      /\ todo' = [todo EXCEPT !["handler"] = Tail(todo["handler"])]
      /\ held' = [held EXCEPT !["handler"] = Nothing]
      /\ UNCHANGED <<reg, enabled, pending, op, handler, calls, owed, cause, selected, off, overlooked>>
  BY <1>1 DEF Store, Runs, Advance, TypeInv, Contexts
<1>3. /\ handler.at = "count" /\ handler.irqn \in IRQs /\ line \in Lines /\ reg[PR][line] = 1
      /\ handler.irqn # None
  BY <1>1, <1>2, Vectors DEF HandlerInv
<1>4. Access("handler") = Clears(line) /\ Tail(todo["handler"]) = << >>
  BY <1>1, <1>2, HandlerAccess
<1>5. Access("handler").reg = PR /\ Access("handler").set = Field(line, 1) /\ held["handler"] = Nothing
  BY <1>1, <1>4 DEF Clears, Put, HeldInv
<1>6. /\ buffer'.reg = PR /\ buffer'.word = Field(line, 1) /\ buffer'.names = {line}
      /\ buffer'.by = "handler" /\ buffer' # Nothing
  <2>1. buffer' = [reg |-> PR, word |-> Over(Field(line, 1), Nothing),
                   names |-> DOMAIN Field(line, 1), by |-> "handler"]
    BY <1>2, <1>5
  <2>2. DOMAIN Field(line, 1) = {line} /\ Over(Field(line, 1), Nothing) = Field(line, 1)
    BY OverNothing
  <2> QED
    BY <2>1, <2>2, Something
<1>7. /\ todo'["main"] = todo["main"] /\ todo'["handler"] = << >> /\ DOMAIN todo' = Contexts
      /\ held'["main"] = held["main"] /\ held'["handler"] = Nothing /\ DOMAIN held' = Contexts
  BY <1>1, <1>2, <1>4, <1>5 DEF TypeInv, Contexts
<1>8. TypeInv' /\ HandlerInv' /\ TriggerNotSwallowed'
  BY <1>1, <1>2, <1>7 DEF TypeInv, HandlerInv, TriggerNotSwallowed
<1>9. /\ ProgramInv'
      /\ \A l : Between(l)' <=> Between(l)
      /\ (At5' <=> At5) /\ (At4' <=> At4) /\ (At3' <=> At3) /\ (At2' <=> At2) /\ (At1' <=> At1)
      /\ (AtEnable' <=> AtEnable) /\ (AtBarrier' <=> AtBarrier)
  BY <1>1, <1>2, <1>7
     DEF ProgramInv, Between, At5, At4, At3, At2, At1, Configuring, AtEnable, AtDisable, AtBarrier,
         OneLine, OneIrq
<1>10. HeldInv'
  BY <1>1, <1>2, <1>6, <1>7 DEF HeldInv, Access, OnItsWay
<1>11. BufferInv'
  BY <1>2, <1>3, <1>6 DEF BufferInv, Contexts
<1>12. SelectInv'
  BY <1>1, <1>2, <1>9 DEF SelectInv, Selects, CauseFits
<1>13. ConfigureInv'
  BY <1>1, <1>2, <1>6, <1>9 DEF ConfigureInv, OnItsWay, Reaches, Selects, CauseFits
<1>14. OffInv'
  BY <1>1, <1>2, <1>6, <1>9 DEF OffInv, Reaches
<1>15. Accounting'
  <2> SUFFICES ASSUME NEW l \in Lines
               PROVE  owed'[l] = (IF Uncleared(l)' THEN 1 ELSE 0) + (IF Counting(l)' THEN 1 ELSE 0)
    BY DEF Accounting
  <2>1. ~HandlersClear(l) /\ (HandlersClear(l)' <=> l = line)
    BY <1>2, <1>6 DEF HandlersClear, Reaches
  <2>2. ~Counting(l) /\ (Counting(l)' <=> l = line)
    BY <1>2, <1>3, <1>7 DEF Counting, HandlerAt
  <2> QED
    BY <1>1, <1>2, <1>3, <2>1, <2>2 DEF Accounting, Uncleared
<1> QED
  BY <1>8, <1>9, <1>10, <1>11, <1>12, <1>13, <1>14, <1>15 DEF IInv

\* nvicDisableIrq() gets past its barrier: its store has arrived.
LEMMA WaitForStoreInv == ASSUME IInv, NEW c \in Contexts, WaitForStore(c) PROVE IInv'
<1>1. /\ TypeInv /\ ProgramInv /\ HeldInv /\ BufferInv /\ HandlerInv
      /\ SelectInv /\ ConfigureInv /\ OffInv
      /\ Accounting /\ TriggerNotSwallowed
  BY DEF IInv
<1>2. todo[c] # << >> /\ buffer = Nothing /\ Access(c).kind = "barrier"
  BY DEF WaitForStore, Runs
<1>3. c = "main"
  BY <1>1, <1>2, HandlerAccess DEF Contexts
<1>4. AtBarrier
  BY <1>1, <1>2, <1>3, MainAccess
<1>5. /\ op.fn = "disableIrq" /\ op.on \in IRQs
      /\ todo["main"] # << >> /\ Tail(todo["main"]) = << >> /\ Len(todo["main"]) = 1
  BY <1>4, Single DEF AtBarrier, OneIrq
<1>6. /\ todo' = [todo EXCEPT !["main"] = << >>] /\ held' = [held EXCEPT !["main"] = Nothing]
      /\ selected' = selected /\ off' = off \union {op.on}
      /\ UNCHANGED <<reg, enabled, pending, op, handler, buffer, calls, owed, cause, overlooked>>
  BY <1>1, <1>3, <1>5 DEF WaitForStore, Advance, TypeInv, Contexts
<1>7. /\ todo'["main"] = << >> /\ todo'["handler"] = todo["handler"] /\ DOMAIN todo' = Contexts
      /\ held'["main"] = Nothing /\ held'["handler"] = held["handler"] /\ DOMAIN held' = Contexts
  BY <1>1, <1>6 DEF TypeInv, Contexts
<1>8. op.on \notin enabled
  BY <1>1, <1>2, <1>4 DEF OffInv, Reaches
<1>9. TypeInv'
  BY <1>1, <1>5, <1>6, <1>7 DEF TypeInv
<1>10. /\ ~At5 /\ ~At4 /\ ~At3 /\ ~At2 /\ ~At1
       /\ ~At5' /\ ~At4' /\ ~At3' /\ ~At2' /\ ~At1' /\ ~AtEnable' /\ ~AtBarrier'
  BY <1>5, <1>6, <1>7, Single
     DEF At5, At4, At3, At2, At1, Configuring, AtEnable, AtBarrier, OneIrq
<1>11. ProgramInv' /\ HeldInv' /\ BufferInv' /\ HandlerInv'
  BY <1>1, <1>2, <1>6, <1>7 DEF ProgramInv, HeldInv, BufferInv, HandlerInv
<1>12. SelectInv' /\ ConfigureInv'
  BY <1>1, <1>6, <1>10 DEF SelectInv, Between, Selects, CauseFits, ConfigureInv
<1>13. OffInv'
  BY <1>1, <1>6, <1>8, <1>10 DEF OffInv
<1>14. Accounting' /\ TriggerNotSwallowed'
  BY <1>1, <1>6, <1>7
     DEF Accounting, Uncleared, HandlersClear, Reaches, Counting, HandlerAt, TriggerNotSwallowed
<1> QED
  BY <1>9, <1>11, <1>12, <1>13, <1>14 DEF IInv

-----------------------------------------------------------------------------
(* Calls of the main program.                                               *)

\* A call begins: nothing has been accessed yet.
LEMMA CallInv ==
    ASSUME IInv, NEW fn, NEW on, NEW edge, NEW accesses, Call(fn, on, edge, accesses),
           ProgramInv', fn = "enableIrq" => on \in IRQs,
           ~At4' /\ ~At3' /\ ~At2' /\ ~At1' /\ ~AtBarrier'
    PROVE  IInv'
<1>1. /\ TypeInv /\ HeldInv /\ BufferInv /\ HandlerInv
      /\ SelectInv /\ ConfigureInv /\ OffInv
      /\ Accounting /\ TriggerNotSwallowed
  BY DEF IInv
<1>2. /\ todo["main"] = << >> /\ handler.irqn = None /\ calls < MaxCalls /\ calls' = calls + 1
      /\ op' = [fn |-> fn, on |-> on, edge |-> edge]
      /\ todo' = [todo EXCEPT !["main"] = accesses]
      /\ off' = IF fn = "enableIrq" THEN off \ {on} ELSE off
      /\ UNCHANGED <<reg, enabled, pending, held, buffer, handler, owed, cause, selected, overlooked>>
  BY DEF Call
<1>3. todo'["handler"] = todo["handler"] /\ DOMAIN todo' = Contexts /\ held["main"] = Nothing
  BY <1>1, <1>2 DEF TypeInv, Contexts, HeldInv
<1>4. ~At3 /\ ~At2 /\ ~At1
  BY <1>2, Rests DEF At3, At2, At1, Configuring
<1>5. TypeInv'
  <2>1. calls' \in 0..MaxCalls
    BY <1>1, <1>2, BoundsAssumption DEF TypeInv
  <2>2. off' \subseteq IRQs
    BY <1>1, <1>2 DEF TypeInv
  <2> QED
    BY <1>1, <1>2, <1>3, <2>1, <2>2 DEF TypeInv
<1>6. HeldInv' /\ HandlerInv'
  BY <1>1, <1>2, <1>3 DEF HeldInv, HandlerInv
<1>7. BufferInv'
  <2>1. ~(buffer # Nothing /\ buffer.reg \in {RTSR, FTSR})
    BY <1>1, <1>4, Distinct DEF BufferInv
  <2> QED
    BY <1>1, <1>2, <2>1 DEF BufferInv, IsStore
<1>8. SelectInv' /\ ConfigureInv'
  BY <1>1, <1>2, <1>4 DEF SelectInv, Between, Selects, CauseFits, ConfigureInv
<1>9. OffInv'
  <2>1. AtEnable' => fn = "enableIrq"
    BY <1>2 DEF AtEnable, OneIrq
  <2> QED
    BY <1>1, <1>2, <2>1 DEF OffInv
<1>10. Accounting' /\ TriggerNotSwallowed'
  BY <1>1, <1>2, <1>3
     DEF Accounting, Uncleared, HandlersClear, Reaches, Counting, HandlerAt, TriggerNotSwallowed
<1> QED
  BY <1>5, <1>6, <1>7, <1>8, <1>9, <1>10 DEF IInv

\* The main program keeps it.
LEMMA MainInv == IInv /\ Main => IInv'
<1> SUFFICES ASSUME IInv, Main PROVE IInv'
  OBVIOUS
<1> USE DEF Call
<1>1. DOMAIN todo = Contexts
  BY DEF IInv, TypeInv
<1>2. ASSUME NEW l \in Lines, Configure(l) PROVE IInv'
  <2>1. PICK e \in Edges : Call("configure", l, e, Rest5(l, e))
    BY <1>2, Programs DEF Configure
  <2>2. todo'["main"] = Rest5(l, e) /\ op' = [fn |-> "configure", on |-> l, edge |-> e]
    BY <1>1, <2>1 DEF Contexts
  <2>3. Len(todo'["main"]) = 5 /\ At5'
    BY <2>2, Rests DEF At5, Configuring
  <2>4. ~At4' /\ ~At3' /\ ~At2' /\ ~At1' /\ ~AtBarrier'
    BY <2>2, <2>3, NextLengths DEF AtBarrier, OneIrq
  <2> HIDE DEF Call
  <2> QED
    BY <2>1, <2>3, <2>4, CallInv DEF ProgramInv
<1>3. ASSUME NEW l \in Lines, Mask(l) \/ Unmask(l) \/ Trigger(l) \/ ClearLine(l) PROVE IInv'
  <2>1. PICK fn, a : /\ Call(fn, l, "RISING", <<a>>)
                     /\ \/ fn = "mask" /\ a = Masks(l)
                        \/ fn = "unmask" /\ a = Unmasks(l)
                        \/ fn = "trigger" /\ a = Rmw(SWIER, Field(l, 1))
                        \/ fn = "clear" /\ a = Clears(l)
    BY <1>3, Programs DEF Mask, Unmask, Trigger, ClearLine
  <2>2. todo'["main"] = <<a>> /\ op' = [fn |-> fn, on |-> l, edge |-> "RISING"]
    BY <1>1, <2>1 DEF Contexts
  <2>3. ProgramInv'
    BY <2>1, <2>2 DEF ProgramInv, OneLine
  <2>4. ~At4' /\ ~At3' /\ ~At2' /\ ~At1' /\ ~AtBarrier'
    BY <2>1, <2>2 DEF At4, At3, At2, At1, Configuring, AtBarrier, OneIrq
  <2>5. fn # "enableIrq"
    BY <2>1
  <2> HIDE DEF Call
  <2> QED
    BY <2>1, <2>3, <2>4, <2>5, CallInv
<1>4. ASSUME NEW i \in IRQs, EnableIrq(i) \/ PendIrq(i) \/ UnpendIrq(i) PROVE IInv'
  <2>1. PICK fn, a : /\ Call(fn, i, "RISING", <<a>>)
                     /\ \/ fn = "enableIrq" /\ a = Put(ISER, Field(i, 1))
                        \/ fn = "pendIrq" /\ a = Put(ISPR, Field(i, 1))
                        \/ fn = "unpendIrq" /\ a = Put(ISPR, Field(i, 0))
    BY <1>4, Programs DEF EnableIrq, PendIrq, UnpendIrq
  <2>2. todo'["main"] = <<a>> /\ op' = [fn |-> fn, on |-> i, edge |-> "RISING"]
    BY <1>1, <2>1 DEF Contexts
  <2>3. ProgramInv'
    BY <2>1, <2>2 DEF ProgramInv, OneIrq, AtEnable
  <2>4. ~At4' /\ ~At3' /\ ~At2' /\ ~At1' /\ ~AtBarrier'
    BY <2>1, <2>2 DEF At4, At3, At2, At1, Configuring, AtBarrier, OneIrq
  <2> HIDE DEF Call
  <2> QED
    BY <2>1, <2>3, <2>4, CallInv
<1>5. ASSUME NEW i \in IRQs, DisableIrq(i) PROVE IInv'
  <2>1. Call("disableIrq", i, "RISING", <<Put(ISER, Field(i, 0)), Barrier>>)
    BY <1>5, Programs DEF DisableIrq
  <2>2. /\ todo'["main"] = <<Put(ISER, Field(i, 0)), Barrier>>
        /\ op' = [fn |-> "disableIrq", on |-> i, edge |-> "RISING"]
    BY <1>1, <2>1 DEF Contexts
  <2>3. ProgramInv'
    BY <2>2 DEF ProgramInv, AtDisable
  <2>4. ~At4' /\ ~At3' /\ ~At2' /\ ~At1'
    BY <2>2 DEF At4, At3, At2, At1, Configuring
  <2>5. ~AtBarrier'
    <3>1. Len(todo'["main"]) = 2
      BY <2>2, Pair
    <3> QED
      BY <3>1, Single DEF AtBarrier, OneIrq
  <2> HIDE DEF Call
  <2> QED
    BY <2>1, <2>3, <2>4, <2>5, CallInv
<1> QED
  BY <1>2, <1>3, <1>4, <1>5 DEF Main
-----------------------------------------------------------------------------
(* Handlers.                                                                *)

\* A step of the NVIC or of a handler that makes no access.
LEMMA HandlerStep ==
    ASSUME IInv, UNCHANGED <<reg, enabled, op, held, buffer, calls, cause, selected, off, overlooked>>,
           todo'["main"] = todo["main"], DOMAIN todo' = Contexts
    PROVE  /\ ProgramInv' /\ HeldInv' /\ BufferInv' /\ SelectInv' /\ ConfigureInv' /\ OffInv'
           /\ TriggerNotSwallowed'
           /\ \A l : (HandlersClear(l)' <=> HandlersClear(l)) /\ (Uncleared(l)' <=> Uncleared(l))
           /\ /\ pending' \subseteq IRQs /\ owed' \in [Lines -> Int]
              /\ handler' \in [irqn : IRQs \union {None}, at : {"idle", "check", "count", "return"}]
              => TypeInv'
<1>1. /\ TypeInv /\ ProgramInv /\ HeldInv /\ BufferInv
      /\ SelectInv /\ ConfigureInv /\ OffInv /\ TriggerNotSwallowed
  BY DEF IInv
<1>2. /\ ProgramInv'
      /\ \A l : Between(l)' <=> Between(l)
      /\ (At5' <=> At5) /\ (At4' <=> At4) /\ (At3' <=> At3) /\ (At2' <=> At2) /\ (At1' <=> At1)
      /\ (AtEnable' <=> AtEnable) /\ (AtBarrier' <=> AtBarrier)
  BY <1>1
     DEF ProgramInv, Between, At5, At4, At3, At2, At1, Configuring, AtEnable, AtDisable, AtBarrier,
         OneLine, OneIrq
<1>3. HeldInv' /\ TriggerNotSwallowed'
  BY <1>1 DEF HeldInv, Access, OnItsWay, TriggerNotSwallowed
<1>4. BufferInv'
  BY <1>1, <1>2 DEF BufferInv, IsStore
<1>5. SelectInv'
  BY <1>1, <1>2 DEF SelectInv, Selects, CauseFits
<1>6. ConfigureInv'
  BY <1>1, <1>2 DEF ConfigureInv, OnItsWay, Reaches, Selects, CauseFits
<1>7. OffInv'
  BY <1>1, <1>2 DEF OffInv, Reaches
<1>8. \A l : (HandlersClear(l)' <=> HandlersClear(l)) /\ (Uncleared(l)' <=> Uncleared(l))
  BY DEF HandlersClear, Reaches, Uncleared
<1>9. /\ pending' \subseteq IRQs /\ owed' \in [Lines -> Int]
      /\ handler' \in [irqn : IRQs \union {None}, at : {"idle", "check", "count", "return"}]
      => TypeInv'
  BY <1>1 DEF TypeInv
<1> QED
  BY <1>2, <1>3, <1>4, <1>5, <1>6, <1>7, <1>8, <1>9

\* An interrupt is taken.
LEMMA TakeInv == ASSUME IInv, NEW i \in IRQs, Take(i) PROVE IInv'
<1>1. TypeInv /\ HandlerInv /\ Accounting
  BY DEF IInv
<1>2. /\ handler.irqn = None /\ handler' = [irqn |-> i, at |-> "check"]
      /\ pending' = pending \ {i}
      /\ UNCHANGED <<reg, enabled, op, todo, held, buffer, calls, owed, cause, selected, off, overlooked>>
  BY DEF Take, ghosts
<1>3. /\ ProgramInv' /\ HeldInv' /\ BufferInv' /\ SelectInv' /\ ConfigureInv' /\ OffInv'
      /\ TriggerNotSwallowed' /\ TypeInv' /\ \A l : Uncleared(l)' <=> Uncleared(l)
  BY <1>1, <1>2, HandlerStep DEF TypeInv
<1>4. HandlerInv'
  BY <1>1, <1>2, Vectors DEF HandlerInv
<1>5. Accounting'
  <2>1. \A l : ~Counting(l) /\ ~Counting(l)'
    BY <1>2 DEF Counting, HandlerAt
  <2> QED
    BY <1>1, <1>2, <1>3, <2>1 DEF Accounting
<1> QED
  BY <1>3, <1>4, <1>5 DEF IInv

\* The handler reads the pending register.
LEMMA CheckPendingInv == IInv /\ CheckPending => IInv'
<1> SUFFICES ASSUME IInv, CheckPending PROVE IInv'
  OBVIOUS
<1> DEFINE line == ServedLine(handler.irqn)
<1>1. TypeInv /\ HandlerInv /\ Accounting
  BY DEF IInv
<1>2. /\ handler.irqn \in IRQs /\ handler.irqn # None /\ handler.at = "check"
      /\ todo["handler"] = << >> /\ buffer = Nothing
      /\ UNCHANGED <<reg, enabled, pending, op, held, buffer, calls, owed, cause, selected, off, overlooked>>
  BY <1>1 DEF CheckPending, HandlerAt, ghosts, TypeInv
<1>3. line \in Lines
  BY <1>2, Vectors
<1>4. CASE reg[PR][line] = 1
  <2>1. /\ handler' = [handler EXCEPT !.at = "count"]
        /\ todo' = [todo EXCEPT !["handler"] = <<Clears(line)>>]
    BY <1>3, <1>4, Programs DEF CheckPending
  <2>2. /\ handler' = [irqn |-> handler.irqn, at |-> "count"]
        /\ todo'["main"] = todo["main"] /\ todo'["handler"] = <<Clears(line)>> /\ DOMAIN todo' = Contexts
    BY <1>1, <2>1 DEF TypeInv, Contexts
  <2>3. /\ ProgramInv' /\ HeldInv' /\ BufferInv' /\ SelectInv' /\ ConfigureInv' /\ OffInv'
        /\ TriggerNotSwallowed' /\ TypeInv' /\ \A l : Uncleared(l)' <=> Uncleared(l)
    BY <1>1, <1>2, <2>2, HandlerStep DEF TypeInv
  <2>4. HandlerInv'
    BY <1>2, <1>4, <2>2 DEF HandlerInv
  <2>5. Accounting'
    <3>1. \A l : ~Counting(l) /\ ~Counting(l)'
      BY <1>2, <2>2, Single DEF Counting, HandlerAt
    <3> QED
      BY <1>1, <1>2, <2>3, <3>1 DEF Accounting
  <2> QED
    BY <2>3, <2>4, <2>5 DEF IInv
<1>5. CASE reg[PR][line] # 1
  <2>1. handler' = [handler EXCEPT !.at = "return"] /\ todo' = todo
    BY <1>5 DEF CheckPending
  <2>2. handler' = [irqn |-> handler.irqn, at |-> "return"] /\ DOMAIN todo' = Contexts
    BY <1>1, <2>1 DEF TypeInv
  <2>3. /\ ProgramInv' /\ HeldInv' /\ BufferInv' /\ SelectInv' /\ ConfigureInv' /\ OffInv'
        /\ TriggerNotSwallowed' /\ TypeInv' /\ \A l : Uncleared(l)' <=> Uncleared(l)
    BY <1>1, <1>2, <2>1, <2>2, HandlerStep DEF TypeInv
  <2>4. HandlerInv'
    BY <1>2, <2>1, <2>2 DEF HandlerInv
  <2>5. Accounting'
    <3>1. \A l : ~Counting(l) /\ ~Counting(l)'
      BY <1>2, <2>2 DEF Counting, HandlerAt
    <3> QED
      BY <1>1, <1>2, <2>3, <3>1 DEF Accounting
  <2> QED
    BY <2>3, <2>4, <2>5 DEF IInv
<1> QED
  BY <1>4, <1>5

\* The handler counts the event.
LEMMA CountInv == IInv /\ Count => IInv'
<1> SUFFICES ASSUME IInv, Count PROVE IInv'
  OBVIOUS
<1> DEFINE line == ServedLine(handler.irqn)
<1>1. TypeInv /\ HandlerInv /\ Accounting
  BY DEF IInv
<1>2. /\ handler.irqn \in IRQs /\ handler.irqn # None /\ handler.at = "count"
      /\ todo["handler"] = << >>
      /\ handler' = [irqn |-> handler.irqn, at |-> "return"]
      /\ UNCHANGED <<reg, enabled, pending, op, todo, held, buffer, calls, cause, selected, off, overlooked>>
  BY <1>1 DEF Count, HandlerAt, TypeInv
<1>3. line \in Lines
  BY <1>2, Vectors
<1>4. owed' \in [Lines -> Int] /\ \A l \in Lines : owed'[l] = IF l = line THEN owed[l] - 1 ELSE owed[l]
  BY <1>1, <1>3 DEF Count, TypeInv
<1>5. /\ ProgramInv' /\ HeldInv' /\ BufferInv' /\ SelectInv' /\ ConfigureInv' /\ OffInv'
      /\ TriggerNotSwallowed' /\ TypeInv' /\ \A l : Uncleared(l)' <=> Uncleared(l)
  BY <1>1, <1>2, <1>4, HandlerStep DEF TypeInv
<1>6. HandlerInv'
  BY <1>1, <1>2 DEF HandlerInv
<1>7. Accounting'
  <2>1. \A l : (Counting(l) <=> l = line) /\ ~Counting(l)'
    BY <1>2 DEF Counting, HandlerAt
  <2> QED
    BY <1>1, <1>4, <1>5, <2>1 DEF Accounting
<1> QED
  BY <1>5, <1>6, <1>7 DEF IInv

\* The handler returns.
LEMMA ReturnInv == IInv /\ Return => IInv'
<1> SUFFICES ASSUME IInv, Return PROVE IInv'
  OBVIOUS
<1>1. TypeInv /\ HandlerInv /\ Accounting
  BY DEF IInv
<1>2. /\ handler.irqn \in IRQs /\ handler.at = "return" /\ todo["handler"] = << >>
      /\ handler' = [irqn |-> None, at |-> "idle"]
      /\ pending' = pending \union (Asserted(reg) \intersect {handler.irqn})
      /\ UNCHANGED <<reg, enabled, op, todo, held, buffer, calls, owed, cause, selected, off, overlooked>>
  BY <1>1 DEF Return, HandlerAt, ghosts, TypeInv
<1>3. /\ ProgramInv' /\ HeldInv' /\ BufferInv' /\ SelectInv' /\ ConfigureInv' /\ OffInv'
      /\ TriggerNotSwallowed' /\ TypeInv' /\ \A l : Uncleared(l)' <=> Uncleared(l)
  BY <1>1, <1>2, HandlerStep DEF TypeInv
<1>4. HandlerInv'
  BY <1>1, <1>2 DEF HandlerInv
<1>5. Accounting'
  <2>1. \A l : ~Counting(l) /\ ~Counting(l)'
    BY <1>2 DEF Counting, HandlerAt
  <2> QED
    BY <1>1, <1>2, <1>3, <2>1 DEF Accounting
<1> QED
  BY <1>3, <1>4, <1>5 DEF IInv

-----------------------------------------------------------------------------
(* What holds in every behaviour.                                           *)

LEMMA NextInv == IInv /\ [Next]_vars => IInv'
<1> SUFFICES ASSUME IInv, [Next]_vars PROVE IInv'
  OBVIOUS
<1>1. ASSUME NEW l \in Lines, NEW kind \in {"RISING", "FALLING"}, Edge(l, kind) PROVE IInv'
  BY <1>1, EdgeInv
<1>2. ASSUME Drain PROVE IInv'
  BY <1>2, PrStoreInv, SwierStoreInv, MaskOrEdgeStoreInv, NvicStoreInv DEF Drain
<1>3. ASSUME NEW c \in Contexts, Load(c) \/ Store(c) \/ WaitForStore(c) PROVE IInv'
  BY <1>3, LoadInv, MainStoreInv, HandlerStoreInv, WaitForStoreInv DEF Contexts
<1>4. ASSUME Main PROVE IInv'
  BY <1>4, MainInv
<1>5. ASSUME Handlers PROVE IInv'
  BY <1>5, TakeInv, CheckPendingInv, CountInv, ReturnInv DEF Handlers
<1>6. ASSUME UNCHANGED vars PROVE IInv'
  <2>1. UNCHANGED <<reg, enabled, pending, op, todo, held, buffer, handler, calls,
                    owed, cause, selected, off, overlooked>>
    BY <1>6 DEF vars, core, ghosts
  <2>2. TypeInv /\ HandlerInv /\ Accounting
    BY DEF IInv
  <2>3. /\ ProgramInv' /\ HeldInv' /\ BufferInv' /\ SelectInv' /\ ConfigureInv' /\ OffInv'
        /\ TriggerNotSwallowed' /\ TypeInv' /\ \A l : Uncleared(l)' <=> Uncleared(l)
    BY <2>1, <2>2, HandlerStep DEF TypeInv
  <2>4. HandlerInv' /\ Accounting'
    BY <2>1, <2>2, <2>3 DEF HandlerInv, Accounting, Counting, HandlerAt
  <2> QED
    BY <2>3, <2>4 DEF IInv
<1> QED
  BY <1>1, <1>2, <1>3, <1>4, <1>5, <1>6 DEF Next, Core

\* The inductive invariant holds in every behaviour.
THEOREM Invariance == Spec => []IInv
<1>1. IInv /\ [Next]_vars => IInv'
  BY NextInv
<1> QED
  BY InitInv, <1>1, PTL DEF Spec

(* Registers and latches keep to their ranges, a pending bit has a cause,   *)
(* and a line owes two events at most.                                      *)
THEOREM TypeCorrect == Spec => []TypeOK
<1>1. IInv => TypeOK
  <2> SUFFICES ASSUME IInv PROVE TypeOK
    OBVIOUS
  <2>1. TypeInv /\ Accounting
    BY DEF IInv
  <2>2. \A l \in Lines : owed[l] \in 0..2
    BY <2>1 DEF Accounting
  <2>3. owed \in [Lines -> 0..2]
    BY <2>1, <2>2 DEF TypeInv
  <2> QED
    BY <2>1, <2>3 DEF TypeInv, TypeOK, Regs
<1> QED
  BY Invariance, <1>1, PTL

(* smoke.c, extiCountLine(): each pending bit that was set is counted once, *)
(* or was cleared by the main program, however its store, the edges and the *)
(* handlers fall.                                                           *)
THEOREM EveryEventCounted == Spec => []Accounting
<1>1. IInv => Accounting
  BY DEF IInv
<1> QED
  BY Invariance, <1>1, PTL

(* exti.h, extiTriggerSoftware(): whatever the main program calls, a line  *)
(* keeps a trigger in SWIER that it is not pending for only if it was       *)
(* unmasked with that trigger already there.                                *)
THEOREM TriggersWork == Spec => []TriggerNotSwallowed
<1>1. IInv => TriggerNotSwallowed
  BY DEF IInv
<1> QED
  BY Invariance, <1>1, PTL

(* exti.h, extiConfigure(): a handler sees no edge that is not selected.    *)
THEOREM OnlySelectedEdges == Spec => NoStaleEvent
<1> DEFINE Step == HandlerAt("check") /\ handler'.at = "count" =>
                       LET l == ServedLine(handler.irqn)
                       IN  reg[IMR][l] = 1 =>
                               cause[l] = "software" \/ selected[l] \in {cause[l], "BOTH"}
<1>1. IInv /\ [Next]_vars => [Step]_vars
  <2> SUFFICES ASSUME IInv, Next, HandlerAt("check"), handler'.at = "count",
                      reg[IMR][ServedLine(handler.irqn)] = 1
               PROVE  LET l == ServedLine(handler.irqn)
                      IN  cause[l] = "software" \/ selected[l] \in {cause[l], "BOTH"}
    OBVIOUS
  <2>1. handler.irqn \in IRQs /\ handler.at = "check" /\ SelectInv
    BY DEF HandlerAt, IInv, TypeInv
  <2>2. ServedLine(handler.irqn) \in Lines
    BY <2>1, Vectors
  <2>3. CheckPending
    <3>1. ASSUME handler' = handler PROVE FALSE
      BY <2>1, <3>1
    <3>2. ASSUME NEW l \in Lines, NEW kind \in {"RISING", "FALLING"}, Edge(l, kind) PROVE FALSE
      BY <3>1, <3>2 DEF Edge, core
    <3>3. ASSUME Drain PROVE FALSE
      BY <3>1, <3>3
         DEF Drain, PrStore, SwierStore, MaskOrEdgeStore, NvicStore, Arrived, core
    <3>4. ASSUME Core PROVE FALSE
      BY <3>1, <3>4 DEF Core, Load, Store, WaitForStore, Advance
    <3>5. ASSUME Main PROVE FALSE
      BY <3>1, <3>5
         DEF Main, Configure, Mask, Unmask, Trigger, ClearLine, EnableIrq, DisableIrq, PendIrq, UnpendIrq, Call
    <3>6. ASSUME NEW i \in IRQs, Take(i) PROVE FALSE
      BY <3>6, <2>1 DEF Take, IInv, HandlerInv
    <3>7. ~Count /\ ~Return
      BY <2>1 DEF Count, Return, HandlerAt
    <3> QED
      BY <3>2, <3>3, <3>4, <3>5, <3>6, <3>7 DEF Next, Handlers
  <2>4. reg[PR][ServedLine(handler.irqn)] = 1
    BY <2>1, <2>3 DEF CheckPending, IInv, TypeInv
  <2> QED
    BY <2>1, <2>2, <2>4 DEF SelectInv, CauseFits
<1>2. NoStaleEvent <=> [][Step]_vars
  BY DEF NoStaleEvent
<1> QED
  BY Invariance, <1>1, <1>2, PTL DEF Spec

(* nvic.c, nvicSyncBarrier(): an interrupt that nvicDisableIrq() has        *)
(* reported off is not taken until it is enabled again.                     *)
THEOREM DisabledStaysOff == Spec => NotTakenAfterDisable
<1> DEFINE Step == \A i \in IRQs : handler.irqn # i /\ handler'.irqn = i => i \notin off
<1>1. IInv /\ [Next]_vars => [Step]_vars
  <2> SUFFICES ASSUME IInv, Next, NEW i \in IRQs, handler.irqn # i, handler'.irqn = i
               PROVE  i \notin off
    OBVIOUS
  <2>1. OffInv /\ handler \in [irqn : IRQs \union {None}, at : {"idle", "check", "count", "return"}]
    BY DEF IInv, TypeInv
  <2>2. ASSUME handler'.irqn = handler.irqn PROVE FALSE
    BY <2>2
  <2>3. ASSUME NEW l \in Lines, NEW kind \in {"RISING", "FALLING"}, Edge(l, kind) PROVE FALSE
    BY <2>2, <2>3 DEF Edge, core
  <2>4. ASSUME Drain PROVE FALSE
    BY <2>2, <2>4 DEF Drain, PrStore, SwierStore, MaskOrEdgeStore, NvicStore, Arrived, core
  <2>5. ASSUME Core PROVE FALSE
    BY <2>2, <2>5 DEF Core, Load, Store, WaitForStore, Advance
  <2>6. ASSUME Main PROVE FALSE
    BY <2>2, <2>6
       DEF Main, Configure, Mask, Unmask, Trigger, ClearLine, EnableIrq, DisableIrq, PendIrq, UnpendIrq, Call
  <2>7. ASSUME CheckPending \/ Count \/ Return PROVE FALSE
    BY <2>1, <2>2, <2>7, Vectors DEF CheckPending, Count, Return
  <2>8. PICK k \in IRQs : Take(k)
    BY <2>3, <2>4, <2>5, <2>6, <2>7 DEF Next, Handlers
  <2>9. k = i /\ i \in enabled
    BY <2>8 DEF Take, Ready
  <2> QED
    BY <2>1, <2>9 DEF OffInv
<1>2. NotTakenAfterDisable <=> [][Step]_vars
  BY DEF NotTakenAfterDisable
<1> QED
  BY Invariance, <1>1, <1>2, PTL DEF Spec
=============================================================================
