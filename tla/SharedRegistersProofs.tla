----------------------- MODULE SharedRegistersProofs -----------------------
(***************************************************************************)
(* Under the rules of docs/DESIGN.md, "Concurrency", two contexts that     *)
(* share registers see every access take effect at once: SharedRegisters   *)
(* implements AtomicRegisters, for any calls of the drivers and any        *)
(* number of them, if no pending bit is cleared inside                     *)
(* extiTriggerSoftware(); and, whether or not one is, the calls with       *)
(* several accesses have done what their headers say when they return.     *)
(*                                                                         *)
(* The first inductive invariant says that what an access under way has    *)
(* loaded is still what the register holds.  It rests on what each         *)
(* function is: the single stores and the toggle touch only registers that *)
(* no function reads, modifies and writes, and only a store to PR changes  *)
(* another such register.  The second one says that the accesses are made  *)
(* in order, and that the fields a pin's configuration has set stay as     *)
(* they are until it has set the last.                                     *)
(***************************************************************************)
EXTENDS SharedRegisters, TLAPS

\* The members of a sequence, and those of the lengths that occur.
Members(s) == {s[i] : i \in DOMAIN s}

LEMMA Members0 == << >> \in Seq(Members(<< >>)) /\ Members(<< >>) = {}
BY DEF Members

LEMMA Members1 ==
    ASSUME NEW a
    PROVE  <<a>> \in Seq(Members(<<a>>)) /\ Members(<<a>>) = {a}
BY DEF Members

LEMMA Members2 ==
    ASSUME NEW a, NEW b
    PROVE  <<a, b>> \in Seq(Members(<<a, b>>)) /\ Members(<<a, b>>) = {a, b}
BY DEF Members

LEMMA Members4 ==
    ASSUME NEW a, NEW b, NEW c, NEW d
    PROVE  <<a, b, c, d>> \in Seq(Members(<<a, b, c, d>>)) /\ Members(<<a, b, c, d>>) = {a, b, c, d}
BY DEF Members

LEMMA Members5 ==
    ASSUME NEW a, NEW b, NEW c, NEW d, NEW e
    PROVE  /\ <<a, b, c, d, e>> \in Seq(Members(<<a, b, c, d, e>>))
           /\ Members(<<a, b, c, d, e>>) = {a, b, c, d, e}
BY DEF Members

-----------------------------------------------------------------------------
(* What the accesses of a function are like.                                *)

\* The registers of the single stores, and what a barrier stands for.
Stored == {"ODR", "ISER", "ISPR", "IP", "PR", "barrier"}

\* The clock enables, and the functions that touch them.
ClockNames == {"AHB1ENR", "APB1ENR", "APB2ENR"}
ClockFns ==
    {"rccGpioClockEnable", "rccGpioClockDisable", "rccUsart2ClockEnable", "rccUsart2ClockDisable",
     "rccWwdgClockEnable", "rccWwdgClockDisable", "rccSyscfgClockEnable",
     "rccSyscfgClockDisable", "rccPwrClockEnable", "rccPwrClockDisable"}

\* `a` may be an access of the function `fn`.
Fits(fn, a) ==
    /\ a.kind \in {"rmw", "put", "flip", "readBack", "barrier"}
    /\ a.kind = "flip" => fn \in SingleOwner /\ a.reg[2] = "ODR"
    /\ a.kind = "rmw" => a.reg[2] \notin Stored
    /\ fn \in SingleStores \union SingleOwner => a.kind # "rmw" /\ a.reg[2] \in Stored
    /\ a.reg[2] \in ClockNames => fn \in ClockFns
    /\ a.reg[2] = "PR" => fn = "extiClearPending"
    /\ a.reg[2] = "SWIER" => fn = "extiTriggerSoftware"

WellMade(f) ==
    /\ f.accesses \in Seq(Members(f.accesses))
    /\ \A a \in Members(f.accesses) : Fits(f.fn, a)

\* A read-modify-write of a register that takes no single stores.
LEMMA RmwFits ==
    ASSUME NEW fn, fn \notin SingleStores \union SingleOwner,
           NEW block, NEW name, name \notin Stored, name \in ClockNames => fn \in ClockFns,
           name = "SWIER" => fn = "extiTriggerSoftware", NEW set
    PROVE  Fits(fn, Rmw(<<block, name>>, set))
BY DEF Fits, Rmw, Stored

\* A single store.
LEMMA PutFits ==
    ASSUME NEW fn \in SingleStores, NEW block, NEW name \in Stored,
           name = "PR" => fn = "extiClearPending", NEW set
    PROVE  Fits(fn, Put(<<block, name>>, set))
BY DEF Fits, Put, Stored, ClockNames

LEMMA WellMadeRefusal == \A fn : WellMade(Invalid(fn))
BY Members0 DEF WellMade, Invalid

\* A function that checks its arguments makes its accesses, or none.
LEMMA WellMadeChecked ==
    ASSUME NEW fn, NEW valid \in BOOLEAN, NEW s, valid => WellMade(Ok(fn, s))
    PROVE  WellMade(Checked(fn, valid, s))
BY WellMadeRefusal DEF Checked

\* Functions of one, two, four and five accesses.
LEMMA WellMade1 ==
    ASSUME NEW fn, NEW a, Fits(fn, a)
    PROVE  WellMade(Ok(fn, <<a>>))
BY Members1 DEF WellMade, Ok

LEMMA WellMade2 ==
    ASSUME NEW fn, NEW a, NEW b, Fits(fn, a), Fits(fn, b)
    PROVE  WellMade(Ok(fn, <<a, b>>))
BY Members2 DEF WellMade, Ok

LEMMA WellMade4 ==
    ASSUME NEW fn, NEW a, NEW b, NEW c, NEW d,
           Fits(fn, a), Fits(fn, b), Fits(fn, c), Fits(fn, d)
    PROVE  WellMade(Ok(fn, <<a, b, c, d>>))
BY Members4 DEF WellMade, Ok

LEMMA WellMade5 ==
    ASSUME NEW fn, NEW a, NEW b, NEW c, NEW d, NEW e,
           Fits(fn, a), Fits(fn, b), Fits(fn, c), Fits(fn, d), Fits(fn, e)
    PROVE  WellMade(Ok(fn, <<a, b, c, d, e>>))
BY Members5 DEF WellMade, Ok

\* The functions that turn a clock on or off.
LEMMA ClockCalls ==
    ASSUME NEW fn, fn \notin SingleStores \union SingleOwner,
           NEW block, NEW name, name \notin Stored, name # "SWIER", fn \in ClockFns, NEW bit
    PROVE  /\ WellMade(Ok(fn, ClockOn(<<block, name>>, bit)))
           /\ WellMade(Ok(fn, ClockOff(<<block, name>>, bit)))
<1>1. Fits(fn, Rmw(<<block, name>>, Field(bit, 1))) /\ Fits(fn, Rmw(<<block, name>>, Field(bit, 0)))
  BY RmwFits
<1>2. Fits(fn, ReadBack(<<block, name>>))
  BY DEF Fits, ReadBack, Stored
<1> QED
  BY <1>1, <1>2, WellMade1, WellMade2 DEF ClockOn, ClockOff

\* Every function is well made, driver by driver.
LEMMA RccCallsWellMade == \A f : IsRccCall(f) => WellMade(f)
<1> SUFFICES ASSUME NEW f, IsRccCall(f) PROVE WellMade(f)
  OBVIOUS
<1> USE DEF SingleStores, SingleOwner, Stored, ClockNames, ClockFns, AHB1ENR, APB1ENR, APB2ENR
<1>1. \A port : WellMade(rccGpioClockEnable(port)) /\ WellMade(rccGpioClockDisable(port))
  <2> TAKE port
  <2>1. WellMade(Ok("rccGpioClockEnable", ClockOn(<<"RCC", "AHB1ENR">>, port)))
        /\ WellMade(Ok("rccGpioClockDisable", ClockOff(<<"RCC", "AHB1ENR">>, port)))
    BY ClockCalls
  <2> QED
    BY <2>1, WellMadeRefusal DEF rccGpioClockEnable, rccGpioClockDisable, Checked
<1>2. WellMade(rccUsart2ClockEnable) /\ WellMade(rccUsart2ClockDisable)
  BY ClockCalls DEF rccUsart2ClockEnable, rccUsart2ClockDisable
<1>3. WellMade(rccWwdgClockEnable) /\ WellMade(rccWwdgClockDisable)
  BY ClockCalls DEF rccWwdgClockEnable, rccWwdgClockDisable
<1>4. WellMade(rccSyscfgClockEnable) /\ WellMade(rccSyscfgClockDisable)
  BY ClockCalls DEF rccSyscfgClockEnable, rccSyscfgClockDisable
<1>5. WellMade(rccPwrClockEnable) /\ WellMade(rccPwrClockDisable)
  BY ClockCalls DEF rccPwrClockEnable, rccPwrClockDisable
<1> QED
  BY <1>1, <1>2, <1>3, <1>4, <1>5 DEF IsRccCall

LEMMA GpioCallsWellMade == \A f : IsGpioCall(f) => WellMade(f)
<1> SUFFICES ASSUME NEW port, NEW pin \in Pins
             PROVE  /\ WellMade(gpioDeinit(port, pin)) /\ WellMade(gpioTogglePin(port, pin))
                    /\ \A level : WellMade(gpioWritePin(port, pin, level))
                    /\ \A af : WellMade(gpioSetAlternateFunction(port, pin, af))
                    /\ \A c : WellMade(gpioInit(port, pin, c))
  BY DEF IsGpioCall
<1> USE DEF SingleStores, SingleOwner, Stored, ClockNames, ClockFns
<1>1. \A fn \in {"gpioInit", "gpioDeinit", "gpioSetAlternateFunction"} : \A set :
          /\ Fits(fn, Rmw(MODER(port), set)) /\ Fits(fn, Rmw(OTYPER(port), set))
          /\ Fits(fn, Rmw(OSPEEDR(port), set)) /\ Fits(fn, Rmw(PUPDR(port), set))
          /\ Fits(fn, Rmw(AFR(port, pin), set))
  BY RmwFits DEF MODER, OTYPER, OSPEEDR, PUPDR, AFR
<1>2. WellMade(gpioDeinit(port, pin))
  BY <1>1, WellMade5 DEF gpioDeinit
<1>3. WellMade(gpioTogglePin(port, pin))
  <2>1. Fits("gpioTogglePin", Flip(ODR(port), pin))
    BY DEF Fits, Flip, ODR
  <2> QED
    BY <2>1, WellMade1 DEF gpioTogglePin
<1>4. \A level : WellMade(gpioWritePin(port, pin, level))
  BY PutFits, WellMade1 DEF gpioWritePin, ODR
<1>5. \A af : WellMade(gpioSetAlternateFunction(port, pin, af))
  <2> TAKE af
  <2>1. WellMade(Ok("gpioSetAlternateFunction", <<Rmw(AFR(port, pin), Field(pin % 8, af))>>))
    BY <1>1, WellMade1
  <2> QED
    BY <2>1, WellMadeChecked DEF gpioSetAlternateFunction
<1>6. \A c : WellMade(gpioInit(port, pin, c))
  <2> TAKE c
  <2>1. WellMade(Ok("gpioInit",
            <<Rmw(OTYPER(port), Field(pin, c.otype)), Rmw(OSPEEDR(port), Field(pin, c.ospeed)),
              Rmw(PUPDR(port), Field(pin, c.pupd)), Rmw(MODER(port), Field(pin, c.mode))>>))
    BY <1>1, WellMade4
  <2>2. ValidPinConfig(pin, c) \in BOOLEAN
    BY DEF ValidPinConfig
  <2> QED
    BY <2>1, <2>2, WellMadeChecked DEF gpioInit
<1> QED
  BY <1>2, <1>3, <1>4, <1>5, <1>6

LEMMA ExtiCallsWellMade == \A f : IsExtiCall(f) => WellMade(f)
<1> SUFFICES ASSUME NEW line \in 0..23
             PROVE  /\ WellMade(extiEnableInterrupt(line)) /\ WellMade(extiDisableInterrupt(line))
                    /\ WellMade(extiTriggerSoftware(line)) /\ WellMade(extiClearPending(line))
                    /\ \A port : WellMade(extiSelectPort(line, port))
                    /\ \A edge : WellMade(extiConfigure(line, edge))
  BY DEF IsExtiCall
<1> USE DEF SingleStores, SingleOwner, Stored, ClockNames, ClockFns
<1>1. \A set :
          /\ \A fn \in {"extiEnableInterrupt", "extiDisableInterrupt", "extiConfigure"} :
                 Fits(fn, Rmw(IMR, set)) /\ Fits(fn, Rmw(RTSR, set)) /\ Fits(fn, Rmw(FTSR, set))
          /\ Fits("extiTriggerSoftware", Rmw(SWIER, set))
  BY RmwFits DEF IMR, SWIER, RTSR, FTSR
<1>2. WellMade(Ok("extiEnableInterrupt", <<Rmw(IMR, Field(line, 1))>>))
  BY <1>1, WellMade1
<1>3. WellMade(Ok("extiDisableInterrupt", <<Rmw(IMR, Field(line, 0))>>))
  BY <1>1, WellMade1
<1>4. WellMade(Ok("extiTriggerSoftware", <<Rmw(SWIER, Field(line, 1))>>))
  BY <1>1, WellMade1
<1>5. WellMade(Ok("extiClearPending", <<Put(PR, Field(line, 1))>>))
  BY PutFits, WellMade1 DEF PR
<1>6. \A port : WellMade(extiSelectPort(line, port))
  <2> TAKE port
  <2>1. CASE ValidRoute(line, port)
    <3>1. line \div 4 + 1 \in 1..4
      BY <2>1 DEF ValidRoute, Pins
    <3>2. PICK name \in {"EXTICR1", "EXTICR2", "EXTICR3", "EXTICR4"} :
              EXTICR(line) = <<"SYSCFG", name>>
      BY <3>1 DEF EXTICR
    <3>3. WellMade(Ok("extiSelectPort", <<Rmw(<<"SYSCFG", name>>, Field(line % 4, port))>>))
      BY RmwFits, WellMade1
    <3> QED
      BY <2>1, <3>2, <3>3 DEF extiSelectPort, Checked
  <2>2. CASE ~ValidRoute(line, port)
    BY <2>2, WellMadeRefusal DEF extiSelectPort, Checked
  <2> QED
    BY <2>1, <2>2
<1>7. \A edge : WellMade(extiConfigure(line, edge))
  <2> TAKE edge
  <2>1. WellMade(Ok("extiConfigure",
            <<Rmw(RTSR, Field(line, IF edge = "FALLING" THEN 0 ELSE 1)),
              Rmw(FTSR, Field(line, IF edge = "RISING" THEN 0 ELSE 1))>>))
    BY <1>1, WellMade2
  <2> QED
    BY <2>1, WellMadeRefusal DEF extiConfigure, Checked
<1> QED
  BY <1>2, <1>3, <1>4, <1>5, <1>6, <1>7, WellMadeRefusal
  DEF extiEnableInterrupt, extiDisableInterrupt, extiTriggerSoftware, extiClearPending, Checked

LEMMA NvicCallsWellMade == \A f : IsNvicCall(f) => WellMade(f)
<1> USE DEF SingleStores, SingleOwner, Stored, ClockNames, ClockFns
<1>1. \A fn \in SingleStores : \A set :
          /\ Fits(fn, Put(ISER, set)) /\ Fits(fn, Put(ISPR, set))
          /\ Fits(fn, Put(IP, set)) /\ Fits(fn, Barrier)
  <2> SUFFICES ASSUME NEW fn \in SingleStores, NEW set
               PROVE  /\ Fits(fn, Put(ISER, set)) /\ Fits(fn, Put(ISPR, set))
                      /\ Fits(fn, Put(IP, set)) /\ Fits(fn, Barrier)
    OBVIOUS
  <2>1. Fits(fn, Put(ISER, set)) /\ Fits(fn, Put(ISPR, set)) /\ Fits(fn, Put(IP, set))
    BY PutFits DEF ISER, ISPR, IP
  <2>2. Fits(fn, Barrier)
    BY DEF Fits, Barrier
  <2> QED
    BY <2>1, <2>2
<1>2. ASSUME NEW irqn
      PROVE  /\ WellMade(nvicEnableIrq(irqn)) /\ WellMade(nvicDisableIrq(irqn))
             /\ WellMade(nvicSetPending(irqn)) /\ WellMade(nvicClearPending(irqn))
  <2>1. WellMade(Ok("nvicEnableIrq", <<Put(ISER, Field(irqn, 1))>>))
    BY <1>1, WellMade1
  <2>2. WellMade(Ok("nvicDisableIrq", <<Put(ISER, Field(irqn, 0)), Barrier>>))
    BY <1>1, WellMade2
  <2>3. WellMade(Ok("nvicSetPending", <<Put(ISPR, Field(irqn, 1))>>))
    BY <1>1, WellMade1
  <2>4. WellMade(Ok("nvicClearPending", <<Put(ISPR, Field(irqn, 0))>>))
    BY <1>1, WellMade1
  <2> QED
    BY <2>1, <2>2, <2>3, <2>4, WellMadeRefusal
    DEF nvicEnableIrq, nvicDisableIrq, nvicSetPending, nvicClearPending, Checked
<1>3. ASSUME NEW irqn, NEW priority PROVE WellMade(nvicSetPriority(irqn, priority))
  <2>1. WellMade(Ok("nvicSetPriority", <<Put(IP, Field(irqn, priority))>>))
    BY <1>1, WellMade1
  <2> QED
    BY <2>1, WellMadeRefusal DEF nvicSetPriority, Checked
<1>4. ASSUME NEW handler \in SystemHandlers, NEW priority
      PROVE  WellMade(nvicSetSystemHandlerPriority(handler, priority))
  <2>1. PICK name \in {"SHPR1", "SHPR2", "SHPR3"} : ShprOf(handler) = <<"SCB", name>>
    BY DEF ShprOf, SystemHandlers
  <2>2. WellMade(Ok("nvicSetSystemHandlerPriority", <<Rmw(<<"SCB", name>>, Field(handler, priority))>>))
    BY RmwFits, WellMade1
  <2> QED
    BY <2>1, <2>2, WellMadeRefusal DEF nvicSetSystemHandlerPriority, Checked
<1> QED
  BY <1>2, <1>3, <1>4 DEF IsNvicCall

LEMMA CallsWellMade == \A f : IsCall(f) \/ f = Ok("none", << >>) => WellMade(f)
<1> SUFFICES ASSUME NEW f, IsCall(f) \/ f = Ok("none", << >>) PROVE WellMade(f)
  OBVIOUS
<1> USE DEF SingleStores, SingleOwner, Stored, ClockNames, ClockFns
<1>1. WellMade(Ok("none", << >>))
  BY Members0 DEF WellMade, Ok
<1>2. WellMade(faultEnable)
  BY RmwFits, WellMade2 DEF faultEnable, SHCSR, CCR
<1>3. WellMade(iwdgFreezeInDebug) /\ WellMade(wwdgFreezeInDebug)
  BY RmwFits, WellMade1 DEF iwdgFreezeInDebug, wwdgFreezeInDebug, APB1_FZ
<1> QED
  BY <1>1, <1>2, <1>3, RccCallsWellMade, GpioCallsWellMade, ExtiCallsWellMade, NvicCallsWellMade
  DEF IsCall

-----------------------------------------------------------------------------
(* The inductive invariant.                                                 *)

RegInv ==
    /\ DOMAIN reg = Registers
    /\ \A r \in Registers : Fields(r) \subseteq DOMAIN reg[r]

\* A context makes one of its calls, and what is left of it are accesses of it.
CallInv ==
    /\ DOMAIN call = Contexts /\ DOMAIN todo = Contexts /\ DOMAIN held = Contexts
    /\ \A c \in Contexts :
           /\ call[c] \in Calls[c] \union {Ok("none", << >>)}
           /\ todo[c] \in Seq(Members(call[c].accesses))

\* The handler was let in by the rules.
NestInv == Busy("main") /\ Busy("handler") => Serialised(call["handler"], call["main"])

\* No handler clears pending bits inside the access.
Undisturbed(a) == a.reg = SWIER => ~OverlapTriggers

\* What an access has loaded is still what its register holds.
HeldCurrent(c) ==
    held[c] # Nothing =>
        /\ Busy(c)
        /\ Access(c).kind \in {"rmw", "flip"}
        /\ Access(c).kind = "rmw" /\ Undisturbed(Access(c)) => held[c] = reg[Access(c).reg]
        /\ Access(c).kind = "flip" =>
               held[c] = [f \in DOMAIN Access(c).set |-> reg[Access(c).reg][f]]

IInv == RegInv /\ CallInv /\ NestInv /\ \A c \in Contexts : HeldCurrent(c)

-----------------------------------------------------------------------------
(* What a store does to the registers.                                      *)

\* A register that is no trigger's changes on its own.
LEMMA AfterOther ==
    ASSUME NEW regs, NEW r, r # PR, r # SWIER, NEW written
    PROVE  After(regs, r, written) = [regs EXCEPT ![r] = Over(written, @)]
BY DEF After

\* No register and no field gets lost.
LEMMA AfterType ==
    ASSUME NEW regs, NEW r, NEW written
    PROVE  /\ DOMAIN After(regs, r, written) = DOMAIN regs
           /\ \A q \in DOMAIN regs : DOMAIN regs[q] \subseteq DOMAIN After(regs, r, written)[q]
<1> DEFINE new == After(regs, r, written)
<1>0. \A word : DOMAIN word \subseteq DOMAIN Over(written, word)
  BY DEF Over
<1>1. CASE r = PR
  BY <1>1, SMTT(30) DEF After
<1>2. CASE r = SWIER
  BY <1>0, <1>2, SMTT(30) DEF After, PR, SWIER
<1>3. CASE r # PR /\ r # SWIER
  <2>1. new = [regs EXCEPT ![r] = Over(written, @)]
    BY <1>3, AfterOther
  <2>2. DOMAIN new = DOMAIN regs
    BY <2>1
  <2>3. ASSUME NEW q \in DOMAIN regs PROVE DOMAIN regs[q] \subseteq DOMAIN new[q]
    <3>1. CASE q = r
      <4>1. new[q] = Over(written, regs[q])
        BY <2>1, <3>1
      <4> QED
        BY <1>0, <4>1
    <3>2. CASE q # r
      <4>1. new[q] = regs[q]
        BY <2>1, <3>2
      <4> QED
        BY <4>1
    <3> QED
      BY <3>1, <3>2
  <2> QED
    BY <2>2, <2>3
<1> QED
  BY <1>1, <1>2, <1>3

\* The other registers stay as they are, but for SWIER under a store to PR and
\* for PR under a store to SWIER.
LEMMA AfterFrame ==
    ASSUME NEW regs, NEW r, NEW written, NEW q \in DOMAIN regs, q # r,
           r = PR => q # SWIER, r = SWIER => q # PR
    PROVE  After(regs, r, written)[q] = regs[q]
BY DEF After

\* The word that a read-modify-write puts back, loaded from the register itself,
\* does what its fields do.
LEMMA AfterWord ==
    ASSUME NEW regs, NEW r, r # PR, NEW set
    PROVE  After(regs, r, Over(set, regs[r])) = After(regs, r, set)
<1>1. \A word : Over(Over(set, word), word) = Over(set, word)
  BY DEF Over
<1>2. CASE r # SWIER
  BY <1>1, <1>2, AfterOther
<1>3. CASE r = SWIER
  <2>1. \A f : regs[SWIER][f] = 0 =>
            (f \in Ones(Over(set, regs[SWIER])) <=> f \in Ones(set))
    BY DEF Ones, Over
  <2> DEFINE fired(written) == {f \in Ones(written) : regs[SWIER][f] = 0 /\ regs[IMR][f] = 1}
  <2>2. fired(Over(set, regs[SWIER])) = fired(set)
    BY <2>1
  <2>3. \A written : After(regs, SWIER, written) =
            [regs EXCEPT ![SWIER] = Over(written, @),
                         ![PR] = [f \in DOMAIN @ |-> IF f \in fired(written) THEN 1 ELSE @[f]]]
    BY DEF After, PR, SWIER
  <2> HIDE DEF fired
  <2> QED
    BY <1>1, <1>3, <2>2, <2>3
<1> QED
  BY <1>2, <1>3

\* Stores mean the same to AtomicRegisters.
LEMMA SameAfter ==
    \A regs, r, written : Atomic!After(regs, r, written) = After(regs, r, written)
BY DEF Atomic!After, After, Atomic!Over, Over, Atomic!Ones, Ones, Atomic!PR, PR,
       Atomic!SWIER, SWIER, Atomic!IMR, IMR

-----------------------------------------------------------------------------
\* The access a busy context is at, and the registers and fields it is about.
LEMMA AccessType ==
    ASSUME CallInv, NEW c \in Contexts, Busy(c)
    PROVE  /\ Access(c) \in Members(call[c].accesses)
           /\ call[c] \in Calls[c]
           /\ Access(c) \in AllAccesses
           /\ Access(c).reg \in Registers
           /\ DOMAIN Access(c).set \subseteq Fields(Access(c).reg)
           /\ Fits(call[c].fn, Access(c))
           /\ Tail(todo[c]) \in Seq(Members(call[c].accesses))
<1>1. Access(c) \in Members(call[c].accesses) /\ Tail(todo[c]) \in Seq(Members(call[c].accesses))
  BY DEF CallInv, Busy, Access
<1>2. call[c] \in Calls[c]
  <2>1. call[c] # Ok("none", << >>)
    BY <1>1, Members0 DEF Ok
  <2> QED
    BY <2>1 DEF CallInv
<1>3. Access(c) \in AllAccesses
  <2>1. Calls[c] \in {Calls[d] : d \in Contexts}
    OBVIOUS
  <2>2. call[c] \in UNION {Calls[d] : d \in Contexts}
    BY <2>1, <1>2
  <2> QED
    BY <2>2, <1>1 DEF AllAccesses, Members
<1>4. Access(c).reg \in Registers
  BY <1>3 DEF Registers
<1>5. DOMAIN Access(c).set \subseteq Fields(Access(c).reg)
  BY <1>3 DEF Fields
<1>6. Fits(call[c].fn, Access(c))
  BY <1>1, <1>2, CallsAssumption, CallsWellMade DEF WellMade
<1> QED
  BY <1>1, <1>2, <1>3, <1>4, <1>5, <1>6

LEMMA InitInv == Init => IInv
<1> SUFFICES ASSUME Init PROVE IInv
  OBVIOUS
<1>1. RegInv
  BY DEF Init, RegInv, AtReset
<1>2. CallInv
  BY Members0 DEF Init, CallInv, Ok
<1>3. NestInv /\ \A c \in Contexts : HeldCurrent(c)
  BY DEF Init, NestInv, Busy, HeldCurrent, Contexts
<1> QED
  BY <1>1, <1>2, <1>3 DEF IInv

\* A member of a call's accesses is about what the call touches.
LEMMA TouchedBy ==
    ASSUME NEW s, NEW a \in Members(s)
    PROVE  a.reg \in Touched(s) /\ \A x \in DOMAIN a.set : <<a.reg, x>> \in FieldsTouched(s)
<1>1. PICK i \in DOMAIN s : a = s[i]
  BY DEF Members
<1>2. a.reg \in Touched(s)
  BY <1>1 DEF Touched
<1>3. ASSUME NEW x \in DOMAIN a.set PROVE <<a.reg, x>> \in FieldsTouched(s)
  <2>1. <<a.reg, x>> \in {s[i].reg} \X DOMAIN s[i].set
    BY <1>1
  <2> QED
    BY <2>1 DEF FieldsTouched
<1> QED
  BY <1>2, <1>3

\* A store of the handler leaves alone what the main program has loaded.
LEMMA NoInterference ==
    ASSUME IInv, Busy("handler"), held["main"] # Nothing,
           NEW written, reg' = After(reg, Access("handler").reg, written),
           Access("handler").kind # "rmw" => DOMAIN written = DOMAIN Access("handler").set
    PROVE  /\ Access("main").kind = "rmw" /\ Undisturbed(Access("main")) =>
                  reg'[Access("main").reg] = reg[Access("main").reg]
           /\ Access("main").kind = "flip" =>
                  \A x \in DOMAIN Access("main").set :
                      reg'[Access("main").reg][x] = reg[Access("main").reg][x]
<1> DEFINE f == call["handler"]
           g == call["main"]
           a == Access("handler")
           b == Access("main")
<1> USE DEF Contexts
<1>1. Busy("main") /\ CallInv /\ RegInv /\ b.kind \in {"rmw", "flip"}
  BY DEF IInv, HeldCurrent
<1>2. /\ a \in Members(f.accesses) /\ f \in Calls["handler"] /\ Fits(f.fn, a)
      /\ b \in Members(g.accesses) /\ g \in Calls["main"] /\ Fits(g.fn, b)
      /\ b.reg \in Registers /\ DOMAIN b.set \subseteq Fields(b.reg)
  BY <1>1, AccessType
<1>3. Serialised(f, g)
  BY <1>1 DEF IInv, NestInv
<1>4. CASE a.reg # b.reg
  <2>1. a.reg = SWIER => b.reg # PR
    BY <1>1, <1>2 DEF Fits, PR, Stored
  <2>2. a.reg = PR /\ b.reg = SWIER => ~Undisturbed(b) /\ b.kind # "flip"
    <3> SUFFICES ASSUME a.reg = PR, b.reg = SWIER PROVE ~Undisturbed(b) /\ b.kind # "flip"
      OBVIOUS
    <3>1. f.fn = "extiClearPending" /\ g.fn = "extiTriggerSoftware" /\ b.kind # "flip"
      BY <1>2 DEF Fits, PR, SWIER
    <3> QED
      BY <1>3, <3>1 DEF Serialised, Undisturbed
  <2>3. CASE ~(a.reg = PR /\ b.reg = SWIER)
    <3>1. b.reg \in DOMAIN reg
      BY <1>1, <1>2 DEF RegInv
    <3>2. reg'[b.reg] = reg[b.reg]
      BY <1>4, <2>1, <2>3, <3>1, AfterFrame
    <3> QED
      BY <3>2
  <2> QED
    BY <2>2, <2>3
<1>5. CASE a.reg = b.reg
  <2>1. f.fn \in SingleStores \union SingleOwner
    <3>1. a.reg \in Touched(f.accesses) /\ a.reg \in Touched(g.accesses)
      BY <1>2, <1>5, TouchedBy
    <3> QED
      BY <1>3, <3>1 DEF Serialised
  <2>2. b.kind = "flip" /\ g.fn \in SingleOwner /\ b.reg[2] = "ODR" /\ a.kind # "rmw"
    <3>1. a.reg[2] \in Stored /\ a.kind # "rmw"
      BY <1>2, <2>1 DEF Fits
    <3>2. b.kind = "flip"
      BY <1>1, <1>2, <1>5, <3>1 DEF Fits
    <3> QED
      BY <1>2, <3>1, <3>2 DEF Fits
  <2>3. a.reg # PR /\ a.reg # SWIER
    BY <1>5, <2>2 DEF PR, SWIER
  <2>4. reg'[b.reg] = Over(written, reg[b.reg])
    <3>1. b.reg \in DOMAIN reg
      BY <1>1, <1>2 DEF RegInv
    <3> QED
      BY <1>5, <2>3, <3>1, AfterOther
  <2>5. ASSUME NEW x \in DOMAIN b.set PROVE reg'[b.reg][x] = reg[b.reg][x]
    <3>1. x \in DOMAIN reg[b.reg]
      BY <1>1, <1>2 DEF RegInv
    <3>2. <<b.reg, x>> \in FieldsTouched(g.accesses)
      BY <1>2, TouchedBy
    <3>3. x \notin DOMAIN a.set
      <4> SUFFICES ASSUME x \in DOMAIN a.set PROVE FALSE
        OBVIOUS
      <4>1. <<b.reg, x>> \in FieldsTouched(f.accesses)
        BY <1>2, <1>5, TouchedBy
      <4>2. FieldsTouched(g.accesses) \intersect FieldsTouched(f.accesses) = {}
        BY <1>2, <2>2, CallsAssumption
      <4> QED
        BY <3>2, <4>1, <4>2
    <3>4. x \notin DOMAIN written
      BY <2>2, <3>3
    <3> QED
      BY <2>4, <3>1, <3>4 DEF Over
  <2> QED
    BY <2>2, <2>5
<1> QED
  BY <1>4, <1>5

-----------------------------------------------------------------------------
(* Every step keeps the invariant.                                          *)

\* The end of an access, which either leaves the registers alone or gives the
\* fields it is about new values.
LEMMA AdvanceInv ==
    ASSUME IInv, NEW c \in Contexts, Runs(c), Busy(c), Advance(c),
           \/ reg' = reg
           \/ \E written : /\ reg' = After(reg, Access(c).reg, written)
                           /\ Access(c).kind # "rmw" => DOMAIN written = DOMAIN Access(c).set
    PROVE  IInv'
<1>1. RegInv'
  <2>1. CASE reg' = reg
    BY <2>1 DEF IInv, RegInv, Registers, Fields, AllAccesses
  <2>2. CASE reg' # reg
    <3>1. PICK written : reg' = After(reg, Access(c).reg, written)
      BY <2>2
    <3>2. DOMAIN reg' = Registers /\ \A q \in Registers : Fields(q) \subseteq DOMAIN reg'[q]
      BY <3>1, AfterType DEF IInv, RegInv
    <3> QED
      BY <3>2 DEF RegInv, Registers, Fields, AllAccesses
  <2> QED
    BY <2>1, <2>2
<1>2. CallInv'
  <2>1. Tail(todo[c]) \in Seq(Members(call[c].accesses))
    BY AccessType DEF IInv
  <2>2. todo' = [todo EXCEPT ![c] = Tail(@)] /\ held' = [held EXCEPT ![c] = Nothing] /\ call' = call
    BY DEF Advance
  <2>3. DOMAIN call' = Contexts /\ DOMAIN todo' = Contexts /\ DOMAIN held' = Contexts
    BY <2>2 DEF IInv, CallInv
  <2>4. ASSUME NEW d \in Contexts
        PROVE  /\ call'[d] \in Calls[d] \union {Ok("none", << >>)}
               /\ todo'[d] \in Seq(Members(call'[d].accesses))
    BY <2>1, <2>2 DEF IInv, CallInv
  <2> QED
    BY <2>3, <2>4 DEF CallInv
<1>3. \A d \in Contexts : d # c => todo'[d] = todo[d] /\ held'[d] = held[d]
  BY DEF Advance, IInv, CallInv
<1>4. NestInv'
  BY <1>3 DEF IInv, NestInv, Busy, Advance, Contexts
<1>5. HeldCurrent(c)'
  BY DEF HeldCurrent, Advance, IInv, CallInv
<1>6. ASSUME NEW d \in Contexts, d # c PROVE HeldCurrent(d)'
  <2> SUFFICES ASSUME held'[d] # Nothing PROVE HeldCurrent(d)'
    BY DEF HeldCurrent
  <2>1. held[d] # Nothing /\ HeldCurrent(d)
    BY <1>3, <1>6 DEF IInv
  <2>2. c = "handler" /\ d = "main"
    BY <2>1, <1>6 DEF Runs, HeldCurrent, Contexts
  <2>3. Access(d)' = Access(d) /\ Busy(d)' = Busy(d) /\ held'[d] = held[d]
    BY <1>3, <1>6 DEF Access, Busy
  <2>4. CASE reg' = reg
    BY <2>1, <2>3, <2>4 DEF HeldCurrent, Undisturbed
  <2>5. CASE reg' # reg
    <3>1. PICK written : /\ reg' = After(reg, Access(c).reg, written)
                         /\ Access(c).kind # "rmw" => DOMAIN written = DOMAIN Access(c).set
      BY <2>5
    <3>2. /\ Access(d).kind = "rmw" /\ Undisturbed(Access(d)) =>
                 reg'[Access(d).reg] = reg[Access(d).reg]
          /\ Access(d).kind = "flip" =>
                 \A x \in DOMAIN Access(d).set : reg'[Access(d).reg][x] = reg[Access(d).reg][x]
      BY <2>1, <2>2, <3>1, NoInterference
    <3> QED
      BY <2>1, <2>3, <3>2 DEF HeldCurrent, Undisturbed
  <2> QED
    BY <2>4, <2>5
<1> QED
  BY <1>1, <1>2, <1>4, <1>5, <1>6 DEF IInv

\* A context makes a call.
LEMMA BeginInv == ASSUME IInv, NEW c \in Contexts, Begin(c) PROVE IInv'
<1>1. PICK f \in Calls[c] :
          /\ \A d \in Contexts : d # c /\ Busy(d) => Serialised(f, call[d])
          /\ call' = [call EXCEPT ![c] = f]
          /\ todo' = [todo EXCEPT ![c] = f.accesses]
  BY DEF Begin
<1>2. f.accesses \in Seq(Members(f.accesses))
  BY CallsAssumption, CallsWellMade DEF WellMade
<1>3. RegInv'
  BY DEF Begin, IInv, RegInv, Registers, Fields, AllAccesses
<1>4. CallInv'
  <2>1. DOMAIN call' = Contexts /\ DOMAIN todo' = Contexts /\ DOMAIN held' = Contexts
    BY <1>1 DEF IInv, CallInv, Begin
  <2>2. ASSUME NEW d \in Contexts
        PROVE  /\ call'[d] \in Calls[d] \union {Ok("none", << >>)}
               /\ todo'[d] \in Seq(Members(call'[d].accesses))
    BY <1>1, <1>2 DEF IInv, CallInv
  <2> QED
    BY <2>1, <2>2 DEF CallInv
<1>5. NestInv'
  <2>1. CASE c = "handler"
    BY <1>1, <2>1 DEF IInv, CallInv, NestInv, Busy, Contexts
  <2>2. CASE c = "main"
    BY <1>1, <2>2 DEF Begin, Runs, IInv, CallInv, NestInv, Busy, Contexts
  <2> QED
    BY <2>1, <2>2 DEF Contexts
<1>6. ASSUME NEW d \in Contexts PROVE HeldCurrent(d)'
  <2>1. held[d] # Nothing => d # c
    BY DEF IInv, HeldCurrent, Begin
  <2>2. d # c => todo'[d] = todo[d]
    BY <1>1 DEF IInv, CallInv
  <2> QED
    BY <2>1, <2>2 DEF Begin, IInv, HeldCurrent, Busy, Access
<1> QED
  BY <1>3, <1>4, <1>5, <1>6 DEF IInv

\* An access loads its register.
LEMMA LoadInv == ASSUME IInv, NEW c \in Contexts, Load(c) PROVE IInv'
<1>1. RegInv'
  BY DEF Load, IInv, RegInv, Registers, Fields, AllAccesses
<1>2. CallInv'
  BY DEF Load, IInv, CallInv
<1>3. NestInv'
  BY DEF Load, IInv, NestInv, Busy
<1>4. ASSUME NEW d \in Contexts PROVE HeldCurrent(d)'
  <2>1. Access(d)' = Access(d) /\ Busy(d)' = Busy(d)
    BY DEF Load, Access, Busy
  <2>2. CASE d = c
    BY <2>1, <2>2 DEF Load, HeldCurrent, IInv, CallInv
  <2>3. CASE d # c
    BY <2>1, <2>3 DEF Load, HeldCurrent, IInv, CallInv
  <2> QED
    BY <2>2, <2>3
<1> QED
  BY <1>1, <1>2, <1>3, <1>4 DEF IInv

\* Executing an access, in whatever form, is what AtomicRegisters does at once.
Executes(c) == StoreRmw(c) \/ StorePut(c) \/ StoreFlip(c) \/ WaitForStores(c)

\* A store of what was loaded is a store of what the register holds.
LEMMA ExecutesEffect ==
    ASSUME IInv, NEW c \in Contexts, Executes(c)
    PROVE  /\ Runs(c) /\ Busy(c) /\ Advance(c)
           /\ Undisturbed(Access(c)) => reg' = Atomic!Effect(Access(c))
           /\ \/ reg' = reg
              \/ \E written : /\ reg' = After(reg, Access(c).reg, written)
                              /\ Access(c).kind # "rmw" => DOMAIN written = DOMAIN Access(c).set
<1> DEFINE a == Access(c)
           old == reg[a.reg]
<1>1. CASE StoreRmw(c)
  <2>1. Runs(c) /\ Busy(c) /\ Advance(c) /\ a.kind = "rmw" /\ held[c] # Nothing
        /\ reg' = After(reg, a.reg, Over(a.set, held[c]))
    BY <1>1 DEF StoreRmw, StoreWord
  <2>2. ASSUME Undisturbed(a) PROVE reg' = Atomic!Effect(a)
    <3>1. held[c] = old
      BY <2>1, <2>2 DEF IInv, HeldCurrent
    <3>2. a.reg # PR
      <4>1. Fits(call[c].fn, a)
        BY <2>1, AccessType DEF IInv
      <4> QED
        BY <2>1, <4>1 DEF Fits, PR, Stored
    <3>3. reg' = After(reg, a.reg, a.set)
      BY <2>1, <3>1, <3>2, AfterWord
    <3>4. Atomic!Effect(a) = After(reg, a.reg, a.set)
      BY <2>1, SameAfter DEF Atomic!Effect
    <3> QED
      BY <3>3, <3>4
  <2> QED
    BY <2>1, <2>2
<1>2. CASE StorePut(c)
  <2>1. Runs(c) /\ Busy(c) /\ Advance(c) /\ a.kind = "put" /\ reg' = After(reg, a.reg, a.set)
    BY <1>2 DEF StorePut, StoreWord
  <2>2. Atomic!Effect(a) = After(reg, a.reg, a.set)
    BY <2>1, SameAfter DEF Atomic!Effect
  <2> QED
    BY <2>1, <2>2
<1>3. CASE StoreFlip(c)
  <2> DEFINE flipped == [f \in DOMAIN held[c] |-> 1 - held[c][f]]
  <2>1. Runs(c) /\ Busy(c) /\ Advance(c) /\ a.kind = "flip" /\ held[c] # Nothing
        /\ reg' = After(reg, a.reg, flipped)
    BY <1>3 DEF StoreFlip, StoreWord
  <2>2. held[c] = [f \in DOMAIN a.set |-> old[f]]
    BY <2>1 DEF IInv, HeldCurrent
  <2>3. flipped = Atomic!Flipped(a.set, old) /\ DOMAIN flipped = DOMAIN a.set
    BY <2>2 DEF Atomic!Flipped
  <2>4. Atomic!Effect(a) = After(reg, a.reg, Atomic!Flipped(a.set, old))
    BY <2>1, SameAfter DEF Atomic!Effect
  <2> QED
    BY <2>1, <2>3, <2>4
<1>4. CASE WaitForStores(c)
  <2>1. Runs(c) /\ Busy(c) /\ Advance(c) /\ a.kind \in {"readBack", "barrier"} /\ reg' = reg
    BY <1>4 DEF WaitForStores
  <2>2. Atomic!Effect(a) = reg
    BY <2>1 DEF Atomic!Effect
  <2> QED
    BY <2>1, <2>2
<1> QED
  BY <1>1, <1>2, <1>3, <1>4 DEF Executes

LEMMA UnchangedInv == ASSUME IInv, UNCHANGED <<reg, call, todo, held>> PROVE IInv'
<1>1. RegInv'
  BY DEF IInv, RegInv
<1>2. CallInv'
  BY DEF IInv, CallInv
<1>3. NestInv'
  BY DEF IInv, NestInv, Busy
<1>4. ASSUME NEW c \in Contexts PROVE HeldCurrent(c)'
  BY DEF IInv, HeldCurrent, Busy, Access
<1> QED
  BY <1>1, <1>2, <1>3, <1>4 DEF IInv

LEMMA NextInv == ASSUME IInv, [Next]_vars PROVE IInv'
<1>1. CASE UNCHANGED vars
  BY <1>1, UnchangedInv DEF vars
<1>2. CASE ClockStarts
  BY <1>2, UnchangedInv DEF ClockStarts
<1>3. ASSUME NEW c \in Contexts, Begin(c) PROVE IInv'
  BY <1>3, BeginInv
<1>4. ASSUME NEW c \in Contexts, Load(c) PROVE IInv'
  BY <1>4, LoadInv
<1>5. ASSUME NEW c \in Contexts, Executes(c) PROVE IInv'
  BY <1>5, ExecutesEffect, AdvanceInv
<1> QED
  BY <1>1, <1>2, <1>3, <1>4, <1>5 DEF Next, Executes

(* The calls stay nested as the rules let them, and what a context has       *)
(* loaded is what it would load now, until it stores.                       *)
THEOREM SharedRegistersInvariant == Spec => []IInv
<1>1. Init => IInv
  BY InitInv
<1>2. IInv /\ [Next]_vars => IInv'
  BY NextInv
<1> QED
  BY <1>1, <1>2, PTL DEF Spec

-----------------------------------------------------------------------------
(* The refinement.                                                          *)

\* A load is a stutter, the end of an access is the access.
LEMMA StepRefines ==
    ASSUME IInv, [Next]_vars, ~OverlapTriggers
    PROVE  [Atomic!Next]_<<reg, todo>>
<1>1. CASE UNCHANGED vars
  BY <1>1 DEF vars
<1>2. CASE ClockStarts
  BY <1>2 DEF ClockStarts
<1>3. ASSUME NEW c \in Contexts, Begin(c) PROVE Atomic!Next
  BY <1>3 DEF Begin, Busy, Atomic!Begin, Atomic!Next
<1>4. ASSUME NEW c \in Contexts, Load(c) PROVE UNCHANGED <<reg, todo>>
  BY <1>4 DEF Load
<1>5. ASSUME NEW c \in Contexts, Executes(c) PROVE Atomic!Next
  <2>1. Busy(c) /\ Advance(c) /\ reg' = Atomic!Effect(Access(c))
    BY <1>5, ExecutesEffect DEF Undisturbed
  <2>2. Atomic!Do(c)
    BY <2>1 DEF Busy, Advance, Access, Atomic!Do
  <2> QED
    BY <2>2 DEF Atomic!Next
<1> QED
  BY <1>1, <1>2, <1>3, <1>4, <1>5 DEF Next, Executes

(* docs/DESIGN.md, "Concurrency": with the functions it does not call safe  *)
(* serialised by the caller, and no pending bit cleared while a trigger is  *)
(* under way (exti.c, extiTriggerSoftware()), every access of every driver  *)
(* call takes effect at once, on the fields it names.                       *)
THEOREM ImplementsAtomicRegisters ==
    ASSUME ~OverlapTriggers
    PROVE  Spec => ImplementsAtomic
<1>1. Init => Atomic!Init
  BY DEF Init, Atomic!Init
<1>2. IInv /\ [Next]_vars => [Atomic!Next]_<<reg, todo>>
  BY StepRefines
<1> QED
  BY <1>1, <1>2, SharedRegistersInvariant, PTL DEF Spec, ImplementsAtomic, Atomic!Spec

-----------------------------------------------------------------------------
(* What the calls with several accesses are like.                           *)

\* The functions that configure a pin, by several accesses.
PinFns == {"gpioInit", "gpioDeinit"}

\* Each access is to a register of its own, gpioInit() comes to the mode last,
\* and gpioDeinit() stores what the fields hold after a reset.
PinShape(f) ==
    /\ \A i \in DOMAIN f.accesses : f.accesses[i].kind = "rmw"
    /\ \A i, j \in DOMAIN f.accesses : i # j => f.accesses[i].reg # f.accesses[j].reg
    /\ f.fn = "gpioInit" =>
           \A i \in DOMAIN f.accesses : f.accesses[i].reg[2] = "MODER" => i = Len(f.accesses)
    /\ f.fn = "gpioDeinit" =>
           \A i \in DOMAIN f.accesses : LET a == f.accesses[i]
                                        IN  \A x \in DOMAIN a.set : a.set[x] = ResetValue(a.reg, x)

\* A clock is turned on and read back, or turned off.
ClockShape(f) ==
    \/ f.accesses = << >>
    \/ \E r \in EnableRegisters : \E bit : f.accesses \in {ClockOn(r, bit), ClockOff(r, bit)}

\* A call bears its function's name, also when it refuses its arguments.
LEMMA NameOf ==
    ASSUME NEW fn, NEW valid, NEW s
    PROVE  /\ Ok(fn, s).fn = fn /\ Ok(fn, s).accesses = s
           /\ Checked(fn, valid, s).fn = fn
           /\ Checked(fn, valid, s).accesses = IF valid THEN s ELSE << >>
BY DEF Ok, Checked, Invalid

\* gpioInit(), whatever its arguments.
LEMMA InitShape ==
    ASSUME NEW port, NEW pin, NEW c
    PROVE  PinShape(gpioInit(port, pin, c))
<1> DEFINE s == <<Rmw(OTYPER(port), Field(pin, c.otype)), Rmw(OSPEEDR(port), Field(pin, c.ospeed)),
                  Rmw(PUPDR(port), Field(pin, c.pupd)), Rmw(MODER(port), Field(pin, c.mode))>>
           f == gpioInit(port, pin, c)
<1>1. f.fn = "gpioInit" /\ (f.accesses = s \/ f.accesses = << >>)
  BY NameOf DEF gpioInit
<1>2. CASE f.accesses = << >>
  BY <1>1, <1>2 DEF PinShape
<1>3. CASE f.accesses = s
  <2>1. /\ DOMAIN s = 1..4 /\ Len(s) = 4 /\ \A i \in 1..4 : s[i].kind = "rmw"
        /\ s[1].reg[2] = "OTYPER" /\ s[2].reg[2] = "OSPEEDR"
        /\ s[3].reg[2] = "PUPDR" /\ s[4].reg[2] = "MODER"
    BY DEF Rmw, OTYPER, OSPEEDR, PUPDR, MODER
  <2> HIDE DEF s
  <2> QED
    BY <1>1, <1>3, <2>1 DEF PinShape
<1> QED
  BY <1>1, <1>2, <1>3

\* The two bits of a pin in the reset values of its port, as a field.
LEMMA ResetFields ==
    ASSUME NEW port \in GpioPorts, NEW pin \in Pins
    PROVE  /\ gpioPortResetValues(port, "MODER", pin) = ResetValue(MODER(port), pin)
           /\ gpioPortResetValues(port, "OSPEEDR", pin) = ResetValue(OSPEEDR(port), pin)
           /\ gpioPortResetValues(port, "PUPDR", pin) = ResetValue(PUPDR(port), pin)
<1> USE DEF GpioPorts, Pins
<1>1. gpioPortResetValues(port, "MODER", pin) = ResetValue(MODER(port), pin)
  <2>1. ResetBits(port, "MODER") = IF port = "GPIOA" THEN {27, 29, 31}
                                   ELSE IF port = "GPIOB" THEN {7, 9} ELSE {}
    BY DEF ResetBits
  <2>2. ResetValue(MODER(port), pin) =
            IF (port = "GPIOA" /\ pin \in 13..15) \/ (port = "GPIOB" /\ pin \in 3..4)
            THEN 2 ELSE 0
    BY DEF ResetValue, MODER, AF
  <2> QED
    BY <2>1, <2>2 DEF gpioPortResetValues
<1>2. gpioPortResetValues(port, "OSPEEDR", pin) = ResetValue(OSPEEDR(port), pin)
  <2>1. ResetBits(port, "OSPEEDR") = IF port = "GPIOB" THEN {6, 7} ELSE {}
    BY DEF ResetBits
  <2>2. ResetValue(OSPEEDR(port), pin) = IF port = "GPIOB" /\ pin = 3 THEN 3 ELSE 0
    BY DEF ResetValue, OSPEEDR
  <2> QED
    BY <2>1, <2>2 DEF gpioPortResetValues
<1>3. gpioPortResetValues(port, "PUPDR", pin) = ResetValue(PUPDR(port), pin)
  <2>1. ResetBits(port, "PUPDR") = IF port = "GPIOA" THEN {26, 29, 30}
                                   ELSE IF port = "GPIOB" THEN {8} ELSE {}
    BY DEF ResetBits
  <2>2. ResetValue(PUPDR(port), pin) =
            IF port = "GPIOA" /\ pin = 14 THEN 2
            ELSE IF (port = "GPIOA" /\ pin \in {13, 15}) \/ (port = "GPIOB" /\ pin = 4) THEN 1
            ELSE 0
    <3>1. /\ PUPDR(port)[1] = port /\ PUPDR(port)[2] = "PUPDR"
          /\ PUPDR(port) = <<"GPIOA", "PUPDR">> <=> port = "GPIOA"
          /\ PUPDR(port) # <<"GPIOB", "OSPEEDR">>
      BY DEF PUPDR
    <3>2. (<<port, pin>> \in {<<"GPIOA", 13>>, <<"GPIOA", 15>>, <<"GPIOB", 4>>})
          <=> (port = "GPIOA" /\ pin \in {13, 15}) \/ (port = "GPIOB" /\ pin = 4)
      OBVIOUS
    <3>3. port # "SYSCFG"
      OBVIOUS
    <3> QED
      BY <3>1, <3>2, <3>3 DEF ResetValue
  <2> QED
    BY <2>1, <2>2 DEF gpioPortResetValues
<1> QED
  BY <1>1, <1>2, <1>3

\* gpioDeinit() of any pin.
LEMMA DeinitShape ==
    ASSUME NEW port \in GpioPorts, NEW pin \in Pins
    PROVE  PinShape(gpioDeinit(port, pin))
<1> DEFINE s == gpioDeinit(port, pin).accesses
           f == gpioDeinit(port, pin)
<1>1. s = <<Rmw(MODER(port), Field(pin, gpioPortResetValues(port, "MODER", pin))),
            Rmw(OTYPER(port), Field(pin, 0)),
            Rmw(OSPEEDR(port), Field(pin, gpioPortResetValues(port, "OSPEEDR", pin))),
            Rmw(PUPDR(port), Field(pin, gpioPortResetValues(port, "PUPDR", pin))),
            Rmw(AFR(port, pin), Field(pin % 8, 0))>>
  BY NameOf DEF gpioDeinit
<1>2. /\ DOMAIN s = 1..5 /\ \A i \in 1..5 : s[i].kind = "rmw"
      /\ s[1].reg[2] = "MODER" /\ s[2].reg[2] = "OTYPER" /\ s[3].reg[2] = "OSPEEDR"
      /\ s[4].reg[2] = "PUPDR" /\ s[5].reg[2] \in {"AFRL", "AFRH"}
  BY <1>1 DEF Rmw, MODER, OTYPER, OSPEEDR, PUPDR, AFR
<1>3. ASSUME NEW i \in 1..5, NEW x \in DOMAIN s[i].set
      PROVE  s[i].set[x] = ResetValue(s[i].reg, x)
  <2> USE DEF Rmw, Field
  <2>1. CASE i \in {1, 3, 4}
    BY <1>1, <1>3, <2>1, ResetFields
  <2>2. CASE i = 2
    BY <1>1, <1>3, <2>2 DEF OTYPER, ResetValue, GpioPorts
  <2>3. CASE i = 5
    BY <1>1, <1>3, <2>3 DEF AFR, ResetValue, GpioPorts
  <2> QED
    BY <2>1, <2>2, <2>3
<1>4. f.fn = "gpioDeinit"
  BY NameOf DEF gpioDeinit
<1> QED
  BY <1>2, <1>3, <1>4 DEF PinShape

\* It stores every field that configures the pin.
LEMMA DeinitFields ==
    ASSUME NEW port, NEW pin
    PROVE  PinFields(port, pin) \subseteq FieldsTouched(gpioDeinit(port, pin).accesses)
<1> DEFINE s == gpioDeinit(port, pin).accesses
<1>1. s = <<Rmw(MODER(port), Field(pin, gpioPortResetValues(port, "MODER", pin))),
            Rmw(OTYPER(port), Field(pin, 0)),
            Rmw(OSPEEDR(port), Field(pin, gpioPortResetValues(port, "OSPEEDR", pin))),
            Rmw(PUPDR(port), Field(pin, gpioPortResetValues(port, "PUPDR", pin))),
            Rmw(AFR(port, pin), Field(pin % 8, 0))>>
  BY NameOf DEF gpioDeinit
<1>2. \A r, f, v : Rmw(r, Field(f, v)).reg = r /\ DOMAIN Rmw(r, Field(f, v)).set = {f}
  BY DEF Rmw, Field
<1>3. /\ s[1].reg = MODER(port) /\ DOMAIN s[1].set = {pin}
      /\ s[2].reg = OTYPER(port) /\ DOMAIN s[2].set = {pin}
      /\ s[3].reg = OSPEEDR(port) /\ DOMAIN s[3].set = {pin}
      /\ s[4].reg = PUPDR(port) /\ DOMAIN s[4].set = {pin}
      /\ s[5].reg = AFR(port, pin) /\ DOMAIN s[5].set = {pin % 8}
      /\ DOMAIN s = 1..5
  BY <1>1, <1>2
<1> HIDE DEF s
<1>4. ASSUME NEW i \in 1..5, NEW x \in DOMAIN s[i].set PROVE <<s[i].reg, x>> \in FieldsTouched(s)
  <2>1. <<s[i].reg, x>> \in {s[i].reg} \X DOMAIN s[i].set
    OBVIOUS
  <2> QED
    BY <1>3, <2>1 DEF FieldsTouched
<1>5. <<MODER(port), pin>> \in FieldsTouched(s)
  BY <1>3, <1>4
<1>6. <<OTYPER(port), pin>> \in FieldsTouched(s)
  BY <1>3, <1>4
<1>7. <<OSPEEDR(port), pin>> \in FieldsTouched(s)
  BY <1>3, <1>4
<1>8. <<PUPDR(port), pin>> \in FieldsTouched(s)
  BY <1>3, <1>4
<1>9. <<AFR(port, pin), pin % 8>> \in FieldsTouched(s)
  BY <1>3, <1>4
<1> QED
  BY <1>5, <1>6, <1>7, <1>8, <1>9 DEF PinFields, s

\* Which functions the names of a group are.
LEMMA FunctionNames ==
    ASSUME NEW f
    PROVE  /\ IsRccCall(f) => f.fn \in ClockFns
           /\ IsGpioCall(f) => f.fn \notin ClockFns
           /\ IsExtiCall(f) => f.fn \notin PinFns \union ClockFns
           /\ IsNvicCall(f) => f.fn \notin PinFns \union ClockFns
<1> USE DEF PinFns, ClockFns, Ok, Checked, Invalid
<1>1. IsRccCall(f) => f.fn \in ClockFns
  <2>1. \A port : /\ rccGpioClockEnable(port).fn = "rccGpioClockEnable"
                  /\ rccGpioClockDisable(port).fn = "rccGpioClockDisable"
    BY DEF rccGpioClockEnable, rccGpioClockDisable
  <2>2. \A g \in {rccUsart2ClockEnable, rccUsart2ClockDisable, rccWwdgClockEnable,
                  rccWwdgClockDisable} : g.fn \in ClockFns
    BY DEF rccUsart2ClockEnable, rccUsart2ClockDisable, rccWwdgClockEnable, rccWwdgClockDisable
  <2>3. \A g \in {rccSyscfgClockEnable, rccSyscfgClockDisable, rccPwrClockEnable,
                  rccPwrClockDisable} : g.fn \in ClockFns
    BY DEF rccSyscfgClockEnable, rccSyscfgClockDisable, rccPwrClockEnable, rccPwrClockDisable
  <2> QED
    BY <2>1, <2>2, <2>3 DEF IsRccCall
<1>2. IsGpioCall(f) => f.fn \notin ClockFns
  <2>1. \A port, pin, x : /\ gpioInit(port, pin, x).fn = "gpioInit"
                          /\ gpioDeinit(port, pin).fn = "gpioDeinit"
                          /\ gpioTogglePin(port, pin).fn = "gpioTogglePin"
                          /\ gpioWritePin(port, pin, x).fn = "gpioWritePin"
                          /\ gpioSetAlternateFunction(port, pin, x).fn = "gpioSetAlternateFunction"
    BY DEF gpioInit, gpioDeinit, gpioTogglePin, gpioWritePin, gpioSetAlternateFunction
  <2> QED
    BY <2>1 DEF IsGpioCall
<1>3. IsExtiCall(f) => f.fn \notin PinFns \union ClockFns
  <2>1. \A line, x : /\ extiEnableInterrupt(line).fn = "extiEnableInterrupt"
                     /\ extiDisableInterrupt(line).fn = "extiDisableInterrupt"
                     /\ extiTriggerSoftware(line).fn = "extiTriggerSoftware"
                     /\ extiClearPending(line).fn = "extiClearPending"
                     /\ extiSelectPort(line, x).fn = "extiSelectPort"
                     /\ extiConfigure(line, x).fn = "extiConfigure"
    BY DEF extiEnableInterrupt, extiDisableInterrupt, extiTriggerSoftware, extiClearPending,
           extiSelectPort, extiConfigure
  <2> QED
    BY <2>1 DEF IsExtiCall
<1>4. IsNvicCall(f) => f.fn \notin PinFns \union ClockFns
  <2>1. \A n, x : /\ nvicEnableIrq(n).fn = "nvicEnableIrq"
                  /\ nvicDisableIrq(n).fn = "nvicDisableIrq"
                  /\ nvicSetPending(n).fn = "nvicSetPending"
                  /\ nvicClearPending(n).fn = "nvicClearPending"
                  /\ nvicSetPriority(n, x).fn = "nvicSetPriority"
                  /\ nvicSetSystemHandlerPriority(n, x).fn = "nvicSetSystemHandlerPriority"
    BY DEF nvicEnableIrq, nvicDisableIrq, nvicSetPending, nvicClearPending, nvicSetPriority,
           nvicSetSystemHandlerPriority
  <2> QED
    BY <2>1 DEF IsNvicCall
<1> QED
  BY <1>1, <1>2, <1>3, <1>4, ZenonT(40)

\* Every call that configures a pin is one of the two.
LEMMA PinCalls ==
    ASSUME NEW f, IsCall(f), f.fn \in PinFns
    PROVE  PinShape(f)
<1>1. IsGpioCall(f)
  BY FunctionNames, NameOf, SMTT(40)
     DEF IsCall, PinFns, ClockFns, faultEnable, iwdgFreezeInDebug, wwdgFreezeInDebug
<1>2. \A port, pin, x : /\ gpioTogglePin(port, pin).fn = "gpioTogglePin"
                        /\ gpioWritePin(port, pin, x).fn = "gpioWritePin"
                        /\ gpioSetAlternateFunction(port, pin, x).fn = "gpioSetAlternateFunction"
  BY DEF gpioTogglePin, gpioWritePin, gpioSetAlternateFunction, Ok, Checked, Invalid
<1> QED
  BY <1>1, <1>2, InitShape, DeinitShape DEF IsGpioCall, PinFns

\* Every call that touches a clock enable turns one clock on or off.
LEMMA ClockShapes ==
    ASSUME NEW f, IsCall(f), f.fn \in ClockFns
    PROVE  ClockShape(f)
<1>1. IsRccCall(f)
  BY FunctionNames, NameOf, SMTT(40)
     DEF IsCall, ClockFns, faultEnable, iwdgFreezeInDebug, wwdgFreezeInDebug
<1>2. ASSUME NEW r \in EnableRegisters, NEW bit, f.accesses \in {ClockOn(r, bit), ClockOff(r, bit)}
      PROVE  ClockShape(f)
  BY <1>2 DEF ClockShape
<1>3. ASSUME NEW port, f \in {rccGpioClockEnable(port), rccGpioClockDisable(port)}
      PROVE  ClockShape(f)
  <2>1. f.accesses \in {<< >>, ClockOn(AHB1ENR, port), ClockOff(AHB1ENR, port)}
    BY <1>3, NameOf DEF rccGpioClockEnable, rccGpioClockDisable
  <2> QED
    BY <2>1, <1>2 DEF ClockShape, EnableRegisters
<1>4. CASE f \in {rccUsart2ClockEnable, rccUsart2ClockDisable}
  BY <1>2, <1>4, NameOf DEF rccUsart2ClockEnable, rccUsart2ClockDisable, EnableRegisters
<1>5. CASE f \in {rccWwdgClockEnable, rccWwdgClockDisable}
  BY <1>2, <1>5, NameOf DEF rccWwdgClockEnable, rccWwdgClockDisable, EnableRegisters
<1>6. CASE f \in {rccSyscfgClockEnable, rccSyscfgClockDisable}
  BY <1>2, <1>6, NameOf DEF rccSyscfgClockEnable, rccSyscfgClockDisable, EnableRegisters
<1>7. CASE f \in {rccPwrClockEnable, rccPwrClockDisable}
  BY <1>2, <1>7 DEF rccPwrClockEnable, rccPwrClockDisable, EnableRegisters, Ok
<1> QED
  BY <1>1, <1>3, <1>4, <1>5, <1>6, <1>7 DEF IsRccCall

-----------------------------------------------------------------------------
(* The order of a call's accesses.                                          *)

\* The accesses of its call a context has made.
Made(c) == Len(call[c].accesses) - Len(todo[c])

\* What is left of a call is its end.
ProgressInv ==
    \A c \in Contexts :
        /\ Made(c) \in Nat
        /\ \A j \in 1..Len(todo[c]) : todo[c][j] = call[c].accesses[Made(c) + j]

\* The register still has what the access gave it.
Stands(a) == \A x \in DOMAIN a.set : reg[a.reg][x] = a.set[x]

\* Nobody undoes the first accesses of a pin's configuration before its last.
KeptInv ==
    \A c \in Contexts : Busy(c) /\ call[c].fn \in PinFns =>
        \A i \in 1..Made(c) : Stands(call[c].accesses[i])

\* What waits for its clock is a clock enable.
ClockInv == \A e \in unclocked : e[1] \in EnableRegisters

OrderInv == ProgressInv /\ KeptInv /\ ClockInv

\* Every access of a call that runs, made or not.
LEMMA AccessesType ==
    ASSUME CallInv, NEW c \in Contexts, Busy(c)
    PROVE  /\ call[c] \in Calls[c] /\ IsCall(call[c])
           /\ call[c].accesses \in Seq(Members(call[c].accesses))
           /\ \A a \in Members(call[c].accesses) :
                  a.reg \in Registers /\ DOMAIN a.set \subseteq Fields(a.reg) /\ Fits(call[c].fn, a)
<1>1. call[c] \in Calls[c] /\ IsCall(call[c])
  BY AccessType, CallsAssumption
<1>2. WellMade(call[c])
  BY <1>1, CallsWellMade
<1>3. ASSUME NEW a \in Members(call[c].accesses)
      PROVE  a.reg \in Registers /\ DOMAIN a.set \subseteq Fields(a.reg)
  <2>1. Calls[c] \in {Calls[d] : d \in Contexts}
    OBVIOUS
  <2>2. call[c] \in UNION {Calls[d] : d \in Contexts}
    BY <2>1, <1>1
  <2>3. a \in AllAccesses
    BY <2>2 DEF AllAccesses, Members
  <2> QED
    BY <2>3 DEF Registers, Fields
<1> QED
  BY <1>1, <1>2, <1>3 DEF WellMade

\* A busy context is at the access after those it has made.
LEMMA Position ==
    ASSUME CallInv, ProgressInv, NEW c \in Contexts, Busy(c)
    PROVE  /\ Len(todo[c]) \in Nat /\ Len(todo[c]) > 0
           /\ Made(c) + 1 \in DOMAIN call[c].accesses
           /\ DOMAIN call[c].accesses = 1..Len(call[c].accesses)
           /\ Len(call[c].accesses) = Made(c) + Len(todo[c]) /\ Made(c) \in Nat
           /\ Access(c) = call[c].accesses[Made(c) + 1]
<1>1. todo[c] \in Seq(Members(call[c].accesses)) /\ todo[c] # << >>
  BY DEF CallInv, Busy
<1>2. Len(todo[c]) \in Nat /\ Len(todo[c]) > 0 /\ Access(c) = todo[c][1]
  BY <1>1 DEF Access
<1>3. /\ Len(call[c].accesses) \in Nat
      /\ DOMAIN call[c].accesses = 1..Len(call[c].accesses)
  BY AccessesType
<1>4. Made(c) \in Nat /\ todo[c][1] = call[c].accesses[Made(c) + 1]
  BY <1>2 DEF ProgressInv
<1>5. Made(c) = Len(call[c].accesses) - Len(todo[c])
  BY DEF Made
<1>6. \A n, m, k \in Nat : m > 0 /\ k = n - m => k + 1 \in 1..n /\ n = k + m
  OBVIOUS
<1>7. /\ Made(c) + 1 \in 1..Len(call[c].accesses)
      /\ Len(call[c].accesses) = Made(c) + Len(todo[c])
  BY <1>2, <1>3, <1>4, <1>5, <1>6
<1> QED
  BY <1>2, <1>3, <1>4, <1>7

LEMMA OrderInit == Init => OrderInv
BY DEF Init, OrderInv, ProgressInv, KeptInv, ClockInv, Made, Busy, Ok

\* The end of an access is progress in the call it belongs to, and in no other.
LEMMA ProgressAdvance ==
    ASSUME IInv, ProgressInv, NEW c \in Contexts, Busy(c), Advance(c)
    PROVE  /\ ProgressInv'
           /\ Made(c)' = Made(c) + 1
           /\ \A d \in Contexts : d # c => Made(d)' = Made(d) /\ todo'[d] = todo[d]
<1>1. CallInv
  BY DEF IInv
<1>2. call' = call /\ \A d \in Contexts : todo'[d] = IF d = c THEN Tail(todo[c]) ELSE todo[d]
  BY <1>1 DEF Advance, CallInv
<1>3. todo[c] \in Seq(Members(call[c].accesses)) /\ todo[c] # << >>
  BY <1>1 DEF CallInv, Busy
<1>4. /\ Len(Tail(todo[c])) = Len(todo[c]) - 1
      /\ \A j \in 1..(Len(todo[c]) - 1) : Tail(todo[c])[j] = todo[c][j + 1]
  BY <1>3
<1> DEFINE left == Len(todo[c])
           all == Len(call[c].accesses)
<1>5. Made(c)' = Made(c) + 1
  <2>1. left \in Nat /\ all = Made(c) + left /\ Made(c) \in Nat
    BY <1>1, Position
  <2>2. Made(c)' = all - (left - 1)
    BY <1>2, <1>4 DEF Made
  <2> HIDE DEF left, all
  <2> QED
    BY <2>1, <2>2
<1>6. ASSUME NEW d \in Contexts, d # c PROVE Made(d)' = Made(d) /\ todo'[d] = todo[d]
  BY <1>2, <1>6 DEF Made
<1>7. ASSUME NEW j \in 1..(Len(todo[c]) - 1)
      PROVE  Tail(todo[c])[j] = call[c].accesses[(Made(c) + 1) + j]
  <2>1. left \in Nat /\ Made(c) \in Nat /\ j \in 1..(left - 1)
    BY <1>1, Position
  <2>2. j + 1 \in 1..left /\ Made(c) + (j + 1) = (Made(c) + 1) + j
    <3> HIDE DEF left
    <3> QED
      BY <2>1
  <2> QED
    BY <1>4, <2>2 DEF ProgressInv
<1>8. ProgressInv'
  <2> SUFFICES ASSUME NEW d \in Contexts
               PROVE  /\ Made(d)' \in Nat
                      /\ \A j \in 1..Len(todo'[d]) :
                             todo'[d][j] = call'[d].accesses[Made(d)' + j]
    BY DEF ProgressInv
  <2>1. CASE d = c
    <3>1. Made(c) + 1 \in Nat
      BY <1>1, Position
    <3>2. todo'[c] = Tail(todo[c]) /\ call' = call /\ Len(todo'[c]) = left - 1
      BY <1>2, <1>4
    <3> QED
      BY <1>5, <1>7, <2>1, <3>1, <3>2
  <2>2. CASE d # c
    BY <1>2, <1>6, <2>2 DEF ProgressInv
  <2> QED
    BY <2>1, <2>2
<1> QED
  BY <1>5, <1>6, <1>8

\* With its next access a pin's configuration has one more field in place, and
\* those it had before.
LEMMA OwnAccess ==
    ASSUME IInv, OrderInv, NEW c \in Contexts, Executes(c), call[c].fn \in PinFns
    PROVE  \A i \in 1..(Made(c) + 1) : Stands(call[c].accesses[i])'
<1> DEFINE s == call[c].accesses
           a == Access(c)
<1>1. Busy(c) /\ Advance(c) /\ CallInv /\ DOMAIN reg = Registers
  BY ExecutesEffect DEF IInv, RegInv
<1>2. PinShape(call[c])
  BY <1>1, AccessesType, PinCalls
<1>3. /\ Made(c) \in Nat /\ Made(c) + 1 \in DOMAIN s /\ DOMAIN s = 1..Len(s)
      /\ a = s[Made(c) + 1] /\ Len(s) \in Nat
  BY <1>1, Position DEF OrderInv
<1>4. \A i \in DOMAIN s : s[i].reg \in Registers
  BY <1>1, AccessesType DEF Members
<1>5. a.kind = "rmw"
  BY <1>2, <1>3 DEF PinShape
<1>6. reg' = [reg EXCEPT ![a.reg] = Over(a.set, reg[a.reg])]
  <2>1. Fits(call[c].fn, a)
    BY <1>1, AccessType
  <2>2. a.reg # PR /\ a.reg # SWIER
    BY <2>1 DEF Fits, PinFns, PR, SWIER
  <2>3. reg' = After(reg, a.reg, a.set)
    BY <1>5, <2>2, ExecutesEffect, SameAfter DEF Undisturbed, Atomic!Effect
  <2> QED
    BY <2>2, <2>3, AfterOther
<1>7. call' = call
  BY <1>1 DEF Advance
<1>8. ASSUME NEW i \in 1..(Made(c) + 1) PROVE \A x \in DOMAIN s[i].set : reg'[s[i].reg][x] = s[i].set[x]
  <2>1. CASE i = Made(c) + 1
    <3>1. s[i] = a /\ a.reg \in DOMAIN reg
      BY <1>1, <1>3, <1>4, <2>1
    <3>2. reg'[a.reg] = Over(a.set, reg[a.reg])
      BY <1>6, <3>1
    <3>3. \A x \in DOMAIN a.set : Over(a.set, reg[a.reg])[x] = a.set[x]
      BY DEF Over
    <3> QED
      BY <3>1, <3>2, <3>3
  <2>2. CASE i # Made(c) + 1
    <3>1. i \in 1..Made(c) /\ i \in DOMAIN s
      BY <1>3, <2>2
    <3>2. s[i].reg # a.reg /\ s[i].reg \in Registers
      BY <1>2, <1>3, <1>4, <2>2, <3>1 DEF PinShape
    <3>3. reg'[s[i].reg] = reg[s[i].reg]
      BY <1>1, <1>6, <3>2
    <3>4. Stands(s[i])
      BY <1>1, <3>1 DEF OrderInv, KeptInv
    <3> QED
      BY <3>3, <3>4 DEF Stands
  <2> QED
    BY <2>1, <2>2
<1> QED
  BY <1>7, <1>8 DEF Stands

\* A handler that comes in between leaves the fields of the main program's call
\* as they are.
LEMMA OthersAccess ==
    ASSUME IInv, OrderInv, NEW c \in Contexts, Executes(c),
           NEW d \in Contexts, d # c, Busy(d), call[d].fn \in PinFns
    PROVE  \A i \in 1..Made(d) : Stands(call[d].accesses[i])'
<1> DEFINE s == call[d].accesses
           a == Access(c)
<1>1. Runs(c) /\ Busy(c) /\ Advance(c) /\ CallInv /\ DOMAIN reg = Registers
  BY ExecutesEffect DEF IInv, RegInv
<1>2. c = "handler" /\ d = "main"
  BY <1>1 DEF Runs, Contexts
<1>3. /\ Made(d) \in Nat /\ Made(d) + 1 \in DOMAIN s /\ DOMAIN s = 1..Len(s) /\ Len(s) \in Nat
      /\ PinShape(call[d])
  BY <1>1, Position, AccessesType, PinCalls DEF OrderInv
<1>4. reg' = reg \/ \E written : reg' = After(reg, a.reg, written)
  BY ExecutesEffect
<1>5. ASSUME NEW i \in 1..Made(d) PROVE reg'[s[i].reg] = reg[s[i].reg]
  <2>1. i \in DOMAIN s /\ s[i] \in Members(s)
    BY <1>3 DEF Members
  <2>2. s[i].reg \in Registers /\ Fits(call[d].fn, s[i]) /\ s[i].kind = "rmw"
    BY <1>1, <1>3, <2>1, AccessesType DEF PinShape
  <2>3. s[i].reg[2] \notin Stored /\ s[i].reg # PR /\ s[i].reg # SWIER
    BY <2>2 DEF Fits, PinFns, PR, SWIER
  <2>4. a \in Members(call[c].accesses) /\ Fits(call[c].fn, a)
    BY <1>1, AccessType
  <2>5. s[i].reg # a.reg
    <3> SUFFICES ASSUME s[i].reg = a.reg PROVE FALSE
      OBVIOUS
    <3>1. call[c].fn \notin SingleStores \union SingleOwner
      BY <2>3, <2>4 DEF Fits
    <3>2. a.reg \in Touched(call[c].accesses) /\ a.reg \in Touched(call[d].accesses)
      BY <2>1, <2>4, TouchedBy
    <3>3. Serialised(call[c], call[d])
      BY <1>1, <1>2 DEF IInv, NestInv
    <3> QED
      BY <3>1, <3>2, <3>3 DEF Serialised
  <2> QED
    BY <1>1, <1>4, <2>2, <2>3, <2>5, AfterFrame
<1>6. call' = call
  BY <1>1 DEF Advance
<1>7. \A i \in 1..Made(d) : Stands(s[i])
  BY DEF OrderInv, KeptInv
<1> QED
  BY <1>5, <1>6, <1>7 DEF Stands

\* Only a store to a clock enable makes a clock wait.
LEMMA ClocksStep ==
    ASSUME ClockInv, NEW c \in Contexts, Executes(c)
    PROVE  ClockInv'
<1>1. \A r, word : \A e \in ClocksAfter(r, word) : e[1] \in EnableRegisters
  BY DEF ClocksAfter, ClockInv
<1>2. CASE WaitForStores(c)
  BY <1>2 DEF WaitForStores, ClockInv
<1>3. CASE StoreRmw(c) \/ StorePut(c) \/ StoreFlip(c)
  <2>1. \E r, word : unclocked' = ClocksAfter(r, word)
    BY <1>3 DEF StoreRmw, StorePut, StoreFlip, StoreWord
  <2> QED
    BY <1>1, <2>1 DEF ClockInv
<1> QED
  BY <1>2, <1>3 DEF Executes

LEMMA OrderStep == ASSUME IInv, OrderInv, [Next]_vars PROVE OrderInv'
<1>1. CallInv
  BY DEF IInv
<1>2. ASSUME NEW c \in Contexts, Executes(c) PROVE OrderInv'
  <2>1. Busy(c) /\ Advance(c)
    BY <1>2, ExecutesEffect
  <2>2. /\ ProgressInv' /\ Made(c)' = Made(c) + 1 /\ call' = call
        /\ \A d \in Contexts : d # c => Made(d)' = Made(d) /\ todo'[d] = todo[d]
    BY <2>1, ProgressAdvance DEF OrderInv, Advance
  <2>3. KeptInv'
    <3> SUFFICES ASSUME NEW d \in Contexts, Busy(d)', call[d].fn \in PinFns
                 PROVE  \A i \in 1..Made(d)' : Stands(call[d].accesses[i])'
      BY <2>2 DEF KeptInv
    <3>1. CASE d = c
      BY <1>2, <2>2, <3>1, OwnAccess
    <3>2. CASE d # c
      <4>1. Busy(d)
        BY <2>2, <3>2 DEF Busy
      <4> QED
        BY <1>2, <2>2, <3>2, <4>1, OthersAccess
    <3> QED
      BY <3>1, <3>2
  <2>4. ClockInv'
    BY <1>2, ClocksStep DEF OrderInv
  <2> QED
    BY <2>2, <2>3, <2>4 DEF OrderInv
<1>3. ASSUME NEW c \in Contexts, Begin(c) PROVE OrderInv'
  <2>1. PICK f \in Calls[c] :
            /\ call' = [call EXCEPT ![c] = f]
            /\ todo' = [todo EXCEPT ![c] = f.accesses]
    BY <1>3 DEF Begin
  <2>2. f.accesses \in Seq(Members(f.accesses))
    BY CallsAssumption, CallsWellMade DEF WellMade
  <2>3. UNCHANGED <<reg, unclocked>>
    BY <1>3 DEF Begin
  <2>4. /\ call'[c] = f /\ todo'[c] = f.accesses /\ Len(f.accesses) \in Nat
        /\ \A d \in Contexts : d # c => call'[d] = call[d] /\ todo'[d] = todo[d]
    BY <1>1, <2>1, <2>2 DEF CallInv
  <2>5. Made(c)' = 0 /\ \A d \in Contexts : d # c => Made(d)' = Made(d)
    <3>1. Made(c)' = Len(f.accesses) - Len(f.accesses)
      BY <2>4 DEF Made
    <3>2. \A n \in Nat : n - n = 0
      OBVIOUS
    <3>3. Made(c)' = 0
      BY <2>4, <3>1, <3>2
    <3>4. \A d \in Contexts : d # c => Made(d)' = Made(d)
      BY <2>4 DEF Made
    <3> QED
      BY <3>3, <3>4
  <2>6. ProgressInv'
    <3> SUFFICES ASSUME NEW d \in Contexts
                 PROVE  /\ Made(d)' \in Nat
                        /\ \A j \in 1..Len(todo'[d]) :
                               todo'[d][j] = call'[d].accesses[Made(d)' + j]
      BY DEF ProgressInv
    <3>1. CASE d = c
      BY <2>4, <2>5, <3>1
    <3>2. CASE d # c
      BY <2>4, <2>5, <3>2 DEF OrderInv, ProgressInv
    <3> QED
      BY <3>1, <3>2
  <2>7. KeptInv'
    <3> SUFFICES ASSUME NEW d \in Contexts, Busy(d)', call'[d].fn \in PinFns,
                        NEW i \in 1..Made(d)'
                 PROVE  Stands(call[d].accesses[i])' /\ d # c
      BY DEF KeptInv
    <3>1. d # c
      BY <2>5
    <3>2. Busy(d) /\ call'[d] = call[d] /\ i \in 1..Made(d)
      BY <2>4, <2>5, <3>1 DEF Busy
    <3>3. Stands(call[d].accesses[i])
      BY <3>2 DEF OrderInv, KeptInv
    <3> QED
      BY <2>3, <3>1, <3>2, <3>3 DEF Stands
  <2> QED
    BY <2>3, <2>6, <2>7 DEF OrderInv, ClockInv
<1>4. CASE UNCHANGED <<reg, call, todo>> /\ unclocked' \subseteq unclocked
  BY <1>4 DEF OrderInv, ProgressInv, KeptInv, ClockInv, Made, Busy, Stands
<1>5. ASSUME NEW c \in Contexts, Load(c) PROVE OrderInv'
  BY <1>4, <1>5 DEF Load
<1>6. CASE ClockStarts \/ UNCHANGED vars
  BY <1>4, <1>6 DEF ClockStarts, vars
<1> QED
  BY <1>2, <1>3, <1>5, <1>6 DEF Next, Executes

(* A call makes its accesses in order, and the fields gpioInit() and        *)
(* gpioDeinit() have set stay as they are until the call has set the last.  *)
THEOREM CallsInOrder == Spec => []OrderInv
<1>1. Init => OrderInv
  BY OrderInit
<1>2. IInv /\ OrderInv /\ [Next]_vars => OrderInv'
  BY OrderStep
<1> QED
  BY <1>1, <1>2, SharedRegistersInvariant, PTL DEF Spec

-----------------------------------------------------------------------------
(* What a call has done when it returns.                                    *)

\* Only the context that makes a call shortens what is left of it.
LEMMA WhoAdvances ==
    ASSUME IInv, [Next]_vars, NEW c \in Contexts, Busy(c), todo'[c] # todo[c]
    PROVE  Executes(c)
<1>1. ASSUME NEW d \in Contexts, Begin(d) PROVE FALSE
  <2>1. d # c
    BY <1>1 DEF Begin
  <2> QED
    BY <1>1, <2>1 DEF Begin, IInv, CallInv
<1>2. ASSUME NEW d \in Contexts, Executes(d), d # c PROVE FALSE
  <2>1. Advance(d)
    BY <1>2, ExecutesEffect
  <2> QED
    BY <1>2, <2>1 DEF Advance, IInv, CallInv
<1>3. ~ClockStarts /\ ~UNCHANGED vars /\ \A d \in Contexts : ~Load(d)
  BY DEF ClockStarts, vars, Load
<1> QED
  BY <1>1, <1>2, <1>3 DEF Next, Executes

\* A call that returns was at its last access.
LEMMA LastAccess ==
    ASSUME IInv, OrderInv, [Next]_vars, NEW c \in Contexts, Busy(c), todo'[c] = << >>
    PROVE  Executes(c) /\ Made(c) + 1 = Len(call[c].accesses)
<1>1. Executes(c)
  BY WhoAdvances DEF Busy
<1>2. Advance(c) /\ CallInv
  BY <1>1, ExecutesEffect DEF IInv
<1>3. Tail(todo[c]) = << >>
  BY <1>2 DEF Advance, CallInv
<1>4. todo[c] \in Seq(Members(call[c].accesses)) /\ todo[c] # << >>
  BY <1>2 DEF CallInv, Busy
<1>5. Len(todo[c]) = 1
  <2>1. Len(Tail(todo[c])) = Len(todo[c]) - 1 /\ Len(todo[c]) \in Nat
    BY <1>4
  <2>2. Len(Tail(todo[c])) = Len(<< >>)
    BY <1>3, Zenon
  <2>3. Len(<< >>) = 0
    OBVIOUS
  <2> QED
    BY <2>1, <2>2, <2>3
<1> QED
  BY <1>1, <1>2, <1>5, Position DEF OrderInv

\* A call that turns a clock on ends with reading the enable back.
LEMMA RunningAtReturn ==
    ASSUME IInv, OrderInv, [Next]_vars, NEW c \in Contexts, Busy(c), todo'[c] = << >>
    PROVE  FieldsTouched(call[c].accesses) \intersect unclocked' = {}
<1> DEFINE s == call[c].accesses
<1>1. /\ Executes(c) /\ Made(c) + 1 = Len(s) /\ CallInv
      /\ Access(c) = s[Len(s)] /\ DOMAIN s = 1..Len(s) /\ Len(s) \in DOMAIN s
  BY LastAccess, Position DEF OrderInv, IInv
<1> SUFFICES ASSUME NEW e \in FieldsTouched(s), e \in unclocked' PROVE FALSE
  OBVIOUS
<1>2. PICK i \in DOMAIN s : \E x \in DOMAIN s[i].set : e = <<s[i].reg, x>>
  BY DEF FieldsTouched
<1>3. PICK x \in DOMAIN s[i].set : e = <<s[i].reg, x>>
  BY <1>2
<1>4. s[i].reg \in EnableRegisters
  BY <1>3, OrderStep DEF OrderInv, ClockInv
<1>5. call[c].fn \in ClockFns
  <2>1. s[i].reg[2] \in ClockNames
    BY <1>4 DEF EnableRegisters, ClockNames, AHB1ENR, APB1ENR, APB2ENR
  <2>2. Fits(call[c].fn, s[i])
    BY <1>1, AccessesType DEF Members
  <2> QED
    BY <2>1, <2>2 DEF Fits
<1>6. ClockShape(call[c]) /\ s # << >>
  BY <1>1, <1>2, <1>5, AccessesType, ClockShapes
<1>7. PICK r \in EnableRegisters : \E bit : s \in {ClockOn(r, bit), ClockOff(r, bit)}
  BY <1>6 DEF ClockShape
<1>8. PICK bit : s \in {ClockOn(r, bit), ClockOff(r, bit)}
  BY <1>7
<1>9. CASE s = ClockOn(r, bit)
  <2>1. Access(c).kind = "readBack" /\ Access(c).reg = r /\ s[i].reg = r
    BY <1>1, <1>2, <1>9 DEF ClockOn, ReadBack, Rmw
  <2>2. WaitForStores(c)
    BY <1>1, <2>1 DEF Executes, StoreRmw, StorePut, StoreFlip
  <2> QED
    BY <1>3, <2>1, <2>2 DEF WaitForStores
<1>10. CASE s = ClockOff(r, bit)
  <2>1. /\ Access(c).kind = "rmw" /\ Access(c).reg = r /\ Access(c).set = Field(bit, 0)
        /\ s[i].reg = r /\ s[i].set = Field(bit, 0)
    BY <1>1, <1>2, <1>10 DEF ClockOff, Rmw
  <2>2. StoreRmw(c)
    BY <1>1, <2>1 DEF Executes, WaitForStores, StorePut, StoreFlip
  <2>3. unclocked' = ClocksAfter(r, Over(Field(bit, 0), held[c]))
    BY <2>1, <2>2 DEF StoreRmw, StoreWord
  <2>4. /\ bit \in DOMAIN Over(Field(bit, 0), held[c]) /\ Over(Field(bit, 0), held[c])[bit] = 0
        /\ x = bit
    BY <2>1 DEF Over, Field
  <2> QED
    BY <1>3, <1>7, <2>1, <2>3, <2>4 DEF ClocksAfter
<1> QED
  BY <1>8, <1>9, <1>10

(* rcc.c, "read back: the clock is running before first use": when the      *)
(* enable of a clock returns the clock runs, whatever clocks the other      *)
(* context turns on and off meanwhile.                                      *)
THEOREM ReturnsRunning == Spec => EnableReturnsRunning
<1> DEFINE A == \A c \in Contexts : Busy(c) /\ todo'[c] = << >> =>
                    FieldsTouched(call[c].accesses) \intersect unclocked' = {}
<1>1. IInv /\ OrderInv /\ [Next]_vars => [A]_vars
  BY RunningAtReturn
<1>2. EnableReturnsRunning <=> [][A]_vars
  BY DEF EnableReturnsRunning
<1> HIDE DEF A
<1> QED
  BY <1>1, <1>2, SharedRegistersInvariant, CallsInOrder, PTL DEF Spec

(* gpio.c, "MODER last": a pin switches mode when its output type, speed    *)
(* and pull are those of the same call, whatever a handler configures       *)
(* meanwhile.                                                               *)
THEOREM SwitchedLast == Spec => ModeSwitchedLast
<1> DEFINE A == \A c \in Contexts :
                    /\ Busy(c) /\ Access(c).reg[2] = "MODER" /\ call[c].fn = "gpioInit"
                    /\ todo'[c] # todo[c]
                    => \A i \in DOMAIN call[c].accesses :
                           LET a == call[c].accesses[i]
                           IN  \A f \in DOMAIN a.set : reg'[a.reg][f] = a.set[f]
<1>1. ASSUME IInv, OrderInv, [Next]_vars PROVE A
  <2> SUFFICES ASSUME NEW c \in Contexts, Busy(c), Access(c).reg[2] = "MODER",
                      call[c].fn = "gpioInit", todo'[c] # todo[c],
                      NEW i \in DOMAIN call[c].accesses,
                      NEW f \in DOMAIN call[c].accesses[i].set
               PROVE  reg'[call[c].accesses[i].reg][f] = call[c].accesses[i].set[f]
    OBVIOUS
  <2>1. Executes(c) /\ CallInv
    BY <1>1, WhoAdvances DEF IInv
  <2>2. PinShape(call[c])
    BY <2>1, AccessesType, PinCalls DEF PinFns
  <2>3. /\ Access(c) = call[c].accesses[Made(c) + 1] /\ Made(c) + 1 \in DOMAIN call[c].accesses
        /\ DOMAIN call[c].accesses = 1..Len(call[c].accesses)
    BY <1>1, <2>1, Position DEF OrderInv
  <2>4. i \in 1..(Made(c) + 1)
    BY <2>2, <2>3 DEF PinShape
  <2>5. Stands(call[c].accesses[i])' /\ call' = call
    BY <1>1, <2>1, <2>4, OwnAccess, ExecutesEffect DEF PinFns, Advance
  <2> QED
    BY <2>5 DEF Stands
<1>2. ModeSwitchedLast <=> [][A]_vars
  BY DEF ModeSwitchedLast
<1>3. IInv /\ OrderInv /\ [Next]_vars => [A]_vars
  BY <1>1
<1> HIDE DEF A
<1> QED
  BY <1>2, <1>3, SharedRegistersInvariant, CallsInOrder, PTL DEF Spec

(* gpio.h, gpioDeinit(): "Return a pin to its power-on configuration", the  *)
(* whole of it and from any configuration, although a handler configures    *)
(* other pins of the port between its accesses.                             *)
THEOREM BackToReset == Spec => DeinitRestores
<1> DEFINE A == \A c \in Contexts, port \in GpioPorts, pin \in Pins :
                    Returns(c, "gpioDeinit") /\ call[c] = gpioDeinit(port, pin) =>
                        \A e \in PinFields(port, pin) : reg'[e[1]][e[2]] = ResetValue(e[1], e[2])
<1>1. ASSUME IInv, OrderInv, [Next]_vars PROVE A
  <2> SUFFICES ASSUME NEW c \in Contexts, NEW port, NEW pin, Returns(c, "gpioDeinit"),
                      call[c] = gpioDeinit(port, pin), NEW e \in PinFields(port, pin)
               PROVE  reg'[e[1]][e[2]] = ResetValue(e[1], e[2])
    OBVIOUS
  <2>1. Busy(c) /\ call[c].fn = "gpioDeinit"
    BY DEF Returns
  <2>2. Executes(c) /\ Made(c) + 1 = Len(call[c].accesses) /\ CallInv
    BY <1>1, LastAccess DEF Returns, IInv
  <2>3. PinShape(call[c])
    BY <2>1, <2>2, AccessesType, PinCalls DEF PinFns
  <2>4. PICK i \in DOMAIN call[c].accesses :
            \E x \in DOMAIN call[c].accesses[i].set : e = <<call[c].accesses[i].reg, x>>
    <3>1. e \in FieldsTouched(call[c].accesses)
      BY DeinitFields
    <3> QED
      BY <3>1 DEF FieldsTouched
  <2>5. PICK x \in DOMAIN call[c].accesses[i].set : e = <<call[c].accesses[i].reg, x>>
    BY <2>4
  <2>6. i \in 1..(Made(c) + 1)
    BY <1>1, <2>1, <2>2, Position DEF OrderInv
  <2>7. Stands(call[c].accesses[i])' /\ call' = call
    BY <1>1, <2>1, <2>2, <2>6, OwnAccess, ExecutesEffect DEF PinFns, Advance
  <2>8. call[c].accesses[i].set[x] = ResetValue(call[c].accesses[i].reg, x)
    BY <2>1, <2>3 DEF PinShape
  <2> QED
    BY <2>5, <2>7, <2>8 DEF Stands
<1>2. DeinitRestores <=> [][A]_vars
  BY DEF DeinitRestores
<1>3. IInv /\ OrderInv /\ [Next]_vars => [A]_vars
  BY <1>1
<1> HIDE DEF A
<1> QED
  BY <1>2, <1>3, SharedRegistersInvariant, CallsInOrder, PTL DEF Spec
=============================================================================
