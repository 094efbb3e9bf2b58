--------------------------- MODULE RegisterCalls ---------------------------
(***************************************************************************)
(* What the functions of the GPIO, EXTI, NVIC and Fault drivers, and the   *)
(* clock enables of the RCC driver, do to the registers they share: for    *)
(* each function the status it returns and the register accesses it makes, *)
(* in order.  The modules that execute these accesses say what can happen  *)
(* between them (SharedRegisters) and what the hardware answers            *)
(* (Interrupts).                                                           *)
(*                                                                         *)
(* A register is a pair <<block, name>> and holds a function from its      *)
(* fields (pins, lines, interrupts, named bits) to values.                 *)
(***************************************************************************)
EXTENDS Integers, Sequences

\* The part of a word that is one field.
Field(field, value) == [f \in {field} |-> value]

\* `word` with the fields of `set` replaced.
Over(set, word) ==
    [f \in DOMAIN set \union DOMAIN word |-> IF f \in DOMAIN set THEN set[f] ELSE word[f]]

(* The accesses.  `set` is the part of the word that is given a new value. *)

\* r = (r & ~fields) | values: a load and, later, a store of the whole word.
Rmw(r, set) == [kind |-> "rmw", reg |-> r, set |-> set]

\* One store that the hardware applies to the fields of `set` alone (BSRR, ISER,
\* ICER, ISPR, ICPR, one byte of IP; PR, where a 1 clears the bit).
Put(r, set) == [kind |-> "put", reg |-> r, set |-> set]

\* The bit is loaded, and one store gives it the other value.
Flip(r, f) == [kind |-> "flip", reg |-> r, set |-> Field(f, 0)]

\* A load whose result is not used: it waits for the store before it.
ReadBack(r) == [kind |-> "readBack", reg |-> r, set |-> << >>]

\* dsb; isb.
Barrier == [kind |-> "barrier", reg |-> <<"core", "barrier">>, set |-> << >>]

Ok(f, accesses) == [fn |-> f, status |-> "OK", accesses |-> accesses]
Invalid(f) == [fn |-> f, status |-> "INVALID_PARAM", accesses |-> << >>]

\* The accesses if the arguments are valid, none otherwise.
Checked(f, valid, accesses) == IF valid THEN Ok(f, accesses) ELSE Invalid(f)

GpioPorts == {"GPIOA", "GPIOB", "GPIOC", "GPIOD", "GPIOE", "GPIOF", "GPIOG", "GPIOH"}

-----------------------------------------------------------------------------
(* RCC: peripheral clocks.  A port is known by its address.                 *)

\* Mutant: the register is not read back.
EnableWithoutReadBack(r, bit) == <<Rmw(r, Field(bit, 1))>>

ClockOn(r, bit) == <<Rmw(r, Field(bit, 1)), ReadBack(r)>>
ClockOff(r, bit) == <<Rmw(r, Field(bit, 0))>>

AHB1ENR == <<"RCC", "AHB1ENR">>
APB1ENR == <<"RCC", "APB1ENR">>
APB2ENR == <<"RCC", "APB2ENR">>

rccGpioClockEnable(port) ==
    Checked("rccGpioClockEnable", port \in GpioPorts, ClockOn(AHB1ENR, port))
rccGpioClockDisable(port) ==
    Checked("rccGpioClockDisable", port \in GpioPorts, ClockOff(AHB1ENR, port))
rccUsart2ClockEnable == Ok("rccUsart2ClockEnable", ClockOn(APB1ENR, "USART2"))
rccUsart2ClockDisable == Ok("rccUsart2ClockDisable", ClockOff(APB1ENR, "USART2"))
rccWwdgClockEnable == Ok("rccWwdgClockEnable", ClockOn(APB1ENR, "WWDG"))
rccWwdgClockDisable == Ok("rccWwdgClockDisable", ClockOff(APB1ENR, "WWDG"))
rccSyscfgClockEnable == Ok("rccSyscfgClockEnable", ClockOn(APB2ENR, "SYSCFG"))
rccSyscfgClockDisable == Ok("rccSyscfgClockDisable", ClockOff(APB2ENR, "SYSCFG"))
rccPwrClockEnable == Ok("rccPwrClockEnable", ClockOn(APB1ENR, "PWR"))
rccPwrClockDisable == Ok("rccPwrClockDisable", ClockOff(APB1ENR, "PWR"))

-----------------------------------------------------------------------------
(* GPIO.                                                                    *)

Pins == 0..15
INPUT == 0
OUTPUT == 1
AF == 2
ANALOG == 3

MODER(port) == <<port, "MODER">>
OTYPER(port) == <<port, "OTYPER">>
OSPEEDR(port) == <<port, "OSPEEDR">>
PUPDR(port) == <<port, "PUPDR">>
ODR(port) == <<port, "ODR">>
AFR(port, pin) == <<port, IF pin < 8 THEN "AFRL" ELSE "AFRH">>

ValidPinConfig(pin, c) ==
    /\ pin \in Pins
    /\ c.mode \in 0..ANALOG /\ c.otype \in 0..1
    /\ c.ospeed \in 0..3 /\ c.pupd \in 0..2

\* Mutant: the mode is switched first.
InitModeFirst(port, pin, c) ==
    Checked("gpioInit", ValidPinConfig(pin, c),
            <<Rmw(MODER(port), Field(pin, c.mode)), Rmw(OTYPER(port), Field(pin, c.otype)),
              Rmw(OSPEEDR(port), Field(pin, c.ospeed)), Rmw(PUPDR(port), Field(pin, c.pupd))>>)

\* c: mode, otype, ospeed, pupd.
gpioInit(port, pin, c) ==
    Checked("gpioInit", ValidPinConfig(pin, c),
            <<Rmw(OTYPER(port), Field(pin, c.otype)), Rmw(OSPEEDR(port), Field(pin, c.ospeed)),
              Rmw(PUPDR(port), Field(pin, c.pupd)), Rmw(MODER(port), Field(pin, c.mode))>>)

gpioSetAlternateFunction(port, pin, af) ==
    Checked("gpioSetAlternateFunction", pin \in Pins /\ af \in 0..15,
            <<Rmw(AFR(port, pin), Field(pin % 8, af))>>)

\* The bits set in GPIOx_<r>_RESET: 0xA8000000, 0x64000000, 0x280, 0xC0, 0x100.
ResetBits(port, r) ==
    CASE port = "GPIOA" /\ r = "MODER"   -> {27, 29, 31}
      [] port = "GPIOA" /\ r = "PUPDR"   -> {26, 29, 30}
      [] port = "GPIOB" /\ r = "MODER"   -> {7, 9}
      [] port = "GPIOB" /\ r = "OSPEEDR" -> {6, 7}
      [] port = "GPIOB" /\ r = "PUPDR"   -> {8}
      [] OTHER -> {}

\* gpioPortResetValues() and the two bits of the pin, reset.<r> & pin_field.
gpioPortResetValues(port, r, pin) ==
    (IF 2 * pin \in ResetBits(port, r) THEN 1 ELSE 0)
    + (IF 2 * pin + 1 \in ResetBits(port, r) THEN 2 ELSE 0)

\* Mutant: the output type stays as it was.
DeinitWithoutType(port, pin) ==
    Ok("gpioDeinit",
       <<Rmw(MODER(port), Field(pin, gpioPortResetValues(port, "MODER", pin))),
         Rmw(OSPEEDR(port), Field(pin, gpioPortResetValues(port, "OSPEEDR", pin))),
         Rmw(PUPDR(port), Field(pin, gpioPortResetValues(port, "PUPDR", pin))),
         Rmw(AFR(port, pin), Field(pin % 8, 0))>>)

gpioDeinit(port, pin) ==
    Ok("gpioDeinit",
       <<Rmw(MODER(port), Field(pin, gpioPortResetValues(port, "MODER", pin))),
         Rmw(OTYPER(port), Field(pin, 0)),
         Rmw(OSPEEDR(port), Field(pin, gpioPortResetValues(port, "OSPEEDR", pin))),
         Rmw(PUPDR(port), Field(pin, gpioPortResetValues(port, "PUPDR", pin))),
         Rmw(AFR(port, pin), Field(pin % 8, 0))>>)

\* Mutant: port->ODR = (port->ODR & ~bit) | level.
WritePinByWord(port, pin, level) == Ok("gpioWritePin", <<Rmw(ODR(port), Field(pin, level))>>)

gpioWritePin(port, pin, level) == Ok("gpioWritePin", <<Put(ODR(port), Field(pin, level))>>)

gpioTogglePin(port, pin) == Ok("gpioTogglePin", <<Flip(ODR(port), pin)>>)

-----------------------------------------------------------------------------
(* EXTI.  A line is a pin number, or one of the internal lines up to 22.    *)

Edges == {"RISING", "FALLING", "BOTH"}

IMR == <<"EXTI", "IMR">>
RTSR == <<"EXTI", "RTSR">>
FTSR == <<"EXTI", "FTSR">>
SWIER == <<"EXTI", "SWIER">>
PR == <<"EXTI", "PR">>

\* Line 19 has no source.
ValidLine(line) == line \in 0..22 \ {19}

\* Four lines to a word.
EXTICR(line) == <<"SYSCFG", <<"EXTICR1", "EXTICR2", "EXTICR3", "EXTICR4">>[line \div 4 + 1]>>

\* GPIOH has only pins 0 and 1.
ValidRoute(line, port) ==
    line \in Pins /\ port \in GpioPorts /\ (port = "GPIOH" => line <= 1)

extiSelectPort(line, port) ==
    Checked("extiSelectPort", ValidRoute(line, port),
            <<Rmw(EXTICR(line), Field(line % 4, port))>>)

\* Mutant: the other edge is left as it was.
AddEdge(line, edge) ==
    Checked("extiConfigure", ValidLine(line) /\ edge \in Edges,
            (IF edge = "FALLING" THEN << >> ELSE <<Rmw(RTSR, Field(line, 1))>>)
            \o (IF edge = "RISING" THEN << >> ELSE <<Rmw(FTSR, Field(line, 1))>>))

extiConfigure(line, edge) ==
    Checked("extiConfigure", ValidLine(line) /\ edge \in Edges,
            <<Rmw(RTSR, Field(line, IF edge = "FALLING" THEN 0 ELSE 1)),
              Rmw(FTSR, Field(line, IF edge = "RISING" THEN 0 ELSE 1))>>)

extiEnableInterrupt(line) ==
    Checked("extiEnableInterrupt", ValidLine(line), <<Rmw(IMR, Field(line, 1))>>)
extiDisableInterrupt(line) ==
    Checked("extiDisableInterrupt", ValidLine(line), <<Rmw(IMR, Field(line, 0))>>)
extiTriggerSoftware(line) ==
    Checked("extiTriggerSoftware", ValidLine(line), <<Rmw(SWIER, Field(line, 1))>>)

\* Mutant: PR |= bit.
ClearPendingByWord(line) ==
    Checked("extiClearPending", ValidLine(line), <<Rmw(PR, Field(line, 1))>>)

extiClearPending(line) ==
    Checked("extiClearPending", ValidLine(line), <<Put(PR, Field(line, 1))>>)

Ones(word) == {f \in DOMAIN word : word[f] = 1}

\* What the registers hold after a store of `written` to r.  A 1 stored to PR
\* clears the line's bit there and in SWIER; a bit that goes from 0 to 1 in
\* SWIER makes its line pending, if the line is unmasked.
After(regs, r, written) ==
    CASE r = PR ->
             [regs EXCEPT ![PR] = [f \in DOMAIN @ |-> IF f \in Ones(written) THEN 0 ELSE @[f]],
                          ![SWIER] = [f \in DOMAIN @ |-> IF f \in Ones(written) THEN 0 ELSE @[f]]]
      [] r = SWIER ->
             LET fired == {f \in Ones(written) : regs[SWIER][f] = 0 /\ regs[IMR][f] = 1}
             IN  [regs EXCEPT ![SWIER] = Over(written, @),
                              ![PR] = [f \in DOMAIN @ |-> IF f \in fired THEN 1 ELSE @[f]]]
      [] OTHER -> [regs EXCEPT ![r] = Over(written, @)]

-----------------------------------------------------------------------------
(* NVIC.  ISER and ICER are two views of the enables, ISPR and ICPR of the  *)
(* pending bits: a store to the first sets, to the second clears.           *)

ISER == <<"NVIC", "ISER">>
ISPR == <<"NVIC", "ISPR">>
IP == <<"NVIC", "IP">>

\* The positions the vector table gives a handler to.
VectorTable == 0..96 \ {61, 62, 79, 80, 82, 83, 85, 86, 88, 89, 90}

\* reserved_mask[irqn / 32]: 0, 0x60000000, 0x076D8000, 0.
ReservedMask(word) ==
    CASE word = 1 -> {29, 30}
      [] word = 2 -> {15, 16, 18, 19, 21, 22, 24, 25, 26}
      [] OTHER -> {}

\* nvicValidateIrq(): negative numbers are system exceptions.
ValidIrq(irqn) == irqn \in 0..96 /\ irqn % 32 \notin ReservedMask(irqn \div 32)

nvicEnableIrq(irqn) == Checked("nvicEnableIrq", ValidIrq(irqn), <<Put(ISER, Field(irqn, 1))>>)

\* Mutant: returns without the barrier.
DisableWithoutBarrier(irqn) ==
    Checked("nvicDisableIrq", ValidIrq(irqn), <<Put(ISER, Field(irqn, 0))>>)

nvicDisableIrq(irqn) ==
    Checked("nvicDisableIrq", ValidIrq(irqn), <<Put(ISER, Field(irqn, 0)), Barrier>>)
nvicSetPending(irqn) == Checked("nvicSetPending", ValidIrq(irqn), <<Put(ISPR, Field(irqn, 1))>>)
nvicClearPending(irqn) ==
    Checked("nvicClearPending", ValidIrq(irqn), <<Put(ISPR, Field(irqn, 0))>>)
nvicSetPriority(irqn, priority) ==
    Checked("nvicSetPriority", ValidIrq(irqn) /\ priority \in 0..15,
            <<Put(IP, Field(irqn, priority))>>)

\* The SHPR word of each configurable system handler.
ShprOf(handler) ==
    CASE handler \in {"MemoryManagement", "BusFault", "UsageFault"} -> <<"SCB", "SHPR1">>
      [] handler = "SVCall" -> <<"SCB", "SHPR2">>
      [] OTHER -> <<"SCB", "SHPR3">>

SystemHandlers == {"MemoryManagement", "BusFault", "UsageFault", "SVCall", "PendSV", "SysTick"}

nvicSetSystemHandlerPriority(handler, priority) ==
    Checked("nvicSetSystemHandlerPriority",
            handler \in SystemHandlers /\ priority \in 0..15,
            <<Rmw(ShprOf(handler), Field(handler, priority))>>)

-----------------------------------------------------------------------------
(* Fault driver, and the debug freezes of the two watchdogs.                *)

SHCSR == <<"SCB", "SHCSR">>
CCR == <<"SCB", "CCR">>

faultEnable ==
    Ok("faultEnable",
       <<Rmw(SHCSR, [f \in {"MEMFAULTENA", "BUSFAULTENA", "USGFAULTENA"} |-> 1]),
         Rmw(CCR, Field("DIV_0_TRP", 1))>>)

APB1_FZ == <<"DBGMCU", "APB1_FZ">>

iwdgFreezeInDebug == Ok("iwdgFreezeInDebug", <<Rmw(APB1_FZ, Field("IWDG", 1))>>)
wwdgFreezeInDebug == Ok("wwdgFreezeInDebug", <<Rmw(APB1_FZ, Field("WWDG", 1))>>)

-----------------------------------------------------------------------------
(* Every call of these functions.                                           *)

PinConfigs == [mode : 0..ANALOG, otype : 0..1, ospeed : 0..3, pupd : 0..3]

IsRccCall(f) ==
    \/ f \in {rccUsart2ClockEnable, rccUsart2ClockDisable, rccWwdgClockEnable, rccWwdgClockDisable,
              rccSyscfgClockEnable, rccSyscfgClockDisable, rccPwrClockEnable, rccPwrClockDisable}
    \/ \E port \in GpioPorts \union {"none"} : f \in {rccGpioClockEnable(port), rccGpioClockDisable(port)}

IsGpioCall(f) ==
    \E port \in GpioPorts, pin \in Pins :
        \/ f \in {gpioDeinit(port, pin), gpioTogglePin(port, pin)}
        \/ \E level \in 0..1 : f = gpioWritePin(port, pin, level)
        \/ \E af \in 0..16 : f = gpioSetAlternateFunction(port, pin, af)
        \/ \E c \in PinConfigs : f = gpioInit(port, pin, c)

IsExtiCall(f) ==
    \E line \in 0..23 :
        \/ f \in {extiEnableInterrupt(line), extiDisableInterrupt(line),
                  extiTriggerSoftware(line), extiClearPending(line)}
        \/ \E port \in GpioPorts : f = extiSelectPort(line, port)
        \/ \E edge \in Edges : f = extiConfigure(line, edge)

IsNvicCall(f) ==
    \/ \E irqn \in -16..97 :
           \/ f \in {nvicEnableIrq(irqn), nvicDisableIrq(irqn),
                     nvicSetPending(irqn), nvicClearPending(irqn)}
           \/ \E priority \in 0..16 : f = nvicSetPriority(irqn, priority)
    \/ \E handler \in SystemHandlers, priority \in 0..16 :
           f = nvicSetSystemHandlerPriority(handler, priority)

IsCall(f) ==
    \/ IsRccCall(f) \/ IsGpioCall(f) \/ IsExtiCall(f) \/ IsNvicCall(f)
    \/ f \in {faultEnable, iwdgFreezeInDebug, wwdgFreezeInDebug}
=============================================================================
