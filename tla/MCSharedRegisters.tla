------------------------- MODULE MCSharedRegisters -------------------------
(* Both contexts enable clocks of one register and of others; configure     *)
(* pins of the debug port and give them back; drive pins of one port, the   *)
(* main program LD2 (PA5), the handler PA6; change interrupts and           *)
(* priorities that share a word; and trigger lines 5 and 6 and clear them.  *)
EXTENDS SharedRegisters

PullUpOutput == [mode |-> OUTPUT, otype |-> 1, ospeed |-> 1, pupd |-> 1]
FastAlternate == [mode |-> AF, otype |-> 0, ospeed |-> 2, pupd |-> 0]
ReservedPull == [mode |-> INPUT, otype |-> 0, ospeed |-> 0, pupd |-> 3]

MCCalls == [c \in Contexts |->
    IF c = "main"
    THEN {rccUsart2ClockEnable, rccWwdgClockDisable, rccSyscfgClockEnable,
          rccGpioClockEnable("GPIOA"), rccGpioClockDisable("GPIOB"), rccGpioClockEnable("none"),
          gpioInit("GPIOA", 13, PullUpOutput), gpioInit("GPIOB", 3, FastAlternate),
          gpioInit("GPIOA", 5, ReservedPull), gpioSetAlternateFunction("GPIOB", 3, 7),
          gpioDeinit("GPIOA", 13), gpioDeinit("GPIOB", 3), gpioDeinit("GPIOB", 4),
          gpioWritePin("GPIOA", 5, 1), gpioTogglePin("GPIOA", 5),
          nvicSetSystemHandlerPriority("SysTick", 15), nvicSetPriority(23, 5),
          nvicEnableIrq(23), nvicDisableIrq(23), nvicSetPending(23), nvicClearPending(23),
          extiSelectPort(5, "GPIOB"), extiConfigure(5, "FALLING"), extiEnableInterrupt(5),
          extiTriggerSoftware(5), extiTriggerSoftware(6), extiClearPending(5),
          faultEnable, iwdgFreezeInDebug}
    ELSE {rccWwdgClockEnable, rccGpioClockEnable("GPIOB"), rccPwrClockEnable,
          gpioInit("GPIOA", 6, PullUpOutput), gpioInit("GPIOB", 4, PullUpOutput),
          gpioWritePin("GPIOA", 6, 1), gpioWritePin("GPIOA", 6, 0), gpioTogglePin("GPIOA", 7),
          nvicSetSystemHandlerPriority("PendSV", 15), nvicSetPriority(40, 6), nvicEnableIrq(40),
          nvicSetPending(40), nvicClearPending(40),
          extiSelectPort(6, "GPIOC"), extiDisableInterrupt(6), extiConfigure(6, "RISING"),
          extiEnableInterrupt(6), extiTriggerSoftware(6),
          extiClearPending(5), extiClearPending(6),
          wwdgFreezeInDebug}]
=============================================================================
