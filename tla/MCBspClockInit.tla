--------------------------- MODULE MCBspClockInit ---------------------------
(* The chip's values: PLLCFGR resets to 16 MHz / 16 x 192 / 2 = 96 MHz from *)
(* HSI; one flash wait state per 30 MHz started (RM0390 Table 5, 2.7-3.6 V).*)
EXTENDS BspClockInit

MCPllReset == [src |-> "HSI", m |-> 16, n |-> 192, p |-> 2]
MCPllInvalid == [src |-> "HSI", m |-> 1, n |-> 192, p |-> 2]
MCPllSettings == {MCPllReset, BspPll}
MCPllInputOf == [c \in MCPllSettings |-> c.src]
WaitStates(mhz) == (mhz - 1) \div 30
MCPllWait == [c \in MCPllSettings |-> WaitStates(IF c = BspPll THEN 180 ELSE 96)]
MCOscWait == [HSI |-> WaitStates(16), HSE |-> WaitStates(8)]
MCLatencies == {BspLatency}
MCBusSettings == {BspBus}
=============================================================================
