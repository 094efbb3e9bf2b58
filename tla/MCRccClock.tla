----------------------------- MODULE MCRccClock -----------------------------
(* Model values for RccClock: two PLL settings, a slow one on HSI (the      *)
(* reset value) and a fast one on HSE.                                      *)
EXTENDS RccClock

MCPllSettings == {"slow", "fast"}
MCPllInputOf == [slow |-> "HSI", fast |-> "HSE"]
MCPllWait == [slow |-> 1, fast |-> 2]
MCOscWait == [HSI |-> 0, HSE |-> 0]
MCLatencies == {0, 1, 2, 16}
MCBusSettings == {<<1, 1, 1>>, <<32, 1, 1>>, <<1, 3, 1>>, <<1, 1, 3>>}
=============================================================================
