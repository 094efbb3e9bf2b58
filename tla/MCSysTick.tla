----------------------------- MODULE MCSysTick -----------------------------
(* A counter of three bits: periods of 2, 3 and 8 clocks, and requests for  *)
(* fewer and for more, with and without a remainder.                        *)
EXTENDS SysTick

MCRequests == {<<0, 1>>, <<4, 0>>, <<1, 2>>, <<3, 2>>, <<4, 2>>, <<7, 2>>, <<16, 2>>, <<18, 2>>}
=============================================================================
