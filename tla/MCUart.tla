------------------------------- MODULE MCUart -------------------------------
(* Rates: the least and the greatest divisor that BRR holds, both by        *)
(* rounding up; clocks that round to one less and to one more; a baud rate  *)
(* of 0.                                                                    *)
EXTENDS Uart

MCRates == {<<15500000, 1000000>>, <<39320940, 600>>,
            <<15499999, 1000000>>, <<39321300, 600>>, <<45000000, 0>>}
=============================================================================
