------------------------------- MODULE MCWwdg -------------------------------
(* A counter of 0..7 for the chip's 0..127: windows and start values from   *)
(* the middle to the top, and one beyond at either end.                     *)
EXTENDS Wwdg
=============================================================================
