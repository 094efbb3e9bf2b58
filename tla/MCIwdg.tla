------------------------------- MODULE MCIwdg -------------------------------
(* Two prescalers, and reload values large enough for the slow one with a   *)
(* short reload to promise as long as the fast one with the longest.        *)
EXTENDS Iwdg, TLC

MCDivider == 0 :> 1 @@ 1 :> 4
=============================================================================
