------------------------------ MODULE MCScreen ------------------------------
(* A window that is unused or spent, sessions of two ticks, weeks of three; *)
(* an hour of two ticks, whose start the vendor names a tick early or not.  *)
EXTENDS Screen

MCJitters == {-1, 0}
=============================================================================
