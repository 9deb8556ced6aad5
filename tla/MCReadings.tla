----------------------------- MODULE MCReadings -----------------------------
(* Small instances of Readings: a few polls, two week ends, two levels.    *)
EXTENDS Readings
=============================================================================
