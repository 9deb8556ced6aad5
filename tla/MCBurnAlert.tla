---------------------------- MODULE MCBurnAlert ----------------------------
(* Small instances of BurnAlert: two thresholds, rates on both sides of    *)
(* each and inside the hysteresis band, a handful of seconds.              *)
EXTENDS BurnAlert
=============================================================================
