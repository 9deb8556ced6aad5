------------------------------ MODULE MCPoller ------------------------------
(* A small instance of Poller: two concurrent requests, two cookies, and   *)
(* ceilings small enough for every branch of the schedule to be reached.   *)
EXTENDS Poller
=============================================================================
