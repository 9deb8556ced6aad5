---------------------------- MODULE EdgeDetector ----------------------------
(***************************************************************************)
(* What the burn alert promises (alerts.py): "an edge, not a level".  One  *)
(* announcement when the rate reaches the threshold, one when it falls     *)
(* back under the hysteresis band, none in between.  There are no          *)
(* processes here: a restart must not be seen.                             *)
(*                                                                         *)
(* Two things may be seen, but not for long.  A fall that is only the limit*)
(* being raised re-arms the detector without a word, and the store may     *)
(* lose an announcement or fail the start that reads them.  The log marks  *)
(* each; from there on an edge may go unheard and a standing alert may be  *)
(* repeated, until the next announcement that gets through.                *)
(***************************************************************************)
EXTENDS Integers, Sequences

CONSTANTS Rates, Thresholds

VARIABLES
    armed,      \* the next rate at or above the threshold is news
    threshold,  \* in points per hour
    log         \* what was announced, in order, and what was not

vars == <<armed, threshold, log>>

\* HYSTERESIS = 0.9, in integers.
Reaches(rate, t) == rate >= t
FallsBack(rate, t) == 10 * rate < 9 * t

(* Nothing has gone unsaid since the newest announcement.                  *)
Sure == log = <<>> \/ log[Len(log)] \in {"burn_alert", "burn_cleared"}

Init == armed = TRUE /\ threshold \in Thresholds /\ log = <<>>

Alert ==
    /\ Sure => armed
    /\ \E rate \in Rates : Reaches(rate, threshold)
    /\ armed' = FALSE
    /\ \E said \in {"burn_alert", "alert_lost"} : log' = Append(log, said)
    /\ UNCHANGED threshold

Clear ==
    /\ Sure => ~armed
    /\ \E rate \in Rates : FallsBack(rate, threshold)
    /\ armed' = TRUE
    /\ \E said \in {"burn_cleared", "clear_lost", "boosted"} : log' = Append(log, said)
    /\ UNCHANGED threshold

(* An edge nobody hears of: only while something has gone unsaid.          *)
Miss ==
    /\ ~Sure
    /\ armed' \in BOOLEAN
    /\ UNCHANGED <<threshold, log>>

Retune ==
    /\ threshold' \in Thresholds
    /\ log' \in {log, Append(log, "unread")}
    /\ UNCHANGED armed

Next == Alert \/ Clear \/ Miss \/ Retune

Spec == Init /\ [][Next]_vars
=============================================================================
