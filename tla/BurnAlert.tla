------------------------------ MODULE BurnAlert ------------------------------
(***************************************************************************)
(* The burn alert: _check_threshold of poller.py, ThresholdDetector of     *)
(* alerts.py in memory, its events in the store, and restarts.             *)
(*                                                                         *)
(* Of the event table only what is read back is kept: the ts of the newest *)
(* event of either kind.  How a rate is computed from the rows is left     *)
(* out; a rate the evidence floor refuses is NoRate.                       *)
(*                                                                         *)
(* The store may fail: the detector has moved before its event is written, *)
(* and the poll swallows the error; a start that cannot read the events    *)
(* takes the detector for one that is not firing.                          *)
(***************************************************************************)
EXTENDS Integers, Sequences, FiniteSets

CONSTANTS
    Rates,          \* points per hour
    NoRate,         \* the span is below min_trusted_span, or there is no rate
    Thresholds,     \* values of settings.burn_alert_pts_per_hour
    PollsPerSecond, \* 1, or 2: the loop's and a forced one, which has a cooldown
    MaxTime,        \* bound on the clock
    MaxErrors       \* bound on the store errors; 0: it never fails

ASSUME BurnAlertAssumption ==
    /\ Rates \subseteq Nat /\ NoRate \notin Rates
    /\ Thresholds \subseteq Nat \ {0} /\ Thresholds # {}
    /\ PollsPerSecond \in {1, 2} /\ MaxTime \in Nat
    /\ MaxErrors \in Nat

VARIABLES
    up,             \* the process runs
    firing,         \* self._detector.firing
    threshold,      \* self._detector.threshold
    settings,       \* settings.burn_alert_pts_per_hour as last adopted
    now, polls,     \* the clock, and the polls of the current second
    alertTs, clearedTs, \* ts of the newest burn_alert and burn_cleared; -1: none
    armed,          \* history: EdgeDetector's view of the same rates
    log             \* history: what was announced, and where the store failed

vars == <<up, firing, threshold, settings, now, polls, alertTs, clearedTs,
          armed, log>>

None == -1

\* HYSTERESIS = 0.9, in integers.
Reaches(rate) == rate >= threshold
FallsBack(rate) == 10 * rate < 9 * threshold

Init ==
    /\ up = TRUE /\ firing = FALSE
    /\ settings \in Thresholds /\ threshold = settings
    /\ now = 0 /\ polls = 0
    /\ alertTs = None /\ clearedTs = None
    /\ armed = TRUE /\ log = <<>>

(* Fault: a detector that has never cleared is never standing.             *)
StandingOnceCleared == alertTs # None /\ clearedTs # None /\ clearedTs < alertTs

(* Fault: any alert stands, whatever was recorded after it.                *)
StandingForever == alertTs # None

(* standing(), judged from the newest event of either kind.                *)
Standing == alertTs # None /\ (clearedTs = None \/ clearedTs < alertTs)

\* What the rate means to whoever watches it, whatever the process does.
Observe(rate) == armed' = IF armed THEN ~Reaches(rate) ELSE FallsBack(rate)

(* The history: an event recorded, or what nobody was told.                *)
Note(kind) == log' = Append(log, kind)

Losses == {"alert_lost", "clear_lost", "unread"}

(* The store raises: the history keeps what that cost.                     *)
StoreFails(loss) ==
    /\ Cardinality({i \in DOMAIN log : log[i] \in Losses}) < MaxErrors
    /\ Note(loss)

(* The detector fires, then its event is recorded or is lost for good.     *)
Alert(rate) ==
    /\ ~firing /\ Reaches(rate)
    /\ firing' = TRUE
    /\ \/ alertTs' = now /\ Note("burn_alert")
       \/ UNCHANGED alertTs /\ StoreFails("alert_lost")
    /\ UNCHANGED clearedTs

(* A fall in the poll that saw a boost clears the detector and is not said:*)
(* the newest event stays the alert.                                       *)
Clear(rate, boosted) ==
    /\ firing /\ FallsBack(rate)
    /\ firing' = FALSE
    /\ \/ boosted /\ UNCHANGED clearedTs /\ Note("boosted")
       \/ ~boosted /\ clearedTs' = now /\ Note("burn_cleared")
       \/ ~boosted /\ UNCHANGED clearedTs /\ StoreFails("clear_lost")
    /\ UNCHANGED alertTs

Hold(rate) ==
    /\ IF firing THEN ~FallsBack(rate) ELSE ~Reaches(rate)
    /\ UNCHANGED <<firing, alertTs, clearedTs, log>>

(* _check_threshold at the end of a good poll.                             *)
CheckThreshold(rate, boosted) ==
    /\ up /\ polls < PollsPerSecond
    /\ polls' = polls + 1
    /\ IF rate = NoRate
       THEN UNCHANGED <<firing, alertTs, clearedTs, armed, log>>
       ELSE /\ Observe(rate)
            /\ Alert(rate) \/ Clear(rate, boosted) \/ Hold(rate)
    /\ UNCHANGED <<up, threshold, settings, now>>

Die ==
    /\ up /\ up' = FALSE
    /\ UNCHANGED <<firing, threshold, settings, now, polls, alertTs, clearedTs,
                   armed, log>>

(* __init__: the detector takes the settings' threshold and the edge that  *)
(* the events recorded; events that cannot be read count as no alert.      *)
Start ==
    /\ ~up /\ up' = TRUE
    /\ \/ firing' = Standing /\ UNCHANGED log
       \/ firing' = FALSE /\ StoreFails("unread")
    /\ threshold' = settings
    /\ UNCHANGED <<settings, now, polls, alertTs, clearedTs, armed>>

(* adopt() replaces the settings; the detector keeps the threshold it has. *)
Adopt(t) ==
    /\ settings' = t
    /\ UNCHANGED <<up, firing, threshold, now, polls, alertTs, clearedTs, armed, log>>

Tick ==
    /\ now < MaxTime /\ now' = now + 1 /\ polls' = 0
    /\ UNCHANGED <<up, firing, threshold, settings, alertTs, clearedTs,
                   armed, log>>

Next ==
    \/ \E rate \in Rates \cup {NoRate}, boosted \in BOOLEAN : CheckThreshold(rate, boosted)
    \/ Die
    \/ Start
    \/ \E t \in Thresholds : Adopt(t)
    \/ Tick

Spec == Init /\ [][Next]_vars

-----------------------------------------------------------------------------
TypeOK ==
    /\ up \in BOOLEAN /\ firing \in BOOLEAN
    /\ threshold \in Thresholds /\ settings \in Thresholds
    /\ now \in 0..MaxTime /\ polls \in 0..PollsPerSecond
    /\ alertTs \in -1..MaxTime /\ clearedTs \in -1..MaxTime
    /\ armed \in BOOLEAN
    /\ log \in Seq({"burn_alert", "burn_cleared", "boosted"} \cup Losses)

(* "The state lives in the poller, so a restart cannot re-fire an alert    *)
(* that already fired" (alerts.py): seen from its receiver, the alert with *)
(* its restarts is the edge detector without them.  A store error, or a    *)
(* fall that was not said for a boost, unsettles it until the next         *)
(* announcement that gets through, and no longer.                          *)
Edges == INSTANCE EdgeDetector WITH
            Rates <- Rates, Thresholds <- Thresholds,
            armed <- armed, threshold <- threshold, log <- log
OneEventPerCrossing == Edges!Spec

(* The newest announcement that got through is an alert.                   *)
HeardAlertLast(n) ==
    \E i \in 1..n : /\ log[i] = "burn_alert"
                    /\ \A j \in (i + 1)..n : log[j] # "burn_cleared"

(* Nothing is announced as falling back that was not announced as having   *)
(* crossed, boosts, restarts and forced polls in the same second included. *)
(* The one exception is the alert the store lost: the fall that follows it *)
(* is announced all the same.                                              *)
ClearsAnswerAlerts ==
    \A i \in 1..Len(log) : log[i] = "burn_cleared" =>
        \/ HeardAlertLast(i - 1)
        \/ i > 1 /\ log[i - 1] = "alert_lost"
=============================================================================
