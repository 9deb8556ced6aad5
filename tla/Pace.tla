-------------------------------- MODULE Pace --------------------------------
(***************************************************************************)
(* Where the week lands (pace.py), asked at every hour of a week beside    *)
(* the weeks before it.  An hour counts from the opening; a week's curve   *)
(* is its percentage at each hour (hourly).  A percentage may fall, by the *)
(* vendor's corrections or by a boost: only a week that fell by            *)
(* BOOST_DROP_PTS within an hour is left out as boosted.                   *)
(***************************************************************************)
EXTENDS Segments

CONSTANTS
    WeekHours,  \* WEEK_HOURS
    MinElapsed, \* MIN_ELAPSED_S, in hours
    Out,        \* OUT_PCT
    BoostDrop,  \* BOOST_DROP_PTS
    Levels,     \* the percentages of the weeks before
    Weeks,      \* MAX_PRIOR_WEEKS
    Slack       \* OPEN_SLACK_S and CLOSE_SLACK_S, in hours

PaceAssumption ==
    /\ {WeekHours, MinElapsed, Out, BoostDrop} \subseteq Nat \ {0}
    /\ Levels \subseteq Nat /\ {Weeks, Slack} \subseteq Nat

Hours == 0..WeekHours

VARIABLES
    hour, level, \* of this week, as the newest reading says
    behind       \* the weeks before, newest first: what is stored of each

vars == <<hour, level, behind>>

-----------------------------------------------------------------------------
(* A week is stored as its readings: the percentage at some of its hours.  *)

IsComplete(readings) ==
    LET read == DOMAIN readings
    IN  read # {} /\ Min(read) <= Slack /\ Max(read) >= WeekHours - Slack

(* The last reading at or before each hour, the first one before that.     *)
Hourly(readings) ==
    [h \in Hours |-> LET upTo == {g \in DOMAIN readings : g <= h}
                     IN  readings[IF upTo = {} THEN Min(DOMAIN readings) ELSE Max(upTo)]]

IsBoosted(curve) == \E h \in 1..WeekHours : curve[h - 1] - curve[h] >= BoostDrop

\* _read_prior: the curves of the weeks behind that count.
Prior == {i \in DOMAIN behind : IsComplete(behind[i]) /\ ~IsBoosted(Hourly(behind[i]))}
PriorCurves == [i \in Prior |-> Hourly(behind[i])]

-----------------------------------------------------------------------------
(* project.  A number may be a half: all are doubled, as is Out.           *)

\* Later than every hour.
Never == WeekHours + 1

(* When a prior week's climb from here, laid on this week, reaches Out.    *)
Crossing(curve, h, now) ==
    Min({t \in h + 1..WeekHours : now + curve[t] - curve[h] >= Out} \cup {Never})

LinearCrossing(h, now) ==
    IF now = 0 THEN Never ELSE Min({Never, (h * Out + now - 1) \div now})

(* Fault: an even split does not run out.                                  *)
CentralHigh(crossings) == Smallest(crossings, Half(crossings) + 1)

\* At least half the weeks run out.
Central(crossings) == MedianLow(crossings)

Project(now, h, prior) ==
    LET ends == [i \in DOMAIN prior |-> now + prior[i][WeekHours] - prior[i][h]]
        linear2 == (2 * now * WeekHours) \div h
        crossings == [i \in DOMAIN prior |-> Crossing(prior[i], h, now)]
        every == Range(crossings) \cup {LinearCrossing(h, now)}
        central == Central(crossings)
    IN  [end2  |-> Min({Median2(ends), 2 * Out}),
         low2  |-> Max({2 * now, Min({2 * Min(Range(ends)), linear2, 2 * Out})}),
         high2 |-> Min({2 * Out, Max({2 * Max(Range(ends)), linear2})}),
         runsOut |-> central # Never,
         at      |-> IF central # Never THEN central ELSE None,
         first   |-> IF central # Never THEN Min(every) ELSE None,
         last    |-> IF central # Never /\ Never \notin every THEN Max(every) ELSE None]

(* compute_pace, of readings that are not withheld: what the page shows.   *)
Pace ==
    IF hour < MinElapsed \/ Prior = {} \/ level >= Out
    THEN {} ELSE {Project(level, hour, PriorCurves)}

-----------------------------------------------------------------------------
(* Weeks of any course, read hour by hour, the last reading just before    *)
(* the reset; or with a first or a later reading missing, or begun late.   *)
Readings(curve, hours) == [h \in hours |-> curve[h]]

Curves == [Hours -> Levels]
Observed == {Hours, Hours \ {0}, Hours \ 0..Slack, Hours \ {WeekHours - 1}}
Behind == {Readings(c, hours) : c \in Curves, hours \in Observed}

Init ==
    /\ hour = 0 /\ level = 0
    /\ behind = <<>>

\* The reading of the next hour, which may be lower.
Read ==
    /\ hour < WeekHours /\ hour' = hour + 1
    /\ level' \in 0..Out
    /\ UNCHANGED behind

\* A week went by, read to its end or not.
NextWeek ==
    /\ Len(behind) < Weeks
    /\ \E readings \in Behind : behind' = <<readings>> \o behind
    /\ hour' = 0 /\ level' = 0

Next == Read \/ NextWeek

Spec == Init /\ [][Next]_vars

(* "The spread is the lowest and highest of the per-week estimates with    *)
(* the linear one added" (pace.py): the figure lies in its spread and the  *)
(* spread above what is used; the moment lies in its own, ahead and before *)
(* the reset; and a week that ends at its limit is said to run out.  The   *)
(* exception: beside a week that was corrected to less than it had at this *)
(* hour the figure may fall below what is used, where the spread begins.   *)
FellFromHere == \E i \in Prior : PriorCurves[i][WeekHours] < PriorCurves[i][hour]

PaceHangsTogether ==
    \A p \in Pace :
        /\ 2 * level <= p.low2 /\ p.low2 <= p.high2 /\ p.end2 <= p.high2
        /\ p.low2 <= p.end2 \/ (p.low2 = 2 * level /\ FellFromHere)
        /\ p.end2 = 2 * Out => p.runsOut
        /\ p.runsOut => /\ hour < p.first /\ p.first <= p.at /\ p.at <= WeekHours
                        /\ p.last # None => p.at <= p.last /\ p.last <= WeekHours
        /\ p.runsOut /\ p.last = None => p.low2 < 2 * Out
=============================================================================
