------------------------------- MODULE Weeks --------------------------------
(***************************************************************************)
(* The Weeks table (weeks.py, dashboard._weeks_view).  A poll that sees    *)
(* the weekly limit with a new reset time records the week that closed and *)
(* what its sessions cost, as an event that is never changed; a poll may   *)
(* fail to, and the next start writes what is missing.  The table is put   *)
(* together from those events: each closes one week and opens the next.    *)
(* The costs come from the rows of session_window, which the same poll     *)
(* rebuilds just before; when that fails the figures are of the rows as    *)
(* they were, and stay so.                                                 *)
(* Readings models the detector; here it is what the table says.           *)
(***************************************************************************)
EXTENDS Integers, Sequences, FiniteSets, FiniteSetsExt, SequencesExt

CONSTANTS
    Costs,          \* of the week for a full session
    SessionLength, WeekLength,
    MinCompare,     \* MIN_COMPARE_WINDOWS
    MaxTime         \* bound on the clock

WeeksAssumption ==
    /\ Costs \cup {SessionLength, WeekLength, MinCompare} \subseteq Nat \ {0}
    /\ MaxTime \in Nat

VARIABLES
    now,
    sessions,  \* the session windows that are over: [ends, cost]
    windows,   \* the complete rows of session_window, as they were last rebuilt
    polls,     \* when the weekly limit was read
    ledger,    \* the week_reset events, which `ledger` sorts as it reads them
    misled     \* history: closings recorded while `windows` was behind `sessions`

vars == <<now, sessions, windows, polls, ledger, misled>>

None == -1

Init ==
    /\ now = 0 /\ sessions = {} /\ windows = {}
    /\ polls = {} /\ ledger = {} /\ misled = {}

(* week_key: weeks follow one another from a fixed moment. *)
WeekKey(t) == t \div WeekLength

(* The week a session was worked in, or None when it spans a reset. *)
WeekOf(s) ==
    IF WeekKey(s.ends - SessionLength) = WeekKey(s.ends - 1) THEN WeekKey(s.ends - 1) ELSE None

(* _stats: a median (twice it, here), or nothing below the floor. *)
Stats(S) ==
    LET sorted == SetToSortSeq(S, LAMBDA a, b :
                      a.cost < b.cost \/ (a.cost = b.cost /\ a.ends < b.ends))
        n == Cardinality(S)
    IN  IF n < MinCompare THEN None
        ELSE sorted[(n + 1) \div 2].cost + sorted[n \div 2 + 1].cost

Summarize(rows, week) == Stats({s \in rows : WeekOf(s) = week})
FullWindows(rows, asOf) == Stats({s \in rows : s.ends <= asOf})

(* week_reset and _record: the week that closed, from the windows in it;    *)
(* what a fresh week buys, from every window that was complete at its last  *)
(* reading; and what it buys at the rate of the week that closed.          *)
WeekReset(rows, closedAt) ==
    [closed_at |-> closedAt,
     cost      |-> Summarize(rows, WeekKey(closedAt)),
     at_reset  |-> FullWindows(rows, closedAt),
     at_rate   |-> Summarize(rows, WeekKey(closedAt))]

(* detect_resets, over the readings of scan_history: the last reading of a  *)
(* window before one with another reset time.                              *)
Closings(readings) ==
    {t \in readings : \E u \in readings : /\ u > t /\ WeekKey(u) # WeekKey(t)
                                          /\ \A v \in readings : v <= t \/ u <= v}

(* The write path, from the rows there are: what is there already is skipped. *)
Record(closings) ==
    LET fresh == {c \in closings : \A e \in ledger : e.closed_at # c}
    IN  /\ ledger' = ledger \cup {WeekReset(windows', t) : t \in fresh}
        /\ misled' = IF windows' = sessions THEN misled ELSE misled \cup fresh

-----------------------------------------------------------------------------
(* A session is over, at the first poll that may find it so.  What its own *)
(* polls rebuilt of it is final, or unfinished, or too little to count.    *)
Session(cost) ==
    /\ now >= SessionLength /\ now \notin polls
    /\ \A s \in sessions : s.ends <= now - SessionLength
    /\ sessions' = sessions \cup {[ends |-> now, cost |-> cost]}
    /\ \/ UNCHANGED windows
       \/ \E seen \in Costs : windows' = windows \cup {[ends |-> now, cost |-> seen]}
    /\ UNCHANGED <<now, polls, ledger, misled>>

(* rebuild, or rebuild_recent: an error is swallowed.                      *)
Rebuild == windows' = sessions \/ UNCHANGED windows

(* A poll reads the limit and rebuilds the sessions, and _check_week_reset *)
(* records or fails, whether or not the rebuild did.                       *)
Poll ==
    /\ now \notin polls
    /\ polls' = polls \cup {now}
    /\ Rebuild
    /\ \/ Record(Closings(polls') \ Closings(polls))
       \/ UNCHANGED <<ledger, misled>>
    /\ UNCHANGED <<now, sessions>>

(* The start: rebuild and backfill, each of which may fail.                *)
Backfill ==
    /\ Rebuild
    /\ \/ Record(Closings(polls))
       \/ UNCHANGED <<ledger, misled>>
    /\ UNCHANGED <<now, sessions, polls>>

Tick ==
    /\ now < MaxTime /\ now' = now + 1
    /\ UNCHANGED <<sessions, windows, polls, ledger, misled>>

Next == (\E cost \in Costs : Session(cost)) \/ Poll \/ Backfill \/ Tick

Spec == Init /\ [][Next]_vars

-----------------------------------------------------------------------------
(* week_rows.                                                              *)

ByClose(week) == {e \in ledger : WeekKey(e.closed_at) = week}
WeeksShown == UNION {{WeekKey(e.closed_at), WeekKey(e.closed_at) + 1} : e \in ledger}

(* _cost_fields: from the reset that closed the week. *)
CostFields(week) ==
    IF ByClose(week) = {} THEN [closed_at |-> None, cost |-> None]
    ELSE LET e == CHOOSE q \in ByClose(week) : TRUE
         IN  [closed_at |-> e.closed_at, cost |-> e.cost]

(* Fault: the figures of the reset stay with the week it closed. *)
OpenerOfClosed(week) == ByClose(week)

(* The reset that opened the week closed the one before. *)
Opener(week) == ByClose(week - 1)

(* _reset_fields: from the reset that opened the week. *)
ResetFields(week) ==
    IF Opener(week) = {} THEN [at_reset |-> None, at_rate |-> None]
    ELSE LET e == CHOOSE q \in Opener(week) : TRUE
         IN  [at_reset |-> e.at_reset, at_rate |-> e.at_rate]

(* _weeks_view: the open week is live, and always there. *)
Row(week) ==
    [week |-> week,
     closed_at |-> IF week = WeekKey(now) THEN None ELSE CostFields(week).closed_at,
     cost |-> IF week = WeekKey(now) THEN Summarize(windows, week) ELSE CostFields(week).cost,
     at_reset |-> ResetFields(week).at_reset,
     at_rate |-> ResetFields(week).at_rate]

WeeksView == {Row(week) : week \in WeeksShown \cup {WeekKey(now)}}

(* verdict: the newest two weeks that have a cost, of those that closed. *)
Verdict ==
    LET complete == {r \in WeeksView : r.closed_at # None /\ r.cost # None}
        new == CHOOSE r \in complete : \A q \in complete : q.week <= r.week
    IN  IF Cardinality(complete) < 2 THEN {}
        ELSE {<<new, CHOOSE r \in complete \ {new} : \A q \in complete \ {new} : q.week <= r.week>>}

-----------------------------------------------------------------------------
LastReading(week) == Max({None} \cup {t \in polls : WeekKey(t) = week})

(* "Each reset closes one week and opens the next, so a week's figures come *)
(* from two resets" (week_rows): whenever its event was written, at the     *)
(* poll or by a later start, a week's row tells what its own sessions cost, *)
(* what the budget said at the last reading of the week before, and what a  *)
(* session cost in the week before; the verdict compares two such weeks,    *)
(* the later one first.  The one exception: an event written while a       *)
(* failed rebuild had left session_window behind keeps what that said.     *)
WeekTableIsTrue ==
    /\ \A r \in WeeksView :
          /\ r.closed_at # None =>
                /\ r.closed_at = LastReading(r.week)
                /\ r.closed_at \notin misled => r.cost = Summarize(sessions, r.week)
          /\ r.at_reset # None /\ LastReading(r.week - 1) \notin misled =>
                r.at_reset = FullWindows(sessions, LastReading(r.week - 1))
          /\ r.at_rate # None /\ LastReading(r.week - 1) \notin misled =>
                r.at_rate = Summarize(sessions, r.week - 1)
    /\ \A v \in Verdict :
          /\ v[2].week < v[1].week
          /\ \A i \in {1, 2} : v[i].closed_at \notin misled =>
                                v[i].cost = Summarize(sessions, v[i].week)

=============================================================================
