------------------------------ MODULE Measures ------------------------------
(***************************************************************************)
(* What the page computes from the stored rows: the burn rate (burn.py),   *)
(* the session windows and the idle spans between them (sessions.py), the  *)
(* hour strip and the runway (runway.py), what a window cost the week      *)
(* (budget.py) and the hours of use (heatmap.py).                          *)
(*                                                                         *)
(* Ratios are multiples of 1/Scale, a number that every divisor divides.   *)
(***************************************************************************)
EXTENDS Segments

CONSTANTS
    MinSpan,     \* MIN_SPAN_S
    Length,      \* SESSION_LENGTH_S
    Hour,        \* of the strip
    CellHour,    \* and of the heatmap
    MinDelta,    \* MIN_SESSION_DELTA_PCT
    MinCompare,  \* MIN_COMPARE_WINDOWS
    Anchor, WeekLength, \* when a reset week opens
    Attribute,   \* MAX_ATTRIBUTE_GAP_S
    Offset,      \* of local time from UTC, which may be half an hour
    Full,        \* 100 percent of a limit
    Scale        \* of ratios

Pairs(rows) == {<<rows[i], rows[i + 1]>> : i \in 1..Len(rows) - 1}

\* A sum of natural numbers: as many as the things they count.
Total(f, S) == Cardinality(UNION {{x} \X (1..f[x]) : x \in S})

-----------------------------------------------------------------------------
(* burn.py                                                                 *)

(* The two readings the rate is measured between, or none.                 *)
BurnRate(rows, lookback, now) ==
    LET recent == {i \in DOMAIN rows : /\ \A c \in Cuts(rows) : c <= i
                                       /\ now - lookback <= rows[i].ts}
    IN  {[from |-> rows[e[1]], to |-> rows[e[2]]] : e \in
            {e \in recent \X recent : /\ e[1] < e[2]
                                      /\ \A i \in recent : e[1] <= i /\ i <= e[2]
                                      /\ rows[e[2]].ts - rows[e[1]].ts >= MinSpan}}

-----------------------------------------------------------------------------
(* sessions.py                                                             *)

(* The moments from a sample to the next, if that comes soon, and up to     *)
(* Threshold at either end.                                                *)
ObservedSeconds(stamps, start, end) ==
    LET inside == {t \in stamps : start <= t /\ t <= end}
        covered == {t \in start..end : \E a, b \in inside : a <= t /\ t < b /\ b - a <= Threshold}
    IN  IF inside = {} THEN 0
        ELSE Min({end - start, Cardinality(covered) + Min({Threshold, Min(inside) - start})
                                                    + Min({Threshold, end - Max(inside)})})

Deltas(rows, first, last) ==
    LET inside == {i \in DOMAIN rows : first <= rows[i].ts /\ rows[i].ts <= last}
    IN  IF inside = {} THEN {}
        ELSE {[start |-> rows[Min(inside)].pct, end |-> rows[Max(inside)].pct,
               reset |-> \E i \in inside : i - 1 \in inside /\ i \in Cuts(rows)]}

(* derive_sessions: one window per expiry, of the rows taken before it.    *)
Samples(rows, e) == {i \in DOMAIN rows : rows[i].ends = e /\ rows[i].ts <= e}
Expiries(rows) == {e \in {rows[i].ends : i \in DOMAIN rows} : e # None /\ Samples(rows, e) # {}}

WindowOf(rows, others, now, e) ==
    LET mine == Samples(rows, e)
        first == rows[Min(mine)]
        last == rows[Max(mine)]
    IN  [started |-> e - Length, ends |-> e,
         current |-> now < e /\ \A o \in Expiries(rows) : rows[Max(Samples(rows, o))].ts <= last.ts,
         peak    |-> Max({rows[i].pct : i \in mine}),
         first   |-> first, last |-> last,
         deltas  |-> Deltas(others, first.ts, last.ts),
         covered |-> ObservedSeconds({rows[i].ts : i \in mine}, e - Length, Min({e, now}))]

Windows(rows, others, now) == {WindowOf(rows, others, now, e) : e \in Expiries(rows)}

IdleSpans(windows, now) ==
    LET next(w) == {v \in windows : v.started > w.started}
        until(w) == IF next(w) # {} THEN Min({v.started : v \in next(w)})
                    ELSE IF w.current THEN w.ends ELSE now
    IN  {<<w.ends, until(w)>> : w \in {v \in windows : until(v) > v.ends}}

(* What the chart of a range shows of them, dashboard._mark_sessions: where *)
(* windows begin, the idle spans clipped to the range, and how long in all. *)
MarkSessions(windows, start, end, now) ==
    LET clipped == {<<Max({s[1], start}), Min({s[2], end})>> : s \in IdleSpans(windows, now)}
        idle == {s \in clipped : s[2] > s[1]}
    IN  [session |-> {w.started : w \in windows} \cap start + 1..end - 1,
         idle    |-> idle,
         minutes |-> Total([s \in idle |-> s[2] - s[1]], idle)]

-----------------------------------------------------------------------------
(* budget.py                                                               *)

WeekKey(ts) == (ts - Anchor) \div WeekLength

(* A complete window, wholly observed, in which the week neither reset nor *)
(* was raised nor stood at its cap, and that used enough to divide by.     *)
IsComplete(w, now) == ~w.current /\ w.ends <= now
Boosted(w, boosts) == \E ts \in boosts : w.started <= ts /\ ts <= w.ends
IsObserved(w) == w.covered * 2000 >= 1799 * Length   \* 90 percent, rounded to a tenth
Measurable(d) == ~d.reset /\ d.start < Full

(* Fault: a raised window is costed like another.                          *)
CostsThoughBoosted(windows, now, boosts) ==
    {[window |-> c[1], pts |-> Max({0, c[2].end - c[2].start})] : c \in
        {p \in UNION {{w} \X w.deltas : w \in {v \in windows : IsComplete(v, now)}} :
            IsObserved(p[1]) /\ p[1].peak >= MinDelta /\ Measurable(p[2])}}

WindowCosts(windows, now, boosts) ==
    {[window |-> c[1], pts |-> Max({0, c[2].end - c[2].start})] : c \in
        {p \in UNION {{w} \X w.deltas : w \in {v \in windows : IsComplete(v, now)}} :
            /\ IsObserved(p[1]) /\ ~Boosted(p[1], boosts)
            /\ p[1].peak >= MinDelta /\ Measurable(p[2])}}

(* By the week it was worked in; a window over a week's end is in neither. *)
WindowCostsByWeek(windows, now, boosts) ==
    {[week |-> WeekKey(c.window.started), cost |-> c] :
        c \in {d \in WindowCosts(windows, now, boosts) :
                  WeekKey(d.window.started) = WeekKey(d.window.ends - 1)}}

(* compute_budget, for a reading that is trusted: the windows left are     *)
(* headroom over cost, here left in terms of the two.                      *)
ComputeBudget(pct, windows, now, boosts) ==
    LET costs == WindowCosts(windows, now, boosts)
        full == [c \in costs |-> (c.pts * Scale) \div c.window.peak]
        headroom == Max({0, Full - pct})
    IN  IF headroom = 0 THEN [known |-> TRUE, headroom |-> 0, cost |-> None, usable |-> Cardinality(costs)]
        ELSE [known |-> Cardinality(costs) >= MinCompare /\ Median2(full) > 0,
              headroom |-> headroom,
              cost |-> IF costs = {} THEN None ELSE Median2(full),
              usable |-> Cardinality(costs)]

-----------------------------------------------------------------------------
(* runway.py                                                               *)

Within(rows, from, to) ==
    LET inside == {i \in DOMAIN rows : from <= rows[i].ts /\ rows[i].ts <= to}
    IN  IF inside = {} THEN <<>> ELSE SubSeq(rows, Min(inside), Max(inside))

(* Fault: only the samples of the hour itself.                             *)
SamplesOfTheHour(rows, start, end, now) == Within(rows, start, Min({end, now}))

(* The last sample before the hour is carried in, unless one opens it.     *)
HourSamples(rows, start, end, now) ==
    LET inside == {i \in DOMAIN rows : start <= rows[i].ts /\ rows[i].ts <= Min({end, now})}
        before == {i \in DOMAIN rows : rows[i].ts < start}
        first  == IF before # {} /\ rows[Min(inside)].ts > start THEN Max(before) ELSE Min(inside)
    IN  IF inside = {} THEN <<>> ELSE SubSeq(rows, first, Max(inside))

Consumed(rows) ==
    LET climbed[k \in 0..Len(rows)] ==
            IF k = 0 THEN 0
            ELSE climbed[k - 1] + (IF k \in Cuts(rows) THEN 0 ELSE rows[k].pct - rows[k - 1].pct)
    IN  IF Len(rows) < 2 THEN None ELSE Max({0, climbed[Len(rows)]})

HourStrip(rows, opened, now) ==
    [i \in 0..(Length \div Hour) - 1 |->
        LET start == opened + i * Hour
            consumed == Consumed(HourSamples(rows, start, start + Hour, now))
        IN  IF start >= now THEN [state |-> "future", consumed |-> None]
            ELSE [state |-> IF consumed = None THEN "nodata"
                            ELSE IF start + Hour > now THEN "partial" ELSE "done",
                  consumed |-> consumed]]

(* project: when the climb reaches the top, if it does before the reset.   *)
Exhausts(pct, climb, span, now, reset) ==
    IF climb > 0 /\ (Full - pct) * span <= climb * (reset - now)
    THEN now + ((Full - pct) * span) \div climb ELSE None

(* A percentage is never current once its window's reset time has passed.  *)
Runway(row, burn, now) ==
    IF row.ends # None /\ row.ends <= now
    THEN [pct |-> None, reset |-> row.ends, exhaust |-> None]
    ELSE [pct |-> row.pct, reset |-> row.ends,
          exhaust |-> IF burn = {} \/ row.ends = None THEN None
                      ELSE LET b == CHOOSE b \in burn : TRUE
                           IN  Exhausts(row.pct, b.to.pct - b.from.pct, b.to.ts - b.from.ts,
                                        now, row.ends)]

(* dashboard._mark_runway: the line from now to the exhaustion or the reset,*)
(* or the note that the range ends before it.                              *)
MarkRunway(runway, burn, end, now) ==
    LET target == IF runway.exhaust # None THEN runway.exhaust ELSE runway.reset
    IN  IF burn = {} \/ runway.pct = None \/ runway.reset = None \/ target <= now
        THEN [line |-> {}, note |-> FALSE]
        ELSE [line |-> IF target > end + 1 THEN {} ELSE {<<now, target>>},
              note |-> target > end + 1]

-----------------------------------------------------------------------------
(* heatmap.py                                                              *)

Cell(ts) == (ts + Offset) \div CellHour

\* The next local hour edge after t.
Edge(t) == ((t + Offset) \div CellHour + 1) * CellHour - Offset

\* The pieces the loop cuts [from, to) into.
Pieces(from, to) ==
    LET Starts == {t \in from..to - 1 : t = from \/ \E s \in from..t - 1 : Edge(s) = t}
    IN  {<<t, Min({to, Edge(t)})>> : t \in Starts}

(* Over each gap that is not too long the rise, if it is one, is spread in *)
(* proportion; what each cell gained (in Scale-ths) and saw.               *)
WeekCells(rows) ==
    LET gain(p, seen) == (Max({0, p[2].pct - p[1].pct}) * Scale * seen) \div (p[2].ts - p[1].ts)
        Shares == UNION {{[cell |-> Cell(piece[1]), at |-> piece[1], seen |-> piece[2] - piece[1],
                           gained |-> gain(p, piece[2] - piece[1])] : piece \in Pieces(p[1].ts, p[2].ts)} :
                     p \in {q \in Pairs(rows) : q[2].ts - q[1].ts \in 1..Attribute}}
        Cells == {s.cell : s \in Shares}
        sum(f, c) == Total([s \in Shares |-> s[f]], {s \in Shares : s.cell = c})
    IN  [c \in Cells |-> [gained |-> sum("gained", c), seen |-> sum("seen", c)]]
=============================================================================
