------------------------------ MODULE Account ------------------------------
(***************************************************************************)
(* An account being used while the collector reads it, and what Measures   *)
(* says of it.  A message costs a point of the session and a point of the  *)
(* week; the first one after a session opens the next.  The vendor may     *)
(* raise the week's limit, which sets its count to nothing.  A poll stores *)
(* both percentages, and a boost it sees (boost.py).  A session is not     *)
(* used beyond its limit here, nor corrected downwards while it runs.      *)
(***************************************************************************)
EXTENDS Measures

CONSTANTS
    BoostDrop,   \* BOOST_MIN_DROP_PCT
    Lookbacks,   \* of the burn rate
    FirstWeek,   \* how the week may stand at first: its count
    MaxTime      \* bound on the clock

AccountAssumption ==
    /\ {Length - 1, WeekLength, MinDelta, BoostDrop, Full} \subseteq Nat \ {0}
    /\ {ResetDrop, Threshold, MinSpan, MinCompare, MaxTime} \cup Lookbacks \cup FirstWeek \subseteq Nat
    /\ Length \in Nat /\ Anchor \in 1..WeekLength
    /\ {Hour, CellHour, Attribute, Scale} \subseteq Nat \ {0} /\ Offset \in Int
    /\ Length % Hour = 0
    /\ \A d \in 1..Attribute : Scale % d = 0

VARIABLES
    now,
    five, week, \* the vendor's: count and end of the session and of the week
    rows,       \* of each poll: ts, five, week, and how much was ever used
    boosts,     \* when boosts were recorded
    spoke,      \* there was a message in this unit of time
    used,       \* history: the messages so far
    openings,   \* history: when sessions opened
    hidden,     \* history: what a raise took that no poll has shown
    raised      \* history: there was a raise, of which there is one

vars == <<now, five, week, rows, boosts, spoke, used, openings, hidden, raised>>

Init ==
    /\ now = 0
    /\ five = [pct |-> 0, ends |-> None]
    /\ week \in [pct : FirstWeek, ends : {Anchor}]
    /\ rows = <<>> /\ boosts = {}
    /\ spoke = FALSE /\ used = 0 /\ openings = {} /\ hidden = 0 /\ raised = FALSE

Series(limit) == [i \in DOMAIN rows |-> [ts   |-> rows[i].ts,
                                         pct  |-> rows[i][limit].pct,
                                         ends |-> rows[i][limit].ends]]

Stamps == [i \in DOMAIN rows |-> rows[i].ts]

\* At most one message per unit of time.
Message ==
    /\ ~spoke /\ spoke' = TRUE
    /\ week.pct < Full /\ five.pct < Full
    /\ used' = used + 1
    /\ five' = IF five.ends = None THEN [pct |-> 1, ends |-> now + Length]
               ELSE [five EXCEPT !.pct = @ + 1]
    /\ openings' = IF five.ends = None THEN openings \cup {now} ELSE openings
    /\ week' = [week EXCEPT !.pct = @ + 1]
    /\ UNCHANGED <<now, rows, boosts, hidden, raised>>

Raise ==
    /\ ~raised /\ week.pct > 0
    /\ raised' = TRUE /\ hidden' = week.pct
    /\ week' = [week EXCEPT !.pct = 0]
    /\ UNCHANGED <<now, five, rows, boosts, spoke, used, openings>>

(* detect_boost: the same window stands lower than it did.                 *)
IsBoost(prev, cur) ==
    /\ prev.ends = cur.ends
    /\ prev.pct - cur.pct >= BoostDrop

Poll ==
    /\ now \notin Range(Stamps)
    /\ LET seen == rows # <<>> /\ IsBoost(Last(rows).week, week)
       IN  /\ boosts' = IF seen THEN boosts \cup {now} ELSE boosts
           /\ hidden' = IF seen THEN 0 ELSE hidden
    /\ rows' = Append(rows, [ts |-> now, five |-> five, week |-> week, used |-> used])
    /\ UNCHANGED <<now, five, week, spoke, used, openings, raised>>

Tick ==
    /\ now < MaxTime /\ now' = now + 1 /\ spoke' = FALSE
    /\ five' = IF five.ends = now + 1 THEN [pct |-> 0, ends |-> None] ELSE five
    /\ week' = IF week.ends = now + 1 THEN [pct |-> 0, ends |-> week.ends + WeekLength] ELSE week
    /\ UNCHANGED <<rows, boosts, used, openings, hidden, raised>>

Next == Message \/ Raise \/ Poll \/ Tick

Spec == Init /\ [][Next]_vars

-----------------------------------------------------------------------------
Known == Windows(Series("five"), Series("week"), now)
RowAt(ts) == CHOOSE r \in Range(rows) : r.ts = ts

(* "We cut the series into segments at every reset and only measure inside *)
(* the newest one" (burn.py): the climb a rate divides is never more than  *)
(* what was used between its two readings, and with a reading in every     *)
(* unit of time at most the drop the rule overlooks is missing from it, for *)
(* each session that may have closed.                                      *)
RateIsTrue ==
    \A lookback \in Lookbacks : \A b \in BurnRate(Series("five"), lookback, now) :
        LET spent == RowAt(b.to.ts).used - RowAt(b.from.ts).used
            climb == b.to.pct - b.from.pct
        IN  /\ climb <= spent
            /\ b.from.ts..b.to.ts \subseteq Range(Stamps) =>
                   spent - climb <= (ResetDrop + 1) * (1 + (b.to.ts - b.from.ts) \div Length)

(* "A window that cannot be costed is honest; one costed wrong is not"     *)
(* (window_costs).  A point of a session is a point of the week here: what *)
(* a window is said to have cost is never more than that, and less by what *)
(* was used before its first reading, which came soon, and by a raise that *)
(* nobody could see.  The budget rests on the same costs, and a cost filed *)
(* under a week was paid from that week.                                   *)
CostsAreHonest ==
    LET budget == ComputeBudget(week.pct, Known, now, boosts)
    IN  /\ \A c \in WindowCosts(Known, now, boosts) :
               /\ c.pts <= c.window.peak
               /\ c.window.peak - c.pts <= Threshold + Length \div 9 + 1 + hidden
        /\ budget.known => budget.cost <= 2 * Scale
        /\ \A c \in WindowCostsByWeek(Known, now, boosts) : \A r \in Range(Series("week")) :
               r.ts \in c.cost.window.first.ts..c.cost.window.last.ts - 1 =>
                   r.ends = Anchor + (c.week + 1) * WeekLength

(* The hour bars account for every point between the window's first        *)
(* reading and its last: what an hour shows is not shown by another.       *)
StripAddsUp ==
    LET series == Series("five")
        opened == Last(series).ends - Length
        mine == Within(series, opened, now)
        before == {i \in DOMAIN series : series[i].ts < opened}
        base == IF before # {} /\ series[Max(before)].ends = None /\ mine[1].ts > opened
                THEN series[Max(before)] ELSE mine[1]
        strip == HourStrip(series, opened, now)
        known == {i \in DOMAIN strip : strip[i].consumed # None}
    IN  (rows # <<>> /\ Last(series).ends > now) =>
            Total([i \in known |-> strip[i].consumed], known) = Last(mine).pct - base.pct

(* "Spans where no session window was running" (idle_spans): true of every *)
(* moment up to the last reading that the chart does not also show as a    *)
(* gap in the readings, when a silence as long as a session is one.  A     *)
(* chart of part of the time shows the same moments and counts each once,  *)
(* and a session it marks did open there.                                  *)
IdleIsTrue ==
    LET inGap(t) == \E gap \in Gaps(Range(Stamps), 0, now, 0) : gap[1] <= t /\ t < gap[2]
        moments(spans) == UNION {s[1]..s[2] - 1 : s \in spans}
        windows == Known
        idle == moments(IdleSpans(windows, now))
    IN  /\ Threshold < Length => \A t \in idle :
               \/ t >= Last(rows).ts
               \/ inGap(t)
               \/ ~\E o \in openings : o <= t /\ t < o + Length
        /\ \A start \in 0..now, end \in {now, MaxTime} :
               LET marks == MarkSessions(windows, start, end, now)
               IN  /\ moments(marks.idle) = idle \cap start..end - 1
                   /\ marks.minutes = Cardinality(idle \cap start..end - 1)
                   /\ marks.session \subseteq openings

(* "A session percentage is never current once its window's reset time has *)
(* passed" (compute_runway): a dated percentage on the page is of the      *)
(* window that runs, and runs out, if it says so, before the reset.  On the *)
(* chart, "an absent line is explained, never silently dropped"            *)
(* (_mark_runway): with a rate and a window to run, only a limit about to   *)
(* be used up has neither line nor note, and a line never leads past the   *)
(* end of the window that runs.                                            *)
RunwayIsCurrent ==
    rows # <<>> => \A lookback \in Lookbacks :
        LET burn == BurnRate(Series("five"), lookback, now)
            r == Runway(Last(Series("five")), burn, now)
        IN  /\ r.pct # None /\ r.reset # None => five.ends = r.reset /\ r.pct <= five.pct
            /\ r.exhaust # None => now <= r.exhaust /\ r.exhaust <= r.reset
            /\ \A end \in now..MaxTime :
                   LET mark == MarkRunway(r, burn, end, now)
                   IN  /\ \A l \in mark.line : now < l[2] /\ l[2] <= five.ends
                       /\ burn # {} /\ five.ends # None /\ r.reset = five.ends =>
                              \/ mark.line # {} \/ mark.note
                              \/ \E b \in burn : Full - r.pct <= b.to.pct - b.from.pct

(* "The gain is attributed to the hour it was observed in, and across the  *)
(* rare longer gap it is spread over the hours the gap spans" (heatmap.py):*)
(* nothing is gained or seen twice, and no hour sees more than an hour.    *)
CellsAddUp ==
    LET mine == Within(Series("week"), week.ends - WeekLength, now)
        close == {p \in Pairs(mine) : p[2].ts - p[1].ts <= Attribute}
        cells == WeekCells(mine)
    IN  /\ \A c \in DOMAIN cells : cells[c].seen <= CellHour
        /\ Total([c \in DOMAIN cells |-> cells[c].seen], DOMAIN cells)
               = Total([p \in close |-> p[2].ts - p[1].ts], close)
        /\ Total([c \in DOMAIN cells |-> cells[c].gained], DOMAIN cells)
               = Total([p \in close |-> Scale * Max({0, p[2].pct - p[1].pct})], close)
=============================================================================
