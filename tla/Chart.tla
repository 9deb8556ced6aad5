------------------------------- MODULE Chart --------------------------------
(***************************************************************************)
(* The chart of one limit (dashboard._chart_view): its stored readings     *)
(* drawn as lines over a range of time, cut at every reset and at every    *)
(* raise of the limit (a boost), with the silences of the collector        *)
(* hatched.  The state is the history of readings; the chart is drawn of   *)
(* every range of it, at every width of a bucket.                          *)
(***************************************************************************)
EXTENDS Segments

CONSTANTS
    Levels,      \* percentages the vendor may report
    BoostDrop,   \* BOOST_MIN_DROP_PCT
    WindowLength,
    Pauses,      \* from a poll to the next
    Buckets,     \* span // MAX_POINTS_PER_SERIES
    MaxTime      \* bound on the clock

ChartAssumption ==
    /\ Pauses \cup Buckets \cup {WindowLength, BoostDrop} \subseteq Nat \ {0}
    /\ Levels \cup {Threshold, ResetDrop, MaxTime} \subseteq Nat

VARIABLES
    now,     \* when the newest reading was taken
    rows,
    boosts   \* the moments recorded as boosts

vars == <<now, rows, boosts>>

Init == now = 0 /\ rows = <<>> /\ boosts = {}

(* detect_boost: lower, in a window that is known not to have reset. *)
IsBoost(prev, cur) ==
    /\ prev.ends # None /\ cur.ends # None
    /\ prev.ends = cur.ends
    /\ prev.pct - cur.pct >= BoostDrop

(* A poll after a pause stores a reading: of the window whose end it was    *)
(* told, of the next when that has passed, or of no window (undated, which  *)
(* stands at nothing).                                                     *)
Ends(t) == {None, (t \div WindowLength + 1) * WindowLength}

Poll(pause, pct, ends) ==
    LET row == [ts |-> now + pause, pct |-> pct, ends |-> ends]
    IN  /\ row.ts <= MaxTime
        /\ ends = None => pct = 0
        /\ now' = row.ts
        /\ rows' = Append(rows, row)
        /\ boosts' = IF rows # <<>> /\ IsBoost(Last(rows), row)
                     THEN boosts \cup {row.ts} ELSE boosts

Next == \E pause \in Pauses : \E pct \in Levels, ends \in Ends(now + pause) : Poll(pause, pct, ends)

Spec == Init /\ [][Next]_vars

-----------------------------------------------------------------------------
(* The samples of a chart are places in rows, those of a segment a set of   *)
(* them.  The one before a sample, if there is one, as a set.              *)
Before(s, i) == {j \in s : j < i /\ \A k \in s : k < i => k <= j}

(* s cut before each of the heads, its first place being one. *)
CutAt(s, heads) ==
    {{j \in s : h <= j /\ ~\E g \in heads : h < g /\ g <= j} : h \in heads}

(* split_at_resets. *)
Heads(s) == {i \in s : \A j \in Before(s, i) : IsReset(rows[j], rows[i])}
CutAtResets(s) == CutAt(s, Heads(s))

(* _bucket: the last sample of each bucket. *)
Bucketed(segment, bucket) ==
    {i \in segment : \A j \in segment :
        rows[j].ts \div bucket = rows[i].ts \div bucket => j <= i}

(* What latest_quota_before gives. *)
PriorRow(start) ==
    {i \in DOMAIN rows : /\ rows[i].ts < start
                         /\ \A j \in DOMAIN rows : rows[j].ts < start => j <= i}

(* What a sample steps from: the one before it, or before the range. *)
Previous(segment, i, start) ==
    IF Before(segment, i) = {} THEN PriorRow(start) ELSE Before(segment, i)

(* _boost_between: the moments that the two samples straddle. *)
Straddled(segment, i, start) ==
    {t \in boosts : \E p \in Previous(segment, i, start) : rows[p].ts < t /\ t <= rows[i].ts}

(* The line goes on from sample to sample, and is broken at a fall. *)
Falls(segment, start) == {i \in segment : Straddled(segment, i, start) # {}}

Paths(segment, start) ==
    CutAt(segment, {i \in segment : Before(segment, i) = {}} \cup Falls(segment, start))

Drops(segment, start) ==
    {[to |-> i, moment |-> Min(Straddled(segment, i, start))] : i \in Falls(segment, start)}

InRange(start, end) ==
    {i \in DOMAIN rows : start <= rows[i].ts /\ rows[i].ts <= Min({end, now})}

(* Fault: the samples are thinned before they are cut at the resets. *)
SegmentsOfBuckets(start, end, bucket) == CutAtResets(Bucketed(InRange(start, end), bucket))

(* _bucket is "called per reset-free segment, so resets survive". *)
Segments(start, end, bucket) ==
    {Bucketed(segment, bucket) : segment \in CutAtResets(InRange(start, end))}

(* build_dashboard's prior_ts: anything read before the range, or a history *)
(* that reaches back past it.                                              *)
PriorTs(start) ==
    IF PriorRow(start) # {} THEN Max({rows[i].ts : i \in PriorRow(start)}) ELSE None

NotCollected(start, end) ==
    Gaps({rows[i].ts : i \in DOMAIN rows}, start, Min({end, now}), PriorTs(start))

(* _change_over_range: from the first sample of the newest segment to the  *)
(* last, or nothing to say.                                                *)
Change(start, end) ==
    LET mine == InRange(start, end)
    IN  {c \in Heads(mine) \X mine : /\ c[1] < c[2]
                                     /\ \A h \in Heads(mine) : h <= c[1]
                                     /\ \A i \in mine : i <= c[2]}

-----------------------------------------------------------------------------
Spans == {s \in (0..now) \X (1..now + 1) : s[1] < s[2]}

(* Between two samples a window may have ended unnoticed only if one there *)
(* was undated.                                                            *)
OfOneWindow(mine, i, j) ==
    \/ \E k \in mine : rows[k].ends = None /\ i <= k /\ k <= j
    \/ rows[i].ends = rows[j].ends

(* "Break the line rather than sloping across the hours in between"         *)
(* (_chart_view): on a chart of any range a line joins readings of one      *)
(* window, if all are dated, with no raise recorded between them; the last  *)
(* reading of a bucket is on a line, the one before a reset included; and   *)
(* what a boost in the range took is drawn when every sample is.            *)
LinesAreReadings ==
    \A span \in Spans, bucket \in Buckets :
        LET mine == InRange(span[1], span[2])
            segments == Segments(span[1], span[2], bucket)
            paths == UNION {Paths(segment, span[1]) : segment \in segments}
            drops == UNION {Drops(segment, span[1]) : segment \in segments}
        IN  /\ \A p \in paths : \A j \in p : \A i \in Before(p, j) :
                  /\ OfOneWindow(mine, i, j)
                  /\ ~\E t \in boosts : rows[i].ts < t /\ t <= rows[j].ts
            /\ \A i \in mine :
                  (\A j \in mine : j > i /\ rows[j].ts \div bucket = rows[i].ts \div bucket
                                       => IsReset(rows[i], rows[j]))
                      => \E p \in paths : i \in p
            /\ bucket = 1 => \A i \in mine : rows[i].ts \in boosts
                                => \E d \in drops : d.to = i /\ d.moment = rows[i].ts

(* "The one thing this tool exists not to do" (find_gaps): every moment of  *)
(* a range is hatched or soon after a reading, but for what comes before    *)
(* the first reading ever, and the rest of a silence that is over soon     *)
(* after the range begins; nothing read is hatched over.                   *)
SilenceIsHatched ==
    \A span \in Spans :
        LET gaps == NotCollected(span[1], span[2])
            end == Min({span[2], now})
            stamps == {rows[i].ts : i \in DOMAIN rows}
        IN  /\ \A t \in span[1]..end - 1 :
                  \/ \E g \in gaps : g[1] <= t /\ t < g[2]
                  \/ ~\E u \in stamps : u <= t
                  \/ \E u \in stamps : u <= t /\ t - u <= Threshold
                  \/ \E u \in stamps \cup {end} : t < u /\ u - span[1] <= Threshold
            /\ \A g \in gaps : ~\E u \in stamps : g[1] < u /\ u < g[2]

(* _change_over_range: the points a meter says it moved are the difference  *)
(* of two readings of the window it stands in, none of them of an earlier   *)
(* one: "a reset inside the range narrows it".                              *)
ChangeIsOfOneWindow ==
    \A span \in Spans : \A c \in Change(span[1], span[2]) :
        OfOneWindow(InRange(span[1], span[2]), c[1], c[2])

(* "The preceding sample is outside the range; it is still what the step    *)
(* falls from" (_chart_view): a step is drawn where a recorded boost took   *)
(* place, from a reading of the window that was raised.                     *)
DropsAreBoosts ==
    \A span \in Spans : \A segment \in Segments(span[1], span[2], 1) :
        \A d \in Drops(segment, span[1]) : rows[d.to].ts = d.moment

=============================================================================
