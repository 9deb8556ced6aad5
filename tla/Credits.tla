------------------------------ MODULE Credits ------------------------------
(***************************************************************************)
(* Usage credits: one row of `overage` per poll, the runs of rising        *)
(* `spent_minor` found in the stored rows (credits.py), and one event per  *)
(* run, written at the run's own start (Poller._check_credits).            *)
(*                                                                         *)
(* The process may die at the await before the overage row, and again      *)
(* before the checks that follow it.                                       *)
(***************************************************************************)
EXTENDS Integers, Sequences, FiniteSets, SequencesExt

CONSTANTS
    Interval,    \* poll_interval_s
    QuietPolls,  \* QUIET_POLLS
    Recent,      \* how many recorded events a check looks back on (500)
    Retention,   \* age at which overage rows are pruned
    MaxTime      \* bound on the clock

CreditsAssumption ==
    /\ {Interval, QuietPolls, Recent, Retention, MaxTime} \subseteq Nat \ {0}

VARIABLES
    now,
    pc,        \* "idle", "sampled" (at the overage request), "derive"
    overage,   \* the stored rows <<[ts, spent]>>
    series,    \* history: every overage row ever stored
    events,    \* the recorded starts, in the order they were written
    banners,   \* the starts announced on the desktop
    cuts,      \* history: the cutoff of every prune
    checked    \* the newest overage row the last check has seen, none after a prune

spending == <<overage, series, events, banners, cuts, checked>>
vars == <<now, pc, spending>>

(***************************************************************************)
(* credits.stretches: one pass over neighbouring rows.  A rise opens or    *)
(* extends a run, QuietPolls rows without one close it.                    *)
(***************************************************************************)
NoRun == [open |-> FALSE, quiet |-> 0, done |-> {}]

Rose(rows, i) == rows[i + 1].spent > rows[i].spent

Ends(quiet) == quiet >= QuietPolls

Scan(rows, acc, i) ==
    IF Rose(rows, i)
    THEN [open |-> TRUE, quiet |-> 0, done |-> acc.done,
          run |-> [start |-> IF acc.open THEN acc.run.start ELSE rows[i].ts,
                   end |-> rows[i + 1].ts]]
    ELSE IF acc.open /\ Ends(acc.quiet + 1)
         THEN [NoRun EXCEPT !.done = acc.done \cup {acc.run}]
         ELSE [acc EXCEPT !.quiet = IF acc.open THEN @ + 1 ELSE @]

Stretches(rows) ==
    LET pass[k \in 0..Len(rows)] == IF k <= 1 THEN NoRun ELSE Scan(rows, pass[k - 1], k - 1)
        last == pass[Len(rows)]
    IN  IF last.open THEN last.done \cup {last.run} ELSE last.done

\* A set of moments from the first to the last.
InOrder(S) ==
    [k \in 1..Cardinality(S) |-> CHOOSE t \in S : Cardinality({u \in S : u < t}) = k - 1]

\* The rows that are not older than a moment.
Since(rows, ts) ==
    SubSeq(rows, Min({i \in DOMAIN rows : rows[i].ts >= ts} \cup {Len(rows) + 1}), Len(rows))

(***************************************************************************)
(* What the page reads of the rows over a range: the bands of the chart,   *)
(* how long they last, and what was spent.                                 *)
(***************************************************************************)
OverageSeries(start, end) ==
    LET inside == {i \in DOMAIN overage : start <= overage[i].ts /\ overage[i].ts <= end}
    IN  IF inside = {} THEN <<>> ELSE SubSeq(overage, Min(inside), Max(inside))

(* dashboard._mark_credits: the runs clipped to the range, none empty.     *)
CreditSpans(runs, start, end) ==
    {span \in {[lo |-> Max({r.start, start}), hi |-> Min({r.end, end})] : r \in runs} :
        span.hi > span.lo}

\* The seconds of every band, band by band.
SecondsOnCredits(runs, start, end) ==
    Cardinality(UNION {{span} \X (span.lo..span.hi - 1) : span \in CreditSpans(runs, start, end)})

(* A difference of the endpoints, so that the fall of a new month counts    *)
(* nothing twice, and nothing below 0.                                     *)
SpentInRange(start, end) ==
    LET inside == OverageSeries(start, end)
    IN  IF Len(inside) < 2 THEN 0 ELSE Max({0, Last(inside).spent - inside[1].spent})

NewestOf(runs) == CHOOSE s \in runs : \A t \in runs : t.start <= s.start

(* store.recent_events(limit): the newest by their own time. *)
Known ==
    LET newer(e) == {i \in 1..Len(events) : events[i] > e}
    IN  {e \in ToSet(events) : Cardinality(newer(e)) < Recent}

(* Fault: A live check that looks at the two newest rows only. *)
BackfillLive(rows, recorded) ==
    {s \in Stretches(SubSeq(rows, Len(rows) - 1, Len(rows))) : s.start \notin recorded}

Backfill(rows, recorded) == {s \in Stretches(rows) : s.start \notin recorded}

(* What the check writes: every fresh start, and a banner for the newest    *)
(* one unless its end is history already.                                   *)
CheckCredits ==
    LET fresh  == IF Len(overage) < 2 THEN {} ELSE Backfill(overage, Known)
    IN  /\ events' = events \o InOrder({s.start : s \in fresh})
        /\ banners' = IF fresh # {} /\ now - NewestOf(fresh).end <= 3 * Interval
                      THEN Append(banners, NewestOf(fresh).start) ELSE banners
        /\ checked' = IF overage = <<>> THEN 0 ELSE Last(overage).ts
        /\ UNCHANGED <<overage, series, cuts>>

(***************************************************************************)
(* The life of the process.                                                *)
(***************************************************************************)
Init ==
    /\ now = 0
    /\ pc = "idle"
    /\ overage = <<>> /\ series = <<>> /\ events = <<>> /\ banners = <<>>
    /\ cuts = {} /\ checked = 0

(* _collect up to the overage request.  The wait since the last poll is one *)
(* interval, or longer after failures.                                     *)
Collect(wait) ==
    /\ pc = "idle"
    /\ now + wait <= MaxTime
    /\ now' = now + wait
    /\ pc' = "sampled"
    /\ UNCHANGED spending

(* The poll fails before that request. *)
FailAfterSample(wait) ==
    /\ pc = "idle"
    /\ now + wait <= MaxTime
    /\ now' = now + wait
    /\ UNCHANGED <<pc, spending>>

(* _poll_overage stores the counter, which may have risen, or fallen to 0   *)
(* with a new month.                                                        *)
RecordOverage(spent) ==
    LET row == [ts |-> now, spent |-> spent]
    IN  /\ pc = "sampled"
        /\ pc' = "derive"
        /\ overage' = Append(overage, row)
        /\ series' = Append(series, row)
        /\ UNCHANGED <<now, events, banners, cuts, checked>>

(* The optional endpoint fails: no row, and the checks run all the same. *)
OverageUnavailable ==
    /\ pc = "sampled"
    /\ pc' = "derive"
    /\ UNCHANGED <<now, spending>>

(* An expired cookie there fails the whole poll, and its checks with it. *)
OverageRefused ==
    /\ pc = "sampled"
    /\ pc' = "idle"
    /\ UNCHANGED <<now, spending>>

Derive ==
    /\ pc = "derive"
    /\ pc' = "idle"
    /\ CheckCredits
    /\ UNCHANGED now

(* Pruning by age, in its thread; events are kept. *)
Prune ==
    LET kept == Since(overage, now - Retention)
    IN  /\ pc = "idle"
        /\ kept # overage
        /\ overage' = kept
        /\ cuts' = cuts \cup {now - Retention}
        /\ checked' = 0
        /\ UNCHANGED <<now, pc, series, events, banners>>

(* A death at any await; nothing of this is backfilled at a start. *)
Restart ==
    /\ pc # "idle" /\ pc' = "idle"
    /\ UNCHANGED <<now, spending>>

NextSpent ==
    LET last == IF series = <<>> THEN 0 ELSE Last(series).spent
    IN  {last, last + 1, 0}

Next ==
    \/ \E wait \in {Interval, 2 * Interval} : Collect(wait) \/ FailAfterSample(wait)
    \/ \E spent \in NextSpent : RecordOverage(spent)
    \/ OverageUnavailable
    \/ OverageRefused
    \/ Derive
    \/ Prune
    \/ Restart

Spec == Init /\ [][Next]_vars

-----------------------------------------------------------------------------
(* Every variable keeps its type, and rows are in the order of their time. *)
TypeOK ==
    /\ now \in 0..MaxTime
    /\ pc \in {"idle", "sampled", "derive"}
    /\ \A i \in 1..Len(overage) : overage[i] \in [ts : 1..now, spent : 0..MaxTime]
    /\ \A i, j \in 1..Len(overage) : i < j => overage[i].ts < overage[j].ts

(* What a run of spending is, without the pass that finds it: it begins    *)
(* with a rise that no other rise precedes by QuietPolls rows or fewer.    *)
Rises(rows) == {i \in 1..Len(rows) - 1 : Rose(rows, i)}

FirstRises(rows) ==
    {j \in Rises(rows) : \A i \in Rises(rows) : i < j => j - i > QuietPolls}

(* Every run of spending in the stored rows has its event as soon as a      *)
(* check has seen the newest row, whatever failed polls, deaths and gaps    *)
(* kept from the checks before it: credits.backfill over the whole series.  *)
SpendingIsRecorded ==
    pc = "idle" /\ overage # <<>> /\ checked = Last(overage).ts =>
        \A i \in FirstRises(overage) : overage[i].ts \in ToSet(events)

(* "History on disk lights up once, not on every poll"                      *)
(* (tests/test_credits.py): no start is written twice, as long as the look  *)
(* back on the Recent newest events reaches all that the rows still tell.   *)
HistoryLightsUpOnce == IsInjective(events)

(* _check_credits announces a run once: no start is written twice, each is  *)
(* the first moment of a run as the polls saw it, or as it looks in the    *)
(* rows that a prune left; the desktop hears of a recorded start once.      *)
OneEventPerRun ==
    /\ HistoryLightsUpOnce
    /\ \A e \in ToSet(events) :
          \E ts \in {0} \cup cuts : \E i \in FirstRises(Since(series, ts)) :
              Since(series, ts)[i].ts = e
    /\ IsInjective(banners)
    /\ ToSet(banners) \subseteq ToSet(events)

(* A moment is on credits when the polls around it, or the last rise before *)
(* and the next one after it, QuietPolls rows apart at most, span it.       *)
OnCredits(t) ==
    \E i, j \in Rises(overage) :
        /\ i <= j /\ j - i <= QuietPolls
        /\ overage[i].ts <= t /\ t < overage[j + 1].ts

(* What the page says of spending over any range is what the rows say: its  *)
(* bands cover the moments on credits and no other, they never overlap (the *)
(* seconds on credits are their number), and the amount spent is the sum of *)
(* the rises, or less when a new month fell into the range.                 *)
SpendingIsMeasured ==
    \A start, end \in 0..now :
        LET runs   == Stretches(overage)
            spans  == CreditSpans(runs, start, end)
            during == {t \in start..end - 1 : OnCredits(t)}
            inside == OverageSeries(start, end)
            rises  == Cardinality(UNION {{i} \X (inside[i].spent + 1..inside[i + 1].spent) :
                                            i \in Rises(inside)})
        IN  /\ during = UNION {s.lo..s.hi - 1 : s \in spans}
            /\ SecondsOnCredits(runs, start, end) = Cardinality(during)
            /\ SpentInRange(start, end) <= rises
            /\ (\A i \in 1..Len(inside) - 1 : inside[i].spent <= inside[i + 1].spent)
                  => SpentInRange(start, end) = rises

(* The credit events are the runs of spending, each once, and the page's    *)
(* figures of a range agree with the rows (looked at when they are newest). *)
EventsAreRuns ==
    SpendingIsRecorded /\ OneEventPerRun /\ (pc = "derive" => SpendingIsMeasured)

=============================================================================
