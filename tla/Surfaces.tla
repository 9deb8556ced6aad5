------------------------------ MODULE Surfaces ------------------------------
(***************************************************************************)
(* Where the week's quota went (surfaces.py): the vendor's split of the    *)
(* week by surface, stored only when it differs from the last one of that  *)
(* week, and what the page, the Weeks table and the API show of it.  The   *)
(* vendor names a week by its start with a jitter, may still send the week *)
(* that closed, or no split at all.  A poll stores its sample before the   *)
(* split and may fail or die between the two; a start replays the samples. *)
(***************************************************************************)
EXTENDS Integers, FiniteSets, FiniteSetsExt

CONSTANTS
    Splits,      \* the shares of the surfaces
    Jitters,     \* of the start of a week as the vendor gives it
    Hour,        \* _whole_hour rounds to it, and weeks start on one
    WeekLength,
    MaxTime      \* bound on the clock

None == -1

SurfacesAssumption ==
    /\ None \notin Splits
    /\ {Hour, WeekLength, MaxTime} \subseteq Nat \ {0}
    /\ WeekLength % Hour = 0
    /\ Jitters \subseteq -(Hour \div 2)..(Hour - 1) \div 2

VARIABLES
    now,
    snapshots, \* surface_share: [ts, started, split]
    samples,   \* the stored usage samples, by their block: [ts, started, split]
    received,  \* history: the last split a poll or a start dealt with, by week
    torn       \* history: samples whose poll failed before their split

vars == <<now, snapshots, samples, received, torn>>

Weeks == 0..MaxTime \div WeekLength

NoSample == [ts |-> None, started |-> None, split |-> None]

Init ==
    /\ now = 0 /\ snapshots = {} /\ samples = {}
    /\ received = [w \in Weeks |-> None] /\ torn = {}

WeekKey(t) == t \div WeekLength

(* _whole_hour *)
WholeHour(t) == ((t + Hour \div 2) \div Hour) * Hour

(* _breakdown_where: what was stored last of all those. *)
Newest(S) == IF S = {} THEN {} ELSE {s \in S : s.ts = Max({q.ts : q \in S})}
LatestBreakdown == Newest(snapshots)
BreakdownAtClose(started) == Newest({s \in snapshots : s.started = started})

(* Fault: compared with the newest split of whatever week. *)
RecordIfNews(block) ==
    snapshots' = IF \E s \in LatestBreakdown : s.split = block.split THEN snapshots
                 ELSE snapshots \cup {block}

(* record_breakdown: unless it is what that week's last one says. *)
RecordBreakdown(block) ==
    snapshots' = IF \E s \in BreakdownAtClose(block.started) : s.split = block.split
                 THEN snapshots ELSE snapshots \cup {block}

NotYetPolled == \A s \in samples : s.ts < now

(* A poll whose payload has a split, of this week or of the one before.     *)
PollWithSplit(week, jitter, split, fails) ==
    LET block == [ts |-> now, started |-> WholeHour(week * WeekLength + jitter), split |-> split]
    IN  /\ NotYetPolled
        /\ samples' = samples \cup {block}
        /\ IF fails THEN torn' = torn \cup {now} /\ UNCHANGED <<snapshots, received>>
           ELSE /\ RecordBreakdown(block)
                /\ received' = [received EXCEPT ![week] = split]
                /\ UNCHANGED torn
        /\ UNCHANGED now

PollWithout ==
    /\ NotYetPolled
    /\ samples' = samples \cup {[NoSample EXCEPT !.ts = now]}
    /\ UNCHANGED <<now, snapshots, received, torn>>

(* backfill_breakdown: a sample is compared with the one before it of the  *)
(* same week, and a time that is stored already is left alone.             *)
Replayed ==
    {s \in samples : /\ s.split # None
                     /\ \A q \in snapshots : q.ts # s.ts
                     /\ \A q \in Newest({r \in samples : r.started = s.started /\ r.ts < s.ts}) :
                           q.split # s.split}

(* A start, whose backfill may fail as a whole. *)
Restart ==
    /\ snapshots' = snapshots \cup Replayed
    /\ received' = [w \in Weeks |->
          LET of == {s \in samples : s.split # None /\ WeekKey(s.started) = w}
          IN  IF of = {} THEN None ELSE (CHOOSE s \in Newest(of) : TRUE).split]
    /\ torn' = {}
    /\ UNCHANGED <<now, samples>>

Tick ==
    /\ now < MaxTime /\ now' = now + 1
    /\ UNCHANGED <<snapshots, samples, received, torn>>

Next ==
    \/ \E week \in {w \in Weeks : w \in {WeekKey(now), WeekKey(now) - 1}}, jitter \in Jitters,
          split \in Splits, fails \in BOOLEAN : PollWithSplit(week, jitter, split, fails)
    \/ PollWithout
    \/ Restart
    \/ Tick

Spec == Init /\ [][Next]_vars

-----------------------------------------------------------------------------
(* is_this_week *)
IsThisWeek(snapshot) == WeekKey(snapshot.started) = WeekKey(now)

Sample == IF samples = {} THEN NoSample ELSE CHOOSE s \in Newest(samples) : TRUE

(* _as_of: the vendor's own, of the newest sample, if it is of that week. *)
AsOf(snapshot) ==
    IF Sample.started = snapshot.started THEN Sample.ts ELSE snapshot.ts

(* build_section and snapshot_dict. *)
Section == {[split |-> s.split, as_of |-> AsOf(s)] : s \in {l \in LatestBreakdown : IsThisWeek(l)}}

(* mostly_by_week: each week's last split, as it was when the week closed. *)
MostlyByWeek(week) ==
    {s.split : s \in UNION {BreakdownAtClose(started) :
                  started \in {q.started : q \in {r \in snapshots : WeekKey(r.started) = week}}}}

(* "A split stored for an earlier week is not where this week's quota went" *)
(* (is_this_week): the split on the page is the last this week received,    *)
(* and as fresh as it says; the Weeks table names the last split of every   *)
(* week that had one, however often it came back to an earlier value, was   *)
(* repeated under a jittered start, came after the week had closed, or was  *)
(* stored by a start after the poll that brought it had failed.             *)
SplitIsTheWeeks ==
    /\ \A shown \in Section :
          /\ shown.split = received[WeekKey(now)]
          /\ Sample.ts = shown.as_of /\ Sample.split # None /\ Sample.ts \notin torn
                => Sample.split = shown.split
    /\ \A week \in Weeks :
          MostlyByWeek(week) = IF received[week] = None THEN {} ELSE {received[week]}

=============================================================================
