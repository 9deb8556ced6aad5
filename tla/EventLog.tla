------------------------------ MODULE EventLog ------------------------------
(***************************************************************************)
(* store.py's tables of events and raw samples while they are written,     *)
(* deleted and pruned, and their two readers that come back for more: a    *)
(* follower of /api/events with a cursor, and an export that streams a     *)
(* table page by page, the lock held for one page only.                    *)
(***************************************************************************)
EXTENDS Integers, Sequences, FiniteSets, FiniteSetsExt, SequencesExt

CONSTANTS
    Kinds,        \* the kinds of event; one is deleted and written anew
    WEEK_RESET_KIND,
    BOOST_KIND,
    PRUNE_KIND,
    Shapes,       \* key signatures of payloads
    Limits,       \* what a follower may ask for at once
    OVERREAD,     \* how many events are read for a row of the page's list
    PAGE,         \* rows an export reads at once
    SAMPLE_KEEP,  \* sample_keep
    AGED,         \* the retention period of samples
    FLOOR,        \* and of events
    MaxNow, MaxEvents, MaxSamples   \* bounds: the clock, what is ever written

LogAssumption ==
    /\ {WEEK_RESET_KIND, BOOST_KIND, PRUNE_KIND} \subseteq Kinds
    /\ Limits \subseteq Nat \ {0}
    /\ {PAGE, OVERREAD, AGED, FLOOR} \subseteq Nat \ {0}
    /\ {SAMPLE_KEEP, MaxNow, MaxEvents, MaxSamples} \subseteq Nat

VARIABLES
    now,
    log,       \* the events: [id, n, ts, kind]; n counts what was ever written
    sequence,  \* sqlite_sequence: the largest id ever given
    written,   \* history: how many events were
    samples,   \* [id, n, ts, shape]; id is a rowid
    stored,    \* history: how many samples were
    prune,     \* where the pruning thread is
    cursor,    \* next_after_id of a follower of one kind, or of all
    follows,   \* the kinds it follows
    seen,      \* what it was given, in order
    export,    \* [on, last_rowid, since]
    out,       \* what the export has streamed
    steady,    \* history: the rows there all through the export
    renumbered \* history: a VACUUM gave rows other rowids while it ran

vars == <<now, log, sequence, written, samples, stored, prune, cursor, follows, seen,
          export, out, steady, renumbered>>

Readers == <<cursor, follows, seen, export, out>>
NoExport == [on |-> FALSE, last_rowid |-> 0, since |-> 0]

Init ==
    /\ now = 0
    /\ log = {} /\ sequence = 0 /\ written = 0
    /\ samples = {} /\ stored = 0
    /\ prune = "idle"
    /\ cursor = 0 /\ seen = <<>>
    /\ follows \in {Kinds} \cup {{kind} : kind \in Kinds}
    /\ export = NoExport /\ out = <<>> /\ steady = {} /\ renumbered = FALSE

Ids(table) == {r.id : r \in table}

(* ORDER BY rowid: the row of a place has as many before it.               *)
ByRowid(rows) ==
    [k \in 1..Cardinality(rows) |->
        CHOOSE r \in rows : Cardinality({s \in rows : s.id < r.id}) = k - 1]

(* The first rows of a query with ORDER BY rowid LIMIT n. *)
Query(rows, limit) == LET all == ByRowid(rows) IN SubSeq(all, 1, Min({limit, Len(all)}))

(* AUTOINCREMENT never gives an id twice. *)
NextId == sequence + 1

(* record_event. *)
RecordEvent(kind, ts) ==
    /\ log' = log \cup {[id |-> NextId, n |-> written + 1, ts |-> ts, kind |-> kind]}
    /\ sequence' = Max({sequence, NextId})
    /\ written' = written + 1

(* Any of its callers; week_reset is dated back to the close of its week. *)
Record(kind, ts) ==
    /\ written < MaxEvents
    /\ ts = now \/ kind = WEEK_RESET_KIND
    /\ RecordEvent(kind, ts)
    /\ UNCHANGED <<now, samples, stored, prune, steady, renumbered, Readers>>

(* backfill_week_resets at a start drops the stale rows. *)
DeleteEvents(stamps) ==
    /\ log' = {e \in log : ~(e.kind = WEEK_RESET_KIND /\ e.ts \in stamps)}
    /\ log' # log
    /\ UNCHANGED <<now, sequence, written, samples, stored, prune, steady, renumbered, Readers>>

(* record_sample: the rowid is one more than the largest there is. *)
RecordSample(shape) ==
    /\ stored < MaxSamples
    /\ samples' = samples \cup {[id |-> Max({0} \cup Ids(samples)) + 1, n |-> stored + 1,
                                 ts |-> now, shape |-> shape]}
    /\ stored' = stored + 1
    /\ UNCHANGED <<now, log, sequence, written, prune, steady, renumbered, Readers>>

KeepSamples(rows) ==
    /\ samples' = rows
    /\ steady' = steady \cap {r.n : r \in rows}
    /\ UNCHANGED <<now, sequence, stored, renumbered, Readers>>

(* forget_samples, from the command line. *)
ForgetSamples(stamps) ==
    /\ \E r \in samples : r.ts \in stamps
    /\ KeepSamples({r \in samples : r.ts \notin stamps})
    /\ UNCHANGED <<log, written, prune>>

(* prune_samples: the newest, and the first of every shape. *)
Newest == {r \in samples :
             Cardinality({s \in samples : s.ts > r.ts \/ (s.ts = r.ts /\ s.id > r.id)})
                < SAMPLE_KEEP}
FirstOfShape == {r \in samples : \A s \in samples : s.shape = r.shape => s.id >= r.id}

PruneSamples ==
    /\ prune = "idle"
    /\ KeepSamples(Newest \cup FirstOfShape)
    /\ prune' = IF samples' # samples THEN "samples deleted" ELSE "age"
    /\ UNCHANGED <<log, written>>

(* prune_by_age: every table has its own cutoff, and what went may be rows  *)
(* of the other tables only.                                               *)
PruneByAge ==
    /\ prune = "age"
    /\ KeepSamples({r \in samples : r.ts >= now - AGED})
    /\ log' = {e \in log : e.ts >= now - FLOOR}
    /\ \/ prune' = "rows deleted"
       \/ prune' = "idle" /\ samples' = samples /\ log' = log
    /\ UNCHANGED written

(* vacuum, a statement of its own after either: an event's id is its key    *)
(* and stays, a sample's rowid is none, so that SQLite may give the rows    *)
(* others, in the order they are in.                                       *)
Vacuum ==
    /\ prune \in {"samples deleted", "rows deleted"}
    /\ \E id \in [samples -> 1..Max({0} \cup Ids(samples))] :
          /\ \A r, s \in samples : r.id < s.id => id[r] < id[s]
          /\ samples' = {[id |-> id[r], n |-> r.n, ts |-> r.ts, shape |-> r.shape] : r \in samples}
    /\ renumbered' = (renumbered \/ (export.on /\ samples' # samples))
    /\ prune' = IF prune = "samples deleted" THEN "samples pruned" ELSE "rows pruned"
    /\ UNCHANGED <<now, log, sequence, written, stored, steady, Readers>>

(* prune_now says what either did in an event of its own, as long as the    *)
(* bound leaves room for it.                                               *)
NotePrune ==
    /\ prune \in {"samples pruned", "rows pruned"}
    /\ \/ written < MaxEvents /\ RecordEvent(PRUNE_KIND, now)
       \/ written >= MaxEvents /\ UNCHANGED <<log, sequence, written>>
    /\ prune' = IF prune = "samples pruned" THEN "age" ELSE "idle"
    /\ UNCHANGED <<now, samples, stored, steady, renumbered, Readers>>

(* GET /api/events?after_id: events_after, and the cursor to pass back. *)
Follow(limit) ==
    LET rows == Query({e \in log : e.id > cursor /\ e.kind \in follows}, limit)
    IN  /\ rows # <<>>
        /\ cursor' = Last(rows).id
        /\ seen' = seen \o [i \in DOMAIN rows |-> rows[i].n]
        /\ UNCHANGED <<now, log, sequence, written, samples, stored, prune, follows,
                       export, out, steady, renumbered>>

(***************************************************************************)
(* The page's list of events, newest first: repeats that follow each other *)
(* are one row (what an event tells is its kind here), and the newest      *)
(* boost among what was read has a place whatever came after it.           *)
(***************************************************************************)
Newer(e) == {f \in log : f.ts > e.ts \/ (f.ts = e.ts /\ f.id > e.id)}

RecentEvents(limit) ==
    LET newest == [k \in 1..Cardinality(log) |->
                      CHOOSE e \in log : Cardinality(Newer(e)) = k - 1]
    IN  SubSeq(newest, 1, Min({limit, Len(newest)}))

\* Where a row begins, and where the one that begins at i ends.
Heads(events) == {i \in DOMAIN events : i = 1 \/ events[i].kind # events[i - 1].kind}
Until(events, i) == Max({j \in i..Len(events) : Heads(events) \cap i + 1..j = {}})

CollapseEvents(events) ==
    LET heads == Heads(events)
        row(i) == [kind |-> events[i].kind, ts |-> events[i].ts, n |-> events[i].n,
                   count |-> Until(events, i) - i + 1,
                   first_ts |-> events[Until(events, i)].ts]
    IN  [k \in 1..Cardinality(heads) |->
            row(CHOOSE i \in heads : Cardinality({h \in heads : h < i}) = k - 1)]

EventRows(limit) ==
    LET rows == CollapseEvents(RecentEvents(limit * OVERREAD))
        shown == SubSeq(rows, 1, Min({limit, Len(rows)}))
        boosts == {i \in DOMAIN rows : rows[i].kind = BOOST_KIND}
    IN  IF boosts = {} \/ Min(boosts) <= limit THEN shown
        ELSE Append(SubSeq(shown, 1, limit - 1), rows[Min(boosts)])

Wanted(rows) == {r \in rows : r.ts >= export.since}

StartExport(since) ==
    /\ ~export.on
    /\ export' = [on |-> TRUE, last_rowid |-> 0, since |-> since]
    /\ out' = <<>>
    /\ steady' = {r.n : r \in {s \in samples : s.ts >= since}}
    /\ renumbered' = FALSE
    /\ UNCHANGED <<now, log, sequence, written, samples, stored, prune, cursor, follows, seen>>

(* Fault: pages by their number in the table, not by the last rowid. *)
NextPageByOffset ==
    LET all  == ByRowid(Wanted(samples))
        rows == SubSeq(all, Len(out) + 1, Min({Len(out) + PAGE, Len(all)}))
    IN  /\ export.on
        /\ out' = out \o [i \in DOMAIN rows |-> rows[i].n]
        /\ export' = [export EXCEPT !.on = rows # <<>>]
        /\ UNCHANGED <<now, log, sequence, written, samples, stored, prune, cursor, follows,
                       seen, steady, renumbered>>

(* export.rows: the next page, until one is empty. *)
NextPage ==
    LET rows == Query({r \in Wanted(samples) : r.id > export.last_rowid}, PAGE)
    IN  /\ export.on
        /\ out' = out \o [i \in DOMAIN rows |-> rows[i].n]
        /\ export' = IF rows = <<>> THEN NoExport
                     ELSE [export EXCEPT !.last_rowid = Last(rows).id]
        /\ UNCHANGED <<now, log, sequence, written, samples, stored, prune, cursor, follows,
                       seen, steady, renumbered>>

Tick ==
    /\ now < MaxNow
    /\ now' = now + 1
    /\ UNCHANGED <<log, sequence, written, samples, stored, prune, steady, renumbered, Readers>>

Next ==
    \/ \E kind \in Kinds \ {PRUNE_KIND}, ts \in 0..now : Record(kind, ts)
    \/ \E ts \in 0..now : DeleteEvents({ts})
    \/ \E shape \in Shapes : RecordSample(shape)
    \/ \E ts \in 0..now : ForgetSamples({ts})
    \/ PruneSamples
    \/ PruneByAge
    \/ Vacuum
    \/ NotePrune
    \/ \E limit \in Limits : Follow(limit)
    \/ \E since \in 0..now : StartExport(since)
    \/ NextPage
    \/ Tick

Spec == Init /\ [][Next]_vars

-----------------------------------------------------------------------------
(* Every variable keeps its type; no two rows of a table share an id. *)
TypeOK ==
    /\ now \in 0..MaxNow
    /\ \A e \in log : e.ts \in 0..now /\ e.kind \in Kinds /\ e.id \in 1..sequence
    /\ \A r \in samples : r.ts \in 0..now /\ r.shape \in Shapes
    /\ Cardinality(Ids(log)) = Cardinality(log)
    /\ Cardinality(Ids(samples)) = Cardinality(samples)
    /\ prune \in {"idle", "samples deleted", "samples pruned", "age", "rows deleted",
                 "rows pruned"}
    /\ cursor \in 0..sequence

(* store.events_after: a follower that passes next_after_id back misses no  *)
(* event that is still there below its cursor and is given none twice, in   *)
(* the order they were written: with events dated back, deleted and written *)
(* anew, or pruned between two requests, down to an empty table.            *)
FollowerMissesNothing ==
    /\ \A e \in log : e.kind \in follows /\ e.id <= cursor => e.n \in ToSet(seen)
    /\ \A i, j \in DOMAIN seen : i < j => seen[i] < seen[j]

(* "Every row, oldest first" (export.rows): an export that has ended holds   *)
(* every row that was there all the time, once, oldest first, though rows   *)
(* were stored, forgotten and pruned between its pages; unless a VACUUM     *)
(* between two pages renumbered the table they are counted in.             *)
ExportIsWhole ==
    ~renumbered =>
        /\ ~export.on => steady \subseteq ToSet(out)
        /\ \A i, j \in DOMAIN out : i < j => out[i] < out[j]

(* "Only consecutive identical events merge, so anything that happened in   *)
(* between still separates them" (collapse_events), "and a boost never     *)
(* crowded off" (_event_rows): a row stands for as many events as it counts,*)
(* of its kind and all between its two times, no event is in two rows, and *)
(* the newest boost is listed unless limit * OVERREAD events are newer.    *)
PageListsEvents ==
    \A limit \in Limits \ {1} :
        LET rows == EventRows(limit)
            stands(row) == {e \in log : e.kind = row.kind /\ row.first_ts <= e.ts /\ e.ts <= row.ts}
            between(row) == {e \in log : row.first_ts < e.ts /\ e.ts < row.ts}
        IN  /\ Len(rows) <= limit
            /\ log # {} => rows # <<>>
            /\ \A i \in DOMAIN rows :
                   /\ rows[i].count <= Cardinality(stands(rows[i]))
                   /\ between(rows[i]) \subseteq stands(rows[i])
                   /\ \A j \in 1..i - 1 : rows[j].first_ts >= rows[i].ts /\ rows[j].n # rows[i].n
            /\ \A e \in log :
                   /\ e.kind = BOOST_KIND /\ Cardinality(Newer(e)) < limit * OVERREAD =>
                          \E i \in DOMAIN rows : rows[i].kind = BOOST_KIND
                   /\ Newer(e) = {} => rows[1].n = e.n

(* README "Pruning samples": the first sample of every distinct payload     *)
(* shape is kept, forever, so that no shape that was ever stored and not    *)
(* forgotten by hand goes.                                                  *)
ShapesForever ==
    [][prune # prune' => \A r \in samples : \E s \in samples' : s.shape = r.shape]_vars

=============================================================================
