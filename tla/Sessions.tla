------------------------------ MODULE Sessions ------------------------------
(***************************************************************************)
(* The session history: rows of `quota` come and go, and session_window is *)
(* derived from them (sessions.py), fully at a start or after a forget,    *)
(* from a tail after every poll.  Retention deletes the rows long before   *)
(* the windows, so the table holds what can no longer be derived.          *)
(*                                                                         *)
(* A row is [ts, ends] of the session limit; ends is resets_at, or None    *)
(* when no window runs; of is a history, the expiry it was computed from,  *)
(* which nothing reads.  A window keeps its key and the size of its        *)
(* sample; the peak, the deltas and the coverage derive alike.             *)
(*                                                                         *)
(* Either the expiries jitter, or they are exact and rows are deleted: a    *)
(* start is that of the first row left, so that the two together write a   *)
(* window that a cutoff has split a second time.                           *)
(***************************************************************************)
EXTENDS Integers, SequencesExt

CONSTANTS
    Length,     \* SESSION_LENGTH_S
    Tolerance,  \* RESET_TOLERANCE_S
    Margin,     \* INCREMENTAL_MARGIN_S
    Retention,  \* the period that governs `quota`
    Floor,      \* FLOOR_DAYS, for session_window
    Jitters,    \* what the server's recomputation adds to an expiry
    SameSecond, \* whether two polls may share a second
    MaxTime     \* bound on the clock

ASSUME SessionsAssumption ==
    /\ Length \in Nat /\ Tolerance \in Nat /\ Margin \in Nat /\ MaxTime \in Nat
    /\ Tolerance <= Margin /\ 2 * Tolerance < Length
    /\ Retention \in Nat /\ Floor \in Nat /\ Length < Retention /\ Retention <= Floor
    /\ Jitters \subseteq 0..Tolerance /\ Jitters # {}
    /\ SameSecond \in BOOLEAN

VARIABLES
    exact,      \* whether expiries come without jitter, and rows are deleted
    now,
    expiry,     \* the vendor's: when the newest session window ends, or None
    up,         \* the server runs
    quota,      \* the stored rows
    table,      \* session_window
    stage,      \* of the poll: "idle", "recorded", "derived"
    pending,    \* what rebuild_recent is about to write
    forgetting, \* of the command: "idle", "deleted", "derived"
    rederived,  \* what its rebuild is about to write
    forgotten   \* history: keys of the windows the user asked to forget

vars == <<exact, now, expiry, up, quota, table, stage, pending, forgetting, rederived,
          forgotten>>
serverVars == <<up, stage, pending>>
commandVars == <<forgetting, rederived, forgotten>>

None == -1000
Nothing == [windows |-> {}, since |-> None]

Init ==
    /\ exact \in BOOLEAN
    /\ now = 0 /\ expiry = None /\ up = TRUE
    /\ quota = {} /\ table = {}
    /\ stage = "idle" /\ pending = Nothing
    /\ forgetting = "idle" /\ rederived = {} /\ forgotten = {}

-----------------------------------------------------------------------------
(* derive_sessions.                                                        *)

Near(a, b) == a - b \in -Tolerance..Tolerance

(* Fault: a row joins the group of exactly its expiry.                     *)
JoinedExactly(groups, row) ==
    LET same == {i \in DOMAIN groups : groups[i].ref = row.ends}
    IN  IF same = {} THEN Append(groups, [ref |-> row.ends, rows |-> {row}])
        ELSE [groups EXCEPT ![Max(same)].rows = @ \cup {row}]

(* One row, in time order: it joins the newest group whose expiry is near, *)
(* or opens one; a row taken after that expiry belongs to no window.       *)
Joined(groups, row) ==
    LET near == {i \in DOMAIN groups : Near(row.ends, groups[i].ref)}
        gs == IF near = {} THEN Append(groups, [ref |-> row.ends, rows |-> {}]) ELSE groups
        i == IF near = {} THEN Len(gs) ELSE Max(near)
    IN  IF row.ts > gs[i].ref + Tolerance THEN gs
        ELSE [gs EXCEPT ![i].rows = @ \cup {row}]

(* The rows one after the other, of which a second has one at most. *)
Grouped(rows) ==
    LET upTo[t \in 0..now] ==
            LET before == IF t = 0 THEN <<>> ELSE upTo[t - 1]
                at     == {r \in rows : r.ts = t}
            IN  IF at = {} THEN before ELSE Joined(before, CHOOSE r \in at : TRUE)
    IN  upTo[now]

Groups(rows) == {g \in Range(Grouped({r \in rows : r.ends # None})) : g.rows # {}}

LastTs(g) == Max({r.ts : r \in g.rows})

(* The running window is the one with the newest sample.                   *)
Derive(rows) ==
    LET groups == Groups(rows)
    IN  {[start   |-> g.ref - Length,
          current |-> now < g.ref /\ \A h \in groups : LastTs(h) <= LastTs(g),
          samples |-> Cardinality(g.rows)] : g \in groups}

-----------------------------------------------------------------------------
(* The table (store.py).                                                   *)

Oldest == IF quota = {} THEN None ELSE Min({r.ts : r \in quota})

Starts(ws) == {w.start : w \in ws}

\* INSERT OR REPLACE.
Upsert(ws, new) == {w \in ws : w.start \notin Starts(new)} \cup new

Demoted(ws, since) ==
    {[start |-> w.start, current |-> w.current /\ w.start >= since, samples |-> w.samples] : w \in ws}

(* Fault: the table is what could be derived, and nothing else.            *)
ReplacedWholly(ws, new, derivableFrom) == new

(* replace_sessions: rows that start before derivable_from are kept; no    *)
(* derivable_from, no rows kept.                                           *)
Replaced(ws, new, derivableFrom) ==
    Upsert(IF derivableFrom = None THEN {} ELSE {w \in ws : w.start < derivableFrom}, new)

\* The start of the second newest window known, where the tail begins.
Previous == Max(Starts(table) \ {Max(Starts(table))})

(* Fault: the tail begins where the previous window is recorded to begin.  *)
TailRowsExactly(since) == {r \in quota : r.ts >= since}

TailRows(since) == {r \in quota : r.ts >= since - Margin}

-----------------------------------------------------------------------------
(* What resets_at may say: the running window's expiry, recomputed; none,  *)
(* or the old value, while idle.  An expiry never moves back.              *)
Reported ==
    LET recomputed == {expiry + j : j \in IF exact THEN {0} ELSE Jitters}
    IN  IF expiry = None THEN {None}
        ELSE IF now < expiry THEN recomputed ELSE {None} \cup recomputed

(* The first message after a window ran out opens the next.                *)
Message ==
    /\ expiry = None \/ now >= expiry
    /\ expiry' = now + Length
    /\ UNCHANGED <<now, quota, table, serverVars, commandVars>>

(* record_quota: the row of the same second is replaced.                   *)
Record ==
    /\ up /\ stage = "idle"
    /\ SameSecond \/ \A r \in quota : r.ts # now
    /\ \E ends \in Reported :
         quota' = {r \in quota : r.ts # now}
                      \cup {[ts |-> now, ends |-> ends, of |-> IF ends = None THEN None ELSE expiry]}
    /\ stage' = "recorded"
    /\ UNCHANGED <<now, expiry, table, up, pending, commandVars>>

(* rebuild_recent reads and derives: from the tail, or from everything     *)
(* while there are not two windows to be incremental about.                *)
DeriveRecent ==
    /\ stage = "recorded"
    /\ pending' =
         IF Cardinality(table) < 2 THEN [windows |-> Derive(quota), since |-> None]
         ELSE [windows |-> {w \in Derive(TailRows(Previous)) : w.start >= Previous},
               since |-> Previous]
    /\ stage' = "derived"
    /\ UNCHANGED <<now, expiry, up, quota, table, commandVars>>

WriteRecent ==
    /\ stage = "derived"
    /\ table' = IF pending.since = None THEN Replaced(table, pending.windows, None)
                ELSE Upsert(Demoted(table, pending.since), pending.windows)
    /\ stage' = "idle" /\ pending' = Nothing
    /\ UNCHANGED <<now, expiry, up, quota, commandVars>>

(* A rebuild that raises is an event, and the poll goes on.                *)
RebuildFailed ==
    /\ stage # "idle"
    /\ stage' = "idle" /\ pending' = Nothing
    /\ UNCHANGED <<now, expiry, up, quota, table, commandVars>>

(* prune_by_age, in the poller's worker thread or by `quotalens prune`.    *)
Prune ==
    /\ exact
    /\ quota' = {r \in quota : r.ts >= now - Retention}
    /\ table' = {w \in table : w.start >= now - Floor}
    /\ UNCHANGED <<now, expiry, serverVars, commandVars>>

Down ==
    /\ up /\ up' = FALSE
    /\ stage' = "idle" /\ pending' = Nothing
    /\ UNCHANGED <<now, expiry, quota, table, commandVars>>

(* The lifespan's rebuild(keep_underivable=True); if it raises, the server *)
(* starts with the table it found.                                         *)
Start ==
    /\ ~up /\ up' = TRUE
    /\ \/ table' = Replaced(table, Derive(quota), Oldest)
       \/ UNCHANGED table
    /\ UNCHANGED <<now, expiry, quota, stage, pending, commandVars>>

(* `quotalens forget`: delete the samples of one window, derive what is    *)
(* left, replace the table.  The server may be running.                    *)
ForgetDelete(w) ==
    /\ exact /\ forgetting = "idle"
    /\ quota' = {r \in quota : ~(/\ r.ends # None
                                 /\ Near(r.ends, w.start + Length)
                                 /\ r.ts <= r.ends + Tolerance)}
    /\ forgetting' = "deleted" /\ forgotten' = forgotten \cup {w.start}
    /\ UNCHANGED <<now, expiry, table, serverVars, rederived>>

ForgetDerive ==
    /\ forgetting = "deleted" /\ forgetting' = "derived"
    /\ rederived' = Derive(quota)
    /\ UNCHANGED <<now, expiry, quota, table, serverVars, forgotten>>

ForgetReplace ==
    /\ forgetting = "derived" /\ forgetting' = "idle"
    /\ table' = Replaced(table, rederived, None)
    /\ rederived' = {}
    /\ UNCHANGED <<now, expiry, quota, serverVars, forgotten>>

\* A rebuild takes no time on this clock.
Tick ==
    /\ now < MaxTime /\ stage = "idle" /\ forgetting = "idle"
    /\ now' = now + 1
    /\ UNCHANGED <<expiry, quota, table, serverVars, commandVars>>

Moves ==
    \/ Message
    \/ Record
    \/ DeriveRecent
    \/ WriteRecent
    \/ RebuildFailed
    \/ Prune
    \/ Down
    \/ Start
    \/ \E w \in table : ForgetDelete(w)
    \/ ForgetDerive
    \/ ForgetReplace
    \/ Tick

Next == Moves /\ UNCHANGED exact

Spec == Init /\ [][Next]_vars

-----------------------------------------------------------------------------
Window == [start : -Length..MaxTime + Tolerance, current : BOOLEAN,
           samples : 1..MaxTime + 1]

TypeOK ==
    /\ now \in 0..MaxTime /\ expiry \in {None} \cup Length..MaxTime + Length
    /\ up \in BOOLEAN
    /\ quota \subseteq [ts : 0..MaxTime,
                        ends : {None} \cup Length..MaxTime + Length + Tolerance,
                        of : {None} \cup Length..MaxTime + Length]
    /\ table \subseteq Window /\ rederived \subseteq Window
    /\ stage \in {"idle", "recorded", "derived"}
    /\ pending.windows \subseteq Window
    /\ forgetting \in {"idle", "deleted", "derived"}
    /\ forgotten \subseteq -Length..MaxTime + Tolerance

(* One session is one row, however its expiry jitters and whichever pass   *)
(* wrote it: no two rows are within the tolerance of each other.           *)
OneRowPerSession ==
    \A v, w \in table : Near(v.start, w.start) => v = w

(* No window is left marked as running beside a newer one.                 *)
AtMostOneCurrent ==
    \A v, w \in table : v.current /\ w.current => v = w

RowsAreSessions == ~exact => OneRowPerSession /\ AtMostOneCurrent

(* "Equivalent to rebuild over the same data" (rebuild_recent), through    *)
(* restarts and failed rebuilds, as long as nothing is deleted: after the  *)
(* tail is written the table is what the full pass would derive.           *)
WritesAll == WriteRecent => table' = Derive(quota)
RecentEqualsFull == [][~exact => WritesAll]_vars

(* No incremental pass, prune or start takes a window within the floor out *)
(* of the table unless the user forgot it, even while a forget is going on *)
(* in another process.  The exceptions, which the README tells: a full     *)
(* pass of the poller, made while there are not two windows; a start that  *)
(* finds no rows; and the replacement a forget makes (the next property).  *)
FullPass == stage = "derived" /\ pending.since = None
KeepsHistory ==
    ~FullPass /\ ~ForgetReplace /\ quota # {} =>
        \A w \in table : w.start >= now - Floor /\ w.start \notin forgotten
           => w.start \in Starts(table')
HistoryIsKept == [][exact => KeepsHistory]_vars

\* The windows that only the table still knows of.
Underivable(w) == \A r \in quota : r.ends = None \/ ~Near(r.ends, w.start + Length)

KeepsUnderivable ==
    \A w \in table : /\ w.start >= now - Floor
                     /\ Underivable(w)
                     /\ w.start \notin forgotten
                     => w.start \in Starts(table')

(* "Without that guard, retention turns this into a destructive operation" *)
(* (replace_sessions): forgetting one window keeps the others.             *)
ForgetKeepsHistory ==
    [][forgetting = "derived" /\ forgetting' = "idle" => KeepsUnderivable]_vars
=============================================================================
