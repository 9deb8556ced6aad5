------------------------------ MODULE Readings ------------------------------
(***************************************************************************)
(* What one poll concludes from its reading of one weekly window           *)
(* (_collect of poller.py): the row is stored, a boost is detected, and    *)
(* after the overage request the week ledger (weeks.py) and the level      *)
(* crossings (notify.py) are derived.  The process may die between any two *)
(* writes; a start runs the ledger's backfill, and `quotalens rescan` runs  *)
(* the boosts' from a process of its own, beside a poll or without one.    *)
(*                                                                         *)
(* A reading is [ts, pct, week, jitter]: its resets_at names the week plus *)
(* a sub-second part the server recomputes on every call.  resets_at       *)
(* strings are equal when both are; resets_at_changed looks only at the    *)
(* week.  The cost figures a ledger row carries are left out.              *)
(***************************************************************************)
EXTENDS Integers, SequencesExt

CONSTANTS
    Pcts,           \* percentages a reading may show
    Thresholds,     \* settings.notify_thresholds
    BoostMinDrop,   \* BOOST_MIN_DROP_PCT
    Jitters,        \* sub-second parts of resets_at
    MinGap,         \* seconds between two polls: 0 lets two share a second
    OverageMayFail, \* whether the overage endpoint may answer 401 after usage did not
    MayCrash,       \* whether the process may die, or a check may raise
    MaxTime, MaxWeek    \* bounds: the clock and the weeks seen

ASSUME ReadingsAssumption ==
    /\ Pcts \subseteq Nat /\ 0 \in Pcts /\ Thresholds \subseteq Nat /\ IsFiniteSet(Thresholds)
    /\ BoostMinDrop \in Nat \ {0}
    /\ Jitters # {} /\ Jitters \subseteq Nat
    /\ MinGap \in {0, 1}
    /\ OverageMayFail \in BOOLEAN /\ MayCrash \in BOOLEAN
    /\ MaxTime \in Nat /\ MaxWeek \in Nat

VARIABLES
    now,        \* the poller's clock, whole seconds
    rows,       \* the window's rows in `quota`, ordered by ts
    boosts,     \* ts of each quota_boost event, in the order written
    ledger,     \* week_reset events: [closed |-> closed_at, week |-> the week that closed]
    crossed,    \* notify_crossed events: [key |-> resets_at, level |-> threshold]
    stage,      \* of the poll, or "down"
    previous, current,  \* the poll's two local readings
    unboosted, unledgered, unnotified,  \* history: ts of rows whose check never ran
    raced       \* history: ts of rows a rescan looked at before their own check did

vars == <<now, rows, boosts, ledger, crossed, stage, previous, current,
          unboosted, unledgered, unnotified, raced>>
eventVars == <<boosts, ledger, crossed>>
historyVars == <<unboosted, unledgered, unnotified, raced>>

Readable == [ts : 0..MaxTime, pct : Pcts, week : 0..MaxWeek, jitter : Jitters]
None == [ts |-> -1, pct |-> 0, week |-> -1, jitter |-> 0]

Init ==
    /\ now = 0 /\ rows = <<>>
    /\ boosts = <<>> /\ ledger = <<>> /\ crossed = <<>>
    /\ stage = "idle" /\ previous = None /\ current = None
    /\ unboosted = {} /\ unledgered = {} /\ unnotified = {} /\ raced = {}

-----------------------------------------------------------------------------
(* The detectors, each given two consecutive readings.                     *)

ResetsAt(r) == <<r.week, r.jitter>>
ResetsAtChanged(a, b) == a.week # b.week

IsBoost(a, b) ==
    /\ ~ResetsAtChanged(a, b)
    /\ a.pct - b.pct >= BoostMinDrop

Closing(a) == [closed |-> a.ts, week |-> a.week]
IsWeekReset(a, b) == ResetsAtChanged(a, b)

Fired(key) == {c.level : c \in {e \in Range(crossed) : e.key = key}}

(* Fault: the levels that already fired are not looked up.                 *)
CrossingsForgetful(a, b) ==
    IF a # None /\ ResetsAt(a) = ResetsAt(b)
    THEN {t \in Thresholds : a.pct < t /\ t <= b.pct}
    ELSE {}

(* The previous reading counts only if its resets_at is the same string.   *)
Crossings(a, b) ==
    IF a # None /\ ResetsAt(a) = ResetsAt(b)
    THEN {t \in Thresholds \ Fired(ResetsAt(b)) : a.pct < t /\ t <= b.pct}
    ELSE {}

\* Consecutive stored rows, the pairs scan_history walks.
Pairs == {<<rows[i], rows[i + 1]>> : i \in 1..Len(rows) - 1}
ScanBoosts == {p[2].ts : p \in {q \in Pairs : IsBoost(q[1], q[2])}}
ScanResets == {Closing(p[1]) : p \in {q \in Pairs : IsWeekReset(q[1], q[2])}}

(* Each element of S once. *)
Listings(S) == {s \in [1..Cardinality(S) -> S] : Range(s) = S}

Ascending(S) == {s \in Listings(S) : \A i, j \in DOMAIN s : i < j => s[i] < s[j]}

(* The order scan_history returns them in. *)
InTimeOrder(S) ==
    {s \in Listings(S) : \A i, j \in DOMAIN s : i < j => s[i].closed < s[j].closed}

-----------------------------------------------------------------------------
(* INSERT OR REPLACE: the row of the same second is overwritten.           *)
Stored(r) ==
    IF rows # <<>> /\ rows[Len(rows)].ts = r.ts
    THEN [rows EXCEPT ![Len(rows)] = r]
    ELSE Append(rows, r)

Latest == IF rows = <<>> THEN None ELSE rows[Len(rows)]

\* The poll's locals are gone when it returns.
Forget == previous' = None /\ current' = None

(* The week a new reading may name: the server's never go back.            *)
Answer ==
    {r \in Readable : /\ r.ts = now
                      /\ IF rows = <<>> THEN r.week = 0
                         ELSE r.week \in {Latest.week, Latest.week + 1}}

(* fetch_usage answered: the reading replaces `previous` as the newest row. *)
Collect ==
    /\ stage = "idle"
    /\ rows = <<>> \/ now - Latest.ts >= MinGap
    /\ \E r \in Answer : rows' = Stored(r) /\ previous' = Latest /\ current' = r
    /\ stage' = "stored"
    /\ UNCHANGED <<now, eventVars, historyVars>>

(* _check_boost: the two are compared at once. *)
CheckBoost ==
    /\ stage = "stored"
    /\ stage' = "overage"
    /\ boosts' = IF previous # None /\ IsBoost(previous, current)
                 THEN Append(boosts, now) ELSE boosts
    /\ UNCHANGED <<now, rows, ledger, crossed, previous, current, historyVars>>

(* boost.backfill, of the rescan command: what is recorded is skipped. *)
Rescan ==
    /\ ScanBoosts \ Range(boosts) # {}
    /\ \E found \in Ascending(ScanBoosts \ Range(boosts)) : boosts' = boosts \o found
    /\ unboosted' = {}
    /\ raced' = IF stage = "stored" THEN raced \cup {current.ts} ELSE raced
    /\ UNCHANGED <<now, rows, ledger, crossed, stage, previous, current,
                   unledgered, unnotified>>

(* The overage request answered, or was not needed.                        *)
OverageAnswered ==
    /\ stage = "overage"
    /\ stage' = "weeks"
    /\ UNCHANGED <<now, rows, eventVars, previous, current, historyVars>>

(* It answered 401: the poll fails, and the checks of a reading that is    *)
(* already stored never run.                                               *)
OverageRejected ==
    /\ OverageMayFail /\ stage = "overage"
    /\ stage' = "idle"
    /\ unledgered' = unledgered \cup {current.ts}
    /\ unnotified' = unnotified \cup {current.ts}
    /\ Forget
    /\ UNCHANGED <<now, rows, eventVars, unboosted, raced>>

(* Fault: whatever is older than the newest entry counts as recorded.      *)
MissingSinceLast(resets) ==
    {e \in resets : \A i \in 1..Len(ledger) : ledger[i].closed < e.closed}

Missing(resets) == {e \in resets : \A i \in 1..Len(ledger) : ledger[i].closed # e.closed}

(* weeks._record, the one write path: skip what is recorded.               *)
RecordResets(resets) ==
    \E found \in InTimeOrder(Missing(resets)) : ledger' = ledger \o found

LiveReset ==
    IF previous # None /\ IsWeekReset(previous, current) THEN {Closing(previous)} ELSE {}

(* _check_week_reset; if it raises, an event says so and the next check    *)
(* runs all the same.                                                      *)
CheckWeekReset ==
    /\ stage = "weeks"
    /\ stage' = "notify"
    /\ \/ RecordResets(LiveReset) /\ UNCHANGED unledgered
       \/ /\ MayCrash
          /\ unledgered' = unledgered \cup {current.ts}
          /\ UNCHANGED ledger
    /\ UNCHANGED <<now, rows, boosts, crossed, previous, current, unboosted, unnotified, raced>>

(* _check_notify: the event is written whether or not delivery worked.     *)
CheckNotify ==
    /\ stage = "notify"
    /\ stage' = "idle"
    /\ \/ \E order \in Ascending(Crossings(previous, current)) :
             /\ crossed' = crossed \o
                  [i \in DOMAIN order |-> [key |-> ResetsAt(current), level |-> order[i]]]
             /\ UNCHANGED unnotified
       \/ /\ MayCrash
          /\ unnotified' = unnotified \cup {current.ts}
          /\ UNCHANGED crossed
    /\ Forget
    /\ UNCHANGED <<now, rows, boosts, ledger, unboosted, unledgered, raced>>

Die ==
    /\ MayCrash /\ stage # "down"
    /\ stage' = "down"
    /\ unledgered' = IF stage \in {"stored", "overage", "weeks"}
                     THEN unledgered \cup {current.ts} ELSE unledgered
    /\ unnotified' = IF stage \in {"stored", "overage", "weeks", "notify"}
                     THEN unnotified \cup {current.ts} ELSE unnotified
    /\ Forget
    /\ unboosted' = IF stage = "stored" /\ current.ts \notin Range(boosts)
                    THEN unboosted \cup {current.ts} ELSE unboosted
    /\ UNCHANGED <<now, rows, eventVars, raced>>

(* The lifespan's weeks.backfill; a failure is recorded and served past.   *)
Start ==
    /\ stage = "down"
    /\ stage' = "idle"
    /\ \/ /\ RecordResets(ScanResets)
          /\ unledgered' = {}
       \/ UNCHANGED <<ledger, unledgered>>
    /\ UNCHANGED <<now, rows, boosts, crossed, previous, current, unboosted, unnotified, raced>>

Tick ==
    /\ now < MaxTime /\ stage \in {"idle", "down"}
    /\ now' = now + 1
    /\ UNCHANGED <<rows, eventVars, stage, previous, current, historyVars>>

Next ==
    \/ Collect
    \/ CheckBoost
    \/ Rescan
    \/ OverageAnswered
    \/ OverageRejected
    \/ CheckWeekReset
    \/ CheckNotify
    \/ Die
    \/ Start
    \/ Tick

Spec == Init /\ [][Next]_vars

-----------------------------------------------------------------------------
TypeOK ==
    /\ now \in 0..MaxTime
    /\ rows \in Seq(Readable)
    /\ boosts \in Seq(0..MaxTime)
    /\ ledger \in Seq([closed : 0..MaxTime, week : 0..MaxWeek])
    /\ crossed \in Seq([key : (0..MaxWeek) \X Jitters, level : Thresholds])
    /\ stage \in {"idle", "stored", "overage", "weeks", "notify", "down"}
    /\ previous \in Readable \cup {None} /\ current \in Readable \cup {None}
    /\ unboosted \cup raced \subseteq 0..MaxTime
    /\ unledgered \subseteq 0..MaxTime /\ unnotified \subseteq 0..MaxTime

Checking == stage \in {"stored", "overage", "weeks", "notify"}
InFlight(ts) == Checking /\ current.ts = ts

(* "One recorded event per weekly reset" (weeks.py): live detection, death *)
(* and backfill together never write one week's end twice.                 *)
OneEventPerWeek ==
    \A i, j \in 1..Len(ledger) : ledger[i].week = ledger[j].week => i = j

(* Every reset the stored rows show is in the ledger, unless its check     *)
(* never ran or failed since the last backfill, and nothing else is.       *)
LedgerMatchesHistory ==
    \A p \in Pairs : IsWeekReset(p[1], p[2]) =>
        \/ \E i \in 1..Len(ledger) : ledger[i] = Closing(p[1])
        \/ p[2].ts \in unledgered
        \/ InFlight(p[2].ts) /\ stage # "notify"

LedgerIsHistory == \A i \in 1..Len(ledger) : ledger[i] \in ScanResets

(* The ledger is what the stored rows say, each week end once.             *)
LedgerIsTrue == OneEventPerWeek /\ LedgerMatchesHistory /\ LedgerIsHistory

(* A recorded boost is a fall of the level inside one week that the rows   *)
(* show, and every such fall is recorded once its check is over, unless a  *)
(* death between row and event lost it and no rescan has found it: live    *)
(* detection and scan_history agree.  "Safe to run twice" (boost.backfill): *)
(* none is recorded twice, but one whose poll a rescan overtook.           *)
BoostsMatchHistory ==
    /\ Range(boosts) \subseteq {p[2].ts : p \in {q \in Pairs : q[1].week = q[2].week}}
    /\ \A i, j \in 1..Len(boosts) : boosts[i] = boosts[j] => i = j \/ boosts[i] \in raced
    /\ \A p \in Pairs : p[1].week = p[2].week /\ p[1].pct - p[2].pct >= BoostMinDrop =>
          \/ p[2].ts \in Range(boosts) \cup unboosted
          \/ stage = "stored" /\ current.ts = p[2].ts

(* The two records of the rows, boosts and weeks, are what the rows say.   *)
RecordsMatchHistory == LedgerIsTrue /\ BoostsMatchHistory

(* However the level moves, and across restarts, a level is announced at   *)
(* most once for one resets_at.                                            *)
AnnouncedOnce ==
    \A i, j \in 1..Len(crossed) : crossed[i] = crossed[j] => i = j

(* "Fire once when 50% is crossed upward" (notify.py): a level crossed     *)
(* between two stored readings of one week has been announced for that     *)
(* week once the checks of the later reading are over.                     *)
CrossingsAnnounced ==
    \A p \in Pairs : \A t \in Thresholds :
        p[1].week = p[2].week /\ p[1].pct < t /\ t <= p[2].pct =>
            \/ \E i \in 1..Len(crossed) : crossed[i].key[1] = p[2].week /\ crossed[i].level = t
            \/ InFlight(p[2].ts)
            \/ MayCrash /\ p[2].ts \in unnotified
=============================================================================
