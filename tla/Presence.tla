------------------------------ MODULE Presence ------------------------------
(***************************************************************************)
(* Windows that stop arriving (current_windows of dashboard.py) and the    *)
(* events that say so (Poller._check_gone_windows).  What a window is told *)
(* to be is its newest event; what it is, is worked out of the stored      *)
(* rows.  Between the two come failed polls, deaths, an event that cannot  *)
(* be written, pruning, and a second process on the same database whose    *)
(* older parser stores a credit grant as a window.                         *)
(***************************************************************************)
EXTENDS Integers, Sequences, FiniteSets, FiniteSetsExt

CONSTANTS
    RATE_WINDOW,      \* the session, exempt from the rule
    Limits,           \* the weekly windows
    Grant,            \* the key of a credit grant
    GONE_AFTER_POLLS,
    GONE_AFTER_S,
    Retention,        \* age at which rows are pruned
    MaxTime           \* bound on the clock

PresenceAssumption ==
    /\ {RATE_WINDOW, Grant} \cap Limits = {} /\ RATE_WINDOW # Grant
    /\ {GONE_AFTER_POLLS, GONE_AFTER_S, Retention, MaxTime} \subseteq Nat \ {0}

VARIABLES
    now,
    quota,    \* the stored rows {[ts, window]}
    marks,    \* events by window: window_gone (TRUE) and window_back, as written
    stage,    \* of the poll: "idle", or "checks" once its rows are stored
    granted,  \* history: when a poll last saw the grant
    settled   \* history: no row but a pruned one changed since a check got through

vars == <<now, quota, marks, stage, granted, settled>>

Windows == Limits \cup {RATE_WINDOW}
Told == Windows \cup {Grant}
Never == -1

Init ==
    /\ now = 0 /\ quota = {} /\ marks = [w \in Told |-> <<>>] /\ stage = "idle"
    /\ granted = Never /\ settled = TRUE

(* latest_quota and recent_poll_ts: of any writer's rows. *)
Seen == {r.window : r \in quota}
LatestOf(w) == Max({r.ts : r \in {q \in quota : q.window = w}})
PollTimes == {r.ts : r \in quota}
RecentPollTs ==
    {t \in PollTimes : Cardinality({u \in PollTimes : u > t}) < GONE_AFTER_POLLS}

CurrentWindows ==
    IF Cardinality(RecentPollTs) < GONE_AFTER_POLLS THEN Seen
    ELSE {w \in Seen : \/ w = RATE_WINDOW
                       \/ LatestOf(w) >= Min(RecentPollTs)
                       \/ Max(RecentPollTs) - LatestOf(w) <= GONE_AFTER_S}

(* Fault: a window that was ever gone counts as gone. *)
WasEverGone(w) == \E i \in DOMAIN marks[w] : marks[w][i]

(* The newest mark is the state; none means it has never been gone. *)
WasGone(w) == marks[w] # <<>> /\ marks[w][Len(marks[w])]

Rows(windows) == {[ts |-> now, window |-> w] : w \in windows}

(* delete_quota_window, for each grant of the payload. *)
RemoveMisfiled(rows, grants) == {r \in rows : r.window \notin grants}

(* _collect up to its overage request. *)
Collect(windows, grants) ==
    /\ stage = "idle" /\ now \notin PollTimes
    /\ quota' = RemoveMisfiled(quota \cup Rows(windows), grants)
    /\ granted' = IF grants = {} THEN granted ELSE now
    /\ stage' = "checks"
    /\ settled' = FALSE
    /\ UNCHANGED <<now, marks>>

(* That request is refused, or the process dies: the checks never run. *)
GiveUp ==
    /\ stage = "checks" /\ stage' = "idle"
    /\ UNCHANGED <<now, quota, marks, granted, settled>>

(* _check_gone_windows, over latest_quota: an event that cannot be written  *)
(* ends the check, behind those that were.                                 *)
CheckGoneWindows ==
    LET turned == {w \in Seen : (w \notin CurrentWindows) # WasGone(w)}
    IN  /\ stage = "checks" /\ stage' = "idle"
        /\ \E written \in SUBSET turned :
              /\ marks' = [w \in Told |-> IF w \in written THEN Append(marks[w], ~WasGone(w))
                                          ELSE marks[w]]
              /\ settled' = (written = turned)
        /\ UNCHANGED <<now, quota, granted>>

(* The second process stores its poll; it knows of no grants. *)
OlderProcessPolls(windows) ==
    /\ now \notin PollTimes
    /\ quota' = quota \cup Rows(windows \cup {Grant})
    /\ settled' = FALSE
    /\ UNCHANGED <<now, marks, stage, granted>>

(* prune_by_age, in its own thread. *)
PruneByAge ==
    /\ quota' = {r \in quota : r.ts >= now - Retention}
    /\ UNCHANGED <<now, marks, stage, granted, settled>>

Tick ==
    /\ now < MaxTime /\ now' = now + 1
    /\ UNCHANGED <<quota, marks, stage, granted, settled>>

Next ==
    \/ \E windows \in SUBSET Windows \ {{}}, grants \in {{}, {Grant}} : Collect(windows, grants)
    \/ GiveUp
    \/ CheckGoneWindows
    \/ \E windows \in SUBSET Windows : OlderProcessPolls(windows)
    \/ PruneByAge
    \/ Tick

Spec == Init /\ [][Next]_vars

-----------------------------------------------------------------------------
(* "The event and the meter vanishing are one conclusion": once a check has *)
(* got through, the page shows exactly the windows whose newest event is    *)
(* not a window_gone, whatever is pruned before the next poll; "one         *)
(* window_gone when a window stops arriving, one window_back if it returns" *)
(* (_check_gone_windows): they take turns.  The session is never told gone. *)
PresenceIsTold ==
    /\ settled => \A w \in Seen : WasGone(w) <=> w \notin CurrentWindows
    /\ \A w \in Told : \A i \in DOMAIN marks[w] : marks[w][i] <=> i % 2 = 1
    /\ marks[RATE_WINDOW] = <<>>

(* "A grant is never a window" (delete_quota_window): no row older than the *)
(* last poll that saw the grant holds it as one.                            *)
GrantIsNoWindow == \A r \in quota : r.window = Grant => r.ts >= granted

=============================================================================
