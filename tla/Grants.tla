------------------------------- MODULE Grants -------------------------------
(***************************************************************************)
(* Credit grants: a row when a grant changes or a day has passed           *)
(* (Store.record_grants), the rows that a start replays out of the samples *)
(* (credits.backfill_grants), the grant on the page, and the events that   *)
(* count its expiry down (Poller._check_grants).  A poll may end between   *)
(* any two of them, samples are pruned under the rows made from them, and  *)
(* the vendor may say something else at every poll.                        *)
(***************************************************************************)
EXTENDS Integers, FiniteSets

CONSTANTS
    GRANT_HEARTBEAT_S,
    EXPIRED_VISIBLE_S,
    EXPIRY_LEVELS,  \* EXPIRY_LEVELS_DAYS, in seconds before the expiry
    Retention,      \* age at which samples are pruned; grant rows are kept
    Amounts,        \* what may be left of a grant
    Expiries,       \* when one may expire
    MaxTime         \* bound on the clock

GrantsAssumption ==
    /\ {GRANT_HEARTBEAT_S, EXPIRED_VISIBLE_S, Retention, MaxTime} \subseteq Nat \ {0}
    /\ EXPIRY_LEVELS \subseteq Nat /\ Amounts \subseteq Nat /\ Expiries \subseteq Nat

VARIABLES
    now,
    sampled,   \* stored usage samples that hold a grant {[ts, grant]}
    grantRows, \* stored rows of credit_grant {[ts, grant]}
    poll,      \* what the poll under way has parsed: {} or {[ts, grant]}
    unstored,  \* history: samples whose poll failed before its row, not replayed yet
    warnings   \* how many countdown events there are, by expiry and level

vars == <<now, sampled, grantRows, poll, unstored, warnings>>

Never == -1   \* of a grant that does not expire
AnyGrant == [left : Amounts, expires : Expiries \cup {Never}]

Init ==
    /\ now = 0
    /\ sampled = {} /\ grantRows = {} /\ poll = {} /\ unstored = {}
    /\ warnings = [w \in Expiries \X EXPIRY_LEVELS |-> 0]

NewestRow(rows) == CHOOSE r \in rows : \A q \in rows : q.ts <= r.ts

(* Fault: the heartbeat is left out. *)
GrantDueOnChange(before, s) == s.grant # before.grant

(* grant_due: a change, or a day since the row before it. *)
GrantDue(before, s) == s.grant # before.grant \/ s.ts - before.ts >= GRANT_HEARTBEAT_S

RowDue(rows, s) == rows = {} \/ GrantDue(NewestRow(rows), s)

(* backfill_grants: samples take their place among the stored rows, in the  *)
(* order of their time; one with a row of its own time is left alone.       *)
Replayed[t \in 0..now] ==
    LET before == IF t = 0 THEN {} ELSE Replayed[t - 1]
        at     == {r \in grantRows : r.ts = t}
    IN  before \cup IF at # {} THEN at
                    ELSE {s \in sampled : s.ts = t /\ RowDue(before, s)}

LevelsDue(s) ==
    IF s.grant.expires = Never \/ s.grant.left = 0 \/ s.ts >= s.grant.expires THEN {}
    ELSE {d \in EXPIRY_LEVELS :
             warnings[<<s.grant.expires, d>>] = 0 /\ s.grant.expires - s.ts <= d}

(* grants.py: what is on screen of the stored rows. *)
IsExpired(g) == g.expires # Never /\ now >= g.expires
IsVisible(g) == g.expires = Never \/ now < g.expires + EXPIRED_VISIBLE_S

BuildGrantViews ==
    LET latest == IF grantRows = {} THEN {} ELSE {NewestRow(grantRows).grant}
    IN  {[grant |-> g, expired |-> IsExpired(g)] : g \in {v \in latest : IsVisible(v)}}

(* The vendor may name any grant at any poll, or none. *)
RecordSample(s) ==
    /\ poll = {} /\ \A q \in sampled : q.ts # now
    /\ sampled' = sampled \cup {s}
    /\ UNCHANGED <<now, warnings>>

(* _collect up to its overage request; a poll without a grant leaves none   *)
(* of this behind.                                                         *)
Collect(s) ==
    /\ RecordSample(s)
    /\ grantRows' = IF RowDue(grantRows, s) THEN grantRows \cup {s} ELSE grantRows
    /\ poll' = {s}
    /\ UNCHANGED unstored

(* The payload does not parse any further, a write in between raises, or    *)
(* the process dies.                                                       *)
FailAfterSample(s) ==
    /\ RecordSample(s)
    /\ unstored' = unstored \cup {s}
    /\ UNCHANGED <<grantRows, poll>>

(* The overage request is refused: the checks never run. *)
GiveUp ==
    /\ poll # {} /\ poll' = {}
    /\ UNCHANGED <<now, sampled, grantRows, unstored, warnings>>

(* An event that cannot be written ends the check, behind wider levels.     *)
CheckGrants(s) ==
    \E fired \in SUBSET LevelsDue(s) :
        /\ \A d \in fired, e \in LevelsDue(s) \ fired : d > e
        /\ warnings' = [w \in DOMAIN warnings |->
                            IF w[1] = s.grant.expires /\ w[2] \in fired
                            THEN warnings[w] + 1 ELSE warnings[w]]
        /\ poll' = {}
        /\ UNCHANGED <<now, sampled, grantRows, unstored>>

(* prune_by_age, in its thread. *)
PruneByAge ==
    /\ sampled' = {s \in sampled : s.ts >= now - Retention}
    /\ unstored' = unstored \cap sampled'
    /\ UNCHANGED <<now, grantRows, poll, warnings>>

(* The process ends wherever it is; a backfill that raises waits for the    *)
(* next start.                                                             *)
Restart ==
    /\ poll' = {}
    /\ \/ grantRows' = Replayed[now] /\ unstored' = {}
       \/ UNCHANGED <<grantRows, unstored>>
    /\ UNCHANGED <<now, sampled, warnings>>

Tick ==
    /\ now < MaxTime /\ now' = now + 1
    /\ UNCHANGED <<sampled, grantRows, poll, unstored, warnings>>

Next ==
    \/ \E g \in AnyGrant : Collect([ts |-> now, grant |-> g])
    \/ \E g \in AnyGrant : FailAfterSample([ts |-> now, grant |-> g])
    \/ GiveUp
    \/ \E s \in poll : CheckGrants(s)
    \/ PruneByAge
    \/ Restart
    \/ Tick

Spec == Init /\ [][Next]_vars

-----------------------------------------------------------------------------
(* backfill_grants and record_grants keep one rule between them: at each    *)
(* stored sample, the newest grant row not after it shows that sample's     *)
(* grant and is less than a day old, except for samples whose poll failed   *)
(* before its row and that no start has replayed yet.                       *)
GrantsFollowSamples ==
    \A s \in sampled \ unstored :
        LET before == {r \in grantRows : r.ts <= s.ts}
        IN  /\ before # {}
            /\ NewestRow(before).grant = s.grant
            /\ s.ts - NewestRow(before).ts < GRANT_HEARTBEAT_S

(* "so the figure does not vanish the moment it stops being usable"          *)
(* (grants.py): from the newest sample whose row is stored until a week     *)
(* after the expiry it named, the page shows the grant that sample told,    *)
(* and as expired from that expiry on.                                      *)
GrantIsShown ==
    sampled # {} /\ NewestRow(sampled) \notin unstored =>
        LET told == NewestRow(sampled).grant
        IN  BuildGrantViews =
                IF IsVisible(told) THEN {[grant |-> told, expired |-> IsExpired(told)]} ELSE {}

(* expiry_levels_due: a countdown level fires once for one expiry, through  *)
(* restarts, and a renewed grant is warned of again.                        *)
WarnedOnce == \A w \in DOMAIN warnings : warnings[w] <= 1

(* Grant rows and the page agree with the samples, and an expiry is counted *)
(* down once.                                                              *)
GrantsAreFollowed == GrantsFollowSamples /\ GrantIsShown /\ WarnedOnce

=============================================================================
