---------------------------- MODULE VendorStatus ----------------------------
(***************************************************************************)
(* status.StatusWatcher: the vendors' own status feeds, asked in a worker  *)
(* thread on a timer of their own, their answers kept in memory.  Between  *)
(* two requests of a round the settings panel may change which vendors are *)
(* watched, and the page reads the rows at any moment.                     *)
(***************************************************************************)
EXTENDS Integers, Sequences, FiniteSets, SequencesExt

CONSTANTS
    AVAILABLE,              \* the vendors with a feed, in canonical order
    States,                 \* what a feed may say: INDICATOR_STATE's values
    UNKNOWN,                \* the state of a feed that is not understood
    CHECK_EVERY_S,
    FAILURES_BEFORE_UNKNOWN,
    MaxClock                \* bound on the clock

VendorAssumption ==
    /\ IsInjective(AVAILABLE)
    /\ UNKNOWN \notin States
    /\ {CHECK_EVERY_S, FAILURES_BEFORE_UNKNOWN, MaxClock} \subseteq Nat \ {0}

VARIABLES
    clock,
    enabled,    \* status_row
    vendors,    \* status_vendors: the watched vendors, in canonical order
    cache,      \* vendor -> [state, at]; only vendors that have an answer
    failures,   \* vendor -> consecutive failures
    last_check, \* last_check_ts; NotYet before the first round
    round,      \* the worker thread: the vendors it has still to ask
    answers     \* history: vendor -> all it answered, UNKNOWN for a failure

vars == <<clock, enabled, vendors, cache, failures, last_check, round, answers>>

Vendors == ToSet(AVAILABLE)
NotYet == -1
Idle == [at |-> NotYet, todo |-> <<>>]

(* selected_vendors: canonical order; nothing selected means no vendor. *)
SelectedVendors(keys) == SelectSeq(AVAILABLE, LAMBDA v : v \in keys)

FreshCache ==
    /\ cache = [v \in {} |-> UNKNOWN]
    /\ failures = [v \in Vendors |-> 0]
    /\ last_check = NotYet
    /\ round = Idle
    /\ answers = [v \in Vendors |-> <<>>]

Init ==
    /\ clock = 0
    /\ enabled \in BOOLEAN
    /\ vendors \in {SelectedVendors(keys) : keys \in SUBSET Vendors}
    /\ FreshCache

(* rows(): what the page shows, in the order of the setting. *)
Rows == IF ~enabled THEN <<>>
        ELSE [i \in DOMAIN vendors |->
                IF vendors[i] \in DOMAIN cache THEN cache[vendors[i]]
                ELSE [state |-> UNKNOWN, at |-> NotYet]]

Due == enabled /\ (last_check = NotYet \/ clock - last_check >= CHECK_EVERY_S)

(* _watch_status hands check_all to a thread; `now` was read before. *)
StartRound ==
    /\ round.at = NotYet
    /\ Due
    /\ round' = [at |-> clock, todo |-> <<>>]
    /\ UNCHANGED <<clock, enabled, vendors, cache, failures, last_check, answers>>

(* check_all looks at `enabled` again, and takes the vendors as they are. *)
CheckAll ==
    /\ round.at # NotYet
    /\ round.todo = <<>>
    /\ last_check # round.at
    /\ IF enabled
       THEN /\ last_check' = round.at
            /\ round' = IF vendors = <<>> THEN Idle ELSE [round EXCEPT !.todo = vendors]
       ELSE /\ round' = Idle
            /\ UNCHANGED last_check
    /\ UNCHANGED <<clock, enabled, vendors, cache, failures, answers>>

Answered(v, state) ==
    cache' = [w \in DOMAIN cache \cup {v} |->
                 IF w = v THEN [state |-> state, at |-> round.at] ELSE cache[w]]

(* _record_failure: one failure keeps the previous answer. *)
RecordFailure(v) ==
    /\ failures' = [failures EXCEPT ![v] = @ + 1]
    /\ IF failures[v] + 1 < FAILURES_BEFORE_UNKNOWN /\ v \in DOMAIN cache
       THEN UNCHANGED cache
       ELSE Answered(v, UNKNOWN)

(* Fault: a success that does not restart the count. *)
RecordAnswerOnly(v, state) ==
    /\ Answered(v, state)
    /\ UNCHANGED failures

RecordAnswer(v, state) ==
    /\ Answered(v, state)
    /\ failures' = [failures EXCEPT ![v] = 0]

(* _check_one for the next vendor of the round.  A payload that parses to  *)
(* UNKNOWN is a failure like a request that raises.                        *)
CheckOne(answer) ==
    LET v == Head(round.todo)
    IN  /\ round.todo # <<>>
        /\ IF answer = UNKNOWN THEN RecordFailure(v) ELSE RecordAnswer(v, answer)
        /\ round' = IF Len(round.todo) = 1 THEN Idle ELSE [round EXCEPT !.todo = Tail(@)]
        /\ answers' = [answers EXCEPT ![v] = Append(@, answer)]
        /\ UNCHANGED <<clock, enabled, vendors, last_check>>

(* The settings panel adopts its two keys; the cache keeps what it has. *)
Configure(on, keys) ==
    /\ enabled' = on
    /\ vendors' = SelectedVendors(keys)
    /\ <<enabled', vendors'>> # <<enabled, vendors>>
    /\ UNCHANGED <<clock, cache, failures, last_check, round, answers>>

(* The watcher ticks far more often than a check is due. *)
Tick ==
    /\ clock < MaxClock
    /\ clock' = clock + 1
    /\ UNCHANGED <<enabled, vendors, cache, failures, last_check, round, answers>>

Next ==
    \/ StartRound
    \/ CheckAll
    \/ \E answer \in States \cup {UNKNOWN} : CheckOne(answer)
    \/ \E on \in BOOLEAN, keys \in SUBSET Vendors : Configure(on, keys)
    \/ Tick

Spec == Init /\ [][Next]_vars

-----------------------------------------------------------------------------
(* Every variable keeps its type, and the round asks watched feeds only. *)
TypeOK ==
    /\ clock \in 0..MaxClock
    /\ enabled \in BOOLEAN
    /\ vendors \in {SelectedVendors(keys) : keys \in SUBSET Vendors}
    /\ DOMAIN cache \subseteq Vendors
    /\ \A v \in DOMAIN cache : cache[v] \in [state : States \cup {UNKNOWN}, at : 0..MaxClock]
    /\ failures \in [Vendors -> Nat]
    /\ last_check \in {NotYet} \cup 0..MaxClock
    /\ round.at \in {NotYet} \cup 0..MaxClock
    /\ ToSet(round.todo) \subseteq Vendors

(* The last answer of v that was understood, while fewer requests have      *)
(* failed since than make a vendor unknown.                                *)
Recent(v) ==
    {i \in DOMAIN answers[v] :
        /\ answers[v][i] # UNKNOWN
        /\ \A j \in i + 1 .. Len(answers[v]) : answers[v][j] = UNKNOWN
        /\ Len(answers[v]) - i < FAILURES_BEFORE_UNKNOWN}

(* StatusWatcher's row for a vendor is its last understood answer as long   *)
(* as at most one request has failed since, and "unreachable" from the      *)
(* second failure in a row on (from the first when it never answered): one  *)
(* dropped packet is not an outage, and an outage is not shown as healthy,  *)
(* through rounds cut short, vendors switched off and back on in between.   *)
RowTellsLastAnswers ==
    \A v \in Vendors :
        /\ v \in DOMAIN cache <=> answers[v] # <<>>
        /\ v \in DOMAIN cache =>
              cache[v].state \in IF Recent(v) = {} THEN {UNKNOWN}
                                 ELSE {answers[v][i] : i \in Recent(v)}

=============================================================================
