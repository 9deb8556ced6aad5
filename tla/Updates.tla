------------------------------ MODULE Updates -------------------------------
(***************************************************************************)
(* updates.check: the release stored in one row, and one event per release *)
(* that is newer than the running version.  A check runs in a worker       *)
(* thread: the poller starts the daily one (one at a time), the About page *)
(* a manual one for each request, so that checks overlap; the process may  *)
(* die in any of them and start again, possibly upgraded.                  *)
(***************************************************************************)
EXTENDS Integers, Sequences, FiniteSets, SequencesExt

CONSTANTS
    Threads,               \* the daily check and the manual ones
    Daily,                 \* the thread the poller starts
    CHECK_INTERVAL_S,
    MANUAL_MIN_INTERVAL_S,
    FIRST_CHECK_DELAY_S,
    Releases,              \* the versions PyPI may hold, as numbers
    MaxTime                \* bound on the clock

UpdatesAssumption ==
    /\ Daily \in Threads
    /\ {CHECK_INTERVAL_S, MANUAL_MIN_INTERVAL_S, MaxTime} \subseteq Nat \ {0}
    /\ FIRST_CHECK_DELAY_S \in Nat
    /\ Releases \subseteq Nat \ {0}

VARIABLES
    time,
    started,   \* _started_ts of the running process
    current,   \* the running version
    pypi,      \* the newest stable release
    row,       \* the stored answer: [checked_ts, latest, error]
    events,    \* recorded update_available events <<[from, to]>>
    threads,   \* thread -> [at: idle|asked|fetch|write|note|record, now, latest, error]
    told,      \* history: a check has ended since the last start
    overlapped \* history: two checks were running at once

vars == <<time, started, current, pypi, row, events, threads, told, overlapped>>

None == 0   \* no release known; no check made yet
Idle == [at |-> "idle", now |-> 0, latest |-> None, error |-> FALSE]
Busy == {t \in Threads : threads[t].at # "idle"}

IsNewer(latest, running) == latest # None /\ latest > running

Due(now) == row.checked_ts = None \/ now - row.checked_ts >= CHECK_INTERVAL_S

ManualWait(now) ==
    row.checked_ts # None /\ now - row.checked_ts < MANUAL_MIN_INTERVAL_S

(* stored_state: `latest` is kept by a check that fails. *)
StoredLatest == row.latest

Init ==
    /\ time = 1 /\ started = 1
    /\ current \in Releases /\ pypi \in Releases
    /\ row = [checked_ts |-> None, latest |-> None, error |-> FALSE]
    /\ events = <<>>
    /\ threads = [t \in Threads |-> Idle]
    /\ told = FALSE /\ overlapped = FALSE

Begin(t) ==
    /\ threads' = [threads EXCEPT ![t] = [Idle EXCEPT !.at = "asked", !.now = time]]
    /\ overlapped' = (overlapped \/ Busy # {})
    /\ UNCHANGED <<time, started, current, pypi, row, events, told>>

(* Poller._maybe_check_updates, after a poll. *)
MaybeCheckUpdates ==
    /\ time - started >= FIRST_CHECK_DELAY_S
    /\ threads[Daily].at = "idle"
    /\ Due(time)
    /\ Begin(Daily)

(* POST /about/check: refused within the minute, before the thread starts. *)
AboutCheck(t) ==
    /\ t # Daily
    /\ threads[t].at = "idle"
    /\ ~ManualWait(time)
    /\ Begin(t)

(* check() decides once more in its thread, and reads what is stored. *)
Decide(t) ==
    LET now  == threads[t].now
        wait == IF t = Daily THEN ~Due(now) ELSE ManualWait(now)
    IN  /\ threads[t].at = "asked"
        /\ threads' = [threads EXCEPT ![t] =
                         IF wait THEN Idle
                         ELSE [@ EXCEPT !.at = "fetch", !.latest = StoredLatest]]
        /\ UNCHANGED <<time, started, current, pypi, row, events, told, overlapped>>

(* The request: PyPI's answer, or any failure of it. *)
Fetch(t, fails) ==
    /\ threads[t].at = "fetch"
    /\ threads' = [threads EXCEPT ![t] = [@ EXCEPT !.at = "write", !.error = fails,
                                    !.latest = IF fails THEN threads[t].latest ELSE pypi]]
    /\ UNCHANGED <<time, started, current, pypi, row, events, told, overlapped>>

WriteUpdateCheck(t) ==
    /\ threads[t].at = "write"
    /\ row' = [checked_ts |-> threads[t].now, error |-> threads[t].error,
               latest |-> threads[t].latest]
    /\ threads' = [threads EXCEPT ![t].at = "note"]
    /\ UNCHANGED <<time, started, current, pypi, events, told, overlapped>>

(* Fault: silence when the row already held the release. *)
NoteChangesOnly(t) ==
    /\ threads[t].at = "note"
    /\ threads' = [threads EXCEPT ![t].at =
                     IF IsNewer(threads[t].latest, current) /\ ~threads[t].error
                        /\ \A i \in DOMAIN events : events[i].to # threads[t].latest
                     THEN "record" ELSE "done"]
    /\ UNCHANGED <<time, started, current, pypi, row, events, told, overlapped>>

(* _note_available asks for the event, and records it in a second call. *)
NoteAvailable(t) ==
    /\ threads[t].at = "note"
    /\ threads' = [threads EXCEPT ![t].at =
                     IF /\ IsNewer(threads[t].latest, current)
                        /\ [from |-> current, to |-> threads[t].latest] \notin ToSet(events)
                     THEN "record" ELSE "done"]
    /\ UNCHANGED <<time, started, current, pypi, row, events, told, overlapped>>

RecordEvent(t) ==
    /\ threads[t].at = "record"
    /\ events' = Append(events, [from |-> current, to |-> threads[t].latest])
    /\ threads' = [threads EXCEPT ![t].at = "done"]
    /\ UNCHANGED <<time, started, current, pypi, row, told, overlapped>>

Finish(t) ==
    /\ threads[t].at = "done"
    /\ threads' = [threads EXCEPT ![t] = Idle]
    /\ told' = TRUE
    /\ UNCHANGED <<time, started, current, pypi, row, events, overlapped>>

(* The process ends with its threads, and starts as it was or upgraded. *)
Restart(version) ==
    /\ version \in {current, StoredLatest} \ {None}
    /\ version >= current
    /\ current' = version
    /\ started' = time
    /\ threads' = [t \in Threads |-> Idle]
    /\ told' = FALSE
    /\ UNCHANGED <<time, pypi, row, events, overlapped>>

Release ==
    /\ pypi' \in {v \in Releases : v > pypi}
    /\ UNCHANGED <<time, started, current, row, events, threads, told, overlapped>>

Tick ==
    /\ time < MaxTime
    /\ time' = time + 1
    /\ UNCHANGED <<started, current, pypi, row, events, threads, told, overlapped>>

Check(t) ==
    \/ Decide(t)
    \/ \E fails \in BOOLEAN : Fetch(t, fails)
    \/ WriteUpdateCheck(t)
    \/ NoteAvailable(t)
    \/ RecordEvent(t)
    \/ Finish(t)

Next ==
    \/ MaybeCheckUpdates
    \/ \E t \in Threads : AboutCheck(t) \/ Check(t)
    \/ \E version \in Releases : Restart(version)
    \/ Release
    \/ Tick

Spec == Init /\ [][Next]_vars

-----------------------------------------------------------------------------
(* Every variable keeps its type, and no row is from the future. *)
TypeOK ==
    /\ time \in 1..MaxTime
    /\ started \in 1..time
    /\ {current, pypi} \subseteq Releases
    /\ row \in [checked_ts : 0..time, latest : Releases \cup {None}, error : BOOLEAN]
    /\ \A t \in Threads :
          /\ threads[t].at \in {"idle", "asked", "fetch", "write", "note", "record", "done"}
          /\ threads[t].now \in 0..time
    /\ told \in BOOLEAN
    /\ overlapped \in BOOLEAN

(* updates._note_available: once a check has ended and none is running, a   *)
(* stored release that is newer than the running version has its event,     *)
(* whatever died between the row and the event before, failed checks that   *)
(* keep the release, overlapping checks and upgrades included.              *)
AvailableIsAnnounced ==
    told /\ Busy = {} /\ IsNewer(row.latest, current) =>
        [from |-> current, to |-> row.latest] \in ToSet(events)

(* "One event per new latest, not one per daily check that still sees it":  *)
(* unless two checks overlap, which has_event and record_event, two calls,  *)
(* do not exclude.                                                          *)
OneEventPerRelease == ~overlapped => IsInjective(events)

=============================================================================
