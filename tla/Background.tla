----------------------------- MODULE Background -----------------------------
(***************************************************************************)
(* What runs beside the poll or behind it: the settings, the vendor        *)
(* status, the update check, the migrations of a start, the readers of the *)
(* event log, the windows that stop arriving, the credit grants and the     *)
(* credits spent.  Their models share no state, so that one `task` moves   *)
(* in each behaviour while the others are asleep: each reaches the states  *)
(* it reaches alone.                                                       *)
(***************************************************************************)
EXTENDS Integers, Sequences

CONSTANTS
    \* Settings
    PANEL_KEYS, FlagKeys, Values, Bad, Default, Periods, DEFAULT_RETENTION,
    Absent, Null, NoneText, Envs, Ages, LastDay,
    \* VendorStatus
    AVAILABLE, States, UNKNOWN, CHECK_EVERY_S, FAILURES_BEFORE_UNKNOWN, MaxClock,
    \* Updates
    Threads, Daily, CHECK_INTERVAL_S, MANUAL_MIN_INTERVAL_S, FIRST_CHECK_DELAY_S,
    Releases, LastCheckTime,
    \* Migrations
    Openers, SCHEMA_VERSION, Old, Events,
    \* EventLog
    Kinds, WEEK_RESET_KIND, BOOST_KIND, PRUNE_KIND, Shapes, ReadLimits, OVERREAD, PAGE,
    SAMPLE_KEEP, AGED, FLOOR, MaxNow, MaxEvents, MaxSamples,
    \* Presence
    RATE_WINDOW, WeeklyLimits, Grant, GONE_AFTER_POLLS, GONE_AFTER_S, Retention, LastPollTime,
    \* Grants, with the same Retention
    GRANT_HEARTBEAT_S, EXPIRED_VISIBLE_S, EXPIRY_LEVELS, Amounts, Expiries, LastGrantTime,
    \* Credits
    Interval, QuietPolls, EventsRecalled, OverageAge, LastCreditTime

VARIABLES
    task, now,
    day, env, file, running, form, saving, command, rows, asked, saved,
    clock, enabled, vendors, cache, failures, last_check, round, answers,
    time, started, current, pypi, row, events, threads, told, overlapped,
    disk, opener, crowded, found,
    log, sequence, written, samples, stored, prune, cursor, follows, seen, export, out,
    steady, renumbered,
    quota, marks, stage, granted, settled,
    sampled, grantRows, poll, unstored, warnings,
    pc, overage, series, starts, banners, cuts, checked

settingsVars == <<day, env, file, running, form, saving, command, rows, asked, saved>>
statusVars == <<clock, enabled, vendors, cache, failures, last_check, round, answers>>
updateVars == <<time, started, current, pypi, row, events, threads, told, overlapped>>
migrationVars == <<disk, opener, crowded, found>>
logVars == <<log, sequence, written, samples, stored, prune, cursor, follows, seen,
             export, out, steady, renumbered>>
presenceVars == <<quota, marks, stage, granted, settled>>
grantVars == <<sampled, grantRows, poll, unstored, warnings>>
creditVars == <<pc, overage, series, starts, banners, cuts, checked>>
allVars == <<task, now, settingsVars, statusVars, updateVars, migrationVars, logVars,
             presenceVars, grantVars, creditVars>>

S == INSTANCE Settings WITH MaxTime <- LastDay
V == INSTANCE VendorStatus
U == INSTANCE Updates WITH MaxTime <- LastCheckTime
M == INSTANCE Migrations
L == INSTANCE EventLog WITH Limits <- ReadLimits, MaxSamples <- 0   \* no more than events
X == INSTANCE EventLog WITH Limits <- ReadLimits, MaxEvents <- 0    \* no more than samples
P == INSTANCE Presence WITH Limits <- WeeklyLimits, MaxTime <- LastPollTime
G == INSTANCE Grants WITH MaxTime <- LastGrantTime
C == INSTANCE Credits WITH Recent <- EventsRecalled, Retention <- OverageAge,
                           MaxTime <- LastCreditTime, events <- starts

ASSUME BackgroundAssumption ==
    /\ S!SettingsAssumption /\ V!VendorAssumption /\ U!UpdatesAssumption
    /\ M!MigrationsAssumption /\ L!LogAssumption /\ X!LogAssumption
    /\ P!PresenceAssumption /\ G!GrantsAssumption /\ C!CreditsAssumption

Asleep == "asleep"
SettingsAsleep ==
    /\ day = Asleep /\ env = Asleep /\ file = Asleep /\ running = Asleep /\ form = Asleep
    /\ saving = Asleep /\ command = Asleep /\ rows = Asleep /\ asked = Asleep /\ saved = Asleep
StatusAsleep ==
    /\ clock = Asleep /\ enabled = Asleep /\ vendors = Asleep /\ cache = Asleep
    /\ failures = Asleep /\ last_check = Asleep /\ round = Asleep /\ answers = Asleep
UpdatesAsleep ==
    /\ time = Asleep /\ started = Asleep /\ current = Asleep /\ pypi = Asleep /\ row = Asleep
    /\ events = Asleep /\ threads = Asleep /\ told = Asleep /\ overlapped = Asleep
MigrationsAsleep ==
    disk = Asleep /\ opener = Asleep /\ crowded = Asleep /\ found = Asleep
LogAsleep ==
    /\ log = Asleep /\ sequence = Asleep /\ written = Asleep
    /\ samples = Asleep /\ stored = Asleep /\ prune = Asleep /\ cursor = Asleep
    /\ follows = Asleep /\ seen = Asleep /\ export = Asleep /\ out = Asleep /\ steady = Asleep
    /\ renumbered = Asleep
PresenceAsleep ==
    /\ quota = Asleep /\ marks = Asleep /\ stage = Asleep
    /\ granted = Asleep /\ settled = Asleep
GrantsAsleep ==
    /\ sampled = Asleep /\ grantRows = Asleep /\ poll = Asleep
    /\ unstored = Asleep /\ warnings = Asleep
CreditsAsleep ==
    /\ pc = Asleep /\ overage = Asleep /\ series = Asleep /\ starts = Asleep
    /\ banners = Asleep /\ cuts = Asleep /\ checked = Asleep

Init ==
    \/ /\ task = "settings" /\ S!Init /\ now = Asleep
       /\ StatusAsleep /\ UpdatesAsleep /\ MigrationsAsleep /\ LogAsleep
       /\ PresenceAsleep /\ GrantsAsleep /\ CreditsAsleep
    \/ /\ task = "status" /\ V!Init /\ now = Asleep
       /\ SettingsAsleep /\ UpdatesAsleep /\ MigrationsAsleep /\ LogAsleep
       /\ PresenceAsleep /\ GrantsAsleep /\ CreditsAsleep
    \/ /\ task = "updates" /\ U!Init /\ now = Asleep
       /\ SettingsAsleep /\ StatusAsleep /\ MigrationsAsleep /\ LogAsleep
       /\ PresenceAsleep /\ GrantsAsleep /\ CreditsAsleep
    \/ /\ task = "migrations" /\ M!Init /\ now = Asleep
       /\ SettingsAsleep /\ StatusAsleep /\ UpdatesAsleep /\ LogAsleep
       /\ PresenceAsleep /\ GrantsAsleep /\ CreditsAsleep
    \/ /\ \/ task = "events" /\ L!Init
          \/ task = "samples" /\ X!Init
       /\ SettingsAsleep /\ StatusAsleep /\ UpdatesAsleep /\ MigrationsAsleep
       /\ PresenceAsleep /\ GrantsAsleep /\ CreditsAsleep
    \/ /\ task = "windows" /\ P!Init
       /\ SettingsAsleep /\ StatusAsleep /\ UpdatesAsleep /\ MigrationsAsleep
       /\ LogAsleep /\ GrantsAsleep /\ CreditsAsleep
    \/ /\ task = "grants" /\ G!Init
       /\ SettingsAsleep /\ StatusAsleep /\ UpdatesAsleep /\ MigrationsAsleep
       /\ LogAsleep /\ PresenceAsleep /\ CreditsAsleep
    \/ /\ task = "credits" /\ C!Init
       /\ SettingsAsleep /\ StatusAsleep /\ UpdatesAsleep /\ MigrationsAsleep
       /\ LogAsleep /\ PresenceAsleep /\ GrantsAsleep

Next ==
    \/ /\ task = "settings" /\ S!Next
       /\ UNCHANGED <<task, now, statusVars, updateVars, migrationVars,
                      logVars, presenceVars, grantVars, creditVars>>
    \/ /\ task = "status" /\ V!Next
       /\ UNCHANGED <<task, now, settingsVars, updateVars, migrationVars,
                      logVars, presenceVars, grantVars, creditVars>>
    \/ /\ task = "updates" /\ U!Next
       /\ UNCHANGED <<task, now, settingsVars, statusVars, migrationVars,
                      logVars, presenceVars, grantVars, creditVars>>
    \/ /\ task = "migrations" /\ M!Next
       /\ UNCHANGED <<task, now, settingsVars, statusVars, updateVars,
                      logVars, presenceVars, grantVars, creditVars>>
    \/ /\ task = "events" /\ L!Next
       /\ UNCHANGED <<task, settingsVars, statusVars, updateVars, migrationVars,
                      presenceVars, grantVars, creditVars>>
    \/ /\ task = "samples" /\ X!Next
       /\ UNCHANGED <<task, settingsVars, statusVars, updateVars, migrationVars,
                      presenceVars, grantVars, creditVars>>
    \/ /\ task = "windows" /\ P!Next
       /\ UNCHANGED <<task, settingsVars, statusVars, updateVars, migrationVars,
                      logVars, grantVars, creditVars>>
    \/ /\ task = "grants" /\ G!Next
       /\ UNCHANGED <<task, settingsVars, statusVars, updateVars, migrationVars,
                      logVars, presenceVars, creditVars>>
    \/ /\ task = "credits" /\ C!Next
       /\ UNCHANGED <<task, settingsVars, statusVars, updateVars, migrationVars,
                      logVars, presenceVars, grantVars>>

Spec == Init /\ [][Next]_allVars

-----------------------------------------------------------------------------
(* Settings: what the panel saved is what runs, and what a start reads. *)
SavedIsRunning == task = "settings" => S!SavedIsRunning

(* Settings: no row goes before a period somebody asked for. *)
NothingGoesUnasked == [][task = "settings" => S!GoesAsAsked]_allVars

(* VendorStatus: a row shows the last understood answer, until two fail. *)
RowTellsLastAnswers == task = "status" => V!RowTellsLastAnswers

(* Updates: a stored newer release has its event once no check runs, and   *)
(* one only for a running version.                                         *)
AvailableIsAnnounced ==
    task = "updates" => U!AvailableIsAnnounced /\ U!OneEventPerRelease

(* Migrations: no event is lost at any moment of one; one that died neither *)
(* leaves a gap nor stops the next.                                        *)
MigrationsRecover ==
    task = "migrations" => M!EventsAreKept /\ M!OpenIsCurrent /\ M!AloneNeverFails

(* EventLog: a follower misses no event and is given none twice; an export *)
(* holds every row that stayed, once, unless a VACUUM renumbered them; the *)
(* page's list tells every event it read, in its place.                    *)
ReadersMissNothing ==
    /\ task = "events" => L!FollowerMissesNothing /\ L!PageListsEvents
    /\ task = "samples" => X!ExportIsWhole

(* Presence: a window's last event and its meter agree, events take turns, *)
(* and no grant stays a window.                                            *)
AbsenceIsToldOnce == task = "windows" => P!PresenceIsTold /\ P!GrantIsNoWindow

(* Grants: grant rows and the page agree with the samples, and an expiry is *)
(* counted down once.                                                      *)
GrantsAreFollowed == task = "grants" => G!GrantsAreFollowed

(* Credits: every run of spending has its event, once, and the page's       *)
(* figures of a range agree with the rows.                                 *)
EventsAreRuns == task = "credits" => C!EventsAreRuns

=============================================================================
