# QuotaLens in TLA+

QuotaLens polls claude.ai's quota endpoints from one asyncio process, keeps the
readings in one SQLite file, derives sessions, boosts, week resets, credits and
alerts from them, and serves a dashboard. This directory holds TLA+ modules
that model it, TLC configurations that check them on small instances, and TLAPS
proofs of what holds for every instance. All definitions are translated from
the source under `src/quotalens/` (paths below are relative to it);
`PROJECT.json` maps each definition to its lines.

    tlc -config Readings.cfg MCReadings      # one run
    tlapm ReadingsProofs.tla                 # one module's proofs

1. [Inventory](#1-inventory) 2. [Modules](#2-the-modules)
3. [Runs](#3-the-runs) 4. [Proofs](#4-what-is-proved)
5. [Where the code and its words differ](#5-where-the-code-and-its-words-differ)
6. [What is left out](#6-not-modelled-and-why)

## 1. Inventory

| component | state it keeps | operations | talks to | what is hard |
|---|---|---|---|---|
| **Poller** `poller.py`, `client.py` | schedule, status, lock, cooldown, client and its cookie, fetch marks | `run`, `force_poll`, `poll_once`, `stop`, `adopt` | store, client, detectors; called by the lifespan and `POST /api/poll` | loop and forced polls interleave at each await; every step of a poll may fail; shutdown cancels in the middle |
| **Identity** `client.py`, `plan.py` | the client's organisation, the plan's row | `resolve_org`, `refresh_plan` | the vendor | usage, overage and plan are three requests, and the owner may switch between them |
| **Post-poll checks**: weeks `weeks.py`, boosts `boost.py`, levels `notify.py` | events in the store; the poll's two readings | live detection, backfill at start, `rescan`, duplicate keys | poller, store, CLI | several writers of one ledger; a death between a row and what is derived from it; `resets_at` differs on every call |
| **Gone windows** `poller._check_gone_windows` | events | mark gone, mark back | poller, store | told from events, known from rows |
| **Burn alert** `alerts.py`, `burn.py` | `firing` in memory, the newest events | `update`, `standing`, hysteresis | poller, events | memory and events must agree across a restart |
| **Usage credits** `credits.py`, `grants.py` | spending events, grant rows, expiry warnings | detection over the stored series, replay at start | poller, events, retention | a start is a key that pruning can move and a bounded look back forgets; two writers of grant rows |
| **Session history** `sessions.py` | `session_window` | full rebuild, incremental rebuild, forget | store, poller, lifespan, CLI | the table outlives what it is derived from |
| **Retention** `retention.py`, `store.prune_*` | the deleted rows, the period | periodic prune, prune after a settings change, CLI | poller thread, request thread, other process | deletes under a poll in progress |
| **Settings** `config.py`, `settings_view.py` | `config.json`, the running instance's copies | panel, CLI, `adopt`, start | poller, watcher, page | read-change-write in two processes; copies that stay behind |
| **Update check** `updates.py` | one row, one event per release | daily slot, manual check | thread pool | two checks in flight |
| **Vendor status** `status.py` | cache and failure counts | rounds of requests | its own timer, the panel | one failure is not an outage, two are |
| **Store** `store.py` | the database | writes under one lock, migrations, paged reads | everybody | a migration that dies half way; readers that come back for more |
| **Background service** `service.py`, `cli.cmd_serve` | pid file, runtime file, log, port | `start`, `stop`, `serve` | operating system | two writers of one file, stale files, readiness by log size |
| **Page models** `dashboard.py`, `state.py`, `views.py`, `surfaces.py` | the captured settings | build the page | store, poller, API | readings that outlive their window; readers that decide separately |
| **Estimates** `budget.py`, `pace.py`, `runway.py`, `heatmap.py`, `burn.py` | none | functions of the stored rows | page | edges: of an hour, a window, a week, a boost, a gap |
| **Parser** `parse.py` | none | functions of one payload | poller | blocks that come and go, two that disagree |
| **Browser scripts** `web/app.js`, `web/chart.js` | the page, the button, the link's mark | refresh, navigate, poll now | API | answers out of order, or never |
| **API and lifespan** `api.py` | references to the above | start order, shutdown order, routes | everybody | what a start repairs and in which order |
| **Secrets**, **export**, **metrics**, **gate**, **profiles** | the keyring's cookie | read, write, stream | poller, CLI | a cookie that changes under a running poll |

What makes each correct, in a sentence:

- *Poller*: one poll at a time; a client in use is open; only the loop moves its
  own timer; forced polls are spaced; status and schedule agree; the loop goes
  on, and where it does not, the reason is known.
- *Identity*: a poll's numbers are of one organisation.
- *Checks*: one event per fact, each fact's event there unless its check never
  ran, and a start heals what it can.
- *Gone windows*: the last thing told of a window is what its rows say.
- *Burn alert*: an edge detector, restarts unseen.
- *Credits*: one event per run of spending; a grant's rows are what was received.
- *Sessions*: the incremental pass writes what the full pass would; nothing a
  user did not forget disappears before its time.
- *Settings, retention*: what the panel saved is what runs; no row goes before
  somebody asked for it.
- *Updates, status*: one event per release; one dropped request changes nothing.
- *Store*: a migration that dies is finished by the next; a reader misses
  nothing and gets nothing twice.
- *Service*: one server at a time, the one on file is the one that serves,
  commands come back.
- *Page, estimates, parser*: no figure of a closed window; readers agree; a rate,
  a cost or an hour never counts what was not used, nor one thing twice.
- *Browser*: the page ends up with its own view and the newest reading.

## 2. The modules

| module | of | checked by | proved in |
|---|---|---|---|
| `Poller` | loop, forced polls, client, schedule, shutdown | Poller | `PollerProofs` |
| `Identity` | organisation, overage, plan | Screen | `ScreenProofs` |
| `Readings` | rows to boosts, ledger, levels | Readings | `ReadingsProofs` |
| `BurnAlert`, implementing `EdgeDetector` | the detector with its events | BurnAlert | `BurnAlertProofs` |
| `Credits` | runs of spending and their events | Background, CreditRuns | |
| `Grants` | grant rows, their replay, expiry warnings | Background | `BackgroundProofs` |
| `Presence` | windows that stop arriving | Background | `BackgroundProofs` |
| `Sessions` | history under retention and forget | Sessions | `SessionsProofs` |
| `Settings` | layers, panel, CLI, period, prunes | Background | `BackgroundProofs` |
| `Updates` | overlapping checks | Background | `BackgroundProofs` |
| `VendorStatus` | rounds, failures, cache | Background | `BackgroundProofs` |
| `EventLog` | events and samples under two readers | Background | `BackgroundProofs` |
| `Migrations` | statements with deaths between them | Background | `BackgroundProofs` |
| `Service` | processes and files | Service | `ServiceProofs` |
| `Dashboard` | figures of session and week, withheld or not | Screen, PageInterval | `ScreenProofs` |
| `Chart` (on `Segments`) | lines, gaps, steps, change of a meter | Screen, ChartDrops | `ScreenProofs` |
| `Weeks` | the table put together from the ledger | Screen | `ScreenProofs` |
| `Surfaces` | the split of the week | Screen | `ScreenProofs` |
| `Views` | the address of a view and its links | Screen | `ScreenProofs` |
| `Page` | the browser and the server behind it | Page | |
| `Segments`, `Measures`, `Account` | estimates, and an account in use to compare with | Estimates | `EstimatesProofs` |
| `Pace` | where the week lands | Estimates | `EstimatesProofs` |
| `Parse` | blocks and limits of a payload | Estimates | `EstimatesProofs` |
| `Spend` | two blocks that state one amount | Estimates | `EstimatesProofs` |

The `MC` modules give the constants that a cfg cannot. `Background`, `Screen` and
`Estimates` each put several modules together, with all their constants as
parameters, and it is about them that the theorems are: their models share no
state, so a variable `task`, chosen at the start, says which one moves in a
behaviour, and the variables of the others have the value `Asleep` throughout.
The reachable states are the disjoint union of what each module reaches alone;
the properties are stated per task. Composition in earnest is inside the modules: the
poller with its requests and its client, the readings with their checks, a start
and a rescan in another process; the panel, the CLI and the prune; the poll, the
session table and the page; the browser and the server.

### Poller and Identity

One action runs from one `await` of the source to the next, so tasks interleave
exactly where the event loop may switch. `pc[t]` says where a task (the loop or
the handler of one `POST /api/poll`) stands in `poll_once`.

| code | model |
|---|---|
| `asyncio.Lock` of `_poll_lock` | `queue`; its head holds the lock |
| `run`: sleep, then poll, then look for updates | `Wake`, `Return`, `MaybeCheckUpdates`, `sleep`, `Tick` |
| the loop's task, which an uncaught error ends | `alive`; `stop` then raises it (`phase = "aborted"`) |
| `force_poll` with its cooldown | `ForcePoll`, `cooldown`, `forceNote` |
| `_client_for_current_cookie` (awaits the close of the old client) | `Begin`, `Closed`; `client`, `open`, `using` |
| `fetch_usage`, `_poll_overage`, `refresh_plan` | `UsageAnswer`, `OverageAnswer`, `PlanAnswer` |
| everything between the overage answer and the next await | `Derive` |
| `_fail` and the handlers, `Schedule` | `Fail`, `Reschedule`, `OnFailure`, `OnRateLimited` |
| `record_event` raising inside a handler | `Raise` |
| `stop`: cancel, then close | `Stop`, `CloseOnStop` |
| `adopt`, `quotalens auth` | `Adopt`, `SetCookie` |

`StoreMayFail` is whether SQLite may raise, `UpdateChecks` whether the loop looks
for updates after each poll. `sinceForced` and `returned` are
history variables. `Identity` looks at the same poll from the account's side:
whose answer each request brings, while the owner switches, leaves an
organisation or stores another cookie; `mixed` remembers that a poller has held
two cookies.

### Readings, Presence, BurnAlert, Credits, Grants

`Readings` is one weekly window, poll by poll. `Collect` stores the reading,
`CheckBoost` compares it, the overage request follows, then the ledger and the
level checks. `Die` may come at each of these points, `Start` runs
`weeks.backfill`, and `Rescan` (another process) may run beside a poll. A
`resets_at` is a week and a sub-second jitter: some code compares the strings
(`ResetsAt`), some only the time (`ResetsAtChanged`). `unboosted`, `unledgered`
and `unnotified` remember which rows lost their check, `raced` which a rescan
overtook.

`EdgeDetector` is the promise of an alert: one announcement when the rate
reaches the threshold, one when it falls under the band. `BurnAlert` is the
code: `firing` is lost at each death and restored by `standing()` from the two
newest event times. The detector moves before its event is written, so a store
that raises loses the announcement for good; and a start that cannot read the
events takes the detector for one that does not fire. `OneEventPerCrossing ==
Edges!Spec`, with `Edges == INSTANCE EdgeDetector WITH ...`, says that the
second implements the first; `armed` and `log` are the history variables that
map onto it. What the log marks as not told (a store error, a fall hidden by a
boost) unsettles the promise (`~Sure`), and the next announcement that gets
through restores it: the abstract detector says how long an edge may go unheard
or a standing alert be repeated, and no longer.

`Credits` has the overage rows and the runs found in them (one pass over the rows,
as in `stretches`: a recursive function of how many were seen), the events and how many of them a check looks back on
(`Recent`). `series` and `cuts` are histories: every row there was, and the
cutoff of every prune; an event is of a run as the polls saw it or as it looks
behind one of the cutoffs. `Grants` has the grant rows with their two writers,
the live poll (`RowDue` of the newest row) and the replay at start (`Replayed`, a
recursive function of the time, as the code's timeline), the samples under them
and the count of each warning. `Presence` has the rows of several windows and,
per window, the marks that say gone and back, with failed polls, prunes and a
second, older process that still stores a grant as a window.

### Sessions, Settings, EventLog, Migrations

`Sessions`: rows of `quota` and the table `session_window`. `Derive` is the
grouping of `_group_rate_rows`, its loop a recursive function of the time; `DeriveRecent`/`WriteRecent` are
`rebuild_recent`, `Start` the rebuild with `keep_underivable=True`, `Forget*` the
three steps of `quotalens forget` in another process, `Prune` the age cutoffs.
The vendor (`Message`, `Reported`) gives an expiry that is recomputed with
jitter. Where rows are deleted, it comes exact (`exact`, chosen at the start):
section 5 says what the two together do. `of`, the expiry a row was computed
from, and `forgotten` are histories.

`Settings`: the four layers of a setting, the panel's form that may be stale
when it is sent, the read and the write of `config.json` as two steps in two
processes, and the retention period with the upgrade value a start writes. What
a prune deletes is compared with `asked`, the shortest period anybody asked for.

`EventLog`: the table of events with ids that are never reused, a follower with
`next_after_id`, an export that reads page by page, and the prune of samples
that spares the first of each shape. A prune ends in a `VACUUM`, a step of its
own: events have a key and keep it, samples have a bare rowid and may be given
another (`Vacuum`, `renumbered`). `Migrations` keeps what each statement
commits: Python's sqlite3 commits DDL on its own until the first write opens a
transaction.

### Updates, VendorStatus, Service

`Updates`: five steps of `check` in each thread (decide, ask, write the row, look
for the event, record it), which overlap. `VendorStatus`: rounds of requests, the
panel changing the vendors between two of them. `Service`: a process per pid with
`Acquire` (look), `WritePid` (write), `ProbePort`, `WriteRuntime`, `WarnOfCookie`,
`Announce`, `Bind`, `ShutDown`, `CleanUp`; a command is `BeginStart` ..
`RecordChild` .. `ChildDied`/`ChildSpoke`/`StartTimesOut`, or `BeginStop` ..
`Stopped`/`Kill`. `Crash` may come at any step and leaves the files.

### What a person sees

`Dashboard`: the vendor's two windows open, fill and close, polls succeed, miss a
block, fail or stop in the middle, and a page, a scrape or an API request may be
answered at any moment, so every figure is a function of the state. `Chart`,
`Weeks` and `Surfaces` build up a history and state their properties of every
range of it. In `Weeks` the ledger is written from `windows`, the session table
as the last rebuild that succeeded left it; `misled` remembers the closes that
were recorded while it was behind `sessions`. `Views` has the address as its state and beside it what the person
has chosen. `Page` has requests in flight that are answered in any order.

### Estimates

`Account` is an account in use (messages, sessions that open with one, a week, at
most one raise of the limit) together with a collector that polls when it likes;
`Measures` computes from the stored rows what the page shows, and the properties
compare the two: `used`, `openings` and `hidden` are the truth no row tells.
Ratios are multiples of 1/`Scale`, a number that every gap a heatmap spreads over
divides (60 in the run), so that its shares are exact. `Pace` is compared with itself: the figure, its
spread and the moment it names, beside prior weeks of any course, corrected
downwards as often as the vendor likes. `Parse` changes a payload one block at a time and
asks where each percentage went, with two entries that have no name and are
called by their place; `Spend` enumerates all pairs of blocks.

## 3. The runs

| run | shows | bounds |
|---|---|---|
| `Poller` | lock, client, counters, spacing, timer; the loop polls for ever, or a store error outside its `try` has ended it, and forced polls return | loop and 2 requests, 2 cookies, store errors, update checks; ceilings of 2 and 3 reach every branch of the schedule; failure counts saturate at 1 |
| `Readings` | ledger and boosts are what the rows say; levels announced once | 4 polls, 3 weeks, 2 jitters, levels 0 and 2 (both thresholds crossed in one poll), deaths, failing checks, rescans |
| `BurnAlert` | implements the edge detector; falls answer alerts | 7 seconds, 2 store errors, 2 thresholds, rates on both sides of each and in both bands |
| `Sessions` | incremental equals full; one row per session, one current; no window within the floor disappears unasked | 7 seconds: three sessions of 3; with jitter and nothing deleted, and without jitter under prunes and `forget`; rebuilds fail and the server dies in both |
| `Background` | what runs beside the poll or behind it, nine tasks | settings: one key with a flag, 2 values, 2 periods; status: 2 vendors, 3 rounds; updates: 2 threads, 2 releases; migrations: 2 processes, databases of versions 0, 1, 4, 9, 11; events: 4, samples: 3, pages of one row; windows: 5 seconds; grants: 5 seconds, 2 levels, with and without an expiry; credits: 8 seconds, runs that end after 2 quiet polls, rows kept for 4, a look back beyond all events |
| `Service` | one server, the one on file; commands return | 3 processes, 1 stranger on the port |
| `Screen` | what a person sees, six tasks | page: sessions of 2, weeks of 3, 2 intervals; chart: 7 seconds, pauses below and above what counts as a silence, 2 bucket widths; weeks: 7 seconds, weeks of 3, sessions of 2 costs; view: 3 series, 2 presets; identity: 2 organisations, 2 cookies |
| `Estimates` | estimates, pace, parser, spend, four tasks | 7 units: two sessions of 3 over a week's end, or both within a week and costed, with local time off by half an hour; 2 prior weeks of 3 hours and any course over 3 levels; 3 blocks and 2 limits, with a name and without; all pairs of spend blocks |
| `Page` | the page catches up, the button comes back | 2 requests, 1 forced poll, 2 views, an outage |
| `PageInterval`, `ChartDrops`, `CreditRuns` | each refutes one sentence of the source: see section 5 | as `Screen`, and as `Background` with a look back on one event |

Each run ends within four minutes with two workers, most within one.

The bounds are enough for the cases the properties are about: two tasks besides
the loop give a queue whose order matters; two cookies a replacement and a
return; four polls a reset, a missed one and its backfill; three sessions an
oldest, a previous and a running window, which is all that `rebuild_recent`
tells apart; three processes a server, its successor and a stray; four events
a deletion, a rewrite and two pages; two openers a wait and a give-up. For every
property `PROJECT.json` names a mutation of the code that the same bounds
catch. No run uses symmetry: `Poller`, `Service` and `Page` check liveness,
where it is unsound, and the rest are small enough without it. The proofs
remove the bounds for the modules of section 4.

Deadlock is not checked where a clock ends the behaviour or a task's work is
done; it is in `Poller`, `BurnAlert`, `Readings`, `Service`, `Sessions`, `Page`.

### Fairness

- `Poller` (`FairSpec`): time passes (`Tick`), the event loop runs ready tasks
  (`Wake`, `CloseOnStop`) and each step of a poll ends, since every request
  carries a timeout and a local step is finite. Nothing is assumed of forced
  polls, cookies, settings or shutdown. `asyncio.Lock` is FIFO, and with a
  newest-first queue the property fails.
- `Service` (`FairSpec`): a command under way goes on; `start` and `stop` have
  deadlines on their own clock. No fairness is given to any server.
- `Page` (`Spec`): the timer fires, the ticker ticks, requests are answered or
  fail, and an outage ends. The browser calls the timer and the ticker, and
  `fetch` rejects when the server is gone.

All other specifications are safety specifications without fairness.

## 4. What is proved

| theorem | argument |
|---|---|
| `PollerProofs!TypeCorrect` | `TypeOK` is inductive |
| `PollerProofs!MutualExclusion` | the queue has no duplicates and is exactly the tasks that are not outside; in a poll means at its head. `OnePollAtATime` alone is not inductive: handing the lock on needs that the next in line is waiting |
| `PollerProofs!ClientsAreSafe` | from mutual exclusion: only the head changes the client, `open` is at most the current client, and a task past the close uses that client |
| `PollerProofs!CountersCorrect` | both counters and the state are changed together in `Fail` and `Succeed`; saturation keeps the order |
| `PollerProofs!LoopOwnsItsTimer` | the action property, case by case over the actions |
| `PollerProofs!ForcedPollsKeepTheirDistance` | the cooldown still to run and the time since the last accepted request add up to the interval |
| `ReadingsProofs!RecordsAreTrue` | what a poll compares are the two newest rows, in order of time and week; the ledger holds an entry for each turn of the week among the rows, unless the row's check never ran or is to come, and none else; likewise boosts. Two entries of one week would be of one row, and `Missing` looks rows up by their time. Assumes `MinGap = 1`, no two polls in one second |
| `ReadingsProofs!CrossingsAreAnnouncedOnce` | new levels are ascending and not among those fired for the key; no assumption on the polls |
| `BurnAlertProofs!Implements` | while nothing has gone untold since the newest announcement (`Sure`), `standing()` read from the newest events equals the receiver's view. Inductive because an event uses up its second's only poll, so the two newest never tie; assumes one poll a second |
| `BurnAlertProofs!ClearsAreAnswers` | a detector that fires or would fire has announced an alert last, or the store has just lost it; no assumption |
| `ServiceProofs!OneServer`, `ServerIsOnRecord` | an owner is on file; at most one process comes to the file unnamed; a command in its course is about the only process. Assumes one command at a time |
| `BackgroundProofs!PanelSavedRuns` | a save that is under way carries the values it will adopt; the file and the running copy agree while the panel was the last to write |
| `BackgroundProofs!PruneAsAsked` | whatever period is in the file, in a stale read of it or in a running copy was asked for by somebody, or is the upgrade's |
| `BackgroundProofs!ReleaseIsAnnounced` | a stored release that is newer has its event or a thread that is about to record it, unless no check has ended since the start; without an overlap only one thread can owe anything |
| `BackgroundProofs!RowIsHonest` | the count of failures is the number of answers at the end that were not understood, so that a row below the limit tells the answer before them |
| `BackgroundProofs!GoneIsToldOnce` | the marks of a window take turns, so that their number tells which is the newest; after a check that number agrees with the rows; a prune leaves either the polls that are judged by or too few to judge (`MarksAgree`) |
| `BackgroundProofs!GrantsStayTrue` | no two samples or rows are of one second and the newest sample has no row behind it (`InOrder`); each sample taken up has a row that tells it (`ToldIn`), and later rows change nothing for it. Of the replay: at the first moment at which it left a sample untold, the rows before tell all earlier ones, and then it tells that one too |
| `BackgroundProofs!SpendingIsNeverMissed` | the pass over the rows has closed exactly the runs that ended before its row, and holds the first and last rise of the open one (`Scanned`), so that the runs it finds are those of the definition without a pass; they lie apart, so that clipped to a range they tile the moments on credits and each second is counted once (`BandsAre`, `CountedApart`). The rows are those of the whole series since one of the cutoffs (`RowsAreKept`), and a row more takes no start from a run (`FirstRisesStay`): a recorded start stays the start of a run |
| `BackgroundProofs!RunsAreToldOnce` | an event that the look back reaches is known to the check, and a look back on n events reaches all when there are n at most (`KnownAre`): what a check writes is new then. The events only grow in number, so that the hypothesis held before when it holds now |
| `BackgroundProofs!NothingIsMissed` | a table is in the order it was written, by its ids; the cursor divides it into what was given out and what is later than all that was (`SeenInOrder`, `OutInOrder`); a row that stayed is out or above the cursor, though rowids are given again (`SteadyIsRead`), until a `VACUUM` renumbers the table between two pages. Of the page's list: its rows are stretches of the newest events, one after the other, from `a[k]` to `b[k]` (`Stand`) |
| `BackgroundProofs!MigratesSafely` | `Reached` says of each place in the script what the statements before it have done; `Sound`, that a committed version is there with all it stands for; `Holds`, where the events are while their table is rebuilt. What is done is never undone (`Grown`), but in a transaction, of which there is one |
| `SessionsProofs!OneRowASession`, `TheTailIsEnough` | the groups are the rows of one expiry of the vendor, under the first of them (`GroupsAre`). The table holds windows of the rows and every one that is older than one it holds, as it still derives (`TableOf`): no later row joins a window once the next has opened. So the tail, which holds every row of the two newest windows, makes up what is missing |
| `SessionsProofs!NoWindowIsLost` | a window in the table, or waiting in a rebuild of either process, was forgotten, can be derived, or began before all rows (`Accounted`); no row is of a window that overlaps it (`OfItsOwn`), so a `forget` takes the samples of its own window only. All three assume `SameSecond = FALSE`, no two polls in one second |
| `ScreenProofs!NothingClosedIsShown`, `PageSpeaksAsOne` | a stored reading is of a window that has closed, or of the one the vendor has open, which has not emptied since; the last session of the table is the one the last reading told of |
| `ScreenProofs!ChartIsOfReadings` | the readings are in order and the boosts on record are exactly the falls between two that follow each other in one dated window (`ChartInv`). A part of a cut is a stretch with no head but its first (`CutParts`), so that two dated readings of a segment are of one window: at the least counterexample its predecessor is of the window of the first (`SegmentOfOneWindow`). A boost's reading has its predecessor in its own segment or before the range (`BoostIsDrawn`). A silence is told by the last reading up to a moment and the first after it (`SilenceSafe`) |
| `ScreenProofs!RowsAreOfTheirResets` | an event tells of its reset what the sessions tell still, since no session ends before a reading that is there; the table they are taken from was as it should be, or the close is among `misled` |
| `ScreenProofs!SplitShownIsLast` | the newest snapshot of a week, and the newest sample whose poll did not fail, hold the split that week received last |
| `ScreenProofs!AddressIsTheView` | the address and what was chosen are one thing told twice; the range drawn is shown for every address |
| `ScreenProofs!PollsAreOfOneOrg` | past the usage the client has settled on the readings' organisation (`AskedFor`), and one poller with one cookie never settles on another; `None` is no cookie and no organisation |
| `EstimatesProofs!SpendAgreed` | by cases over the blocks that are there, for any amounts and currencies |
| `EstimatesProofs!PaceAgrees` | a week crosses the limit if it ends at or above it (`EndsAre`), though it may fall before; where the lowest of the spread is clamped to what is used, some week fell from this hour on (`Together`). Fewer than half the weeks end below the upper median, so a figure at the limit makes half of them cross (`HalfCross`); the line through now is later than now and, if it does not cross, below the limit at the end (`LinearIs`) |
| `EstimatesProofs!KeysAreKept` | the fold over the entries is a recursive function of how many have been taken up (`Folding`); at the least entry at which it were not so, every entry before is read or has its duplicate, and keys are those of the blocks, of an entry's name, or of its name and rank. Two payloads that give one key to two limits have two limits of that name in one of them, or the key is a place (`NamesAndPlaces`) |
| `EstimatesProofs!RateIsOfUse`, `CostsAreOfUse` | the invariant relates every two rows, and every row and the account (`AccountInv`): the same session has climbed by what was used, a later one opened a session's length after it at least (`FiveAfter`); the same week has climbed by what was used but for a raise in between that no poll showed, or a boost is on record (`WeeksInv`). A rate's segment is followed row by row: what is missing grows only where a session closed, and two that closed are a length apart (`MissingGrows`). A window's rows are a stretch of the store (`WindowIs`); nine tenths of it observed leave its first row early (`ObservedSoon`) |
| `EstimatesProofs!TimeAddsUp` | the invariant grows by when sessions opened (`OpeningsInv`), and a total is the size of what is counted, which parts that are apart make up (`CountedInParts`). The points of the running session are parted among the hours: each belongs to the hour of the reading that has it first (`ClimbsReach`), and what an hour shows is the climb from the reading carried in to its last (`HourConsumes`), resets or not (`ConsumedIs`). A session that is not told of by any row lies in a silence that is a gap (`SilenceIsAGap`). The moments between two readings, and a point for each of `Scale` parts of a rise, are counted by pairs of readings and by cells alike (`GapsCount`, `CellsCount`, `FieldsAre`) |

The theorems rest on the named assumptions on the constants and on nothing else;
TLC evaluates each of them in the run of its module. Those of `Background`,
`Screen` and `Estimates` are about the composed specification: each component has
an invariant of its own, proved about its own steps, and `Starts` and `Goes` say
that a behaviour is one of its task.

Two kinds of step needed more than a case split. That a set of moments has a
smallest and a largest element (`LeastThereIs`, `LargestThereIs`) comes from the
well-foundedness of `<` on the naturals; a property of all moments, or of all
ranges of rows (`RisesAddUp`), is then shown
by its least counterexample. And a recursive function of the time, the grants'
replay (`ReplayedIs`), the grouping of the sessions' rows (`GroupedIs`) and the
pass over the credits' (`PassIs`), is
shown to be what its definition says in the same way: at the least moment up to
which there were no such function, the one before extends to it. An `ORDER BY` is
written by ranks (the k-th row has k - 1 before it), as a sort has no definition
the prover sees; that every rank below the number of rows is one row's (`Ranks`) is
a count of injections. A median is likewise the value with fewer than k below it and
k not above it (`Smallest`).

One attempt failed for a good reason. `SilenceIsHatched` said that every moment of
a range is hatched or soon after a reading; but `find_gaps` measures a silence that
began before the range from the range's start, so that its rest is not hatched when
it is over within the threshold. The earlier bounds left no room for that case. The
property now says so, and the run's threshold is 1, which reaches it.

Two bounds of `Account` were too small, and the run's constants hid it. Over a look
back longer than a session (`Lookbacks` now has one; the code's are 5 minutes to 6
hours, of sessions of 5) more than one session may close unnoticed by `is_reset`,
each with the drop it overlooks: `RateIsTrue` counts them. And a window may be
costed when nine tenths of it were observed, so that its first reading may come
later than the threshold by a tenth of a session: `CostsAreHonest` allows for it.

A third was a bound of the code: the poll interval has a least value but no greatest
(`validate`, config.py), and a silence is a gap from three intervals on. Were that
as long as a session, one could open and close in a silence that no gap shows, and
the span be called idle. What `IdleIsTrue` says of idle moments is therefore said
for `Threshold < Length`, an interval under 100 minutes; what it says of the
chart's counting holds for every interval.

Model-checked only:

- That `HistoryLightsUpOnce` fails beyond the look back: a violation is TLC's to
  find.
- All liveness (`PollsComeBack`, `CommandsReturn`, `PageCatchesUp`,
  `ButtonComesBack`), as neither fairness nor ENABLED is within the prover's reach.

## 5. Where the code and its words differ

Three runs refute a sentence of the source or of its tests:

1. `PageInterval`: an interval changed in the panel reaches the poller, the API
   and `/api/health`, but `_dashboard` and `/metrics` read the settings
   `create_app` was called with (`api.py:272`).
2. `ChartDrops`: a range that holds a boost and, after it, a reset gets a second
   step of that boost (`dashboard.py:1629`).
3. `CreditRuns`: "History on disk lights up once, not on every poll"
   (`tests/test_credits.py:79`). `_check_credits` searches all stored rows for runs
   and looks back on the 500 newest events (`poller.py:664`); once the rows hold
   more runs, the oldest are written again at every poll.

The following were seen the same way and have no run: put the named definition
into the cfg of its module's run (with the constant given) and TLC shows it.

| definition | what the source says, and what happens |
|---|---|
| `Poller!AdoptedIntervalIsLive` | "live on the next poll"; the schedule keeps its own copy (`poller.py:534`) |
| `Readings!CrossingsAnnounced` | "Fire once when 50% is crossed"; raw `resets_at` strings are compared, which differ on any two calls (`poller.py:562`) |
| `Sessions!ForgetKeepsHistory` | forgetting one window deletes all whose rows are pruned (`cli.py:391`) |
| `Service!ReadyMeansUp` | a child that prints why it gives up counts as started (`service.py:304`) |
| `Page!OnePollInFlight` | "a second click while one is in flight does nothing"; a fragment brings a fresh button (`app.js:358`) |
| `EventLog!ShapesForever` | the first sample of each shape is kept "forever"; the prune by age does not spare it (`store.py:1000`) |
| `Dashboard!BudgetAnswersAboutTheMeter` | the budget answers about a week whose meter is withheld (`dashboard.py:1036`) |
| `Spend!MoneyIsAgreed` | equal numbers with different exponents count as agreement (`parse.py:646`) |
| `Settings!RunningPeriodIsAnOption` | a period in the file that is no option runs as written |
| `Settings!UpgradeDeletesNothing` | a database older than the longest option loses rows at its upgrade |

Some properties hold with an exception that the models contain and the
properties name:

- "The loop must survive anything" (`poller.py:357`), but `run` looks for updates
  outside its `try` (`poller.py:292`): a store error in the read of the last check
  ends the loop's task. Page, API and forced polls go on, no reading comes by
  itself, and `stop` raises the error and leaves the client open (`LoopKeepsPolling`).
- The burn alert's detector moves before its event is written (`poller.py:717`,
  730) and the poll swallows what the store raises (400): the alert is lost, and
  the fall after it is announced as the end of an alert nobody heard of. A start
  that cannot read the events (175) repeats a standing alert. A fall hidden by a
  boost (725) leaves no event, so that after a restart the next crossing may be
  silent, though "a later crossing is a real one" (`Sure`, `ClearsAnswerAlerts`).
- "Every row, oldest first" (`export.py:113`), a page at a time by rowid, while
  `sample` has none of its own (`store.py:88`) and each prune ends in a `VACUUM`,
  which may number bare rowids anew, as `store.py:56` says of the events: an
  export across one may skip rows or give them twice (`renumbered`).
- A rebuild of the sessions that raises is an event and no more (`poller.py:381`),
  and the same poll writes the close of a week from the table as it was; the row
  is not written again (`misled`).
- The figure of `pace` lies below its spread beside a week that was corrected to
  less than it had at this hour: only the spread is clamped to what is used
  (`pace.py:198`), and only falls of a boost's size take a week out
  (`FellFromHere`).
- A limit without scope, kind and group is named by its place (`parse.py:425`), so
  that a limit that leaves or moves hands its key, and its history, to another
  (`KeepTheirPlaces`). A percentage deep inside a block is read only when no other
  is, and otherwise in no list (`NoPercentageIsLost`).

Larger constants show more, each excluded by the constant or the guard named:

- Two overlapping starts (`Concurrent = TRUE`): both look, both write, two
  servers run and the file names the later writer (`service.py:158`).
- A forced poll in the second of the loop's (`PollsPerSecond = 2`, `MinGap = 0`,
  `SameSecond = TRUE`): the two newest events tie and a restart misjudges the
  alert; a replaced row takes a week's end or a session's sample with it.
- A rescan beside a live poll writes a boost twice, though `boost.backfill` is
  "Safe to run twice" (`raced` in `BoostsMatchHistory`).
- "Never raises" of `poll_once` does not hold of `record_event` inside a handler
  (`StoreMayFail`).
- With an interval above 300 s a 429 is retried sooner than a good poll
  (`poller.py:92`; `BackoffIsBounded` is stated below that).
- A `quotalens prune` that empties `quota` makes the next start replace the whole
  session table (`sessions.py:285`), and so does the incremental pass while fewer
  than two windows are known; `HistoryIsKept` names both. With jitter and pruning
  together a session that straddles the cutoff is written a second time
  (`sessions.py:153`). `forget` beside a running server: the pending tail may
  write the window back (`cli.py:382`).
- Panel and CLI each read `config.json`, change a key and write the whole file
  (`api.py:354`): the later writer restores what the other had changed.
  `SavedIsRunning` is said until a command writes the file.
- A retention change prunes without the flag the poller's prune takes
  (`api.py:431`), so that two may overlap; each deletes what it may.
- The overage of the old account is kept after a cookie change (`poller.py:963`)
  and the plan's label for up to a day; `OfOneOrg` is stated until then.

Read in the source while modelling, outside every module:

- `_mark_runway` drops the line when the quota runs out this instant, though
  "never silently dropped" (`dashboard.py:1793`); the events' list keeps "a boost
  never crowded off it" among the `limit * 8` newest only (`dashboard.py:907`).
- The sub-cap check is "once per session window per day", but without a session
  row every poll records (`subcap.py:23`).
- `weeks._upgrade_stale` deletes events of an older schema whose rows may be
  pruned (`weeks.py:520`); a verdict's "week before" need not be adjacent; a late
  reading of the closed week misfiles the close.
- `spent_in_range` hides spending over a month's turn. A boost's label is taken
  by prefix, so "Opus" gets those of "Opus 4". A limit with only `limit_dollars`
  vanishes, and two limits of one name swap keys when one leaves.
- A selected row of the history loses its selection as time moves; a custom range
  under a minute or in the future falls back silently.
- After a threshold change the detector keeps the old one and the alert's text
  names the new (`poller.py:728`). The client takes the first membership where
  the plan "never guesses".

## 6. Not modelled, and why

- HTML, wording, money and date formats, CSS, CSV and the metrics text: no state
  and no order. Reading numbers, dates and names out of JSON.
- The sub-cap diagnostic, the reset-model watchdog and the rewriting of ledger
  entries of older schemas: one event each, derived from rows in the same way as
  those of `Readings`.
- `origin_guard.py` is a stateless predicate on headers, `profiles.py` a listing
  of a directory.
- Desktop notifications, autostart units, the keyring's file fallback, the
  upgrade command and log rotation belong to the operating system or to pip; a
  pid reused by an unrelated program and Windows' process handles are left out of
  `Service`.
- Size estimates and queries of one table.
- `Account` uses no session beyond its limit and corrects none downwards while it
  runs. `pct` "may exceed 100" (`parse.py:46`), and then `runway.project` gives a
  moment that has passed (`runway.py:50`); after a downward correction "to a
  displayed percentage" (`burn.py:20`) the climb back is counted again.
- Store errors in the plan's daily look at its row (`poller.py:793`), which put the
  refresh off to the next poll. `Page` has failed requests in an outage only, and a refresh interval
  that does not change; `app.js:106` reads it from each fragment.

What could follow: the sub-cap check in `Readings`; and
`Readings!RecordsMatchHistory` for polls that share a second, which the code does
not keep.
