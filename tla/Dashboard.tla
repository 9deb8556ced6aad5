----------------------------- MODULE Dashboard ------------------------------
(***************************************************************************)
(* dashboard.build_dashboard: what the page, /metrics and the API say of   *)
(* the two windows that carry the account, the session and the week, while *)
(* the vendor's windows open, fill and close, polls succeed, fail, miss a  *)
(* block or stop in the middle, and the process restarts.  A page may be   *)
(* built at any moment, between the readings a poll stores and the session *)
(* table it derives from them included.  The settings panel may change the *)
(* interval; the page goes on with the one it captured at the start.       *)
(***************************************************************************)
EXTENDS Integers, FiniteSets, FiniteSetsExt

CONSTANTS
    Pcts,                    \* percentages the vendor may report
    FULL,                    \* 100%
    Intervals,               \* what poll_interval_s may be
    STALE_AFTER_INTERVALS,
    GONE_AFTER_POLLS,
    GONE_AFTER_S,
    SESSION_LENGTH,
    WEEK_LENGTH,
    MaxTime                  \* bound on the clock

DashboardAssumption ==
    /\ {0, FULL} \subseteq Pcts /\ Pcts \subseteq 0..FULL
    /\ Intervals \subseteq Nat \ {0}
    /\ {FULL, STALE_AFTER_INTERVALS, GONE_AFTER_POLLS,
        SESSION_LENGTH, WEEK_LENGTH, MaxTime} \subseteq Nat \ {0}
    /\ GONE_AFTER_S \in Nat

VARIABLES
    now,
    server,   \* the vendor's truth: window -> [pct, reset]
    latest,   \* the newest stored reading of a window: [ts, pct, reset]
    polls,    \* timestamps of the newest GONE_AFTER_POLLS polls with a reading
    ends,     \* resets_at of the newest dated session reading
    session,  \* the newest row of session_window: [ends, current]
    status,   \* PollerStatus: [state, last_ok, fallback]
    poll,     \* the poll that has stored its readings and not ended: its ts
    captured, \* the settings' interval the routes closed over at the start
    interval, \* the one in AppState, which the poller has adopted
    rebuilt   \* history: the last poll that ended derived the session table

vars == <<now, server, latest, polls, ends, session, status, poll, captured, interval, rebuilt>>
settings == <<captured, interval>>

RATE_WINDOW == "five_hour"
WEEKLY == "seven_day"
Windows == {RATE_WINDOW, WEEKLY}

Never == -1      \* no timestamp
Withheld == -1   \* an em dash, or NaN

(* "refused" stands for keyring_error, no_cookie and auth_expired, "error"  *)
(* for every failure that tells nothing about the readings.                *)
Failures == {"refused", "parse_failed", "error"}

NoReading == [ts |-> Never, pct |-> 0, reset |-> Never]

Init ==
    /\ now = 0
    /\ server = [w \in Windows |->
                    [pct |-> 0, reset |-> IF w = WEEKLY THEN WEEK_LENGTH ELSE Never]]
    /\ latest = [w \in Windows |-> NoReading]
    /\ polls = {}
    /\ ends = Never
    /\ session = [ends |-> Never, current |-> FALSE]
    /\ status = [state |-> "starting", last_ok |-> Never, fallback |-> FALSE]
    /\ poll = Never
    /\ captured \in Intervals /\ interval = captured
    /\ rebuilt = TRUE

-----------------------------------------------------------------------------
(* The page's rules. *)

WindowHasLapsed(row) == row.reset # Never /\ row.reset <= now

WindowIsStale(row, every) == now - row.ts > STALE_AFTER_INTERVALS * every

Fresh(every) == status.last_ok # Never /\ now - status.last_ok <= STALE_AFTER_INTERVALS * every

(* Fault: a poll that recovered its readings by the fallback is trusted. *)
CollectorStateTrusting(every) ==
    IF status.state = "refused" THEN "auth"
    ELSE IF status.state = "parse_failed" THEN "unverified"
    ELSE IF Fresh(every) THEN "ok" ELSE "stale"

(* collector_state: the reasons to withhold every value, in their order. *)
CollectorState(every) ==
    IF status.state = "refused" THEN "auth"
    ELSE IF status.state = "parse_failed" \/ status.fallback THEN "unverified"
    ELSE IF Fresh(every) THEN "ok" ELSE "stale"

PageWithheld == CollectorState(captured) # "ok"

(* current_windows: a window absent from the last three polls and old is    *)
(* gone; the session never is.                                             *)
CurrentWindows ==
    LET seen == {w \in Windows : latest[w].ts # Never}
    IN  IF Cardinality(polls) < GONE_AFTER_POLLS THEN seen
        ELSE {w \in seen : \/ w = RATE_WINDOW
                           \/ latest[w].ts >= Min(polls)
                           \/ Max(polls) - latest[w].ts <= GONE_AFTER_S}

(* _window_view: the percentage a meter shows. *)
Meter(w) ==
    IF \/ w \notin CurrentWindows
       \/ PageWithheld \/ WindowHasLapsed(latest[w]) \/ WindowIsStale(latest[w], captured)
    THEN Withheld ELSE latest[w].pct

(* build_dashboard's session_stale: a lapsed window explains itself. *)
SessionStale ==
    /\ latest[RATE_WINDOW].ts # Never
    /\ WindowIsStale(latest[RATE_WINDOW], captured) /\ ~WindowHasLapsed(latest[RATE_WINDOW])

(* _burn_view and compute_runway: the headroom the hero shows, counted to   *)
(* the end of the session table's current window when there is one.         *)
HeroReset == IF session.current THEN session.ends ELSE latest[RATE_WINDOW].reset

Hero ==
    IF \/ PageWithheld \/ SessionStale \/ latest[RATE_WINDOW].ts = Never
       \/ HeroReset # Never /\ HeroReset <= now
    THEN Withheld ELSE FULL - latest[RATE_WINDOW].pct

(* weekly_limits, and _weeks_view's row of the week that is open. *)
BudgetHeadroom ==
    IF PageWithheld \/ WEEKLY \notin CurrentWindows THEN Withheld ELSE FULL - latest[WEEKLY].pct
WeekUsed ==
    IF PageWithheld \/ WEEKLY \notin CurrentWindows THEN Withheld ELSE latest[WEEKLY].pct

(* Fault: a healthy collector is taken for a current reading. *)
IsLiveWhileFresh(w) == Fresh(captured) /\ ~WindowHasLapsed(latest[w])

(* metrics.collect: quota_percent, and session_headroom_percent. *)
IsLive(w) ==
    Fresh(captured) /\ ~WindowHasLapsed(latest[w]) /\ ~WindowIsStale(latest[w], captured)
Gauge(w) == IF w \in CurrentWindows /\ IsLive(w) THEN latest[w].pct ELSE Withheld

(* GET /api/quota/current: `pct` of a reading that is still current, by the *)
(* interval that runs.                                                     *)
ApiPct(w) ==
    IF w \in CurrentWindows /\ ~WindowHasLapsed(latest[w]) /\ ~WindowIsStale(latest[w], interval)
    THEN latest[w].pct ELSE Withheld

-----------------------------------------------------------------------------
(* The vendor, the clock, and the poller. *)

(* The account is used: a session opens with the first use. *)
Use(s, p) ==
    /\ poll = Never
    /\ s >= server[RATE_WINDOW].pct /\ s > 0 /\ p >= server[WEEKLY].pct
    /\ server' = [server EXCEPT
          ![WEEKLY].pct = p,
          ![RATE_WINDOW] = [pct |-> s,
              reset |-> IF @.reset = Never THEN now + SESSION_LENGTH ELSE @.reset]]
    /\ server' # server
    /\ UNCHANGED <<now, latest, polls, ends, session, status, poll, settings, rebuilt>>

(* Windows close at their reset; no session runs until the next use. *)
Tick ==
    /\ now < MaxTime
    /\ now' = now + 1
    /\ server' = [w \in Windows |->
          IF server[w].reset # now' THEN server[w]
          ELSE [pct |-> 0, reset |-> IF w = WEEKLY THEN now' + WEEK_LENGTH ELSE Never]]
    /\ UNCHANGED <<latest, polls, ends, session, status, poll, settings, rebuilt>>

(* _collect, up to the request for the overage: the readings are stored. *)
StoreReadings(blocks, fallback) ==
    /\ poll = Never
    /\ blocks # {} /\ (fallback => blocks = Windows)
    /\ poll' = now
    /\ latest' = [w \in Windows |->
          IF w \in blocks /\ ~fallback
          THEN [ts |-> now, pct |-> server[w].pct, reset |-> server[w].reset]
          ELSE latest[w]]
    /\ ends' = IF latest'[RATE_WINDOW].reset # Never THEN latest'[RATE_WINDOW].reset ELSE ends
    /\ polls' = LET all == polls \cup {now}
                IN  IF Cardinality(all) > GONE_AFTER_POLLS THEN all \ {Min(all)} ELSE all
    /\ status' = [status EXCEPT !.fallback = fallback]
    /\ UNCHANGED <<now, server, session, settings, rebuilt>>

(* sessions.rebuild_recent: the newest group of dated session readings. *)
RebuildRecent(at) == session' = [ends |-> ends, current |-> ends # Never /\ at < ends]

(* The rest of _collect; a rebuild that fails is an event and no failure. *)
PollSucceeds(rebuilds) ==
    /\ poll # Never
    /\ IF rebuilds THEN RebuildRecent(poll) ELSE UNCHANGED session
    /\ rebuilt' = rebuilds
    /\ status' = [status EXCEPT !.state = "ok", !.last_ok = poll]
    /\ poll' = Never
    /\ UNCHANGED <<now, server, latest, polls, ends, settings>>

(* _fail: before anything is stored, or at the overage request (a 401). *)
PollFails(state) ==
    /\ poll # Never => state = "refused"
    /\ status' = [status EXCEPT !.state = state]
    /\ poll' = Never
    /\ rebuilt' = (rebuilt /\ poll = Never)
    /\ UNCHANGED <<now, server, latest, polls, ends, session, settings>>

(* A new PollerStatus, and the rebuild of the start. *)
Restart ==
    /\ status' = [state |-> "starting", last_ok |-> Never, fallback |-> FALSE]
    /\ poll' = Never
    /\ RebuildRecent(now)
    /\ rebuilt' = TRUE
    /\ captured' = interval
    /\ UNCHANGED <<now, server, latest, polls, ends, interval>>

(* settings_save: AppState and the poller have the new interval at once. *)
AdoptInterval(every) ==
    /\ interval' = every
    /\ interval' # interval
    /\ UNCHANGED <<now, server, latest, polls, ends, session, status, poll, captured, rebuilt>>

Next ==
    \/ \E s, p \in Pcts : Use(s, p)
    \/ Tick
    \/ \E blocks \in SUBSET Windows, fallback \in BOOLEAN : StoreReadings(blocks, fallback)
    \/ \E rebuilds \in BOOLEAN : PollSucceeds(rebuilds)
    \/ \E state \in Failures : PollFails(state)
    \/ Restart
    \/ \E every \in Intervals : AdoptInterval(every)

Spec == Init /\ [][Next]_vars

-----------------------------------------------------------------------------
(* Every variable keeps its type, and nothing is stored from the future. *)
TypeOK ==
    /\ now \in 0..MaxTime
    /\ \A w \in Windows :
          /\ latest[w].ts \in {Never} \cup 0..now
          /\ latest[w].pct \in Pcts /\ server[w].pct \in Pcts
    /\ polls \subseteq 0..now /\ Cardinality(polls) <= GONE_AFTER_POLLS
    /\ session.current => session.ends # Never
    /\ status.state \in Failures \cup {"starting", "ok"}
    /\ poll \in {Never} \cup 0..now
    /\ {captured, interval} \subseteq Intervals

(* _window_view: a percentage on the page was read at most three intervals  *)
(* ago and belongs to the window the vendor has open now: never to one that *)
(* has closed, whatever polls failed, missed the block or died since.  None *)
(* is shown while the last answer was refused, unparsed or guessed at.      *)
ShownIsOpen ==
    \A w \in Windows : Meter(w) # Withheld =>
        /\ now - latest[w].ts <= STALE_AFTER_INTERVALS * captured
        /\ latest[w].reset # Never => server[w].reset = latest[w].reset
        /\ server[w].reset = latest[w].reset => server[w].pct >= Meter(w)
        /\ status.state \notin {"refused", "parse_failed"} /\ ~status.fallback

(* "The two elements describing one window cannot disagree on screen"       *)
(* (build_dashboard): unless a poll is between its readings and the session *)
(* table, or failed to derive it, the hero shows a figure exactly when the  *)
(* session meter does, and they add up.                                     *)
HeroAgreesWithMeter ==
    poll = Never /\ rebuilt =>
        IF Meter(RATE_WINDOW) = Withheld THEN Hero = Withheld
        ELSE Hero = FULL - Meter(RATE_WINDOW)

(* metrics.collect and quota_current: a figure the page shows is the figure *)
(* a scrape and the API give at that moment, and neither gives one of a     *)
(* window that has closed or that was last read too long ago (by the        *)
(* interval each knows: page and API agree until the panel changes it).     *)
ConsumersAgree ==
    \A w \in Windows :
        /\ Meter(w) # Withheld => Gauge(w) = Meter(w)
        /\ Gauge(w) # Withheld /\ captured = interval => ApiPct(w) = Gauge(w)
        /\ ApiPct(w) # Withheld /\ latest[w].reset # Never => server[w].reset = latest[w].reset

(* AppState: "every route reads it through this rather than closing over    *)
(* the one captured at startup": the page shows what a collector that       *)
(* answers at the running interval has read and the API calls current.      *)
PageFollowsTheInterval ==
    \A w \in Windows :
        CollectorState(interval) = "ok" /\ ApiPct(w) # Withheld => Meter(w) # Withheld

(* weekly_limits: "the budget cannot end up answering about a different     *)
(* number from the one on screen": no budget and no figure for the week     *)
(* while the weekly meter shows none.                                       *)
BudgetAnswersAboutTheMeter ==
    Meter(WEEKLY) = Withheld => BudgetHeadroom = Withheld /\ WeekUsed = Withheld

=============================================================================
