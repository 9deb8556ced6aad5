------------------------------- MODULE Views --------------------------------
(***************************************************************************)
(* "A view is a URL" (views.py): range of time, hidden series, burn        *)
(* lookback, refresh, sort and length of the history, all in the query     *)
(* string.  Every link of the page is the view with one thing changed; the *)
(* chart puts a range into the address by itself (chart.js).  The state is *)
(* the address, and beside it what the person has chosen, one control      *)
(* after another; the clock moves.                                         *)
(***************************************************************************)
EXTENDS Integers, FiniteSets, FiniteSetsExt

CONSTANTS
    Session, Weekly,  \* the series: the session window, and the weekly ones
    Ghost,            \* GHOST_KEY, "vs last week"
    Presets,          \* RANGE_PRESETS: spans
    Lookbacks, Refreshes, \* what the two controls offer
    MinSpan,          \* MIN_CUSTOM_SPAN_S
    CollectingUnder,  \* COLLECTING_UNDER_S
    SessionLength, WeekLength,
    MaxTime           \* bound on the clock

ViewsAssumption ==
    /\ Presets # {} /\ Presets \subseteq Nat \ {0}
    /\ {MinSpan, SessionLength, WeekLength, MaxTime} \subseteq Nat \ {0}
    /\ CollectingUnder \in Nat /\ CollectingUnder <= Min(Presets)
    /\ Ghost \notin {Session} \cup Weekly /\ Session \notin Weekly

VARIABLES now, url, chosen

vars == <<now, url, chosen>>

Everyone == {Session} \cup Weekly
Default == "default"

TimeRange(key, from, to) == [key |-> key, from |-> from, to |-> to]
Auto == TimeRange("auto", 0, 0)
Keys == {TimeRange(key, 0, 0) : key \in {"week", "lastweek", "all"}}
            \cup {TimeRange("preset", span, 0) : span \in Presets}

Init ==
    /\ now = 0
    /\ url = [range |-> Auto, hide |-> {}, lookback |-> Default, refresh |-> Default,
              sort |-> Default, history |-> Default]
    /\ chosen = [range |-> Auto, hidden |-> {}, ghost |-> TRUE, lookback |-> Default,
                 refresh |-> Default, sort |-> Default, history |-> Default]

(* parse_view: what does not make sense is the default. *)
ParseRange(range) ==
    IF range.key # "custom" THEN range
    ELSE IF Min({range.to, now}) - range.from >= MinSpan
    THEN [range EXCEPT !.to = Min({@, now})] ELSE Auto

ParseView(address) ==
    [range    |-> ParseRange(address.range),
     hidden   |-> address.hide,
     lookback |-> IF address.lookback \in Lookbacks THEN address.lookback ELSE Default,
     refresh  |-> IF address.refresh \in Refreshes THEN address.refresh ELSE Default,
     sort     |-> address.sort,
     history  |-> address.history]

View == ParseView(url)

(* ViewOptions.query and range_param. *)
Query(view) ==
    [range |-> view.range, hide |-> view.hidden, lookback |-> view.lookback,
     refresh |-> view.refresh, sort |-> view.sort, history |-> view.history]

(* href: a link of the page. *)
Follow(view) == url' = Query(view) /\ UNCHANGED now

(* toggled *)
Toggled(series) == IF series \in View.hidden THEN View.hidden \ {series}
                   ELSE View.hidden \cup {series}

-----------------------------------------------------------------------------
(* The next link settles where a range that reaches past now ends. *)
Settled == [chosen EXCEPT !.range = ParseRange(@)]

(* The controls of build_dashboard. *)
ChooseRange(range) ==
    /\ Follow([View EXCEPT !.range = range])
    /\ chosen' = [Settled EXCEPT !.range = range]

ChooseLookback(key) ==
    /\ Follow([View EXCEPT !.lookback = key])
    /\ chosen' = [Settled EXCEPT !.lookback = key]

ChooseRefresh(key) ==
    /\ Follow([View EXCEPT !.refresh = key])
    /\ chosen' = [Settled EXCEPT !.refresh = key]

(* _series_chips: All, one alone, and one more or less; the overlay's own   *)
(* choice stays.                                                           *)
Keep == View.hidden \cap {Ghost}

ShowAll ==
    /\ Follow([View EXCEPT !.hidden = Keep])
    /\ chosen' = [Settled EXCEPT !.hidden = {}]

ShowAlone(series) ==
    /\ Follow([View EXCEPT !.hidden = (Everyone \ {series}) \cup Keep])
    /\ chosen' = [Settled EXCEPT !.hidden = Everyone \ {series}]

Toggle(series) ==
    /\ Follow([View EXCEPT !.hidden = Toggled(series)])
    /\ chosen' = [Settled EXCEPT !.hidden = SymDiff(@, {series})]

(* _ghost_chip *)
ToggleGhost ==
    /\ Follow([View EXCEPT !.hidden = Toggled(Ghost)])
    /\ chosen' = [Settled EXCEPT !.ghost = ~@]

(* _history_view: the sort, all or the first page, and a row of the table,  *)
(* which is its session as a range.                                        *)
Sort(key) ==
    /\ Follow([View EXCEPT !.sort = key])
    /\ chosen' = [Settled EXCEPT !.sort = key]

History(length) ==
    /\ Follow([View EXCEPT !.history = length])
    /\ chosen' = [Settled EXCEPT !.history = length]

ChooseSession(started) ==
    LET range == TimeRange("custom", started, Min({started + SessionLength, now}))
    IN  /\ started < now
        /\ Follow([View EXCEPT !.range = range])
        /\ chosen' = [Settled EXCEPT !.range = range]

(* onUp and onReset of chart.js: the address itself is edited.  The chart   *)
(* of a running session reaches past now.                                  *)
Zoom(from, to) ==
    LET range == TimeRange("custom", from, to)
    IN  /\ to - from >= MinSpan
        /\ url' = [url EXCEPT !.range = range]
        /\ chosen' = [chosen EXCEPT !.range = range]
        /\ UNCHANGED now

ZoomReset ==
    /\ url' = [url EXCEPT !.range = Auto]
    /\ chosen' = [chosen EXCEPT !.range = Auto]
    /\ UNCHANGED now

Tick == now < MaxTime /\ now' = now + 1 /\ UNCHANGED <<url, chosen>>

Next ==
    \/ \E range \in Keys : ChooseRange(range)
    \/ \E key \in Lookbacks : ChooseLookback(key)
    \/ \E key \in Refreshes : ChooseRefresh(key)
    \/ ShowAll
    \/ \E series \in Everyone : ShowAlone(series) \/ Toggle(series)
    \/ ToggleGhost
    \/ \E key \in {Default, "consumed"} : Sort(key)
    \/ \E length \in {Default, "all"} : History(length)
    \/ \E started \in 0..now : ChooseSession(started)
    \/ \E from \in 0..now, to \in 0..now + SessionLength : Zoom(from, to)
    \/ ZoomReset
    \/ Tick

Spec == Init /\ [][Next]_vars

-----------------------------------------------------------------------------
None == -1

(* Fault: the last session is taken for one that runs. *)
LastSession(session) == session # None

RunningSession(session) == session # None /\ session > now

(* resolve_range: an end of the session window and of the weekly one may be *)
(* known, and the oldest reading.                                          *)
Resolved(start, end, key, auto) == [start |-> start, end |-> end, key |-> key, auto |-> auto]

WeeklyOnly ==
    LET visible == Everyone \ View.hidden IN visible # {} /\ visible \subseteq Weekly

FitsAll(oldest) ==
    LET wide == {s \in Presets : s >= now - oldest}
    IN  IF wide = {} THEN Resolved(oldest, now, TimeRange("all", 0, 0), TRUE)
        ELSE Resolved(now - Min(wide), now, TimeRange("preset", Min(wide), 0), TRUE)

ResolveRange(oldest, session, week) ==
    LET range == View.range
        thisWeek(auto) == Resolved(week - WeekLength, week, TimeRange("week", 0, 0), auto)
    IN  CASE range.key = "week" /\ week # None -> thisWeek(FALSE)
          [] range.key = "lastweek" /\ week # None ->
                Resolved(week - 2 * WeekLength, week - WeekLength, range, FALSE)
          [] range.key = "auto" /\ WeeklyOnly /\ week # None -> thisWeek(TRUE)
          [] range.key = "auto" /\ ~(WeeklyOnly /\ week # None) /\ RunningSession(session) ->
                Resolved(session - SessionLength, session, TimeRange("session", 0, 0), TRUE)
          [] range.key = "custom" -> Resolved(range.from, range.to, range, FALSE)
          [] range.key = "preset" -> Resolved(now - range.from, now, range, FALSE)
          [] range.key = "all" ->
                Resolved(IF oldest = None THEN now - Min(Presets) ELSE oldest, now, range, FALSE)
          [] OTHER ->
                IF oldest = None \/ now - oldest < CollectingUnder
                THEN Resolved(now - Min(Presets), now, TimeRange("preset", Min(Presets), 0), TRUE)
                ELSE FitsAll(oldest)

-----------------------------------------------------------------------------
(* "A view is a URL" (views.py): after any clicks, in any order, what was   *)
(* chosen with one control is in force until that control is used again:    *)
(* no link drops another's choice, isolating a series leaves the overlay    *)
(* alone, and a zoom keeps everything but the range.  A range that reaches  *)
(* past now ends now, and one too short falls back to the default, as the   *)
(* next link settles it.                                                   *)
ChoicesStay ==
    /\ View.range = ParseRange(chosen.range)
    /\ View.hidden = chosen.hidden \cup (IF chosen.ghost THEN {} ELSE {Ghost})
    /\ View.lookback = chosen.lookback /\ View.refresh = chosen.refresh
    /\ View.sort = chosen.sort /\ View.history = chosen.history
    /\ ParseView(Query(View)) = View

(* resolve_range and range_controls: whatever is known of the windows, a    *)
(* range asked for is the one drawn and the one control marked; the default *)
(* shows the weekly window to a weekly-only selection, the whole session    *)
(* that runs, or everything there is.                                      *)
RangeFits ==
    \A oldest \in {None} \cup 0..now, session \in {None} \cup now - 1..now + SessionLength,
       week \in {None, now + 1, now + WeekLength} :
        LET r == ResolveRange(oldest, session, week)
            asked == ParseRange(chosen.range)
            kept == asked.key \notin {"week", "lastweek"} \/ week # None
        IN  /\ r.start <= r.end
            /\ {k \in Keys : r.key = k /\ ~r.auto} = (IF kept THEN Keys \cap {asked} ELSE {})
            /\ asked.key = "custom" => <<r.start, r.end>> = <<asked.from, asked.to>>
            /\ r.auto <=> asked = Auto \/ ~kept
            /\ r.auto => \/ r.end = session /\ r.start <= now /\ now < r.end
                         \/ r.end = week /\ r.start <= now
                         \/ r.end = now /\ (oldest = None \/ r.start <= oldest)

=============================================================================
