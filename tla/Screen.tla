------------------------------- MODULE Screen -------------------------------
(***************************************************************************)
(* What a person sees: the figures of the page and of its other readers,   *)
(* the chart, the Weeks table, the split of the week, the address of a     *)
(* view, and whose account it all is.  As in Background one `task` moves   *)
(* in each behaviour; what is not its own is asleep.                       *)
(***************************************************************************)
EXTENDS Integers, Sequences

CONSTANTS
    \* Dashboard
    Pcts, FULL, Intervals, STALE_AFTER_INTERVALS, GONE_AFTER_POLLS, GONE_AFTER_S,
    SESSION_LENGTH, WEEK_LENGTH, LastPageTime,
    \* Chart
    ResetDrop, Threshold, Levels, BoostDrop, WindowLength, Pauses, Buckets, LastChartTime,
    \* Weeks
    Costs, SessionLength, WeekLength, MinCompare, LastWeeksTime,
    \* Surfaces
    Splits, Jitters, Hour, SplitWeekLength, LastSplitTime,
    \* Views
    SessionSeries, Weekly, Ghost, Presets, Lookbacks, Refreshes, MinSpan, CollectingUnder,
    ViewSessionLength, ViewWeekLength, LastViewTime,
    \* Identity
    Orgs, Bare, Cookies, Refresh, LastIdentityTime

VARIABLES
    task, now, polls,
    server, latest, ends, session, status, poll, captured, interval, rebuilt,
    rows, boosts,
    sessions, windows, ledger, misled,
    snapshots, samples, received, torn,
    url, chosen,
    members, active, carries, cookie, client, stage, usageOrg, overageOrg, overageFetched, planFetched, plan, state, mixed

pageVars == <<server, latest, ends, session, status, poll, captured, interval,
    rebuilt>>
chartVars == <<rows, boosts>>
weeksVars == <<sessions, windows, ledger, misled>>
splitVars == <<snapshots, samples, received, torn>>
viewVars == <<url, chosen>>
identityVars == <<members, active, carries, cookie, client, stage, usageOrg,
    overageOrg, overageFetched, planFetched, plan, state, mixed>>
allVars == <<task, now, polls, pageVars, chartVars, weeksVars, splitVars, viewVars, identityVars>>

D == INSTANCE Dashboard WITH MaxTime <- LastPageTime
C == INSTANCE Chart WITH MaxTime <- LastChartTime
W == INSTANCE Weeks WITH MaxTime <- LastWeeksTime
S == INSTANCE Surfaces WITH WeekLength <- SplitWeekLength, MaxTime <- LastSplitTime
V == INSTANCE Views WITH
        Session <- SessionSeries, SessionLength <- ViewSessionLength,
        WeekLength <- ViewWeekLength, MaxTime <- LastViewTime
I == INSTANCE Identity WITH MaxTime <- LastIdentityTime

ASSUME ScreenAssumption ==
    /\ D!DashboardAssumption /\ C!ChartAssumption /\ W!WeeksAssumption
    /\ S!SurfacesAssumption /\ V!ViewsAssumption /\ I!IdentityAssumption

Asleep == "asleep"
PageAsleep ==
    /\ server = Asleep /\ latest = Asleep /\ ends = Asleep /\ session = Asleep
    /\ status = Asleep /\ poll = Asleep /\ captured = Asleep /\ interval = Asleep
    /\ rebuilt = Asleep
ChartAsleep ==
    /\ rows = Asleep /\ boosts = Asleep
WeeksAsleep ==
    /\ sessions = Asleep /\ windows = Asleep /\ ledger = Asleep /\ misled = Asleep
SplitAsleep ==
    /\ snapshots = Asleep /\ samples = Asleep /\ received = Asleep /\ torn = Asleep
ViewAsleep ==
    /\ url = Asleep /\ chosen = Asleep
IdentityAsleep ==
    /\ members = Asleep /\ active = Asleep /\ carries = Asleep /\ cookie = Asleep
    /\ client = Asleep /\ stage = Asleep /\ usageOrg = Asleep /\ overageOrg = Asleep
    /\ overageFetched = Asleep /\ planFetched = Asleep /\ plan = Asleep /\ state = Asleep
    /\ mixed = Asleep
PollsAsleep == polls = Asleep

Init ==
    \/ /\ task = "page" /\ D!Init
       /\ ChartAsleep /\ WeeksAsleep /\ SplitAsleep
       /\ ViewAsleep /\ IdentityAsleep
    \/ /\ task = "chart" /\ C!Init
       /\ PageAsleep /\ WeeksAsleep /\ SplitAsleep
       /\ ViewAsleep /\ IdentityAsleep /\ PollsAsleep
    \/ /\ task = "weeks" /\ W!Init
       /\ PageAsleep /\ ChartAsleep /\ SplitAsleep
       /\ ViewAsleep /\ IdentityAsleep
    \/ /\ task = "split" /\ S!Init
       /\ PageAsleep /\ ChartAsleep /\ WeeksAsleep
       /\ ViewAsleep /\ IdentityAsleep /\ PollsAsleep
    \/ /\ task = "view" /\ V!Init
       /\ PageAsleep /\ ChartAsleep /\ WeeksAsleep
       /\ SplitAsleep /\ IdentityAsleep /\ PollsAsleep
    \/ /\ task = "identity" /\ I!Init
       /\ PageAsleep /\ ChartAsleep /\ WeeksAsleep
       /\ SplitAsleep /\ ViewAsleep /\ PollsAsleep

Next ==
    \/ /\ task = "page" /\ D!Next
       /\ UNCHANGED <<task, chartVars, weeksVars, splitVars, viewVars, identityVars>>
    \/ /\ task = "chart" /\ C!Next
       /\ UNCHANGED <<task, pageVars, weeksVars, splitVars, viewVars, identityVars, polls>>
    \/ /\ task = "weeks" /\ W!Next
       /\ UNCHANGED <<task, pageVars, chartVars, splitVars, viewVars, identityVars>>
    \/ /\ task = "split" /\ S!Next
       /\ UNCHANGED <<task, pageVars, chartVars, weeksVars, viewVars, identityVars, polls>>
    \/ /\ task = "view" /\ V!Next
       /\ UNCHANGED <<task, pageVars, chartVars, weeksVars, splitVars, identityVars, polls>>
    \/ /\ task = "identity" /\ I!Next
       /\ UNCHANGED <<task, pageVars, chartVars, weeksVars, splitVars, viewVars, polls>>

Spec == Init /\ [][Next]_allVars

-----------------------------------------------------------------------------
(* Dashboard: no figure shown is of a window that has closed.              *)
ShownIsOpen == task = "page" => D!ShownIsOpen

(* Dashboard: the hero and the session meter speak of one window; page,    *)
(* scrape and API agree on what is current.                                *)
FiguresAgree == task = "page" => D!HeroAgreesWithMeter /\ D!ConsumersAgree

(* Dashboard: a changed interval is the one the page judges freshness by   *)
(* (AppState: "every route reads it through this").                        *)
PageFollowsTheInterval == task = "page" => D!PageFollowsTheInterval

(* Chart: lines, hatching and the change a meter tells are of the readings, *)
(* of one window at a time.                                                *)
ChartIsTrue ==
    task = "chart" => C!LinesAreReadings /\ C!SilenceIsHatched /\ C!ChangeIsOfOneWindow

(* Chart: a step is drawn where a boost took place (_chart_view: the        *)
(* preceding sample "is still what the step falls from").                  *)
DropsAreBoosts == task = "chart" => C!DropsAreBoosts

(* Weeks: every row's figures are of the two resets they come from.        *)
WeekTableIsTrue == task = "weeks" => W!WeekTableIsTrue

(* Surfaces: the split shown is the last this week received.               *)
SplitIsTheWeeks == task = "split" => S!SplitIsTheWeeks

(* Views: no link drops what another control was set to, and the range     *)
(* drawn is the range asked for, or the default that fits.                 *)
ViewIsItsAddress == task = "view" => V!ChoicesStay /\ V!RangeFits

(* Identity: what a poll adds is of the organisation of its readings.      *)
NumbersAreOfOneOrg == [][task = "identity" => I!OfOneOrg]_allVars

=============================================================================
