-------------------------------- MODULE Page --------------------------------
(***************************************************************************)
(* web/app.js: the page in the browser and the server behind it.  The page *)
(* asks for its fragment again on a timer, on every change of view and     *)
(* after a forced poll; requests may be answered in any order or fail      *)
(* while the server is down.  The "poll now" button is disabled by a       *)
(* click, replaced with every fragment, and set once a second by a ticker. *)
(***************************************************************************)
EXTENDS Integers, FiniteSets, FiniteSetsExt

CONSTANTS
    Views,       \* what the URL may ask for
    Cooldown,    \* FORCE_MIN_INTERVAL_S
    Requests,    \* slots for fragment requests in flight: a bound
    Posts,       \* slots for forced polls in flight: a bound
    MaxData,     \* bound on the readings stored
    MaxChanges   \* bound on changes of view and on outages

ASSUME PageAssumption == {Cooldown, MaxData, MaxChanges} \subseteq Nat \ {0}

VARIABLES
    data,         \* the server's newest reading
    serverLeft,   \* cooldown_remaining
    up,           \* the server answers
    refreshOn,    \* body.dataset.refresh > 0 when the page was loaded
    url,          \* the view in the address bar
    shown,        \* the fragment in #app: [view, data]
    refreshes,    \* fragment request -> [at: none|sent|served, view, data, cooldown]
    posts,        \* forced poll -> "none", "sent", "polling" or "refused"
    disabled,     \* the button
    cooldownLeft, \* cooldownUntil - now
    failures,
    lost,         \* root.dataset.link
    timer,
    changes       \* changes of view and outages so far

server == <<data, serverLeft, up, refreshOn>>
link == <<failures, lost>>
button == <<disabled, cooldownLeft>>
vars == <<server, url, shown, refreshes, posts, button, link, timer, changes>>

NoRequest == [at |-> "none", view |-> CHOOSE v \in Views : TRUE, data |-> 0, cooldown |-> 0]
Free == {r \in Requests : refreshes[r].at = "none"}

(* refresh(): the query is the one of this moment. *)
Refresh(view) ==
    /\ Free # {}
    /\ refreshes' = [refreshes EXCEPT ![CHOOSE r \in Free : TRUE] =
                        [at |-> "sent", view |-> view, data |-> 0, cooldown |-> 0]]

MarkLost ==
    /\ failures' = Min({failures + 1, 2})
    /\ lost' = (lost \/ failures + 1 >= 2)

(* The fragment is a full page load at first. *)
Init ==
    /\ data = 0
    /\ serverLeft = 0
    /\ up = TRUE
    /\ refreshOn \in BOOLEAN
    /\ url \in Views
    /\ shown = [view |-> url, data |-> 0]
    /\ refreshes = [r \in Requests |-> NoRequest]
    /\ posts = [p \in Posts |-> "none"]
    /\ disabled = FALSE
    /\ cooldownLeft = 0
    /\ failures = 0
    /\ lost = FALSE
    /\ timer = refreshOn
    /\ changes = 0

(* A poll of the server's own. *)
NewReading ==
    /\ data < MaxData
    /\ data' = data + 1
    /\ UNCHANGED <<serverLeft, up, refreshOn, url, shown, refreshes, posts, button, link, timer, changes>>

Outage ==
    /\ up
    /\ changes < MaxChanges
    /\ up' = FALSE
    /\ changes' = changes + 1
    /\ UNCHANGED <<data, serverLeft, refreshOn, url, shown, refreshes, posts, button, link, timer>>

Back ==
    /\ ~up
    /\ up' = TRUE
    /\ UNCHANGED <<data, serverLeft, refreshOn, url, shown, refreshes, posts, button, link, timer, changes>>

(* navigate(): the URL changes at once, the content when it is answered. *)
Navigate(view) ==
    /\ changes < MaxChanges
    /\ changes' = changes + 1
    /\ url' = view
    /\ Refresh(view)
    /\ UNCHANGED <<server, shown, posts, button, link, timer>>

TimerFires ==
    /\ timer
    /\ Refresh(url)
    /\ UNCHANGED <<server, url, shown, posts, button, link, timer, changes>>

Serve(r) ==
    /\ up
    /\ refreshes[r].at = "sent"
    /\ refreshes' = [refreshes EXCEPT ![r].at = "served", ![r].data = data,
                                      ![r].cooldown = serverLeft]
    /\ UNCHANGED <<server, url, shown, posts, button, link, timer, changes>>

(* adoptServerCooldown on the new button, and applyCooldown. *)
StartCooldown(seconds) ==
    /\ cooldownLeft' = Max({cooldownLeft, seconds})
    /\ disabled' = (cooldownLeft' > 0)

Rendered(r) ==
    /\ refreshes[r].at = "served"
    /\ shown' = [view |-> refreshes[r].view, data |-> refreshes[r].data]
    /\ refreshes' = [refreshes EXCEPT ![r] = NoRequest]
    /\ failures' = 0
    /\ lost' = FALSE
    /\ timer' = refreshOn
    /\ StartCooldown(refreshes[r].cooldown)
    /\ UNCHANGED <<server, url, posts, changes>>

(* Fault: a failed request stops the timer. *)
RefreshFailsForGood(r) ==
    /\ ~up
    /\ refreshes[r].at # "none"
    /\ refreshes' = [refreshes EXCEPT ![r] = NoRequest]
    /\ MarkLost
    /\ timer' = FALSE
    /\ UNCHANGED <<server, url, shown, posts, button, changes>>

RefreshFails(r) ==
    /\ ~up
    /\ refreshes[r].at # "none"
    /\ refreshes' = [refreshes EXCEPT ![r] = NoRequest]
    /\ MarkLost
    /\ UNCHANGED <<server, url, shown, posts, button, timer, changes>>

(* pollNow: the click disables the button and posts. *)
Click(p) ==
    /\ ~disabled
    /\ posts[p] = "none"
    /\ posts' = [posts EXCEPT ![p] = "sent"]
    /\ disabled' = TRUE
    /\ UNCHANGED <<server, url, shown, refreshes, cooldownLeft, link, timer, changes>>

(* Poller.force_poll stamps the time before it waits for the poll. *)
ForcePoll(p) ==
    /\ up
    /\ posts[p] = "sent"
    /\ posts' = [posts EXCEPT ![p] = IF serverLeft > 0 THEN "refused" ELSE "polling"]
    /\ serverLeft' = IF serverLeft > 0 THEN serverLeft ELSE Cooldown
    /\ UNCHANGED <<data, up, refreshOn, url, shown, refreshes, button, link, timer, changes>>

(* The answer carries what is left of the cooldown, and a refresh follows. *)
PollAnswered(p) ==
    /\ up
    /\ posts[p] \in {"polling", "refused"}
    /\ posts' = [posts EXCEPT ![p] = "none"]
    /\ data' = IF posts[p] = "polling" THEN Min({data + 1, MaxData}) ELSE data
    /\ StartCooldown(serverLeft)
    /\ Refresh(url)
    /\ UNCHANGED <<serverLeft, up, refreshOn, url, shown, link, timer, changes>>

PollFails(p) ==
    /\ ~up
    /\ posts[p] # "none"
    /\ posts' = [posts EXCEPT ![p] = "none"]
    /\ MarkLost
    /\ StartCooldown(0)
    /\ UNCHANGED <<server, url, shown, refreshes, timer, changes>>

Less(n) == IF n = 0 THEN 0 ELSE n - 1

(* Fault: the ticker leaves a disabled button alone. *)
SecondKeepsButton ==
    /\ serverLeft' = Less(serverLeft)
    /\ cooldownLeft' = Less(cooldownLeft)
    /\ disabled' = (disabled \/ cooldownLeft' > 0)
    /\ UNCHANGED <<data, up, refreshOn, url, shown, refreshes, posts, link, timer, changes>>

(* A second passes, and the ticker applies the cooldown. *)
Second ==
    /\ serverLeft' = Less(serverLeft)
    /\ cooldownLeft' = Less(cooldownLeft)
    /\ disabled' = (cooldownLeft' > 0)
    /\ UNCHANGED <<data, up, refreshOn, url, shown, refreshes, posts, link, timer, changes>>

Next ==
    \/ NewReading \/ Outage \/ Back \/ Second \/ TimerFires
    \/ \E view \in Views : Navigate(view)
    \/ \E r \in Requests : Serve(r) \/ Rendered(r) \/ RefreshFails(r)
    \/ \E p \in Posts : Click(p) \/ ForcePoll(p) \/ PollAnswered(p) \/ PollFails(p)

(* The browser's timers go on, the server comes back and answers.  Nothing *)
(* is assumed of clicks, of changes of view or of new readings.            *)
Fairness ==
    /\ WF_vars(Back) /\ WF_vars(Second) /\ WF_vars(TimerFires)
    /\ \A r \in Requests : WF_vars(Serve(r)) /\ WF_vars(Rendered(r))
    /\ \A p \in Posts : WF_vars(ForcePoll(p)) /\ WF_vars(PollAnswered(p))

Spec == Init /\ [][Next]_vars /\ Fairness

-----------------------------------------------------------------------------
(* Every variable keeps its type. *)
TypeOK ==
    /\ data \in 0..MaxData
    /\ {serverLeft, cooldownLeft} \subseteq 0..Cooldown
    /\ url \in Views
    /\ shown \in [view : Views, data : 0..data]
    /\ refreshes \in [Requests -> [at : {"none", "sent", "served"}, view : Views,
                                   data : 0..MaxData, cooldown : 0..Cooldown]]
    /\ posts \in [Posts -> {"none", "sent", "polling", "refused"}]
    /\ {up, refreshOn, disabled, lost, timer} \subseteq BOOLEAN
    /\ failures \in 0..2

(* app.js refresh and schedule: however answers overtake each other, fail   *)
(* or come for a view left behind, the page ends up showing the view in its *)
(* address bar with the newest reading, and without the "link lost" mark.   *)
PageCatchesUp ==
    refreshOn => <>[](shown = [view |-> url, data |-> data] /\ ~lost)

(* app.js applyCooldown: the button never stays disabled for good, whether  *)
(* its answer came, failed or was overtaken by a refresh that replaced it.  *)
ButtonComesBack == []<>~disabled

(* app.js pollNow: "a second click while one is in flight does nothing".    *)
OnePollInFlight == Cardinality({p \in Posts : posts[p] # "none"}) <= 1

=============================================================================
