------------------------------- MODULE Poller -------------------------------
(***************************************************************************)
(* The poller of quotalens/poller.py: one asyncio loop task and any number *)
(* of forced polls (POST /api/poll) share one client and one lock.  An     *)
(* action runs from one `await` of the source to the next, so the actions  *)
(* interleave exactly where the event loop may switch tasks.               *)
(*                                                                         *)
(* Abstracted: the content of the payloads and of the rows (other modules  *)
(* model what is derived from them).  Time is counted in ticks; `sleep`    *)
(* and `cooldown` are the seconds that remain, not wall-clock instants.    *)
(***************************************************************************)
EXTENDS Integers, Sequences, FiniteSets

CONSTANTS
    Loop,           \* the task that runs Poller.run
    Requests,       \* the handlers of POST /api/poll that may be in flight
    Cookies,        \* session cookies the secret store may hold
    NoCookie,       \* no cookie stored; also "no client"
    Intervals,      \* values of settings.poll_interval_s
    MaxBackoffS, AuthRetryS, RateLimitMinS, RateLimitMaxS, ForceMinS,
    RetryAfters,    \* Retry-After of a 429; 0 when the header is missing
    FailureCap,     \* bound: the failure counters saturate here
    StoreMayFail,   \* whether a read or a write of the store may raise
    UpdateChecks    \* whether settings.update_check is on

Seconds == {MaxBackoffS, AuthRetryS, RateLimitMinS, RateLimitMaxS, ForceMinS}

ASSUME PollerAssumption ==
    /\ Loop \notin Requests
    /\ NoCookie \notin Cookies
    /\ Intervals \subseteq Nat \ {0}
    /\ Seconds \subseteq Nat \ {0}
    /\ 0 \in RetryAfters /\ RetryAfters \subseteq Nat
    /\ FailureCap \in Nat \ {0}
    /\ StoreMayFail \in BOOLEAN /\ UpdateChecks \in BOOLEAN

VARIABLES
    pc,             \* pc[t]: where task t stands in poll_once; "out" is outside
    queue,          \* the asyncio.Lock: its head holds it, the rest wait in order
    using,          \* using[t]: the cookie task t read at the start of its poll
    client,         \* self._client, named by its cookie
    open,           \* clients created and not closed
    cookie,         \* what the secret store holds
    settings,       \* settings.poll_interval_s as last adopted
    interval,       \* schedule.interval_s
    failures, rateHits,              \* schedule.failures, schedule.rate_limit_hits
    state, consecutive,              \* status.state, status.consecutive_failures
    returned,       \* how the last completed poll_once ended
    overageFetched, overageFailed,   \* self._overage_fetched, _overage_failed_once
    planFetched,    \* self._plan_fetched
    sleep,          \* seconds left of the loop's wait for the next poll
    alive,          \* the loop's task has not ended with an exception
    cooldown,       \* cooldown_remaining()
    sinceForced,    \* history: ticks since a forced poll was accepted (saturating)
    forceNote,      \* status.extra["force_note"] is set
    phase           \* of the application's lifespan

taskVars == <<pc, queue, using>>
clientVars == <<client, open>>
scheduleVars == <<failures, rateHits>>
statusVars == <<state, consecutive, returned>>
fetchVars == <<overageFetched, overageFailed, planFetched>>
loopVars == <<sleep, alive>>
forceVars == <<cooldown, sinceForced, forceNote>>
configVars == <<cookie, settings, interval, phase>>
vars == <<taskVars, clientVars, scheduleVars, statusVars, fetchVars, forceVars,
          configVars, loopVars>>

Tasks == Requests \cup {Loop}
InPoll == {"closing", "usage", "overage", "plan"}
Stages == {"out", "queued"} \cup InPoll
Failed == {"error", "auth_expired", "blocked", "rate_limited", "no_cookie",
           "keyring_error"}
States == {"starting", "ok"} \cup Failed

\* What an awaited request can come back with: an answer or one ClientError.
Answers == {"ok", "error", "auth_expired", "blocked", "rate_limited"}

Lesser(a, b) == IF a <= b THEN a ELSE b
Greater(a, b) == IF a >= b THEN a ELSE b
Bump(n) == Lesser(n + 1, FailureCap)

Init ==
    /\ pc = [t \in Tasks |-> "out"]
    /\ queue = <<>>
    /\ using = [t \in Tasks |-> NoCookie]
    /\ client = NoCookie
    /\ open = {}
    /\ cookie \in Cookies \cup {NoCookie}
    /\ settings \in Intervals
    /\ interval = settings
    /\ failures = 0 /\ rateHits = 0
    /\ state = "starting" /\ consecutive = 0 /\ returned = "none"
    /\ overageFetched = FALSE /\ overageFailed = FALSE /\ planFetched = FALSE
    /\ sleep = 0 /\ alive = TRUE
    /\ cooldown = 0 /\ sinceForced = ForceMinS /\ forceNote = FALSE
    /\ phase = "running"

-----------------------------------------------------------------------------
(* Schedule: the delay before the next poll.                               *)

OnFailure(n) == Lesser(interval * 2^(n - 1), MaxBackoffS)

OnRateLimited(hits, retryAfter) ==
    Greater(Lesser(RateLimitMinS * 2^(hits - 1), RateLimitMaxS), retryAfter)

(* Fault: the forced poll's delay becomes the loop's.                      *)
ReturnToAll(t, d) ==
    /\ pc' = [pc EXCEPT ![t] = "out"]
    /\ using' = [using EXCEPT ![t] = NoCookie]
    /\ queue' = Tail(queue)
    /\ sleep' = d /\ UNCHANGED alive

(* _maybe_check_updates reads when the last check was, outside the `try`   *)
(* of run(): an error of that read ends the loop's task.  It is read once  *)
(* FIRST_CHECK_DELAY_S have passed and while no check is under way.        *)
MaybeCheckUpdates ==
    \/ UNCHANGED alive
    \/ UpdateChecks /\ StoreMayFail /\ alive' = FALSE

(* poll_once returns delay d: the lock goes to the next waiter, and only   *)
(* the loop checks for updates and sleeps for d; a forced poll's delay is  *)
(* dropped.                                                                *)
Return(t, d) ==
    /\ pc' = [pc EXCEPT ![t] = "out"]
    /\ using' = [using EXCEPT ![t] = NoCookie]
    /\ queue' = Tail(queue)
    /\ \/ t = Loop /\ sleep' = d /\ MaybeCheckUpdates
       \/ t # Loop /\ UNCHANGED loopVars

(* The handlers of _poll_once_unlocked, one Schedule method per state.     *)
Reschedule(t, failed) ==
    /\ failures' = Bump(failures)
    /\ rateHits' = IF failed = "rate_limited" THEN Bump(rateHits) ELSE rateHits
    /\ \/ failed = "error" /\ Return(t, OnFailure(failures'))
       \/ /\ failed = "rate_limited"
          /\ \E retryAfter \in RetryAfters : Return(t, OnRateLimited(rateHits', retryAfter))
       \/ failed \notin {"error", "rate_limited"} /\ Return(t, AuthRetryS)

(* record_event raised inside the handler: the exception leaves poll_once. *)
(* run() catches it and backs off; a forced poll answers with an error.    *)
Raise(t) ==
    /\ StoreMayFail
    /\ failures' = IF t = Loop THEN Bump(failures) ELSE failures
    /\ Return(t, OnFailure(Bump(failures)))
    /\ returned' = "raised"
    /\ UNCHANGED rateHits

(* _fail and the handler that called it.                                   *)
Fail(t, failed) ==
    /\ state' = failed
    /\ consecutive' = Bump(consecutive)
    /\ \/ Reschedule(t, failed) /\ returned' = "delay"
       \/ Raise(t)

(* The end of _collect.                                                    *)
Succeed(t) ==
    /\ state' = "ok" /\ consecutive' = 0 /\ returned' = "delay"
    /\ failures' = 0 /\ rateHits' = 0
    /\ Return(t, interval)

-----------------------------------------------------------------------------
(* One poll, from await to await.                                          *)

Goto(t, stage) ==
    /\ pc' = [pc EXCEPT ![t] = stage]
    /\ UNCHANGED <<queue, scheduleVars, statusVars, loopVars>>

(* Fault: the lock is not waited for.                                      *)
GrantedAtOnce(t) == pc[t] = "queued"

(* `async with self._poll_lock()` lets the task in.                        *)
Granted(t) == pc[t] = "queued" /\ t = Head(queue)

(* There is no client of another cookie to close first.                    *)
NothingToClose(c) == client \in {NoCookie, c}

(* The lock is granted: read the cookie, and open a client for it unless   *)
(* the current one already uses it.  A client for another cookie is closed *)
(* first, which awaits.                                                    *)
Begin(t) ==
    /\ Granted(t)
    /\ \/ Fail(t, "keyring_error") /\ UNCHANGED clientVars
       \/ /\ cookie = NoCookie
          /\ Fail(t, "no_cookie") /\ UNCHANGED clientVars
       \/ /\ cookie # NoCookie
          /\ using' = [using EXCEPT ![t] = cookie]
          /\ IF NothingToClose(cookie)
             THEN /\ client' = cookie
                  /\ open' = open \cup {cookie}
                  /\ Goto(t, "usage")
             ELSE Goto(t, "closing") /\ UNCHANGED clientVars
    /\ UNCHANGED <<fetchVars, forceVars, configVars>>

(* The old client's close returned (or raised, which fails the poll).      *)
Closed(t) ==
    /\ pc[t] = "closing"
    /\ \/ /\ open' = (open \ {client}) \cup {using[t]}
          /\ client' = using[t]
          /\ Goto(t, "usage") /\ UNCHANGED using
       \/ Fail(t, "error") /\ UNCHANGED clientVars
    /\ UNCHANGED <<fetchVars, forceVars, configVars>>

(* What follows the overage step without another await: session rebuild    *)
(* and the post-poll checks, each guarded, then the plan if it is due      *)
(* (the first good poll, then daily).  A store error may escape.           *)
Derive(t) ==
    \/ /\ planFetched' = TRUE /\ Goto(t, "plan") /\ UNCHANGED using
    \/ planFetched /\ UNCHANGED planFetched /\ Succeed(t)
    \/ StoreMayFail /\ UNCHANGED planFetched /\ Fail(t, "error")

(* fetch_usage answered; the sample and the readings are stored, and the   *)
(* overage endpoint is asked once and then only while the payload carries  *)
(* no spend block.  A ParseError and a store error count as "error".       *)
UsageAnswer(t) ==
    /\ pc[t] = "usage"
    /\ \/ /\ \E answer \in Answers \ {"ok"} : Fail(t, answer)
          /\ UNCHANGED fetchVars
       \/ /\ overageFetched' = TRUE
          /\ Goto(t, "overage") /\ UNCHANGED <<using, overageFailed, planFetched>>
       \/ /\ overageFetched
          /\ Derive(t) /\ UNCHANGED <<overageFetched, overageFailed>>
    /\ UNCHANGED <<clientVars, forceVars, configVars>>

(* fetch_overage answered.  A 401 fails the poll; any other ClientError    *)
(* only marks the endpoint as failing; a store error fails the poll.       *)
OverageAnswer(t) ==
    /\ pc[t] = "overage"
    /\ \/ Fail(t, "auth_expired") /\ UNCHANGED fetchVars
       \/ /\ overageFailed' \in BOOLEAN
          /\ \/ Derive(t)
             \/ StoreMayFail /\ Fail(t, "error") /\ UNCHANGED planFetched
          /\ UNCHANGED overageFetched
    /\ UNCHANGED <<clientVars, forceVars, configVars>>

(* Fault: a failing plan refresh fails the poll, without telling status.   *)
PlanAnswerUnreported(t) ==
    /\ pc[t] = "plan"
    /\ \/ Succeed(t)
       \/ Reschedule(t, "error") /\ UNCHANGED statusVars
    /\ UNCHANGED <<clientVars, fetchVars, forceVars, configVars>>

(* fetch_bootstrap answered: whatever it said, refresh_plan does not raise *)
(* and the poll is good.                                                   *)
PlanAnswer(t) ==
    /\ pc[t] = "plan"
    /\ Succeed(t)
    /\ UNCHANGED <<clientVars, fetchVars, forceVars, configVars>>

Step(t) ==
    \/ Begin(t)
    \/ Closed(t)
    \/ UsageAnswer(t)
    \/ OverageAnswer(t)
    \/ PlanAnswer(t)

-----------------------------------------------------------------------------
(* Who asks for a poll.                                                    *)

(* Fault: a lock whose next holder is its newest waiter.                   *)
EnqueueNewestFirst(t) ==
    /\ pc' = [pc EXCEPT ![t] = "queued"]
    /\ queue' = IF queue = <<>> THEN <<t>>
                ELSE <<Head(queue), t>> \o Tail(queue)

Enqueue(t) ==
    /\ pc' = [pc EXCEPT ![t] = "queued"]
    /\ queue' = Append(queue, t)

(* The loop's wait ran out.                                                *)
Wake ==
    /\ phase = "running" /\ alive /\ pc[Loop] = "out" /\ sleep <= 0
    /\ Enqueue(Loop)
    /\ UNCHANGED <<using, clientVars, scheduleVars, statusVars, fetchVars,
                   forceVars, configVars, loopVars>>

(* Fault: the cooldown is stamped only when no poll is running.            *)
ForcePollUnstamped(r) ==
    /\ phase = "running" /\ pc[r] = "out"
    /\ \/ /\ cooldown = 0
          /\ cooldown' = IF queue = <<>> THEN ForceMinS ELSE 0
          /\ sinceForced' = 0 /\ forceNote' = FALSE
          /\ Enqueue(r)
       \/ /\ cooldown > 0
          /\ forceNote' = TRUE
          /\ UNCHANGED <<pc, queue, cooldown, sinceForced>>
    /\ UNCHANGED <<using, clientVars, scheduleVars, statusVars, fetchVars,
                   configVars, loopVars>>

(* force_poll: the cooldown is stamped before the first await.             *)
ForcePoll(r) ==
    /\ phase = "running" /\ pc[r] = "out"
    /\ \/ /\ cooldown = 0
          /\ cooldown' = ForceMinS /\ sinceForced' = 0 /\ forceNote' = FALSE
          /\ Enqueue(r)
       \/ /\ cooldown > 0
          /\ forceNote' = TRUE
          /\ UNCHANGED <<pc, queue, cooldown, sinceForced>>
    /\ UNCHANGED <<using, clientVars, scheduleVars, statusVars, fetchVars,
                   configVars, loopVars>>

(* The second half of the event loop's life: the server drains its         *)
(* requests, then stop() cancels the loop wherever it stands.  The lock is *)
(* released with it; with no request in flight nobody else can be queued.  *)
(* Awaiting a task that has ended with an error raises it out of stop().   *)
Stop ==
    /\ phase = "running"
    /\ \A r \in Requests : pc[r] = "out"
    /\ phase' = IF alive THEN "stopping" ELSE "aborted"
    /\ pc' = [pc EXCEPT ![Loop] = "out"]
    /\ using' = [using EXCEPT ![Loop] = NoCookie]
    /\ queue' = <<>>
    /\ UNCHANGED <<clientVars, scheduleVars, statusVars, fetchVars, forceVars,
                   cookie, settings, interval, loopVars>>

(* ... and closes the client.                                              *)
CloseOnStop ==
    /\ phase = "stopping"
    /\ phase' = "stopped"
    /\ open' = open \ {client}
    /\ client' = NoCookie
    /\ UNCHANGED <<taskVars, scheduleVars, statusVars, fetchVars, forceVars,
                   cookie, settings, interval, loopVars>>

(* `quotalens auth` stores, replaces or removes the cookie at any time.    *)
SetCookie(c) ==
    /\ cookie' = c
    /\ UNCHANGED <<taskVars, clientVars, scheduleVars, statusVars, fetchVars,
                   forceVars, settings, interval, phase, loopVars>>

(* adopt(): the settings value is replaced; the schedule keeps its own.    *)
Adopt(i) ==
    /\ settings' = i
    /\ UNCHANGED <<taskVars, clientVars, scheduleVars, statusVars, fetchVars,
                   forceVars, cookie, interval, phase, loopVars>>

Countdown(n) == IF n > 0 THEN n - 1 ELSE n

Tick ==
    /\ sleep > 0 \/ cooldown > 0
    /\ sleep' = Countdown(sleep)
    /\ cooldown' = Countdown(cooldown)
    /\ sinceForced' = Lesser(sinceForced + 1, ForceMinS)
    /\ UNCHANGED <<taskVars, clientVars, scheduleVars, statusVars, fetchVars,
                   forceNote, configVars, alive>>

Next ==
    \/ Wake
    \/ \E t \in Tasks : Step(t)
    \/ \E r \in Requests : ForcePoll(r)
    \/ Stop
    \/ CloseOnStop
    \/ \E c \in Cookies \cup {NoCookie} : SetCookie(c)
    \/ \E i \in Intervals : Adopt(i)
    \/ Tick

Spec == Init /\ [][Next]_vars

(* Fetches end (every request carries a timeout), time passes and the      *)
(* event loop runs what is ready.  Forced polls, settings and cookies owe  *)
(* nothing.                                                                *)
Fairness ==
    /\ WF_vars(Tick)
    /\ WF_vars(Wake)
    /\ \A t \in Tasks : WF_vars(Step(t))
    /\ WF_vars(CloseOnStop)

FairSpec == Spec /\ Fairness

-----------------------------------------------------------------------------
(* Type invariant.                                                         *)
TypeOK ==
    /\ pc \in [Tasks -> Stages]
    /\ queue \in Seq(Tasks)
    /\ using \in [Tasks -> Cookies \cup {NoCookie}]
    /\ client \in Cookies \cup {NoCookie}
    /\ open \in SUBSET Cookies
    /\ cookie \in Cookies \cup {NoCookie}
    /\ settings \in Intervals /\ interval \in Intervals
    /\ failures \in 0..FailureCap /\ rateHits \in 0..FailureCap
    /\ state \in States /\ consecutive \in 0..FailureCap
    /\ returned \in {"none", "delay", "raised"}
    /\ overageFetched \in BOOLEAN /\ overageFailed \in BOOLEAN
    /\ planFetched \in BOOLEAN
    /\ sleep \in Int /\ alive \in BOOLEAN
    /\ cooldown \in 0..ForceMinS /\ sinceForced \in 0..ForceMinS
    /\ forceNote \in BOOLEAN
    /\ phase \in {"running", "stopping", "stopped", "aborted"}

(* "Serialised: the loop and a forced poll never overlap" (poll_once).     *)
(* Whoever is between the awaits of a poll holds the lock, so no two tasks *)
(* ever read and replace the previous reading, or the client, at once.     *)
OnePollAtATime ==
    \A t \in Tasks : pc[t] \in InPoll => queue # <<>> /\ Head(queue) = t

(* A poll never works with a client that has been closed under it, across  *)
(* cookie changes, forced polls and shutdown (_client_for_current_cookie). *)
ClientInUseIsOpen ==
    \A t \in Tasks : pc[t] \in InPoll \ {"closing"} =>
        using[t] = client /\ client \in open

(* No client is left open behind the current one, and none at all after    *)
(* stop() has returned.                                                    *)
NoClientLeaks ==
    /\ open \subseteq {client}
    /\ phase = "stopped" => open = {}

(* The failures the schedule backs off on are failures /api/health shows,  *)
(* never more, and the rate-limit hits are among them.                     *)
CountsAgree ==
    /\ rateHits <= failures
    /\ failures <= consecutive

(* They are exactly as many as long as no poll_once raises out of its      *)
(* handler: the two counters are kept in different objects, by different   *)
(* lines, and must not drift over any mix of loop and forced polls.        *)
CountsEqual == ~StoreMayFail => failures = consecutive

(* The state /api/health shows and the count beside it tell the same story *)
(* after any interleaving of loop and forced polls.                        *)
StateMatchesCounts == state \in Failed <=> consecutive > 0

(* A forced poll never moves the loop's own timer: it grows only when the  *)
(* loop itself comes back from a poll.                                     *)
OnlyTheLoopSetsItsTimer ==
    [][sleep' > sleep => pc[Loop] # "out" /\ pc'[Loop] = "out"]_vars

(* FORCE_MIN_INTERVAL_S passes between two accepted forced polls, however  *)
(* many requests arrive while an earlier one is still waiting for the lock.*)
ForcedPollsAreSpaced ==
    [][\A r \in Requests : pc[r] = "out" /\ pc'[r] = "queued"
          => sinceForced = ForceMinS]_vars

(* For an interval no longer than RATE_LIMIT_MIN_S, the loop waits at      *)
(* least as long after a failed poll as after a good one, and never beyond *)
(* the largest of the ceilings and the server's own Retry-After.           *)
LoopFailed == pc[Loop] # "out" /\ pc'[Loop] = "out" /\ consecutive' > 0
              /\ phase' = "running"

BackoffIsBounded ==
    [][LoopFailed /\ interval <= RateLimitMinS =>
          /\ sleep' >= interval
          /\ \E s \in {MaxBackoffS, AuthRetryS, RateLimitMaxS} \cup RetryAfters :
                sleep' <= s]_vars

(* "enough for the interval ... to be live on the next poll" (adopt): the  *)
(* wait after a good poll is the adopted interval.                         *)
AdoptedIntervalIsLive ==
    [][pc[Loop] # "out" /\ pc'[Loop] = "out" /\ state' = "ok" /\ phase' = "running"
          => sleep' = settings]_vars

(* The loop polls for ever: neither failures, nor the exceptions of a poll,*)
(* nor a stream of forced polls stop it or keep it waiting for the lock.   *)
(* "The loop must survive anything" (_poll_once_unlocked) holds of all but *)
(* one: the read of the last update check, which run() makes outside its   *)
(* `try`, ends it.  Without store errors, or with the check off, it does   *)
(* poll for ever.                                                          *)
LoopKeepsPolling ==
    \/ <>(phase # "running")
    \/ []<>(pc[Loop] = "queued") /\ []<>(pc[Loop] = "out")
    \/ UpdateChecks /\ StoreMayFail /\ <>(~alive)

(* An accepted forced poll comes back to its caller, also when the loop    *)
(* has ended.                                                              *)
ForcedPollReturns ==
    \A r \in Requests : pc[r] = "queued" ~> pc[r] = "out"

(* Polls go on, and every one that was asked for comes back.               *)
PollsComeBack == LoopKeepsPolling /\ ForcedPollReturns

=============================================================================
