---------------------------- MODULE PollerProofs ----------------------------
(***************************************************************************)
(* Theorems about Poller, for every set of requests and cookies and every  *)
(* value of the schedule's constants.                                      *)
(***************************************************************************)
EXTENDS Poller, TLAPS

(* The saturating counters stay in range, and a bumped one is positive.    *)
LEMMA BumpType ==
    ASSUME NEW n \in 0..FailureCap
    PROVE  Bump(n) \in 1..FailureCap
  BY PollerAssumption DEF Bump, Lesser

(* The schedule's delays are numbers.                                      *)
LEMMA DelayType ==
    ASSUME interval \in Intervals, NEW n \in 1..FailureCap, NEW ra \in RetryAfters
    PROVE  /\ OnFailure(n) \in Int
           /\ OnRateLimited(n, ra) \in Int
           /\ AuthRetryS \in Int
           /\ interval \in Int
  <1>1. 2^(n - 1) \in Int
    BY PollerAssumption
  <1>2. /\ interval \in Int /\ MaxBackoffS \in Int /\ AuthRetryS \in Int
        /\ RateLimitMinS \in Int /\ RateLimitMaxS \in Int /\ ra \in Int
    BY PollerAssumption DEF Seconds
  <1>3. interval * 2^(n - 1) \in Int /\ RateLimitMinS * 2^(n - 1) \in Int
    BY <1>1, <1>2
  <1> QED
    BY <1>2, <1>3 DEF OnFailure, OnRateLimited, Lesser, Greater

(***************************************************************************)
(* The inductive invariant.  OnePollAtATime alone is not inductive: that   *)
(* the holder is alone needs the queue to name every task inside poll_once *)
(* exactly once.  ClientInUseIsOpen needs to know what a client being      *)
(* closed is, and that nothing runs once stop() was called.                *)
(***************************************************************************)
LockInv ==
    /\ \A i, j \in 1..Len(queue) : queue[i] = queue[j] => i = j
    /\ \A t \in Tasks : pc[t] # "out" <=> \E i \in 1..Len(queue) : queue[i] = t
    /\ OnePollAtATime

ClientInv ==
    /\ open = {client} \ {NoCookie}
    /\ \A t \in Tasks :
          /\ pc[t] \in InPoll \ {"closing"} => using[t] = client /\ client # NoCookie
          /\ pc[t] = "closing" => using[t] # NoCookie
    /\ phase # "running" => \A t \in Tasks : pc[t] = "out"
    /\ phase = "stopped" => client = NoCookie

IInv == TypeOK /\ LockInv /\ ClientInv

(***************************************************************************)
(* What a step does to tasks, queue and clients, whatever else it does.    *)
(***************************************************************************)

(* Task t leaves poll_once; the clients are not touched.                   *)
Leaves(t) ==
    /\ t = Head(queue) /\ queue # <<>>
    /\ pc' = [pc EXCEPT ![t] = "out"]
    /\ using' = [using EXCEPT ![t] = NoCookie]
    /\ queue' = Tail(queue)
    /\ UNCHANGED clientVars

(* Task t moves on inside its poll.                                        *)
Advances(t, stage) ==
    /\ t = Head(queue) /\ queue # <<>>
    /\ pc' = [pc EXCEPT ![t] = stage]
    /\ UNCHANGED queue

(* It adopts the client for the cookie it read,                            *)
TakesClient(t) ==
    /\ pc[t] = "queued" /\ cookie # NoCookie /\ client \in {NoCookie, cookie}
    /\ Advances(t, "usage")
    /\ using' = [using EXCEPT ![t] = cookie]
    /\ client' = cookie /\ open' = open \cup {cookie}

(* or starts closing the client of another cookie,                         *)
StartsClosing(t) ==
    /\ pc[t] = "queued" /\ cookie # NoCookie /\ client # NoCookie
    /\ Advances(t, "closing")
    /\ using' = [using EXCEPT ![t] = cookie]
    /\ UNCHANGED clientVars

(* or replaces that client,                                                *)
ReplacesClient(t) ==
    /\ pc[t] = "closing"
    /\ Advances(t, "usage")
    /\ client' = using[t] /\ open' = (open \ {client}) \cup {using[t]}
    /\ UNCHANGED using

(* or goes on to a later request with the same client.                     *)
Continues(t) ==
    /\ pc[t] \in InPoll \ {"closing"}
    /\ \E stage \in InPoll \ {"closing"} : Advances(t, stage)
    /\ UNCHANGED <<using, clientVars>>

Moves(t) ==
    Leaves(t) \/ TakesClient(t) \/ StartsClosing(t) \/ ReplacesClient(t) \/ Continues(t)

(* A task that failed or succeeded has left poll_once.                     *)
LEMMA FailLeaves ==
    ASSUME NEW t \in Tasks, NEW failed, Fail(t, failed), UNCHANGED clientVars,
           t = Head(queue), queue # <<>>
    PROVE  Leaves(t)
  BY DEF Fail, Reschedule, Raise, Return, Leaves

LEMMA SucceedLeaves ==
    ASSUME NEW t \in Tasks, Succeed(t), UNCHANGED clientVars,
           t = Head(queue), queue # <<>>
    PROVE  Leaves(t)
  BY DEF Succeed, Return, Leaves

LEMMA DeriveMoves ==
    ASSUME NEW t \in Tasks, Derive(t), UNCHANGED clientVars,
           t = Head(queue), queue # <<>>, pc[t] \in InPoll \ {"closing"}
    PROVE  Leaves(t) \/ Continues(t)
  <1>1. CASE Goto(t, "plan") /\ UNCHANGED using
    BY <1>1 DEF Goto, Continues, Advances, InPoll
  <1>2. CASE Succeed(t)
    BY <1>2, SucceedLeaves
  <1>3. CASE Fail(t, "error")
    BY <1>3, FailLeaves
  <1> QED
    BY <1>1, <1>2, <1>3 DEF Derive

(* Every step of a poll is one of the moves.                               *)
LEMMA StepMoves ==
    ASSUME IInv, NEW t \in Tasks, Step(t)
    PROVE  Moves(t)
  <1>1. pc[t] \in InPoll => t = Head(queue) /\ queue # <<>>
    BY DEF IInv, LockInv, OnePollAtATime
  <1>2. pc[t] = "queued" => queue # <<>>
    BY DEF IInv, LockInv, TypeOK
  <1>3. CASE Begin(t)
    <2>1. t = Head(queue) /\ queue # <<>> /\ pc[t] = "queued"
      BY <1>2, <1>3 DEF Begin, Granted, NothingToClose
    <2>2. CASE \E failed : Fail(t, failed) /\ UNCHANGED clientVars
      BY <2>1, <2>2, FailLeaves DEF Moves
    <2>3. CASE /\ cookie # NoCookie
               /\ using' = [using EXCEPT ![t] = cookie]
               /\ IF client \in {NoCookie, cookie}
                  THEN /\ client' = cookie
                       /\ open' = open \cup {cookie}
                       /\ Goto(t, "usage")
                  ELSE Goto(t, "closing") /\ UNCHANGED clientVars
      <3>1. CASE client \in {NoCookie, cookie}
        BY <2>1, <2>3, <3>1 DEF Moves, TakesClient, Advances, Goto
      <3>2. CASE client \notin {NoCookie, cookie}
        BY <2>1, <2>3, <3>2 DEF Moves, StartsClosing, Advances, Goto
      <3> QED
        BY <3>1, <3>2
    <2> QED
      BY <1>3, <2>2, <2>3 DEF Begin, Granted, NothingToClose
  <1>4. CASE Closed(t)
    <2>1. t = Head(queue) /\ queue # <<>> /\ pc[t] = "closing"
      BY <1>1, <1>4 DEF Closed, InPoll
    <2>2. CASE Fail(t, "error") /\ UNCHANGED clientVars
      BY <2>1, <2>2, FailLeaves DEF Moves
    <2>3. CASE /\ open' = (open \ {client}) \cup {using[t]}
               /\ client' = using[t]
               /\ Goto(t, "usage") /\ UNCHANGED using
      BY <2>1, <2>3 DEF Moves, ReplacesClient, Advances, Goto
    <2> QED
      BY <1>4, <2>2, <2>3 DEF Closed
  <1>5. CASE UsageAnswer(t)
    <2>1. t = Head(queue) /\ queue # <<>> /\ pc[t] \in InPoll \ {"closing"}
      BY <1>1, <1>5 DEF UsageAnswer, InPoll
    <2>2. UNCHANGED clientVars
      BY <1>5 DEF UsageAnswer
    <2>3. CASE \E answer : Fail(t, answer)
      BY <2>1, <2>2, <2>3, FailLeaves DEF Moves
    <2>4. CASE Goto(t, "overage") /\ UNCHANGED using
      BY <2>1, <2>2, <2>4 DEF Moves, Continues, Advances, Goto, InPoll
    <2>5. CASE Derive(t)
      BY <2>1, <2>2, <2>5, DeriveMoves DEF Moves
    <2> QED
      BY <1>5, <2>3, <2>4, <2>5 DEF UsageAnswer
  <1>6. CASE OverageAnswer(t)
    <2>1. t = Head(queue) /\ queue # <<>> /\ pc[t] \in InPoll \ {"closing"}
      BY <1>1, <1>6 DEF OverageAnswer, InPoll
    <2>2. UNCHANGED clientVars
      BY <1>6 DEF OverageAnswer
    <2>3. CASE \E answer : Fail(t, answer)
      BY <2>1, <2>2, <2>3, FailLeaves DEF Moves
    <2>4. CASE Derive(t)
      BY <2>1, <2>2, <2>4, DeriveMoves DEF Moves
    <2> QED
      BY <1>6, <2>3, <2>4 DEF OverageAnswer
  <1>7. CASE PlanAnswer(t)
    BY <1>1, <1>7, SucceedLeaves DEF PlanAnswer, Moves, InPoll
  <1> QED
    BY <1>3, <1>4, <1>5, <1>6, <1>7 DEF Step

(* A move of a poll keeps the lock's invariant ...                         *)
LEMMA MoveLock ==
    ASSUME IInv, NEW t \in Tasks, Moves(t)
    PROVE  LockInv'
  <1>1. CASE Leaves(t)
    <2>1. queue \in Seq(Tasks) /\ queue # <<>> /\ queue[1] = t
      BY <1>1 DEF IInv, TypeOK, Leaves
    <2>2. \A u \in Tasks : pc'[u] = IF u = t THEN "out" ELSE pc[u]
      BY <1>1 DEF IInv, TypeOK, Leaves
    <2>3. \A i, j \in 1..Len(queue') : queue'[i] = queue'[j] => i = j
      BY <1>1, <2>1 DEF IInv, LockInv, Leaves
    <2>4. /\ Len(queue') = Len(queue) - 1
          /\ \A i \in 1..Len(queue') : queue'[i] = queue[i + 1]
      BY <1>1, <2>1 DEF Leaves
    <2>5. \A u \in Tasks : pc'[u] # "out" <=> \E i \in 1..Len(queue') : queue'[i] = u
      <3> SUFFICES ASSUME NEW u \in Tasks
                   PROVE  pc'[u] # "out" <=> \E i \in 1..Len(queue') : queue'[i] = u
        OBVIOUS
      <3>1. CASE u = t
        BY <2>1, <2>2, <2>4, <3>1 DEF IInv, LockInv
      <3>2. CASE u # t
        <4>1. pc[u] # "out" <=> \E i \in 1..Len(queue) : queue[i] = u
          BY DEF IInv, LockInv
        <4>2. (\E i \in 1..Len(queue) : queue[i] = u)
                <=> \E i \in 1..Len(queue') : queue'[i] = u
          <5>1. ASSUME NEW i \in 1..Len(queue), queue[i] = u
                PROVE  \E k \in 1..Len(queue') : queue'[k] = u
            <6>1. i # 1
              BY <2>1, <3>2, <5>1
            <6>2. i - 1 \in 1..Len(queue') /\ queue'[i - 1] = queue[i]
              BY <2>1, <2>4, <6>1
            <6> QED
              BY <5>1, <6>2
          <5>2. ASSUME NEW i \in 1..Len(queue'), queue'[i] = u
                PROVE  \E k \in 1..Len(queue) : queue[k] = u
            <6>1. i + 1 \in 1..Len(queue) /\ queue[i + 1] = u
              BY <2>1, <2>4, <5>2
            <6> QED
              BY <6>1
          <5> QED
            BY <5>1, <5>2
        <4> QED
          BY <2>2, <3>2, <4>1, <4>2
      <3> QED
        BY <3>1, <3>2
    <2>6. OnePollAtATime'
      BY <2>1, <2>2 DEF IInv, LockInv, OnePollAtATime, InPoll
    <2> QED
      BY <2>3, <2>5, <2>6 DEF LockInv
  <1>2. CASE \E stage \in InPoll : Advances(t, stage)
    <2>1. PICK stage \in InPoll : Advances(t, stage)
      BY <1>2
    <2>2. queue \in Seq(Tasks) /\ queue # <<>> /\ queue[1] = t /\ queue' = queue
      BY <2>1 DEF IInv, TypeOK, Advances
    <2>3. \A u \in Tasks : pc'[u] = IF u = t THEN stage ELSE pc[u]
      BY <2>1 DEF IInv, TypeOK, Advances
    <2>4. stage # "out"
      BY DEF InPoll
    <2>5. pc[t] # "out"
      BY <2>2 DEF IInv, LockInv
    <2>6. OnePollAtATime'
      BY <2>2, <2>3 DEF IInv, LockInv, OnePollAtATime
    <2> QED
      BY <2>2, <2>3, <2>4, <2>5, <2>6 DEF IInv, LockInv
  <1> QED
    BY <1>1, <1>2 DEF Moves, TakesClient, StartsClosing, ReplacesClient, Continues, InPoll

(* ... and so does every other step.                                       *)
LEMMA EnqueueLock ==
    ASSUME IInv, NEW t \in Tasks, pc[t] = "out", Enqueue(t)
    PROVE  LockInv'
  <1>1. queue \in Seq(Tasks) /\ Len(queue) \in Nat
    BY DEF IInv, TypeOK
  <1>2. /\ Len(queue') = Len(queue) + 1
        /\ \A i \in 1..Len(queue) : queue'[i] = queue[i]
        /\ queue'[Len(queue) + 1] = t
        /\ queue # <<>> => Head(queue') = Head(queue)
    BY <1>1 DEF Enqueue
  <1>3. \A u \in Tasks : pc'[u] = IF u = t THEN "queued" ELSE pc[u]
    BY DEF IInv, TypeOK, Enqueue
  <1>4. \A i \in 1..Len(queue) : queue[i] # t
    BY DEF IInv, LockInv
  <1>5. \A i, j \in 1..Len(queue') : queue'[i] = queue'[j] => i = j
    BY <1>1, <1>2, <1>4 DEF IInv, LockInv
  <1>6. \A u \in Tasks : pc'[u] # "out" <=> \E i \in 1..Len(queue') : queue'[i] = u
    <2> SUFFICES ASSUME NEW u \in Tasks
                 PROVE  pc'[u] # "out" <=> \E i \in 1..Len(queue') : queue'[i] = u
      OBVIOUS
    <2>1. CASE u = t
      BY <1>1, <1>2, <1>3, <2>1
    <2>2. CASE u # t
      <3>1. pc[u] # "out" <=> \E i \in 1..Len(queue) : queue[i] = u
        BY DEF IInv, LockInv
      <3>2. \A i \in 1..Len(queue') : i \in 1..Len(queue) \/ i = Len(queue) + 1
        BY <1>1, <1>2
      <3>3. \A i \in 1..Len(queue) : i \in 1..Len(queue')
        BY <1>1, <1>2
      <3> QED
        BY <1>2, <1>3, <2>2, <3>1, <3>2, <3>3
    <2> QED
      BY <2>1, <2>2
  <1>7. OnePollAtATime'
    BY <1>2, <1>3 DEF IInv, LockInv, OnePollAtATime, InPoll, Enqueue
  <1> QED
    BY <1>5, <1>6, <1>7 DEF LockInv

(* A move of a poll keeps the clients' invariant.  Only the lock's holder  *)
(* moves, and no other task is inside its poll, so no task can see its     *)
(* client change.                                                          *)
LEMMA MoveClient ==
    ASSUME IInv, NEW t \in Tasks, Moves(t), phase' = phase
    PROVE  ClientInv'
  <1>1. pc[t] # "out"
    <2>1. queue # <<>> /\ t = Head(queue)
      BY DEF Moves, Leaves, TakesClient, StartsClosing, ReplacesClient, Continues,
             Advances
    <2> QED
      BY <2>1 DEF IInv, LockInv, TypeOK
  <1>2. phase = "running"
    BY <1>1 DEF IInv, ClientInv
  <1>3. \A u \in Tasks : u # t => pc[u] \notin InPoll
    BY DEF IInv, LockInv, OnePollAtATime, Moves, Leaves, TakesClient, StartsClosing,
           ReplacesClient, Continues, Advances
  <1>4. \A u \in Tasks : u # t => pc'[u] = pc[u]
    BY DEF IInv, TypeOK, Moves, Leaves, TakesClient, StartsClosing, ReplacesClient,
           Continues, Advances
  <1>5. CASE Leaves(t)
    <2>1. pc'[t] = "out"
      BY <1>5 DEF Leaves, IInv, TypeOK
    <2> QED
      BY <1>2, <1>3, <1>4, <1>5, <2>1 DEF ClientInv, IInv, Leaves, clientVars, InPoll
  <1>6. CASE TakesClient(t)
    <2>1. pc'[t] = "usage" /\ using'[t] = cookie
      BY <1>6 DEF TakesClient, Advances, IInv, TypeOK
    <2> QED
      BY <1>2, <1>3, <1>4, <1>6, <2>1 DEF ClientInv, IInv, TakesClient, InPoll
  <1>7. CASE StartsClosing(t)
    <2>1. pc'[t] = "closing" /\ using'[t] = cookie
      BY <1>7 DEF StartsClosing, Advances, IInv, TypeOK
    <2> QED
      BY <1>2, <1>3, <1>4, <1>7, <2>1 DEF ClientInv, IInv, StartsClosing, clientVars, InPoll
  <1>8. CASE ReplacesClient(t)
    <2>1. pc'[t] = "usage" /\ using'[t] = using[t]
      BY <1>8 DEF ReplacesClient, Advances, IInv, TypeOK
    <2>2. using[t] # NoCookie
      BY <1>8 DEF ReplacesClient, IInv, ClientInv
    <2> QED
      BY <1>2, <1>3, <1>4, <1>8, <2>1, <2>2 DEF ClientInv, IInv, ReplacesClient, InPoll
  <1>9. CASE Continues(t)
    <2>1. pc'[t] # "closing"
      BY <1>9 DEF Continues, Advances, IInv, TypeOK
    <2>2. using[t] = client /\ client # NoCookie
      BY <1>9 DEF Continues, IInv, ClientInv
    <2> QED
      BY <1>2, <1>3, <1>4, <1>9, <2>1, <2>2 DEF ClientInv, IInv, Continues, clientVars, InPoll
  <1> QED
    BY <1>5, <1>6, <1>7, <1>8, <1>9 DEF Moves

(***************************************************************************)
(* Type correctness, in two halves: the tasks and clients a move touches,  *)
(* and the counters, status and flags that Fail, Succeed and Derive touch. *)
(***************************************************************************)
TasksTyped ==
    /\ pc \in [Tasks -> Stages]
    /\ queue \in Seq(Tasks)
    /\ using \in [Tasks -> Cookies \cup {NoCookie}]
    /\ client \in Cookies \cup {NoCookie}
    /\ open \in SUBSET Cookies

CountsTyped ==
    /\ failures \in 0..FailureCap /\ rateHits \in 0..FailureCap
    /\ state \in States /\ consecutive \in 0..FailureCap
    /\ returned \in {"none", "delay", "raised"}
    /\ overageFetched \in BOOLEAN /\ overageFailed \in BOOLEAN
    /\ planFetched \in BOOLEAN
    /\ sleep \in Int

LEMMA MoveType ==
    ASSUME IInv, NEW t \in Tasks, Moves(t)
    PROVE  TasksTyped'
  <1>1. CASE Leaves(t)
    BY <1>1 DEF IInv, TypeOK, TasksTyped, Leaves, clientVars, Stages
  <1>2. CASE TakesClient(t)
    BY <1>2 DEF IInv, TypeOK, TasksTyped, TakesClient, Advances, Stages, InPoll
  <1>3. CASE StartsClosing(t)
    BY <1>3 DEF IInv, TypeOK, TasksTyped, StartsClosing, Advances, clientVars, Stages, InPoll
  <1>4. CASE ReplacesClient(t)
    <2>1. using[t] \in Cookies
      BY <1>4 DEF IInv, TypeOK, ClientInv, ReplacesClient
    <2> QED
      BY <1>4, <2>1 DEF IInv, TypeOK, TasksTyped, ReplacesClient, Advances, Stages, InPoll
  <1>5. CASE Continues(t)
    BY <1>5 DEF IInv, TypeOK, TasksTyped, Continues, Advances, clientVars, Stages, InPoll
  <1> QED
    BY <1>1, <1>2, <1>3, <1>4, <1>5 DEF Moves

LEMMA FailType ==
    ASSUME TypeOK, NEW t \in Tasks, NEW failed \in Failed, Fail(t, failed)
    PROVE  /\ failures' \in 0..FailureCap /\ rateHits' \in 0..FailureCap
           /\ state' \in States /\ consecutive' \in 0..FailureCap
           /\ returned' \in {"none", "delay", "raised"}
           /\ sleep' \in Int
  <1>1. /\ Bump(failures) \in 1..FailureCap /\ Bump(rateHits) \in 1..FailureCap
        /\ Bump(consecutive) \in 1..FailureCap
    BY BumpType DEF TypeOK
  <1>2. state' \in States /\ consecutive' \in 0..FailureCap
    BY <1>1 DEF Fail, States
  <1>3. CASE Reschedule(t, failed) /\ returned' = "delay"
    <2>1. failures' = Bump(failures) /\ rateHits' \in {rateHits, Bump(rateHits)}
      BY <1>3 DEF Reschedule
    <2>2. ASSUME failed = "error", Return(t, OnFailure(failures'))
          PROVE  sleep' \in Int
      <3>1. failures' \in 1..FailureCap /\ 0 \in RetryAfters
        BY <1>1, <2>1, PollerAssumption
      <3>2. OnFailure(failures') \in Int
        BY <3>1, DelayType DEF TypeOK, OnFailure
      <3> QED
        BY <2>2, <3>2 DEF TypeOK, Return, loopVars
    <2>3. ASSUME failed = "rate_limited",
                 \E retryAfter \in RetryAfters :
                     Return(t, OnRateLimited(rateHits', retryAfter))
          PROVE  sleep' \in Int
      <3>1. rateHits' \in 1..FailureCap
        BY <1>1, <1>3, <2>3 DEF Reschedule
      <3>2. PICK retryAfter \in RetryAfters : Return(t, OnRateLimited(rateHits', retryAfter))
        BY <2>3
      <3>3. OnRateLimited(rateHits', retryAfter) \in Int
        BY <3>1, DelayType DEF TypeOK, OnRateLimited
      <3> QED
        BY <3>2, <3>3 DEF TypeOK, Return, loopVars
    <2>4. ASSUME failed \notin {"error", "rate_limited"}, Return(t, AuthRetryS)
          PROVE  sleep' \in Int
      BY <2>4, PollerAssumption DEF TypeOK, Return, loopVars, Seconds
    <2>5. sleep' \in Int
      BY <1>3, <2>2, <2>3, <2>4 DEF Reschedule
    <2> QED
      BY <1>1, <1>2, <1>3, <2>1, <2>5 DEF TypeOK
  <1>4. CASE Raise(t)
    <2>1. sleep' \in Int
      BY <1>1, <1>4, DelayType, PollerAssumption DEF TypeOK, Raise, Return, loopVars
    <2> QED
      BY <1>1, <1>2, <1>4, <2>1 DEF TypeOK, Raise
  <1> QED
    BY <1>3, <1>4 DEF Fail

LEMMA SucceedType ==
    ASSUME TypeOK, NEW t \in Tasks, Succeed(t)
    PROVE  /\ failures' \in 0..FailureCap /\ rateHits' \in 0..FailureCap
           /\ state' \in States /\ consecutive' \in 0..FailureCap
           /\ returned' \in {"none", "delay", "raised"}
           /\ sleep' \in Int
  BY PollerAssumption DEF TypeOK, Succeed, Return, States, loopVars

LEMMA GotoType ==
    ASSUME TypeOK, NEW t \in Tasks, NEW stage, Goto(t, stage)
    PROVE  /\ failures' \in 0..FailureCap /\ rateHits' \in 0..FailureCap
           /\ state' \in States /\ consecutive' \in 0..FailureCap
           /\ returned' \in {"none", "delay", "raised"}
           /\ sleep' \in Int
  BY DEF loopVars, TypeOK, Goto, scheduleVars, statusVars

LEMMA DeriveType ==
    ASSUME TypeOK, NEW t \in Tasks, Derive(t)
    PROVE  /\ failures' \in 0..FailureCap /\ rateHits' \in 0..FailureCap
           /\ state' \in States /\ consecutive' \in 0..FailureCap
           /\ returned' \in {"none", "delay", "raised"}
           /\ sleep' \in Int
           /\ planFetched' \in BOOLEAN
  <1>1. planFetched' \in BOOLEAN
    BY DEF Derive, TypeOK
  <1> QED
    BY <1>1, FailType, SucceedType, GotoType DEF Derive, Failed

LEMMA StepCounts ==
    ASSUME TypeOK, NEW t \in Tasks, Step(t)
    PROVE  CountsTyped'
  <1>1. CASE Begin(t)
    BY <1>1, FailType, GotoType DEF Begin, Granted, NothingToClose, CountsTyped, Failed, fetchVars, TypeOK
  <1>2. CASE Closed(t)
    BY <1>2, FailType, GotoType DEF Closed, CountsTyped, Failed, fetchVars, TypeOK
  <1>3. CASE UsageAnswer(t)
    <2>1. CASE (\E answer \in Answers \ {"ok"} : Fail(t, answer)) /\ UNCHANGED fetchVars
      BY <2>1, FailType DEF CountsTyped, Answers, Failed, fetchVars, TypeOK
    <2>2. CASE /\ overageFetched' = TRUE /\ Goto(t, "overage")
               /\ UNCHANGED <<using, overageFailed, planFetched>>
      BY <2>2, GotoType DEF CountsTyped, TypeOK
    <2>3. CASE Derive(t) /\ UNCHANGED <<overageFetched, overageFailed>>
      BY <2>3, DeriveType DEF CountsTyped, TypeOK
    <2> QED
      BY <1>3, <2>1, <2>2, <2>3 DEF UsageAnswer
  <1>4. CASE OverageAnswer(t)
    <2>1. CASE Fail(t, "auth_expired") /\ UNCHANGED fetchVars
      BY <2>1, FailType DEF CountsTyped, Failed, fetchVars, TypeOK
    <2>2. CASE /\ overageFailed' \in BOOLEAN /\ UNCHANGED overageFetched
               /\ Derive(t)
      BY <2>2, DeriveType DEF CountsTyped, TypeOK
    <2>3. CASE /\ overageFailed' \in BOOLEAN /\ UNCHANGED overageFetched
               /\ Fail(t, "error") /\ UNCHANGED planFetched
      BY <2>3, FailType DEF CountsTyped, Failed, TypeOK
    <2> QED
      BY <1>4, <2>1, <2>2, <2>3 DEF OverageAnswer
  <1>5. CASE PlanAnswer(t)
    BY <1>5, SucceedType DEF PlanAnswer, CountsTyped, fetchVars, TypeOK
  <1> QED
    BY <1>1, <1>2, <1>3, <1>4, <1>5 DEF Step

(* A step of a poll leaves the loop's task alive, or ends it.              *)
LEMMA AliveType ==
    ASSUME TypeOK, NEW t \in Tasks, Step(t)
    PROVE  alive' \in BOOLEAN
  <1> USE DEF TypeOK, loopVars
  <1>1. ASSUME NEW d, Return(t, d) PROVE alive' \in BOOLEAN
    BY <1>1 DEF Return, MaybeCheckUpdates
  <1>2. ASSUME NEW failed, Fail(t, failed) PROVE alive' \in BOOLEAN
    BY <1>1, <1>2 DEF Fail, Reschedule, Raise
  <1>3. ASSUME Succeed(t) PROVE alive' \in BOOLEAN
    BY <1>1, <1>3 DEF Succeed
  <1>4. ASSUME NEW stage, Goto(t, stage) PROVE alive' \in BOOLEAN
    BY <1>4 DEF Goto
  <1> QED
    BY <1>2, <1>3, <1>4
    DEF Step, Begin, Granted, NothingToClose, Closed, UsageAnswer, OverageAnswer, PlanAnswer,
        Derive

LEMMA StepIInv ==
    ASSUME IInv, NEW t \in Tasks, Step(t)
    PROVE  IInv'
  <1>1. Moves(t)
    BY StepMoves
  <1>2. /\ UNCHANGED <<forceVars, configVars>>
    BY DEF Step, Begin, Granted, NothingToClose, Closed, UsageAnswer, OverageAnswer, PlanAnswer
  <1>3. TasksTyped' /\ CountsTyped'
    BY <1>1, MoveType, StepCounts DEF IInv
  <1>4. TypeOK'
    BY <1>2, <1>3, AliveType DEF IInv, TypeOK, TasksTyped, CountsTyped, forceVars, configVars
  <1>5. LockInv' /\ ClientInv'
    BY <1>1, <1>2, MoveLock, MoveClient DEF configVars
  <1> QED
    BY <1>4, <1>5 DEF IInv

LEMMA InitIInv == Init => IInv
  <1> SUFFICES ASSUME Init PROVE IInv
    OBVIOUS
  <1>1. TypeOK
    <2>1. queue \in Seq(Tasks) /\ open \in SUBSET Cookies
      BY DEF Init
    <2>2. cooldown \in 0..ForceMinS /\ sinceForced \in 0..ForceMinS
      BY PollerAssumption DEF Init, Seconds
    <2>3. failures \in 0..FailureCap /\ rateHits \in 0..FailureCap
          /\ consecutive \in 0..FailureCap
      BY PollerAssumption DEF Init
    <2>4. sleep \in Int /\ pc \in [Tasks -> Stages]
      BY DEF Init, Stages
    <2>5. using \in [Tasks -> Cookies \cup {NoCookie}]
      BY DEF Init
    <2> QED
      BY <2>1, <2>2, <2>3, <2>4, <2>5 DEF Init, TypeOK, States
  <1>2. LockInv
    BY DEF Init, LockInv, OnePollAtATime, InPoll
  <1>3. ClientInv
    BY DEF Init, ClientInv, InPoll
  <1> QED
    BY <1>1, <1>2, <1>3 DEF IInv

LEMMA EnvironmentIInv ==
    ASSUME IInv,
           \/ \E c \in Cookies \cup {NoCookie} : SetCookie(c)
           \/ \E i \in Intervals : Adopt(i)
           \/ Tick
    PROVE  IInv'
  <1> USE DEF taskVars, clientVars, scheduleVars, statusVars, fetchVars, forceVars,
              configVars
  <1>1. UNCHANGED <<taskVars, clientVars, phase>>
    BY DEF SetCookie, Adopt, Tick
  <1>2. LockInv' /\ ClientInv'
    BY <1>1 DEF IInv, LockInv, ClientInv, OnePollAtATime
  <1>3. CASE \E c \in Cookies \cup {NoCookie} : SetCookie(c)
    BY <1>2, <1>3 DEF loopVars, IInv, TypeOK, SetCookie
  <1>4. CASE \E i \in Intervals : Adopt(i)
    BY <1>2, <1>4 DEF loopVars, IInv, TypeOK, Adopt
  <1>5. CASE Tick
    <2>1. /\ sleep' \in Int /\ cooldown' \in 0..ForceMinS
          /\ sinceForced' \in 0..ForceMinS
      BY <1>5, PollerAssumption
      DEF IInv, TypeOK, Tick, Countdown, Greater, Lesser, Seconds
    <2> QED
      BY <1>2, <1>5, <2>1 DEF IInv, TypeOK, Tick
  <1> QED
    BY <1>3, <1>4, <1>5

LEMMA NextIInv == IInv /\ [Next]_vars => IInv'
  <1> SUFFICES ASSUME IInv, [Next]_vars PROVE IInv'
    OBVIOUS
  <1>1. CASE Wake
    <2>1. LockInv'
      BY <1>1, EnqueueLock DEF Wake, Tasks
    <2>2. TypeOK'
      BY <1>1 DEF loopVars, IInv, TypeOK, Wake, Enqueue, Tasks, Stages, clientVars, scheduleVars,
                  statusVars, fetchVars, forceVars, configVars
    <2>3. ClientInv'
      BY <1>1 DEF IInv, TypeOK, ClientInv, Wake, Enqueue, InPoll, clientVars, configVars
    <2> QED
      BY <2>1, <2>2, <2>3 DEF IInv
  <1>2. CASE \E t \in Tasks : Step(t)
    BY <1>2, StepIInv
  <1>3. CASE \E r \in Requests : ForcePoll(r)
    <2>1. PICK r \in Requests : ForcePoll(r)
      BY <1>3
    <2>2. CASE Enqueue(r) /\ cooldown' = ForceMinS /\ sinceForced' = 0 /\ forceNote' = FALSE
      <3>1. LockInv'
        BY <2>1, <2>2, EnqueueLock DEF ForcePoll, Tasks
      <3>2. TypeOK'
        <4>1. cooldown' \in 0..ForceMinS /\ sinceForced' \in 0..ForceMinS
          BY <2>2, PollerAssumption DEF Seconds
        <4>2. pc' \in [Tasks -> Stages] /\ queue' \in Seq(Tasks)
          BY <2>2 DEF IInv, TypeOK, Enqueue, Stages, Tasks
        <4> QED
          BY <2>1, <2>2, <4>1, <4>2
          DEF IInv, TypeOK, ForcePoll, clientVars, scheduleVars, statusVars, fetchVars,
              configVars, loopVars
      <3>3. ClientInv'
        BY <2>1, <2>2
        DEF IInv, TypeOK, ClientInv, ForcePoll, Enqueue, InPoll, clientVars, configVars
      <3> QED
        BY <3>1, <3>2, <3>3 DEF IInv
    <2>3. CASE forceNote' = TRUE /\ UNCHANGED <<pc, queue, cooldown, sinceForced>>
      <3>1. TypeOK'
        BY <2>1, <2>3 DEF loopVars, IInv, TypeOK, ForcePoll, clientVars, scheduleVars, statusVars,
                          fetchVars, configVars
      <3>2. LockInv' /\ ClientInv'
        BY <2>1, <2>3 DEF IInv, LockInv, ClientInv, OnePollAtATime, ForcePoll, clientVars,
                          configVars
      <3> QED
        BY <3>1, <3>2 DEF IInv
    <2> QED
      BY <2>1, <2>2, <2>3 DEF ForcePoll
  <1>4. CASE Stop
    <2>1. \A t \in Tasks : pc'[t] = "out"
      BY <1>4 DEF IInv, TypeOK, Stop, Tasks
    <2>2. LockInv'
      BY <1>4, <2>1 DEF LockInv, OnePollAtATime, Stop, InPoll
    <2>3. ClientInv'
      BY <1>4, <2>1 DEF IInv, ClientInv, Stop, InPoll, clientVars
    <2>4. TypeOK'
      BY <1>4 DEF loopVars, IInv, TypeOK, Stop, Stages, Tasks, clientVars, scheduleVars, statusVars,
                  fetchVars, forceVars
    <2> QED
      BY <2>2, <2>3, <2>4 DEF IInv
  <1>5. CASE CloseOnStop
    <2>1. LockInv'
      BY <1>5 DEF IInv, LockInv, OnePollAtATime, CloseOnStop, taskVars
    <2>2. ClientInv'
      BY <1>5 DEF IInv, ClientInv, CloseOnStop, taskVars, InPoll
    <2>3. TypeOK'
      BY <1>5 DEF loopVars, IInv, TypeOK, CloseOnStop, taskVars, scheduleVars, statusVars,
                  fetchVars, forceVars
    <2> QED
      BY <2>1, <2>2, <2>3 DEF IInv
  <1>6. CASE UNCHANGED vars
    BY <1>6 DEF loopVars, IInv, TypeOK, LockInv, ClientInv, OnePollAtATime, vars, taskVars,
                clientVars, scheduleVars, statusVars, fetchVars, forceVars, configVars
  <1> QED
    BY <1>1, <1>2, <1>3, <1>4, <1>5, <1>6, EnvironmentIInv DEF Next

LEMMA Inductive == Spec => []IInv
  BY InitIInv, NextIInv, PTL DEF Spec

(***************************************************************************)
(* Every variable keeps its type (Poller.__init__ to Poller.stop).         *)
(***************************************************************************)
THEOREM TypeCorrect == Spec => []TypeOK
  <1>1. IInv => TypeOK
    BY DEF IInv
  <1> QED
    BY <1>1, Inductive, PTL

(***************************************************************************)
(* poll_once is serialised by its lock for any number of forced polls: the *)
(* task between two awaits of a poll is the lock's holder.                 *)
(***************************************************************************)
THEOREM MutualExclusion == Spec => []OnePollAtATime
  <1>1. IInv => OnePollAtATime
    BY DEF IInv, LockInv
  <1> QED
    BY <1>1, Inductive, PTL

(***************************************************************************)
(* No poll uses a closed client, and no client is lost unclosed, for any   *)
(* sequence of cookie changes, forced polls and a stop().                  *)
(***************************************************************************)
THEOREM ClientsAreSafe == Spec => [](ClientInUseIsOpen /\ NoClientLeaks)
  <1>1. IInv => ClientInUseIsOpen /\ NoClientLeaks
    BY DEF IInv, ClientInv, ClientInUseIsOpen, NoClientLeaks, InPoll
  <1> QED
    BY <1>1, Inductive, PTL

(***************************************************************************)
(* The counters of Schedule and of PollerStatus.                           *)
(***************************************************************************)
CountsInv == CountsAgree /\ CountsEqual /\ StateMatchesCounts

LEMMA BumpMonotone ==
    ASSUME NEW m \in 0..FailureCap, NEW n \in 0..FailureCap, m <= n
    PROVE  m <= Bump(n) /\ Bump(m) <= Bump(n) /\ Bump(n) > 0
  BY PollerAssumption DEF Bump, Lesser

LEMMA FailCounts ==
    ASSUME TypeOK, CountsInv, NEW t \in Tasks, NEW failed \in Failed, Fail(t, failed)
    PROVE  CountsInv'
  <1>1. /\ rateHits <= failures /\ failures <= consecutive
        /\ ~StoreMayFail => failures = consecutive
    BY DEF CountsInv, CountsAgree, CountsEqual
  <1>2. /\ failures \in 0..FailureCap /\ rateHits \in 0..FailureCap
        /\ consecutive \in 0..FailureCap
    BY DEF TypeOK
  <1>3. consecutive' = Bump(consecutive) /\ state' = failed
    BY DEF Fail
  <1>4. StateMatchesCounts'
    BY <1>2, <1>3, BumpMonotone DEF StateMatchesCounts
  <1>5. CASE Reschedule(t, failed)
    <2>1. failures' = Bump(failures) /\ rateHits' \in {rateHits, Bump(rateHits)}
      BY <1>5 DEF Reschedule
    <2>2. rateHits' <= failures' /\ failures' <= consecutive'
      BY <1>1, <1>2, <1>3, <2>1, BumpMonotone
    <2>3. ~StoreMayFail => failures' = consecutive'
      BY <1>1, <1>3, <2>1
    <2> QED
      BY <1>4, <2>2, <2>3 DEF CountsInv, CountsAgree, CountsEqual
  <1>6. CASE Raise(t)
    <2>1. StoreMayFail /\ rateHits' = rateHits /\ failures' \in {failures, Bump(failures)}
      BY <1>6 DEF Raise
    <2>2. rateHits' <= failures' /\ failures' <= consecutive'
      BY <1>1, <1>2, <1>3, <2>1, BumpMonotone
    <2> QED
      BY <1>4, <2>1, <2>2 DEF CountsInv, CountsAgree, CountsEqual
  <1> QED
    BY <1>5, <1>6 DEF Fail

LEMMA SucceedCounts ==
    ASSUME NEW t \in Tasks, Succeed(t)
    PROVE  CountsInv'
  BY DEF Succeed, CountsInv, CountsAgree, CountsEqual, StateMatchesCounts, Failed

LEMMA GotoCounts ==
    ASSUME CountsInv, NEW t \in Tasks, NEW stage, Goto(t, stage)
    PROVE  CountsInv'
  BY DEF Goto, CountsInv, CountsAgree, CountsEqual, StateMatchesCounts, scheduleVars,
         statusVars

LEMMA NextCounts == IInv /\ CountsInv /\ [Next]_vars => CountsInv'
  <1> SUFFICES ASSUME IInv, CountsInv, [Next]_vars PROVE CountsInv'
    OBVIOUS
  <1> TypeOK
    BY DEF IInv
  <1>1. ASSUME NEW t \in Tasks, Step(t) PROVE CountsInv'
    <2>1. \/ \E failed \in Failed : Fail(t, failed)
          \/ \E stage : Goto(t, stage)
          \/ Succeed(t)
      BY <1>1 DEF Step, Begin, Granted, NothingToClose, Closed, UsageAnswer, OverageAnswer, PlanAnswer, Derive,
                  Answers, Failed
    <2> QED
      BY <2>1, FailCounts, SucceedCounts, GotoCounts
  <1>2. CASE UNCHANGED <<scheduleVars, statusVars>>
    BY <1>2 DEF CountsInv, CountsAgree, CountsEqual, StateMatchesCounts, scheduleVars,
                statusVars
  <1>3. (\E t \in Tasks : Step(t)) \/ UNCHANGED <<scheduleVars, statusVars>>
    BY DEF Next, vars, Wake, ForcePoll, Stop, CloseOnStop, SetCookie, Adopt, Tick
  <1> QED
    BY <1>1, <1>2, <1>3

(***************************************************************************)
(* Over any mix of loop and forced polls, store errors included, the       *)
(* failures the schedule counts are among those the status shows, the two  *)
(* are equal when the store does not fail, and the state agrees with them. *)
(***************************************************************************)
THEOREM CountersCorrect == Spec => [](CountsAgree /\ CountsEqual /\ StateMatchesCounts)
  <1>1. Init => CountsInv
    BY DEF Init, CountsInv, CountsAgree, CountsEqual, StateMatchesCounts, Failed
  <1>2. CountsInv => CountsAgree /\ CountsEqual /\ StateMatchesCounts
    BY DEF CountsInv
  <1> QED
    BY <1>1, <1>2, NextCounts, Inductive, PTL DEF Spec

(***************************************************************************)
(* A forced poll's outcome never moves the loop's timer: sleep grows only  *)
(* in the step that takes the loop itself out of a poll.                   *)
(***************************************************************************)
THEOREM LoopOwnsItsTimer == Spec => OnlyTheLoopSetsItsTimer
  <1> DEFINE Owned == sleep' > sleep => pc[Loop] # "out" /\ pc'[Loop] = "out"
  <1>1. IInv /\ [Next]_vars => [Owned]_vars
    <2> SUFFICES ASSUME IInv, Next, sleep' > sleep
                 PROVE  pc[Loop] # "out" /\ pc'[Loop] = "out"
      OBVIOUS
    <2>1. sleep \in Int /\ pc \in [Tasks -> Stages] /\ Loop \in Tasks
      BY DEF IInv, TypeOK, Tasks
    <2>2. CASE \E t \in Tasks : Step(t)
      <3>1. PICK t \in Tasks : Step(t)
        BY <2>2
      <3>2. Moves(t)
        BY <3>1, StepMoves
      <3>3. \/ UNCHANGED sleep
            \/ t = Loop /\ pc' = [pc EXCEPT ![t] = "out"]
        BY <3>1 DEF loopVars, Step, Begin, Granted, NothingToClose, Closed, UsageAnswer, OverageAnswer, PlanAnswer, Derive,
                    Fail, Reschedule, Raise, Succeed, Return, Goto
      <3>4. queue # <<>> /\ t = Head(queue)
        BY <3>2 DEF Moves, Leaves, TakesClient, StartsClosing, ReplacesClient, Continues,
                    Advances
      <3>5. pc[t] # "out"
        BY <3>4 DEF IInv, LockInv, TypeOK
      <3> QED
        BY <2>1, <3>3, <3>5
    <2>3. CASE Tick
      BY <2>1, <2>3 DEF Tick, Countdown, Greater
    <2>4. CASE UNCHANGED sleep
      BY <2>1, <2>4
    <2> QED
      BY <2>2, <2>3, <2>4 DEF loopVars, Next, Wake, ForcePoll, Stop, CloseOnStop, SetCookie, Adopt
  <1> QED
    BY <1>1, Inductive, PTL DEF Spec, OnlyTheLoopSetsItsTimer

(***************************************************************************)
(* The cooldown that remains and the time since the last accepted forced   *)
(* poll are one measure, so that an accepted one comes ForceMinS after it. *)
(***************************************************************************)
SpacingInv == cooldown + sinceForced = ForceMinS

(* A step of a poll leaves the cooldown alone. *)
LEMMA StepForces ==
    ASSUME NEW t \in Tasks, Step(t)
    PROVE  UNCHANGED forceVars
  BY DEF Step, Begin, Granted, NothingToClose, Closed, UsageAnswer, OverageAnswer, PlanAnswer

LEMMA NextSpacing == IInv /\ SpacingInv /\ [Next]_vars => SpacingInv'
  <1> SUFFICES ASSUME IInv, SpacingInv, [Next]_vars PROVE SpacingInv'
    OBVIOUS
  <1> USE DEF SpacingInv
  <1>1. cooldown \in 0..ForceMinS /\ sinceForced \in 0..ForceMinS /\ ForceMinS \in Nat \ {0}
    BY PollerAssumption DEF IInv, TypeOK, Seconds
  <1>2. CASE \E t \in Tasks : Step(t)
    BY <1>2, StepForces DEF forceVars
  <1>3. CASE \E r \in Requests : ForcePoll(r)
    BY <1>1, <1>3 DEF ForcePoll
  <1>4. CASE Tick
    BY <1>1, <1>4 DEF Tick, Countdown, Lesser
  <1>5. CASE UNCHANGED forceVars
    BY <1>5 DEF forceVars
  <1> QED
    BY <1>2, <1>3, <1>4, <1>5 DEF Next, Wake, Stop, CloseOnStop, SetCookie, Adopt, vars

(***************************************************************************)
(* "Poll now, at most once per FORCE_MIN_INTERVAL_S" (force_poll), for any *)
(* number of requests, whatever the loop and the polls under way do.       *)
(***************************************************************************)
THEOREM ForcedPollsKeepTheirDistance == Spec => ForcedPollsAreSpaced
  <1> DEFINE Spaced ==
        \A r \in Requests : pc[r] = "out" /\ pc'[r] = "queued" => sinceForced = ForceMinS
  <1>1. Init => SpacingInv
    BY PollerAssumption DEF Init, SpacingInv, Seconds
  <1>2. IInv /\ SpacingInv /\ [Next]_vars => [Spaced]_vars
    <2> SUFFICES ASSUME IInv, SpacingInv, Next,
                        NEW r \in Requests, pc[r] = "out", pc'[r] = "queued"
                 PROVE  sinceForced = ForceMinS
      OBVIOUS
    <2>1. pc \in [Tasks -> Stages] /\ r \in Tasks /\ r # Loop
      BY PollerAssumption DEF IInv, TypeOK, Tasks
    <2>2. cooldown = 0 => sinceForced = ForceMinS
      BY PollerAssumption DEF IInv, TypeOK, SpacingInv, Seconds
    <2>3. CASE \E t \in Tasks : Step(t)
      <3>1. PICK t \in Tasks : Step(t)
        BY <2>3
      <3>2. Moves(t)
        BY <3>1, StepMoves
      <3>3. queue # <<>> /\ t = Head(queue) /\ \E stage : pc' = [pc EXCEPT ![t] = stage]
        BY <3>2 DEF Moves, Leaves, TakesClient, StartsClosing, ReplacesClient, Continues,
                    Advances
      <3>4. pc[t] # "out"
        BY <3>3 DEF IInv, LockInv, TypeOK
      <3> QED
        BY <2>1, <3>3, <3>4
    <2>4. ASSUME NEW s \in Requests, ForcePoll(s) PROVE sinceForced = ForceMinS
      BY <2>1, <2>2, <2>4 DEF ForcePoll, Enqueue, Tasks
    <2>5. CASE Wake
      BY <2>1, <2>5 DEF Wake, Enqueue, Tasks
    <2>6. CASE Stop
      BY <2>1, <2>6 DEF Stop, Tasks
    <2>7. CASE UNCHANGED pc
      BY <2>7
    <2> QED
      BY <2>3, <2>4, <2>5, <2>6, <2>7 DEF Next, CloseOnStop, SetCookie, Adopt, Tick, taskVars
  <1> QED
    BY <1>1, <1>2, Inductive, NextSpacing, PTL DEF Spec, ForcedPollsAreSpaced

=============================================================================
