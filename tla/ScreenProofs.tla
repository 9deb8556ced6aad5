---------------------------- MODULE ScreenProofs ----------------------------
(***************************************************************************)
(* What is proved of what a person sees, for every value of the constants: *)
(* the figures of the page, its chart, the Weeks table, the split of the   *)
(* week, the address of a view, and whose account the numbers are of.      *)
(*                                                                         *)
(* Each part has an invariant of its own, proved about its own steps; the  *)
(* end of the module says that a behaviour is one of a single task.        *)
(*                                                                         *)
(* Dashboard: a reading is of a window that has closed, or of the one the  *)
(* vendor has open, which has not emptied since; the last session of the   *)
(* table is the one the last reading told of.                              *)
(*                                                                         *)
(* Weeks: an event tells of its reset what the sessions still tell, since  *)
(* no session ends before a reading that is already there; unless a failed *)
(* rebuild had left their table behind when it was written (misled).       *)
(*                                                                         *)
(* Surfaces: the newest snapshot of a week, and the newest sample whose    *)
(* poll did not fail, hold the split that week received last.              *)
(*                                                                         *)
(* Chart: the readings are in order, and each boost on record is a reading *)
(* that a raise made lower than the one before it.                         *)
(*                                                                         *)
(* Views: the address and what was chosen are one thing, told twice; what  *)
(* the page draws is shown for every range an address may name.            *)
(*                                                                         *)
(* Identity: the client has settled on the organisation of the readings    *)
(* before anything else is asked for (AskedFor), and one poller with one   *)
(* cookie never settles on another (SettledOnOne).                         *)
(***************************************************************************)
EXTENDS Screen, FiniteSets, FiniteSetTheorems, WellFoundedInduction, TLAPS


(* A finite set of numbers has a largest element.                          *)
LEMMA LargestThereIs ==
    ASSUME NEW U \in SUBSET Int, IsFiniteSet(U), U # {}
    PROVE  \E x \in U : \A y \in U : y <= x
<1> DEFINE Above(x) == {y \in U : y > x}
           Tails == {Above(x) : x \in U}
<1>1. Tails \subseteq FiniteSubsetsOf(U)
    BY FS_Subset DEF FiniteSubsetsOf
<1>2. IsWellFoundedOn(StrictSubsetOrdering(U), FiniteSubsetsOf(U)) /\ Tails # {}
    BY FS_StrictSubsetOrderingWellFounded
<1>w. \E T \in Tails : \A R \in Tails : ~(<<R, T>> \in StrictSubsetOrdering(U))
    <2> HIDE DEF Tails
    <2> QED BY <1>1, <1>2, WFMin
<1>p. PICK T \in Tails : \A R \in Tails : ~(<<R, T>> \in StrictSubsetOrdering(U))
    BY <1>w
<1>3. PICK x \in U : T = Above(x)
    OBVIOUS
<1>4. ASSUME NEW y \in U, y > x PROVE FALSE
    <2>0. x \in Int /\ y \in Int /\ \A z \in U : z \in Int
        OBVIOUS
    <2>a. y \in Above(x) /\ y \notin Above(y)
        BY <1>4, <2>0
    <2>b. \A z \in U : z > y => z > x
        BY <1>4, <2>0
    <2>1. Above(y) \subseteq Above(x) /\ y \in Above(x) /\ y \notin Above(y)
        BY <2>a, <2>b
    <2>2. Above(y) # T
        BY <1>3, <2>1
    <2>3. Above(y) \in SUBSET U /\ T \in SUBSET U
        BY <1>3
    <2>4. Above(y) \subseteq T
        BY <1>3, <2>1
    <2>5. Above(y) \in Tails
        OBVIOUS
    <2> HIDE DEF Above, Tails
    <2>6. <<Above(y), T>> \in StrictSubsetOrdering(U)
        BY <2>2, <2>3, <2>4 DEF StrictSubsetOrdering
    <2> QED BY <1>p, <2>5, <2>6
<1>5. \A y \in U : y <= x
    BY <1>4
<1> QED BY <1>5

(* Any set of natural numbers has a smallest.                              *)
LEMMA LeastThereIs ==
    ASSUME NEW U \in SUBSET Nat, U # {}
    PROVE  \E x \in U : \A y \in U : x <= y
<1> DEFINE R == OpToRel(<, Nat)
<1>1. \A x, y \in Nat : <<x, y>> \in R <=> x < y
    BY DEF OpToRel
<1>2. IsWellFoundedOn(R, Nat)
    BY NatLessThanWellFounded
<1> HIDE DEF R
<1>3. PICK x \in U : \A y \in U : ~(<<y, x>> \in R)
    BY <1>2, WFMin
<1>4. ASSUME NEW y \in U PROVE x <= y
    <2>1. x \in Nat /\ y \in Nat /\ ~(<<y, x>> \in R)
        BY <1>3
    <2>2. ~(y < x)
        BY <1>1, <2>1
    <2> QED BY <2>1, <2>2
<1> QED BY <1>4

-----------------------------------------------------------------------------
PageTimes == {D!Never} \cup Nat

PageTyped ==
    /\ now \in Nat /\ poll \in PageTimes /\ ends \in PageTimes
    /\ server \in [D!Windows -> [pct : Pcts, reset : PageTimes]]
    /\ latest \in [D!Windows -> [ts : PageTimes, pct : Pcts, reset : PageTimes]]
    /\ session \in [ends : PageTimes, current : BOOLEAN]
    /\ status \in [state : D!Failures \cup {"starting", "ok"}, last_ok : PageTimes, fallback : BOOLEAN]
    /\ captured \in Intervals /\ interval \in Intervals /\ rebuilt \in BOOLEAN

(* The vendor's windows are open, and one that has not begun is unused. *)
ServerOpen ==
    /\ server[D!WEEKLY].reset # D!Never
    /\ \A w \in D!Windows :
          /\ server[w].reset # D!Never => server[w].reset > now
          /\ server[w].reset = D!Never => server[w].pct = 0

(* A reading is of a window that has closed, or of the open one, which has *)
(* not emptied since.                                                      *)
ReadingsHold ==
    \A w \in D!Windows :
        /\ latest[w].reset # D!Never =>
              \/ latest[w].reset <= now
              \/ server[w].reset = latest[w].reset /\ server[w].pct >= latest[w].pct
        /\ latest[w].reset = D!Never => latest[w].pct = 0

(* The last session that was read, and what the table says of it. *)
SessionHolds ==
    /\ latest[D!RATE_WINDOW].ts <= now
    /\ poll # D!Never => latest[D!RATE_WINDOW].ts <= poll
    /\ latest[D!RATE_WINDOW].reset # D!Never => ends = latest[D!RATE_WINDOW].reset
    /\ ends # D!Never => ends <= now \/ server[D!RATE_WINDOW].reset = ends
    /\ latest[D!RATE_WINDOW].reset = D!Never /\ ends # D!Never => ends <= latest[D!RATE_WINDOW].ts
    /\ rebuilt /\ poll = D!Never =>
          session.ends = ends /\ (latest[D!RATE_WINDOW].reset = D!Never => ~session.current)

PageInv == PageTyped /\ ServerOpen /\ ReadingsHold /\ SessionHolds

LEMMA PageFacts ==
    ASSUME D!DashboardAssumption
    PROVE  /\ Pcts \subseteq Nat /\ 0 \in Pcts /\ FULL \in Nat /\ \A p \in Pcts : p <= FULL
           /\ Intervals \subseteq Nat /\ SESSION_LENGTH \in Nat \ {0} /\ WEEK_LENGTH \in Nat \ {0}
           /\ D!Never \notin Nat /\ D!Never = -1 /\ STALE_AFTER_INTERVALS \in Nat
BY DEF D!DashboardAssumption, D!Never

LEMMA PageBegin == ASSUME D!DashboardAssumption, D!Init PROVE PageInv
<1>1. PageTyped
    BY PageFacts DEF D!Init, PageTyped, PageTimes, D!NoReading, D!Failures, D!Windows
<1>2. ServerOpen /\ ReadingsHold /\ SessionHolds
    BY PageFacts
        DEF D!Init, ServerOpen, ReadingsHold, SessionHolds, D!NoReading, D!Windows, D!RATE_WINDOW, D!WEEKLY
<1> QED BY <1>1, <1>2 DEF PageInv

LEMMA PageUse ==
    ASSUME D!DashboardAssumption, PageInv, NEW s \in Pcts, NEW p \in Pcts, D!Use(s, p)
    PROVE  PageInv'
<1> USE PageFacts
<1> USE DEF PageInv, PageTyped, PageTimes, D!Windows, D!RATE_WINDOW, D!WEEKLY
<1>1. /\ server'["seven_day"] = [pct |-> p, reset |-> server["seven_day"].reset]
      /\ server'["five_hour"] =
            [pct |-> s, reset |-> IF server["five_hour"].reset = D!Never THEN now + SESSION_LENGTH
                                  ELSE server["five_hour"].reset]
    BY DEF D!Use
<1>2. server' \in [D!Windows -> [pct : Pcts, reset : PageTimes]]
    BY <1>1 DEF D!Use
<1>3. UNCHANGED <<now, latest, polls, ends, session, status, poll, captured, interval, rebuilt>>
    BY DEF D!Use, D!settings
<1>4. s >= server["five_hour"].pct /\ p >= server["seven_day"].pct
    BY DEF D!Use
<1>5. PageTyped'
    BY <1>2, <1>3
<1>6. ServerOpen'
    BY <1>1, <1>3 DEF ServerOpen
<1>7. ReadingsHold'
    BY <1>1, <1>3, <1>4 DEF ServerOpen, ReadingsHold
<1>8. SessionHolds'
    BY <1>1, <1>3 DEF ServerOpen, SessionHolds
<1> QED BY <1>5, <1>6, <1>7, <1>8

LEMMA PageTick == ASSUME D!DashboardAssumption, PageInv, D!Tick PROVE PageInv'
<1> USE PageFacts
<1> USE DEF PageInv, PageTyped, PageTimes, D!Windows, D!RATE_WINDOW, D!WEEKLY
<1>1. now' = now + 1 /\ UNCHANGED <<latest, polls, ends, session, status, poll, captured, interval, rebuilt>>
    BY DEF D!Tick, D!settings
<1>2. \A w \in D!Windows : server'[w] = IF server[w].reset # now' THEN server[w]
          ELSE [pct |-> 0, reset |-> IF w = D!WEEKLY THEN now' + WEEK_LENGTH ELSE D!Never]
    BY DEF D!Tick
<1>3. server' \in [D!Windows -> [pct : Pcts, reset : PageTimes]]
    BY <1>1, <1>2 DEF D!Tick
<1>4. PageTyped'
    BY <1>1, <1>3
<1>5. ServerOpen'
    BY <1>1, <1>2 DEF ServerOpen
<1>6. ReadingsHold'
    BY <1>1, <1>2 DEF ServerOpen, ReadingsHold
<1>7. SessionHolds'
    BY <1>1, <1>2 DEF ServerOpen, SessionHolds
<1> QED BY <1>4, <1>5, <1>6, <1>7

LEMMA PageStore ==
    ASSUME D!DashboardAssumption, PageInv, NEW blocks \in SUBSET D!Windows, NEW fallback \in BOOLEAN,
           D!StoreReadings(blocks, fallback)
    PROVE  PageInv'
<1> USE PageFacts
<1> USE DEF PageInv, PageTyped, PageTimes, D!Windows, D!RATE_WINDOW, D!WEEKLY
<1>1. poll' = now /\ UNCHANGED <<now, server, session, captured, interval, rebuilt>>
    BY DEF D!StoreReadings, D!settings
<1>2. \A w \in D!Windows : latest'[w] = IF w \in blocks /\ ~fallback
          THEN [ts |-> now, pct |-> server[w].pct, reset |-> server[w].reset] ELSE latest[w]
    BY DEF D!StoreReadings
<1>3. latest' \in [D!Windows -> [ts : PageTimes, pct : Pcts, reset : PageTimes]]
    BY <1>2 DEF D!StoreReadings
<1>4. ends' = IF latest'["five_hour"].reset # D!Never THEN latest'["five_hour"].reset ELSE ends
    BY DEF D!StoreReadings
<1>5. status' = [status EXCEPT !.fallback = fallback]
    BY DEF D!StoreReadings
<1>6. PageTyped'
    BY <1>1, <1>3, <1>4, <1>5
<1>7. ServerOpen'
    BY <1>1 DEF ServerOpen
<1>8. ReadingsHold'
    BY <1>1, <1>2 DEF ServerOpen, ReadingsHold
<1>9. SessionHolds'
    BY <1>1, <1>2, <1>4 DEF ServerOpen, SessionHolds, ReadingsHold
<1> QED BY <1>6, <1>7, <1>8, <1>9

LEMMA PageEnd ==
    ASSUME D!DashboardAssumption, PageInv,
           \/ \E rebuilds \in BOOLEAN : D!PollSucceeds(rebuilds)
           \/ \E failure \in D!Failures : D!PollFails(failure)
           \/ D!Restart
           \/ \E every \in Intervals : D!AdoptInterval(every)
           \/ UNCHANGED D!vars
    PROVE  PageInv'
<1> USE PageFacts
<1> USE DEF PageInv, PageTyped, PageTimes, D!Windows, D!RATE_WINDOW, D!WEEKLY
<1>1. UNCHANGED <<now, server, latest, ends>>
    BY DEF D!PollSucceeds, D!PollFails, D!Restart, D!AdoptInterval, D!vars
<1>2. status' \in [state : D!Failures \cup {"starting", "ok"}, last_ok : PageTimes, fallback : BOOLEAN]
    <2> DEFINE States == [state : D!Failures \cup {"starting", "ok"}, last_ok : PageTimes, fallback : BOOLEAN]
    <2>1. ASSUME NEW rebuilds \in BOOLEAN, D!PollSucceeds(rebuilds)
          PROVE  status' \in States
        BY <2>1 DEF D!PollSucceeds
    <2>2. ASSUME NEW failure \in D!Failures, D!PollFails(failure)
          PROVE  status' \in States
        BY <2>2 DEF D!PollFails
    <2>3. ASSUME D!Restart PROVE status' \in States
        BY <2>3 DEF D!Restart
    <2>4. ASSUME NEW every \in Intervals, D!AdoptInterval(every) PROVE status' \in States
        BY <2>4 DEF D!AdoptInterval
    <2>5. ASSUME UNCHANGED D!vars PROVE status' \in States
        BY <2>5 DEF D!vars
    <2> HIDE DEF States
    <2>6. status' \in States
        BY <2>1, <2>2, <2>3, <2>4, <2>5, Zenon
    <2> QED BY <2>6 DEF States
<1>3. poll' \in {D!Never, poll} /\ captured' \in Intervals /\ interval' \in Intervals
    BY DEF D!PollSucceeds, D!PollFails, D!Restart, D!AdoptInterval, D!vars, D!settings
<1>4. /\ rebuilt' \in BOOLEAN /\ session' \in [ends : PageTimes, current : BOOLEAN]
      /\ rebuilt' /\ poll' = D!Never =>
            session'.ends = ends /\ (latest["five_hour"].reset = D!Never => ~session'.current)
    <2> DEFINE Good == /\ rebuilt' \in BOOLEAN /\ session' \in [ends : PageTimes, current : BOOLEAN]
                       /\ rebuilt' /\ poll' = D!Never =>
                             /\ session'.ends = ends
                             /\ latest["five_hour"].reset = D!Never => ~session'.current
    <2>1. ASSUME NEW at \in PageTimes, latest["five_hour"].ts <= at, D!RebuildRecent(at)
          PROVE  /\ session' \in [ends : PageTimes, current : BOOLEAN] /\ session'.ends = ends
                 /\ latest["five_hour"].reset = D!Never => ~session'.current
        <3> DEFINE open == ends # D!Never /\ at < ends
        <3>1. open \in BOOLEAN
            OBVIOUS
        <3>2. latest["five_hour"].reset = D!Never => ~open
            BY <2>1 DEF SessionHolds
        <3>3. session' = [ends |-> ends, current |-> open]
            BY <2>1 DEF D!RebuildRecent
        <3> HIDE DEF open
        <3> QED BY <3>1, <3>2, <3>3
    <2>2. ASSUME NEW rebuilds \in BOOLEAN, D!PollSucceeds(rebuilds)
          PROVE  Good
        <3>1. poll \in PageTimes /\ latest["five_hour"].ts <= poll /\ rebuilt' = rebuilds
            BY <2>2 DEF D!PollSucceeds, SessionHolds
        <3>2. CASE rebuilds
            <4>1. D!RebuildRecent(poll)
                BY <2>2, <3>2 DEF D!PollSucceeds
            <4> QED BY <2>1, <3>1, <4>1
        <3>3. CASE ~rebuilds
            <4>1. UNCHANGED session
                BY <2>2, <3>3 DEF D!PollSucceeds
            <4> QED BY <3>1, <3>3, <4>1
        <3> QED BY <3>2, <3>3
    <2>3. ASSUME NEW failure \in D!Failures, D!PollFails(failure)
          PROVE  Good
        <3>1. rebuilt' = (rebuilt /\ poll = D!Never) /\ session' = session
            BY <2>3 DEF D!PollFails
        <3> QED BY <3>1 DEF SessionHolds
    <2>4. ASSUME D!Restart
          PROVE  Good
        <3>1. D!RebuildRecent(now) /\ rebuilt' = TRUE /\ now \in PageTimes /\ latest["five_hour"].ts <= now
            BY <2>4 DEF D!Restart, SessionHolds
        <3> QED BY <2>1, <3>1
    <2>5. ASSUME NEW every \in Intervals, D!AdoptInterval(every)
          PROVE  Good
        BY <2>5 DEF D!AdoptInterval, SessionHolds
    <2>6. ASSUME UNCHANGED D!vars
          PROVE  Good
        BY <2>6 DEF D!vars, SessionHolds
    <2> HIDE DEF Good
    <2>7. Good
        BY <2>2, <2>3, <2>4, <2>5, <2>6, Zenon
    <2> QED BY <2>7 DEF Good
<1>5. PageTyped'
    BY <1>1, <1>2, <1>3, <1>4
<1>6. ServerOpen' /\ ReadingsHold'
    BY <1>1 DEF ServerOpen, ReadingsHold
<1>7. SessionHolds'
    BY <1>1, <1>3, <1>4 DEF SessionHolds
<1> QED BY <1>5, <1>6, <1>7

LEMMA PageStep == ASSUME D!DashboardAssumption, PageInv, [D!Next]_D!vars PROVE PageInv'
BY PageUse, PageTick, PageStore, PageEnd DEF D!Next

LEMMA PageOpen == ASSUME D!DashboardAssumption, PageInv PROVE D!ShownIsOpen
<1> SUFFICES ASSUME NEW w \in D!Windows, D!Meter(w) # D!Withheld
             PROVE  /\ now - latest[w].ts <= STALE_AFTER_INTERVALS * captured
                    /\ latest[w].reset # D!Never => server[w].reset = latest[w].reset
                    /\ server[w].reset = latest[w].reset => server[w].pct >= D!Meter(w)
                    /\ status.state \notin {"refused", "parse_failed"} /\ ~status.fallback
    BY DEF D!ShownIsOpen
<1>1. /\ D!Meter(w) = latest[w].pct /\ D!CollectorState(captured) = "ok"
      /\ ~D!WindowHasLapsed(latest[w]) /\ ~D!WindowIsStale(latest[w], captured)
    BY DEF D!Meter, D!PageWithheld
<1>2. status.state \notin {"refused", "parse_failed"} /\ ~status.fallback
    BY <1>1 DEF D!CollectorState
<1>3. latest[w].ts \in Int /\ STALE_AFTER_INTERVALS * captured \in Int /\ now \in Int
    BY PageFacts DEF PageInv, PageTyped, PageTimes
<1>4. now - latest[w].ts <= STALE_AFTER_INTERVALS * captured
    BY <1>1, <1>3 DEF D!WindowIsStale
<1>5. latest[w].reset # D!Never => server[w].reset = latest[w].reset /\ server[w].pct >= latest[w].pct
    BY <1>1, PageFacts DEF D!WindowHasLapsed, PageInv, PageTyped, PageTimes, ReadingsHold
<1>6. server[w].reset = latest[w].reset => server[w].pct >= latest[w].pct
    BY <1>5, PageFacts DEF PageInv, PageTyped, ReadingsHold
<1> QED BY <1>1, <1>2, <1>4, <1>5, <1>6

LEMMA PageAgrees ==
    ASSUME D!DashboardAssumption, PageInv
    PROVE  D!HeroAgreesWithMeter /\ D!ConsumersAgree
<1>1. D!HeroAgreesWithMeter
    <2> SUFFICES ASSUME poll = D!Never, rebuilt
                 PROVE  IF D!Meter(D!RATE_WINDOW) = D!Withheld THEN D!Hero = D!Withheld
                        ELSE D!Hero = FULL - D!Meter(D!RATE_WINDOW)
        BY DEF D!HeroAgreesWithMeter
    <2>1. D!HeroReset = latest[D!RATE_WINDOW].reset
        BY DEF D!HeroReset, PageInv, SessionHolds
    <2>2. D!RATE_WINDOW \in D!CurrentWindows <=> latest[D!RATE_WINDOW].ts # D!Never
        BY DEF D!CurrentWindows, D!Windows
    <2>3. latest[D!RATE_WINDOW].pct \in Nat /\ FULL - latest[D!RATE_WINDOW].pct \in Nat
        BY PageFacts DEF PageInv, PageTyped, D!Windows
    <2>4. D!Withheld \notin Nat
        BY DEF D!Withheld
    <2> QED BY <2>1, <2>2, <2>3, <2>4 DEF D!Meter, D!Hero, D!SessionStale, D!WindowHasLapsed
<1>2. ASSUME NEW w \in D!Windows
      PROVE  /\ D!Meter(w) # D!Withheld => D!Gauge(w) = D!Meter(w)
             /\ D!Gauge(w) # D!Withheld /\ captured = interval => D!ApiPct(w) = D!Gauge(w)
             /\ D!ApiPct(w) # D!Withheld /\ latest[w].reset # D!Never => server[w].reset = latest[w].reset
    <2>1. D!Meter(w) # D!Withheld => D!Gauge(w) = D!Meter(w)
        BY DEF D!Meter, D!Gauge, D!IsLive, D!PageWithheld, D!CollectorState
    <2>2. D!Gauge(w) # D!Withheld /\ captured = interval => D!ApiPct(w) = D!Gauge(w)
        BY DEF D!Gauge, D!ApiPct, D!IsLive
    <2>3. D!ApiPct(w) # D!Withheld /\ latest[w].reset # D!Never => server[w].reset = latest[w].reset
        BY PageFacts DEF D!ApiPct, D!WindowHasLapsed, PageInv, PageTyped, PageTimes, ReadingsHold
    <2> QED BY <2>1, <2>2, <2>3
<1> QED BY <1>1, <1>2 DEF D!ConsumersAgree

-----------------------------------------------------------------------------
LEMMA MaxOfWeeks ==
    ASSUME NEW U \in SUBSET Int, IsFiniteSet(U), U # {}
    PROVE  W!Max(U) \in U /\ \A y \in U : y <= W!Max(U)
BY LargestThereIs DEF W!Max

LEMMA SameCount == \A U : W!Cardinality(U) = Cardinality(U)
BY DEF W!Cardinality, Cardinality

(* Every event is of a reset the readings show, and tells of it what the    *)
(* sessions still tell, unless the rows it was made from lagged behind.    *)
EntriesTrue ==
    \A e \in ledger :
        /\ e.closed_at \in W!Closings(polls)
        /\ e.closed_at \notin misled => e = W!WeekReset(sessions, e.closed_at)

WeeksTyped ==
    /\ now \in Nat /\ polls \subseteq 0..now
    /\ \A s \in sessions : s.ends \in 0..now
    /\ IsFiniteSet(ledger)

WeeksInv == WeeksTyped /\ EntriesTrue

(* Later is no earlier week. *)
LEMMA WeekGrows ==
    ASSUME W!WeeksAssumption, NEW a \in Nat, NEW b \in Nat, a <= b
    PROVE  W!WeekKey(a) \in Nat /\ W!WeekKey(b) \in Nat /\ W!WeekKey(a) <= W!WeekKey(b)
<1>1. WeekLength \in Nat \ {0}
    BY DEF W!WeeksAssumption
<1>2. a \div WeekLength <= b \div WeekLength
    BY <1>1
<1>3. a \div WeekLength \in Int /\ a \div WeekLength >= 0
    BY <1>1
<1>4. b \div WeekLength \in Int /\ b \div WeekLength >= 0
    BY <1>1
<1> QED BY <1>2, <1>3, <1>4 DEF W!WeekKey

(* The reading a reset is recorded at is the last of its week. *)
LEMMA ClosingIsLast ==
    ASSUME W!WeeksAssumption, WeeksTyped, NEW t \in W!Closings(polls)
    PROVE  /\ t \in polls /\ t \in 0..now
           /\ \E u \in polls : u > t /\ W!WeekKey(t) < W!WeekKey(u)
           /\ \A v \in polls : W!WeekKey(v) = W!WeekKey(t) => v <= t
           /\ W!LastReading(W!WeekKey(t)) = t
<1>1. /\ \A v \in polls : v \in Nat
      /\ t \in polls /\ t \in 0..now
    BY DEF WeeksTyped, W!Closings
<1>2. PICK u \in polls : u > t /\ W!WeekKey(u) # W!WeekKey(t) /\ \A v \in polls : v <= t \/ u <= v
    BY DEF W!Closings
<1>3. W!WeekKey(t) < W!WeekKey(u)
    BY <1>1, <1>2, WeekGrows
<1>4. ASSUME NEW v \in polls, W!WeekKey(v) = W!WeekKey(t) PROVE v <= t
    <2>1. CASE u <= v
        BY <1>1, <1>3, <1>4, <2>1, WeekGrows
    <2> QED BY <1>2, <2>1
<1>5. W!LastReading(W!WeekKey(t)) = t
    <2> DEFINE mine == {W!None} \cup {v \in polls : W!WeekKey(v) = W!WeekKey(t)}
    <2>1. t \in mine /\ \A v \in mine : t >= v /\ v \in Int
        BY <1>1, <1>4 DEF W!None
    <2> HIDE DEF mine
    <2>2. W!Max(mine) = t
        BY <2>1 DEF W!Max
    <2> QED BY <2>2 DEF W!LastReading, mine
<1> QED BY <1>1, <1>2, <1>3, <1>4, <1>5

LEMMA WeeksBegin == ASSUME W!WeeksAssumption, W!Init PROVE WeeksInv
BY FS_EmptySet DEF W!Init, WeeksInv, WeeksTyped, EntriesTrue

(* What a session that is over changes nothing of. *)
LEMMA SessionKeeps ==
    ASSUME W!WeeksAssumption, WeeksTyped, NEW cost, W!Session(cost), NEW t \in W!Closings(polls)
    PROVE  W!WeekReset(sessions, t)' = W!WeekReset(sessions, t)
<1> DEFINE s == [ends |-> now, cost |-> cost]
<1>1. sessions' = sessions \cup {s} /\ now \notin polls /\ now >= SessionLength
    BY DEF W!Session
<1>2. PICK u \in polls : u > t /\ W!WeekKey(t) < W!WeekKey(u)
    BY ClosingIsLast
<1>3. t \in Nat /\ u \in Nat /\ now \in Nat /\ u <= now - 1 /\ now - 1 \in Nat /\ t < now
    BY <1>1, <1>2, ClosingIsLast DEF WeeksTyped
<1>4. W!WeekKey(t) \in Nat /\ W!WeekKey(t) < W!WeekKey(now - 1)
    BY <1>2, <1>3, WeekGrows
<1>5. W!WeekOf(s) \in {W!WeekKey(now - 1), W!None}
    BY DEF W!WeekOf
<1>6. W!WeekOf(s) # W!WeekKey(t)
    BY <1>3, <1>4, <1>5, WeekGrows DEF W!None
<1>7. {q \in sessions' : W!WeekOf(q) = W!WeekKey(t)} = {q \in sessions : W!WeekOf(q) = W!WeekKey(t)}
    BY <1>1, <1>6
<1>8. {q \in sessions' : q.ends <= t} = {q \in sessions : q.ends <= t}
    BY <1>1, <1>3
<1> QED BY <1>7, <1>8 DEF W!WeekReset, W!Summarize, W!FullWindows

(* A poll is later than every other. *)
LEMMA PollKeeps ==
    ASSUME W!WeeksAssumption, WeeksTyped, now \notin polls, polls' = polls \cup {now}
    PROVE  W!Closings(polls) \subseteq W!Closings(polls')
BY DEF WeeksTyped, W!Closings

(* One way an event is written, by a poll as by a start. *)
LEMMA RecordKeeps ==
    ASSUME W!WeeksAssumption, WeeksInv, NEW closings, IsFiniteSet(closings),
           closings \subseteq W!Closings(polls'), W!Closings(polls) \subseteq W!Closings(polls'),
           W!Record(closings), UNCHANGED <<now, sessions>>
    PROVE  EntriesTrue' /\ IsFiniteSet(ledger')
<1> DEFINE fresh == {c \in closings : \A e \in ledger : e.closed_at # c}
           news == {W!WeekReset(windows', t) : t \in fresh}
<1>1. /\ ledger' = ledger \cup news
      /\ misled' = IF windows' = sessions THEN misled ELSE misled \cup fresh
    BY DEF W!Record
<1>2. \A t : W!WeekReset(sessions, t)' = W!WeekReset(sessions, t)
    BY DEF W!WeekReset, W!Summarize, W!FullWindows
<1>3. \A t : W!WeekReset(windows', t).closed_at = t
    BY DEF W!WeekReset
<1>4. ASSUME NEW e \in news
      PROVE  e.closed_at \in fresh /\ e = W!WeekReset(windows', e.closed_at)
    BY <1>3
<1>5. EntriesTrue'
    <2> SUFFICES ASSUME NEW e \in ledger'
                 PROVE  /\ e.closed_at \in W!Closings(polls)'
                        /\ e.closed_at \notin misled' => e = W!WeekReset(sessions, e.closed_at)'
        BY DEF EntriesTrue
    <2>0. W!Closings(polls)' = W!Closings(polls')
        BY DEF W!Closings
    <2> HIDE DEF news, fresh
    <2>1. CASE e \in ledger
        <3>1. /\ e.closed_at \in W!Closings(polls)
              /\ e.closed_at \notin misled => e = W!WeekReset(sessions, e.closed_at)
            BY <2>1 DEF WeeksInv, EntriesTrue
        <3>2. e.closed_at \notin misled' => e.closed_at \notin misled
            BY <1>1
        <3> QED BY <1>2, <2>0, <3>1, <3>2
    <2>2. CASE e \in news
        <3>1. e.closed_at \in fresh /\ e = W!WeekReset(windows', e.closed_at)
            BY <1>4, <2>2
        <3>2. e.closed_at \in W!Closings(polls')
            BY <3>1 DEF fresh
        <3>3. e.closed_at \notin misled' => windows' = sessions
            BY <1>1, <3>1
        <3> QED BY <1>2, <2>0, <3>1, <3>2, <3>3
    <2> QED BY <1>1, <2>1, <2>2
<1>6. IsFiniteSet(fresh)
    BY FS_Subset
<1>7. IsFiniteSet(news)
    <2> DEFINE f == [c \in fresh |-> W!WeekReset(windows', c)]
    <2>1. f \in [fresh -> news] /\ \A e \in news : \E c \in fresh : f[c] = e
        OBVIOUS
    <2> HIDE DEF f, news, fresh
    <2>2. f \in Surjection(fresh, news)
        BY <2>1 DEF Surjection
    <2> QED BY <1>6, <2>2, FS_Surjection
<1>8. IsFiniteSet(ledger')
    BY <1>1, <1>7, FS_Union DEF WeeksInv, WeeksTyped
<1> QED BY <1>5, <1>8

(* A step that writes no event and leaves the sessions as they were. *)
LEMMA NothingRecorded ==
    ASSUME W!WeeksAssumption, WeeksInv, W!Closings(polls) \subseteq W!Closings(polls'),
           UNCHANGED <<sessions, ledger, misled>>
    PROVE  EntriesTrue'
<1>1. \A t : W!WeekReset(sessions, t)' = W!WeekReset(sessions, t)
    BY DEF W!WeekReset, W!Summarize, W!FullWindows
<1>2. W!Closings(polls)' = W!Closings(polls')
    BY DEF W!Closings
<1> QED BY <1>1, <1>2 DEF WeeksInv, EntriesTrue

LEMMA WeeksStep == ASSUME W!WeeksAssumption, WeeksInv, [W!Next]_W!vars PROVE WeeksInv'
<1> USE DEF WeeksInv
<1>1. ASSUME NEW cost \in Costs, W!Session(cost) PROVE WeeksInv'
    <2>1. EntriesTrue'
        <3>1. UNCHANGED <<polls, ledger, misled>> /\ W!Closings(polls)' = W!Closings(polls)
            BY <1>1 DEF W!Session, W!Closings
        <3> QED BY <1>1, <3>1, SessionKeeps DEF EntriesTrue
    <2>2. WeeksTyped'
        BY <1>1 DEF W!Session, WeeksTyped
    <2> QED BY <2>1, <2>2
<1>2. CASE W!Poll
    <2>1. W!Closings(polls) \subseteq W!Closings(polls') /\ UNCHANGED <<now, sessions>>
          /\ now \notin polls /\ polls' = polls \cup {now}
        BY <1>2, PollKeeps DEF W!Poll
    <2>2. IsFiniteSet(W!Closings(polls') \ W!Closings(polls))
        <3>1. polls' \subseteq 0..now /\ IsFiniteSet(0..now)
            BY <2>1, FS_Interval DEF WeeksTyped
        <3>2. W!Closings(polls') \ W!Closings(polls) \subseteq 0..now
            BY <3>1 DEF W!Closings
        <3> QED BY <3>1, <3>2, FS_Subset
    <2>3. CASE W!Record(W!Closings(polls') \ W!Closings(polls))
        <3>1. EntriesTrue' /\ IsFiniteSet(ledger')
            BY <2>1, <2>2, <2>3, RecordKeeps
        <3> QED BY <2>1, <3>1 DEF WeeksTyped
    <2>4. CASE UNCHANGED <<ledger, misled>>
        <3>1. EntriesTrue'
            BY <2>1, <2>4, NothingRecorded
        <3>2. WeeksTyped'
            BY <2>1, <2>4 DEF WeeksTyped
        <3> QED BY <3>1, <3>2
    <2> QED BY <1>2, <2>3, <2>4 DEF W!Poll
<1>3. CASE W!Backfill
    <2>1. W!Closings(polls) = W!Closings(polls') /\ UNCHANGED <<now, sessions, polls>>
        BY <1>3 DEF W!Backfill
    <2>2. IsFiniteSet(W!Closings(polls))
        <3>1. polls \subseteq 0..now /\ IsFiniteSet(0..now)
            BY FS_Interval DEF WeeksTyped
        <3>2. W!Closings(polls) \subseteq 0..now
            BY <3>1 DEF W!Closings
        <3> QED BY <3>1, <3>2, FS_Subset
    <2>3. CASE W!Record(W!Closings(polls))
        <3>1. EntriesTrue' /\ IsFiniteSet(ledger')
            BY <2>1, <2>2, <2>3, RecordKeeps
        <3> QED BY <2>1, <3>1 DEF WeeksTyped
    <2>4. CASE UNCHANGED <<ledger, misled>>
        <3>1. EntriesTrue'
            BY <2>1, <2>4, NothingRecorded
        <3>2. WeeksTyped'
            BY <2>1, <2>4 DEF WeeksTyped
        <3> QED BY <3>1, <3>2
    <2> QED BY <1>3, <2>3, <2>4 DEF W!Backfill
<1>4. CASE W!Tick \/ UNCHANGED W!vars
    <2>1. UNCHANGED <<sessions, polls, ledger, misled>> /\ now' \in Nat /\ now' >= now
        BY <1>4 DEF W!Tick, W!vars, WeeksTyped
    <2>2. EntriesTrue'
        BY <2>1, NothingRecorded
    <2> QED BY <2>1, <2>2 DEF WeeksTyped
<1> QED BY <1>1, <1>2, <1>3, <1>4 DEF W!Next

(* A row's figures are of the reset that closed the week, or opened it.     *)
LEMMA RowIsTrue ==
    ASSUME W!WeeksAssumption, WeeksInv, NEW r \in W!WeeksView
    PROVE  /\ r = W!Row(r.week)
           /\ r.closed_at # W!None =>
                 /\ r.closed_at = W!LastReading(r.week)
                 /\ r.closed_at \notin misled => r.cost = W!Summarize(sessions, r.week)
           /\ r.at_reset # W!None /\ W!LastReading(r.week - 1) \notin misled =>
                 r.at_reset = W!FullWindows(sessions, W!LastReading(r.week - 1))
           /\ r.at_rate # W!None /\ W!LastReading(r.week - 1) \notin misled =>
                 r.at_rate = W!Summarize(sessions, r.week - 1)
<1>1. PICK week \in W!WeeksShown \cup {W!WeekKey(now)} : r = W!Row(week)
    BY DEF W!WeeksView
<1>2. r.week = week
    BY <1>1 DEF W!Row
<1>3. ASSUME NEW w, NEW e \in W!ByClose(w)
      PROVE  /\ e.closed_at = W!LastReading(w)
             /\ e.closed_at \notin misled =>
                   /\ e.cost = W!Summarize(sessions, w) /\ e.at_rate = W!Summarize(sessions, w)
                   /\ e.at_reset = W!FullWindows(sessions, W!LastReading(w))
    <2>1. /\ e.closed_at \in W!Closings(polls) /\ W!WeekKey(e.closed_at) = w
          /\ e.closed_at \notin misled => e = W!WeekReset(sessions, e.closed_at)
        BY <1>3 DEF WeeksInv, EntriesTrue, W!ByClose
    <2>2. W!LastReading(w) = e.closed_at
        BY <2>1, ClosingIsLast DEF WeeksInv
    <2> QED BY <2>1, <2>2 DEF W!WeekReset
<1>4. r.closed_at # W!None =>
          /\ r.closed_at = W!LastReading(week)
          /\ r.closed_at \notin misled => r.cost = W!Summarize(sessions, week)
    <2>1. CASE week = W!WeekKey(now)
        BY <1>1, <2>1 DEF W!Row
    <2>2. CASE week # W!WeekKey(now)
        <3>1. r.closed_at = W!CostFields(week).closed_at /\ r.cost = W!CostFields(week).cost
            BY <1>1, <2>2 DEF W!Row
        <3>2. CASE W!ByClose(week) = {}
            BY <3>1, <3>2 DEF W!CostFields
        <3>3. CASE W!ByClose(week) # {}
            <4> DEFINE e == CHOOSE q \in W!ByClose(week) : TRUE
            <4>1. e \in W!ByClose(week)
                BY <3>3
            <4>2. W!CostFields(week) = [closed_at |-> e.closed_at, cost |-> e.cost]
                BY <3>3 DEF W!CostFields
            <4> HIDE DEF e
            <4> QED BY <1>3, <3>1, <4>1, <4>2
        <3> QED BY <3>2, <3>3
    <2> QED BY <2>1, <2>2
<1>5. W!LastReading(week - 1) \notin misled =>
          /\ r.at_reset # W!None => r.at_reset = W!FullWindows(sessions, W!LastReading(week - 1))
          /\ r.at_rate # W!None => r.at_rate = W!Summarize(sessions, week - 1)
    <2>1. r.at_reset = W!ResetFields(week).at_reset /\ r.at_rate = W!ResetFields(week).at_rate
        BY <1>1 DEF W!Row
    <2>2. CASE W!Opener(week) = {}
        BY <2>1, <2>2 DEF W!ResetFields
    <2>3. CASE W!Opener(week) # {}
        <3> DEFINE e == CHOOSE q \in W!Opener(week) : TRUE
        <3>1. e \in W!ByClose(week - 1)
            BY <2>3 DEF W!Opener
        <3>2. W!ResetFields(week) = [at_reset |-> e.at_reset, at_rate |-> e.at_rate]
            BY <2>3 DEF W!ResetFields
        <3> HIDE DEF e
        <3> QED BY <1>3, <2>1, <3>1, <3>2
    <2> QED BY <2>2, <2>3
<1> QED BY <1>1, <1>2, <1>4, <1>5

(* Of a finite set of weeks' rows one is the latest. *)
LEMMA LatestRow ==
    ASSUME NEW table, IsFiniteSet(table), table # {}, \A r \in table : r.week \in Int
    PROVE  \E r \in table : \A q \in table : q.week <= r.week
<1> DEFINE weeks == {r.week : r \in table}
           f == [r \in table |-> r.week]
<1>1. f \in [table -> weeks] /\ \A w \in weeks : \E r \in table : f[r] = w
    OBVIOUS
<1>2. weeks \in SUBSET Int /\ weeks # {}
    OBVIOUS
<1>3. f \in Surjection(table, weeks)
    <2> HIDE DEF f, weeks
    <2> QED BY <1>1 DEF Surjection
<1>4. IsFiniteSet(weeks)
    <2> HIDE DEF f, weeks
    <2> QED BY <1>3, FS_Surjection
<1>5. W!Max(weeks) \in weeks /\ \A w \in weeks : w <= W!Max(weeks)
    <2> HIDE DEF weeks
    <2> QED BY <1>2, <1>4, MaxOfWeeks
<1> QED BY <1>5

LEMMA FiniteView == ASSUME W!WeeksAssumption, WeeksInv PROVE IsFiniteSet(W!WeeksView)
<1> DEFINE pair == [e \in ledger |-> {W!WeekKey(e.closed_at), W!WeekKey(e.closed_at) + 1}]
           pairs == {{W!WeekKey(e.closed_at), W!WeekKey(e.closed_at) + 1} : e \in ledger}
<1>1. pair \in Surjection(ledger, pairs)
    <2>1. pair \in [ledger -> pairs] /\ \A p \in pairs : \E e \in ledger : pair[e] = p
        OBVIOUS
    <2> HIDE DEF pair, pairs
    <2> QED BY <2>1 DEF Surjection
<1>2. IsFiniteSet(pairs)
    <2> HIDE DEF pair, pairs
    <2> QED BY <1>1, FS_Surjection DEF WeeksInv, WeeksTyped
<1>3. \A p \in pairs : IsFiniteSet(p)
    <2> SUFFICES ASSUME NEW e \in ledger
                 PROVE  IsFiniteSet({W!WeekKey(e.closed_at), W!WeekKey(e.closed_at) + 1})
        OBVIOUS
    <2> DEFINE k == W!WeekKey(e.closed_at)
    <2>1. {k, k + 1} = {k} \cup {k + 1}
        OBVIOUS
    <2> HIDE DEF k
    <2>2. IsFiniteSet({k, k + 1})
        <3>1. IsFiniteSet({k})
            BY FS_Singleton, Zenon
        <3>2. IsFiniteSet({k} \cup {k + 1})
            BY <3>1, FS_AddElement, Zenon
        <3> QED BY <2>1, <3>2
    <2> QED BY <2>2 DEF k
<1>4. IsFiniteSet(W!WeeksShown)
    <2> HIDE DEF pairs
    <2>1. IsFiniteSet(UNION pairs)
        BY <1>2, <1>3, FS_UNION
    <2> QED BY <2>1 DEF W!WeeksShown, pairs
<1> DEFINE shown == W!WeeksShown \cup {W!WeekKey(now)}
           f == [w \in shown |-> W!Row(w)]
<1>5. IsFiniteSet(shown)
    BY <1>4, FS_AddElement
<1>6. f \in [shown -> W!WeeksView] /\ \A r \in W!WeeksView : \E w \in shown : f[w] = r
    BY DEF W!WeeksView
<1> HIDE DEF f, shown
<1>7. f \in Surjection(shown, W!WeeksView)
    BY <1>6 DEF Surjection
<1> QED BY <1>5, <1>7, FS_Surjection

LEMMA VerdictIsTrue ==
    ASSUME W!WeeksAssumption, WeeksInv, NEW v \in W!Verdict
    PROVE  /\ v[2].week < v[1].week
           /\ \A i \in {1, 2} : v[i].closed_at \notin misled =>
                                v[i].cost = W!Summarize(sessions, v[i].week)
<1> DEFINE complete == {r \in W!WeeksView : r.closed_at # W!None /\ r.cost # W!None}
           new == CHOOSE r \in complete : \A q \in complete : q.week <= r.week
           rest == complete \ {new}
           old == CHOOSE r \in rest : \A q \in rest : q.week <= r.week
<1>1. v = <<new, old>> /\ ~(Cardinality(complete) < 2)
    BY SameCount DEF W!Verdict
<1>2. \A r \in complete :
          /\ r = W!Row(r.week) /\ r.week \in Int
          /\ r.closed_at \notin misled => r.cost = W!Summarize(sessions, r.week)
    <2>1. W!WeekKey(now) \in Int
        BY WeekGrows DEF WeeksInv, WeeksTyped
    <2>2. \A e \in ledger : W!WeekKey(e.closed_at) \in Int
        BY ClosingIsLast, WeekGrows DEF WeeksInv, WeeksTyped, EntriesTrue
    <2>3. \A w \in W!WeeksShown \cup {W!WeekKey(now)} : w \in Int
        BY <2>1, <2>2 DEF W!WeeksShown
    <2>4. \A r \in W!WeeksView : r.week \in Int
        BY <2>3 DEF W!WeeksView, W!Row
    <2> QED BY <2>4, RowIsTrue
<1>3. IsFiniteSet(complete)
    BY FiniteView, FS_Subset
<1> HIDE DEF complete
<1>4. complete # {}
    BY <1>1, FS_EmptySet
<1>5. new \in complete /\ \A q \in complete : q.week <= new.week
    BY <1>2, <1>3, <1>4, LatestRow
<1> HIDE DEF new
<1>6. rest # {} /\ IsFiniteSet(rest)
    <2>1. IsFiniteSet(rest)
        BY <1>3, FS_Subset
    <2>2. ASSUME rest = {} PROVE FALSE
        <3>1. complete = {new}
            BY <1>5, <2>2
        <3>2. Cardinality({new}) = 1
            BY FS_Singleton, Zenon
        <3> QED BY <1>1, <3>1, <3>2
    <2> QED BY <2>1, <2>2
<1>7. old \in rest /\ \A q \in rest : q.week <= old.week
    BY <1>2, <1>6, LatestRow
<1> HIDE DEF old
<1>8. old \in complete /\ old # new
    BY <1>7
<1>9. old.week < new.week
    BY <1>2, <1>5, <1>8
<1> QED BY <1>1, <1>2, <1>5, <1>8, <1>9

LEMMA WeeksSafe == ASSUME W!WeeksAssumption, WeeksInv PROVE W!WeekTableIsTrue
BY RowIsTrue, VerdictIsTrue DEF W!WeekTableIsTrue

-----------------------------------------------------------------------------
LEMMA MaxOfTimes ==
    ASSUME NEW U \in SUBSET Int, IsFiniteSet(U), U # {}
    PROVE  S!Max(U) \in U /\ \A y \in U : y <= S!Max(U)
BY LargestThereIs DEF S!Max

LEMMA MinOfTimes ==
    ASSUME NEW U \in SUBSET Nat, U # {}
    PROVE  S!Min(U) \in U /\ \A y \in U : S!Min(U) <= y
BY LeastThereIs DEF S!Min

DatedSamples == {s \in samples : s.split # S!None}
OfWeek(w, U) == {s \in U : s.started = w * SplitWeekLength}

(* A sample is known by its time, and has a split of a week or none. *)
SplitFormed(s) ==
    /\ s.split \in Splits \cup {S!None}
    /\ s.split # S!None => \E w \in S!Weeks : s.started = w * SplitWeekLength
    /\ s.split = S!None => s.started = S!None

SplitsTyped ==
    /\ now \in 0..LastSplitTime
    /\ \A s \in samples : s.ts \in 0..now /\ SplitFormed(s)
    /\ \A s, q \in samples : s.ts = q.ts => s = q
    /\ snapshots \subseteq DatedSamples
    /\ received \in [S!Weeks -> Splits \cup {S!None}]

(* The newest snapshot of a week holds the split it received last; so does  *)
(* the newest sample, unless its poll failed before that.                  *)
LastIsKept ==
    \A w \in S!Weeks :
        /\ received[w] = S!None <=> OfWeek(w, snapshots) = {}
        /\ \A s \in S!Newest(OfWeek(w, snapshots)) : s.split = received[w]
        /\ \A s \in S!Newest(OfWeek(w, DatedSamples)) : s.ts \in torn \/ s.split = received[w]

SplitsInv == SplitsTyped /\ LastIsKept

(* The hour a week starts on, with the jitter taken off, and its number. *)
LEMMA WeekStart ==
    ASSUME S!SurfacesAssumption, NEW w \in Nat
    PROVE  /\ \A jitter \in Jitters : S!WholeHour(w * SplitWeekLength + jitter) = w * SplitWeekLength
           /\ S!WeekKey(w * SplitWeekLength) = w
           /\ w * SplitWeekLength \in Nat
<1>1. Hour \in Nat \ {0} /\ SplitWeekLength \in Nat \ {0} /\ SplitWeekLength % Hour = 0
    BY DEF S!SurfacesAssumption
<1>2. PICK k \in Nat : SplitWeekLength = Hour * k
    BY <1>1
<1>3. S!WeekKey(w * SplitWeekLength) = w
    BY <1>1 DEF S!WeekKey
<1>4. ASSUME NEW jitter \in Jitters
      PROVE  S!WholeHour(w * SplitWeekLength + jitter) = w * SplitWeekLength
    <2> DEFINE r == jitter + Hour \div 2
    <2>1. r \in 0..Hour - 1
        <3>1. jitter \in -(Hour \div 2)..(Hour - 1) \div 2
            BY DEF S!SurfacesAssumption
        <3>2. (Hour - 1) \div 2 + Hour \div 2 = Hour - 1
            BY <1>1
        <3>3. (Hour - 1) \div 2 \in Int /\ Hour \div 2 \in Int
            BY <1>1
        <3> QED BY <1>1, <3>1, <3>2, <3>3
    <2>2. w * SplitWeekLength = Hour * (w * k) /\ w * k \in Nat
        BY <1>1, <1>2
    <2>3. jitter \in Int /\ Hour \div 2 \in Int
        BY <1>1 DEF S!SurfacesAssumption
    <2>4. w * SplitWeekLength + jitter + Hour \div 2 = Hour * (w * k) + r
        BY <1>1, <2>2, <2>3
    <2> HIDE DEF r
    <2>5. (Hour * (w * k) + r) \div Hour = w * k
        BY <1>1, <2>1, <2>2
    <2>6. (w * k) * Hour = w * SplitWeekLength
        BY <1>1, <1>2
    <2> QED BY <2>4, <2>5, <2>6 DEF S!WholeHour
<1>5. w * SplitWeekLength \in Nat
    BY <1>1
<1> QED BY <1>3, <1>4, <1>5

(* Of samples one is the newest, and one is the oldest. *)
LEMMA NewestOne ==
    ASSUME NEW last \in Nat, NEW U, U # {}, \A s \in U : s.ts \in 0..last,
           \A s, q \in U : s.ts = q.ts => s = q
    PROVE  \E m \in U : S!Newest(U) = {m} /\ \A q \in U : q.ts <= m.ts
<1> DEFINE times == {q.ts : q \in U}
<1>1. times \subseteq 0..last
    OBVIOUS
<1>2. IsFiniteSet(times)
    <2> HIDE DEF times
    <2>1. IsFiniteSet(0..last)
        BY FS_Interval
    <2> QED BY <1>1, <2>1, FS_Subset
<1>3. times \in SUBSET Int /\ times # {}
    BY <1>1
<1>4. S!Max(times) \in times /\ \A t \in times : t <= S!Max(times)
    <2> HIDE DEF times
    <2> QED BY <1>2, <1>3, MaxOfTimes
<1>5. PICK m \in U : m.ts = S!Max(times)
    BY <1>4
<1>6. \A q \in U : q.ts <= m.ts
    BY <1>4, <1>5
<1>7. S!Newest(U) = {q \in U : q.ts = m.ts}
    BY <1>5 DEF S!Newest
<1> QED BY <1>6, <1>7

LEMMA OldestOne ==
    ASSUME NEW last \in Nat, NEW U, U # {}, \A s \in U : s.ts \in 0..last
    PROVE  \E m \in U : \A q \in U : m.ts <= q.ts
<1> DEFINE times == {q.ts : q \in U}
<1>1. times \subseteq 0..last
    OBVIOUS
<1>2. times \in SUBSET Nat /\ times # {}
    BY <1>1
<1>3. S!Min(times) \in times /\ \A t \in times : S!Min(times) <= t
    <2> HIDE DEF times
    <2> QED BY <1>2, MinOfTimes
<1> QED BY <1>3

LEMMA NewestIs ==
    ASSUME NEW last \in Nat, NEW U, \A s \in U : s.ts \in 0..last,
           \A s, q \in U : s.ts = q.ts => s = q,
           NEW m \in U, \A q \in U : q.ts <= m.ts
    PROVE  S!Newest(U) = {m}
<1>1. PICK n \in U : S!Newest(U) = {n} /\ \A q \in U : q.ts <= n.ts
    <2> HIDE DEF S!Newest
    <2> QED BY NewestOne
<1>2. n.ts = m.ts
    BY <1>1
<1> QED BY <1>1, <1>2

LEMMA NewestOfNone == S!Newest({}) = {}
BY DEF S!Newest

LEMMA OneWeek ==
    ASSUME S!SurfacesAssumption, NEW v \in Nat, NEW w \in Nat, v * SplitWeekLength = w * SplitWeekLength
    PROVE  v = w
BY WeekStart

LEMMA SplitsBegin == ASSUME S!SurfacesAssumption, S!Init PROVE SplitsInv
<1>1. SplitsTyped
    BY DEF S!Init, SplitsTyped, S!SurfacesAssumption, DatedSamples
<1>2. \A w \in S!Weeks : received[w] = S!None /\ OfWeek(w, snapshots) = {} /\ OfWeek(w, DatedSamples) = {}
    BY DEF S!Init, OfWeek, DatedSamples
<1>3. LastIsKept
    BY <1>2, NewestOfNone DEF LastIsKept
<1> QED BY <1>1, <1>3 DEF SplitsInv

(* A start stores, of a week whose last sample is m, what leaves the newest *)
(* snapshot with m's split: the oldest sample since which no other came is  *)
(* stored already, or differs from the one before it and is replayed.      *)
LEMMA ReplayEndsRight ==
    ASSUME S!SurfacesAssumption, SplitsTyped, NEW w \in S!Weeks, NEW m \in OfWeek(w, DatedSamples),
           \A q \in OfWeek(w, DatedSamples) : q.ts <= m.ts
    PROVE  \E x \in OfWeek(w, snapshots \cup S!Replayed) :
              \A r \in OfWeek(w, DatedSamples) : x.ts <= r.ts => r.split = m.split
<1> DEFINE U == OfWeek(w, DatedSamples)
           Same(x) == \A r \in U : x.ts <= r.ts => r.split = m.split
           tail == {x \in U : Same(x)}
<1>1. /\ now \in Nat /\ \A s \in samples : s.ts \in 0..now
      /\ \A s, q \in samples : s.ts = q.ts => s = q
      /\ U \subseteq samples /\ snapshots \subseteq samples
    BY DEF SplitsTyped, S!SurfacesAssumption, OfWeek, DatedSamples
<1>2. m \in tail
    BY <1>1
<1>3. PICK x \in tail : \A q \in tail : x.ts <= q.ts
    <2>1. \A s \in tail : s.ts \in 0..now
        BY <1>1
    <2> HIDE DEF tail
    <2> QED BY <1>1, <1>2, <2>1, OldestOne
<1>4. x \in samples /\ x.split # S!None /\ x.started = w * SplitWeekLength /\ Same(x) /\ x.split = m.split
    BY <1>1, <1>3 DEF OfWeek, DatedSamples
<1>5. CASE x \in snapshots
    BY <1>4, <1>5 DEF OfWeek
<1>6. CASE x \notin snapshots
    <2> DEFINE before == {r \in samples : r.started = x.started /\ r.ts < x.ts}
    <2>1. \A q \in snapshots : q.ts # x.ts
        BY <1>1, <1>4, <1>6
    <2>2. before \subseteq U
        <3>1. w * SplitWeekLength # S!None
            BY WeekStart DEF S!Weeks, S!None
        <3> QED BY <1>4, <3>1 DEF SplitsTyped, SplitFormed, OfWeek, DatedSamples
    <2>3. ASSUME NEW q \in S!Newest(before) PROVE q.split # x.split
        <3>1. before # {}
            BY <2>3, NewestOfNone
        <3>2. PICK n \in before : S!Newest(before) = {n} /\ \A r \in before : r.ts <= n.ts
            <4>1. \A s \in before : s.ts \in 0..now
                BY <1>1
            <4>2. \A s, r \in before : s.ts = r.ts => s = r
                BY <1>1
            <4> HIDE DEF before
            <4> QED BY <1>1, <3>1, <4>1, <4>2, NewestOne
        <3>3. q \in before /\ \A r \in before : r.ts <= q.ts
            BY <2>3, <3>2
        <3>4. ASSUME q.split = x.split PROVE FALSE
            <4>1. ASSUME NEW r \in U, q.ts <= r.ts PROVE r.split = m.split
                <5>1. CASE x.ts <= r.ts
                    BY <1>4, <5>1
                <5>2. CASE ~(x.ts <= r.ts)
                    <6>1. r \in before
                        BY <1>1, <1>4, <5>2 DEF OfWeek, DatedSamples
                    <6>2. r.ts = q.ts
                        BY <1>1, <3>3, <4>1, <6>1
                    <6> QED BY <1>1, <1>4, <3>3, <3>4, <6>1, <6>2
                <5> QED BY <5>1, <5>2
            <4>2. q \in tail
                BY <2>2, <3>3, <4>1
            <4> QED BY <1>1, <1>3, <1>4, <3>3, <4>2
        <3> QED BY <3>4
    <2>4. x \in S!Replayed
        BY <1>4, <2>1, <2>3 DEF S!Replayed
    <2> QED BY <1>4, <2>4 DEF OfWeek
<1> QED BY <1>5, <1>6

LEMMA RestartKeepsLast ==
    ASSUME S!SurfacesAssumption, SplitsInv, S!Restart
    PROVE  SplitsInv'
<1> USE DEF SplitsInv
<1>1. /\ snapshots' = snapshots \cup S!Replayed /\ torn' = {}
      /\ UNCHANGED <<now, samples>>
      /\ S!Replayed \subseteq DatedSamples
    BY DEF S!Restart, S!Replayed, DatedSamples
<1>2. /\ now \in Nat /\ \A s \in samples : s.ts \in 0..now
      /\ \A s, q \in samples : s.ts = q.ts => s = q
    BY DEF SplitsTyped, S!SurfacesAssumption
<1>3. ASSUME NEW w \in S!Weeks
      PROVE  /\ OfWeek(w, DatedSamples) = {} => received'[w] = S!None
             /\ \A m \in OfWeek(w, DatedSamples) : (\A q \in OfWeek(w, DatedSamples) : q.ts <= m.ts)
                     => received'[w] = m.split
    <2> DEFINE of == {s \in samples : s.split # S!None /\ S!WeekKey(s.started) = w}
    <2>1. of = OfWeek(w, DatedSamples)
        BY WeekStart DEF OfWeek, DatedSamples, SplitsTyped, SplitFormed, S!Weeks
    <2>2. received'[w] = IF of = {} THEN S!None ELSE (CHOOSE s \in S!Newest(of) : TRUE).split
        BY DEF S!Restart
    <2> HIDE DEF of
    <2>3. ASSUME NEW m \in OfWeek(w, DatedSamples), \A q \in OfWeek(w, DatedSamples) : q.ts <= m.ts
          PROVE  received'[w] = m.split
        <3>1. /\ \A s \in of : s.ts \in 0..now
              /\ \A s, q \in of : s.ts = q.ts => s = q
            BY <1>2, <2>1 DEF OfWeek, DatedSamples
        <3>2. S!Newest(of) = {m}
            BY <1>2, <2>1, <2>3, <3>1, NewestIs
        <3> QED BY <2>1, <2>2, <2>3, <3>2
    <2> QED BY <2>1, <2>2, <2>3
<1>4. received' \in [S!Weeks -> Splits \cup {S!None}]
    <2>1. received' = [w \in S!Weeks |-> received'[w]]
        BY DEF S!Restart
    <2>2. ASSUME NEW w \in S!Weeks PROVE received'[w] \in Splits \cup {S!None}
        <3>1. CASE OfWeek(w, DatedSamples) = {}
            BY <1>3, <3>1
        <3>2. CASE OfWeek(w, DatedSamples) # {}
            <4>1. PICK m \in OfWeek(w, DatedSamples) : \A q \in OfWeek(w, DatedSamples) : q.ts <= m.ts
                <5>1. /\ \A s \in OfWeek(w, DatedSamples) : s.ts \in 0..now
                      /\ \A s, q \in OfWeek(w, DatedSamples) : s.ts = q.ts => s = q
                    BY <1>2 DEF OfWeek, DatedSamples
                <5> QED BY <1>2, <3>2, <5>1, NewestOne
            <4>2. m.split \in Splits \cup {S!None}
                BY <4>1 DEF OfWeek, DatedSamples, SplitsTyped, SplitFormed
            <4> QED BY <1>3, <4>1, <4>2
        <3> QED BY <3>1, <3>2
    <2> QED BY <2>1, <2>2
<1>5. SplitsTyped'
    BY <1>1, <1>4 DEF SplitsTyped, DatedSamples
<1>6. ASSUME NEW w \in S!Weeks
      PROVE  /\ received'[w] = S!None <=> OfWeek(w, snapshots') = {}
             /\ \A s \in S!Newest(OfWeek(w, snapshots')) : s.split = received'[w]
             /\ \A s \in S!Newest(OfWeek(w, DatedSamples)) : s.split = received'[w]
    <2>1. OfWeek(w, snapshots') \subseteq OfWeek(w, DatedSamples)
        BY <1>1 DEF OfWeek, SplitsTyped
    <2>2. CASE OfWeek(w, DatedSamples) = {}
        BY <1>3, <2>1, <2>2, NewestOfNone
    <2>3. CASE OfWeek(w, DatedSamples) # {}
        <3>1. /\ \A s \in OfWeek(w, DatedSamples) : s.ts \in 0..now
              /\ \A s, q \in OfWeek(w, DatedSamples) : s.ts = q.ts => s = q
            BY <1>2 DEF OfWeek, DatedSamples
        <3>2. PICK m \in OfWeek(w, DatedSamples) :
                   S!Newest(OfWeek(w, DatedSamples)) = {m} /\ \A q \in OfWeek(w, DatedSamples) : q.ts <= m.ts
            BY <1>2, <2>3, <3>1, NewestOne
        <3>3. PICK x \in OfWeek(w, snapshots') :
                   \A r \in OfWeek(w, DatedSamples) : x.ts <= r.ts => r.split = m.split
            BY <1>1, <3>2, ReplayEndsRight
        <3>4. PICK n \in OfWeek(w, snapshots') : S!Newest(OfWeek(w, snapshots')) = {n}
                                            /\ \A q \in OfWeek(w, snapshots') : q.ts <= n.ts
            <4>1. /\ \A s \in OfWeek(w, snapshots') : s.ts \in 0..now
                  /\ \A s, q \in OfWeek(w, snapshots') : s.ts = q.ts => s = q
                BY <2>1, <3>1
            <4> QED BY <1>2, <3>3, <4>1, NewestOne
        <3>5. n.split = m.split
            BY <2>1, <3>3, <3>4
        <3>6. received'[w] = m.split /\ m.split # S!None
            BY <1>3, <3>2 DEF OfWeek, DatedSamples
        <3> QED BY <3>2, <3>4, <3>5, <3>6
    <2> QED BY <2>2, <2>3
<1>7. DatedSamples' = DatedSamples /\ \A w : OfWeek(w, DatedSamples)' = OfWeek(w, DatedSamples)
        /\ OfWeek(w, snapshots)' = OfWeek(w, snapshots')
    BY <1>1 DEF DatedSamples, OfWeek
<1>8. LastIsKept'
    BY <1>6, <1>7 DEF LastIsKept, S!Weeks
<1> QED BY <1>5, <1>8

LEMMA PollKeepsLast ==
    ASSUME S!SurfacesAssumption, SplitsInv,
           NEW week \in S!Weeks, NEW jitter \in Jitters, NEW split \in Splits, NEW fails \in BOOLEAN,
           S!PollWithSplit(week, jitter, split, fails)
    PROVE  SplitsInv'
<1> USE DEF SplitsInv
<1> DEFINE block == [ts |-> now, started |-> week * SplitWeekLength, split |-> split]
<1>1. S!WholeHour(week * SplitWeekLength + jitter) = week * SplitWeekLength
    BY WeekStart DEF S!Weeks
<1>2. /\ \A s \in samples : s.ts < now
      /\ samples' = samples \cup {block}
      /\ now' = now
    BY <1>1 DEF S!PollWithSplit, S!NotYetPolled
<1>4. /\ block.ts = now /\ block.started = week * SplitWeekLength /\ block.split = split /\ split # S!None
    BY DEF S!SurfacesAssumption
<1> HIDE DEF block
<1>a. /\ now \in Nat /\ \A s \in samples : s.ts \in 0..now
      /\ \A s, q \in samples : s.ts = q.ts => s = q
    BY DEF SplitsTyped, S!SurfacesAssumption
<1>b. /\ \A s \in samples' : s.ts \in 0..now
      /\ \A s, q \in samples' : s.ts = q.ts => s = q
    BY <1>2, <1>4, <1>a
<1>c. /\ \A w \in S!Weeks : w # week => OfWeek(w, DatedSamples') = OfWeek(w, DatedSamples)
      /\ OfWeek(week, DatedSamples') = OfWeek(week, DatedSamples) \cup {block}
      /\ DatedSamples' = DatedSamples \cup {block}
    <2>1. DatedSamples' = DatedSamples \cup {block}
        BY <1>2, <1>4 DEF DatedSamples
    <2>2. \A w \in S!Weeks : w # week => w * SplitWeekLength # week * SplitWeekLength
        BY OneWeek DEF S!Weeks
    <2> QED BY <1>4, <2>1, <2>2 DEF OfWeek
<1>d. S!Newest(OfWeek(week, DatedSamples')) = {block}
    <2>1. \A q \in OfWeek(week, DatedSamples') : q.ts <= block.ts
        BY <1>2, <1>4, <1>a, <1>c DEF OfWeek, DatedSamples
    <2>2. /\ block \in OfWeek(week, DatedSamples')
          /\ \A s \in OfWeek(week, DatedSamples') : s.ts \in 0..now
          /\ \A s, q \in OfWeek(week, DatedSamples') : s.ts = q.ts => s = q
        BY <1>b, <1>c DEF OfWeek, DatedSamples
    <2> QED BY <1>a, <2>1, <2>2, NewestIs
<1>e. ASSUME snapshots' \subseteq DatedSamples', received' \in [S!Weeks -> Splits \cup {S!None}]
      PROVE  SplitsTyped'
    <2>1. \A s \in samples' : SplitFormed(s)
        BY <1>2, <1>4 DEF SplitsTyped, SplitFormed
    <2>2. now' \in 0..LastSplitTime /\ now' = now
        BY <1>2 DEF SplitsTyped
    <2>3. \A s \in samples' : s.ts \in 0..now'
        BY <1>b, <2>2
    <2>4. \A s, q \in samples' : s.ts = q.ts => s = q
        BY <1>b
    <2>5. ASSUME NEW s \in samples' PROVE SplitFormed(s)'
        BY <2>1 DEF SplitFormed, S!Weeks
    <2>6. \A s \in samples' : s.ts \in 0..now' /\ SplitFormed(s)'
        BY <2>3, <2>5
    <2>7. received' \in [S!Weeks -> Splits \cup {S!None}]'
        BY <1>e DEF S!Weeks
    <2> QED BY <1>e, <2>2, <2>4, <2>6, <2>7 DEF SplitsTyped
<1>f. \A w : OfWeek(w, DatedSamples)' = OfWeek(w, DatedSamples') /\ OfWeek(w, snapshots)' = OfWeek(w, snapshots')
    BY DEF OfWeek
<1>5. CASE fails
    <2>1. torn' = torn \cup {now} /\ UNCHANGED <<snapshots, received>>
        BY <1>5 DEF S!PollWithSplit
    <2>2. SplitsTyped'
        BY <1>c, <1>e, <2>1 DEF SplitsTyped
    <2>3. ASSUME NEW w \in S!Weeks
          PROVE  /\ received'[w] = S!None <=> OfWeek(w, snapshots') = {}
                 /\ \A s \in S!Newest(OfWeek(w, snapshots')) : s.split = received'[w]
                 /\ \A s \in S!Newest(OfWeek(w, DatedSamples')) : s.ts \in torn' \/ s.split = received'[w]
        <3>1. CASE w = week
            BY <1>4, <1>d, <2>1, <3>1 DEF LastIsKept
        <3>2. CASE w # week
            BY <1>c, <2>1, <3>2 DEF LastIsKept
        <3> QED BY <3>1, <3>2
    <2>4. LastIsKept'
        BY <1>f, <2>3 DEF LastIsKept, S!Weeks
    <2> QED BY <2>2, <2>4
<1>6. CASE ~fails
    <2>1. /\ S!RecordBreakdown(block) /\ torn' = torn
          /\ received' = [received EXCEPT ![week] = split]
        BY <1>1, <1>6 DEF S!PollWithSplit, block
    <2>2. /\ received'[week] = split
          /\ \A w \in S!Weeks : w # week => received'[w] = received[w]
          /\ received' \in [S!Weeks -> Splits \cup {S!None}]
        BY <2>1 DEF SplitsTyped
    <2>3. S!BreakdownAtClose(block.started) = S!Newest(OfWeek(week, snapshots))
        BY <1>4 DEF S!BreakdownAtClose, OfWeek
    <2>4. ASSUME NEW w \in S!Weeks, w # week
          PROVE  /\ received'[w] = S!None <=> OfWeek(w, snapshots') = {}
                 /\ \A s \in S!Newest(OfWeek(w, snapshots')) : s.split = received'[w]
                 /\ \A s \in S!Newest(OfWeek(w, DatedSamples')) : s.ts \in torn' \/ s.split = received'[w]
        <3>1. OfWeek(w, snapshots') = OfWeek(w, snapshots)
            <4>1. w * SplitWeekLength # week * SplitWeekLength
                BY <2>4, OneWeek DEF S!Weeks
            <4>2. snapshots' = snapshots \/ snapshots' = snapshots \cup {block}
                BY <2>1 DEF S!RecordBreakdown
            <4> QED BY <1>4, <4>1, <4>2 DEF OfWeek
        <3> QED BY <1>c, <2>1, <2>2, <2>4, <3>1 DEF LastIsKept
    <2>5. CASE \E s \in S!Newest(OfWeek(week, snapshots)) : s.split = split
        <3>1. snapshots' = snapshots
            BY <1>4, <2>1, <2>3, <2>5 DEF S!RecordBreakdown
        <3>2. received[week] = split /\ OfWeek(week, snapshots) # {}
            BY <2>5, NewestOfNone DEF LastIsKept
        <3>3. /\ received'[week] = S!None <=> OfWeek(week, snapshots') = {}
              /\ \A s \in S!Newest(OfWeek(week, snapshots')) : s.split = received'[week]
              /\ \A s \in S!Newest(OfWeek(week, DatedSamples')) : s.ts \in torn' \/ s.split = received'[week]
            BY <1>4, <1>d, <2>2, <3>1, <3>2 DEF LastIsKept
        <3>4. LastIsKept'
            BY <1>f, <2>4, <3>3 DEF LastIsKept, S!Weeks
        <3>5. SplitsTyped'
            BY <1>c, <1>e, <2>2, <3>1 DEF SplitsTyped
        <3> QED BY <3>4, <3>5
    <2>6. CASE ~\E s \in S!Newest(OfWeek(week, snapshots)) : s.split = split
        <3>1. snapshots' = snapshots \cup {block}
            BY <1>4, <2>1, <2>3, <2>6 DEF S!RecordBreakdown
        <3>2. SplitsTyped'
            BY <1>c, <1>e, <2>2, <3>1 DEF SplitsTyped
        <3>3. S!Newest(OfWeek(week, snapshots')) = {block}
            <4>1. OfWeek(week, snapshots') = OfWeek(week, snapshots) \cup {block}
                BY <1>4, <3>1 DEF OfWeek
            <4>2. OfWeek(week, snapshots') \subseteq samples'
                BY <1>2, <3>1 DEF OfWeek, SplitsTyped, DatedSamples
            <4>3. \A q \in OfWeek(week, snapshots') : q.ts <= block.ts
                BY <1>4, <1>b, <4>2
            <4>4. /\ block \in OfWeek(week, snapshots')
                  /\ \A s \in OfWeek(week, snapshots') : s.ts \in 0..now
                  /\ \A s, q \in OfWeek(week, snapshots') : s.ts = q.ts => s = q
                BY <1>b, <4>1, <4>2
            <4> QED BY <1>a, <4>3, <4>4, NewestIs
        <3>4. /\ received'[week] = S!None <=> OfWeek(week, snapshots') = {}
              /\ \A s \in S!Newest(OfWeek(week, snapshots')) : s.split = received'[week]
              /\ \A s \in S!Newest(OfWeek(week, DatedSamples')) : s.ts \in torn' \/ s.split = received'[week]
            <4>1. OfWeek(week, snapshots') # {}
                BY <3>3, NewestOfNone
            <4> QED BY <1>4, <1>d, <2>2, <3>3, <4>1
        <3>5. LastIsKept'
            BY <1>f, <2>4, <3>4 DEF LastIsKept, S!Weeks
        <3> QED BY <3>2, <3>5
    <2> QED BY <2>5, <2>6
<1> QED BY <1>5, <1>6

LEMMA SplitsStep ==
    ASSUME S!SurfacesAssumption, SplitsInv, [S!Next]_S!vars
    PROVE  SplitsInv'
<1> USE DEF SplitsInv
<1>1. ASSUME NEW week \in S!Weeks, NEW jitter \in Jitters, NEW split \in Splits, NEW fails \in BOOLEAN,
             S!PollWithSplit(week, jitter, split, fails)
      PROVE  SplitsInv'
    BY <1>1, PollKeepsLast
<1>2. CASE S!PollWithout
    <2> DEFINE none == [S!NoSample EXCEPT !.ts = now]
    <2>1. none.ts = now /\ none.started = S!None /\ none.split = S!None
        BY DEF S!NoSample
    <2> HIDE DEF none
    <2>2. /\ \A s \in samples : s.ts < now
          /\ samples' = samples \cup {none} /\ UNCHANGED <<now, snapshots, received, torn>>
        BY <1>2 DEF S!PollWithout, S!NotYetPolled, none
    <2>3. DatedSamples' = DatedSamples
        BY <2>1, <2>2 DEF DatedSamples
    <2>4. LastIsKept'
        BY <2>2, <2>3 DEF LastIsKept, S!Weeks, OfWeek
    <2>5. now \in Nat /\ \A s \in samples : s.ts \in 0..now
        BY DEF SplitsTyped, S!SurfacesAssumption
    <2>6. /\ \A s \in samples' : s.ts \in 0..now
          /\ \A s, q \in samples' : s.ts = q.ts => s = q
        BY <2>1, <2>2, <2>5 DEF SplitsTyped
    <2>7. \A s \in samples' : SplitFormed(s)
        BY <2>1, <2>2 DEF SplitsTyped, SplitFormed
    <2>8. SplitsTyped'
        <3>1. now' \in 0..LastSplitTime /\ now' = now
            BY <2>2 DEF SplitsTyped
        <3>2. \A s \in samples' : s.ts \in 0..now'
            BY <2>6, <3>1
        <3>3. \A s, q \in samples' : s.ts = q.ts => s = q
            BY <2>6
        <3>4. snapshots' \subseteq DatedSamples' /\ received' \in [S!Weeks -> Splits \cup {S!None}]
            BY <2>2, <2>3 DEF SplitsTyped
        <3>5. ASSUME NEW s \in samples' PROVE SplitFormed(s)'
            BY <2>7 DEF SplitFormed, S!Weeks
        <3>6. \A s \in samples' : s.ts \in 0..now' /\ SplitFormed(s)'
            BY <3>2, <3>5
        <3>7. received' \in [S!Weeks -> Splits \cup {S!None}]'
            BY <3>4 DEF S!Weeks
        <3> QED BY <3>1, <3>3, <3>4, <3>6, <3>7 DEF SplitsTyped
    <2> QED BY <2>4, <2>8
<1>3. CASE S!Restart
    BY <1>3, RestartKeepsLast
<1>4. CASE S!Tick \/ UNCHANGED S!vars
    <2>1. UNCHANGED <<snapshots, samples, received, torn>> /\ now' \in 0..LastSplitTime /\ now <= now'
        BY <1>4 DEF S!Tick, S!vars, SplitsTyped, S!SurfacesAssumption
    <2>2. LastIsKept'
        BY <2>1 DEF LastIsKept, OfWeek, DatedSamples, S!Weeks
    <2>3. \A s \in samples' : s.ts \in 0..now'
        BY <2>1 DEF SplitsTyped, S!SurfacesAssumption
    <2>4. SplitsTyped'
        BY <2>1, <2>3 DEF SplitsTyped, DatedSamples, S!Weeks
    <2> QED BY <2>2, <2>4
<1> QED BY <1>1, <1>2, <1>3, <1>4 DEF S!Next

(* What the Weeks table, and the page, show of it. *)
LEMMA MostlyIsLast ==
    ASSUME S!SurfacesAssumption, SplitsInv, NEW week \in S!Weeks
    PROVE  S!MostlyByWeek(week) = IF received[week] = S!None THEN {} ELSE {received[week]}
<1> USE DEF SplitsInv
<1> DEFINE mine == {r \in snapshots : S!WeekKey(r.started) = week}
<1>1. mine = OfWeek(week, snapshots)
    BY WeekStart DEF OfWeek, SplitsTyped, SplitFormed, DatedSamples, S!Weeks
<1>2. {q.started : q \in mine} = IF mine = {} THEN {} ELSE {week * SplitWeekLength}
    BY <1>1 DEF OfWeek
<1>3. S!BreakdownAtClose(week * SplitWeekLength) = S!Newest(OfWeek(week, snapshots))
    BY DEF S!BreakdownAtClose, OfWeek
<1>4. CASE mine = {}
    <2>1. received[week] = S!None
        BY <1>1, <1>4 DEF LastIsKept
    <2>2. {q.started : q \in mine} = {}
        BY <1>4
    <2> QED BY <2>1, <2>2 DEF S!MostlyByWeek
<1>5. CASE mine # {}
    <2>1. received[week] # S!None
        BY <1>1, <1>5 DEF LastIsKept
    <2>2. S!MostlyByWeek(week) = {s.split : s \in S!Newest(OfWeek(week, snapshots))}
        <3>1. {q.started : q \in mine} = {week * SplitWeekLength}
            BY <1>2, <1>5
        <3>2. UNION {S!BreakdownAtClose(started) : started \in {week * SplitWeekLength}}
                 = S!BreakdownAtClose(week * SplitWeekLength)
            OBVIOUS
        <3> HIDE DEF mine
        <3>3. UNION {S!BreakdownAtClose(started) : started \in {q.started : q \in mine}}
                 = S!Newest(OfWeek(week, snapshots))
            BY <1>3, <3>1, <3>2
        <3> QED BY <3>3 DEF S!MostlyByWeek, mine
    <2>3. PICK m \in OfWeek(week, snapshots) : S!Newest(OfWeek(week, snapshots)) = {m}
        <3>1. /\ now \in Nat /\ \A s \in OfWeek(week, snapshots) : s.ts \in 0..now
              /\ \A s, q \in OfWeek(week, snapshots) : s.ts = q.ts => s = q
            BY DEF SplitsTyped, S!SurfacesAssumption, OfWeek, DatedSamples
        <3> QED BY <1>1, <1>5, <3>1, NewestOne
    <2>4. m.split = received[week]
        BY <2>3 DEF LastIsKept
    <2> QED BY <2>1, <2>2, <2>3, <2>4
<1> QED BY <1>4, <1>5

LEMMA SectionIsLast ==
    ASSUME S!SurfacesAssumption, SplitsInv, NEW shown \in S!Section
    PROVE  /\ shown.split = received[S!WeekKey(now)]
           /\ S!Sample.ts = shown.as_of /\ S!Sample.split # S!None /\ S!Sample.ts \notin torn
                => S!Sample.split = shown.split
<1> USE DEF SplitsInv
<1>1. PICK s \in S!LatestBreakdown : /\ S!WeekKey(s.started) = S!WeekKey(now)
                                   /\ shown = [split |-> s.split, as_of |-> S!AsOf(s)]
    BY DEF S!Section, S!IsThisWeek
<1>2. /\ now \in Nat /\ \A q \in samples : q.ts \in 0..now
      /\ \A r, q \in samples : r.ts = q.ts => r = q
      /\ snapshots \subseteq samples
    BY DEF SplitsTyped, S!SurfacesAssumption, DatedSamples
<1>3. snapshots # {}
    BY <1>1, NewestOfNone DEF S!LatestBreakdown
<1>4. PICK n \in snapshots : S!Newest(snapshots) = {n} /\ \A q \in snapshots : q.ts <= n.ts
    <2>1. /\ \A q \in snapshots : q.ts \in 0..now
          /\ \A r, q \in snapshots : r.ts = q.ts => r = q
        BY <1>2
    <2> QED BY <1>2, <1>3, <2>1, NewestOne
<1>5. s = n /\ s \in snapshots /\ \A q \in snapshots : q.ts <= s.ts
    BY <1>1, <1>4 DEF S!LatestBreakdown
<1>6. PICK w \in S!Weeks : s.started = w * SplitWeekLength
    BY <1>5 DEF SplitsTyped, SplitFormed, DatedSamples
<1>7. w = S!WeekKey(now) /\ s \in OfWeek(w, snapshots)
    BY <1>1, <1>5, <1>6, WeekStart DEF S!Weeks, OfWeek
<1>8. S!Newest(OfWeek(w, snapshots)) = {s}
    <2>1. /\ \A q \in OfWeek(w, snapshots) : q.ts \in 0..now /\ q.ts <= s.ts
          /\ \A r, q \in OfWeek(w, snapshots) : r.ts = q.ts => r = q
        BY <1>2, <1>5 DEF OfWeek
    <2> QED BY <1>2, <1>7, <2>1, NewestIs
<1>9. s.split = received[w]
    BY <1>8 DEF LastIsKept
<1>10. ASSUME S!Sample.ts = shown.as_of, S!Sample.split # S!None, S!Sample.ts \notin torn
       PROVE  S!Sample.split = shown.split
    <2>1. samples # {}
        BY <1>2, <1>5
    <2>2. PICK m \in samples : S!Newest(samples) = {m} /\ \A q \in samples : q.ts <= m.ts
        BY <1>2, <2>1, NewestOne
    <2>3. S!Sample = m
        BY <2>1, <2>2 DEF S!Sample
    <2>4. shown.as_of = S!AsOf(s)
        BY <1>1
    <2>5. m.started = w * SplitWeekLength
        BY <1>2, <1>5, <1>6, <1>10, <2>3, <2>4 DEF S!AsOf
    <2>6. m \in OfWeek(w, DatedSamples) /\ S!Newest(OfWeek(w, DatedSamples)) = {m}
        <3>1. m \in OfWeek(w, DatedSamples)
            BY <1>10, <2>3, <2>5 DEF OfWeek, DatedSamples
        <3>2. /\ \A q \in OfWeek(w, DatedSamples) : q.ts \in 0..now /\ q.ts <= m.ts
              /\ \A r, q \in OfWeek(w, DatedSamples) : r.ts = q.ts => r = q
            BY <1>2, <2>2 DEF OfWeek, DatedSamples
        <3> QED BY <1>2, <3>1, <3>2, NewestIs
    <2>7. m.split = received[w]
        BY <1>10, <2>3, <2>6 DEF LastIsKept
    <2> QED BY <1>1, <1>9, <2>3, <2>7
<1> QED BY <1>1, <1>7, <1>9, <1>10

LEMMA SplitsSafe == ASSUME S!SurfacesAssumption, SplitsInv PROVE S!SplitIsTheWeeks
BY MostlyIsLast, SectionIsLast DEF S!SplitIsTheWeeks

-----------------------------------------------------------------------------
LEMMA MinOfSpans ==
    ASSUME NEW U \in SUBSET Nat, U # {}
    PROVE  V!Min(U) \in U /\ \A y \in U : V!Min(U) <= y
BY LeastThereIs DEF V!Min

(* What a range in an address may be. *)
Customs == [key : {"custom"}, from : Nat, to : Nat]
Ranges == V!Keys \cup {V!Auto} \cup Customs

(* The address and what was chosen are one thing, told in two ways. *)
ViewInv ==
    /\ now \in Nat
    /\ url.range \in Ranges /\ chosen.range = url.range
    /\ chosen.hidden \subseteq V!Everyone /\ chosen.ghost \in BOOLEAN
    /\ url.hide = chosen.hidden \cup (IF chosen.ghost THEN {} ELSE {Ghost})
    /\ url.lookback \in Lookbacks \cup {V!Default} /\ chosen.lookback = url.lookback
    /\ url.refresh \in Refreshes \cup {V!Default} /\ chosen.refresh = url.refresh
    /\ chosen.sort = url.sort /\ chosen.history = url.history
    /\ url = [range |-> url.range, hide |-> url.hide, lookback |-> url.lookback,
              refresh |-> url.refresh, sort |-> url.sort, history |-> url.history]
    /\ chosen = [range |-> chosen.range, hidden |-> chosen.hidden, ghost |-> chosen.ghost,
                 lookback |-> chosen.lookback, refresh |-> chosen.refresh,
                 sort |-> chosen.sort, history |-> chosen.history]

LEMMA MinOfTwo ==
    ASSUME NEW a \in Int, NEW b \in Int
    PROVE  V!Min({a, b}) = IF a <= b THEN a ELSE b
BY DEF V!Min

LEMMA PlainRanges == \A range \in V!Keys \cup {V!Auto} : range.key # "custom"
<1>1. \A range \in {V!TimeRange(key, 0, 0) : key \in {"week", "lastweek", "all"}} : range.key # "custom"
    BY DEF V!TimeRange
<1>2. \A range \in {V!TimeRange("preset", span, 0) : span \in Presets} : range.key # "custom"
    BY DEF V!TimeRange
<1>3. V!Auto.key # "custom"
    BY DEF V!TimeRange, V!Auto
<1> QED BY <1>1, <1>2, <1>3 DEF V!Keys

(* parse_view keeps a preset, and a custom range that is parsed already. *)
LEMMA Parsed ==
    ASSUME V!ViewsAssumption, now \in Nat, NEW range \in Ranges
    PROVE  /\ V!ParseRange(range) \in Ranges
           /\ range \notin Customs => V!ParseRange(range) = range
           /\ V!ParseRange(range).key = "custom" =>
                 /\ V!ParseRange(range).to <= now
                 /\ V!ParseRange(range).to - V!ParseRange(range).from >= MinSpan
           /\ V!ParseRange(V!ParseRange(range)) = V!ParseRange(range)
<1>1. CASE range \notin Customs
    <2>1. range \in V!Keys \cup {V!Auto}
        BY <1>1 DEF Ranges
    <2>2. range.key # "custom"
        BY <2>1, PlainRanges
    <2> QED BY <1>1, <2>2 DEF V!ParseRange
<1>2. CASE range \in Customs
    <2>1. V!Min({range.to, now}) \in Nat /\ V!Min({range.to, now}) <= now
          /\ V!Min({V!Min({range.to, now}), now}) = V!Min({range.to, now})
        BY <1>2, MinOfTwo DEF Customs
    <2>2. MinSpan \in Nat
        BY DEF V!ViewsAssumption
    <2>3. CASE V!Min({range.to, now}) - range.from >= MinSpan
        <3> DEFINE cut == [range EXCEPT !.to = V!Min({range.to, now})]
        <3>1. V!ParseRange(range) = cut
            BY <1>2, <2>3 DEF V!ParseRange, Customs
        <3>2. cut \in Customs /\ cut.to = V!Min({range.to, now}) /\ cut.from = range.from
              /\ cut.key = "custom"
            BY <1>2, <2>1 DEF Customs
        <3>3. V!ParseRange(cut) = [cut EXCEPT !.to = V!Min({cut.to, now})]
            BY <2>1, <2>3, <3>2 DEF V!ParseRange
        <3>4. V!ParseRange(cut) = cut
            BY <2>1, <3>2, <3>3 DEF Customs
        <3> QED BY <1>2, <2>1, <2>3, <3>1, <3>2, <3>4 DEF Ranges
    <2>4. CASE ~(V!Min({range.to, now}) - range.from >= MinSpan)
        <3>1. range.key = "custom"
            BY <1>2 DEF Customs
        <3>2. V!ParseRange(range) = V!Auto
            BY <2>4, <3>1 DEF V!ParseRange
        <3>3. V!Auto.key # "custom" /\ V!Auto \in Ranges
            BY PlainRanges DEF Ranges
        <3>4. V!ParseRange(V!Auto) = V!Auto
            BY <3>3 DEF V!ParseRange
        <3> QED BY <1>2, <3>2, <3>3, <3>4
    <2> QED BY <2>3, <2>4
<1> QED BY <1>1, <1>2

LEMMA ViewBegin == ASSUME V!ViewsAssumption, V!Init PROVE ViewInv
<1>1. V!Auto \in Ranges /\ now \in Nat /\ url.range = V!Auto /\ chosen.range = V!Auto
    BY DEF V!Init, Ranges
<1>2. chosen.hidden = {} /\ chosen.ghost = TRUE /\ url.hide = {}
    BY DEF V!Init
<1>3. /\ url.lookback = V!Default /\ chosen.lookback = V!Default
      /\ url.refresh = V!Default /\ chosen.refresh = V!Default
      /\ chosen.sort = url.sort /\ chosen.history = url.history
    BY DEF V!Init
<1> HIDE DEF V!Default, V!Auto
<1>4. url = [range |-> url.range, hide |-> url.hide, lookback |-> url.lookback,
              refresh |-> url.refresh, sort |-> url.sort, history |-> url.history]
    BY DEF V!Init
<1>5. chosen = [range |-> chosen.range, hidden |-> chosen.hidden, ghost |-> chosen.ghost,
                 lookback |-> chosen.lookback, refresh |-> chosen.refresh,
                 sort |-> chosen.sort, history |-> chosen.history]
    BY DEF V!Init
<1> QED BY <1>1, <1>2, <1>3, <1>4, <1>5 DEF ViewInv

(* What the page reads from the address. *)
LEMMA ViewRead ==
    ASSUME V!ViewsAssumption, ViewInv
    PROVE  /\ V!View.range = V!ParseRange(url.range) /\ V!View.range \in Ranges
           /\ V!View.hidden = url.hide /\ V!View.lookback = url.lookback
           /\ V!View.refresh = url.refresh /\ V!View.sort = url.sort /\ V!View.history = url.history
           /\ V!View = [range |-> V!View.range, hidden |-> V!View.hidden, lookback |-> V!View.lookback,
                      refresh |-> V!View.refresh, sort |-> V!View.sort, history |-> V!View.history]
BY Parsed DEF V!View, V!ParseView, ViewInv

(* A link changes the address as the choice changes. *)
LEMMA ViewLink ==
    ASSUME V!ViewsAssumption, ViewInv, NEW view, NEW choice,
           V!Follow(view), chosen' = choice,
           view.range \in Ranges, choice.range = view.range,
           choice.hidden \subseteq V!Everyone, choice.ghost \in BOOLEAN,
           view.hidden = choice.hidden \cup (IF choice.ghost THEN {} ELSE {Ghost}),
           view.lookback \in Lookbacks \cup {V!Default}, choice.lookback = view.lookback,
           view.refresh \in Refreshes \cup {V!Default}, choice.refresh = view.refresh,
           choice.sort = view.sort, choice.history = view.history,
           choice = [range |-> choice.range, hidden |-> choice.hidden, ghost |-> choice.ghost,
                     lookback |-> choice.lookback, refresh |-> choice.refresh,
                     sort |-> choice.sort, history |-> choice.history]
    PROVE  ViewInv'
BY DEF V!Follow, V!Query, ViewInv, V!Everyone

(* An update that writes back what is there leaves the record as it was. *)
LEMMA SameGhost ==
    ASSUME NEW choice, NEW hidden,
           choice = [range |-> choice.range, hidden |-> choice.hidden, ghost |-> choice.ghost,
                     lookback |-> choice.lookback, refresh |-> choice.refresh,
                     sort |-> choice.sort, history |-> choice.history]
    PROVE  /\ [choice EXCEPT !.hidden = hidden] = [choice EXCEPT !.hidden = hidden, !.ghost = choice.ghost]
           /\ \A ghost : [choice EXCEPT !.ghost = ghost]
                        = [choice EXCEPT !.hidden = choice.hidden, !.ghost = ghost]
OBVIOUS

(* A link that sets a control writes every other as it was. *)
LEMMA OneChoice ==
    ASSUME NEW c, c = [range |-> c.range, hidden |-> c.hidden, ghost |-> c.ghost, lookback |-> c.lookback,
                       refresh |-> c.refresh, sort |-> c.sort, history |-> c.history]
    PROVE  \A k :
              /\ [c EXCEPT !.lookback = k] =
                    [range |-> c.range, hidden |-> c.hidden, ghost |-> c.ghost, lookback |-> k,
                     refresh |-> c.refresh, sort |-> c.sort, history |-> c.history]
              /\ [c EXCEPT !.refresh = k] =
                    [range |-> c.range, hidden |-> c.hidden, ghost |-> c.ghost, lookback |-> c.lookback,
                     refresh |-> k, sort |-> c.sort, history |-> c.history]
              /\ [c EXCEPT !.sort = k] =
                    [range |-> c.range, hidden |-> c.hidden, ghost |-> c.ghost, lookback |-> c.lookback,
                     refresh |-> c.refresh, sort |-> k, history |-> c.history]
              /\ [c EXCEPT !.history = k] =
                    [range |-> c.range, hidden |-> c.hidden, ghost |-> c.ghost, lookback |-> c.lookback,
                     refresh |-> c.refresh, sort |-> c.sort, history |-> k]
OBVIOUS

LEMMA OneControl ==
    ASSUME NEW v, v = [range |-> v.range, hidden |-> v.hidden, lookback |-> v.lookback,
                       refresh |-> v.refresh, sort |-> v.sort, history |-> v.history]
    PROVE  \A k :
              /\ [v EXCEPT !.lookback = k] =
                    [range |-> v.range, hidden |-> v.hidden, lookback |-> k,
                     refresh |-> v.refresh, sort |-> v.sort, history |-> v.history]
              /\ [v EXCEPT !.refresh = k] =
                    [range |-> v.range, hidden |-> v.hidden, lookback |-> v.lookback,
                     refresh |-> k, sort |-> v.sort, history |-> v.history]
              /\ [v EXCEPT !.sort = k] =
                    [range |-> v.range, hidden |-> v.hidden, lookback |-> v.lookback,
                     refresh |-> v.refresh, sort |-> k, history |-> v.history]
              /\ [v EXCEPT !.history = k] =
                    [range |-> v.range, hidden |-> v.hidden, lookback |-> v.lookback,
                     refresh |-> v.refresh, sort |-> v.sort, history |-> k]
OBVIOUS

LEMMA ViewStep ==
    ASSUME V!ViewsAssumption, ViewInv, [V!Next]_V!vars
    PROVE  ViewInv'
<1> USE ViewRead
<1> DEFINE settled == V!Settled
<1>1. /\ settled.range = V!View.range /\ settled.hidden = chosen.hidden /\ settled.ghost = chosen.ghost
      /\ settled.lookback = chosen.lookback /\ settled.refresh = chosen.refresh
      /\ settled.sort = chosen.sort /\ settled.history = chosen.history
      /\ settled = [range |-> settled.range, hidden |-> settled.hidden, ghost |-> settled.ghost,
                    lookback |-> settled.lookback, refresh |-> settled.refresh,
                    sort |-> settled.sort, history |-> settled.history]
    BY DEF V!Settled, ViewInv
<1>2. /\ chosen.hidden \subseteq V!Everyone /\ chosen.ghost \in BOOLEAN
      /\ V!View.hidden = chosen.hidden \cup (IF chosen.ghost THEN {} ELSE {Ghost})
      /\ V!View.lookback \in Lookbacks \cup {V!Default} /\ chosen.lookback = V!View.lookback
      /\ V!View.refresh \in Refreshes \cup {V!Default} /\ chosen.refresh = V!View.refresh
      /\ chosen.sort = V!View.sort /\ chosen.history = V!View.history
    BY DEF ViewInv
<1>3. Ghost \notin V!Everyone /\ now \in Nat
    BY DEF V!ViewsAssumption, ViewInv, V!Everyone
<1> HIDE DEF settled
<1> DEFINE view == V!View
<1>4. /\ view = [range |-> view.range, hidden |-> view.hidden, lookback |-> view.lookback,
                refresh |-> view.refresh, sort |-> view.sort, history |-> view.history]
      /\ view.range \in Ranges /\ view = V!View
    OBVIOUS
<1> HIDE DEF view
<1>5. ASSUME NEW range \in Ranges, V!Follow([V!View EXCEPT !.range = range]),
             chosen' = [V!Settled EXCEPT !.range = range]
      PROVE  ViewInv'
    <2> DEFINE new == [view EXCEPT !.range = range]
               choice == [settled EXCEPT !.range = range]
    <2>1. /\ new.range = range /\ new.hidden = view.hidden /\ new.lookback = view.lookback
          /\ new.refresh = view.refresh /\ new.sort = view.sort /\ new.history = view.history
        BY <1>4
    <2>2. /\ choice.range = range /\ choice.hidden = settled.hidden /\ choice.ghost = settled.ghost
          /\ choice.lookback = settled.lookback
          /\ choice.refresh = settled.refresh /\ choice.sort = settled.sort /\ choice.history = settled.history
          /\ choice = [range |-> choice.range, hidden |-> choice.hidden, ghost |-> choice.ghost,
                    lookback |-> choice.lookback, refresh |-> choice.refresh,
                    sort |-> choice.sort, history |-> choice.history]
        BY <1>1
    <2>3. V!Follow(new) /\ chosen' = choice
        BY <1>4, <1>5 DEF settled
    <2> HIDE DEF new, choice
    <2> QED BY <1>1, <1>2, <1>4, <2>1, <2>2, <2>3, ViewLink
<1>6. ASSUME NEW hidden, NEW mine \in SUBSET V!Everyone, NEW ghost \in BOOLEAN,
             V!Follow([V!View EXCEPT !.hidden = hidden]),
             chosen' = [V!Settled EXCEPT !.hidden = mine, !.ghost = ghost],
             hidden = mine \cup (IF ghost THEN {} ELSE {Ghost})
      PROVE  ViewInv'
    <2> DEFINE new == [view EXCEPT !.hidden = hidden]
               choice == [settled EXCEPT !.hidden = mine, !.ghost = ghost]
    <2>1. /\ new.range = view.range /\ new.hidden = hidden /\ new.lookback = view.lookback
          /\ new.refresh = view.refresh /\ new.sort = view.sort /\ new.history = view.history
        BY <1>4
    <2>2. /\ choice.range = settled.range /\ choice.hidden = mine /\ choice.ghost = ghost
          /\ choice.lookback = settled.lookback
          /\ choice.refresh = settled.refresh /\ choice.sort = settled.sort /\ choice.history = settled.history
          /\ choice = [range |-> choice.range, hidden |-> choice.hidden, ghost |-> choice.ghost,
                    lookback |-> choice.lookback, refresh |-> choice.refresh,
                    sort |-> choice.sort, history |-> choice.history]
        <3> DEFINE half == [settled EXCEPT !.hidden = mine]
        <3>1. /\ half.range = settled.range /\ half.hidden = mine /\ half.ghost = settled.ghost
              /\ half.lookback = settled.lookback /\ half.refresh = settled.refresh
              /\ half.sort = settled.sort /\ half.history = settled.history
              /\ half = [range |-> half.range, hidden |-> half.hidden, ghost |-> half.ghost,
                         lookback |-> half.lookback, refresh |-> half.refresh,
                         sort |-> half.sort, history |-> half.history]
            BY <1>1
        <3>2. choice = [half EXCEPT !.ghost = ghost]
            OBVIOUS
        <3> HIDE DEF half, choice
        <3> QED BY <3>1, <3>2
    <2>3. V!Follow(new) /\ chosen' = choice
        BY <1>4, <1>6 DEF settled
    <2> HIDE DEF new, choice
    <2> QED BY <1>1, <1>2, <1>4, <1>6, <2>1, <2>2, <2>3, ViewLink
<1>7. ASSUME NEW lookback \in Lookbacks \cup {V!Default}, NEW refresh \in Refreshes \cup {V!Default},
             NEW sort, NEW history,
             V!Follow([range |-> view.range, hidden |-> view.hidden, lookback |-> lookback,
                     refresh |-> refresh, sort |-> sort, history |-> history]),
             chosen' = [range |-> settled.range, hidden |-> settled.hidden, ghost |-> settled.ghost,
                        lookback |-> lookback, refresh |-> refresh, sort |-> sort, history |-> history]
      PROVE  ViewInv'
    BY <1>1, <1>2, <1>4, <1>7 DEF V!Follow, V!Query, ViewInv
<1>v. /\ \A k : V!Follow([V!View EXCEPT !.lookback = k]) =>
              V!Follow([range |-> view.range, hidden |-> view.hidden, lookback |-> k, refresh |-> view.refresh, sort |-> view.sort, history |-> view.history])
      /\ \A k : V!Follow([V!View EXCEPT !.refresh = k]) =>
              V!Follow([range |-> view.range, hidden |-> view.hidden, lookback |-> view.lookback, refresh |-> k, sort |-> view.sort, history |-> view.history])
      /\ \A k : V!Follow([V!View EXCEPT !.sort = k]) =>
              V!Follow([range |-> view.range, hidden |-> view.hidden, lookback |-> view.lookback, refresh |-> view.refresh, sort |-> k, history |-> view.history])
      /\ \A k : V!Follow([V!View EXCEPT !.history = k]) =>
              V!Follow([range |-> view.range, hidden |-> view.hidden, lookback |-> view.lookback, refresh |-> view.refresh, sort |-> view.sort, history |-> k])
    <2>1. \A k : V!Follow([V!View EXCEPT !.lookback = k]) =>
              V!Follow([range |-> view.range, hidden |-> view.hidden, lookback |-> k, refresh |-> view.refresh, sort |-> view.sort, history |-> view.history])
        BY <1>4, OneControl, ZenonT(20)
    <2>2. \A k : V!Follow([V!View EXCEPT !.refresh = k]) =>
              V!Follow([range |-> view.range, hidden |-> view.hidden, lookback |-> view.lookback, refresh |-> k, sort |-> view.sort, history |-> view.history])
        BY <1>4, OneControl, ZenonT(20)
    <2>3. \A k : V!Follow([V!View EXCEPT !.sort = k]) =>
              V!Follow([range |-> view.range, hidden |-> view.hidden, lookback |-> view.lookback, refresh |-> view.refresh, sort |-> k, history |-> view.history])
        BY <1>4, OneControl, ZenonT(20)
    <2>4. \A k : V!Follow([V!View EXCEPT !.history = k]) =>
              V!Follow([range |-> view.range, hidden |-> view.hidden, lookback |-> view.lookback, refresh |-> view.refresh, sort |-> view.sort, history |-> k])
        BY <1>4, OneControl, ZenonT(20)
    <2> QED BY <2>1, <2>2, <2>3, <2>4
<1>w. /\ settled.lookback = view.lookback /\ settled.refresh = view.refresh
      /\ settled.sort = view.sort /\ settled.history = view.history
      /\ view.lookback \in Lookbacks \cup {V!Default} /\ view.refresh \in Refreshes \cup {V!Default}
    BY <1>1, <1>2, <1>4
<1>8. ASSUME NEW range \in Ranges, url' = [url EXCEPT !.range = range],
             chosen' = [chosen EXCEPT !.range = range], UNCHANGED now
      PROVE  ViewInv'
    <2>1. /\ url'.range = range /\ url'.hide = url.hide /\ url'.lookback = url.lookback
          /\ url'.refresh = url.refresh /\ url'.sort = url.sort /\ url'.history = url.history
          /\ url' = [range |-> url'.range, hide |-> url'.hide, lookback |-> url'.lookback,
                     refresh |-> url'.refresh, sort |-> url'.sort, history |-> url'.history]
        BY <1>8 DEF ViewInv
    <2>2. /\ chosen'.range = range /\ chosen'.hidden = chosen.hidden /\ chosen'.ghost = chosen.ghost
          /\ chosen'.lookback = chosen.lookback
          /\ chosen'.refresh = chosen.refresh /\ chosen'.sort = chosen.sort /\ chosen'.history = chosen.history
          /\ chosen' = [range |-> chosen'.range, hidden |-> chosen'.hidden, ghost |-> chosen'.ghost,
                    lookback |-> chosen'.lookback, refresh |-> chosen'.refresh,
                    sort |-> chosen'.sort, history |-> chosen'.history]
        BY <1>8 DEF ViewInv
    <2> QED BY <1>8, <2>1, <2>2 DEF ViewInv
<1>9. ASSUME NEW range \in V!Keys, V!ChooseRange(range) PROVE ViewInv'
    BY <1>5, <1>9 DEF V!ChooseRange, Ranges
<1>10. ASSUME NEW key \in Lookbacks, V!ChooseLookback(key) PROVE ViewInv'
    <2>1. V!Follow([V!View EXCEPT !.lookback = key]) /\ chosen' = [settled EXCEPT !.lookback = key]
        BY <1>10 DEF V!ChooseLookback, settled
    <2>2. chosen' = [range |-> settled.range, hidden |-> settled.hidden, ghost |-> settled.ghost,
                     lookback |-> key, refresh |-> settled.refresh,
                     sort |-> settled.sort, history |-> settled.history]
        BY <1>1, <2>1, OneChoice, Zenon
    <2>3. V!Follow([range |-> view.range, hidden |-> view.hidden, lookback |-> key,
                  refresh |-> view.refresh, sort |-> view.sort, history |-> view.history])
        BY <1>v, <2>1
    <2> QED BY <1>w, <1>7, <2>2, <2>3
<1>11. ASSUME NEW key \in Refreshes, V!ChooseRefresh(key) PROVE ViewInv'
    <2>1. V!Follow([V!View EXCEPT !.refresh = key]) /\ chosen' = [settled EXCEPT !.refresh = key]
        BY <1>11 DEF V!ChooseRefresh, settled
    <2>2. chosen' = [range |-> settled.range, hidden |-> settled.hidden, ghost |-> settled.ghost,
                     lookback |-> settled.lookback, refresh |-> key,
                     sort |-> settled.sort, history |-> settled.history]
        BY <1>1, <2>1, OneChoice, Zenon
    <2>3. V!Follow([range |-> view.range, hidden |-> view.hidden, lookback |-> view.lookback,
                  refresh |-> key, sort |-> view.sort, history |-> view.history])
        BY <1>v, <2>1
    <2> QED BY <1>w, <1>7, <2>2, <2>3
<1>12. CASE V!ShowAll
    <2>1. V!Keep = {} \cup (IF chosen.ghost THEN {} ELSE {Ghost})
        BY <1>2, <1>3 DEF V!Keep
    <2>2. chosen' = [V!Settled EXCEPT !.hidden = {}, !.ghost = chosen.ghost]
        BY <1>1, <1>12, SameGhost DEF V!ShowAll, settled
    <2> QED BY <1>2, <1>6, <1>12, <2>1, <2>2 DEF V!ShowAll
<1>13. ASSUME NEW series \in V!Everyone, V!ShowAlone(series) PROVE ViewInv'
    <2>1. (V!Everyone \ {series}) \cup V!Keep
            = (V!Everyone \ {series}) \cup (IF chosen.ghost THEN {} ELSE {Ghost})
        BY <1>2, <1>3 DEF V!Keep
    <2>2. chosen' = [V!Settled EXCEPT !.hidden = V!Everyone \ {series}, !.ghost = chosen.ghost]
        BY <1>1, <1>13, SameGhost DEF V!ShowAlone, settled
    <2>3. V!Follow([V!View EXCEPT !.hidden = (V!Everyone \ {series}) \cup V!Keep])
        BY <1>13 DEF V!ShowAlone
    <2> QED BY <1>2, <1>6, <2>1, <2>2, <2>3
<1>14. ASSUME NEW series \in V!Everyone, V!Toggle(series) PROVE ViewInv'
    <2> DEFINE mine == V!SymDiff(chosen.hidden, {series})
    <2>1. /\ mine \subseteq V!Everyone
          /\ V!Toggled(series) = mine \cup (IF chosen.ghost THEN {} ELSE {Ghost})
        BY <1>2, <1>3 DEF V!Toggled, V!SymDiff
    <2>2. chosen' = [V!Settled EXCEPT !.hidden = V!SymDiff(V!Settled.hidden, {series})]
        BY <1>14 DEF V!Toggle
    <2>3. chosen' = [V!Settled EXCEPT !.hidden = mine, !.ghost = chosen.ghost]
        BY <1>1, <2>2, SameGhost DEF settled
    <2>4. V!Follow([V!View EXCEPT !.hidden = V!Toggled(series)])
        BY <1>14 DEF V!Toggle
    <2> HIDE DEF mine
    <2> QED BY <1>2, <1>6, <2>1, <2>3, <2>4
<1>15. CASE V!ToggleGhost
    <2>1. /\ V!Toggled(Ghost) = chosen.hidden \cup (IF ~chosen.ghost THEN {} ELSE {Ghost})
          /\ (~chosen.ghost) \in BOOLEAN
        <3>1. CASE chosen.ghost
            BY <1>2, <1>3, <3>1 DEF V!Toggled
        <3>2. CASE ~chosen.ghost
            BY <1>2, <1>3, <3>2 DEF V!Toggled
        <3> QED BY <3>1, <3>2
    <2>2. chosen' = [V!Settled EXCEPT !.ghost = ~V!Settled.ghost]
        BY <1>15 DEF V!ToggleGhost
    <2>3. chosen' = [V!Settled EXCEPT !.hidden = chosen.hidden, !.ghost = ~chosen.ghost]
        BY <1>1, <2>2, SameGhost DEF settled
    <2>4. V!Follow([V!View EXCEPT !.hidden = V!Toggled(Ghost)])
        BY <1>15 DEF V!ToggleGhost
    <2> QED BY <1>2, <1>6, <2>1, <2>3, <2>4
<1>16. ASSUME NEW key \in {V!Default, "consumed"}, V!Sort(key) PROVE ViewInv'
    <2>1. V!Follow([V!View EXCEPT !.sort = key]) /\ chosen' = [settled EXCEPT !.sort = key]
        BY <1>16 DEF V!Sort, settled
    <2>2. chosen' = [range |-> settled.range, hidden |-> settled.hidden, ghost |-> settled.ghost,
                     lookback |-> settled.lookback, refresh |-> settled.refresh,
                     sort |-> key, history |-> settled.history]
        BY <1>1, <2>1, OneChoice, Zenon
    <2>3. V!Follow([range |-> view.range, hidden |-> view.hidden, lookback |-> view.lookback,
                  refresh |-> view.refresh, sort |-> key, history |-> view.history])
        BY <1>v, <2>1
    <2> QED BY <1>w, <1>7, <2>2, <2>3
<1>17. ASSUME NEW length \in {V!Default, "all"}, V!History(length) PROVE ViewInv'
    <2>1. V!Follow([V!View EXCEPT !.history = length]) /\ chosen' = [settled EXCEPT !.history = length]
        BY <1>17 DEF V!History, settled
    <2>2. chosen' = [range |-> settled.range, hidden |-> settled.hidden, ghost |-> settled.ghost,
                     lookback |-> settled.lookback, refresh |-> settled.refresh,
                     sort |-> settled.sort, history |-> length]
        BY <1>1, <2>1, OneChoice, Zenon
    <2>3. V!Follow([range |-> view.range, hidden |-> view.hidden, lookback |-> view.lookback,
                  refresh |-> view.refresh, sort |-> view.sort, history |-> length])
        BY <1>v, <2>1
    <2> QED BY <1>w, <1>7, <2>2, <2>3
<1>18. ASSUME NEW started \in 0..now, V!ChooseSession(started) PROVE ViewInv'
    <2> DEFINE end == V!Min({started + ViewSessionLength, now})
    <2>0. started \in Nat /\ started + ViewSessionLength \in Nat /\ now \in Nat
        BY <1>3 DEF V!ViewsAssumption
    <2>1. end \in Nat /\ started \in Nat
        BY <2>0, MinOfTwo
    <2>2. V!TimeRange("custom", started, end) \in Ranges
        BY <2>1 DEF V!TimeRange, Ranges, Customs
    <2> QED BY <1>5, <1>18, <2>2 DEF V!ChooseSession
<1>19. ASSUME NEW from \in 0..now, NEW to \in 0..now + ViewSessionLength, V!Zoom(from, to)
       PROVE  ViewInv'
    <2>1. from \in Nat /\ to \in Nat
        BY <1>3 DEF V!ViewsAssumption
    <2>2. V!TimeRange("custom", from, to) \in Ranges
        BY <2>1 DEF V!TimeRange, Ranges, Customs
    <2> QED BY <1>8, <1>19, <2>2 DEF V!Zoom
<1>20. CASE V!ZoomReset
    BY <1>8, <1>20 DEF V!ZoomReset, Ranges
<1>21. CASE V!Tick
    BY <1>3, <1>21 DEF V!Tick, ViewInv
<1>22. CASE UNCHANGED V!vars
    BY <1>22 DEF V!vars, ViewInv
<1> QED BY <1>9, <1>10, <1>11, <1>12, <1>13, <1>14, <1>15, <1>16, <1>17, <1>18, <1>19, <1>20, <1>21, <1>22
    DEF V!Next

LEMMA ViewChoices == ASSUME V!ViewsAssumption, ViewInv PROVE V!ChoicesStay
<1>1. /\ V!View.range = V!ParseRange(chosen.range)
      /\ V!View.hidden = chosen.hidden \cup (IF chosen.ghost THEN {} ELSE {Ghost})
      /\ V!View.lookback = chosen.lookback /\ V!View.refresh = chosen.refresh
      /\ V!View.sort = chosen.sort /\ V!View.history = chosen.history
    BY ViewRead DEF ViewInv
<1> DEFINE view == V!View
           again == V!Query(view)
<1>2. /\ view = [range |-> view.range, hidden |-> view.hidden, lookback |-> view.lookback,
                refresh |-> view.refresh, sort |-> view.sort, history |-> view.history]
      /\ V!ParseRange(view.range) = view.range
      /\ view.lookback \in Lookbacks \cup {V!Default} /\ view.refresh \in Refreshes \cup {V!Default}
    BY ViewRead, Parsed DEF ViewInv
<1> HIDE DEF view
<1>3. /\ again.range = view.range /\ again.hide = view.hidden /\ again.lookback = view.lookback
      /\ again.refresh = view.refresh /\ again.sort = view.sort /\ again.history = view.history
    BY DEF V!Query
<1> HIDE DEF again
<1>4. V!ParseView(again) = view
    BY <1>2, <1>3 DEF V!ParseView
<1> QED BY <1>1, <1>4 DEF V!ChoicesStay, view, again

(* What is asked of the range that is drawn. *)
Fits(r, asked, oldest, running, week) ==
    /\ r.start <= r.end
    /\ {k \in V!Keys : r.key = k /\ ~r.auto} =
          (IF asked.key \notin {"week", "lastweek"} \/ week # V!None THEN V!Keys \cap {asked} ELSE {})
    /\ asked.key = "custom" => <<r.start, r.end>> = <<asked.from, asked.to>>
    /\ r.auto <=> asked = V!Auto \/ ~(asked.key \notin {"week", "lastweek"} \/ week # V!None)
    /\ r.auto => \/ r.end = running /\ r.start <= now /\ now < r.end
                 \/ r.end = week /\ r.start <= now
                 \/ r.end = now /\ (oldest = V!None \/ r.start <= oldest)

LEMMA KindsOfRange ==
    ASSUME NEW range \in Ranges
    PROVE  /\ range.key \in {"week", "lastweek", "all", "preset", "auto", "custom"}
           /\ range.key \in {"week", "lastweek", "all"} => range = V!TimeRange(range.key, 0, 0) /\ range \in V!Keys
           /\ range.key = "preset" => range.from \in Presets /\ range \in V!Keys
           /\ range.key = "auto" <=> range = V!Auto
           /\ range.key = "custom" => range \in Customs /\ range \notin V!Keys
<1>1. CASE range \in {V!TimeRange(key, 0, 0) : key \in {"week", "lastweek", "all"}}
    BY <1>1, PlainRanges DEF V!Keys, V!TimeRange, V!Auto
<1>2. CASE range \in {V!TimeRange("preset", span, 0) : span \in Presets}
    BY <1>2, PlainRanges DEF V!Keys, V!TimeRange, V!Auto
<1>3. CASE range = V!Auto
    BY <1>3, PlainRanges DEF V!TimeRange, V!Auto
<1>4. CASE range \in Customs
    BY <1>4, PlainRanges DEF Customs, V!Auto, V!TimeRange
<1> QED BY <1>1, <1>2, <1>3, <1>4 DEF Ranges, V!Keys

LEMMA AutoIsNoKey == V!Auto \notin V!Keys
<1>1. \A k \in V!Keys : k.key # "auto"
    BY DEF V!Keys, V!TimeRange
<1> QED BY <1>1 DEF V!Auto, V!TimeRange

LEMMA FitsParts ==
    ASSUME NEW asked \in Ranges, NEW oldest, NEW running, NEW week,
           NEW start \in Int, NEW end \in Int, NEW key, NEW auto \in BOOLEAN,
           start <= end,
           ~auto => key = asked /\ asked # V!Auto
                    /\ (asked.key \notin {"week", "lastweek"} \/ week # V!None),
           asked.key = "custom" => start = asked.from /\ end = asked.to,
           auto => asked = V!Auto \/ (asked.key \in {"week", "lastweek"} /\ week = V!None),
           auto => \/ end = running /\ start <= now /\ now < end
                   \/ end = week /\ start <= now
                   \/ end = now /\ (oldest = V!None \/ start <= oldest)
    PROVE  Fits(V!Resolved(start, end, key, auto), asked, oldest, running, week)
<1> DEFINE r == V!Resolved(start, end, key, auto)
           kept == asked.key \notin {"week", "lastweek"} \/ week # V!None
<1>1. r.start = start /\ r.end = end /\ r.key = key /\ r.auto = auto
    BY DEF V!Resolved
<1> HIDE DEF r
<1>2. auto <=> asked = V!Auto \/ ~kept
    OBVIOUS
<1>3. {k \in V!Keys : r.key = k /\ ~r.auto} = (IF kept THEN V!Keys \cap {asked} ELSE {})
    <2>1. CASE auto
        BY <1>1, <1>2, <2>1, AutoIsNoKey
    <2>2. CASE ~auto
        BY <1>1, <1>2, <2>2
    <2> QED BY <2>1, <2>2
<1>4. asked.key = "custom" => <<r.start, r.end>> = <<asked.from, asked.to>>
    BY <1>1
<1>5. r.auto <=> asked = V!Auto \/ ~kept
    BY <1>1, <1>2
<1>6. r.auto => \/ r.end = running /\ r.start <= now /\ now < r.end
                \/ r.end = week /\ r.start <= now
                \/ r.end = now /\ (oldest = V!None \/ r.start <= oldest)
    BY <1>1
<1>7. r.start <= r.end
    BY <1>1
<1> QED BY <1>3, <1>4, <1>5, <1>6, <1>7 DEF Fits, r

LEMMA RangeFitsAll ==
    ASSUME V!ViewsAssumption, ViewInv,
           NEW oldest \in {V!None} \cup 0..now, NEW running \in {V!None} \cup now - 1..now + ViewSessionLength,
           NEW week \in {V!None, now + 1, now + ViewWeekLength}
    PROVE  Fits(V!ResolveRange(oldest, running, week), V!ParseRange(chosen.range), oldest, running, week)
<1> DEFINE range == V!View.range
           r == V!ResolveRange(oldest, running, week)
<1>1. range \in Ranges /\ range = V!ParseRange(chosen.range)
    BY ViewRead DEF ViewInv
<1>2. /\ now \in Nat /\ ViewSessionLength \in Nat \ {0} /\ ViewWeekLength \in Nat \ {0}
      /\ MinSpan \in Nat \ {0} /\ V!None = -1 /\ Presets \subseteq Nat /\ Presets # {}
      /\ \A p \in Presets : p > 0
    BY DEF ViewInv, V!ViewsAssumption, V!None
<1>t. week \in Int /\ running \in Int /\ oldest \in Int
      /\ (week # V!None => week \in {now + 1, now + ViewWeekLength})
      /\ (oldest # V!None => oldest \in 0..now)
      /\ (running # V!None => running <= now + ViewSessionLength)
    BY <1>2
<1>k. /\ range.key \in {"week", "lastweek", "all", "preset", "auto", "custom"}
      /\ range.key \in {"week", "lastweek", "all"} => range = V!TimeRange(range.key, 0, 0) /\ range \in V!Keys
      /\ range.key = "preset" => range.from \in Presets /\ range \in V!Keys
      /\ range.key = "auto" <=> range = V!Auto
      /\ range.key = "custom" => range \in Customs /\ range \notin V!Keys
    BY <1>1, KindsOfRange, Zenon
<1>m. V!Min(Presets) \in Nat
    BY <1>2, MinOfSpans
<1> DEFINE Good == Fits(r, range, oldest, running, week)
<1> HIDE DEF range
<1>3. ASSUME range.key = "week" /\ week # V!None
      PROVE  Good
    <2>1. r = V!Resolved(week - ViewWeekLength, week, V!TimeRange("week", 0, 0), FALSE)
        BY <1>3 DEF V!ResolveRange, range
    <2> HIDE DEF r
    <2>2. week - ViewWeekLength \in Int /\ week \in Int /\ week - ViewWeekLength <= week
        BY <1>2, <1>t, <1>k, <1>3
    <2>3. Good
        BY <1>1, <1>3, <1>k, <1>t, <2>1, <2>2, FitsParts
    <2> QED BY <2>3
<1>4. ASSUME range.key = "lastweek" /\ week # V!None
      PROVE  Good
    <2>1. r = V!Resolved(week - 2 * ViewWeekLength, week - ViewWeekLength, range, FALSE)
        BY <1>4 DEF V!ResolveRange, range
    <2> HIDE DEF r
    <2>2. week - 2 * ViewWeekLength \in Int /\ week - ViewWeekLength \in Int
            /\ week - 2 * ViewWeekLength <= week - ViewWeekLength
        BY <1>2, <1>t, <1>k, <1>4
    <2>3. Good
        BY <1>1, <1>4, <1>k, <1>t, <2>1, <2>2, FitsParts
    <2> QED BY <2>3
<1>5. ASSUME range.key = "auto" /\ V!WeeklyOnly /\ week # V!None
      PROVE  Good
    <2>1. r = V!Resolved(week - ViewWeekLength, week, V!TimeRange("week", 0, 0), TRUE)
        BY <1>5 DEF V!ResolveRange, range
    <2> HIDE DEF r
    <2>2. week - ViewWeekLength \in Int /\ week \in Int
            /\ week - ViewWeekLength <= week /\ week - ViewWeekLength <= now
        BY <1>2, <1>t, <1>k, <1>5
    <2>3. Good
        BY <1>1, <1>5, <1>k, <1>t, <2>1, <2>2, FitsParts
    <2> QED BY <2>3
<1>6. ASSUME range.key = "auto" /\ ~(V!WeeklyOnly /\ week # V!None) /\ V!RunningSession(running)
      PROVE  Good
    <2>1. r = V!Resolved(running - ViewSessionLength, running, V!TimeRange("session", 0, 0), TRUE)
        BY <1>6 DEF V!ResolveRange, range
    <2> HIDE DEF r
    <2>2. running - ViewSessionLength \in Int /\ running \in Int
            /\ running - ViewSessionLength <= running /\ running - ViewSessionLength <= now /\ now < running
        BY <1>2, <1>t, <1>k, <1>6 DEF V!RunningSession
    <2>3. Good
        BY <1>1, <1>6, <1>k, <1>t, <2>1, <2>2, FitsParts
    <2> QED BY <2>3
<1>7. ASSUME range.key = "custom"
      PROVE  Good
    <2>1. r = V!Resolved(range.from, range.to, range, FALSE)
        BY <1>7 DEF V!ResolveRange, range
    <2> HIDE DEF r
    <2>2. range \in Customs /\ range.to - range.from >= MinSpan
        BY <1>1, <1>2, <1>7, <1>k, Parsed, ViewRead DEF range, ViewInv
    <2>3. range.from \in Int /\ range.to \in Int /\ range.from <= range.to
        BY <1>2, <2>2 DEF Customs
    <2>4. Good
        BY <1>1, <1>7, <1>k, <2>1, <2>3, FitsParts
    <2> QED BY <2>4
<1>8. ASSUME range.key = "preset"
      PROVE  Good
    <2>1. r = V!Resolved(now - range.from, now, range, FALSE)
        BY <1>8 DEF V!ResolveRange, range
    <2> HIDE DEF r
    <2>2. now - range.from \in Int /\ now \in Int /\ now - range.from <= now
        <3>1. range.from \in Nat /\ now \in Nat
            BY <1>2, <1>k, <1>8
        <3> QED BY <3>1
    <2>3. Good
        BY <1>1, <1>8, <1>k, <1>t, <2>1, <2>2, FitsParts
    <2> QED BY <2>3
<1>9. ASSUME range.key = "all"
      PROVE  Good
    <2>1. r = V!Resolved(IF oldest = V!None THEN now - V!Min(Presets) ELSE oldest, now, range, FALSE)
        BY <1>9 DEF V!ResolveRange, range
    <2> DEFINE start == IF oldest = V!None THEN now - V!Min(Presets) ELSE oldest
    <2>2. start \in Int /\ start <= now
        BY <1>2, <1>t, <1>m
    <2> HIDE DEF start
    <2>3. r = V!Resolved(start, now, range, FALSE)
        BY <2>1 DEF start
    <2>4. Good
        <3>1. range # V!Auto /\ range.key \notin {"week", "lastweek", "custom"} /\ now \in Int
            BY <1>2, <1>9, <1>k
        <3> QED BY <1>1, <2>2, <2>3, <3>1, FitsParts
    <2> QED BY <2>4
<1>10. ASSUME \/ range.key \in {"week", "lastweek"} /\ week = V!None
              \/ range.key = "auto" /\ ~(V!WeeklyOnly /\ week # V!None) /\ ~V!RunningSession(running)
      PROVE  Good
    <2>1. r = IF oldest = V!None \/ now - oldest < CollectingUnder
              THEN V!Resolved(now - V!Min(Presets), now, V!TimeRange("preset", V!Min(Presets), 0), TRUE)
              ELSE V!FitsAll(oldest)
        BY <1>10 DEF V!ResolveRange, range
    <2> HIDE DEF r
    <2>p. /\ range = V!Auto \/ (range.key \in {"week", "lastweek"} /\ week = V!None)
          /\ range.key # "custom" /\ now \in Int
        BY <1>2, <1>10, <1>k
    <2>2. CASE oldest = V!None \/ now - oldest < CollectingUnder
        <3>1. r = V!Resolved(now - V!Min(Presets), now, V!TimeRange("preset", V!Min(Presets), 0), TRUE)
            BY <2>1, <2>2
        <3>2. CollectingUnder \in Nat /\ CollectingUnder <= V!Min(Presets)
            BY DEF V!ViewsAssumption
        <3>3. now - V!Min(Presets) \in Int /\ now - V!Min(Presets) <= now
              /\ (oldest = V!None \/ now - V!Min(Presets) <= oldest)
            BY <1>2, <1>t, <1>m, <2>2, <3>2
        <3>4. Good
            BY <1>1, <1>t, <2>p, <3>1, <3>3, FitsParts
        <3> QED BY <3>4
    <2>3. CASE ~(oldest = V!None \/ now - oldest < CollectingUnder)
        <3> DEFINE wide == {s \in Presets : s >= now - oldest}
        <3>1. r = IF wide = {} THEN V!Resolved(oldest, now, V!TimeRange("all", 0, 0), TRUE)
                  ELSE V!Resolved(now - V!Min(wide), now, V!TimeRange("preset", V!Min(wide), 0), TRUE)
            BY <2>1, <2>3 DEF V!FitsAll
        <3>2. CASE wide = {}
            <4>1. r = V!Resolved(oldest, now, V!TimeRange("all", 0, 0), TRUE)
                BY <3>1, <3>2
            <4>2. oldest \in Int /\ oldest <= now /\ oldest <= oldest
                BY <1>2, <1>t, <2>3
            <4> HIDE DEF wide
            <4>3. Good
                BY <1>1, <1>t, <2>p, <4>1, <4>2, FitsParts
            <4> QED BY <4>3
        <3>3. CASE wide # {}
            <4>1. r = V!Resolved(now - V!Min(wide), now, V!TimeRange("preset", V!Min(wide), 0), TRUE)
                BY <3>1, <3>3
            <4>2. V!Min(wide) \in wide
                BY <1>2, <3>3, MinOfSpans
            <4> DEFINE least == V!Min(wide)
            <4>a. least \in Nat /\ least >= now - oldest
                BY <1>2, <4>2
            <4> HIDE DEF least
            <4>b. now \in Nat /\ oldest \in Int
                BY <1>2, <1>t
            <4>c. now - least \in Int /\ now - least <= now /\ now - least <= oldest
                BY <4>a, <4>b
            <4>3. now - V!Min(wide) \in Int /\ now - V!Min(wide) <= now /\ now - V!Min(wide) <= oldest
                BY <4>c DEF least
            <4> HIDE DEF wide
            <4>4. Good
                BY <1>1, <1>t, <2>p, <4>1, <4>3, FitsParts
            <4> QED BY <4>4
        <3> QED BY <3>2, <3>3
    <2> QED BY <2>2, <2>3
<1> HIDE DEF r
<1> HIDE DEF Good
<1>n. \/ range.key = "week" /\ week # V!None
      \/ range.key = "lastweek" /\ week # V!None
      \/ range.key = "auto" /\ V!WeeklyOnly /\ week # V!None
      \/ range.key = "auto" /\ ~(V!WeeklyOnly /\ week # V!None) /\ V!RunningSession(running)
      \/ range.key = "custom"
      \/ range.key = "preset"
      \/ range.key = "all"
      \/ \/ range.key \in {"week", "lastweek"} /\ week = V!None
         \/ range.key = "auto" /\ ~(V!WeeklyOnly /\ week # V!None) /\ ~V!RunningSession(running)
    BY <1>k
<1>12. Good
    <2>1. CASE range.key = "week" /\ week # V!None
        BY <1>3, <2>1
    <2>2. CASE range.key = "lastweek" /\ week # V!None
        BY <1>4, <2>2
    <2>3. CASE range.key = "auto" /\ V!WeeklyOnly /\ week # V!None
        BY <1>5, <2>3
    <2>4. CASE range.key = "auto" /\ ~(V!WeeklyOnly /\ week # V!None) /\ V!RunningSession(running)
        BY <1>6, <2>4
    <2>5. CASE range.key = "custom" BY <1>7, <2>5
    <2>6. CASE range.key = "preset" BY <1>8, <2>6
    <2>7. CASE range.key = "all" BY <1>9, <2>7
    <2>8. CASE \/ range.key \in {"week", "lastweek"} /\ week = V!None
               \/ range.key = "auto" /\ ~(V!WeeklyOnly /\ week # V!None) /\ ~V!RunningSession(running)
        BY <1>10, <2>8
    <2> QED BY <1>n, <2>1, <2>2, <2>3, <2>4, <2>5, <2>6, <2>7, <2>8
<1>11. Fits(r, range, oldest, running, week)
    BY <1>12 DEF Good
<1> QED BY <1>1, <1>11 DEF r, range

LEMMA ViewSafe == ASSUME V!ViewsAssumption, ViewInv PROVE V!ChoicesStay /\ V!RangeFits
BY ViewChoices, RangeFitsAll DEF V!RangeFits, Fits

-----------------------------------------------------------------------------
OneClient == client = [cookie |-> client.cookie, org |-> client.org]
ClockTyped == now \in Nat /\ plan.checked \in Int /\ cookie \in Cookies

(* Past the usage, the client's organisation is that of the readings. *)
AskedFor == stage \in {"overage", "plan"} => client.org # I!None /\ usageOrg = client.org

(* A client without a cookie has asked for nothing yet. *)
NotYetAsked == client.cookie = I!None => overageOrg = I!None /\ stage = "idle"

SettledOnOne == overageOrg # I!None /\ ~mixed => overageOrg = client.org /\ usageOrg = client.org

IdentityInv == OneClient /\ ClockTyped /\ AskedFor /\ NotYetAsked /\ SettledOnOne

(* _keep_plan writes what it reads back. *)
LEMMA KeptPlan == I!KeepPlan => I!FromRow(plan') = I!FromRow(plan) /\ plan'.checked = now /\ plan'.error
BY DEF I!KeepPlan, I!WritePlan, I!FromRow

(* With an organisation to look for, none other is found. *)
LEMMA FoundIsWanted ==
    ASSUME NEW org, org # I!None
    PROVE  I!FromBootstrap(org) \in {org, I!None}
BY DEF I!FromBootstrap, I!ActiveOrgId

(* A poll that goes on to no plan has one asked for within the day. *)
LEMMA Continued ==
    ASSUME I!IdentityAssumption, ClockTyped, I!Continue, UNCHANGED plan, stage' = "idle"
    PROVE  plan'.checked # I!Never /\ now - plan'.checked < Refresh
<1>1. ~I!PlanIsAskedFor
    BY DEF I!Continue
<1>2. plan.checked # I!Never /\ ~(now - plan.checked >= Refresh)
    BY <1>1 DEF I!PlanIsAskedFor, I!Due
<1> QED BY <1>2 DEF I!IdentityAssumption, ClockTyped

LEMMA IdentityBegin == I!IdentityAssumption /\ I!Init => IdentityInv
BY DEF I!IdentityAssumption, I!Init, IdentityInv, OneClient, ClockTyped,
       AskedFor, NotYetAsked, SettledOnOne, I!NoClient,
       I!NoPlan, I!Never

LEMMA IdentityStep == I!IdentityAssumption /\ IdentityInv /\ [I!Next]_I!vars => IdentityInv'
<1> SUFFICES ASSUME I!IdentityAssumption, IdentityInv, [I!Next]_I!vars PROVE IdentityInv'
    OBVIOUS
<1> USE DEF IdentityInv
<1>1. CASE I!Begin
    <2>1. OneClient' /\ ClockTyped' /\ AskedFor'
        BY <1>1 DEF I!Begin, OneClient, ClockTyped, AskedFor
    <2>2. cookie # I!None
        BY DEF I!IdentityAssumption, ClockTyped
    <2>3. NotYetAsked' /\ SettledOnOne'
        <3>1. CASE client.cookie = cookie
            BY <1>1, <2>2, <3>1 DEF I!Begin, NotYetAsked, SettledOnOne
        <3>2. CASE client.cookie # cookie
            <4>1. client'.cookie = cookie /\ overageOrg' = overageOrg
                BY <1>1, <3>2 DEF I!Begin
            <4>2. client.cookie = I!None \/ mixed'
                BY <1>1, <3>2 DEF I!Begin
            <4> QED BY <2>2, <4>1, <4>2 DEF NotYetAsked, SettledOnOne
        <3> QED BY <3>1, <3>2
    <2> QED BY <2>1, <2>3
<1>2. ASSUME NEW outcome, I!Bootstrap(outcome) PROVE IdentityInv'
    <2>1. client.org = I!None /\ stage = "usage" /\ stage' \in {"usage", "idle"}
          /\ client'.cookie = client.cookie
        BY <1>2 DEF I!Bootstrap, I!Fail, OneClient
    <2>2. overageOrg = I!None \/ mixed
        BY <2>1 DEF SettledOnOne
    <2>3. OneClient'
        BY <1>2 DEF I!Bootstrap, I!Fail, OneClient
    <2> QED BY <1>2, <2>1, <2>2, <2>3
        DEF I!Bootstrap, ClockTyped, AskedFor, NotYetAsked, SettledOnOne
<1>3. ASSUME NEW outcome, NEW carriesSpend, I!Usage(outcome, carriesSpend) PROVE IdentityInv'
    <2>1. client.org # I!None /\ I!ResolveOrg(client.org) = client.org
        BY <1>3 DEF I!Usage, I!ResolveOrg
    <2>2. usageOrg' \in {usageOrg, client.org}
        BY <1>3, <2>1 DEF I!Usage
    <2>3. stage' \in {"overage", "plan"} => usageOrg' = client.org
        BY <1>3, <2>1 DEF I!Usage, I!Fail
    <2> QED BY <1>3, <2>1, <2>2, <2>3
        DEF I!Usage, OneClient, ClockTyped, AskedFor, NotYetAsked, SettledOnOne
<1>4. ASSUME NEW outcome, I!Overage(outcome) PROVE IdentityInv'
    <2>1. client.org # I!None /\ usageOrg = client.org /\ I!ResolveOrg(client.org) = client.org
        BY <1>4 DEF I!Overage, AskedFor, I!ResolveOrg
    <2>2. overageOrg' \in {overageOrg, client.org}
        BY <1>4, <2>1 DEF I!Overage
    <2>3. OneClient' /\ ClockTyped' /\ AskedFor'
        BY <1>4, <2>1 DEF I!Overage, OneClient, ClockTyped, AskedFor
    <2>4. NotYetAsked' /\ SettledOnOne'
        BY <1>4, <2>1, <2>2 DEF I!Overage, NotYetAsked, SettledOnOne
    <2> QED BY <2>3, <2>4
<1>5. ASSUME NEW outcome, I!RefreshPlan(outcome) PROVE IdentityInv'
    BY <1>5
        DEF I!RefreshPlan, I!KeepPlan, I!WritePlan, OneClient, ClockTyped, AskedFor, NotYetAsked, SettledOnOne
<1>6. CASE I!Restart
    BY <1>6 DEF I!Restart, I!NoClient, OneClient, ClockTyped, AskedFor, NotYetAsked, SettledOnOne
<1>7. CASE I!Tick
    BY <1>7
        DEF I!Tick, I!vendor, I!poller, OneClient, ClockTyped, AskedFor, NotYetAsked, SettledOnOne
<1>8. ASSUME NEW c \in Cookies, I!StoreCookie(c) PROVE IdentityInv'
    BY <1>8 DEF I!StoreCookie, I!poller, OneClient, ClockTyped, AskedFor, NotYetAsked, SettledOnOne
<1>9. ASSUME NEW org, I!SwitchActive(org) \/ I!Leave(org) PROVE IdentityInv'
    BY <1>9
        DEF I!SwitchActive, I!Leave, I!poller, OneClient, ClockTyped, AskedFor, NotYetAsked, SettledOnOne
<1>10. CASE UNCHANGED I!vars
    BY <1>10
        DEF I!vars, I!vendor, I!poller, OneClient, ClockTyped, AskedFor, NotYetAsked, SettledOnOne
<1> QED BY <1>1, <1>2, <1>3, <1>4, <1>5, <1>6, <1>7, <1>8, <1>9, <1>10 DEF I!Next

(* Every step keeps to the organisation of the readings. *)
LEMMA StepIsOfOneOrg == I!IdentityAssumption /\ IdentityInv /\ [I!Next]_I!vars => [I!OfOneOrg]_I!vars
<1> SUFFICES ASSUME I!IdentityAssumption, IdentityInv, [I!Next]_I!vars, I!vars' # I!vars PROVE I!OfOneOrg
    OBVIOUS
<1> DEFINE Settled == stage = "idle" /\ overageOrg # I!None /\ ~mixed => overageOrg = usageOrg
           Dated == plan'.checked # I!Never /\ now - plan'.checked < Refresh
<1>1. Settled
    BY DEF IdentityInv, SettledOnOne
<1>2. ASSUME UNCHANGED <<plan, overageOrg>>, stage = "idle" \/ stage' # "idle" \/ state' # "ok"
      PROVE  I!OfOneOrg
    BY <1>1, <1>2 DEF I!OfOneOrg
<1>3. CASE I!Begin
    BY <1>2, <1>3 DEF I!Begin
<1>4. ASSUME NEW outcome, I!Bootstrap(outcome) PROVE I!OfOneOrg
    BY <1>2, <1>4 DEF I!Bootstrap, I!Fail
<1>5. ASSUME NEW outcome, NEW carriesSpend, I!Usage(outcome, carriesSpend) PROVE I!OfOneOrg
    <2>1. UNCHANGED <<plan, overageOrg>> /\ stage = "usage"
        BY <1>5 DEF I!Usage
    <2>2. stage' = "idle" /\ state' = "ok" => Dated
        BY <1>5, Continued DEF I!Usage, I!Fail, IdentityInv
    <2> QED BY <2>1, <2>2 DEF I!OfOneOrg
<1>6. ASSUME NEW outcome, I!Overage(outcome) PROVE I!OfOneOrg
    <2>1. UNCHANGED plan /\ stage = "overage" /\ UNCHANGED usageOrg
        BY <1>6 DEF I!Overage
    <2>2. I!ResolveOrg(client.org) = usageOrg
        BY <2>1 DEF IdentityInv, AskedFor, I!ResolveOrg
    <2>3. overageOrg' \in {overageOrg, usageOrg}
        BY <1>6, <2>2 DEF I!Overage
    <2>4. stage' = "idle" /\ state' = "ok" => Dated
        BY <1>6, Continued DEF I!Overage, I!Fail, IdentityInv
    <2> QED BY <2>1, <2>3, <2>4 DEF I!OfOneOrg
<1>7. ASSUME NEW outcome, I!RefreshPlan(outcome) PROVE I!OfOneOrg
    <2>1. stage = "plan" /\ client.org # I!None /\ usageOrg = client.org
          /\ UNCHANGED <<usageOrg, overageOrg>>
        BY <1>7 DEF I!RefreshPlan, IdentityInv, AskedFor
    <2>2. now # I!Never /\ now - now < Refresh
        BY DEF IdentityInv, ClockTyped, I!Never, I!IdentityAssumption
    <2> DEFINE found == IF outcome = "ok" THEN I!FromBootstrap(client.org) ELSE I!None
    <2>3. CASE found = I!None
        <3>1. I!KeepPlan
            BY <1>7, <2>3 DEF I!RefreshPlan
        <3> QED BY <2>1, <2>2, <3>1, KeptPlan DEF I!OfOneOrg
    <2>4. CASE found # I!None
        <3>1. found = client.org
            BY <2>1, <2>4, FoundIsWanted
        <3>2. I!WritePlan(found, FALSE)
            BY <1>7, <2>4 DEF I!RefreshPlan
        <3>3. plan'.org = client.org /\ ~plan'.error /\ plan'.checked = now
            BY <3>1, <3>2 DEF I!WritePlan
        <3> QED BY <2>1, <2>2, <3>3 DEF I!OfOneOrg
    <2> QED BY <2>3, <2>4
<1>8. CASE I!Restart
    <2>1. overageOrg' = I!None /\ UNCHANGED plan /\ state' = "starting"
        BY <1>8 DEF I!Restart
    <2> QED BY <1>1, <2>1 DEF I!OfOneOrg
<1>9. CASE I!Tick
    BY <1>2, <1>9 DEF I!Tick, I!poller
<1>10. ASSUME NEW c, I!StoreCookie(c) PROVE I!OfOneOrg
    BY <1>2, <1>10 DEF I!StoreCookie, I!poller
<1>11. ASSUME NEW org, I!SwitchActive(org) \/ I!Leave(org) PROVE I!OfOneOrg
    BY <1>2, <1>11 DEF I!SwitchActive, I!Leave, I!poller
<1> QED BY <1>3, <1>4, <1>5, <1>6, <1>7, <1>8, <1>9, <1>10, <1>11 DEF I!Next

-----------------------------------------------------------------------------
(* Chart.                                                                  *)

(* The readings are in order of their time, and the boosts recorded are     *)
(* the readings that a raise of the limit made lower than the one before.  *)
Places == 1..Len(rows)
ChartTyped ==
    /\ now \in Nat
    /\ rows \in Seq([ts : Nat, pct : Nat, ends : Int])
    /\ \A i \in Places : rows[i].ts <= now
    /\ \A i \in Places, j \in Places : i < j => rows[i].ts < rows[j].ts
BoostsAreFalls ==
    boosts = {rows[i].ts : i \in {k \in Places : k > 1 /\ C!IsBoost(rows[k - 1], rows[k])}}
ChartInv == ChartTyped /\ BoostsAreFalls

(* What the order of the readings says of their places. *)
LEMMA PlacesAre ==
    ASSUME ChartTyped
    PROVE  /\ Len(rows) \in Nat /\ DOMAIN rows = Places /\ Places \in SUBSET Nat
           /\ Places \in SUBSET (0..Len(rows))
           /\ \A i \in Places : rows[i] \in [ts : Nat, pct : Nat, ends : Int]
           /\ \A i \in Places : rows[i].ts \in Nat /\ rows[i].ts <= now
           /\ \A i \in Places, j \in Places : i < j <=> rows[i].ts < rows[j].ts
           /\ \A i \in Places, j \in Places : rows[i].ts = rows[j].ts => i = j
<1> USE DEF ChartTyped
<1>1. /\ Len(rows) \in Nat /\ DOMAIN rows = Places /\ Places \in SUBSET Nat
      /\ Places \in SUBSET (0..Len(rows))
    BY DEF Places
<1>2. \A i \in Places : rows[i] \in [ts : Nat, pct : Nat, ends : Int]
    <2> DEFINE X == [ts : Nat, pct : Nat, ends : Int]
    <2>1. rows \in Seq(X)
        OBVIOUS
    <2> HIDE DEF X
    <2>2. \A i \in 1..Len(rows) : rows[i] \in X
        BY ONLY <2>1
    <2> QED BY <2>2 DEF Places, X
<1>3. \A i \in Places : rows[i].ts \in Nat /\ rows[i].ts <= now
    BY <1>2
<1>4. \A i \in Places, j \in Places : i < j \/ i = j \/ j < i
    BY <1>1
<1>a. \A i \in Places, j \in Places : i < j => rows[i].ts < rows[j].ts
    OBVIOUS
<1> HIDE DEF ChartTyped
<1>5. ASSUME NEW i \in Places, NEW j \in Places PROVE i < j <=> rows[i].ts < rows[j].ts
    <2>1. i \in Nat /\ j \in Nat /\ rows[i].ts \in Nat /\ rows[j].ts \in Nat
        BY <1>1, <1>3
    <2>2. i < j \/ i = j \/ j < i
        BY <2>1
    <2>3. (i < j => rows[i].ts < rows[j].ts) /\ (j < i => rows[j].ts < rows[i].ts)
        BY <1>a
    <2> QED BY <2>1, <2>2, <2>3
<1>6. ASSUME NEW i \in Places, NEW j \in Places, rows[i].ts = rows[j].ts PROVE i = j
    <2>1. rows[i].ts \in Nat /\ ~(rows[i].ts < rows[i].ts)
        BY <1>3
    <2> QED BY <1>4, <1>6, <1>a, <2>1
<1> QED BY <1>1, <1>2, <1>3, <1>5, <1>6

(* Some places have a last one. *)
LEMMA LargestOfSome ==
    ASSUME NEW n \in Nat, NEW U \in SUBSET (0..n), U # {}
    PROVE  \E x \in U : \A y \in U : y <= x
<1>1. IsFiniteSet(0..n)
    BY FS_Interval
<1>2. IsFiniteSet(U)
    BY <1>1, FS_Subset
<1>3. U \in SUBSET Int
    OBVIOUS
<1> QED BY <1>2, <1>3, LargestThereIs

(* A sample has at most one before it, and none only if it is the first.   *)
LEMMA BeforeIs ==
    ASSUME ChartTyped, NEW s \in SUBSET Places, NEW i \in s
    PROVE  /\ \A j \in C!Before(s, i) : /\ j \in s /\ j < i /\ C!Before(s, i) = {j}
                                        /\ \A k \in s : k < i => k <= j
           /\ C!Before(s, i) = {} => \A k \in s : i <= k
<1>1. Len(rows) \in Nat /\ Places \in SUBSET Nat /\ Places \in SUBSET (0..Len(rows))
    BY PlacesAre
<1>2. ASSUME NEW j \in C!Before(s, i)
      PROVE  j \in s /\ j < i /\ C!Before(s, i) = {j} /\ \A k \in s : k < i => k <= j
    <2>1. j \in s /\ j < i /\ \A k \in s : k < i => k <= j
        BY DEF C!Before
    <2>2. ASSUME NEW k \in C!Before(s, i) PROVE k = j
        <3>1. k \in s /\ k < i /\ j <= k
            BY <2>1 DEF C!Before
        <3>2. k <= j /\ k \in Nat /\ j \in Nat
            BY <1>1, <2>1, <3>1
        <3> QED BY <3>1, <3>2
    <2> QED BY <2>1, <2>2
<1>3. ASSUME C!Before(s, i) = {} PROVE \A k \in s : i <= k
    <2> DEFINE U == {k \in s : k < i}
    <2>1. ASSUME U # {} PROVE FALSE
        <3>1. U \in SUBSET (0..Len(rows))
            BY <1>1
        <3> HIDE DEF U
        <3>2. PICK j \in U : \A k \in U : k <= j
            BY <1>1, <2>1, <3>1, LargestOfSome
        <3>3. j \in C!Before(s, i)
            BY <3>2 DEF U, C!Before
        <3> QED BY <1>3, <3>3
    <2>2. \A k \in s : ~(k < i)
        BY <2>1
    <2>3. \A k \in s : k \in Nat /\ i \in Nat
        BY <1>1
    <2> QED BY <2>2, <2>3
<1> QED BY <1>2, <1>3

(* Places next to each other. *)
LEMMA BeforeNext ==
    ASSUME ChartTyped, NEW s \in SUBSET Places, NEW i \in s, i - 1 \in s
    PROVE  C!Before(s, i) = {i - 1}
<1>1. Places \in SUBSET Nat
    BY PlacesAre
<1>2. \A k \in s : k \in Nat /\ (k < i => k <= i - 1)
    BY <1>1
<1>3. i - 1 \in C!Before(s, i)
    BY <1>2 DEF C!Before
<1> QED BY <1>3, BeforeIs

(* A cut leaves nothing out if its first place is a head. *)
LEMMA CutCovers ==
    ASSUME ChartTyped, NEW s \in SUBSET Places, NEW heads \in SUBSET s,
           NEW i \in s, \E h \in heads : h <= i
    PROVE  \E p \in C!CutAt(s, heads) : i \in p
<1>1. Len(rows) \in Nat /\ Places \in SUBSET Nat /\ Places \in SUBSET (0..Len(rows))
    BY PlacesAre
<1> DEFINE U == {h \in heads : h <= i}
<1>2. U \in SUBSET (0..Len(rows)) /\ U # {}
    BY <1>1
<1> HIDE DEF U
<1>3. PICK h \in U : \A g \in U : g <= h
    BY <1>1, <1>2, LargestOfSome
<1> USE DEF U
<1>4. h \in heads /\ h <= i /\ ~\E g \in heads : h < g /\ g <= i
    <2>1. ASSUME NEW g \in heads, h < g, g <= i PROVE FALSE
        <3>1. g <= h /\ g \in Nat /\ h \in Nat
            BY <1>1, <1>3, <2>1
        <3> QED BY <2>1, <3>1
    <2> QED BY <1>3, <2>1
<1> DEFINE p == {j \in s : h <= j /\ ~\E g \in heads : h < g /\ g <= j}
<1>5. p \in C!CutAt(s, heads)
    BY <1>4 DEF C!CutAt
<1>6. i \in p
    BY <1>4
<1> QED BY <1>5, <1>6

(* A part of a cut is a stretch of s without a head but its first.         *)
LEMMA CutParts ==
    ASSUME ChartTyped, NEW s \in SUBSET Places, NEW heads \in SUBSET s,
           NEW p \in C!CutAt(s, heads)
    PROVE  /\ p \in SUBSET s
           /\ \A i \in p, j \in p, k \in s : i <= k /\ k <= j => k \in p
           /\ \A i \in p, j \in p : i < j => j \notin heads
           /\ \A j \in p : j \in heads \/ \A k \in s : k <= j /\ (\A l \in s : l < j => l <= k) => k \in p
<1>1. Places \in SUBSET Nat
    BY PlacesAre
<1>2. PICK h \in heads : p = {j \in s : h <= j /\ ~\E g \in heads : h < g /\ g <= j}
    BY DEF C!CutAt
<1>3. \A k \in s : k \in Nat /\ h \in Nat /\ (k \in heads => k \in Nat)
    BY <1>1
<1>4. p \in SUBSET s /\ \A j \in p : h <= j /\ ~\E g \in heads : h < g /\ g <= j
    BY <1>2
<1>5. ASSUME NEW i \in p, NEW j \in p, NEW k \in s, i <= k, k <= j PROVE k \in p
    <2>1. h <= k
        BY <1>3, <1>4, <1>5
    <2>2. ASSUME NEW g \in heads, h < g, g <= k PROVE FALSE
        <3>1. g <= j
            BY <1>3, <1>4, <1>5, <2>2
        <3> QED BY <1>4, <2>2, <3>1
    <2> QED BY <1>2, <2>1, <2>2
<1>6. ASSUME NEW i \in p, NEW j \in p, i < j PROVE j \notin heads
    <2>1. h < j /\ j <= j
        BY <1>3, <1>4, <1>6
    <2> QED BY <1>4, <2>1
<1>7. ASSUME NEW j \in p, j \notin heads, NEW k \in s, k <= j, \A l \in s : l < j => l <= k
      PROVE  k \in p
    <2>1. h < j /\ h \in s
        BY <1>3, <1>4, <1>7
    <2>2. h <= k
        BY <1>7, <2>1
    <2>3. h \in p
        <3>1. ~\E g \in heads : h < g /\ g <= h
            BY <1>3
        <3> QED BY <1>2, <1>3, <2>1, <3>1
    <2> QED BY <1>5, <1>7, <2>2, <2>3
<1> QED BY <1>4, <1>5, <1>6, <1>7

(* The samples of a range are a stretch of the readings. *)
LEMMA RangeStretch ==
    ASSUME ChartTyped, NEW start \in Nat, NEW end \in Nat, NEW mine, mine = C!InRange(start, end)
    PROVE  /\ mine \in SUBSET Places
           /\ \A i \in mine, j \in mine, k \in Places : i <= k /\ k <= j => k \in mine
           /\ \A i \in mine : start <= rows[i].ts
<1>1. mine = {i \in Places : start <= rows[i].ts /\ rows[i].ts <= C!Min({end, now})}
    BY PlacesAre DEF C!InRange
<1> DEFINE limit == C!Min({end, now})
<1>2. limit \in Nat
    <2>1. \E x \in {end, now} : \A y \in {end, now} : x <= y
        BY DEF ChartTyped
    <2> QED BY <2>1 DEF C!Min, ChartTyped
<1> HIDE DEF limit
<1>3. ASSUME NEW i \in mine, NEW j \in mine, NEW k \in Places, i <= k, k <= j PROVE k \in mine
    <2>1. i \in Places /\ j \in Places /\ start <= rows[i].ts /\ rows[j].ts <= limit
        BY <1>1 DEF limit
    <2>2. i = k \/ i < k
        BY <1>3, <2>1, PlacesAre
    <2>3. k = j \/ k < j
        BY <1>3, <2>1, PlacesAre
    <2>4. rows[i].ts <= rows[k].ts /\ rows[k].ts <= rows[j].ts
        BY <2>1, <2>2, <2>3, PlacesAre
    <2>5. start <= rows[k].ts /\ rows[k].ts <= limit
        <3>1. rows[i].ts \in Nat /\ rows[k].ts \in Nat /\ rows[j].ts \in Nat
            BY <1>3, <2>1, PlacesAre
        <3> QED BY <1>2, <2>1, <2>4, <3>1
    <2> QED BY <1>1, <2>5 DEF limit
<1> QED BY <1>1, <1>3

(* Within a segment, neighbours are not of two windows. *)
LEMMA SegmentSteps ==
    ASSUME ChartTyped, NEW mine \in SUBSET Places,
           \A i \in mine, j \in mine, k \in Places : i <= k /\ k <= j => k \in mine,
           NEW seg \in C!CutAtResets(mine), NEW i \in seg, NEW j \in seg, i < j
    PROVE  /\ j - 1 \in seg /\ i <= j - 1 /\ j - 1 < j
           /\ ~C!IsReset(rows[j - 1], rows[j])
<1>1. C!Heads(mine) \in SUBSET mine
    BY DEF C!Heads
<1>2. seg \in C!CutAt(mine, C!Heads(mine))
    BY DEF C!CutAtResets
<1>3. /\ seg \in SUBSET mine
      /\ \A g \in seg, h \in seg, k \in mine : g <= k /\ k <= h => k \in seg
      /\ \A g \in seg, h \in seg : g < h => h \notin C!Heads(mine)
    BY <1>1, <1>2, CutParts
<1>4. i \in Places /\ j \in Places /\ i \in Nat /\ j \in Nat
    BY <1>3, PlacesAre
<1>5. j - 1 \in Places /\ i <= j - 1 /\ j - 1 <= j /\ j - 1 < j
    BY <1>4 DEF Places
<1>6. j - 1 \in mine
    BY <1>3, <1>5
<1>7. j - 1 \in seg
    BY <1>3, <1>5, <1>6
<1>8. C!Before(mine, j) = {j - 1}
    BY <1>3, <1>6, BeforeNext
<1>9. ~C!IsReset(rows[j - 1], rows[j])
    BY <1>3, <1>8 DEF C!Heads
<1> QED BY <1>5, <1>7, <1>9

(* Two dated samples of a segment with none undated between are of one     *)
(* window: at the first of another there would be a reset before it.       *)
LEMMA SegmentOfOneWindow ==
    ASSUME ChartTyped, NEW mine \in SUBSET Places,
           \A i \in mine, j \in mine, k \in Places : i <= k /\ k <= j => k \in mine,
           NEW seg \in C!CutAtResets(mine), NEW i \in seg, NEW j \in seg, i <= j
    PROVE  C!OfOneWindow(mine, i, j)
<1>1. seg \in SUBSET mine
    BY CutParts DEF C!CutAtResets, C!Heads
<1> DEFINE Other == {k \in seg : i <= k /\ ~C!OfOneWindow(mine, i, k)}
<1>2. ASSUME Other # {} PROVE FALSE
    <2>1. Other \in SUBSET Nat
        BY <1>1, PlacesAre
    <2> HIDE DEF Other
    <2>2. PICK k \in Other : \A l \in Other : k <= l
        BY <1>2, <2>1, LeastThereIs
    <2>3. k \in seg /\ i <= k /\ ~C!OfOneWindow(mine, i, k)
        BY <2>2 DEF Other
    <2>4. i \in Nat /\ k \in Nat
        BY <1>1, <2>3, PlacesAre
    <2>5. i < k
        BY <2>3, <2>4 DEF C!OfOneWindow
    <2>6. k - 1 \in seg /\ i <= k - 1 /\ k - 1 < k /\ ~C!IsReset(rows[k - 1], rows[k])
        BY <2>3, <2>5, SegmentSteps
    <2>7. k - 1 \notin Other
        <3>1. ~(k <= k - 1)
            BY <2>4
        <3> QED BY <2>2, <3>1
    <2>8. C!OfOneWindow(mine, i, k - 1)
        BY <2>6, <2>7 DEF Other
    <2>9. \A l \in mine : i <= l /\ l <= k => rows[l].ends # C!None
        BY <2>3 DEF C!OfOneWindow
    <2>10. k - 1 \in mine /\ k \in mine /\ k - 1 <= k /\ k <= k /\ i <= k
        BY <1>1, <2>3, <2>4, <2>6
    <2>11. rows[k - 1].ends # C!None /\ rows[k].ends # C!None
        BY <2>6, <2>9, <2>10
    <2>12. rows[k - 1].ends = rows[k].ends
        BY <2>6, <2>11 DEF C!IsReset
    <2>13. rows[i].ends = rows[k - 1].ends
        <3>1. ASSUME NEW l \in mine, i <= l, l <= k - 1 PROVE rows[l].ends # C!None
            <4>1. l \in Nat
                BY <1>1, PlacesAre
            <4>2. l <= k
                BY <2>4, <3>1, <4>1
            <4> QED BY <2>9, <3>1, <4>2
        <3> QED BY <2>8, <3>1 DEF C!OfOneWindow
    <2> QED BY <2>3, <2>12, <2>13 DEF C!OfOneWindow
<1> QED BY <1>2

(* A quotient is the largest whole number of times. *)
LEMMA DividedIs ==
    ASSUME NEW a \in Int, NEW n \in Nat \ {0}
    PROVE  a \div n \in Int /\ n * (a \div n) <= a /\ a < n * (a \div n) + n
<1>1. a \div n \in Int
    OBVIOUS
<1>2. a = n * (a \div n) + (a % n)
    OBVIOUS
<1>3. a % n \in 0..(n - 1)
    OBVIOUS
<1>4. n * (a \div n) \in Int
    BY <1>1
<1> QED BY <1>1, <1>2, <1>3, <1>4

(* Buckets are in the order of time. *)
LEMMA QuotientsGrow ==
    ASSUME NEW a \in Nat, NEW b \in Nat, NEW n \in Nat \ {0}, a <= b
    PROVE  a \div n <= b \div n
<1> DEFINE q == a \div n
           r == b \div n
<1>1. q \in Int /\ r \in Int /\ n * q <= a /\ b < n * r + n
    BY DividedIs
<1> HIDE DEF q, r
<1>2. ASSUME r < q PROVE FALSE
    <2>1. n * (r + 1) <= n * q
        BY <1>1, <1>2
    <2>2. n * (r + 1) = n * r + n /\ n * r \in Int /\ n * q \in Int
        BY <1>1
    <2> QED BY <1>1, <2>1, <2>2
<1>3. q <= r
    BY <1>1, <1>2
<1> QED BY <1>3 DEF q, r

(* Every reading of the range is in a segment, and the first of each is a   *)
(* head.                                                                   *)
LEMMA SegmentsCover ==
    ASSUME ChartTyped, NEW mine \in SUBSET Places, NEW i \in mine
    PROVE  \E seg \in C!CutAtResets(mine) : i \in seg
<1>1. mine \in SUBSET Nat
    BY PlacesAre
<1>2. PICK h \in mine : \A k \in mine : h <= k
    BY <1>1, LeastThereIs
<1>3. C!Before(mine, h) = {}
    <2> SUFFICES ASSUME NEW k \in mine, k < h PROVE FALSE
        BY DEF C!Before
    <2>1. h <= k /\ k \in Nat /\ h \in Nat
        BY <1>1, <1>2
    <2> QED BY <2>1
<1>4. h \in C!Heads(mine) /\ C!Heads(mine) \in SUBSET mine /\ h <= i
    BY <1>2, <1>3 DEF C!Heads
<1> QED BY <1>4, CutCovers DEF C!CutAtResets

(* Every sample of a segment is on a line. *)
LEMMA PathsCover ==
    ASSUME ChartTyped, NEW part \in SUBSET Places, NEW i \in part, NEW start
    PROVE  \E p \in C!Paths(part, start) : i \in p
<1> DEFINE heads == {k \in part : C!Before(part, k) = {}} \cup C!Falls(part, start)
<1>1. part \in SUBSET Nat
    BY PlacesAre
<1>2. PICK h \in part : \A k \in part : h <= k
    BY <1>1, LeastThereIs
<1>3. C!Before(part, h) = {}
    <2> SUFFICES ASSUME NEW k \in part, k < h PROVE FALSE
        BY DEF C!Before
    <2>1. h <= k /\ k \in Nat /\ h \in Nat
        BY <1>1, <1>2
    <2> QED BY <2>1
<1>4. h \in heads /\ heads \in SUBSET part /\ h <= i
    BY <1>2, <1>3 DEF C!Falls
<1>5. C!Paths(part, start) = C!CutAt(part, heads)
    BY DEF C!Paths
<1> HIDE DEF heads
<1> QED BY <1>4, <1>5, CutCovers

(* A line goes on between samples of one window, with no boost between.    *)
LEMMA LinesJoin ==
    ASSUME ChartTyped, NEW mine \in SUBSET Places,
           \A i \in mine, j \in mine, k \in Places : i <= k /\ k <= j => k \in mine,
           NEW seg \in C!CutAtResets(mine), NEW bucket, NEW start,
           NEW p \in C!Paths(C!Bucketed(seg, bucket), start), NEW j \in p, NEW i \in C!Before(p, j)
    PROVE  C!OfOneWindow(mine, i, j) /\ ~\E t \in boosts : rows[i].ts < t /\ t <= rows[j].ts
<1> DEFINE part == C!Bucketed(seg, bucket)
           heads == {k \in part : C!Before(part, k) = {}} \cup C!Falls(part, start)
<1>1. seg \in SUBSET mine /\ part \in SUBSET seg /\ heads \in SUBSET part
    <2>1. seg \in SUBSET mine
        BY CutParts DEF C!CutAtResets, C!Heads
    <2> QED BY <2>1 DEF C!Bucketed, C!Falls
<1>2. p \in C!CutAt(part, heads)
    BY DEF C!Paths
<1> HIDE DEF part, heads
<1>3. part \in SUBSET Places
    BY <1>1
<1>4. /\ p \in SUBSET part
      /\ \A g \in p, h \in p, k \in part : g <= k /\ k <= h => k \in p
      /\ \A g \in p, h \in p : g < h => h \notin heads
      /\ \A h \in p : h \in heads \/ \A k \in part : k <= h /\ (\A l \in part : l < h => l <= k) => k \in p
    BY <1>1, <1>2, <1>3, CutParts
<1>5. i \in p /\ i < j /\ \A k \in p : k < j => k <= i
    BY DEF C!Before
<1>6. j \notin heads
    BY <1>4, <1>5
<1>7. C!Before(part, j) # {}
    BY <1>4, <1>6 DEF heads
<1>8. PICK k \in C!Before(part, j) : TRUE
    BY <1>7
<1>9. k \in part /\ k < j /\ C!Before(part, j) = {k} /\ \A l \in part : l < j => l <= k
    BY <1>3, <1>4, BeforeIs
<1>10. i \in Nat /\ j \in Nat /\ k \in Nat
    BY <1>3, <1>4, <1>5, <1>9, PlacesAre
<1>11. k \in p
    BY <1>4, <1>6, <1>9, <1>10
<1>12. i = k
    <2>1. i <= k
        BY <1>4, <1>5, <1>9
    <2>2. k <= i
        BY <1>5, <1>9, <1>11
    <2> QED BY <1>10, <2>1, <2>2
<1>13. C!Straddled(part, j, start) = {}
    BY <1>4, <1>6 DEF heads, C!Falls
<1>14. i \in C!Previous(part, j, start)
    BY <1>9, <1>12 DEF C!Previous
<1>15. ~\E t \in boosts : rows[i].ts < t /\ t <= rows[j].ts
    BY <1>13, <1>14 DEF C!Straddled
<1>16. C!OfOneWindow(mine, i, j)
    <2>1. i \in seg /\ j \in seg /\ i <= j
        BY <1>1, <1>4, <1>5, <1>10
    <2> QED BY <2>1, SegmentOfOneWindow
<1> QED BY <1>15, <1>16

(* The last reading of a bucket is drawn, and so is the one before a reset. *)
LEMMA LastIsDrawn ==
    ASSUME ChartTyped, NEW mine \in SUBSET Places,
           \A i \in mine, j \in mine, k \in Places : i <= k /\ k <= j => k \in mine,
           NEW bucket \in Nat \ {0}, NEW start, NEW i \in mine,
           \A j \in mine : j > i /\ rows[j].ts \div bucket = rows[i].ts \div bucket
                               => C!IsReset(rows[i], rows[j])
    PROVE  \E seg \in C!CutAtResets(mine) :
               \E p \in C!Paths(C!Bucketed(seg, bucket), start) : i \in p
<1>1. PICK seg \in C!CutAtResets(mine) : i \in seg
    BY SegmentsCover
<1>2. seg \in SUBSET mine
    BY CutParts DEF C!CutAtResets, C!Heads
<1>3. ASSUME NEW j \in seg, rows[j].ts \div bucket = rows[i].ts \div bucket PROVE j <= i
    <2>1. i \in Nat /\ j \in Nat /\ i \in Places /\ j \in Places
        BY <1>2, PlacesAre
    <2> SUFFICES ASSUME i < j PROVE FALSE
        BY <2>1
    <2> DEFINE U == {k \in seg : i < k}
    <2>2. U \in SUBSET Nat /\ U # {}
        BY <1>2, PlacesAre
    <2> HIDE DEF U
    <2>3. PICK k \in U : \A l \in U : k <= l
        BY <2>2, LeastThereIs
    <2>4. k \in seg /\ i < k /\ k <= j
        BY <2>3 DEF U
    <2>5. k - 1 \in seg /\ i <= k - 1 /\ k - 1 < k /\ ~C!IsReset(rows[k - 1], rows[k])
        BY <1>1, <2>4, SegmentSteps
    <2>6. k - 1 = i
        <3>1. k - 1 \notin U
            BY <2>2, <2>3, <2>5
        <3>2. ~(i < k - 1)
            BY <2>5, <3>1 DEF U
        <3>3. k \in Nat
            BY <2>2, <2>3
        <3> QED BY <2>1, <2>5, <3>2, <3>3
    <2>7. k \in Places /\ k \in Nat /\ k \in mine
        BY <1>2, <2>4, PlacesAre
    <2>8. rows[i].ts <= rows[k].ts /\ rows[k].ts <= rows[j].ts
        <3>1. k = j \/ k < j
            BY <2>1, <2>4, <2>7
        <3>2. rows[i].ts < rows[k].ts /\ (k = j \/ rows[k].ts < rows[j].ts)
            BY <2>1, <2>4, <2>7, <3>1, PlacesAre
        <3> QED BY <2>1, <2>7, <3>2, PlacesAre
    <2>9. rows[i].ts \in Nat /\ rows[k].ts \in Nat /\ rows[j].ts \in Nat
        BY <2>1, <2>7, PlacesAre
    <2>10. rows[i].ts \div bucket <= rows[k].ts \div bucket /\ rows[k].ts \div bucket <= rows[j].ts \div bucket
        BY <2>8, <2>9, QuotientsGrow
    <2>11. rows[i].ts \div bucket \in Int /\ rows[k].ts \div bucket \in Int
        BY <2>9, DividedIs
    <2>12. rows[k].ts \div bucket = rows[i].ts \div bucket
        BY <1>3, <2>10, <2>11
    <2>13. C!IsReset(rows[i], rows[k])
        BY <2>4, <2>7, <2>12
    <2> QED BY <2>5, <2>6, <2>13
<1>4. i \in C!Bucketed(seg, bucket) /\ C!Bucketed(seg, bucket) \in SUBSET Places
    BY <1>1, <1>2, <1>3 DEF C!Bucketed
<1>5. \E p \in C!Paths(C!Bucketed(seg, bucket), start) : i \in p
    BY <1>4, PathsCover
<1> QED BY <1>5

(* A boost in the range is drawn as the step of its own reading.            *)
LEMMA BoostIsDrawn ==
    ASSUME ChartInv, NEW start \in Nat, NEW end \in Nat, NEW mine, mine = C!InRange(start, end),
           NEW i \in mine, rows[i].ts \in boosts
    PROVE  \E seg \in C!CutAtResets(mine) :
               \E d \in C!Drops(C!Bucketed(seg, 1), start) : d.to = i /\ d.moment = rows[i].ts
<1> USE DEF ChartInv
<1>1. /\ mine \in SUBSET Places
      /\ \A g \in mine, h \in mine, k \in Places : g <= k /\ k <= h => k \in mine
      /\ \A k \in mine : start <= rows[k].ts
    BY RangeStretch
<1>2. PICK seg \in C!CutAtResets(mine) : i \in seg
    BY <1>1, SegmentsCover
<1>3. seg \in SUBSET mine
    BY <1>1, CutParts DEF C!CutAtResets, C!Heads
<1>4. i \in Places /\ i \in Nat /\ Places \in SUBSET Nat /\ i > 1
      /\ i - 1 \in Places /\ C!IsBoost(rows[i - 1], rows[i])
    <2>1. PICK k \in Places : k > 1 /\ C!IsBoost(rows[k - 1], rows[k]) /\ rows[i].ts = rows[k].ts
        BY DEF BoostsAreFalls
    <2>2. i \in Places /\ i \in Nat /\ Places \in SUBSET Nat /\ k = i
        BY <1>1, <2>1, PlacesAre
    <2>3. i - 1 \in Places
        BY <2>1, <2>2 DEF Places
    <2> QED BY <2>1, <2>2, <2>3
<1>5. i - 1 < i /\ i - 1 <= i /\ i <= i /\ \A k \in Places : k < i => k <= i - 1
    BY <1>4
<1> DEFINE part == C!Bucketed(seg, 1)
<1>6. part = seg
    <2>1. ASSUME NEW g \in seg, NEW h \in seg, rows[g].ts \div 1 = rows[h].ts \div 1 PROVE g <= h
        <3>1. rows[g].ts \in Nat /\ rows[h].ts \in Nat /\ g \in Places /\ h \in Places
            BY <1>1, <1>3, PlacesAre
        <3>2. rows[g].ts = rows[h].ts
            BY <2>1, <3>1
        <3>3. g = h /\ g \in Nat
            BY <1>4, <3>1, <3>2, PlacesAre
        <3> QED BY <3>3
    <2> QED BY <2>1 DEF C!Bucketed
<1>7. ~C!IsReset(rows[i - 1], rows[i])
    BY <1>4 DEF C!IsReset, C!IsBoost
<1>8. C!Previous(seg, i, start) = {i - 1}
    <2>1. CASE i - 1 \in mine
        <3>1. C!Before(mine, i) = {i - 1}
            BY <1>1, <2>1, BeforeNext
        <3>2. i \notin C!Heads(mine)
            BY <1>7, <3>1 DEF C!Heads
        <3>3. C!Heads(mine) \in SUBSET mine /\ seg \in C!CutAt(mine, C!Heads(mine))
            BY DEF C!Heads, C!CutAtResets
        <3>4. \A l \in mine : l < i => l <= i - 1
            BY <1>1, <1>5
        <3>5. i - 1 \in seg
            <4>1. \A j \in seg : j \in C!Heads(mine) \/ \A k \in mine : k <= j /\ (\A l \in mine : l < j => l <= k) => k \in seg
                BY <1>1, <3>3, CutParts
            <4> QED BY <1>2, <1>5, <2>1, <3>2, <3>4, <4>1
        <3>6. C!Before(seg, i) = {i - 1}
            BY <1>1, <1>2, <1>3, <3>5, BeforeNext
        <3> QED BY <3>6 DEF C!Previous
    <2>2. CASE i - 1 \notin mine
        <3>1. \A k \in mine : ~(k < i)
            <4> SUFFICES ASSUME NEW k \in mine, k < i PROVE FALSE
                OBVIOUS
            <4>1. k <= i - 1
                BY <1>1, <1>5
            <4> QED BY <1>1, <1>4, <1>5, <2>2, <4>1
        <3>2. C!Before(seg, i) = {}
            BY <1>3, <3>1 DEF C!Before
        <3>3. rows[i - 1].ts < start
            <4>1. ASSUME start <= rows[i - 1].ts PROVE FALSE
                <5>1. rows[i - 1].ts < rows[i].ts
                    BY <1>4, <1>5, PlacesAre
                <5>2. rows[i].ts <= C!Min({end, now}) /\ mine = {k \in Places : start <= rows[k].ts /\ rows[k].ts <= C!Min({end, now})}
                    BY PlacesAre DEF C!InRange
                <5>3. C!Min({end, now}) \in Nat
                    <6>1. \E x \in {end, now} : \A y \in {end, now} : x <= y
                        BY DEF ChartTyped
                    <6> QED BY <6>1 DEF C!Min, ChartTyped
                <5>4. rows[i - 1].ts <= C!Min({end, now})
                    <6> DEFINE limit == C!Min({end, now})
                    <6>1. limit \in Nat /\ rows[i].ts <= limit
                        BY <5>2, <5>3
                    <6> HIDE DEF limit
                    <6>2. rows[i - 1].ts \in Nat /\ rows[i].ts \in Nat
                        BY <1>4, PlacesAre
                    <6>3. rows[i - 1].ts <= limit
                        BY <5>1, <6>1, <6>2
                    <6> QED BY <6>3 DEF limit
                <5>5. i - 1 \in mine
                    BY <1>4, <4>1, <5>2, <5>4
                <5> QED BY <2>2, <5>5
            <4>2. rows[i - 1].ts \in Nat
                BY <1>4, PlacesAre
            <4> QED BY <4>1, <4>2
        <3>4. \A k \in Places : rows[k].ts < start => k <= i - 1
            <4> SUFFICES ASSUME NEW k \in Places, rows[k].ts < start PROVE k <= i - 1
                OBVIOUS
            <4>1. start <= rows[i].ts /\ rows[k].ts \in Nat /\ rows[i].ts \in Nat
                BY <1>1, <1>4, PlacesAre
            <4>2. rows[k].ts < rows[i].ts
                BY <4>1
            <4>3. k < i
                BY <1>4, <4>2, PlacesAre
            <4> QED BY <1>5, <4>3
        <3>5. C!PriorRow(start) = {i - 1}
            <4>1. DOMAIN rows = Places
                BY PlacesAre
            <4>2. i - 1 \in C!PriorRow(start)
                BY <1>4, <3>3, <3>4, <4>1 DEF C!PriorRow
            <4>3. ASSUME NEW k \in C!PriorRow(start) PROVE k = i - 1
                <5>1. k \in Places /\ k <= i - 1 /\ i - 1 <= k
                    BY <1>4, <3>3, <3>4, <4>1 DEF C!PriorRow
                <5> QED BY <1>4, <5>1
            <4> QED BY <4>2, <4>3
        <3> QED BY <3>2, <3>5 DEF C!Previous
    <2> QED BY <2>1, <2>2
<1>9. C!Straddled(seg, i, start) = {rows[i].ts}
    <2>1. rows[i - 1].ts < rows[i].ts /\ rows[i].ts <= rows[i].ts
        BY <1>4, <1>5, PlacesAre
    <2>2. ASSUME NEW t \in boosts, rows[i - 1].ts < t, t <= rows[i].ts PROVE t = rows[i].ts
        <3>1. PICK k \in Places : t = rows[k].ts
            BY DEF BoostsAreFalls
        <3>2. i - 1 < k
            BY <1>4, <2>2, <3>1, PlacesAre
        <3>3. ~(i < k)
            <4>1. ~(rows[i].ts < rows[k].ts)
                <5>1. rows[i].ts \in Nat /\ rows[k].ts \in Nat
                    BY <1>4, PlacesAre
                <5> QED BY <2>2, <3>1, <5>1
            <4> QED BY <1>4, <4>1, PlacesAre
        <3>4. k = i
            BY <1>4, <3>2, <3>3
        <3> QED BY <3>1, <3>4
    <2> QED BY <1>8, <2>1, <2>2 DEF C!Straddled
<1>10. C!Min({rows[i].ts}) = rows[i].ts
    <2>1. rows[i].ts <= rows[i].ts
        BY <1>4, PlacesAre
    <2> QED BY <2>1 DEF C!Min
<1>11. i \in C!Falls(seg, start)
    BY <1>2, <1>9 DEF C!Falls
<1> DEFINE d == [to |-> i, moment |-> C!Min(C!Straddled(seg, i, start))]
<1>12. d \in C!Drops(seg, start)
    BY <1>11 DEF C!Drops
<1>13. d.to = i /\ d.moment = rows[i].ts
    BY <1>9, <1>10
<1> HIDE DEF d
<1>14. \E e \in C!Drops(C!Bucketed(seg, 1), start) : e.to = i /\ e.moment = rows[i].ts
    BY <1>6, <1>12, <1>13
<1> QED BY <1>14

(* LinesAreReadings of one range and one width. *)
LinesTrue(span, bucket) ==
    LET mine == C!InRange(span[1], span[2])
        segments == C!Segments(span[1], span[2], bucket)
        paths == UNION {C!Paths(segment, span[1]) : segment \in segments}
        drops == UNION {C!Drops(segment, span[1]) : segment \in segments}
    IN  /\ \A p \in paths : \A j \in p : \A i \in C!Before(p, j) :
              /\ C!OfOneWindow(mine, i, j)
              /\ ~\E t \in boosts : rows[i].ts < t /\ t <= rows[j].ts
        /\ \A i \in mine :
              (\A j \in mine : j > i /\ rows[j].ts \div bucket = rows[i].ts \div bucket
                                   => C!IsReset(rows[i], rows[j]))
                  => \E p \in paths : i \in p
        /\ bucket = 1 => \A i \in mine : rows[i].ts \in boosts
                            => \E d \in drops : d.to = i /\ d.moment = rows[i].ts

(* The three parts of ChartIsTrue. *)
LEMMA LinesSafe ==
    ASSUME C!ChartAssumption, ChartInv
    PROVE  C!LinesAreReadings
<1> SUFFICES ASSUME NEW span \in C!Spans, NEW bucket \in Buckets PROVE LinesTrue(span, bucket)
    BY DEF C!LinesAreReadings, LinesTrue
<1> DEFINE mine == C!InRange(span[1], span[2])
           segments == C!Segments(span[1], span[2], bucket)
           paths == UNION {C!Paths(segment, span[1]) : segment \in segments}
           drops == UNION {C!Drops(segment, span[1]) : segment \in segments}
<1>0. /\ segments = {C!Bucketed(segment, bucket) : segment \in C!CutAtResets(mine)}
      /\ mine = C!InRange(span[1], span[2])
    BY DEF C!Segments
<1> HIDE DEF segments, mine
<1>1. span[1] \in Nat /\ span[2] \in Nat /\ bucket \in Nat \ {0}
    BY DEF C!Spans, C!ChartAssumption, ChartInv, ChartTyped
<1>2. ChartTyped
    BY DEF ChartInv
<1>3. /\ mine \in SUBSET Places
      /\ \A g \in mine, h \in mine, k \in Places : g <= k /\ k <= h => k \in mine
    BY <1>0, <1>1, <1>2, RangeStretch
<1>5. ASSUME NEW p \in paths, NEW j \in p, NEW i \in C!Before(p, j)
      PROVE  C!OfOneWindow(mine, i, j) /\ ~\E t \in boosts : rows[i].ts < t /\ t <= rows[j].ts
    <2>1. PICK seg \in C!CutAtResets(mine) : p \in C!Paths(C!Bucketed(seg, bucket), span[1])
        BY <1>0
    <2> QED BY <1>2, <1>3, <2>1, LinesJoin
<1>6. ASSUME NEW i \in mine,
             \A j \in mine : j > i /\ rows[j].ts \div bucket = rows[i].ts \div bucket
                                 => C!IsReset(rows[i], rows[j])
      PROVE  \E p \in paths : i \in p
    <2>1. PICK seg \in C!CutAtResets(mine) :
               \E p \in C!Paths(C!Bucketed(seg, bucket), span[1]) : i \in p
        BY <1>1, <1>2, <1>3, <1>6, LastIsDrawn
    <2> QED BY <1>0, <2>1
<1>7. ASSUME bucket = 1, NEW i \in mine, rows[i].ts \in boosts
      PROVE  \E d \in drops : d.to = i /\ d.moment = rows[i].ts
    <2>1. PICK seg \in C!CutAtResets(mine) :
               \E d \in C!Drops(C!Bucketed(seg, 1), span[1]) : d.to = i /\ d.moment = rows[i].ts
        BY <1>0, <1>1, <1>7, BoostIsDrawn
    <2> QED BY <1>0, <1>7, <2>1
<1> QED BY <1>5, <1>6, <1>7 DEF LinesTrue, segments, mine

(* The change a meter tells is of its newest segment. *)
LEMMA ChangeSafe ==
    ASSUME ChartInv
    PROVE  C!ChangeIsOfOneWindow
<1> SUFFICES ASSUME NEW span \in C!Spans, NEW c \in C!Change(span[1], span[2]),
                    NEW mine, mine = C!InRange(span[1], span[2])
             PROVE  C!OfOneWindow(mine, c[1], c[2])
    BY DEF C!ChangeIsOfOneWindow
<1>1. span[1] \in Nat /\ span[2] \in Nat /\ ChartTyped
    BY DEF C!Spans, ChartInv, ChartTyped
<1>2. /\ mine \in SUBSET Places
      /\ \A g \in mine, h \in mine, k \in Places : g <= k /\ k <= h => k \in mine
    BY <1>1, RangeStretch
<1>3. /\ c[1] \in C!Heads(mine) /\ c[1] \in mine /\ c[2] \in mine /\ c[1] < c[2]
      /\ \A h \in C!Heads(mine) : h <= c[1]
    BY DEF C!Change, C!Heads
<1>4. mine \in SUBSET Nat /\ C!Heads(mine) \in SUBSET Nat /\ c[1] \in Nat /\ c[2] \in Nat
    BY <1>1, <1>2, <1>3, PlacesAre DEF C!Heads
<1>5. \A h \in C!Heads(mine) : ~(c[1] < h)
    BY <1>3, <1>4
<1> DEFINE h == c[1]
           seg == {j \in mine : h <= j /\ ~\E g \in C!Heads(mine) : h < g /\ g <= j}
<1>6. seg \in C!CutAtResets(mine)
    BY <1>3 DEF C!CutAtResets, C!CutAt
<1>7. c[1] \in seg /\ c[2] \in seg /\ c[1] <= c[2]
    BY <1>3, <1>4, <1>5
<1> HIDE DEF seg, h
<1> QED BY <1>1, <1>2, <1>6, <1>7, SegmentOfOneWindow

(* A range begins before it ends, and what counts as before it is.          *)
LEMMA EdgesAre ==
    ASSUME ChartTyped, NEW span \in C!Spans, NEW end, end = C!Min({span[2], now})
    PROVE  /\ span[1] \in Nat /\ end \in Nat /\ span[1] <= end /\ end <= now
           /\ (\E k \in Places : rows[k].ts < span[1]) => C!Max({C!PriorTs(span[1]), span[1]}) = span[1]
           /\ (\E k \in Places : rows[k].ts < span[1]) <=> C!PriorTs(span[1]) # C!None
<1>1. span[1] \in Nat /\ span[2] \in Nat /\ span[1] < span[2] /\ span[1] <= now /\ now \in Nat
    BY DEF C!Spans, ChartTyped
<1>2. end \in {span[2], now} /\ end <= span[2] /\ end <= now
    <2>1. \E x \in {span[2], now} : \A y \in {span[2], now} : x <= y
        BY <1>1
    <2> QED BY <2>1 DEF C!Min
<1>3. end \in Nat /\ span[1] <= end
    BY <1>1, <1>2
<1> DEFINE prior == C!PriorRow(span[1])
           start == span[1]
<1>4. DOMAIN rows = Places
    BY PlacesAre
<1>5. ASSUME \E k \in Places : rows[k].ts < start
      PROVE  \E k \in Places : prior = {k} /\ rows[k].ts < start
    <2> DEFINE U == {k \in Places : rows[k].ts < start}
    <2>1. U \in SUBSET (0..Len(rows)) /\ U # {} /\ Len(rows) \in Nat
        BY <1>5, PlacesAre
    <2> HIDE DEF U
    <2>2. PICK k \in U : \A l \in U : l <= k
        BY <2>1, LargestOfSome
    <2>3. k \in Places /\ rows[k].ts < start /\ \A l \in Places : rows[l].ts < start => l <= k
        BY <2>2 DEF U
    <2>4. k \in prior
        BY <1>4, <2>3 DEF C!PriorRow
    <2>5. ASSUME NEW l \in prior PROVE l = k
        <3>1. l \in Places /\ l <= k /\ k <= l
            BY <1>4, <2>3 DEF C!PriorRow
        <3>2. l \in Nat /\ k \in Nat
            BY <2>3, <3>1, PlacesAre
        <3> QED BY <3>1, <3>2
    <2> QED BY <2>3, <2>4, <2>5
<1>6. ASSUME \E k \in Places : rows[k].ts < start
      PROVE  C!Max({C!PriorTs(start), start}) = start /\ C!PriorTs(start) # C!None
    <2>1. PICK k \in Places : prior = {k} /\ rows[k].ts < start
        BY <1>5, <1>6
    <2>2. rows[k].ts \in Nat
        BY <2>1, PlacesAre
    <2>3. {rows[i].ts : i \in prior} = {rows[k].ts}
        BY <2>1
    <2>4. C!Max({rows[k].ts}) = rows[k].ts
        <3>1. rows[k].ts >= rows[k].ts
            BY <2>2
        <3> QED BY <3>1 DEF C!Max
    <2>5. C!PriorTs(start) = rows[k].ts
        BY <2>1, <2>3, <2>4 DEF C!PriorTs
    <2>6. C!Max({rows[k].ts, start}) = start
        <3> DEFINE x == rows[k].ts
        <3>1. x \in Nat /\ start \in Nat /\ x < start
            BY <1>1, <2>1, <2>2
        <3> HIDE DEF x, start
        <3>2. C!Max({x, start}) = start
            BY <3>1 DEF C!Max
        <3> QED BY <3>2 DEF x
    <2> QED BY <2>2, <2>5, <2>6 DEF C!None
<1>7. ASSUME ~\E k \in Places : rows[k].ts < start PROVE C!PriorTs(start) = C!None
    <2>1. prior = {}
        BY <1>4, <1>7 DEF C!PriorRow
    <2> QED BY <2>1 DEF C!PriorTs
<1> QED BY <1>1, <1>2, <1>3, <1>6, <1>7

(* SilenceIsHatched of one range. *)
SilenceTrue(span) ==
    LET gaps == C!NotCollected(span[1], span[2])
        end == C!Min({span[2], now})
        stamps == {rows[i].ts : i \in DOMAIN rows}
    IN  /\ \A t \in span[1]..end - 1 :
              \/ \E g \in gaps : g[1] <= t /\ t < g[2]
              \/ ~\E u \in stamps : u <= t
              \/ \E u \in stamps : u <= t /\ t - u <= Threshold
              \/ \E u \in stamps \cup {end} : t < u /\ u - span[1] <= Threshold
        /\ \A g \in gaps : ~\E u \in stamps : g[1] < u /\ u < g[2]

(* Between the last mark at a moment and the next after it nothing was     *)
(* read: that is a gap, or they are close.                                 *)
LEMMA SilenceSafe ==
    ASSUME C!ChartAssumption, ChartTyped
    PROVE  C!SilenceIsHatched
<1> SUFFICES ASSUME NEW span \in C!Spans PROVE SilenceTrue(span)
    BY DEF C!SilenceIsHatched, SilenceTrue
<1> DEFINE start == span[1]
           end == C!Min({span[2], now})
           stamps == {rows[i].ts : i \in DOMAIN rows}
           prior == C!PriorTs(start)
           inside == {t \in stamps : start <= t /\ t <= end}
           seen == (IF prior = C!None THEN {} ELSE {C!Max({prior, start})}) \cup inside
           marks == IF seen = {} THEN {} ELSE seen \cup {end}
           gaps == {g \in marks \X marks : /\ g[2] - g[1] > Threshold
                                           /\ ~\E t \in marks : g[1] < t /\ t < g[2]}
<1>1. C!NotCollected(start, span[2]) = gaps
    BY DEF C!NotCollected, C!Gaps
<1>2. start \in Nat /\ end \in Nat /\ start <= end /\ end <= now /\ Threshold \in Nat /\ now \in Nat
    BY EdgesAre DEF C!ChartAssumption, ChartTyped
<1>3. stamps \in SUBSET Nat
    BY PlacesAre
<1>4. (\E t \in stamps : t < start) <=> prior # C!None
    <2>1. (\E k \in Places : rows[k].ts < start) <=> prior # C!None
        BY EdgesAre
    <2> QED BY <2>1, PlacesAre
<1>5. prior # C!None => C!Max({prior, start}) = start
    <2>1. (\E k \in Places : rows[k].ts < start) <=> prior # C!None
        BY EdgesAre
    <2>2. (\E k \in Places : rows[k].ts < start) => C!Max({prior, start}) = start
        BY EdgesAre
    <2> QED BY <2>1, <2>2
<1>6. \A m \in seen : m \in inside \/ m = start
    BY <1>5
<1>7. prior # C!None => start \in seen
    BY <1>5
<1>8. inside \in SUBSET seen
    OBVIOUS
<1>9. SilenceTrue(span) <=>
        /\ \A t \in start..end - 1 :
              \/ \E g \in gaps : g[1] <= t /\ t < g[2]
              \/ ~\E u \in stamps : u <= t
              \/ \E u \in stamps : u <= t /\ t - u <= Threshold
              \/ \E u \in stamps \cup {end} : t < u /\ u - start <= Threshold
        /\ \A g \in gaps : ~\E u \in stamps : g[1] < u /\ u < g[2]
    <2> HIDE DEF gaps
    <2> QED BY <1>1 DEF SilenceTrue
<1>10. \A m \in inside : m \in stamps /\ start <= m /\ m <= end
    OBVIOUS
<1>11. \A m \in stamps : start <= m /\ m <= end => m \in inside
    OBVIOUS
<1> HIDE DEF stamps, prior, inside, seen, end
<1>12. \A m \in marks : m \in Nat /\ start <= m /\ m <= end /\ (m \in stamps \/ m = start \/ m = end)
    <2> SUFFICES ASSUME NEW m \in marks
                 PROVE  m \in Nat /\ start <= m /\ m <= end /\ (m \in stamps \/ m = start \/ m = end)
        OBVIOUS
    <2>1. m \in inside \/ m = start \/ m = end
        <3>1. m \in seen \cup {end}
            OBVIOUS
        <3> HIDE DEF marks
        <3> QED BY <1>6, <3>1
    <2> HIDE DEF marks
    <2>2. CASE m \in inside
        <3>1. m \in stamps /\ start <= m /\ m <= end
            BY <1>10, <2>2
        <3> QED BY <1>3, <3>1
    <2> QED BY <1>2, <2>1, <2>2
<1>13. ASSUME NEW g \in gaps, NEW u \in stamps, g[1] < u, u < g[2] PROVE FALSE
    <2>1. g[1] \in marks /\ g[2] \in marks /\ ~\E t \in marks : g[1] < t /\ t < g[2]
        OBVIOUS
    <2> HIDE DEF gaps
    <2>2. u \in Nat /\ start <= g[1] /\ g[2] <= end /\ g[1] \in Nat /\ g[2] \in Nat
        BY <1>3, <1>12, <2>1
    <2>3. start <= u /\ u <= end
        BY <1>2, <1>13, <2>2
    <2>4. u \in marks
        BY <1>8, <1>11, <2>3
    <2> QED BY <1>13, <2>1, <2>4
<1>14. ASSUME NEW t \in start..end - 1, NEW u \in stamps, u <= t
       PROVE  \/ \E g \in gaps : g[1] <= t /\ t < g[2]
              \/ \E v \in stamps : v <= t /\ t - v <= Threshold
              \/ \E v \in stamps \cup {end} : t < v /\ v - start <= Threshold
    <2>1. t \in Nat /\ start <= t /\ t < end /\ u \in Nat
        BY <1>2, <1>3
    <2>2. \E m \in seen : m <= t
        <3>1. CASE u < start
            BY <1>4, <1>7, <2>1, <3>1
        <3>2. CASE ~(u < start)
            <4>1. start <= u /\ u <= end
                BY <1>2, <1>14, <2>1, <3>2
            <4> QED BY <1>8, <1>11, <1>14, <4>1
        <3> QED BY <3>1, <3>2
    <2> DEFINE early == {m \in marks : m <= t}
               late == {m \in marks : t < m}
    <2>3. early \in SUBSET (0..end) /\ early # {}
        <3>1. \A m \in marks : m \in 0..end
            BY <1>2, <1>12
        <3> QED BY <2>2, <3>1
    <2>4. late \in SUBSET Nat /\ late # {}
        <3>1. end \in marks
            BY <2>2
        <3>2. \A m \in marks : m \in Nat
            BY <1>12
        <3> HIDE DEF marks
        <3> QED BY <2>1, <3>1, <3>2
    <2> HIDE DEF early, late
    <2>5. PICK a \in early : \A m \in early : m <= a
        BY <1>2, <2>3, LargestOfSome
    <2>6. PICK b \in late : \A m \in late : b <= m
        BY <2>4, LeastThereIs
    <2>7. a \in marks /\ a <= t /\ b \in marks /\ t < b
        BY <2>5, <2>6 DEF early, late
    <2>8. ~\E m \in marks : a < m /\ m < b
        <3> SUFFICES ASSUME NEW m \in marks, a < m, m < b PROVE FALSE
            OBVIOUS
        <3>1. m \in Nat /\ a \in Nat /\ b \in Nat
            BY <1>12, <2>7
        <3>2. CASE m <= t
            <4>1. m <= a
                BY <2>5, <3>2 DEF early
            <4> QED BY <3>1, <4>1
        <3>3. CASE t < m
            <4>1. b <= m
                BY <2>6, <3>3 DEF late
            <4> QED BY <3>1, <4>1
        <3> QED BY <2>1, <3>1, <3>2, <3>3
    <2>9. a \in Nat /\ b \in Nat /\ start <= a
        BY <1>12, <2>7
    <2>10. CASE b - a > Threshold
        <3> DEFINE g == <<a, b>>
        <3>1. g \in gaps
            BY <2>7, <2>8, <2>10
        <3>2. g[1] <= t /\ t < g[2]
            BY <2>7
        <3> HIDE DEF gaps, g
        <3> QED BY <3>1, <3>2
    <2>11. CASE b - a <= Threshold
        <3>1. a # end
            BY <1>2, <2>1, <2>7
        <3>2. a \in stamps \/ a = start
            BY <1>12, <2>7, <3>1
        <3>3. CASE a \in stamps
            <4>1. a <= t /\ t - a <= Threshold
                BY <1>2, <2>1, <2>7, <2>9, <2>11
            <4> QED BY <3>3, <4>1
        <3>4. CASE a = start
            <4>1. b \in stamps \cup {end}
                <5>1. b # start
                    BY <1>2, <2>1, <2>7
                <5> QED BY <1>12, <2>7, <5>1
            <4>2. t < b /\ b - start <= Threshold
                BY <2>7, <2>11, <3>4
            <4> QED BY <4>1, <4>2
        <3> QED BY <3>2, <3>3, <3>4
    <2> QED BY <1>2, <2>9, <2>10, <2>11
<1> HIDE DEF gaps
<1> QED BY <1>9, <1>13, <1>14

(* The invariant of the history. *)
LEMMA ChartBegin == ASSUME C!ChartAssumption, C!Init PROVE ChartInv
<1>1. now = 0 /\ rows = <<>> /\ boosts = {} /\ Places = {}
    BY DEF C!Init, Places
<1> QED BY <1>1 DEF ChartInv, ChartTyped, BoostsAreFalls

(* A poll adds a reading at the end, and a boost if it is one. *)
LEMMA ChartStep ==
    ASSUME C!ChartAssumption, ChartInv, [C!Next]_C!vars
    PROVE  ChartInv'
<1>1. CASE UNCHANGED C!vars
    BY <1>1 DEF C!vars, ChartInv, ChartTyped, BoostsAreFalls, Places, C!IsBoost
<1>2. CASE C!Next
    <2>0. PICK pause \in Pauses :
               \E pct \in Levels, end \in C!Ends(now + pause) : C!Poll(pause, pct, end)
        BY <1>2 DEF C!Next
    <2>1. PICK pct \in Levels, end \in C!Ends(now + pause) : C!Poll(pause, pct, end)
        BY <2>0
    <2> DEFINE row == [ts |-> now + pause, pct |-> pct, ends |-> end]
               n == Len(rows)
    <2>2. /\ now' = row.ts /\ rows' = Append(rows, row)
          /\ boosts' = IF rows # <<>> /\ C!IsBoost(C!Last(rows), row) THEN boosts \cup {row.ts} ELSE boosts
        BY <2>1 DEF C!Poll
    <2>3. /\ now \in Nat /\ pause \in Nat \ {0} /\ pct \in Nat /\ WindowLength \in Nat \ {0}
          /\ rows \in Seq([ts : Nat, pct : Nat, ends : Int]) /\ n \in Nat
        BY DEF C!ChartAssumption, ChartInv, ChartTyped
    <2>4. end \in Int
        <3>1. end = C!None \/ end = ((now + pause) \div WindowLength + 1) * WindowLength
            BY DEF C!Ends
        <3>2. (now + pause) \div WindowLength \in Int
            BY <2>3
        <3>3. ((now + pause) \div WindowLength + 1) * WindowLength \in Int
            BY <2>3, <3>2
        <3> QED BY <3>1, <3>3 DEF C!None
    <2>5. row \in [ts : Nat, pct : Nat, ends : Int] /\ row.ts \in Nat /\ now < row.ts
        BY <2>3, <2>4
    <2>6. /\ rows' \in Seq([ts : Nat, pct : Nat, ends : Int]) /\ Len(rows') = n + 1
          /\ rows'[n + 1] = row /\ \A i \in 1..n : rows'[i] = rows[i]
        <3> DEFINE X == [ts : Nat, pct : Nat, ends : Int]
        <3>1. rows \in Seq(X) /\ row \in X /\ rows' = Append(rows, row)
            BY <2>2, <2>3, <2>5
        <3> HIDE DEF X, row
        <3>2. /\ rows' \in Seq(X) /\ Len(rows') = n + 1
              /\ rows'[n + 1] = row /\ \A i \in 1..n : rows'[i] = rows[i]
            BY ONLY <3>1
        <3> QED BY <3>2 DEF X
    <2> HIDE DEF row
    <2>7. Places = 1..n /\ Places' = 1..n + 1
        BY <2>6 DEF Places
    <2>8. \A i \in Places' : i \in Places \/ i = n + 1
        BY <2>3, <2>7
    <2>9. \A i \in Places : i < n + 1 /\ ~(n + 1 < i) /\ i # n + 1 /\ i \in Places'
        BY <2>3, <2>7
    <2>10. ChartTyped /\ BoostsAreFalls
        BY DEF ChartInv
    <2>11. \A i \in Places : rows'[i] = rows[i] /\ rows[i].ts \in Nat /\ rows[i].ts <= now
        BY <2>6, <2>7, <2>10, PlacesAre
    <2>12. ChartTyped'
        <3>1. \A i \in Places' : rows'[i].ts <= now'
            <4>1. ASSUME NEW i \in Places PROVE rows[i].ts <= row.ts
                <5>1. rows[i].ts \in Nat /\ rows[i].ts <= now
                    BY <2>11
                <5> QED BY <2>3, <2>5, <5>1
            <4> SUFFICES ASSUME NEW i \in Places' PROVE rows'[i].ts <= row.ts
                BY <2>2
            <4>2. CASE i \in Places
                <5>1. rows'[i] = rows[i] /\ rows[i].ts <= row.ts
                    BY <2>11, <4>1, <4>2
                <5> QED BY <5>1
            <4>3. CASE i = n + 1
                <5>1. rows'[i] = row
                    BY <2>6, <4>3
                <5>2. row.ts <= row.ts
                    BY <2>5
                <5> QED BY <5>1, <5>2
            <4> QED BY <2>8, <4>2, <4>3
        <3>2. ASSUME NEW i \in Places', NEW j \in Places', i < j PROVE rows'[i].ts < rows'[j].ts
            <4>1. i \in Places
                <5>1. i # n + 1
                    BY <2>3, <2>8, <2>9, <3>2
                <5> QED BY <2>8, <5>1
            <4>2. CASE j \in Places
                BY <2>10, <2>11, <3>2, <4>1, <4>2 DEF ChartTyped
            <4>3. CASE j = n + 1
                <5>1. rows[i].ts \in Nat /\ rows[i].ts <= now /\ rows'[i].ts = rows[i].ts
                    BY <2>11, <4>1
                <5>2. rows'[j].ts = row.ts
                    BY <2>6, <4>3
                <5>3. rows[i].ts < row.ts
                    BY <2>3, <2>5, <5>1
                <5> QED BY <5>1, <5>2, <5>3
            <4> QED BY <2>8, <4>2, <4>3
        <3> QED BY <2>2, <2>5, <2>6, <3>1, <3>2 DEF ChartTyped
    <2>13. BoostsAreFalls'
        <3> DEFINE falls == {k \in Places : k > 1 /\ C!IsBoost(rows[k - 1], rows[k])}
                   falls2 == {k \in Places' : k > 1 /\ C!IsBoost(rows'[k - 1], rows'[k])}
        <3>1. boosts = {rows[k].ts : k \in falls}
            BY <2>10 DEF BoostsAreFalls
        <3>2. ASSUME NEW k \in Places PROVE k \in falls <=> k \in falls2
            <4>1. k > 1 => k - 1 \in Places
                BY <2>3, <2>7
            <4>2. k > 1 => rows'[k - 1] = rows[k - 1]
                BY <2>11, <4>1
            <4>3. rows'[k] = rows[k] /\ k \in Places'
                BY <2>9, <2>11
            <4> QED BY <4>2, <4>3
        <3>3. n + 1 \in falls2 <=> rows # <<>> /\ C!IsBoost(C!Last(rows), row)
            <4>1. rows # <<>> <=> n > 0
                BY <2>3
            <4>2. n > 0 => rows'[n] = C!Last(rows)
                <5>1. C!Last(rows) = rows[n]
                    BY DEF C!Last
                <5>2. n > 0 => n \in 1..n
                    BY <2>3
                <5> QED BY <2>6, <5>1, <5>2
            <4>3. n + 1 \in Places' /\ (n + 1) - 1 = n /\ (n + 1 > 1 <=> n > 0)
                BY <2>3, <2>7
            <4> QED BY <2>6, <4>1, <4>2, <4>3
        <3> HIDE DEF falls, falls2
        <3>4. falls \in SUBSET Places /\ falls2 \in SUBSET Places'
            BY DEF falls, falls2
        <3>5. {rows'[k].ts : k \in falls2} = {rows[k].ts : k \in falls} \cup (IF n + 1 \in falls2 THEN {row.ts} ELSE {})
            <4>1. \A k \in falls : k \in falls2 /\ rows'[k].ts = rows[k].ts
                BY <2>11, <3>2, <3>4
            <4>2. \A k \in falls2 : k \in falls \/ k = n + 1
                BY <2>8, <3>2, <3>4
            <4>3. rows'[n + 1].ts = row.ts
                BY <2>6
            <4> QED BY <4>1, <4>2, <4>3
        <3>6. boosts' = {rows'[k].ts : k \in falls2}
            BY <2>2, <3>1, <3>3, <3>5
        <3> QED BY <3>6 DEF BoostsAreFalls, falls2
    <2> QED BY <2>12, <2>13 DEF ChartInv
<1> QED BY <1>1, <1>2

(* ChartIsTrue follows from the invariant. *)
LEMMA ChartSafe ==
    ASSUME C!ChartAssumption, ChartInv
    PROVE  C!LinesAreReadings /\ C!SilenceIsHatched /\ C!ChangeIsOfOneWindow
BY LinesSafe, SilenceSafe, ChangeSafe DEF ChartInv

-----------------------------------------------------------------------------
(* A behaviour is one of the component of its task.                        *)
LEMMA Starts ==
    ASSUME Init
    PROVE  /\ task = "page" => D!Init
           /\ task = "chart" => C!Init
           /\ task = "weeks" => W!Init
           /\ task = "split" => S!Init
           /\ task = "view" => V!Init
           /\ task = "identity" => I!Init
BY DEF Init

LEMMA Goes ==
    ASSUME [Next]_allVars
    PROVE  /\ task' = task
           /\ task = "page" => [D!Next]_D!vars
           /\ task = "chart" => [C!Next]_C!vars
           /\ task = "weeks" => [W!Next]_W!vars
           /\ task = "split" => [S!Next]_S!vars
           /\ task = "view" => [V!Next]_V!vars
           /\ task = "identity" => [I!Next]_I!vars
<1>1. CASE UNCHANGED allVars
    BY <1>1 DEF allVars, pageVars, chartVars, weeksVars, splitVars, viewVars, identityVars,
                D!vars, C!vars, W!vars, S!vars, V!vars, I!vars, I!vendor, I!poller
<1>2. CASE Next
    BY <1>2 DEF Next
<1> QED BY <1>1, <1>2

(* dashboard.build: whatever the vendor, the interval and the polls do, no  *)
(* figure on the page, in a scrape or from the API is of a window that has *)
(* closed.                                                                 *)
THEOREM NothingClosedIsShown == Spec => []ShownIsOpen
<1> DEFINE Inv == task = "page" => PageInv
<1>1. Init => Inv
    BY Starts, PageBegin, ScreenAssumption
<1>2. Inv /\ [Next]_allVars => Inv'
    BY Goes, PageStep, ScreenAssumption
<1>3. Inv => ShownIsOpen
    BY PageOpen, ScreenAssumption DEF ShownIsOpen
<1> QED BY <1>1, <1>2, <1>3, PTL DEF Spec

(* The hero and the session meter speak of one window, and the page, the   *)
(* scrape and the API agree on what is current.                            *)
THEOREM PageSpeaksAsOne == Spec => []FiguresAgree
<1> DEFINE Inv == task = "page" => PageInv
<1>1. Init => Inv
    BY Starts, PageBegin, ScreenAssumption
<1>2. Inv /\ [Next]_allVars => Inv'
    BY Goes, PageStep, ScreenAssumption
<1>3. Inv => FiguresAgree
    BY PageAgrees, ScreenAssumption DEF FiguresAgree
<1> QED BY <1>1, <1>2, <1>3, PTL DEF Spec

(* weeks.week_rows: a row's figures are of the two resets it lies between,  *)
(* whenever their events were written and whichever polls failed to.       *)
THEOREM RowsAreOfTheirResets == Spec => []WeekTableIsTrue
<1> DEFINE Inv == task = "weeks" => WeeksInv
<1>1. Init => Inv
    BY Starts, WeeksBegin, ScreenAssumption
<1>2. Inv /\ [Next]_allVars => Inv'
    BY Goes, WeeksStep, ScreenAssumption
<1>3. Inv => WeekTableIsTrue
    BY WeeksSafe, ScreenAssumption DEF WeekTableIsTrue
<1> QED BY <1>1, <1>2, <1>3, PTL DEF Spec

(* surfaces.is_this_week, mostly_by_week: the page and the table show the   *)
(* last split each week received, through failed polls, repeats, jittered  *)
(* starts of a week and starts of the program.                             *)
THEOREM SplitShownIsLast == Spec => []SplitIsTheWeeks
<1> DEFINE Inv == task = "split" => SplitsInv
<1>1. Init => Inv
    BY Starts, SplitsBegin, ScreenAssumption
<1>2. Inv /\ [Next]_allVars => Inv'
    BY Goes, SplitsStep, ScreenAssumption
<1>3. Inv => SplitIsTheWeeks
    BY SplitsSafe, ScreenAssumption DEF SplitIsTheWeeks
<1> QED BY <1>1, <1>2, <1>3, PTL DEF Spec

(* The chart (_chart_view, find_gaps, _change_over_range), of any history   *)
(* of readings and any range of it: lines join readings of one window and  *)
(* no boost is drawn over; what was not collected is hatched; the change a  *)
(* meter tells is of one window.                                           *)
THEOREM ChartIsOfReadings == Spec => []ChartIsTrue
<1> DEFINE Inv == task = "chart" => ChartInv
<1>1. Init => Inv
    BY Starts, ChartBegin, ScreenAssumption
<1>2. Inv /\ [Next]_allVars => Inv'
    BY Goes, ChartStep, ScreenAssumption
<1>3. Inv => ChartIsTrue
    BY ChartSafe, ScreenAssumption DEF ChartIsTrue
<1> QED BY <1>1, <1>2, <1>3, PTL DEF Spec

(* "A view is a URL" (views.py): no control drops what another was set to,  *)
(* and the range drawn is the one asked for, or the default that fits.     *)
THEOREM AddressIsTheView == Spec => []ViewIsItsAddress
<1> DEFINE Inv == task = "view" => ViewInv
<1>1. Init => Inv
    BY Starts, ViewBegin, ScreenAssumption
<1>2. Inv /\ [Next]_allVars => Inv'
    BY Goes, ViewStep, ScreenAssumption
<1>3. Inv => ViewIsItsAddress
    BY ViewSafe, ScreenAssumption DEF ViewIsItsAddress
<1> QED BY <1>1, <1>2, <1>3, PTL DEF Spec

(* "client.org_id is the org usage was read for" (_maybe_refresh_plan):     *)
(* whatever a poll adds is of the organisation of its readings, and until   *)
(* another cookie is stored so is the overage the poller holds.             *)
THEOREM PollsAreOfOneOrg == Spec => NumbersAreOfOneOrg
<1> DEFINE Inv == task = "identity" => IdentityInv
<1>1. Init => Inv
    BY Starts, IdentityBegin, ScreenAssumption
<1>2. Inv /\ [Next]_allVars => Inv'
    BY Goes, IdentityStep, ScreenAssumption
<1>3. Inv /\ [Next]_allVars => [task = "identity" => I!OfOneOrg]_allVars
    <2> SUFFICES ASSUME IdentityInv, [Next]_allVars, allVars' # allVars, task = "identity"
                 PROVE  I!OfOneOrg
        OBVIOUS
    <2>1. Next /\ task = "identity" => I!Next
        BY DEF Next
    <2>2. [I!OfOneOrg]_I!vars
        BY <2>1, StepIsOfOneOrg, ScreenAssumption
    <2>3. Next
        OBVIOUS
    <2>4. I!vars = I!vars' => allVars' = allVars
        BY <2>3 DEF Next, allVars, I!vars, I!vendor, I!poller, identityVars
    <2> QED BY <2>2, <2>4
<1> QED BY <1>1, <1>2, <1>3, PTL DEF Spec, NumbersAreOfOneOrg
=============================================================================
