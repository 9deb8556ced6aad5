--------------------------- MODULE BurnAlertProofs ---------------------------
(***************************************************************************)
(* Two results about the burn alert, for any rates and thresholds and any  *)
(* number of store errors.                                                 *)
(*                                                                         *)
(* Implements: it is the edge detector, restarts, boosts and store errors  *)
(* and all, as long as a second holds at most one poll.  The condition is  *)
(* needed: TLC refutes it without.                                         *)
(*                                                                         *)
(* ClearsAreAnswers: whatever happens, no fall is announced that answers   *)
(* no alert, announced or lost.                                            *)
(***************************************************************************)
EXTENDS BurnAlert, TLAPS

Said == {"burn_alert", "burn_cleared", "boosted"} \cup Losses

TypeInv ==
    /\ up \in BOOLEAN /\ firing \in BOOLEAN /\ armed \in BOOLEAN
    /\ threshold \in Nat /\ threshold > 0
    /\ threshold \in Thresholds /\ settings \in Thresholds
    /\ now \in Nat /\ polls \in Nat
    /\ alertTs \in Int /\ clearedTs \in Int
    /\ log \in Seq(Said)

(* An event of this second uses up its only poll, so the two never tie.    *)
EventsInv ==
    /\ alertTs <= now /\ clearedTs <= now
    /\ alertTs >= -1 /\ clearedTs >= -1
    /\ polls = 0 => alertTs < now /\ clearedTs < now

(* While nothing has gone unsaid, the newest events and the detector both  *)
(* tell what the receiver was told.                                        *)
SureInv ==
    Edges!Sure => /\ Standing <=> ~armed
                  /\ up => (firing <=> ~armed)

IInv == TypeInv /\ EventsInv /\ SureInv

(* What was noted last tells whether something has gone unsaid.            *)
LEMMA NoteLast ==
    ASSUME log \in Seq(Said), NEW kind \in Said, Note(kind)
    PROVE  /\ log' \in Seq(Said)
           /\ Edges!Sure' <=> kind \in {"burn_alert", "burn_cleared"}
  <1>1. log' \in Seq(Said) /\ log' # <<>> /\ log'[Len(log')] = kind
    BY DEF Note
  <1> QED
    BY <1>1 DEF Edges!Sure

LEMMA InitIInv == Init => IInv
  <1> SUFFICES ASSUME Init PROVE IInv
    OBVIOUS
  <1>1. armed /\ ~firing /\ up /\ armed \in BOOLEAN /\ firing \in BOOLEAN /\ up \in BOOLEAN
    BY Zenon DEF Init
  <1>2. /\ threshold \in Nat /\ threshold > 0
        /\ threshold \in Thresholds /\ settings \in Thresholds
    BY BurnAlertAssumption DEF Init
  <1>3. now = 0 /\ polls = 0 /\ alertTs = -1 /\ clearedTs = -1 /\ log = <<>>
    BY DEF Init, None
  <1> QED
    BY <1>1, <1>2, <1>3 DEF IInv, TypeInv, EventsInv, SureInv, Standing, None

(* What a rate makes of the edge.                                          *)
LEMMA Observed ==
    ASSUME NEW rate, Observe(rate)
    PROVE  /\ armed' \in BOOLEAN
           /\ armed => (armed' <=> ~Reaches(rate))
           /\ ~armed => (armed' <=> FallsBack(rate))
  <1>1. Reaches(rate) \in BOOLEAN /\ FallsBack(rate) \in BOOLEAN
    BY DEF Reaches, FallsBack
  <1> QED
    BY <1>1, Zenon DEF Observe

(* The alert's two outcomes: recorded, it settles what was unsure; lost,   *)
(* nothing is claimed until the next announcement.                         *)
LEMMA AlertIInv ==
    ASSUME PollsPerSecond = 1, IInv, NEW rate \in Nat, polls = 0, polls' = 1,
           UNCHANGED <<up, threshold, settings, now>>, Observe(rate), Alert(rate)
    PROVE  IInv'
  <1>1. firing' \in BOOLEAN /\ firing' /\ ~firing
    BY Zenon DEF Alert
  <1>2. armed' \in BOOLEAN /\ ~armed'
    <2>1. Reaches(rate) /\ ~FallsBack(rate)
      BY DEF Alert, Reaches, FallsBack, IInv, TypeInv
    <2> QED
      BY <2>1, Observed
  <1>3. clearedTs' = clearedTs /\ clearedTs < now /\ -1 <= clearedTs
    BY DEF Alert, IInv, EventsInv
  <1>4. CASE alertTs' = now /\ Note("burn_alert")
    <2>1. log' \in Seq(Said)
      BY <1>4, NoteLast DEF Said, IInv, TypeInv
    <2>2. Standing'
      BY <1>3, <1>4 DEF Standing, None, IInv, TypeInv
    <2> QED
      BY <1>1, <1>2, <1>3, <1>4, <2>1, <2>2 DEF IInv, TypeInv, EventsInv, SureInv
  <1>5. CASE UNCHANGED alertTs /\ Note("alert_lost")
    <2>1. log' \in Seq(Said) /\ ~Edges!Sure'
      BY <1>5, NoteLast DEF Said, Losses, IInv, TypeInv
    <2> QED
      BY <1>1, <1>2, <1>3, <1>5, <2>1 DEF IInv, TypeInv, EventsInv, SureInv
  <1> QED
    BY <1>4, <1>5 DEF Alert, StoreFails

LEMMA ClearIInv ==
    ASSUME PollsPerSecond = 1, IInv, NEW rate \in Nat, NEW boosted \in BOOLEAN,
           polls = 0, polls' = 1,
           UNCHANGED <<up, threshold, settings, now>>, Observe(rate), Clear(rate, boosted)
    PROVE  IInv'
  <1>1. firing' \in BOOLEAN /\ ~firing' /\ firing
    BY Zenon DEF Clear
  <1>2. armed' \in BOOLEAN /\ armed'
    <2>1. ~Reaches(rate) /\ FallsBack(rate)
      BY DEF Clear, Reaches, FallsBack, IInv, TypeInv
    <2> QED
      BY <2>1, Observed
  <1>3. alertTs' = alertTs /\ alertTs < now /\ -1 <= alertTs
    BY DEF Clear, IInv, EventsInv
  <1>4. CASE clearedTs' = now /\ Note("burn_cleared")
    <2>1. log' \in Seq(Said)
      BY <1>4, NoteLast DEF Said, IInv, TypeInv
    <2>2. ~Standing'
      BY <1>3, <1>4 DEF Standing, None, IInv, TypeInv
    <2> QED
      BY <1>1, <1>2, <1>3, <1>4, <2>1, <2>2 DEF IInv, TypeInv, EventsInv, SureInv
  <1>5. CASE UNCHANGED clearedTs /\ (Note("clear_lost") \/ Note("boosted"))
    <2>1. log' \in Seq(Said) /\ ~Edges!Sure'
      BY <1>5, NoteLast DEF Said, Losses, IInv, TypeInv
    <2> QED
      BY <1>1, <1>2, <1>3, <1>5, <2>1 DEF IInv, TypeInv, EventsInv, SureInv
  <1> QED
    BY <1>4, <1>5 DEF Clear, StoreFails

(* A rate that moves nothing is, while nothing has gone unsaid, no edge.   *)
LEMMA HoldIsNoEdge ==
    ASSUME IInv, up, Edges!Sure, NEW rate \in Nat, Observe(rate), Hold(rate)
    PROVE  armed' = armed
  <1>1. armed \in BOOLEAN /\ (firing <=> ~armed)
    BY DEF IInv, TypeInv, SureInv
  <1>2. (~armed => ~FallsBack(rate)) /\ (armed => ~Reaches(rate))
    BY <1>1, Zenon DEF Hold
  <1> QED
    BY <1>1, <1>2, Observed

LEMMA CheckIInv ==
    ASSUME PollsPerSecond = 1, IInv, NEW rate \in Rates \cup {NoRate},
           NEW boosted \in BOOLEAN, CheckThreshold(rate, boosted)
    PROVE  IInv'
  <1>1. CASE rate = NoRate
    BY <1>1 DEF CheckThreshold, IInv, TypeInv, EventsInv, SureInv, Standing, Edges!Sure
  <1>2. CASE rate # NoRate
    <2>1. rate \in Nat /\ up /\ polls = 0
      BY <1>2, BurnAlertAssumption DEF CheckThreshold, IInv, TypeInv
    <2>2. UNCHANGED <<up, threshold, settings, now>> /\ polls' = 1 /\ Observe(rate)
      BY <1>2, <2>1 DEF CheckThreshold
    <2>3. CASE Alert(rate)
      BY <2>1, <2>2, <2>3, AlertIInv
    <2>4. CASE Clear(rate, boosted)
      BY <2>1, <2>2, <2>4, ClearIInv
    <2>5. CASE Hold(rate)
      <3>1. UNCHANGED <<firing, alertTs, clearedTs, log>>
        BY <2>5 DEF Hold
      <3>2. Edges!Sure' <=> Edges!Sure
        BY <3>1 DEF Edges!Sure
      <3>3. Edges!Sure => armed' = armed
        BY <2>1, <2>2, <2>5, HoldIsNoEdge
      <3>4. armed' \in BOOLEAN
        BY <2>2, Observed
      <3>5. TypeInv' /\ EventsInv'
        BY <2>1, <2>2, <3>1, <3>4 DEF IInv, TypeInv, EventsInv
      <3>6. SureInv'
        BY <2>2, <3>1, <3>2, <3>3 DEF IInv, SureInv, Standing
      <3> QED
        BY <3>5, <3>6 DEF IInv
    <2> QED
      BY <1>2, <2>3, <2>4, <2>5 DEF CheckThreshold
  <1> QED
    BY <1>1, <1>2

LEMMA StartIInv == IInv /\ Start => IInv'
  <1> SUFFICES ASSUME IInv, Start PROVE IInv'
    OBVIOUS
  <1>1. Standing \in BOOLEAN
    BY DEF Standing, None
  <1>2. threshold' \in Thresholds /\ threshold' \in Nat /\ threshold' > 0
    BY BurnAlertAssumption DEF Start, IInv, TypeInv
  <1>3. up' \in BOOLEAN /\ UNCHANGED <<settings, now, polls, alertTs, clearedTs, armed>>
    BY DEF Start
  <1>4. Standing' <=> Standing
    BY <1>3 DEF Standing
  <1>5. CASE firing' = Standing /\ UNCHANGED log
    <2>1. firing' \in BOOLEAN /\ (firing' <=> Standing)
      BY <1>1, <1>5, Zenon
    <2>2. Edges!Sure' <=> Edges!Sure
      BY <1>5 DEF Edges!Sure
    <2> QED
      BY <1>2, <1>3, <1>4, <1>5, <2>1, <2>2 DEF IInv, TypeInv, EventsInv, SureInv
  <1>6. CASE firing' = FALSE /\ Note("unread")
    <2>1. log' \in Seq(Said) /\ ~Edges!Sure'
      BY <1>6, NoteLast DEF Said, Losses, IInv, TypeInv
    <2> QED
      BY <1>2, <1>3, <1>6, <2>1 DEF IInv, TypeInv, EventsInv, SureInv
  <1> QED
    BY <1>5, <1>6 DEF Start, StoreFails

LEMMA NextIInv == PollsPerSecond = 1 /\ IInv /\ [Next]_vars => IInv'
  <1> SUFFICES ASSUME PollsPerSecond = 1, IInv, [Next]_vars PROVE IInv'
    OBVIOUS
  <1> USE DEF IInv, TypeInv, EventsInv, SureInv, Standing, Edges!Sure
  <1>1. ASSUME NEW rate \in Rates \cup {NoRate}, NEW boosted \in BOOLEAN,
               CheckThreshold(rate, boosted)
        PROVE  IInv'
    BY <1>1, CheckIInv
  <1>2. CASE Die
    BY <1>2 DEF Die
  <1>3. CASE Start
    BY <1>3, StartIInv
  <1>4. ASSUME NEW t \in Thresholds, Adopt(t) PROVE IInv'
    BY <1>4 DEF Adopt
  <1>5. CASE Tick
    BY <1>5 DEF Tick
  <1>6. CASE UNCHANGED vars
    BY <1>6 DEF vars
  <1> QED
    BY <1>1, <1>2, <1>3, <1>4, <1>5, <1>6 DEF Next

LEMMA NextRefines == PollsPerSecond = 1 /\ IInv /\ [Next]_vars => [Edges!Next]_(Edges!vars)
  <1> SUFFICES ASSUME PollsPerSecond = 1, IInv, [Next]_vars PROVE [Edges!Next]_(Edges!vars)
    OBVIOUS
  <1> USE DEF Edges!vars
  <1>1. ASSUME NEW rate \in Rates \cup {NoRate}, NEW boosted \in BOOLEAN,
               CheckThreshold(rate, boosted)
        PROVE  Edges!Next \/ UNCHANGED <<armed, threshold, log>>
    <2>1. CASE rate = NoRate
      BY <1>1, <2>1 DEF CheckThreshold
    <2>2. CASE rate # NoRate
      <3>1. rate \in Rates /\ rate \in Nat /\ up
        BY <1>1, <2>2, BurnAlertAssumption DEF CheckThreshold
      <3>2. UNCHANGED threshold /\ Observe(rate)
        BY <1>1, <2>2 DEF CheckThreshold
      <3>3. /\ armed \in BOOLEAN /\ threshold \in Nat /\ threshold > 0
            /\ Edges!Sure => (firing <=> ~armed)
        BY <3>1 DEF IInv, TypeInv, SureInv
      <3>4. CASE Alert(rate)
        <4>1. ~firing /\ Reaches(rate) /\ ~FallsBack(rate)
          BY <3>1, <3>3, <3>4 DEF Alert, Reaches, FallsBack
        <4>2. armed' = FALSE
          BY <3>2, <4>1, Observed
        <4>3. Edges!Alert
          BY <3>1, <3>2, <3>3, <3>4, <4>1, <4>2
             DEF Alert, Note, StoreFails, Reaches, Edges!Alert, Edges!Reaches
        <4> QED
          BY <4>3 DEF Edges!Next
      <3>5. CASE Clear(rate, boosted)
        <4>1. firing /\ ~Reaches(rate) /\ FallsBack(rate)
          BY <3>1, <3>3, <3>5 DEF Clear, Reaches, FallsBack
        <4>2. armed' = TRUE
          BY <3>2, <4>1, Observed
        <4>3. Edges!Clear
          BY <3>1, <3>2, <3>3, <3>5, <4>1, <4>2
             DEF Clear, Note, StoreFails, FallsBack, Edges!Clear, Edges!FallsBack
        <4> QED
          BY <4>3 DEF Edges!Next
      <3>6. CASE Hold(rate)
        <4>1. UNCHANGED <<threshold, log>>
          BY <3>2, <3>6 DEF Hold
        <4>2. CASE Edges!Sure
          BY <3>1, <3>2, <3>6, <4>1, <4>2, HoldIsNoEdge
        <4>3. CASE ~Edges!Sure
          <5>1. armed' \in BOOLEAN
            BY <3>2, Observed
          <5> QED
            BY <4>1, <4>3, <5>1 DEF Edges!Next, Edges!Miss
        <4> QED
          BY <4>2, <4>3
      <3> QED
        BY <1>1, <2>2, <3>4, <3>5, <3>6 DEF CheckThreshold
    <2> QED
      BY <2>1, <2>2
  <1>2. CASE Start
    BY <1>2 DEF Start, StoreFails, Note, IInv, TypeInv, Edges!Next, Edges!Retune
  <1>3. CASE UNCHANGED <<armed, threshold, log>>
    BY <1>3
  <1> QED
    BY <1>1, <1>2, <1>3 DEF Next, Die, Adopt, Tick, vars

(***************************************************************************)
(* With one poll a second, restarts, boosts, settings changes, refused     *)
(* rates and store errors included, the alert is an edge detector: each    *)
(* crossing announced once, each fall back once (alerts.py), but for what  *)
(* happens between a mark of something unsaid and the next announcement.   *)
(***************************************************************************)
THEOREM Implements == ASSUME PollsPerSecond = 1 PROVE Spec => OneEventPerCrossing
  <1>1. Init => Edges!Init
    BY DEF Init, Edges!Init
  <1>2. IInv /\ [Next]_vars => IInv'
    BY NextIInv
  <1>3. IInv /\ [Next]_vars => [Edges!Next]_(Edges!vars)
    BY NextRefines
  <1> QED
    BY <1>1, <1>2, <1>3, InitIInv, PTL DEF Spec, Edges!Spec, OneEventPerCrossing

-----------------------------------------------------------------------------
(* A detector that would fire after a restart has announced an alert last; *)
(* one that is firing has, too, unless it lost that alert just now.        *)
LogInv ==
    /\ now \in Nat /\ alertTs \in Int /\ clearedTs \in Int
    /\ alertTs <= now
    /\ log \in Seq(Said)
    /\ ClearsAnswerAlerts
    /\ Standing => HeardAlertLast(Len(log))
    /\ firing => \/ HeardAlertLast(Len(log))
                 \/ log # <<>> /\ log[Len(log)] = "alert_lost"

(* What a note changes in what was heard last, and in the pairs.           *)
LEMMA NoteHeard ==
    ASSUME log \in Seq(Said), ClearsAnswerAlerts, NEW kind \in Said, Note(kind),
           kind = "burn_cleared" => \/ HeardAlertLast(Len(log))
                                    \/ log # <<>> /\ log[Len(log)] = "alert_lost"
    PROVE  /\ log' \in Seq(Said) /\ ClearsAnswerAlerts'
           /\ log' # <<>> /\ log'[Len(log')] = kind
           /\ kind = "burn_alert" => HeardAlertLast(Len(log))'
           /\ kind # "burn_cleared" /\ HeardAlertLast(Len(log)) => HeardAlertLast(Len(log))'
  <1>1. /\ log' \in Seq(Said) /\ Len(log) \in Nat /\ Len(log') = Len(log) + 1
        /\ log' # <<>> /\ log'[Len(log')] = kind
        /\ \A i \in 1..Len(log) : log'[i] = log[i]
    BY DEF Note
  <1>2. \A n \in 0..Len(log) : HeardAlertLast(n) => HeardAlertLast(n)'
    BY <1>1 DEF HeardAlertLast
  <1>3. kind = "burn_alert" => HeardAlertLast(Len(log))'
    BY <1>1 DEF HeardAlertLast
  <1>4. kind # "burn_cleared" /\ HeardAlertLast(Len(log)) => HeardAlertLast(Len(log))'
    <2> SUFFICES ASSUME kind # "burn_cleared", HeardAlertLast(Len(log))
                 PROVE  HeardAlertLast(Len(log))'
      OBVIOUS
    <2>1. PICK i \in 1..Len(log) : /\ log[i] = "burn_alert"
                                   /\ \A j \in (i + 1)..Len(log) : log[j] # "burn_cleared"
      BY DEF HeardAlertLast
    <2>2. i \in 1..Len(log') /\ log'[i] = "burn_alert"
      BY <1>1, <2>1
    <2>3. ASSUME NEW j \in (i + 1)..Len(log') PROVE log'[j] # "burn_cleared"
      <3>1. CASE j = Len(log')
        BY <1>1, <3>1
      <3>2. CASE j # Len(log')
        <4>1. j \in (i + 1)..Len(log) /\ j \in 1..Len(log)
          BY <1>1, <2>3, <3>2
        <4> QED
          BY <1>1, <2>1, <4>1
      <3> QED
        BY <3>1, <3>2
    <2> QED
      BY <2>2, <2>3 DEF HeardAlertLast
  <1>5. ClearsAnswerAlerts'
    <2> SUFFICES ASSUME NEW i \in 1..Len(log'), log'[i] = "burn_cleared"
                 PROVE  \/ HeardAlertLast(i - 1)'
                        \/ i > 1 /\ log'[i - 1] = "alert_lost"
      BY DEF ClearsAnswerAlerts
    <2>1. CASE i = Len(log')
      <3>1. kind = "burn_cleared" /\ i - 1 = Len(log)
        BY <1>1, <2>1
      <3>2. CASE HeardAlertLast(Len(log))
        BY <1>1, <1>2, <3>1, <3>2
      <3>3. CASE log # <<>> /\ log[Len(log)] = "alert_lost"
        BY <1>1, <3>1, <3>3
      <3> QED
        BY <3>1, <3>2, <3>3
    <2>2. CASE i # Len(log')
      <3>1. i \in 1..Len(log) /\ log[i] = "burn_cleared" /\ i - 1 \in 0..Len(log)
        BY <1>1, <2>2
      <3>2. HeardAlertLast(i - 1) \/ (i > 1 /\ log[i - 1] = "alert_lost")
        BY <3>1 DEF ClearsAnswerAlerts
      <3>3. i > 1 => log'[i - 1] = log[i - 1]
        BY <1>1, <3>1
      <3> QED
        BY <1>2, <3>1, <3>2, <3>3
    <2> QED
      BY <2>1, <2>2
  <1> QED
    BY <1>1, <1>3, <1>4, <1>5

LEMMA CheckLogInv ==
    ASSUME LogInv, NEW rate \in Rates \cup {NoRate}, NEW boosted \in BOOLEAN,
           CheckThreshold(rate, boosted)
    PROVE  LogInv'
  <1> USE DEF LogInv, Standing, None
  <1>1. now' = now
    BY DEF CheckThreshold
  <1>2. CASE UNCHANGED <<firing, alertTs, clearedTs, log>>
    BY <1>1, <1>2 DEF ClearsAnswerAlerts, HeardAlertLast
  <1>3. CASE Alert(rate)
    <2>1. CASE alertTs' = now /\ Note("burn_alert")
      <3>1. log' \in Seq(Said) /\ ClearsAnswerAlerts' /\ HeardAlertLast(Len(log))'
        BY <2>1, NoteHeard DEF Said
      <3> QED
        BY <1>1, <1>3, <2>1, <3>1 DEF Alert
    <2>2. CASE UNCHANGED alertTs /\ Note("alert_lost")
      <3>1. /\ log' \in Seq(Said) /\ ClearsAnswerAlerts'
            /\ log' # <<>> /\ log'[Len(log')] = "alert_lost"
            /\ HeardAlertLast(Len(log)) => HeardAlertLast(Len(log))'
        BY <2>2, NoteHeard DEF Said, Losses
      <3> QED
        BY <1>1, <1>3, <2>2, <3>1 DEF Alert
    <2> QED
      BY <1>3, <2>1, <2>2 DEF Alert, StoreFails
  <1>4. CASE Clear(rate, boosted)
    <2>1. /\ ~firing' /\ alertTs' = alertTs
          /\ \/ HeardAlertLast(Len(log))
             \/ log # <<>> /\ log[Len(log)] = "alert_lost"
      BY <1>4 DEF Clear
    <2>2. CASE clearedTs' = now /\ Note("burn_cleared")
      <3>1. log' \in Seq(Said) /\ ClearsAnswerAlerts'
        BY <2>1, <2>2, NoteHeard DEF Said
      <3> QED
        BY <1>1, <2>1, <2>2, <3>1
    <2>3. CASE UNCHANGED clearedTs /\ (Note("clear_lost") \/ Note("boosted"))
      <3>1. /\ log' \in Seq(Said) /\ ClearsAnswerAlerts'
            /\ HeardAlertLast(Len(log)) => HeardAlertLast(Len(log))'
        BY <2>3, NoteHeard DEF Said, Losses
      <3> QED
        BY <1>1, <2>1, <2>3, <3>1
    <2> QED
      BY <1>4, <2>2, <2>3 DEF Clear, StoreFails
  <1> QED
    BY <1>2, <1>3, <1>4 DEF CheckThreshold, Hold

LEMMA StartLogInv == LogInv /\ Start => LogInv'
  <1> SUFFICES ASSUME LogInv, Start PROVE LogInv'
    OBVIOUS
  <1>1. UNCHANGED <<now, alertTs, clearedTs>>
    BY DEF Start
  <1>2. CASE firing' = Standing /\ UNCHANGED log
    BY <1>1, <1>2 DEF LogInv, Standing, None, ClearsAnswerAlerts, HeardAlertLast
  <1>3. CASE firing' = FALSE /\ Note("unread")
    <2>1. /\ log' \in Seq(Said) /\ ClearsAnswerAlerts'
          /\ HeardAlertLast(Len(log)) => HeardAlertLast(Len(log))'
      BY <1>3, NoteHeard DEF Said, Losses, LogInv
    <2> QED
      BY <1>1, <1>3, <2>1 DEF LogInv, Standing
  <1> QED
    BY <1>2, <1>3 DEF Start, StoreFails

LEMMA NextLogInv == LogInv /\ [Next]_vars => LogInv'
  <1> SUFFICES ASSUME LogInv, [Next]_vars PROVE LogInv'
    OBVIOUS
  <1> USE DEF LogInv, Standing, None, ClearsAnswerAlerts, HeardAlertLast
  <1>1. ASSUME NEW rate \in Rates \cup {NoRate}, NEW boosted \in BOOLEAN,
               CheckThreshold(rate, boosted)
        PROVE  LogInv'
    BY <1>1, CheckLogInv
  <1>2. CASE Die
    BY <1>2 DEF Die
  <1>3. CASE Start
    BY <1>3, StartLogInv
  <1>4. ASSUME NEW t \in Thresholds, Adopt(t) PROVE LogInv'
    BY <1>4 DEF Adopt
  <1>5. CASE Tick
    BY <1>5 DEF Tick
  <1>6. CASE UNCHANGED vars
    BY <1>6 DEF vars
  <1> QED
    BY <1>1, <1>2, <1>3, <1>4, <1>5, <1>6 DEF Next

(***************************************************************************)
(* Boosts, restarts, settings changes, store errors and forced polls in    *)
(* the same second included, nothing is announced as falling back that was *)
(* not announced as having crossed, or lost by the store while it was      *)
(* (_check_threshold).                                                     *)
(***************************************************************************)
THEOREM ClearsAreAnswers == Spec => []ClearsAnswerAlerts
  <1>1. Init => LogInv
    BY DEF Init, LogInv, Standing, None, ClearsAnswerAlerts, Said
  <1>2. LogInv => ClearsAnswerAlerts
    BY DEF LogInv
  <1> QED
    BY <1>1, <1>2, NextLogInv, PTL DEF Spec
=============================================================================
