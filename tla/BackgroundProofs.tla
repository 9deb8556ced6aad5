-------------------------- MODULE BackgroundProofs --------------------------
(***************************************************************************)
(* What is proved of the tasks in the background, for every value of the   *)
(* constants: the settings, the update check, the vendor status, the       *)
(* windows that stop arriving, the credit grants, the credits spent and     *)
(* the migrations.                                                         *)
(*                                                                         *)
(* Each part has an invariant of its own, proved about its own steps; the  *)
(* end of the module says that a behaviour is one of a single task.        *)
(*                                                                         *)
(* Settings: a period reaches the prune on many ways: the file, a save     *)
(* that read the file earlier, a command that did, the environment, the    *)
(* first value of a start.  The invariant says of each place a period may  *)
(* wait in that it is one that was asked for, or the longest there is.     *)
(*                                                                         *)
(* Updates: a check that stored a release and has not announced it owes    *)
(* its event; without an overlap only one check can owe anything.          *)
(*                                                                         *)
(* VendorStatus: the counter of failures is the number of answers at the   *)
(* end that were not understood, so that a row below the limit tells the   *)
(* answer before them.                                                     *)
(*                                                                         *)
(* Presence: the marks of a window take turns, so that their number tells  *)
(* which is the newest; and what is pruned leaves either the polls that    *)
(* are judged by, or too few to judge.                                     *)
(*                                                                         *)
(* Grants: no two samples or rows are of one second, and the newest sample  *)
(* has no row behind it; a replay keeps the rows there are and takes up all *)
(* samples, shown for the first moment at which it would not.              *)
(*                                                                         *)
(* EventLog: a table's rows are in the order they were written, by their    *)
(* ids, and a cursor divides them: what is below it was given out, what is  *)
(* above it is later than all that was.  A rowid may be given again, but to  *)
(* a row that the export need not hold; an id is not.  Once a VACUUM has    *)
(* renumbered the rows nothing is claimed but that they keep their order.   *)
(*                                                                         *)
(* Migrations: the invariant says of every place in the script what the    *)
(* statements before it have done to the database the process sees         *)
(* (Reached), that a committed version number is only there with all it    *)
(* stands for (Sound), and where the events are while their table is       *)
(* rebuilt (Holds).  Nothing is ever taken back (Grown), so a process may  *)
(* rely on what it has seen although others write too; what is taken back, *)
(* the table and its copy, is hidden in a transaction, of which there is   *)
(* one at most.                                                            *)
(*                                                                         *)
(* Credits: the pass over the rows keeps, of every run, its first and last *)
(* rise by number (Scanned), so that the runs are those of the definition  *)
(* without the pass and tile the moments on credits.  The rows are those   *)
(* of the whole series since one of the cutoffs, so that a start that was  *)
(* recorded stays the start of a run, whatever is stored or pruned later.  *)
(***************************************************************************)
EXTENDS Background, FiniteSets, FiniteSetTheorems, WellFoundedInduction, TLAPS

(* A period that may run. *)
Asked(p) == p \in Periods => asked <= p \/ p = S!Longest

WholeFile(f) == f = [k \in S!Keys |-> f[k]]

SettingsTyped ==
    /\ env \in Envs
    /\ day \in Nat /\ rows \subseteq Int /\ asked \in Nat
    /\ WholeFile(file)
    /\ running # S!Stopped => WholeFile(running)
    /\ command # S!Nobody => WholeFile(command.stored)

AllAsked ==
    /\ Asked(file["retention"])
    /\ Asked(running["retention"])
    /\ saving # S!Nobody => Asked(saving.retention)
    /\ command # S!Nobody => Asked(command.stored["retention"])

SettingsInv == SettingsTyped /\ AllAsked /\ S!SavedIsRunning

(* The longest period is one, and none is longer. *)
LEMMA LongestIsLongest ==
    ASSUME S!SettingsAssumption
    PROVE  /\ S!Longest \in Periods /\ S!Longest \in Nat /\ S!Never \in Nat
           /\ \A p \in Periods : p \in Nat /\ p <= S!Longest
<1>1. \E l \in Periods : \A p \in Periods : l >= p
    BY DEF S!SettingsAssumption
<1>2. S!Longest \in Periods /\ \A p \in Periods : S!Longest >= p
    BY <1>1, Zenon DEF S!Longest, S!Max
<1> QED BY <1>2 DEF S!SettingsAssumption, S!Never

(* The smaller of two. *)
LEMMA MinOfTwo ==
    ASSUME NEW a \in Nat, NEW b \in Nat
    PROVE  S!Min({a, b}) \in {a, b} /\ S!Min({a, b}) <= a /\ S!Min({a, b}) <= b
<1>1. \E x \in {a, b} : \A y \in {a, b} : x <= y
    OBVIOUS
<1>2. S!Min({a, b}) \in {a, b} /\ \A y \in {a, b} : S!Min({a, b}) <= y
    BY <1>1, Zenon DEF S!Min
<1> QED BY <1>2

(* Asking can only shorten, and a period asked for is then allowed. *)
LEMMA ShortestIsAsked ==
    ASSUME S!SettingsAssumption, asked \in Nat, NEW p
    PROVE  /\ S!Shortest(p) \in Nat /\ S!Shortest(p) <= asked
           /\ p \in Periods => S!Shortest(p) <= p
BY LongestIsLongest, MinOfTwo DEF S!Shortest

(* What was allowed remains so when somebody asks for less. *)
LEMMA StillAsked ==
    ASSUME S!SettingsAssumption, asked \in Nat, asked' \in Nat, asked' <= asked,
           NEW p, Asked(p)
    PROVE  p \in Periods => asked' <= p \/ p = S!Longest
BY LongestIsLongest DEF Asked

(* A start may run what the environment or the file say, the default of a   *)
(* new database, or the longest option.                                    *)
LEMMA StartAsks ==
    ASSUME S!SettingsAssumption, SettingsInv, NEW flags, S!Start(flags)
    PROVE  /\ asked' \in Nat /\ asked' <= asked
           /\ S!StartRetention(file["retention"]) \in Periods =>
                \/ asked' <= S!StartRetention(file["retention"])
                \/ S!StartRetention(file["retention"]) = S!Longest
<1> DEFINE period == S!StartRetention(file["retention"])
<1>1. asked' = IF env["retention"] # Absent \/ rows = {} THEN S!Shortest(period) ELSE asked
    BY DEF S!Start
<1>2. asked \in Nat /\ Asked(file["retention"])
    BY DEF SettingsInv, SettingsTyped, AllAsked
<1>3. CASE env["retention"] # Absent \/ rows = {}
    BY <1>1, <1>2, <1>3, ShortestIsAsked
<1>4. CASE env["retention"] = Absent /\ rows # {}
    <2>1. period \in {S!Longest, NoneText, file["retention"]}
        BY <1>4 DEF S!StartRetention, S!InitialRetention, S!UPGRADE_RETENTION
    <2>2. NoneText \notin Periods
        BY DEF S!SettingsAssumption
    <2>3. period \in Periods => asked <= period \/ period = S!Longest
        BY <1>2, <2>1, <2>2 DEF Asked
    <2> QED BY <1>1, <1>2, <1>4, <2>3
<1> QED BY <1>3, <1>4

(* At first nothing is set, and nobody has asked. *)
LEMMA SettingsBegin == ASSUME S!SettingsAssumption PROVE S!Init => SettingsInv
<1> SUFFICES ASSUME S!Init PROVE SettingsInv
    OBVIOUS
<1>1. Absent \notin Periods /\ "retention" \in S!Keys
    BY DEF S!SettingsAssumption, S!Keys
<1>2. rows \subseteq Int
    BY DEF S!Init, S!SettingsAssumption
<1>3. SettingsTyped
    BY <1>2, LongestIsLongest DEF S!Init, SettingsTyped, WholeFile
<1>4. AllAsked
    BY <1>1 DEF S!Init, AllAsked, Asked, S!Stopped
<1> QED BY <1>3, <1>4 DEF SettingsInv, S!SavedIsRunning, S!Init

(* Each step keeps the shapes. *)
LEMMA SettingsTypedStep ==
    ASSUME S!SettingsAssumption, SettingsInv, [S!Next]_S!vars
    PROVE  SettingsTyped'
<1> USE DEF SettingsTyped, WholeFile
<1>0. SettingsTyped
    BY DEF SettingsInv
<1>1. ASSUME NEW flags, S!Start(flags) PROVE SettingsTyped'
    BY <1>0, <1>1, StartAsks DEF S!Start
<1>2. CASE S!Stop
    BY <1>0, <1>2 DEF S!Stop
<1>3. CASE S!OpenPanel
    BY <1>0, <1>3 DEF S!OpenPanel
<1>4. ASSUME NEW key, NEW value, S!Submit(key, value) PROVE SettingsTyped'
    BY <1>0, <1>4 DEF S!Submit
<1>5. CASE S!SaveForm
    BY <1>0, <1>5 DEF S!SaveForm, S!Adopt
<1>6. ASSUME NEW period \in Periods, NEW confirm, S!ChangeRetention(period, confirm)
      PROVE  SettingsTyped'
    BY <1>0, <1>6, ShortestIsAsked DEF S!ChangeRetention
<1>7. ASSUME NEW key, NEW value, S!Command(key, value) PROVE SettingsTyped'
    BY <1>0, <1>7 DEF S!Command
<1>8. CASE S!SaveCommand
    BY <1>0, <1>8, ShortestIsAsked DEF S!SaveCommand
<1>9. CASE S!NewRow
    BY <1>0, <1>9 DEF S!NewRow
<1>10. CASE S!PruneNow
    BY <1>0, <1>10 DEF S!PruneNow
<1>11. CASE S!NextDay
    BY <1>0, <1>11 DEF S!NextDay
<1>12. CASE UNCHANGED S!vars
    BY <1>0, <1>12 DEF S!vars
<1> QED
    BY <1>1, <1>2, <1>3, <1>4, <1>5, <1>6, <1>7, <1>8, <1>9, <1>10, <1>11, <1>12 DEF S!Next

(* Each step leaves only periods that were asked for, wherever they wait.   *)
LEMMA AllAskedStep == ASSUME S!SettingsAssumption, SettingsInv, [S!Next]_S!vars PROVE AllAsked'
<1>0. SettingsTyped /\ AllAsked /\ asked \in Nat /\ "retention" \in S!Keys
    BY DEF SettingsInv, SettingsTyped, S!Keys
<1>1. ASSUME NEW flags, S!Start(flags) PROVE AllAsked'
    <2> DEFINE period == S!StartRetention(file["retention"])
    <2>1. asked' \in Nat /\ asked' <= asked
        BY <1>1, StartAsks
    <2>2. period \in Periods => asked' <= period \/ period = S!Longest
        BY <1>1, StartAsks
    <2>3. running'["retention"] = period
        BY <1>0, <1>1 DEF S!Start
    <2>4. file'["retention"] \in {period, file["retention"]}
        BY <1>0, <1>1 DEF S!Start, SettingsTyped, WholeFile
    <2> HIDE DEF period
    <2> QED BY <1>0, <1>1, <2>1, <2>2, <2>3, <2>4, StillAsked DEF AllAsked, Asked, S!Start
<1>2. CASE S!Stop
    BY <1>0, <1>2 DEF S!Stop, AllAsked, Asked, S!Stopped, S!SettingsAssumption
<1>3. CASE S!OpenPanel
    BY <1>0, <1>3 DEF S!OpenPanel, AllAsked, Asked
<1>4. ASSUME NEW key, NEW value, S!Submit(key, value) PROVE AllAsked'
    BY <1>0, <1>4 DEF S!Submit, AllAsked, Asked
<1>5. CASE S!SaveForm
    <2>1. file'["retention"] = saving.retention
        BY <1>0, <1>5 DEF S!SaveForm, S!SettingsAssumption
    <2>2. running'["retention"] = running["retention"]
        BY <1>0, <1>5 DEF S!SaveForm, S!Adopt, S!SettingsAssumption
    <2> QED BY <1>0, <1>5, <2>1, <2>2 DEF S!SaveForm, AllAsked, Asked
<1>6. ASSUME NEW period \in Periods, NEW confirm, S!ChangeRetention(period, confirm) PROVE AllAsked'
    <2>1. asked' \in Nat /\ asked' <= asked
        BY <1>0, <1>6, ShortestIsAsked DEF S!ChangeRetention
    <2>2. Asked(period)'
        <3>1. CASE confirm \/ ~S!Shrinks(period)
            BY <1>0, <1>6, <3>1, ShortestIsAsked DEF S!ChangeRetention, Asked
        <3>2. CASE period >= running.retention /\ ~(confirm \/ ~S!Shrinks(period))
            BY <1>0, <1>6, <3>2, LongestIsLongest
               DEF S!ChangeRetention, S!MayRetain, Asked, AllAsked
        <3> QED BY <1>6, <3>1, <3>2 DEF S!ChangeRetention, S!MayRetain
    <2>3. file'["retention"] = period /\ running'["retention"] = period
        BY <1>0, <1>6 DEF S!ChangeRetention, SettingsTyped, WholeFile
    <2> QED BY <1>0, <1>6, <2>1, <2>2, <2>3, StillAsked DEF AllAsked, Asked, S!ChangeRetention
<1>7. ASSUME NEW key, NEW value, S!Command(key, value) PROVE AllAsked'
    BY <1>0, <1>7 DEF S!Command, AllAsked, Asked
<1>8. CASE S!SaveCommand
    <2>1. asked' \in Nat /\ asked' <= asked
        BY <1>0, <1>8, ShortestIsAsked DEF S!SaveCommand
    <2>2. Asked(file["retention"])'
        <3>1. CASE command.key = "retention"
            <4>1. file'["retention"] = command.value
                BY <1>0, <1>8, <3>1 DEF S!SaveCommand, SettingsTyped, WholeFile
            <4> QED BY <1>0, <1>8, <3>1, <4>1, ShortestIsAsked DEF S!SaveCommand, Asked
        <3>2. CASE command.key # "retention"
            <4>1. file'["retention"] = command.stored["retention"] /\ asked' = asked
                BY <1>0, <1>8, <3>2 DEF S!SaveCommand, SettingsTyped, WholeFile
            <4> QED BY <1>0, <1>8, <4>1 DEF S!SaveCommand, Asked, AllAsked
        <3> QED BY <3>1, <3>2
    <2> QED BY <1>0, <1>8, <2>1, <2>2, StillAsked DEF AllAsked, Asked, S!SaveCommand
<1>9. CASE S!NewRow
    BY <1>0, <1>9 DEF S!NewRow, AllAsked, Asked
<1>10. CASE S!PruneNow
    BY <1>0, <1>10 DEF S!PruneNow, AllAsked, Asked
<1>11. CASE S!NextDay
    BY <1>0, <1>11 DEF S!NextDay, AllAsked, Asked
<1>12. CASE UNCHANGED S!vars
    BY <1>0, <1>12 DEF S!vars, AllAsked, Asked
<1> QED
    BY <1>1, <1>2, <1>3, <1>4, <1>5, <1>6, <1>7, <1>8, <1>9, <1>10, <1>11, <1>12 DEF S!Next

(* What is read of a panel key depends on that key of the file only. *)
LEMMA ResolveReads ==
    ASSUME NEW flags, NEW one, NEW two, NEW k \in PANEL_KEYS, one[k] = two[k]
    PROVE  S!Resolve(flags, one)[k] = S!Resolve(flags, two)[k]
BY DEF S!Resolve

(* A step that leaves every panel key of the file and of what runs. *)
LEMMA StillSaved ==
    ASSUME S!SavedIsRunning, env' = env, saved' => saved,
           running' # S!Stopped => running # S!Stopped,
           \A k \in PANEL_KEYS : file'[k] = file[k] /\ running'[k] = running[k]
    PROVE  S!SavedIsRunning'
BY ResolveReads DEF S!SavedIsRunning, S!Resolve

(* Each step keeps the panel's word. *)
LEMMA SavedStep == ASSUME S!SettingsAssumption, SettingsInv, [S!Next]_S!vars PROVE S!SavedIsRunning'
<1>0. SettingsTyped /\ S!SavedIsRunning /\ "retention" \notin PANEL_KEYS /\ PANEL_KEYS \subseteq S!Keys
    BY DEF SettingsInv, S!SettingsAssumption, S!Keys
<1>1. ASSUME NEW flags, S!Start(flags) PROVE S!SavedIsRunning'
    <2>1. \A k \in PANEL_KEYS : file'[k] = file[k] /\ running'[k] = S!Resolve(flags, file)[k]
        BY <1>0, <1>1 DEF S!Start, SettingsTyped, WholeFile
    <2>2. saved' => flags = S!NoFlags
        BY <1>1 DEF S!Start
    <2> QED BY <1>1, <2>1, <2>2 DEF S!SavedIsRunning, S!Resolve, S!Start
<1>2. CASE S!Stop
    BY <1>2 DEF S!Stop, S!SavedIsRunning
<1>3. CASE S!OpenPanel
    BY <1>0, <1>3, StillSaved DEF S!OpenPanel
<1>4. ASSUME NEW key, NEW value, S!Submit(key, value) PROVE S!SavedIsRunning'
    BY <1>0, <1>4, StillSaved DEF S!Submit
<1>5. CASE S!SaveForm
    <2>1. env' = env /\ running' = S!Adopt(S!Resolve(S!NoFlags, file'))
        BY <1>5 DEF S!SaveForm
    <2>2. \A k \in PANEL_KEYS : running'[k] = S!Resolve(S!NoFlags, file')[k]
        BY <1>0, <2>1 DEF S!Adopt
    <2> QED BY <2>1, <2>2 DEF S!SavedIsRunning, S!Resolve
<1>6. ASSUME NEW period, NEW confirm, S!ChangeRetention(period, confirm) PROVE S!SavedIsRunning'
    BY <1>0, <1>6, StillSaved DEF S!ChangeRetention, SettingsTyped, WholeFile
<1>7. ASSUME NEW key, NEW value, S!Command(key, value) PROVE S!SavedIsRunning'
    BY <1>0, <1>7, StillSaved DEF S!Command
<1>8. CASE S!SaveCommand
    BY <1>8 DEF S!SaveCommand, S!SavedIsRunning
<1>9. CASE S!NewRow
    BY <1>0, <1>9, StillSaved DEF S!NewRow
<1>10. CASE S!PruneNow
    BY <1>0, <1>10, StillSaved DEF S!PruneNow
<1>11. CASE S!NextDay
    BY <1>0, <1>11, StillSaved DEF S!NextDay
<1>12. CASE UNCHANGED S!vars
    BY <1>0, <1>12, StillSaved DEF S!vars
<1> QED
    BY <1>1, <1>2, <1>3, <1>4, <1>5, <1>6, <1>7, <1>8, <1>9, <1>10, <1>11, <1>12 DEF S!Next

LEMMA SettingsStep == ASSUME S!SettingsAssumption, SettingsInv, [S!Next]_S!vars PROVE SettingsInv'
BY SettingsTypedStep, AllAskedStep, SavedStep DEF SettingsInv

(* A prune takes no row that the shortest period asked for would keep.      *)
LEMMA PruneAsks == ASSUME S!SettingsAssumption, SettingsInv, [S!Next]_S!vars PROVE S!GoesAsAsked
<1> SUFFICES ASSUME NEW t \in rows \ rows' PROVE day - t > S!Min({asked, S!Longest})
    BY DEF S!GoesAsAsked
<1>1. S!PruneNow
    BY DEF S!vars, S!Next, S!Start, S!Stop, S!OpenPanel, S!Submit, S!SaveForm, S!ChangeRetention, S!Command,
           S!SaveCommand, S!NewRow, S!NextDay
<1>2. running.retention \in Periods /\ t < day - running.retention
    <2>1. running.retention \in Nat /\ t \in Int /\ day \in Nat
        BY <1>1, LongestIsLongest DEF S!PruneNow, SettingsInv, SettingsTyped
    <2> QED BY <1>1, <2>1 DEF S!PruneNow
<1>3. S!Min({asked, S!Longest}) <= running.retention
    BY <1>2, MinOfTwo, LongestIsLongest DEF SettingsInv, SettingsTyped, AllAsked, Asked
<1>4. S!Min({asked, S!Longest}) \in Nat
    BY MinOfTwo, LongestIsLongest DEF SettingsInv, SettingsTyped
<1> QED BY <1>2, <1>3, <1>4, LongestIsLongest DEF SettingsInv, SettingsTyped


Stages == {"idle", "asked", "fetch", "write", "note", "record", "done"}
Thread == [at : Stages, now : Nat, latest : Nat, error : BOOLEAN]

UpdatesTyped ==
    /\ time \in Nat /\ current \in Nat /\ pypi \in Nat
    /\ row \in [checked_ts : Nat, latest : Nat, error : BOOLEAN]
    /\ events \in Seq([from : Nat, to : Nat])
    /\ threads \in [Threads -> Thread]
    /\ told \in BOOLEAN

Event == [from |-> current, to |-> row.latest]

(* t will say what the row holds, or see that it was said. *)
Owes(t) == threads[t].at \in {"note", "record"} /\ threads[t].latest = row.latest

(* A check of this process has written the row. *)
Written == told \/ \E t \in Threads : threads[t].at \in {"note", "record", "done"}

Announced ==
    Written /\ U!IsNewer(row.latest, current) =>
        Event \in U!ToSet(events) \/ \E t \in Threads : Owes(t)

UpdatesInv == UpdatesTyped /\ Announced

(* What is recorded stays, and what is appended is recorded. *)
LEMMA Appended ==
    ASSUME NEW E, NEW s \in Seq(E), NEW e \in E
    PROVE  U!ToSet(Append(s, e)) = U!ToSet(s) \cup {e}
<1>1. DOMAIN Append(s, e) = DOMAIN s \cup {Len(s) + 1} /\ Len(s) + 1 \notin DOMAIN s
    OBVIOUS
<1>2. Append(s, e)[Len(s) + 1] = e /\ \A i \in DOMAIN s : Append(s, e)[i] = s[i]
    OBVIOUS
<1> QED BY <1>1, <1>2, Zenon DEF U!ToSet

(* Before any check there is nothing to announce. *)
LEMMA UpdatesBegin == ASSUME U!UpdatesAssumption PROVE U!Init => UpdatesInv
<1> SUFFICES ASSUME U!Init PROVE UpdatesInv
    OBVIOUS
<1>1. UpdatesTyped
    <2>1. U!Idle \in Thread
        BY DEF U!Idle, Thread, Stages, U!None
    <2>2. events \in Seq([from : Nat, to : Nat])
        BY DEF U!Init
    <2> QED BY <2>1, <2>2 DEF U!Init, UpdatesTyped, U!UpdatesAssumption, U!None
<1>2. ~Written
    BY DEF U!Init, Written, U!Idle
<1> QED BY <1>1, <1>2 DEF UpdatesInv, Announced

(* A step that moves neither the row, the version nor the events, and takes *)
(* no check out of the stages after the row, or only such as owe nothing.   *)
LEMMA Unmoved ==
    ASSUME UpdatesInv, UpdatesTyped', UNCHANGED <<row, current, events>>,
           Written' => Written,
           \A t \in Threads : Owes(t) => Owes(t)'
    PROVE  UpdatesInv'
BY DEF UpdatesInv, Announced, Event, U!IsNewer

(* Each step keeps the types. *)
LEMMA UpdatesTypedStep ==
    ASSUME U!UpdatesAssumption, UpdatesTyped, [U!Next]_U!vars
    PROVE  UpdatesTyped'
<1> USE DEF UpdatesTyped, U!UpdatesAssumption, U!None
<1>1. ASSUME NEW t \in Threads, U!Begin(t) PROVE UpdatesTyped'
    BY <1>1 DEF U!Begin, U!Idle, Thread, Stages
<1>2. CASE U!MaybeCheckUpdates
    BY <1>1, <1>2 DEF U!MaybeCheckUpdates
<1>3. ASSUME NEW t \in Threads, U!AboutCheck(t) PROVE UpdatesTyped'
    BY <1>1, <1>3 DEF U!AboutCheck
<1>4. ASSUME NEW t \in Threads, U!Decide(t) PROVE UpdatesTyped'
    <2>1. U!Idle \in Thread /\ threads[t] \in Thread
        BY DEF U!Idle, Thread, Stages
    <2>2. [threads[t] EXCEPT !.at = "fetch", !.latest = row.latest] \in Thread
        BY <2>1 DEF Thread, Stages
    <2>3. threads' \in [Threads -> Thread]
        BY <1>4, <2>1, <2>2, Zenon DEF U!Decide, U!StoredLatest
    <2> QED BY <1>4, <2>3 DEF U!Decide
<1>5. ASSUME NEW t \in Threads, NEW fails \in BOOLEAN, U!Fetch(t, fails) PROVE UpdatesTyped'
    <2> DEFINE fetched == [threads[t] EXCEPT !.at = "write", !.error = fails,
                              !.latest = IF fails THEN threads[t].latest ELSE pypi]
    <2>1. fetched \in Thread
        BY DEF Thread, Stages
    <2>2. threads' = [threads EXCEPT ![t] = fetched] /\ UNCHANGED <<time, current, pypi, row, events, told>>
        BY <1>5 DEF U!Fetch, fetched
    <2> HIDE DEF fetched
    <2>3. threads' \in [Threads -> Thread]
        BY <2>1, <2>2
    <2> QED BY <2>2, <2>3
<1>6. ASSUME NEW t \in Threads, U!WriteUpdateCheck(t) PROVE UpdatesTyped'
    BY <1>6 DEF U!WriteUpdateCheck, Thread, Stages
<1>7. ASSUME NEW t \in Threads, U!NoteAvailable(t) PROVE UpdatesTyped'
    <2>1. PICK next \in {"record", "done"} : threads' = [threads EXCEPT ![t].at = next]
        BY <1>7 DEF U!NoteAvailable
    <2>2. [threads[t] EXCEPT !.at = next] \in Thread
        BY DEF Thread, Stages
    <2>3. threads' \in [Threads -> Thread]
        BY <2>1, <2>2
    <2> QED BY <1>7, <2>3 DEF U!NoteAvailable
<1>8. ASSUME NEW t \in Threads, U!RecordEvent(t) PROVE UpdatesTyped'
    <2>1. threads[t].latest \in Nat
        BY DEF Thread
    <2>2. [from |-> current, to |-> threads[t].latest] \in [from : Nat, to : Nat]
        BY <2>1
    <2>3. events' \in Seq([from : Nat, to : Nat])
        BY <1>8, <2>2 DEF U!RecordEvent
    <2>4. threads' \in [Threads -> Thread]
        BY <1>8 DEF U!RecordEvent, Thread, Stages
    <2> QED BY <1>8, <2>3, <2>4 DEF U!RecordEvent
<1>9. ASSUME NEW t \in Threads, U!Finish(t) PROVE UpdatesTyped'
    BY <1>9 DEF U!Finish, U!Idle, Thread, Stages
<1>10. ASSUME NEW version \in Releases, U!Restart(version) PROVE UpdatesTyped'
    BY <1>10 DEF U!Restart, U!Idle, Thread, Stages
<1>11. CASE U!Release
    BY <1>11 DEF U!Release
<1>12. CASE U!Tick
    BY <1>12 DEF U!Tick
<1>13. CASE UNCHANGED U!vars
    BY <1>13 DEF U!vars
<1> QED
    BY <1>2, <1>3, <1>4, <1>5, <1>6, <1>7, <1>8, <1>9, <1>10, <1>11, <1>12, <1>13
       DEF U!Next, U!Check

(* Each step keeps the account of who owes the event. *)
LEMMA UpdatesStep == ASSUME U!UpdatesAssumption, UpdatesInv, [U!Next]_U!vars PROVE UpdatesInv'
<1>0. UpdatesTyped /\ UpdatesTyped'
    BY UpdatesTypedStep DEF UpdatesInv
<1>1. ASSUME NEW t \in Threads, U!Begin(t), threads[t].at = "idle" PROVE UpdatesInv'
    <2>1. Written' => Written
        BY <1>0, <1>1 DEF U!Begin, U!Idle, Written, UpdatesTyped, Thread
    <2>2. \A s \in Threads : Owes(s) => Owes(s)'
        BY <1>0, <1>1 DEF U!Begin, U!Idle, Owes, UpdatesTyped, Thread
    <2> QED BY <1>0, <1>1, <2>1, <2>2, Unmoved DEF U!Begin
<1>2. CASE U!MaybeCheckUpdates
    BY <1>1, <1>2 DEF U!MaybeCheckUpdates, U!UpdatesAssumption
<1>3. ASSUME NEW t \in Threads, U!AboutCheck(t) PROVE UpdatesInv'
    BY <1>1, <1>3 DEF U!AboutCheck
<1>4. ASSUME NEW t \in Threads, U!Decide(t) PROVE UpdatesInv'
    <2>1. Written' => Written
        BY <1>0, <1>4 DEF U!Decide, U!Idle, Written, UpdatesTyped, Thread
    <2>2. \A s \in Threads : Owes(s) => Owes(s)'
        BY <1>0, <1>4 DEF U!Decide, U!Idle, Owes, UpdatesTyped, Thread
    <2> QED BY <1>0, <1>4, <2>1, <2>2, Unmoved DEF U!Decide
<1>5. ASSUME NEW t \in Threads, NEW fails \in BOOLEAN, U!Fetch(t, fails) PROVE UpdatesInv'
    <2>1. Written' => Written
        BY <1>0, <1>5 DEF U!Fetch, Written, UpdatesTyped, Thread
    <2>2. \A s \in Threads : Owes(s) => Owes(s)'
        BY <1>0, <1>5 DEF U!Fetch, Owes, UpdatesTyped, Thread
    <2> QED BY <1>0, <1>5, <2>1, <2>2, Unmoved DEF U!Fetch
<1>6. ASSUME NEW t \in Threads, U!WriteUpdateCheck(t) PROVE UpdatesInv'
    <2>1. Owes(t)'
        BY <1>0, <1>6 DEF U!WriteUpdateCheck, Owes, UpdatesTyped, Thread
    <2> QED BY <1>0, <2>1 DEF UpdatesInv, Announced
<1>7. ASSUME NEW t \in Threads, U!NoteAvailable(t) PROVE UpdatesInv'
    <2>1. threads[t].at = "note" /\ UNCHANGED <<row, current, events, told>>
        BY <1>7 DEF U!NoteAvailable
    <2>2. Written
        BY <2>1 DEF Written
    <2>3. \A s \in Threads \ {t} : Owes(s) => Owes(s)'
        BY <1>0, <1>7 DEF U!NoteAvailable, Owes, UpdatesTyped, Thread
    <2>4. ASSUME Owes(t), U!IsNewer(row.latest, current), Event \notin U!ToSet(events)
          PROVE  Owes(t)'
        BY <1>0, <1>7, <2>4 DEF U!NoteAvailable, Owes, UpdatesTyped, Thread, Event
    <2> QED BY <1>0, <2>1, <2>2, <2>3, <2>4 DEF UpdatesInv, Announced, Event
<1>8. ASSUME NEW t \in Threads, U!RecordEvent(t) PROVE UpdatesInv'
    <2>1. threads[t].at = "record" /\ UNCHANGED <<row, current, told>>
        BY <1>8 DEF U!RecordEvent
    <2>2. Written
        BY <2>1 DEF Written
    <2>3. \A s \in Threads \ {t} : Owes(s) => Owes(s)'
        BY <1>0, <1>8 DEF U!RecordEvent, Owes, UpdatesTyped, Thread
    <2> DEFINE e == [from |-> current, to |-> threads[t].latest]
    <2>4. U!ToSet(events') = U!ToSet(events) \cup {e}
        <3>1. threads[t].latest \in Nat /\ current \in Nat
            BY <1>0 DEF UpdatesTyped, Thread
        <3>2. e \in [from : Nat, to : Nat]
            BY <3>1
        <3>3. events' = Append(events, e) /\ events \in Seq([from : Nat, to : Nat])
            BY <1>0, <1>8 DEF U!RecordEvent, UpdatesTyped
        <3> DEFINE Pairs == [from : Nat, to : Nat]
        <3> HIDE DEF e, Pairs
        <3>4. events \in Seq(Pairs) /\ e \in Pairs
            BY <3>2, <3>3 DEF Pairs
        <3>5. U!ToSet(Append(events, e)) = U!ToSet(events) \cup {e}
            BY <3>4, Appended
        <3> QED BY <3>3, <3>5
    <2>5. Owes(t) => Event \in U!ToSet(events')
        BY <2>4 DEF Owes, Event
    <2> QED BY <1>0, <2>1, <2>2, <2>3, <2>4, <2>5 DEF UpdatesInv, Announced, Event
<1>9. ASSUME NEW t \in Threads, U!Finish(t) PROVE UpdatesInv'
    <2>1. threads[t].at = "done" /\ UNCHANGED <<row, current, events>>
        BY <1>9 DEF U!Finish
    <2>2. Written
        BY <2>1 DEF Written
    <2>3. \A s \in Threads : Owes(s) => Owes(s)'
        BY <1>0, <1>9 DEF U!Finish, Owes, UpdatesTyped, Thread
    <2> QED BY <1>0, <2>1, <2>2, <2>3, Unmoved
<1>10. ASSUME NEW version \in Releases, U!Restart(version) PROVE UpdatesInv'
    <2>1. ~Written'
        BY <1>0, <1>10 DEF U!Restart, Written, U!Idle
    <2> QED BY <1>0, <2>1 DEF UpdatesInv, Announced
<1>11. ASSUME UNCHANGED <<row, current, events, threads, told>> PROVE UpdatesInv'
    <2>1. Written' => Written
        BY <1>11 DEF Written
    <2>2. \A s \in Threads : Owes(s) => Owes(s)'
        BY <1>11 DEF Owes
    <2> QED BY <1>0, <1>11, <2>1, <2>2, Unmoved
<1>12. CASE U!Release
    BY <1>11, <1>12 DEF U!Release
<1>13. CASE U!Tick
    BY <1>11, <1>13 DEF U!Tick
<1>14. CASE UNCHANGED U!vars
    BY <1>11, <1>14 DEF U!vars
<1> QED
    BY <1>2, <1>3, <1>4, <1>5, <1>6, <1>7, <1>8, <1>9, <1>10, <1>12, <1>13, <1>14
       DEF U!Next, U!Check

LEMMA UpdatesSafe == UpdatesInv => U!AvailableIsAnnounced
BY DEF UpdatesInv, UpdatesTyped, Announced, Written, Owes, U!AvailableIsAnnounced, U!Busy, Event


(* Without an overlap one check runs at a time, and what it is about to     *)
(* record is recorded nowhere.                                             *)
Alone ==
    ~overlapped =>
        /\ U!IsInjective(events)
        /\ \A s, t \in Threads : threads[s].at # "idle" /\ threads[t].at # "idle" => s = t
        /\ \A t \in Threads : threads[t].at = "record" =>
              [from |-> current, to |-> threads[t].latest] \notin U!ToSet(events)

LEMMA AppendedOnce ==
    ASSUME NEW E, NEW s \in Seq(E), NEW e \in E, U!IsInjective(s), e \notin U!ToSet(s)
    PROVE  U!IsInjective(Append(s, e))
<1>1. DOMAIN Append(s, e) = DOMAIN s \cup {Len(s) + 1}
    OBVIOUS
<1>2. Append(s, e)[Len(s) + 1] = e /\ \A i \in DOMAIN s : Append(s, e)[i] = s[i]
    OBVIOUS
<1>3. \A i \in DOMAIN s : s[i] # e
    BY DEF U!ToSet
<1>4. ASSUME NEW a \in DOMAIN s \cup {Len(s) + 1}, NEW b \in DOMAIN s \cup {Len(s) + 1},
             Append(s, e)[a] = Append(s, e)[b]
      PROVE  a = b
    <2>1. CASE a \in DOMAIN s /\ b \in DOMAIN s
        BY <1>2, <1>4, <2>1, Zenon DEF U!IsInjective
    <2>2. CASE a = Len(s) + 1 \/ b = Len(s) + 1
        BY <1>2, <1>3, <1>4, <2>2, Zenon
    <2> QED BY <1>4, <2>1, <2>2
<1> QED BY <1>1, <1>4, Zenon DEF U!IsInjective

LEMMA AloneBegin == ASSUME U!UpdatesAssumption, U!Init PROVE Alone
BY DEF U!Init, Alone, U!Idle, U!IsInjective

(* No step but the start of a check makes a thread busy. *)
LEMMA AloneQuiet ==
    ASSUME UpdatesTyped, Alone, UNCHANGED <<events, overlapped>>,
           \A t \in Threads : threads'[t].at # "idle" => threads[t].at # "idle",
           \A t \in Threads : threads'[t].at = "record" =>
                [from |-> current', to |-> threads'[t].latest] \notin U!ToSet(events)
    PROVE  Alone'
BY Zenon DEF Alone

LEMMA AloneStep == ASSUME U!UpdatesAssumption, UpdatesTyped, Alone, [U!Next]_U!vars PROVE Alone'
<1> USE DEF UpdatesTyped, Thread
<1>1. ASSUME NEW t \in Threads, U!Begin(t), threads[t].at = "idle" PROVE Alone'
    <2>1. /\ threads'[t].at = "asked"
          /\ \A s \in Threads \ {t} : threads'[s] = threads[s]
        BY <1>1 DEF U!Begin, U!Idle
    <2> QED BY <1>1, <2>1 DEF Alone, U!Begin, U!Busy
<1>2. CASE U!MaybeCheckUpdates
    BY <1>1, <1>2 DEF U!MaybeCheckUpdates, U!UpdatesAssumption
<1>3. ASSUME NEW t \in Threads, U!AboutCheck(t) PROVE Alone'
    BY <1>1, <1>3 DEF U!AboutCheck
<1>4. ASSUME NEW t \in Threads, threads[t].at # "idle", threads'[t].at # "record",
             \A s \in Threads \ {t} : threads'[s] = threads[s],
             UNCHANGED <<events, overlapped, current>>
      PROVE  Alone'
    <2>1. CASE ~overlapped
        BY <1>4, <2>1, AloneQuiet, Zenon DEF Alone
    <2>2. CASE overlapped
        BY <1>4, <2>2 DEF Alone
    <2> QED BY <2>1, <2>2
<1>5. ASSUME NEW t \in Threads, U!Decide(t) PROVE Alone'
    <2>1. /\ threads[t].at = "asked" /\ threads'[t].at # "record"
          /\ \A s \in Threads \ {t} : threads'[s] = threads[s]
        BY <1>5 DEF U!Decide, U!Idle
    <2> QED BY <1>4, <1>5, <2>1 DEF U!Decide
<1>6. ASSUME NEW t \in Threads, NEW fails \in BOOLEAN, U!Fetch(t, fails) PROVE Alone'
    BY <1>4, <1>6 DEF U!Fetch
<1>7. ASSUME NEW t \in Threads, U!WriteUpdateCheck(t) PROVE Alone'
    BY <1>4, <1>7 DEF U!WriteUpdateCheck
<1>8. ASSUME NEW t \in Threads, U!NoteAvailable(t) PROVE Alone'
    <2>1. /\ threads[t].at = "note" /\ threads'[t].latest = threads[t].latest
          /\ threads'[t].at = "record" =>
                [from |-> current, to |-> threads[t].latest] \notin U!ToSet(events)
          /\ \A s \in Threads \ {t} : threads'[s] = threads[s]
          /\ UNCHANGED <<events, overlapped, current>>
        BY <1>8 DEF U!NoteAvailable
    <2>2. CASE ~overlapped
        BY <2>1, <2>2, AloneQuiet, Zenon DEF Alone
    <2>3. CASE overlapped
        BY <2>1, <2>3 DEF Alone
    <2> QED BY <2>2, <2>3
<1>9. ASSUME NEW t \in Threads, U!RecordEvent(t) PROVE Alone'
    <2> DEFINE e == [from |-> current, to |-> threads[t].latest]
    <2>1. SUFFICES ASSUME ~overlapped PROVE Alone'
        BY <1>9 DEF Alone, U!RecordEvent
    <2>2. e \in [from : Nat, to : Nat]
        OBVIOUS
    <2>3. /\ threads[t].at = "record" /\ threads'[t].at = "done"
          /\ \A s \in Threads \ {t} : threads'[s] = threads[s]
          /\ events' = Append(events, e)
        BY <1>9 DEF U!RecordEvent
    <2>4. e \notin U!ToSet(events) /\ U!IsInjective(events)
        BY <2>1, <2>3 DEF Alone
    <2> DEFINE Pairs == [from : Nat, to : Nat]
    <2> HIDE DEF e, Pairs
    <2>x. events \in Seq(Pairs) /\ e \in Pairs
        BY <2>2 DEF Pairs
    <2>y. U!IsInjective(Append(events, e))
        BY <2>4, <2>x, AppendedOnce
    <2>5. U!IsInjective(events')
        BY <2>3, <2>y
    <2>6. \A s \in Threads : threads'[s].at # "record"
        BY <2>1, <2>3 DEF Alone
    <2>7. \A s \in Threads : threads'[s].at # "idle" => threads[s].at # "idle"
        BY <2>3
    <2> QED BY <2>1, <2>5, <2>6, <2>7, Zenon DEF Alone
<1>10. ASSUME NEW t \in Threads, U!Finish(t) PROVE Alone'
    BY <1>4, <1>10 DEF U!Finish, U!Idle
<1>11. ASSUME NEW version \in Releases, U!Restart(version) PROVE Alone'
    BY <1>11, AloneQuiet DEF U!Restart, U!Idle, Alone
<1>12. ASSUME UNCHANGED <<current, events, threads, overlapped>> PROVE Alone'
    BY <1>12 DEF Alone
<1>13. CASE U!Release
    BY <1>12, <1>13 DEF U!Release
<1>14. CASE U!Tick
    BY <1>12, <1>14 DEF U!Tick
<1>15. CASE UNCHANGED U!vars
    BY <1>12, <1>15 DEF U!vars
<1> QED
    BY <1>2, <1>3, <1>5, <1>6, <1>7, <1>8, <1>9, <1>10, <1>11, <1>13, <1>14, <1>15
       DEF U!Next, U!Check

Answer == States \cup {UNKNOWN}

(* f is the number of answers of s since its last understood one. *)
Counts(s, f) ==
    /\ f <= Len(s)
    /\ \A j \in DOMAIN s : j > Len(s) - f => s[j] = UNKNOWN
    /\ f < Len(s) => s[Len(s) - f] # UNKNOWN

(* What a row shows after the answers s, of which the last f failed. *)
Shown(s, f) ==
    IF f < FAILURES_BEFORE_UNKNOWN /\ f < Len(s) THEN s[Len(s) - f] ELSE UNKNOWN

StatusTyped ==
    /\ answers \in [V!Vendors -> Seq(Answer)]
    /\ failures \in [V!Vendors -> Nat]

StatusInv ==
    /\ StatusTyped
    /\ \A v \in V!Vendors :
          /\ Counts(answers[v], failures[v])
          /\ v \in DOMAIN cache <=> answers[v] # <<>>
          /\ v \in DOMAIN cache => cache[v].state = Shown(answers[v], failures[v])

LEMMA StatusBegin == ASSUME V!VendorAssumption, V!Init PROVE StatusInv
<1>1. StatusTyped
    BY DEF V!Init, V!FreshCache, StatusTyped
<1> QED BY <1>1 DEF V!Init, V!FreshCache, StatusInv, Counts

(* One failure more: the count goes up, the row keeps what it shows until   *)
(* there are enough.                                                       *)
LEMMA OneMoreFailure ==
    ASSUME NEW s \in Seq(Answer), NEW f \in Nat, Counts(s, f),
           FAILURES_BEFORE_UNKNOWN \in Nat
    PROVE  LET t == Append(s, UNKNOWN)
           IN  /\ Counts(t, f + 1)
               /\ Shown(t, f + 1) = IF f + 1 < FAILURES_BEFORE_UNKNOWN /\ s # <<>>
                                    THEN Shown(s, f) ELSE UNKNOWN
<1> DEFINE t == Append(s, UNKNOWN)
<1>1. /\ Len(t) = Len(s) + 1 /\ t[Len(s) + 1] = UNKNOWN /\ Len(s) \in Nat
      /\ \A j \in 1..Len(s) : t[j] = s[j]
      /\ DOMAIN t = 1..(Len(s) + 1) /\ DOMAIN s = 1..Len(s)
      /\ s # <<>> <=> Len(s) > 0
    OBVIOUS
<1> HIDE DEF t
<1>2. Counts(t, f + 1)
    BY <1>1 DEF Counts
<1>3. Shown(t, f + 1) = IF f + 1 < FAILURES_BEFORE_UNKNOWN /\ s # <<>> THEN Shown(s, f) ELSE UNKNOWN
    BY <1>1 DEF Counts, Shown
<1> QED BY <1>2, <1>3 DEF t

LEMMA UnderstoodAnswer ==
    ASSUME NEW s \in Seq(Answer), NEW a \in Answer, a # UNKNOWN,
           FAILURES_BEFORE_UNKNOWN \in Nat \ {0}
    PROVE  Counts(Append(s, a), 0) /\ Shown(Append(s, a), 0) = a
<1> DEFINE t == Append(s, a)
<1>1. Len(t) = Len(s) + 1 /\ t[Len(s) + 1] = a /\ Len(s) \in Nat /\ DOMAIN t = 1..(Len(s) + 1)
    OBVIOUS
<1> HIDE DEF t
<1>2. Counts(t, 0) /\ Shown(t, 0) = a
    BY <1>1 DEF Counts, Shown
<1> QED BY <1>2 DEF t

LEMMA AnswerStep ==
    ASSUME V!VendorAssumption, StatusInv, NEW answer \in Answer, V!CheckOne(answer)
    PROVE  StatusInv'
<1> DEFINE a == Head(round.todo)
<1>0. StatusTyped /\ FAILURES_BEFORE_UNKNOWN \in Nat \ {0}
    BY DEF StatusInv, V!VendorAssumption
<1>1. answers' = [answers EXCEPT ![a] = Append(@, answer)]
    BY DEF V!CheckOne
<1>2. IF answer = UNKNOWN THEN V!RecordFailure(a) ELSE V!RecordAnswer(a, answer)
    BY DEF V!CheckOne
<1> HIDE DEF a
<1>3. StatusTyped'
    <2>1. answers \in [V!Vendors -> Seq(Answer)] /\ failures \in [V!Vendors -> Nat]
        BY <1>0 DEF StatusTyped
    <2>2. a \in V!Vendors => Append(answers[a], answer) \in Seq(Answer)
        BY <2>1
    <2>3. answers' \in [V!Vendors -> Seq(Answer)]
        <3> DEFINE n == Append(answers[a], answer)
                   All == Seq(Answer)
        <3>1. answers' = [answers EXCEPT ![a] = n] /\ (a \in V!Vendors => n \in All)
            BY <1>1, <2>2
        <3> HIDE DEF n
        <3>2. answers \in [V!Vendors -> All]
            BY <2>1
        <3> HIDE DEF All
        <3>3. answers' \in [V!Vendors -> All]
            BY <3>1, <3>2
        <3> QED BY <3>3 DEF All
    <2>4. failures' = [failures EXCEPT ![a] = IF answer = UNKNOWN THEN failures[a] + 1 ELSE 0]
        BY <1>2 DEF V!RecordFailure, V!RecordAnswer
    <2>5. failures' \in [V!Vendors -> Nat]
        <3> DEFINE n == IF answer = UNKNOWN THEN failures[a] + 1 ELSE 0
        <3>1. failures' = [failures EXCEPT ![a] = n] /\ (a \in V!Vendors => n \in Nat)
            BY <2>1, <2>4
        <3> HIDE DEF n
        <3> QED BY <2>1, <3>1
    <2> QED BY <2>3, <2>5 DEF StatusTyped
<1>4. ASSUME NEW v \in V!Vendors, v # a
      PROVE  /\ answers'[v] = answers[v] /\ failures'[v] = failures[v]
             /\ v \in DOMAIN cache' <=> v \in DOMAIN cache
             /\ v \in DOMAIN cache => cache'[v] = cache[v]
    BY <1>0, <1>1, <1>2, <1>4 DEF StatusTyped, V!RecordFailure, V!RecordAnswer, V!Answered
<1>5. ASSUME a \in V!Vendors
      PROVE  /\ Counts(answers'[a], failures'[a]) /\ a \in DOMAIN cache' /\ answers'[a] # <<>>
             /\ cache'[a].state = Shown(answers'[a], failures'[a])
    <2>1. answers[a] \in Seq(Answer) /\ failures[a] \in Nat
        BY <1>0, <1>5 DEF StatusTyped
    <2>2. answers'[a] = Append(answers[a], answer)
        BY <1>0, <1>1, <1>5 DEF StatusTyped
    <2>3. answers'[a] # <<>>
        BY <2>1, <2>2
    <2>4. /\ Counts(answers[a], failures[a])
          /\ a \in DOMAIN cache <=> answers[a] # <<>>
          /\ a \in DOMAIN cache => cache[a].state = Shown(answers[a], failures[a])
        BY <1>5 DEF StatusInv
    <2>5. CASE answer # UNKNOWN
        <3>1. /\ failures'[a] = 0
              /\ a \in DOMAIN cache' /\ cache'[a].state = answer
            BY <1>0, <1>2, <1>5, <2>5 DEF StatusTyped, V!RecordAnswer, V!Answered
        <3> QED BY <1>0, <2>1, <2>2, <2>3, <2>5, <3>1, UnderstoodAnswer
    <2>6. CASE answer = UNKNOWN
        <3>1. /\ failures'[a] = failures[a] + 1
              /\ a \in DOMAIN cache'
              /\ cache'[a].state = IF failures[a] + 1 < FAILURES_BEFORE_UNKNOWN /\ a \in DOMAIN cache
                                   THEN cache[a].state ELSE UNKNOWN
            <4>1. V!RecordFailure(a)
                BY <1>2, <2>6
            <4>2. CASE failures[a] + 1 < FAILURES_BEFORE_UNKNOWN /\ a \in DOMAIN cache
                BY <1>0, <1>5, <4>1, <4>2 DEF StatusTyped, V!RecordFailure
            <4>3. CASE ~(failures[a] + 1 < FAILURES_BEFORE_UNKNOWN /\ a \in DOMAIN cache)
                BY <1>0, <1>5, <4>1, <4>3 DEF StatusTyped, V!RecordFailure, V!Answered
            <4> QED BY <4>2, <4>3
        <3>2. /\ Counts(answers'[a], failures'[a])
              /\ Shown(answers'[a], failures'[a]) =
                    IF failures[a] + 1 < FAILURES_BEFORE_UNKNOWN /\ answers[a] # <<>>
                    THEN Shown(answers[a], failures[a]) ELSE UNKNOWN
            BY <1>0, <2>1, <2>2, <2>4, <2>6, <3>1, OneMoreFailure
        <3> QED BY <2>3, <2>4, <3>1, <3>2
    <2> QED BY <2>5, <2>6
<1>6. ASSUME NEW v \in V!Vendors
      PROVE  /\ Counts(answers'[v], failures'[v])
             /\ v \in DOMAIN cache' <=> answers'[v] # <<>>
             /\ v \in DOMAIN cache' => cache'[v].state = Shown(answers'[v], failures'[v])
    <2>1. CASE v = a
        BY <1>5, <2>1
    <2>2. CASE v # a
        <3>1. /\ Counts(answers[v], failures[v])
              /\ v \in DOMAIN cache <=> answers[v] # <<>>
              /\ v \in DOMAIN cache => cache[v].state = Shown(answers[v], failures[v])
            BY DEF StatusInv
        <3> QED BY <1>4, <2>2, <3>1
    <2> QED BY <2>1, <2>2
<1> QED BY <1>3, <1>6, Zenon DEF StatusInv

LEMMA StatusStep == ASSUME V!VendorAssumption, StatusInv, [V!Next]_V!vars PROVE StatusInv'
<1>1. ASSUME UNCHANGED <<cache, failures, answers>> PROVE StatusInv'
    BY <1>1, Zenon DEF StatusInv, StatusTyped
<1>2. CASE V!StartRound
    BY <1>1, <1>2 DEF V!StartRound
<1>3. CASE V!CheckAll
    BY <1>1, <1>3 DEF V!CheckAll
<1>4. ASSUME NEW answer \in Answer, V!CheckOne(answer) PROVE StatusInv'
    BY <1>4, AnswerStep
<1>5. ASSUME NEW on \in BOOLEAN, NEW keys \in SUBSET V!Vendors, V!Configure(on, keys)
      PROVE  StatusInv'
    BY <1>1, <1>5 DEF V!Configure
<1>6. CASE V!Tick
    BY <1>1, <1>6 DEF V!Tick
<1>7. CASE UNCHANGED V!vars
    BY <1>1, <1>7 DEF V!vars
<1> QED BY <1>2, <1>3, <1>4, <1>5, <1>6, <1>7 DEF V!Next, Answer

LEMMA StatusSafe == ASSUME V!VendorAssumption, StatusInv PROVE V!RowTellsLastAnswers
<1> SUFFICES ASSUME NEW v \in V!Vendors, v \in DOMAIN cache
             PROVE  cache[v].state \in IF V!Recent(v) = {} THEN {UNKNOWN}
                                       ELSE {answers[v][i] : i \in V!Recent(v)}
    BY DEF StatusInv, V!RowTellsLastAnswers
<1>1. /\ answers[v] \in Seq(Answer) /\ failures[v] \in Nat
      /\ FAILURES_BEFORE_UNKNOWN \in Nat
    BY DEF StatusInv, StatusTyped, V!VendorAssumption
<1>2. Counts(answers[v], failures[v]) /\ cache[v].state = Shown(answers[v], failures[v])
    BY DEF StatusInv
<1>3. ASSUME NEW s \in Seq(Answer), NEW f \in Nat, Counts(s, f)
      PROVE  {i \in DOMAIN s : /\ s[i] # UNKNOWN
                               /\ \A j \in i + 1 .. Len(s) : s[j] = UNKNOWN
                               /\ Len(s) - i < FAILURES_BEFORE_UNKNOWN}
             = IF f < FAILURES_BEFORE_UNKNOWN /\ f < Len(s) THEN {Len(s) - f} ELSE {}
    <2>1. Len(s) \in Nat /\ DOMAIN s = 1..Len(s)
        OBVIOUS
    <2>2. ASSUME NEW i \in DOMAIN s, s[i] # UNKNOWN, \A j \in i + 1 .. Len(s) : s[j] = UNKNOWN
          PROVE  i = Len(s) - f /\ f < Len(s)
        <3>1. i <= Len(s) - f
            BY <1>3, <2>1, <2>2 DEF Counts
        <3>2. f < Len(s) /\ Len(s) - f \in DOMAIN s /\ s[Len(s) - f] # UNKNOWN
            BY <1>3, <2>1, <3>1 DEF Counts
        <3>3. ~(Len(s) - f > i)
            BY <2>1, <2>2, <3>2
        <3> QED BY <2>1, <3>1, <3>2, <3>3
    <2>3. ASSUME f < Len(s)
          PROVE  Len(s) - f \in DOMAIN s /\ s[Len(s) - f] # UNKNOWN
                 /\ \A j \in Len(s) - f + 1 .. Len(s) : s[j] = UNKNOWN
        BY <1>3, <2>1, <2>3 DEF Counts
    <2> QED BY <1>1, <2>1, <2>2, <2>3
<1>4. V!Recent(v) = IF failures[v] < FAILURES_BEFORE_UNKNOWN /\ failures[v] < Len(answers[v])
                  THEN {Len(answers[v]) - failures[v]} ELSE {}
    BY <1>1, <1>2, <1>3 DEF V!Recent
<1> QED BY <1>2, <1>4 DEF Shown

(* A set of natural numbers has a smallest element, and one that is bounded *)
(* has a largest.                                                          *)
LEMMA LeastThereIs ==
    ASSUME NEW N \in SUBSET Nat, N # {}
    PROVE  \E x \in N : \A y \in N : x <= y
<1> DEFINE R == OpToRel(<, Nat)
<1>1. \A x, y \in Nat : <<x, y>> \in R <=> x < y
    BY DEF OpToRel
<1>2. IsWellFoundedOn(R, Nat)
    BY NatLessThanWellFounded
<1> HIDE DEF R
<1>3. PICK x \in N : \A y \in N : ~(<<y, x>> \in R)
    BY <1>2, WFMin
<1>4. ASSUME NEW y \in N PROVE x <= y
    <2>1. x \in Nat /\ y \in Nat /\ ~(<<y, x>> \in R)
        BY <1>3
    <2>2. ~(y < x)
        BY <1>1, <2>1
    <2> QED BY <2>1, <2>2
<1> QED BY <1>4

LEMMA LargestThereIs ==
    ASSUME NEW n \in Nat, NEW N \in SUBSET (0..n), N # {}
    PROVE  \E x \in N : \A y \in N : y <= x
<1> DEFINE Below == {n - x : x \in N}
<1>1. Below \in SUBSET Nat /\ Below # {}
    <2>1. \A x \in N : n - x \in Nat
        OBVIOUS
    <2> QED BY <2>1
<1>2. PICK b \in Below : \A y \in Below : b <= y
    BY <1>1, LeastThereIs
<1>3. PICK x \in N : b = n - x
    OBVIOUS
<1>4. ASSUME NEW y \in N PROVE y <= x
    <2>1. n - y \in Below
        OBVIOUS
    <2>2. n - x <= n - y
        BY <1>2, <1>3, <2>1
    <2>3. x \in Int /\ y \in Int
        OBVIOUS
    <2> HIDE DEF Below
    <2> QED BY <2>2, <2>3
<1> QED BY <1>4

LEMMA MaxOfTimes ==
    ASSUME NEW n \in Nat, NEW N \in SUBSET (0..n), N # {}
    PROVE  P!Max(N) \in N /\ \A y \in N : y <= P!Max(N)
BY LargestThereIs DEF P!Max

LEMMA MinOfTimes ==
    ASSUME NEW N \in SUBSET Nat, N # {}
    PROVE  P!Min(N) \in N /\ \A y \in N : P!Min(N) <= y
BY LeastThereIs DEF P!Min

LEMMA SameCount == \A N : P!Cardinality(N) = Cardinality(N)
BY DEF P!Cardinality, Cardinality

Marks == Seq(BOOLEAN)

(* Presence: the rows and marks are what the polls and checks wrote, the    *)
(* marks of a window take turns, and they agree with what is shown while   *)
(* nothing but a prune has happened since the last check.                  *)
PresenceTyped ==
    /\ now \in Nat
    /\ \A r \in quota : r.ts \in 0..now /\ r.window \in P!Told
    /\ marks \in [P!Told -> Marks]
    /\ granted \in {P!Never} \cup 0..now

TakeTurns ==
    /\ \A w \in P!Told : \A i \in DOMAIN marks[w] : marks[w][i] <=> i % 2 = 1
    /\ marks[RATE_WINDOW] = <<>>

MarksAgree == settled => \A w \in P!Seen : P!WasGone(w) <=> w \notin P!CurrentWindows

PresenceInv == PresenceTyped /\ TakeTurns /\ MarksAgree /\ P!GrantIsNoWindow

LEMMA SeenTold == ASSUME PresenceTyped PROVE P!Seen \subseteq P!Told /\ P!PollTimes \subseteq 0..now
BY DEF PresenceTyped, P!Seen, P!PollTimes

LEMMA FinitePolls ==
    ASSUME PresenceTyped
    PROVE  IsFiniteSet(P!PollTimes) /\ P!PollTimes \in SUBSET Nat
<1>1. now \in Nat /\ P!PollTimes \subseteq 0..now
    BY SeenTold DEF PresenceTyped
<1>2. IsFiniteSet(0..now)
    BY <1>1, FS_Interval
<1>3. IsFiniteSet(P!PollTimes)
    BY <1>1, <1>2, FS_Subset
<1>4. P!PollTimes \in SUBSET Nat
    BY <1>1
<1> QED BY <1>3, <1>4

LEMMA NextIsOdd == ASSUME NEW k \in Nat PROVE (k + 1) % 2 = 1 <=> ~(k % 2 = 1)
OBVIOUS

LEMMA RateStays ==
    ASSUME P!PresenceAssumption, RATE_WINDOW \in P!Seen
    PROVE  RATE_WINDOW \in P!CurrentWindows
BY DEF P!CurrentWindows

LEMMA PresenceBegin == ASSUME P!PresenceAssumption, P!Init PROVE PresenceInv
<1>1. PresenceTyped
    BY DEF P!Init, PresenceTyped, Marks, P!Never
<1>2. TakeTurns
    BY DEF P!Init, TakeTurns, P!Told, P!Windows
<1>3. MarksAgree /\ P!GrantIsNoWindow
    BY DEF P!Init, MarksAgree, P!GrantIsNoWindow, P!Seen
<1> QED BY <1>1, <1>2, <1>3 DEF PresenceInv

(* A check turns every window's mark at most once, and the session's never. *)
LEMMA CheckKeeps ==
    ASSUME P!PresenceAssumption, PresenceInv, P!CheckGoneWindows
    PROVE  PresenceInv'
<1> USE DEF PresenceInv
<1> DEFINE turned == {w \in P!Seen : (w \notin P!CurrentWindows) # P!WasGone(w)}
<1>1. PICK put \in SUBSET turned :
          /\ marks' = [w \in P!Told |-> IF w \in put THEN Append(marks[w], ~P!WasGone(w)) ELSE marks[w]]
          /\ settled' = (put = turned)
    BY DEF P!CheckGoneWindows
<1>2. UNCHANGED <<now, quota, granted>>
    BY DEF P!CheckGoneWindows
<1>3. put \subseteq P!Told /\ P!Seen \subseteq P!Told
    BY SeenTold
<1>4. \A w \in P!Told : marks[w] \in Marks /\ P!WasGone(w) \in BOOLEAN
    BY DEF PresenceTyped, Marks, P!WasGone
<1>5. PresenceTyped'
    <2>1. \A w \in P!Told : Append(marks[w], ~P!WasGone(w)) \in Marks
        BY <1>4 DEF Marks
    <2>2. marks' \in [P!Told -> Marks]
        BY <1>1, <1>4, <2>1
    <2> QED BY <1>2, <2>2 DEF PresenceTyped, P!Told, P!Windows
<1>6. ASSUME NEW w \in P!Told
      PROVE  /\ Len(marks[w]) \in Nat
             /\ w \in put => marks'[w] = Append(marks[w], ~P!WasGone(w))
             /\ w \notin put => marks'[w] = marks[w]
    BY <1>1, <1>4 DEF Marks
<1>7. ASSUME NEW w \in P!Told PROVE P!WasGone(w) <=> Len(marks[w]) % 2 = 1
    <2>1. CASE marks[w] = <<>>
        BY <2>1 DEF P!WasGone
    <2>2. CASE marks[w] # <<>>
        <3>1. Len(marks[w]) \in DOMAIN marks[w]
            BY <1>4, <2>2 DEF Marks
        <3>2. marks[w][Len(marks[w])] <=> Len(marks[w]) % 2 = 1
            BY <3>1 DEF TakeTurns
        <3> QED BY <2>2, <3>2 DEF P!WasGone
    <2> QED BY <2>1, <2>2
<1>8. ASSUME NEW w \in P!Told, NEW i \in DOMAIN marks'[w] PROVE marks'[w][i] <=> i % 2 = 1
    <2>1. CASE w \notin put
        BY <1>6, <2>1 DEF TakeTurns
    <2>2. CASE w \in put
        <3>1. marks'[w] = Append(marks[w], ~P!WasGone(w)) /\ Len(marks[w]) \in Nat
            BY <1>6, <2>2
        <3>2. CASE i \in DOMAIN marks[w]
            <4>1. marks'[w][i] = marks[w][i]
                BY <1>4, <3>1, <3>2 DEF Marks
            <4> QED BY <3>2, <4>1 DEF TakeTurns
        <3>3. CASE i \notin DOMAIN marks[w]
            <4>1. i = Len(marks[w]) + 1
                BY <1>4, <3>1, <3>3 DEF Marks
            <4>2. marks'[w][i] = ~P!WasGone(w)
                BY <1>4, <3>1, <4>1 DEF Marks
            <4>3. (Len(marks[w]) + 1) % 2 = 1 <=> ~(Len(marks[w]) % 2 = 1)
                BY <3>1, NextIsOdd
            <4>4. ~P!WasGone(w) <=> (Len(marks[w]) + 1) % 2 = 1
                BY <1>7, <4>3
            <4> QED BY <4>1, <4>2, <4>4
        <3> QED BY <3>2, <3>3
    <2> QED BY <2>1, <2>2
<1>9. marks'[RATE_WINDOW] = <<>>
    <2>1. RATE_WINDOW \in P!Told /\ marks[RATE_WINDOW] = <<>>
        BY DEF P!Told, P!Windows, TakeTurns
    <2>2. RATE_WINDOW \notin turned
        BY <2>1, RateStays DEF P!WasGone
    <2> QED BY <1>6, <2>1, <2>2
<1>10. TakeTurns'
    BY <1>8, <1>9 DEF TakeTurns, P!Told, P!Windows
<1>11. P!Seen' = P!Seen /\ P!CurrentWindows' = P!CurrentWindows
    BY <1>2 DEF P!Seen, P!CurrentWindows, P!RecentPollTs, P!PollTimes, P!LatestOf
<1>12. ASSUME settled', NEW w \in P!Seen PROVE P!WasGone(w)' <=> w \notin P!CurrentWindows
    <2>1. w \in P!Told /\ put = turned
        BY <1>1, <1>3, <1>12
    <2>2. CASE w \in turned
        <3>1. marks'[w] = Append(marks[w], ~P!WasGone(w))
            BY <1>6, <2>1, <2>2
        <3>2. marks'[w] # <<>> /\ marks'[w][Len(marks'[w])] = ~P!WasGone(w)
            BY <1>4, <2>1, <3>1 DEF Marks
        <3>3. P!WasGone(w)' = ~P!WasGone(w)
            BY <1>4, <2>1, <3>2 DEF P!WasGone
        <3> QED BY <1>4, <2>1, <2>2, <3>3
    <2>3. CASE w \notin turned
        <3>1. marks'[w] = marks[w]
            BY <1>6, <2>1, <2>3
        <3>2. P!WasGone(w)' = P!WasGone(w)
            BY <3>1 DEF P!WasGone
        <3>3. (w \notin P!CurrentWindows) = P!WasGone(w)
            BY <2>3
        <3> QED BY <1>4, <2>1, <3>2, <3>3
    <2> QED BY <2>2, <2>3
<1>13. MarksAgree'
    BY <1>11, <1>12 DEF MarksAgree
<1>14. P!GrantIsNoWindow'
    BY <1>2 DEF P!GrantIsNoWindow
<1> QED BY <1>5, <1>10, <1>13, <1>14

(* What is pruned takes no window from the page, nor gives it one: the      *)
(* polls that are left are judged by as before, or are too few to judge.   *)
LEMMA PruneAgrees ==
    ASSUME P!PresenceAssumption, PresenceTyped, P!PruneByAge, NEW w \in P!Seen'
    PROVE  w \in P!Seen /\ (w \in P!CurrentWindows' <=> w \in P!CurrentWindows)
<1> DEFINE oldest == now - Retention
<1>1. /\ quota' = {r \in quota : r.ts >= oldest} /\ now' = now /\ now \in Nat /\ oldest \in Int
      /\ \A r \in quota : r.ts \in Nat
    BY DEF P!PruneByAge, PresenceTyped, P!PresenceAssumption
<1> HIDE DEF oldest
<1>2. P!PollTimes' = {t \in P!PollTimes : t >= oldest}
    BY <1>1 DEF P!PollTimes
<1>3. w \in P!Seen
    BY <1>1 DEF P!Seen
<1>4. IsFiniteSet(P!PollTimes) /\ P!PollTimes \in SUBSET Nat
    BY FinitePolls
<1>5. P!RecentPollTs' = {t \in P!RecentPollTs : t >= oldest}
    <2>1. ASSUME NEW t \in P!PollTimes, t >= oldest
          PROVE  {u \in P!PollTimes' : u > t} = {u \in P!PollTimes : u > t}
        <3>1. \A u \in P!PollTimes : u > t => u >= oldest
            BY <1>1, <1>4, <2>1
        <3> QED BY <1>2, <3>1
    <2> QED BY <1>2, <2>1 DEF P!RecentPollTs
<1>6. P!LatestOf(w)' = P!LatestOf(w) /\ P!LatestOf(w) \in Nat /\ P!LatestOf(w) >= oldest
    <2> DEFINE mine == {r.ts : r \in {q \in quota : q.window = w}}
               mineLeft == {r.ts : r \in {q \in quota' : q.window = w}}
    <2>1. mineLeft = {t \in mine : t >= oldest} /\ mineLeft # {} /\ mine \subseteq P!PollTimes
        BY <1>1 DEF P!Seen, P!PollTimes
    <2>2. P!LatestOf(w) = P!Max(mine) /\ P!LatestOf(w)' = P!Max(mineLeft)
        BY DEF P!LatestOf
    <2> HIDE DEF mine, mineLeft
    <2>3. mine \in SUBSET (0..now) /\ mine # {}
        BY <2>1, SeenTold
    <2>4. mineLeft \in SUBSET (0..now)
        BY <2>1, <2>3
    <2>5. P!Max(mine) \in mine /\ \A y \in mine : y <= P!Max(mine)
        BY <1>1, <2>3, MaxOfTimes
    <2>6. P!Max(mineLeft) \in mineLeft /\ \A y \in mineLeft : y <= P!Max(mineLeft)
        BY <1>1, <2>1, <2>4, MaxOfTimes
    <2>7. P!Max(mineLeft) \in mine /\ P!Max(mineLeft) >= oldest /\ P!Max(mineLeft) <= P!Max(mine)
        BY <2>1, <2>5, <2>6
    <2>8. P!Max(mine) \in Nat /\ P!Max(mineLeft) \in Nat
        BY <1>4, <2>1, <2>5, <2>7
    <2>9. P!Max(mine) \in mineLeft
        BY <1>1, <2>1, <2>5, <2>7, <2>8
    <2>10. P!Max(mineLeft) = P!Max(mine)
        BY <2>6, <2>7, <2>8, <2>9
    <2> QED BY <2>2, <2>7, <2>8, <2>10
<1>7. CASE \A t \in P!RecentPollTs : t >= oldest
    <2>1. P!RecentPollTs' = P!RecentPollTs
        BY <1>5, <1>7
    <2> QED BY <1>3, <1>6, <2>1 DEF P!CurrentWindows
<1>8. CASE ~\A t \in P!RecentPollTs : t >= oldest
    <2>1. PICK t \in P!RecentPollTs : ~(t >= oldest)
        BY <1>8
    <2>2. P!RecentPollTs \subseteq P!PollTimes /\ IsFiniteSet(P!RecentPollTs) /\ P!RecentPollTs \in SUBSET Nat
        <3>1. P!RecentPollTs \subseteq P!PollTimes
            BY DEF P!RecentPollTs
        <3>2. IsFiniteSet(P!RecentPollTs)
            BY <1>4, <3>1, FS_Subset
        <3> QED BY <1>4, <3>1, <3>2
    <2>3. w \in P!CurrentWindows
        <3>1. P!Min(P!RecentPollTs) \in P!RecentPollTs /\ \A y \in P!RecentPollTs : P!Min(P!RecentPollTs) <= y
            BY <2>1, <2>2, MinOfTimes
        <3>2. P!Min(P!RecentPollTs) <= t /\ t < oldest /\ P!Min(P!RecentPollTs) \in Nat /\ t \in Nat
            <4>1. P!Min(P!RecentPollTs) <= t /\ P!Min(P!RecentPollTs) \in Nat /\ t \in Nat
                BY <2>1, <2>2, <3>1
            <4>2. t < oldest
                BY <1>1, <2>1, <4>1
            <4> QED BY <4>1, <4>2
        <3>3. P!LatestOf(w) >= P!Min(P!RecentPollTs)
            BY <1>1, <1>6, <3>2
        <3> QED BY <1>3, <3>3 DEF P!CurrentWindows
    <2>4. Cardinality(P!RecentPollTs') < GONE_AFTER_POLLS
        <3> DEFINE newer == {u \in P!PollTimes : u > t}
        <3>1. Cardinality(newer) < GONE_AFTER_POLLS
            BY <2>1, SameCount DEF P!RecentPollTs
        <3>2. P!RecentPollTs' \subseteq newer
            <4>1. ASSUME NEW u \in P!RecentPollTs' PROVE u \in P!PollTimes /\ u > t
                <5>1. u \in P!RecentPollTs /\ u >= oldest
                    BY <1>5
                <5>2. u \in Nat /\ t \in Nat /\ u \in P!PollTimes
                    BY <2>1, <2>2, <5>1
                <5> QED BY <1>1, <2>1, <5>1, <5>2
            <4> QED BY <4>1
        <3>3. IsFiniteSet(newer) /\ Cardinality(newer) \in Nat
            BY <1>4, FS_Subset, FS_CardinalityType
        <3>4. Cardinality(P!RecentPollTs') <= Cardinality(newer) /\ Cardinality(P!RecentPollTs') \in Nat
            <4> HIDE DEF newer
            <4>1. IsFiniteSet(P!RecentPollTs')
                BY <3>2, <3>3, FS_Subset
            <4> QED BY <3>2, <3>3, <4>1, FS_Subset, FS_CardinalityType
        <3> HIDE DEF newer
        <3> QED BY <3>1, <3>3, <3>4 DEF P!PresenceAssumption
    <2>5. w \in P!CurrentWindows'
        BY <2>4, SameCount DEF P!CurrentWindows
    <2> QED BY <1>3, <2>3, <2>5
<1> QED BY <1>7, <1>8

LEMMA PresenceStep == ASSUME P!PresenceAssumption, PresenceInv, [P!Next]_P!vars PROVE PresenceInv'
<1> USE DEF PresenceInv
<1>1. ASSUME UNCHANGED marks PROVE TakeTurns' /\ marks' \in [P!Told -> Marks]
    BY <1>1 DEF TakeTurns, PresenceTyped, P!Told, P!Windows
<1>2. ASSUME NEW windows \in SUBSET P!Windows \ {{}}, NEW grants \in {{}, {Grant}}, P!Collect(windows, grants)
      PROVE  PresenceInv'
    <2>1. UNCHANGED <<now, marks>> /\ ~settled' /\ quota' = P!RemoveMisfiled(quota \cup P!Rows(windows), grants)
          /\ granted' = IF grants = {} THEN granted ELSE now
        BY <1>2 DEF P!Collect
    <2>2. PresenceTyped'
        <3>1. \A r \in P!Rows(windows) : r.ts \in 0..now /\ r.window \in P!Told
            BY DEF P!Rows, P!Told, PresenceTyped
        <3>2. \A r \in quota' : r.ts \in 0..now' /\ r.window \in P!Told'
            BY <2>1, <3>1 DEF P!RemoveMisfiled, PresenceTyped, P!Told, P!Windows
        <3>3. granted' \in {P!Never} \cup 0..now'
            BY <2>1 DEF PresenceTyped
        <3> QED BY <1>1, <2>1, <3>2, <3>3 DEF PresenceTyped, P!Told, P!Windows
    <2>3. P!GrantIsNoWindow'
        <3>1. CASE grants = {}
            <4>1. \A r \in P!Rows(windows) : r.window # Grant
                BY DEF P!Rows, P!Windows, P!PresenceAssumption
            <4> QED BY <2>1, <3>1, <4>1 DEF P!GrantIsNoWindow, P!RemoveMisfiled
        <3>2. CASE grants = {Grant}
            BY <2>1, <3>2 DEF P!GrantIsNoWindow, P!RemoveMisfiled
        <3> QED BY <3>1, <3>2
    <2> QED BY <1>1, <2>1, <2>2, <2>3 DEF MarksAgree
<1>3. CASE P!GiveUp
    <2>1. UNCHANGED <<now, quota, marks, granted, settled>>
        BY <1>3 DEF P!GiveUp
    <2>2. MarksAgree'
        BY <2>1
            DEF MarksAgree, P!Seen, P!CurrentWindows, P!RecentPollTs, P!PollTimes, P!LatestOf, P!WasGone
    <2> QED BY <1>1, <2>1, <2>2 DEF PresenceTyped, P!GrantIsNoWindow, P!Told, P!Windows
<1>4. CASE P!CheckGoneWindows
    BY <1>4, CheckKeeps
<1>5. ASSUME NEW windows \in SUBSET P!Windows, P!OlderProcessPolls(windows) PROVE PresenceInv'
    <2>1. UNCHANGED <<now, marks, granted>> /\ ~settled' /\ quota' = quota \cup P!Rows(windows \cup {Grant})
        BY <1>5 DEF P!OlderProcessPolls
    <2>2. \A r \in P!Rows(windows \cup {Grant}) : r.ts = now /\ r.window \in P!Told
        BY DEF P!Rows, P!Told
    <2>3. \A r \in quota' : r.ts \in 0..now' /\ r.window \in P!Told'
        <3>1. now \in 0..now /\ now' = now
            BY <2>1 DEF PresenceTyped
        <3>2. \A r \in quota : r.ts \in 0..now /\ r.window \in P!Told
            BY DEF PresenceTyped
        <3> QED BY <2>1, <2>2, <3>1, <3>2 DEF P!Told, P!Windows
    <2>4. P!GrantIsNoWindow'
        <3>1. now >= granted
            BY DEF PresenceTyped, P!Never
        <3> QED BY <2>1, <2>2, <3>1 DEF P!GrantIsNoWindow
    <2> QED BY <1>1, <2>1, <2>3, <2>4 DEF MarksAgree, PresenceTyped, P!Told, P!Windows
<1>6. CASE P!PruneByAge
    <2>1. UNCHANGED <<now, marks, granted, settled>> /\ quota' = {r \in quota : r.ts >= now - Retention}
        BY <1>6 DEF P!PruneByAge
    <2>2. ASSUME settled', NEW w \in P!Seen' PROVE P!WasGone(w)' <=> w \notin P!CurrentWindows'
        <3>1. w \in P!Seen /\ (w \in P!CurrentWindows' <=> w \in P!CurrentWindows)
            BY <1>6, PruneAgrees
        <3>2. P!WasGone(w)' <=> P!WasGone(w)
            BY <2>1 DEF P!WasGone
        <3> QED BY <2>1, <2>2, <3>1, <3>2 DEF MarksAgree
    <2>3. MarksAgree'
        BY <2>2 DEF MarksAgree
    <2> QED BY <1>1, <2>1, <2>3 DEF PresenceTyped, P!GrantIsNoWindow, P!Told, P!Windows
<1>7. CASE P!Tick \/ UNCHANGED P!vars
    <2>1. UNCHANGED <<quota, marks, granted, settled>> /\ now' \in Nat /\ now <= now'
        BY <1>7 DEF P!Tick, P!vars, PresenceTyped
    <2>2. MarksAgree'
        BY <2>1
            DEF MarksAgree, P!Seen, P!CurrentWindows, P!RecentPollTs, P!PollTimes, P!LatestOf, P!WasGone
    <2>3. \A r \in quota : r.ts \in 0..now'
        BY <2>1 DEF PresenceTyped
    <2>4. PresenceTyped'
        BY <1>1, <2>1, <2>3 DEF PresenceTyped, P!Told, P!Windows
    <2> QED BY <1>1, <2>1, <2>2, <2>4 DEF P!GrantIsNoWindow
<1> QED BY <1>2, <1>3, <1>4, <1>5, <1>6, <1>7 DEF P!Next

LEMMA PresenceSafe == ASSUME PresenceInv PROVE P!PresenceIsTold /\ P!GrantIsNoWindow
BY DEF PresenceInv, MarksAgree, TakeTurns, P!PresenceIsTold

(* Grants: no two stored samples or rows are of one second, a row is that  *)
(* of its sample, and the newest sample has no row behind it.              *)
GrantReading == [ts : 0..now, grant : G!AnyGrant]

Recorded == grantRows \cup sampled

GrantsTyped ==
    /\ now \in Nat
    /\ Recorded \in SUBSET GrantReading /\ poll \in SUBSET GrantReading
    /\ unstored \in SUBSET sampled
    /\ warnings \in [Expiries \X EXPIRY_LEVELS -> Nat]

InOrder ==
    /\ \A r, q \in Recorded : r.ts = q.ts => r = q
    /\ \A r \in grantRows : r.ts = now => r \in sampled
    /\ sampled # {} => \E s \in sampled : \A r \in Recorded : r.ts <= s.ts

(* What holds of a sample that has been taken up: the newest row not after  *)
(* it names its grant, and is less than a day old.                         *)
TellsOf(table, r, s) ==
    /\ r \in table /\ r.ts <= s.ts /\ r.grant = s.grant /\ s.ts - r.ts < GRANT_HEARTBEAT_S
    /\ \A q \in table : q.ts <= s.ts => q.ts <= r.ts

ToldIn(table, s) == \E r \in table : TellsOf(table, r, s)

Followed == \A s \in sampled \ unstored : ToldIn(grantRows, s)

GrantsInv == GrantsTyped /\ InOrder /\ Followed /\ G!WarnedOnce

LEMMA NewestThereIs ==
    ASSUME NEW n \in Nat, NEW table, table # {}, \A r \in table : r.ts \in 0..n
    PROVE  /\ G!NewestRow(table) \in table
           /\ \A r \in table : r.ts <= G!NewestRow(table).ts
<1> DEFINE Times == {r.ts : r \in table}
<1>1. Times \in SUBSET (0..n) /\ Times # {}
    OBVIOUS
<1>2. PICK x \in Times : \A y \in Times : y <= x
    <2> HIDE DEF Times
    <2> QED BY <1>1, LargestThereIs
<1>3. PICK r \in table : x = r.ts
    OBVIOUS
<1>4. \A q \in table : q.ts <= r.ts
    BY <1>2, <1>3
<1> QED BY <1>4 DEF G!NewestRow

LEMMA NewestIs ==
    ASSUME NEW n \in Nat, NEW table, \A r \in table : r.ts \in 0..n,
           \A r, q \in table : r.ts = q.ts => r = q,
           NEW top \in table, \A r \in table : r.ts <= top.ts
    PROVE  G!NewestRow(table) = top
<1>1. /\ G!NewestRow(table) \in table
      /\ \A r \in table : r.ts <= G!NewestRow(table).ts
    BY NewestThereIs
<1>2. G!NewestRow(table).ts = top.ts
    BY <1>1
<1> QED BY <1>1, <1>2

(* A sample that is due gets its row, one that is not has a row already. *)
LEMMA DueTells ==
    ASSUME G!GrantsAssumption, NEW n \in Nat, NEW table, \A r \in table : r.ts \in 0..n,
           NEW s, s.ts \in 0..n, \A r \in table : r.ts < s.ts,
           NEW more, more = (IF G!RowDue(table, s) THEN table \cup {s} ELSE table)
    PROVE  ToldIn(more, s)
<1>0. GRANT_HEARTBEAT_S \in Nat \ {0}
    BY DEF G!GrantsAssumption
<1>1. CASE G!RowDue(table, s)
    <2>1. more = table \cup {s}
        BY <1>1
    <2>2. TellsOf(more, s, s)
        BY <1>0, <2>1 DEF TellsOf
    <2> QED BY <2>1, <2>2 DEF ToldIn
<1>2. CASE ~G!RowDue(table, s)
    <2>1. table # {} /\ ~G!GrantDue(G!NewestRow(table), s) /\ more = table
        BY <1>2 DEF G!RowDue
    <2>2. /\ G!NewestRow(table) \in table
          /\ \A r \in table : r.ts <= G!NewestRow(table).ts
        BY <2>1, NewestThereIs
    <2>3. G!NewestRow(table).grant = s.grant /\ s.ts - G!NewestRow(table).ts < GRANT_HEARTBEAT_S
        BY <1>0, <2>1, <2>2 DEF G!GrantDue
    <2>4. TellsOf(more, G!NewestRow(table), s)
        BY <2>1, <2>2, <2>3 DEF TellsOf
    <2> QED BY <2>1, <2>2, <2>4 DEF ToldIn
<1> QED BY <1>1, <1>2

(* Later rows change nothing for an earlier sample. *)
LEMMA LaterRows ==
    ASSUME NEW table, NEW more, NEW s, ToldIn(table, s), s.ts \in Int,
           table \subseteq more, \A r \in more \ table : r.ts \in Int /\ r.ts > s.ts
    PROVE  ToldIn(more, s)
<1>1. PICK r \in table : TellsOf(table, r, s)
    BY DEF ToldIn
<1>2. \A q \in more : q.ts <= s.ts => q \in table
    OBVIOUS
<1>3. TellsOf(more, r, s)
    BY <1>1, <1>2 DEF TellsOf
<1> QED BY <1>1, <1>3 DEF ToldIn

(***************************************************************************)
(* The replay of a start.                                                  *)
(***************************************************************************)
RowsAt(t) == {r \in grantRows : r.ts = t}
Added(before, t) ==
    IF RowsAt(t) # {} THEN RowsAt(t) ELSE {s \in sampled : s.ts = t /\ G!RowDue(before, s)}

LEMMA ReplayedIs ==
    ASSUME now \in Nat
    PROVE  \A t \in 0..now :
              G!Replayed[t] = (IF t = 0 THEN {} ELSE G!Replayed[t - 1])
                            \cup Added(IF t = 0 THEN {} ELSE G!Replayed[t - 1], t)
<1> DEFINE Before(f, t) == IF t = 0 THEN {} ELSE f[t - 1]
           Body(f, t) == Before(f, t) \cup Added(Before(f, t), t)
           Is(n, f) == f = [t \in 0..n |-> Body(f, t)]
           Stuck == {n \in 0..now : \A f : ~Is(n, f)}
<1>1. Stuck = {}
    <2> SUFFICES ASSUME Stuck # {} PROVE FALSE
        OBVIOUS
    <2>1. Stuck \in SUBSET Nat
        OBVIOUS
    <2>2. PICK n \in Stuck : \A m \in Stuck : n <= m
        <3> HIDE DEF Stuck
        <3> QED BY <2>1, LeastThereIs
    <2>3. n \in 0..now /\ n \in Nat
        OBVIOUS
    <2>4. CASE n = 0
        <3> DEFINE f == [t \in 0..0 |-> {} \cup Added({}, 0)]
        <3>1. f = [t \in 0..0 |-> Body(f, t)]
            OBVIOUS
        <3> QED BY <2>4, <3>1
    <2>5. CASE n # 0
        <3>1. n - 1 \in 0..now /\ ~(n <= n - 1)
            BY <2>3, <2>5
        <3>2. n - 1 \notin Stuck
            BY <2>2, <3>1
        <3>3. PICK g : Is(n - 1, g)
            BY <3>1, <3>2
        <3> DEFINE f == [t \in 0..n |-> IF t = n THEN Body(g, n) ELSE g[t]]
        <3>4. ASSUME NEW t \in 0..n PROVE f[t] = Body(f, t)
            <4>1. CASE t = n
                <5>1. n - 1 \in 0..n /\ n - 1 # n
                    BY <2>3, <2>5
                <5>2. f[n - 1] = g[n - 1]
                    BY <5>1
                <5>3. Before(f, n) = Before(g, n)
                    BY <2>5, <5>2
                <5>4. f[n] = Body(g, n)
                    BY <2>3
                <5> HIDE DEF f, Before
                <5> QED BY <4>1, <5>3, <5>4
            <4>2. CASE t # n
                <5>1. t \in 0..n - 1 /\ (t # 0 => t - 1 \in 0..n /\ t - 1 # n)
                    BY <2>3, <4>2
                <5>2. f[t] = g[t] /\ g[t] = Body(g, t)
                    BY <3>3, <4>2, <5>1
                <5>3. Before(f, t) = Before(g, t)
                    BY <5>1
                <5> HIDE DEF f, Before
                <5> QED BY <5>2, <5>3
            <4> QED BY <4>1, <4>2
        <3>5. f = [t \in 0..n |-> Body(f, t)]
            <4>1. f = [t \in 0..n |-> f[t]]
                OBVIOUS
            <4> HIDE DEF f, Body
            <4> QED BY <3>4, <4>1
        <3>6. Is(n, f)
            BY <3>5
        <3> HIDE DEF f, Is
        <3> QED BY <2>2, <3>6
    <2> QED BY <2>4, <2>5
<1>2. \E f : Is(now, f)
    <2>1. now \in 0..now
        OBVIOUS
    <2> HIDE DEF Is
    <2> QED BY <1>1, <2>1
<1>3. G!Replayed = [t \in 0..now |-> Body(G!Replayed, t)]
    BY <1>2 DEF G!Replayed, Added, RowsAt
<1> QED BY <1>3

(* Once the rows up to a moment are taken up, every sample up to it is told *)
(* by them.                                                                *)
UpTo(table, t) ==
    /\ \A r \in table : r \in Recorded /\ r.ts <= t
    /\ \A r \in grantRows : r.ts <= t => r \in table
    /\ \A s \in sampled : s.ts <= t => ToldIn(table, s)

LEMMA TakesUp ==
    ASSUME G!GrantsAssumption, GrantsTyped, InOrder, NEW t \in 0..now, NEW before, UpTo(before, t - 1)
    PROVE  UpTo(before \cup Added(before, t), t)
<1> DEFINE after == before \cup Added(before, t)
<1>0. now \in Nat /\ t \in Int /\ \A r \in Recorded : r.ts \in 0..now
    BY DEF GrantsTyped, GrantReading
<1>1. \A r \in Added(before, t) : r \in Recorded /\ r.ts = t
    BY DEF Added, RowsAt, Recorded
<1>2. \A r \in before : r \in Recorded /\ r.ts <= t - 1 /\ r.ts \in 0..now
    BY <1>0 DEF UpTo
<1>3. \A r \in after : r \in Recorded /\ r.ts <= t
    BY <1>0, <1>1, <1>2
<1>4. ASSUME NEW r \in grantRows, r.ts <= t PROVE r \in after
    <2>1. r.ts \in 0..now
        BY <1>0 DEF Recorded
    <2>2. CASE r.ts = t
        <3>1. r \in RowsAt(t)
            BY <2>2 DEF RowsAt
        <3> QED BY <3>1 DEF Added
    <2>3. CASE r.ts # t
        <3>1. r.ts <= t - 1
            BY <1>0, <1>4, <2>1, <2>3
        <3> QED BY <3>1 DEF UpTo
    <2> QED BY <2>2, <2>3
<1>5. ASSUME NEW s \in sampled, s.ts <= t PROVE ToldIn(after, s)
    <2>1. s.ts \in 0..now /\ s \in Recorded
        BY <1>0 DEF Recorded
    <2>2. CASE s.ts # t
        <3>1. s.ts <= t - 1 /\ s.ts < t
            BY <1>0, <1>5, <2>1, <2>2
        <3>2. ToldIn(before, s)
            BY <3>1 DEF UpTo
        <3>3. \A r \in after \ before : r.ts \in Int /\ r.ts > s.ts
            BY <1>0, <1>1, <2>1, <3>1
        <3> QED BY <2>1, <3>2, <3>3, LaterRows
    <2>3. CASE s.ts = t /\ RowsAt(t) # {}
        <3>1. PICK r \in grantRows : r.ts = t
            BY <2>3 DEF RowsAt
        <3>2. r = s
            BY <2>1, <2>3, <3>1 DEF InOrder, Recorded
        <3>3. s \in after
            BY <1>4, <1>5, <3>2
        <3>4. GRANT_HEARTBEAT_S \in Nat \ {0}
            BY DEF G!GrantsAssumption
        <3>5. TellsOf(after, s, s)
            BY <2>1, <3>3, <3>4 DEF TellsOf
        <3> QED BY <3>3, <3>5 DEF ToldIn
    <2>4. CASE s.ts = t /\ RowsAt(t) = {}
        <3>1. \A q \in sampled : q.ts = t => q = s
            BY <2>1, <2>4 DEF InOrder, Recorded
        <3>2. after = IF G!RowDue(before, s) THEN before \cup {s} ELSE before
            <4>1. Added(before, t) = {q \in sampled : q.ts = t /\ G!RowDue(before, q)}
                BY <2>4 DEF Added
            <4>2. Added(before, t) = IF G!RowDue(before, s) THEN {s} ELSE {}
                <5>1. ASSUME NEW q PROVE q \in Added(before, t) <=> q = s /\ G!RowDue(before, s)
                    BY <2>4, <3>1, <4>1
                <5> QED BY <5>1
            <4> QED BY <4>2
        <3>3. \A r \in before : r.ts \in 0..now /\ r.ts < s.ts
            BY <1>0, <1>2, <2>1, <2>4
        <3> HIDE DEF after
        <3> QED BY <1>0, <2>1, <3>2, <3>3, DueTells
    <2> QED BY <2>2, <2>3, <2>4
<1> HIDE DEF after
<1>6. UpTo(after, t)
    BY <1>3, <1>4, <1>5 DEF UpTo
<1> QED BY <1>6 DEF after

LEMMA ReplayTells ==
    ASSUME G!GrantsAssumption, GrantsTyped, InOrder
    PROVE  /\ G!Replayed[now] \subseteq Recorded /\ grantRows \subseteq G!Replayed[now]
           /\ \A s \in sampled : ToldIn(G!Replayed[now], s)
<1>0. now \in Nat /\ \A r \in Recorded : r.ts \in 0..now
    BY DEF GrantsTyped, GrantReading
<1>1. UpTo({}, -1)
    <2>1. \A r \in Recorded : ~(r.ts <= -1)
        BY <1>0
    <2> QED BY <2>1 DEF UpTo, Recorded
<1> DEFINE Wrong == {t \in 0..now : ~UpTo(G!Replayed[t], t)}
<1>2. Wrong = {}
    <2> SUFFICES ASSUME Wrong # {} PROVE FALSE
        OBVIOUS
    <2>1. Wrong \in SUBSET Nat
        OBVIOUS
    <2>2. PICK t \in Wrong : \A u \in Wrong : t <= u
        <3> HIDE DEF Wrong
        <3> QED BY <2>1, LeastThereIs
    <2>3. t \in 0..now /\ ~UpTo(G!Replayed[t], t)
        OBVIOUS
    <2> DEFINE before == IF t = 0 THEN {} ELSE G!Replayed[t - 1]
    <2>4. UpTo(before, t - 1)
        <3>1. CASE t = 0
            BY <1>1, <3>1
        <3>2. CASE t # 0
            <4>1. t - 1 \in 0..now /\ ~(t <= t - 1)
                BY <1>0, <2>3, <3>2
            <4>2. t - 1 \notin Wrong
                BY <2>2, <4>1
            <4> QED BY <3>2, <4>1, <4>2
        <3> QED BY <3>1, <3>2
    <2>5. G!Replayed[t] = before \cup Added(before, t)
        BY <1>0, <2>3, ReplayedIs
    <2> HIDE DEF before
    <2> QED BY <2>3, <2>4, <2>5, TakesUp
<1>3. UpTo(G!Replayed[now], now)
    BY <1>0, <1>2
<1>4. \A r \in Recorded : r.ts <= now
    BY <1>0
<1> QED BY <1>3, <1>4 DEF UpTo, Recorded

(***************************************************************************)
(* The invariant.                                                          *)
(***************************************************************************)
LEMMA GrantsBegin == ASSUME G!GrantsAssumption, G!Init PROVE GrantsInv
<1>1. GrantsTyped /\ InOrder
    BY DEF G!Init, GrantsTyped, InOrder, Recorded
<1>2. Followed /\ G!WarnedOnce
    BY DEF G!Init, Followed, G!WarnedOnce
<1> QED BY <1>1, <1>2 DEF GrantsInv

(* A sample is stored: it is the newest, and alone in its second. *)
LEMMA SampleKeeps ==
    ASSUME G!GrantsAssumption, GrantsInv, NEW g \in G!AnyGrant, NEW s, s = [ts |-> now, grant |-> g],
           G!RecordSample(s), grantRows' \in {grantRows, grantRows \cup {s}}
    PROVE  /\ InOrder' /\ Recorded' \in SUBSET GrantReading' /\ s \in GrantReading
           /\ now' = now /\ sampled' = sampled \cup {s} /\ warnings' = warnings
           /\ \A r \in grantRows : r.ts < s.ts
<1> USE DEF GrantsInv
<1>1. /\ now' = now /\ sampled' = sampled \cup {s} /\ warnings' = warnings
      /\ \A q \in sampled : q.ts # now
    BY DEF G!RecordSample
<1>2. now \in Nat /\ s.ts = now /\ s \in GrantReading /\ Recorded \subseteq GrantReading
    BY DEF GrantsTyped, GrantReading
<1>3. \A r \in Recorded : r.ts \in 0..now
    BY <1>2 DEF GrantReading
<1>4. \A r \in Recorded : r.ts # now
    BY <1>1 DEF Recorded, InOrder
<1>5. \A r \in Recorded : r.ts < s.ts
    BY <1>2, <1>3, <1>4
<1>6. Recorded' = Recorded \cup {s}
    BY <1>1 DEF Recorded
<1>7. \A r, q \in Recorded' : r.ts = q.ts => r = q
    BY <1>2, <1>4, <1>6 DEF InOrder
<1>8. \A r \in grantRows' : r.ts = now' => r \in sampled'
    BY <1>1, <1>2, <1>4 DEF Recorded
<1>9. \A r \in Recorded' : r.ts <= s.ts
    BY <1>2, <1>3, <1>6
<1>10. InOrder'
    BY <1>1, <1>7, <1>8, <1>9 DEF InOrder
<1>11. Recorded' \in SUBSET GrantReading'
    BY <1>1, <1>2, <1>6 DEF GrantReading
<1> QED BY <1>1, <1>2, <1>5, <1>10, <1>11 DEF Recorded

LEMMA CollectKeeps ==
    ASSUME G!GrantsAssumption, GrantsInv, NEW g \in G!AnyGrant, G!Collect([ts |-> now, grant |-> g])
    PROVE  GrantsInv'
<1> DEFINE s == [ts |-> now, grant |-> g]
<1>1. /\ G!RecordSample(s) /\ poll' = {s} /\ unstored' = unstored
      /\ grantRows' = IF G!RowDue(grantRows, s) THEN grantRows \cup {s} ELSE grantRows
    BY DEF G!Collect
<1>2. s.ts = now /\ s = [ts |-> now, grant |-> g]
    OBVIOUS
<1> HIDE DEF s
<1>3. /\ InOrder' /\ Recorded' \in SUBSET GrantReading' /\ s \in GrantReading
      /\ now' = now /\ sampled' = sampled \cup {s} /\ warnings' = warnings
      /\ \A r \in grantRows : r.ts < s.ts
    BY <1>1, <1>2, SampleKeeps
<1>4. GrantsTyped'
    BY <1>1, <1>3 DEF GrantsInv, GrantsTyped, GrantReading
<1>5. now \in Nat /\ \A r \in Recorded : r.ts \in 0..now
    BY DEF GrantsInv, GrantsTyped, GrantReading
<1>6. ToldIn(grantRows', s)
    BY <1>1, <1>2, <1>3, <1>5, DueTells DEF Recorded
<1>7. ASSUME NEW q \in sampled' \ unstored' PROVE ToldIn(grantRows', q)
    <2>1. CASE q = s
        BY <1>6, <2>1
    <2>2. CASE q # s
        <3>1. q \in sampled \ unstored /\ q.ts \in 0..now
            BY <1>1, <1>3, <1>5, <2>2 DEF Recorded
        <3>2. ToldIn(grantRows, q)
            BY <3>1 DEF GrantsInv, Followed
        <3>3. q.ts # now
            BY <1>1, <3>1 DEF G!RecordSample
        <3>4. /\ grantRows \subseteq grantRows'
              /\ \A r \in grantRows' \ grantRows : r.ts \in Int /\ r.ts > q.ts
            BY <1>1, <1>2, <1>5, <3>1, <3>3
        <3> QED BY <3>1, <3>2, <3>4, LaterRows
    <2> QED BY <2>1, <2>2
<1>8. Followed'
    BY <1>7 DEF Followed
<1>9. G!WarnedOnce'
    BY <1>3 DEF GrantsInv, G!WarnedOnce
<1> QED BY <1>3, <1>4, <1>8, <1>9 DEF GrantsInv

LEMMA FailKeeps ==
    ASSUME G!GrantsAssumption, GrantsInv,
           NEW g \in G!AnyGrant, G!FailAfterSample([ts |-> now, grant |-> g])
    PROVE  GrantsInv'
<1> DEFINE s == [ts |-> now, grant |-> g]
<1>1. G!RecordSample(s) /\ unstored' = unstored \cup {s} /\ grantRows' = grantRows /\ poll' = poll
    BY DEF G!FailAfterSample
<1>2. s = [ts |-> now, grant |-> g]
    OBVIOUS
<1> HIDE DEF s
<1>3. /\ InOrder' /\ Recorded' \in SUBSET GrantReading' /\ s \in GrantReading
      /\ now' = now /\ sampled' = sampled \cup {s} /\ warnings' = warnings
    BY <1>1, <1>2, SampleKeeps
<1>4. GrantsTyped'
    BY <1>1, <1>3 DEF GrantsInv, GrantsTyped, GrantReading
<1>5. Followed'
    BY <1>1, <1>3 DEF GrantsInv, Followed
<1>6. G!WarnedOnce'
    BY <1>3 DEF GrantsInv, G!WarnedOnce
<1> QED BY <1>3, <1>4, <1>5, <1>6 DEF GrantsInv

(* The newest sample goes last. *)
LEMMA GrantsPrune ==
    ASSUME G!GrantsAssumption, GrantsInv, G!PruneByAge
    PROVE  GrantsInv'
<1> USE DEF GrantsInv
<1> DEFINE oldest == now - Retention
<1>1. /\ sampled' = {s \in sampled : s.ts >= oldest} /\ unstored' = unstored \cap sampled'
      /\ UNCHANGED <<now, grantRows, poll, warnings>>
    BY DEF G!PruneByAge
<1>2. now \in Nat /\ oldest \in Int /\ oldest <= now /\ \A r \in Recorded : r.ts \in 0..now
    BY DEF GrantsTyped, GrantReading, G!GrantsAssumption
<1> HIDE DEF oldest
<1>3. Recorded' \subseteq Recorded
    BY <1>1 DEF Recorded
<1>4. GrantsTyped'
    BY <1>1, <1>3 DEF GrantsTyped, GrantReading
<1>5. ASSUME sampled' # {} PROVE \E s \in sampled' : \A r \in Recorded' : r.ts <= s.ts
    <2>1. PICK s \in sampled : \A r \in Recorded : r.ts <= s.ts
        BY <1>1, <1>5 DEF InOrder
    <2>2. PICK q \in sampled : q.ts >= oldest
        BY <1>1, <1>5
    <2>3. q.ts <= s.ts /\ q.ts \in 0..now /\ s.ts \in 0..now
        BY <1>2, <2>1 DEF Recorded
    <2>4. s.ts >= oldest
        BY <1>2, <2>2, <2>3
    <2> QED BY <1>1, <1>3, <2>1, <2>4
<1>6. \A r \in grantRows' : r.ts = now' => r \in sampled'
    BY <1>1, <1>2 DEF InOrder
<1>7. InOrder'
    BY <1>3, <1>5, <1>6 DEF InOrder
<1>8. Followed' /\ G!WarnedOnce'
    BY <1>1 DEF Followed, G!WarnedOnce
<1> QED BY <1>4, <1>7, <1>8

LEMMA RestartKeeps ==
    ASSUME G!GrantsAssumption, GrantsInv, grantRows' = G!Replayed[now], unstored' = {}, poll' = {},
           UNCHANGED <<now, sampled, warnings>>
    PROVE  GrantsInv'
<1> USE DEF GrantsInv
<1>1. /\ G!Replayed[now] \subseteq Recorded /\ grantRows \subseteq G!Replayed[now]
      /\ \A s \in sampled : ToldIn(G!Replayed[now], s)
    BY ReplayTells
<1>2. Recorded' = Recorded
    BY <1>1 DEF Recorded
<1>3. GrantsTyped'
    BY <1>2 DEF GrantsTyped, GrantReading
<1>4. \A r \in grantRows' : r.ts = now' => r \in sampled'
    BY <1>1 DEF Recorded, InOrder
<1>5. InOrder'
    BY <1>2, <1>4 DEF InOrder
<1>6. Followed' /\ G!WarnedOnce'
    BY <1>1 DEF Followed, G!WarnedOnce
<1> QED BY <1>3, <1>5, <1>6

(* A level that is due has no event yet. *)
LEMMA WarnKeeps ==
    ASSUME GrantsInv, NEW s \in poll, G!CheckGrants(s)
    PROVE  /\ warnings' \in [Expiries \X EXPIRY_LEVELS -> Nat] /\ G!WarnedOnce'
           /\ poll' = {} /\ UNCHANGED <<now, sampled, grantRows, unstored>>
<1> USE DEF GrantsInv
<1>1. PICK fired \in SUBSET G!LevelsDue(s) :
          /\ warnings' = [w \in DOMAIN warnings |->
                             IF w[1] = s.grant.expires /\ w[2] \in fired
                             THEN warnings[w] + 1 ELSE warnings[w]]
          /\ poll' = {} /\ UNCHANGED <<now, sampled, grantRows, unstored>>
    BY DEF G!CheckGrants
<1>2. warnings \in [Expiries \X EXPIRY_LEVELS -> Nat]
    BY DEF GrantsTyped
<1>3. warnings' \in [Expiries \X EXPIRY_LEVELS -> Nat]
    BY <1>1, <1>2
<1>4. ASSUME NEW w \in Expiries \X EXPIRY_LEVELS PROVE warnings'[w] <= 1
    <2>1. warnings[w] \in Nat /\ warnings[w] <= 1 /\ w = <<w[1], w[2]>>
        BY <1>2 DEF G!WarnedOnce
    <2>2. CASE w[1] = s.grant.expires /\ w[2] \in fired
        <3>1. w[2] \in G!LevelsDue(s)
            BY <2>2
        <3>2. warnings[<<s.grant.expires, w[2]>>] = 0
            BY <3>1 DEF G!LevelsDue
        <3>3. warnings[w] = 0
            BY <2>1, <2>2, <3>2
        <3> QED BY <1>1, <1>2, <2>2, <3>3
    <2>3. CASE ~(w[1] = s.grant.expires /\ w[2] \in fired)
        BY <1>1, <1>2, <2>1, <2>3
    <2> QED BY <2>2, <2>3
<1>5. G!WarnedOnce'
    BY <1>3, <1>4 DEF G!WarnedOnce
<1> QED BY <1>1, <1>3, <1>5

LEMMA GrantsStep == ASSUME G!GrantsAssumption, GrantsInv, [G!Next]_G!vars PROVE GrantsInv'
<1>1. ASSUME UNCHANGED <<sampled, grantRows, unstored>>, now' \in Nat, now' >= now,
             now' = now \/ now' > now, poll' \subseteq poll,
             warnings' \in [Expiries \X EXPIRY_LEVELS -> Nat], G!WarnedOnce'
      PROVE  GrantsInv'
    <2>0. now \in Nat /\ \A r \in Recorded : r.ts \in 0..now
        BY DEF GrantsInv, GrantsTyped, GrantReading
    <2>1. Recorded' = Recorded /\ GrantReading \subseteq GrantReading'
        BY <1>1, <2>0 DEF Recorded, GrantReading
    <2>2. GrantsTyped'
        BY <1>1, <2>1 DEF GrantsInv, GrantsTyped
    <2>3. \A r \in grantRows' : r.ts = now' => r \in sampled'
        <3>1. CASE now' = now
            BY <1>1, <3>1 DEF GrantsInv, InOrder
        <3>2. CASE now' > now
            BY <1>1, <2>0, <3>2 DEF Recorded
        <3> QED BY <1>1, <3>1, <3>2
    <2>4. InOrder'
        BY <1>1, <2>1, <2>3 DEF GrantsInv, InOrder
    <2>5. Followed'
        BY <1>1 DEF GrantsInv, Followed
    <2> QED BY <1>1, <2>2, <2>4, <2>5 DEF GrantsInv
<1>t. now \in Nat /\ warnings \in [Expiries \X EXPIRY_LEVELS -> Nat] /\ G!WarnedOnce
    BY DEF GrantsInv, GrantsTyped
<1>2. ASSUME NEW g \in G!AnyGrant, G!Collect([ts |-> now, grant |-> g]) PROVE GrantsInv'
    BY <1>2, CollectKeeps
<1>3. ASSUME NEW g \in G!AnyGrant, G!FailAfterSample([ts |-> now, grant |-> g]) PROVE GrantsInv'
    BY <1>3, FailKeeps
<1>4. CASE G!GiveUp
    <2>1. poll' = {} /\ UNCHANGED <<now, sampled, grantRows, unstored, warnings>> /\ G!WarnedOnce'
        BY <1>t, <1>4 DEF G!GiveUp, G!WarnedOnce
    <2> QED BY <1>1, <1>t, <2>1
<1>5. ASSUME NEW s \in poll, G!CheckGrants(s) PROVE GrantsInv'
    <2>1. /\ warnings' \in [Expiries \X EXPIRY_LEVELS -> Nat] /\ G!WarnedOnce'
          /\ poll' = {} /\ UNCHANGED <<now, sampled, grantRows, unstored>>
        BY <1>5, WarnKeeps
    <2> QED BY <1>1, <1>t, <2>1
<1>6. CASE G!PruneByAge
    BY <1>6, GrantsPrune
<1>7. CASE G!Restart
    <2>1. poll' = {} /\ UNCHANGED <<now, sampled, warnings>> /\ G!WarnedOnce'
        BY <1>t, <1>7 DEF G!Restart, G!WarnedOnce
    <2>2. CASE grantRows' = G!Replayed[now] /\ unstored' = {}
        BY <2>1, <2>2, RestartKeeps
    <2>3. CASE UNCHANGED <<grantRows, unstored>>
        BY <1>1, <1>t, <2>1, <2>3
    <2> QED BY <1>7, <2>2, <2>3 DEF G!Restart
<1>8. CASE G!Tick \/ UNCHANGED G!vars
    <2>1. UNCHANGED <<sampled, grantRows, poll, unstored, warnings>> /\ G!WarnedOnce'
        BY <1>t, <1>8 DEF G!Tick, G!vars, G!WarnedOnce
    <2>2. now' \in Nat /\ now' >= now /\ (now' = now \/ now' > now)
        BY <1>t, <1>8 DEF G!Tick, G!vars
    <2> QED BY <1>1, <1>t, <2>1, <2>2
<1> QED BY <1>2, <1>3, <1>4, <1>5, <1>6, <1>7, <1>8 DEF G!Next

(* What it says of the page. *)
LEMMA GrantsSafe == ASSUME G!GrantsAssumption, GrantsInv PROVE G!GrantsAreFollowed
<1> USE DEF GrantsInv
<1>0. now \in Nat /\ \A r \in Recorded : r.ts \in 0..now
    BY DEF GrantsTyped, GrantReading
<1>1. ASSUME NEW s \in sampled \ unstored, NEW table, table = {r \in grantRows : r.ts <= s.ts}
      PROVE  table # {} /\ G!NewestRow(table).grant = s.grant
             /\ s.ts - G!NewestRow(table).ts < GRANT_HEARTBEAT_S
    <2>1. PICK r \in grantRows : TellsOf(grantRows, r, s)
        BY DEF Followed, ToldIn
    <2>2. r \in table /\ \A q \in table : q.ts <= r.ts
        BY <1>1, <2>1 DEF TellsOf
    <2>3. (\A q \in table : q.ts \in 0..now) /\ \A p, q \in table : p.ts = q.ts => p = q
        BY <1>0, <1>1 DEF Recorded, InOrder
    <2>4. G!NewestRow(table) = r
        BY <1>0, <2>2, <2>3, NewestIs
    <2> QED BY <2>1, <2>2, <2>4 DEF TellsOf
<1>2. G!GrantsFollowSamples
    BY <1>1 DEF G!GrantsFollowSamples
<1>3. ASSUME sampled # {}, G!NewestRow(sampled) \notin unstored,
             NEW s, s = G!NewestRow(sampled)
      PROVE  grantRows # {} /\ G!NewestRow(grantRows).grant = s.grant
    <2>1. PICK top \in sampled : \A r \in Recorded : r.ts <= top.ts
        BY <1>3 DEF InOrder
    <2>2. /\ \A r \in sampled : r.ts \in 0..now
          /\ \A r, q \in sampled : r.ts = q.ts => r = q
          /\ \A r \in sampled : r.ts <= top.ts
        BY <1>0, <2>1 DEF Recorded, InOrder
    <2>3. s = top
        BY <1>0, <1>3, <2>2, NewestIs
    <2>4. {r \in grantRows : r.ts <= s.ts} = grantRows
        BY <2>1, <2>3 DEF Recorded
    <2> QED BY <1>1, <1>3, <2>3, <2>4
<1>4. G!GrantIsShown
    <2> SUFFICES ASSUME sampled # {}, G!NewestRow(sampled) \notin unstored,
                        NEW named, named = G!NewestRow(sampled).grant
                 PROVE  G!BuildGrantViews =
                            IF G!IsVisible(named)
                            THEN {[grant |-> named, expired |-> G!IsExpired(named)]} ELSE {}
        BY DEF G!GrantIsShown
    <2>1. grantRows # {} /\ G!NewestRow(grantRows).grant = named
        BY <1>3
    <2>2. G!BuildGrantViews = {[grant |-> g, expired |-> G!IsExpired(g)] :
                                 g \in {v \in {named} : G!IsVisible(v)}}
        BY <2>1 DEF G!BuildGrantViews
    <2>3. CASE G!IsVisible(named)
        <3>1. {v \in {named} : G!IsVisible(v)} = {named}
            BY <2>3
        <3> QED BY <2>2, <2>3, <3>1
    <2>4. CASE ~G!IsVisible(named)
        <3>1. {v \in {named} : G!IsVisible(v)} = {}
            BY <2>4
        <3> QED BY <2>2, <2>4, <3>1
    <2> QED BY <2>3, <2>4
<1> QED BY <1>2, <1>4 DEF G!GrantsAreFollowed

(***************************************************************************)
(* The migrations, for any number of processes, any versions and events.   *)
(***************************************************************************)
(* A database, whatever of it is there. *)
Base ==
    [named : BOOLEAN, tables : BOOLEAN, version : 0..SCHEMA_VERSION,
     columns : SUBSET {2, 4, 5}, signed : BOOLEAN, cleaned : BOOLEAN,
     events : SUBSET Events, keyed : BOOLEAN, copy : {M!NoCopy} \cup (SUBSET Events),
     thinned : BOOLEAN]
(* Where a process may be in the script. *)
Places ==
    {n \in [version : 2..SCHEMA_VERSION + 1, step : Nat \ {0}] : n.step <= M!RowStep(n.version)}

(* Statement i of version v is behind. *)
Past(next, v, i) == next.version > v \/ (next.version = v /\ next.step > i)

(* What the statements before a place have done. *)
Reached(db, next) ==
    /\ Past(next, 2, 1) => 2 \in db.columns
    /\ Past(next, 4, 1) => 4 \in db.columns
    /\ Past(next, 5, 1) => 5 \in db.columns
    /\ Past(next, 5, 2) => db.signed
    /\ Past(next, 6, 1) => db.cleaned
    /\ Past(next, 10, 5) => db.keyed
    /\ Past(next, 11, 1) => db.thinned
    /\ M!Finished(next) => db.version = SCHEMA_VERSION

(* A database that says it is at a version has all of it. *)
Sound(db) ==
    /\ db.version >= 2 => 2 \in db.columns
    /\ db.version >= 4 => 4 \in db.columns
    /\ db.version >= 5 => 5 \in db.columns /\ db.signed
    /\ db.version >= 6 => db.cleaned
    /\ db.version >= 10 => db.keyed
    /\ db.version >= 11 => db.thinned

(* One that was not there before a start. *)
Fresh(db) ==
    /\ db.signed /\ db.cleaned /\ db.thinned
    /\ db.tables => db.columns = {2, 4, 5} /\ db.keyed

(* Nothing of a database is taken back but the kept' table and its copy. *)
Grown(old, new) ==
    /\ (old.named => new.named) /\ (old.tables => new.tables)
    /\ old.version <= new.version
    /\ old.columns \subseteq new.columns
    /\ (old.signed => new.signed) /\ (old.cleaned => new.cleaned)
    /\ (old.keyed => new.keyed) /\ (old.thinned => new.thinned)

(* The kept are in their table, in its copy, or in both. *)
Holds(db, next, kept) ==
    /\ next.version = 10 /\ next.step \in {4, 5} => db.copy = kept
    /\ ~(next.version = 10 /\ next.step = 5) => db.events = kept

(* The rebuild of the table does not trip over its copy. *)
Ready(db, next) ==
    next.version = 10 =>
        (next.step = 2 => db.copy = M!NoCopy) /\ (next.step = 3 => db.copy # M!NoCopy)

(* What is known of one opener, and what it sees. *)
Records ==
    [at : {"closed", "create", "script", "migrate", "open"}, had : BOOLEAN,
     next : [version : Nat, step : Nat], tx : {<<>>} \cup {<<db>> : db \in Base}]

Seen(o, db) == IF o.tx # <<>> THEN o.tx[1] ELSE db

(* The committed database, one opener, and all of them. *)
DiskSafe(db, kept) ==
    /\ db \in Base
    /\ Sound(db)
    /\ db.events = kept
    /\ ~db.named => Fresh(db) /\ ~db.tables

OpenerSafe(o, db, kept) ==
    /\ o.at \in {"create", "script", "migrate"} /\ ~o.had => Fresh(db)
    /\ o.at \in {"script", "migrate"} => db.named
    /\ o.at = "migrate" => db.tables /\ o.next \in Places /\ Reached(Seen(o, db), o.next)
    /\ o.at = "migrate" /\ o.next.version = 10 /\ o.next.step \in {4, 5} => o.tx # <<>>
    /\ o.at = "open" => db.version = SCHEMA_VERSION
    /\ o.tx # <<>> =>
          o.at = "migrate" /\ Sound(o.tx[1]) /\ Grown(db, o.tx[1]) /\ Holds(o.tx[1], o.next, kept)

AllSafe(ops, db, alone, kept) ==
    /\ ops \in [Openers -> Records]
    /\ DiskSafe(db, kept)
    /\ \A p \in Openers : OpenerSafe(ops[p], db, kept)
    /\ \A p, q \in Openers : ops[p].tx # <<>> /\ ops[q].tx # <<>> => p = q
    /\ alone => \A p \in Openers : ops[p].at # "closed" =>
           /\ ops[p].at = "migrate" => Ready(Seen(ops[p], db), ops[p].next)
           /\ \A q \in Openers \ {p} : ops[q].at = "closed"

MigrationsInv == AllSafe(opener, disk, ~crowded, found) /\ crowded \in BOOLEAN

Place(v, i) == [version |-> v, step |-> i]

(* How many statements a version has, its row included. *)
Rows(v) == CASE v = 10 -> 6 [] v = 5 -> 3 [] v \in {2, 4, 6, 11} -> 2 [] OTHER -> 1

(* The row is the last of them. *)
LEMMA RowSteps == \A v \in 2..12 : M!RowStep(v) = Rows(v)
BY DEF M!RowStep, M!Statements, Rows

(* The statements by their place. *)
LEMMA Texts ==
    /\ M!Statements(2)[1] = M!DDL("column_2")
    /\ M!Statements(4)[1] = M!DDL("column_4")
    /\ M!Statements(5)[1] = M!DDL("column_5") /\ M!Statements(5)[2] = M!DML("keysig")
    /\ M!Statements(6)[1] = M!DML("known_grants")
    /\ M!Statements(10)[1] = M!DDL("drop_copy") /\ M!Statements(10)[2] = M!DDL("create_copy")
    /\ M!Statements(10)[3] = M!DML("copy")
    /\ M!Statements(10)[4] = M!DDL("drop_event") /\ M!Statements(10)[5] = M!DDL("rename_copy")
    /\ M!Statements(11)[1] = M!DML("thin_grants")
BY DEF M!Statements

(* A statement within its version, and the row at the end of it. *)
LEMMA Within ==
    ASSUME NEW v \in 2..12, NEW i \in Nat, i < Rows(v)
    PROVE  M!Statement(Place(v, i)) = M!Statements(v)[i] /\ M!After(Place(v, i)) = Place(v, i + 1)
<1>1. i < M!RowStep(v)
    BY RowSteps
<1> QED BY <1>1 DEF M!Statement, M!After, Place

(* At the row the version ends. *)
LEMMA AtTheRow ==
    ASSUME NEW v \in 2..12
    PROVE  /\ M!Statement(Place(v, Rows(v))) = M!DML("version_row")
           /\ M!After(Place(v, Rows(v))) = Place(v + 1, 1)
<1>1. M!RowStep(v) = Rows(v) /\ Rows(v) \in Nat
    BY RowSteps DEF Rows
<1> DEFINE n == Place(v, Rows(v))
<1>2. n.version = v /\ n.step = Rows(v)
    BY DEF Place
<1> HIDE DEF n
<1>3. ~(n.step < M!RowStep(n.version))
    BY <1>1, <1>2
<1>4. M!Statement(n) = M!DML("version_row") /\ M!After(n) = Place(v + 1, 1)
    BY <1>2, <1>3 DEF M!Statement, M!After, M!Upgrade, Place
<1> QED BY <1>4 DEF n

(* Every statement of a version is a place. *)
LEMMA Placed ==
    ASSUME M!MigrationsAssumption, NEW v \in 2..12, NEW i \in 1..Rows(v)
    PROVE  Place(v, i) \in Places
<1>1. M!RowStep(v) = Rows(v) /\ Rows(v) \in Nat
    BY RowSteps DEF Rows
<1> QED BY <1>1 DEF Places, Place, M!MigrationsAssumption

(* The statements one by one, and what follows each. *)
Is(next, v, i, s) ==
    /\ M!Statement(next) = s /\ next.version = v /\ next.step = i
    /\ M!After(next).version = v /\ M!After(next).step = i + 1 /\ M!After(next) \in Places
IsRow(next, v) ==
    /\ M!Statement(next) = M!DML("version_row") /\ next.version = v /\ next.step = Rows(v)
    /\ M!After(next).version = v + 1 /\ M!After(next).step = 1 /\ M!After(next) \in Places

(* A place of the script is one of these. *)
LEMMA Script ==
    ASSUME M!MigrationsAssumption, NEW next \in Places, ~M!Finished(next)
    PROVE  \/ Is(next, 2, 1, M!DDL("column_2"))
           \/ Is(next, 4, 1, M!DDL("column_4"))
           \/ Is(next, 5, 1, M!DDL("column_5"))
           \/ Is(next, 5, 2, M!DML("keysig"))
           \/ Is(next, 6, 1, M!DML("known_grants"))
           \/ Is(next, 10, 1, M!DDL("drop_copy"))
           \/ Is(next, 10, 2, M!DDL("create_copy"))
           \/ Is(next, 10, 3, M!DML("copy"))
           \/ Is(next, 10, 4, M!DDL("drop_event"))
           \/ Is(next, 10, 5, M!DDL("rename_copy"))
           \/ Is(next, 11, 1, M!DML("thin_grants"))
           \/ \E v \in 2..11 : IsRow(next, v)
<1> DEFINE v == next.version
           i == next.step
<1>1. next = Place(v, i) /\ v \in 2..12 /\ i \in 1..M!RowStep(v)
    <2>1. next \in [version : 2..12, step : Nat \ {0}] /\ i <= M!RowStep(v)
        BY DEF Places, M!MigrationsAssumption
    <2>2. M!RowStep(v) \in Nat
        BY <2>1, RowSteps DEF Rows
    <2> QED BY <2>1, <2>2 DEF Place
<1>2. v \in 2..11 /\ i \in 1..Rows(v)
    BY <1>1, RowSteps DEF M!Finished, M!MigrationsAssumption
<1> HIDE DEF v, i
<1>3. CASE i = Rows(v)
    <2>1. M!Statement(next) = M!DML("version_row") /\ M!After(next) = Place(v + 1, 1)
        BY <1>1, <1>2, <1>3, AtTheRow
    <2>2. 1 \in 1..Rows(v + 1) /\ v + 1 \in 2..12
        BY <1>2 DEF Rows
    <2>3. Place(v + 1, 1) \in Places
        BY <2>2, Placed
    <2>4. Place(v + 1, 1).version = v + 1 /\ Place(v + 1, 1).step = 1
        BY DEF Place
    <2>5. next.version = v /\ next.step = i
        BY DEF v, i
    <2>6. IsRow(next, v)
        BY <1>3, <2>1, <2>3, <2>4, <2>5, Zenon DEF IsRow
    <2> QED BY <1>2, <2>6
<1>4. CASE i < Rows(v)
    <2>1. Is(next, v, i, M!Statements(v)[i])
        <3>1. M!Statement(next) = M!Statements(v)[i] /\ M!After(next) = Place(v, i + 1)
            BY <1>1, <1>2, <1>4, Within
        <3>2. i + 1 \in 1..Rows(v)
            BY <1>2, <1>4 DEF Rows
        <3>9. Place(v, i + 1) \in Places
            BY <1>2, <3>2, Placed
        <3>3. Place(v, i + 1).version = v /\ Place(v, i + 1).step = i + 1
            BY DEF Place
        <3>4. next.version = v /\ next.step = i
            BY DEF v, i
        <3> QED BY <3>1, <3>9, <3>3, <3>4, Zenon DEF Is
    <2>2. \/ v = 10 /\ i \in 1..5
          \/ v = 5 /\ i \in 1..2
          \/ v \in {2, 4, 6, 11} /\ i = 1
        BY <1>2, <1>4 DEF Rows
    <2>3. CASE v = 10
        <3>1. \/ Is(next, 10, 1, M!Statements(10)[1]) \/ Is(next, 10, 2, M!Statements(10)[2])
              \/ Is(next, 10, 3, M!Statements(10)[3]) \/ Is(next, 10, 4, M!Statements(10)[4])
              \/ Is(next, 10, 5, M!Statements(10)[5])
            BY <2>1, <2>2, <2>3
        <3> QED BY <3>1, Texts, Zenon
    <2>4. CASE v = 5
        <3>1. Is(next, 5, 1, M!Statements(5)[1]) \/ Is(next, 5, 2, M!Statements(5)[2])
            BY <2>1, <2>2, <2>4
        <3> QED BY <3>1, Texts, Zenon
    <2>5. CASE v \in {2, 4, 6, 11}
        <3>1. \/ Is(next, 2, 1, M!Statements(2)[1]) \/ Is(next, 4, 1, M!Statements(4)[1])
              \/ Is(next, 6, 1, M!Statements(6)[1]) \/ Is(next, 11, 1, M!Statements(11)[1])
            BY <2>1, <2>2, <2>5
        <3> QED BY <3>1, Texts, Zenon
    <2> QED BY <2>2, <2>3, <2>4, <2>5
<1>5. Rows(v) \in Nat
    BY <1>2 DEF Rows
<1>6. i = Rows(v) \/ i < Rows(v)
    BY <1>2, <1>5
<1> QED BY <1>3, <1>4, <1>6

(* What a statement makes of a database and of the place it stands at. *)
Kept(old, new, next, kept) ==
    /\ new \in Base /\ Sound(new) /\ Reached(new, M!After(next)) /\ Grown(old, new)
    /\ M!After(next) \in Places
    /\ Holds(new, M!After(next), kept) /\ Ready(new, M!After(next))
    /\ M!After(next).version = 10 /\ M!After(next).step \in {4, 5} =>
           M!Statement(next).kind = "dml" \/ (next.version = 10 /\ next.step \in {4, 5})

(* A statement keeps a database sound, takes nothing back, and does its     *)
(* part for the place behind it.                                           *)
LEMMA RunStep ==
    ASSUME M!MigrationsAssumption, NEW db \in Base, NEW next \in Places, ~M!Finished(next),
           Sound(db), Reached(db, next), M!Runs(M!Statement(next), db),
           NEW kept \in SUBSET Events, Holds(db, next, kept)
    PROVE  Kept(db, M!Run(M!Statement(next), next.version, db), next, kept)
<1> DEFINE new == M!Run(M!Statement(next), next.version, db)
<1> SUFFICES Kept(db, new, next, kept)
    OBVIOUS
<1>a. M!NoCopy \notin SUBSET Events
    BY DEF M!NoCopy, M!MigrationsAssumption
<1>b. SCHEMA_VERSION = 11
    BY DEF M!MigrationsAssumption
<1>1. CASE Is(next, 2, 1, M!DDL("column_2"))
    <2>1. /\ next.version = 2 /\ next.step = 1 /\ M!After(next).version = 2 /\ M!After(next).step = 2
          /\ M!After(next) \in Places /\ M!Statement(next) = M!DDL("column_2")
        BY <1>1 DEF Is
    <2>2. new = [db EXCEPT !.columns = @ \cup {2}]
        BY <2>1 DEF M!Run, M!DDL, M!DML
    <2> HIDE DEF new
    <2>3. new \in Base
        BY <1>b, <2>2 DEF Base
    <2>4. Sound(new) /\ Grown(db, new) /\ Reached(new, M!After(next))
        BY <1>b, <2>1, <2>2 DEF Base, Sound, Grown, Reached, Past, M!Finished
    <2>5. Holds(new, M!After(next), kept) /\ Ready(new, M!After(next))
        BY <1>a, <2>1, <2>2 DEF Base, Holds, Ready
    <2> QED BY <2>1, <2>3, <2>4, <2>5 DEF Kept
<1>2. CASE Is(next, 4, 1, M!DDL("column_4"))
    <2>1. /\ next.version = 4 /\ next.step = 1 /\ M!After(next).version = 4 /\ M!After(next).step = 2
          /\ M!After(next) \in Places /\ M!Statement(next) = M!DDL("column_4")
        BY <1>2 DEF Is
    <2>2. new = [db EXCEPT !.columns = @ \cup {4}]
        BY <2>1 DEF M!Run, M!DDL, M!DML
    <2> HIDE DEF new
    <2>3. new \in Base
        BY <1>b, <2>2 DEF Base
    <2>4. Sound(new) /\ Grown(db, new) /\ Reached(new, M!After(next))
        BY <1>b, <2>1, <2>2 DEF Base, Sound, Grown, Reached, Past, M!Finished
    <2>5. Holds(new, M!After(next), kept) /\ Ready(new, M!After(next))
        BY <1>a, <2>1, <2>2 DEF Base, Holds, Ready
    <2> QED BY <2>1, <2>3, <2>4, <2>5 DEF Kept
<1>3. CASE Is(next, 5, 1, M!DDL("column_5"))
    <2>1. /\ next.version = 5 /\ next.step = 1 /\ M!After(next).version = 5 /\ M!After(next).step = 2
          /\ M!After(next) \in Places /\ M!Statement(next) = M!DDL("column_5")
        BY <1>3 DEF Is
    <2>2. new = [db EXCEPT !.columns = @ \cup {5}]
        BY <2>1 DEF M!Run, M!DDL, M!DML
    <2> HIDE DEF new
    <2>3. new \in Base
        BY <1>b, <2>2 DEF Base
    <2>4. Sound(new) /\ Grown(db, new) /\ Reached(new, M!After(next))
        BY <1>b, <2>1, <2>2 DEF Base, Sound, Grown, Reached, Past, M!Finished
    <2>5. Holds(new, M!After(next), kept) /\ Ready(new, M!After(next))
        BY <1>a, <2>1, <2>2 DEF Base, Holds, Ready
    <2> QED BY <2>1, <2>3, <2>4, <2>5 DEF Kept
<1>4. CASE Is(next, 5, 2, M!DML("keysig"))
    <2>1. /\ next.version = 5 /\ next.step = 2 /\ M!After(next).version = 5 /\ M!After(next).step = 3
          /\ M!After(next) \in Places /\ M!Statement(next) = M!DML("keysig")
        BY <1>4 DEF Is
    <2>2. new = [db EXCEPT !.signed = TRUE]
        BY <2>1 DEF M!Run, M!DDL, M!DML
    <2> HIDE DEF new
    <2>3. new \in Base
        BY <1>b, <2>2 DEF Base
    <2>4. Sound(new) /\ Grown(db, new) /\ Reached(new, M!After(next))
        BY <1>b, <2>1, <2>2 DEF Base, Sound, Grown, Reached, Past, M!Finished
    <2>5. Holds(new, M!After(next), kept) /\ Ready(new, M!After(next))
        BY <1>a, <2>1, <2>2 DEF Base, Holds, Ready
    <2> QED BY <2>1, <2>3, <2>4, <2>5 DEF Kept
<1>5. CASE Is(next, 6, 1, M!DML("known_grants"))
    <2>1. /\ next.version = 6 /\ next.step = 1 /\ M!After(next).version = 6 /\ M!After(next).step = 2
          /\ M!After(next) \in Places /\ M!Statement(next) = M!DML("known_grants")
        BY <1>5 DEF Is
    <2>2. new = [db EXCEPT !.cleaned = TRUE]
        BY <2>1 DEF M!Run, M!DDL, M!DML
    <2> HIDE DEF new
    <2>3. new \in Base
        BY <1>b, <2>2 DEF Base
    <2>4. Sound(new) /\ Grown(db, new) /\ Reached(new, M!After(next))
        BY <1>b, <2>1, <2>2 DEF Base, Sound, Grown, Reached, Past, M!Finished
    <2>5. Holds(new, M!After(next), kept) /\ Ready(new, M!After(next))
        BY <1>a, <2>1, <2>2 DEF Base, Holds, Ready
    <2> QED BY <2>1, <2>3, <2>4, <2>5 DEF Kept
<1>6. CASE Is(next, 10, 1, M!DDL("drop_copy"))
    <2>1. /\ next.version = 10 /\ next.step = 1 /\ M!After(next).version = 10 /\ M!After(next).step = 2
          /\ M!After(next) \in Places /\ M!Statement(next) = M!DDL("drop_copy")
        BY <1>6 DEF Is
    <2>2. new = [db EXCEPT !.copy = M!NoCopy]
        BY <2>1 DEF M!Run, M!DDL, M!DML
    <2> HIDE DEF new
    <2>3. new \in Base
        BY <1>b, <2>2 DEF Base
    <2>4. Sound(new) /\ Grown(db, new) /\ Reached(new, M!After(next))
        BY <1>b, <2>1, <2>2 DEF Base, Sound, Grown, Reached, Past, M!Finished
    <2>5. Holds(new, M!After(next), kept) /\ Ready(new, M!After(next))
        BY <1>a, <2>1, <2>2 DEF Base, Holds, Ready
    <2> QED BY <2>1, <2>3, <2>4, <2>5 DEF Kept
<1>7. CASE Is(next, 10, 2, M!DDL("create_copy"))
    <2>1. /\ next.version = 10 /\ next.step = 2 /\ M!After(next).version = 10 /\ M!After(next).step = 3
          /\ M!After(next) \in Places /\ M!Statement(next) = M!DDL("create_copy")
        BY <1>7 DEF Is
    <2>2. new = [db EXCEPT !.copy = {}]
        BY <2>1 DEF M!Run, M!DDL, M!DML
    <2> HIDE DEF new
    <2>3. new \in Base
        BY <1>b, <2>2 DEF Base
    <2>4. Sound(new) /\ Grown(db, new) /\ Reached(new, M!After(next))
        BY <1>b, <2>1, <2>2 DEF Base, Sound, Grown, Reached, Past, M!Finished
    <2>5. Holds(new, M!After(next), kept) /\ Ready(new, M!After(next))
        BY <1>a, <2>1, <2>2 DEF Base, Holds, Ready
    <2> QED BY <2>1, <2>3, <2>4, <2>5 DEF Kept
<1>8. CASE Is(next, 10, 3, M!DML("copy"))
    <2>1. /\ next.version = 10 /\ next.step = 3 /\ M!After(next).version = 10 /\ M!After(next).step = 4
          /\ M!After(next) \in Places /\ M!Statement(next) = M!DML("copy")
        BY <1>8 DEF Is
    <2>2. new = [db EXCEPT !.copy = db.events]
        BY <2>1 DEF M!Run, M!DDL, M!DML
    <2> HIDE DEF new
    <2>3. new \in Base
        BY <1>b, <2>2 DEF Base
    <2>4. Sound(new) /\ Grown(db, new) /\ Reached(new, M!After(next))
        BY <1>b, <2>1, <2>2 DEF Base, Sound, Grown, Reached, Past, M!Finished
    <2>5. Holds(new, M!After(next), kept) /\ Ready(new, M!After(next))
        BY <1>a, <2>1, <2>2 DEF Base, Holds, Ready
    <2> QED BY <2>1, <2>3, <2>4, <2>5 DEF Kept, M!DML
<1>9. CASE Is(next, 10, 4, M!DDL("drop_event"))
    <2>1. /\ next.version = 10 /\ next.step = 4 /\ M!After(next).version = 10 /\ M!After(next).step = 5
          /\ M!After(next) \in Places /\ M!Statement(next) = M!DDL("drop_event")
        BY <1>9 DEF Is
    <2>2. new = [db EXCEPT !.events = {}]
        BY <2>1 DEF M!Run, M!DDL, M!DML
    <2> HIDE DEF new
    <2>3. new \in Base
        BY <1>b, <2>2 DEF Base
    <2>4. Sound(new) /\ Grown(db, new) /\ Reached(new, M!After(next))
        BY <1>b, <2>1, <2>2 DEF Base, Sound, Grown, Reached, Past, M!Finished
    <2>5. Holds(new, M!After(next), kept) /\ Ready(new, M!After(next))
        BY <1>a, <2>1, <2>2 DEF Base, Holds, Ready
    <2> QED BY <2>1, <2>3, <2>4, <2>5 DEF Kept
<1>10. CASE Is(next, 10, 5, M!DDL("rename_copy"))
    <2>1. /\ next.version = 10 /\ next.step = 5 /\ M!After(next).version = 10 /\ M!After(next).step = 6
          /\ M!After(next) \in Places /\ M!Statement(next) = M!DDL("rename_copy")
        BY <1>10 DEF Is
    <2>2. new = [db EXCEPT !.events = db.copy, !.copy = M!NoCopy, !.keyed = TRUE]
        BY <2>1 DEF M!Run, M!DDL, M!DML
    <2>9. db.copy # M!NoCopy
        BY <2>1 DEF M!Runs, M!DDL
    <2> HIDE DEF new
    <2>3. new \in Base
        BY <1>b, <2>2, <2>9 DEF Base
    <2>4. Sound(new) /\ Grown(db, new) /\ Reached(new, M!After(next))
        BY <1>b, <2>1, <2>2 DEF Base, Sound, Grown, Reached, Past, M!Finished
    <2>5. Holds(new, M!After(next), kept) /\ Ready(new, M!After(next))
        BY <1>a, <2>1, <2>2 DEF Base, Holds, Ready
    <2> QED BY <2>1, <2>3, <2>4, <2>5 DEF Kept
<1>11. CASE Is(next, 11, 1, M!DML("thin_grants"))
    <2>1. /\ next.version = 11 /\ next.step = 1 /\ M!After(next).version = 11 /\ M!After(next).step = 2
          /\ M!After(next) \in Places /\ M!Statement(next) = M!DML("thin_grants")
        BY <1>11 DEF Is
    <2>2. new = [db EXCEPT !.thinned = TRUE]
        BY <2>1 DEF M!Run, M!DDL, M!DML
    <2> HIDE DEF new
    <2>3. new \in Base
        BY <1>b, <2>2 DEF Base
    <2>4. Sound(new) /\ Grown(db, new) /\ Reached(new, M!After(next))
        BY <1>b, <2>1, <2>2 DEF Base, Sound, Grown, Reached, Past, M!Finished
    <2>5. Holds(new, M!After(next), kept) /\ Ready(new, M!After(next))
        BY <1>a, <2>1, <2>2 DEF Base, Holds, Ready
    <2> QED BY <2>1, <2>3, <2>4, <2>5 DEF Kept
<1>12. ASSUME NEW v \in 2..11, IsRow(next, v) PROVE Kept(db, new, next, kept)
    <2>1. /\ M!Statement(next) = M!DML("version_row")
          /\ next.version = v /\ next.step = Rows(v)
          /\ M!After(next).version = v + 1 /\ M!After(next).step = 1 /\ M!After(next) \in Places
        BY <1>12 DEF IsRow
    <2>2. new = [db EXCEPT !.version = IF @ < v THEN v ELSE @]
        BY <2>1 DEF M!Run, M!DDL, M!DML
    <2> HIDE DEF new
    <2>3. new \in Base /\ Grown(db, new)
        BY <1>b, <2>2 DEF Base, Grown
    <2>4. Sound(new)
        BY <1>b, <2>1, <2>2 DEF Base, Sound, Reached, Rows, Past
    <2>5. Reached(new, M!After(next))
        BY <1>b, <2>1, <2>2 DEF Base, Reached, Past, M!Finished, Rows
    <2>6. Holds(new, M!After(next), kept) /\ Ready(new, M!After(next))
        BY <2>1, <2>2 DEF Base, Holds, Ready, Rows
    <2> QED BY <2>1, <2>3, <2>4, <2>5, <2>6 DEF Kept
<1> QED BY <1>1, <1>2, <1>3, <1>4, <1>5, <1>6, <1>7, <1>8, <1>9, <1>10, <1>11, <1>12, Script

(* A transaction holds one database. *)
LEMMA TxIsOne ==
    ASSUME NEW o \in Records, o.tx # <<>>
    PROVE  o.tx[1] \in Base /\ o.tx = <<o.tx[1]>>
BY DEF Records

(* Whether a database that grew is still a fresh one. *)
LEMMA FreshGrows ==
    ASSUME NEW old \in Base, NEW new \in Base, Grown(old, new), Fresh(old), old.tables
    PROVE  Fresh(new)
BY DEF Base, Grown, Fresh

(* A place that was reached stays reached. *)
LEMMA ReachedGrows ==
    ASSUME NEW old \in Base, NEW new \in Base, Grown(old, new), NEW next, Reached(old, next)
    PROVE  Reached(new, next)
<1>1. old.version <= new.version /\ new.version <= SCHEMA_VERSION /\ old.columns \subseteq new.columns
    BY DEF Base, Grown
<1>2. M!Finished(next) => new.version = SCHEMA_VERSION
    BY <1>1 DEF Base, Reached
<1> QED BY <1>1, <1>2 DEF Base, Grown, Reached

(* The others may rely on a disk that only grows. *)
LEMMA OthersGrow ==
    ASSUME NEW old \in Base, NEW new \in Base, Grown(old, new), Fresh(old) => Fresh(new),
           NEW o \in Records, NEW kept, o.tx = <<>>, OpenerSafe(o, old, kept)
    PROVE  OpenerSafe(o, new, kept)
<1>1. o.at = "migrate" => Reached(new, o.next)
    BY ReachedGrows DEF OpenerSafe, Seen
<1>2. o.at = "open" => new.version = SCHEMA_VERSION
    BY DEF OpenerSafe, Grown, Base
<1> QED BY <1>1, <1>2 DEF OpenerSafe, Seen, Grown, Base

(* One opener goes on to o, and the disk to new: all that has to be shown. *)
LEMMA Frame ==
    ASSUME NEW ops, NEW old, NEW new, NEW alone \in BOOLEAN, NEW still \in BOOLEAN, NEW kept,
           AllSafe(ops, old, alone, kept),
           NEW p \in Openers, NEW o \in Records,
           DiskSafe(new, kept), OpenerSafe(o, new, kept),
           \/ new = old
           \/ /\ Grown(old, new) /\ (Fresh(old) => Fresh(new))
              /\ \A q \in Openers \ {p} : ops[q].tx = <<>>,
           o.tx # <<>> => \A q \in Openers \ {p} : ops[q].tx = <<>>,
           still => /\ o.at = "migrate" => Ready(Seen(o, new), o.next)
                    /\ \A q \in Openers \ {p} : ops[q].at = "closed"
    PROVE  AllSafe([ops EXCEPT ![p] = o], new, still, kept)
<1> DEFINE then == [ops EXCEPT ![p] = o]
<1>0. ops \in [Openers -> Records] /\ DiskSafe(old, kept)
    BY DEF AllSafe
<1>1. then \in [Openers -> Records]
    BY <1>0
<1>2. then[p] = o /\ \A q \in Openers \ {p} : then[q] = ops[q]
    BY <1>0
<1> HIDE DEF then
<1>3. ASSUME NEW q \in Openers PROVE OpenerSafe(then[q], new, kept)
    <2>1. CASE q = p
        BY <1>2, <2>1
    <2>2. CASE q # p
        <3>1. then[q] = ops[q] /\ ops[q] \in Records /\ OpenerSafe(ops[q], old, kept)
            BY <1>0, <1>2, <2>2, <1>3 DEF AllSafe
        <3>2. CASE new = old
            BY <3>1, <3>2
        <3>3. CASE /\ Grown(old, new) /\ (Fresh(old) => Fresh(new)) /\ ops[q].tx = <<>>
            <4>1. old \in Base /\ new \in Base
                BY <1>0 DEF DiskSafe
            <4> QED BY <3>1, <3>3, <4>1, OthersGrow
        <3> QED BY <1>3, <2>2, <3>2, <3>3
    <2> QED BY <2>1, <2>2
<1>4. ASSUME NEW q \in Openers, NEW r \in Openers, then[q].tx # <<>>, then[r].tx # <<>>
      PROVE  q = r
    <2>1. ops[q].tx # <<>> /\ ops[r].tx # <<>> => q = r
        BY <1>4 DEF AllSafe
    <2> QED BY <1>2, <1>4, <2>1
<1>5. ASSUME still, NEW q \in Openers, then[q].at # "closed"
      PROVE  /\ then[q].at = "migrate" => Ready(Seen(then[q], new), then[q].next)
             /\ \A r \in Openers \ {q} : then[r].at = "closed"
    <2>1. q = p
        BY <1>2, <1>5
    <2> QED BY <1>2, <1>5, <2>1
<1>6. AllSafe(then, new, still, kept)
    BY <1>1, <1>3, <1>4, <1>5 DEF AllSafe
<1> QED BY <1>6 DEF then

(* A database of any version is sound. *)
LEMMA MigrationsBegin == ASSUME M!MigrationsAssumption, M!Init PROVE MigrationsInv
<1>1. PICK v \in Old : disk = M!Database(v)
    BY DEF M!Init
<1>2. v \in 0..11 /\ SCHEMA_VERSION = 11 /\ found = disk.events
    BY DEF M!Init, M!MigrationsAssumption
<1>3. M!Closed \in Records
    BY DEF M!Closed, Records
<1>a. /\ disk.version = IF v > 1 THEN v ELSE 0
      /\ disk.columns = {c \in {2, 4, 5} : v >= c}
      /\ (disk.named <=> v > 0) /\ (disk.tables <=> v > 0)
      /\ (disk.signed <=> v >= 5 \/ v = 0) /\ (disk.cleaned <=> v >= 6 \/ v = 0)
      /\ (disk.keyed <=> v >= 10) /\ (disk.thinned <=> v >= 11 \/ v = 0)
    BY <1>1 DEF M!Database
<1>4. disk \in Base
    BY <1>1, <1>2 DEF M!Database, Base
<1>b. Sound(disk)
    BY <1>2, <1>a DEF Sound
<1>5. ~disk.named => Fresh(disk) /\ ~disk.tables
    BY <1>2, <1>a DEF Fresh
<1>6. \A p \in Openers : opener[p] = M!Closed
    BY DEF M!Init
<1>7. M!Closed.at = "closed" /\ M!Closed.tx = <<>>
    BY DEF M!Closed
<1>8. OpenerSafe(M!Closed, disk, found)
    BY <1>7 DEF OpenerSafe
<1>9. opener \in [Openers -> Records] /\ crowded = FALSE
    BY <1>3 DEF M!Init
<1> QED BY <1>2, <1>4, <1>b, <1>5, <1>6, <1>7, <1>8, <1>9 DEF MigrationsInv, AllSafe, DiskSafe

(* What the invariant says of one opener. *)
LEMMA Known ==
    ASSUME M!MigrationsAssumption, MigrationsInv, NEW p \in Openers
    PROVE  /\ opener[p] \in Records /\ OpenerSafe(opener[p], disk, found)
           /\ DiskSafe(disk, found) /\ found \in SUBSET Events /\ crowded \in BOOLEAN
           /\ M!View(p) = Seen(opener[p], disk)
           /\ ~crowded /\ opener[p].at # "closed" =>
                 /\ opener[p].at = "migrate" => Ready(M!View(p), opener[p].next)
                 /\ \A q \in Openers \ {p} : opener[q].at = "closed"
           /\ \A q \in Openers \ {p} : opener[p].tx # <<>> => opener[q].tx = <<>>
<1>1. AllSafe(opener, disk, ~crowded, found) /\ crowded \in BOOLEAN
    BY DEF MigrationsInv
<1>2. opener[p] \in Records /\ OpenerSafe(opener[p], disk, found) /\ DiskSafe(disk, found)
    BY <1>1 DEF AllSafe
<1>3. found \in SUBSET Events
    BY <1>2 DEF DiskSafe, Base
<1>4. M!View(p) = Seen(opener[p], disk)
    BY DEF M!View, Seen
<1>5. \A q \in Openers \ {p} : opener[p].tx # <<>> => opener[q].tx = <<>>
    BY <1>1 DEF AllSafe
<1>6. ~crowded /\ opener[p].at # "closed" =>
          /\ opener[p].at = "migrate" => Ready(Seen(opener[p], disk), opener[p].next)
          /\ \A q \in Openers \ {p} : opener[q].at = "closed"
    BY <1>1 DEF AllSafe
<1> QED BY <1>1, <1>2, <1>3, <1>4, <1>5, <1>6

(* Frame, for a step of the specification. *)
LEMMA Moves ==
    ASSUME M!MigrationsAssumption, MigrationsInv, NEW p \in Openers, NEW o \in Records,
           M!Move(p, o), found' = found, crowded' \in BOOLEAN,
           DiskSafe(disk', found), OpenerSafe(o, disk', found),
           \/ disk' = disk
           \/ /\ Grown(disk, disk') /\ (Fresh(disk) => Fresh(disk'))
              /\ \A q \in Openers \ {p} : opener[q].tx = <<>>,
           o.tx # <<>> => \A q \in Openers \ {p} : opener[q].tx = <<>>,
           ~crowded' => /\ o.at = "migrate" => Ready(Seen(o, disk'), o.next)
                        /\ \A q \in Openers \ {p} : opener[q].at = "closed"
    PROVE  MigrationsInv'
<1>1. AllSafe(opener, disk, ~crowded, found) /\ (~crowded) \in BOOLEAN /\ (~crowded') \in BOOLEAN
    BY DEF MigrationsInv
<1>2. AllSafe([opener EXCEPT ![p] = o], disk', ~crowded', found)
    BY <1>1, Frame
<1>3. opener' = [opener EXCEPT ![p] = o]
    BY DEF M!Move
<1>4. AllSafe(opener', disk', ~crowded', found')
    BY <1>2, <1>3
<1> QED BY <1>4 DEF MigrationsInv

(* One that is closed asks for nothing. *)
LEMMA ClosedIsSafe ==
    ASSUME NEW db, NEW kept
    PROVE  /\ M!Closed \in Records /\ M!Closed.at = "closed" /\ M!Closed.tx = <<>>
           /\ OpenerSafe(M!Closed, db, kept)
BY DEF M!Closed, Records, OpenerSafe

(* The steps, one by one. *)
LEMMA OpenStep ==
    ASSUME M!MigrationsAssumption, MigrationsInv, NEW p \in Openers, M!Open(p)
    PROVE  MigrationsInv'
<1> DEFINE o == [M!Closed EXCEPT !.at = "create", !.had = disk.named]
<1>1. DiskSafe(disk, found) /\ crowded \in BOOLEAN
    BY Known
<1>2. disk.named \in BOOLEAN
    BY <1>1 DEF DiskSafe, Base
<1>3. o \in Records /\ o.at = "create" /\ o.tx = <<>> /\ o.had = disk.named
    BY <1>2 DEF M!Closed, Records
<1>4. M!Move(p, o) /\ disk' = disk /\ found' = found
    BY DEF M!Open
<1>5. crowded' = (crowded \/ \E q \in Openers : opener[q].at # "closed")
    BY DEF M!Open
<1> HIDE DEF o
<1>6. OpenerSafe(o, disk, found)
    BY <1>1, <1>3 DEF OpenerSafe, DiskSafe
<1>7. crowded' \in BOOLEAN /\ (~crowded' => \A q \in Openers \ {p} : opener[q].at = "closed")
    BY <1>1, <1>5
<1> QED BY <1>1, <1>3, <1>4, <1>6, <1>7, Moves

LEMMA CloseStep ==
    ASSUME M!MigrationsAssumption, MigrationsInv, NEW p \in Openers, M!Close(p) \/ M!Fails(p)
    PROVE  MigrationsInv'
<1>1. DiskSafe(disk, found) /\ crowded \in BOOLEAN /\ opener[p].at # "closed"
    BY Known DEF M!Close, M!Fails
<1>2. M!Move(p, M!Closed) /\ disk' = disk /\ found' = found
    BY DEF M!Close, M!Fails
<1>3. \/ crowded' = crowded
      \/ crowded' = (crowded /\ \E q \in Openers \ {p} : opener[q].at # "closed")
    BY DEF M!Close, M!Fails
<1>4. ~crowded => \A q \in Openers \ {p} : opener[q].at = "closed"
    BY <1>1, Known
<1>5. crowded' \in BOOLEAN /\ (~crowded' => \A q \in Openers \ {p} : opener[q].at = "closed")
    BY <1>1, <1>3, <1>4
<1> QED BY <1>1, <1>2, <1>5, ClosedIsSafe, Moves

LEMMA CreateVersionTableStep ==
    ASSUME M!MigrationsAssumption, MigrationsInv, NEW p \in Openers, M!CreateVersionTable(p)
    PROVE  MigrationsInv'
<1> DEFINE o == [opener[p] EXCEPT !.at = "script"]
<1>1. /\ opener[p] \in Records /\ OpenerSafe(opener[p], disk, found) /\ DiskSafe(disk, found)
      /\ crowded \in BOOLEAN /\ opener[p].at = "create"
    BY Known DEF M!CreateVersionTable
<1>2. o \in Records /\ o.at = "script" /\ o.tx = opener[p].tx /\ o.had = opener[p].had
    BY <1>1 DEF Records
<1>3. M!Move(p, o) /\ found' = found /\ crowded' = crowded /\ disk' = [disk EXCEPT !.named = TRUE]
    BY DEF M!CreateVersionTable, M!CreateFirst
<1> HIDE DEF o
<1>4. o.tx = <<>>
    BY <1>1, <1>2 DEF OpenerSafe
<1>d. disk \in Base /\ Sound(disk) /\ disk.events = found
    BY <1>1 DEF DiskSafe
<1>a. disk' \in Base
    BY <1>d, <1>3 DEF Base
<1>g. Grown(disk, disk')
    BY <1>d, <1>3 DEF Base, Grown
<1>h. Fresh(disk) => Fresh(disk')
    BY <1>d, <1>3 DEF Base, Fresh
<1>b. Sound(disk') /\ disk'.named /\ disk'.events = found
    BY <1>d, <1>3 DEF Base, Sound
<1>5. DiskSafe(disk', found) /\ Grown(disk, disk') /\ (Fresh(disk) => Fresh(disk'))
    BY <1>a, <1>b, <1>g, <1>h DEF DiskSafe
<1>6. OpenerSafe(o, disk', found)
    BY <1>1, <1>2, <1>3, <1>4, <1>5 DEF OpenerSafe, DiskSafe, Base
<1>7. disk' = disk \/ \A q \in Openers \ {p} : opener[q].tx = <<>>
    <2>1. CASE disk.named
        BY <1>1, <1>3, <2>1 DEF DiskSafe, Base
    <2>2. CASE M!Holder = {}
        BY <2>2 DEF M!Holder
    <2> QED BY <2>1, <2>2 DEF M!CreateVersionTable
<1>8. ~crowded' => \A q \in Openers \ {p} : opener[q].at = "closed"
    BY <1>1, <1>3, Known
<1> QED BY <1>1, <1>2, <1>3, <1>4, <1>5, <1>6, <1>7, <1>8, Moves

(* What the script leaves of a database, and where the migrations start. *)
LEMMA CreateTablesStep ==
    ASSUME M!MigrationsAssumption, MigrationsInv, NEW p \in Openers, M!CreateTables(p)
    PROVE  MigrationsInv'
<1> DEFINE from == IF M!CreateRest(disk).version = 0 THEN 1 ELSE M!CreateRest(disk).version
           next == IF opener[p].had THEN M!Upgrade(from) ELSE M!RowAlone
           o == [opener[p] EXCEPT !.at = "migrate", !.next = next]
<1>1. /\ opener[p] \in Records /\ OpenerSafe(opener[p], disk, found) /\ DiskSafe(disk, found)
      /\ crowded \in BOOLEAN /\ opener[p].at = "script"
    BY Known DEF M!CreateTables
<1>2. disk \in Base /\ Sound(disk) /\ disk.events = found /\ disk.named
    BY <1>1 DEF DiskSafe, OpenerSafe
<1>3. M!Move(p, o) /\ found' = found /\ crowded' = crowded /\ disk' = M!CreateRest(disk)
    BY DEF M!CreateTables
<1>4. \/ disk.tables /\ disk' = disk
      \/ ~disk.tables /\ disk' = [disk EXCEPT !.tables = TRUE, !.columns = {2, 4, 5}, !.keyed = TRUE]
    BY <1>3 DEF M!CreateRest
<1>5. disk' \in Base /\ disk'.tables /\ disk'.named /\ disk'.events = found
      /\ disk'.version = disk.version
    BY <1>2, <1>4 DEF Base
<1>6. Sound(disk')
    BY <1>2, <1>4 DEF Base, Sound
<1>7. Grown(disk, disk')
    <2>1. disk.columns \subseteq {2, 4, 5} /\ disk.version \in Int
        BY <1>2 DEF Base
    <2>2. CASE disk' = disk
        BY <2>1, <2>2 DEF Grown
    <2>3. CASE disk' = [disk EXCEPT !.tables = TRUE, !.columns = {2, 4, 5}, !.keyed = TRUE]
        BY <1>2, <2>1, <2>3 DEF Base, Grown
    <2> QED BY <1>4, <2>2, <2>3
<1>8. Fresh(disk) => Fresh(disk')
    BY <1>2, <1>4 DEF Base, Fresh
<1>9. next \in Places /\ next \in [version : Nat, step : Nat] /\ Reached(disk', next)
      /\ (next.version # 10 \/ next.step = 1)
    <2>1. disk'.version \in 0..11 /\ SCHEMA_VERSION = 11
        BY <1>5 DEF Base, M!MigrationsAssumption
    <2>2. CASE opener[p].had
        <3>1. next = M!Upgrade(from) /\ from = IF disk'.version = 0 THEN 1 ELSE disk'.version
            BY <1>3, <2>2
        <3> HIDE DEF next, from
        <3>2. next = Place(from + 1, 1) /\ from \in 1..11
            BY <2>1, <3>1 DEF M!Upgrade, Place
        <3>3. from + 1 \in 2..12 /\ 1 \in 1..Rows(from + 1)
            BY <3>2 DEF Rows
        <3>4. Place(from + 1, 1) \in Places
            BY <3>3, Placed
        <3>5. next.version = from + 1 /\ next.step = 1
            BY <3>2 DEF Place
        <3>6. Reached(disk', next)
            BY <1>5, <1>6, <2>1, <3>1, <3>2, <3>5 DEF Base, Sound, Reached, Past, M!Finished
        <3> QED BY <3>2, <3>4, <3>5, <3>6 DEF Place
    <2>3. CASE ~opener[p].had
        <3>1. next = Place(11, 2)
            BY <2>1, <2>3, RowSteps DEF M!RowAlone, Place, Rows
        <3> HIDE DEF next
        <3>2. next.version = 11 /\ next.step = 2
            BY <3>1 DEF Place
        <3>3. Place(11, 2) \in Places
            BY Placed DEF Rows
        <3>4. Fresh(disk')
            BY <1>1, <1>8, <2>3 DEF OpenerSafe
        <3>5. Reached(disk', next)
            BY <1>5, <2>1, <3>2, <3>4 DEF Fresh, Reached, Past, M!Finished
        <3> QED BY <3>1, <3>2, <3>3, <3>5 DEF Place
    <2> QED BY <2>2, <2>3
<1> HIDE DEF next
<1>10. o \in Records /\ o.at = "migrate" /\ o.tx = opener[p].tx /\ o.had = opener[p].had /\ o.next = next
    BY <1>1, <1>9 DEF Records
<1> HIDE DEF o
<1>11. o.tx = <<>>
    BY <1>1, <1>10 DEF OpenerSafe
<1>12. Seen(o, disk') = disk'
    BY <1>11 DEF Seen
<1>13. OpenerSafe(o, disk', found)
    <2>1. ~o.had => Fresh(disk')
        BY <1>1, <1>8, <1>10 DEF OpenerSafe
    <2> QED BY <1>5, <1>9, <1>10, <1>11, <1>12, <2>1 DEF OpenerSafe
<1>14. DiskSafe(disk', found)
    BY <1>5, <1>6 DEF DiskSafe
<1>15. disk' = disk \/ \A q \in Openers \ {p} : opener[q].tx = <<>>
    BY <1>4 DEF M!CreateTables, M!Holder
<1>16. ~crowded' => Ready(disk', next) /\ \A q \in Openers \ {p} : opener[q].at = "closed"
    <2>1. Ready(disk', next)
        BY <1>9 DEF Ready
    <2> QED BY <1>1, <1>3, <2>1, Known
<1> QED BY <1>1, <1>3, <1>7, <1>8, <1>10, <1>11, <1>12, <1>13, <1>14, <1>15, <1>16, Moves

(* A statement is committed at once, or goes to the transaction. *)
LEMMA ExecuteStep ==
    ASSUME M!MigrationsAssumption, MigrationsInv, NEW p \in Openers, M!Execute(p)
    PROVE  MigrationsInv'
<1> DEFINE next == opener[p].next
           s == M!Statement(next)
           db == M!View(p)
           done == M!Run(s, next.version, db)
           behind == [opener[p] EXCEPT !.next = M!After(next)]
           within == [opener[p] EXCEPT !.next = M!After(next), !.tx = <<done>>]
<1>1. /\ opener[p] \in Records /\ OpenerSafe(opener[p], disk, found) /\ DiskSafe(disk, found)
      /\ crowded \in BOOLEAN /\ opener[p].at = "migrate" /\ found \in SUBSET Events
      /\ db = Seen(opener[p], disk)
    BY Known DEF M!Execute
<1>2. disk \in Base /\ Sound(disk) /\ disk.events = found /\ disk.named /\ disk.tables
    BY <1>1 DEF DiskSafe, OpenerSafe
<1>3. /\ ~M!Finished(next) /\ M!Holder \subseteq {p} /\ M!Runs(s, db)
      /\ found' = found /\ crowded' = crowded
    BY DEF M!Execute
<1>4. \/ /\ opener[p].tx = <<>> /\ s.kind = "ddl"
         /\ disk' = done /\ M!Move(p, behind)
      \/ /\ ~(opener[p].tx = <<>> /\ s.kind = "ddl")
         /\ disk' = disk /\ M!Move(p, within)
    BY DEF M!Execute
<1>5. next \in Places /\ Reached(db, next)
    BY <1>1 DEF OpenerSafe
<1>6. db \in Base /\ Sound(db) /\ Grown(disk, db) /\ Holds(db, next, found)
    <2>1. CASE opener[p].tx = <<>>
        <3>1. db = disk
            BY <1>1, <2>1 DEF Seen
        <3>2. Grown(disk, disk)
            BY <1>2 DEF Grown, Base
        <3>3. Holds(disk, next, found)
            BY <1>1, <1>2, <2>1 DEF OpenerSafe, Holds
        <3> QED BY <1>2, <3>1, <3>2, <3>3
    <2>2. CASE opener[p].tx # <<>>
        <3>1. db = opener[p].tx[1]
            BY <1>1, <2>2 DEF Seen
        <3> HIDE DEF db, next
        <3>2. db \in Base
            BY <1>1, <2>2, <3>1, TxIsOne
        <3>3. Sound(db) /\ Grown(disk, db) /\ Holds(db, opener[p].next, found)
            BY <1>1, <2>2, <3>1, Zenon DEF OpenerSafe
        <3> QED BY <3>2, <3>3 DEF next
    <2> QED BY <2>1, <2>2
<1>7. Kept(db, done, next, found)
    <2> HIDE DEF db, next
    <2> QED BY <1>1, <1>3, <1>5, <1>6, RunStep
<1>8. /\ done \in Base /\ Sound(done) /\ Reached(done, M!After(next)) /\ Grown(db, done)
      /\ M!After(next) \in Places /\ M!After(next) \in [version : Nat, step : Nat]
      /\ Holds(done, M!After(next), found) /\ Ready(done, M!After(next))
      /\ M!After(next).version = 10 /\ M!After(next).step \in {4, 5} =>
             s.kind = "dml" \/ (next.version = 10 /\ next.step \in {4, 5})
    <2>1. M!After(next) \in Places
        BY <1>7, Zenon DEF Kept
    <2>2. M!After(next) \in [version : Nat, step : Nat]
        BY <2>1 DEF Places, M!MigrationsAssumption
    <2> QED BY <1>7, <2>1, <2>2, Zenon DEF Kept
<1>9. Grown(disk, done)
    <2> HIDE DEF db, done
    <2> QED BY <1>2, <1>6, <1>8 DEF Grown, Base
<1>10. ~crowded' => \A q \in Openers \ {p} : opener[q].at = "closed"
    BY <1>1, <1>3, Known
<1>11. \A q \in Openers \ {p} : opener[q].tx = <<>>
    BY <1>3 DEF M!Holder
<1>12. opener[p].had \/ Fresh(disk)
    BY <1>1 DEF OpenerSafe
<1> HIDE DEF next, s, db, done
<1>13. CASE opener[p].tx = <<>> /\ s.kind = "ddl" /\ disk' = done /\ M!Move(p, behind)
    <2>1. /\ behind \in Records /\ behind.at = "migrate" /\ behind.tx = <<>>
          /\ behind.had = opener[p].had /\ behind.next = M!After(next)
        BY <1>1, <1>8, <1>13 DEF Records
    <2> HIDE DEF behind
    <2>2. ~(M!After(next).version = 10 /\ M!After(next).step \in {4, 5})
        BY <1>1, <1>8, <1>13 DEF OpenerSafe, next
    <2>3. done.events = found
        BY <1>8, <2>2 DEF Holds
    <2>4. done.named /\ done.tables /\ (Fresh(disk) => Fresh(done))
        BY <1>2, <1>8, <1>9, FreshGrows DEF Grown
    <2>5. DiskSafe(done, found)
        BY <1>8, <2>3, <2>4 DEF DiskSafe
    <2>6. Seen(behind, done) = done
        BY <2>1 DEF Seen
    <2>7. OpenerSafe(behind, done, found)
        BY <1>8, <1>12, <2>1, <2>2, <2>4, <2>6 DEF OpenerSafe
    <2> QED BY <1>1, <1>3, <1>8, <1>9, <1>10, <1>11, <1>13, <2>1, <2>4, <2>5, <2>6, <2>7, Moves
<1>14. CASE ~(opener[p].tx = <<>> /\ s.kind = "ddl") /\ disk' = disk /\ M!Move(p, within)
    <2>1. /\ within \in Records /\ within.at = "migrate" /\ within.tx = <<done>>
          /\ within.had = opener[p].had /\ within.next = M!After(next)
        BY <1>1, <1>8, <1>14 DEF Records
    <2> HIDE DEF within
    <2>2. within.tx # <<>> /\ within.tx[1] = done
        BY <2>1
    <2>3. Seen(within, disk) = done
        BY <2>2 DEF Seen
    <2>4. OpenerSafe(within, disk, found)
        BY <1>2, <1>8, <1>9, <1>12, <2>1, <2>2, <2>3 DEF OpenerSafe
    <2> QED BY <1>1, <1>3, <1>8, <1>10, <1>11, <1>14, <2>1, <2>3, <2>4, Moves
<1> QED BY <1>4, <1>13, <1>14

(* A transaction that ends has run the whole script. *)
LEMMA CommitStep ==
    ASSUME M!MigrationsAssumption, MigrationsInv, NEW p \in Openers, M!Commit(p)
    PROVE  MigrationsInv'
<1> DEFINE o == [M!Closed EXCEPT !.at = "open"]
<1>1. /\ opener[p] \in Records /\ OpenerSafe(opener[p], disk, found) /\ DiskSafe(disk, found)
      /\ crowded \in BOOLEAN /\ opener[p].at = "migrate"
      /\ M!View(p) = Seen(opener[p], disk)
    BY Known DEF M!Commit
<1>2. /\ M!Finished(opener[p].next) /\ disk' = Seen(opener[p], disk) /\ M!Move(p, o)
      /\ found' = found /\ crowded' = crowded
    BY <1>1 DEF M!Commit
<1>3. o \in Records /\ o.at = "open" /\ o.tx = <<>>
    BY DEF M!Closed, Records
<1> HIDE DEF o
<1>4. disk \in Base /\ disk.named /\ disk.tables /\ disk.events = found
    BY <1>1 DEF DiskSafe, OpenerSafe
<1>5. opener[p].next \in Places /\ Reached(disk', opener[p].next)
    BY <1>1, <1>2 DEF OpenerSafe
<1>6. disk'.version = SCHEMA_VERSION
    BY <1>2, <1>5 DEF Reached
<1>7. OpenerSafe(o, disk', found)
    BY <1>3, <1>6 DEF OpenerSafe
<1>8. /\ DiskSafe(disk', found)
      /\ \/ disk' = disk
         \/ /\ Grown(disk, disk') /\ (Fresh(disk) => Fresh(disk'))
            /\ \A q \in Openers \ {p} : opener[q].tx = <<>>
    <2>1. CASE opener[p].tx = <<>>
        BY <1>1, <1>2, <2>1 DEF Seen
    <2>2. CASE opener[p].tx # <<>>
        <3>1. disk' = opener[p].tx[1]
            BY <1>2, <2>2 DEF Seen
        <3>2. disk' \in Base
            BY <1>1, <2>2, <3>1, TxIsOne
        <3>3. Sound(disk') /\ Grown(disk, disk') /\ Holds(disk', opener[p].next, found)
            BY <1>1, <2>2, <3>1, Zenon DEF OpenerSafe
        <3>4. disk'.events = found
            <4>1. opener[p].next.version # 10
                BY <1>2 DEF M!Finished, M!MigrationsAssumption
            <4> QED BY <3>3, <4>1 DEF Holds
        <3>5. disk'.named /\ (Fresh(disk) => Fresh(disk'))
            BY <1>4, <3>2, <3>3, FreshGrows DEF Grown
        <3>6. \A q \in Openers \ {p} : opener[q].tx = <<>>
            BY <2>2, Known
        <3> QED BY <3>2, <3>3, <3>4, <3>5, <3>6 DEF DiskSafe
    <2> QED BY <2>1, <2>2
<1>9. ~crowded' => \A q \in Openers \ {p} : opener[q].at = "closed"
    BY <1>1, <1>2, Known
<1> QED BY <1>1, <1>2, <1>3, <1>7, <1>8, <1>9, Moves

(* All of them. *)
LEMMA MigrationsStep == ASSUME M!MigrationsAssumption, MigrationsInv, [M!Next]_M!vars PROVE MigrationsInv'
<1>1. CASE UNCHANGED M!vars
    BY <1>1 DEF M!vars, MigrationsInv
<1>2. ASSUME NEW p \in Openers, M!Open(p) \/ M!CreateVersionTable(p) \/ M!CreateTables(p)
                                \/ M!Execute(p) \/ M!Commit(p) \/ M!Fails(p) \/ M!Close(p)
      PROVE  MigrationsInv'
    BY <1>2, OpenStep, CreateVersionTableStep, CreateTablesStep, ExecuteStep, CommitStep, CloseStep
<1> QED BY <1>1, <1>2 DEF M!Next

(* Only the rebuild has statements that may not be able to run. *)
LEMMA Harmless ==
    ASSUME NEW db
    PROVE  /\ M!Runs(M!DDL("column_2"), db) /\ M!Runs(M!DDL("column_4"), db) /\ M!Runs(M!DDL("column_5"), db)
           /\ M!Runs(M!DML("keysig"), db) /\ M!Runs(M!DML("known_grants"), db)
           /\ M!Runs(M!DDL("drop_copy"), db) /\ M!Runs(M!DDL("drop_event"), db)
           /\ M!Runs(M!DML("thin_grants"), db) /\ M!Runs(M!DML("version_row"), db)
           /\ db.copy = M!NoCopy => M!Runs(M!DDL("create_copy"), db)
           /\ db.copy # M!NoCopy => M!Runs(M!DML("copy"), db) /\ M!Runs(M!DDL("rename_copy"), db)
BY DEF M!Runs, M!DDL, M!DML

(* Each can run where the copy is as the place says. *)
LEMMA Obstacles ==
    ASSUME M!MigrationsAssumption, NEW next \in Places, ~M!Finished(next), NEW db,
           Ready(db, next), next.version = 10 /\ next.step \in {4, 5} => db.copy # M!NoCopy
    PROVE  M!Runs(M!Statement(next), db)
<1>1. CASE Is(next, 10, 2, M!DDL("create_copy"))
    BY <1>1, Harmless DEF Is, Ready
<1>2. CASE Is(next, 10, 3, M!DML("copy"))
    BY <1>2, Harmless DEF Is, Ready
<1>3. CASE Is(next, 10, 5, M!DDL("rename_copy"))
    BY <1>3, Harmless DEF Is
<1>4. CASE \/ Is(next, 2, 1, M!DDL("column_2")) \/ Is(next, 4, 1, M!DDL("column_4"))
           \/ Is(next, 5, 1, M!DDL("column_5")) \/ Is(next, 5, 2, M!DML("keysig"))
           \/ Is(next, 6, 1, M!DML("known_grants")) \/ Is(next, 10, 1, M!DDL("drop_copy"))
           \/ Is(next, 10, 4, M!DDL("drop_event")) \/ Is(next, 11, 1, M!DML("thin_grants"))
           \/ \E v \in 2..11 : IsRow(next, v)
    BY <1>4, Harmless, Zenon DEF Is, IsRow
<1> QED BY <1>1, <1>2, <1>3, <1>4, Script

(* The invariant is as strong as the property. *)
LEMMA Recovers ==
    ASSUME M!MigrationsAssumption, MigrationsInv
    PROVE  M!EventsAreKept /\ M!OpenIsCurrent /\ M!AloneNeverFails
<1>1. DiskSafe(disk, found)
    BY DEF MigrationsInv, AllSafe
<1>2. M!EventsAreKept
    BY <1>1 DEF DiskSafe, M!EventsAreKept
<1>3. ASSUME NEW p \in Openers, opener[p].at = "open" PROVE M!OpenIsCurrent
    <2>1. disk.version = 11 /\ SCHEMA_VERSION = 11
        BY <1>3, Known DEF OpenerSafe, M!MigrationsAssumption
    <2> QED BY <1>1, <2>1 DEF DiskSafe, Sound, Base, M!OpenIsCurrent
<1>4. M!OpenIsCurrent
    BY <1>3 DEF M!OpenIsCurrent
<1>5. ASSUME NEW p \in Openers, opener[p].at = "migrate", ~M!Finished(opener[p].next), ~crowded
      PROVE  M!Runs(M!Statement(opener[p].next), M!View(p))
    <2> DEFINE next == opener[p].next
               db == M!View(p)
    <2>1. /\ OpenerSafe(opener[p], disk, found) /\ db = Seen(opener[p], disk)
          /\ found \in SUBSET Events /\ Ready(db, next) /\ next \in Places
        BY <1>5, Known DEF OpenerSafe
    <2>2. next.version = 10 /\ next.step \in {4, 5} => db.copy = found
        BY <1>5, <2>1, Zenon DEF OpenerSafe, Seen, Holds
    <2>3. found # M!NoCopy
        BY <2>1 DEF M!NoCopy, M!MigrationsAssumption
    <2> HIDE DEF next, db
    <2>4. ~M!Finished(next)
        BY <1>5 DEF next
    <2>5. M!Runs(M!Statement(next), db)
        BY <2>1, <2>2, <2>3, <2>4, Obstacles
    <2> QED BY <2>5 DEF next, db
<1> QED BY <1>2, <1>4, <1>5 DEF M!AloneNeverFails

-----------------------------------------------------------------------------
(* EventLog.  In a finite set under a strict order the elements before x    *)
(* are fewer than those before a later y, so that every number below the   *)
(* size of the set is the number of some element.                          *)
LEMMA Ranks ==
    ASSUME NEW E, IsFiniteSet(E), NEW R,
           \A x \in E : <<x, x>> \notin R,
           \A x, y, z \in E : <<x, y>> \in R /\ <<y, z>> \in R => <<x, z>> \in R,
           \A x, y \in E : x # y => <<x, y>> \in R \/ <<y, x>> \in R
    PROVE  LET before(x) == {y \in E : <<y, x>> \in R} IN
           /\ Cardinality(E) \in Nat
           /\ \A x \in E : Cardinality(before(x)) \in 0..Cardinality(E) - 1
           /\ \A x, y \in E : <<x, y>> \in R <=> Cardinality(before(x)) < Cardinality(before(y))
           /\ \A k \in 1..Cardinality(E) : \E x \in E : Cardinality(before(x)) = k - 1
<1> DEFINE before(x) == {y \in E : <<y, x>> \in R}
           rank == [x \in E |-> Cardinality(before(x))]
           n == Cardinality(E)
<1>1. n \in Nat
    BY FS_CardinalityType
<1>2. ASSUME NEW x \in E PROVE IsFiniteSet(before(x)) /\ rank[x] = Cardinality(before(x)) /\ rank[x] \in 0..n - 1
    <2>1. before(x) \in SUBSET E /\ x \notin before(x)
        OBVIOUS
    <2>2. /\ IsFiniteSet(before(x)) /\ Cardinality(before(x)) <= n
          /\ Cardinality(E) = Cardinality(before(x)) => E = before(x)
        BY <2>1, FS_Subset
    <2>3. Cardinality(before(x)) \in Nat
        BY <2>2, FS_CardinalityType
    <2>4. rank[x] = Cardinality(before(x))
        OBVIOUS
    <2> HIDE DEF before, rank
    <2>5. Cardinality(before(x)) # n
        BY <2>1, <2>2
    <2> QED BY <1>1, <2>2, <2>3, <2>4, <2>5
<1>3. ASSUME NEW x \in E, NEW y \in E, <<x, y>> \in R PROVE rank[x] < rank[y]
    <2>1. before(x) \in SUBSET before(y) /\ x \in before(y) /\ x \notin before(x)
        BY <1>3
    <2> HIDE DEF before, rank
    <2>2. IsFiniteSet(before(y)) /\ rank[x] \in Int /\ rank[y] \in Int
          /\ rank[x] = Cardinality(before(x)) /\ rank[y] = Cardinality(before(y))
        BY <1>1, <1>2
    <2>3. /\ Cardinality(before(x)) <= Cardinality(before(y))
          /\ Cardinality(before(y)) = Cardinality(before(x)) => before(y) = before(x)
        BY <2>1, <2>2, FS_Subset
    <2>4. Cardinality(before(x)) # Cardinality(before(y))
        BY <2>1, <2>3
    <2> QED BY <2>2, <2>3, <2>4
<1>4. rank \in [E -> 0..n - 1]
    <2>1. \A x \in E : Cardinality(before(x)) \in 0..n - 1
        BY <1>2
    <2> QED BY <2>1
<1>5. \A x \in E : Cardinality(before(x)) = rank[x]
    BY <1>2
<1> HIDE DEF before, rank, n
<1>6. \A x \in E : rank[x] \in Int
    BY <1>1, <1>2
<1>7. ASSUME NEW x \in E, NEW y \in E, rank[x] < rank[y]
      PROVE  <<x, y>> \in R
    <2>1. x # y /\ ~(rank[y] < rank[x])
        BY <1>6, <1>7
    <2> QED BY <1>3, <2>1
<1>8. rank \in Injection(E, 0..n - 1)
    <2>1. ASSUME NEW x \in E, NEW y \in E, x # y PROVE rank[x] # rank[y]
        <3>1. rank[x] < rank[y] \/ rank[y] < rank[x]
            BY <1>3, <2>1
        <3> QED BY <1>6, <3>1
    <2> QED BY <1>4, <2>1 DEF Injection, IsInjective
<1>9. IsFiniteSet(0..n - 1) /\ Cardinality(0..n - 1) = n
    <2>1. 0 \in Int /\ n - 1 \in Int /\ (IF 0 > n - 1 THEN 0 ELSE (n - 1) - 0 + 1) = n
        BY <1>1
    <2>2. IsFiniteSet(0..n - 1) /\ Cardinality(0..n - 1) = IF 0 > n - 1 THEN 0 ELSE (n - 1) - 0 + 1
        BY <2>1, FS_Interval
    <2> QED BY <2>1, <2>2
<1>10. rank \in Surjection(E, 0..n - 1)
    BY <1>8, <1>9, FS_Injection DEF n
<1>11. ASSUME NEW k \in 1..n PROVE \E x \in E : rank[x] = k - 1
    <2>1. k - 1 \in 0..n - 1
        BY <1>1
    <2> QED BY <1>10, <2>1 DEF Surjection
<1>12. /\ n \in Nat
       /\ \A x \in E : Cardinality(before(x)) \in 0..n - 1
       /\ \A x, y \in E : <<x, y>> \in R <=> Cardinality(before(x)) < Cardinality(before(y))
       /\ \A k \in 1..n : \E x \in E : Cardinality(before(x)) = k - 1
    <2>1. \A x \in E : Cardinality(before(x)) \in 0..n - 1
        BY <1>2, <1>5
    <2>2. \A x, y \in E : <<x, y>> \in R <=> rank[x] < rank[y]
        BY <1>3, <1>7
    <2> QED BY <1>1, <1>5, <1>11, <2>1, <2>2
<1> QED BY <1>12 DEF before, n


LEMMA LogCounts == \A N : L!Cardinality(N) = Cardinality(N) /\ X!Cardinality(N) = Cardinality(N)
BY DEF L!Cardinality, X!Cardinality, Cardinality

(* A table has its rows in the order of their ids, each once. *)
RowsApart(table) ==
    /\ IsFiniteSet(table)
    /\ \A r \in table : r.id \in Nat
    /\ \A r, s \in table : r.id = s.id => r = s

LEMMA RowsInOrder ==
    ASSUME NEW T, RowsApart(T), NEW n, n = Cardinality(T), NEW all, all = L!ByRowid(T)
    PROVE  /\ n \in Nat
           /\ all \in [1..n -> T]
           /\ \A r \in T : \E k \in 1..n : all[k] = r
           /\ \A j, k \in 1..n : j < k => all[j].id < all[k].id
<1> DEFINE R == {p \in T \X T : p[1].id < p[2].id}
           before(x) == {y \in T : y.id < x.id}
<1>1. \A x, y \in T : <<x, y>> \in R <=> x.id < y.id
    OBVIOUS
<1>2. \A x \in T : before(x) = {y \in T : <<y, x>> \in R}
    BY <1>1
<1>3. all = [k \in 1..n |-> CHOOSE x \in T : L!Cardinality(before(x)) = k - 1]
    BY LogCounts DEF L!ByRowid
<1> HIDE DEF R, before
<1>4. \A x \in T : x.id \in Int /\ \A y \in T : x.id = y.id => x = y
    BY DEF RowsApart
<1>5. /\ \A x \in T : <<x, x>> \notin R
      /\ \A x, y, z \in T : <<x, y>> \in R /\ <<y, z>> \in R => <<x, z>> \in R
      /\ \A x, y \in T : x # y => <<x, y>> \in R \/ <<y, x>> \in R
    <2>1. ASSUME NEW x \in T, NEW y \in T, x # y PROVE <<x, y>> \in R \/ <<y, x>> \in R
        <3>1. x.id < y.id \/ y.id < x.id
            BY <1>4, <2>1
        <3> QED BY <1>1, <3>1
    <2>2. ASSUME NEW x \in T, NEW y \in T, NEW z \in T, <<x, y>> \in R, <<y, z>> \in R
          PROVE  <<x, z>> \in R
        <3>1. x.id < y.id /\ y.id < z.id
            BY <1>1, <2>2
        <3>2. x.id < z.id
            BY <1>4, <3>1
        <3> QED BY <1>1, <3>2
    <2>3. ASSUME NEW x \in T PROVE <<x, x>> \notin R
        <3>1. ~(x.id < x.id)
            BY <1>4
        <3> QED BY <1>1, <3>1
    <2> QED BY <2>1, <2>2, <2>3
<1>6. /\ Cardinality(T) \in Nat
      /\ \A x \in T : Cardinality({y \in T : <<y, x>> \in R}) \in 0..Cardinality(T) - 1
      /\ \A x, y \in T : <<x, y>> \in R <=>
             Cardinality({u \in T : <<u, x>> \in R}) < Cardinality({u \in T : <<u, y>> \in R})
      /\ \A k \in 1..Cardinality(T) : \E x \in T : Cardinality({y \in T : <<y, x>> \in R}) = k - 1
    BY <1>5, Ranks DEF RowsApart
<1>7. /\ n \in Nat
      /\ \A x \in T : L!Cardinality(before(x)) \in 0..n - 1
      /\ \A x, y \in T : x.id < y.id <=> L!Cardinality(before(x)) < L!Cardinality(before(y))
      /\ \A k \in 1..n : \E x \in T : L!Cardinality(before(x)) = k - 1
    BY <1>1, <1>2, <1>6, LogCounts
<1>8. ASSUME NEW k \in 1..n PROVE all[k] \in T /\ L!Cardinality(before(all[k])) = k - 1
    <2>1. \E x \in T : L!Cardinality(before(x)) = k - 1
        BY <1>7
    <2>2. all[k] = CHOOSE x \in T : L!Cardinality(before(x)) = k - 1
        BY <1>3
    <2> QED BY <2>1, <2>2, Zenon
<1>9. all \in [1..n -> T]
    BY <1>3, <1>8
<1>10. ASSUME NEW r \in T PROVE \E k \in 1..n : all[k] = r
    <2> DEFINE k == L!Cardinality(before(r)) + 1
    <2>1. L!Cardinality(before(r)) \in 0..n - 1
        BY <1>7
    <2>2. k \in 1..n /\ k - 1 = L!Cardinality(before(r))
        BY <1>7, <2>1
    <2> HIDE DEF k
    <2>3. all[k] \in T /\ L!Cardinality(before(all[k])) = L!Cardinality(before(r))
        BY <1>8, <2>2
    <2>4. L!Cardinality(before(r)) \in Int
        BY <2>1
    <2>5. ~(r.id < all[k].id) /\ ~(all[k].id < r.id)
        BY <1>7, <2>3, <2>4
    <2>6. all[k] = r
        BY <1>4, <2>3, <2>5
    <2> QED BY <2>2, <2>6
<1>11. ASSUME NEW j \in 1..n, NEW k \in 1..n, j < k PROVE all[j].id < all[k].id
    <2>1. j - 1 < k - 1
        BY <1>7, <1>11
    <2> QED BY <1>7, <1>8, <2>1
<1> QED BY <1>7, <1>9, <1>10, <1>11

LEMMA Shorter ==
    ASSUME NEW a \in Nat, NEW b \in Nat
    PROVE  /\ L!Min({a, b}) \in {a, b} /\ L!Min({a, b}) <= a /\ L!Min({a, b}) <= b
           /\ L!Max({a, b}) \in {a, b} /\ a <= L!Max({a, b}) /\ b <= L!Max({a, b})
<1>1. \E x \in {a, b} : \A y \in {a, b} : x <= y
    OBVIOUS
<1>2. \E x \in {a, b} : \A y \in {a, b} : y <= x
    OBVIOUS
<1> QED BY <1>1, <1>2 DEF L!Min, L!Max

(* A query returns the first rows of its table, and none only of an empty   *)
(* one.                                                                    *)
LEMMA QueryIs ==
    ASSUME NEW T, RowsApart(T), NEW limit \in Nat \ {0}, NEW q, q = L!Query(T, limit)
    PROVE  /\ q \in Seq(T)
           /\ \A j, k \in 1..Len(q) : j < k => q[j].id < q[k].id
           /\ q = <<>> => T = {}
           /\ q # <<>> => \A r \in T : r.id <= q[Len(q)].id => \E k \in 1..Len(q) : q[k] = r
<1> DEFINE all == L!ByRowid(T)
           n == Cardinality(T)
           m == L!Min({limit, Len(all)})
<1>1. /\ n \in Nat
      /\ all \in [1..n -> T]
      /\ \A r \in T : \E k \in 1..n : all[k] = r
      /\ \A j, k \in 1..n : j < k => all[j].id < all[k].id
    BY RowsInOrder
<1>2. \A r \in T : r.id \in Int
    BY DEF RowsApart
<1>3. q = SubSeq(all, 1, m)
    BY DEF L!Query
<1> HIDE DEF all
<1>4. all \in Seq(T) /\ Len(all) = n
    BY <1>1
<1>5. m \in 0..n /\ (m = n \/ m = limit)
    BY <1>1, <1>4, Shorter
<1> HIDE DEF m, n
<1>6. q \in Seq(T) /\ Len(q) = m /\ \A k \in 1..m : q[k] = all[k]
    BY <1>1, <1>3, <1>4, <1>5
<1>7. \A j, k \in 1..Len(q) : j < k => q[j].id < q[k].id
    BY <1>1, <1>5, <1>6
<1>8. q = <<>> => T = {}
    <2>1. q = <<>> => n = 0
        BY <1>1, <1>5, <1>6
    <2> QED BY <1>1, <2>1
<1>9. ASSUME q # <<>>, NEW r \in T, r.id <= q[Len(q)].id
      PROVE  \E k \in 1..Len(q) : q[k] = r
    <2>1. PICK k \in 1..n : all[k] = r
        BY <1>1
    <2>2. m \in 1..n /\ q[Len(q)] = all[m]
        BY <1>1, <1>5, <1>6, <1>9
    <2>3. ~(m < k)
        <3>1. all[m] \in T /\ all[m].id \in Int /\ r.id \in Int
            BY <1>1, <1>2, <2>2
        <3>2. m < k => all[m].id < r.id
            BY <1>1, <2>1, <2>2
        <3> QED BY <1>9, <2>2, <3>1, <3>2
    <2>4. k \in 1..m
        BY <1>1, <2>1, <2>2, <2>3
    <2> QED BY <1>6, <2>1, <2>4
<1> QED BY <1>6, <1>7, <1>8, <1>9

LEMMA SameQuery == \A T, limit : X!Query(T, limit) = L!Query(T, limit)
BY DEF X!Query, L!Query, X!ByRowid, L!ByRowid, X!Cardinality, L!Cardinality, X!Min, L!Min


(* The events are in the order they were written, by their ids; the follower *)
(* has been given what is there below its cursor, and nothing that is later. *)
LogTyped ==
    /\ now \in Nat /\ sequence \in Nat /\ written \in Nat
    /\ cursor \in 0..sequence
    /\ RowsApart(log)
    /\ \A e \in log : e.id <= sequence /\ e.n \in 1..written /\ e.ts \in Nat
    /\ \A e, f \in log : e.id < f.id => e.n < f.n
    /\ seen \in Seq(1..written)

SeenInOrder ==
    /\ \A i, j \in DOMAIN seen : i < j => seen[i] < seen[j]
    /\ \A e \in log : e.id > cursor => \A i \in DOMAIN seen : seen[i] < e.n

SeenIsThere == \A e \in log : e.kind \in follows /\ e.id <= cursor => \E i \in DOMAIN seen : seen[i] = e.n

LogInv == LogTyped /\ SeenInOrder /\ SeenIsThere

LEMMA LogBegin == ASSUME L!LogAssumption, L!Init PROVE LogInv
<1>1. RowsApart({})
    BY FS_EmptySet DEF RowsApart
<1> QED BY <1>1 DEF L!Init, LogInv, LogTyped, SeenInOrder, SeenIsThere

LEMMA FewerApart == ASSUME NEW T, RowsApart(T), NEW W \in SUBSET T PROVE RowsApart(W)
BY FS_Subset DEF RowsApart

(* Deleting events, by hand or by age, and the passing of time. *)
LEMMA LogKeeps ==
    ASSUME LogInv, log' \subseteq log, now' \in Nat,
           UNCHANGED <<sequence, written, cursor, follows, seen>>
    PROVE  LogInv'
<1>1. RowsApart(log')
    BY FewerApart DEF LogInv, LogTyped
<1> QED BY <1>1 DEF LogInv, LogTyped, SeenInOrder, SeenIsThere, RowsApart

LEMMA LogGrows ==
    ASSUME LogInv, NEW kind, NEW ts \in Nat, L!RecordEvent(kind, ts),
           UNCHANGED <<now, cursor, follows, seen>>
    PROVE  LogInv'
<1> DEFINE e == [id |-> sequence + 1, n |-> written + 1, ts |-> ts, kind |-> kind]
<1>1. log' = log \cup {e} /\ sequence' = sequence + 1 /\ written' = written + 1
    BY Shorter DEF L!RecordEvent, L!NextId, LogInv, LogTyped
<1>2. e.id = sequence + 1 /\ e.n = written + 1 /\ e.ts = ts
    OBVIOUS
<1> HIDE DEF e
<1>3. /\ sequence \in Nat /\ written \in Nat /\ cursor \in 0..sequence /\ now \in Nat
      /\ IsFiniteSet(log) /\ seen \in Seq(1..written)
      /\ \A f \in log : f.id \in Nat /\ f.id <= sequence /\ f.n \in 1..written /\ f.ts \in Nat
      /\ \A f, g \in log : f.id = g.id => f = g
      /\ \A f, g \in log : f.id < g.id => f.n < g.n
    BY DEF LogInv, LogTyped, RowsApart
<1>4. IsFiniteSet(log')
    BY <1>1, <1>3, FS_AddElement
<1>5. \A f \in log : f.id < e.id /\ f.n < e.n /\ f.id # e.id
    BY <1>2, <1>3
<1>6. e.id \in Nat /\ e.id <= sequence' /\ e.n \in 1..written' /\ e.id > cursor /\ ~(e.id < e.id)
    BY <1>1, <1>2, <1>3
<1>7. \A f \in log' : f.id \in Nat /\ f.id <= sequence' /\ f.n \in 1..written' /\ f.ts \in Nat
    <2>1. \A f \in log : f.id \in Nat /\ f.id <= sequence' /\ f.n \in 1..written' /\ f.ts \in Nat
        BY <1>1, <1>3
    <2> QED BY <1>1, <1>2, <1>6, <2>1
<1>8. \A f, g \in log' : f.id = g.id => f = g
    BY <1>1, <1>3, <1>5
<1>9. \A f, g \in log' : f.id < g.id => f.n < g.n
    <2>1. \A f \in log : ~(e.id < f.id)
        BY <1>3, <1>5, <1>6
    <2> QED BY <1>1, <1>3, <1>5, <1>6, <2>1
<1>10. seen' \in Seq(1..written') /\ cursor' \in 0..sequence'
    <2>1. \A i \in 1..Len(seen) : seen[i] \in 1..written'
        BY <1>1, <1>3
    <2> QED BY <1>1, <1>3, <2>1
<1>11. LogTyped'
    BY <1>1, <1>3, <1>4, <1>7, <1>8, <1>9, <1>10 DEF LogTyped, RowsApart
<1>12. SeenInOrder'
    <2>1. \A i \in DOMAIN seen : seen[i] < e.n
        BY <1>2, <1>3
    <2>2. \A f \in log : f.id > cursor => \A i \in DOMAIN seen : seen[i] < f.n
        BY DEF LogInv, SeenInOrder
    <2>3. \A i, j \in DOMAIN seen : i < j => seen[i] < seen[j]
        BY DEF LogInv, SeenInOrder
    <2> QED BY <1>1, <2>1, <2>2, <2>3 DEF SeenInOrder
<1>13. SeenIsThere'
    <2>1. ~(e.id <= cursor)
        BY <1>3, <1>6
    <2> QED BY <1>1, <2>1 DEF LogInv, SeenIsThere
<1> QED BY <1>11, <1>12, <1>13 DEF LogInv

LEMMA Joined ==
    ASSUME NEW E, NEW s \in Seq(E), NEW t \in Seq(E), NEW st, st = s \o t
    PROVE  /\ st \in Seq(E) /\ Len(st) = Len(s) + Len(t) /\ DOMAIN st = 1..Len(s) + Len(t)
           /\ \A i \in 1..Len(s) : st[i] = s[i]
           /\ \A i \in Len(s) + 1..Len(s) + Len(t) : st[i] = t[i - Len(s)]
OBVIOUS

LEMMA FollowKeeps ==
    ASSUME L!LogAssumption, LogInv, NEW limit \in ReadLimits, L!Follow(limit)
    PROVE  LogInv'
<1> DEFINE T == {e \in log : e.id > cursor /\ e.kind \in follows}
           q == L!Query(T, limit)
           given == [i \in DOMAIN q |-> q[i].n]
<1>1. /\ q # <<>>
      /\ cursor' = q[Len(q)].id
      /\ seen' = seen \o given
      /\ UNCHANGED <<now, log, sequence, written, follows>>
    BY DEF L!Follow, L!Last
<1>2. limit \in Nat \ {0}
    BY DEF L!LogAssumption
<1>3. /\ sequence \in Nat /\ written \in Nat /\ cursor \in 0..sequence /\ now \in Nat
      /\ RowsApart(log) /\ seen \in Seq(1..written)
      /\ \A e \in log : e.id \in Nat /\ e.id <= sequence /\ e.n \in 1..written
      /\ \A e, f \in log : e.id < f.id => e.n < f.n
      /\ \A e, f \in log : e.id = f.id => e = f
    BY DEF LogInv, LogTyped, RowsApart
<1>4. RowsApart(T)
    BY <1>3, FewerApart
<1> HIDE DEF T
<1>5. /\ q \in Seq(T)
      /\ \A j, k \in 1..Len(q) : j < k => q[j].id < q[k].id
      /\ \A r \in T : r.id <= q[Len(q)].id => \E k \in 1..Len(q) : q[k] = r
    BY <1>1, <1>2, <1>4, QueryIs
<1>6. \A e : e \in T <=> e \in log /\ e.id > cursor /\ e.kind \in follows
    BY DEF T
<1> HIDE DEF q
<1>7. Len(q) \in Nat \ {0} /\ DOMAIN q = 1..Len(q) /\ \A k \in 1..Len(q) : q[k] \in T /\ q[k] \in log
    BY <1>1, <1>5, <1>6
<1>8. given \in Seq(1..written) /\ Len(given) = Len(q) /\ \A k \in 1..Len(q) : given[k] = q[k].n
    <2>1. \A k \in 1..Len(q) : q[k].n \in 1..written
        BY <1>3, <1>7
    <2> QED BY <1>7, <2>1
<1>9. \A j, k \in 1..Len(q) : j < k => given[j] < given[k]
    BY <1>3, <1>5, <1>7, <1>8
<1>10. \A i \in DOMAIN seen, k \in 1..Len(q) : seen[i] < given[k]
    BY <1>6, <1>7, <1>8 DEF LogInv, SeenInOrder
<1> HIDE DEF given
<1>11. /\ seen' \in Seq(1..written) /\ Len(seen') = Len(seen) + Len(q)
       /\ DOMAIN seen' = 1..Len(seen) + Len(q)
       /\ \A i \in 1..Len(seen) : seen'[i] = seen[i]
       /\ \A i \in Len(seen) + 1..Len(seen) + Len(q) : seen'[i] = given[i - Len(seen)]
    <2>1. seen \in Seq(1..written) /\ given \in Seq(1..written) /\ seen' = seen \o given
        BY <1>1, <1>3, <1>8
    <2>2. /\ seen' \in Seq(1..written) /\ Len(seen') = Len(seen) + Len(given)
          /\ DOMAIN seen' = 1..Len(seen) + Len(given)
          /\ \A i \in 1..Len(seen) : seen'[i] = seen[i]
          /\ \A i \in Len(seen) + 1..Len(seen) + Len(given) : seen'[i] = given[i - Len(seen)]
        BY ONLY <2>1, Joined
    <2> QED BY <1>8, <2>2
<1> DEFINE last == q[Len(q)]
<1>12. last \in log /\ last.id > cursor /\ cursor' = last.id /\ last.id \in Nat /\ last.id <= sequence
    BY <1>1, <1>3, <1>6, <1>7
<1>13. LogTyped'
    BY <1>1, <1>3, <1>11, <1>12 DEF LogTyped, LogInv
<1>14. SeenInOrder'
    <2>1. ASSUME NEW i \in DOMAIN seen', NEW j \in DOMAIN seen', i < j PROVE seen'[i] < seen'[j]
        <3>1. Len(seen) \in Nat /\ DOMAIN seen = 1..Len(seen) /\ DOMAIN seen' = 1..Len(seen) + Len(q)
            BY <1>3, <1>7, <1>11
        <3>2. CASE j <= Len(seen)
            <4>1. i \in DOMAIN seen /\ j \in DOMAIN seen
                BY <2>1, <3>1, <3>2
            <4>2. seen[i] < seen[j]
                BY <2>1, <4>1 DEF LogInv, SeenInOrder
            <4> QED BY <1>11, <3>1, <4>1, <4>2
        <3>3. CASE i <= Len(seen) /\ Len(seen) < j
            <4>1. i \in DOMAIN seen /\ j - Len(seen) \in 1..Len(q) /\ j \in Len(seen) + 1..Len(seen) + Len(q)
                BY <1>7, <3>1, <3>3
            <4> QED BY <1>10, <1>11, <3>1, <4>1
        <3>4. CASE Len(seen) < i
            <4>1. /\ i - Len(seen) \in 1..Len(q) /\ j - Len(seen) \in 1..Len(q)
                  /\ i - Len(seen) < j - Len(seen)
                  /\ i \in Len(seen) + 1..Len(seen) + Len(q) /\ j \in Len(seen) + 1..Len(seen) + Len(q)
                BY <1>7, <2>1, <3>1, <3>4
            <4> QED BY <1>9, <1>11, <4>1
        <3> QED BY <2>1, <3>1, <3>2, <3>3, <3>4
    <2>2. ASSUME NEW e \in log, e.id > last.id, NEW i \in DOMAIN seen' PROVE seen'[i] < e.n
        <3>1. last.n < e.n /\ e.id > cursor
            BY <1>3, <1>12, <2>2
        <3>2. CASE i <= Len(seen)
            <4>1. i \in DOMAIN seen /\ seen'[i] = seen[i]
                BY <1>3, <1>11, <3>2
            <4> QED BY <3>1, <4>1 DEF LogInv, SeenInOrder
        <3>3. CASE Len(seen) < i
            <4>1. i - Len(seen) \in 1..Len(q) /\ i \in Len(seen) + 1..Len(seen) + Len(q)
                BY <1>3, <1>7, <1>11, <3>3
            <4>2. seen'[i] = q[i - Len(seen)].n /\ q[i - Len(seen)] \in log
                BY <1>7, <1>8, <1>11, <4>1
            <4>3. q[i - Len(seen)].id <= last.id
                <5>1. i - Len(seen) = Len(q) \/ i - Len(seen) < Len(q)
                    BY <1>7, <4>1
                <5>2. i - Len(seen) < Len(q) => q[i - Len(seen)].id < last.id
                    BY <1>5, <1>7, <4>1
                <5>3. q[i - Len(seen)].id \in Int /\ last.id \in Int
                    BY <1>3, <1>12, <4>2
                <5> QED BY <5>1, <5>2, <5>3
            <4>4. q[i - Len(seen)].id < e.id
                BY <1>3, <1>12, <2>2, <4>2, <4>3
            <4> QED BY <1>3, <4>2, <4>4
        <3> QED BY <1>3, <1>11, <3>2, <3>3
    <2> QED BY <1>1, <1>12, <2>1, <2>2 DEF SeenInOrder
<1>15. SeenIsThere'
    <2>1. ASSUME NEW e \in log, e.kind \in follows, e.id <= last.id
          PROVE  \E i \in DOMAIN seen' : seen'[i] = e.n
        <3>1. CASE e.id <= cursor
            <4>1. PICK i \in DOMAIN seen : seen[i] = e.n
                BY <2>1, <3>1 DEF LogInv, SeenIsThere
            <4>2. i \in DOMAIN seen' /\ seen'[i] = seen[i]
                <5>1. Len(seen) \in Nat /\ DOMAIN seen = 1..Len(seen)
                    BY <1>3
                <5>2. i \in 1..Len(seen) /\ i \in 1..Len(seen) + Len(q)
                    BY <1>7, <4>1, <5>1
                <5> QED BY <1>11, <5>2
            <4> QED BY <4>1, <4>2
        <3>2. CASE e.id > cursor
            <4>1. PICK k \in 1..Len(q) : q[k] = e
                BY <1>5, <1>6, <2>1, <3>2
            <4>2. /\ Len(seen) + k \in Len(seen) + 1..Len(seen) + Len(q)
                  /\ Len(seen) + k \in DOMAIN seen' /\ (Len(seen) + k) - Len(seen) = k
                BY <1>3, <1>7, <1>11
            <4>3. seen'[Len(seen) + k] = given[(Len(seen) + k) - Len(seen)]
                BY <1>11, <4>2
            <4>4. seen'[Len(seen) + k] = e.n
                BY <1>8, <4>1, <4>2, <4>3
            <4> QED BY <4>2, <4>4
        <3> QED BY <1>3, <1>12, <3>1, <3>2
    <2> QED BY <1>1, <1>12, <2>1 DEF SeenIsThere
<1> QED BY <1>13, <1>14, <1>15 DEF LogInv

LEMMA LogStep == ASSUME L!LogAssumption, LogInv, [L!Next]_L!vars PROVE LogInv'
<1> USE DEF L!Readers
<1>0. now \in Nat /\ now + 1 \in Nat
    BY DEF LogInv, LogTyped
<1>1. ASSUME NEW kind, NEW ts \in 0..now, L!Record(kind, ts) PROVE LogInv'
    <2>1. ts \in Nat /\ L!RecordEvent(kind, ts) /\ UNCHANGED <<now, cursor, follows, seen>>
        BY <1>0, <1>1 DEF L!Record
    <2> QED BY <2>1, LogGrows
<1>2. ASSUME NEW stamps, L!DeleteEvents(stamps) PROVE LogInv'
    BY <1>0, <1>2, LogKeeps DEF L!DeleteEvents
<1>3. ASSUME NEW shape, L!RecordSample(shape) PROVE LogInv'
    BY <1>0, <1>3, LogKeeps DEF L!RecordSample
<1>4. ASSUME NEW stamps, L!ForgetSamples(stamps) PROVE LogInv'
    BY <1>0, <1>4, LogKeeps DEF L!ForgetSamples, L!KeepSamples
<1>5. CASE L!PruneSamples
    BY <1>0, <1>5, LogKeeps DEF L!PruneSamples, L!KeepSamples
<1>6. CASE L!PruneByAge
    <2>1. log' \subseteq log /\ UNCHANGED <<now, sequence, written, cursor, follows, seen>>
        BY <1>6 DEF L!PruneByAge, L!KeepSamples
    <2> QED BY <1>0, <2>1, LogKeeps
<1>13. CASE L!Vacuum
    BY <1>0, <1>13, LogKeeps DEF L!Vacuum
<1>7. CASE L!NotePrune
    <2>1. CASE L!RecordEvent(PRUNE_KIND, now)
        BY <1>0, <1>7, <2>1, LogGrows DEF L!NotePrune
    <2>2. CASE UNCHANGED <<log, sequence, written>>
        BY <1>0, <1>7, <2>2, LogKeeps DEF L!NotePrune
    <2> QED BY <1>7, <2>1, <2>2 DEF L!NotePrune
<1>8. ASSUME NEW limit \in ReadLimits, L!Follow(limit) PROVE LogInv'
    BY <1>8, FollowKeeps
<1>9. ASSUME NEW since, L!StartExport(since) PROVE LogInv'
    BY <1>0, <1>9, LogKeeps DEF L!StartExport
<1>10. CASE L!NextPage
    BY <1>0, <1>10, LogKeeps DEF L!NextPage
<1>11. CASE L!Tick
    BY <1>0, <1>11, LogKeeps DEF L!Tick
<1>12. CASE UNCHANGED L!vars
    BY <1>0, <1>12, LogKeeps DEF L!vars
<1> QED BY <1>1, <1>2, <1>3, <1>4, <1>5, <1>6, <1>7, <1>8, <1>9, <1>10, <1>11, <1>12, <1>13 DEF L!Next

LEMMA FollowerSafe == ASSUME LogInv PROVE L!FollowerMissesNothing
<1>1. ASSUME NEW e \in log, e.kind \in follows, e.id <= cursor PROVE e.n \in L!ToSet(seen)
    BY <1>1 DEF LogInv, SeenIsThere, L!ToSet
<1> QED BY <1>1 DEF L!FollowerMissesNothing, LogInv, SeenInOrder


(* The samples are in the order they were stored, by rowids that may be     *)
(* given again; what the export has yet to read is later than what it read, *)
(* and holds every row that stayed and is not out, unless the rows have     *)
(* been renumbered since the export began.                                 *)
SamplesTyped ==
    /\ now \in Nat /\ stored \in Nat
    /\ RowsApart(samples)
    /\ \A r \in samples : r.id \in 1..stored /\ r.n \in 1..stored
    /\ \A r, s \in samples : r.id < s.id => r.n < s.n
    /\ export \in [on : BOOLEAN, last_rowid : Nat, since : Nat]
    /\ out \in Seq(1..stored) /\ renumbered \in BOOLEAN

OutInOrder ==
    ~renumbered =>
        /\ \A i, j \in DOMAIN out : i < j => out[i] < out[j]
        /\ export.on => \A r \in samples :
               r.id > export.last_rowid => \A i \in DOMAIN out : out[i] < r.n

IsOut(m) == \E i \in DOMAIN out : out[i] = m
StillToRead(m) == \E r \in samples : r.n = m /\ r.ts >= export.since /\ r.id > export.last_rowid

SteadyIsRead ==
    ~renumbered =>
        /\ export.on => \A m \in steady : IsOut(m) \/ StillToRead(m)
        /\ ~export.on => \A m \in steady : IsOut(m)

ExportInv == SamplesTyped /\ OutInOrder /\ SteadyIsRead

LEMMA ExportBegin == ASSUME X!LogAssumption, X!Init PROVE ExportInv
<1>1. RowsApart({})
    BY FS_EmptySet DEF RowsApart
<1>2. /\ now = 0 /\ stored = 0 /\ samples = {} /\ out = <<>> /\ steady = {} /\ renumbered = FALSE
      /\ ~export.on /\ export \in [on : BOOLEAN, last_rowid : Nat, since : Nat]
    BY DEF X!Init, X!NoExport
<1>3. renumbered \in BOOLEAN
    BY <1>2, Zenon
<1>4. out \in Seq(1..stored)
    BY <1>2
<1>5. SamplesTyped
    BY <1>1, <1>2, <1>3, <1>4 DEF SamplesTyped
<1> QED BY <1>2, <1>5 DEF ExportInv, OutInOrder, SteadyIsRead

LEMMA SamplesStay ==
    ASSUME ExportInv, now' \in Nat, UNCHANGED <<samples, stored, export, out, steady, renumbered>>
    PROVE  ExportInv'
BY DEF ExportInv, SamplesTyped, OutInOrder, SteadyIsRead, IsOut, StillToRead, RowsApart

(* Whatever is deleted was not steady. *)
LEMMA FewerSamples ==
    ASSUME ExportInv, NEW kept, kept \subseteq samples, X!KeepSamples(kept)
    PROVE  ExportInv'
<1>1. samples' = kept /\ steady' = steady \cap {r.n : r \in kept}
      /\ UNCHANGED <<now, stored, export, out, renumbered>>
    BY DEF X!KeepSamples, X!Readers
<1>2. RowsApart(samples')
    BY <1>1, FewerApart DEF ExportInv, SamplesTyped
<1>3. SamplesTyped' /\ OutInOrder'
    BY <1>1, <1>2 DEF ExportInv, SamplesTyped, OutInOrder
<1>4. \A r, s \in samples : r.n = s.n => r = s
    <2>1. ASSUME NEW r \in samples, NEW s \in samples, r.n = s.n PROVE r = s
        <3>1. r.n \in Int /\ r.id \in Int /\ s.id \in Int
            BY DEF ExportInv, SamplesTyped, RowsApart
        <3>2. ~(r.id < s.id) /\ ~(s.id < r.id)
            BY <2>1, <3>1 DEF ExportInv, SamplesTyped
        <3> QED BY <3>1, <3>2 DEF ExportInv, SamplesTyped, RowsApart
    <2> QED BY <2>1
<1>5. ASSUME NEW m \in steady', StillToRead(m) PROVE StillToRead(m)'
    <2>1. PICK s \in kept : m = s.n
        BY <1>1
    <2>2. PICK r \in samples : r.n = m /\ r.ts >= export.since /\ r.id > export.last_rowid
        BY <1>5 DEF StillToRead
    <2>3. r = s
        BY <1>4, <2>1, <2>2
    <2> QED BY <1>1, <2>1, <2>2, <2>3 DEF StillToRead
<1>6. SteadyIsRead'
    BY <1>1, <1>5 DEF ExportInv, SteadyIsRead, IsOut
<1> QED BY <1>3, <1>6 DEF ExportInv

LEMMA RowidIs ==
    ASSUME ExportInv, NEW id, id = X!Max({0} \cup X!Ids(samples)) + 1
    PROVE  id \in 1..stored + 1 /\ \A r \in samples : r.id < id
<1> DEFINE N == {0} \cup X!Ids(samples)
<1>1. stored \in Nat
    BY DEF ExportInv, SamplesTyped
<1>2. N \in SUBSET (0..stored) /\ N # {} /\ \A r \in samples : r.id \in N
    <2>1. \A r \in samples : r.id \in 0..stored
        BY <1>1 DEF ExportInv, SamplesTyped, RowsApart
    <2> QED BY <1>1, <2>1 DEF X!Ids
<1> HIDE DEF N
<1>3. \E x \in N : \A y \in N : y <= x
    BY <1>1, <1>2, LargestThereIs
<1>4. PICK x \in N : x = X!Max(N) /\ \A y \in N : y <= x
    BY <1>3 DEF X!Max
<1>5. id = x + 1
    BY <1>4 DEF N
<1>6. x \in 0..stored
    BY <1>2
<1>7. ASSUME NEW r \in samples PROVE r.id < id
    <2>1. r.id <= x /\ r.id \in 0..stored
        BY <1>2, <1>4
    <2> QED BY <1>1, <1>5, <1>6, <2>1
<1>8. id \in 1..stored + 1
    BY <1>1, <1>5, <1>6
<1> QED BY <1>7, <1>8

LEMMA SamplesGrow ==
    ASSUME ExportInv, NEW shape, X!RecordSample(shape)
    PROVE  ExportInv'
<1> DEFINE id == X!Max({0} \cup X!Ids(samples)) + 1
           s == [id |-> id, n |-> stored + 1, ts |-> now, shape |-> shape]
<1>1. /\ samples' = samples \cup {s} /\ stored' = stored + 1
      /\ UNCHANGED <<now, export, out, steady, renumbered>>
    BY DEF X!RecordSample, X!Readers
<1>2. id \in 1..stored + 1 /\ \A r \in samples : r.id < id
    BY RowidIs
<1> HIDE DEF id
<1>3. s.id = id /\ s.n = stored + 1
    OBVIOUS
<1> HIDE DEF s
<1>4. /\ now \in Nat /\ stored \in Nat
      /\ IsFiniteSet(samples)
      /\ \A r \in samples : r.id \in Nat /\ r.id \in 1..stored /\ r.n \in 1..stored
      /\ \A r, t \in samples : r.id = t.id => r = t
      /\ \A r, t \in samples : r.id < t.id => r.n < t.n
      /\ export \in [on : BOOLEAN, last_rowid : Nat, since : Nat]
      /\ out \in Seq(1..stored) /\ renumbered \in BOOLEAN
    BY DEF ExportInv, SamplesTyped, RowsApart
<1>5. IsFiniteSet(samples')
    BY <1>1, <1>4, FS_AddElement
<1>6. s.id \in Nat /\ s.id \in 1..stored' /\ s.n \in 1..stored' /\ ~(s.id < s.id)
    BY <1>1, <1>2, <1>3, <1>4
<1>7. \A r \in samples : /\ r.id < s.id /\ r.n < s.n /\ r.id # s.id /\ ~(s.id < r.id)
                         /\ r.id \in 1..stored' /\ r.n \in 1..stored'
    BY <1>1, <1>2, <1>3, <1>4
<1>8. RowsApart(samples')
    BY <1>1, <1>4, <1>5, <1>6, <1>7 DEF RowsApart
<1>9. out' \in Seq(1..stored')
    <2>1. \A i \in 1..Len(out) : out[i] \in 1..stored'
        BY <1>1, <1>4
    <2> QED BY <1>1, <1>4, <2>1
<1>10. /\ \A r \in samples' : r.id \in 1..stored' /\ r.n \in 1..stored'
       /\ \A r, t \in samples' : r.id < t.id => r.n < t.n
    BY <1>1, <1>4, <1>6, <1>7
<1>11. SamplesTyped'
    BY <1>1, <1>4, <1>8, <1>9, <1>10 DEF SamplesTyped
<1>12. OutInOrder'
    <2>1. \A i \in DOMAIN out : out[i] < s.n
        BY <1>3, <1>4
    <2> QED BY <1>1, <2>1 DEF ExportInv, OutInOrder
<1>13. SteadyIsRead'
    BY <1>1 DEF ExportInv, SteadyIsRead, IsOut, StillToRead
<1> QED BY <1>11, <1>12, <1>13 DEF ExportInv

LEMMA ExportStarts ==
    ASSUME ExportInv, NEW since \in 0..now, X!StartExport(since)
    PROVE  ExportInv'
<1>1. /\ export' = [on |-> TRUE, last_rowid |-> 0, since |-> since]
      /\ out' = <<>>
      /\ steady' = {r.n : r \in {s \in samples : s.ts >= since}}
      /\ renumbered' = FALSE
      /\ UNCHANGED <<now, samples, stored>>
    BY DEF X!StartExport
<1>2. export'.on /\ export'.last_rowid = 0 /\ export'.since = since
      /\ export' \in [on : BOOLEAN, last_rowid : Nat, since : Nat]
    BY <1>1 DEF ExportInv, SamplesTyped
<1>3. SamplesTyped'
    <2>1. /\ now \in Nat /\ stored \in Nat /\ RowsApart(samples)
          /\ \A r \in samples : r.id \in 1..stored /\ r.n \in 1..stored
          /\ \A r, s \in samples : r.id < s.id => r.n < s.n
        BY DEF ExportInv, SamplesTyped
    <2>2. RowsApart(samples)'
        BY <1>1, <2>1 DEF RowsApart
    <2>3. out' \in Seq(1..stored')
        BY <1>1
    <2>4. renumbered' \in BOOLEAN
        BY <1>1, Zenon
    <2> QED BY <1>1, <1>2, <2>1, <2>2, <2>3, <2>4 DEF SamplesTyped
<1>4. \A r \in samples : r.id > 0
    BY DEF ExportInv, SamplesTyped
<1>5. OutInOrder'
    BY <1>1 DEF OutInOrder
<1>6. ASSUME NEW m \in steady' PROVE StillToRead(m)'
    <2>1. PICK r \in samples : r.ts >= since /\ m = r.n
        BY <1>1
    <2> QED BY <1>1, <1>2, <1>4, <2>1 DEF StillToRead
<1>7. SteadyIsRead'
    BY <1>2, <1>6 DEF SteadyIsRead
<1> QED BY <1>3, <1>5, <1>7 DEF ExportInv

(* VACUUM: the rows are those there were, in their order, by other numbers.  *)
LEMMA VacuumKeeps == ASSUME ExportInv, X!Vacuum PROVE ExportInv'
<1>1. PICK id \in [samples -> 1..X!Max({0} \cup X!Ids(samples))] :
          /\ \A r, s \in samples : r.id < s.id => id[r] < id[s]
          /\ samples' = {[id |-> id[r], n |-> r.n, ts |-> r.ts, shape |-> r.shape] : r \in samples}
    BY DEF X!Vacuum
<1>2. /\ renumbered' = (renumbered \/ (export.on /\ samples' # samples))
      /\ UNCHANGED <<now, stored, export, out, steady>>
    BY DEF X!Vacuum, X!Readers
<1>3. CASE samples' = samples
    <2>1. renumbered' = renumbered
        BY <1>2, <1>3 DEF ExportInv, SamplesTyped
    <2> QED BY <1>2, <1>3, <2>1, SamplesStay DEF ExportInv, SamplesTyped
<1>4. CASE samples' # samples
    <2>1. /\ now \in Nat /\ stored \in Nat /\ IsFiniteSet(samples)
          /\ \A r \in samples : r.id \in Nat /\ r.id \in 1..stored /\ r.n \in 1..stored
          /\ \A r, s \in samples : r.id = s.id => r = s
          /\ \A r, s \in samples : r.id < s.id => r.n < s.n
          /\ export \in [on : BOOLEAN, last_rowid : Nat, since : Nat]
          /\ out \in Seq(1..stored) /\ renumbered \in BOOLEAN
        BY DEF ExportInv, SamplesTyped, RowsApart
    <2>2. \A r \in samples : id[r] \in 1..stored
        <3> DEFINE top == X!Max({0} \cup X!Ids(samples))
        <3>1. top + 1 \in 1..stored + 1 /\ top \in Int
            <4> DEFINE N == {0} \cup X!Ids(samples)
            <4>1. N \in SUBSET (0..stored) /\ N # {}
                <5>1. \A r \in samples : r.id \in 0..stored
                    BY <2>1
                <5> QED BY <2>1, <5>1 DEF X!Ids
            <4> HIDE DEF N
            <4>2. \E x \in N : \A y \in N : y <= x
                BY <2>1, <4>1, LargestThereIs
            <4>3. X!Max(N) \in N
                BY <4>2 DEF X!Max
            <4>4. X!Max(N) \in 0..stored
                BY <4>1, <4>3
            <4> QED BY <2>1, <4>4 DEF N
        <3>2. top <= stored
            BY <2>1, <3>1
        <3> HIDE DEF top
        <3>3. \A r \in samples : id[r] \in 1..top
            BY <1>1 DEF top
        <3> QED BY <2>1, <3>1, <3>2, <3>3
    <2> DEFINE new == [r \in samples |-> [id |-> id[r], n |-> r.n, ts |-> r.ts, shape |-> r.shape]]
    <2>3. \A r \in samples : new[r].id = id[r] /\ new[r].n = r.n
        OBVIOUS
    <2>4. new \in Surjection(samples, samples')
        BY <1>1 DEF Surjection
    <2>5. IsFiniteSet(samples')
        <3> HIDE DEF new
        <3> QED BY <2>1, <2>4, FS_Surjection
    <2>6. \A q \in samples' : \E r \in samples : q = new[r]
        BY <1>1
    <2> HIDE DEF new
    <2>7. \A r, s \in samples : new[r].id < new[s].id => r.id < s.id
        <3>1. ASSUME NEW r \in samples, NEW s \in samples, new[r].id < new[s].id PROVE r.id < s.id
            <4>1. id[r] < id[s] /\ id[r] \in Int /\ id[s] \in Int
                BY <2>2, <2>3, <3>1
            <4>2. r # s /\ ~(id[s] < id[r])
                BY <4>1
            <4>3. r.id # s.id /\ ~(s.id < r.id)
                BY <1>1, <2>1, <4>2
            <4> QED BY <2>1, <4>3
        <3> QED BY <3>1
    <2>8. \A r, s \in samples : new[r].id = new[s].id => r = s
        <3>1. ASSUME NEW r \in samples, NEW s \in samples, new[r].id = new[s].id PROVE r = s
            <4>1. id[r] = id[s] /\ id[r] \in Int
                BY <2>2, <2>3, <3>1
            <4>2. ~(r.id < s.id) /\ ~(s.id < r.id)
                BY <1>1, <4>1
            <4> QED BY <2>1, <4>2
        <3> QED BY <3>1
    <2>9. \A q \in samples' : q.id \in 1..stored /\ q.id \in Nat /\ q.n \in 1..stored
        BY <2>1, <2>2, <2>3, <2>6
    <2>10. \A q, t \in samples' : q.id = t.id => q = t
        BY <2>6, <2>8
    <2>11. \A q, t \in samples' : q.id < t.id => q.n < t.n
        BY <2>1, <2>3, <2>6, <2>7
    <2>12. SamplesTyped'
        BY <1>2, <2>1, <2>5, <2>9, <2>10, <2>11 DEF SamplesTyped, RowsApart
    <2>13. CASE export.on
        BY <1>2, <1>4, <2>12, <2>13 DEF ExportInv, OutInOrder, SteadyIsRead
    <2>14. CASE ~export.on
        BY <1>2, <2>1, <2>12, <2>14 DEF ExportInv, OutInOrder, SteadyIsRead, IsOut
    <2> QED BY <2>13, <2>14
<1> QED BY <1>3, <1>4

(* A page, whatever the rowids are by now. *)
LEMMA PageTyped ==
    ASSUME X!LogAssumption, ExportInv, X!NextPage
    PROVE  SamplesTyped'
<1> DEFINE T == {r \in X!Wanted(samples) : r.id > export.last_rowid}
           q == L!Query(T, PAGE)
           given == [i \in DOMAIN q |-> q[i].n]
<1>1. /\ out' = out \o given
      /\ export' = IF q = <<>> THEN X!NoExport ELSE [export EXCEPT !.last_rowid = q[Len(q)].id]
      /\ UNCHANGED <<now, samples, stored, steady, renumbered>>
    BY SameQuery DEF X!NextPage, X!Last
<1>2. /\ RowsApart(samples) /\ \A r \in samples : r.id \in Nat /\ r.n \in 1..stored
      /\ export \in [on : BOOLEAN, last_rowid : Nat, since : Nat]
      /\ out \in Seq(1..stored)
    BY DEF ExportInv, SamplesTyped, RowsApart
<1>3. T \subseteq samples /\ RowsApart(T)
    BY <1>2, FewerApart DEF X!Wanted
<1> HIDE DEF T
<1>4. q \in Seq(T)
    BY <1>3, QueryIs DEF X!LogAssumption
<1> HIDE DEF q
<1>5. Len(q) \in Nat /\ DOMAIN q = 1..Len(q) /\ \A k \in 1..Len(q) : q[k] \in samples
    BY <1>3, <1>4
<1>6. given \in Seq(1..stored)
    <2>1. \A k \in 1..Len(q) : q[k].n \in 1..stored
        BY <1>2, <1>5
    <2> QED BY <1>5, <2>1
<1> HIDE DEF given
<1>7. out' \in Seq(1..stored)
    <2>1. out \in Seq(1..stored) /\ given \in Seq(1..stored) /\ out' = out \o given
        BY <1>1, <1>2, <1>6
    <2> QED BY ONLY <2>1, Joined
<1>8. export' \in [on : BOOLEAN, last_rowid : Nat, since : Nat]
    <2>1. CASE q = <<>>
        BY <1>1, <2>1 DEF X!NoExport
    <2>2. CASE q # <<>>
        <3>1. Len(q) \in 1..Len(q)
            BY <1>4, <1>5, <2>2
        <3>2. q[Len(q)].id \in Nat
            BY <1>2, <1>5, <3>1
        <3> QED BY <1>1, <1>2, <2>2, <3>2
    <2> QED BY <2>1, <2>2
<1> QED BY <1>1, <1>7, <1>8 DEF ExportInv, SamplesTyped

LEMMA PageKeeps ==
    ASSUME X!LogAssumption, ExportInv, X!NextPage, ~renumbered
    PROVE  OutInOrder' /\ SteadyIsRead'
<1> DEFINE T == {r \in X!Wanted(samples) : r.id > export.last_rowid}
           q == L!Query(T, PAGE)
           given == [i \in DOMAIN q |-> q[i].n]
<1>1. /\ export.on
      /\ out' = out \o given
      /\ export' = IF q = <<>> THEN X!NoExport ELSE [export EXCEPT !.last_rowid = q[Len(q)].id]
      /\ UNCHANGED <<now, samples, stored, steady, renumbered>>
    BY SameQuery DEF X!NextPage, X!Last
<1>2. PAGE \in Nat \ {0}
    BY DEF X!LogAssumption
<1>3. /\ now \in Nat /\ stored \in Nat
      /\ RowsApart(samples)
      /\ \A r \in samples : r.id \in Nat /\ r.id \in 1..stored /\ r.n \in 1..stored
      /\ \A r, t \in samples : r.id = t.id => r = t
      /\ \A r, t \in samples : r.id < t.id => r.n < t.n
      /\ export \in [on : BOOLEAN, last_rowid : Nat, since : Nat]
      /\ out \in Seq(1..stored) /\ renumbered \in BOOLEAN
    BY DEF ExportInv, SamplesTyped, RowsApart
<1>4. RowsApart(T)
    BY <1>3, FewerApart DEF X!Wanted
<1>5. \A r : r \in T <=> r \in samples /\ r.ts >= export.since /\ r.id > export.last_rowid
    BY DEF X!Wanted
<1> HIDE DEF T
<1>6. /\ q \in Seq(T)
      /\ \A j, k \in 1..Len(q) : j < k => q[j].id < q[k].id
      /\ q = <<>> => T = {}
      /\ q # <<>> => \A r \in T : r.id <= q[Len(q)].id => \E k \in 1..Len(q) : q[k] = r
    BY <1>2, <1>4, QueryIs
<1> HIDE DEF q
<1>7. Len(q) \in Nat /\ DOMAIN q = 1..Len(q) /\ \A k \in 1..Len(q) : q[k] \in T /\ q[k] \in samples
    BY <1>5, <1>6
<1>8. given \in Seq(1..stored) /\ Len(given) = Len(q) /\ \A k \in 1..Len(q) : given[k] = q[k].n
    <2>1. \A k \in 1..Len(q) : q[k].n \in 1..stored
        BY <1>3, <1>7
    <2> QED BY <1>7, <2>1
<1>9. \A j, k \in 1..Len(q) : j < k => given[j] < given[k]
    BY <1>3, <1>6, <1>7, <1>8
<1>10. \A i \in DOMAIN out, k \in 1..Len(q) : out[i] < given[k]
    BY <1>1, <1>5, <1>7, <1>8 DEF ExportInv, OutInOrder
<1> HIDE DEF given
<1>11. /\ out' \in Seq(1..stored) /\ Len(out') = Len(out) + Len(q)
       /\ DOMAIN out' = 1..Len(out) + Len(q)
       /\ \A i \in 1..Len(out) : out'[i] = out[i]
       /\ \A i \in Len(out) + 1..Len(out) + Len(q) : out'[i] = given[i - Len(out)]
    <2>1. out \in Seq(1..stored) /\ given \in Seq(1..stored) /\ out' = out \o given
        BY <1>1, <1>3, <1>8
    <2>2. /\ out' \in Seq(1..stored) /\ Len(out') = Len(out) + Len(given)
          /\ DOMAIN out' = 1..Len(out) + Len(given)
          /\ \A i \in 1..Len(out) : out'[i] = out[i]
          /\ \A i \in Len(out) + 1..Len(out) + Len(given) : out'[i] = given[i - Len(out)]
        BY ONLY <2>1, Joined
    <2> QED BY <1>8, <2>2
<1>12. Len(out) \in Nat /\ DOMAIN out = 1..Len(out)
    BY <1>3
<1>13. \A i, j \in DOMAIN out' : i < j => out'[i] < out'[j]
    <2>1. ASSUME NEW i \in DOMAIN out', NEW j \in DOMAIN out', i < j PROVE out'[i] < out'[j]
        <3>1. CASE j <= Len(out)
            <4>1. i \in DOMAIN out /\ j \in DOMAIN out
                BY <1>7, <1>11, <1>12, <2>1, <3>1
            <4>2. out[i] < out[j]
                BY <2>1, <4>1 DEF ExportInv, OutInOrder
            <4> QED BY <1>11, <1>12, <4>1, <4>2
        <3>2. CASE i <= Len(out) /\ Len(out) < j
            <4>1. i \in DOMAIN out /\ j - Len(out) \in 1..Len(q) /\ j \in Len(out) + 1..Len(out) + Len(q)
                BY <1>7, <1>11, <1>12, <3>2
            <4> QED BY <1>10, <1>11, <1>12, <4>1
        <3>3. CASE Len(out) < i
            <4>1. /\ i - Len(out) \in 1..Len(q) /\ j - Len(out) \in 1..Len(q)
                  /\ i - Len(out) < j - Len(out)
                  /\ i \in Len(out) + 1..Len(out) + Len(q) /\ j \in Len(out) + 1..Len(out) + Len(q)
                BY <1>7, <1>11, <1>12, <2>1, <3>3
            <4> QED BY <1>9, <1>11, <4>1
        <3> QED BY <1>7, <1>11, <1>12, <2>1, <3>1, <3>2, <3>3
    <2> QED BY <2>1
<1>14. ASSUME NEW m, IsOut(m) PROVE IsOut(m)'
    <2>1. PICK i \in DOMAIN out : out[i] = m
        BY <1>14 DEF IsOut
    <2>2. i \in 1..Len(out) /\ i \in 1..Len(out) + Len(q)
        BY <1>7, <1>12, <2>1
    <2> QED BY <1>11, <2>1, <2>2 DEF IsOut
<1>15. ASSUME NEW k \in 1..Len(q), NEW m, q[k].n = m PROVE IsOut(m)'
    <2>1. /\ Len(out) + k \in Len(out) + 1..Len(out) + Len(q)
          /\ Len(out) + k \in DOMAIN out' /\ (Len(out) + k) - Len(out) = k
        BY <1>7, <1>11, <1>12
    <2>2. out'[Len(out) + k] = given[(Len(out) + k) - Len(out)]
        BY <1>11, <2>1
    <2>3. out'[Len(out) + k] = m
        BY <1>8, <1>15, <2>1, <2>2
    <2> QED BY <2>1, <2>3 DEF IsOut
<1>16. CASE q = <<>>
    <2>1. export' = X!NoExport /\ T = {}
        BY <1>1, <1>6, <1>16
    <2>2. ~export'.on /\ export' \in [on : BOOLEAN, last_rowid : Nat, since : Nat]
        BY <2>1 DEF X!NoExport
    <2>4. OutInOrder'
        BY <1>13, <2>2 DEF OutInOrder
    <2>5. ASSUME NEW m \in steady PROVE IsOut(m)
        BY <1>1, <1>5, <2>1, <2>5 DEF ExportInv, SteadyIsRead, StillToRead
    <2>6. SteadyIsRead'
        BY <1>1, <1>14, <2>2, <2>5 DEF SteadyIsRead
    <2> QED BY <2>4, <2>6
<1>17. CASE q # <<>>
    <2> DEFINE last == q[Len(q)]
    <2>1. Len(q) \in 1..Len(q) /\ last \in samples /\ last.id \in Nat /\ last.id > export.last_rowid
        <3>1. Len(q) \in 1..Len(q)
            BY <1>6, <1>7, <1>17
        <3> QED BY <1>3, <1>5, <1>7, <3>1
    <2>2. export' = [export EXCEPT !.last_rowid = last.id]
        BY <1>1, <1>17
    <2>3. /\ export' \in [on : BOOLEAN, last_rowid : Nat, since : Nat]
          /\ export'.on /\ export'.last_rowid = last.id /\ export'.since = export.since
        BY <1>1, <1>3, <2>1, <2>2
    <2> HIDE DEF last
    <2>5. \A k \in 1..Len(q) : q[k].id <= last.id
        <3>1. ASSUME NEW k \in 1..Len(q) PROVE q[k].id <= last.id
            <4>1. q[k].id \in Int /\ last.id \in Int
                BY <1>3, <1>7, <2>1
            <4>2. k = Len(q) \/ k < Len(q)
                <5>1. Len(q) \in Nat
                    BY <1>7
                <5> QED BY <5>1
            <4>3. k < Len(q) => q[k].id < last.id
                BY <1>6, <2>1 DEF last
            <4> QED BY <4>1, <4>2, <4>3 DEF last
        <3> QED BY <3>1
    <2>6. ASSUME NEW r \in samples, r.id > last.id, NEW i \in DOMAIN out' PROVE out'[i] < r.n
        <3>1. CASE i <= Len(out)
            <4>1. i \in DOMAIN out /\ out'[i] = out[i]
                BY <1>7, <1>11, <1>12, <3>1
            <4>2. r.id > export.last_rowid
                BY <1>3, <2>1, <2>6
            <4> QED BY <1>1, <4>1, <4>2 DEF ExportInv, OutInOrder
        <3>2. CASE Len(out) < i
            <4>1. i - Len(out) \in 1..Len(q) /\ i \in Len(out) + 1..Len(out) + Len(q)
                BY <1>7, <1>11, <1>12, <3>2
            <4>2. out'[i] = q[i - Len(out)].n /\ q[i - Len(out)] \in samples
                BY <1>7, <1>8, <1>11, <4>1
            <4>3. q[i - Len(out)].id < r.id
                BY <1>3, <2>1, <2>5, <2>6, <4>1, <4>2
            <4> QED BY <1>3, <4>2, <4>3
        <3> QED BY <1>7, <1>11, <1>12, <3>1, <3>2
    <2>7. OutInOrder'
        BY <1>1, <1>13, <2>3, <2>6 DEF OutInOrder
    <2>8. ASSUME NEW m \in steady, StillToRead(m) PROVE IsOut(m)' \/ StillToRead(m)'
        <3>1. PICK r \in samples : r.n = m /\ r.ts >= export.since /\ r.id > export.last_rowid
            BY <2>8 DEF StillToRead
        <3>2. CASE r.id > last.id
            BY <1>1, <2>3, <3>1, <3>2 DEF StillToRead
        <3>3. CASE ~(r.id > last.id)
            <4>1. r \in T /\ r.id <= last.id
                BY <1>3, <1>5, <2>1, <3>1, <3>3
            <4>2. PICK k \in 1..Len(q) : q[k] = r
                BY <1>6, <1>17, <4>1 DEF last
            <4> QED BY <1>15, <3>1, <4>2
        <3> QED BY <3>2, <3>3
    <2>9. SteadyIsRead'
        BY <1>1, <1>14, <2>3, <2>8 DEF ExportInv, SteadyIsRead
    <2> QED BY <2>7, <2>9
<1> QED BY <1>16, <1>17

LEMMA ExportStep == ASSUME X!LogAssumption, ExportInv, [X!Next]_X!vars PROVE ExportInv'
<1> USE DEF X!Readers
<1>0. now \in Nat /\ now + 1 \in Nat
    BY DEF ExportInv, SamplesTyped
<1>1. ASSUME NEW kind, NEW ts, X!Record(kind, ts) PROVE ExportInv'
    BY <1>0, <1>1, SamplesStay DEF X!Record
<1>2. ASSUME NEW stamps, X!DeleteEvents(stamps) PROVE ExportInv'
    BY <1>0, <1>2, SamplesStay DEF X!DeleteEvents
<1>3. ASSUME NEW shape, X!RecordSample(shape) PROVE ExportInv'
    BY <1>3, SamplesGrow
<1>4. ASSUME NEW stamps, X!ForgetSamples(stamps) PROVE ExportInv'
    <2>1. {r \in samples : r.ts \notin stamps} \subseteq samples
        OBVIOUS
    <2> QED BY <1>4, <2>1, FewerSamples DEF X!ForgetSamples
<1>5. CASE X!PruneSamples
    <2>1. X!Newest \cup X!FirstOfShape \subseteq samples
        BY DEF X!Newest, X!FirstOfShape
    <2> QED BY <1>5, <2>1, FewerSamples DEF X!PruneSamples
<1>6. CASE X!PruneByAge
    <2>1. {r \in samples : r.ts >= now - AGED} \subseteq samples
        OBVIOUS
    <2> QED BY <1>6, <2>1, FewerSamples DEF X!PruneByAge
<1>7. CASE X!NotePrune
    BY <1>0, <1>7, SamplesStay DEF X!NotePrune
<1>13. CASE X!Vacuum
    BY <1>13, VacuumKeeps
<1>8. ASSUME NEW limit, X!Follow(limit) PROVE ExportInv'
    BY <1>0, <1>8, SamplesStay DEF X!Follow
<1>9. ASSUME NEW since \in 0..now, X!StartExport(since) PROVE ExportInv'
    BY <1>9, ExportStarts
<1>10. CASE X!NextPage
    <2>1. CASE renumbered
        <3>1. renumbered'
            BY <1>10, <2>1 DEF X!NextPage
        <3> QED BY <1>10, <3>1, PageTyped DEF ExportInv, OutInOrder, SteadyIsRead
    <2>2. CASE ~renumbered
        BY <1>10, <2>2, PageTyped, PageKeeps DEF ExportInv
    <2> QED BY <2>1, <2>2
<1>11. CASE X!Tick
    BY <1>0, <1>11, SamplesStay DEF X!Tick
<1>12. CASE UNCHANGED X!vars
    BY <1>0, <1>12, SamplesStay DEF X!vars
<1> QED BY <1>1, <1>2, <1>3, <1>4, <1>5, <1>6, <1>7, <1>8, <1>9, <1>10, <1>11, <1>12, <1>13 DEF X!Next

LEMMA ExportSafe == ASSUME ExportInv PROVE X!ExportIsWhole
<1>1. ASSUME ~renumbered, ~export.on, NEW m \in steady PROVE m \in X!ToSet(out)
    BY <1>1 DEF ExportInv, SteadyIsRead, IsOut, X!ToSet
<1> QED BY <1>1 DEF X!ExportIsWhole, ExportInv, OutInOrder


(* The page's list: the events it reads are the newest, in order; a row of   *)
(* it stands for those from one place to another.                          *)
Later(f, e) == f.ts > e.ts \/ (f.ts = e.ts /\ f.id > e.id)

LEMMA RecentIs ==
    ASSUME LogInv, NEW limit \in Nat \ {0}, NEW ev, ev = L!RecentEvents(limit)
    PROVE  /\ ev \in Seq(log)
           /\ \A j, k \in 1..Len(ev) : j < k => Later(ev[j], ev[k])
           /\ \A e \in log, k \in 1..Len(ev) : Later(e, ev[k]) => \E j \in 1..k - 1 : ev[j] = e
           /\ \A e \in log : L!Cardinality(L!Newer(e)) < limit => \E k \in 1..Len(ev) : ev[k] = e
           /\ \A e \in log : L!Newer(e) = {} => ev # <<>> /\ ev[1] = e
           /\ log # {} => ev # <<>>
<1> DEFINE R == {p \in log \X log : Later(p[1], p[2])}
           n == Cardinality(log)
           rank(e) == L!Cardinality(L!Newer(e))
           all == [k \in 1..n |-> CHOOSE e \in log : rank(e) = k - 1]
           m == L!Min({limit, Len(all)})
<1>1. IsFiniteSet(log) /\ \A e \in log : e.ts \in Int /\ e.id \in Int /\ \A f \in log : e.id = f.id => e = f
    BY DEF LogInv, LogTyped, RowsApart
<1>2. \A f, e \in log : <<f, e>> \in R <=> Later(f, e)
    OBVIOUS
<1>3. \A e \in log : {f \in log : <<f, e>> \in R} = L!Newer(e)
    BY <1>2 DEF L!Newer, Later
<1>4. ev = SubSeq(all, 1, m)
    BY LogCounts DEF L!RecentEvents
<1> HIDE DEF R
<1>5. /\ \A x \in log : <<x, x>> \notin R
      /\ \A x, y, z \in log : <<x, y>> \in R /\ <<y, z>> \in R => <<x, z>> \in R
      /\ \A x, y \in log : x # y => <<x, y>> \in R \/ <<y, x>> \in R
    <2>1. \A x \in log : ~Later(x, x)
        BY <1>1 DEF Later
    <2>2. \A x, y, z \in log : Later(x, y) /\ Later(y, z) => Later(x, z)
        BY <1>1 DEF Later
    <2>3. \A x, y \in log : x # y => Later(x, y) \/ Later(y, x)
        BY <1>1 DEF Later
    <2> QED BY <1>2, <2>1, <2>2, <2>3
<1>6. /\ Cardinality(log) \in Nat
      /\ \A x \in log : Cardinality({y \in log : <<y, x>> \in R}) \in 0..Cardinality(log) - 1
      /\ \A x, y \in log : <<x, y>> \in R <=>
             Cardinality({u \in log : <<u, x>> \in R}) < Cardinality({u \in log : <<u, y>> \in R})
      /\ \A k \in 1..Cardinality(log) : \E x \in log : Cardinality({y \in log : <<y, x>> \in R}) = k - 1
    BY <1>1, <1>5, Ranks
<1>7. /\ n \in Nat
      /\ \A x \in log : rank(x) \in 0..n - 1
      /\ \A x, y \in log : Later(x, y) <=> rank(x) < rank(y)
      /\ \A k \in 1..n : \E x \in log : rank(x) = k - 1
    BY <1>2, <1>3, <1>6, LogCounts
<1>8. \A x \in log : L!Newer(x) = {} => rank(x) = 0
    BY LogCounts, FS_EmptySet
<1>9. log # {} => n # 0
    BY <1>1, FS_EmptySet
<1>10. ASSUME NEW k \in 1..n PROVE all[k] \in log /\ rank(all[k]) = k - 1
    <2>1. \E x \in log : rank(x) = k - 1
        BY <1>7
    <2>2. all[k] = CHOOSE x \in log : rank(x) = k - 1
        OBVIOUS
    <2> QED BY <2>1, <2>2, Zenon
<1>11. all \in [1..n -> log]
    BY <1>10
<1> HIDE DEF all, rank
<1>12. all \in Seq(log) /\ Len(all) = n
    BY <1>7, <1>11
<1>13. m \in 0..n /\ (m = n \/ m = limit)
    BY <1>7, <1>12, Shorter
<1> HIDE DEF m, n
<1>14. ev \in Seq(log) /\ Len(ev) = m /\ \A k \in 1..m : ev[k] = all[k] /\ rank(ev[k]) = k - 1 /\ ev[k] \in log
    <2>1. ev \in Seq(log) /\ Len(ev) = m /\ \A k \in 1..m : ev[k] = all[k]
        BY <1>4, <1>7, <1>11, <1>12, <1>13
    <2>2. \A k \in 1..m : k \in 1..n
        BY <1>7, <1>13
    <2> QED BY <1>10, <2>1, <2>2
<1>15. ASSUME NEW e \in log, rank(e) < m PROVE rank(e) + 1 \in 1..m /\ ev[rank(e) + 1] = e
    <2> DEFINE k == rank(e) + 1
    <2>1. rank(e) \in Nat /\ k \in 1..m /\ k - 1 = rank(e)
        BY <1>7, <1>13, <1>15
    <2> HIDE DEF k
    <2>2. ev[k] \in log /\ rank(ev[k]) = rank(e)
        BY <1>14, <2>1
    <2>3. ~Later(ev[k], e) /\ ~Later(e, ev[k])
        BY <1>7, <2>1, <2>2
    <2>4. ev[k] = e
        BY <1>2, <1>5, <2>2, <2>3
    <2> QED BY <2>1, <2>4 DEF k
<1>16. ASSUME NEW j \in 1..m, NEW k \in 1..m, j < k PROVE Later(ev[j], ev[k])
    <2>1. j - 1 < k - 1
        BY <1>7, <1>13, <1>16
    <2> QED BY <1>7, <1>14, <2>1
<1>17. ASSUME NEW e \in log, NEW k \in 1..m, Later(e, ev[k]) PROVE \E j \in 1..k - 1 : ev[j] = e
    <2>1. rank(e) < k - 1 /\ rank(e) \in Nat
        BY <1>7, <1>14, <1>17
    <2>2. rank(e) < m /\ rank(e) + 1 \in 1..k - 1
        BY <1>7, <1>13, <2>1
    <2> QED BY <1>15, <2>2
<1>18. ASSUME NEW e \in log, rank(e) < limit PROVE \E k \in 1..m : ev[k] = e
    <2>1. rank(e) < m
        BY <1>7, <1>13, <1>18
    <2> QED BY <1>15, <2>1
<1>19. log # {} => m # 0
    BY <1>7, <1>9, <1>13
<1>20. ASSUME NEW e \in log, L!Newer(e) = {} PROVE ev # <<>> /\ ev[1] = e
    <2>1. rank(e) = 0 /\ m # 0
        BY <1>8, <1>19, <1>20
    <2>2. rank(e) < m /\ rank(e) + 1 = 1
        BY <1>7, <1>13, <2>1
    <2>3. ev[1] = e /\ 1 \in 1..m
        BY <1>15, <2>2
    <2> QED BY <1>14, <2>3
<1> QED BY <1>14, <1>16, <1>17, <1>18, <1>19, <1>20 DEF rank

RowOf(ev, a, b) ==
    [kind |-> ev[a].kind, ts |-> ev[a].ts, n |-> ev[a].n, count |-> b - a + 1, first_ts |-> ev[b].ts]

Stand(ev, lines, a, b) ==
    /\ \A k \in 1..Len(lines) : /\ lines[k] = RowOf(ev, a[k], b[k]) /\ a[k] <= b[k]
                              /\ \A i \in a[k]..b[k] : ev[i].kind = ev[a[k]].kind
    /\ \A j, k \in 1..Len(lines) : j < k => b[j] < a[k]
    /\ \A i \in 1..Len(ev) : \E k \in 1..Len(lines) : i \in a[k]..b[k]
    /\ ev # <<>> => 1 \in 1..Len(lines) /\ a[1] = 1

LEMMA CollapseIs ==
    ASSUME NEW E, NEW ev \in Seq(E), NEW lines, lines = L!CollapseEvents(ev)
    PROVE  /\ Len(lines) \in Nat /\ lines = [k \in 1..Len(lines) |-> lines[k]]
           /\ \E a, b \in [1..Len(lines) -> 1..Len(ev)] : Stand(ev, lines, a, b)
<1> DEFINE heads == L!Heads(ev)
           R == {p \in heads \X heads : p[1] < p[2]}
           c == Cardinality(heads)
           m == Len(ev)
           rank(i) == L!Cardinality({h \in heads : h < i})
           a == [k \in 1..c |-> CHOOSE i \in heads : rank(i) = k - 1]
           b == [k \in 1..c |-> L!Until(ev, a[k])]
<1>1. m \in Nat /\ heads \subseteq 1..m /\ IsFiniteSet(heads)
    <2>1. m \in Nat /\ heads \subseteq 1..m
        BY DEF L!Heads
    <2>2. IsFiniteSet(1..m)
        BY <2>1, FS_Interval
    <2> HIDE DEF heads
    <2> QED BY <2>1, <2>2, FS_Subset
<1>2. \A i \in 1..m : i \in heads <=> i = 1 \/ ev[i].kind # ev[i - 1].kind
    BY DEF L!Heads
<1>3. lines = [k \in 1..c |-> RowOf(ev, CHOOSE i \in heads : rank(i) = k - 1,
                                       L!Until(ev, CHOOSE i \in heads : rank(i) = k - 1))]
    BY LogCounts DEF L!CollapseEvents, RowOf
<1> HIDE DEF heads
<1>4. \A x, y \in heads : <<x, y>> \in R <=> x < y
    OBVIOUS
<1>5. \A x \in heads : {h \in heads : <<h, x>> \in R} = {h \in heads : h < x}
    BY <1>4
<1> HIDE DEF R
<1>6. \A x \in heads : x \in Int
    BY <1>1
<1>7. /\ \A x \in heads : <<x, x>> \notin R
      /\ \A x, y, z \in heads : <<x, y>> \in R /\ <<y, z>> \in R => <<x, z>> \in R
      /\ \A x, y \in heads : x # y => <<x, y>> \in R \/ <<y, x>> \in R
    <2>1. \A x \in heads : ~(x < x)
        BY <1>6
    <2>2. \A x, y, z \in heads : x < y /\ y < z => x < z
        BY <1>6
    <2>3. \A x, y \in heads : x # y => x < y \/ y < x
        BY <1>6
    <2> QED BY <1>4, <2>1, <2>2, <2>3
<1>8. /\ Cardinality(heads) \in Nat
      /\ \A x \in heads : Cardinality({y \in heads : <<y, x>> \in R}) \in 0..Cardinality(heads) - 1
      /\ \A x, y \in heads : <<x, y>> \in R <=>
             Cardinality({u \in heads : <<u, x>> \in R}) < Cardinality({u \in heads : <<u, y>> \in R})
      /\ \A k \in 1..Cardinality(heads) : \E x \in heads : Cardinality({y \in heads : <<y, x>> \in R}) = k - 1
    BY <1>1, <1>7, Ranks
<1>9. /\ c \in Nat
      /\ \A x \in heads : rank(x) \in 0..c - 1
      /\ \A x, y \in heads : x < y <=> rank(x) < rank(y)
      /\ \A k \in 1..c : \E x \in heads : rank(x) = k - 1
    BY <1>4, <1>5, <1>8, LogCounts
<1>10. ASSUME NEW k \in 1..c PROVE a[k] \in heads /\ rank(a[k]) = k - 1
    <2>1. \E x \in heads : rank(x) = k - 1
        BY <1>9
    <2>2. a[k] = CHOOSE x \in heads : rank(x) = k - 1
        OBVIOUS
    <2> QED BY <2>1, <2>2, Zenon
<1>11. ASSUME NEW k \in 1..c PROVE lines[k] = RowOf(ev, a[k], b[k])
    <2> DEFINE i == CHOOSE h \in heads : rank(h) = k - 1
    <2>1. lines[k] = RowOf(ev, i, L!Until(ev, i))
        BY <1>3
    <2>2. a[k] = i /\ b[k] = L!Until(ev, a[k])
        OBVIOUS
    <2> HIDE DEF i, a, b
    <2> QED BY <2>1, <2>2
<1>12. Len(lines) = c /\ lines = [k \in 1..c |-> lines[k]]
    BY <1>3, <1>9
<1>13. a \in [1..c -> 1..m]
    BY <1>1, <1>10
<1>14. \A k \in 1..c : b[k] = L!Until(ev, a[k])
    OBVIOUS
<1>15. DOMAIN b = 1..c /\ b = [k \in 1..c |-> b[k]]
    OBVIOUS
<1> HIDE DEF a, b, c, m, rank
<1>16. ASSUME NEW k \in 1..c
       PROVE  b[k] \in a[k]..m /\ heads \cap (a[k] + 1..b[k]) = {}
              /\ \A j \in a[k]..m : heads \cap (a[k] + 1..j) = {} => j <= b[k]
    <2> DEFINE N == {j \in a[k]..Len(ev) : L!Heads(ev) \cap a[k] + 1..j = {}}
    <2>1. b[k] = L!Max(N)
        BY <1>14 DEF L!Until
    <2>2. \A j : j \in N <=> j \in a[k]..m /\ heads \cap (a[k] + 1..j) = {}
        BY DEF heads, m
    <2> HIDE DEF N
    <2>3. a[k] \in 1..m
        BY <1>13
    <2>4. N \in SUBSET (0..m) /\ a[k] \in N
        <3>1. a[k] \in a[k]..m /\ a[k] + 1..a[k] = {}
            BY <1>1, <2>3
        <3>2. \A j \in a[k]..m : j \in 0..m
            BY <1>1, <2>3
        <3> QED BY <2>2, <3>1, <3>2
    <2>5. \E x \in N : \A y \in N : y <= x
        BY <1>1, <2>4, LargestThereIs DEF m
    <2>6. b[k] \in N /\ \A y \in N : y <= b[k]
        BY <2>1, <2>5 DEF L!Max
    <2> QED BY <2>2, <2>6
<1>17. b \in [1..c -> 1..m]
    <2>1. \A k \in 1..c : b[k] \in 1..m
        BY <1>1, <1>13, <1>16
    <2> QED BY <1>15, <2>1
<1>18. ASSUME NEW k \in 1..c PROVE a[k] <= b[k] /\ \A i \in a[k]..b[k] : ev[i].kind = ev[a[k]].kind
    <2> DEFINE N == {i \in a[k]..b[k] : ev[i].kind # ev[a[k]].kind}
    <2>1. a[k] \in 1..m /\ b[k] \in 1..m /\ a[k] <= b[k]
        BY <1>1, <1>13, <1>16
    <2>2. ASSUME N # {} PROVE FALSE
        <3>1. N \in SUBSET Nat
            BY <1>1, <2>1
        <3>2. PICK i \in N : \A j \in N : i <= j
            BY <2>2, <3>1, LeastThereIs
        <3>3. i \in a[k]..b[k] /\ ev[i].kind # ev[a[k]].kind /\ i # a[k]
            BY <3>2
        <3>4. i - 1 \in a[k]..b[k] /\ i - 1 \notin N /\ i \in 1..m /\ i \in a[k] + 1..b[k] /\ i # 1
            BY <1>1, <2>1, <3>1, <3>2, <3>3
        <3>5. ev[i - 1].kind = ev[a[k]].kind
            BY <3>4
        <3>6. i \in heads
            BY <1>2, <3>3, <3>4, <3>5 DEF m
        <3> QED BY <1>16, <3>4, <3>6
    <2> QED BY <2>1, <2>2
<1>19. ASSUME NEW j \in 1..c, NEW k \in 1..c, j < k PROVE b[j] < a[k]
    <2>1. /\ a[j] \in heads /\ a[k] \in heads /\ a[j] \in 1..m /\ a[k] \in 1..m /\ b[j] \in 1..m
          /\ rank(a[j]) = j - 1 /\ rank(a[k]) = k - 1
        BY <1>10, <1>13, <1>17
    <2>2. j - 1 < k - 1
        BY <1>9, <1>19
    <2>3. a[j] < a[k]
        BY <1>9, <2>1, <2>2
    <2>4. a[k] \notin a[j] + 1..b[j]
        BY <1>16, <2>1
    <2> QED BY <1>1, <2>1, <2>3, <2>4
<1>20. ASSUME NEW x \in heads PROVE \E k \in 1..c : a[k] = x
    <2> DEFINE k == rank(x) + 1
    <2>1. rank(x) \in 0..c - 1 /\ k \in 1..c /\ k - 1 = rank(x)
        BY <1>9
    <2> HIDE DEF k
    <2>2. a[k] \in heads /\ rank(a[k]) = rank(x)
        BY <1>10, <2>1
    <2>3. ~(a[k] < x) /\ ~(x < a[k])
        BY <1>9, <2>1, <2>2
    <2>4. a[k] = x
        BY <1>6, <2>2, <2>3
    <2> QED BY <2>1, <2>4
<1>21. ASSUME NEW i \in 1..m PROVE \E k \in 1..c : i \in a[k]..b[k]
    <2> DEFINE N == {h \in heads : h <= i}
    <2>1. 1 \in heads /\ 1 \in N
        <3>1. 1 \in 1..m /\ 1 <= i
            BY <1>1
        <3> QED BY <1>2, <3>1 DEF m
    <2>2. N \in SUBSET (0..m)
        <3>1. \A h \in 1..m : h \in 0..m
            BY <1>1
        <3> QED BY <1>1, <3>1
    <2>3. PICK x \in N : \A y \in N : y <= x
        BY <1>1, <2>1, <2>2, LargestThereIs DEF m
    <2>4. PICK k \in 1..c : a[k] = x
        BY <1>20
    <2>5. heads \cap (a[k] + 1..i) = {}
        <3>1. ASSUME NEW h \in heads, h \in a[k] + 1..i PROVE FALSE
            <4>1. h \in N /\ h \in 1..m /\ x \in 1..m /\ x + 1 <= h
                BY <1>1, <2>4, <3>1
            <4>2. h <= x
                BY <2>3, <4>1
            <4> QED BY <4>1, <4>2
        <3> QED BY <3>1
    <2>6. i \in a[k]..m
        <3>1. x \in 1..m /\ x <= i
            BY <1>1
        <3> QED BY <1>1, <2>4, <3>1
    <2>7. i <= b[k] /\ b[k] \in 1..m
        BY <1>16, <1>17, <2>5, <2>6
    <2> QED BY <1>1, <2>6, <2>7
<1>22. ASSUME ev # <<>> PROVE 1 \in 1..c /\ a[1] = 1
    <2>1. 1 \in 1..m
        BY <1>1, <1>22 DEF m
    <2>2. 1 \in heads
        BY <1>2, <2>1 DEF m
    <2>3. PICK k \in 1..c : a[k] = 1
        BY <1>20, <2>2
    <2>4. 1 \in 1..c
        BY <1>9, <2>3
    <2>5. 1 < k => FALSE
        <3>1. ASSUME 1 < k PROVE FALSE
            <4>1. b[1] < 1 /\ b[1] \in 1..m
                BY <1>17, <1>19, <2>3, <2>4, <3>1
            <4> QED BY <1>1, <4>1
        <3> QED BY <3>1
    <2>6. k = 1
        BY <1>9, <2>5
    <2> QED BY <2>3, <2>4, <2>6
<1>23. Len(lines) = c /\ c \in Nat /\ lines = [k \in 1..c |-> lines[k]]
    BY <1>9, <1>12
<1>24. \A k \in 1..c : /\ lines[k] = RowOf(ev, a[k], b[k]) /\ a[k] <= b[k]
                       /\ \A i \in a[k]..b[k] : ev[i].kind = ev[a[k]].kind
    BY <1>11, <1>18
<1>25. Stand(ev, lines, a, b)
    BY <1>19, <1>21, <1>22, <1>23, <1>24 DEF Stand, m
<1> QED BY <1>13, <1>17, <1>23, <1>25 DEF m


(* The list is some of these rows in their order, the first one among them, *)
(* and one of a boost if there is one.                                     *)
Picked(shown, lines, limit) ==
    /\ Len(shown) \in Nat /\ DOMAIN shown = 1..Len(shown) /\ Len(shown) <= limit
    /\ \E ix \in [1..Len(shown) -> 1..Len(lines)] :
           /\ \A i \in 1..Len(shown) : shown[i] = lines[ix[i]]
           /\ \A i, j \in 1..Len(shown) : i < j => ix[i] < ix[j]
    /\ lines # <<>> => shown # <<>> /\ shown[1] = lines[1]
    /\ \A k \in 1..Len(lines) : lines[k].kind = BOOST_KIND =>
           \E i \in 1..Len(shown) : shown[i].kind = BOOST_KIND

LEMMA ShownIs ==
    ASSUME NEW limit \in Nat, limit >= 2, NEW T, NEW lines \in Seq(T),
           lines = L!CollapseEvents(L!RecentEvents(limit * OVERREAD)),
           NEW shown, shown = L!EventRows(limit)
    PROVE  Picked(shown, lines, limit)
<1> USE DEF Picked
<1> DEFINE list == L!CollapseEvents(L!RecentEvents(limit * OVERREAD))
           boosts == {i \in DOMAIN list : list[i].kind = BOOST_KIND}
           c == Len(list)
           m == L!Min({limit, c})
           first == L!Min(boosts)
<1>0. shown = IF boosts = {} \/ first <= limit THEN SubSeq(list, 1, m)
              ELSE Append(SubSeq(SubSeq(list, 1, m), 1, limit - 1), list[first])
    BY Zenon DEF L!EventRows
<1> lines = list
    OBVIOUS
<1> HIDE DEF list
<1>1. c \in Nat /\ DOMAIN lines = 1..c
    OBVIOUS
<1>2. shown = IF boosts = {} \/ first <= limit THEN SubSeq(lines, 1, m)
              ELSE Append(SubSeq(SubSeq(lines, 1, m), 1, limit - 1), lines[first])
    BY <1>0, Zenon
<1>3. m \in Nat /\ m <= limit /\ m <= c /\ (m = limit \/ m = c)
    BY <1>1, Shorter
<1>4. boosts # {} => first \in boosts /\ \A i \in boosts : first <= i
    <2>1. boosts \in SUBSET Nat
        BY <1>1
    <2> HIDE DEF boosts
    <2>2. boosts # {} => \E x \in boosts : \A y \in boosts : x <= y
        BY <2>1, LeastThereIs
    <2> QED BY <2>2 DEF L!Min
<1>5. \A k \in 1..c : k \in boosts <=> lines[k].kind = BOOST_KIND
    BY <1>1
<1>6. boosts \subseteq 1..c
    BY <1>1
<1> HIDE DEF boosts, first, m
<1>7. CASE boosts = {} \/ first <= limit
    <2>1. shown = SubSeq(lines, 1, m)
        BY <1>2, <1>7
    <2>2. Len(shown) = m /\ DOMAIN shown = 1..m /\ \A i \in 1..m : shown[i] = lines[i] /\ i \in 1..c
        BY <1>1, <1>3, <2>1
    <2>3. \E ix \in [1..m -> 1..c] : /\ \A i \in 1..m : shown[i] = lines[ix[i]]
                                     /\ \A i, j \in 1..m : i < j => ix[i] < ix[j]
        <3> DEFINE ix == [i \in 1..m |-> i]
        <3>1. ix \in [1..m -> 1..c] /\ \A i \in 1..m : ix[i] = i
            BY <2>2
        <3> HIDE DEF ix
        <3> QED BY <2>2, <3>1
    <2>4. lines # <<>> => shown # <<>> /\ shown[1] = lines[1]
        BY <1>1, <1>3, <2>2
    <2>5. ASSUME NEW k \in 1..c, lines[k].kind = BOOST_KIND
          PROVE  \E i \in 1..m : shown[i].kind = BOOST_KIND
        <3>1. first \in boosts /\ first <= limit
            BY <1>4, <1>5, <1>7, <2>5
        <3>2. first \in 1..m
            BY <1>1, <1>3, <1>6, <3>1
        <3> QED BY <1>5, <1>6, <2>2, <3>1, <3>2
    <2> QED BY <1>3, <2>2, <2>3, <2>4, <2>5
<1>8. CASE ~(boosts = {} \/ first <= limit)
    <2>1. /\ first \in boosts /\ first \in 1..c /\ ~(first <= limit)
          /\ shown = Append(SubSeq(SubSeq(lines, 1, m), 1, limit - 1), lines[first])
        BY <1>2, <1>4, <1>6, <1>8
    <2>2. limit < c /\ limit < first
        BY <1>1, <2>1
    <2> DEFINE whole == SubSeq(lines, 1, m)
               start == SubSeq(whole, 1, limit - 1)
    <2>3. start \in Seq(T) /\ Len(start) = limit - 1 /\ \A i \in 1..limit - 1 : start[i] = lines[i] /\ i \in 1..c
        <3>1. m = limit
            BY <1>1, <1>3, <2>2 DEF m
        <3>2. whole \in Seq(T) /\ Len(whole) = limit /\ \A i \in 1..limit : whole[i] = lines[i]
            BY <1>1, <2>2, <3>1
        <3> HIDE DEF whole
        <3> QED BY <1>1, <2>2, <3>2
    <2> HIDE DEF start
    <2>4. /\ Len(shown) = limit /\ DOMAIN shown = 1..limit
          /\ \A i \in 1..limit - 1 : shown[i] = lines[i]
          /\ shown[limit] = lines[first]
        <3>1. shown = Append(start, lines[first])
            BY <2>1 DEF start
        <3>2. lines[first] \in T
            BY <1>1, <2>1
        <3>3. /\ Len(shown) = Len(start) + 1 /\ DOMAIN shown = 1..Len(start) + 1
              /\ \A i \in 1..Len(start) : shown[i] = start[i]
              /\ shown[Len(start) + 1] = lines[first]
            BY <2>3, <3>1, <3>2
        <3>4. (limit - 1) + 1 = limit
            OBVIOUS
        <3> QED BY <2>3, <3>3, <3>4
    <2>5. \E ix \in [1..limit -> 1..c] : /\ \A i \in 1..limit : shown[i] = lines[ix[i]]
                                         /\ \A i, j \in 1..limit : i < j => ix[i] < ix[j]
        <3> DEFINE ix == [i \in 1..limit |-> IF i = limit THEN first ELSE i]
        <3>1. \A i \in 1..limit : i = limit \/ i \in 1..limit - 1
            OBVIOUS
        <3>2. ix \in [1..limit -> 1..c] /\ ix[limit] = first /\ \A i \in 1..limit - 1 : ix[i] = i
            <4>1. \A i \in 1..limit : i \in 1..c
                BY <1>1, <2>2
            <4>2. limit \in 1..limit /\ \A i \in 1..limit - 1 : i \in 1..limit /\ i # limit
                OBVIOUS
            <4> QED BY <2>1, <4>1, <4>2
        <3> HIDE DEF ix
        <3>3. \A i \in 1..limit : shown[i] = lines[ix[i]]
            BY <2>4, <3>1, <3>2
        <3>4. ASSUME NEW i \in 1..limit, NEW j \in 1..limit, i < j PROVE ix[i] < ix[j]
            <4>1. i \in 1..limit - 1 /\ ix[i] = i
                BY <3>2, <3>4
            <4>2. CASE j = limit
                BY <1>1, <2>1, <2>2, <3>2, <4>1, <4>2
            <4>3. CASE j # limit
                BY <3>1, <3>2, <3>4, <4>1, <4>3
            <4> QED BY <4>2, <4>3
        <3> QED BY <3>2, <3>3, <3>4
    <2>6. shown # <<>> /\ shown[1] = lines[1]
        <3>1. 1 \in 1..limit - 1
            OBVIOUS
        <3> QED BY <2>4, <3>1
    <2>7. shown[limit].kind = BOOST_KIND /\ limit \in 1..limit
        BY <1>5, <2>1, <2>4
    <2>8. \A k \in 1..c : lines[k].kind = BOOST_KIND => \E i \in 1..Len(shown) : shown[i].kind = BOOST_KIND
        BY <2>4, <2>7
    <2> QED BY <2>4, <2>5, <2>6, <2>8
<1> QED BY <1>7, <1>8

LEMMA ListSafe == ASSUME L!LogAssumption, LogInv PROVE L!PageListsEvents
<1> SUFFICES ASSUME NEW limit \in ReadLimits \ {1}
             PROVE  LET lines == L!EventRows(limit)
                        stands(line) == {e \in log : e.kind = line.kind /\ line.first_ts <= e.ts /\ e.ts <= line.ts}
                        between(line) == {e \in log : line.first_ts < e.ts /\ e.ts < line.ts}
                    IN  /\ Len(lines) <= limit
                        /\ log # {} => lines # <<>>
                        /\ \A i \in DOMAIN lines :
                               /\ lines[i].count <= L!Cardinality(stands(lines[i]))
                               /\ between(lines[i]) \subseteq stands(lines[i])
                               /\ \A j \in 1..i - 1 : lines[j].first_ts >= lines[i].ts /\ lines[j].n # lines[i].n
                        /\ \A e \in log :
                               /\ e.kind = BOOST_KIND /\ L!Cardinality(L!Newer(e)) < limit * OVERREAD =>
                                      \E i \in DOMAIN lines : lines[i].kind = BOOST_KIND
                               /\ L!Newer(e) = {} => lines[1].n = e.n
    BY DEF L!PageListsEvents
<1> DEFINE ev == L!RecentEvents(limit * OVERREAD)
           all == L!CollapseEvents(ev)
           lines == L!EventRows(limit)
           stands(line) == {e \in log : e.kind = line.kind /\ line.first_ts <= e.ts /\ e.ts <= line.ts}
           between(line) == {e \in log : line.first_ts < e.ts /\ e.ts < line.ts}
           m == Len(ev)
<1>1. limit \in Nat /\ limit >= 2 /\ limit * OVERREAD \in Nat \ {0}
    <2>1. limit \in Nat /\ limit >= 2 /\ OVERREAD \in Nat /\ OVERREAD >= 1
        BY DEF L!LogAssumption
    <2>2. limit * OVERREAD \in Nat /\ limit * OVERREAD >= 1
        BY ONLY <2>1
    <2> QED BY <2>1, <2>2
<1>2. /\ IsFiniteSet(log)
      /\ \A e \in log : e.ts \in Int /\ e.id \in Int /\ e.n \in Int
      /\ \A e, f \in log : e.id = f.id => e = f
      /\ \A e, f \in log : e.id < f.id => e.n < f.n
    BY DEF LogInv, LogTyped, RowsApart
<1>3. /\ ev \in Seq(log)
      /\ \A j, k \in 1..m : j < k => Later(ev[j], ev[k])
      /\ \A e \in log, k \in 1..m : Later(e, ev[k]) => \E j \in 1..k - 1 : ev[j] = e
      /\ \A e \in log : L!Cardinality(L!Newer(e)) < limit * OVERREAD => \E k \in 1..m : ev[k] = e
      /\ \A e \in log : L!Newer(e) = {} => ev # <<>> /\ ev[1] = e
      /\ log # {} => ev # <<>>
    BY <1>1, RecentIs
<1>4. all = L!CollapseEvents(L!RecentEvents(limit * OVERREAD)) /\ all = L!CollapseEvents(ev)
    OBVIOUS
<1> HIDE DEF ev, all
<1>5. /\ Len(all) \in Nat /\ all = [k \in 1..Len(all) |-> all[k]]
      /\ \E a, b \in [1..Len(all) -> 1..Len(ev)] : Stand(ev, all, a, b)
    <2>1. ev \in Seq(log) /\ all = L!CollapseEvents(ev)
        BY <1>3, <1>4
    <2> QED BY ONLY <2>1, CollapseIs
<1> DEFINE c == Len(all)
<1>6. PICK a, b \in [1..c -> 1..m] : Stand(ev, all, a, b)
    BY <1>5
<1>7. /\ \A k \in 1..c :
                /\ all[k] = RowOf(ev, a[k], b[k]) /\ a[k] <= b[k]
                /\ \A i \in a[k]..b[k] : ev[i].kind = ev[a[k]].kind
      /\ \A j, k \in 1..c : j < k => b[j] < a[k]
      /\ \A i \in 1..m : \E k \in 1..c : i \in a[k]..b[k]
      /\ ev # <<>> => 1 \in 1..c /\ a[1] = 1
      /\ a \in [1..c -> 1..m] /\ b \in [1..c -> 1..m]
    BY <1>6 DEF Stand
<1> DEFINE T == {all[k] : k \in 1..c}
<1>8. all \in Seq(T) /\ c \in Nat
    <2>1. c \in Nat /\ all = [k \in 1..c |-> all[k]]
        BY <1>5
    <2> HIDE DEF c
    <2>2. all \in [1..c -> T]
        BY <2>1
    <2> HIDE DEF T
    <2> QED BY <2>1, <2>2
<1> HIDE DEF T
<1> HIDE DEF lines
<1>9. /\ Len(lines) \in Nat /\ DOMAIN lines = 1..Len(lines) /\ Len(lines) <= limit
      /\ \E ix \in [1..Len(lines) -> 1..c] :
             /\ \A i \in 1..Len(lines) : lines[i] = all[ix[i]]
             /\ \A i, j \in 1..Len(lines) : i < j => ix[i] < ix[j]
      /\ all # <<>> => lines # <<>> /\ lines[1] = all[1]
      /\ \A k \in 1..c : all[k].kind = BOOST_KIND =>
             \E i \in 1..Len(lines) : lines[i].kind = BOOST_KIND
    <2>1. lines = L!EventRows(limit)
        BY DEF lines
    <2>2. limit \in Nat /\ limit >= 2 /\ all \in Seq(T) /\ all = L!CollapseEvents(L!RecentEvents(limit * OVERREAD))
        BY <1>1, <1>4, <1>8
    <2>3. Picked(lines, all, limit)
        BY ONLY <2>1, <2>2, ShownIs
    <2> QED BY <2>3 DEF Picked
<1> DEFINE d == Len(lines)
<1>10. PICK ix \in [1..d -> 1..c] :
          /\ \A i \in 1..d : lines[i] = all[ix[i]]
          /\ \A i, j \in 1..d : i < j => ix[i] < ix[j]
    BY <1>9
<1> HIDE DEF c
<1>11. m \in Nat /\ \A k \in 1..m : ev[k] \in log
    BY <1>3
<1>12. \A j, k \in 1..m : j < k => ev[j].ts >= ev[k].ts /\ ev[j] # ev[k]
    BY <1>2, <1>3, <1>11 DEF Later
<1> HIDE DEF m
<1>13. \A j, k \in 1..m : j < k => ev[j].n # ev[k].n
    <2>1. ASSUME NEW j \in 1..m, NEW k \in 1..m, j < k PROVE ev[j].n # ev[k].n
        <3>1. ev[j] \in log /\ ev[k] \in log /\ ev[j] # ev[k]
            BY <1>11, <1>12, <2>1
        <3>2. ev[j].id < ev[k].id \/ ev[k].id < ev[j].id
            BY <1>2, <3>1
        <3> QED BY <1>2, <3>1, <3>2
    <2> QED BY <2>1
<1>14. ASSUME NEW i \in 1..d
       PROVE  /\ lines[i].count <= L!Cardinality(stands(lines[i]))
              /\ between(lines[i]) \subseteq stands(lines[i])
              /\ \A j \in 1..i - 1 : lines[j].first_ts >= lines[i].ts /\ lines[j].n # lines[i].n
    <2> DEFINE lo == a[ix[i]]
               hi == b[ix[i]]
    <2>1. /\ ix[i] \in 1..c /\ lo \in 1..m /\ hi \in 1..m /\ lo <= hi
          /\ lines[i] = RowOf(ev, lo, hi)
          /\ \A p \in lo..hi : ev[p].kind = ev[lo].kind
        BY <1>7, <1>10
    <2> HIDE DEF lo, hi
    <2>2. /\ lines[i].kind = ev[lo].kind /\ lines[i].ts = ev[lo].ts /\ lines[i].n = ev[lo].n
          /\ lines[i].count = hi - lo + 1 /\ lines[i].first_ts = ev[hi].ts
        BY <2>1 DEF RowOf
    <2>3. ASSUME NEW p \in lo..hi PROVE p \in 1..m /\ ev[p] \in stands(lines[i])
        <3>1. p \in 1..m /\ ev[p] \in log /\ ev[lo] \in log /\ ev[hi] \in log
            BY <1>11, <2>1
        <3>2. p = hi \/ p < hi
            BY <1>11, <2>1
        <3>3. p = lo \/ lo < p
            BY <1>11, <2>1
        <3>4. ev[hi].ts <= ev[p].ts /\ ev[p].ts <= ev[lo].ts
            BY <1>2, <1>12, <2>1, <3>1, <3>2, <3>3
        <3> QED BY <2>1, <2>2, <3>1, <3>4
    <2>4. lines[i].count <= L!Cardinality(stands(lines[i]))
        <3> DEFINE f == [p \in lo..hi |-> ev[p]]
                   E == stands(lines[i])
        <3>1. IsFiniteSet(E)
            <4>1. E \in SUBSET log
                OBVIOUS
            <4> HIDE DEF E
            <4> QED BY <1>2, <4>1, FS_Subset
        <3>2. \A p \in lo..hi : ev[p] \in E
            BY <2>3
        <3> HIDE DEF E
        <3>3. f \in [lo..hi -> E]
            BY <3>2
        <3>4. \A p, q \in lo..hi : f[p] = f[q] => p = q
            <4>1. ASSUME NEW p \in lo..hi, NEW q \in lo..hi, ev[p] = ev[q] PROVE p = q
                <5>1. p \in 1..m /\ q \in 1..m
                    BY <2>3
                <5>2. ~(p < q) /\ ~(q < p)
                    BY <1>12, <4>1, <5>1
                <5> QED BY <1>11, <5>1, <5>2
            <4> QED BY <4>1
        <3> HIDE DEF f
        <3>5. f \in Injection(lo..hi, E)
            BY <3>3, <3>4 DEF Injection, IsInjective
        <3>6. Cardinality(lo..hi) <= Cardinality(E)
            BY <3>1, <3>5, FS_Injection
        <3>7. lo \in Int /\ hi \in Int /\ ~(lo > hi)
            BY <1>11, <2>1
        <3>8. Cardinality(lo..hi) = hi - lo + 1
            BY <3>7, FS_Interval
        <3> QED BY <2>2, <3>6, <3>8, LogCounts DEF E
    <2>5. ASSUME NEW e \in between(lines[i]) PROVE e \in stands(lines[i])
        <3>1. e \in log /\ ev[hi].ts < e.ts /\ e.ts < ev[lo].ts
            BY <2>2, <2>5
        <3>2. Later(e, ev[hi])
            BY <1>2, <1>11, <2>1, <3>1 DEF Later
        <3>3. PICK j \in 1..hi - 1 : ev[j] = e
            BY <1>3, <2>1, <3>1, <3>2 DEF m
        <3>4. j \in 1..m
            BY <1>11, <2>1
        <3>5. ~(j < lo)
            <4>1. j < lo => ev[j].ts >= ev[lo].ts
                BY <1>12, <2>1, <3>4
            <4>2. ev[j].ts \in Int /\ ev[lo].ts \in Int
                BY <1>2, <1>11, <2>1, <3>4
            <4> QED BY <3>1, <3>3, <4>1, <4>2
        <3>6. j \in lo..hi
            BY <1>11, <2>1, <3>4, <3>5
        <3> QED BY <2>3, <3>3, <3>6
    <2>6. ASSUME NEW j \in 1..i - 1 PROVE lines[j].first_ts >= lines[i].ts /\ lines[j].n # lines[i].n
        <3>1. j \in 1..d /\ j < i
            BY <1>9
        <3>2. ix[j] \in 1..c /\ ix[j] < ix[i]
            BY <1>10, <3>1
        <3>3. /\ a[ix[j]] \in 1..m /\ b[ix[j]] \in 1..m /\ a[ix[j]] <= b[ix[j]]
              /\ lines[j] = RowOf(ev, a[ix[j]], b[ix[j]]) /\ b[ix[j]] < lo
            BY <1>7, <1>10, <2>1, <3>1, <3>2 DEF lo
        <3>4. lines[j].first_ts = ev[b[ix[j]]].ts /\ lines[j].n = ev[a[ix[j]]].n
            BY <3>3 DEF RowOf
        <3>5. a[ix[j]] < lo
            BY <1>11, <2>1, <3>3
        <3> QED BY <1>12, <1>13, <2>1, <2>2, <3>3, <3>4, <3>5
    <2> QED BY <2>4, <2>5, <2>6
<1>15. ASSUME NEW e \in log, e.kind = BOOST_KIND, L!Cardinality(L!Newer(e)) < limit * OVERREAD
       PROVE  \E i \in 1..d : lines[i].kind = BOOST_KIND
    <2>1. PICK k \in 1..m : ev[k] = e
        BY <1>3, <1>15 DEF m
    <2>2. PICK r \in 1..c : k \in a[r]..b[r]
        BY <1>7
    <2>3. all[r].kind = BOOST_KIND
        <3>1. all[r] = RowOf(ev, a[r], b[r]) /\ ev[k].kind = ev[a[r]].kind
            BY <1>7, <2>2
        <3> QED BY <1>15, <2>1, <3>1 DEF RowOf
    <2> QED BY <1>9, <2>3 DEF c
<1>16. ev # <<>> => lines # <<>> /\ lines[1].n = ev[1].n
    <2>1. ASSUME ev # <<>> PROVE lines # <<>> /\ lines[1].n = ev[1].n
        <3>1. 1 \in 1..c /\ a[1] = 1 /\ all[1] = RowOf(ev, a[1], b[1])
            BY <1>7, <2>1
        <3>2. all # <<>>
            BY <3>1 DEF c
        <3>3. lines # <<>> /\ lines[1] = all[1]
            BY <1>9, <3>2
        <3> QED BY <3>1, <3>3 DEF RowOf
    <2> QED BY <2>1
<1>17. /\ d <= limit /\ DOMAIN lines = 1..d
       /\ log # {} => lines # <<>>
       /\ \A e \in log : L!Newer(e) = {} => lines[1].n = e.n
    BY <1>3, <1>9, <1>16
<1> HIDE DEF stands, between
<1>18. /\ Len(lines) <= limit
       /\ log # {} => lines # <<>>
       /\ \A i \in DOMAIN lines :
              /\ lines[i].count <= L!Cardinality(stands(lines[i]))
              /\ between(lines[i]) \subseteq stands(lines[i])
              /\ \A j \in 1..i - 1 : lines[j].first_ts >= lines[i].ts /\ lines[j].n # lines[i].n
       /\ \A e \in log :
              /\ e.kind = BOOST_KIND /\ L!Cardinality(L!Newer(e)) < limit * OVERREAD =>
                     \E i \in DOMAIN lines : lines[i].kind = BOOST_KIND
              /\ L!Newer(e) = {} => lines[1].n = e.n
    BY <1>14, <1>15, <1>17
<1> QED BY <1>18 DEF lines, stands, between

-----------------------------------------------------------------------------
(***************************************************************************)
(* Credits.  A run of spending by the numbers of its first and last rise:   *)
(* no other run begins in it, and QuietPolls rows without a rise follow.    *)
(***************************************************************************)
Row == [ts : Int, spent : Nat]

Begins(polls, f, l) ==
    /\ f \in C!FirstRises(polls) /\ l \in C!Rises(polls) /\ f <= l
    /\ \A g \in C!FirstRises(polls) : g <= f \/ l < g

IsRun(polls, f, l) ==
    /\ Begins(polls, f, l)
    /\ \A r \in C!Rises(polls) : r <= l \/ l + QuietPolls < r

RunOf(polls, f, l) == [start |-> polls[f].ts, end |-> polls[l + 1].ts]

IsClosed(polls, k, s) ==
    \E f, l \in C!Rises(polls) : IsRun(polls, f, l) /\ l + QuietPolls <= k /\ s = RunOf(polls, f, l)

IsOpen(polls, k, run, quiet) ==
    \E f, l \in C!Rises(polls) :
        /\ Begins(polls, f, l) /\ l <= k /\ k - l < QuietPolls
        /\ \A r \in C!Rises(polls) : r <= l \/ k < r
        /\ run = RunOf(polls, f, l) /\ quiet = k - l

(* What the pass holds when it has seen k pairs of neighbours. *)
Scanned(polls, k, acc) ==
    /\ \A s : s \in acc.done <=> IsClosed(polls, k, s)
    /\ \/ /\ acc = [open |-> TRUE, quiet |-> acc.quiet, done |-> acc.done, run |-> acc.run]
          /\ IsOpen(polls, k, acc.run, acc.quiet)
       \/ /\ acc = [open |-> FALSE, quiet |-> 0, done |-> acc.done]
          /\ \A r \in C!Rises(polls) : r <= k => QuietPolls <= k - r

LEMMA RisesAre ==
    ASSUME NEW polls \in Seq(Row)
    PROVE  /\ Len(polls) \in Nat
           /\ \A i \in C!Rises(polls) : i \in Nat /\ i >= 1 /\ i < Len(polls)
           /\ \A i \in 1..Len(polls) - 1 : i \in C!Rises(polls) <=> C!Rose(polls, i)
           /\ \A j \in C!Rises(polls) :
                 j \in C!FirstRises(polls) <=> \A i \in C!Rises(polls) : i < j => j - i > QuietPolls
           /\ \A j \in C!FirstRises(polls) : j \in C!Rises(polls)
BY DEF C!Rises, C!FirstRises

LEMMA RowsAre ==
    ASSUME NEW polls \in Seq(Row)
    PROVE  /\ Len(polls) \in Nat /\ DOMAIN polls = 1..Len(polls)
           /\ \A i \in 1..Len(polls) : polls[i] \in Row /\ polls[i].ts \in Int /\ polls[i].spent \in Nat
<1>1. \A i \in 1..Len(polls) : polls[i] \in Row
    OBVIOUS
<1>2. \A r \in Row : r.ts \in Int /\ r.spent \in Nat
    BY DEF Row
<1> QED BY <1>1, <1>2

LEMMA ScanKeeps ==
    ASSUME C!CreditsAssumption, NEW polls \in Seq(Row), NEW i \in 1..Len(polls) - 1,
           NEW acc, Scanned(polls, i - 1, acc)
    PROVE  Scanned(polls, i, C!Scan(polls, acc, i))
<1> DEFINE R == C!Rises(polls)
           F == C!FirstRises(polls)
           next == C!Scan(polls, acc, i)
<1>1. QuietPolls \in Nat /\ QuietPolls >= 1
    BY DEF C!CreditsAssumption
<1>2. i \in Nat /\ i >= 1 /\ i < Len(polls) /\ Len(polls) \in Nat
    BY RisesAre
<1>3. /\ \A r \in R : r \in Nat
      /\ \A j \in R : j \in F <=> \A r \in R : r < j => j - r > QuietPolls
      /\ \A f \in F : f \in R
      /\ i \in R <=> C!Rose(polls, i)
    BY RisesAre
<1>4. IsOpen(polls, i - 1, acc.run, acc.quiet) =>
          \E f, l \in R :
              /\ Begins(polls, f, l) /\ l <= i - 1 /\ i - 1 - l < QuietPolls
              /\ \A r \in R : r <= l \/ i - 1 < r
              /\ acc.run = RunOf(polls, f, l) /\ acc.quiet = i - 1 - l
    BY DEF IsOpen
<1>5. ASSUME NEW f \in R, NEW l \in R
      PROVE  /\ Begins(polls, f, l) <=> f \in F /\ f <= l /\ \A g \in F : g <= f \/ l < g
             /\ IsRun(polls, f, l) <=> Begins(polls, f, l) /\ \A r \in R : r <= l \/ l + QuietPolls < r
    BY DEF Begins, IsRun
<1>6. CASE C!Rose(polls, i)
    <2>1. i \in R
        BY <1>3, <1>6
    <2>2. /\ next = [open |-> TRUE, quiet |-> 0, done |-> acc.done, run |-> next.run]
          /\ next.run = [start |-> IF acc.open THEN acc.run.start ELSE polls[i].ts,
                         end |-> polls[i + 1].ts]
          /\ next.done = acc.done /\ next.quiet = 0
        BY <1>6 DEF C!Scan
    <2>3. ASSUME NEW s PROVE IsClosed(polls, i - 1, s) <=> IsClosed(polls, i, s)
        <3>1. ASSUME NEW f \in R, NEW l \in R, IsRun(polls, f, l), l + QuietPolls <= i
              PROVE  l + QuietPolls <= i - 1
            BY <1>1, <1>2, <1>3, <1>5, <2>1, <3>1
        <3>2. ASSUME NEW l \in R, l + QuietPolls <= i - 1 PROVE l + QuietPolls <= i
            BY <1>1, <1>2, <1>3, <3>2
        <3> QED BY <3>1, <3>2 DEF IsClosed
    <2>4. IsOpen(polls, i, next.run, 0)
        <3>1. CASE acc.open
            <4>1. IsOpen(polls, i - 1, acc.run, acc.quiet)
                BY <3>1 DEF Scanned
            <4>2. PICK f \in R, l \in R :
                      /\ Begins(polls, f, l) /\ l <= i - 1 /\ i - 1 - l < QuietPolls
                      /\ \A r \in R : r <= l \/ i - 1 < r
                      /\ acc.run = RunOf(polls, f, l)
                BY <1>4, <4>1
            <4>3. i \notin F
                BY <1>1, <1>2, <1>3, <2>1, <4>2
            <4>4. Begins(polls, f, i)
                <5>1. f <= i
                    BY <1>2, <1>3, <1>5, <4>2
                <5>2. ASSUME NEW g \in F PROVE g <= f \/ i < g
                    <6>1. g \in R /\ (g <= l \/ i - 1 < g) /\ g # i /\ (g <= f \/ l < g)
                        BY <1>3, <1>5, <4>2, <4>3
                    <6> QED BY <1>2, <1>3, <6>1
                <5> QED BY <1>5, <2>1, <4>2, <5>1, <5>2
            <4>5. next.run = RunOf(polls, f, i)
                BY <2>2, <3>1, <4>2 DEF RunOf
            <4>6. i <= i /\ i - i < QuietPolls /\ 0 = i - i /\ \A r \in R : r <= i \/ i < r
                BY <1>1, <1>2, <1>3
            <4> QED BY <2>1, <4>4, <4>5, <4>6 DEF IsOpen
        <3>2. CASE ~acc.open
            <4>1. \A r \in R : r <= i - 1 => QuietPolls <= i - 1 - r
                BY <3>2 DEF Scanned
            <4>2. i \in F
                BY <1>1, <1>2, <1>3, <2>1, <4>1
            <4>3. Begins(polls, i, i)
                <5>1. \A g \in F : g <= i \/ i < g
                    BY <1>2, <1>3
                <5> QED BY <1>2, <1>5, <2>1, <4>2, <5>1
            <4>4. next.run = RunOf(polls, i, i)
                BY <2>2, <3>2 DEF RunOf
            <4>5. i <= i /\ i - i < QuietPolls /\ 0 = i - i /\ \A r \in R : r <= i \/ i < r
                BY <1>1, <1>2, <1>3
            <4> QED BY <2>1, <4>3, <4>4, <4>5 DEF IsOpen
        <3> QED BY <3>1, <3>2
    <2>5. \A s : s \in next.done <=> IsClosed(polls, i, s)
        BY <2>2, <2>3 DEF Scanned
    <2> QED BY <2>2, <2>4, <2>5 DEF Scanned
<1>7. CASE ~C!Rose(polls, i) /\ ~acc.open
    <2>1. acc = [open |-> FALSE, quiet |-> 0, done |-> acc.done]
        BY <1>7 DEF Scanned
    <2>2. next = [open |-> FALSE, quiet |-> 0, done |-> acc.done] /\ next.done = acc.done
        BY <1>7, <2>1 DEF C!Scan
    <2>3. \A r \in R : r <= i - 1 => QuietPolls <= i - 1 - r
        BY <1>7 DEF Scanned
    <2>4. \A r \in R : r <= i => QuietPolls <= i - r
        BY <1>1, <1>2, <1>3, <1>7, <2>3
    <2>5. ASSUME NEW s PROVE IsClosed(polls, i - 1, s) <=> IsClosed(polls, i, s)
        <3>1. ASSUME NEW l \in R
              PROVE  l + QuietPolls <= i <=> l + QuietPolls <= i - 1
            <4>1. l <= i - 1 => QuietPolls <= i - 1 - l
                BY <2>3
            <4> QED BY <1>1, <1>2, <1>3, <4>1
        <3> QED BY <3>1 DEF IsClosed
    <2>6. \A s : s \in next.done <=> IsClosed(polls, i, s)
        BY <2>2, <2>5 DEF Scanned
    <2> QED BY <2>2, <2>4, <2>6 DEF Scanned
<1>8. CASE ~C!Rose(polls, i) /\ acc.open
    <2>1. /\ acc = [open |-> TRUE, quiet |-> acc.quiet, done |-> acc.done, run |-> acc.run]
          /\ IsOpen(polls, i - 1, acc.run, acc.quiet)
        BY <1>8 DEF Scanned
    <2>2. PICK f \in R, l \in R :
              /\ Begins(polls, f, l) /\ l <= i - 1 /\ i - 1 - l < QuietPolls
              /\ \A r \in R : r <= l \/ i - 1 < r
              /\ acc.run = RunOf(polls, f, l) /\ acc.quiet = i - 1 - l
        BY <1>4, <2>1
    <2>3. i \notin R
        BY <1>3, <1>8
    <2>4. \A r \in R : r <= l \/ i < r
        BY <1>2, <1>3, <2>2, <2>3
    <2>5. acc.quiet + 1 = i - l
        BY <1>2, <1>3, <2>2
    <2>6. CASE acc.quiet + 1 >= QuietPolls
        <3>1. /\ next = [open |-> FALSE, quiet |-> 0, done |-> next.done]
              /\ next.done = acc.done \cup {acc.run}
            BY <1>8, <2>6 DEF C!Scan, C!Ends, C!NoRun
        <3>2. l + QuietPolls = i
            BY <1>1, <1>2, <1>3, <2>2, <2>5, <2>6
        <3>3. IsRun(polls, f, l)
            BY <1>5, <2>2, <2>4, <3>2
        <3>4. ASSUME NEW s PROVE IsClosed(polls, i, s) <=> IsClosed(polls, i - 1, s) \/ s = RunOf(polls, f, l)
            <4>1. ASSUME NEW g \in R, NEW m \in R, IsRun(polls, g, m), m + QuietPolls <= i
                  PROVE  m + QuietPolls <= i - 1 \/ (g = f /\ m = l)
                <5>1. CASE m + QuietPolls = i
                    <6>1. m = l
                        BY <1>1, <1>3, <3>2, <5>1
                    <6>2. g \in F /\ f \in F /\ g <= l /\ f <= l
                          /\ (g <= f \/ l < g) /\ (f <= g \/ l < f)
                        BY <1>5, <2>2, <4>1, <6>1
                    <6> QED BY <1>3, <6>1, <6>2
                <5>2. m \in Nat
                    BY <1>3
                <5>3. m + QuietPolls = i \/ m + QuietPolls <= i - 1
                    BY <1>1, <1>2, <4>1, <5>2
                <5> QED BY <5>1, <5>3
            <4>2. ASSUME NEW m \in R, m + QuietPolls <= i - 1 PROVE m + QuietPolls <= i
                BY <1>1, <1>2, <1>3, <4>2
            <4>3. IsClosed(polls, i, RunOf(polls, f, l))
                <5>1. l + QuietPolls <= i
                    BY <1>2, <3>2
                <5> QED BY <3>3, <5>1 DEF IsClosed
            <4>4. IsClosed(polls, i, s) => IsClosed(polls, i - 1, s) \/ s = RunOf(polls, f, l)
                BY <4>1 DEF IsClosed
            <4>5. IsClosed(polls, i - 1, s) => IsClosed(polls, i, s)
                BY <4>2 DEF IsClosed
            <4> QED BY <4>3, <4>4, <4>5
        <3>5. \A r \in R : r <= i => QuietPolls <= i - r
            BY <1>1, <1>2, <1>3, <2>4, <3>2
        <3>6. \A s : s \in next.done <=> IsClosed(polls, i, s)
            <4>1. \A s : s \in acc.done <=> IsClosed(polls, i - 1, s)
                BY DEF Scanned
            <4> QED BY <2>2, <3>1, <3>4, <4>1
        <3> QED BY <3>1, <3>5, <3>6 DEF Scanned
    <2>7. CASE ~(acc.quiet + 1 >= QuietPolls)
        <3>1. /\ next = [open |-> TRUE, quiet |-> acc.quiet + 1, done |-> acc.done, run |-> acc.run]
              /\ next.done = acc.done /\ next.run = acc.run /\ next.quiet = acc.quiet + 1
            <4>1. next = [acc EXCEPT !.quiet = acc.quiet + 1]
                BY <1>8, <2>7 DEF C!Scan, C!Ends
            <4>2. {"open", "quiet", "done", "run"} = DOMAIN acc /\ acc.open = TRUE
                <5> HIDE DEF next
                <5> QED BY <2>1
            <4>3. DOMAIN next = DOMAIN acc /\ next.quiet = acc.quiet + 1
                  /\ \A x \in DOMAIN acc : x # "quiet" => next[x] = acc[x]
                <5> HIDE DEF next
                <5> QED BY <4>1, <4>2
            <4>4. next = [x \in DOMAIN next |-> next[x]]
                <5> HIDE DEF next
                <5> QED BY <4>1
            <4>5. next.done = acc.done /\ next.run = acc.run /\ next.open = TRUE
                <5> HIDE DEF next
                <5> QED BY <4>2, <4>3
            <4>6. next = [open |-> TRUE, quiet |-> acc.quiet + 1, done |-> acc.done, run |-> acc.run]
                <5> HIDE DEF next
                <5> QED BY <4>2, <4>3, <4>4, <4>5
            <4> HIDE DEF next
            <4> QED BY <4>3, <4>5, <4>6
        <3>2. IsOpen(polls, i, next.run, next.quiet)
            <4>1. l <= i /\ i - l < QuietPolls
                BY <1>1, <1>2, <1>3, <2>2, <2>5, <2>7
            <4> QED BY <2>2, <2>4, <2>5, <3>1, <4>1 DEF IsOpen
        <3>3. ASSUME NEW s PROVE IsClosed(polls, i - 1, s) <=> IsClosed(polls, i, s)
            <4>1. ASSUME NEW g \in R, NEW m \in R, IsRun(polls, g, m)
                  PROVE  m + QuietPolls <= i <=> m + QuietPolls <= i - 1
                <5>1. i - l < QuietPolls /\ (m <= l \/ i < m) /\ (l <= m \/ m + QuietPolls < l)
                    BY <1>1, <1>2, <1>3, <1>5, <2>4, <2>5, <2>7, <4>1
                <5>2. l <= i - 1 /\ m \in Nat /\ l \in Nat
                    BY <1>3, <2>2
                <5> QED BY <1>1, <1>2, <5>1, <5>2
            <4> QED BY <4>1 DEF IsClosed
        <3>4. \A s : s \in next.done <=> IsClosed(polls, i, s)
            BY <3>1, <3>3 DEF Scanned
        <3> QED BY <3>1, <3>2, <3>4 DEF Scanned
    <2> QED BY <2>6, <2>7
<1> QED BY <1>6, <1>7, <1>8
(* The pass is defined at every row. *)
IsPass(polls, pass) ==
    /\ C!Stretches(polls) = IF pass[Len(polls)].open THEN pass[Len(polls)].done \cup {pass[Len(polls)].run}
                           ELSE pass[Len(polls)].done
    /\ \A k \in 0..Len(polls) :
           pass[k] = IF k <= 1 THEN C!NoRun ELSE C!Scan(polls, pass[k - 1], k - 1)

LEMMA PassIs ==
    ASSUME C!CreditsAssumption, NEW polls \in Seq(Row)
    PROVE  \E pass : IsPass(polls, pass)
<1> DEFINE Body(f, k) == IF k <= 1 THEN C!NoRun ELSE C!Scan(polls, f[k - 1], k - 1)
           Fits(n, f) == f = [k \in 0..n |-> Body(f, k)]
           Stuck == {n \in 0..Len(polls) : \A f : ~Fits(n, f)}
<1>1. Stuck = {}
    <2> SUFFICES ASSUME Stuck # {} PROVE FALSE
        OBVIOUS
    <2>1. Stuck \in SUBSET Nat
        OBVIOUS
    <2>2. PICK n \in Stuck : \A m \in Stuck : n <= m
        <3> HIDE DEF Stuck
        <3> QED BY <2>1, LeastThereIs
    <2>3. n \in 0..Len(polls) /\ n \in Nat
        OBVIOUS
    <2>4. CASE n = 0
        <3> DEFINE f == [k \in 0..0 |-> C!NoRun]
        <3>1. f = [k \in 0..0 |-> Body(f, k)]
            OBVIOUS
        <3> QED BY <2>4, <3>1
    <2>5. CASE n # 0
        <3>1. n - 1 \in 0..Len(polls) /\ ~(n <= n - 1)
            BY <2>3, <2>5
        <3>2. n - 1 \notin Stuck
            BY <2>2, <3>1
        <3>3. PICK g : Fits(n - 1, g)
            BY <3>1, <3>2
        <3> DEFINE f == [k \in 0..n |-> IF k = n THEN Body(g, n) ELSE g[k]]
        <3>4. ASSUME NEW k \in 0..n PROVE f[k] = Body(f, k)
            <4>0. k <= 1 \/ (k - 1 \in 0..n /\ k - 1 # n)
                BY <2>3
            <4>1. k <= 1 \/ f[k - 1] = g[k - 1]
                BY <4>0
            <4>2. Body(f, k) = Body(g, k)
                <5> HIDE DEF f
                <5> QED BY <4>1
            <4>3. CASE k = n
                <5>1. f[k] = Body(g, k)
                    BY <4>3
                <5> HIDE DEF f, Body
                <5> QED BY <4>2, <5>1
            <4>4. CASE k # n
                <5>1. k \in 0..n - 1
                    BY <2>3, <4>4
                <5>2. f[k] = g[k] /\ g[k] = Body(g, k)
                    BY <3>3, <4>4, <5>1
                <5> HIDE DEF f, Body
                <5> QED BY <4>2, <5>2
            <4> QED BY <4>3, <4>4
        <3>5. f = [k \in 0..n |-> Body(f, k)]
            <4>1. f = [k \in 0..n |-> f[k]]
                OBVIOUS
            <4> HIDE DEF f, Body
            <4> QED BY <3>4, <4>1
        <3>6. Fits(n, f)
            BY <3>5
        <3> HIDE DEF f, Fits
        <3> QED BY <2>2, <3>6
    <2> QED BY <2>4, <2>5
<1>2. \E f : Fits(Len(polls), f)
    <2>1. Len(polls) \in 0..Len(polls)
        OBVIOUS
    <2> HIDE DEF Fits
    <2> QED BY <1>1, <2>1
<1> DEFINE pass == CHOOSE f : Fits(Len(polls), f)
<1>3. Fits(Len(polls), pass)
    <2> HIDE DEF Fits
    <2> QED BY <1>2
<1>4. C!Stretches(polls) = IF pass[Len(polls)].open THEN pass[Len(polls)].done \cup {pass[Len(polls)].run}
                          ELSE pass[Len(polls)].done
    BY DEF C!Stretches
<1> HIDE DEF pass
<1>5. \A k \in 0..Len(polls) : pass[k] = Body(pass, k)
    BY <1>3
<1>6. IsPass(polls, pass)
    BY <1>4, <1>5 DEF IsPass
<1> QED BY <1>6

(* credits.stretches finds the runs, and nothing else. *)
LEMMA StretchesAre ==
    ASSUME C!CreditsAssumption, NEW polls \in Seq(Row)
    PROVE  \A s : s \in C!Stretches(polls) <=>
               \E f, l \in C!Rises(polls) : IsRun(polls, f, l) /\ s = RunOf(polls, f, l)
<1> DEFINE R == C!Rises(polls)
           n == Len(polls)
<1>0. PICK pass : IsPass(polls, pass)
    BY PassIs, Zenon
<1>1. /\ \A s : s \in C!Stretches(polls) <=> \/ s \in pass[n].done
                                            \/ (pass[n].open /\ s = pass[n].run)
      /\ \A k \in 0..n :
            pass[k] = IF k <= 1 THEN C!NoRun ELSE C!Scan(polls, pass[k - 1], k - 1)
    <2> DEFINE last == pass[Len(polls)]
    <2>1. C!Stretches(polls) = IF last.open THEN last.done \cup {last.run} ELSE last.done
        BY <1>0 DEF IsPass
    <2> HIDE DEF last
    <2>2. \A s : s \in C!Stretches(polls) <=> s \in last.done \/ (last.open /\ s = last.run)
        <3>1. CASE last.open
            BY <2>1, <3>1
        <3>2. CASE ~last.open
            BY <2>1, <3>2
        <3> QED BY <3>1, <3>2
    <2> QED BY <1>0, <2>2 DEF IsPass, last
<1>2. /\ n \in Nat /\ QuietPolls \in Nat /\ QuietPolls >= 1
      /\ \A r \in R : r \in Nat /\ r >= 1 /\ r < n
    BY RisesAre DEF C!CreditsAssumption
<1>3. \A k \in 1..n : Scanned(polls, k - 1, pass[k])
    <2> DEFINE Wrong == {k \in 1..n : ~Scanned(polls, k - 1, pass[k])}
    <2> SUFFICES ASSUME Wrong # {} PROVE FALSE
        OBVIOUS
    <2>1. Wrong \in SUBSET Nat
        OBVIOUS
    <2>2. PICK k \in Wrong : \A j \in Wrong : k <= j
        <3> HIDE DEF Wrong
        <3> QED BY <2>1, LeastThereIs
    <2>3. k \in 1..n /\ ~Scanned(polls, k - 1, pass[k])
        OBVIOUS
    <2>4. CASE k = 1
        <3>1. pass[k] = C!NoRun
            BY <1>1, <1>2, <2>4, <2>3
        <3>2. \A s : ~IsClosed(polls, 0, s)
            BY <1>2 DEF IsClosed
        <3>3. \A r \in R : ~(r <= 0)
            BY <1>2
        <3>4. Scanned(polls, 0, C!NoRun)
            BY <3>2, <3>3 DEF Scanned, C!NoRun
        <3> QED BY <2>3, <2>4, <3>1, <3>4
    <2>5. CASE k # 1
        <3>1. k - 1 \in 1..n /\ k - 1 \in 1..n - 1 /\ ~(k <= k - 1) /\ ~(k <= 1) /\ k \in 0..n
            BY <1>2, <2>3, <2>5
        <3>2. Scanned(polls, (k - 1) - 1, pass[k - 1])
            BY <2>2, <3>1
        <3>3. pass[k] = C!Scan(polls, pass[k - 1], k - 1)
            BY <1>1, <3>1
        <3>4. Scanned(polls, k - 1, pass[k])
            BY <3>1, <3>2, <3>3, ScanKeeps
        <3> QED BY <2>3, <3>4
    <2> QED BY <2>4, <2>5
<1>4. CASE n = 0
    <2>1. R = {}
        BY <1>2, <1>4
    <2>2. pass[n] = C!NoRun
        BY <1>1, <1>4
    <2>3. \A s : s \notin C!Stretches(polls)
        BY <1>1, <2>2 DEF C!NoRun
    <2> QED BY <2>1, <2>3
<1>5. CASE n # 0
    <2>1. n \in 1..n
        BY <1>2, <1>5
    <2>2. Scanned(polls, n - 1, pass[n])
        BY <1>3, <2>1
    <2> DEFINE acc == pass[n]
    <2>3. ASSUME NEW f \in R, NEW l \in R, IsRun(polls, f, l), ~(l + QuietPolls <= n - 1)
          PROVE  acc.open /\ acc.run = RunOf(polls, f, l)
        <3>1. ASSUME ~acc.open PROVE FALSE
            <4>1. l <= n - 1 => QuietPolls <= n - 1 - l
                BY <2>2, <3>1 DEF Scanned
            <4> QED BY <1>2, <2>3, <4>1
        <3>2. IsOpen(polls, n - 1, acc.run, acc.quiet)
            BY <2>2, <3>1 DEF Scanned
        <3>3. PICK g \in R, m \in R :
                  /\ Begins(polls, g, m) /\ n - 1 - m < QuietPolls
                  /\ \A r \in R : r <= m \/ n - 1 < r
                  /\ acc.run = RunOf(polls, g, m)
            BY <3>2 DEF IsOpen
        <3>4. /\ f \in C!FirstRises(polls) /\ f <= l
              /\ \A h \in C!FirstRises(polls) : h <= f \/ l < h
              /\ g \in C!FirstRises(polls) /\ g <= m
              /\ \A h \in C!FirstRises(polls) : h <= g \/ m < h
              /\ \A r \in R : r <= l \/ l + QuietPolls < r
            BY <2>3, <3>3 DEF IsRun, Begins
        <3>5. l = m
            <4>1. l <= m /\ (m <= l \/ l + QuietPolls < m)
                BY <1>2, <3>3, <3>4
            <4> QED BY <1>2, <2>3, <4>1
        <3>6. f = g
            <4>1. (g <= f \/ l < g) /\ (f <= g \/ m < f)
                BY <3>4
            <4> QED BY <1>2, <3>4, <3>5, <4>1
        <3> QED BY <3>1, <3>3, <3>5, <3>6
    <2>4. ASSUME acc.open
          PROVE  \E f, l \in R : IsRun(polls, f, l) /\ acc.run = RunOf(polls, f, l)
        <3>1. IsOpen(polls, n - 1, acc.run, acc.quiet)
            BY <2>2, <2>4 DEF Scanned
        <3>2. PICK g \in R, m \in R :
                  /\ Begins(polls, g, m)
                  /\ \A r \in R : r <= m \/ n - 1 < r
                  /\ acc.run = RunOf(polls, g, m)
            BY <3>1 DEF IsOpen
        <3>3. \A r \in R : r <= m
            BY <1>2, <3>2
        <3>4. IsRun(polls, g, m)
            BY <3>2, <3>3 DEF IsRun
        <3> QED BY <3>2, <3>4
    <2>5. \A s : s \in acc.done <=> IsClosed(polls, n - 1, s)
        BY <2>2 DEF Scanned
    <2>6. \A s : s \in C!Stretches(polls) <=> s \in acc.done \/ (acc.open /\ s = acc.run)
        BY <1>1, Zenon
    <2> HIDE DEF acc
    <2>7. ASSUME NEW s, s \in C!Stretches(polls)
          PROVE  \E f, l \in R : IsRun(polls, f, l) /\ s = RunOf(polls, f, l)
        BY <2>4, <2>5, <2>6, <2>7 DEF IsClosed
    <2>8. ASSUME NEW f \in R, NEW l \in R, IsRun(polls, f, l)
          PROVE  RunOf(polls, f, l) \in C!Stretches(polls)
        <3>1. CASE l + QuietPolls <= n - 1
            BY <2>5, <2>6, <2>8, <3>1 DEF IsClosed
        <3>2. CASE ~(l + QuietPolls <= n - 1)
            BY <2>3, <2>6, <2>8, <3>2
        <3> QED BY <3>1, <3>2
    <2> QED BY <2>7, <2>8
<1> QED BY <1>4, <1>5

(* A first rise begins a run, which reaches as far as no other begins. *)
LEMMA RunFrom ==
    ASSUME C!CreditsAssumption, NEW polls \in Seq(Row), NEW f \in C!FirstRises(polls)
    PROVE  \E l \in C!Rises(polls) :
               IsRun(polls, f, l) /\ \A j \in C!Rises(polls) : Begins(polls, f, j) => j <= l
<1> DEFINE R == C!Rises(polls)
           F == C!FirstRises(polls)
           Covered == {j \in R : Begins(polls, f, j)}
<1>1. QuietPolls \in Nat /\ QuietPolls >= 1 /\ Len(polls) \in Nat
    BY RisesAre DEF C!CreditsAssumption
<1>2. /\ \A r \in R : r \in Nat /\ r < Len(polls)
      /\ \A j \in R : j \in F <=> \A r \in R : r < j => j - r > QuietPolls
      /\ \A g \in F : g \in R
    BY RisesAre
<1>3. \A l \in R : /\ Begins(polls, f, l) <=> f <= l /\ \A g \in F : g <= f \/ l < g
                   /\ IsRun(polls, f, l) <=> Begins(polls, f, l) /\ \A r \in R : r <= l \/ l + QuietPolls < r
    BY DEF Begins, IsRun
<1>4. Covered \in SUBSET (0..Len(polls)) /\ Covered # {}
    <2>1. f \in R /\ f <= f /\ \A g \in F : g <= f \/ f < g
        BY <1>2
    <2>2. f \in Covered
        BY <1>3, <2>1
    <2> QED BY <1>1, <1>2, <2>2
<1>5. PICK l \in Covered : \A j \in Covered : j <= l
    <2> HIDE DEF Covered
    <2> QED BY <1>1, <1>4, LargestThereIs
<1>6. l \in R /\ Begins(polls, f, l) /\ \A j \in R : Begins(polls, f, j) => j <= l
    BY <1>5
<1>7. ASSUME NEW r \in R, ~(r <= l \/ l + QuietPolls < r) PROVE FALSE
    <2> DEFINE Near == {i \in R : l < i /\ i <= l + QuietPolls}
    <2>1. Near \in SUBSET Nat /\ r \in Near
        BY <1>1, <1>2, <1>6, <1>7
    <2>2. PICK i \in Near : \A j \in Near : i <= j
        <3> HIDE DEF Near
        <3> QED BY <2>1, LeastThereIs
    <2>3. i \in R /\ l < i /\ i <= l + QuietPolls
        OBVIOUS
    <2>4. i \notin F
        BY <1>1, <1>2, <1>6, <2>3
    <2>5. ASSUME NEW h \in F PROVE h <= f \/ i < h
        <3>1. h <= f \/ l < h
            BY <1>3, <1>6
        <3>2. ASSUME l < h, ~(i < h) PROVE FALSE
            <4>1. h \in R /\ h # i /\ h <= l + QuietPolls
                BY <1>1, <1>2, <1>6, <2>3, <2>4, <3>2
            <4>2. i <= h
                BY <2>2, <3>2, <4>1
            <4> QED BY <1>2, <2>3, <3>2, <4>1, <4>2
        <3> QED BY <3>1, <3>2
    <2>6. f <= i
        <3>1. f <= l
            BY <1>3, <1>6
        <3> QED BY <1>2, <1>6, <2>3, <3>1
    <2>7. i <= l
        BY <1>3, <1>6, <2>3, <2>5, <2>6
    <2> QED BY <1>2, <1>6, <2>3, <2>7
<1> QED BY <1>3, <1>6, <1>7

(* Runs follow each other: one begins after the last rise of another, and   *)
(* it has one end.                                                         *)
LEMMA RunsApart ==
    ASSUME C!CreditsAssumption, NEW polls \in Seq(Row),
           NEW f \in C!Rises(polls), NEW l \in C!Rises(polls), IsRun(polls, f, l),
           NEW g \in C!Rises(polls), NEW m \in C!Rises(polls), IsRun(polls, g, m)
    PROVE  l < g \/ m < f \/ (f = g /\ l = m)
<1> DEFINE R == C!Rises(polls)
           F == C!FirstRises(polls)
<1>1. QuietPolls \in Nat /\ QuietPolls >= 1
    BY DEF C!CreditsAssumption
<1>2. /\ \A r \in R : r \in Nat
      /\ \A j \in R : j \in F <=> \A r \in R : r < j => j - r > QuietPolls
      /\ \A h \in F : h \in R
    BY RisesAre
<1>3. ASSUME NEW a \in R, NEW b \in R, NEW c \in R, IsRun(polls, a, b), IsRun(polls, a, c) PROVE ~(b < c)
    <2> SUFFICES ASSUME b < c PROVE FALSE
        OBVIOUS
    <2> DEFINE Beyond == {i \in R : b < i}
    <2>1. Beyond \in SUBSET Nat /\ Beyond # {}
        BY <1>2
    <2>2. PICK i \in Beyond : \A j \in Beyond : i <= j
        <3> HIDE DEF Beyond
        <3> QED BY <2>1, LeastThereIs
    <2>3. i \in R /\ b < i /\ i <= c
        BY <2>2
    <2>4. b + QuietPolls < i
        BY <1>2, <1>3, <2>3 DEF IsRun
    <2>5. ASSUME NEW r \in R, r < i PROVE i - r > QuietPolls
        <3>1. ~(b < r)
            <4>1. b < r => i <= r
                BY <2>2
            <4> QED BY <1>2, <2>3, <2>5, <4>1
        <3> QED BY <1>1, <1>2, <2>3, <2>4, <3>1
    <2>6. i \in F
        BY <1>2, <2>3, <2>5
    <2>7. (i <= a \/ c < i) /\ a <= b
        BY <1>3, <2>6 DEF IsRun, Begins
    <2> QED BY <1>2, <2>3, <2>7
<1>4. /\ f \in F /\ f <= l /\ \A h \in F : h <= f \/ l < h
      /\ g \in F /\ g <= m /\ \A h \in F : h <= g \/ m < h
    BY DEF IsRun, Begins
<1>5. (g <= f \/ l < g) /\ (f <= g \/ m < f)
    BY <1>4
<1>6. CASE f = g
    <2>1. ~(l < m) /\ ~(m < l)
        BY <1>3, <1>6
    <2> QED BY <1>2, <1>6, <2>1
<1> QED BY <1>2, <1>5, <1>6

(* Rows in the order of time. *)
Ordered(polls) ==
    \A i, j \in DOMAIN polls : i < j => polls[i].ts < polls[j].ts

SpanOf(polls, t) == \E i, j \in C!Rises(polls) :
    /\ i <= j /\ j - i <= QuietPolls
    /\ polls[i].ts <= t /\ t < polls[j + 1].ts

(* A moment is on credits exactly if it is one of a run. *)
LEMMA RunsSpan ==
    ASSUME C!CreditsAssumption, NEW polls \in Seq(Row), Ordered(polls), NEW t \in Int
    PROVE  SpanOf(polls, t) <=>
               \E f, l \in C!Rises(polls) : IsRun(polls, f, l) /\ polls[f].ts <= t /\ t < polls[l + 1].ts
<1> DEFINE R == C!Rises(polls)
           F == C!FirstRises(polls)
<1>1. QuietPolls \in Nat /\ QuietPolls >= 1 /\ Len(polls) \in Nat
    BY RisesAre DEF C!CreditsAssumption
<1>2. /\ \A r \in R : r \in Nat /\ r >= 1 /\ r < Len(polls)
      /\ \A j \in R : j \in F <=> \A r \in R : r < j => j - r > QuietPolls
      /\ \A h \in F : h \in R
    BY RisesAre
<1>3. \A i \in 1..Len(polls) : polls[i].ts \in Int
    BY RowsAre
<1>4. \A i, j \in 1..Len(polls) : i <= j => polls[i].ts <= polls[j].ts
    <2>1. \A i, j \in 1..Len(polls) : i < j => polls[i].ts < polls[j].ts
        BY DEF Ordered
    <2> QED BY <1>3, <2>1
<1>5. ASSUME NEW i \in R, NEW j \in R, i <= j, j - i <= QuietPolls,
             polls[i].ts <= t, t < polls[j + 1].ts
      PROVE  \E f, l \in R : IsRun(polls, f, l) /\ polls[f].ts <= t /\ t < polls[l + 1].ts
    <2> DEFINE Before == {h \in F : h <= i}
               Early == {h \in R : h <= i}
    <2>1. Before # {}
        <3>1. Early \in SUBSET Nat /\ i \in Early
            BY <1>2
        <3>2. PICK h \in Early : \A r \in Early : h <= r
            <4> HIDE DEF Early
            <4> QED BY <3>1, LeastThereIs
        <3>3. h \in R /\ h <= i
            OBVIOUS
        <3>4. ASSUME NEW r \in R, r < h PROVE FALSE
            <4>1. r <= i
                BY <1>2, <3>3, <3>4
            <4>2. h <= r
                BY <3>2, <4>1
            <4> QED BY <1>2, <3>3, <3>4, <4>2
        <3>5. h \in F
            BY <1>2, <3>3, <3>4
        <3> QED BY <3>3, <3>5
    <2>2. Before \in SUBSET (0..Len(polls))
        BY <1>1, <1>2
    <2>3. PICK f \in Before : \A h \in Before : h <= f
        <3> HIDE DEF Before
        <3> QED BY <1>1, <2>1, <2>2, LargestThereIs
    <2>4. f \in F /\ f \in R /\ f <= i
        BY <1>2
    <2>5. PICK l \in R : IsRun(polls, f, l) /\ \A k \in R : Begins(polls, f, k) => k <= l
        BY <2>4, RunFrom
    <2>6. Begins(polls, f, j)
        <3>1. ASSUME NEW h \in F PROVE h <= f \/ j < h
            <4>1. h \in R /\ (h <= i => h <= f)
                BY <1>2, <2>3
            <4>2. ASSUME i < h, ~(j < h) PROVE FALSE
                <5>1. h - i > QuietPolls
                    BY <1>2, <4>1, <4>2
                <5> QED BY <1>1, <1>2, <1>5, <4>1, <4>2, <5>1
            <4> QED BY <1>2, <4>1, <4>2
        <3>2. f <= j
            BY <1>2, <1>5, <2>4
        <3> QED BY <2>4, <3>1, <3>2 DEF Begins
    <2>7. j <= l
        BY <2>5, <2>6
    <2>8. polls[f].ts <= polls[i].ts /\ polls[j + 1].ts <= polls[l + 1].ts
        <3>1. f \in 1..Len(polls) /\ i \in 1..Len(polls) /\ j + 1 \in 1..Len(polls) /\ l + 1 \in 1..Len(polls)
              /\ f <= i /\ j + 1 <= l + 1
            BY <1>1, <1>2, <2>4, <2>7
        <3> QED BY <1>4, <3>1
    <2>9. polls[f].ts \in Int /\ polls[i].ts \in Int /\ polls[j + 1].ts \in Int /\ polls[l + 1].ts \in Int
        <3>1. f \in 1..Len(polls) /\ i \in 1..Len(polls) /\ j + 1 \in 1..Len(polls) /\ l + 1 \in 1..Len(polls)
            BY <1>1, <1>2, <2>4
        <3> QED BY <1>3, <3>1
    <2>10. polls[f].ts <= t /\ t < polls[l + 1].ts
        BY <1>5, <2>8, <2>9
    <2> QED BY <2>4, <2>5, <2>10
<1>6. ASSUME NEW f \in R, NEW l \in R, IsRun(polls, f, l), polls[f].ts <= t, t < polls[l + 1].ts
      PROVE  SpanOf(polls, t)
    <2> DEFINE Mine == {r \in R : f <= r /\ r <= l /\ polls[r].ts <= t}
    <2>1. f <= l /\ \A h \in F : h <= f \/ l < h
        BY <1>6 DEF IsRun, Begins
    <2>2. Mine \in SUBSET (0..Len(polls)) /\ f \in Mine
        BY <1>1, <1>2, <1>6, <2>1
    <2>3. PICK i \in Mine : \A r \in Mine : r <= i
        <3> HIDE DEF Mine
        <3> QED BY <1>1, <2>2, LargestThereIs
    <2>4. i \in R /\ f <= i /\ i <= l /\ polls[i].ts <= t
        OBVIOUS
    <2>5. CASE i = l
        <3>1. i <= i /\ i - i <= QuietPolls
            BY <1>1, <1>2, <2>4
        <3> QED BY <1>6, <2>4, <2>5, <3>1 DEF SpanOf
    <2>6. CASE i # l
        <3> DEFINE After == {r \in R : i < r}
        <3>1. After \in SUBSET Nat /\ l \in After
            BY <1>2, <2>4, <2>6
        <3>2. PICK j \in After : \A r \in After : j <= r
            <4> HIDE DEF After
            <4> QED BY <3>1, LeastThereIs
        <3>3. j \in R /\ i < j /\ j <= l
            BY <3>1, <3>2
        <3>4. j \notin F
            <4>1. j <= f \/ l < j \/ j \notin F
                BY <2>1
            <4> QED BY <1>2, <2>4, <3>3, <4>1
        <3>5. PICK r \in R : r < j /\ ~(j - r > QuietPolls)
            BY <1>2, <3>3, <3>4
        <3>6. ~(i < r)
            <4>1. i < r => j <= r
                BY <3>2
            <4> QED BY <1>2, <3>3, <3>5, <4>1
        <3>7. i <= j /\ j - i <= QuietPolls
            BY <1>1, <1>2, <2>4, <3>3, <3>5, <3>6
        <3>8. ~(polls[j].ts <= t)
            <4>1. polls[j].ts <= t => j \in Mine
                BY <1>2, <2>4, <3>3
            <4>2. j \in Mine => j <= i
                BY <2>3
            <4> QED BY <1>2, <2>4, <3>3, <4>1, <4>2
        <3>9. t < polls[j + 1].ts
            <4>1. j \in 1..Len(polls) /\ j + 1 \in 1..Len(polls) /\ j <= j + 1
                BY <1>1, <1>2, <3>3
            <4>2. polls[j].ts <= polls[j + 1].ts /\ polls[j].ts \in Int /\ polls[j + 1].ts \in Int
                BY <1>3, <1>4, <4>1
            <4> QED BY <3>8, <4>2
        <3> QED BY <2>4, <3>3, <3>7, <3>9 DEF SpanOf
    <2> QED BY <2>5, <2>6
<1> QED BY <1>5, <1>6 DEF SpanOf

LEMMA CreditCounts == \A N : C!Cardinality(N) = Cardinality(N)
BY DEF C!Cardinality, Cardinality

LEMMA Clipped ==
    ASSUME NEW a \in Int, NEW b \in Int
    PROVE  /\ C!Max({a, b}) = IF a >= b THEN a ELSE b
           /\ C!Min({a, b}) = IF a <= b THEN a ELSE b
<1>1. C!Max({a, b}) \in {a, b} /\ C!Max({a, b}) >= a /\ C!Max({a, b}) >= b
    <2>1. \E x \in {a, b} : \A y \in {a, b} : x >= y
        OBVIOUS
    <2> QED BY <2>1 DEF C!Max
<1>2. C!Min({a, b}) \in {a, b} /\ C!Min({a, b}) <= a /\ C!Min({a, b}) <= b
    <2>1. \E x \in {a, b} : \A y \in {a, b} : x <= y
        OBVIOUS
    <2> QED BY <2>1 DEF C!Min
<1> QED BY <1>1, <1>2

(* The bands of a range are of one run each, hold the moments on credits,   *)
(* and no moment twice.                                                     *)
Tiles(spans, during) ==
    /\ \A t : t \in during <=> \E s \in spans : t \in s.lo..s.hi - 1
    /\ \A r, s \in spans : \A t \in r.lo..r.hi - 1 : t \in s.lo..s.hi - 1 => r = s

LEMMA BandsAre ==
    ASSUME C!CreditsAssumption, NEW polls \in Seq(Row), Ordered(polls), NEW a \in Int, NEW b \in Int,
           NEW spans, spans = C!CreditSpans(C!Stretches(polls), a, b),
           NEW during, \A t : t \in during <=> t \in a..b - 1 /\ SpanOf(polls, t)
    PROVE  Tiles(spans, during)
<1> DEFINE R == C!Rises(polls)
           band(f, l) == [lo |-> C!Max({polls[f].ts, a}), hi |-> C!Min({polls[l + 1].ts, b})]
<1>1. /\ Len(polls) \in Nat
      /\ \A r \in R : r \in Nat /\ r >= 1 /\ r < Len(polls)
      /\ \A i \in 1..Len(polls) : polls[i].ts \in Int
      /\ \A i, j \in 1..Len(polls) : i < j => polls[i].ts < polls[j].ts
    BY RisesAre, RowsAre DEF Ordered
<1>2. \A r \in R : r \in 1..Len(polls) /\ r + 1 \in 1..Len(polls) /\ polls[r].ts \in Int /\ polls[r + 1].ts \in Int
    BY <1>1
<1>3. ASSUME NEW f \in R, NEW l \in R
      PROVE  /\ band(f, l).lo \in Int /\ band(f, l).hi \in Int
             /\ \A t : t \in band(f, l).lo..band(f, l).hi - 1 <=>
                   t \in a..b - 1 /\ polls[f].ts <= t /\ t < polls[l + 1].ts
    <2>1. polls[f].ts \in Int /\ polls[l + 1].ts \in Int
        BY <1>2
    <2>2. /\ band(f, l).lo = IF polls[f].ts >= a THEN polls[f].ts ELSE a
          /\ band(f, l).hi = IF polls[l + 1].ts <= b THEN polls[l + 1].ts ELSE b
        BY <2>1, Clipped
    <2> HIDE DEF band
    <2> QED BY <2>1, <2>2
<1>4. ASSUME NEW s
      PROVE  s \in spans <=> \E f, l \in R : IsRun(polls, f, l) /\ s = band(f, l) /\ s.hi > s.lo
    <2>1. s \in spans <=> /\ s.hi > s.lo
                          /\ \E r \in C!Stretches(polls) : s = [lo |-> C!Max({r.start, a}), hi |-> C!Min({r.end, b})]
        BY Zenon DEF C!CreditSpans
    <2>2. ASSUME NEW r \in C!Stretches(polls), s = [lo |-> C!Max({r.start, a}), hi |-> C!Min({r.end, b})]
          PROVE  \E f, l \in R : IsRun(polls, f, l) /\ s = band(f, l)
        <3>1. PICK f \in R, l \in R : IsRun(polls, f, l) /\ r = RunOf(polls, f, l)
            BY StretchesAre
        <3>2. r.start = polls[f].ts /\ r.end = polls[l + 1].ts
            BY <3>1 DEF RunOf
        <3> QED BY <2>2, <3>1, <3>2
    <2>3. ASSUME NEW f \in R, NEW l \in R, IsRun(polls, f, l), s = band(f, l)
          PROVE  \E r \in C!Stretches(polls) : s = [lo |-> C!Max({r.start, a}), hi |-> C!Min({r.end, b})]
        <3>1. RunOf(polls, f, l) \in C!Stretches(polls)
            BY <2>3, StretchesAre
        <3>2. RunOf(polls, f, l).start = polls[f].ts /\ RunOf(polls, f, l).end = polls[l + 1].ts
            BY DEF RunOf
        <3> QED BY <2>3, <3>1, <3>2
    <2> HIDE DEF band
    <2> QED BY <2>1, <2>2, <2>3
<1> HIDE DEF band
<1>5. ASSUME NEW t, t \in a..b - 1, SpanOf(polls, t) PROVE \E s \in spans : t \in s.lo..s.hi - 1
    <2>1. PICK f \in R, l \in R : IsRun(polls, f, l) /\ polls[f].ts <= t /\ t < polls[l + 1].ts
        BY <1>5, RunsSpan
    <2>2. t \in band(f, l).lo..band(f, l).hi - 1
        BY <1>3, <1>5, <2>1
    <2>3. band(f, l).hi > band(f, l).lo
        BY <1>3, <2>2
    <2>4. band(f, l) \in spans
        BY <1>4, <2>1, <2>3
    <2> QED BY <2>2, <2>4
<1>6. ASSUME NEW s \in spans, NEW t \in s.lo..s.hi - 1 PROVE t \in a..b - 1 /\ SpanOf(polls, t)
    <2>1. PICK f \in R, l \in R : IsRun(polls, f, l) /\ s = band(f, l)
        BY <1>4
    <2>2. t \in a..b - 1 /\ polls[f].ts <= t /\ t < polls[l + 1].ts
        BY <1>3, <2>1
    <2> QED BY <2>1, <2>2, RunsSpan
<1>7. ASSUME NEW r \in spans, NEW s \in spans, NEW t \in r.lo..r.hi - 1, t \in s.lo..s.hi - 1 PROVE r = s
    <2>1. PICK f \in R, l \in R : IsRun(polls, f, l) /\ r = band(f, l)
        BY <1>4
    <2>2. PICK g \in R, m \in R : IsRun(polls, g, m) /\ s = band(g, m)
        BY <1>4
    <2>3. /\ t \in Int /\ polls[f].ts <= t /\ t < polls[l + 1].ts
          /\ polls[g].ts <= t /\ t < polls[m + 1].ts
        BY <1>3, <1>7, <2>1, <2>2
    <2>4. ASSUME NEW i \in R, NEW j \in R, i < j PROVE polls[i + 1].ts <= polls[j].ts
        <3>1. i \in Nat /\ j \in Nat /\ i + 1 \in 1..Len(polls) /\ j \in 1..Len(polls)
            BY <1>1, <1>2
        <3>2. CASE i + 1 = j
            BY <1>2, <3>1, <3>2
        <3>3. CASE i + 1 < j
            <4>1. polls[i + 1].ts < polls[j].ts
                BY <1>1, <3>1, <3>3
            <4> QED BY <1>1, <3>1, <4>1
        <3> QED BY <2>4, <3>1, <3>2, <3>3
    <2>5. ~(l < g) /\ ~(m < f)
        <3>1. ASSUME l < g PROVE FALSE
            <4>1. polls[l + 1].ts <= polls[g].ts
                BY <2>4, <3>1
            <4>2. polls[l + 1].ts \in Int /\ polls[g].ts \in Int
                BY <1>2
            <4> QED BY <2>3, <4>1, <4>2
        <3>2. ASSUME m < f PROVE FALSE
            <4>1. polls[m + 1].ts <= polls[f].ts
                BY <2>4, <3>2
            <4>2. polls[m + 1].ts \in Int /\ polls[f].ts \in Int
                BY <1>2
            <4> QED BY <2>3, <4>1, <4>2
        <3> QED BY <3>1, <3>2
    <2>6. f = g /\ l = m
        BY <2>1, <2>2, <2>5, RunsApart
    <2> QED BY <2>1, <2>2, <2>6
<1> QED BY <1>5, <1>6, <1>7 DEF Tiles

(* Sets of moments of which no two share one: their moments are as many as  *)
(* all of them together.                                                    *)
LEMMA CountedApart ==
    ASSUME NEW spans, NEW during, IsFiniteSet(during), Tiles(spans, during)
    PROVE  Cardinality(UNION {{s} \X (s.lo..s.hi - 1) : s \in spans}) = Cardinality(during)
<1> DEFINE each == UNION {{s} \X (s.lo..s.hi - 1) : s \in spans}
           of(t) == CHOOSE s \in spans : t \in s.lo..s.hi - 1
           map == [t \in during |-> <<of(t), t>>]
<1>0. /\ \A t : t \in during <=> \E s \in spans : t \in s.lo..s.hi - 1
      /\ \A r, s \in spans : \A t \in r.lo..r.hi - 1 : t \in s.lo..s.hi - 1 => r = s
    BY DEF Tiles
<1>1. \A t \in during : of(t) \in spans /\ t \in of(t).lo..of(t).hi - 1
    BY <1>0
<1>2. \A p : p \in each <=> \E s \in spans : \E t \in s.lo..s.hi - 1 : p = <<s, t>>
    OBVIOUS
<1> HIDE DEF of, each
<1>3. map \in [during -> each]
    BY <1>1, <1>2
<1>4. \A t, u \in during : map[t] = map[u] => t = u
    OBVIOUS
<1>5. \A p \in each : \E t \in during : map[t] = p
    <2> SUFFICES ASSUME NEW p \in each PROVE \E t \in during : map[t] = p
        OBVIOUS
    <2>1. PICK s \in spans : \E t \in s.lo..s.hi - 1 : p = <<s, t>>
        BY <1>2
    <2>2. PICK t \in s.lo..s.hi - 1 : p = <<s, t>>
        BY <2>1
    <2>3. t \in during
        BY <1>0, <2>1
    <2>4. of(t) = s
        BY <1>0, <1>1, <2>1, <2>3
    <2>5. map[t] = <<s, t>>
        BY <2>3, <2>4
    <2> QED BY <2>2, <2>3, <2>5
<1> HIDE DEF map
<1>6. map \in Bijection(during, each)
    BY <1>3, <1>4, <1>5, Zenon DEF Bijection, Injection, Surjection, IsInjective
<1>7. ExistsBijection(during, each)
    BY <1>6 DEF ExistsBijection
<1>8. Cardinality(each) = Cardinality(during)
    BY <1>7, FS_Bijection
<1> QED BY <1>8 DEF each

(* The rises of a series add up to what it gained, or to more where it also *)
(* fell.                                                                   *)
Steps(polls) == UNION {{i} \X (polls[i].spent + 1..polls[i + 1].spent) : i \in C!Rises(polls)}
Climbs(polls) == \A i \in 1..Len(polls) - 1 : polls[i].spent <= polls[i + 1].spent

LEMMA StepsAre ==
    ASSUME NEW polls \in Seq(Row)
    PROVE  /\ IsFiniteSet(Steps(polls)) /\ Cardinality(Steps(polls)) \in Nat
           /\ \A p : p \in Steps(polls) <=>
                 \E i \in C!Rises(polls) : \E u \in polls[i].spent + 1..polls[i + 1].spent : p = <<i, u>>
<1> DEFINE R == C!Rises(polls)
           step(i) == {i} \X (polls[i].spent + 1..polls[i + 1].spent)
           all == {step(i) : i \in R}
           of == [i \in R |-> step(i)]
<1>1. Len(polls) \in Nat /\ \A i \in R : i \in 1..Len(polls) /\ i + 1 \in 1..Len(polls)
    BY RisesAre
<1>2. IsFiniteSet(1..Len(polls)) /\ R \in SUBSET (1..Len(polls))
    BY <1>1, FS_Interval
<1>3. IsFiniteSet(R)
    BY <1>2, FS_Subset
<1>4. ASSUME NEW i \in R PROVE IsFiniteSet(step(i))
    <2>1. polls[i].spent + 1 \in Int /\ polls[i + 1].spent \in Int
        BY <1>1, RowsAre
    <2>2. IsFiniteSet(polls[i].spent + 1..polls[i + 1].spent)
        BY <2>1, FS_Interval
    <2> QED BY <2>2, FS_Singleton, FS_Product
<1>5. \A T \in all : IsFiniteSet(T)
    BY <1>4
<1>6. of \in Surjection(R, all)
    BY DEF Surjection
<1>7. IsFiniteSet(all)
    BY <1>3, <1>6, FS_Surjection
<1>8. IsFiniteSet(UNION all)
    <2> HIDE DEF all
    <2> QED BY <1>5, <1>7, FS_UNION
<1>9. Steps(polls) = UNION all
    BY DEF Steps
<1>10. Cardinality(Steps(polls)) \in Nat
    BY <1>8, <1>9, FS_CardinalityType
<1>11. \A p : p \in Steps(polls) <=> \E i \in R : \E u \in polls[i].spent + 1..polls[i + 1].spent : p = <<i, u>>
    BY DEF Steps
<1> QED BY <1>8, <1>9, <1>10, <1>11

LEMMA RisesAddUp ==
    ASSUME NEW polls \in Seq(Row), Len(polls) >= 2
    PROVE  polls[Len(polls)].spent - polls[1].spent <= Cardinality(Steps(polls))
<1> DEFINE n == Len(polls)
           gained == polls[1].spent + 1..polls[n].spent
           of(u) == CHOOSE i \in C!Rises(polls) : polls[i].spent < u /\ u <= polls[i + 1].spent
           map == [u \in gained |-> <<of(u), u>>]
<1>1. n \in Nat /\ n >= 2 /\ \A i \in 1..n : polls[i].spent \in Nat
    BY RowsAre
<1>2. polls[1].spent \in Int /\ polls[n].spent \in Int
    BY <1>1
<1>3. ASSUME NEW u \in gained PROVE \E i \in C!Rises(polls) : polls[i].spent < u /\ u <= polls[i + 1].spent
    <2> DEFINE Above == {j \in 1..n : u <= polls[j].spent}
    <2>1. Above \in SUBSET Nat /\ n \in Above
        BY <1>1, <1>2
    <2>2. PICK j \in Above : \A k \in Above : j <= k
        <3> HIDE DEF Above
        <3> QED BY <2>1, LeastThereIs
    <2>3. j \in 1..n /\ u <= polls[j].spent
        OBVIOUS
    <2>4. j # 1
        BY <1>1, <1>2, <2>3
    <2>5. j - 1 \in 1..n /\ j - 1 \in 1..Len(polls) - 1 /\ ~(j <= j - 1) /\ (j - 1) + 1 = j
        BY <1>1, <2>3, <2>4
    <2>6. ~(u <= polls[j - 1].spent)
        BY <2>2, <2>5
    <2>7. u \in Int /\ polls[j - 1].spent \in Int /\ polls[j].spent \in Int
        BY <1>1, <1>2, <2>3, <2>5
    <2>8. polls[j - 1].spent < u /\ u <= polls[(j - 1) + 1].spent /\ polls[j - 1].spent < polls[(j - 1) + 1].spent
        BY <2>3, <2>5, <2>6, <2>7
    <2>9. j - 1 \in C!Rises(polls)
        BY <2>5, <2>8 DEF C!Rises, C!Rose
    <2> QED BY <2>8, <2>9
<1>4. \A u \in gained : of(u) \in C!Rises(polls) /\ polls[of(u)].spent < u /\ u <= polls[of(u) + 1].spent
    BY <1>3
<1> HIDE DEF of
<1>5. ASSUME NEW u \in gained PROVE <<of(u), u>> \in Steps(polls)
    <2>1. of(u) \in C!Rises(polls) /\ polls[of(u)].spent < u /\ u <= polls[of(u) + 1].spent
        BY <1>4
    <2>2. of(u) \in 1..n /\ of(u) + 1 \in 1..n
        BY <2>1, RisesAre
    <2>3. polls[of(u)].spent \in Int /\ polls[of(u) + 1].spent \in Int /\ u \in Int
        BY <1>1, <1>2, <2>2
    <2>4. u \in polls[of(u)].spent + 1..polls[of(u) + 1].spent
        BY <2>1, <2>3
    <2> QED BY <2>1, <2>4, StepsAre
<1>6. map \in [gained -> Steps(polls)]
    BY <1>5
<1>7. \A t, u \in gained : map[t] = map[u] => t = u
    OBVIOUS
<1> HIDE DEF map
<1>8. map \in Injection(gained, Steps(polls))
    BY <1>6, <1>7, Zenon DEF Injection, IsInjective
<1>9. Cardinality(gained) <= Cardinality(Steps(polls))
    <2> HIDE DEF gained
    <2> QED BY <1>8, StepsAre, FS_Injection
<1>10. Cardinality(gained) = IF polls[1].spent + 1 > polls[n].spent THEN 0
                             ELSE polls[n].spent - (polls[1].spent + 1) + 1
    <2>1. polls[1].spent + 1 \in Int
        BY <1>2
    <2> QED BY <1>2, <2>1, FS_Interval
<1>11. Cardinality(Steps(polls)) \in Nat
    BY StepsAre
<1> HIDE DEF gained
<1> QED BY <1>2, <1>9, <1>10, <1>11

LEMMA ClimbsAre ==
    ASSUME NEW polls \in Seq(Row), Climbs(polls)
    PROVE  \A i, j \in 1..Len(polls) : i <= j => polls[i].spent <= polls[j].spent
<1>1. Len(polls) \in Nat /\ \A i \in 1..Len(polls) : polls[i].spent \in Nat
    BY RowsAre
<1> SUFFICES ASSUME NEW i \in 1..Len(polls), NEW c \in 1..Len(polls), i <= c, ~(polls[i].spent <= polls[c].spent)
             PROVE  FALSE
    OBVIOUS
<1> DEFINE Wrong == {j \in 1..Len(polls) : i <= j /\ ~(polls[i].spent <= polls[j].spent)}
<1>2. Wrong \in SUBSET Nat /\ c \in Wrong
    OBVIOUS
<1>3. PICK j \in Wrong : \A k \in Wrong : j <= k
    <2> HIDE DEF Wrong
    <2> QED BY <1>2, LeastThereIs
<1>4. j \in 1..Len(polls) /\ i <= j /\ ~(polls[i].spent <= polls[j].spent)
    OBVIOUS
<1>5. j # i
    BY <1>1, <1>4
<1>6. j - 1 \in 1..Len(polls) /\ j - 1 \in 1..Len(polls) - 1 /\ i <= j - 1 /\ ~(j <= j - 1) /\ (j - 1) + 1 = j
    BY <1>1, <1>4, <1>5
<1>7. polls[i].spent <= polls[j - 1].spent
    BY <1>3, <1>6
<1>8. polls[j - 1].spent <= polls[(j - 1) + 1].spent
    BY <1>6 DEF Climbs
<1>9. polls[i].spent \in Int /\ polls[j].spent \in Int /\ polls[j - 1].spent \in Int
    BY <1>1, <1>4, <1>6
<1>10. polls[j - 1].spent <= polls[j].spent
    BY <1>6, <1>8
<1> QED BY <1>4, <1>7, <1>9, <1>10

LEMMA RisesAddUpExactly ==
    ASSUME NEW polls \in Seq(Row), Len(polls) >= 2, Climbs(polls)
    PROVE  /\ Cardinality(Steps(polls)) <= polls[Len(polls)].spent - polls[1].spent
           /\ polls[1].spent <= polls[Len(polls)].spent
<1> DEFINE n == Len(polls)
           gained == polls[1].spent + 1..polls[n].spent
           map == [p \in Steps(polls) |-> p[2]]
<1>1. n \in Nat /\ n >= 2 /\ \A i \in 1..n : polls[i].spent \in Nat
    BY RowsAre
<1>2. polls[1].spent \in Int /\ polls[n].spent \in Int /\ polls[1].spent <= polls[n].spent
    BY <1>1, ClimbsAre
<1>3. ASSUME NEW p \in Steps(polls)
      PROVE  /\ p[1] \in C!Rises(polls) /\ p = <<p[1], p[2]>> /\ p[2] \in gained
             /\ polls[p[1]].spent < p[2] /\ p[2] <= polls[p[1] + 1].spent
    <2>1. PICK i \in C!Rises(polls) : \E u \in polls[i].spent + 1..polls[i + 1].spent : p = <<i, u>>
        BY StepsAre
    <2>2. PICK u \in polls[i].spent + 1..polls[i + 1].spent : p = <<i, u>>
        BY <2>1
    <2>3. i \in 1..n /\ i + 1 \in 1..n /\ 1 <= i /\ i + 1 <= n
        BY RisesAre
    <2>4. polls[i].spent \in Int /\ polls[i + 1].spent \in Int /\ u \in Int
        BY <1>1, <2>3
    <2>5. polls[1].spent <= polls[i].spent /\ polls[i + 1].spent <= polls[n].spent
        BY <1>1, <2>3, ClimbsAre
    <2>6. polls[i].spent < u /\ u <= polls[i + 1].spent
        BY <2>4
    <2>7. u \in gained
        BY <1>2, <2>4, <2>5, <2>6
    <2>8. p[1] = i /\ p[2] = u
        BY <2>2
    <2> HIDE DEF gained
    <2> QED BY <2>2, <2>6, <2>7, <2>8
<1>4. map \in [Steps(polls) -> gained]
    <2> HIDE DEF gained
    <2> QED BY <1>3
<1>5. ASSUME NEW p \in Steps(polls), NEW q \in Steps(polls), p[2] = q[2], p[1] < q[1] PROVE FALSE
    <2>1. /\ p[1] \in C!Rises(polls) /\ q[1] \in C!Rises(polls)
          /\ p[2] \in gained
          /\ p[2] <= polls[p[1] + 1].spent /\ polls[q[1]].spent < q[2]
        BY <1>3
    <2>2. p[1] + 1 \in 1..n /\ q[1] \in 1..n /\ p[1] + 1 <= q[1]
        BY <1>5, <2>1, RisesAre
    <2>3. polls[p[1] + 1].spent <= polls[q[1]].spent
        BY <2>2, ClimbsAre
    <2>4. polls[p[1] + 1].spent \in Int /\ polls[q[1]].spent \in Int /\ p[2] \in Int
        BY <1>1, <1>2, <2>1, <2>2
    <2> QED BY <1>5, <2>1, <2>3, <2>4
<1>6. ASSUME NEW p \in Steps(polls), NEW q \in Steps(polls), p[2] = q[2] PROVE p = q
    <2>1. p[1] \in Nat /\ q[1] \in Nat
        BY <1>3, RisesAre
    <2>2. p[1] = q[1]
        BY <1>5, <1>6, <2>1
    <2> QED BY <1>3, <1>6, <2>2, Zenon
<1>7. \A p, q \in Steps(polls) : map[p] = map[q] => p = q
    BY <1>6
<1> HIDE DEF map
<1>8. map \in Injection(Steps(polls), gained)
    BY <1>4, <1>7, Zenon DEF Injection, IsInjective
<1>9. IsFiniteSet(gained) /\ Cardinality(gained) = IF polls[1].spent + 1 > polls[n].spent THEN 0
                             ELSE polls[n].spent - (polls[1].spent + 1) + 1
    <2>1. polls[1].spent + 1 \in Int
        BY <1>2
    <2> QED BY <1>2, <2>1, FS_Interval
<1>10. Cardinality(Steps(polls)) <= Cardinality(gained)
    <2> HIDE DEF gained
    <2> QED BY <1>8, <1>9, FS_Injection
<1>11. Cardinality(Steps(polls)) \in Nat
    BY StepsAre
<1> HIDE DEF gained
<1> QED BY <1>2, <1>9, <1>10, <1>11

LEMMA SeriesIs ==
    ASSUME overage \in Seq(Row), NEW a \in Int, NEW b \in Int
    PROVE  C!OverageSeries(a, b) \in Seq(Row)
<1> DEFINE inside == {i \in DOMAIN overage : a <= overage[i].ts /\ overage[i].ts <= b}
<1>1. Len(overage) \in Nat /\ DOMAIN overage = 1..Len(overage)
    BY RowsAre
<1>2. inside \in SUBSET (0..Len(overage)) /\ inside \in SUBSET Nat /\ inside \in SUBSET (1..Len(overage))
    BY <1>1
<1>3. C!OverageSeries(a, b) = IF inside = {} THEN <<>> ELSE SubSeq(overage, C!Min(inside), C!Max(inside))
    BY DEF C!OverageSeries
<1> HIDE DEF inside
<1>4. CASE inside # {}
    <2>1. PICK x \in inside : \A y \in inside : x <= y
        BY <1>2, <1>4, LeastThereIs
    <2>2. PICK z \in inside : \A y \in inside : y <= z
        BY <1>1, <1>2, <1>4, LargestThereIs
    <2>3. C!Min(inside) \in inside
        BY <2>1 DEF C!Min
    <2>4. C!Max(inside) \in inside
        <3>1. \A y \in inside : z >= y
            BY <1>2, <2>2
        <3> QED BY <3>1 DEF C!Max
    <2>5. C!Min(inside) \in 1..Len(overage) /\ C!Max(inside) \in 1..Len(overage)
        BY <1>2, <2>3, <2>4
    <2>6. SubSeq(overage, C!Min(inside), C!Max(inside)) \in Seq(Row)
        BY <1>1, <2>5
    <2> QED BY <1>3, <1>4, <2>6
<1>5. CASE inside = {}
    BY <1>3, <1>5
<1> QED BY <1>4, <1>5

LEMMA MeasuredIs ==
    ASSUME C!CreditsAssumption, overage \in Seq(Row), Ordered(overage), now \in Nat
    PROVE  C!SpendingIsMeasured
<1> SUFFICES ASSUME NEW start \in 0..now, NEW end \in 0..now
             PROVE  LET spans  == C!CreditSpans(C!Stretches(overage), start, end)
                        during == {t \in start..end - 1 : C!OnCredits(t)}
                        inside == C!OverageSeries(start, end)
                    IN  /\ during = UNION {s.lo..s.hi - 1 : s \in spans}
                        /\ C!SecondsOnCredits(C!Stretches(overage), start, end) = C!Cardinality(during)
                        /\ C!SpentInRange(start, end) <= C!Cardinality(Steps(inside))
                        /\ Climbs(inside) => C!SpentInRange(start, end) = C!Cardinality(Steps(inside))
    BY DEF C!SpendingIsMeasured, Steps, Climbs
<1> DEFINE spans  == C!CreditSpans(C!Stretches(overage), start, end)
           during == {t \in start..end - 1 : C!OnCredits(t)}
           inside == C!OverageSeries(start, end)
<1>1. start \in Int /\ end \in Int
    OBVIOUS
<1>2. \A t : t \in during <=> t \in start..end - 1 /\ SpanOf(overage, t)
    BY DEF C!OnCredits, SpanOf
<1>3. IsFiniteSet(during)
    <2>1. IsFiniteSet(start..end - 1)
        BY <1>1, FS_Interval
    <2>2. during \in SUBSET (start..end - 1)
        OBVIOUS
    <2> QED BY <2>1, <2>2, FS_Subset
<1> HIDE DEF during
<1>4. Tiles(spans, during)
    <2>1. spans = C!CreditSpans(C!Stretches(overage), start, end)
        OBVIOUS
    <2> HIDE DEF spans
    <2> QED BY <1>1, <1>2, <2>1, BandsAre
<1>5. C!SecondsOnCredits(C!Stretches(overage), start, end)
          = Cardinality(UNION {{s} \X (s.lo..s.hi - 1) : s \in spans})
    BY CreditCounts DEF C!SecondsOnCredits
<1> HIDE DEF spans
<1>6. during = UNION {s.lo..s.hi - 1 : s \in spans}
    BY <1>4 DEF Tiles
<1>7. C!SecondsOnCredits(C!Stretches(overage), start, end) = C!Cardinality(during)
    BY <1>3, <1>4, <1>5, CountedApart, CreditCounts
<1>8. inside \in Seq(Row)
    BY <1>1, SeriesIs
<1>9. C!SpentInRange(start, end) = IF Len(inside) < 2 THEN 0
                                   ELSE C!Max({0, inside[Len(inside)].spent - inside[1].spent})
    BY DEF C!SpentInRange, C!Last
<1> HIDE DEF inside
<1>10. Len(inside) \in Nat /\ Cardinality(Steps(inside)) \in Nat
    BY <1>8, StepsAre, RowsAre
<1>11. CASE Len(inside) < 2
    <2>1. C!Rises(inside) = {}
        BY <1>8, <1>10, <1>11, RisesAre
    <2>2. Steps(inside) = {}
        BY <2>1 DEF Steps
    <2>3. Cardinality(Steps(inside)) = 0
        BY <2>2, FS_EmptySet
    <2> QED BY <1>6, <1>7, <1>9, <1>11, <2>3, CreditCounts DEF spans, during, inside
<1>12. CASE Len(inside) >= 2
    <2> DEFINE first == inside[1].spent
               last == inside[Len(inside)].spent
    <2>1. first \in Nat /\ last \in Nat
        BY <1>8, <1>10, <1>12, RowsAre
    <2>2. C!Max({0, last - first}) = IF 0 >= last - first THEN 0 ELSE last - first
        BY <2>1, Clipped
    <2>3. last - first <= Cardinality(Steps(inside))
        BY <1>8, <1>12, RisesAddUp
    <2>4. Climbs(inside) => Cardinality(Steps(inside)) <= last - first /\ first <= last
        BY <1>8, <1>12, RisesAddUpExactly
    <2>5. C!SpentInRange(start, end) = C!Max({0, last - first})
        BY <1>9, <1>10, <1>12
    <2> HIDE DEF first, last
    <2>6. /\ C!SpentInRange(start, end) <= Cardinality(Steps(inside))
          /\ Climbs(inside) => C!SpentInRange(start, end) = Cardinality(Steps(inside))
        BY <1>10, <2>1, <2>2, <2>3, <2>4, <2>5
    <2> QED BY <1>6, <1>7, <2>6, CreditCounts DEF spans, during, inside
<1> QED BY <1>10, <1>11, <1>12

LEMMA SameRows ==
    ASSUME NEW E, NEW s \in Seq(E), NEW t \in Seq(E), Len(s) = Len(t),
           \A i \in 1..Len(s) : s[i] = t[i]
    PROVE  s = t
OBVIOUS

(* The first k rows are older than a moment, and no other. *)
OlderAre(polls, c, k) ==
    /\ k \in 0..Len(polls)
    /\ \A i \in 1..Len(polls) : polls[i].ts < c <=> i <= k

LEMMA SinceIs ==
    ASSUME NEW polls \in Seq(Row), Ordered(polls), NEW c \in Int
    PROVE  /\ \E k \in 0..Len(polls) : OlderAre(polls, c, k)
           /\ \A k \in Nat : OlderAre(polls, c, k) => C!Since(polls, c) = SubSeq(polls, k + 1, Len(polls))
<1> DEFINE n == Len(polls)
           young == {i \in DOMAIN polls : polls[i].ts >= c} \cup {n + 1}
<1>1. /\ n \in Nat /\ DOMAIN polls = 1..n
      /\ \A i \in 1..n : polls[i].ts \in Int
      /\ \A i, j \in 1..n : i < j => polls[i].ts < polls[j].ts
    BY RowsAre DEF Ordered
<1>2. young \in SUBSET Nat /\ n + 1 \in young /\ young \in SUBSET (1..n + 1)
    BY <1>1
<1>3. C!Since(polls, c) = SubSeq(polls, C!Min(young), n)
    BY DEF C!Since
<1>4. \A i \in 1..n : i \in young <=> polls[i].ts >= c
    BY <1>1
<1> HIDE DEF young
<1>5. PICK m \in young : \A i \in young : m <= i
    BY <1>2, LeastThereIs
<1>6. C!Min(young) \in young /\ \A i \in young : C!Min(young) <= i
    BY <1>5 DEF C!Min
<1>7. m - 1 \in 0..n
    BY <1>1, <1>2, <1>5
<1>8. ASSUME NEW i \in 1..n PROVE polls[i].ts < c <=> i <= m - 1
    <2>0. m \in 1..n + 1 /\ polls[i].ts \in Int /\ i \in Int
        BY <1>1, <1>2
    <2>1. ASSUME polls[i].ts >= c PROVE m <= i
        BY <1>4, <1>5, <2>1
    <2>2. ASSUME m <= i PROVE polls[i].ts >= c
        <3>1. m \in 1..n
            BY <1>1, <2>0, <2>2
        <3>2. polls[m].ts >= c
            BY <1>4, <1>5, <3>1
        <3>3. polls[m].ts <= polls[i].ts
            BY <1>1, <2>0, <2>2, <3>1
        <3> QED BY <1>1, <2>0, <3>1, <3>2, <3>3
    <2> QED BY <1>1, <2>0, <2>1, <2>2
<1>9. OlderAre(polls, c, m - 1)
    BY <1>7, <1>8 DEF OlderAre
<1>10. ASSUME NEW k \in Nat, OlderAre(polls, c, k) PROVE C!Min(young) = k + 1
    <2>1. k \in 0..n /\ \A i \in 1..n : polls[i].ts < c <=> i <= k
        BY <1>10 DEF OlderAre
    <2>2. k + 1 \in young
        <3>1. CASE k = n
            BY <1>2, <3>1
        <3>2. CASE k # n
            <4>1. k \in 0..n /\ n \in Nat
                BY <1>1, <2>1
            <4>2. k + 1 \in 1..n /\ ~(k + 1 <= k)
                BY <3>2, <4>1
            <4>3. ~(polls[k + 1].ts < c) /\ polls[k + 1].ts \in Int
                BY <1>1, <2>1, <4>2
            <4>4. polls[k + 1].ts >= c
                BY <4>3
            <4> QED BY <1>4, <4>2, <4>4
        <3> QED BY <3>1, <3>2
    <2>3. ASSUME NEW i \in young PROVE k + 1 <= i
        <3>1. i \in 1..n + 1
            BY <1>2
        <3>2. CASE i = n + 1
            BY <1>1, <2>1, <3>2
        <3>3. CASE i # n + 1
            <4>1. i \in 1..n
                BY <1>1, <3>1, <3>3
            <4>2. ~(i <= k)
                BY <1>1, <1>4, <2>1, <4>1
            <4> QED BY <1>1, <2>1, <4>1, <4>2
        <3> QED BY <3>2, <3>3
    <2>4. C!Min(young) <= k + 1 /\ k + 1 <= C!Min(young) /\ C!Min(young) \in Nat
        BY <1>2, <1>6, <2>2, <2>3
    <2> QED BY <2>4
<1> QED BY <1>3, <1>7, <1>9, <1>10

LEMMA SuffixIs ==
    ASSUME NEW polls \in Seq(Row), NEW k \in 0..Len(polls)
    PROVE  LET rest == SubSeq(polls, k + 1, Len(polls)) IN
           /\ rest \in Seq(Row) /\ Len(rest) = Len(polls) - k
           /\ \A i \in 1..Len(polls) - k : rest[i] = polls[i + k]
OBVIOUS

LEMMA SinceKeepsOrder ==
    ASSUME NEW polls \in Seq(Row), Ordered(polls), NEW c \in Int
    PROVE  /\ C!Since(polls, c) \in Seq(Row) /\ Ordered(C!Since(polls, c))
           /\ Len(C!Since(polls, c)) <= Len(polls)
           /\ \A i \in 1..Len(C!Since(polls, c)) : \E j \in 1..Len(polls) : C!Since(polls, c)[i] = polls[j]
<1>1. PICK k \in 0..Len(polls) : C!Since(polls, c) = SubSeq(polls, k + 1, Len(polls))
    <2>1. PICK k \in 0..Len(polls) : OlderAre(polls, c, k)
        BY SinceIs
    <2>2. k \in Nat
        OBVIOUS
    <2>3. C!Since(polls, c) = SubSeq(polls, k + 1, Len(polls))
        BY <2>1, <2>2, SinceIs
    <2> QED BY <2>3
<1>2. Len(polls) \in Nat /\ DOMAIN polls = 1..Len(polls)
    BY RowsAre
<1>3. /\ C!Since(polls, c) \in Seq(Row) /\ Len(C!Since(polls, c)) = Len(polls) - k
      /\ \A i \in 1..Len(polls) - k : C!Since(polls, c)[i] = polls[i + k]
    BY <1>1, SuffixIs
<1>4. \A i \in 1..Len(polls) - k : i + k \in 1..Len(polls)
    BY <1>2
<1>5. Ordered(C!Since(polls, c))
    <2>1. DOMAIN C!Since(polls, c) = 1..Len(polls) - k
        BY <1>3, RowsAre
    <2>2. ASSUME NEW i \in 1..Len(polls) - k, NEW j \in 1..Len(polls) - k, i < j
          PROVE  C!Since(polls, c)[i].ts < C!Since(polls, c)[j].ts
        <3>1. i + k < j + k /\ i + k \in DOMAIN polls /\ j + k \in DOMAIN polls
            BY <1>2, <1>4, <2>2
        <3> QED BY <1>3, <3>1 DEF Ordered
    <2> QED BY <2>1, <2>2 DEF Ordered
<1> QED BY <1>2, <1>3, <1>4, <1>5

(* A row added later is kept by every prune that went before. *)
LEMMA SinceGrows ==
    ASSUME NEW polls \in Seq(Row), NEW r \in Row, NEW more, more = Append(polls, r),
           Ordered(polls), Ordered(more), NEW c \in Int, c <= r.ts
    PROVE  C!Since(more, c) = Append(C!Since(polls, c), r)
<1> DEFINE n == Len(polls)
<1>1. n \in Nat /\ \A i \in 1..n : polls[i].ts \in Int
    BY RowsAre
<1>2. more \in Seq(Row) /\ Len(more) = n + 1 /\ more[n + 1] = r /\ \A i \in 1..n : more[i] = polls[i]
    OBVIOUS
<1>3. PICK k \in 0..n : OlderAre(polls, c, k)
    BY SinceIs
<1>4. k \in Nat /\ \A i \in 1..n : polls[i].ts < c <=> i <= k
    BY <1>3 DEF OlderAre
<1>5. r.ts \in Int
    BY DEF Row
<1>6. OlderAre(more, c, k)
    <2>1. k \in 0..n + 1
        BY <1>1
    <2>2. ASSUME NEW i \in 1..n + 1 PROVE more[i].ts < c <=> i <= k
        <3>1. CASE i = n + 1
            <4>1. more[i].ts = r.ts
                BY <1>2, <3>1
            <4> QED BY <1>1, <1>5, <3>1, <4>1
        <3>2. CASE i # n + 1
            BY <1>1, <1>2, <1>4, <3>2
        <3> QED BY <3>1, <3>2
    <2> QED BY <1>2, <2>1, <2>2 DEF OlderAre
<1>7. C!Since(more, c) = SubSeq(more, k + 1, n + 1) /\ C!Since(polls, c) = SubSeq(polls, k + 1, n)
    BY <1>2, <1>3, <1>4, <1>6, SinceIs
<1>8. /\ C!Since(polls, c) \in Seq(Row) /\ Len(C!Since(polls, c)) = n - k
      /\ \A i \in 1..n - k : C!Since(polls, c)[i] = polls[i + k]
    BY <1>7, SuffixIs
<1>9. /\ C!Since(more, c) \in Seq(Row) /\ Len(C!Since(more, c)) = n + 1 - k
      /\ \A i \in 1..n + 1 - k : C!Since(more, c)[i] = more[i + k]
    <2>1. k \in 0..Len(more)
        BY <1>1, <1>2
    <2> DEFINE rest == SubSeq(more, k + 1, Len(more))
    <2>2. /\ rest \in Seq(Row) /\ Len(rest) = Len(more) - k
          /\ \A i \in 1..Len(more) - k : rest[i] = more[i + k]
        BY <1>2, <2>1, SuffixIs
    <2>3. C!Since(more, c) = rest
        BY <1>2, <1>7
    <2> HIDE DEF rest
    <2> QED BY <1>2, <2>2, <2>3
<1> DEFINE new == Append(C!Since(polls, c), r)
<1>10. /\ new \in Seq(Row) /\ Len(new) = n + 1 - k /\ new[n + 1 - k] = r
       /\ \A i \in 1..n - k : new[i] = C!Since(polls, c)[i]
    BY <1>1, <1>8
<1> HIDE DEF new
<1>11. ASSUME NEW i \in 1..n + 1 - k PROVE C!Since(more, c)[i] = new[i]
    <2>1. CASE i = n + 1 - k
        <3>1. i + k = n + 1
            BY <1>1, <2>1
        <3> QED BY <1>2, <1>9, <1>10, <2>1, <3>1
    <2>2. CASE i # n + 1 - k
        <3>1. i \in 1..n - k /\ i + k \in 1..n
            BY <1>1, <2>2
        <3> QED BY <1>2, <1>8, <1>9, <1>10, <3>1
    <2> QED BY <2>1, <2>2
<1>12. C!Since(more, c) = new
    BY <1>9, <1>10, <1>11, SameRows
<1> QED BY <1>12 DEF new

(* A prune of what another left is a prune of all. *)
LEMMA SinceAgain ==
    ASSUME NEW polls \in Seq(Row), Ordered(polls), NEW c \in Int, NEW d \in Int,
           C!Since(C!Since(polls, c), d) # C!Since(polls, c)
    PROVE  C!Since(C!Since(polls, c), d) = C!Since(polls, d)
<1> DEFINE n == Len(polls)
           some == C!Since(polls, c)
<1>1. n \in Nat /\ \A i \in 1..n : polls[i].ts \in Int
    BY RowsAre
<1>2. PICK k \in 0..n : OlderAre(polls, c, k)
    BY SinceIs
<1>3. k \in Nat /\ \A i \in 1..n : polls[i].ts < c <=> i <= k
    BY <1>2 DEF OlderAre
<1>4. some = SubSeq(polls, k + 1, n)
    BY <1>2, <1>3, SinceIs
<1>5. /\ some \in Seq(Row) /\ Ordered(some) /\ Len(some) = n - k
      /\ \A i \in 1..n - k : some[i] = polls[i + k]
    <2>1. Ordered(some)
        BY SinceKeepsOrder
    <2> QED BY <1>4, <2>1, SuffixIs
<1> HIDE DEF some
<1>6. PICK m \in 0..Len(some) : OlderAre(some, d, m)
    BY <1>5, SinceIs
<1>7. m \in Nat /\ m <= n - k /\ \A i \in 1..n - k : some[i].ts < d <=> i <= m
    BY <1>1, <1>5, <1>6 DEF OlderAre
<1>8. C!Since(some, d) = SubSeq(some, m + 1, n - k)
    BY <1>5, <1>6, <1>7, SinceIs
<1>9. /\ C!Since(some, d) \in Seq(Row) /\ Len(C!Since(some, d)) = n - k - m
      /\ \A i \in 1..n - k - m : C!Since(some, d)[i] = some[i + m]
    <2>1. Len(some) = n - k /\ some \in Seq(Row) /\ m \in 0..Len(some)
        BY <1>5, <1>6
    <2>2. C!Since(some, d) = SubSeq(some, m + 1, Len(some))
        BY <1>8, <2>1
    <2>3. /\ C!Since(some, d) \in Seq(Row) /\ Len(C!Since(some, d)) = Len(some) - m
          /\ \A i \in 1..Len(some) - m : C!Since(some, d)[i] = some[i + m]
        BY <2>1, <2>2, SuffixIs
    <2> QED BY <2>1, <2>3
<1>10. m # 0
    <2> SUFFICES ASSUME m = 0 PROVE FALSE
        OBVIOUS
    <2>1. Len(C!Since(some, d)) = Len(some) /\ \A i \in 1..Len(some) : C!Since(some, d)[i] = some[i]
        BY <1>1, <1>5, <1>9
    <2>2. C!Since(some, d) = some
        BY <1>5, <1>9, <2>1, SameRows
    <2> QED BY <2>2 DEF some
<1>11. c < d
    <2>1. 1 \in 1..n - k /\ 1 + k \in 1..n /\ ~(1 + k <= k)
        BY <1>1, <1>3, <1>7, <1>10
    <2>2. some[1].ts < d /\ some[1] = polls[1 + k]
        BY <1>3, <1>5, <1>7, <1>10, <2>1
    <2>3. ~(polls[1 + k].ts < c) /\ polls[1 + k].ts \in Int
        BY <1>1, <1>3, <2>1
    <2> QED BY <2>2, <2>3
<1>12. OlderAre(polls, d, k + m)
    <2>1. k + m \in 0..n
        BY <1>1, <1>3, <1>7
    <2>2. ASSUME NEW i \in 1..n PROVE polls[i].ts < d <=> i <= k + m
        <3>1. CASE i <= k
            <4>1. polls[i].ts < c /\ polls[i].ts \in Int
                BY <1>1, <1>3, <3>1
            <4> QED BY <1>3, <1>7, <1>11, <3>1, <4>1
        <3>2. CASE ~(i <= k)
            <4>1. i - k \in 1..n - k /\ (i - k) + k = i
                BY <1>1, <1>3, <3>2
            <4>2. some[i - k] = polls[i]
                BY <1>5, <4>1
            <4>3. some[i - k].ts < d <=> i - k <= m
                BY <1>7, <4>1
            <4> QED BY <1>1, <1>3, <1>7, <4>1, <4>2, <4>3
        <3> QED BY <3>1, <3>2
    <2> QED BY <2>1, <2>2 DEF OlderAre
<1>13. C!Since(polls, d) = SubSeq(polls, k + m + 1, n)
    <2>1. k + m \in Nat
        BY <1>3, <1>7
    <2> QED BY <1>12, <2>1, SinceIs
<1>14. /\ C!Since(polls, d) \in Seq(Row) /\ Len(C!Since(polls, d)) = n - (k + m)
       /\ \A i \in 1..n - (k + m) : C!Since(polls, d)[i] = polls[i + (k + m)]
    <2>1. k + m \in 0..n
        BY <1>12 DEF OlderAre
    <2> QED BY <1>13, <2>1, SuffixIs
<1>15. ASSUME NEW i \in 1..n - (k + m) PROVE C!Since(polls, d)[i] = C!Since(some, d)[i]
    <2>1. i \in 1..n - k - m /\ i + m \in 1..n - k /\ (i + m) + k = i + (k + m)
        BY <1>1, <1>3, <1>7
    <2> QED BY <1>5, <1>9, <1>14, <2>1
<1>16. n - (k + m) = n - k - m
    BY <1>1, <1>3, <1>7
<1>17. C!Since(some, d) = C!Since(polls, d)
    BY <1>9, <1>14, <1>15, <1>16, SameRows
<1> QED BY <1>17 DEF some

(* The runs of a series stay where they began when a row is added. *)
LEMMA FirstRisesStay ==
    ASSUME NEW polls \in Seq(Row), NEW r \in Row, NEW f \in C!FirstRises(polls)
    PROVE  f \in C!FirstRises(Append(polls, r)) /\ Append(polls, r)[f] = polls[f]
<1> DEFINE n == Len(polls)
           more == Append(polls, r)
<1>1. n \in Nat /\ more \in Seq(Row) /\ Len(more) = n + 1 /\ \A i \in 1..n : more[i] = polls[i]
    BY RowsAre
<1> HIDE DEF more
<1>2. \A i \in C!Rises(polls) : i \in Nat /\ i >= 1 /\ i < n
    BY RisesAre
<1>3. \A i \in 1..n - 1 : i \in C!Rises(more) <=> i \in C!Rises(polls)
    <2>1. \A i \in 1..n - 1 : i \in 1..n /\ i + 1 \in 1..n /\ i \in 1..Len(more) - 1
        BY <1>1
    <2> QED BY <1>1, <2>1 DEF C!Rises, C!Rose
<1>4. f \in C!Rises(polls) /\ f \in 1..n - 1 /\ f \in 1..n
    BY <1>1, <1>2 DEF C!FirstRises
<1>5. ASSUME NEW i \in C!Rises(more), i < f PROVE f - i > QuietPolls
    <2>1. i \in 1..n - 1
        BY <1>1, <1>4, <1>5, RisesAre
    <2> QED BY <1>3, <1>5, <2>1 DEF C!FirstRises
<1>6. f \in C!FirstRises(more)
    BY <1>3, <1>4, <1>5 DEF C!FirstRises
<1> QED BY <1>1, <1>4, <1>6 DEF more

(* A set of moments in order: each of them, once. *)
LEMMA InOrderIs ==
    ASSUME NEW N, IsFiniteSet(N), N \in SUBSET Int
    PROVE  /\ C!InOrder(N) \in Seq(N)
           /\ \A x \in N : \E k \in DOMAIN C!InOrder(N) : C!InOrder(N)[k] = x
           /\ \A j, k \in DOMAIN C!InOrder(N) : C!InOrder(N)[j] = C!InOrder(N)[k] => j = k
<1> DEFINE R == {p \in N \X N : p[1] < p[2]}
           n == Cardinality(N)
           fewer(x) == {y \in N : y < x}
           list == C!InOrder(N)
<1>1. \A x, y \in N : <<x, y>> \in R <=> x < y
    OBVIOUS
<1>2. \A x \in N : fewer(x) = {y \in N : <<y, x>> \in R}
    BY <1>1
<1>3. list = [k \in 1..n |-> CHOOSE x \in N : C!Cardinality(fewer(x)) = k - 1]
    BY CreditCounts DEF C!InOrder
<1> HIDE DEF R, fewer, list
<1>4. /\ \A x \in N : <<x, x>> \notin R
      /\ \A x, y, z \in N : <<x, y>> \in R /\ <<y, z>> \in R => <<x, z>> \in R
      /\ \A x, y \in N : x # y => <<x, y>> \in R \/ <<y, x>> \in R
    <2>1. \A x, y, z \in N : /\ ~(x < x)
                             /\ x < y /\ y < z => x < z
                             /\ x # y => x < y \/ y < x
        OBVIOUS
    <2> QED BY <1>1, <2>1
<1>5. /\ n \in Nat
      /\ \A x \in N : Cardinality({y \in N : <<y, x>> \in R}) \in 0..n - 1
      /\ \A x, y \in N : <<x, y>> \in R <=>
             Cardinality({u \in N : <<u, x>> \in R}) < Cardinality({u \in N : <<u, y>> \in R})
      /\ \A k \in 1..n : \E x \in N : Cardinality({y \in N : <<y, x>> \in R}) = k - 1
    BY <1>4, Ranks
<1>6. /\ \A x \in N : C!Cardinality(fewer(x)) \in 0..n - 1
      /\ \A k \in 1..n : \E x \in N : C!Cardinality(fewer(x)) = k - 1
      /\ \A x, y \in N : x < y <=> C!Cardinality(fewer(x)) < C!Cardinality(fewer(y))
    BY <1>1, <1>2, <1>5, CreditCounts
<1> HIDE DEF n
<1>7. ASSUME NEW k \in 1..n PROVE list[k] \in N /\ C!Cardinality(fewer(list[k])) = k - 1
    <2>1. \E x \in N : C!Cardinality(fewer(x)) = k - 1
        BY <1>6
    <2>2. list[k] = CHOOSE x \in N : C!Cardinality(fewer(x)) = k - 1
        BY <1>3
    <2> QED BY <2>1, <2>2, Zenon
<1>8. list \in [1..n -> N] /\ DOMAIN list = 1..n
    BY <1>3, <1>7
<1>9. list \in Seq(N)
    BY <1>5, <1>8
<1>10. ASSUME NEW x \in N PROVE \E k \in 1..n : list[k] = x
    <2> DEFINE k == C!Cardinality(fewer(x)) + 1
    <2>1. k \in 1..n /\ k - 1 = C!Cardinality(fewer(x))
        BY <1>5, <1>6
    <2> HIDE DEF k
    <2>2. list[k] \in N /\ C!Cardinality(fewer(list[k])) = C!Cardinality(fewer(x))
        BY <1>7, <2>1
    <2>3. ~(x < list[k]) /\ ~(list[k] < x)
        <3>1. C!Cardinality(fewer(x)) \in Int
            BY <1>6
        <3> DEFINE count(y) == C!Cardinality(fewer(y))
        <3>2. x < list[k] => count(x) < count(list[k])
            BY <1>6, <2>2
        <3>3. list[k] < x => count(list[k]) < count(x)
            BY <1>6, <2>2
        <3>4. count(list[k]) = count(x) /\ count(x) \in Int
            BY <2>2, <3>1
        <3> HIDE DEF count
        <3> QED BY <3>2, <3>3, <3>4
    <2>4. list[k] = x
        <3>1. x \in Int /\ list[k] \in Int
            BY <2>2
        <3> QED BY <2>3, <3>1
    <2> QED BY <2>1, <2>4
<1>11. ASSUME NEW j \in 1..n, NEW k \in 1..n, list[j] = list[k] PROVE j = k
    <2>1. j - 1 = k - 1
        BY <1>7, <1>11
    <2> QED BY <1>5, <2>1
<1> QED BY <1>8, <1>9, <1>10, <1>11 DEF list

Dated(polls) ==
    /\ polls \in Seq(Row) /\ Ordered(polls)
    /\ \A i \in 1..Len(polls) : 1 <= polls[i].ts /\ polls[i].ts <= now

CreditsTyped ==
    /\ now \in Nat /\ checked \in Nat /\ checked <= now
    /\ Dated(overage) /\ Dated(series)
    /\ starts \in Seq(Int) /\ banners \in Seq(Int)
    /\ cuts \subseteq Int /\ \A c \in cuts : c <= now
    /\ pc = "sampled" => checked < now /\ \A i \in 1..Len(series) : series[i].ts < now

(* The rows are what one of the prunes left of all that were stored. *)
RowsAreKept == \E c \in {0} \cup cuts : overage = C!Since(series, c)

HasEvent(list, e) == \E k \in DOMAIN list : list[k] = e

AllRecorded ==
    overage # <<>> /\ checked = overage[Len(overage)].ts =>
        \A f \in C!FirstRises(overage) : HasEvent(starts, overage[f].ts)

BeginsSince(e, c) == \E f \in C!FirstRises(C!Since(series, c)) : C!Since(series, c)[f].ts = e

AllAreRuns == \A k \in DOMAIN starts : \E c \in {0} \cup cuts : BeginsSince(starts[k], c)

BannersRecorded == \A k \in DOMAIN banners : HasEvent(starts, banners[k])

CreditsInv == CreditsTyped /\ RowsAreKept /\ AllRecorded /\ AllAreRuns /\ BannersRecorded

RecordedOnce == C!IsInjective(starts) /\ C!IsInjective(banners)

(* As long as the look back reaches all that was recorded, nothing is told  *)
(* twice.                                                                   *)
OnceIfRecalled == Len(starts) <= EventsRecalled => RecordedOnce

LEMMA CreditsBegin == ASSUME C!CreditsAssumption, C!Init PROVE CreditsInv /\ RecordedOnce
<1>1. <<>> \in Seq(Row) /\ <<>> \in Seq(Int) /\ Len(<<>>) = 0 /\ DOMAIN <<>> = {}
    OBVIOUS
<1>2. C!Since(<<>>, 0) = <<>>
    <2>1. ASSUME NEW none \in Seq(Row), Len(none) = 0 PROVE C!Since(none, 0) = none
        <3>1. DOMAIN none = {}
            BY <2>1, RowsAre
        <3>2. Ordered(none)
            BY <3>1 DEF Ordered
        <3>3. 0 \in Int
            OBVIOUS
        <3>4. Len(C!Since(none, 0)) <= 0 /\ C!Since(none, 0) \in Seq(Row)
            BY <2>1, <3>2, <3>3, SinceKeepsOrder
        <3>5. Len(C!Since(none, 0)) = 0
            BY <3>4
        <3> QED BY <2>1, <3>4, <3>5, SameRows
    <2> QED BY <1>1, <2>1
<1> QED BY <1>1, <1>2 DEF C!Init, CreditsInv, CreditsTyped, Dated, Ordered, RowsAreKept, AllRecorded,
                AllAreRuns, BannersRecorded, RecordedOnce, C!IsInjective

(* What a check finds: the first rises that are not among the events it      *)
(* looked back on.                                                          *)
FreshRuns == IF Len(overage) < 2 THEN {} ELSE C!Backfill(overage, C!Known)
FreshStarts == {s.start : s \in FreshRuns}

LEMMA FreshAre ==
    ASSUME C!CreditsAssumption, CreditsTyped
    PROVE  /\ \A e : e \in FreshStarts <=>
                 e \notin C!Known /\ \E f \in C!FirstRises(overage) : e = overage[f].ts
           /\ FreshStarts \in SUBSET Int /\ IsFiniteSet(FreshStarts)
           /\ FreshRuns # {} => C!NewestOf(FreshRuns) \in FreshRuns
<1>1. overage \in Seq(Row) /\ Len(overage) \in Nat /\ now \in Nat
      /\ \A i \in 1..Len(overage) : overage[i].ts \in Int /\ 1 <= overage[i].ts /\ overage[i].ts <= now
    BY RowsAre DEF CreditsTyped, Dated
<1>2. \A i \in C!Rises(overage) : i \in 1..Len(overage) /\ Len(overage) >= 2
    BY <1>1, RisesAre
<1>3. \A f \in C!FirstRises(overage) : f \in C!Rises(overage)
    BY DEF C!FirstRises
<1>4. \A s : s \in FreshRuns <=> s \in C!Stretches(overage) /\ s.start \notin C!Known
    <2>1. CASE Len(overage) < 2
        <3>1. C!Rises(overage) = {}
            BY <1>1, <1>2, <2>1
        <3>2. \A s : s \notin C!Stretches(overage)
            BY <1>1, <3>1, StretchesAre
        <3> QED BY <2>1, <3>2 DEF FreshRuns
    <2>2. CASE ~(Len(overage) < 2)
        BY <2>2 DEF FreshRuns, C!Backfill
    <2> QED BY <2>1, <2>2
<1>5. ASSUME NEW e, e \in FreshStarts
      PROVE  e \notin C!Known /\ \E f \in C!FirstRises(overage) : e = overage[f].ts
    <2>1. PICK s \in FreshRuns : e = s.start
        BY <1>5 DEF FreshStarts
    <2>2. PICK f \in C!Rises(overage), l \in C!Rises(overage) :
              IsRun(overage, f, l) /\ s = RunOf(overage, f, l)
        BY <1>1, <1>4, <2>1, StretchesAre
    <2>3. f \in C!FirstRises(overage) /\ e = overage[f].ts
        BY <2>1, <2>2 DEF IsRun, Begins, RunOf
    <2> QED BY <1>4, <2>1, <2>3
<1>6. ASSUME NEW f \in C!FirstRises(overage), overage[f].ts \notin C!Known
      PROVE  overage[f].ts \in FreshStarts
    <2>1. PICK l \in C!Rises(overage) : IsRun(overage, f, l)
        BY <1>1, RunFrom
    <2>2. RunOf(overage, f, l) \in C!Stretches(overage)
        BY <1>1, <1>3, <2>1, StretchesAre
    <2>3. RunOf(overage, f, l).start = overage[f].ts
        BY DEF RunOf
    <2>4. RunOf(overage, f, l) \in FreshRuns
        BY <1>4, <1>6, <2>2, <2>3
    <2> QED BY <2>3, <2>4 DEF FreshStarts
<1>7. FreshStarts \in SUBSET (0..now)
    BY <1>1, <1>2, <1>3, <1>5
<1>8. IsFiniteSet(FreshStarts)
    <2>1. IsFiniteSet(0..now)
        BY <1>1, FS_Interval
    <2> QED BY <1>7, <2>1, FS_Subset
<1>9. ASSUME FreshRuns # {} PROVE C!NewestOf(FreshRuns) \in FreshRuns
    <2>1. FreshStarts # {}
        BY <1>9 DEF FreshStarts
    <2>2. PICK x \in FreshStarts : \A y \in FreshStarts : y <= x
        BY <1>1, <1>7, <2>1, LargestThereIs
    <2>3. PICK s \in FreshRuns : x = s.start
        BY DEF FreshStarts
    <2>4. \A t \in FreshRuns : t.start <= s.start
        BY <2>2, <2>3 DEF FreshStarts
    <2> QED BY <2>4 DEF C!NewestOf
<1> QED BY <1>5, <1>6, <1>7, <1>8, <1>9

LEMMA KnownAre ==
    ASSUME C!CreditsAssumption, CreditsTyped
    PROVE  /\ \A e \in C!Known : HasEvent(starts, e)
           /\ Len(starts) <= EventsRecalled => \A e : HasEvent(starts, e) => e \in C!Known
<1>1. \A e : e \in C!ToSet(starts) <=> HasEvent(starts, e)
    BY DEF C!ToSet, HasEvent
<1>2. \A e \in C!Known : HasEvent(starts, e)
    BY <1>1 DEF C!Known
<1>3. starts \in Seq(Int) /\ Len(starts) \in Nat /\ DOMAIN starts = 1..Len(starts)
    BY DEF CreditsTyped
<1>4. ASSUME Len(starts) <= EventsRecalled, NEW e, HasEvent(starts, e) PROVE e \in C!Known
    <2> DEFINE newer == {i \in 1..Len(starts) : starts[i] > e}
               n == Len(starts)
    <2>1. PICK k \in 1..n : starts[k] = e
        BY <1>3, <1>4 DEF HasEvent
    <2>2. e \in Int
        BY <1>3, <2>1
    <2>3. k \notin newer
        BY <2>1, <2>2
    <2>4. newer \in SUBSET (1..n) /\ newer # 1..n
        BY <2>1, <2>3
    <2>5. IsFiniteSet(1..n) /\ Cardinality(1..n) = n
        <3>1. n \in Int /\ 1 \in Int /\ (IF 1 > n THEN 0 ELSE n - 1 + 1) = n
            BY <1>3
        <3> QED BY <3>1, FS_Interval
    <2>6. /\ IsFiniteSet(newer) /\ Cardinality(newer) <= n
          /\ n = Cardinality(newer) => 1..n = newer
        <3> HIDE DEF newer
        <3> QED BY <2>4, <2>5, FS_Subset
    <2>7. Cardinality(newer) \in Nat
        BY <2>6, FS_CardinalityType
    <2>8. Cardinality(newer) < n
        <3> HIDE DEF newer
        <3> QED BY <1>3, <2>4, <2>6, <2>7
    <2>9. Cardinality(newer) < EventsRecalled
        <3> HIDE DEF newer
        <3>1. EventsRecalled \in Nat
            BY DEF C!CreditsAssumption
        <3> QED BY <1>3, <1>4, <2>7, <2>8, <3>1
    <2> QED BY <1>1, <1>4, <2>9, CreditCounts DEF C!Known
<1> QED BY <1>2, <1>4

(* A check records what it found, behind the rest; its banner is of it.     *)
LEMMA CheckRecords ==
    ASSUME C!CreditsAssumption, CreditsTyped, C!CheckCredits
    PROVE  /\ starts' \in Seq(Int) /\ banners' \in Seq(Int) /\ Len(starts) <= Len(starts')
           /\ \A e : HasEvent(starts', e) <=> HasEvent(starts, e) \/ e \in FreshStarts
           /\ \A k \in DOMAIN banners' : (\E j \in DOMAIN banners : banners'[k] = banners[j])
                                         \/ banners'[k] \in FreshStarts
           /\ RecordedOnce /\ BannersRecorded /\ Len(starts) <= EventsRecalled => RecordedOnce'
<1> DEFINE list == C!InOrder(FreshStarts)
           n == Len(starts)
           m == Len(list)
<1>1. /\ starts' = starts \o list
      /\ \/ banners' = banners
         \/ FreshRuns # {} /\ banners' = Append(banners, C!NewestOf(FreshRuns).start)
    BY DEF C!CheckCredits, FreshRuns, FreshStarts
<1>2. /\ list \in Seq(FreshStarts)
      /\ \A x \in FreshStarts : \E k \in DOMAIN list : list[k] = x
      /\ \A j, k \in DOMAIN list : list[j] = list[k] => j = k
      /\ FreshStarts \in SUBSET Int
    BY FreshAre, InOrderIs
<1>3. starts \in Seq(Int) /\ banners \in Seq(Int) /\ DOMAIN starts = 1..n /\ n \in Nat
      /\ DOMAIN banners = 1..Len(banners) /\ Len(banners) \in Nat
    BY DEF CreditsTyped
<1> HIDE DEF list
<1>4. list \in Seq(Int) /\ m \in Nat /\ DOMAIN list = 1..m /\ \A k \in 1..m : list[k] \in FreshStarts
    <2>1. m \in Nat /\ DOMAIN list = 1..m /\ \A k \in 1..m : list[k] \in FreshStarts
        BY <1>2
    <2>2. list \in [1..m -> Int]
        <3>1. list \in [1..m -> FreshStarts]
            BY <1>2
        <3> QED BY <1>2, <3>1
    <2> QED BY <2>1, <2>2
<1>5. /\ starts' \in Seq(Int) /\ DOMAIN starts' = 1..n + m /\ Len(starts') = n + m
      /\ \A i \in 1..n : starts'[i] = starts[i]
      /\ \A i \in n + 1..n + m : starts'[i] = list[i - n]
    BY <1>1, <1>3, <1>4, Joined
<1>6. ASSUME NEW e, e \in FreshStarts PROVE HasEvent(starts', e)
    <2>1. PICK k \in 1..m : list[k] = e
        BY <1>2, <1>4, <1>6
    <2>2. n + k \in n + 1..n + m /\ (n + k) - n = k /\ n + k \in 1..n + m
        BY <1>3, <1>4
    <2>3. starts'[n + k] = list[(n + k) - n]
        BY <1>5, <2>2
    <2>4. starts'[n + k] = e
        BY <2>1, <2>2, <2>3
    <2> QED BY <1>5, <2>2, <2>4 DEF HasEvent
<1>7. ASSUME NEW e, HasEvent(starts, e) PROVE HasEvent(starts', e)
    <2>1. PICK k \in 1..n : starts[k] = e
        BY <1>3, <1>7 DEF HasEvent
    <2>2. k \in 1..n + m
        BY <1>3, <1>4
    <2> QED BY <1>5, <2>1, <2>2 DEF HasEvent
<1>8. ASSUME NEW i \in 1..n + m PROVE (i \in 1..n /\ starts'[i] = starts[i])
                     \/ (i - n \in 1..m /\ i \notin 1..n /\ starts'[i] = list[i - n])
    <2>1. i \in 1..n \/ (i \in n + 1..n + m /\ i - n \in 1..m /\ i \notin 1..n)
        BY <1>3, <1>4
    <2> QED BY <1>5, <2>1
<1>9. ASSUME NEW e, HasEvent(starts', e) PROVE HasEvent(starts, e) \/ e \in FreshStarts
    <2>1. PICK i \in 1..n + m : starts'[i] = e
        BY <1>5, <1>9 DEF HasEvent
    <2>2. CASE i \in 1..n /\ starts'[i] = starts[i]
        BY <1>3, <2>1, <2>2 DEF HasEvent
    <2>3. CASE i - n \in 1..m /\ starts'[i] = list[i - n]
        BY <1>4, <2>1, <2>3
    <2> QED BY <1>8, <2>2, <2>3
<1>10. FreshRuns # {} => C!NewestOf(FreshRuns).start \in FreshStarts
    BY FreshAre DEF FreshStarts
<1>11. /\ banners' \in Seq(Int)
       /\ \A k \in DOMAIN banners' : (k \in DOMAIN banners /\ banners'[k] = banners[k])
                 \/ (k = Len(banners) + 1 /\ banners'[k] = C!NewestOf(FreshRuns).start /\ FreshRuns # {})
    <2>1. CASE banners' = banners
        BY <1>3, <2>1
    <2>2. CASE FreshRuns # {} /\ banners' = Append(banners, C!NewestOf(FreshRuns).start)
        <3> DEFINE x == C!NewestOf(FreshRuns).start
        <3>1. x \in Int
            BY <1>2, <1>10, <2>2
        <3> HIDE DEF x
        <3>2. /\ Append(banners, x) \in Seq(Int) /\ DOMAIN Append(banners, x) = 1..Len(banners) + 1
              /\ \A k \in 1..Len(banners) : Append(banners, x)[k] = banners[k]
              /\ Append(banners, x)[Len(banners) + 1] = x
            BY <1>3, <3>1
        <3>3. banners' = Append(banners, x)
            BY <2>2 DEF x
        <3>4. ASSUME NEW k \in 1..Len(banners) + 1
              PROVE  (k \in 1..Len(banners) /\ Append(banners, x)[k] = banners[k])
                         \/ (k = Len(banners) + 1 /\ Append(banners, x)[k] = x)
            BY <1>3, <3>2
        <3> QED BY <1>3, <2>2, <3>2, <3>3, <3>4 DEF x
    <2> QED BY <1>1, <2>1, <2>2
<1>12. ASSUME RecordedOnce, BannersRecorded, Len(starts) <= EventsRecalled PROVE RecordedOnce'
    <2>1. \A e \in FreshStarts : ~HasEvent(starts, e)
        BY <1>12, FreshAre, KnownAre
    <2>2. ASSUME NEW i \in 1..n + m, NEW j \in 1..n + m, starts'[i] = starts'[j] PROVE i = j
        <3>1. CASE i \in 1..n /\ j \in 1..n
            BY <1>3, <1>5, <1>12, <2>2, <3>1 DEF RecordedOnce, C!IsInjective
        <3>2. CASE i \notin 1..n /\ j \notin 1..n
            <4>1. i - n \in 1..m /\ j - n \in 1..m /\ list[i - n] = list[j - n]
                BY <1>8, <2>2, <3>2
            <4>2. i - n = j - n
                BY <1>2, <1>4, <4>1
            <4> QED BY <1>3, <1>4, <4>2
        <3>3. CASE i \in 1..n /\ j \notin 1..n
            <4>1. starts'[i] = starts[i] /\ starts'[j] \in FreshStarts
                BY <1>4, <1>8, <3>3
            <4> QED BY <1>3, <2>1, <2>2, <3>3, <4>1 DEF HasEvent
        <3>4. CASE i \notin 1..n /\ j \in 1..n
            <4>1. starts'[j] = starts[j] /\ starts'[i] \in FreshStarts
                BY <1>4, <1>8, <3>4
            <4> QED BY <1>3, <2>1, <2>2, <3>4, <4>1 DEF HasEvent
        <3> QED BY <3>1, <3>2, <3>3, <3>4
    <2>3. \A k \in DOMAIN banners : banners[k] \notin FreshStarts
        BY <1>12, <2>1 DEF BannersRecorded
    <2>4. ASSUME NEW i \in DOMAIN banners', NEW j \in DOMAIN banners', banners'[i] = banners'[j] PROVE i = j
        <3> DEFINE OldOne(k) == k \in DOMAIN banners /\ banners'[k] = banners[k]
                   NewOne(k) == k = Len(banners) + 1 /\ banners'[k] \in FreshStarts
        <3>1. (OldOne(i) \/ NewOne(i)) /\ (OldOne(j) \/ NewOne(j))
            BY <1>10, <1>11
        <3>2. CASE OldOne(i) /\ OldOne(j)
            BY <1>12, <2>4, <3>2 DEF RecordedOnce, C!IsInjective
        <3>3. CASE NewOne(i) /\ NewOne(j)
            BY <3>3
        <3>4. CASE (OldOne(i) /\ NewOne(j)) \/ (NewOne(i) /\ OldOne(j))
            BY <2>3, <2>4, <3>4
        <3> QED BY <3>1, <3>2, <3>3, <3>4
    <2>5. C!IsInjective(starts')
        BY <1>5, <2>2 DEF C!IsInjective
    <2>6. C!IsInjective(banners')
        BY <2>4 DEF C!IsInjective
    <2> QED BY <2>5, <2>6 DEF RecordedOnce
<1>13. Len(starts) <= Len(starts')
    BY <1>3, <1>4, <1>5
<1> QED BY <1>5, <1>6, <1>7, <1>9, <1>10, <1>11, <1>12, <1>13

LEMMA CheckKeepsInv ==
    ASSUME C!CreditsAssumption, CreditsInv, C!Derive
    PROVE  CreditsInv' /\ (RecordedOnce /\ Len(starts) <= EventsRecalled => RecordedOnce')
           /\ Len(starts) <= Len(starts')
<1>1. /\ C!CheckCredits /\ pc' = "idle" /\ now' = now
      /\ overage' = overage /\ series' = series /\ cuts' = cuts
      /\ checked' = IF overage = <<>> THEN 0 ELSE overage[Len(overage)].ts
    BY DEF C!Derive, C!CheckCredits, C!Last
<1>2. /\ starts' \in Seq(Int) /\ banners' \in Seq(Int) /\ Len(starts) <= Len(starts')
      /\ \A e : HasEvent(starts', e) <=> HasEvent(starts, e) \/ e \in FreshStarts
      /\ \A k \in DOMAIN banners' : (\E j \in DOMAIN banners : banners'[k] = banners[j])
                                    \/ banners'[k] \in FreshStarts
      /\ RecordedOnce /\ BannersRecorded /\ Len(starts) <= EventsRecalled => RecordedOnce'
    BY <1>1, CheckRecords DEF CreditsInv
<1>3. /\ \A e : e \in FreshStarts <=>
             e \notin C!Known /\ \E f \in C!FirstRises(overage) : e = overage[f].ts
      /\ \A e \in C!Known : HasEvent(starts, e)
    BY FreshAre, KnownAre DEF CreditsInv
<1>4. CreditsTyped'
    <2>1. Dated(overage)' /\ Dated(series)'
        BY <1>1 DEF CreditsInv, CreditsTyped, Dated
    <2>2. checked' \in Nat /\ checked' <= now'
        <3>1. CASE overage = <<>>
            BY <1>1, <3>1 DEF CreditsInv, CreditsTyped
        <3>2. CASE overage # <<>>
            <4>1. overage \in Seq(Row) /\ \A i \in 1..Len(overage) : 1 <= overage[i].ts /\ overage[i].ts <= now
                BY DEF CreditsInv, CreditsTyped, Dated
            <4>2. Len(overage) \in 1..Len(overage)
                BY <3>2, <4>1
            <4>3. overage[Len(overage)].ts \in Int
                BY <4>1, <4>2, RowsAre
            <4>4. overage[Len(overage)].ts \in Nat /\ overage[Len(overage)].ts <= now
                BY <4>1, <4>2, <4>3
            <4> QED BY <1>1, <3>2, <4>4
        <3> QED BY <3>1, <3>2
    <2> QED BY <1>1, <1>2, <2>1, <2>2 DEF CreditsInv, CreditsTyped
<1>5. RowsAreKept'
    BY <1>1 DEF CreditsInv, RowsAreKept
<1>6. AllRecorded'
    <2>1. ASSUME NEW f \in C!FirstRises(overage) PROVE HasEvent(starts', overage[f].ts)
        BY <1>2, <1>3
    <2>2. C!FirstRises(overage') = C!FirstRises(overage)
        BY <1>1 DEF C!FirstRises, C!Rises, C!Rose
    <2>3. ASSUME NEW f \in C!FirstRises(overage) PROVE HasEvent(starts', overage'[f].ts)
        BY <1>1, <2>1, Zenon
    <2> QED BY <2>2, <2>3 DEF AllRecorded
<1>7. AllAreRuns'
    <2>1. ASSUME NEW e, HasEvent(starts', e) PROVE \E c \in {0} \cup cuts : BeginsSince(e, c)
        <3>1. CASE HasEvent(starts, e)
            BY <3>1 DEF CreditsInv, AllAreRuns, HasEvent
        <3>2. CASE e \in FreshStarts
            <4>1. PICK f \in C!FirstRises(overage) : e = overage[f].ts
                BY <1>3, <3>2
            <4>2. PICK c \in {0} \cup cuts : overage = C!Since(series, c)
                BY DEF CreditsInv, RowsAreKept
            <4> QED BY <4>1, <4>2 DEF BeginsSince
        <3> QED BY <1>2, <2>1, <3>1, <3>2
    <2>2. \A e, c : BeginsSince(e, c)' <=> BeginsSince(e, c)
        BY <1>1 DEF BeginsSince, C!FirstRises, C!Rises, C!Rose, C!Since
    <2>3. ASSUME NEW k \in DOMAIN starts' PROVE \E c \in {0} \cup cuts : BeginsSince(starts'[k], c)
        <3>1. HasEvent(starts', starts'[k])
            BY DEF HasEvent
        <3> QED BY <2>1, <3>1
    <2> QED BY <1>1, <2>2, <2>3 DEF AllAreRuns
<1>8. BannersRecorded'
    <2>1. ASSUME NEW k \in DOMAIN banners' PROVE HasEvent(starts', banners'[k])
        BY <1>2 DEF CreditsInv, BannersRecorded
    <2> QED BY <2>1 DEF BannersRecorded
<1> QED BY <1>2, <1>4, <1>5, <1>6, <1>7, <1>8 DEF CreditsInv

LEMMA SpentIs ==
    ASSUME CreditsTyped, NEW spent \in C!NextSpent
    PROVE  spent \in Nat
<1>1. series \in Seq(Row)
    BY DEF CreditsTyped, Dated
<1>2. CASE series = <<>>
    BY <1>2 DEF C!NextSpent
<1>3. CASE series # <<>>
    <2>1. Len(series) \in 1..Len(series)
        BY <1>1, <1>3
    <2>2. series[Len(series)].spent \in Nat
        BY <1>1, <2>1, RowsAre
    <2> QED BY <1>3, <2>2 DEF C!NextSpent, C!Last
<1> QED BY <1>2, <1>3

LEMMA RowRecorded ==
    ASSUME C!CreditsAssumption, CreditsInv, NEW spent \in C!NextSpent, C!RecordOverage(spent)
    PROVE  CreditsInv'
<1> DEFINE r == [ts |-> now, spent |-> spent]
<1>1. /\ pc = "sampled" /\ pc' = "derive" /\ now' = now
      /\ overage' = Append(overage, r) /\ series' = Append(series, r)
      /\ starts' = starts /\ banners' = banners /\ cuts' = cuts /\ checked' = checked
    BY DEF C!RecordOverage
<1>2. r \in Row /\ r.ts = now /\ now \in Nat
    <2>1. CreditsTyped
        BY DEF CreditsInv
    <2>2. now \in Nat /\ spent \in Nat
        BY <2>1, SpentIs DEF CreditsTyped
    <2> QED BY <2>2 DEF Row
<1> HIDE DEF r
<1>3. checked < now /\ checked \in Nat /\ \A i \in 1..Len(series) : series[i].ts < now
    BY <1>1 DEF CreditsInv, CreditsTyped
<1>4. PICK c \in {0} \cup cuts : overage = C!Since(series, c)
    BY DEF CreditsInv, RowsAreKept
<1>5. Dated(series) /\ Dated(overage) /\ c \in Int /\ c <= now /\ cuts \subseteq Int /\ \A d \in cuts : d <= now
    BY <1>2, <1>4 DEF CreditsInv, CreditsTyped
<1>6. series \in Seq(Row) /\ Ordered(series) /\ overage \in Seq(Row)
    BY <1>5 DEF Dated
<1>7. \A i \in 1..Len(overage) : overage[i].ts < now
    <2> SUFFICES ASSUME NEW i \in 1..Len(overage) PROVE overage[i].ts < now
        OBVIOUS
    <2>1. PICK j \in 1..Len(series) : overage[i] = series[j]
        BY <1>4, <1>5, <1>6, SinceKeepsOrder
    <2> QED BY <1>3, <2>1
<1>8. ASSUME NEW polls, Dated(polls), \A i \in 1..Len(polls) : polls[i].ts < now
      PROVE  /\ Append(polls, r) \in Seq(Row) /\ Ordered(Append(polls, r))
             /\ \A i \in 1..Len(Append(polls, r)) : 1 <= Append(polls, r)[i].ts /\ Append(polls, r)[i].ts <= now
    <2> DEFINE more == Append(polls, r)
               n == Len(polls)
    <2>1. polls \in Seq(Row) /\ n \in Nat /\ DOMAIN polls = 1..n /\ \A i \in 1..n : polls[i].ts \in Int
        BY <1>8, RowsAre DEF Dated
    <2>2. /\ more \in Seq(Row) /\ Len(more) = n + 1 /\ DOMAIN more = 1..n + 1
          /\ more[n + 1] = r /\ \A i \in 1..n : more[i] = polls[i]
        BY <1>2, <2>1
    <2>3. 1 <= now
        BY <1>2, <1>3
    <2> HIDE DEF more
    <2>4. ASSUME NEW i \in 1..n + 1, NEW j \in 1..n + 1, i < j PROVE more[i].ts < more[j].ts
        <3>1. i \in 1..n
            BY <2>1, <2>4
        <3>2. CASE j = n + 1
            BY <1>2, <1>8, <2>2, <3>1, <3>2
        <3>3. CASE j # n + 1
            <4>1. j \in 1..n
                BY <2>1, <3>3
            <4> QED BY <1>8, <2>1, <2>2, <2>4, <3>1, <4>1 DEF Dated, Ordered
        <3> QED BY <3>2, <3>3
    <2>5. ASSUME NEW i \in 1..n + 1 PROVE 1 <= more[i].ts /\ more[i].ts <= now
        <3>1. CASE i = n + 1
            BY <1>2, <2>2, <2>3, <3>1
        <3>2. CASE i # n + 1
            <4>1. i \in 1..n
                BY <2>1, <3>2
            <4> QED BY <1>8, <2>2, <4>1 DEF Dated
        <3> QED BY <3>1, <3>2
    <2>6. Ordered(more)
        BY <2>2, <2>4 DEF Ordered
    <2> QED BY <2>2, <2>5, <2>6 DEF more
<1>9. Dated(series)' /\ Dated(overage)' /\ Ordered(Append(series, r))
    BY <1>1, <1>3, <1>5, <1>7, <1>8 DEF Dated
<1>10. CreditsTyped'
    BY <1>1, <1>9 DEF CreditsInv, CreditsTyped
<1>11. \A d \in {0} \cup cuts : C!Since(series', d) = Append(C!Since(series, d), r)
    <2> SUFFICES ASSUME NEW d \in {0} \cup cuts PROVE C!Since(series', d) = Append(C!Since(series, d), r)
        OBVIOUS
    <2>1. d \in Int /\ d <= r.ts
        BY <1>2, <1>5
    <2>2. C!Since(Append(series, r), d) = Append(C!Since(series, d), r)
        BY <1>2, <1>6, <1>9, <2>1, SinceGrows
    <2> QED BY <1>1, <2>2
<1>12. RowsAreKept'
    BY <1>1, <1>4, <1>11 DEF RowsAreKept
<1>13. AllRecorded'
    <2>1. Len(overage') \in Nat /\ overage'[Len(overage')] = r
        BY <1>1, <1>2, <1>6
    <2>2. checked' # overage'[Len(overage')].ts
        BY <1>1, <1>2, <1>3, <2>1 DEF CreditsInv, CreditsTyped
    <2> QED BY <2>2 DEF AllRecorded
<1>14. AllAreRuns'
    <2>1. ASSUME NEW e, NEW d \in {0} \cup cuts, BeginsSince(e, d) PROVE BeginsSince(e, d)'
        <3>1. PICK f \in C!FirstRises(C!Since(series, d)) : C!Since(series, d)[f].ts = e
            BY <2>1 DEF BeginsSince
        <3>2. C!Since(series, d) \in Seq(Row)
            BY <1>5, <1>6, SinceKeepsOrder
        <3>3. /\ f \in C!FirstRises(Append(C!Since(series, d), r))
              /\ Append(C!Since(series, d), r)[f] = C!Since(series, d)[f]
            BY <1>2, <3>2, FirstRisesStay
        <3>4. f \in C!FirstRises(C!Since(series', d)) /\ C!Since(series', d)[f].ts = e
            BY <1>11, <3>1, <3>3
        <3> QED BY <3>4 DEF BeginsSince
    <2>2. \A k \in DOMAIN starts : \E d \in {0} \cup cuts : BeginsSince(starts[k], d)
        BY DEF CreditsInv, AllAreRuns
    <2>3. \A e : \A d \in {0} \cup cuts : BeginsSince(e, d) => BeginsSince(e, d)'
        BY <2>1
    <2> QED BY <1>1, <2>2, <2>3 DEF AllAreRuns
<1>15. BannersRecorded'
    BY <1>1 DEF CreditsInv, BannersRecorded
<1> QED BY <1>10, <1>12, <1>13, <1>14, <1>15 DEF CreditsInv

LEMMA RowsPruned ==
    ASSUME C!CreditsAssumption, CreditsInv, C!Prune
    PROVE  CreditsInv'
<1> DEFINE d == now - OverageAge
<1>1. /\ pc = "idle" /\ pc' = pc /\ now' = now /\ series' = series
      /\ overage' = C!Since(overage, d) /\ C!Since(overage, d) # overage
      /\ cuts' = cuts \cup {d} /\ checked' = 0 /\ starts' = starts /\ banners' = banners
    BY DEF C!Prune
<1>2. now \in Nat /\ d \in Int /\ d <= now
    BY DEF CreditsInv, CreditsTyped, C!CreditsAssumption
<1> HIDE DEF d
<1>3. PICK c \in {0} \cup cuts : overage = C!Since(series, c)
    BY DEF CreditsInv, RowsAreKept
<1>4. c \in Int /\ Dated(series) /\ Dated(overage)
    BY <1>3 DEF CreditsInv, CreditsTyped
<1>5. series \in Seq(Row) /\ Ordered(series) /\ overage \in Seq(Row) /\ Ordered(overage)
    BY <1>4 DEF Dated
<1>6. overage' = C!Since(series, d)
    BY <1>1, <1>2, <1>3, <1>4, <1>5, SinceAgain
<1>7. /\ overage' \in Seq(Row) /\ Ordered(overage')
      /\ \A i \in 1..Len(overage') : \E j \in 1..Len(overage) : overage'[i] = overage[j]
    BY <1>1, <1>2, <1>5, SinceKeepsOrder
<1>8. \A i \in 1..Len(overage') : 1 <= overage'[i].ts /\ overage'[i].ts <= now
    BY <1>4, <1>7 DEF Dated
<1>9. Dated(series)' /\ Dated(overage)'
    BY <1>1, <1>4, <1>7, <1>8 DEF Dated
<1>10. CreditsTyped'
    BY <1>1, <1>2, <1>9 DEF CreditsInv, CreditsTyped
<1>11. RowsAreKept'
    BY <1>1, <1>6 DEF RowsAreKept
<1>12. AllRecorded'
    <2>1. ASSUME overage' # <<>> PROVE checked' # overage'[Len(overage')].ts
        <3>1. Len(overage') \in 1..Len(overage')
            BY <1>7, <2>1
        <3>2. 1 <= overage'[Len(overage')].ts /\ overage'[Len(overage')].ts \in Int
            BY <1>7, <1>8, <3>1, RowsAre
        <3> QED BY <1>1, <3>2
    <2> QED BY <2>1 DEF AllRecorded
<1>13. AllAreRuns'
    <2>1. \A k \in DOMAIN starts : \E b \in {0} \cup cuts : BeginsSince(starts[k], b)
        BY DEF CreditsInv, AllAreRuns
    <2>2. \A e, b : BeginsSince(e, b)' <=> BeginsSince(e, b)
        BY <1>1 DEF BeginsSince, C!FirstRises, C!Rises, C!Rose, C!Since
    <2> QED BY <1>1, <2>1, <2>2 DEF AllAreRuns
<1>14. BannersRecorded'
    BY <1>1 DEF CreditsInv, BannersRecorded
<1> QED BY <1>10, <1>11, <1>12, <1>13, <1>14 DEF CreditsInv

(* Time passes, or a poll ends before its checks. *)
LEMMA OtherSteps ==
    ASSUME C!CreditsAssumption, CreditsInv, UNCHANGED <<overage, series, starts, banners, cuts, checked>>,
           \/ now' = now /\ (pc' = "sampled" => pc = "sampled")
           \/ \E wait \in {Interval, 2 * Interval} : now' = now + wait
    PROVE  CreditsInv'
<1>1. /\ now \in Nat /\ Interval \in Nat /\ Interval >= 1 /\ checked \in Int /\ checked <= now
      /\ Dated(overage) /\ Dated(series) /\ cuts \subseteq Int /\ \A c \in cuts : c <= now
    BY DEF CreditsInv, CreditsTyped, C!CreditsAssumption
<1>2. now' \in Nat /\ now <= now' /\ (now' > now \/ (pc' = "sampled" => pc = "sampled"))
    BY <1>1
<1>3. ASSUME NEW polls, Dated(polls)
      PROVE  \A i \in 1..Len(polls) : /\ 1 <= polls[i].ts /\ polls[i].ts <= now'
                                      /\ now' > now => polls[i].ts < now'
    <2> SUFFICES ASSUME NEW i \in 1..Len(polls)
                 PROVE  /\ 1 <= polls[i].ts /\ polls[i].ts <= now'
                        /\ now' > now => polls[i].ts < now'
        OBVIOUS
    <2>1. polls[i].ts \in Int /\ 1 <= polls[i].ts /\ polls[i].ts <= now
        BY <1>3, RowsAre DEF Dated
    <2> QED BY <1>1, <1>2, <2>1
<1>4. Dated(overage)' /\ Dated(series)'
    BY <1>1, <1>3 DEF Dated
<1>5. \A c \in cuts : c <= now'
    BY <1>1, <1>2
<1>6. pc' = "sampled" => checked' < now' /\ \A i \in 1..Len(series') : series'[i].ts < now'
    BY <1>1, <1>2, <1>3 DEF CreditsInv, CreditsTyped
<1>7. CreditsTyped'
    BY <1>1, <1>2, <1>4, <1>5, <1>6 DEF CreditsInv, CreditsTyped
<1>8. RowsAreKept' /\ AllRecorded' /\ BannersRecorded'
    BY DEF CreditsInv, RowsAreKept, AllRecorded, BannersRecorded, C!FirstRises, C!Rises, C!Rose
<1>9. AllAreRuns'
    <2>1. \A e, c : BeginsSince(e, c)' <=> BeginsSince(e, c)
        BY DEF BeginsSince, C!FirstRises, C!Rises, C!Rose, C!Since
    <2> QED BY <2>1 DEF CreditsInv, AllAreRuns
<1> QED BY <1>7, <1>8, <1>9 DEF CreditsInv

LEMMA CreditsStep ==
    ASSUME C!CreditsAssumption, CreditsInv, [C!Next]_C!vars
    PROVE  CreditsInv' /\ (OnceIfRecalled => OnceIfRecalled')
<1>1. CASE C!Derive
    <2>1. CreditsInv' /\ (RecordedOnce /\ Len(starts) <= EventsRecalled => RecordedOnce')
          /\ Len(starts) <= Len(starts')
        BY <1>1, CheckKeepsInv
    <2>2. Len(starts) \in Nat /\ Len(starts') \in Nat /\ EventsRecalled \in Nat
        BY <2>1 DEF CreditsInv, CreditsTyped, C!CreditsAssumption
    <2> QED BY <2>1, <2>2 DEF OnceIfRecalled
<1>2. ASSUME NEW spent \in C!NextSpent, C!RecordOverage(spent)
      PROVE  CreditsInv' /\ UNCHANGED <<starts, banners>>
    BY <1>2, RowRecorded DEF C!RecordOverage
<1>3. CASE C!Prune
    <2>1. UNCHANGED <<starts, banners>>
        BY <1>3 DEF C!Prune
    <2> QED BY <1>3, <2>1, RowsPruned DEF OnceIfRecalled, RecordedOnce, C!IsInjective
<1>4. ASSUME NEW wait \in {Interval, 2 * Interval}, C!Collect(wait) \/ C!FailAfterSample(wait)
      PROVE  CreditsInv' /\ UNCHANGED <<starts, banners>>
    <2>1. UNCHANGED <<overage, series, starts, banners, cuts, checked>> /\ now' = now + wait
        BY <1>4 DEF C!Collect, C!FailAfterSample, C!spending
    <2> QED BY <2>1, OtherSteps
<1>5. CASE C!OverageUnavailable \/ C!OverageRefused \/ C!Restart \/ UNCHANGED C!vars
    <2>1. /\ UNCHANGED <<overage, series, starts, banners, cuts, checked>>
          /\ now' = now /\ (pc' = "sampled" => pc = "sampled")
        BY <1>5 DEF C!OverageUnavailable, C!OverageRefused, C!Restart, C!spending, C!vars
    <2>2. CreditsInv'
        BY <2>1, OtherSteps
    <2> QED BY <2>1, <2>2 DEF OnceIfRecalled, RecordedOnce, C!IsInjective
<1>6. UNCHANGED <<starts, banners>> => (OnceIfRecalled => OnceIfRecalled')
    BY DEF OnceIfRecalled, RecordedOnce, C!IsInjective
<1> QED BY <1>1, <1>2, <1>3, <1>4, <1>5, <1>6 DEF C!Next

LEMMA CreditsSafe ==
    ASSUME C!CreditsAssumption, CreditsInv
    PROVE  C!SpendingIsRecorded /\ C!SpendingIsMeasured /\ (RecordedOnce => C!OneEventPerRun)
<1>1. \A e : e \in C!ToSet(starts) <=> HasEvent(starts, e)
    BY DEF C!ToSet, HasEvent
<1>2. C!SpendingIsRecorded
    BY <1>1 DEF C!SpendingIsRecorded, CreditsInv, AllRecorded, C!Last
<1>3. C!SpendingIsMeasured
    BY MeasuredIs DEF CreditsInv, CreditsTyped, Dated
<1>4. ASSUME RecordedOnce PROVE C!OneEventPerRun
    <2>1. \A e \in C!ToSet(starts) : \E c \in {0} \cup cuts :
              \E i \in C!FirstRises(C!Since(series, c)) : C!Since(series, c)[i].ts = e
        BY DEF CreditsInv, AllAreRuns, BeginsSince, C!ToSet
    <2>2. \A e \in C!ToSet(banners) : e \in C!ToSet(starts)
        BY <1>1 DEF CreditsInv, BannersRecorded, C!ToSet
    <2> QED BY <1>4, <2>1, <2>2 DEF RecordedOnce, C!OneEventPerRun, C!HistoryLightsUpOnce
<1> QED BY <1>2, <1>3, <1>4

-----------------------------------------------------------------------------
(* A behaviour is one of the component of its task.                        *)
LEMMA Starts ==
    ASSUME Init
    PROVE  /\ task = "settings" => S!Init
           /\ task = "status" => V!Init
           /\ task = "updates" => U!Init
           /\ task = "migrations" => M!Init
           /\ task = "events" => L!Init
           /\ task = "samples" => X!Init
           /\ task = "windows" => P!Init
           /\ task = "grants" => G!Init
           /\ task = "credits" => C!Init
BY DEF Init

LEMMA Goes ==
    ASSUME [Next]_allVars
    PROVE  /\ task' = task
           /\ task = "settings" => [S!Next]_S!vars
           /\ task = "status" => [V!Next]_V!vars
           /\ task = "updates" => [U!Next]_U!vars
           /\ task = "migrations" => [M!Next]_M!vars
           /\ task = "events" => [L!Next]_L!vars
           /\ task = "samples" => [X!Next]_X!vars
           /\ task = "windows" => [P!Next]_P!vars
           /\ task = "grants" => [G!Next]_G!vars
           /\ task = "credits" => [C!Next]_C!vars
<1>1. CASE UNCHANGED allVars
    BY <1>1 DEF allVars, settingsVars, statusVars, updateVars, migrationVars,
                logVars, presenceVars, grantVars, creditVars, S!vars, V!vars, U!vars,
                M!vars, L!vars, L!Readers, X!vars, X!Readers, P!vars, G!vars,
                C!vars, C!spending
<1>2. CASE Next
    BY <1>2 DEF Next
<1> QED BY <1>1, <1>2

(* api.settings_save: what the panel saved is what runs and what the next   *)
(* start will read, until a command writes the file.                       *)
THEOREM PanelSavedRuns == Spec => []SavedIsRunning
<1> DEFINE Inv == task = "settings" => SettingsInv
<1>1. Init => Inv
    BY Starts, SettingsBegin, BackgroundAssumption
<1>2. Inv /\ [Next]_allVars => Inv'
    BY Goes, SettingsStep, BackgroundAssumption
<1>3. Inv => SavedIsRunning
    BY DEF SettingsInv, SavedIsRunning
<1> QED BY <1>1, <1>2, <1>3, PTL DEF Spec

(* Poller.prune_now: no row goes before it is older than the shortest       *)
(* period that was asked for, or than the longest option.                  *)
THEOREM PruneAsAsked == Spec => NothingGoesUnasked
<1> DEFINE Inv == task = "settings" => SettingsInv
<1>1. Init => Inv
    BY Starts, SettingsBegin, BackgroundAssumption
<1>2. Inv /\ [Next]_allVars => Inv'
    BY Goes, SettingsStep, BackgroundAssumption
<1>3. Inv /\ [Next]_allVars => [task = "settings" => S!GoesAsAsked]_allVars
    BY Goes, PruneAsks, BackgroundAssumption
<1> QED BY <1>1, <1>2, <1>3, PTL DEF Spec, NothingGoesUnasked

(* updates._note_available: once a check has ended and none is running, a   *)
(* stored release that is newer than the running version has its event, and *)
(* one only if no two checks overlapped, for any number of threads.         *)
THEOREM ReleaseIsAnnounced == Spec => []AvailableIsAnnounced
<1> DEFINE Inv == task = "updates" => UpdatesInv /\ Alone
<1>1. Init => Inv
    BY Starts, UpdatesBegin, AloneBegin, BackgroundAssumption
<1>2. Inv /\ [Next]_allVars => Inv'
    BY Goes, UpdatesStep, AloneStep, BackgroundAssumption DEF UpdatesInv
<1>3. Inv => AvailableIsAnnounced
    BY UpdatesSafe DEF AvailableIsAnnounced, Alone, U!OneEventPerRelease
<1> QED BY <1>1, <1>2, <1>3, PTL DEF Spec

(* vendors.check_all: a row tells an answer that was understood and that    *)
(* fewer than FAILURES_BEFORE_UNKNOWN failures follow, or that it is not    *)
(* known, for any sequence of answers and settings.                        *)
THEOREM RowIsHonest == Spec => []RowTellsLastAnswers
<1> DEFINE Inv == task = "status" => StatusInv
<1>1. Init => Inv
    BY Starts, StatusBegin, BackgroundAssumption
<1>2. Inv /\ [Next]_allVars => Inv'
    BY Goes, StatusStep, BackgroundAssumption
<1>3. Inv => RowTellsLastAnswers
    BY StatusSafe, BackgroundAssumption DEF RowTellsLastAnswers
<1> QED BY <1>1, <1>2, <1>3, PTL DEF Spec

(* Poller._check_gone_windows: once a check has got through, a window is    *)
(* shown exactly if its newest event is no window_gone, for any polls,      *)
(* prunes, deaths and refused writes before and after it; its events take   *)
(* turns, and no row from before the last poll that saw the grant holds it *)
(* as a window.                                                            *)
THEOREM GoneIsToldOnce == Spec => []AbsenceIsToldOnce
<1> DEFINE Inv == task = "windows" => PresenceInv
<1>1. Init => Inv
    BY Starts, PresenceBegin, BackgroundAssumption
<1>2. Inv /\ [Next]_allVars => Inv'
    BY Goes, PresenceStep, BackgroundAssumption
<1>3. Inv => AbsenceIsToldOnce
    BY PresenceSafe DEF AbsenceIsToldOnce
<1> QED BY <1>1, <1>2, <1>3, PTL DEF Spec

(* credits.backfill_grants: at every stored sample, the newest grant row not *)
(* after it shows its grant and is less than a day old, once its poll or a  *)
(* start has taken it up; the page shows what the newest one named; and a   *)
(* level of an expiry is warned of once, for any grants, deaths and prunes. *)
THEOREM GrantsStayTrue == Spec => []GrantsAreFollowed
<1> DEFINE Inv == task = "grants" => GrantsInv
<1>1. Init => Inv
    BY Starts, GrantsBegin, BackgroundAssumption
<1>2. Inv /\ [Next]_allVars => Inv'
    BY Goes, GrantsStep, BackgroundAssumption
<1>3. Inv => GrantsAreFollowed
    BY GrantsSafe, BackgroundAssumption DEF GrantsAreFollowed
<1> QED BY <1>1, <1>2, <1>3, PTL DEF Spec

(* Store._migrate: the events are in the committed database at every moment, *)
(* an opened database is at the present version in all its parts, and a      *)
(* statement can fail only where another process migrates, too.              *)
THEOREM MigratesSafely == Spec => []MigrationsRecover
<1> DEFINE Inv == task = "migrations" => MigrationsInv
<1>1. Init => Inv
    BY Starts, MigrationsBegin, BackgroundAssumption
<1>2. Inv /\ [Next]_allVars => Inv'
    BY Goes, MigrationsStep, BackgroundAssumption
<1>3. Inv => MigrationsRecover
    BY Recovers, BackgroundAssumption DEF MigrationsRecover
<1> QED BY <1>1, <1>2, <1>3, PTL DEF Spec

(* store.events_after, export.rows and collapse_events: whatever is dated    *)
(* back, deleted, stored or pruned between two requests, a follower misses   *)
(* no event that is there and is given none twice, an export that ended      *)
(* holds every row that stayed, once and in order, and a row of the page's   *)
(* list stands for the events it counts, the newest boost among them.        *)
THEOREM NothingIsMissed == Spec => []ReadersMissNothing
<1> DEFINE Inv == /\ task = "events" => LogInv
                  /\ task = "samples" => ExportInv
<1>1. Init => Inv
    BY Starts, LogBegin, ExportBegin, BackgroundAssumption
<1>2. Inv /\ [Next]_allVars => Inv'
    BY Goes, LogStep, ExportStep, BackgroundAssumption
<1>3. Inv => ReadersMissNothing
    BY FollowerSafe, ListSafe, ExportSafe, BackgroundAssumption DEF ReadersMissNothing
<1> QED BY <1>1, <1>2, <1>3, PTL DEF Spec

(* credits.stretches, credits.backfill and dashboard._mark_credits: every    *)
(* run of spending in the stored rows has its event once a check has seen    *)
(* the newest row, each event is the start of a run that was in the rows at  *)
(* some time, and the bands, seconds and amount of every range say what the  *)
(* rows do, for any rows, deaths, failed polls and prunes, and any number   *)
(* of runs.                                                                 *)
THEOREM SpendingIsNeverMissed ==
    Spec => [](task = "credits" => C!SpendingIsRecorded /\ C!SpendingIsMeasured /\ AllAreRuns)
<1> DEFINE Inv == task = "credits" => CreditsInv
<1>1. Init => Inv
    BY Starts, CreditsBegin, BackgroundAssumption
<1>2. Inv /\ [Next]_allVars => Inv'
    BY Goes, CreditsStep, BackgroundAssumption
<1>3. Inv => (task = "credits" => C!SpendingIsRecorded /\ C!SpendingIsMeasured /\ AllAreRuns)
    BY CreditsSafe, BackgroundAssumption DEF CreditsInv
<1> QED BY <1>1, <1>2, <1>3, PTL DEF Spec

(* Poller._check_credits reads its 500 newest events only: it writes no      *)
(* start twice, and announces none twice, as long as there are no more.      *)
LooksBackOnAll == task = "credits" => Len(starts) <= EventsRecalled

THEOREM RunsAreToldOnce == Spec => [](LooksBackOnAll => EventsAreRuns)
<1> DEFINE Inv == task = "credits" => CreditsInv /\ OnceIfRecalled
<1>1. Init => Inv
    BY Starts, CreditsBegin, BackgroundAssumption DEF OnceIfRecalled
<1>2. Inv /\ [Next]_allVars => Inv'
    BY Goes, CreditsStep, BackgroundAssumption
<1>3. Inv => (LooksBackOnAll => EventsAreRuns)
    BY CreditsSafe, BackgroundAssumption DEF OnceIfRecalled, LooksBackOnAll, EventsAreRuns, C!EventsAreRuns
<1> QED BY <1>1, <1>2, <1>3, PTL DEF Spec
=============================================================================
