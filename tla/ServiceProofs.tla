---------------------------- MODULE ServiceProofs ----------------------------
(***************************************************************************)
(* With one command at a time, at most one server is ever past the pid     *)
(* file, and a serving one is the one both files name: for any number of   *)
(* processes, through crashes, stale files and the two writers of the pid  *)
(* file.  Without the assumption TLC refutes both.                         *)
(***************************************************************************)
EXTENDS Service, TLAPS

Starting(p) == proc[p] \in {"new", "free"}
Owns(p) == proc[p] \in Owning
Active(p) == Starting(p) \/ Owns(p)

(* An owner is on file, so whoever looks there later is refused.           *)
OwnersOnFile ==
    /\ \A p \in Pids : Owns(p) => pidfile = p
    /\ \A p \in Pids :
          proc[p] \in {"recorded", "announced", "serving", "closing"} => runtime = p

(* At most one process is on its way to the file without being named       *)
(* there, and one that has found the file free is the only one that is.    *)
OneComes ==
    /\ \A p, q \in Pids :
          Starting(p) /\ Starting(q) /\ pidfile # p /\ pidfile # q => p = q
    /\ \A p \in Pids : proc[p] = "free" => pidfile \in {p, NoOne}

(* A command in its course is about the only process there is.             *)
CommandAlone ==
    /\ admin.step = "spawn" => pidfile = NoOne /\ \A p \in Pids : ~Active(p)
    /\ admin.step \in {"record", "wait", "stop"} =>
          /\ pidfile \in {NoOne, admin.pid}
          /\ \A p \in Pids : Active(p) => p = admin.pid

IInv == TypeOK /\ OwnersOnFile /\ OneComes /\ CommandAlone

-----------------------------------------------------------------------------
LEMMA InitIInv == Init => IInv
  BY ServiceAssumption
     DEF Init, IInv, TypeOK, OwnersOnFile, OneComes, CommandAlone, Starting, Owns,
         Active, Owning

(* What one process does to the invariant, step by step.                   *)
LEMMA ServerIInv ==
    ASSUME ~Concurrent, IInv, NEW p \in Pids, Server(p) \/ Crash(p)
    PROVE  IInv'
  <1> USE ServiceAssumption
      DEF IInv, TypeOK, OwnersOnFile, OneComes, CommandAlone, Starting, Owns, Active,
          Owning, Goto, Say, Release
  <1>1. CASE Acquire(p)
    BY <1>1 DEF Acquire, Alive
  <1>2. CASE WritePid(p)
    BY <1>2 DEF WritePid
  <1>3. CASE ProbePort(p)
    BY <1>3 DEF ProbePort
  <1>4. CASE WriteRuntime(p)
    BY <1>4 DEF WriteRuntime
  <1>5. CASE WarnOfCookie(p)
    BY <1>5 DEF WarnOfCookie, files
  <1>6. CASE Announce(p)
    BY <1>6 DEF Announce, files
  <1>7. CASE Bind(p)
    BY <1>7 DEF Bind, files
  <1>8. CASE ShutDown(p)
    BY <1>8 DEF ShutDown, files
  <1>9. CASE CleanUp(p)
    BY <1>9 DEF CleanUp
  <1>10. CASE Exit(p)
    BY <1>10 DEF Exit, End, files
  <1>11. CASE Terminated(p)
    BY <1>11 DEF Terminated, End, files
  <1>12. CASE Crash(p)
    BY <1>12 DEF Crash, End, files
  <1> QED
    BY <1>1, <1>2, <1>3, <1>4, <1>5, <1>6, <1>7, <1>8, <1>9, <1>10, <1>11, <1>12
       DEF Server

(* What the commands do.                                                   *)
LEMMA CommandIInv ==
    ASSUME ~Concurrent, IInv,
           BeginStart \/ BeginStop \/ Command \/ \E p \in Pids : Serve(p)
    PROVE  IInv'
  <1> USE ServiceAssumption
      DEF IInv, TypeOK, OwnersOnFile, OneComes, CommandAlone, Starting, Owns, Active,
          Owning, Goto, Idle, Alive, Spawn, Unused
  <1>1. CASE BeginStart
    BY <1>1 DEF BeginStart, MayBegin, Unrecorded
  <1>2. CASE BeginStop
    BY <1>2 DEF BeginStop, MayBegin, Unrecorded
  <1>3. ASSUME NEW p \in Pids, Serve(p) PROVE IInv'
    BY <1>3 DEF Serve, MayBegin, Unrecorded, files
  <1>4. ASSUME NEW p \in Pids, SpawnChild(p) PROVE IInv'
    BY <1>4 DEF SpawnChild, files
  <1>5. CASE RecordChild
    BY <1>5 DEF RecordChild
  <1>6. CASE ChildDied
    BY <1>6 DEF ChildDied
  <1>7. CASE ChildSpoke
    BY <1>7 DEF ChildSpoke, files
  <1>8. CASE StartTimesOut
    BY <1>8 DEF StartTimesOut, files
  <1>9. CASE Stopped
    BY <1>9 DEF Stopped
  <1>10. CASE Kill
    BY <1>10 DEF Kill, End, files
  <1> QED
    BY <1>1, <1>2, <1>3, <1>4, <1>5, <1>6, <1>7, <1>8, <1>9, <1>10 DEF Command

LEMMA NextIInv == ~Concurrent /\ IInv /\ [Next]_vars => IInv'
  <1> SUFFICES ASSUME ~Concurrent, IInv, [Next]_vars PROVE IInv'
    OBVIOUS
  <1>1. CASE StrangersPort
    BY <1>1 DEF StrangersPort, files, IInv, TypeOK, OwnersOnFile, OneComes, CommandAlone,
        Starting, Owns, Active
  <1>2. CASE UNCHANGED vars
    BY <1>2 DEF vars, files, IInv, TypeOK, OwnersOnFile, OneComes, CommandAlone,
        Starting, Owns, Active
  <1> QED
    BY <1>1, <1>2, ServerIInv, CommandIInv DEF Next

(***************************************************************************)
(* "Refuse to run twice" (acquire_pid_file), and stop, status and restart  *)
(* address the server that serves (write_runtime).                         *)
(***************************************************************************)
THEOREM OneServer ==
    ASSUME ~Concurrent PROVE Spec => [](TypeOK /\ AtMostOneServer /\ ServingIsRecorded)
  <1>1. IInv => TypeOK /\ AtMostOneServer /\ ServingIsRecorded
    BY DEF IInv, OwnersOnFile, Owns, Owning, AtMostOneServer, ServingIsRecorded
  <1>2. IInv /\ [Next]_vars => IInv'
    BY NextIInv
  <1> QED
    BY <1>1, <1>2, InitIInv, PTL DEF Spec

(* stop, status and restart address the server that serves.                *)
THEOREM ServerIsOnRecord ==
    ASSUME ~Concurrent PROVE Spec => []ServingIsRecorded
  BY OneServer, PTL
=============================================================================
