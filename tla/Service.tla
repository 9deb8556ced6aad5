------------------------------- MODULE Service -------------------------------
(***************************************************************************)
(* The background service: `start`, `stop` and a foreground `serve`, the   *)
(* server processes they create, and what those share: the pid file, the   *)
(* runtime file, the port and the log (service.py, cmd_serve of cli.py).   *)
(* A process may crash at any step, and a stranger may hold the port.      *)
(*                                                                         *)
(* A pid is used again after its process died, but not while a file names  *)
(* it: a stale file that names somebody else's process is not modelled.    *)
(***************************************************************************)
EXTENDS Naturals

CONSTANTS
    Pids, NoOne,
    Stranger,   \* a program that may hold the port
    Concurrent  \* whether two commands, or a command and a foreground
                \* `serve` that is not recorded yet, may overlap

ASSUME ServiceAssumption ==
    /\ NoOne \notin Pids /\ Stranger \notin Pids /\ Stranger # NoOne
    /\ Concurrent \in BOOLEAN

VARIABLES
    proc,       \* how far each server process has got
    spoke,      \* pids that have written to the log since they were spawned
    signalled,  \* pids with a SIGTERM
    pidfile, runtime,   \* the pid each file names
    port,       \* who listens
    admin,      \* the command under way and the pid it is about
    ready       \* history: the pid the last `start` reported ready

vars == <<proc, spoke, signalled, pidfile, runtime, port, admin, ready>>
files == <<pidfile, runtime>>

Alive(p) == p # NoOne /\ proc[p] # "none"

\* Between acquiring the pid file and giving it back.
Owning == {"owner", "probed", "recorded", "announced", "serving", "closing"}

Init ==
    /\ proc = [p \in Pids |-> "none"]
    /\ spoke = {} /\ signalled = {}
    /\ pidfile = NoOne /\ runtime = NoOne
    /\ port \in {NoOne, Stranger}
    /\ admin = [step |-> "idle", pid |-> NoOne] /\ ready = NoOne

Goto(p, stage) == proc' = [proc EXCEPT ![p] = stage]
Say(p) == spoke' = spoke \cup {p}
Release(file, p) == IF file = p THEN NoOne ELSE file
Idle == [step |-> "idle", pid |-> NoOne]

-----------------------------------------------------------------------------
(* cmd_serve.                                                              *)

(* Fault: a server that is refused releases the file all the same.         *)
AcquireOrRelease(p) ==
    /\ proc[p] = "new"
    /\ pidfile' = IF Alive(pidfile) /\ pidfile = p THEN p ELSE NoOne
    /\ IF Alive(pidfile) /\ pidfile # p
       THEN Goto(p, "exiting") /\ Say(p)
       ELSE Goto(p, "free") /\ UNCHANGED spoke
    /\ UNCHANGED <<signalled, runtime, port, admin, ready>>

(* acquire_pid_file looks first: refuse if another one lives, and remove a *)
(* file whose process is gone.                                             *)
Acquire(p) ==
    /\ proc[p] = "new"
    /\ IF Alive(pidfile) /\ pidfile # p
       THEN Goto(p, "exiting") /\ Say(p) /\ UNCHANGED pidfile
       ELSE /\ Goto(p, "free") /\ UNCHANGED spoke
            /\ pidfile' = IF pidfile = p THEN p ELSE NoOne
    /\ UNCHANGED <<signalled, runtime, port, admin, ready>>

(* ... and then writes.                                                    *)
WritePid(p) ==
    /\ proc[p] = "free" /\ Goto(p, "owner")
    /\ pidfile' = p
    /\ UNCHANGED <<spoke, signalled, runtime, port, admin, ready>>

(* port_in_use: say who holds it, release the pid file, exit.              *)
ProbePort(p) ==
    /\ proc[p] = "owner"
    /\ IF port = NoOne
       THEN Goto(p, "probed") /\ UNCHANGED <<spoke, pidfile>>
       ELSE Goto(p, "exiting") /\ Say(p) /\ pidfile' = Release(pidfile, p)
    /\ UNCHANGED <<signalled, runtime, port, admin, ready>>

WriteRuntime(p) ==
    /\ proc[p] = "probed" /\ Goto(p, "recorded")
    /\ runtime' = p
    /\ UNCHANGED <<spoke, signalled, pidfile, port, admin, ready>>

(* What is wrong with the cookie is logged before the store is opened.     *)
WarnOfCookie(p) ==
    /\ proc[p] = "recorded" /\ Say(p)
    /\ UNCHANGED <<proc, signalled, files, port, admin, ready>>

(* The banner, after the store is open.  If opening it raises, the process *)
(* ends outside the try: both files stay.                                  *)
Announce(p) ==
    /\ proc[p] = "recorded"
    /\ Goto(p, "announced") \/ Goto(p, "exiting")
    /\ Say(p)
    /\ UNCHANGED <<signalled, files, port, admin, ready>>

(* uvicorn binds, or gives up because the port went in between.            *)
Bind(p) ==
    /\ proc[p] = "announced"
    /\ IF port = NoOne
       THEN Goto(p, "serving") /\ port' = p
       ELSE Goto(p, "closing") /\ UNCHANGED port
    /\ UNCHANGED <<spoke, signalled, files, admin, ready>>

ShutDown(p) ==
    /\ proc[p] = "serving" /\ p \in signalled
    /\ Goto(p, "closing") /\ port' = NoOne
    /\ UNCHANGED <<spoke, signalled, files, admin, ready>>

(* The finally: the store is closed, and each file removed if it is ours.  *)
CleanUp(p) ==
    /\ proc[p] = "closing" /\ Goto(p, "exiting")
    /\ runtime' = Release(runtime, p) /\ pidfile' = Release(pidfile, p)
    /\ UNCHANGED <<spoke, signalled, port, admin, ready>>

(* A process ends: by itself, by a signal before uvicorn handles signals,  *)
(* or by a crash, which leaves the files.                                  *)
End(p) ==
    /\ Goto(p, "none")
    /\ signalled' = signalled \ {p}
    /\ port' = IF port = p THEN NoOne ELSE port
    /\ UNCHANGED <<spoke, files, ready>>

Exit(p) == proc[p] = "exiting" /\ End(p) /\ UNCHANGED admin

Terminated(p) ==
    /\ p \in signalled /\ proc[p] \notin {"serving", "closing"}
    /\ End(p) /\ UNCHANGED admin

Crash(p) == Alive(p) /\ End(p) /\ UNCHANGED admin

-----------------------------------------------------------------------------
(* The commands.                                                           *)

Unrecorded == \E p \in Pids : proc[p] \in {"new", "free"} /\ pidfile # p
MayBegin == Concurrent \/ (admin.step = "idle" /\ ~Unrecorded)

Unused(p) == proc[p] = "none" /\ p # pidfile /\ p # runtime

Spawn(p) ==
    /\ Unused(p)
    /\ Goto(p, "new") /\ spoke' = spoke \ {p}

(* `serve` in a terminal.                                                  *)
Serve(p) ==
    /\ MayBegin /\ Spawn(p)
    /\ UNCHANGED <<signalled, files, port, admin, ready>>

(* start(): refuse if the recorded process lives.  There is a pid to spawn *)
(* with (Pids is the bound on processes).                                  *)
BeginStart ==
    /\ MayBegin /\ admin.step = "idle" /\ ~Alive(pidfile)
    /\ \E p \in Pids : Unused(p)
    /\ pidfile' = NoOne
    /\ admin' = [step |-> "spawn", pid |-> NoOne]
    /\ UNCHANGED <<proc, spoke, signalled, runtime, port, ready>>

SpawnChild(p) ==
    /\ admin.step = "spawn" /\ Spawn(p)
    /\ admin' = [step |-> "record", pid |-> p]
    /\ UNCHANGED <<signalled, files, port, ready>>

(* The parent writes the pid file too.                                     *)
RecordChild ==
    /\ admin.step = "record"
    /\ pidfile' = admin.pid
    /\ admin' = [admin EXCEPT !.step = "wait"]
    /\ UNCHANGED <<proc, spoke, signalled, runtime, port, ready>>

ChildDied ==
    /\ admin.step = "wait" /\ ~Alive(admin.pid)
    /\ pidfile' = NoOne /\ admin' = Idle
    /\ UNCHANGED <<proc, spoke, signalled, runtime, port, ready>>

(* The log has grown: "started".                                           *)
ChildSpoke ==
    /\ admin.step = "wait" /\ Alive(admin.pid) /\ admin.pid \in spoke
    /\ admin' = Idle /\ ready' = admin.pid
    /\ UNCHANGED <<proc, spoke, signalled, files, port>>

StartTimesOut ==
    /\ admin.step = "wait" /\ Alive(admin.pid) /\ admin.pid \notin spoke
    /\ admin' = Idle
    /\ UNCHANGED <<proc, spoke, signalled, files, port, ready>>

(* stop(): SIGTERM to the recorded process, if it lives.                   *)
BeginStop ==
    /\ MayBegin /\ admin.step = "idle"
    /\ IF Alive(pidfile)
       THEN /\ signalled' = signalled \cup {pidfile}
            /\ admin' = [step |-> "stop", pid |-> pidfile] /\ UNCHANGED pidfile
       ELSE pidfile' = NoOne /\ UNCHANGED <<signalled, admin>>
    /\ UNCHANGED <<proc, spoke, runtime, port, ready>>

(* Fault: the file is removed without waiting for the process to end.      *)
StoppedAtOnce ==
    /\ admin.step = "stop"
    /\ pidfile' = NoOne /\ admin' = Idle
    /\ UNCHANGED <<proc, spoke, signalled, runtime, port, ready>>

Stopped ==
    /\ admin.step = "stop" /\ ~Alive(admin.pid)
    /\ pidfile' = NoOne /\ admin' = Idle
    /\ UNCHANGED <<proc, spoke, signalled, runtime, port, ready>>

(* Fault: a process that ignores SIGTERM is waited for.                    *)
KillNever == FALSE

(* The deadline passed: SIGKILL.                                           *)
Kill ==
    /\ admin.step = "stop" /\ Alive(admin.pid)
    /\ End(admin.pid) /\ UNCHANGED admin

StrangersPort ==
    /\ port \in {NoOne, Stranger}
    /\ port' \in {NoOne, Stranger} \ {port}
    /\ UNCHANGED <<proc, spoke, signalled, files, admin, ready>>

Server(p) ==
    \/ Acquire(p)
    \/ WritePid(p)
    \/ ProbePort(p)
    \/ WriteRuntime(p)
    \/ WarnOfCookie(p)
    \/ Announce(p)
    \/ Bind(p)
    \/ ShutDown(p)
    \/ CleanUp(p)
    \/ Exit(p)
    \/ Terminated(p)

Command ==
    \/ \E p \in Pids : SpawnChild(p)
    \/ RecordChild
    \/ ChildDied
    \/ ChildSpoke
    \/ StartTimesOut
    \/ Stopped
    \/ Kill

Next ==
    \/ \E p \in Pids : Server(p)
    \/ \E p \in Pids : Crash(p)
    \/ \E p \in Pids : Serve(p)
    \/ BeginStart
    \/ BeginStop
    \/ Command
    \/ StrangersPort

Spec == Init /\ [][Next]_vars

(* A command under way goes on; a server owes it nothing.                  *)
FairSpec == Spec /\ WF_vars(Command)

-----------------------------------------------------------------------------
TypeOK ==
    /\ proc \in [Pids -> {"none", "new", "free", "exiting"} \cup Owning]
    /\ spoke \subseteq Pids /\ signalled \subseteq Pids
    /\ pidfile \in Pids \cup {NoOne} /\ runtime \in Pids \cup {NoOne}
    /\ port \in Pids \cup {NoOne, Stranger}
    /\ admin.step \in {"idle", "spawn", "record", "wait", "stop"}
    /\ IF admin.step \in {"idle", "spawn"} THEN admin.pid = NoOne ELSE admin.pid \in Pids
    /\ ready \in Pids \cup {NoOne}

(* "Refuse to run twice" (acquire_pid_file): no two servers are past the   *)
(* pid file at once, so one database never has two pollers, through        *)
(* crashes, stale files, failed starts and a stop that must kill.          *)
AtMostOneServer ==
    \A p, q \in Pids : proc[p] \in Owning /\ proc[q] \in Owning => p = q

(* `stop`, `status` and `restart` address this instance (write_runtime):   *)
(* while a server serves, both files name it, whichever of parent and      *)
(* child wrote the pid file last.                                          *)
ServingIsRecorded ==
    \A p \in Pids : proc[p] = "serving" => pidfile = p /\ runtime = p

(* A command comes back, even if the server hangs.                         *)
CommandsReturn == admin.step # "idle" ~> admin.step = "idle"

(* "A process that dies just after the sleep gets reported as started.     *)
(* Here a death is caught whenever it happens inside the window" (start):  *)
(* what is reported ready has got past the pid file and the port.          *)
ReadyMeansUp ==
    [][ready' # ready => proc[ready'] \in {"announced", "serving"}]_vars
=============================================================================
