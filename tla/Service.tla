------------------------------ MODULE Service ------------------------------
(***************************************************************************)
(* The life of the guest daemon: the rc script (start, stop and restart    *)
(* under its lock), the daemon's start-up and shutdown (main.go) and the   *)
(* takeover of the control socket (control_server.go).                     *)
(*                                                                         *)
(* The socket's path names nothing, a file that is no socket, a socket     *)
(* left behind by a process that died, or the socket of a live process,    *)
(* which refuses connections until that process listens on it.  Closing a  *)
(* listener and removing a stale socket both unlink whatever the path      *)
(* names at that moment.                                                   *)
(***************************************************************************)
EXTENDS Naturals, FiniteSets

CONSTANTS Pid,
          Script,           \* concurrent invocations of the rc script
          None,             \* no process
          Worlds            \* what may happen around the daemon

(* The daemon is started by the script or by hand; it may crash or not,    *)
(* and the PID file may be impossible to write.                            *)
World == [by : {"script", "hand"}, crashes : BOOLEAN, pidFileFails : BOOLEAN]

ASSUME ServiceAssumption ==
    /\ None \notin Pid /\ IsFiniteSet(Pid)
    /\ {"none", "file", "stale"} \cap Pid = {}
    /\ Worlds \subseteq World

VARIABLES
    world,
    proc,       \* the state of each process
    term,       \* processes that have been sent SIGTERM
    path,       \* what the control socket's path names
    pidFile,
    lock,       \* the scripts that hold the service lock
    script,     \* the rc scripts: their action, program counter and child
    overlapped  \* history: a daemon began to start while another was starting

vars == <<world, proc, term, path, pidFile, lock, script, overlapped>>

(* A process is free, a child of the script that has not executed the      *)
(* daemon yet, or a daemon: about to probe the socket, to remove it, to    *)
(* bind it, to listen on it, to set its mode; running with or without      *)
(* control API; or past its shutdown.                                      *)
Booting == {"probe", "remove", "bind", "listen", "chmod"}
Running == {"serving", "bare"}
Daemon == Booting \cup Running \cup {"exiting"}
Live == {p \in Pid : proc[p] \in Daemon}

Resting == [op |-> "none", at |-> "idle", pid |-> None]

TypeOK ==
    /\ world \in Worlds
    /\ proc \in [Pid -> {"free", "child"} \cup Daemon]
    /\ term \subseteq Pid
    /\ path \in {"none", "file", "stale"} \cup Pid
    /\ pidFile \in Pid \cup {None}
    /\ lock \subseteq Script /\ Cardinality(lock) <= 1
    /\ script \in [Script -> [op : {"none", "start", "stop", "restart"},
                              at : {"idle", "lock", "start", "spawn", "record", "verify",
                                    "stop", "await", "reap", "unlock"},
                              pid : Pid \cup {None}]]
    /\ overlapped \in BOOLEAN

(* A stale socket is what a crash leaves behind.                           *)
Init ==
    /\ world \in Worlds
    /\ proc = [p \in Pid |-> "free"] /\ term = {}
    /\ path \in {"none", "file"} \cup (IF world.crashes THEN {"stale"} ELSE {})
    /\ pidFile = None
    /\ lock = {} /\ script = [s \in Script |-> Resting] /\ overlapped = FALSE

scriptVars == <<world, pidFile, lock, script>>
Becomes(p, state) == proc' = [proc EXCEPT ![p] = state]

-----------------------------------------------------------------------------
(* The daemon.                                                             *)

(* serve up to startControlPlane.                                          *)
BeginStartup(p) ==
    /\ Becomes(p, "probe")
    /\ overlapped' = (overlapped \/ \E q \in Pid \ {p} : proc[q] \in Booting)

Exec(p) ==
    /\ proc[p] = "child" /\ BeginStartup(p)
    /\ UNCHANGED <<term, path, scriptVars>>

(* The end of a process.  Its socket stays behind unless it was unlinked.  *)
Gone(p) ==
    /\ Becomes(p, "free")
    /\ term' = term \ {p}
    /\ path' = IF path = p THEN "stale" ELSE path

(* prepareSocket.  A socket that answers is another instance, which is     *)
(* fatal; only a refused connection marks the socket for removal; other    *)
(* failures leave it where it is.  A file that is no socket costs the      *)
(* control API only.  The kernel refuses when nobody listens: the owner is *)
(* dead, has closed its files in dying, or has bound the socket and does   *)
(* not listen yet.                                                         *)
Refused_AnyFailure == path \notin {"none", "file"}
Refused == path = "stale" \/ (path \in Pid /\ proc[path] \in {"listen", "exiting"})
Answered == path \in Pid /\ proc[path] \in {"chmod", "serving", "exiting"}

Probe(p) ==
    /\ proc[p] = "probe"
    /\ \/ path = "none" /\ Becomes(p, "bind") /\ UNCHANGED <<term, path>>
       \/ path = "file" /\ Becomes(p, "bare") /\ UNCHANGED <<term, path>>
       \/ Answered /\ Gone(p)
       \/ Refused /\ Becomes(p, "remove") /\ UNCHANGED <<term, path>>
       \/ path \notin {"none", "file"} /\ Becomes(p, "bind") /\ UNCHANGED <<term, path>>
    /\ UNCHANGED <<overlapped, scriptVars>>

(* Remove the path, or fail and go on without control API.                 *)
RemoveStale(p) ==
    /\ proc[p] = "remove"
    /\ \/ Becomes(p, "bind") /\ path' = "none"
       \/ Becomes(p, "bare") /\ UNCHANGED path
    /\ UNCHANGED <<term, overlapped, scriptVars>>

(* net.Listen is bind(2) and then listen(2), which does not fail on a      *)
(* socket just bound.  An existing path is EADDRINUSE, another instance;   *)
(* any other failure costs the control API only.                           *)
Bind(p) ==
    /\ proc[p] = "bind"
    /\ \/ path = "none" /\ Becomes(p, "listen") /\ path' = p /\ UNCHANGED term
       \/ path # "none" /\ Gone(p)
       \/ Becomes(p, "bare") /\ UNCHANGED <<term, path>>
    /\ UNCHANGED <<overlapped, scriptVars>>

Listen(p) ==
    /\ proc[p] = "listen" /\ Becomes(p, "chmod")
    /\ UNCHANGED <<term, path, overlapped, scriptVars>>

(* Closing the listener unlinks its path.                                  *)
CloseListener(p, state) == Becomes(p, state) /\ path' = "none"

(* The mode is set through the path, whatever it names; on failure the     *)
(* listener is closed.                                                     *)
Chmod(p) ==
    /\ proc[p] = "chmod"
    /\ \/ path # "none" /\ Becomes(p, "serving") /\ UNCHANGED path
       \/ CloseListener(p, "bare")
    /\ UNCHANGED <<term, overlapped, scriptVars>>

(* A later failure of the listener does not stop the data plane.           *)
ServeFails(p) ==
    /\ proc[p] = "serving" /\ CloseListener(p, "bare")
    /\ UNCHANGED <<term, overlapped, scriptVars>>

(* SIGTERM: publishSnapshots returns, control.stop closes the listener and *)
(* waits for requests, for a bounded time.                                 *)
Shutdown(p) ==
    /\ p \in term
    /\ \/ proc[p] = "serving" /\ CloseListener(p, "exiting")
       \/ proc[p] = "bare" /\ Becomes(p, "exiting") /\ UNCHANGED path
    /\ UNCHANGED <<term, overlapped, scriptVars>>

Exit(p) ==
    /\ proc[p] = "exiting" /\ Gone(p)
    /\ UNCHANGED <<overlapped, scriptVars>>

(* Before the daemon's handlers are installed SIGTERM just kills.          *)
KilledInStartup(p) ==
    /\ p \in term /\ proc[p] \in {"child", "probe"} /\ Gone(p)
    /\ UNCHANGED <<overlapped, scriptVars>>

Crash(p) ==
    /\ world.crashes /\ p \in Live /\ Gone(p)
    /\ UNCHANGED <<overlapped, scriptVars>>

(* Somebody runs the binary by hand, and stops it.                         *)
StartDirectly(p) ==
    /\ world.by = "hand" /\ proc[p] = "free" /\ BeginStartup(p)
    /\ UNCHANGED <<term, path, scriptVars>>

Interrupt(p) ==
    /\ world.by = "hand" /\ p \in Live \ term
    /\ term' = term \cup {p}
    /\ UNCHANGED <<proc, path, overlapped, scriptVars>>

-----------------------------------------------------------------------------
(* The rc script.                                                          *)

Goto(s, at) == script' = [script EXCEPT ![s].at = at]

(* running_pid: the PID file names a live process that executes the daemon.*)
IsRunning(p) == p # None /\ proc[p] \in Daemon

Call(s) ==
    /\ world.by = "script" /\ script[s].at = "idle"
    /\ \E op \in {"start", "stop", "restart"} :
          script' = [script EXCEPT ![s].op = op, ![s].at = "lock"]
    /\ UNCHANGED <<world, overlapped, proc, term, path, pidFile, lock>>

MayLock_Always == TRUE
MayLock == lock = {}

Lock(s) ==
    /\ script[s].at = "lock" /\ MayLock
    /\ lock' = lock \cup {s}
    /\ Goto(s, IF script[s].op = "start" THEN "start" ELSE "stop")
    /\ UNCHANGED <<world, overlapped, proc, term, path, pidFile>>

Unlock_HeldByChild(s) ==
    /\ script[s].at = "unlock"
    /\ lock' = IF script[s].pid = None THEN lock \ {s} ELSE lock
    /\ script' = [script EXCEPT ![s] = Resting]
    /\ UNCHANGED <<world, overlapped, proc, term, path, pidFile>>
Unlock(s) ==
    /\ script[s].at = "unlock"
    /\ lock' = lock \ {s}
    /\ script' = [script EXCEPT ![s] = Resting]
    /\ UNCHANGED <<world, overlapped, proc, term, path, pidFile>>

(* start: nothing to do when running; otherwise forget the PID file, and   *)
(* give up on an invalid configuration.                                    *)
StartCheck(s) ==
    /\ script[s].at = "start"
    /\ IF IsRunning(pidFile)
       THEN Goto(s, "unlock") /\ UNCHANGED pidFile
       ELSE /\ pidFile' = None
            /\ Goto(s, "spawn") \/ Goto(s, "unlock")
    /\ UNCHANGED <<world, overlapped, proc, term, path, lock>>

Spawn(s) ==
    /\ script[s].at = "spawn"
    /\ \E p \in Pid :
          /\ proc[p] = "free" /\ Becomes(p, "child")
          /\ script' = [script EXCEPT ![s].pid = p, ![s].at = "record"]
    /\ UNCHANGED <<world, overlapped, term, path, pidFile, lock>>

SendTerm(p) == term' = IF proc[p] = "free" THEN term ELSE term \cup {p}

(* A child whose PID cannot be recorded is told to stop, not waited for.   *)
RecordPid(s) ==
    /\ script[s].at = "record"
    /\ \/ pidFile' = script[s].pid /\ Goto(s, "verify") /\ UNCHANGED term
       \/ /\ world.pidFileFails
          /\ SendTerm(script[s].pid) /\ Goto(s, "unlock") /\ UNCHANGED pidFile
    /\ UNCHANGED <<world, overlapped, proc, path, lock>>

(* After one second, in which the child has executed the daemon, the       *)
(* daemon must be running.                                                 *)
Verify(s) ==
    /\ script[s].at = "verify" /\ proc[script[s].pid] # "child"
    /\ Goto(s, "unlock")
    /\ IF IsRunning(script[s].pid)
       THEN UNCHANGED <<term, pidFile>>
       ELSE SendTerm(script[s].pid) /\ pidFile' = None
    /\ UNCHANGED <<world, overlapped, proc, path, lock>>

AfterStop(s) == IF script[s].op = "restart" THEN "start" ELSE "unlock"

StopCheck(s) ==
    /\ script[s].at = "stop"
    /\ IF IsRunning(pidFile)
       THEN /\ SendTerm(pidFile)
            /\ script' = [script EXCEPT ![s].pid = pidFile, ![s].at = "await"]
            /\ UNCHANGED pidFile
       ELSE /\ pidFile' = None /\ Goto(s, AfterStop(s))
            /\ UNCHANGED term
    /\ UNCHANGED <<world, overlapped, proc, path, lock>>

(* The poll loops: until the process is gone, or the grace is over; then   *)
(* SIGKILL and a last wait.                                                *)
Stopped_AtOnce(s) == TRUE
Stopped(s) == ~IsRunning(script[s].pid)

Await(s) ==
    /\ script[s].at \in {"await", "reap"} /\ Stopped(s)
    /\ pidFile' = None
    /\ script' = [script EXCEPT ![s].pid = None, ![s].at = AfterStop(s)]
    /\ UNCHANGED <<world, overlapped, proc, term, path, lock>>

(* A process in a system call dies only when the call returns.             *)
SendKill(s) ==
    /\ script[s].at = "await" /\ ~Stopped(s)
    /\ \/ Gone(script[s].pid)
       \/ Becomes(script[s].pid, "exiting") /\ UNCHANGED <<term, path>>
    /\ Goto(s, "reap")
    /\ UNCHANGED <<world, overlapped, pidFile, lock>>

GiveUp(s) ==
    /\ script[s].at = "reap" /\ ~Stopped(s)
    /\ Goto(s, "unlock")
    /\ UNCHANGED <<world, overlapped, proc, term, path, pidFile, lock>>

-----------------------------------------------------------------------------
DaemonStep(p) ==
    \/ Exec(p) \/ Probe(p) \/ RemoveStale(p) \/ Bind(p) \/ Listen(p) \/ Chmod(p)
    \/ Shutdown(p) \/ Exit(p) \/ KilledInStartup(p)

ScriptStep(s) ==
    \/ Lock(s) \/ Unlock(s) \/ StartCheck(s) \/ Spawn(s) \/ RecordPid(s) \/ Verify(s)
    \/ StopCheck(s) \/ Await(s) \/ SendKill(s) \/ GiveUp(s)

Next ==
    \/ \E p \in Pid : DaemonStep(p) \/ ServeFails(p) \/ Crash(p)
                     \/ StartDirectly(p) \/ Interrupt(p)
    \/ \E s \in Script : Call(s) \/ ScriptStep(s)

Spec == Init /\ [][Next]_vars

(* Processes run, and a script that waits for the lock gets its turn.      *)
FairSpec ==
    /\ Spec
    /\ \A p \in Pid : WF_vars(DaemonStep(p))
    /\ \A s \in Script : WF_vars(ScriptStep(s)) /\ SF_vars(Lock(s))

-----------------------------------------------------------------------------
(* With the script as the only way to start it there is one daemon at most,*)
(* whatever starts, stops and restarts run at once, and whichever of them  *)
(* time out.                                                               *)
Scripted == world.by = "script" /\ ~world.pidFileFails

OneDaemon == Scripted => Cardinality({p \in Pid : proc[p] # "free"}) <= 1

(* A daemon that serves the control API is reachable: the socket's path    *)
(* names its socket, which no other start, stop or crash has removed.      *)
(* This is so with the script, and with any daemons none of which started  *)
(* while another was starting, whatever dies and leaves a socket behind.   *)
(* Two that start at once may remove each other's: the second is refused   *)
(* by a stale socket that the first is about to replace, or by the socket  *)
(* that the first has bound and does not listen on yet.                    *)
SocketOwned ==
    Scripted \/ ~overlapped => \A p \in Pid : proc[p] = "serving" => path = p

(* A daemon that has not been told to stop is the one in the PID file, so  *)
(* that stop and poll reach it.                                            *)
PidFileKnows ==
    world.by = "script" =>
        \A p \in Pid : proc[p] \in Running /\ p \notin term /\ lock = {} => pidFile = p

(* Every operation ends: the lock is not lost to a daemon, and no script   *)
(* waits for ever for a process or for another script.                     *)
OperationsEnd == \A s \in Script : script[s].at # "idle" ~> script[s].at = "idle"

(* Service operations that run at once leave one daemon at most, and the   *)
(* PID file leads to it.                                                   *)
OneKnownDaemon == TypeOK /\ OneDaemon /\ PidFileKnows

=============================================================================
