---------------------------- MODULE ServiceProofs ----------------------------
(***************************************************************************)
(* The daemon's life: the safety properties of Service for any number of   *)
(* processes and of scripts, and in every world the assumption admits; and *)
(* those of Diagnostics, the report that a daemon leaves behind, for any   *)
(* disks, intervals and timeouts, any number of restarts and of reports.   *)
(***************************************************************************)
EXTENDS Service, Diagnostics, FiniteSetTheorems, TLAPS

Critical == {"start", "spawn", "record", "verify", "stop", "await", "reap", "unlock"}

(* The lock has one holder: the one script inside the critical section.    *)
LockInv ==
    /\ lock = {} \/ \E s \in Script : lock = {s}
    /\ \A s \in Script : s \in lock <=> script[s].at \in Critical

(* What the PID file holds at each point of a script.                      *)
ScriptInv ==
    \A s \in Script :
        /\ world.by = "hand" => script[s].at = "idle"
        /\ script[s].at \in {"spawn", "record"} => pidFile = None
        /\ script[s].at \in {"record", "verify", "await", "reap"} => script[s].pid \in Pid
        /\ script[s].at \in {"verify", "await", "reap"} => pidFile = script[s].pid

(* A process that a script started is in the PID file or about to be,      *)
(* unless that failed and the process was told to stop; and its script     *)
(* still holds the lock while it has not executed the daemon.              *)
Excused(p) == world.pidFileFails /\ p \in term
Handled(p, ats) == \E s \in Script : script[s].at \in ats /\ script[s].pid = p
KnownInv ==
    world.by = "script" => \A p \in Pid :
        /\ proc[p] # "free" => Excused(p) \/ pidFile = p \/ Handled(p, {"record"})
        /\ proc[p] = "child" => Excused(p) \/ Handled(p, {"record", "verify"})

(* The path names the socket of the daemon that has bound it, as long as   *)
(* no two daemons have been starting at once: the one that starts removes  *)
(* a socket only when none is bound.                                       *)
Bound == {p \in Pid : proc[p] \in {"listen", "chmod", "serving"}}

Orderly ==
    /\ \A p, q \in Pid : proc[p] \in Booting /\ proc[q] \in Booting => p = q
    /\ \A p \in Bound : path = p
    /\ \A p \in Pid : proc[p] = "remove" => Bound = {}

PathInv == (Scripted => ~overlapped) /\ (~overlapped => Orderly)

IndInv == TypeOK /\ LockInv /\ ScriptInv /\ KnownInv /\ PathInv

-----------------------------------------------------------------------------
State == {"free", "child"} \cup Daemon
Ats == {"idle", "lock", "start", "spawn", "record", "verify", "stop", "await", "reap", "unlock"}
ScriptType == [op : {"none", "start", "stop", "restart"}, at : Ats, pid : Pid \cup {None}]
PathType == {"none", "file", "stale"} \cup Pid

(* The conjuncts of the type invariant.                                    *)
Typed ==
    /\ world \in Worlds /\ proc \in [Pid -> State] /\ term \subseteq Pid /\ path \in PathType
    /\ pidFile \in Pid \cup {None} /\ lock \subseteq Script /\ Cardinality(lock) <= 1
    /\ script \in [Script -> ScriptType] /\ overlapped \in BOOLEAN

(* The type invariant is these conjuncts.                                  *)
LEMMA Types == (TypeOK <=> Typed) /\ (TypeOK' <=> Typed')
BY DEF TypeOK, Typed, State, Ats, ScriptType, PathType

(* The states of a process.                                                *)
LEMMA States ==
    /\ State = {"free", "child", "probe", "remove", "bind", "listen", "chmod",
                "serving", "bare", "exiting"}
    /\ Daemon = {"probe", "remove", "bind", "listen", "chmod", "serving", "bare", "exiting"}
BY DEF State, Daemon, Booting, Running

(* The steps of one process.                                               *)
ProcessStep(p) == DaemonStep(p) \/ ServeFails(p) \/ Crash(p) \/ StartDirectly(p) \/ Interrupt(p)

(* A process changes its own state, keeps its signal until it ends, and    *)
(* leaves the scripts alone.                                               *)
Moves(p) ==
    /\ proc' \in [Pid -> State] /\ term' \subseteq Pid /\ path' \in PathType
    /\ \A q \in Pid \ {p} : proc'[q] = proc[q] /\ (q \in term' <=> q \in term)
    /\ \/ proc'[p] = "free"
       \/ /\ proc[p] # "free" \/ world.by = "hand"
          /\ proc'[p] # "child" \/ proc[p] = "child"
          /\ p \in term => p \in term'

(* The end of a process.                                                   *)
LEMMA GoneMoves ==
    ASSUME TypeOK, NEW p \in Pid, Gone(p)
    PROVE  /\ Moves(p) /\ proc'[p] = "free"
           /\ path' = path \/ (path = p /\ path' = "stale")
BY Types, States DEF Typed, Gone, Becomes, Moves, PathType

(* Every step of a process is such a move.                                 *)
LEMMA ProcessMoves ==
    ASSUME TypeOK, NEW p \in Pid, ProcessStep(p)
    PROVE  Moves(p) /\ UNCHANGED scriptVars /\ overlapped' \in BOOLEAN
<1>a. proc \in [Pid -> State] /\ term \subseteq Pid /\ path \in PathType
  BY Types DEF Typed
<1>1. ASSUME NEW st \in State, st # "child", Becomes(p, st), path' \in PathType, term' = term,
             proc[p] # "free" \/ world.by = "hand"
      PROVE  Moves(p)
  BY <1>1, <1>a DEF Becomes, Moves
<1>2. UNCHANGED scriptVars
  BY DEF ProcessStep, DaemonStep, Exec, Probe, RemoveStale, Bind, Listen, Chmod, Shutdown, Exit,
         KilledInStartup, ServeFails, Crash, StartDirectly, Interrupt
<1>9. overlapped' \in BOOLEAN
  <2>1. overlapped \in BOOLEAN
    BY Types DEF Typed
  <2> QED
    BY <2>1 DEF ProcessStep, DaemonStep, Exec, Probe, RemoveStale, Bind, Listen, Chmod, Shutdown,
                Exit, KilledInStartup, ServeFails, Crash, StartDirectly, Interrupt, BeginStartup
<1>3. "none" \in PathType /\ p \in PathType
  BY DEF PathType
<1>4. CASE Exec(p) \/ Probe(p) \/ RemoveStale(p) \/ Bind(p)
  BY <1>1, <1>2, <1>3, <1>4, <1>9, <1>a, GoneMoves, States
     DEF Exec, Probe, RemoveStale, Bind, BeginStartup
<1>5. CASE Listen(p) \/ Chmod(p) \/ Shutdown(p) \/ ServeFails(p)
  BY <1>1, <1>2, <1>3, <1>5, <1>9, <1>a, States
     DEF Listen, Chmod, Shutdown, ServeFails, CloseListener
<1>6. CASE Exit(p) \/ KilledInStartup(p) \/ Crash(p)
  BY <1>2, <1>6, <1>9, GoneMoves DEF Exit, KilledInStartup, Crash
<1>7. CASE StartDirectly(p)
  BY <1>1, <1>2, <1>7, <1>9, <1>a, States DEF StartDirectly, BeginStartup
<1>8. CASE Interrupt(p)
  BY <1>2, <1>8, <1>9, <1>a, States DEF Interrupt, Moves, Live
<1> QED
  BY <1>2, <1>4, <1>5, <1>6, <1>7, <1>8, <1>9 DEF ProcessStep, DaemonStep

(* A script changes its own record only.                                   *)
LEMMA ScriptMoves ==
    ASSUME TypeOK, NEW s \in Script, Call(s) \/ ScriptStep(s)
    PROVE  /\ script' \in [Script -> ScriptType]
           /\ \A t \in Script \ {s} : script'[t] = script[t]
           /\ world' = world /\ overlapped' = overlapped
<1>a. script \in [Script -> ScriptType] /\ pidFile \in Pid \cup {None}
  BY Types DEF Typed
<1>b. ASSUME NEW r \in ScriptType, script' = [script EXCEPT ![s] = r]
      PROVE  /\ script' \in [Script -> ScriptType]
             /\ \A t \in Script \ {s} : script'[t] = script[t]
  BY <1>a, <1>b
<1>c. ASSUME Spawn(s)
      PROVE  /\ script' \in [Script -> ScriptType]
             /\ \A t \in Script \ {s} : script'[t] = script[t]
  <2>1. PICK p \in Pid : script' = [script EXCEPT ![s].pid = p, ![s].at = "record"]
    BY <1>c DEF Spawn
  <2>2. [script[s] EXCEPT !.pid = p, !.at = "record"] \in ScriptType
    BY <1>a DEF ScriptType, Ats
  <2>3. script' = [script EXCEPT ![s] = [script[s] EXCEPT !.pid = p, !.at = "record"]]
    BY <2>1
  <2> QED
    BY <2>2, <2>3, <1>b
<1>1. ASSUME NEW at \in Ats, Goto(s, at)
      PROVE  /\ script' \in [Script -> ScriptType]
             /\ \A t \in Script \ {s} : script'[t] = script[t]
  BY <1>1, <1>a DEF Goto, ScriptType
<1>2. AfterStop(s) \in Ats
  BY DEF AfterStop, Ats
<1>3. Resting \in ScriptType
  BY DEF Resting, ScriptType, Ats
<1>d. world' = world /\ overlapped' = overlapped
  BY DEF Call, ScriptStep, Lock, Unlock, StartCheck, Spawn, RecordPid, Verify, StopCheck,
         Await, SendKill, GiveUp
<1>4. CASE Call(s) \/ Unlock(s) \/ Spawn(s)
  <2>1. CASE Call(s)
    BY <2>1, <1>a DEF Call, ScriptType, Ats
  <2>2. CASE Unlock(s)
    BY <2>2, <1>3, <1>a DEF Unlock
  <2> QED
    BY <1>4, <1>c, <1>d, <2>1, <2>2
<1>5. CASE Lock(s) \/ StartCheck(s) \/ RecordPid(s) \/ Verify(s) \/ SendKill(s) \/ GiveUp(s)
  BY <1>5, <1>1 DEF Ats, Lock, StartCheck, RecordPid, Verify, SendKill, GiveUp
<1>6. CASE StopCheck(s) \/ Await(s)
  BY <1>6, <1>1, <1>2, <1>a DEF StopCheck, Await, ScriptType, Ats
<1> QED
  BY <1>4, <1>5, <1>6, <1>d DEF ScriptStep

(* Where each step of a script leads from and to.                          *)
LEMMA ScriptPaths ==
    ASSUME TypeOK, NEW s \in Script
    PROVE  /\ Call(s) => script[s].at = "idle" /\ script'[s].at = "lock" /\ world.by = "script"
           /\ Lock(s) => script[s].at = "lock" /\ script'[s].at \in {"start", "stop"}
           /\ Unlock(s) => script[s].at = "unlock" /\ script'[s].at = "idle"
           /\ StartCheck(s) => script[s].at = "start" /\ script'[s].at \in {"spawn", "unlock"}
           /\ Spawn(s) => script[s].at = "spawn" /\ script'[s].at = "record"
           /\ RecordPid(s) => /\ script[s].at = "record" /\ script'[s].at \in {"verify", "unlock"}
                              /\ script'[s].pid = script[s].pid
           /\ Verify(s) => script[s].at = "verify" /\ script'[s].at = "unlock"
           /\ StopCheck(s) => /\ script[s].at = "stop"
                              /\ script'[s].at \in {"await", "start", "unlock"}
           /\ Await(s) => /\ script[s].at \in {"await", "reap"}
                           /\ script'[s].at \in {"start", "unlock"}
           /\ SendKill(s) => /\ script[s].at = "await" /\ script'[s].at = "reap"
                             /\ script'[s].pid = script[s].pid
           /\ GiveUp(s) => script[s].at = "reap" /\ script'[s].at = "unlock"
<1>a. script \in [Script -> ScriptType]
  BY Types DEF Typed
<1> USE <1>a DEF ScriptType, Goto
<1>1. Call(s) => script[s].at = "idle" /\ script'[s].at = "lock" /\ world.by = "script"
  BY DEF Call
<1>2. Lock(s) => script[s].at = "lock" /\ script'[s].at \in {"start", "stop"}
  BY DEF Lock
<1>3. Unlock(s) => script[s].at = "unlock" /\ script'[s].at = "idle"
  BY DEF Unlock, Resting
<1>4. StartCheck(s) => script[s].at = "start" /\ script'[s].at \in {"spawn", "unlock"}
  BY DEF StartCheck
<1>5. Spawn(s) => script[s].at = "spawn" /\ script'[s].at = "record"
  BY DEF Spawn
<1>6. RecordPid(s) => /\ script[s].at = "record" /\ script'[s].at \in {"verify", "unlock"}
                      /\ script'[s].pid = script[s].pid
  BY DEF RecordPid
<1>7. Verify(s) => script[s].at = "verify" /\ script'[s].at = "unlock"
  BY DEF Verify
<1>8. StopCheck(s) => script[s].at = "stop" /\ script'[s].at \in {"await", "start", "unlock"}
  BY DEF StopCheck, AfterStop
<1>9. Await(s) => script[s].at \in {"await", "reap"} /\ script'[s].at \in {"start", "unlock"}
  BY DEF Await, AfterStop
<1>10. SendKill(s) => /\ script[s].at = "await" /\ script'[s].at = "reap"
                      /\ script'[s].pid = script[s].pid
  BY DEF SendKill
<1>11. GiveUp(s) => script[s].at = "reap" /\ script'[s].at = "unlock"
  BY DEF GiveUp
<1> QED
  BY <1>1, <1>2, <1>3, <1>4, <1>5, <1>6, <1>7, <1>8, <1>9, <1>10, <1>11

-----------------------------------------------------------------------------
(* One script at a time is inside the critical section.                    *)
LEMMA Alone ==
    ASSUME LockInv, NEW s \in Script, NEW t \in Script,
           script[s].at \in Critical, script[t].at \in Critical
    PROVE  s = t
BY DEF LockInv

(* The lock is taken and released with the critical section.               *)
LEMMA LockStep == TypeOK /\ LockInv /\ [Next]_vars => LockInv'
<1> SUFFICES ASSUME TypeOK, LockInv, [Next]_vars PROVE LockInv'
  OBVIOUS
<1>a. ASSUME UNCHANGED <<lock, script>> PROVE LockInv'
  BY <1>a DEF LockInv
<1>b. ASSUME NEW s \in Script, lock' = lock, \A t \in Script \ {s} : script'[t] = script[t],
             script'[s].at \in Critical <=> script[s].at \in Critical
      PROVE  LockInv'
  BY <1>b DEF LockInv
<1>1. ASSUME NEW p \in Pid, ProcessStep(p) PROVE LockInv'
  BY <1>1, <1>a, ProcessMoves DEF scriptVars
<1>2. ASSUME NEW s \in Script, Lock(s) PROVE LockInv'
  <2>1. lock = {} /\ lock' = {s}
    BY <1>2 DEF Lock, MayLock
  <2>2. script'[s].at \in Critical /\ \A t \in Script \ {s} : script'[t] = script[t]
    BY <1>2, ScriptMoves, ScriptPaths DEF ScriptStep, Critical
  <2> QED
    BY <2>1, <2>2 DEF LockInv
<1>3. ASSUME NEW s \in Script, Unlock(s) PROVE LockInv'
  <2>1. lock' = lock \ {s} /\ script[s].at \in Critical
    BY <1>3 DEF Unlock, Critical
  <2>2. script'[s].at \notin Critical /\ \A t \in Script \ {s} : script'[t] = script[t]
    BY <1>3, ScriptMoves, ScriptPaths DEF ScriptStep, Critical
  <2> QED
    BY <2>1, <2>2 DEF LockInv
<1>4. ASSUME NEW s \in Script,
             \/ Call(s) \/ StartCheck(s) \/ Spawn(s) \/ RecordPid(s) \/ Verify(s)
             \/ StopCheck(s) \/ Await(s) \/ SendKill(s) \/ GiveUp(s)
      PROVE  LockInv'
  <2>1. \A t \in Script \ {s} : script'[t] = script[t]
    BY <1>4, ScriptMoves DEF ScriptStep
  <2>2. script'[s].at \in Critical <=> script[s].at \in Critical
    BY <1>4, ScriptPaths DEF Critical
  <2>3. lock' = lock
    BY <1>4 DEF Call, StartCheck, Spawn, RecordPid, Verify, StopCheck, Await, SendKill, GiveUp
  <2> QED
    BY <1>b, <2>1, <2>2, <2>3
<1>5. CASE UNCHANGED vars
  BY <1>5, <1>a DEF vars
<1> QED
  BY <1>1, <1>2, <1>3, <1>4, <1>5 DEF Next, ScriptStep, ProcessStep

(* The PID file changes in the critical section only.                      *)
LEMMA ScriptInvStep == TypeOK /\ LockInv /\ ScriptInv /\ [Next]_vars => ScriptInv'
<1> SUFFICES ASSUME TypeOK, LockInv, ScriptInv, [Next]_vars PROVE ScriptInv'
  OBVIOUS
<1>a. ASSUME UNCHANGED <<world, pidFile, script>> PROVE ScriptInv'
  BY <1>a DEF ScriptInv
<1>b. pidFile \in Pid \cup {None} /\ script \in [Script -> ScriptType] /\ None \notin Pid
  BY Types, ServiceAssumption DEF Typed
<1> DEFINE Own(s) == /\ world'.by = "hand" => script'[s].at = "idle"
                     /\ script'[s].at \in {"spawn", "record"} => pidFile' = None
                     /\ script'[s].at \in {"record", "verify", "await", "reap"} =>
                           script'[s].pid \in Pid
                     /\ script'[s].at \in {"verify", "await", "reap"} =>
                           pidFile' = script'[s].pid
<1>1. ASSUME NEW p \in Pid, ProcessStep(p) PROVE ScriptInv'
  BY <1>1, <1>a, ProcessMoves DEF scriptVars
<1>2. ASSUME NEW s \in Script, Call(s) \/ ScriptStep(s), Own(s),
             pidFile' = pidFile \/ script[s].at \in Critical
      PROVE  ScriptInv'
  <2>1. world' = world /\ \A t \in Script \ {s} : script'[t] = script[t]
    BY <1>2, ScriptMoves
  <2>2. ASSUME NEW t \in Script \ {s}, script[t].at \in Critical PROVE pidFile' = pidFile
    BY <1>2, <2>2, Alone
  <2> QED
    BY <1>2, <2>1, <2>2 DEF ScriptInv, Critical
<1>3. ASSUME NEW s \in Script, Call(s) \/ Lock(s) \/ Unlock(s) \/ GiveUp(s)
      PROVE  ScriptInv'
  <2>1. Own(s)
    BY <1>3, ScriptPaths, ScriptMoves DEF ScriptStep, ScriptInv
  <2>2. pidFile' = pidFile
    BY <1>3 DEF Call, Lock, Unlock, GiveUp
  <2> QED
    BY <1>2, <1>3, <2>1, <2>2 DEF ScriptStep
<1>4. ASSUME NEW s \in Script, StartCheck(s) PROVE ScriptInv'
  <2>1. script'[s].at = "spawn" => pidFile' = None
    BY <1>4, <1>b DEF StartCheck, Goto, ScriptType
  <2>2. Own(s) /\ script[s].at \in Critical
    BY <1>4, <2>1, ScriptPaths, ScriptMoves DEF ScriptStep, ScriptInv, Critical
  <2> QED
    BY <1>2, <1>4, <2>2 DEF ScriptStep
<1>5. ASSUME NEW s \in Script, Spawn(s) PROVE ScriptInv'
  <2>1. script'[s].pid \in Pid /\ pidFile' = pidFile
    BY <1>5, <1>b DEF Spawn, ScriptType
  <2>2. Own(s)
    BY <1>5, <2>1, ScriptPaths, ScriptMoves DEF ScriptStep, ScriptInv
  <2> QED
    BY <1>2, <1>5, <2>1, <2>2 DEF ScriptStep
<1>6. ASSUME NEW s \in Script, RecordPid(s) PROVE ScriptInv'
  <2>1. script'[s].at = "verify" => pidFile' = script[s].pid
    BY <1>6, <1>b DEF RecordPid, Goto, ScriptType
  <2>2. Own(s) /\ script[s].at \in Critical
    BY <1>6, <2>1, ScriptPaths, ScriptMoves DEF ScriptStep, ScriptInv, Critical
  <2> QED
    BY <1>2, <1>6, <2>2 DEF ScriptStep
<1>7. ASSUME NEW s \in Script, Verify(s) \/ Await(s) PROVE ScriptInv'
  <2>1. Own(s) /\ script[s].at \in Critical
    BY <1>7, ScriptPaths, ScriptMoves DEF ScriptStep, ScriptInv, Critical
  <2> QED
    BY <1>2, <1>7, <2>1 DEF ScriptStep
<1>8. ASSUME NEW s \in Script, StopCheck(s) PROVE ScriptInv'
  <2>1. script'[s].at = "await" => pidFile' = pidFile /\ script'[s].pid = pidFile /\ pidFile # None
    BY <1>8, <1>b DEF StopCheck, Goto, AfterStop, ScriptType, IsRunning
  <2>2. Own(s) /\ script[s].at \in Critical
    BY <1>8, <1>b, <2>1, ScriptPaths, ScriptMoves DEF ScriptStep, ScriptInv, Critical
  <2> QED
    BY <1>2, <1>8, <2>2 DEF ScriptStep
<1>9. ASSUME NEW s \in Script, SendKill(s) PROVE ScriptInv'
  <2>1. pidFile' = pidFile
    BY <1>9 DEF SendKill
  <2>2. Own(s)
    BY <1>9, <2>1, ScriptPaths, ScriptMoves DEF ScriptStep, ScriptInv
  <2> QED
    BY <1>2, <1>9, <2>1, <2>2 DEF ScriptStep
<1>10. CASE UNCHANGED vars
  BY <1>10, <1>a DEF vars
<1> QED
  BY <1>1, <1>3, <1>4, <1>5, <1>6, <1>7, <1>8, <1>9, <1>10 DEF Next, ScriptStep, ProcessStep

-----------------------------------------------------------------------------
(* A script that is about to start a daemon, or has stopped one, and finds *)
(* none in the PID file, leaves none behind but those told to stop.        *)
LEMMA Unwatched ==
    ASSUME TypeOK, LockInv, KnownInv, world.by = "script", NEW s \in Script,
           script[s].at \in Critical \ {"record", "verify"}, ~IsRunning(pidFile),
           NEW p \in Pid, proc[p] # "free"
    PROVE  Excused(p)
<1>a. proc[p] \in State /\ None \notin Pid
  BY Types, ServiceAssumption DEF Typed
<1>1. ~Handled(p, {"record"}) /\ ~Handled(p, {"record", "verify"})
  BY Alone DEF Handled, Critical
<1>2. pidFile = p => proc[p] = "child"
  BY <1>a, States DEF IsRunning
<1> QED
  BY <1>1, <1>2 DEF KnownInv

(* With the script alone there is one process at most.                     *)
LEMMA OneProcess ==
    ASSUME TypeOK, LockInv, ScriptInv, KnownInv, Scripted, NEW p \in Pid, NEW q \in Pid,
           proc[p] # "free", proc[q] # "free"
    PROVE  p = q
<1>a. None \notin Pid /\ ~Excused(p) /\ ~Excused(q) /\ world.by = "script"
  BY ServiceAssumption DEF Excused, Scripted
<1>1. pidFile = p \/ Handled(p, {"record"})
  BY <1>a DEF KnownInv
<1>2. pidFile = q \/ Handled(q, {"record"})
  BY <1>a DEF KnownInv
<1>3. CASE pidFile = p
  BY <1>2, <1>3, <1>a DEF Handled, ScriptInv
<1>4. CASE pidFile = q
  BY <1>1, <1>4, <1>a DEF Handled, ScriptInv
<1>5. CASE Handled(p, {"record"}) /\ Handled(q, {"record"})
  BY <1>5, Alone DEF Handled, Critical
<1> QED
  BY <1>1, <1>2, <1>3, <1>4, <1>5

(* A kill is a move of the process that the PID file names.                *)
LEMMA KillMoves ==
    ASSUME TypeOK, ScriptInv, NEW s \in Script, SendKill(s)
    PROVE  /\ script[s].pid \in Pid /\ Moves(script[s].pid)
           /\ proc[script[s].pid] \in Daemon /\ proc'[script[s].pid] \in {"free", "exiting"}
<1> DEFINE p == script[s].pid
<1>1. p \in Pid /\ proc[p] \in Daemon
  BY DEF SendKill, Stopped, IsRunning, ScriptInv
<1>2. proc \in [Pid -> State] /\ term \subseteq Pid /\ path \in PathType
  BY Types DEF Typed
<1> HIDE DEF p
<1>3. CASE Gone(p)
  BY <1>1, <1>3, GoneMoves DEF p
<1>4. CASE Becomes(p, "exiting") /\ UNCHANGED <<term, path>>
  <2>1. Moves(p) /\ proc'[p] = "exiting"
    BY <1>1, <1>2, <1>4, States DEF Becomes, Moves
  <2> QED
    BY <1>1, <2>1 DEF p
<1> QED
  BY <1>3, <1>4 DEF SendKill, p

(* Every process that a script starts stays within the scripts' reach.     *)
LEMMA KnownStep == TypeOK /\ LockInv /\ ScriptInv /\ KnownInv /\ [Next]_vars => KnownInv'
<1> SUFFICES ASSUME TypeOK, LockInv, ScriptInv, KnownInv, [Next]_vars, world'.by = "script"
             PROVE  KnownInv'
  BY DEF KnownInv
<1>a. /\ world' = world /\ world.by = "script" /\ None \notin Pid /\ proc \in [Pid -> State]
      /\ script \in [Script -> ScriptType] /\ term \subseteq Pid
  <2>1. world' = world
    BY ProcessMoves, ScriptMoves DEF Next, ProcessStep, scriptVars, vars
  <2> QED
    BY <2>1, Types, ServiceAssumption DEF Typed
<1>b. ASSUME NEW p \in Pid, Moves(p), pidFile' = pidFile,
             \A t \in Script : script[t].at \in {"record", "verify"} => script'[t] = script[t]
      PROVE  KnownInv'
  <2> SUFFICES ASSUME NEW q \in Pid
               PROVE  /\ proc'[q] # "free" => Excused(q)' \/ pidFile = q \/ Handled(q, {"record"})'
                      /\ proc'[q] = "child" => Excused(q)' \/ Handled(q, {"record", "verify"})'
    BY <1>b DEF KnownInv
  <2>1. /\ proc'[q] # "free" => proc[q] # "free" /\ (Excused(q) => Excused(q)')
        /\ proc'[q] = "child" => proc[q] = "child"
    BY <1>a, <1>b DEF Moves, Excused
  <2>2. /\ Handled(q, {"record"}) => Handled(q, {"record"})'
        /\ Handled(q, {"record", "verify"}) => Handled(q, {"record", "verify"})'
    BY <1>b DEF Handled
  <2> QED
    BY <1>a, <2>1, <2>2 DEF KnownInv
<1>c. ASSUME UNCHANGED <<proc, term, pidFile>>,
             \A t \in Script : script[t].at \in {"record", "verify"} => script'[t] = script[t]
      PROVE  KnownInv'
  <2>1. \A q \in Pid : (Handled(q, {"record"}) => Handled(q, {"record"})')
                       /\ (Handled(q, {"record", "verify"}) => Handled(q, {"record", "verify"})')
    BY <1>c DEF Handled
  <2>2. \A q \in Pid : Excused(q)' <=> Excused(q)
    BY <1>a, <1>c DEF Excused
  <2> QED
    BY <1>a, <1>c, <2>1, <2>2 DEF KnownInv
<1>d. ASSUME proc' = proc, term \subseteq term',
             \A q \in Pid : proc[q] # "free" => Excused(q)
      PROVE  KnownInv'
  BY <1>a, <1>d DEF KnownInv, Excused
<1>1. ASSUME NEW p \in Pid, ProcessStep(p) PROVE KnownInv'
  BY <1>1, <1>b, ProcessMoves DEF scriptVars
<1>2. ASSUME NEW s \in Script, Call(s) \/ Lock(s) \/ Unlock(s) \/ GiveUp(s) PROVE KnownInv'
  <2>1. \A t \in Script : script[t].at \in {"record", "verify"} => script'[t] = script[t]
    BY <1>2, ScriptMoves, ScriptPaths DEF ScriptStep
  <2> QED
    BY <1>2, <1>c, <2>1 DEF Call, Lock, Unlock, GiveUp
<1>3. ASSUME NEW s \in Script, StartCheck(s) \/ StopCheck(s) PROVE KnownInv'
  <2>1. script[s].at \in Critical \ {"record", "verify"}
    BY <1>3 DEF StartCheck, StopCheck, Critical
  <2>2. CASE ~IsRunning(pidFile)
    <3>1. \A q \in Pid : proc[q] # "free" => Excused(q)
      BY <1>a, <2>1, <2>2, Unwatched
    <3> QED
      BY <1>3, <1>d, <2>2, <3>1 DEF StartCheck, StopCheck
  <2>3. CASE IsRunning(pidFile)
    <3>1. \A t \in Script : script[t].at \in {"record", "verify"} => script'[t] = script[t]
      BY <1>3, ScriptMoves, ScriptPaths DEF ScriptStep
    <3>2. UNCHANGED <<proc, pidFile>> /\ term \subseteq term' /\ term' \subseteq term \cup {pidFile}
      BY <1>3, <2>3 DEF StartCheck, StopCheck, SendTerm
    <3>3. \A q \in Pid : (Handled(q, {"record"}) => Handled(q, {"record"})')
                         /\ (Handled(q, {"record", "verify"}) => Handled(q, {"record", "verify"})')
      BY <3>1 DEF Handled
    <3>4. \A q \in Pid : Excused(q) => Excused(q)'
      BY <1>a, <3>2 DEF Excused
    <3> QED
      BY <1>a, <3>2, <3>3, <3>4 DEF KnownInv
  <2> QED
    BY <2>2, <2>3
<1>4. ASSUME NEW s \in Script, Spawn(s) PROVE KnownInv'
  <2>1. PICK p \in Pid : /\ proc[p] = "free" /\ Becomes(p, "child")
                         /\ script' = [script EXCEPT ![s].pid = p, ![s].at = "record"]
    BY <1>4 DEF Spawn
  <2>2. script[s].at = "spawn" /\ UNCHANGED <<term, pidFile>> /\ pidFile = None
    BY <1>4 DEF Spawn, ScriptInv
  <2>3. script'[s].pid = p /\ script'[s].at = "record"
    BY <1>a, <2>1 DEF ScriptType
  <2>4. Handled(p, {"record"})' /\ Handled(p, {"record", "verify"})'
    BY <2>3 DEF Handled
  <2>5. ~IsRunning(pidFile)
    BY <2>2 DEF IsRunning
  <2>6. \A q \in Pid : proc[q] # "free" => Excused(q)
    BY <1>a, <2>2, <2>5, Unwatched DEF Critical
  <2>7. \A q \in Pid \ {p} : proc'[q] = proc[q] /\ (Excused(q) => Excused(q)')
    BY <1>a, <2>1, <2>2 DEF Becomes, Excused
  <2> QED
    BY <2>4, <2>6, <2>7 DEF KnownInv
<1>5. ASSUME NEW s \in Script, RecordPid(s) PROVE KnownInv'
  <2>1. script[s].at = "record" /\ proc' = proc /\ pidFile = None /\ term \subseteq term'
        /\ script[s].pid \in Pid
    BY <1>5 DEF RecordPid, SendTerm, ScriptInv
  <2>p. PICK p \in Pid : p = script[s].pid
    BY <2>1
  <2>2. ASSUME NEW q \in Pid, proc[q] # "free" PROVE Excused(q)' \/ q = p
    <3>1. \A t \in Script : script[t].at \in {"record", "verify"} => t = s
      BY <2>1, Alone DEF Critical
    <3> QED
      BY <1>a, <2>1, <2>2, <2>p, <3>1 DEF KnownInv, Handled, Excused
  <2>3. CASE pidFile' = p /\ Goto(s, "verify")
    <3>1. script'[s].at = "verify" /\ script'[s].pid = p
      BY <1>a, <2>3, <2>p DEF Goto, ScriptType
    <3>2. Handled(p, {"record", "verify"})'
      BY <3>1 DEF Handled
    <3> QED
      BY <2>1, <2>2, <2>3, <3>2 DEF KnownInv
  <2>4. CASE world.pidFileFails /\ SendTerm(p)
    <3>1. proc[p] # "free" => Excused(p)'
      BY <1>a, <2>4 DEF SendTerm, Excused
    <3> QED
      BY <2>1, <2>2, <3>1 DEF KnownInv
  <2> QED
    BY <1>5, <2>3, <2>4, <2>p DEF RecordPid
<1>6. ASSUME NEW s \in Script, Verify(s) PROVE KnownInv'
  <2>1. /\ script[s].at = "verify" /\ proc' = proc /\ pidFile = script[s].pid /\ pidFile \in Pid
        /\ proc[pidFile] # "child" /\ term \subseteq term'
    BY <1>6 DEF Verify, SendTerm, ScriptInv
  <2>2. \A t \in Script : script[t].at \in {"record", "verify"} => t = s
    BY <2>1, Alone DEF Critical
  <2>3. ASSUME NEW q \in Pid
        PROVE  /\ proc[q] # "free" => Excused(q)' \/ q = pidFile
               /\ proc[q] = "child" => Excused(q)'
    BY <1>a, <2>1, <2>2 DEF KnownInv, Handled, Excused
  <2>4. pidFile' = pidFile \/ proc[pidFile] = "free"
    BY <1>6, <1>a, <2>1, States DEF Verify, IsRunning
  <2> QED
    BY <2>1, <2>3, <2>4 DEF KnownInv
<1>7. ASSUME NEW s \in Script, Await(s) PROVE KnownInv'
  <2>1. script[s].at \in {"await", "reap"} /\ pidFile = script[s].pid /\ ~IsRunning(pidFile)
    BY <1>7 DEF Await, Stopped, ScriptInv
  <2>2. \A q \in Pid : proc[q] # "free" => Excused(q)
    BY <1>a, <2>1, Unwatched DEF Critical
  <2> QED
    BY <1>7, <1>d, <2>2 DEF Await
<1>8. ASSUME NEW s \in Script, SendKill(s) PROVE KnownInv'
  <2>1. script[s].pid \in Pid /\ Moves(script[s].pid)
    BY <1>8, KillMoves
  <2>2. \A t \in Script : script[t].at \in {"record", "verify"} => script'[t] = script[t]
    BY <1>8, ScriptMoves, ScriptPaths DEF ScriptStep
  <2>3. pidFile' = pidFile
    BY <1>8 DEF SendKill
  <2> QED
    BY <1>b, <2>1, <2>2, <2>3
<1>9. CASE UNCHANGED vars
  BY <1>9, <1>c DEF vars
<1> QED
  BY <1>1, <1>2, <1>3, <1>4, <1>5, <1>6, <1>7, <1>8, <1>9 DEF Next, ScriptStep, ProcessStep

-----------------------------------------------------------------------------
(* What a process may do: begin to start when no other does, bind a path   *)
(* that nobody has bound, and unlink its own socket or nobody's.           *)
LEMMA Keeps ==
    ASSUME Orderly, NEW p \in Pid, \A q \in Pid \ {p} : proc'[q] = proc[q],
           \/ proc'[p] \in Booting => proc[p] \in Booting
           \/ \A q \in Pid \ {p} : proc[q] \notin Booting,
           proc'[p] = "serving" => proc[p] \in {"chmod", "serving"},
           p \in Bound' => path' = p,
           \A q \in Bound \ {p} : p \notin Bound' /\ path' = path,
           proc'[p] = "remove" => Bound \ {p} = {}
    PROVE  Orderly'
<1>1. \A q \in Pid \ {p} : q \in Bound' <=> q \in Bound
  BY DEF Bound
<1>2. \A q, r \in Pid : proc'[q] \in Booting /\ proc'[r] \in Booting => q = r
  BY DEF Orderly
<1>3. \A q \in Bound' : path' = q
  BY <1>1 DEF Orderly, Bound
<1>4. ASSUME NEW q \in Pid, proc'[q] = "remove" PROVE Bound' = {}
  <2>1. CASE q = p
    BY <1>1, <1>4, <2>1 DEF Bound
  <2>2. CASE q # p
    <3>1. proc[q] = "remove" /\ Bound = {}
      BY <1>4, <2>2 DEF Orderly
    <3>2. proc'[p] \notin {"listen", "chmod"}
      BY <1>2, <1>4, <2>2 DEF Booting
    <3>3. proc'[p] # "serving"
      BY <3>1 DEF Bound
    <3> QED
      BY <1>1, <3>1, <3>2, <3>3 DEF Bound
  <2> QED
    BY <2>1, <2>2
<1> QED
  BY <1>2, <1>3, <1>4 DEF Orderly

(* The end of a process leaves the others' socket alone.                   *)
LEMMA GoneKeeps ==
    ASSUME TypeOK, Orderly, NEW p \in Pid, Gone(p)
    PROVE  Orderly'
<1>1. /\ \A q \in Pid \ {p} : proc'[q] = proc[q]
      /\ proc'[p] = "free" /\ (path' = path \/ path = p)
  BY GoneMoves DEF Moves
<1>2. \A q \in Bound \ {p} : path' = path
  BY <1>1 DEF Orderly
<1>3. p \notin Bound' /\ proc'[p] \notin Booting
  BY <1>1 DEF Bound, Booting
<1> QED
  BY <1>1, <1>2, <1>3, Keeps

(* Every step of a process keeps the order, unless two are starting.       *)
LEMMA OrderlyStep ==
    ASSUME TypeOK, Orderly, NEW p \in Pid, ProcessStep(p), ~overlapped'
    PROVE  Orderly'
<1>a. proc \in [Pid -> State] /\ {"none", "stale"} \cap Pid = {}
  BY Types, ServiceAssumption DEF Typed
<1>b. \A q \in Pid \ {p} : proc'[q] = proc[q]
  BY ProcessMoves DEF Moves
<1>c. ASSUME NEW st \in {"bind", "bare", "exiting"}, Becomes(p, st), path' = path,
             proc[p] \in Booting \/ st # "bind"
      PROVE  Orderly'
  <2>1. proc'[p] = st
    BY <1>a, <1>c DEF Becomes
  <2>2. p \notin Bound' /\ (proc'[p] \in Booting => proc[p] \in Booting)
    BY <1>c, <2>1 DEF Bound, Booting
  <2> QED
    BY <1>b, <1>c, <2>1, <2>2, Keeps
<1>d. ASSUME p \in Bound, NEW st \in {"chmod", "serving", "bare", "exiting"}, Becomes(p, st),
             \/ st \in {"bare", "exiting"}
             \/ path' = path /\ (st = "chmod" => proc[p] = "listen")
                             /\ (st = "serving" => proc[p] = "chmod")
      PROVE  Orderly'
  <2>1. path = p /\ Bound \ {p} = {}
    BY <1>d DEF Orderly
  <2>2. proc'[p] = st
    BY <1>a, <1>d DEF Becomes
  <2>3. proc'[p] \in Booting => proc[p] \in Booting
    BY <1>d, <2>2 DEF Booting
  <2>4. p \in Bound' => path' = p
    BY <1>d, <2>1, <2>2 DEF Bound
  <2> QED
    BY <1>b, <1>d, <2>1, <2>2, <2>3, <2>4, Keeps
<1>1. CASE Exec(p) \/ StartDirectly(p)
  <2>1. proc'[p] = "probe" /\ path' = path /\ \A q \in Pid \ {p} : proc[q] \notin Booting
    BY <1>1, <1>a DEF Exec, StartDirectly, BeginStartup, Becomes
  <2>2. p \notin Bound'
    BY <2>1 DEF Bound
  <2> QED
    BY <1>b, <2>1, <2>2, Keeps
<1>2. CASE Probe(p)
  <2>1. CASE Refused /\ Becomes(p, "remove") /\ path' = path
    <3>1. proc[p] = "probe" /\ proc'[p] = "remove"
      BY <1>2, <1>a, <2>1 DEF Probe, Becomes
    <3>2. Bound = {}
      <4>1. path = "stale" \/ (path \in Pid /\ proc[path] \in {"listen", "exiting"})
        BY <2>1 DEF Refused
      <4>2. path \in Pid => proc[path] # "listen"
        BY <3>1 DEF Orderly, Booting
      <4> QED
        BY <1>a, <4>1, <4>2 DEF Orderly, Bound
    <3>3. p \notin Bound' /\ proc[p] \in Booting
      BY <3>1 DEF Bound, Booting
    <3> QED
      BY <1>b, <3>1, <3>2, <3>3, Keeps
  <2>2. CASE Gone(p)
    BY <2>2, GoneKeeps
  <2>3. proc[p] \in Booting
    BY <1>2 DEF Probe, Booting
  <2> QED
    BY <1>2, <1>c, <2>1, <2>2, <2>3 DEF Probe
<1>3. CASE RemoveStale(p)
  <2>1. proc[p] = "remove" /\ proc'[p] \in {"bind", "bare"}
    BY <1>3, <1>a DEF RemoveStale, Becomes
  <2>2. Bound = {} /\ p \notin Bound' /\ proc[p] \in Booting
    BY <2>1 DEF Orderly, Bound, Booting
  <2> QED
    BY <1>b, <2>1, <2>2, Keeps
<1>4. CASE Bind(p)
  <2>1. CASE path = "none" /\ Becomes(p, "listen") /\ path' = p
    <3>1. proc'[p] = "listen" /\ proc[p] \in Booting /\ Bound = {}
      BY <1>4, <1>a, <2>1 DEF Bind, Becomes, Booting, Orderly, Bound
    <3> QED
      BY <1>b, <2>1, <3>1, Keeps
  <2>2. CASE Gone(p)
    BY <2>2, GoneKeeps
  <2> QED
    BY <1>4, <1>c, <2>1, <2>2 DEF Bind
<1>5. CASE Listen(p) \/ Chmod(p) \/ ServeFails(p)
  <2>1. p \in Bound
    BY <1>5 DEF Listen, Chmod, ServeFails, Bound
  <2> QED
    BY <1>5, <1>d, <2>1 DEF Listen, Chmod, ServeFails, CloseListener
<1>6. CASE Shutdown(p)
  <2>1. CASE proc[p] = "serving" /\ CloseListener(p, "exiting")
    BY <1>d, <2>1 DEF CloseListener, Bound
  <2>2. CASE proc[p] = "bare" /\ Becomes(p, "exiting") /\ path' = path
    BY <1>c, <2>2
  <2> QED
    BY <1>6, <2>1, <2>2 DEF Shutdown
<1>7. CASE Exit(p) \/ KilledInStartup(p) \/ Crash(p)
  BY <1>7, GoneKeeps DEF Exit, KilledInStartup, Crash
<1>8. CASE Interrupt(p)
  BY <1>8 DEF Interrupt, Orderly, Bound
<1> QED
  BY <1>1, <1>2, <1>3, <1>4, <1>5, <1>6, <1>7, <1>8 DEF ProcessStep, DaemonStep

(* No step takes the path away from the daemon that has bound it.          *)
LEMMA PathStep ==
    TypeOK /\ LockInv /\ ScriptInv /\ KnownInv /\ PathInv /\ [Next]_vars => PathInv'
<1> SUFFICES ASSUME TypeOK, LockInv, ScriptInv, KnownInv, PathInv, [Next]_vars PROVE PathInv'
  OBVIOUS
<1>a. proc \in [Pid -> State]
  BY Types DEF Typed
<1>1. ASSUME NEW p \in Pid, ProcessStep(p) PROVE PathInv'
  <2>1. world' = world
    BY <1>1, ProcessMoves DEF scriptVars
  <2>2. overlapped' \/ ~overlapped
    BY <1>1 DEF ProcessStep, DaemonStep, Exec, Probe, RemoveStale, Bind, Listen, Chmod, Shutdown,
                Exit, KilledInStartup, ServeFails, Crash, StartDirectly, Interrupt, BeginStartup
  <2>3. ASSUME Scripted PROVE ~overlapped'
    <3>1. ~overlapped
      BY <2>3 DEF PathInv
    <3>2. CASE Exec(p)
      <4>1. \A q \in Pid \ {p} : proc[q] = "free"
        BY <2>3, <3>2, OneProcess DEF Exec
      <4> QED
        BY <3>1, <3>2, <4>1 DEF Exec, BeginStartup, Booting
    <3>3. CASE StartDirectly(p)
      BY <2>3, <3>3 DEF StartDirectly, Scripted
    <3> QED
      BY <1>1, <3>1, <3>2, <3>3
         DEF ProcessStep, DaemonStep, Probe, RemoveStale, Bind, Listen, Chmod, Shutdown, Exit,
             KilledInStartup, ServeFails, Crash, Interrupt
  <2> QED
    BY <1>1, <2>1, <2>2, <2>3, OrderlyStep DEF PathInv, Scripted
<1>2. ASSUME UNCHANGED <<world, path, proc, overlapped>> PROVE PathInv'
  BY <1>2 DEF PathInv, Scripted, Orderly, Bound
<1>3. ASSUME NEW s \in Script,
             \/ Call(s) \/ Lock(s) \/ Unlock(s) \/ StartCheck(s) \/ RecordPid(s) \/ Verify(s)
             \/ StopCheck(s) \/ Await(s) \/ GiveUp(s)
      PROVE  PathInv'
  BY <1>2, <1>3 DEF Call, Lock, Unlock, StartCheck, RecordPid, Verify, StopCheck, Await, GiveUp
<1>4. ASSUME NEW s \in Script, Spawn(s) PROVE PathInv'
  <2>1. PICK p \in Pid : proc' = [proc EXCEPT ![p] = "child"]
    BY <1>4 DEF Spawn, Becomes
  <2>2. UNCHANGED <<world, path, overlapped>>
    BY <1>4 DEF Spawn
  <2>3. proc'[p] = "child" /\ \A q \in Pid \ {p} : proc'[q] = proc[q]
    BY <1>a, <2>1
  <2>4. p \notin Bound' /\ proc'[p] \notin Booting
    BY <2>3 DEF Bound, Booting
  <2>5. Orderly => Orderly'
    BY <2>2, <2>3, <2>4, Keeps
  <2> QED
    BY <2>2, <2>5 DEF PathInv, Scripted
<1>5. ASSUME NEW s \in Script, SendKill(s) PROVE PathInv'
  <2>1. PICK p \in Pid : p = script[s].pid
    BY <1>5, KillMoves
  <2>2. world' = world /\ overlapped' = overlapped
    BY <1>5 DEF SendKill
  <2>3. ASSUME Orderly PROVE Orderly'
    <3>1. CASE Gone(p)
      BY <2>3, <3>1, GoneKeeps
    <3>2. CASE Becomes(p, "exiting") /\ path' = path
      <4>1. proc'[p] = "exiting" /\ \A q \in Pid \ {p} : proc'[q] = proc[q]
        BY <1>a, <3>2 DEF Becomes
      <4>2. p \notin Bound' /\ proc'[p] \notin Booting
        BY <4>1 DEF Bound, Booting
      <4> QED
        BY <2>3, <3>2, <4>1, <4>2, Keeps
    <3> QED
      BY <1>5, <2>1, <3>1, <3>2 DEF SendKill
  <2> QED
    BY <2>2, <2>3 DEF PathInv, Scripted
<1>6. CASE UNCHANGED vars
  BY <1>2, <1>6 DEF vars
<1> QED
  BY <1>1, <1>3, <1>4, <1>5, <1>6 DEF Next, ScriptStep, ProcessStep

(* Every step keeps the types.                                             *)
LEMMA TypeStep == TypeOK /\ LockInv /\ ScriptInv /\ [Next]_vars => TypeOK'
<1> SUFFICES ASSUME TypeOK, LockInv, ScriptInv, [Next]_vars PROVE TypeOK'
  OBVIOUS
<1>a. /\ world \in Worlds /\ proc \in [Pid -> State] /\ term \subseteq Pid /\ path \in PathType
      /\ pidFile \in Pid \cup {None} /\ script \in [Script -> ScriptType] /\ lock \subseteq Script
      /\ overlapped \in BOOLEAN
  BY Types DEF Typed
<1>b. lock' \subseteq Script /\ Cardinality(lock') <= 1
  <2>1. lock' = {} \/ \E s \in Script : lock' = {s}
    BY LockStep DEF LockInv
  <2> QED
    BY <2>1, FS_EmptySet, FS_Singleton
<1>1. ASSUME NEW p \in Pid, ProcessStep(p) PROVE TypeOK'
  BY <1>1, <1>a, <1>b, ProcessMoves, Types DEF Typed, Moves, scriptVars
<1>2. ASSUME NEW s \in Script, Call(s) \/ ScriptStep(s), proc' \in [Pid -> State],
             term' \subseteq Pid, path' \in PathType, pidFile' \in Pid \cup {None}
      PROVE  TypeOK'
  BY <1>2, <1>a, <1>b, ScriptMoves, Types DEF Typed
<1>3. ASSUME NEW s \in Script, Call(s) \/ Lock(s) \/ Unlock(s) \/ GiveUp(s) \/ Await(s)
      PROVE  TypeOK'
  BY <1>2, <1>3, <1>a DEF Call, Lock, Unlock, GiveUp, Await, ScriptStep
<1>4. ASSUME NEW s \in Script, StartCheck(s) \/ StopCheck(s) PROVE TypeOK'
  <2>1. term' \subseteq Pid /\ pidFile' \in Pid \cup {None} /\ UNCHANGED <<proc, path>>
    BY <1>4, <1>a DEF StartCheck, StopCheck, SendTerm, IsRunning
  <2> QED
    BY <1>2, <1>4, <1>a, <2>1 DEF ScriptStep
<1>5. ASSUME NEW s \in Script, RecordPid(s) \/ Verify(s) PROVE TypeOK'
  <2>1. script[s].pid \in Pid
    BY <1>5 DEF RecordPid, Verify, ScriptInv
  <2>2. term' \subseteq Pid /\ pidFile' \in Pid \cup {None} /\ UNCHANGED <<proc, path>>
    BY <1>5, <1>a, <2>1 DEF RecordPid, Verify, SendTerm
  <2> QED
    BY <1>2, <1>5, <1>a, <2>2 DEF ScriptStep
<1>6. ASSUME NEW s \in Script, Spawn(s) PROVE TypeOK'
  <2>1. proc' \in [Pid -> State] /\ UNCHANGED <<term, path, pidFile>>
    BY <1>6, <1>a, States DEF Spawn, Becomes
  <2> QED
    BY <1>2, <1>6, <1>a, <2>1 DEF ScriptStep
<1>7. ASSUME NEW s \in Script, SendKill(s) PROVE TypeOK'
  <2>1. PICK p \in Pid : Moves(p)
    BY <1>7, KillMoves
  <2>2. pidFile' = pidFile
    BY <1>7 DEF SendKill
  <2> QED
    BY <1>2, <1>7, <1>a, <2>1, <2>2 DEF Moves, ScriptStep
<1>8. CASE UNCHANGED vars
  BY <1>8, <1>a, <1>b, Types DEF Typed, vars
<1> QED
  BY <1>1, <1>3, <1>4, <1>5, <1>6, <1>7, <1>8 DEF Next, ScriptStep, ProcessStep

-----------------------------------------------------------------------------
(* The service starts with nothing running.                                *)
LEMMA InitInv == Init => IndInv
<1> SUFFICES ASSUME Init PROVE IndInv
  OBVIOUS
<1>a. \A s \in Script : script[s] = Resting
  BY DEF Init
<1>b. Resting.at = "idle" /\ Resting \in ScriptType
  BY DEF Resting, ScriptType, Ats
<1>c. \A p \in Pid : proc[p] = "free"
  BY DEF Init
<1>1. TypeOK
  <2>1. path \in PathType
    BY DEF Init, PathType
  <2>2. lock \subseteq Script /\ Cardinality(lock) <= 1
    BY FS_EmptySet DEF Init
  <2>3. script \in [Script -> ScriptType]
    BY <1>b DEF Init
  <2> QED
    BY <2>1, <2>2, <2>3, States, Types DEF Typed, Init
<1>2. LockInv /\ ScriptInv
  BY <1>a, <1>b DEF Init, LockInv, ScriptInv, Critical
<1>3. KnownInv
  BY <1>c DEF KnownInv
<1>4. PathInv
  BY <1>c DEF Init, PathInv, Orderly, Bound, Booting
<1> QED
  BY <1>1, <1>2, <1>3, <1>4 DEF IndInv

(* The invariant holds in every reachable state.                           *)
THEOREM ServiceInvariant == Spec => []IndInv
<1>1. IndInv /\ [Next]_vars => IndInv'
  BY TypeStep, LockStep, ScriptInvStep, KnownStep, PathStep DEF IndInv
<1> QED
  BY <1>1, InitInv, PTL DEF Spec

(* However many starts, stops and restarts run at once, they leave one     *)
(* daemon at most, and the PID file leads to it.                           *)
THEOREM OneKnownDaemonHolds == Spec => []OneKnownDaemon
<1>1. IndInv => OneKnownDaemon
  <2> SUFFICES ASSUME IndInv PROVE OneKnownDaemon
    OBVIOUS
  <2>1. OneDaemon
    <3> DEFINE S == {p \in Pid : proc[p] # "free"}
    <3> SUFFICES ASSUME Scripted PROVE Cardinality(S) <= 1
      BY DEF OneDaemon
    <3>1. \A p, q \in S : p = q
      BY OneProcess DEF IndInv
    <3> HIDE DEF S
    <3>2. S = {} \/ \E p \in S : S = {p}
      BY <3>1
    <3> QED
      BY <3>2, FS_EmptySet, FS_Singleton
  <2>2. PidFileKnows
    BY DEF IndInv, LockInv, KnownInv, PidFileKnows, Handled, Excused, Critical, Running
  <2> QED
    BY <2>1, <2>2 DEF OneKnownDaemon, IndInv
<1> QED
  BY <1>1, ServiceInvariant, PTL

(* A daemon that serves the control API is reachable at the socket's path. *)
THEOREM SocketOwnedHolds == Spec => []SocketOwned
<1>1. IndInv => SocketOwned
  BY DEF IndInv, PathInv, Orderly, Bound, SocketOwned
<1> QED
  BY <1>1, ServiceInvariant, PTL

-----------------------------------------------------------------------------
(* Diagnostics: a refresh decides on what it knows of emhttpd when it      *)
(* begins, and ends in time; LastSeen, what evaluate measures from, only   *)
(* grows until then.                                                       *)
LastSeen == IF beat # NoTime THEN beat ELSE startedAt

SourceInv ==
    /\ startedAt <= now /\ beat <= now
    /\ decision # NoDecision =>
          /\ decision.at \in 0..now
          /\ MayReport => now <= decision.at + MaxRefresh
          /\ ~decision.direct /\ decision.poll # 0 =>
                decision.at - LastSeen <= decision.poll + PollMargin

(* What the collector has published is of this daemon, its readings are as *)
(* old as their snapshot unless it reused them, and while it trusted       *)
(* emhttpd the heartbeat was alive when the refresh began.                 *)
PubInv ==
    /\ bootAt <= now
    /\ ~pub.err => pub.updatedAt \in bootAt..now
    /\ ~pub.err /\ ~pub.direct /\ pub.poll # 0 =>
          pub.updatedAt - LastSeen <= pub.poll + PollMargin + MaxRefresh
    /\ \A d \in DOMAIN pub.disks :
          /\ pub.disks[d].at # NoTime => pub.disks[d].at >= bootAt
          /\ ~pub.err /\ ~pub.reused /\ pub.disks[d].thermal = "valid" =>
                pub.disks[d].at = pub.updatedAt

(* A report being built is this daemon's, and as fresh at its first copy   *)
(* as the snapshot may be; the heartbeat of a healthy one is alive, whether *)
(* it is still to be copied or was.                                        *)
Looks(report) == report.disks = "healthy" /\ report.emhttpd = "healthy"

DraftInv ==
    /\ writer = "idle" <=> draft = NoReport
    /\ writer # "idle" =>
          /\ reports < MaxReports
          /\ draft.pid = pid /\ draftAt \in 0..now /\ now <= draftAt + MaxBuild
          /\ \A d \in DOMAIN draft.items :
                /\ draft.items[d].at # NoTime => draft.items[d].at >= bootAt
                /\ draft.items[d].status = "valid" =>
                      draftAt - draft.items[d].at < DiskTimeout
    /\ writer = "heartbeat" /\ Looks(draft) =>
          draftAt - LastSeen < draft.poll + PollMargin + MaxRefresh + DiskTimeout
    /\ writer = "write" /\ Looks(draft) =>
          /\ draft.beat # NoTime
          /\ draftAt - draft.beat < draft.poll + PollMargin + MaxRefresh + DiskTimeout

(* The file was that fresh when it was stamped, and this daemon's file is  *)
(* about what this daemon accepted.                                        *)
FileInv ==
    file # NoReport =>
        /\ file.pid <= pid /\ file.at \in 0..now
        /\ \A d \in DOMAIN file.items :
              /\ file.pid = pid /\ file.items[d].at # NoTime => file.items[d].at >= bootAt
              /\ file.items[d].status = "valid" =>
                    file.at - file.items[d].at < DiskTimeout + MaxBuild
        /\ Looks(file) =>
              /\ file.beat # NoTime
              /\ file.at - file.beat < file.poll + PollMargin + MaxRefresh + DiskTimeout + MaxBuild

DiagInv == DiagTypeOK /\ SourceInv /\ PubInv /\ DraftInv /\ FileInv

-----------------------------------------------------------------------------
(* A type for the disks of the collector, and one for those of a report.   *)
Published == UNION {[L -> [thermal : Thermal, at : Stamp]] : L \in SUBSET Disk}
Items == UNION {[L -> Item] : L \in SUBSET Disk}
Emhttpd == {"healthy", "stale", "unknown", "polling disabled", "unknown/config error"}

DiagTyped ==
    /\ now \in Time /\ pid \in DaemonPid /\ bootAt \in Time
    /\ startedAt \in Stamp /\ beat \in Stamp /\ decision \in Decision
    /\ pub \in [err : BOOLEAN, updatedAt : Stamp, reused : BOOLEAN, disks : Published,
                direct : BOOLEAN, configError : BOOLEAN, poll : Poll]
    /\ writer \in {"idle", "heartbeat", "write"} /\ draftAt \in Stamp
    /\ draft \in [pid : DaemonPid, at : Stamp, disks : Health, items : Items,
                  emhttpd : Emhttpd, poll : Poll, beat : Stamp] \cup {NoReport}
    /\ file \in [pid : DaemonPid, at : Stamp, disks : Health, items : Items,
                 emhttpd : Emhttpd, poll : Poll, beat : Stamp] \cup {NoReport}
    /\ file # NoReport => file.at # NoTime
    /\ reports \in 0..MaxReports

(* The type invariant of Diagnostics is these conjuncts.                   *)
LEMMA DiagTypes == (DiagTypeOK <=> DiagTyped) /\ (DiagTypeOK' <=> DiagTyped')
BY DEF DiagTypeOK, DiagTyped, Published, Items, Emhttpd, Report

(* A function over some of the disks is a set of published disks, or of    *)
(* the items of a report, when its values are; and the converse.           *)
LEMMA InPublished ==
    ASSUME NEW L \in SUBSET Disk, NEW f \in [L -> [thermal : Thermal, at : Stamp]]
    PROVE  f \in Published
BY DEF Published

(* The listed disks of a report, as a member of Items.                     *)
LEMMA InItems ==
    ASSUME NEW L \in SUBSET Disk, NEW f \in [L -> Item]
    PROVE  f \in Items
BY DEF Items

(* What a member of Published says of each of its disks.                   *)
LEMMA OfPublished ==
    ASSUME NEW f \in Published
    PROVE  /\ DOMAIN f \in SUBSET Disk
           /\ \A d \in DOMAIN f : f[d].thermal \in Thermal /\ f[d].at \in Stamp
                                  /\ f[d] \in [thermal : Thermal, at : Stamp]
<1>1. PICK L \in SUBSET Disk : f \in [L -> [thermal : Thermal, at : Stamp]]
  BY DEF Published
<1> QED
  BY <1>1

(* What a member of Items says of each of its disks.                       *)
LEMMA OfItems ==
    ASSUME NEW f \in Items
    PROVE  /\ DOMAIN f \in SUBSET Disk
           /\ \A d \in DOMAIN f : f[d].status \in Thermal \cup {"retained"} /\ f[d].at \in Stamp
<1>1. PICK L \in SUBSET Disk : f \in [L -> Item]
  BY DEF Items
<1> QED
  BY <1>1 DEF Item

(* Times are integers, and NoTime is before them.                          *)
LEMMA Numbers ==
    /\ NoTime = -1 /\ \A t \in Time : t \in Nat
    /\ \A t \in Stamp : t \in Int
    /\ \A t \in Stamp : t = NoTime \/ t \in Time
    /\ \A t \in Stamp : t # NoTime <=> t >= 0
    /\ \A t \in Time : t \in Stamp /\ t # NoTime
    /\ \A p \in DaemonPid : p \in Nat /\ p # 0
    /\ \A p \in Poll : p \in Nat
    /\ PollMargin \in Nat /\ DiskTimeout \in Nat /\ MaxBuild \in Nat /\ PageMaxAge \in Nat
    /\ MaxRefresh \in Nat /\ MaxTime \in Nat /\ MaxReports \in Nat /\ MaxRestarts \in Nat
BY DiagnosticsAssumption DEF Time, Stamp, NoTime, DaemonPid, Poll

(* A report is not the missing one.                                        *)
LEMMA IsReport ==
    \A r \in [pid : DaemonPid, at : Stamp, disks : Health, items : Items,
              emhttpd : Emhttpd, poll : Poll, beat : Stamp] : r # NoReport
<1>1. \A r \in [pid : DaemonPid, at : Stamp, disks : Health, items : Items,
              emhttpd : Emhttpd, poll : Poll, beat : Stamp] : r.pid \in DaemonPid
  OBVIOUS
<1>2. NoReport.pid = 0 /\ 0 \notin DaemonPid
  BY DiagnosticsAssumption DEF NoReport, DaemonPid
<1> QED
  BY <1>1, <1>2

(* What each step does to the published state.                             *)
LEMMA NewPubTyped ==
    /\ NewPub \in [err : BOOLEAN, updatedAt : Stamp, reused : BOOLEAN, disks : Published,
                   direct : BOOLEAN, configError : BOOLEAN, poll : Poll]
    /\ NewPub.err /\ DOMAIN NewPub.disks = {}
<1>1. [d \in {} |-> NoTime] \in [{} -> [thermal : Thermal, at : Stamp]]
  OBVIOUS
<1>2. [d \in {} |-> NoTime] \in Published
  BY <1>1, InPublished
<1>3. NoTime \in Stamp /\ DefaultPoll \in Poll
  BY DEF Stamp, Poll
<1> QED
  BY <1>2, <1>3 DEF NewPub

(* The missing decision is one, and no decision has its time.              *)
LEMMA NoDecisionTyped ==
    /\ NoDecision \in Decision /\ NoDecision.at = NoTime
    /\ \A x \in Decision : x.at \in Stamp /\ x.poll \in Poll /\ x.direct \in BOOLEAN
BY DEF NoDecision, Decision, Stamp, Poll

(* A daemon that has just started has copied and written nothing.          *)
LEMMA DiagInitInv == DiagInit => DiagInv
<1> SUFFICES ASSUME DiagInit PROVE DiagInv
  OBVIOUS
<1>1. DiagTypeOK
  <2>1. 0 \in Time /\ 1 \in DaemonPid /\ NoTime \in Stamp /\ 0 \in 0..MaxReports
    BY DiagnosticsAssumption DEF Time, DaemonPid, Stamp
  <2>2. DiagTyped
    BY <2>1, NewPubTyped, NoDecisionTyped DEF DiagTyped, DiagInit
  <2> QED
    BY <2>2, DiagTypes
<1>2. SourceInv /\ PubInv
  BY NewPubTyped, Numbers DEF SourceInv, PubInv, DiagInit
<1>3. DraftInv /\ FileInv
  BY DEF DraftInv, FileInv, DiagInit
<1> QED
  BY <1>1, <1>2, <1>3 DEF DiagInv

(* The disks that a refresh publishes.                                     *)
LEMMA AgainTyped ==
    ASSUME DiagTypeOK, NEW listed \in SUBSET Disk
    PROVE  /\ Again(listed) \in Published
           /\ DOMAIN Again(listed) = listed
<1>1. pub.disks \in Published
  BY DiagTypes DEF DiagTyped
<1>2. [thermal |-> "unavailable", at |-> NoTime] \in [thermal : Thermal, at : Stamp]
  BY DEF Thermal, Stamp
<1>3. Again(listed) \in [listed -> [thermal : Thermal, at : Stamp]]
  BY <1>1, <1>2, OfPublished DEF Again
<1> QED
  BY <1>3, InPublished DEF Again

(* A collection publishes the disks the inventory listed and no others.    *)
LEMMA CollectedTyped ==
    ASSUME DiagTypeOK, NEW listed \in SUBSET Disk, NEW thermal \in [listed -> Thermal]
    PROVE  /\ Collected(thermal) \in Published
           /\ DOMAIN Collected(thermal) = listed
<1>1. now \in Stamp /\ NoTime \in Stamp
  BY DiagTypes DEF DiagTyped, Stamp
<1>2. Collected(thermal) \in [listed -> [thermal : Thermal, at : Stamp]]
  BY <1>1 DEF Collected
<1> QED
  BY <1>2, InPublished DEF Collected

(* A refresh publishes the source that it decided on, and an error with    *)
(* the disks kept, or collects, or in fallback publishes the last          *)
(* snapshot again.                                                         *)
LEMMA RefreshMoves ==
    ASSUME DiagTypeOK, FinishRefresh
    PROVE  /\ pub' \in [err : BOOLEAN, updatedAt : Stamp, reused : BOOLEAN, disks : Published,
                        direct : BOOLEAN, configError : BOOLEAN, poll : Poll]
           /\ \/ pub'.err /\ pub'.disks = pub.disks
              \/ /\ ~pub'.err /\ pub'.updatedAt = now
                 /\ pub'.direct = decision.direct /\ pub'.poll = decision.poll
                 /\ \/ \E listed \in SUBSET Disk : \E thermal \in [listed -> Thermal] :
                          pub'.disks = Collected(thermal) /\ ~pub'.reused
                    \/ \E listed \in SUBSET Disk :
                          pub'.disks = Again(listed) /\ pub'.reused
<1> DEFINE PubType == [err : BOOLEAN, updatedAt : Stamp, reused : BOOLEAN, disks : Published,
                       direct : BOOLEAN, configError : BOOLEAN, poll : Poll]
           source == [pub EXCEPT !.direct = decision.direct, !.poll = decision.poll,
                                 !.configError = decision.configError]
<1>1. pub \in PubType /\ now \in Stamp /\ NoTime \in Stamp /\ decision \in Decision
  BY DiagTypes DEF DiagTyped, Stamp
<1>2. \/ pub' = [source EXCEPT !.err = TRUE, !.updatedAt = NoTime]
      \/ \E listed \in SUBSET Disk : \E thermal \in [listed -> Thermal] :
            pub' = [source EXCEPT !.err = FALSE, !.updatedAt = now,
                                  !.disks = Collected(thermal), !.reused = FALSE]
      \/ \E listed \in SUBSET Disk :
            pub' = [source EXCEPT !.err = FALSE, !.updatedAt = now,
                                  !.disks = Again(listed), !.reused = TRUE]
  BY DEF FinishRefresh
<1>3. /\ source \in PubType /\ source.disks = pub.disks
      /\ source.direct = decision.direct /\ source.poll = decision.poll
  BY <1>1 DEF Decision
<1> HIDE DEF source
<1>4. CASE pub' = [source EXCEPT !.err = TRUE, !.updatedAt = NoTime]
  BY <1>1, <1>3, <1>4
<1>5. ASSUME NEW disks \in Published, NEW again \in BOOLEAN,
             pub' = [source EXCEPT !.err = FALSE, !.updatedAt = now,
                                   !.disks = disks, !.reused = again]
      PROVE  /\ pub' \in PubType /\ ~pub'.err /\ pub'.updatedAt = now
             /\ pub'.direct = decision.direct /\ pub'.poll = decision.poll
             /\ pub'.disks = disks /\ pub'.reused = again
  BY <1>1, <1>3, <1>5
<1> HIDE DEF PubType
<1>6. CASE \E listed \in SUBSET Disk : \E thermal \in [listed -> Thermal] :
              pub' = [source EXCEPT !.err = FALSE, !.updatedAt = now,
                                    !.disks = Collected(thermal), !.reused = FALSE]
  BY <1>5, <1>6, CollectedTyped DEF PubType
<1>7. CASE \E listed \in SUBSET Disk :
              pub' = [source EXCEPT !.err = FALSE, !.updatedAt = now,
                                    !.disks = Again(listed), !.reused = TRUE]
  BY <1>5, <1>7, AgainTyped DEF PubType
<1> QED
  BY <1>2, <1>4, <1>6, <1>7 DEF PubType

(* The type invariant of Diagnostics is preserved.                         *)
LEMMA DiagTypeStep == DiagTypeOK /\ DraftInv /\ [DiagNext]_diagVars => DiagTypeOK'
<1> SUFFICES ASSUME DiagTypeOK, DraftInv, [DiagNext]_diagVars PROVE DiagTyped'
  BY DiagTypes
<1>0. DiagTyped
  BY DiagTypes
<1> USE DEF daemonVars, sourceVars, writerVars, fileVars
<1>1. CASE Tick
  BY <1>0, <1>1, DiagnosticsAssumption DEF DiagTyped, Tick, Time
<1>2. CASE NoteEmhttpPoll
  BY <1>0, <1>2, Numbers DEF DiagTyped, NoteEmhttpPoll
<1>3. CASE BeginRefresh \/ FinishRefresh
  <2>1. ASSUME BeginRefresh PROVE decision' \in Decision /\ startedAt' \in Stamp
    <3>1. now \in Stamp /\ startedAt \in Stamp
      BY <1>0, Numbers DEF DiagTyped
    <3>2. \A poll \in Poll : Fallback(poll) \in BOOLEAN
      BY DEF Fallback
    <3> QED
      BY <2>1, <3>1, <3>2 DEF BeginRefresh, Decision
  <2>2. CASE BeginRefresh
    BY <1>0, <2>1, <2>2 DEF DiagTyped, BeginRefresh
  <2>3. CASE FinishRefresh
    BY <1>0, <2>3, RefreshMoves, NoDecisionTyped DEF DiagTyped, FinishRefresh
  <2> QED
    BY <1>3, <2>2, <2>3
<1>4. CASE CopyPublished
  <2>1. draft' \in [pid : DaemonPid, at : Stamp, disks : Health, items : Items,
                    emhttpd : Emhttpd, poll : Poll, beat : Stamp]
    <3>1. NoTime \in Stamp
      BY DEF Stamp
    <3>2. DisksHealth \in Health /\ SourceStatus \in Emhttpd
      BY DEF DisksHealth, Health, SourceStatus, Emhttpd
    <3>3. [d \in DOMAIN pub.disks |-> [status |-> StatusOf(d), at |-> pub.disks[d].at]]
             \in [DOMAIN pub.disks -> Item]
      BY <1>0, OfPublished DEF DiagTyped, StatusOf, Item
    <3>4. DOMAIN pub.disks \in SUBSET Disk
      BY <1>0, OfPublished DEF DiagTyped
    <3>5. [d \in DOMAIN pub.disks |-> [status |-> StatusOf(d), at |-> pub.disks[d].at]] \in Items
      BY <3>3, <3>4, InItems
    <3> QED
      BY <1>0, <1>4, <3>1, <3>2, <3>5 DEF CopyPublished, DiagTyped
  <2> QED
    BY <1>0, <1>4, <2>1, Numbers DEF DiagTyped, CopyPublished
<1>5. CASE CopyHeartbeat
  <2>1. draft' \in [pid : DaemonPid, at : Stamp, disks : Health, items : Items,
                    emhttpd : Emhttpd, poll : Poll, beat : Stamp]
    BY <1>0, <1>5 DEF CopyHeartbeat, DiagTyped, DraftInv, Emhttpd
  <2> QED
    BY <1>0, <1>5, <2>1 DEF DiagTyped, CopyHeartbeat
<1>6. CASE Write
  <2>1. /\ Stamped \in [pid : DaemonPid, at : Stamp, disks : Health, items : Items,
                        emhttpd : Emhttpd, poll : Poll, beat : Stamp]
        /\ Stamped.at # NoTime
    BY <1>0, <1>6, Numbers DEF Write, Stamped, DiagTyped, DraftInv
  <2>2. NoTime \in Stamp /\ reports + 1 \in 0..MaxReports
    BY <1>0, <1>6, Numbers DEF Stamp, DraftInv, DiagTyped, Write
  <2> HIDE DEF Stamped
  <2> QED
    BY <1>0, <1>6, <2>1, <2>2 DEF DiagTyped, Write
<1>7. CASE Restart
  BY <1>0, <1>7, NewPubTyped, NoDecisionTyped, DiagnosticsAssumption
     DEF DiagTyped, Restart, DaemonPid, Stamp
<1>8. CASE UNCHANGED diagVars
  BY <1>0, <1>8 DEF DiagTyped, diagVars
<1> QED
  BY <1>1, <1>2, <1>3, <1>4, <1>5, <1>6, <1>7, <1>8 DEF DiagNext

(* LastSeen is a time already passed, and no step of this daemon takes it  *)
(* back.                                                                   *)
LEMMA Seen ==
    ASSUME DiagTypeOK, DiagTypeOK', SourceInv, [DiagNext]_diagVars
    PROVE  /\ LastSeen \in Int /\ LastSeen' \in Int /\ LastSeen <= now
           /\ Restart \/ LastSeen <= LastSeen'
<1>0. DiagTyped /\ DiagTyped'
  BY DiagTypes
<1>1. /\ startedAt \in Int /\ beat \in Int /\ startedAt' \in Int /\ beat' \in Int
      /\ now \in Nat /\ NoTime = -1
      /\ (startedAt = NoTime \/ startedAt >= 0) /\ (beat = NoTime \/ beat >= 0)
  BY <1>0, Numbers DEF DiagTyped
<1> USE DEF daemonVars, sourceVars, writerVars, fileVars
<1>2. CASE NoteEmhttpPoll
  BY <1>1, <1>2 DEF NoteEmhttpPoll, LastSeen, SourceInv
<1>3. CASE BeginRefresh
  BY <1>1, <1>3 DEF BeginRefresh, LastSeen, SourceInv
<1>4. CASE UNCHANGED <<startedAt, beat>>
  BY <1>1, <1>4 DEF LastSeen, SourceInv
<1>5. Tick \/ FinishRefresh \/ CopyPublished \/ CopyHeartbeat \/ Write \/ UNCHANGED diagVars
         => UNCHANGED <<startedAt, beat>>
  BY DEF Tick, FinishRefresh, CopyPublished, CopyHeartbeat, Write, diagVars
<1>6. CASE Restart
  BY <1>1, <1>6 DEF LastSeen, SourceInv
<1> QED
  BY <1>2, <1>3, <1>4, <1>5, <1>6 DEF DiagNext

(* A refresh under way stays within its time, and its decision holds of    *)
(* the heartbeat known now.                                                *)
LEMMA SourceStep ==
    DiagTypeOK /\ DiagTypeOK' /\ SourceInv /\ [DiagNext]_diagVars => SourceInv'
<1> SUFFICES ASSUME DiagTypeOK, DiagTypeOK', SourceInv, [DiagNext]_diagVars PROVE SourceInv'
  OBVIOUS
<1>0. DiagTyped /\ DiagTyped'
  BY DiagTypes
<1>1. /\ startedAt \in Int /\ beat \in Int /\ now \in Nat /\ now' \in Nat /\ NoTime = -1
      /\ decision.at \in Int /\ decision.poll \in Nat /\ PollMargin \in Nat
      /\ MaxRefresh \in Nat /\ reports \in Int /\ MaxReports \in Nat
  BY <1>0, Numbers, NoDecisionTyped DEF DiagTyped
<1> USE DEF daemonVars, sourceVars, writerVars, fileVars
<1>2. CASE BeginRefresh
  <2>1. /\ UNCHANGED <<now, beat, reports>> /\ startedAt' \in {startedAt, now}
        /\ beat = NoTime => startedAt' # NoTime
    BY <1>1, <1>2 DEF BeginRefresh
  <2>2. PICK poll \in Poll, failed \in BOOLEAN :
           decision' = [at |-> now, poll |-> poll, configError |-> failed,
                        direct |-> Fallback(poll)]
    BY <1>2 DEF BeginRefresh
  <2>3. poll \in Nat
    BY Numbers
  <2>4. ~Fallback(poll) /\ poll # 0 => now - LastSeen' <= poll + PollMargin
    BY <1>1, <1>2, <2>3 DEF Fallback, LastSeen, BeginRefresh
  <2>5. decision'.at = now /\ decision'.poll = poll /\ decision'.direct = Fallback(poll)
    BY <2>2
  <2>6. now \in 0..now /\ now <= now + MaxRefresh
    BY <1>1
  <2> QED
    BY <1>1, <2>1, <2>4, <2>5, <2>6 DEF SourceInv
<1>3. CASE FinishRefresh
  BY <1>3 DEF FinishRefresh, SourceInv
<1>4. CASE Restart
  BY <1>1, <1>4 DEF Restart, SourceInv
<1>5. CASE Tick \/ NoteEmhttpPoll \/ CopyPublished \/ CopyHeartbeat \/ Write
           \/ UNCHANGED diagVars
  <2>1. /\ UNCHANGED <<startedAt, decision>> /\ beat' \in {beat, now}
        /\ now' = now \/ (Tick /\ now' = now + 1)
        /\ MayReport' => MayReport
    BY <1>1, <1>5 DEF Tick, NoteEmhttpPoll, CopyPublished, CopyHeartbeat, Write, diagVars,
                      MayReport
  <2>2. startedAt' <= now' /\ beat' <= now'
    BY <1>1, <2>1 DEF SourceInv
  <2>3. decision # NoDecision => decision.at \in 0..now'
    BY <1>1, <2>1 DEF SourceInv
  <2>4. decision # NoDecision /\ MayReport => now' <= decision.at + MaxRefresh
    BY <1>1, <2>1 DEF SourceInv, Tick
  <2>5. ASSUME decision # NoDecision, ~decision.direct, decision.poll # 0
        PROVE  decision.at - LastSeen' <= decision.poll + PollMargin
    <3>1. LastSeen \in Int /\ LastSeen' \in Int /\ LastSeen <= LastSeen'
      <4>1. Restart => decision' = NoDecision
        BY DEF Restart
      <4> QED
        BY <2>1, <2>5, <4>1, Seen
    <3>2. decision.at - LastSeen <= decision.poll + PollMargin
      BY <2>5 DEF SourceInv
    <3> QED
      BY <1>1, <3>1, <3>2
  <2> QED
    BY <2>1, <2>2, <2>3, <2>4, <2>5 DEF SourceInv
<1> QED
  BY <1>2, <1>3, <1>4, <1>5 DEF DiagNext

(* What is published stays this daemon's and of its age.                   *)
LEMMA PubStep ==
    DiagTypeOK /\ DiagTypeOK' /\ SourceInv /\ PubInv /\ [DiagNext]_diagVars => PubInv'
<1> SUFFICES ASSUME DiagTypeOK, DiagTypeOK', SourceInv, PubInv, [DiagNext]_diagVars
             PROVE  PubInv'
  OBVIOUS
<1>0. DiagTyped
  BY DiagTypes
<1> USE DEF daemonVars, sourceVars, writerVars, fileVars
<1>1. CASE Tick
  BY <1>0, <1>1, Numbers DEF DiagTyped, PubInv, Tick, LastSeen
<1>2. CASE NoteEmhttpPoll \/ BeginRefresh
  <2>1. UNCHANGED <<now, bootAt, pub>>
    BY <1>2 DEF NoteEmhttpPoll, BeginRefresh
  <2>2. LastSeen \in Int /\ LastSeen' \in Int /\ LastSeen <= LastSeen'
    <3>1. LastSeen <= LastSeen' \/ Restart
      BY Seen
    <3>2. ~Restart
      BY <1>0, <1>2, Numbers
         DEF DiagTyped, Restart, NoteEmhttpPoll, BeginRefresh, DaemonPid
    <3> QED
      BY <3>1, <3>2, Seen
  <2>3. pub.updatedAt \in Int /\ pub.poll \in Nat
    <3>1. pub.updatedAt \in Stamp /\ pub.poll \in Poll
      BY <1>0 DEF DiagTyped
    <3> QED
      BY <3>1, Numbers
  <2>4. ~pub.err /\ ~pub.direct /\ pub.poll # 0 =>
           pub.updatedAt - LastSeen' <= pub.poll + PollMargin + MaxRefresh
    BY <2>1, <2>2, <2>3, Numbers DEF PubInv
  <2> QED
    BY <2>1, <2>4 DEF PubInv
<1>3. CASE FinishRefresh
  <2> USE <1>0, <1>3
  <2>1. UNCHANGED <<now, bootAt, beat, startedAt>> /\ LastSeen' = LastSeen
    BY DEF FinishRefresh, LastSeen
  <2>2. CASE pub'.err /\ pub'.disks = pub.disks
    BY <2>1, <2>2 DEF PubInv
  <2>3. ASSUME ~pub'.err, pub'.updatedAt = now,
               pub'.direct = decision.direct, pub'.poll = decision.poll
        PROVE  /\ pub'.updatedAt \in bootAt..now
               /\ ~pub'.direct /\ pub'.poll # 0 =>
                     pub'.updatedAt - LastSeen <= pub'.poll + PollMargin + MaxRefresh
    <3>1. decision.poll \in Nat /\ decision.at \in Int
      BY NoDecisionTyped, Numbers DEF DiagTyped
    <3>2. now \in Nat /\ bootAt \in Nat /\ bootAt <= now /\ LastSeen \in Int
      BY Numbers, Seen DEF DiagTyped, PubInv
    <3>3. decision # NoDecision /\ MayReport
      BY DEF FinishRefresh
    <3>4. ~decision.direct /\ decision.poll # 0 =>
             now - LastSeen <= decision.poll + PollMargin + MaxRefresh
      BY <3>1, <3>2, <3>3, Numbers DEF SourceInv
    <3> QED
      BY <2>3, <3>2, <3>4
  <2>4. ASSUME ~pub'.err, pub'.updatedAt = now,
               pub'.direct = decision.direct, pub'.poll = decision.poll,
               NEW listed \in SUBSET Disk, NEW thermal \in [listed -> Thermal],
               pub'.disks = Collected(thermal)
        PROVE  PubInv'
    <3>1. \A d \in DOMAIN pub'.disks :
             /\ pub'.disks[d].at # NoTime => pub'.disks[d].at >= bootAt
             /\ pub'.disks[d].thermal = "valid" => pub'.disks[d].at = now
      BY <2>4, Numbers DEF Collected, PubInv, DiagTyped
    <3> QED
      BY <2>1, <2>3, <2>4, <3>1 DEF PubInv, LastSeen
  <2>5. ASSUME ~pub'.err, pub'.updatedAt = now,
               pub'.direct = decision.direct, pub'.poll = decision.poll,
               NEW listed \in SUBSET Disk, pub'.disks = Again(listed), pub'.reused
        PROVE  PubInv'
    <3>1. \A d \in DOMAIN pub'.disks :
             pub'.disks[d].at # NoTime => pub'.disks[d].at >= bootAt
      BY <2>5 DEF Again, PubInv
    <3> QED
      BY <2>1, <2>3, <2>5, <3>1 DEF PubInv, LastSeen
  <2> QED
    BY <2>2, <2>4, <2>5, RefreshMoves
<1>4. CASE CopyPublished \/ CopyHeartbeat \/ Write \/ UNCHANGED diagVars
  <2>1. UNCHANGED <<now, bootAt, startedAt, beat, pub>>
    BY <1>4 DEF CopyPublished, CopyHeartbeat, Write, diagVars
  <2> QED
    BY <2>1 DEF PubInv, LastSeen
<1>5. CASE Restart
  <2>1. pub'.err /\ DOMAIN pub'.disks = {}
    BY <1>5, NewPubTyped DEF Restart
  <2> QED
    BY <1>0, <1>5, <2>1, Numbers DEF PubInv, Restart, DiagTyped
<1> QED
  BY <1>1, <1>2, <1>3, <1>4, <1>5 DEF DiagNext

(* What is copied into a report bounds its age.                            *)
LEMMA CopyFresh ==
    ASSUME DiagTypeOK, PubInv, CopyPublished
    PROVE  /\ draft'.pid = pid /\ draft'.poll = pub.poll
           /\ \A d \in DOMAIN draft'.items :
                 /\ draft'.items[d].at # NoTime => draft'.items[d].at >= bootAt
                 /\ draft'.items[d].status = "valid" => now - draft'.items[d].at < DiskTimeout
           /\ Looks(draft') => now - LastSeen < draft'.poll + PollMargin + MaxRefresh + DiskTimeout
<1>0. DiagTyped
  BY DiagTypes
<1>1. /\ draft'.pid = pid /\ draft'.poll = pub.poll
      /\ draft'.disks = DisksHealth /\ draft'.emhttpd = SourceStatus
      /\ draft'.items = [d \in DOMAIN pub.disks |->
                           [status |-> StatusOf(d), at |-> pub.disks[d].at]]
  BY DEF CopyPublished
<1>2. DisksHealth = "healthy" => /\ ~pub.err /\ pub.updatedAt \in bootAt..now
                                 /\ now < pub.updatedAt + DiskTimeout
  <2>1. DisksHealth = "healthy" => ~pub.err /\ now < pub.updatedAt + DiskTimeout
    BY DEF DisksHealth
  <2> QED
    BY <2>1 DEF PubInv
<1>3. ASSUME NEW d \in DOMAIN pub.disks, StatusOf(d) = "valid"
      PROVE  now - pub.disks[d].at < DiskTimeout
  <2>1. pub.disks[d].thermal = "valid" /\ ~pub.reused /\ DisksHealth = "healthy"
    BY <1>3 DEF StatusOf
  <2>2. pub.disks[d].at = pub.updatedAt
    BY <1>2, <2>1 DEF PubInv
  <2> QED
    BY <1>0, <1>2, <2>1, <2>2, Numbers DEF DiagTyped
<1>4. ASSUME DisksHealth = "healthy", SourceStatus = "healthy"
      PROVE  now - LastSeen < pub.poll + PollMargin + MaxRefresh + DiskTimeout
  <2>1. ~pub.direct /\ pub.poll # 0
    BY <1>4 DEF SourceStatus
  <2>2. pub.updatedAt - LastSeen <= pub.poll + PollMargin + MaxRefresh
    BY <1>2, <1>4, <2>1 DEF PubInv
  <2>3. LastSeen \in Int /\ pub.updatedAt \in Int /\ now \in Int /\ pub.poll \in Int
    <3>1. /\ pub.updatedAt \in Stamp /\ pub.poll \in Poll
          /\ LastSeen \in Stamp \cup Time /\ now \in Time
      BY <1>0 DEF LastSeen, DiagTyped
    <3> QED
      BY <3>1, Numbers
  <2> QED
    BY <1>2, <1>4, <2>2, <2>3, Numbers
<1>5. \A d \in DOMAIN draft'.items :
         /\ draft'.items[d].at # NoTime => draft'.items[d].at >= bootAt
         /\ draft'.items[d].status = "valid" => now - draft'.items[d].at < DiskTimeout
  BY <1>1, <1>3 DEF PubInv
<1> QED
  BY <1>1, <1>4, <1>5 DEF Looks

(* A report being built keeps its age while time passes, and its           *)
(* heartbeat is alive though it is read after the decision.                *)
LEMMA DraftStep ==
    DiagTypeOK /\ SourceInv /\ PubInv /\ DraftInv /\ [DiagNext]_diagVars => DraftInv'
<1> SUFFICES ASSUME DiagTypeOK, SourceInv, PubInv, DraftInv, [DiagNext]_diagVars
             PROVE  DraftInv'
  OBVIOUS
<1>0. DiagTyped /\ DiagTyped'
  BY DiagTypes, DiagTypeStep
<1> USE DEF daemonVars, sourceVars, writerVars, fileVars
<1>1. CASE Tick
  <2>1. UNCHANGED <<pid, bootAt, beat, writer, draft, draftAt, reports>> /\ LastSeen' = LastSeen
    BY <1>1 DEF Tick, LastSeen
  <2>2. writer # "idle" => draftAt \in 0..now' /\ now' <= draftAt + MaxBuild
    BY <1>0, <1>1, Numbers DEF DiagTyped, DraftInv, Tick
  <2> QED
    BY <2>1, <2>2 DEF DraftInv, Looks
<1>2. CASE NoteEmhttpPoll \/ BeginRefresh
  <2>1. UNCHANGED <<now, pid, bootAt, writer, draft, draftAt, reports>>
    BY <1>2 DEF NoteEmhttpPoll, BeginRefresh
  <2>2. LastSeen \in Int /\ LastSeen' \in Int /\ LastSeen <= LastSeen' /\ draftAt \in Int
    <3>1. ~Restart
      BY <1>0, <2>1, Numbers DEF DiagTyped, Restart
    <3> QED
      BY <1>0, <3>1, Seen, DiagTypes, Numbers DEF DiagTyped
  <2>3. ASSUME writer = "heartbeat", Looks(draft)
        PROVE  draftAt - LastSeen' < draft.poll + PollMargin + MaxRefresh + DiskTimeout
    <3>1. draft.poll \in Nat
      BY <1>0, <2>3, Numbers DEF DiagTyped, DraftInv
    <3>2. draftAt - LastSeen < draft.poll + PollMargin + MaxRefresh + DiskTimeout
      BY <2>3 DEF DraftInv
    <3> QED
      BY <2>2, <3>1, <3>2, Numbers
  <2> QED
    BY <2>1, <2>3 DEF DraftInv, Looks
<1>3. CASE FinishRefresh \/ UNCHANGED diagVars
  <2>1. /\ UNCHANGED <<now, pid, bootAt, beat, writer, draft, draftAt, reports>>
        /\ LastSeen' = LastSeen
    BY <1>3 DEF FinishRefresh, diagVars, LastSeen
  <2> QED
    BY <2>1 DEF DraftInv, Looks
<1>4. CASE CopyPublished
  <2>1. /\ UNCHANGED <<now, pid, bootAt, beat, reports>> /\ LastSeen' = LastSeen
        /\ writer' = "heartbeat" /\ draftAt' = now /\ reports < MaxReports
    BY <1>4 DEF CopyPublished, MayReport, LastSeen
  <2>2. draft' # NoReport
    <3>1. draft'.pid = pid
      BY <1>4, CopyFresh
    <3>2. NoReport.pid = 0 /\ pid # 0
      BY <1>0, Numbers DEF NoReport, DiagTyped, DaemonPid
    <3> QED
      BY <3>1, <3>2
  <2>3. now \in 0..now /\ now <= now + MaxBuild
    BY <1>0, Numbers DEF DiagTyped
  <2> QED
    BY <1>4, <2>1, <2>2, <2>3, CopyFresh DEF DraftInv
<1>5. CASE CopyHeartbeat
  <2>1. /\ UNCHANGED <<now, pid, bootAt, beat, draftAt, reports>>
        /\ writer = "heartbeat" /\ writer' = "write"
    BY <1>5 DEF CopyHeartbeat
  <2>2. /\ draft'.pid = draft.pid /\ draft'.items = draft.items /\ draft'.disks = draft.disks
        /\ draft'.poll = draft.poll /\ draft'.beat = beat /\ draft' # NoReport
        /\ draft'.emhttpd = "healthy" => draft.emhttpd = "healthy" /\ beat # NoTime
    <3>1. draft \in [pid : DaemonPid, at : Stamp, disks : Health, items : Items,
                     emhttpd : Emhttpd, poll : Poll, beat : Stamp]
      BY <1>0, <2>1 DEF DraftInv, DiagTyped
    <3>2. draft' \in [pid : DaemonPid, at : Stamp, disks : Health, items : Items,
                      emhttpd : Emhttpd, poll : Poll, beat : Stamp]
      BY <1>0, <1>5, <3>1 DEF CopyHeartbeat, Emhttpd, DiagTyped
    <3>3. draft' # NoReport
      BY <3>2, IsReport
    <3> QED
      BY <1>5, <3>1, <3>3 DEF CopyHeartbeat
  <2>3. Looks(draft') => draft'.beat # NoTime /\ LastSeen = draft'.beat /\ Looks(draft)
    BY <2>2 DEF Looks, LastSeen
  <2> QED
    BY <2>1, <2>2, <2>3 DEF DraftInv
<1>6. CASE Write \/ Restart
  BY <1>6 DEF Write, Restart, DraftInv
<1> QED
  BY <1>1, <1>2, <1>3, <1>4, <1>5, <1>6 DEF DiagNext

(* A file is stamped at most MaxBuild after its first copy, and outlives   *)
(* its daemon only under that daemon's pid.                                *)
LEMMA FileStep == DiagTypeOK /\ PubInv /\ DraftInv /\ FileInv /\ [DiagNext]_diagVars => FileInv'
<1> SUFFICES ASSUME DiagTypeOK, PubInv, DraftInv, FileInv, [DiagNext]_diagVars PROVE FileInv'
  OBVIOUS
<1>0. DiagTyped /\ DiagTyped'
  BY DiagTypes, DiagTypeStep
<1> USE DEF daemonVars, sourceVars, writerVars, fileVars
<1>1. CASE Tick
  <2>1. UNCHANGED <<pid, bootAt, file>> /\ now' = now + 1
    BY <1>1 DEF Tick
  <2>2. file # NoReport => file.at \in 0..now'
    BY <1>0, <2>1, Numbers DEF FileInv, DiagTyped
  <2> QED
    BY <2>1, <2>2 DEF FileInv, Looks
<1>2. CASE Write /\ file' = Stamped
  <2>1. draft \in [pid : DaemonPid, at : Stamp, disks : Health, items : Items,
                   emhttpd : Emhttpd, poll : Poll, beat : Stamp]
    BY <1>0, <1>2 DEF DraftInv, DiagTyped, Write
  <2>2. /\ file'.pid = draft.pid /\ file'.items = draft.items /\ file'.disks = draft.disks
        /\ file'.poll = draft.poll /\ file'.beat = draft.beat /\ file'.emhttpd = draft.emhttpd
        /\ file'.at = now
    BY <1>2, <2>1 DEF Stamped
  <2>3. UNCHANGED <<now, pid, bootAt>> /\ writer = "write"
    BY <1>2 DEF Write
  <2>4. /\ now \in Nat /\ draftAt \in Nat /\ draftAt <= now /\ now <= draftAt + MaxBuild
        /\ draft.pid = pid /\ pid \in Nat
    BY <1>0, <2>3, Numbers DEF DraftInv, DiagTyped
  <2>5. ASSUME NEW d \in DOMAIN draft.items, draft.items[d].status = "valid"
        PROVE  now - draft.items[d].at < DiskTimeout + MaxBuild
    <3>1. draft.items[d].at \in Int
      BY <2>1, OfItems, Numbers
    <3>2. draftAt - draft.items[d].at < DiskTimeout
      BY <2>3, <2>5 DEF DraftInv
    <3> QED
      BY <2>4, <3>1, <3>2, Numbers
  <2>6. ASSUME Looks(draft)
        PROVE  /\ draft.beat # NoTime
               /\ now - draft.beat < draft.poll + PollMargin + MaxRefresh + DiskTimeout + MaxBuild
    <3>1. draft.beat \in Int /\ draft.poll \in Int
      <4>1. draft.beat \in Stamp /\ draft.poll \in Poll
        BY <2>1
      <4> QED
        BY <4>1, Numbers
    <3>2. /\ draft.beat # NoTime
          /\ draftAt - draft.beat < draft.poll + PollMargin + MaxRefresh + DiskTimeout
      BY <2>3, <2>6 DEF DraftInv
    <3> QED
      BY <2>4, <3>1, <3>2, Numbers
  <2>7. file'.pid <= pid' /\ file'.at \in 0..now'
    BY <2>2, <2>3, <2>4
  <2>8. \A d \in DOMAIN draft.items : draft.items[d].at # NoTime => draft.items[d].at >= bootAt
    BY <2>3 DEF DraftInv
  <2> QED
    BY <2>2, <2>3, <2>5, <2>6, <2>7, <2>8 DEF FileInv, Looks
<1>3. CASE Restart
  <2>1. UNCHANGED <<now, file>> /\ pid' = pid + 1 /\ pid \in Nat
    BY <1>0, <1>3, Numbers DEF Restart, DiagTyped
  <2>2. file # NoReport => file.pid <= pid' /\ file.pid # pid'
    <3>1. file # NoReport => file.pid \in DaemonPid /\ file.pid <= pid
      BY <1>0 DEF FileInv, DiagTyped
    <3> QED
      BY <2>1, <3>1, Numbers
  <2> QED
    BY <2>1, <2>2 DEF FileInv, Looks
<1>4. CASE UNCHANGED <<now, pid, bootAt, file>>
  BY <1>4 DEF FileInv, Looks
<1>5. (NoteEmhttpPoll \/ BeginRefresh \/ FinishRefresh
         \/ CopyPublished \/ CopyHeartbeat \/ UNCHANGED diagVars)
         => UNCHANGED <<now, pid, bootAt, file>>
  BY DEF NoteEmhttpPoll, BeginRefresh, FinishRefresh, CopyPublished, CopyHeartbeat, diagVars
<1>6. Write => (Write /\ file' = Stamped) \/ UNCHANGED <<now, pid, bootAt, file>>
  BY DEF Write
<1> QED
  BY <1>1, <1>2, <1>3, <1>4, <1>5, <1>6 DEF DiagNext

(* The diagnostics' inductive invariant: what is published, what is being  *)
(* reported and what the file says are each as old as the step before      *)
(* allows, whatever happens between the steps.                             *)
THEOREM DiagnosticsInvariant == DiagSpec => []DiagInv
<1>1. DiagInit => DiagInv
  BY DiagInitInv
<1>2. DiagInv /\ [DiagNext]_diagVars => DiagInv'
  BY DiagTypeStep, SourceStep, PubStep, DraftStep, FileStep DEF DiagInv
<1> QED
  BY <1>1, <1>2, PTL DEF DiagSpec

(* A temperature that the page shows as valid, and a heartbeat it shows as *)
(* healthy, were so a bounded time ago, for every poll interval, timeout   *)
(* and age.                                                                *)
THEOREM ShownIsFreshHolds == DiagSpec => []ShownIsFresh
<1>1. DiagInv => ShownIsFresh
  <2> SUFFICES ASSUME DiagInv PROVE ShownValidIsFresh /\ HealthyHasHeartbeat
    BY DEF DiagInv, ShownIsFresh
  <2>0. DiagTyped
    BY DiagTypes DEF DiagInv
  <2>1. HealthyHasHeartbeat
    BY DEF HealthyHasHeartbeat, Shown, DiagInv, FileInv, Looks
  <2>2. ASSUME Shown, NEW d \in DOMAIN file.items, file.items[d].status = "valid"
        PROVE  now - file.items[d].at < DiskTimeout + MaxBuild + PageMaxAge
    <3>1. file.items \in Items /\ file.at \in Int /\ now \in Int /\ file # NoReport
      BY <2>0, <2>2, Numbers DEF DiagTyped, Shown
    <3>2. file.items[d].at \in Int
      BY <2>2, <3>1, OfItems, Numbers
    <3>3. file.at - file.items[d].at < DiskTimeout + MaxBuild
      BY <2>2, <3>1 DEF DiagInv, FileInv
    <3>4. now - file.at <= PageMaxAge
      BY <2>2 DEF Shown, Recent
    <3> QED
      BY <3>1, <3>2, <3>3, <3>4, Numbers
  <2> QED
    BY <2>1, <2>2 DEF ShownValidIsFresh
<1> QED
  BY <1>1, DiagnosticsInvariant, PTL

(* What the page shows was accepted by the daemon that runs, however often *)
(* it was started again.                                                   *)
THEOREM ShownIsOursHolds == DiagSpec => []ShownIsOurs
<1>1. DiagInv => ShownIsOurs
  BY DEF DiagInv, FileInv, ShownIsOurs, Shown, Belongs
<1> QED
  BY <1>1, DiagnosticsInvariant, PTL

=============================================================================
