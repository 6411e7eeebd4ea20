---------------------------- MODULE FallbackPool ----------------------------
(***************************************************************************)
(* One direct SMART collection: disk_fallback.go.                          *)
(*                                                                         *)
(* A few workers claim disks from one shared counter, in the order of the  *)
(* inventory from a cursor that survives the cycle, and run the commands   *)
(* that read each disk.  A command is killed at its own timeout or when    *)
(* the cycle ends, whichever comes first.  The clock starts anew with each *)
(* cycle and only commands take time.                                      *)
(***************************************************************************)
EXTENDS Integers, Sequences, FiniteSetsExt

CONSTANTS Disk,
          Rotational,       \* disks that sdspin must find awake first
          Unsafe,           \* rotational disks without an ATA power check
          Inventories,      \* the disk lists a collection may be given
          Durations,        \* by disk, how long one of its commands may run
          Workers,          \* fallbackWorkers
          CommandTimeout,   \* fallbackCommandTimeout
          CycleTimeout,     \* fallbackCycleTimeout
          WaitDelay         \* Cmd.WaitDelay: how long a killed command may linger

ASSUME PoolAssumption ==
    /\ Inventories \subseteq Seq(Disk)
    /\ Unsafe \subseteq Rotational /\ Rotational \subseteq Disk
    /\ Durations \in [Disk -> SUBSET Nat] /\ \A d \in Disk : Durations[d] # {}
    /\ Workers \in Nat \ {0} /\ CommandTimeout \in Nat \ {0}
    /\ CycleTimeout \in Nat \ {0} /\ WaitDelay \in Nat

VARIABLES
    cursor,     \* fallbackCursor
    list,       \* the disks of this cycle, or of the last one
    start,      \* the position the cycle began at
    next,       \* the counter the workers claim from
    worker,     \* the workers
    obs,        \* observations; "unset" until a worker writes one
    elapsed,    \* time since the cycle began
    running     \* a cycle is under way

vars == <<cursor, list, start, next, worker, obs, elapsed, running>>

Pool == 1..Workers
N == Len(list)

(* How a disk is left: no observation yet, a temperature, standby, failed  *)
(* by its command, killed, or not to be probed.  All but ok and standby    *)
(* are errors.                                                             *)
Outcome == {"unset", "ok", "standby", "failed", "killed", "unsafe"}

Idle == [at |-> "done", claimed |-> 0, since |-> 0]

TypeOK ==
    /\ list \in Inventories \cup {<<>>} /\ running \in BOOLEAN
    /\ start \in Nat /\ cursor \in Nat /\ (N > 0 => start < N)
    /\ (N > 0 /\ ~running => cursor < N)
    /\ next \in 0..(N + Workers)
    /\ worker \in [Pool -> [at : {"claim", "sdspin", "smartctl", "done"},
                            claimed : Nat, since : Nat]]
    /\ obs \in [1..N -> Outcome]
    /\ elapsed \in Nat

Init ==
    /\ cursor = 0 /\ list = <<>> /\ start = 0 /\ next = 0
    /\ worker = [w \in Pool |-> Idle]
    /\ obs = <<>> /\ elapsed = 0 /\ running = FALSE

-----------------------------------------------------------------------------
(* collectFallback begins: every observation is unavailable until a worker *)
(* replaces it.  An empty inventory resets the cursor.                     *)
BeginCycle ==
    /\ ~running
    /\ \E l \in Inventories :
          /\ list' = l
          /\ obs' = [i \in 1..Len(l) |-> "unset"]
          /\ next' = 0 /\ elapsed' = 0
          /\ IF l = <<>>
             THEN /\ cursor' = 0 /\ start' = 0
                  /\ UNCHANGED <<worker, running>>
             ELSE /\ start' = cursor % Len(l)
                  /\ running' = TRUE
                  /\ worker' = [w \in Pool |-> IF w <= Len(l) THEN [Idle EXCEPT !.at = "claim"]
                                                             ELSE Idle]
                  /\ UNCHANGED cursor

(* The position a claim stands for.                                        *)
Position(claimed) == ((start + claimed) % N) + 1

Exhausted_OneTooMany(claimed) == claimed > N
Exhausted(claimed) == claimed >= N

(* fallbackObservation starts with sdspin for a rotational disk, and does  *)
(* not probe one whose power state cannot be checked.                      *)
FirstCommand(d) == IF d \in Rotational THEN "sdspin" ELSE "smartctl"

(* One turn of a worker's loop up to its first command.                    *)
Claim(w) ==
    /\ worker[w].at = "claim"
    /\ IF elapsed >= CycleTimeout
       THEN /\ worker' = [worker EXCEPT ![w].at = "done"]
            /\ UNCHANGED <<next, obs>>
       ELSE /\ next' = next + 1
            /\ IF Exhausted(next)
               THEN worker' = [worker EXCEPT ![w].at = "done"] /\ UNCHANGED obs
               ELSE LET d == list[Position(next)]
                    IN  IF d \in Unsafe
                        THEN /\ obs' = [obs EXCEPT ![Position(next)] = "unsafe"]
                             /\ UNCHANGED worker
                        ELSE /\ worker' = [worker EXCEPT ![w] =
                                   [at |-> FirstCommand(d), claimed |-> next,
                                    since |-> elapsed]]
                             /\ UNCHANGED obs
    /\ UNCHANGED <<cursor, list, start, elapsed, running>>

-----------------------------------------------------------------------------
(* runFallbackCommand: the command's context is derived from the cycle's.  *)
Deadline_IgnoresCycle(c) == c.since + CommandTimeout
Deadline_IgnoresCommand(c) == CycleTimeout
Deadline(c) == Min({c.since + CommandTimeout, CycleTimeout})

Runs(w) == worker[w].at \in {"sdspin", "smartctl"}
Cmd(w) == worker[w]
DiskOf(w) == list[Position(Cmd(w).claimed)]

(* The worker stores its observation and claims again.                     *)
Store(w, o) ==
    /\ obs' = [obs EXCEPT ![Position(Cmd(w).claimed)] = o]
    /\ worker' = [worker EXCEPT ![w].at = "claim"]

(* A command that ends before its deadline.  sdspin finds the disk awake,  *)
(* in standby (exit 2), or fails; smartctl reports a temperature or        *)
(* standby (exit 3 or in its JSON), or nothing usable.                     *)
Finish(w) ==
    /\ Runs(w) /\ elapsed < Deadline(Cmd(w))
    /\ elapsed - Cmd(w).since \in Durations[DiskOf(w)]
    /\ \/ /\ Cmd(w).at = "sdspin"
          /\ worker' = [worker EXCEPT ![w].at = "smartctl", ![w].since = elapsed]
          /\ UNCHANGED obs
       \/ /\ Cmd(w).at = "sdspin"
          /\ \E o \in {"standby", "failed"} : Store(w, o)
       \/ /\ Cmd(w).at = "smartctl"
          /\ \E o \in {"ok", "standby", "failed"} : Store(w, o)
    /\ UNCHANGED <<cursor, list, start, next, elapsed, running>>

(* A command that its context cancels: the process group is killed, and    *)
(* whatever it printed is dropped.                                         *)
Kill(w) ==
    /\ Runs(w) /\ elapsed >= Deadline(Cmd(w))
    /\ Store(w, "killed")
    /\ UNCHANGED <<cursor, list, start, next, elapsed, running>>

(* Time passes while no worker has anything left to do at this instant.    *)
MayRunOn(w) ==
    \/ worker[w].at = "done"
    \/ /\ Runs(w)
       /\ IF elapsed < Deadline(Cmd(w))
          THEN \E t \in Durations[DiskOf(w)] : Cmd(w).since + t > elapsed
          ELSE elapsed < Deadline(Cmd(w)) + WaitDelay

Tick ==
    /\ running /\ \E w \in Pool : Runs(w)
    /\ \A w \in Pool : MayRunOn(w)
    /\ elapsed' = elapsed + 1
    /\ UNCHANGED <<cursor, list, start, next, worker, obs, running>>

(* The workers are joined; the cursor moves past the claimed disks.        *)
NextCursor_Stays == start
NextCursor_Overshoots == (start + next) % N
NextCursor == (start + Min({next, N})) % N

EndCycle ==
    /\ running /\ \A w \in Pool : worker[w].at = "done"
    /\ running' = FALSE
    /\ cursor' = NextCursor
    /\ worker' = [w \in Pool |-> Idle]
    /\ UNCHANGED <<list, start, next, obs, elapsed>>

Next ==
    \/ BeginCycle \/ EndCycle \/ Tick
    \/ \E w \in Pool : Claim(w) \/ Finish(w) \/ Kill(w)

Spec == Init /\ [][Next]_vars

(* The collector runs a cycle whenever one is due, workers are goroutines  *)
(* and a killed command returns.                                           *)
FairSpec == Spec /\ WF_vars(Next)

-----------------------------------------------------------------------------
(* No two workers are ever on the same disk, and none on a disk that this  *)
(* cycle has observed already: the unlocked writes to observations do not  *)
(* collide and no disk is probed twice.                                    *)
OneProbePerDisk ==
    \A v, w \in Pool : Runs(w) =>
        /\ obs[Position(Cmd(w).claimed)] = "unset"
        /\ (Runs(v) /\ Position(Cmd(v).claimed) = Position(Cmd(w).claimed)) => v = w

(* The collection is bounded in time: it ends with the cycle's timeout,    *)
(* give or take the delay of a killed command.                             *)
CycleBounded == running => elapsed <= CycleTimeout + WaitDelay

(* A cycle long enough for two commands cuts short none of the disks it    *)
(* starts with: each of their commands has its whole timeout, and is not   *)
(* killed with the cycle.                                                  *)
FirstDisksGetFullTime ==
    2 * CommandTimeout <= CycleTimeout =>
        \A w \in Pool : Runs(w) /\ Cmd(w).claimed < Workers =>
            Cmd(w).since + CommandTimeout <= CycleTimeout

(* After a cycle the cursor is at the first disk no worker claimed, and    *)
(* where it was when all were claimed: no disk is skipped over, although   *)
(* the counter runs past the end and the list may have changed.            *)
CursorAfterClaims ==
    ~running /\ N > 0 =>
        LET span == IF \E i \in 1..N : obs[i] = "unset" THEN (cursor - start) % N ELSE N
        IN  /\ span = N => cursor = start
            /\ \A k \in 0..(N - 1) : obs[Position(k)] = "unset" <=> k >= span

(* However slow its peers are, every disk of an inventory that no longer   *)
(* changes is probed again and again, wherever the changes before left the *)
(* cursor.  It need not be observed: a cycle that has claimed every disk   *)
(* leaves the cursor where it was, and the disks it claimed last may have  *)
(* their commands killed with the cycle each time.                         *)
EveryDiskProbed ==
    \A l \in Inventories : <>[](list = l) =>
        \A i \in 1..Len(l) : []<>(list = l /\ obs[i] # "unset")

(* The shared counter hands every disk to one worker at most, and the      *)
(* cursor it leaves stands for exactly what was handed out.                *)
ClaimsSound == TypeOK /\ OneProbePerDisk /\ CursorAfterClaims

(* The two nested timeouts end the cycle in time without cutting short the *)
(* disks it starts with.                                                   *)
DeadlinesKept == CycleBounded /\ FirstDisksGetFullTime

=============================================================================
