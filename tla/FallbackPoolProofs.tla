------------------------- MODULE FallbackPoolProofs -------------------------
(***************************************************************************)
(* The safety properties of FallbackPool for any number of workers and     *)
(* disks, any command durations and any timeouts.                          *)
(***************************************************************************)
EXTENDS FallbackPool, FiniteSetTheorems, TLAPS

(* No worker is busy outside a cycle, and the cursor then stands behind    *)
(* what was claimed.                                                       *)
RestInv ==
    /\ ~running => \A w \in Pool : worker[w].at = "done"
    /\ ~running /\ N > 0 => cursor = NextCursor
    /\ running => N > 0

(* Who is busy has a number of its own below the counter, and a disk has   *)
(* an observation exactly when its number was claimed and nobody is busy   *)
(* with it any more.                                                       *)
ClaimInv ==
    /\ \A w \in Pool : Runs(w) => Cmd(w).claimed < next /\ Cmd(w).claimed < N
    /\ \A v, w \in Pool : Runs(v) /\ Runs(w) /\ Cmd(v).claimed = Cmd(w).claimed => v = w
    /\ \A k \in 0..(N - 1) : obs[Position(k)] = "unset" <=>
          k >= next \/ \E w \in Pool : Runs(w) /\ Cmd(w).claimed = k

(* Past the last disk the counter counts workers that are through.         *)
Through == {w \in Pool : worker[w].at = "done"}
CountInv == next <= N \/ next <= N + Cardinality(Through)

(* While the clock stands at zero every worker with a disk to claim claims *)
(* one, so that the first disks' commands all start there.                 *)
ClockInv ==
    /\ CycleBounded
    /\ running /\ elapsed = 0 => \A w \in Pool : worker[w].at = "done" => w > N \/ next >= N
    /\ running /\ elapsed > 0 => next >= Workers \/ next >= N
    /\ \A w \in Pool : Runs(w) /\ Cmd(w).claimed < Workers =>
          /\ Cmd(w).since < CommandTimeout
          /\ Cmd(w).at = "sdspin" => Cmd(w).since = 0

IndInv == TypeOK /\ RestInv /\ ClaimInv /\ CountInv /\ ClockInv

-----------------------------------------------------------------------------
(* The least of two numbers.                                               *)
LEMMA Least ==
    ASSUME NEW a \in Int, NEW b \in Int
    PROVE  Min({a, b}) = IF a <= b THEN a ELSE b
<1>1. \E x \in {a, b} : \A y \in {a, b} : x <= y
  OBVIOUS
<1>2. Min({a, b}) \in {a, b} /\ \A y \in {a, b} : Min({a, b}) <= y
  BY <1>1 DEF Min
<1> QED
  BY <1>2

(* Going round once at most.                                               *)
LEMMA Round ==
    ASSUME NEW n \in Nat \ {0}, NEW a \in 0..(2 * n - 1)
    PROVE  a % n = IF a < n THEN a ELSE a - n
OBVIOUS

(* What a remainder is.                                                    *)
LEMMA Remainder ==
    ASSUME NEW n \in Nat \ {0}, NEW a \in Int
    PROVE  a % n \in 0..(n - 1)
OBVIOUS

(* One step back from the beginning.                                       *)
LEMMA RoundBack ==
    ASSUME NEW n \in Nat \ {0}, NEW a \in Int, -n < a, a < 0
    PROVE  a % n = a + n
OBVIOUS

-----------------------------------------------------------------------------
WorkerType == [at : {"claim", "sdspin", "smartctl", "done"}, claimed : Nat, since : Nat]

(* The conjuncts of the type invariant, and what follows from them.        *)
Typed ==
    /\ list \in Inventories \cup {<<>>} /\ running \in BOOLEAN /\ N \in Nat
    /\ start \in Nat /\ cursor \in Nat /\ (N > 0 => start < N)
    /\ (N > 0 /\ ~running => cursor < N)
    /\ next \in 0..(N + Workers) /\ next \in Nat
    /\ worker \in [Pool -> WorkerType] /\ obs \in [1..N -> Outcome] /\ elapsed \in Nat

(* The constants.                                                          *)
LEMMA Constants ==
    /\ Workers \in Nat \ {0} /\ CommandTimeout \in Nat \ {0} /\ CycleTimeout \in Nat \ {0}
    /\ WaitDelay \in Nat /\ \A l \in Inventories \cup {<<>>} : l \in Seq(Disk) /\ Len(l) \in Nat
<1>0. Inventories \subseteq Seq(Disk)
  BY ZenonT(20), PoolAssumption
<1>e. <<>> \in Seq(Disk)
  OBVIOUS
<1>1. \A l \in Inventories \cup {<<>>} : l \in Seq(Disk)
  BY ZenonT(20), <1>0, <1>e
<1>2. \A l \in Seq(Disk) : Len(l) \in Nat
  OBVIOUS
<1> QED
  BY <1>1, <1>2, PoolAssumption

(* The type invariant is these conjuncts.                                  *)
LEMMA Types == (TypeOK <=> Typed) /\ (TypeOK' <=> Typed')
<1>1. TypeOK => Typed
  BY Constants DEF TypeOK, Typed, WorkerType, N
<1>2. TypeOK' => Typed'
  BY Constants DEF TypeOK, Typed, WorkerType, N
<1> QED
  BY <1>1, <1>2 DEF TypeOK, Typed, WorkerType

(* The claims stand for the positions of the list, each for one.           *)
LEMMA Positions ==
    ASSUME TypeOK, N > 0
    PROVE  /\ \A k \in Nat : Position(k) \in 1..N
           /\ \A j, k \in 0..(N - 1) : Position(j) = Position(k) => j = k
           /\ \A i \in 1..N : \E k \in 0..(N - 1) : Position(k) = i
<1>a. N \in Nat \ {0} /\ start \in 0..(N - 1)
  BY Types DEF Typed
<1>1. \A k \in Nat : Position(k) \in 1..N
  BY <1>a, Remainder DEF Position
<1>2. \A k \in 0..(N - 1) :
         Position(k) = IF start + k < N THEN start + k + 1 ELSE start + k - N + 1
  <2> SUFFICES ASSUME NEW k \in 0..(N - 1)
               PROVE  (start + k) % N = IF start + k < N THEN start + k ELSE start + k - N
    BY <1>a DEF Position
  <2>1. start + k \in 0..(2 * N - 1)
    BY <1>a
  <2> QED
    BY <1>a, <2>1, Round
<1>3. \A j, k \in 0..(N - 1) : Position(j) = Position(k) => j = k
  BY <1>a, <1>2
<1>4. ASSUME NEW i \in 1..N PROVE \E k \in 0..(N - 1) : Position(k) = i
  <2>1. CASE i > start
    <3>1. i - 1 - start \in 0..(N - 1) /\ Position(i - 1 - start) = i
      BY <1>a, <1>2, <2>1
    <3> QED
      BY <3>1
  <2>2. CASE i <= start
    <3>1. i - 1 - start + N \in 0..(N - 1) /\ Position(i - 1 - start + N) = i
      BY <1>a, <1>2, <2>2
    <3> QED
      BY <3>1
  <2> QED
    BY <1>a, <2>1, <2>2
<1> QED
  BY <1>1, <1>3, <1>4

-----------------------------------------------------------------------------
(* What a step of a worker comes to: it is through, skips an unsafe disk,  *)
(* starts on a disk, goes on to smartctl, or stores what it found.         *)
Frame == UNCHANGED <<cursor, list, start, elapsed, running>>
Others(w) == worker' \in [Pool -> WorkerType] /\ \A v \in Pool \ {w} : worker'[v] = worker[v]

Retires(w) ==
    /\ Frame /\ Others(w) /\ UNCHANGED obs
    /\ worker[w].at = "claim" /\ worker'[w].at = "done"
    /\ \/ elapsed >= CycleTimeout /\ next' = next
       \/ next >= N /\ next' = next + 1
Skips(w) ==
    /\ Frame /\ UNCHANGED worker /\ worker[w].at = "claim"
    /\ next < N /\ next' = next + 1
    /\ obs' = [obs EXCEPT ![Position(next)] = "unsafe"]
Starts(w) ==
    /\ Frame /\ Others(w) /\ UNCHANGED obs
    /\ worker[w].at = "claim" /\ next < N /\ next' = next + 1
    /\ worker'[w].at \in {"sdspin", "smartctl"}
    /\ worker'[w].claimed = next /\ worker'[w].since = elapsed
GoesOn(w) ==
    /\ Frame /\ Others(w) /\ UNCHANGED <<obs, next>>
    /\ elapsed < Deadline(Cmd(w))
    /\ worker[w].at = "sdspin" /\ worker'[w].at = "smartctl"
    /\ worker'[w].claimed = worker[w].claimed /\ worker'[w].since = elapsed
Stores(w) ==
    /\ Frame /\ Others(w) /\ UNCHANGED next
    /\ Runs(w) /\ worker'[w].at = "claim"
    /\ \E o \in Outcome \ {"unset"} : obs' = [obs EXCEPT ![Position(worker[w].claimed)] = o]

(* Every step of a worker is one of these.                                 *)
LEMMA WorkerSteps ==
    ASSUME TypeOK, NEW w \in Pool
    PROVE  /\ Claim(w) => Retires(w) \/ Skips(w) \/ Starts(w)
           /\ Finish(w) => GoesOn(w) \/ Stores(w)
           /\ Kill(w) => Stores(w)
<1>a. worker \in [Pool -> WorkerType] /\ next \in Nat /\ elapsed \in Nat /\ N \in Nat
  BY Types DEF Typed
<1>b. ASSUME NEW o \in Outcome \ {"unset"}, Frame, UNCHANGED next, Runs(w), Store(w, o)
      PROVE  Stores(w)
  <2>1. Others(w) /\ worker'[w].at = "claim"
    BY <1>a, <1>b DEF Store, Others, WorkerType
  <2> QED
    BY <1>b, <2>1 DEF Store, Stores, Cmd
<1>1. ASSUME Claim(w) PROVE Retires(w) \/ Skips(w) \/ Starts(w)
  <2>0. Frame /\ worker[w].at = "claim"
    BY <1>1 DEF Claim, Frame
  <2>1. ASSUME worker' = [worker EXCEPT ![w].at = "done"] PROVE Others(w) /\ worker'[w].at = "done"
    BY <1>a, <2>1 DEF Others, WorkerType
  <2>2. CASE elapsed >= CycleTimeout
    BY <1>1, <2>0, <2>1, <2>2 DEF Claim, Retires
  <2>3. CASE ~(elapsed >= CycleTimeout) /\ Exhausted(next)
    BY <1>1, <2>0, <2>1, <2>3 DEF Claim, Retires, Exhausted
  <2>4. CASE ~(elapsed >= CycleTimeout) /\ ~Exhausted(next)
    <3>1. next < N /\ next' = next + 1
      BY <1>1, <1>a, <2>4 DEF Claim, Exhausted
    <3>2. CASE list[Position(next)] \in Unsafe
      BY <1>1, <2>0, <2>4, <3>1, <3>2 DEF Claim, Skips
    <3>3. CASE list[Position(next)] \notin Unsafe
      <4> DEFINE y == [at |-> FirstCommand(list[Position(next)]), claimed |-> next,
                       since |-> elapsed]
      <4>1. /\ y \in WorkerType /\ y.at \in {"sdspin", "smartctl"} /\ y.claimed = next
            /\ y.since = elapsed
        BY <1>a DEF WorkerType, FirstCommand
      <4>2. worker' = [worker EXCEPT ![w] = y] /\ UNCHANGED obs
        BY <1>1, <2>4, <3>3 DEF Claim
      <4> HIDE DEF y
      <4>3. Others(w) /\ worker'[w] = y
        BY <1>a, <4>1, <4>2 DEF Others
      <4> QED
        BY <2>0, <3>1, <4>1, <4>2, <4>3 DEF Starts
    <3> QED
      BY <3>2, <3>3
  <2> QED
    BY <2>2, <2>3, <2>4
<1>2. ASSUME Finish(w) PROVE GoesOn(w) \/ Stores(w)
  <2>1. Frame /\ Runs(w) /\ UNCHANGED next /\ elapsed < Deadline(Cmd(w))
    BY <1>2 DEF Finish, Frame
  <2>2. CASE /\ Cmd(w).at = "sdspin"
             /\ worker' = [worker EXCEPT ![w].at = "smartctl", ![w].since = elapsed]
             /\ UNCHANGED obs
    <3> DEFINE y == [worker[w] EXCEPT !.at = "smartctl", !.since = elapsed]
    <3>1. /\ y \in WorkerType /\ y.at = "smartctl" /\ y.claimed = worker[w].claimed
          /\ y.since = elapsed
      BY <1>a DEF WorkerType
    <3>2. worker' = [worker EXCEPT ![w] = y]
      BY <2>2
    <3> HIDE DEF y
    <3>3. Others(w) /\ worker'[w] = y
      BY <1>a, <3>1, <3>2 DEF Others
    <3> QED
      BY <2>1, <2>2, <3>1, <3>3 DEF GoesOn, Cmd
  <2>3. CASE \E o \in {"ok", "standby", "failed"} : Store(w, o)
    BY <1>b, <2>1, <2>3 DEF Outcome
  <2> QED
    BY <1>2, <2>2, <2>3 DEF Finish
<1>3. ASSUME Kill(w) PROVE Stores(w)
  BY <1>3, <1>b DEF Kill, Frame, Outcome
<1> QED
  BY <1>1, <1>2, <1>3

(* The steps of the specification.                                         *)
LEMMA Steps ==
    ASSUME TypeOK, [Next]_vars
    PROVE  \/ BeginCycle \/ EndCycle \/ Tick \/ UNCHANGED vars
           \/ \E w \in Pool : Retires(w) \/ Skips(w) \/ Starts(w) \/ GoesOn(w) \/ Stores(w)
BY WorkerSteps DEF Next

-----------------------------------------------------------------------------
(* Only a cycle has workers that are not through.                          *)
LEMMA Busy ==
    ASSUME TypeOK, RestInv, NEW w \in Pool, worker[w].at # "done"
    PROVE  running /\ N > 0
BY DEF RestInv

(* A step of a worker leaves the list and the positions as they are.       *)
LEMMA SamePlaces ==
    ASSUME Frame
    PROVE  N' = N /\ \A k : Position(k)' = Position(k)
BY DEF Frame, N, Position

(* Between cycles nobody is busy and the cursor stands behind the claims.  *)
LEMMA RestStep == TypeOK /\ RestInv /\ [Next]_vars => RestInv'
<1> SUFFICES ASSUME TypeOK, RestInv, [Next]_vars PROVE RestInv'
  OBVIOUS
<1>1. CASE BeginCycle
  <2>1. PICK l \in Inventories :
           /\ list' = l /\ next' = 0
           /\ IF l = <<>> THEN UNCHANGED <<worker, running>> ELSE running' = TRUE
    BY <1>1 DEF BeginCycle
  <2>2. ~running /\ N' = Len(l)
    BY <1>1, <2>1 DEF BeginCycle, N
  <2>3. CASE l = <<>>
    <3>1. N' = 0 /\ ~running'
      BY <2>1, <2>2, <2>3
    <3>2. \A w \in Pool : worker'[w].at = "done"
      BY <2>1, <2>2, <2>3 DEF RestInv
    <3> QED
      BY <3>1, <3>2 DEF RestInv
  <2>4. CASE l # <<>>
    <3>1. l \in Seq(Disk) /\ Len(l) \in Nat
      BY Constants
    <3>2. Len(l) > 0
      BY <2>4, <3>1
    <3> QED
      BY <2>1, <2>2, <2>4, <3>2 DEF RestInv
  <2> QED
    BY <2>3, <2>4
<1>2. CASE EndCycle
  <2>1. /\ ~running' /\ cursor' = NextCursor /\ UNCHANGED <<list, start, next>>
        /\ \A w \in Pool : worker'[w].at = "done"
    BY <1>2 DEF EndCycle, Idle
  <2>2. NextCursor' = NextCursor
    BY <2>1 DEF NextCursor, N
  <2> QED
    BY <2>1, <2>2 DEF RestInv
<1>3. CASE Tick \/ UNCHANGED vars
  <2>1. UNCHANGED <<cursor, list, start, next, worker, running>>
    BY <1>3 DEF Tick, vars
  <2>2. N' = N /\ NextCursor' = NextCursor
    BY <2>1 DEF NextCursor, N
  <2> QED
    BY <2>1, <2>2 DEF RestInv
<1>4. ASSUME NEW w \in Pool, Retires(w) \/ Skips(w) \/ Starts(w) \/ GoesOn(w) \/ Stores(w)
      PROVE  RestInv'
  <2>1. worker[w].at # "done" /\ Frame
    BY <1>4 DEF Retires, Skips, Starts, GoesOn, Stores, Runs
  <2>2. running /\ N > 0
    BY <2>1, Busy
  <2> QED
    BY <2>1, <2>2, SamePlaces DEF RestInv, Frame
<1> QED
  BY <1>1, <1>2, <1>3, <1>4, Steps

-----------------------------------------------------------------------------
(* Past the end of the list each claim sends a worker away.                *)
LEMMA CountStep == TypeOK /\ RestInv /\ CountInv /\ [Next]_vars => CountInv'
<1> SUFFICES ASSUME TypeOK, RestInv, CountInv, [Next]_vars PROVE CountInv'
  OBVIOUS
<1>a. /\ N \in Nat /\ next \in Nat /\ worker \in [Pool -> WorkerType]
      /\ IsFiniteSet(Pool) /\ IsFiniteSet(Through)
  <2>1. IsFiniteSet(Pool)
    BY Constants, FS_Interval DEF Pool
  <2>2. Through \in SUBSET Pool
    BY DEF Through
  <2> QED
    BY <2>1, <2>2, FS_Subset, Types DEF Typed
<1>b. ASSUME UNCHANGED next, N' = N, Through' = Through PROVE CountInv'
  BY <1>b DEF CountInv
<1>1. CASE BeginCycle
  <2>1. PICK l \in Inventories : list' = l /\ next' = 0
    BY <1>1 DEF BeginCycle
  <2>2. N' \in Nat
    BY <2>1, Constants DEF N
  <2> QED
    BY <2>1, <2>2 DEF CountInv
<1>2. CASE EndCycle
  <2>1. UNCHANGED <<next, list>> /\ Through' = Through
    BY <1>2 DEF EndCycle, Through, Pool, Idle
  <2> QED
    BY <1>b, <2>1 DEF N
<1>3. CASE Tick \/ UNCHANGED vars
  <2>1. UNCHANGED <<next, list, worker>>
    BY <1>3 DEF Tick, vars
  <2> QED
    BY <1>b, <2>1 DEF N, Through, Pool
<1>4. ASSUME NEW w \in Pool, Retires(w) PROVE CountInv'
  <2>1. Through' = Through \cup {w} /\ w \notin Through
    BY <1>4 DEF Retires, Others, Through, Pool
  <2>2. Cardinality(Through') = Cardinality(Through) + 1 /\ Cardinality(Through) \in Nat
    BY <1>a, <2>1, FS_AddElement, FS_CardinalityType
  <2>3. N' = N /\ next' <= next + 1
    BY <1>4, <1>a, SamePlaces DEF Retires
  <2>4. next' \in Nat
    BY <1>4, <1>a DEF Retires
  <2>5. next <= N + Cardinality(Through)
    BY <1>a, <2>2 DEF CountInv
  <2> QED
    BY <1>a, <2>2, <2>3, <2>4, <2>5 DEF CountInv
<1>5. ASSUME NEW w \in Pool, Skips(w) \/ Starts(w) PROVE CountInv'
  <2>1. N' = N /\ next < N /\ next' = next + 1
    BY <1>5, SamePlaces DEF Skips, Starts
  <2> QED
    BY <1>a, <2>1 DEF CountInv
<1>6. ASSUME NEW w \in Pool, GoesOn(w) \/ Stores(w) PROVE CountInv'
  <2>1. /\ N' = N /\ UNCHANGED next /\ \A v \in Pool \ {w} : worker'[v] = worker[v]
        /\ worker[w].at # "done" /\ worker'[w].at # "done"
    BY <1>6, SamePlaces DEF GoesOn, Stores, Others, Runs
  <2>2. Through' = Through
    BY <2>1 DEF Through, Pool
  <2> QED
    BY <1>b, <2>1, <2>2
<1> QED
  BY <1>1, <1>2, <1>3, <1>4, <1>5, <1>6, Steps

(* There are no more workers through than there are workers.               *)
LEMMA PoolSize == \A T \in SUBSET Pool : Cardinality(T) <= Workers /\ Cardinality(T) \in Nat
<1>1. IsFiniteSet(Pool) /\ Cardinality(Pool) = Workers
  BY Constants, FS_Interval DEF Pool
<1> QED
  BY <1>1, FS_Subset, FS_CardinalityType

-----------------------------------------------------------------------------
(* The counter hands each disk to one worker, once.                        *)
LEMMA ClaimStep == TypeOK /\ RestInv /\ ClaimInv /\ [Next]_vars => ClaimInv'
<1> SUFFICES ASSUME TypeOK, RestInv, ClaimInv, [Next]_vars PROVE ClaimInv'
  OBVIOUS
<1>a. /\ N \in Nat /\ next \in Nat /\ worker \in [Pool -> WorkerType]
      /\ obs \in [1..N -> Outcome] /\ \A w \in Pool : Cmd(w).claimed \in Nat
  BY Types DEF Typed, Cmd, WorkerType
<1>1. CASE BeginCycle
  <2>1. PICK l \in Inventories :
           /\ list' = l /\ next' = 0 /\ obs' = [i \in 1..Len(l) |-> "unset"]
           /\ IF l = <<>> THEN UNCHANGED worker
              ELSE /\ start' = cursor % Len(l)
                   /\ worker' = [w \in Pool |-> IF w <= Len(l) THEN [Idle EXCEPT !.at = "claim"]
                                                              ELSE Idle]
    BY <1>1 DEF BeginCycle
  <2>2. N' = Len(l) /\ Len(l) \in Nat
    BY <2>1, Constants DEF N
  <2>3. \A w \in Pool : worker'[w].at \in {"claim", "done"}
    <3>1. \A w \in Pool : worker[w].at = "done"
      BY <1>1 DEF BeginCycle, RestInv
    <3> QED
      BY <2>1, <3>1 DEF Idle
  <2>4. \A w \in Pool : ~Runs(w)'
    BY <2>3 DEF Runs, Pool
  <2>5. ASSUME NEW k \in 0..(Len(l) - 1) PROVE obs'[Position(k)'] = "unset"
    <3>1. Len(l) \in Nat \ {0} /\ l # <<>>
      BY <2>2
    <3>2. cursor \in Nat
      BY Types DEF Typed
    <3>3. start' \in Nat
      BY <2>1, <3>1, <3>2, Remainder
    <3>4. Position(k)' = ((start' + k) % Len(l)) + 1
      BY <2>2 DEF Position
    <3>5. (start' + k) % Len(l) \in 0..(Len(l) - 1)
      <4>1. start' + k \in Int
        BY <2>2, <3>3
      <4> QED
        BY <3>1, <4>1, Remainder
    <3>6. Position(k)' \in 1..Len(l)
      BY <3>1, <3>4, <3>5
    <3> QED
      BY <2>1, <3>6
  <2> QED
    BY <2>1, <2>2, <2>4, <2>5 DEF ClaimInv
<1>2. CASE EndCycle
  <2>1. /\ UNCHANGED <<list, start, next, obs>>
        /\ \A w \in Pool : worker[w].at = "done" /\ worker'[w].at = "done"
    BY <1>2 DEF EndCycle, Idle
  <2>2. \A w \in Pool : ~Runs(w) /\ ~Runs(w)'
    BY <2>1 DEF Runs, Pool
  <2>3. N' = N /\ \A k : Position(k)' = Position(k)
    BY <2>1 DEF N, Position
  <2> QED
    BY <2>1, <2>2, <2>3 DEF ClaimInv
<1>3. CASE Tick \/ UNCHANGED vars
  <2>1. UNCHANGED <<list, start, next, obs, worker>>
    BY <1>3 DEF Tick, vars
  <2>2. N' = N /\ \A k : Position(k)' = Position(k)
    BY <2>1 DEF N, Position
  <2> QED
    BY <2>1, <2>2 DEF ClaimInv, Runs, Cmd, Pool
<1>b. ASSUME NEW w \in Pool, Others(w)
      PROVE  \A v \in Pool \ {w} : (Runs(v)' <=> Runs(v)) /\ Cmd(v)' = Cmd(v)
  BY <1>b DEF Others, Runs, Cmd
<1>4. ASSUME NEW w \in Pool, Retires(w) PROVE ClaimInv'
  <2>1. N' = N /\ (\A k : Position(k)' = Position(k)) /\ ~Runs(w) /\ ~Runs(w)' /\ UNCHANGED obs
    BY <1>4, SamePlaces DEF Retires, Runs
  <2>2. next' >= next /\ next' \in Nat /\ (next' = next \/ next >= N)
    BY <1>4, <1>a DEF Retires
  <2>3. \A v \in Pool : (Runs(v)' <=> Runs(v)) /\ (Runs(v) => Cmd(v)' = Cmd(v))
    BY <1>b, <1>4, <2>1 DEF Retires
  <2> QED
    BY <1>a, <2>1, <2>2, <2>3 DEF ClaimInv, Pool
<1>5. ASSUME NEW w \in Pool, Skips(w) PROVE ClaimInv'
  <2>1. /\ N' = N /\ (\A k : Position(k)' = Position(k)) /\ UNCHANGED worker
        /\ next < N /\ next' = next + 1 /\ N > 0
        /\ obs' = [obs EXCEPT ![Position(next)] = "unsafe"]
    BY <1>5, SamePlaces, Busy DEF Skips
  <2>2. \A v \in Pool : (Runs(v)' <=> Runs(v)) /\ Cmd(v)' = Cmd(v)
    BY <2>1 DEF Runs, Cmd
  <2>3. \A v \in Pool : Runs(v) => Cmd(v).claimed # next
    BY <1>a DEF ClaimInv
  <2>4. ASSUME NEW k \in 0..(N - 1)
        PROVE  obs'[Position(k)] = IF k = next THEN "unsafe" ELSE obs[Position(k)]
    <3>1. next \in 0..(N - 1) /\ Position(next) \in 1..N /\ Position(k) \in 1..N
      BY <1>a, <2>1, Positions
    <3>2. Position(k) = Position(next) => k = next
      BY <2>1, <3>1, Positions
    <3> QED
      BY <1>a, <2>1, <3>1, <3>2
  <2> QED
    BY <1>a, <2>1, <2>2, <2>3, <2>4 DEF ClaimInv, Pool
<1>6. ASSUME NEW w \in Pool, Starts(w) PROVE ClaimInv'
  <2>1. /\ N' = N /\ (\A k : Position(k)' = Position(k)) /\ UNCHANGED obs
        /\ next < N /\ next' = next + 1 /\ ~Runs(w) /\ Runs(w)' /\ Cmd(w)'.claimed = next
    BY <1>6, SamePlaces DEF Starts, Runs, Cmd
  <2>2. \A v \in Pool \ {w} : (Runs(v)' <=> Runs(v)) /\ Cmd(v)' = Cmd(v)
    BY <1>6, <1>b DEF Starts
  <2>3. \A v \in Pool : Runs(v) => Cmd(v).claimed # next
    BY <1>a DEF ClaimInv
  <2> QED
    BY <1>a, <2>1, <2>2, <2>3 DEF ClaimInv, Pool
<1>7. ASSUME NEW w \in Pool, GoesOn(w) PROVE ClaimInv'
  <2>1. /\ N' = N /\ (\A k : Position(k)' = Position(k)) /\ UNCHANGED <<obs, next>>
        /\ Runs(w) /\ Runs(w)' /\ Cmd(w)'.claimed = Cmd(w).claimed
    BY <1>7, SamePlaces DEF GoesOn, Runs, Cmd
  <2>2. \A v \in Pool : (Runs(v)' <=> Runs(v)) /\ Cmd(v)'.claimed = Cmd(v).claimed
    BY <1>7, <1>b, <2>1 DEF GoesOn
  <2> QED
    BY <2>1, <2>2 DEF ClaimInv, Pool
<1>8. ASSUME NEW w \in Pool, Stores(w) PROVE ClaimInv'
  <2>1. /\ N' = N /\ (\A k : Position(k)' = Position(k)) /\ UNCHANGED next
        /\ Runs(w) /\ ~Runs(w)'
    BY <1>8, SamePlaces DEF Stores, Runs
  <2>2. \A v \in Pool \ {w} : (Runs(v)' <=> Runs(v)) /\ Cmd(v)' = Cmd(v)
    BY <1>8, <1>b DEF Stores
  <2>3. PICK o \in Outcome \ {"unset"} : obs' = [obs EXCEPT ![Position(Cmd(w).claimed)] = o]
    BY <1>8 DEF Stores, Cmd
  <2>4. N > 0 /\ Cmd(w).claimed \in 0..(N - 1) /\ Cmd(w).claimed < next
    BY <1>a, <2>1, Busy DEF ClaimInv, Runs
  <2>5. ASSUME NEW k \in 0..(N - 1)
        PROVE  obs'[Position(k)] = IF k = Cmd(w).claimed THEN o ELSE obs[Position(k)]
    <3>1. Position(Cmd(w).claimed) \in 1..N /\ Position(k) \in 1..N
      <4>1. Cmd(w).claimed \in Nat /\ k \in Nat
        BY <1>a
      <4> QED
        BY <2>4, <4>1, Positions
    <3>2. Position(k) = Position(Cmd(w).claimed) => k = Cmd(w).claimed
      BY <2>4, Positions
    <3> QED
      BY <1>a, <2>3, <3>1, <3>2
  <2>6. \A v \in Pool : Runs(v)' => v # w /\ Runs(v) /\ Cmd(v)' = Cmd(v)
    BY <2>1, <2>2
  <2>7. \A k \in 0..(N - 1) : obs'[Position(k)] = "unset" <=>
           k >= next \/ \E v \in Pool : Runs(v)' /\ Cmd(v)'.claimed = k
    <3>1. ASSUME NEW k \in 0..(N - 1), k # Cmd(w).claimed
          PROVE  (\E v \in Pool : Runs(v)' /\ Cmd(v)'.claimed = k)
                 <=> (\E v \in Pool : Runs(v) /\ Cmd(v).claimed = k)
      BY <2>1, <2>2, <3>1
    <3>2. ~\E v \in Pool : Runs(v)' /\ Cmd(v)'.claimed = Cmd(w).claimed
      BY <2>1, <2>6 DEF ClaimInv
    <3> QED
      BY <1>a, <2>3, <2>4, <2>5, <3>1, <3>2 DEF ClaimInv
  <2> QED
    BY <2>1, <2>6, <2>7 DEF ClaimInv, Pool
<1> QED
  BY <1>1, <1>2, <1>3, <1>4, <1>5, <1>6, <1>7, <1>8, Steps

-----------------------------------------------------------------------------
(* A command's deadline.                                                   *)
LEMMA Deadlines ==
    ASSUME TypeOK, NEW w \in Pool
    PROVE  /\ Deadline(Cmd(w)) \in Nat /\ Deadline(Cmd(w)) <= CycleTimeout
           /\ Deadline(Cmd(w)) <= Cmd(w).since + CommandTimeout
<1>1. Cmd(w).since \in Nat
  BY Types DEF Typed, Cmd, WorkerType
<1> QED
  BY <1>1, Constants, Least DEF Deadline

(* When time first passes, every worker that has a disk to claim holds a   *)
(* number of its own: by then as many disks are claimed as there are       *)
(* workers, or all of them.                                                *)
LEMMA AllClaimed ==
    ASSUME TypeOK, ClaimInv, ClockInv, running, elapsed = 0, \A w \in Pool : MayRunOn(w)
    PROVE  next >= Workers \/ next >= N
<1>a. N \in Nat /\ next \in Nat /\ worker \in [Pool -> WorkerType] /\ Workers \in Nat
  BY Types, Constants DEF Typed
<1> SUFFICES ASSUME next < Workers, next < N PROVE FALSE
  BY <1>a
<1> DEFINE S == 1..(next + 1)
           T == 0..(next - 1)
           f == [w \in S |-> Cmd(w).claimed]
<1>1. \A w \in S : w \in Pool /\ w <= N
  BY <1>a DEF Pool
<1>2. \A w \in S : Runs(w)
  BY <1>1, <1>a DEF MayRunOn, ClockInv
<1>3. \A w \in S : Cmd(w).claimed \in T
  <2>1. \A w \in S : Cmd(w).claimed \in Nat /\ Cmd(w).claimed < next
    BY <1>1, <1>2, <1>a DEF ClaimInv, Cmd, WorkerType
  <2> QED
    BY <1>a, <2>1
<1>4. IsFiniteSet(S) /\ IsFiniteSet(T) /\ Cardinality(S) = next + 1 /\ Cardinality(T) = next
  BY <1>a, FS_Interval
<1>5. f \in [S -> T]
  BY <1>3
<1>6. \E v, w \in S : v # w /\ f[v] = f[w]
  <2>1. Cardinality(T) < Cardinality(S)
    BY <1>4, <1>a
  <2> HIDE DEF S, T, f
  <2> QED
    BY <1>4, <1>5, <2>1, FS_PigeonHole
<1> QED
  BY <1>1, <1>2, <1>6 DEF ClaimInv

(* The two timeouts nest: the cycle ends in time, and the first disks'     *)
(* commands all start early in it.                                         *)
LEMMA ClockStep ==
    TypeOK /\ RestInv /\ ClaimInv /\ ClockInv /\ [Next]_vars => ClockInv'
<1> SUFFICES ASSUME TypeOK, RestInv, ClaimInv, ClockInv, [Next]_vars PROVE ClockInv'
  OBVIOUS
<1>a. /\ N \in Nat /\ next \in Nat /\ worker \in [Pool -> WorkerType] /\ elapsed \in Nat
      /\ Workers \in Nat \ {0} /\ CommandTimeout \in Nat \ {0} /\ CycleTimeout \in Nat \ {0}
      /\ WaitDelay \in Nat
      /\ \A w \in Pool : w \in Nat
      /\ \A w \in Pool : Cmd(w).claimed \in Nat /\ Cmd(w).since \in Nat
  <2>1. \A w \in Pool : w \in Nat
    BY Constants DEF Pool
  <2>2. \A x \in WorkerType : x.claimed \in Nat /\ x.since \in Nat
    BY DEF WorkerType
  <2> QED
    BY <2>1, <2>2, Types, Constants DEF Typed, Cmd
<1>1. CASE BeginCycle
  <2>1. PICK l \in Inventories :
           /\ list' = l /\ next' = 0 /\ elapsed' = 0
           /\ IF l = <<>> THEN UNCHANGED <<worker, running>>
              ELSE worker' = [w \in Pool |-> IF w <= Len(l) THEN [Idle EXCEPT !.at = "claim"]
                                                           ELSE Idle]
    BY <1>1 DEF BeginCycle
  <2>2. N' = Len(l) /\ Len(l) \in Nat /\ ~running
    BY <1>1, <2>1, Constants DEF N, BeginCycle
  <2>3. \A w \in Pool : worker'[w].at \in {"claim", "done"}
    <3>1. \A w \in Pool : worker[w].at = "done"
      BY <2>2 DEF RestInv
    <3> QED
      BY <2>1, <3>1 DEF Idle
  <2>4. \A w \in Pool : ~Runs(w)'
    BY <2>3 DEF Runs
  <2>5. CycleBounded'
    BY <1>a, <2>1 DEF CycleBounded
  <2>6. running' => \A w \in Pool : worker'[w].at = "done" => w > N'
    <3>1. CASE l = <<>>
      BY <2>1, <2>2, <3>1
    <3>2. CASE l # <<>>
      <4>1. \A w \in Pool : w <= Len(l) => worker'[w].at = "claim"
        BY <2>1, <3>2 DEF Idle
      <4> QED
        BY <1>a, <2>2, <4>1
    <3> QED
      BY <3>1, <3>2
  <2> QED
    BY <2>1, <2>4, <2>5, <2>6 DEF ClockInv, Pool
<1>2. CASE EndCycle
  <2>1. ~running' /\ \A w \in Pool : worker'[w].at = "done"
    BY <1>2 DEF EndCycle, Idle
  <2>2. \A w \in Pool : ~Runs(w)'
    BY <2>1 DEF Runs
  <2> QED
    BY <2>1, <2>2 DEF ClockInv, CycleBounded, Pool
<1>3. CASE UNCHANGED vars
  BY <1>3 DEF vars, ClockInv, CycleBounded, Runs, Cmd, Pool, N
<1>4. CASE Tick
  <2>1. /\ running /\ elapsed' = elapsed + 1 /\ UNCHANGED <<list, next, worker, running>>
        /\ \A w \in Pool : MayRunOn(w)
    BY <1>4 DEF Tick
  <2>2. PICK w \in Pool : Runs(w)
    BY <1>4 DEF Tick
  <2>3. elapsed < CycleTimeout + WaitDelay
    <3>1. worker[w].at # "done"
      BY <2>2 DEF Runs
    <3>2. elapsed < Deadline(Cmd(w)) \/ elapsed < Deadline(Cmd(w)) + WaitDelay
      BY <2>1, <3>1 DEF MayRunOn
    <3> QED
      BY <1>a, <3>2, Deadlines
  <2>4. CycleBounded'
    BY <1>a, <2>1, <2>3 DEF CycleBounded
  <2>5. next >= Workers \/ next >= N
    <3>1. CASE elapsed = 0
      BY <2>1, <3>1, AllClaimed
    <3>2. CASE elapsed > 0
      BY <2>1, <3>2 DEF ClockInv
    <3> QED
      BY <1>a, <3>1, <3>2
  <2>6. N' = N /\ \A v \in Pool : (Runs(v)' <=> Runs(v)) /\ Cmd(v)' = Cmd(v)
    BY <2>1 DEF N, Runs, Cmd
  <2>7. elapsed' # 0
    BY <1>a, <2>1
  <2>8. \A v \in Pool : Runs(v)' /\ Cmd(v)'.claimed < Workers =>
           Cmd(v)'.since < CommandTimeout /\ (Cmd(v)'.at = "sdspin" => Cmd(v)'.since = 0)
    BY <2>6 DEF ClockInv
  <2> QED
    BY <2>1, <2>4, <2>5, <2>6, <2>7, <2>8 DEF ClockInv, Pool
<1>b. ASSUME NEW w \in Pool, Frame, Others(w),
             next' \in Nat, next' >= next,
             worker'[w].at = "done" => next >= N \/ elapsed >= CycleTimeout,
             Runs(w)' /\ Cmd(w)'.claimed < Workers =>
                /\ Cmd(w)'.since < CommandTimeout
                /\ Cmd(w)'.at = "sdspin" => Cmd(w)'.since = 0
      PROVE  ClockInv'
  <2>1. N' = N /\ UNCHANGED <<elapsed, running>> /\ CycleBounded'
    BY <1>b, SamePlaces DEF Frame, ClockInv, CycleBounded
  <2>2. \A v \in Pool \ {w} : /\ worker'[v] = worker[v] /\ Cmd(v)' = Cmd(v)
                              /\ Runs(v)' <=> Runs(v)
    BY <1>b DEF Others, Runs, Cmd
  <2>3. running /\ elapsed = 0 => \A v \in Pool : worker'[v].at = "done" => v > N \/ next' >= N
    BY <1>a, <1>b, <2>2 DEF ClockInv
  <2>4. running /\ elapsed > 0 => next' >= Workers \/ next' >= N
    BY <1>a, <1>b DEF ClockInv
  <2>5. \A v \in Pool : Runs(v)' /\ Cmd(v)'.claimed < Workers =>
           Cmd(v)'.since < CommandTimeout /\ (Cmd(v)'.at = "sdspin" => Cmd(v)'.since = 0)
    BY <1>b, <2>2 DEF ClockInv
  <2> QED
    BY <2>1, <2>3, <2>4, <2>5 DEF ClockInv, Pool
<1>5. ASSUME NEW w \in Pool, Retires(w) PROVE ClockInv'
  <2>1. /\ Frame /\ Others(w) /\ next' \in Nat /\ next' >= next /\ ~Runs(w)'
        /\ next >= N \/ elapsed >= CycleTimeout
    BY <1>5, <1>a DEF Retires, Runs
  <2> QED
    BY <1>b, <2>1
<1>6. ASSUME NEW w \in Pool, Skips(w) PROVE ClockInv'
  <2>1. /\ Frame /\ UNCHANGED worker /\ next' \in Nat /\ next' >= next /\ worker[w].at = "claim"
    BY <1>6, <1>a DEF Skips
  <2>2. Others(w) /\ ~Runs(w)' /\ worker'[w].at # "done"
    BY <1>a, <2>1 DEF Others, Runs
  <2> QED
    BY <1>b, <2>1, <2>2
<1>7. ASSUME NEW w \in Pool, Starts(w) PROVE ClockInv'
  <2>1. /\ Frame /\ Others(w) /\ next' \in Nat /\ next' >= next /\ worker'[w].at # "done"
        /\ next < N /\ Cmd(w)'.claimed = next /\ Cmd(w)'.since = elapsed
        /\ worker[w].at = "claim"
    BY <1>7, <1>a DEF Starts, Cmd
  <2>2. running
    BY <2>1, Busy
  <2>3. next < Workers => elapsed = 0
    BY <1>a, <2>1, <2>2 DEF ClockInv
  <2> QED
    BY <1>a, <1>b, <2>1, <2>3
<1>8. ASSUME NEW w \in Pool, GoesOn(w) PROVE ClockInv'
  <2>1. /\ Frame /\ Others(w) /\ UNCHANGED next /\ worker'[w].at = "smartctl"
        /\ Cmd(w)'.claimed = Cmd(w).claimed /\ Cmd(w)'.since = elapsed /\ Cmd(w)'.at = "smartctl"
        /\ Runs(w) /\ Cmd(w).at = "sdspin" /\ elapsed < Deadline(Cmd(w))
    BY <1>8 DEF GoesOn, Cmd, Runs
  <2>2. Cmd(w).claimed < Workers => elapsed < CommandTimeout
    <3>1. Cmd(w).claimed < Workers => Cmd(w).since = 0
      BY <2>1 DEF ClockInv
    <3> QED
      BY <1>a, <2>1, <3>1, Deadlines
  <2> QED
    BY <1>a, <1>b, <2>1, <2>2
<1>9. ASSUME NEW w \in Pool, Stores(w) PROVE ClockInv'
  <2>1. /\ Frame /\ Others(w) /\ UNCHANGED next /\ worker'[w].at # "done" /\ ~Runs(w)'
    BY <1>9 DEF Stores, Runs
  <2> QED
    BY <1>a, <1>b, <2>1
<1> QED
  BY <1>1, <1>2, <1>3, <1>4, <1>5, <1>6, <1>7, <1>8, <1>9, Steps

-----------------------------------------------------------------------------
(* The cursor that a cycle leaves is a place in the list.                  *)
LEMMA CursorInList ==
    ASSUME TypeOK, N > 0
    PROVE  NextCursor \in 0..(N - 1)
<1>1. N \in Nat \ {0} /\ start \in Nat /\ next \in Nat
  BY Types DEF Typed
<1>2. start + Min({next, N}) \in Int
  BY <1>1, Least
<1> QED
  BY <1>1, <1>2, Remainder DEF NextCursor

(* Every step keeps the types.                                             *)
LEMMA TypeStep == TypeOK /\ RestInv /\ CountInv' /\ [Next]_vars => TypeOK'
<1> SUFFICES ASSUME TypeOK, RestInv, CountInv', [Next]_vars PROVE Typed'
  BY Types
<1>a. Typed /\ Workers \in Nat
  BY Types, Constants
<1>b. ASSUME N' \in Nat, next' \in Nat PROVE next' \in 0..(N' + Workers)
  <2>1. Through' \in SUBSET Pool
    BY DEF Through
  <2>2. Cardinality(Through') <= Workers /\ Cardinality(Through') \in Nat
    BY <2>1, PoolSize
  <2>3. next' <= N' \/ next' <= N' + Cardinality(Through')
    BY DEF CountInv
  <2> QED
    <3>1. PICK c \in Nat : c = Cardinality(Through')
      BY <2>2
    <3>2. c <= Workers /\ (next' <= N' \/ next' <= N' + c)
      BY <2>2, <2>3, <3>1
    <3>3. \A m, n, k \in Nat : k <= Workers /\ (m <= n \/ m <= n + k) => m \in 0..(n + Workers)
      BY Constants
    <3> QED
      BY <1>b, <3>2, <3>3
<1>1. CASE BeginCycle
  <2>1. PICK l \in Inventories :
           /\ list' = l /\ next' = 0 /\ elapsed' = 0 /\ obs' = [i \in 1..Len(l) |-> "unset"]
           /\ IF l = <<>>
              THEN cursor' = 0 /\ start' = 0 /\ UNCHANGED <<worker, running>>
              ELSE /\ start' = cursor % Len(l) /\ running' = TRUE
                   /\ worker' = [w \in Pool |-> IF w <= Len(l) THEN [Idle EXCEPT !.at = "claim"]
                                                              ELSE Idle]
                   /\ UNCHANGED cursor
    BY <1>1 DEF BeginCycle
  <2>2. N' = Len(l) /\ Len(l) \in Nat /\ l \in Seq(Disk)
    BY <2>1, Constants DEF N
  <2>3. obs' \in [1..N' -> Outcome]
    BY <2>1, <2>2 DEF Outcome
  <2>4. worker' \in [Pool -> WorkerType]
    <3>1. Idle \in WorkerType /\ [Idle EXCEPT !.at = "claim"] \in WorkerType
      BY DEF Idle, WorkerType
    <3>2. CASE l = <<>>
      BY <1>a, <2>1, <3>2 DEF Typed
    <3>3. CASE l # <<>>
      BY <2>1, <3>1, <3>3
    <3> QED
      BY <3>2, <3>3
  <2>5. /\ start' \in Nat /\ cursor' \in Nat /\ (N' > 0 => start' < N')
        /\ running' \in BOOLEAN /\ (N' > 0 /\ ~running' => cursor' < N')
    <3>1. CASE l = <<>>
      <4>1. N' = 0
        BY <2>2, <3>1
      <4> QED
        BY <1>a, <2>1, <3>1, <4>1 DEF Typed
    <3>2. CASE l # <<>>
      <4>1. Len(l) \in Nat \ {0} /\ cursor \in Nat
        BY <1>a, <2>2, <3>2 DEF Typed
      <4>2. cursor % Len(l) \in 0..(Len(l) - 1)
        BY <4>1, Remainder, cursor \in Int
      <4> QED
        BY <2>1, <2>2, <3>2, <4>1, <4>2
    <3> QED
      BY <3>1, <3>2
  <2> QED
    BY <1>b, <2>1, <2>2, <2>3, <2>4, <2>5 DEF Typed
<1>2. CASE EndCycle
  <2>1. /\ UNCHANGED <<list, start, next, obs, elapsed>> /\ running' = FALSE /\ running
        /\ cursor' = NextCursor /\ worker' = [w \in Pool |-> Idle] /\ N' = N
    BY <1>2 DEF EndCycle, N
  <2>2. NextCursor \in 0..(N - 1)
    BY <2>1, CursorInList DEF RestInv
  <2>3. worker' \in [Pool -> WorkerType]
    BY <2>1 DEF Idle, WorkerType
  <2>4. cursor' \in Nat /\ (N > 0 => cursor' < N)
    BY <1>a, <2>1, <2>2 DEF Typed
  <2> QED
    BY <1>a, <2>1, <2>3, <2>4 DEF Typed, Pool
<1>3. CASE Tick \/ UNCHANGED vars
  <2>1. UNCHANGED <<cursor, list, start, next, worker, obs, running>> /\ N' = N
    BY <1>3 DEF Tick, vars, N
  <2>2. elapsed' \in Nat
    BY <1>3, <1>a DEF Tick, vars, Typed
  <2> QED
    BY <1>a, <2>1, <2>2 DEF Typed, Pool
<1>c. ASSUME Frame, worker' \in [Pool -> WorkerType], obs' \in [1..N -> Outcome], next' \in Nat
      PROVE  Typed'
  BY <1>a, <1>b, <1>c, SamePlaces DEF Typed, Frame, Pool
<1>4. ASSUME NEW w \in Pool, Retires(w) \/ Starts(w) \/ GoesOn(w) PROVE Typed'
  <2>1. Frame /\ worker' \in [Pool -> WorkerType] /\ UNCHANGED obs
    BY <1>4 DEF Retires, Starts, GoesOn, Others
  <2>2. next' \in Nat
    BY <1>4, <1>a DEF Typed, Retires, Starts, GoesOn
  <2> QED
    BY <1>a, <1>c, <2>1, <2>2 DEF Typed
<1>5. ASSUME NEW w \in Pool, Skips(w) \/ Stores(w) PROVE Typed'
  <2>1. Frame /\ worker' \in [Pool -> WorkerType] /\ next' \in Nat
    BY <1>5, <1>a DEF Skips, Stores, Others, Typed
  <2>2. obs' \in [1..N -> Outcome]
    BY <1>5, <1>a DEF Skips, Stores, Typed, Outcome
  <2> QED
    BY <1>c, <2>1, <2>2
<1> QED
  BY <1>1, <1>2, <1>3, <1>4, <1>5, Steps

(* It all holds before the first collection.                               *)
LEMMA InitInv == Init => IndInv
<1> SUFFICES ASSUME Init PROVE IndInv
  OBVIOUS
<1>1. N = 0 /\ next = 0 /\ ~running /\ elapsed = 0
  BY DEF Init, N
<1>2. \A w \in Pool : worker[w].at = "done"
  BY DEF Init, Idle
<1>3. Typed
  <2>1. worker \in [Pool -> WorkerType]
    BY DEF Init, Idle, WorkerType
  <2>2. obs \in [1..N -> Outcome]
    BY <1>1 DEF Init
  <2>3. list \in Inventories \cup {<<>>} /\ start = 0 /\ cursor = 0
    BY DEF Init
  <2>4. next \in 0..(N + Workers)
    BY <1>1, Constants
  <2>5. running \in BOOLEAN
    BY DEF Init
  <2> QED
    BY <1>1, <2>1, <2>2, <2>3, <2>4, <2>5 DEF Typed
<1>4. \A w \in Pool : ~Runs(w)
  BY <1>2 DEF Runs
<1>5. RestInv /\ ClaimInv /\ CountInv /\ ClockInv
  BY <1>1, <1>2, <1>4 DEF RestInv, ClaimInv, CountInv, ClockInv, CycleBounded
<1> QED
  BY <1>3, <1>5, Types DEF IndInv

(* The inductive invariant: every busy worker has a number of its own that *)
(* the counter has passed, a disk has an observation exactly when its      *)
(* number was claimed and is nobody's any more, and the first disks are    *)
(* claimed before the clock moves.                                         *)
THEOREM PoolInvariant == Spec => []IndInv
<1>1. Init => IndInv
  BY InitInv
<1>2. IndInv /\ [Next]_vars => IndInv'
  BY TypeStep, RestStep, CountStep, ClaimStep, ClockStep DEF IndInv
<1> QED
  BY <1>1, <1>2, PTL DEF Spec

(* No two workers are on the same disk, none is on a disk with an          *)
(* observation, and the cursor that a cycle leaves is at the first disk    *)
(* nobody claimed, for any number of disks and workers.                    *)
THEOREM ClaimsSoundHolds == Spec => []ClaimsSound
<1>1. IndInv => ClaimsSound
  <2> SUFFICES ASSUME IndInv PROVE ClaimsSound
    OBVIOUS
  <2>a. TypeOK /\ RestInv /\ ClaimInv /\ Typed
    BY Types DEF IndInv
  <2>b. \A w \in Pool : Runs(w) => Cmd(w).claimed \in 0..(N - 1) /\ N > 0
    <3>1. \A w \in Pool : Cmd(w).claimed \in Nat
      BY <2>a DEF Typed, Cmd, WorkerType
    <3> QED
      BY <2>a, <3>1 DEF ClaimInv, Typed
  <2>1. OneProbePerDisk
    BY <2>a, <2>b, Positions DEF OneProbePerDisk, ClaimInv
  <2>2. CursorAfterClaims
    <3> SUFFICES ASSUME ~running, N > 0 PROVE CursorAfterClaims
      BY DEF CursorAfterClaims
    <3>a. N \in Nat \ {0} /\ next \in Nat /\ start \in 0..(N - 1)
      BY <2>a DEF Typed
    <3>b. \A k \in 0..(N - 1) : obs[Position(k)] = "unset" <=> k >= next
      <4>1. \A w \in Pool : ~Runs(w)
        BY <2>a DEF RestInv, Runs
      <4> QED
        BY <2>a, <4>1 DEF ClaimInv
    <3>c. cursor = (start + Min({next, N})) % N
      BY <2>a DEF RestInv, NextCursor
    <3>1. CASE next < N
      <4>1. cursor = (start + next) % N
        BY <3>a, <3>c, <3>1, Least
      <4>2. cursor = IF start + next < N THEN start + next ELSE start + next - N
        <5>1. start + next \in 0..(2 * N - 1)
          BY <3>a, <3>1
        <5> QED
          BY <3>a, <4>1, <5>1, Round
      <4>3. (cursor - start) % N = next
        <5>1. CASE start + next < N
          <6>1. cursor - start = next /\ next \in 0..(2 * N - 1)
            BY <3>a, <3>1, <4>2, <5>1
          <6> QED
            BY <3>a, <3>1, <6>1, Round
        <5>2. CASE start + next >= N
          <6>1. cursor - start = next - N /\ -N <= next - N /\ next - N < 0
            BY <3>a, <3>1, <4>2, <5>2
          <6>2. CASE next = 0
            BY <3>a, <5>2, <6>2
          <6>3. CASE next # 0
            <7>1. (next - N) % N = next - N + N
              BY <3>a, <6>1, <6>3, RoundBack
            <7> QED
              BY <3>a, <6>1, <7>1
          <6> QED
            BY <6>2, <6>3
        <5> QED
          BY <3>a, <5>1, <5>2
      <4>4. \E i \in 1..N : obs[i] = "unset"
        <5>1. next \in 0..(N - 1) /\ Position(next) \in 1..N
          BY <2>a, <3>a, <3>1, Positions
        <5> QED
          BY <3>a, <3>b, <5>1
      <4> QED
        BY <3>a, <3>b, <3>1, <4>3, <4>4 DEF CursorAfterClaims
    <3>2. CASE next >= N
      <4>1. cursor = (start + N) % N
        BY <3>a, <3>c, <3>2, Least
      <4>2. cursor = start
        <5>1. start + N \in 0..(2 * N - 1)
          BY <3>a
        <5> QED
          BY <3>a, <4>1, <5>1, Round
      <4>3. \A k \in 0..(N - 1) : obs[Position(k)] # "unset" /\ ~(k >= N)
        BY <3>a, <3>b, <3>2
      <4>4. ~\E i \in 1..N : obs[i] = "unset"
        BY <2>a, <4>3, Positions
      <4> QED
        BY <4>2, <4>3, <4>4 DEF CursorAfterClaims
    <3> QED
      BY <3>a, <3>1, <3>2
  <2> QED
    BY <2>a, <2>1, <2>2 DEF ClaimsSound
<1> QED
  BY <1>1, PoolInvariant, PTL

(* A collection ends with its timeout and the delay of a killed command,   *)
(* and the disks it starts with have the whole time of each command, for   *)
(* any timeouts, durations and number of workers.                          *)
THEOREM DeadlinesKeptHolds == Spec => []DeadlinesKept
<1>1. IndInv => DeadlinesKept
  <2> SUFFICES ASSUME IndInv PROVE DeadlinesKept
    OBVIOUS
  <2>1. CycleBounded
    BY DEF IndInv, ClockInv
  <2>2. \A w \in Pool : Cmd(w).since \in Nat
    BY Types DEF IndInv, Typed, Cmd, WorkerType
  <2>3. FirstDisksGetFullTime
    BY <2>2, Constants DEF IndInv, ClockInv, FirstDisksGetFullTime
  <2> QED
    BY <2>1, <2>3 DEF DeadlinesKept
<1> QED
  BY <1>1, PoolInvariant, PTL

=============================================================================
