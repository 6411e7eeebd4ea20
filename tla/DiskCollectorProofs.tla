------------------------- MODULE DiskCollectorProofs -------------------------
(***************************************************************************)
(* The safety properties of DiskCollector, for every set of disks, every   *)
(* poll interval and every bound on the durations.                         *)
(***************************************************************************)
EXTENDS DiskCollector, TLAPS

(* A heartbeat that no decision knew of is still on its way to one.        *)
BeatInv == ~seenBeat => hb = "noted" \/ wanted \/ pc = "evaluate"

(* Nothing is dated in the future.                                         *)
ClockInv ==
    /\ decisionAt <= now /\ source.startedAt <= now /\ source.lastBeat <= now
    /\ source.since <= decisionAt
    /\ \A d \in Disk : tracker[d].wakeAt <= now

(* How long ago the last refresh began and the last success was published. *)
PaceInv ==
    /\ pc # "idle" => now <= decisionAt + MaxRefresh
    /\ ~pub.err =>
        /\ pc = "idle" => now <= pub.updatedAt + MaxIdle /\ decisionAt <= pub.updatedAt
        /\ pc # "idle" => decisionAt <= pub.updatedAt + MaxIdle

(* Between two refreshes the tracker is what was published, and an error   *)
(* has emptied it; what may still wake was in standby without a break.     *)
TrackerInv ==
    /\ pub.err => tracker = NewTracker
    /\ ~pub.err => pub.state = tracker /\ \A d \in Disk \ pub.listed : tracker[d] = NewState
    /\ \A d \in Disk : tracker[d].thermal \in {"standby", "waking"} => unbroken[d]

(* The refresh is past evaluate and has not begun to probe.                *)
Decided == pc \in {"inventory", "collect"}
Reusing == Decided /\ direct /\ ~due

(* What the decision of this refresh rests on.                             *)
DecisionInv ==
    /\ Decided \/ pc = "direct" => direct = source.active /\ source.startedAt # NoTime
    /\ pc = "direct" => direct /\ source.lastAttempt = decisionAt
    /\ Decided /\ ~direct /\ poll > 0 =>
          decisionAt - Reference(source.startedAt) <= poll + PollMargin
    /\ Decided /\ due => \/ source.since = decisionAt
                         \/ source.lastAttempt = NoTime
                         \/ decisionAt - source.lastAttempt >= poll
    /\ Reusing => decisionAt - source.lastAttempt < poll

(* Before a decision, and while its fallback goes on, what is published    *)
(* comes from the source in use; no disk wakes in a fallback.              *)
Settled == pc \in {"idle", "evaluate"}
SourceInv ==
    /\ Settled /\ ~pub.err => pub.direct = source.active /\ pub.since = source.since
    /\ Reusing /\ ~pub.err => pub.direct /\ pub.since = source.since
    /\ (Settled /\ source.active) \/ Reusing =>
          \A d \in Disk : tracker[d].thermal # "waking"

(* What is published from emhttpd was decided on under a live heartbeat.   *)
EmhttpdInv ==
    ~pub.err /\ ~pub.direct =>
        /\ source.startedAt # NoTime
        /\ pub.poll > 0 => pub.updatedAt - Reference(source.startedAt)
                              <= pub.poll + PollMargin + MaxRefresh
        /\ pub.poll = 0 => \A d \in pub.listed :
              ~pub.reading[d].unavailable => pub.state[d].thermal = "standby"

(* What is published in a fallback comes from its last direct collection.  *)
DirectInv ==
    ~pub.err /\ pub.direct =>
        \A d \in pub.listed : ~pub.reading[d].unavailable =>
            /\ pub.reading[d].src = "direct" /\ pub.reading[d].at >= pub.since
            /\ pub.updatedAt - pub.reading[d].at <= pub.poll + MaxRefresh
            /\ pc # "direct" => pub.reading[d].at >= source.lastAttempt

IndInv ==
    /\ TypeOK /\ BeatInv /\ ClockInv /\ PaceInv /\ TrackerInv /\ DecisionInv /\ SourceInv
    /\ EmhttpdInv /\ DirectInv /\ StatesEarned

-----------------------------------------------------------------------------
SourceType == [startedAt : Stamp, lastBeat : Stamp, active : BOOLEAN,
               since : Stamp, lastAttempt : Stamp]
Poll == PollValues \cup {DefaultPoll}
PubType == [err : BOOLEAN, updatedAt : Stamp, poll : Poll,
            direct : BOOLEAN, since : Stamp, listed : SUBSET Disk,
            reading : [Disk -> Reading], state : [Disk -> DiskState]]

(* The numbers that the properties compare.                                *)
LEMMA Numbers ==
    TypeOK => /\ now \in Nat /\ decisionAt \in Nat /\ poll \in Nat
              /\ source.startedAt \in Int /\ source.lastBeat \in Int
              /\ source.since \in Int /\ source.lastAttempt \in Int
              /\ pub.updatedAt \in Int /\ pub.poll \in Nat /\ pub.since \in Int
              /\ pub.listed \subseteq Disk
              /\ \A d \in Disk : tracker[d].wakeAt \in Int /\ pub.reading[d].at \in Int
              /\ MaxRefresh \in Nat /\ MaxIdle \in Nat /\ PollMargin \in Nat
              /\ SnapshotTimeout \in Nat /\ WakeMargin \in Nat /\ MaxTime \in Nat
<1> SUFFICES ASSUME TypeOK PROVE Numbers!2
  OBVIOUS
<1> USE DurationsAssumption DEF Time, Stamp, NoTime
<1>1. /\ now \in Nat /\ decisionAt \in Nat /\ poll \in Nat
      /\ source.startedAt \in Int /\ source.lastBeat \in Int
      /\ source.since \in Int /\ source.lastAttempt \in Int
  <2>1. now \in Nat /\ decisionAt \in Nat /\ poll \in Nat
    BY DEF TypeOK
  <2>2. source \in SourceType
    BY DEF TypeOK, SourceType
  <2> QED
    BY <2>1, <2>2 DEF SourceType
<1>2. /\ pub.updatedAt \in Int /\ pub.poll \in Nat /\ pub.since \in Int
      /\ pub.listed \subseteq Disk
  <2>1. pub \in PubType
    BY DEF TypeOK, PubType, Poll
  <2> QED
    <3>1. pub.updatedAt \in Stamp /\ pub.poll \in Poll
      BY <2>1 DEF PubType
    <3>2. pub.since \in Int /\ pub.listed \subseteq Disk
      BY <2>1 DEF PubType
    <3>3. Stamp \subseteq Int /\ Poll \subseteq Nat
      BY DEF Poll
    <3> QED
      BY <3>1, <3>2, <3>3
<1>3. \A d \in Disk : tracker[d].wakeAt \in Int /\ pub.reading[d].at \in Int
  BY DEF TypeOK, DiskState, Reading
<1> QED
  BY <1>1, <1>2, <1>3

(* The collector starts in a well-typed state.                             *)
LEMMA TypeInit == Init => TypeOK
<1> SUFFICES ASSUME Init PROVE TypeOK
  OBVIOUS
<1>1. 0 \in Time /\ NoTime \in Stamp
  BY DurationsAssumption DEF Time, Stamp
<1>2. source \in SourceType
  BY <1>1 DEF Init, NewSource, SourceType
<1>3. tracker \in [Disk -> DiskState] /\ NewTracker \in [Disk -> DiskState]
  BY <1>1 DEF Init, NewTracker, NewState, DiskState, Thermal
<1>4. NoReading \in Reading
  BY <1>1 DEF NoReading, Reading
<1>5. pub \in PubType
  BY <1>1, <1>3, <1>4 DEF Init, NewPub, PubType, Poll
<1>6. inventory \in [Disk -> Field \cup {"absent"}]
  BY DEF Init, NoFields
<1> QED
  BY <1>1, <1>2, <1>3, <1>5, <1>6 DEF Init, TypeOK, SourceType, PubType, Poll

(* One disk's state after an observation.                                  *)
LEMMA ApplyStateTyped ==
    ASSUME now \in Time, NEW st \in DiskState, NEW o, NEW src
    PROVE  ApplyState(st, o, src) \in DiskState
BY DEF ApplyState, DiskState, Thermal, Stamp

(* What a successful refresh publishes is well typed.                      *)
LEMMA SuccessTyped ==
    ASSUME TypeOK, NEW listed \in SUBSET Disk, NEW reading \in [Disk -> Reading],
           NEW state \in [Disk -> DiskState], PublishSuccess(listed, reading, state)
    PROVE  pub' \in PubType
BY DEF PublishSuccess, TypeOK, PubType, Poll, Stamp

(* Every step keeps the types.                                             *)
LEMMA TypeStep == TypeOK /\ [Next]_vars => TypeOK'
<1> SUFFICES ASSUME TypeOK, [Next]_vars PROVE TypeOK'
  OBVIOUS
<1> USE DurationsAssumption
<1>a. /\ source \in SourceType /\ pub \in PubType /\ tracker \in [Disk -> DiskState]
      /\ now \in Time /\ decisionAt \in Time /\ poll \in Poll /\ lastPoll \in Poll
      /\ unbroken \in [Disk -> BOOLEAN]
  BY DEF TypeOK, SourceType, PubType, Poll
<1>b. /\ NoTime \in Stamp /\ Time \subseteq Stamp /\ NewState \in DiskState
      /\ NoReading \in Reading
  BY DEF Stamp, NewState, DiskState, Thermal, NoReading, Reading
<1>c. ASSUME EndRefresh, pub' \in PubType, tracker' \in [Disk -> DiskState],
             unbroken' \in [Disk -> BOOLEAN]
      PROVE  TypeOK'
  BY <1>c DEF EndRefresh, TypeOK, PubType, Poll, NoFields
<1>d. ASSUME NEW obs, NEW src \in {"emhttpd", "direct"}, Apply(obs, src), EndRefresh
      PROVE  TypeOK'
  <2> DEFINE after == [d \in Disk |-> IF d \in Present THEN ApplyState(tracker[d], obs[d], src)
                                      ELSE NewState]
             reading == [d \in Disk |->
                            IF d \in Present /\ after[d].thermal # "unavailable"
                            THEN [unavailable |-> FALSE, src |-> src, at |-> now]
                            ELSE NoReading]
  <2>1. after \in [Disk -> DiskState]
    BY <1>a, <1>b, ApplyStateTyped
  <2>2. tracker' = after /\ PublishSuccess(Present, reading, after)
    BY <1>d DEF Apply
  <2>3. \A d \in Disk : [unavailable |-> FALSE, src |-> src, at |-> now] \in Reading
    BY <1>a, <1>b DEF Reading
  <2> HIDE DEF after
  <2>4. reading \in [Disk -> Reading]
    BY <1>b, <2>3
  <2> HIDE DEF reading
  <2>5. Present \in SUBSET Disk
    BY DEF Present
  <2>6. pub' \in PubType
    BY <2>1, <2>2, <2>4, <2>5, SuccessTyped
  <2>7. unbroken' \in [Disk -> BOOLEAN]
    BY <1>d, Zenon DEF Apply
  <2> QED
    BY <1>c, <1>d, <2>1, <2>2, <2>6, <2>7
<1>1. CASE Tick
  BY <1>1 DEF Tick, TypeOK, refreshVars, Time
<1>2. CASE NoteEmhttpPoll
  <2>1. source' \in SourceType
    BY <1>2, <1>a, <1>b DEF NoteEmhttpPoll, SourceType
  <2> QED
    BY <1>2, <2>1 DEF NoteEmhttpPoll, TypeOK, refreshVars, SourceType
<1>3. CASE RequestRefresh
  BY <1>3 DEF RequestRefresh, TypeOK, refreshVars
<1>4. CASE BeginRefresh
  <2>1. poll' \in Poll /\ lastPoll' \in Poll
    BY <1>4, <1>a DEF BeginRefresh, Effective, Poll
  <2> QED
    BY <1>4, <2>1 DEF BeginRefresh, TypeOK, Poll
<1>5. CASE Evaluate
  <2>1. source' \in SourceType
    <3>1. PICK startedAt \in Stamp, fallback \in BOOLEAN, entered \in BOOLEAN :
             source' = [source EXCEPT
                 !.startedAt = startedAt, !.active = fallback,
                 !.since = IF entered THEN decisionAt ELSE IF fallback THEN @ ELSE NoTime]
      <4> DEFINE startedAt == IF source.startedAt = NoTime THEN decisionAt
                              ELSE source.startedAt
      <4>1. startedAt \in Stamp
        BY <1>a, <1>b DEF SourceType
      <4>2. Stale(startedAt) \in BOOLEAN
        BY DEF Stale
      <4> QED
        BY <1>5, <4>1, <4>2, Zenon DEF Evaluate
    <3> QED
      BY <3>1, <1>a, <1>b DEF SourceType
  <2>2. direct' \in BOOLEAN /\ due' \in BOOLEAN
    BY <1>5, Zenon DEF Evaluate, Stale
  <2> QED
    BY <1>5, <2>1, <2>2 DEF Evaluate, TypeOK, SourceType
<1>6. CASE InventoryError
  <2>1. tracker' \in [Disk -> DiskState]
    BY <1>6, <1>b DEF InventoryError, InvalidateContinuity, NewTracker
  <2>2. pub' \in PubType
    BY <1>6, <1>a, <1>b DEF InventoryError, PublishFailure, PubType, SourceType
  <2> QED
    BY <1>6, <2>1, <2>2, <1>c DEF InventoryError
<1>7. CASE ReadInventory
  BY <1>7 DEF ReadInventory, TypeOK
<1>8. CASE Reuse
  <2> DEFINE state == [d \in Disk |-> IF d \in Present THEN tracker[d] ELSE NewState]
             reading == [d \in Disk |-> IF d \in Present /\ CanReuse /\ d \in pub.listed
                                        THEN pub.reading[d] ELSE NoReading]
  <2>1. state \in [Disk -> DiskState] /\ reading \in [Disk -> Reading] /\ Present \in SUBSET Disk
    BY <1>a, <1>b DEF PubType, Present
  <2>2. tracker' = state /\ PublishSuccess(Present, reading, state)
    BY <1>8 DEF Reuse
  <2> HIDE DEF state, reading
  <2>3. pub' \in PubType
    BY <2>1, <2>2, SuccessTyped
  <2>4. unbroken' \in [Disk -> BOOLEAN]
    BY <1>8, <1>a, Zenon DEF Reuse
  <2> QED
    BY <1>8, <2>1, <2>2, <2>3, <2>4, <1>c DEF Reuse
<1>9. CASE CollectEmhttpd
  BY <1>9, <1>d DEF CollectEmhttpd
<1>10. CASE BeginDirect
  <2>1. source' \in SourceType
    BY <1>10, <1>a, <1>b DEF BeginDirect, SourceType
  <2> QED
    BY <1>10, <2>1 DEF BeginDirect, TypeOK, refreshVars, SourceType
<1>11. CASE FinishDirect
  BY <1>11, <1>d DEF FinishDirect
<1>12. CASE UNCHANGED vars
  BY <1>12 DEF vars, refreshVars, TypeOK
<1> QED
  BY <1>1, <1>2, <1>3, <1>4, <1>5, <1>6, <1>7, <1>8, <1>9, <1>10, <1>11, <1>12 DEF Next

-----------------------------------------------------------------------------
(* What a refresh publishes when it succeeds.                              *)
LEMMA Publishes ==
    TypeOK /\ (Reuse \/ CollectEmhttpd \/ FinishDirect) =>
        /\ EndRefresh
        /\ ~pub'.err /\ pub'.updatedAt = now /\ pub'.poll = poll
        /\ pub'.direct = source.active /\ pub'.since = source.since
        /\ pub'.listed = Present /\ pub'.state = tracker'
        /\ \A d \in Disk \ Present : tracker'[d] = NewState
<1> SUFFICES ASSUME TypeOK, Reuse \/ CollectEmhttpd \/ FinishDirect PROVE Publishes!2
  OBVIOUS
<1>1. CASE Reuse
  BY <1>1 DEF Reuse, PublishSuccess
<1>2. CASE CollectEmhttpd
  BY <1>2 DEF CollectEmhttpd, Apply, PublishSuccess
<1>3. CASE FinishDirect
  BY <1>3 DEF FinishDirect, Apply, PublishSuccess
<1> QED
  BY <1>1, <1>2, <1>3

(* What a failed one publishes.                                            *)
LEMMA Fails ==
    TypeOK /\ InventoryError => EndRefresh /\ pub'.err /\ tracker' = NewTracker
BY DEF InventoryError, PublishFailure, InvalidateContinuity, TypeOK

(* A collection, disk by disk.                                             *)
LEMMA Applies ==
    ASSUME NEW obs, NEW src, Apply(obs, src)
    PROVE  /\ \A d \in Present : tracker'[d] = ApplyState(tracker[d], obs[d], src)
           /\ \A d \in Disk : pub'.reading[d] =
                 IF d \in Present /\ tracker'[d].thermal # "unavailable"
                 THEN [unavailable |-> FALSE, src |-> src, at |-> now] ELSE NoReading
           /\ \A d \in Present : unbroken'[d] =
                 (obs[d] = "standby" \/ (obs[d] = "error" /\ src = "emhttpd" /\ unbroken[d]))
           /\ Present \subseteq Disk
<1>1. Present \subseteq Disk
  BY DEF Present
<1> QED
  BY <1>1 DEF Apply, PublishSuccess

(* Publishing an earlier collection again, disk by disk.                   *)
LEMMA Reuses ==
    ASSUME Reuse
    PROVE  /\ \A d \in Present : tracker'[d] = tracker[d] /\ (unbroken'[d] <=> unbroken[d])
           /\ \A d \in Disk : pub'.reading[d] =
                 IF d \in Present /\ ~pub.err /\ d \in pub.listed
                 THEN pub.reading[d] ELSE NoReading
           /\ Present \subseteq Disk /\ pc = "collect" /\ direct /\ ~due
<1>1. Present \subseteq Disk /\ pc = "collect" /\ direct /\ ~due
  BY DEF Reuse, Present
<1>2. \A d \in Present : tracker'[d] = tracker[d]
  BY <1>1 DEF Reuse
<1>3. \A d \in Disk : pub'.reading[d] =
            IF d \in Present /\ ~pub.err /\ d \in pub.listed THEN pub.reading[d] ELSE NoReading
  BY DEF Reuse, PublishSuccess, CanReuse
<1>4. unbroken' = [d \in Disk |-> unbroken[d] /\ d \in Present]
  BY DEF Reuse
<1>5. \A d \in Present : unbroken'[d] <=> unbroken[d]
  BY <1>1, <1>4, Zenon
<1> QED
  BY <1>1, <1>2, <1>3, <1>5

(* The possible decisions of smartSourceState.evaluate.                    *)
LEMMA Evaluates ==
    TypeOK /\ Evaluate =>
        /\ source'.lastBeat = source.lastBeat /\ source'.lastAttempt = source.lastAttempt
        /\ source'.startedAt # NoTime /\ source'.active = direct'
        /\ source'.startedAt = IF source.startedAt = NoTime THEN decisionAt
                               ELSE source.startedAt
        /\ \/ /\ ~direct' /\ ~due' /\ source'.since = NoTime
              /\ poll > 0 => decisionAt - Reference(source'.startedAt) <= poll + PollMargin
           \/ direct' /\ ~source.active /\ due' /\ source'.since = decisionAt
           \/ /\ direct' /\ source.active /\ source'.since = source.since
              /\ due' <=> source.lastAttempt = NoTime \/ decisionAt - source.lastAttempt >= poll
<1> SUFFICES ASSUME TypeOK, Evaluate PROVE Evaluates!2
  OBVIOUS
<1> DEFINE startedAt == IF source.startedAt = NoTime THEN decisionAt ELSE source.startedAt
           fallback == Stale(startedAt)
           entered == fallback /\ ~source.active
<1>1. /\ source' = [source EXCEPT !.startedAt = startedAt, !.active = fallback,
                        !.since = IF entered THEN decisionAt ELSE IF fallback THEN @ ELSE NoTime]
      /\ direct' = fallback /\ due' = (fallback /\ DirectDue(entered))
  BY Zenon DEF Evaluate
<1>2. source \in SourceType
  BY DEF TypeOK, SourceType
<1>3. startedAt # NoTime /\ startedAt \in Int
  BY Numbers DEF TypeOK, Time, NoTime
<1>4. fallback \in BOOLEAN
  BY DEF Stale
<1>5. ~fallback => (poll > 0 => decisionAt - Reference(startedAt) <= poll + PollMargin)
  <2>1. Reference(startedAt) \in Int
    BY <1>3, Numbers DEF Reference
  <2> QED
    BY <2>1, Numbers DEF Stale
<1> HIDE DEF startedAt, fallback
<1>6. /\ source'.lastBeat = source.lastBeat /\ source'.lastAttempt = source.lastAttempt
      /\ source'.startedAt = startedAt /\ source'.active = fallback
      /\ source'.since = IF entered THEN decisionAt ELSE IF fallback THEN source.since ELSE NoTime
  BY <1>1, <1>2 DEF SourceType
<1>7. source.active \in BOOLEAN
  BY <1>2 DEF SourceType
<1>8. CASE ~fallback
  BY <1>1, <1>3, <1>4, <1>5, <1>6, <1>8 DEF startedAt
<1>9. CASE fallback
  BY <1>1, <1>3, <1>4, <1>6, <1>7, <1>9 DEF startedAt, DirectDue
<1> QED
  BY <1>4, <1>8, <1>9

-----------------------------------------------------------------------------
(* The signal handler requests a refresh after it has noted the heartbeat, *)
(* and the loop evaluates after it has taken the request.                  *)
LEMMA BeatStep == TypeOK /\ BeatInv /\ [Next]_vars => BeatInv'
<1> SUFFICES ASSUME TypeOK, BeatInv, [Next]_vars PROVE BeatInv'
  OBVIOUS
<1>1. CASE Tick
  BY <1>1 DEF Tick, BeatInv
<1>2. CASE NoteEmhttpPoll \/ RequestRefresh \/ BeginRefresh \/ Evaluate
  BY <1>2 DEF NoteEmhttpPoll, RequestRefresh, BeginRefresh, Evaluate, BeatInv
<1>3. CASE InventoryError
  BY <1>3 DEF InventoryError, EndRefresh, BeatInv
<1>4. CASE ReadInventory \/ BeginDirect
  BY <1>4 DEF ReadInventory, BeginDirect, BeatInv
<1>5. CASE Reuse
  BY <1>5 DEF Reuse, EndRefresh, BeatInv
<1>6. CASE CollectEmhttpd \/ FinishDirect
  BY <1>6 DEF CollectEmhttpd, FinishDirect, EndRefresh, BeatInv
<1>7. CASE UNCHANGED vars
  BY <1>7 DEF vars, BeatInv
<1> QED
  BY <1>1, <1>2, <1>3, <1>4, <1>5, <1>6, <1>7 DEF Next

(* What one disk's new state rests on.                                     *)
LEMMA ApplyStateIs ==
    ASSUME NEW st \in DiskState, NEW o, NEW src
    PROVE  LET r == ApplyState(st, o, src) IN
           /\ r.wakeAt \in {NoTime, now, st.wakeAt}
           /\ r.thermal = "standby" => o = "standby" \/ st.thermal = "standby"
           /\ r.thermal = "valid" => o = "ok" \/ st.thermal = "valid"
           /\ r.thermal = "waking" =>
                 /\ src = "emhttpd" /\ st.thermal \in {"standby", "waking"}
                 /\ o # "standby" /\ o # "ok" /\ now - r.wakeAt < WakeGrace
           /\ o # "standby" /\ o # "ok" => r.thermal \in {"waking", "unavailable"}
BY DEF ApplyState, DiskState, Thermal

(* Nothing is ever dated in the future.                                    *)
LEMMA ClockStep == TypeOK /\ ClockInv /\ [Next]_vars => ClockInv'
<1> SUFFICES ASSUME TypeOK, ClockInv, [Next]_vars PROVE ClockInv'
  OBVIOUS
<1>a. /\ now \in Nat /\ decisionAt \in Nat /\ source.startedAt \in Int /\ source.lastBeat \in Int
      /\ source.since \in Int /\ \A d \in Disk : tracker[d].wakeAt \in Int
  BY Numbers
<1>b. source \in SourceType /\ tracker \in [Disk -> DiskState]
  BY DEF TypeOK, SourceType
<1>c. NewState.wakeAt = NoTime /\ NoTime <= now
  BY <1>a DEF NewState, NoTime
<1>d. ASSUME EndRefresh, \A d \in Disk : tracker'[d].wakeAt <= now
      PROVE  ClockInv'
  BY <1>d DEF EndRefresh, ClockInv
<1>e. ASSUME NEW obs, NEW src, Apply(obs, src)
      PROVE  \A d \in Present : tracker'[d].wakeAt <= now
  <2>1. \A d \in Present : d \in Disk /\ tracker'[d] = ApplyState(tracker[d], obs[d], src)
    BY <1>e, Applies
  <2>2. \A d \in Present : tracker'[d].wakeAt \in {NoTime, now, tracker[d].wakeAt}
    BY <1>b, <2>1, ApplyStateIs
  <2> QED
    BY <1>a, <1>c, <2>1, <2>2 DEF ClockInv
<1>1. CASE Tick
  <2>1. now' = now + 1 /\ UNCHANGED <<decisionAt, source, tracker>>
    BY <1>1 DEF Tick, refreshVars
  <2> QED
    BY <2>1, <1>a DEF ClockInv
<1>2. CASE NoteEmhttpPoll
  BY <1>2, <1>a, <1>b DEF NoteEmhttpPoll, refreshVars, ClockInv, SourceType
<1>3. CASE RequestRefresh \/ ReadInventory
  BY <1>3 DEF RequestRefresh, ReadInventory, refreshVars, ClockInv
<1>4. CASE BeginRefresh
  <2>1. source.since <= now
    BY <1>a DEF ClockInv
  <2> QED
    BY <1>4, <1>a, <2>1 DEF BeginRefresh, ClockInv
<1>5. CASE Evaluate
  <2>1. UNCHANGED <<now, decisionAt, tracker>>
    BY <1>5 DEF Evaluate
  <2>2. source'.since \in {NoTime, decisionAt, source.since}
    BY <1>5, Evaluates
  <2>3. source'.startedAt \in {decisionAt, source.startedAt} /\ source'.lastBeat = source.lastBeat
    BY <1>5, Evaluates
  <2> QED
    BY <1>a, <2>1, <2>2, <2>3 DEF ClockInv, NoTime
<1>6. CASE InventoryError
  <2>1. \A d \in Disk : tracker'[d].wakeAt <= now
    BY <1>6, <1>c, Fails DEF NewTracker
  <2> QED
    BY <1>6, <1>d, <2>1 DEF InventoryError
<1>7. CASE Reuse \/ CollectEmhttpd \/ FinishDirect
  <2>1. \A d \in Present : tracker'[d].wakeAt <= now
    <3>1. CASE Reuse
      BY <3>1, Reuses DEF ClockInv
    <3>2. CASE CollectEmhttpd
      BY <3>2, <1>e DEF CollectEmhttpd
    <3>3. CASE FinishDirect
      BY <3>3, <1>e DEF FinishDirect
    <3> QED
      BY <1>7, <3>1, <3>2, <3>3
  <2>2. \A d \in Disk \ Present : tracker'[d].wakeAt <= now
    BY <1>7, <1>c, Publishes
  <2> QED
    BY <1>7, <1>d, <2>1, <2>2, Publishes
<1>8. CASE BeginDirect
  BY <1>8, <1>b DEF BeginDirect, refreshVars, ClockInv, SourceType
<1>9. CASE UNCHANGED vars
  BY <1>9 DEF vars, refreshVars, ClockInv
<1> QED
  BY <1>1, <1>2, <1>3, <1>4, <1>5, <1>6, <1>7, <1>8, <1>9 DEF Next

(* The clock runs no further than the bounds on a refresh and on the wait  *)
(* for the next one.                                                       *)
LEMMA PaceStep == TypeOK /\ ClockInv /\ PaceInv /\ [Next]_vars => PaceInv'
<1> SUFFICES ASSUME TypeOK, ClockInv, PaceInv, [Next]_vars PROVE PaceInv'
  OBVIOUS
<1>a. /\ now \in Nat /\ decisionAt \in Nat /\ MaxRefresh \in Nat /\ MaxIdle \in Nat
      /\ pub.updatedAt \in Int /\ decisionAt <= now
  BY Numbers DEF ClockInv
<1>1. CASE Tick
  <2>1. UNCHANGED <<pc, decisionAt, pub>> /\ now' = now + 1
        /\ now < decisionAt + IF pc = "idle" THEN MaxIdle ELSE MaxRefresh
    BY <1>1 DEF Tick, refreshVars
  <2>2. CASE pc = "idle"
    BY <1>a, <2>1, <2>2 DEF PaceInv
  <2>3. CASE pc # "idle"
    BY <1>a, <2>1, <2>3 DEF PaceInv
  <2> QED
    BY <2>2, <2>3
<1>2. CASE NoteEmhttpPoll \/ RequestRefresh
  BY <1>2 DEF NoteEmhttpPoll, RequestRefresh, refreshVars, PaceInv
<1>3. CASE BeginRefresh
  BY <1>3, <1>a DEF BeginRefresh, PaceInv
<1>4. CASE Evaluate \/ ReadInventory \/ BeginDirect
  BY <1>4 DEF Evaluate, ReadInventory, BeginDirect, refreshVars, PaceInv
<1>5. CASE InventoryError
  BY <1>5, Fails DEF EndRefresh, PaceInv
<1>6. CASE Reuse \/ CollectEmhttpd \/ FinishDirect
  BY <1>6, <1>a, Publishes DEF EndRefresh, PaceInv
<1>7. CASE UNCHANGED vars
  BY <1>7 DEF vars, refreshVars, PaceInv
<1> QED
  BY <1>1, <1>2, <1>3, <1>4, <1>5, <1>6, <1>7 DEF Next

(* The tracker follows what is published, and a disk is in standby or      *)
(* waking only after a standby without a break.                            *)
LEMMA TrackerStep == TypeOK /\ TrackerInv /\ [Next]_vars => TrackerInv'
<1> SUFFICES ASSUME TypeOK, TrackerInv, [Next]_vars PROVE TrackerInv'
  OBVIOUS
<1>a. tracker \in [Disk -> DiskState]
  BY DEF TypeOK
<1>b. NewState.thermal = "unavailable"
  BY DEF NewState
<1>c. ASSUME NEW obs \in [Disk -> Observed], NEW src, Apply(obs, src)
      PROVE  \A d \in Present : tracker'[d].thermal \in {"standby", "waking"} => unbroken'[d]
  <2> SUFFICES ASSUME NEW d \in Present, tracker'[d].thermal \in {"standby", "waking"}
               PROVE  unbroken'[d]
    OBVIOUS
  <2>1. /\ d \in Disk /\ tracker'[d] = ApplyState(tracker[d], obs[d], src)
        /\ unbroken'[d] = (obs[d] = "standby" \/ (obs[d] = "error" /\ src = "emhttpd" /\ unbroken[d]))
    BY <1>c, Applies
  <2>2. obs[d] \in Observed
    BY <2>1
  <2>3. CASE obs[d] = "standby"
    BY <2>1, <2>3, Zenon
  <2>4. CASE obs[d] = "ok"
    BY <2>1, <2>4 DEF ApplyState
  <2>5. CASE obs[d] = "error"
    <3>1. tracker'[d].thermal = "waking"
      BY <1>a, <2>1, <2>5, ApplyStateIs
    <3>2. src = "emhttpd" /\ tracker[d].thermal \in {"standby", "waking"}
      BY <1>a, <2>1, <3>1, ApplyStateIs
    <3>3. unbroken[d]
      BY <2>1, <3>2 DEF TrackerInv
    <3> QED
      BY <2>1, <2>5, <3>2, <3>3, Zenon
  <2> QED
    BY <2>2, <2>3, <2>4, <2>5 DEF Observed
<1>1. CASE Tick \/ NoteEmhttpPoll \/ RequestRefresh \/ BeginRefresh \/ Evaluate
           \/ ReadInventory \/ BeginDirect
  BY <1>1 DEF Tick, NoteEmhttpPoll, RequestRefresh, BeginRefresh, Evaluate, ReadInventory,
              BeginDirect, TrackerInv
<1>2. CASE InventoryError
  BY <1>2, <1>b, Fails DEF TrackerInv, NewTracker
<1>3. CASE Reuse \/ CollectEmhttpd \/ FinishDirect
  <2>1. \A d \in Present : tracker'[d].thermal \in {"standby", "waking"} => unbroken'[d]
    <3>1. CASE Reuse
      BY <3>1, Reuses DEF TrackerInv
    <3>2. CASE CollectEmhttpd
      <4>1. [d \in Disk |-> EmhttpdObservation(inventory[d])] \in [Disk -> Observed]
        BY DEF EmhttpdObservation, Observed
      <4> QED
        BY <3>2, <4>1, <1>c DEF CollectEmhttpd
    <3>3. CASE FinishDirect
      BY <3>3, <1>c DEF FinishDirect
    <3> QED
      BY <1>3, <3>1, <3>2, <3>3
  <2>2. \A d \in Disk \ Present : tracker'[d] = NewState
    BY <1>3, Publishes
  <2> QED
    BY <1>3, <1>b, <2>1, <2>2, Publishes DEF TrackerInv
<1>4. CASE UNCHANGED vars
  BY <1>4 DEF vars, TrackerInv
<1> QED
  BY <1>1, <1>2, <1>3, <1>4 DEF Next

(* Heartbeats only move the reference time forward, so that the decision   *)
(* stays justified until it is acted upon.                                 *)
LEMMA DecisionStep == TypeOK /\ ClockInv /\ DecisionInv /\ [Next]_vars => DecisionInv'
<1> SUFFICES ASSUME TypeOK, ClockInv, DecisionInv, [Next]_vars PROVE DecisionInv'
  OBVIOUS
<1> USE DEF Decided, Reusing
<1>a. /\ now \in Nat /\ decisionAt \in Nat /\ poll \in Nat /\ PollMargin \in Nat
      /\ source.startedAt \in Int /\ source.lastBeat \in Int /\ source.lastAttempt \in Int
      /\ source \in SourceType
  BY Numbers DEF TypeOK, SourceType
<1>1. CASE Tick \/ RequestRefresh
  BY <1>1 DEF Tick, RequestRefresh, refreshVars, DecisionInv, Reference
<1>2. CASE NoteEmhttpPoll
  <2>1. /\ source'.lastBeat = now /\ source'.startedAt = source.startedAt
        /\ source'.active = source.active /\ source'.since = source.since
        /\ source'.lastAttempt = source.lastAttempt
        /\ UNCHANGED <<pc, decisionAt, poll, direct, due>>
    BY <1>2, <1>a DEF NoteEmhttpPoll, refreshVars, SourceType
  <2>2. Reference(source.startedAt) <= now /\ Reference(source.startedAt) \in Int
    BY <1>a DEF Reference, ClockInv
  <2>3. Reference(source.startedAt)' = now
    BY <1>a, <2>1 DEF Reference, NoTime
  <2> QED
    BY <1>a, <2>1, <2>2, <2>3 DEF DecisionInv
<1>3. CASE BeginRefresh
  BY <1>3 DEF BeginRefresh, DecisionInv
<1>4. CASE Evaluate
  <2>1. UNCHANGED <<decisionAt, poll>> /\ pc' = "inventory"
    BY <1>4 DEF Evaluate
  <2>2. Reference(source'.startedAt) = Reference(source.startedAt)'
    BY <1>4, Evaluates DEF Reference
  <2> QED
    BY <1>4, <1>a, <2>1, <2>2, Evaluates DEF DecisionInv
<1>5. CASE InventoryError \/ Reuse \/ CollectEmhttpd \/ FinishDirect
  <2>1. pc' = "idle"
    BY <1>5, Fails, Publishes DEF EndRefresh
  <2> QED
    BY <2>1 DEF DecisionInv
<1>6. CASE ReadInventory
  BY <1>6 DEF ReadInventory, DecisionInv, Reference
<1>7. CASE BeginDirect
  <2>1. /\ source'.lastAttempt = decisionAt /\ source'.active = source.active
        /\ source'.startedAt = source.startedAt /\ pc' = "direct" /\ direct /\ direct' = direct
        /\ decisionAt' = decisionAt /\ pc = "collect"
    BY <1>7, <1>a DEF BeginDirect, refreshVars, SourceType
  <2> QED
    BY <2>1 DEF DecisionInv
<1>8. CASE UNCHANGED vars
  BY <1>8 DEF vars, refreshVars, DecisionInv, Reference
<1> QED
  BY <1>1, <1>2, <1>3, <1>4, <1>5, <1>6, <1>7, <1>8 DEF Next

(* A fallback begins with a direct collection, or with an inventory error  *)
(* that empties the tracker, before anything is published again.           *)
LEMMA SourceStep ==
    TypeOK /\ DecisionInv /\ TrackerInv /\ SourceInv /\ [Next]_vars => SourceInv'
<1> SUFFICES ASSUME TypeOK, DecisionInv, TrackerInv, SourceInv, [Next]_vars PROVE SourceInv'
  OBVIOUS
<1> USE DEF Decided, Reusing, Settled
<1>a. source \in SourceType /\ tracker \in [Disk -> DiskState]
  BY DEF TypeOK, SourceType
<1>b. NewState.thermal = "unavailable"
  BY DEF NewState
<1>1. CASE Tick \/ RequestRefresh
  BY <1>1 DEF Tick, RequestRefresh, refreshVars, SourceInv
<1>2. CASE NoteEmhttpPoll
  BY <1>2, <1>a DEF NoteEmhttpPoll, refreshVars, SourceInv, SourceType
<1>3. CASE BeginRefresh \/ ReadInventory
  BY <1>3 DEF BeginRefresh, ReadInventory, SourceInv
<1>4. CASE Evaluate
  <2>1. UNCHANGED <<pub, tracker>> /\ pc' = "inventory" /\ pc = "evaluate"
    BY <1>4 DEF Evaluate
  <2>2. direct' /\ ~due' => source.active /\ source'.since = source.since
    BY <1>4, Evaluates
  <2> QED
    BY <2>1, <2>2 DEF SourceInv
<1>5. CASE InventoryError
  <2>1. pc' = "idle" /\ pub'.err /\ \A d \in Disk : tracker'[d].thermal = "unavailable"
    BY <1>5, <1>b, Fails DEF EndRefresh, NewTracker
  <2> QED
    BY <2>1 DEF SourceInv
<1>6. CASE Reuse \/ CollectEmhttpd \/ FinishDirect
  <2>1. /\ pc' = "idle" /\ pub'.direct = source'.active /\ pub'.since = source'.since
        /\ source' = source
    BY <1>6, Publishes DEF EndRefresh
  <2>2. ASSUME source.active, NEW d \in Present PROVE tracker'[d].thermal # "waking"
    <3>1. d \in Disk
      BY <2>2 DEF Present
    <3>2. CASE Reuse
      BY <3>1, <3>2, Reuses DEF SourceInv
    <3>3. CASE CollectEmhttpd
      BY <2>2, <3>3 DEF CollectEmhttpd, DecisionInv
    <3>4. CASE FinishDirect
      <4>1. PICK obs \in [Disk -> Observed] : Apply(obs, "direct")
        BY <3>4 DEF FinishDirect
      <4>2. tracker'[d] = ApplyState(tracker[d], obs[d], "direct")
        BY <4>1, Applies
      <4> QED
        BY <1>a, <3>1, <4>2, ApplyStateIs
    <3> QED
      BY <1>6, <3>2, <3>3, <3>4
  <2>3. \A d \in Disk \ Present : tracker'[d].thermal # "waking"
    BY <1>6, <1>b, Publishes
  <2> QED
    BY <2>1, <2>2, <2>3 DEF SourceInv
<1>7. CASE BeginDirect
  BY <1>7 DEF BeginDirect, SourceInv
<1>8. CASE UNCHANGED vars
  BY <1>8 DEF vars, refreshVars, SourceInv
<1> QED
  BY <1>1, <1>2, <1>3, <1>4, <1>5, <1>6, <1>7, <1>8 DEF Next

-----------------------------------------------------------------------------
(* With polling disabled emhttpd's files tell only standby.                *)
LEMMA UnpolledStandby ==
    TypeOK /\ ClockInv /\ CollectEmhttpd /\ poll = 0 =>
        \A d \in Present : tracker'[d].thermal \in {"standby", "unavailable"}
<1> SUFFICES ASSUME TypeOK, ClockInv, CollectEmhttpd, poll = 0, NEW d \in Present
             PROVE  tracker'[d].thermal \in {"standby", "unavailable"}
  OBVIOUS
<1> DEFINE obs == [e \in Disk |-> EmhttpdObservation(inventory[e])]
<1>1. /\ d \in Disk /\ tracker'[d] = ApplyState(tracker[d], obs[d], "emhttpd")
      /\ obs[d] = EmhttpdObservation(inventory[d])
  <2>1. Apply(obs, "emhttpd")
    BY DEF CollectEmhttpd
  <2>2. d \in Disk
    BY DEF Present
  <2> QED
    BY <2>1, <2>2, Applies
<1>2. obs[d] \in {"standby", "error"}
  BY <1>1 DEF EmhttpdObservation
<1> HIDE DEF obs
<1>3. CASE obs[d] = "standby"
  BY <1>1, <1>3 DEF ApplyState
<1>4. CASE obs[d] = "error"
  <2>1. tracker[d] \in DiskState /\ tracker[d].wakeAt \in Int /\ now \in Int
        /\ tracker[d].wakeAt <= now
    BY <1>1, Numbers DEF TypeOK, ClockInv
  <2>2. tracker'[d].thermal \in {"waking", "unavailable"}
    BY <1>1, <1>4, <2>1, ApplyStateIs
  <2>3. tracker'[d].thermal = "waking" =>
           tracker'[d].wakeAt \in {NoTime, now, tracker[d].wakeAt} /\ now - tracker'[d].wakeAt < 0
    BY <1>1, <2>1, ApplyStateIs DEF WakeGrace
  <2>4. now \in Nat
    BY Numbers
  <2> QED
    BY <2>1, <2>2, <2>3, <2>4 DEF NoTime
<1> QED
  BY <1>2, <1>3, <1>4

(* What is published from emhttpd stays within the age of the heartbeat    *)
(* that its decision rested on.                                            *)
LEMMA EmhttpdStep ==
    TypeOK /\ ClockInv /\ PaceInv /\ DecisionInv /\ EmhttpdInv /\ [Next]_vars => EmhttpdInv'
<1> SUFFICES ASSUME TypeOK, ClockInv, PaceInv, DecisionInv, EmhttpdInv, [Next]_vars
             PROVE  EmhttpdInv'
  OBVIOUS
<1>a. /\ now \in Nat /\ decisionAt \in Nat /\ poll \in Nat /\ PollMargin \in Nat
      /\ MaxRefresh \in Nat /\ pub.updatedAt \in Int /\ pub.poll \in Nat
      /\ source.startedAt \in Int /\ source.lastBeat \in Int /\ source \in SourceType
  BY Numbers DEF TypeOK, SourceType
<1>b. Reference(source.startedAt) <= now /\ Reference(source.startedAt) \in Int
  BY <1>a DEF Reference, ClockInv
<1>1. CASE Tick \/ RequestRefresh \/ BeginRefresh \/ ReadInventory
  BY <1>1 DEF Tick, RequestRefresh, BeginRefresh, ReadInventory, EmhttpdInv, Reference
<1>2. CASE NoteEmhttpPoll
  <2>1. source'.lastBeat = now /\ source'.startedAt = source.startedAt /\ pub' = pub
    BY <1>2, <1>a DEF NoteEmhttpPoll, SourceType
  <2>2. Reference(source.startedAt)' = now
    BY <1>a, <2>1 DEF Reference, NoTime
  <2> QED
    BY <1>a, <1>b, <2>1, <2>2 DEF EmhttpdInv
<1>3. CASE Evaluate
  <2>1. pub' = pub
    BY <1>3 DEF Evaluate
  <2>2. source.startedAt # NoTime =>
           source'.startedAt = source.startedAt /\ source'.lastBeat = source.lastBeat
    BY <1>3, Evaluates
  <2> QED
    BY <2>1, <2>2 DEF EmhttpdInv, Reference
<1>4. CASE BeginDirect
  <2>1. source'.startedAt = source.startedAt /\ source'.lastBeat = source.lastBeat /\ pub' = pub
    BY <1>4, <1>a DEF BeginDirect, SourceType
  <2> QED
    BY <2>1 DEF EmhttpdInv, Reference
<1>5. CASE InventoryError
  BY <1>5, Fails DEF EmhttpdInv
<1>6. CASE Reuse \/ FinishDirect
  <2>1. pub'.direct = source.active
    BY <1>6, Publishes
  <2>2. source.active
    BY <1>6 DEF Reuse, FinishDirect, DecisionInv, Decided
  <2> QED
    BY <2>1, <2>2 DEF EmhttpdInv
<1>7. CASE CollectEmhttpd
  <2>1. /\ pub'.updatedAt = now /\ pub'.poll = poll /\ pub'.listed = Present
        /\ pub'.state = tracker' /\ source' = source
    BY <1>7, Publishes DEF EndRefresh
  <2>2. source.startedAt # NoTime /\ now <= decisionAt + MaxRefresh
    BY <1>7 DEF CollectEmhttpd, DecisionInv, Decided, PaceInv
  <2>3. poll > 0 => decisionAt - Reference(source.startedAt) <= poll + PollMargin
    BY <1>7 DEF CollectEmhttpd, DecisionInv, Decided
  <2>4. poll > 0 => now - Reference(source.startedAt) <= poll + PollMargin + MaxRefresh
    BY <1>a, <1>b, <2>2, <2>3
  <2>5. \A d \in Present : ~pub'.reading[d].unavailable => tracker'[d].thermal # "unavailable"
    <3>1. Apply([d \in Disk |-> EmhttpdObservation(inventory[d])], "emhttpd")
      BY <1>7 DEF CollectEmhttpd
    <3>2. \A d \in Present : d \in Disk /\ pub'.reading[d] =
             IF d \in Present /\ tracker'[d].thermal # "unavailable"
             THEN [unavailable |-> FALSE, src |-> "emhttpd", at |-> now] ELSE NoReading
      BY <3>1, Applies
    <3> QED
      BY <3>2 DEF NoReading
  <2>6. poll = 0 => \A d \in Present :
           ~pub'.reading[d].unavailable => tracker'[d].thermal = "standby"
    BY <1>7, <2>5, UnpolledStandby
  <2>7. Reference(source.startedAt)' = Reference(source.startedAt)
    BY <2>1 DEF Reference
  <2> QED
    BY <2>1, <2>2, <2>4, <2>6, <2>7 DEF EmhttpdInv
<1>8. CASE UNCHANGED vars
  BY <1>8 DEF vars, EmhttpdInv, Reference
<1> QED
  BY <1>1, <1>2, <1>3, <1>4, <1>5, <1>6, <1>7, <1>8 DEF Next

(* A direct reading belongs to the last direct attempt of this fallback    *)
(* and is published again only while that attempt is recent.               *)
LEMMA DirectStep ==
    /\ TypeOK /\ ClockInv /\ PaceInv /\ DecisionInv /\ SourceInv /\ DirectInv /\ [Next]_vars
    => DirectInv'
<1> SUFFICES ASSUME TypeOK, ClockInv, PaceInv, DecisionInv, SourceInv, DirectInv, [Next]_vars
             PROVE  DirectInv'
  OBVIOUS
<1>a. /\ now \in Nat /\ decisionAt \in Nat /\ poll \in Nat /\ MaxRefresh \in Nat
      /\ pub.updatedAt \in Int /\ pub.poll \in Nat /\ source \in SourceType
      /\ source.since \in Int /\ source.lastAttempt \in Int
      /\ pub.listed \subseteq Disk /\ \A d \in Disk : pub.reading[d].at \in Int
  BY Numbers DEF TypeOK, SourceType
<1>1. CASE Tick \/ RequestRefresh
  BY <1>1 DEF Tick, RequestRefresh, DirectInv
<1>2. CASE NoteEmhttpPoll
  BY <1>2, <1>a DEF NoteEmhttpPoll, DirectInv, SourceType
<1>3. CASE BeginRefresh \/ ReadInventory
  BY <1>3 DEF BeginRefresh, ReadInventory, DirectInv
<1>4. CASE Evaluate
  <2>1. pub' = pub /\ source'.lastAttempt = source.lastAttempt /\ pc = "evaluate"
    BY <1>4, Evaluates DEF Evaluate
  <2> QED
    BY <2>1 DEF DirectInv
<1>5. CASE BeginDirect
  BY <1>5 DEF BeginDirect, DirectInv
<1>6. CASE InventoryError
  BY <1>6, Fails DEF DirectInv
<1>7. CASE Reuse
  <2>1. /\ ~pub'.err /\ pub'.updatedAt = now /\ pub'.poll = poll /\ pub'.since = source.since
        /\ pub'.listed = Present /\ source' = source
    BY <1>7, Publishes DEF EndRefresh
  <2>2. \A d \in Disk : pub'.reading[d] =
            IF d \in Present /\ ~pub.err /\ d \in pub.listed THEN pub.reading[d] ELSE NoReading
    BY <1>7, Reuses
  <2>3. /\ now <= decisionAt + MaxRefresh /\ decisionAt - source.lastAttempt < poll
        /\ ~pub.err => pub.direct /\ pub.since = source.since
        /\ pc # "direct"
    BY <1>7 DEF Reuse, PaceInv, DecisionInv, SourceInv, Reusing, Decided
  <2>4. ASSUME NEW d \in Present, ~pub'.reading[d].unavailable
        PROVE  /\ pub'.reading[d].src = "direct" /\ pub'.reading[d].at >= source.since
               /\ now - pub'.reading[d].at <= poll + MaxRefresh
               /\ pub'.reading[d].at >= source.lastAttempt
    <3>1. /\ d \in Disk /\ ~pub.err /\ d \in pub.listed /\ pub'.reading[d] = pub.reading[d]
      BY <2>2, <2>4 DEF NoReading, Present
    <3>2. /\ pub.reading[d].src = "direct" /\ pub.reading[d].at >= source.since
          /\ pub.reading[d].at >= source.lastAttempt
      BY <2>3, <2>4, <3>1 DEF DirectInv
    <3>3. now - pub.reading[d].at <= poll + MaxRefresh
      BY <1>a, <2>3, <3>1, <3>2
    <3> QED
      BY <3>1, <3>2, <3>3
  <2> QED
    BY <2>1, <2>4 DEF DirectInv
<1>8. CASE CollectEmhttpd
  <2>1. ~pub'.direct
    <3>1. pub'.direct = source.active /\ ~direct /\ direct = source.active
      BY <1>8, Publishes DEF CollectEmhttpd, DecisionInv, Decided
    <3> QED
      BY <3>1
  <2> QED
    BY <2>1 DEF DirectInv
<1>9. CASE FinishDirect
  <2>1. /\ ~pub'.err /\ pub'.updatedAt = now /\ pub'.poll = poll /\ pub'.since = source.since
        /\ pub'.listed = Present /\ source' = source
    BY <1>9, Publishes DEF EndRefresh
  <2>2. PICK obs \in [Disk -> Observed] : Apply(obs, "direct")
    BY <1>9 DEF FinishDirect
  <2>3. ASSUME NEW d \in Present, ~pub'.reading[d].unavailable
        PROVE  pub'.reading[d].src = "direct" /\ pub'.reading[d].at = now
    <3>1. d \in Disk /\ pub'.reading[d] =
             IF d \in Present /\ tracker'[d].thermal # "unavailable"
             THEN [unavailable |-> FALSE, src |-> "direct", at |-> now] ELSE NoReading
      BY <2>2, Applies
    <3> QED
      BY <2>3, <3>1 DEF NoReading
  <2>4. now >= source.since /\ now >= source.lastAttempt
    BY <1>9, <1>a DEF FinishDirect, DecisionInv, ClockInv
  <2> QED
    BY <1>a, <2>1, <2>3, <2>4 DEF DirectInv
<1>10. CASE UNCHANGED vars
  BY <1>10 DEF vars, DirectInv
<1> QED
  BY <1>1, <1>2, <1>3, <1>4, <1>5, <1>6, <1>7, <1>8, <1>9, <1>10 DEF Next

(* The flag, the state and the grace agree on every path that publishes.   *)
LEMMA StatesStep ==
    /\ TypeOK /\ TrackerInv /\ DecisionInv /\ SourceInv /\ StatesEarned /\ TrackerInv'
    /\ [Next]_vars
    => StatesEarned'
<1> SUFFICES ASSUME TypeOK, TrackerInv, DecisionInv, SourceInv, StatesEarned, TrackerInv',
                    [Next]_vars
             PROVE  StatesEarned'
  OBVIOUS
<1> USE DEF StatesEarned, ReadingMatchesState, WakeGraceEarned
<1>a. /\ now \in Nat /\ poll \in Nat /\ WakeMargin \in Nat
      /\ tracker \in [Disk -> DiskState]
  BY Numbers DEF TypeOK
<1>b. NoReading.unavailable = TRUE /\ NewState.thermal = "unavailable"
  BY DEF NoReading, NewState
<1>c. ASSUME NEW obs, NEW src, Apply(obs, src)
      PROVE  \A d \in Present : pub'.reading[d].unavailable <=> tracker'[d].thermal = "unavailable"
  <2>1. \A d \in Present : d \in Disk /\ pub'.reading[d] =
           IF d \in Present /\ tracker'[d].thermal # "unavailable"
           THEN [unavailable |-> FALSE, src |-> src, at |-> now] ELSE NoReading
    BY <1>c, Applies
  <2> QED
    BY <2>1, <1>b
<1>1. CASE Tick \/ NoteEmhttpPoll \/ RequestRefresh \/ BeginRefresh \/ Evaluate
           \/ ReadInventory \/ BeginDirect
  BY <1>1 DEF Tick, NoteEmhttpPoll, RequestRefresh, BeginRefresh, Evaluate, ReadInventory,
              BeginDirect
<1>2. CASE InventoryError
  BY <1>2, Fails
<1>3. CASE Reuse
  <2>1. pub'.listed = Present /\ pub'.state = tracker'
    BY <1>3, Publishes
  <2>2. \A d \in Present : d \in Disk /\ tracker'[d] = tracker[d] /\ pub'.reading[d] =
            IF ~pub.err /\ d \in pub.listed THEN pub.reading[d] ELSE NoReading
    BY <1>3, Reuses
  <2>3. \A d \in Present : tracker[d].thermal # "waking"
    BY <1>3, <2>2 DEF Reuse, SourceInv, Reusing, Decided
  <2>4. \A d \in Present : pub'.reading[d].unavailable <=> tracker[d].thermal = "unavailable"
    <3> SUFFICES ASSUME NEW d \in Present
                 PROVE  pub'.reading[d].unavailable <=> tracker[d].thermal = "unavailable"
      OBVIOUS
    <3>1. CASE ~pub.err /\ d \in pub.listed
      BY <2>2, <3>1 DEF TrackerInv
    <3>2. CASE ~(~pub.err /\ d \in pub.listed)
      <4>1. tracker[d] = NewState
        BY <2>2, <3>2 DEF TrackerInv, NewTracker
      <4> QED
        BY <1>b, <2>2, <3>2, <4>1
    <3> QED
      BY <3>1, <3>2
  <2> QED
    BY <2>1, <2>2, <2>3, <2>4
<1>4. CASE CollectEmhttpd
  <2> DEFINE obs == [d \in Disk |-> EmhttpdObservation(inventory[d])]
  <2>1. Apply(obs, "emhttpd")
    BY <1>4 DEF CollectEmhttpd
  <2>2. /\ pub'.listed = Present /\ pub'.state = tracker' /\ pub'.updatedAt = now
        /\ pub'.poll = poll /\ pub'.direct = source.active /\ ~source.active
    BY <1>4, Publishes DEF CollectEmhttpd, DecisionInv, Decided
  <2>3. \A d \in Present : d \in Disk /\ tracker'[d] = ApplyState(tracker[d], obs[d], "emhttpd")
    BY <2>1, Applies
  <2> HIDE DEF obs
  <2>4. \A d \in Present : tracker'[d].thermal = "waking" => now - tracker'[d].wakeAt < WakeGrace
    BY <1>a, <2>3, ApplyStateIs
  <2>5. \A d \in Present : tracker'[d].wakeAt \in Int
    <3>1. \A d \in Present : tracker'[d].wakeAt \in {NoTime, now, tracker[d].wakeAt}
      BY <1>a, <2>3, ApplyStateIs
    <3> QED
      BY <1>a, <2>3, <3>1, Numbers DEF NoTime
  <2>6. WakeGrace <= poll + WakeMargin /\ WakeGrace \in Int
    BY <1>a DEF WakeGrace
  <2>7. \A d \in Present :
           tracker'[d].thermal = "waking" => now - tracker'[d].wakeAt < poll + WakeMargin
    BY <1>a, <2>4, <2>5, <2>6
  <2>8. \A d \in Present : tracker'[d].thermal = "waking" => unbroken'[d]
    BY <2>3 DEF TrackerInv
  <2> QED
    BY <1>c, <2>1, <2>2, <2>7, <2>8
<1>5. CASE FinishDirect
  <2>1. PICK obs \in [Disk -> Observed] : Apply(obs, "direct")
    BY <1>5 DEF FinishDirect
  <2>2. pub'.listed = Present /\ pub'.state = tracker'
    BY <1>5, Publishes
  <2>3. \A d \in Present : d \in Disk /\ tracker'[d] = ApplyState(tracker[d], obs[d], "direct")
    BY <2>1, Applies
  <2>4. \A d \in Present : tracker'[d].thermal # "waking"
    BY <1>a, <2>3, ApplyStateIs
  <2> QED
    BY <1>c, <2>1, <2>2, <2>4
<1>6. CASE UNCHANGED vars
  BY <1>6 DEF vars
<1> QED
  BY <1>1, <1>2, <1>3, <1>4, <1>5, <1>6 DEF Next

-----------------------------------------------------------------------------
(* The invariant holds in every reachable state.                           *)
THEOREM CollectorInvariant == Spec => []IndInv
<1>1. Init => IndInv
  <2> SUFFICES ASSUME Init PROVE IndInv
    OBVIOUS
  <2>1. BeatInv /\ PaceInv /\ DecisionInv /\ EmhttpdInv /\ DirectInv /\ StatesEarned
    BY DEF Init, BeatInv, PaceInv, DecisionInv, Decided, Reusing, EmhttpdInv, DirectInv,
           StatesEarned, ReadingMatchesState, WakeGraceEarned, NewPub
  <2>2. ClockInv
    BY DEF Init, ClockInv, NewSource, NewTracker, NewState, NoTime
  <2>3. TrackerInv /\ SourceInv
    BY DEF Init, TrackerInv, SourceInv, Settled, Reusing, Decided, NewPub, NewTracker,
           NewState, NewSource
  <2> QED
    BY TypeInit, <2>1, <2>2, <2>3 DEF IndInv
<1>2. IndInv /\ [Next]_vars => IndInv'
  BY TypeStep, BeatStep, ClockStep, PaceStep, TrackerStep, DecisionStep, SourceStep,
     EmhttpdStep, DirectStep, StatesStep DEF IndInv
<1> QED
  BY <1>1, <1>2, PTL DEF Spec

(* No heartbeat is lost between the signal handler and the collection      *)
(* loop, wherever in a refresh it arrives.                                 *)
THEOREM HeartbeatNotMissedHolds == Spec => []HeartbeatNotMissed
<1>1. IndInv => HeartbeatNotMissed
  BY DEF IndInv, BeatInv, HeartbeatNotMissed
<1> QED
  BY <1>1, CollectorInvariant, PTL

(* A collector whose inventory can be read never lets its snapshot get     *)
(* older than one wait and one refresh, on the reusing path too.           *)
THEOREM SnapshotRenewedHolds == Spec => []SnapshotRenewed
<1>1. IndInv => SnapshotRenewed
  <2> SUFFICES ASSUME IndInv, ~pub.err PROVE now - pub.updatedAt <= MaxIdle + MaxRefresh
    BY DEF SnapshotRenewed
  <2>1. /\ now \in Nat /\ decisionAt \in Nat /\ pub.updatedAt \in Int
        /\ MaxRefresh \in Nat /\ MaxIdle \in Nat
    BY Numbers DEF IndInv
  <2> QED
    BY <2>1 DEF IndInv, PaceInv
<1> QED
  BY <1>1, CollectorInvariant, PTL

(* Available and waking are only ever published on the strength of what    *)
(* was observed.                                                           *)
THEOREM StatesEarnedHolds == Spec => []StatesEarned
<1>1. IndInv => StatesEarned
  BY DEF IndInv
<1> QED
  BY <1>1, CollectorInvariant, PTL

(* What the host is sent comes from a source that is alive, in types as    *)
(* declared: emhttpd under its heartbeat, or direct SMART of this fallback *)
(* and of bounded age, whatever the intervals and bounds.                  *)
THEOREM SourcesTrustedHolds == Spec => []SourcesTrusted
<1>1. IndInv => SourcesTrusted
  <2> SUFFICES ASSUME IndInv PROVE SourcesTrusted
    OBVIOUS
  <2>1. /\ now \in Nat /\ pub.updatedAt \in Int /\ pub.poll \in Nat /\ PollMargin \in Nat
        /\ MaxRefresh \in Nat /\ SnapshotTimeout \in Nat /\ pub.listed \subseteq Disk
        /\ source.startedAt \in Int /\ source.lastBeat \in Int
        /\ \A d \in Disk : pub.reading[d].at \in Int
    BY Numbers DEF IndInv
  <2>2. Reference(source.startedAt) \in Int
    BY <2>1 DEF Reference
  <2>3. EmhttpdTrusted
    BY <2>1, <2>2 DEF IndInv, EmhttpdInv, EmhttpdTrusted, Served
  <2>4. FallbackServesOnlyDirect
    BY DEF IndInv, DirectInv, FallbackServesOnlyDirect
  <2>5. DirectReadingsBounded
    <3> SUFFICES ASSUME Served, pub.direct, NEW d \in pub.listed, ~pub.reading[d].unavailable
                 PROVE  now - pub.reading[d].at < pub.poll + MaxRefresh + SnapshotTimeout
      BY DEF DirectReadingsBounded
    <3>1. pub.updatedAt - pub.reading[d].at <= pub.poll + MaxRefresh
      BY DEF IndInv, DirectInv, Served
    <3> QED
      BY <2>1, <3>1 DEF Served
  <2> QED
    BY <2>3, <2>4, <2>5 DEF SourcesTrusted, IndInv
<1> QED
  BY <1>1, CollectorInvariant, PTL

(* Disks are not probed more often than once per poll interval, except     *)
(* when a fallback begins.                                                 *)
THEOREM AttemptsSpacedHolds == Spec => AttemptsSpaced
<1> DEFINE Spaced == source'.lastAttempt # source.lastAttempt /\ source.lastAttempt # NoTime
                     => \/ source'.lastAttempt - source.lastAttempt >= poll
                        \/ source'.lastAttempt = source.since
<1>1. IndInv /\ [Next]_vars => [Spaced]_vars
  <2> SUFFICES ASSUME IndInv, Next PROVE Spaced
    OBVIOUS
  <2>a. TypeOK /\ DecisionInv /\ source \in SourceType
    BY DEF IndInv, TypeOK, SourceType
  <2>1. CASE BeginDirect
    <3>1. source'.lastAttempt = decisionAt
      BY <2>1, <2>a DEF BeginDirect, SourceType
    <3> QED
      BY <2>1, <2>a, <3>1 DEF BeginDirect, DecisionInv, Decided
  <2>2. CASE Tick \/ RequestRefresh \/ BeginRefresh \/ ReadInventory
    BY <2>2 DEF Tick, RequestRefresh, BeginRefresh, ReadInventory
  <2>3. CASE NoteEmhttpPoll
    BY <2>3, <2>a DEF NoteEmhttpPoll, SourceType
  <2>4. CASE Evaluate
    BY <2>4, <2>a, Evaluates
  <2>5. CASE InventoryError \/ Reuse \/ CollectEmhttpd \/ FinishDirect
    BY <2>5, <2>a, Fails, Publishes DEF EndRefresh
  <2> QED
    BY <2>1, <2>2, <2>3, <2>4, <2>5 DEF Next
<1> QED
  BY <1>1, CollectorInvariant, PTL DEF Spec, AttemptsSpaced
=============================================================================
