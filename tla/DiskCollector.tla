---------------------------- MODULE DiskCollector ----------------------------
(***************************************************************************)
(* The guest's disk collector: disk.go, disk_source.go, disk_state.go and  *)
(* disk_source_config.go.                                                  *)
(*                                                                         *)
(* A collection goroutine refreshes on a watchdog tick or on request.  A   *)
(* refresh decides from the age of the last emhttpd heartbeat whether the  *)
(* temperatures in emhttpd's files can be trusted or SMART must be read    *)
(* directly, reads the inventory, collects or reuses temperatures, tracks  *)
(* each disk's thermal state and publishes the result under a lock.  The   *)
(* signal handler records heartbeats at any moment of a refresh, and the   *)
(* VSOCK publisher reads what was published, at any later time.            *)
(*                                                                         *)
(* Time is an integer clock.  A policy or inventory file is read in one    *)
(* step; which disks it lists, and what emhttpd says of each, is free.     *)
(***************************************************************************)
EXTENDS Integers

CONSTANTS Disk,             \* stable disk IDs
          PollValues,       \* poll_attributes intervals; 0 disables polling
          DefaultPoll,      \* defaultPollAttributes
          PollMargin,       \* emhttpPollMargin
          WakeMargin,       \* diskWakeMargin
          SnapshotTimeout,  \* diskSnapshotTimeout
          MaxRefresh,       \* bound on the duration of one refresh
          MaxIdle,          \* bound on the time between two refreshes; the
                            \* watchdog interval unless the loop is starved
          MaxTime           \* bound on the clock

ASSUME DurationsAssumption ==
    /\ PollValues \subseteq Nat /\ DefaultPoll \in Nat
    /\ PollMargin \in Nat /\ WakeMargin \in Nat /\ SnapshotTimeout \in Nat
    /\ MaxRefresh \in Nat /\ MaxIdle \in Nat /\ MaxTime \in Nat

NoTime == -1                \* the zero time.Time
Time == 0..MaxTime
Stamp == Time \cup {NoTime}

Thermal == {"unavailable", "valid", "standby", "waking"}
DiskState == [thermal : Thermal, wakeAt : Stamp]
NewState == [thermal |-> "unavailable", wakeAt |-> NoTime]

(* A published reading: its Unavailable flag and, as a record of where the *)
(* value comes from, the source that observed it and when.                 *)
Reading == [unavailable : BOOLEAN, src : {"emhttpd", "direct", "none"}, at : Stamp]
NoReading == [unavailable |-> TRUE, src |-> "none", at |-> NoTime]

(* What emhttpd's files say of a disk they list.                           *)
Field == {"spundown", "temperature", "missing"}
(* What a collection learns of a disk.                                     *)
Observed == {"standby", "ok", "error"}

VARIABLES
    now,
    pc,             \* the collection goroutine
    decisionAt,     \* when the current or last refresh began
    lastPoll,       \* pollAttributesState: the last valid interval
    poll,           \* pollInterval of this refresh
    hb,             \* the signal handler: "idle" or about to request a refresh
    wanted,         \* the refresh channel (capacity 1) holds a request
    source,         \* smartSourceState
    direct, due,    \* the decision of this refresh
    inventory,      \* the fields of the selected disks, by disk
    tracker,        \* diskStateTracker; an unknown disk is in NewState
    pub,            \* what publishDiskSuccess and publishDiskFailure store
    seenBeat,       \* evaluate took the last heartbeat into account
    unbroken        \* standby was observed and nothing interrupted it since

refreshVars == <<decisionAt, poll, direct, due, inventory>>
vars == <<now, pc, refreshVars, lastPoll, hb, wanted, source, tracker, pub,
          seenBeat, unbroken>>

TypeOK ==
    /\ now \in Time
    /\ pc \in {"idle", "evaluate", "inventory", "collect", "direct"}
    /\ decisionAt \in Time
    /\ lastPoll \in PollValues \cup {DefaultPoll}
    /\ poll \in PollValues \cup {DefaultPoll}
    /\ hb \in {"idle", "noted"} /\ wanted \in BOOLEAN
    /\ source \in [startedAt : Stamp, lastBeat : Stamp, active : BOOLEAN,
                   since : Stamp, lastAttempt : Stamp]
    /\ direct \in BOOLEAN /\ due \in BOOLEAN
    /\ inventory \in [Disk -> Field \cup {"absent"}]
    /\ tracker \in [Disk -> DiskState]
    /\ pub \in [err : BOOLEAN, updatedAt : Stamp, poll : PollValues \cup {DefaultPoll},
                direct : BOOLEAN, since : Stamp, listed : SUBSET Disk,
                reading : [Disk -> Reading], state : [Disk -> DiskState]]
    /\ seenBeat \in BOOLEAN
    /\ unbroken \in [Disk -> BOOLEAN]

(* newDiskCollector: nothing is known, and nothing was collected yet.      *)
NewSource == [startedAt |-> NoTime, lastBeat |-> NoTime, active |-> FALSE,
              since |-> NoTime, lastAttempt |-> NoTime]
NoFields == [d \in Disk |-> "absent"]
NewTracker == [d \in Disk |-> NewState]
NewPub == [err |-> TRUE, updatedAt |-> NoTime, poll |-> DefaultPoll,
           direct |-> FALSE, since |-> NoTime, listed |-> {},
           reading |-> [d \in Disk |-> NoReading], state |-> NewTracker]

Init ==
    /\ now = 0 /\ pc = "idle" /\ decisionAt = 0
    /\ lastPoll = DefaultPoll /\ poll = DefaultPoll
    /\ hb = "idle" /\ wanted = FALSE
    /\ source = NewSource
    /\ direct = FALSE /\ due = FALSE
    /\ inventory = NoFields /\ tracker = NewTracker
    /\ pub = NewPub
    /\ seenBeat = TRUE /\ unbroken = [d \in Disk |-> FALSE]

-----------------------------------------------------------------------------
(* The clock may run at any point, within the bounds on a refresh and on   *)
(* the wait for the next one.                                              *)
Tick ==
    /\ now < MaxTime
    /\ now < decisionAt + IF pc = "idle" THEN MaxIdle ELSE MaxRefresh
    /\ now' = now + 1
    /\ UNCHANGED <<pc, refreshVars, lastPoll, hb, wanted, source, tracker, pub,
                   seenBeat, unbroken>>

(* SIGUSR2: note the heartbeat, then request a refresh.  A full channel    *)
(* already holds a request.                                                *)
NoteEmhttpPoll ==
    /\ hb = "idle" /\ hb' = "noted"
    /\ source' = [source EXCEPT !.lastBeat = now] /\ seenBeat' = FALSE
    /\ UNCHANGED <<now, pc, refreshVars, lastPoll, wanted, tracker, pub, unbroken>>

RequestRefresh_Unbuffered ==
    /\ hb = "noted" /\ hb' = "idle"
    /\ wanted' = (wanted \/ pc = "idle")
    /\ UNCHANGED <<now, pc, refreshVars, lastPoll, source, tracker, pub, seenBeat,
                   unbroken>>
RequestRefresh ==
    /\ hb = "noted" /\ hb' = "idle"
    /\ wanted' = TRUE
    /\ UNCHANGED <<now, pc, refreshVars, lastPoll, source, tracker, pub, seenBeat,
                   unbroken>>

-----------------------------------------------------------------------------
(* pollAttributesState.effective: a failed read of var.ini keeps the last  *)
(* valid interval.                                                         *)
Failed == -1
Effective(read) == IF read = Failed THEN lastPoll ELSE read

(* The loop takes a request, or the watchdog fires.                        *)
BeginRefresh ==
    /\ pc = "idle" /\ pc' = "evaluate"
    /\ decisionAt' = now
    /\ \/ wanted /\ wanted' = FALSE
       \/ UNCHANGED wanted
    /\ \E read \in PollValues \cup {Failed} :
          poll' = Effective(read) /\ lastPoll' = Effective(read)
    /\ UNCHANGED <<now, direct, due, inventory, hb, source, tracker, pub, seenBeat,
                   unbroken>>

(* smartSourceState.evaluate                                               *)
Reference(startedAt) == IF source.lastBeat # NoTime THEN source.lastBeat ELSE startedAt

Stale_IgnoresStart(startedAt) ==
    poll > 0 /\ source.lastBeat # NoTime /\ decisionAt - source.lastBeat > poll + PollMargin
Stale(startedAt) == poll > 0 /\ decisionAt - Reference(startedAt) > poll + PollMargin

(* A direct collection is due on entry and then once per poll interval.    *)
DirectDue_EveryRefresh(entered) == TRUE
DirectDue_NotOnEntry(entered) ==
    source.lastAttempt = NoTime \/ decisionAt - source.lastAttempt >= poll
DirectDue_OnlyOnEntry(entered) == entered
DirectDue(entered) ==
    \/ entered
    \/ source.lastAttempt = NoTime
    \/ decisionAt - source.lastAttempt >= poll

Evaluate ==
    /\ pc = "evaluate" /\ pc' = "inventory"
    /\ LET startedAt == IF source.startedAt = NoTime THEN decisionAt ELSE source.startedAt
           fallback  == Stale(startedAt)
           entered   == fallback /\ ~source.active
       IN  /\ source' = [source EXCEPT
                 !.startedAt = startedAt,
                 !.active = fallback,
                 !.since = IF entered THEN decisionAt ELSE IF fallback THEN @ ELSE NoTime]
           /\ direct' = fallback
           /\ due' = (fallback /\ DirectDue(entered))
    /\ seenBeat' = TRUE
    /\ UNCHANGED <<now, decisionAt, poll, inventory, lastPoll, hb, wanted, tracker,
                   pub, unbroken>>

(* A refresh that ends forgets its local variables.                        *)
EndRefresh ==
    /\ pc' = "idle"
    /\ poll' = DefaultPoll /\ direct' = FALSE /\ due' = FALSE
    /\ inventory' = NoFields
    /\ UNCHANGED <<now, decisionAt, lastPoll, hb, wanted, source, seenBeat>>

(* publishDiskSuccess and publishDiskFailure, under the collector's lock.  *)
PublishSuccess_ReusedKeepsTime(listed, reading, state) ==
    pub' = [err |-> FALSE, updatedAt |-> IF direct /\ ~due THEN pub.updatedAt ELSE now,
            poll |-> poll, direct |-> source.active, since |-> source.since,
            listed |-> listed, reading |-> reading, state |-> state]
PublishSuccess(listed, reading, state) ==
    pub' = [err |-> FALSE, updatedAt |-> now, poll |-> poll,
            direct |-> source.active, since |-> source.since,
            listed |-> listed, reading |-> reading, state |-> state]

PublishFailure ==
    pub' = [pub EXCEPT !.err = TRUE, !.updatedAt = NoTime, !.poll = poll,
                       !.direct = source.active, !.since = source.since]

(* invalidateContinuity: no standby seen before an unknown interval counts *)
(* afterwards.                                                             *)
InvalidateContinuity_Skipped == UNCHANGED tracker
InvalidateContinuity == tracker' = NewTracker

InventoryError ==
    /\ pc = "inventory" /\ EndRefresh
    /\ InvalidateContinuity
    /\ PublishFailure
    /\ unbroken' = [d \in Disk |-> FALSE]

ReadInventory ==
    /\ pc = "inventory" /\ pc' = "collect"
    /\ inventory' \in [Disk -> Field \cup {"absent"}]
    /\ UNCHANGED <<now, decisionAt, poll, direct, due, lastPoll, hb, wanted, source,
                   tracker, pub, seenBeat, unbroken>>

Present == {d \in Disk : inventory[d] # "absent"}

-----------------------------------------------------------------------------
(* reuseFallbackSnapshot: between two direct collections the last one is   *)
(* published again, unless the last refresh failed; a disk it did not list *)
(* is unavailable.                                                         *)
CanReuse_Always == TRUE
CanReuse == ~pub.err

Reuse ==
    /\ pc = "collect" /\ direct /\ ~due /\ EndRefresh
    /\ tracker' = [d \in Disk |-> IF d \in Present THEN tracker[d] ELSE NewState]
    /\ PublishSuccess(Present,
          [d \in Disk |-> IF d \in Present /\ CanReuse /\ d \in pub.listed
                          THEN pub.reading[d] ELSE NoReading],
          [d \in Disk |-> IF d \in Present THEN tracker[d] ELSE NewState])
    /\ unbroken' = [d \in Disk |-> unbroken[d] /\ d \in Present]

(* makeDiskObservations: with polling disabled an active disk is not fresh.*)
EmhttpdObservation(field) ==
    CASE field = "spundown"                 -> "standby"
      [] field = "temperature" /\ poll > 0  -> "ok"
      [] OTHER                              -> "error"

(* diskStateTracker.apply for one disk.  A disk that emhttpd reports awake *)
(* without a temperature is waking for wakeGrace after its standby.        *)
WakeGrace == IF poll > 0 THEN poll + WakeMargin ELSE 0

ApplyState(st, o, src) ==
    LET woken == IF src = "emhttpd" /\ st.thermal = "standby"
                 THEN [thermal |-> "waking", wakeAt |-> now] ELSE st
    IN  CASE o = "standby" -> [thermal |-> "standby", wakeAt |-> NoTime]
          [] o = "ok"      -> [thermal |-> "valid", wakeAt |-> NoTime]
          [] OTHER ->
                IF /\ src = "emhttpd" /\ woken.thermal = "waking"
                   /\ now - woken.wakeAt < WakeGrace
                THEN woken
                ELSE [woken EXCEPT !.thermal = "unavailable"]

(* apply, recordFallbackResult, buildDiskRuntimeSnapshot and publication,  *)
(* once every observation obs[d] is in.                                    *)
Apply(obs, src) ==
    LET after == [d \in Disk |-> IF d \in Present THEN ApplyState(tracker[d], obs[d], src)
                                 ELSE NewState]
    IN  /\ tracker' = after
        /\ PublishSuccess(Present,
              [d \in Disk |->
                  IF d \in Present /\ after[d].thermal # "unavailable"
                  THEN [unavailable |-> FALSE, src |-> src, at |-> now]
                  ELSE NoReading],
              after)
        /\ unbroken' = [d \in Disk |->
              /\ d \in Present
              /\ \/ obs[d] = "standby"
                 \/ obs[d] = "error" /\ src = "emhttpd" /\ unbroken[d]]

CollectEmhttpd ==
    /\ pc = "collect" /\ ~direct /\ EndRefresh
    /\ Apply([d \in Disk |-> EmhttpdObservation(inventory[d])], "emhttpd")

(* beginDirectAttempt, then collectFallback: commands that take time and   *)
(* may end in any way for each disk.                                       *)
BeginDirect ==
    /\ pc = "collect" /\ direct /\ due /\ pc' = "direct"
    /\ source' = [source EXCEPT !.lastAttempt = decisionAt]
    /\ UNCHANGED <<now, refreshVars, lastPoll, hb, wanted, tracker, pub, seenBeat,
                   unbroken>>

FinishDirect ==
    /\ pc = "direct" /\ EndRefresh
    /\ \E obs \in [Disk -> Observed] : Apply(obs, "direct")

Next ==
    \/ Tick
    \/ NoteEmhttpPoll \/ RequestRefresh
    \/ BeginRefresh \/ Evaluate
    \/ InventoryError \/ ReadInventory
    \/ Reuse \/ CollectEmhttpd \/ BeginDirect \/ FinishDirect

Spec == Init /\ [][Next]_vars

-----------------------------------------------------------------------------
(* snapshot() returns readings: no error, and not stale.                   *)
Served == ~pub.err /\ now < pub.updatedAt + SnapshotTimeout

(* In fallback nothing that emhttpd once reported is served, and nothing   *)
(* measured in an earlier fallback: every available reading was observed   *)
(* by direct SMART since this fallback began, on the collecting and on the *)
(* reusing path, with inventory errors and reappearing disks in between.   *)
FallbackServesOnlyDirect ==
    ~pub.err /\ pub.direct =>
        \A d \in pub.listed : ~pub.reading[d].unavailable =>
            pub.reading[d].src = "direct" /\ pub.reading[d].at >= pub.since

(* The Unavailable flag sent to the host and the thermal state shown in    *)
(* the diagnostics agree on every path that publishes.                     *)
ReadingMatchesState ==
    ~pub.err => \A d \in pub.listed :
        pub.reading[d].unavailable <=> pub.state[d].thermal = "unavailable"

(* A direct reading is published again for one poll interval at most, so   *)
(* what is served in fallback has a bounded age.                           *)
DirectReadingsBounded ==
    Served /\ pub.direct =>
        \A d \in pub.listed : ~pub.reading[d].unavailable =>
            now - pub.reading[d].at < pub.poll + MaxRefresh + SnapshotTimeout

(* Readings taken from emhttpd are served only while its heartbeat is      *)
(* alive; with polling disabled, only standby is.                          *)
EmhttpdTrusted ==
    Served /\ ~pub.direct =>
        IF pub.poll > 0
        THEN now - Reference(source.startedAt)
                < pub.poll + PollMargin + MaxRefresh + SnapshotTimeout
        ELSE \A d \in pub.listed :
                ~pub.reading[d].unavailable => pub.state[d].thermal = "standby"

(* A waking disk counts as available only after a standby observed without *)
(* an inventory error, a disappearance or a failed SMART read since, and   *)
(* only for the wake grace ("uninterrupted observed transition",           *)
(* disk_state.go).                                                         *)
WakeGraceEarned ==
    ~pub.err => \A d \in pub.listed : pub.state[d].thermal = "waking" =>
        /\ unbroken[d]
        /\ ~pub.direct
        /\ pub.updatedAt - pub.state[d].wakeAt < pub.poll + WakeMargin

(* Disks are not probed more often than once per poll interval, except     *)
(* when a fallback begins.                                                 *)
AttemptsSpaced ==
    [][source'.lastAttempt # source.lastAttempt /\ source.lastAttempt # NoTime
        => \/ source'.lastAttempt - source.lastAttempt >= poll
           \/ source'.lastAttempt = source.since]_vars

(* A heartbeat is never lost between the signal handler and the loop: when *)
(* both are idle and no request waits, the last decision knew of it.       *)
HeartbeatNotMissed ==
    pc = "idle" /\ hb = "idle" /\ ~wanted => seenBeat

(* Every refresh that succeeds renews the published snapshot, also one     *)
(* that publishes an earlier collection again: a collector whose inventory *)
(* can be read lets its snapshot get no older than one wait and one        *)
(* refresh, which is well within SnapshotTimeout while the watchdog runs.  *)
SnapshotRenewed == ~pub.err => now - pub.updatedAt <= MaxIdle + MaxRefresh

(* What the host is sent comes from a source that is alive: from emhttpd   *)
(* under its heartbeat, or from direct SMART, recent and of this fallback. *)
SourcesTrusted ==
    TypeOK /\ EmhttpdTrusted /\ FallbackServesOnlyDirect /\ DirectReadingsBounded

(* A disk counts as available, or as waking, only on the strength of what  *)
(* was observed, on every path that publishes.                             *)
StatesEarned == ReadingMatchesState /\ WakeGraceEarned

=============================================================================
