--------------------------- MODULE HwmonPublisher ---------------------------
(***************************************************************************)
(* The host daemon (`unraid-vsock-sensors hwmon`): hwmon.go,               *)
(* hwmon_device.go and hwmon_cache.go.                                     *)
(*                                                                         *)
(* The daemon keeps, for the two families of sensors, the last topology it *)
(* applied to the virt_temp kernel module.  It restores that topology from *)
(* a cache file when it starts, applies every guest snapshot to configfs   *)
(* one system call at a time, saves the topology when it changed and       *)
(* writes an event file that makes subscribers rediscover the sensors.     *)
(*                                                                         *)
(* Any system call may fail, the daemon may be killed between two of them, *)
(* the host may lose power, and an administrator may rmdir a sensor behind *)
(* the daemon's back.                                                      *)
(***************************************************************************)
EXTENDS Naturals, FiniteSets

CONSTANTS Sensor,           \* sensor IDs (of either family)
          Label,            \* labels
          Absent,           \* "no such sensor" in a topology or in the kernel
          Unlabelled,       \* a configfs item that has no hwmon device (yet)
          Nil,              \* a family that was never initialised
          Error,            \* a family the guest cannot report, or that
                            \* validateHWMonSamples refuses
          MaxFaults,        \* bound on failures of the environment
          MaxGuestChanges   \* bound on changes of what the guest reports

ASSUME DistinctMarkers ==
    /\ Absent # Unlabelled
    /\ Absent \notin Label
    /\ Unlabelled \notin Label

ASSUME SensorAssumption == Sensor # {}
ASSUME BoundsAssumption == MaxFaults \in Nat /\ MaxGuestChanges \in Nat

Family == {"disk", "hba"}

(* sensors: IDs with their labels.  The empty topology is a value of its   *)
(* own: an authoritative inventory without sensors.                        *)
Topology == [Sensor -> Label \cup {Absent}]

ASSUME NilIsNoTopology   == Nil \notin Topology
ASSUME ErrorIsNoTopology == Error \notin Topology

CONSTANT GuestTopologies    \* the topologies a guest may report, per family

ASSUME GuestAssumption == GuestTopologies \in [Family -> SUBSET Topology]

EmptyTopology == [s \in Sensor |-> Absent]

AnySensor == CHOOSE s \in Sensor : TRUE

Members(t) == {s \in Sensor : t[s] # Absent}

VARIABLES
    pc,             \* where the daemon is; "down" when it does not run
    restoring,      \* the batch comes from the cache, not from the guest
    fam,            \* the family publishHWMonFamily works on
    batch,          \* the samples to publish, per family
    todo,           \* sensors the current loop has still to visit
    cur,            \* the sensor reconcileHWMonFamily is creating
    inv,            \* publisher.disks and publisher.hbas
    changed,        \* disksReconfigured || hbasReconfigured
    cacheDirty,     \* publisher.cacheDirty
    seen,           \* seenGuestSnapshot
    kernel,         \* configfs items: a label, Unlabelled or Absent
    cacheFile,      \* the cache file as the file system shows it
    cacheDurable,   \* what a power loss is sure to preserve
    guest,          \* what the guest reports
    announced,      \* the hwmon devices at the last topology event
    disturbed,      \* a sensor was removed by hand since the last reconcile
    eventLost,      \* the last topology event could not be written
    faults, guestChanges

daemonVars == <<pc, restoring, fam, batch, todo, cur, inv, changed, cacheDirty, seen>>
envVars    == <<guest, guestChanges>>
ghostVars  == <<announced, disturbed, eventLost>>
cacheVars  == <<cacheFile, cacheDurable>>
vars == <<daemonVars, kernel, cacheVars, envVars, ghostVars, faults>>

NoInventory == [sensors |-> Nil, needsReconcile |-> FALSE]
NoCache     == [f \in Family |-> Nil]

(* What the hwmon subsystem shows of a family: the items with a label.     *)
Visible(f) ==
    [s \in Sensor |-> IF kernel[f][s] \in Label THEN kernel[f][s] ELSE Absent]

TypeOK ==
    /\ pc \in {"down", "idle", "family", "update", "create", "label", "cleanup",
               "save", "sync", "notify"}
    /\ restoring \in BOOLEAN
    /\ fam \in Family
    /\ batch \in [Family -> Topology \cup {Nil, Error}]
    /\ todo \in SUBSET Sensor /\ cur \in Sensor
    /\ inv \in [Family -> [sensors : Topology \cup {Nil}, needsReconcile : BOOLEAN]]
    /\ changed \in BOOLEAN /\ cacheDirty \in BOOLEAN /\ seen \in BOOLEAN
    /\ kernel \in [Family -> [Sensor -> Label \cup {Unlabelled, Absent}]]
    /\ cacheFile \in [Family -> Topology \cup {Nil}]
    /\ cacheDurable \in [Family -> Topology \cup {Nil}]
    /\ guest \in [Family -> Topology \cup {Error}]
    /\ announced \in [Family -> Topology]
    /\ disturbed \in [Family -> BOOLEAN]
    /\ eventLost \in BOOLEAN
    /\ faults \in 0..MaxFaults
    /\ guestChanges \in 0..MaxGuestChanges

Init ==
    /\ pc = "down" /\ restoring = FALSE /\ fam = "disk" /\ todo = {} /\ cur = AnySensor
    /\ batch = [f \in Family |-> Error]
    /\ inv = [f \in Family |-> NoInventory]
    /\ changed = FALSE /\ cacheDirty = FALSE /\ seen = FALSE
    /\ kernel = [f \in Family |-> EmptyTopology]
    /\ cacheFile = NoCache /\ cacheDurable = NoCache
    /\ guest \in {g \in [Family -> Topology \cup {Error}] :
                     \A f \in Family : g[f] \in GuestTopologies[f] \cup {Error}}
    /\ announced = [f \in Family |-> EmptyTopology]
    /\ disturbed = [f \in Family |-> FALSE]
    /\ eventLost = FALSE
    /\ faults = 0 /\ guestChanges = 0

-----------------------------------------------------------------------------
(* Every failing call consumes one fault of the budget.                    *)
Fault == faults < MaxFaults /\ faults' = faults + 1

Pending == \E f \in Family : inv[f].needsReconcile

(* The next family of publish() or restore(); after the second one restore *)
(* returns to the event loop and publish goes on to the cache.             *)
NextFamily ==
    IF fam = "disk" THEN fam' = "hba" /\ pc' = "family"
    ELSE fam' = fam /\ pc' = IF restoring THEN "idle" ELSE "save"

-----------------------------------------------------------------------------
(* runHWMon: a new process has an empty publisher; restore() loads the     *)
(* cache.  A missing cache restores nothing; so does an unreadable one,    *)
(* which is only logged.  A family the cache does not hold is left alone.  *)
Start ==
    /\ pc = "down"
    /\ seen' = FALSE /\ changed' = FALSE /\ cacheDirty' = FALSE
    /\ inv' = [f \in Family |-> NoInventory]
    /\ todo' = {} /\ fam' = "disk"
    /\ \/ /\ batch' = cacheFile /\ restoring' = TRUE /\ pc' = "family"
          /\ UNCHANGED faults
       \/ /\ Fault
          /\ batch' = batch /\ restoring' = FALSE /\ pc' = "idle"
    /\ UNCHANGED <<cur, kernel, cacheVars, envVars, ghostVars>>

(* The event loop takes a fresh snapshot and calls publish().              *)
ReceiveSnapshot ==
    /\ pc = "idle"
    /\ batch' = guest /\ restoring' = FALSE
    /\ fam' = "disk" /\ pc' = "family" /\ changed' = FALSE
    /\ UNCHANGED <<todo, cur, inv, cacheDirty, seen, kernel, cacheVars, envVars,
                   ghostVars, faults>>

(* No sample of this family: its error (or its missing inventory) is       *)
(* reported and the family keeps its topology.                             *)
SkipFamily ==
    /\ pc = "family" /\ batch[fam] \in {Nil, Error}
    /\ NextFamily
    /\ UNCHANGED <<restoring, batch, todo, cur, inv, changed, cacheDirty, seen, kernel,
                   cacheVars, envVars, ghostVars, faults>>

(* reconcileImmediately.  Nil is no topology, so a family without sensors  *)
(* differs from every batch.                                               *)
MustReconcile == inv[fam].needsReconcile \/ inv[fam].sensors # batch[fam]

(* The ghost `disturbed` forgets removals that this pass repairs.          *)
BeginReconcile ==
    /\ pc' = "create" /\ todo' = Members(batch[fam])
    /\ disturbed' = [disturbed EXCEPT ![fam] = FALSE]

PublishFamily ==
    /\ pc = "family" /\ batch[fam] \in Topology
    /\ \/ MustReconcile /\ BeginReconcile
       \/ /\ ~MustReconcile
          /\ pc' = "update" /\ todo' = Members(batch[fam])
          /\ UNCHANGED disturbed
    /\ UNCHANGED <<restoring, fam, batch, cur, inv, changed, cacheDirty, seen, kernel,
                   cacheVars, envVars, announced, eventLost, faults>>

(* updateHWMonFamily: write (or, for an unavailable sensor, stat) the      *)
(* device node of every sensor.  A node that is gone makes the daemon      *)
(* reconcile the family at once; any other error ends the family's turn.   *)
UpdateSensor(s) ==
    /\ pc = "update" /\ s \in todo
    /\ \/ /\ kernel[fam][s] # Absent
          /\ todo' = todo \ {s}
          /\ UNCHANGED <<pc, fam, disturbed, faults>>
       \/ /\ kernel[fam][s] = Absent
          /\ BeginReconcile
          /\ UNCHANGED <<fam, faults>>
       \/ /\ Fault /\ NextFamily
          /\ UNCHANGED <<todo, disturbed>>
    /\ UNCHANGED <<restoring, batch, cur, inv, changed, cacheDirty, seen, kernel,
                   cacheVars, envVars, announced, eventLost>>

UpdateDone ==
    /\ pc = "update" /\ todo = {}
    /\ NextFamily
    /\ UNCHANGED <<restoring, batch, todo, cur, inv, changed, cacheDirty, seen, kernel,
                   cacheVars, envVars, ghostVars, faults>>

-----------------------------------------------------------------------------
(* reconcileHWMonFamily failed: the topology stays, a retry is recorded.   *)
NeedsReconcile == inv' = [inv EXCEPT ![fam].needsReconcile = TRUE]

ReconcileFailed ==
    /\ NeedsReconcile
    /\ NextFamily
    /\ UNCHANGED <<restoring, batch, todo, cur, changed, cacheDirty, seen,
                   cacheVars, envVars, ghostVars>>

(* mkdir: an existing item is not an error and keeps its label.            *)
MakeSensor(s) ==
    /\ pc = "create" /\ s \in todo
    /\ \/ /\ kernel' = [kernel EXCEPT ![fam][s] = IF @ = Absent THEN Unlabelled ELSE @]
          /\ cur' = s /\ pc' = "label"
          /\ UNCHANGED <<restoring, fam, batch, todo, inv, changed, cacheDirty, seen,
                         cacheVars, envVars, ghostVars, faults>>
       \/ Fault /\ ReconcileFailed /\ UNCHANGED kernel

(* Write the temperature, then the label, which registers the hwmon        *)
(* device.  Either write may fail, or find the item gone.  A failed label  *)
(* write leaves the previous device, or none if the module could not       *)
(* restore it.                                                             *)
LabelSensor ==
    /\ pc = "label"
    /\ \/ /\ kernel[fam][cur] # Absent
          /\ kernel' = [kernel EXCEPT ![fam][cur] = batch[fam][cur]]
          /\ todo' = todo \ {cur} /\ pc' = "create"
          /\ UNCHANGED <<restoring, fam, batch, cur, inv, changed, cacheDirty, seen,
                         cacheVars, envVars, ghostVars, faults>>
       \/ /\ kernel[fam][cur] # Absent
          /\ Fault /\ ReconcileFailed
          /\ \/ UNCHANGED kernel
             \/ kernel' = [kernel EXCEPT ![fam][cur] = Unlabelled]
       \/ /\ kernel[fam][cur] = Absent
          /\ ReconcileFailed /\ UNCHANGED <<kernel, faults>>

(* ReadDir lists the items once; those the batch does not name go.         *)
StaleItems_Kept == {}
StaleItems == {s \in Sensor : kernel[fam][s] # Absent} \ Members(batch[fam])

ListStale ==
    /\ pc = "create" /\ todo = {}
    /\ \/ /\ todo' = StaleItems /\ pc' = "cleanup"
          /\ UNCHANGED <<restoring, fam, batch, cur, inv, changed, cacheDirty, seen,
                         cacheVars, envVars, ghostVars, faults>>
       \/ Fault /\ ReconcileFailed
    /\ UNCHANGED kernel

RemoveStale(s) ==
    /\ pc = "cleanup" /\ s \in todo
    /\ \/ /\ kernel[fam][s] # Absent
          /\ kernel' = [kernel EXCEPT ![fam][s] = Absent]
          /\ todo' = todo \ {s}
          /\ UNCHANGED <<pc, restoring, fam, batch, cur, inv, changed, cacheDirty,
                         seen, cacheVars, envVars, ghostVars, faults>>
       \/ /\ kernel[fam][s] # Absent
          /\ Fault /\ ReconcileFailed /\ UNCHANGED kernel
       \/ /\ kernel[fam][s] = Absent
          /\ ReconcileFailed /\ UNCHANGED <<kernel, faults>>

(* The family is reconciled: publishHWMonFamily returns true.              *)
ReconcileDone ==
    /\ pc = "cleanup" /\ todo = {}
    /\ inv' = [inv EXCEPT ![fam] = [sensors |-> batch[fam], needsReconcile |-> FALSE]]
    /\ changed' = TRUE
    /\ NextFamily
    /\ UNCHANGED <<restoring, batch, todo, cur, cacheDirty, seen, kernel, cacheVars,
                   envVars, ghostVars, faults>>

-----------------------------------------------------------------------------
(* saveCache writes the initialised families; a family without sensors is  *)
(* left out of the file.                                                   *)
SavedTopology == [f \in Family |-> inv[f].sensors]

MustSave_OnlyWhenChanged == changed
MustSave == changed \/ cacheDirty

(* The topology is dirty from here until it is saved.                      *)
MarkDirty_Forgotten == UNCHANGED cacheDirty
MarkDirty == cacheDirty' = TRUE

(* Temporary file, then rename; a failure up to there leaves the old file. *)
SaveCache ==
    /\ pc = "save"
    /\ \/ /\ ~MustSave
          /\ pc' = "notify" /\ UNCHANGED <<cacheDirty, cacheFile, faults>>
       \/ /\ MustSave /\ MarkDirty
          /\ cacheFile' = SavedTopology /\ pc' = "sync" /\ UNCHANGED faults
       \/ /\ MustSave /\ MarkDirty
          /\ Fault /\ pc' = "notify" /\ UNCHANGED cacheFile
    /\ UNCHANGED <<restoring, fam, batch, todo, cur, inv, changed, seen, kernel,
                   cacheDurable, envVars, ghostVars>>

(* syncDirectory makes the rename durable; only then is the cache clean.   *)
SyncCache_Early ==
    /\ pc = "sync"
    /\ pc' = "notify" /\ cacheDirty' = FALSE
    /\ \/ cacheDurable' = cacheFile /\ UNCHANGED faults
       \/ Fault /\ UNCHANGED cacheDurable
    /\ UNCHANGED <<restoring, fam, batch, todo, cur, inv, changed, seen, kernel,
                   cacheFile, envVars, ghostVars>>
SyncCache ==
    /\ pc = "sync"
    /\ pc' = "notify"
    /\ \/ cacheDurable' = cacheFile /\ cacheDirty' = FALSE /\ UNCHANGED faults
       \/ Fault /\ UNCHANGED <<cacheDurable, cacheDirty>>
    /\ UNCHANGED <<restoring, fam, batch, todo, cur, inv, changed, seen, kernel,
                   cacheFile, envVars, ghostVars>>

(* shouldNotifyTopologyChanged, with reconfigured and firstGuestSnapshot   *)
(* spelled out.                                                            *)
ShouldNotify_WhilePending ==
    \/ changed
    \/ ~seen /\ \E f \in Family : inv[f].sensors # Nil
ShouldNotify_NotFirst == ~Pending /\ changed
ShouldNotify ==
    /\ ~Pending
    /\ \/ changed
       \/ ~seen /\ \E f \in Family : inv[f].sensors # Nil

Notify ==
    /\ pc = "notify"
    /\ seen' = TRUE /\ pc' = "idle"
    /\ \/ /\ ShouldNotify
          /\ announced' = [f \in Family |-> Visible(f)] /\ eventLost' = FALSE
          /\ UNCHANGED faults
       \/ ShouldNotify /\ Fault /\ eventLost' = TRUE /\ UNCHANGED announced
       \/ ~ShouldNotify /\ UNCHANGED <<announced, eventLost, faults>>
    /\ UNCHANGED <<restoring, fam, batch, todo, cur, inv, changed, cacheDirty, kernel,
                   cacheVars, envVars, disturbed>>

-----------------------------------------------------------------------------
(* The environment.  A killed daemon loses its memory and nothing else.    *)
Stopped ==
    /\ pc' = "down"
    /\ restoring' = FALSE /\ fam' = "disk" /\ todo' = {} /\ cur' = AnySensor
    /\ batch' = [f \in Family |-> Error]
    /\ inv' = [f \in Family |-> NoInventory]
    /\ changed' = FALSE /\ cacheDirty' = FALSE /\ seen' = FALSE

Crash ==
    /\ pc # "down" /\ Fault
    /\ Stopped
    /\ UNCHANGED <<kernel, cacheVars, envVars, ghostVars>>

(* A power loss also empties configfs and /run, and the subscribers start  *)
(* again from what they see; a rename that was not synced may be undone.   *)
PowerLoss ==
    /\ Fault
    /\ Stopped
    /\ kernel' = [f \in Family |-> EmptyTopology]
    /\ announced' = [f \in Family |-> EmptyTopology]
    /\ disturbed' = [f \in Family |-> FALSE] /\ eventLost' = FALSE
    /\ cacheFile' \in {cacheFile, cacheDurable} /\ cacheDurable' = cacheFile'
    /\ UNCHANGED envVars

(* rmdir of a sensor by someone else (virt-temp's prerm clears configfs).  *)
RemoveByHand(f, s) ==
    /\ kernel[f][s] # Absent /\ Fault
    /\ kernel' = [kernel EXCEPT ![f][s] = Absent]
    /\ disturbed' = [disturbed EXCEPT ![f] = TRUE]
    /\ UNCHANGED <<daemonVars, cacheVars, envVars, announced, eventLost>>

GuestChange(f) ==
    /\ guestChanges < MaxGuestChanges /\ guestChanges' = guestChanges + 1
    /\ \E t \in GuestTopologies[f] \cup {Error} :
          t # guest[f] /\ guest' = [guest EXCEPT ![f] = t]
    /\ UNCHANGED <<daemonVars, kernel, cacheVars, ghostVars, faults>>

Daemon ==
    \/ Start \/ ReceiveSnapshot
    \/ SkipFamily \/ PublishFamily
    \/ \E s \in Sensor : UpdateSensor(s)
    \/ UpdateDone
    \/ \E s \in Sensor : MakeSensor(s)
    \/ LabelSensor \/ ListStale
    \/ \E s \in Sensor : RemoveStale(s)
    \/ ReconcileDone
    \/ SaveCache \/ SyncCache \/ Notify

Environment ==
    \/ Crash \/ PowerLoss
    \/ \E f \in Family, s \in Sensor : RemoveByHand(f, s)
    \/ \E f \in Family : GuestChange(f)

Next == Daemon \/ Environment

Spec == Init /\ [][Next]_vars

(* systemd restarts the daemon, the guest publishes every second and no    *)
(* call of the daemon blocks forever; failures need not happen.            *)
FairSpec == Spec /\ WF_vars(Daemon)

-----------------------------------------------------------------------------
(* Between two snapshots, what the daemon believes about a family it need  *)
(* not reconcile is what the kernel publishes: the same sensors under the  *)
(* same labels and nothing left over from an earlier topology, a partial   *)
(* failure or an earlier process (unless a sensor was removed by hand).    *)
TopologyApplied ==
    pc = "idle" =>
        \A f \in Family :
            /\ inv[f].sensors # Nil
            /\ ~inv[f].needsReconcile
            /\ ~disturbed[f]
            => /\ Visible(f) = inv[f].sensors
               /\ \A s \in Sensor : kernel[f][s] # Unlabelled

(* hwmon.go: cacheDirty is kept until the topology is saved.  So when it   *)
(* is clear between two snapshots, a restart restores what was applied.    *)
CacheCurrent ==
    pc = "idle" /\ ~cacheDirty =>
        \A f \in Family :
            inv[f].sensors # Nil => cacheFile[f] = inv[f].sensors

(* saveCache: "a successful return means the new topology survives a crash *)
(* or power loss" (hwmon_cache.go).                                        *)
SaveIsDurable ==
    [][cacheDirty /\ ~cacheDirty' /\ pc' # "down"
        => \A f \in Family : cacheDurable'[f] = inv[f].sensors]_vars

(* Subscribers rediscover the sensors on an event and then keep what they  *)
(* saw.  Once every family is reconciled and the guest has been heard, the *)
(* last event showed them every sensor under its present label: no change  *)
(* of the topology goes unannounced, however many passes it took.  The one *)
(* exception is an event whose write failed, which is not repeated.        *)
SubscribersCurrent ==
    pc = "idle" /\ seen /\ ~Pending /\ ~eventLost =>
        \A f \in Family :
            inv[f].sensors # Nil /\ ~disturbed[f] => announced[f] = Visible(f)

(* An event is written only when every initialised family is completely    *)
(* applied: subscribers never rediscover a half-reconciled topology.       *)
EventsAreComplete ==
    [][pc = "notify" /\ pc' = "idle" /\ announced' # announced
        => \A f \in Family :
              inv[f].sensors # Nil /\ ~disturbed[f]
                 => announced'[f] = inv[f].sensors]_vars

(* When failures and guest changes end, the kernel shows what the guest    *)
(* reports and the cache would restore it, whatever happened before.       *)
Converged ==
    \A f \in Family :
        guest[f] # Error => Visible(f) = guest[f] /\ cacheFile[f] = guest[f]
Converges == <>[]Converged

=============================================================================
