------------------------ MODULE HwmonPublisherProofs ------------------------
(* Proofs about HwmonPublisher, for every set of sensors, every set of     *)
(* labels and every number of failures.                                    *)
EXTENDS HwmonPublisher, TLAPS

Reconciling == pc \in {"create", "label", "cleanup"}

(* Where the loops of reconcileHWMonFamily are.                            *)
WorkInv ==
    /\ pc \in {"update", "create", "label", "cleanup"} => batch[fam] \in Topology
    /\ pc \in {"create", "label"} => todo \subseteq Members(batch[fam])
    /\ pc = "label" => cur \in todo
    /\ pc = "cleanup" => todo \cap Members(batch[fam]) = {}

(* What reconcileHWMonFamily has achieved so far.                          *)
ProgressInv ==
    /\ Reconciling /\ ~disturbed[fam] =>
          \A s \in Members(batch[fam]) : s \notin todo => kernel[fam][s] = batch[fam][s]
    /\ pc = "cleanup" /\ ~disturbed[fam] =>
          \A s \in Sensor \ Members(batch[fam]) : s \notin todo => kernel[fam][s] = Absent

(* A family that is not being reconciled is applied.                       *)
AppliedInv ==
    \A f \in Family :
        /\ ~(Reconciling /\ f = fam)
        /\ inv[f].sensors # Nil
        /\ ~inv[f].needsReconcile
        /\ ~disturbed[f]
        => kernel[f] = inv[f].sensors

RestoreInv ==
    restoring =>
        /\ ~seen /\ ~cacheDirty
        /\ pc \notin {"down", "save", "sync", "notify"}
        /\ pc # "idle" => batch = cacheFile
        /\ \A f \in Family : inv[f].sensors # Nil => cacheFile[f] = inv[f].sensors

CacheInv ==
    /\ pc = "down" => ~cacheDirty
    /\ pc = "sync" => cacheDirty /\ cacheFile = SavedTopology
    /\ ~cacheDirty /\ (~changed \/ pc \in {"down", "idle", "notify"}) =>
          \A f \in Family : inv[f].sensors # Nil => cacheFile[f] = inv[f].sensors

AnnounceInv ==
    seen /\ ~Pending /\ ~eventLost /\ (~changed \/ pc = "idle") =>
        \A f \in Family :
            inv[f].sensors # Nil /\ ~disturbed[f] /\ ~(Reconciling /\ f = fam)
                => announced[f] = inv[f].sensors

IndInv == /\ TypeOK /\ WorkInv /\ ProgressInv /\ AppliedInv
          /\ RestoreInv /\ CacheInv /\ AnnounceInv

-----------------------------------------------------------------------------
(* The empty cache of a first start is a topology.                        *)
LEMMA EmptyIsTopology == EmptyTopology \in Topology
  BY DEF EmptyTopology, Topology

(* Both sensor families of the daemon are members of Family.               *)
LEMMA FamilyHasDisk == "disk" \in Family /\ "hba" \in Family
  BY DEF Family

(* NextFamily stays within the two families and within the labels of pc.   *)
LEMMA NextFamilyType ==
  ASSUME fam \in Family, NextFamily
  PROVE  fam' \in Family /\ pc' \in {"family", "idle", "save"}
  BY DEF NextFamily, Family

(* The daemon starts in a well-typed state.                                *)
LEMMA TypeInit == Init => TypeOK
  <1> SUFFICES ASSUME Init PROVE TypeOK
    OBVIOUS
  <1>1. AnySensor \in Sensor
    BY SensorAssumption DEF AnySensor
  <1>2. guest \in [Family -> Topology \cup {Error}]
    BY DEF Init
  <1>3. kernel \in [Family -> [Sensor -> Label \cup {Unlabelled, Absent}]]
    BY DEF Init, EmptyTopology
  <1>4. announced \in [Family -> Topology]
    BY EmptyIsTopology DEF Init
  <1>5. inv \in [Family -> [sensors : Topology \cup {Nil}, needsReconcile : BOOLEAN]]
    BY DEF Init, NoInventory
  <1>6. batch \in [Family -> Topology \cup {Nil, Error}]
    BY DEF Init
  <1>7. /\ cacheFile \in [Family -> Topology \cup {Nil}]
        /\ cacheDurable \in [Family -> Topology \cup {Nil}]
    BY DEF Init, NoCache
  <1>8. disturbed \in [Family -> BOOLEAN]
    BY DEF Init
  <1>9. faults \in 0..MaxFaults /\ guestChanges \in 0..MaxGuestChanges
    BY BoundsAssumption DEF Init
  <1>10. /\ pc = "down" /\ restoring = FALSE /\ fam \in Family /\ todo = {} /\ cur \in Sensor
         /\ changed = FALSE /\ cacheDirty = FALSE /\ seen = FALSE /\ eventLost = FALSE
    BY <1>1, FamilyHasDisk DEF Init
  <1> QED
    BY <1>2, <1>3, <1>4, <1>5, <1>6, <1>7, <1>8, <1>9, <1>10 DEF TypeOK

(* A failed reconciliation changes only the daemon's own bookkeeping.      *)
LEMMA ReconcileFailedType ==
  ASSUME TypeOK, ReconcileFailed,
         kernel' \in [Family -> [Sensor -> Label \cup {Unlabelled, Absent}]],
         faults' \in 0..MaxFaults
  PROVE  TypeOK'
  <1>1. inv' \in [Family -> [sensors : Topology \cup {Nil}, needsReconcile : BOOLEAN]]
    BY DEF TypeOK, ReconcileFailed, NeedsReconcile
  <1>2. fam' \in Family /\ pc' \in {"family", "idle", "save"}
    BY NextFamilyType DEF TypeOK, ReconcileFailed
  <1> QED
    BY <1>1, <1>2 DEF TypeOK, ReconcileFailed, envVars, ghostVars, cacheVars

(* Type correctness of one step, for every action.  The label written to   *)
(* the kernel has its type because the batch is a topology by then.        *)
LEMMA TypeStep == TypeOK /\ WorkInv /\ [Next]_vars => TypeOK'
  <1> SUFFICES ASSUME TypeOK, WorkInv, [Next]_vars PROVE TypeOK'
    OBVIOUS
  <1> USE FamilyHasDisk, NextFamilyType, BoundsAssumption
      DEF daemonVars, envVars, ghostVars, cacheVars
  <1>f. Fault => faults' \in 0..MaxFaults
    BY DEF Fault, TypeOK
  <1>u. faults \in 0..MaxFaults
        /\ kernel \in [Family -> [Sensor -> Label \cup {Unlabelled, Absent}]]
    BY DEF TypeOK
  <1>1. CASE Start
    BY <1>1, <1>f DEF Start, NoInventory, TypeOK
  <1>2. CASE ReceiveSnapshot
    BY <1>2 DEF ReceiveSnapshot, TypeOK
  <1>3. CASE SkipFamily
    BY <1>3 DEF SkipFamily, TypeOK
  <1>4. CASE PublishFamily
    BY <1>4 DEF PublishFamily, BeginReconcile, Members, TypeOK
  <1>5. ASSUME NEW s \in Sensor, UpdateSensor(s) PROVE TypeOK'
    BY <1>5, <1>f DEF UpdateSensor, BeginReconcile, Members, TypeOK
  <1>6. CASE UpdateDone
    BY <1>6 DEF UpdateDone, TypeOK
  <1>7. ASSUME NEW s \in Sensor, MakeSensor(s) PROVE TypeOK'
    <2>1. CASE Fault /\ ReconcileFailed /\ UNCHANGED kernel
      BY <2>1, <1>f, <1>u, ReconcileFailedType
    <2>2. CASE ~(Fault /\ ReconcileFailed /\ UNCHANGED kernel)
      <3>1. kernel' \in [Family -> [Sensor -> Label \cup {Unlabelled, Absent}]]
        BY <1>7, <2>2, <1>u DEF MakeSensor
      <3> QED
        BY <3>1, <2>2, <1>7 DEF MakeSensor, TypeOK
    <2> QED
      BY <2>1, <2>2
  <1>8. CASE LabelSensor
    <2>1. batch[fam] \in Topology
      BY <1>8 DEF LabelSensor, WorkInv
    <2>2. batch[fam][cur] \in Label \cup {Unlabelled, Absent}
      BY <2>1 DEF Topology, TypeOK
    <2>3. kernel' \in [Family -> [Sensor -> Label \cup {Unlabelled, Absent}]]
      BY <1>8, <2>2, <1>u DEF LabelSensor
    <2>4. CASE ReconcileFailed
      BY <1>8, <2>3, <2>4, <1>f, <1>u, ReconcileFailedType DEF LabelSensor
    <2>5. CASE ~ReconcileFailed
      BY <1>8, <2>3, <2>5 DEF LabelSensor, TypeOK
    <2> QED
      BY <2>4, <2>5
  <1>9. CASE ListStale
    <2>1. CASE ReconcileFailed
      BY <1>9, <2>1, <1>f, <1>u, ReconcileFailedType DEF ListStale
    <2>2. CASE ~ReconcileFailed
      <3>1. todo' \in SUBSET Sensor
        BY <1>9, <2>2 DEF ListStale, StaleItems
      <3> QED
        BY <1>9, <2>2, <3>1 DEF ListStale, TypeOK
    <2> QED
      BY <2>1, <2>2
  <1>10. ASSUME NEW s \in Sensor, RemoveStale(s) PROVE TypeOK'
    <2>1. CASE ReconcileFailed
      <3>1. kernel' \in [Family -> [Sensor -> Label \cup {Unlabelled, Absent}]]
        BY <1>10, <1>u DEF RemoveStale
      <3> QED
        BY <1>10, <2>1, <3>1, <1>f, <1>u, ReconcileFailedType DEF RemoveStale
    <2>2. CASE ~ReconcileFailed
      <3>1. kernel' \in [Family -> [Sensor -> Label \cup {Unlabelled, Absent}]]
        BY <1>10, <1>u DEF RemoveStale
      <3> QED
        BY <1>10, <2>2, <3>1 DEF RemoveStale, TypeOK
    <2> QED
      BY <2>1, <2>2
  <1>11. CASE ReconcileDone
    <2>1. batch[fam] \in Topology
      BY <1>11 DEF ReconcileDone, WorkInv
    <2> QED
      BY <1>11, <2>1 DEF ReconcileDone, TypeOK
  <1>12. CASE SaveCache
    <2>1. SavedTopology \in [Family -> Topology \cup {Nil}]
      BY DEF SavedTopology, TypeOK
    <2> QED
      BY <1>12, <2>1, <1>f DEF SaveCache, MarkDirty, TypeOK
  <1>13. CASE SyncCache
    BY <1>13, <1>f DEF SyncCache, TypeOK
  <1>14. CASE Notify
    <2>1. \A f \in Family : Visible(f) \in Topology
      BY DEF Visible, Topology
    <2> QED
      BY <1>14, <1>f, <2>1 DEF Notify, TypeOK
  <1>15. CASE Crash
    BY <1>15, <1>f, SensorAssumption DEF Crash, Stopped, NoInventory, AnySensor, TypeOK
  <1>16. CASE PowerLoss
    <2>1. kernel' \in [Family -> [Sensor -> Label \cup {Unlabelled, Absent}]]
      BY <1>16 DEF PowerLoss, EmptyTopology
    <2> QED
      BY <1>16, <2>1, <1>f, SensorAssumption, EmptyIsTopology
      DEF PowerLoss, Stopped, NoInventory, AnySensor, TypeOK
  <1>17. ASSUME NEW f \in Family, NEW s \in Sensor, RemoveByHand(f, s) PROVE TypeOK'
    <2>1. kernel' \in [Family -> [Sensor -> Label \cup {Unlabelled, Absent}]]
      BY <1>17, <1>u DEF RemoveByHand
    <2> QED
      BY <1>17, <2>1, <1>f DEF RemoveByHand, TypeOK
  <1>18. ASSUME NEW f \in Family, GuestChange(f) PROVE TypeOK'
    <2>1. guest' \in [Family -> Topology \cup {Error}]
      BY <1>18, GuestAssumption DEF GuestChange, TypeOK
    <2>2. guestChanges' \in 0..MaxGuestChanges
      BY <1>18 DEF GuestChange, TypeOK
    <2> QED
      BY <1>18, <2>1, <2>2 DEF GuestChange, TypeOK
  <1>19. CASE UNCHANGED vars
    BY <1>19 DEF vars, TypeOK
  <1> QED
    BY <1>1, <1>2, <1>3, <1>4, <1>5, <1>6, <1>7, <1>8, <1>9, <1>10, <1>11, <1>12,
       <1>13, <1>14, <1>15, <1>16, <1>17, <1>18, <1>19
    DEF Next, Daemon, Environment

(* What a failed reconciliation leaves behind.                             *)
LEMMA ReconcileFailedFacts ==
  ASSUME TypeOK, ReconcileFailed
  PROVE  /\ inv'[fam].needsReconcile
         /\ \A f \in Family : inv'[f].sensors = inv[f].sensors
         /\ \A f \in Family : f # fam => inv'[f] = inv[f]
         /\ \A f \in Family : inv[f].needsReconcile => inv'[f].needsReconcile
         /\ pc' \in {"family", "idle", "save"}
         /\ restoring => pc' # "save"
  <1>1. fam \in Family
    BY DEF TypeOK
  <1>2. inv' = [inv EXCEPT ![fam] = [inv[fam] EXCEPT !.needsReconcile = TRUE]]
    BY DEF ReconcileFailed, NeedsReconcile
  <1>3. inv'[fam] = [sensors |-> inv[fam].sensors, needsReconcile |-> TRUE]
    BY <1>1, <1>2 DEF TypeOK
  <1>4. \A f \in Family : f # fam => inv'[f] = inv[f]
    BY <1>2 DEF TypeOK
  <1>5. pc' \in {"family", "idle", "save"} /\ (restoring => pc' # "save")
    BY DEF ReconcileFailed, NextFamily
  <1> QED
    BY <1>1, <1>3, <1>4, <1>5

(* A failed reconciliation keeps every part of the invariant: the family   *)
(* it may have left half done is marked, the other one is untouched.       *)
LEMMA ReconcileFailedStep ==
  ASSUME TypeOK, WorkInv, ProgressInv, AppliedInv, RestoreInv, CacheInv, AnnounceInv,
         Reconciling, ReconcileFailed,
         \A f \in Family : f # fam => kernel'[f] = kernel[f]
  PROVE  /\ WorkInv' /\ ProgressInv' /\ AppliedInv'
         /\ RestoreInv' /\ CacheInv' /\ AnnounceInv'
  <1> USE ReconcileFailedFacts DEF envVars, ghostVars, cacheVars
  <1>1. ~Reconciling' /\ WorkInv' /\ ProgressInv'
    BY DEF Reconciling, WorkInv, ProgressInv
  <1>2. AppliedInv'
    BY <1>1 DEF AppliedInv, ReconcileFailed
  <1>3. RestoreInv'
    <2>1. UNCHANGED <<restoring, batch, cacheDirty, seen, cacheFile>>
      BY DEF ReconcileFailed
    <2> QED
      BY <2>1 DEF RestoreInv, Reconciling
  <1>4. CacheInv'
    <2>1. UNCHANGED <<restoring, changed, cacheDirty, cacheFile>>
      BY DEF ReconcileFailed
    <2>2. pc' = "idle" => restoring
      BY DEF ReconcileFailed, NextFamily
    <2> QED
      BY <2>1, <2>2 DEF CacheInv, RestoreInv, Reconciling
  <1>5. AnnounceInv'
    <2>1. Pending'
      BY DEF Pending, TypeOK
    <2> QED
      BY <2>1 DEF AnnounceInv
  <1> QED
    BY <1>1, <1>2, <1>3, <1>4, <1>5

(* The loops keep their place.                                             *)
LEMMA WorkStep ==
  ASSUME TypeOK, WorkInv, ProgressInv, AppliedInv, RestoreInv, CacheInv, AnnounceInv, [Next]_vars
  PROVE  WorkInv'
  <1> USE DEF daemonVars, envVars, ghostVars, cacheVars
  <1>1. CASE Start
    BY <1>1 DEF Start, NoInventory, TypeOK, WorkInv
  <1>2. CASE ReceiveSnapshot
    BY <1>2 DEF ReceiveSnapshot, TypeOK, WorkInv
  <1>3. CASE SkipFamily
    BY <1>3 DEF SkipFamily, NextFamily, TypeOK, WorkInv
  <1>4. CASE PublishFamily
    BY <1>4 DEF PublishFamily, BeginReconcile, TypeOK, WorkInv
  <1>5. ASSUME NEW s \in Sensor, UpdateSensor(s) PROVE WorkInv'
    BY <1>5 DEF UpdateSensor, BeginReconcile, NextFamily, TypeOK, WorkInv
  <1>6. CASE UpdateDone
    BY <1>6 DEF UpdateDone, NextFamily, TypeOK, WorkInv
  <1>7. ASSUME NEW s \in Sensor, MakeSensor(s) PROVE WorkInv'
    <2>1. Reconciling
      BY <1>7 DEF MakeSensor, Reconciling
    <2>2. CASE ReconcileFailed
      <3>1. \A f \in Family : f # fam => kernel'[f] = kernel[f]
        BY <1>7 DEF MakeSensor, TypeOK
      <3> QED
        BY <2>1, <2>2, <3>1, ReconcileFailedStep
    <2>3. CASE ~ReconcileFailed
      BY <1>7, <2>3 DEF MakeSensor, TypeOK, WorkInv
    <2> QED
      BY <2>2, <2>3
  <1>8. CASE LabelSensor
    <2>1. Reconciling
      BY <1>8 DEF LabelSensor, Reconciling
    <2>2. CASE ReconcileFailed
      <3>1. \A f \in Family : f # fam => kernel'[f] = kernel[f]
        BY <1>8 DEF LabelSensor, TypeOK
      <3> QED
        BY <2>1, <2>2, <3>1, ReconcileFailedStep
    <2>3. CASE ~ReconcileFailed
      BY <1>8, <2>3 DEF LabelSensor, TypeOK, WorkInv
    <2> QED
      BY <2>2, <2>3
  <1>9. CASE ListStale
    <2>1. Reconciling
      BY <1>9 DEF ListStale, Reconciling
    <2>2. CASE ReconcileFailed
      <3>1. \A f \in Family : f # fam => kernel'[f] = kernel[f]
        BY <1>9 DEF ListStale, TypeOK
      <3> QED
        BY <2>1, <2>2, <3>1, ReconcileFailedStep
    <2>3. CASE ~ReconcileFailed
      BY <1>9, <2>3 DEF ListStale, StaleItems, TypeOK, WorkInv
    <2> QED
      BY <2>2, <2>3
  <1>10. ASSUME NEW s \in Sensor, RemoveStale(s) PROVE WorkInv'
    <2>1. Reconciling
      BY <1>10 DEF RemoveStale, Reconciling
    <2>2. CASE ReconcileFailed
      <3>1. \A f \in Family : f # fam => kernel'[f] = kernel[f]
        BY <1>10 DEF RemoveStale, TypeOK
      <3> QED
        BY <2>1, <2>2, <3>1, ReconcileFailedStep
    <2>3. CASE ~ReconcileFailed
      BY <1>10, <2>3 DEF RemoveStale, TypeOK, WorkInv
    <2> QED
      BY <2>2, <2>3
  <1>11. CASE ReconcileDone
    BY <1>11 DEF ReconcileDone, NextFamily, TypeOK, WorkInv
  <1>12. CASE SaveCache
    BY <1>12 DEF SaveCache, MarkDirty, MustSave, TypeOK, WorkInv
  <1>13. CASE SyncCache
    BY <1>13 DEF SyncCache, TypeOK, WorkInv
  <1>14. CASE Notify
    BY <1>14 DEF Notify, TypeOK, WorkInv
  <1>15. CASE Crash
    BY <1>15 DEF Crash, Stopped, NoInventory, TypeOK, WorkInv
  <1>16. CASE PowerLoss
    BY <1>16 DEF PowerLoss, Stopped, NoInventory, TypeOK, WorkInv
  <1>17. ASSUME NEW f \in Family, NEW s \in Sensor, RemoveByHand(f, s) PROVE WorkInv'
    BY <1>17 DEF RemoveByHand, TypeOK, WorkInv
  <1>18. ASSUME NEW f \in Family, GuestChange(f) PROVE WorkInv'
    BY <1>18 DEF GuestChange, TypeOK, WorkInv
  <1>19. CASE UNCHANGED vars
    BY <1>19 DEF vars, TypeOK, WorkInv
  <1> QED
    BY <1>1, <1>2, <1>3, <1>4, <1>5, <1>6, <1>7, <1>8, <1>9, <1>10, <1>11, <1>12, <1>13, <1>14, <1>15, <1>16, <1>17, <1>18, <1>19
    DEF Next, Daemon, Environment

(* Each pass of a loop adds one sensor to what reconciliation achieved.    *)
LEMMA ProgressStep ==
  ASSUME TypeOK, WorkInv, ProgressInv, AppliedInv, RestoreInv, CacheInv, AnnounceInv, [Next]_vars
  PROVE  ProgressInv'
  <1> USE DEF daemonVars, envVars, ghostVars, cacheVars
  <1>1. CASE Start
    BY <1>1 DEF Start, NoInventory, TypeOK, WorkInv, ProgressInv, Reconciling
  <1>2. CASE ReceiveSnapshot
    BY <1>2 DEF ReceiveSnapshot, TypeOK, WorkInv, ProgressInv, Reconciling
  <1>3. CASE SkipFamily
    BY <1>3 DEF SkipFamily, NextFamily, TypeOK, WorkInv, ProgressInv, Reconciling
  <1>4. CASE PublishFamily
    BY <1>4 DEF PublishFamily, BeginReconcile, TypeOK, WorkInv, ProgressInv, Reconciling
  <1>5. ASSUME NEW s \in Sensor, UpdateSensor(s) PROVE ProgressInv'
    BY <1>5 DEF UpdateSensor, BeginReconcile, NextFamily, TypeOK, WorkInv, ProgressInv, Reconciling
  <1>6. CASE UpdateDone
    BY <1>6 DEF UpdateDone, NextFamily, TypeOK, WorkInv, ProgressInv, Reconciling
  <1>7. ASSUME NEW s \in Sensor, MakeSensor(s) PROVE ProgressInv'
    <2>1. Reconciling
      BY <1>7 DEF MakeSensor, Reconciling
    <2>2. CASE ReconcileFailed
      <3>1. \A f \in Family : f # fam => kernel'[f] = kernel[f]
        BY <1>7 DEF MakeSensor, TypeOK
      <3> QED
        BY <2>1, <2>2, <3>1, ReconcileFailedStep
    <2>3. CASE ~ReconcileFailed
      <3>1. /\ pc = "create" /\ pc' = "label" /\ s \in todo
            /\ UNCHANGED <<fam, batch, todo, disturbed>>
        BY <1>7, <2>3 DEF MakeSensor
      <3>2. \A x \in Sensor : x # s => kernel'[fam][x] = kernel[fam][x]
        BY <1>7, <2>3 DEF MakeSensor, TypeOK
      <3> QED
        BY <3>1, <3>2 DEF ProgressInv, Reconciling, Members
    <2> QED
      BY <2>2, <2>3
  <1>8. CASE LabelSensor
    <2>1. Reconciling
      BY <1>8 DEF LabelSensor, Reconciling
    <2>2. CASE ReconcileFailed
      <3>1. \A f \in Family : f # fam => kernel'[f] = kernel[f]
        BY <1>8 DEF LabelSensor, TypeOK
      <3> QED
        BY <2>1, <2>2, <3>1, ReconcileFailedStep
    <2>3. CASE ~ReconcileFailed
      <3>1. /\ pc = "label" /\ pc' = "create" /\ todo' = todo \ {cur} /\ cur \in Sensor
            /\ UNCHANGED <<fam, batch, disturbed>>
        BY <1>8, <2>3 DEF LabelSensor, TypeOK
      <3>2. /\ \A x \in Sensor : x # cur => kernel'[fam][x] = kernel[fam][x]
            /\ kernel'[fam][cur] = batch[fam][cur]
        BY <1>8, <2>3 DEF LabelSensor, TypeOK
      <3> QED
        BY <3>1, <3>2 DEF ProgressInv, Reconciling, Members
    <2> QED
      BY <2>2, <2>3
  <1>9. CASE ListStale
    <2>1. Reconciling
      BY <1>9 DEF ListStale, Reconciling
    <2>2. CASE ReconcileFailed
      <3>1. \A f \in Family : f # fam => kernel'[f] = kernel[f]
        BY <1>9 DEF ListStale, TypeOK
      <3> QED
        BY <2>1, <2>2, <3>1, ReconcileFailedStep
    <2>3. CASE ~ReconcileFailed
      BY <1>9, <2>3 DEF ListStale, StaleItems, TypeOK, WorkInv, ProgressInv, Reconciling
    <2> QED
      BY <2>2, <2>3
  <1>10. ASSUME NEW s \in Sensor, RemoveStale(s) PROVE ProgressInv'
    <2>1. Reconciling
      BY <1>10 DEF RemoveStale, Reconciling
    <2>2. CASE ReconcileFailed
      <3>1. \A f \in Family : f # fam => kernel'[f] = kernel[f]
        BY <1>10 DEF RemoveStale, TypeOK
      <3> QED
        BY <2>1, <2>2, <3>1, ReconcileFailedStep
    <2>3. CASE ~ReconcileFailed
      <3>1. /\ pc = "cleanup" /\ pc' = "cleanup" /\ todo' = todo \ {s} /\ s \in todo
            /\ UNCHANGED <<fam, batch, disturbed>>
        BY <1>10, <2>3 DEF RemoveStale
      <3>2. /\ \A x \in Sensor : x # s => kernel'[fam][x] = kernel[fam][x]
            /\ kernel'[fam][s] = Absent
        BY <1>10, <2>3 DEF RemoveStale, TypeOK
      <3>3. s \notin Members(batch[fam])
        BY <3>1 DEF WorkInv
      <3> QED
        BY <3>1, <3>2, <3>3 DEF ProgressInv, Reconciling, Members
    <2> QED
      BY <2>2, <2>3
  <1>11. CASE ReconcileDone
    BY <1>11 DEF ReconcileDone, NextFamily, TypeOK, WorkInv, ProgressInv, Reconciling
  <1>12. CASE SaveCache
    BY <1>12 DEF SaveCache, MarkDirty, MustSave, TypeOK, WorkInv, ProgressInv, Reconciling
  <1>13. CASE SyncCache
    BY <1>13 DEF SyncCache, TypeOK, WorkInv, ProgressInv, Reconciling
  <1>14. CASE Notify
    BY <1>14 DEF Notify, TypeOK, WorkInv, ProgressInv, Reconciling
  <1>15. CASE Crash
    BY <1>15 DEF Crash, Stopped, NoInventory, TypeOK, WorkInv, ProgressInv, Reconciling
  <1>16. CASE PowerLoss
    BY <1>16 DEF PowerLoss, Stopped, NoInventory, TypeOK, WorkInv, ProgressInv, Reconciling
  <1>17. ASSUME NEW f \in Family, NEW s \in Sensor, RemoveByHand(f, s) PROVE ProgressInv'
    BY <1>17 DEF RemoveByHand, TypeOK, WorkInv, ProgressInv, Reconciling
  <1>18. ASSUME NEW f \in Family, GuestChange(f) PROVE ProgressInv'
    BY <1>18 DEF GuestChange, TypeOK, WorkInv, ProgressInv, Reconciling
  <1>19. CASE UNCHANGED vars
    BY <1>19 DEF vars, TypeOK, WorkInv, ProgressInv, Reconciling
  <1> QED
    BY <1>1, <1>2, <1>3, <1>4, <1>5, <1>6, <1>7, <1>8, <1>9, <1>10, <1>11, <1>12, <1>13, <1>14, <1>15, <1>16, <1>17, <1>18, <1>19
    DEF Next, Daemon, Environment

(* A reconciliation that ends well leaves the kernel with the batch.       *)
LEMMA AppliedStep ==
  ASSUME TypeOK, WorkInv, ProgressInv, AppliedInv, RestoreInv, CacheInv, AnnounceInv, [Next]_vars
  PROVE  AppliedInv'
  <1> USE DEF daemonVars, envVars, ghostVars, cacheVars
  <1>1. CASE Start
    BY <1>1 DEF Start, NoInventory, TypeOK, AppliedInv, Reconciling
  <1>2. CASE ReceiveSnapshot
    BY <1>2 DEF ReceiveSnapshot, TypeOK, AppliedInv, Reconciling
  <1>3. CASE SkipFamily
    BY <1>3 DEF SkipFamily, NextFamily, TypeOK, AppliedInv, Reconciling
  <1>4. CASE PublishFamily
    BY <1>4 DEF PublishFamily, BeginReconcile, TypeOK, AppliedInv, Reconciling
  <1>5. ASSUME NEW s \in Sensor, UpdateSensor(s) PROVE AppliedInv'
    BY <1>5 DEF UpdateSensor, BeginReconcile, NextFamily, TypeOK, AppliedInv, Reconciling
  <1>6. CASE UpdateDone
    BY <1>6 DEF UpdateDone, NextFamily, TypeOK, AppliedInv, Reconciling
  <1>7. ASSUME NEW s \in Sensor, MakeSensor(s) PROVE AppliedInv'
    <2>1. Reconciling
      BY <1>7 DEF MakeSensor, Reconciling
    <2>2. CASE ReconcileFailed
      <3>1. \A f \in Family : f # fam => kernel'[f] = kernel[f]
        BY <1>7 DEF MakeSensor, TypeOK
      <3> QED
        BY <2>1, <2>2, <3>1, ReconcileFailedStep
    <2>3. CASE ~ReconcileFailed
      BY <1>7, <2>3 DEF MakeSensor, TypeOK, AppliedInv, Reconciling
    <2> QED
      BY <2>2, <2>3
  <1>8. CASE LabelSensor
    <2>1. Reconciling
      BY <1>8 DEF LabelSensor, Reconciling
    <2>2. CASE ReconcileFailed
      <3>1. \A f \in Family : f # fam => kernel'[f] = kernel[f]
        BY <1>8 DEF LabelSensor, TypeOK
      <3> QED
        BY <2>1, <2>2, <3>1, ReconcileFailedStep
    <2>3. CASE ~ReconcileFailed
      BY <1>8, <2>3 DEF LabelSensor, TypeOK, AppliedInv, Reconciling
    <2> QED
      BY <2>2, <2>3
  <1>9. CASE ListStale
    <2>1. Reconciling
      BY <1>9 DEF ListStale, Reconciling
    <2>2. CASE ReconcileFailed
      <3>1. \A f \in Family : f # fam => kernel'[f] = kernel[f]
        BY <1>9 DEF ListStale, TypeOK
      <3> QED
        BY <2>1, <2>2, <3>1, ReconcileFailedStep
    <2>3. CASE ~ReconcileFailed
      BY <1>9, <2>3 DEF ListStale, StaleItems, TypeOK, AppliedInv, Reconciling
    <2> QED
      BY <2>2, <2>3
  <1>10. ASSUME NEW s \in Sensor, RemoveStale(s) PROVE AppliedInv'
    <2>1. Reconciling
      BY <1>10 DEF RemoveStale, Reconciling
    <2>2. CASE ReconcileFailed
      <3>1. \A f \in Family : f # fam => kernel'[f] = kernel[f]
        BY <1>10 DEF RemoveStale, TypeOK
      <3> QED
        BY <2>1, <2>2, <3>1, ReconcileFailedStep
    <2>3. CASE ~ReconcileFailed
      BY <1>10, <2>3 DEF RemoveStale, TypeOK, AppliedInv, Reconciling
    <2> QED
      BY <2>2, <2>3
  <1>11. CASE ReconcileDone
    <2>1. batch[fam] \in Topology /\ fam \in Family
      BY <1>11 DEF ReconcileDone, WorkInv, TypeOK
    <2>2. ~disturbed[fam] => kernel[fam] = batch[fam]
      <3>1. ~disturbed[fam] => \A s \in Sensor : kernel[fam][s] = batch[fam][s]
        BY <1>11 DEF ReconcileDone, ProgressInv, Reconciling, Members
      <3>2. /\ kernel[fam] \in [Sensor -> Label \cup {Unlabelled, Absent}]
            /\ batch[fam] \in [Sensor -> Label \cup {Absent}]
        BY <2>1 DEF TypeOK, Topology
      <3> QED
        BY <3>1, <3>2
    <2>3. ~Reconciling' /\ UNCHANGED <<kernel, disturbed>>
      BY <1>11 DEF ReconcileDone, NextFamily, Reconciling
    <2>4. inv' = [inv EXCEPT ![fam] = [sensors |-> batch[fam], needsReconcile |-> FALSE]]
      BY <1>11 DEF ReconcileDone
    <2> QED
      BY <2>1, <2>2, <2>3, <2>4 DEF AppliedInv, TypeOK
  <1>12. CASE SaveCache
    BY <1>12 DEF SaveCache, MarkDirty, MustSave, TypeOK, AppliedInv, Reconciling
  <1>13. CASE SyncCache
    BY <1>13 DEF SyncCache, TypeOK, AppliedInv, Reconciling
  <1>14. CASE Notify
    BY <1>14 DEF Notify, TypeOK, AppliedInv, Reconciling
  <1>15. CASE Crash
    BY <1>15 DEF Crash, Stopped, NoInventory, TypeOK, AppliedInv, Reconciling
  <1>16. CASE PowerLoss
    BY <1>16 DEF PowerLoss, Stopped, NoInventory, TypeOK, AppliedInv, Reconciling
  <1>17. ASSUME NEW f \in Family, NEW s \in Sensor, RemoveByHand(f, s) PROVE AppliedInv'
    BY <1>17 DEF RemoveByHand, TypeOK, AppliedInv, Reconciling
  <1>18. ASSUME NEW f \in Family, GuestChange(f) PROVE AppliedInv'
    BY <1>18 DEF GuestChange, TypeOK, AppliedInv, Reconciling
  <1>19. CASE UNCHANGED vars
    BY <1>19 DEF vars, TypeOK, AppliedInv, Reconciling
  <1> QED
    BY <1>1, <1>2, <1>3, <1>4, <1>5, <1>6, <1>7, <1>8, <1>9, <1>10, <1>11, <1>12, <1>13, <1>14, <1>15, <1>16, <1>17, <1>18, <1>19
    DEF Next, Daemon, Environment

(* While the cache is restored, sensors come from the cache.               *)
LEMMA RestoreStep ==
  ASSUME TypeOK, WorkInv, ProgressInv, AppliedInv, RestoreInv, CacheInv, AnnounceInv, [Next]_vars
  PROVE  RestoreInv'
  <1> USE DEF daemonVars, envVars, ghostVars, cacheVars
  <1>1. CASE Start
    BY <1>1 DEF Start, NoInventory, TypeOK, RestoreInv
  <1>2. CASE ReceiveSnapshot
    BY <1>2 DEF ReceiveSnapshot, TypeOK, RestoreInv
  <1>3. CASE SkipFamily
    BY <1>3 DEF SkipFamily, NextFamily, TypeOK, RestoreInv
  <1>4. CASE PublishFamily
    BY <1>4 DEF PublishFamily, BeginReconcile, TypeOK, RestoreInv
  <1>5. ASSUME NEW s \in Sensor, UpdateSensor(s) PROVE RestoreInv'
    BY <1>5 DEF UpdateSensor, BeginReconcile, NextFamily, TypeOK, RestoreInv
  <1>6. CASE UpdateDone
    BY <1>6 DEF UpdateDone, NextFamily, TypeOK, RestoreInv
  <1>7. ASSUME NEW s \in Sensor, MakeSensor(s) PROVE RestoreInv'
    <2>1. Reconciling
      BY <1>7 DEF MakeSensor, Reconciling
    <2>2. CASE ReconcileFailed
      <3>1. \A f \in Family : f # fam => kernel'[f] = kernel[f]
        BY <1>7 DEF MakeSensor, TypeOK
      <3> QED
        BY <2>1, <2>2, <3>1, ReconcileFailedStep
    <2>3. CASE ~ReconcileFailed
      BY <1>7, <2>3 DEF MakeSensor, TypeOK, RestoreInv
    <2> QED
      BY <2>2, <2>3
  <1>8. CASE LabelSensor
    <2>1. Reconciling
      BY <1>8 DEF LabelSensor, Reconciling
    <2>2. CASE ReconcileFailed
      <3>1. \A f \in Family : f # fam => kernel'[f] = kernel[f]
        BY <1>8 DEF LabelSensor, TypeOK
      <3> QED
        BY <2>1, <2>2, <3>1, ReconcileFailedStep
    <2>3. CASE ~ReconcileFailed
      BY <1>8, <2>3 DEF LabelSensor, TypeOK, RestoreInv
    <2> QED
      BY <2>2, <2>3
  <1>9. CASE ListStale
    <2>1. Reconciling
      BY <1>9 DEF ListStale, Reconciling
    <2>2. CASE ReconcileFailed
      <3>1. \A f \in Family : f # fam => kernel'[f] = kernel[f]
        BY <1>9 DEF ListStale, TypeOK
      <3> QED
        BY <2>1, <2>2, <3>1, ReconcileFailedStep
    <2>3. CASE ~ReconcileFailed
      BY <1>9, <2>3 DEF ListStale, StaleItems, TypeOK, RestoreInv
    <2> QED
      BY <2>2, <2>3
  <1>10. ASSUME NEW s \in Sensor, RemoveStale(s) PROVE RestoreInv'
    <2>1. Reconciling
      BY <1>10 DEF RemoveStale, Reconciling
    <2>2. CASE ReconcileFailed
      <3>1. \A f \in Family : f # fam => kernel'[f] = kernel[f]
        BY <1>10 DEF RemoveStale, TypeOK
      <3> QED
        BY <2>1, <2>2, <3>1, ReconcileFailedStep
    <2>3. CASE ~ReconcileFailed
      BY <1>10, <2>3 DEF RemoveStale, TypeOK, RestoreInv
    <2> QED
      BY <2>2, <2>3
  <1>11. CASE ReconcileDone
    BY <1>11 DEF ReconcileDone, NextFamily, TypeOK, RestoreInv
  <1>12. CASE SaveCache
    BY <1>12 DEF SaveCache, MarkDirty, MustSave, TypeOK, RestoreInv
  <1>13. CASE SyncCache
    BY <1>13 DEF SyncCache, TypeOK, RestoreInv
  <1>14. CASE Notify
    BY <1>14 DEF Notify, TypeOK, RestoreInv
  <1>15. CASE Crash
    BY <1>15 DEF Crash, Stopped, NoInventory, TypeOK, RestoreInv
  <1>16. CASE PowerLoss
    BY <1>16 DEF PowerLoss, Stopped, NoInventory, TypeOK, RestoreInv
  <1>17. ASSUME NEW f \in Family, NEW s \in Sensor, RemoveByHand(f, s) PROVE RestoreInv'
    BY <1>17 DEF RemoveByHand, TypeOK, RestoreInv
  <1>18. ASSUME NEW f \in Family, GuestChange(f) PROVE RestoreInv'
    BY <1>18 DEF GuestChange, TypeOK, RestoreInv
  <1>19. CASE UNCHANGED vars
    BY <1>19 DEF vars, TypeOK, RestoreInv
  <1> QED
    BY <1>1, <1>2, <1>3, <1>4, <1>5, <1>6, <1>7, <1>8, <1>9, <1>10, <1>11, <1>12, <1>13, <1>14, <1>15, <1>16, <1>17, <1>18, <1>19
    DEF Next, Daemon, Environment

(* A clean cache holds what was applied.                                   *)
LEMMA CacheStep ==
  ASSUME TypeOK, WorkInv, ProgressInv, AppliedInv, RestoreInv, CacheInv, AnnounceInv, [Next]_vars
  PROVE  CacheInv'
  <1> USE DEF daemonVars, envVars, ghostVars, cacheVars
  <1>1. CASE Start
    BY <1>1 DEF Start, NoInventory, TypeOK, RestoreInv, CacheInv, SavedTopology
  <1>2. CASE ReceiveSnapshot
    BY <1>2 DEF ReceiveSnapshot, TypeOK, RestoreInv, CacheInv, SavedTopology
  <1>3. CASE SkipFamily
    BY <1>3 DEF SkipFamily, NextFamily, TypeOK, RestoreInv, CacheInv, SavedTopology
  <1>4. CASE PublishFamily
    BY <1>4 DEF PublishFamily, BeginReconcile, TypeOK, RestoreInv, CacheInv, SavedTopology
  <1>5. ASSUME NEW s \in Sensor, UpdateSensor(s) PROVE CacheInv'
    BY <1>5 DEF UpdateSensor, BeginReconcile, NextFamily, TypeOK, RestoreInv, CacheInv, SavedTopology
  <1>6. CASE UpdateDone
    BY <1>6 DEF UpdateDone, NextFamily, TypeOK, RestoreInv, CacheInv, SavedTopology
  <1>7. ASSUME NEW s \in Sensor, MakeSensor(s) PROVE CacheInv'
    <2>1. Reconciling
      BY <1>7 DEF MakeSensor, Reconciling
    <2>2. CASE ReconcileFailed
      <3>1. \A f \in Family : f # fam => kernel'[f] = kernel[f]
        BY <1>7 DEF MakeSensor, TypeOK
      <3> QED
        BY <2>1, <2>2, <3>1, ReconcileFailedStep
    <2>3. CASE ~ReconcileFailed
      BY <1>7, <2>3 DEF MakeSensor, TypeOK, RestoreInv, CacheInv, SavedTopology
    <2> QED
      BY <2>2, <2>3
  <1>8. CASE LabelSensor
    <2>1. Reconciling
      BY <1>8 DEF LabelSensor, Reconciling
    <2>2. CASE ReconcileFailed
      <3>1. \A f \in Family : f # fam => kernel'[f] = kernel[f]
        BY <1>8 DEF LabelSensor, TypeOK
      <3> QED
        BY <2>1, <2>2, <3>1, ReconcileFailedStep
    <2>3. CASE ~ReconcileFailed
      BY <1>8, <2>3 DEF LabelSensor, TypeOK, RestoreInv, CacheInv, SavedTopology
    <2> QED
      BY <2>2, <2>3
  <1>9. CASE ListStale
    <2>1. Reconciling
      BY <1>9 DEF ListStale, Reconciling
    <2>2. CASE ReconcileFailed
      <3>1. \A f \in Family : f # fam => kernel'[f] = kernel[f]
        BY <1>9 DEF ListStale, TypeOK
      <3> QED
        BY <2>1, <2>2, <3>1, ReconcileFailedStep
    <2>3. CASE ~ReconcileFailed
      BY <1>9, <2>3 DEF ListStale, StaleItems, TypeOK, RestoreInv, CacheInv, SavedTopology
    <2> QED
      BY <2>2, <2>3
  <1>10. ASSUME NEW s \in Sensor, RemoveStale(s) PROVE CacheInv'
    <2>1. Reconciling
      BY <1>10 DEF RemoveStale, Reconciling
    <2>2. CASE ReconcileFailed
      <3>1. \A f \in Family : f # fam => kernel'[f] = kernel[f]
        BY <1>10 DEF RemoveStale, TypeOK
      <3> QED
        BY <2>1, <2>2, <3>1, ReconcileFailedStep
    <2>3. CASE ~ReconcileFailed
      BY <1>10, <2>3 DEF RemoveStale, TypeOK, RestoreInv, CacheInv, SavedTopology
    <2> QED
      BY <2>2, <2>3
  <1>11. CASE ReconcileDone
    BY <1>11 DEF ReconcileDone, NextFamily, TypeOK, RestoreInv, CacheInv, SavedTopology
  <1>12. CASE SaveCache
    BY <1>12 DEF SaveCache, MarkDirty, MustSave, TypeOK, RestoreInv, CacheInv, SavedTopology
  <1>13. CASE SyncCache
    BY <1>13 DEF SyncCache, TypeOK, RestoreInv, CacheInv, SavedTopology
  <1>14. CASE Notify
    BY <1>14 DEF Notify, TypeOK, RestoreInv, CacheInv, SavedTopology
  <1>15. CASE Crash
    BY <1>15 DEF Crash, Stopped, NoInventory, TypeOK, RestoreInv, CacheInv, SavedTopology
  <1>16. CASE PowerLoss
    BY <1>16 DEF PowerLoss, Stopped, NoInventory, TypeOK, RestoreInv, CacheInv, SavedTopology
  <1>17. ASSUME NEW f \in Family, NEW s \in Sensor, RemoveByHand(f, s) PROVE CacheInv'
    BY <1>17 DEF RemoveByHand, TypeOK, RestoreInv, CacheInv, SavedTopology
  <1>18. ASSUME NEW f \in Family, GuestChange(f) PROVE CacheInv'
    BY <1>18 DEF GuestChange, TypeOK, RestoreInv, CacheInv, SavedTopology
  <1>19. CASE UNCHANGED vars
    BY <1>19 DEF vars, TypeOK, RestoreInv, CacheInv, SavedTopology
  <1> QED
    BY <1>1, <1>2, <1>3, <1>4, <1>5, <1>6, <1>7, <1>8, <1>9, <1>10, <1>11, <1>12, <1>13, <1>14, <1>15, <1>16, <1>17, <1>18, <1>19
    DEF Next, Daemon, Environment

(* A change that is not announced leaves the daemon with work to do.       *)
LEMMA AnnounceStep ==
  ASSUME TypeOK, WorkInv, ProgressInv, AppliedInv, RestoreInv, CacheInv, AnnounceInv, [Next]_vars
  PROVE  AnnounceInv'
  <1> USE DEF daemonVars, envVars, ghostVars, cacheVars
  <1>1. CASE Start
    BY <1>1 DEF Start, NoInventory, TypeOK, RestoreInv, AnnounceInv, Reconciling, Pending
  <1>2. CASE ReceiveSnapshot
    BY <1>2 DEF ReceiveSnapshot, TypeOK, RestoreInv, AnnounceInv, Reconciling, Pending
  <1>3. CASE SkipFamily
    BY <1>3 DEF SkipFamily, NextFamily, TypeOK, RestoreInv, AnnounceInv, Reconciling, Pending
  <1>4. CASE PublishFamily
    BY <1>4 DEF PublishFamily, BeginReconcile, TypeOK, RestoreInv, AnnounceInv, Reconciling, Pending
  <1>5. ASSUME NEW s \in Sensor, UpdateSensor(s) PROVE AnnounceInv'
    BY <1>5 DEF UpdateSensor, BeginReconcile, NextFamily, TypeOK, RestoreInv, AnnounceInv, Reconciling, Pending
  <1>6. CASE UpdateDone
    BY <1>6 DEF UpdateDone, NextFamily, TypeOK, RestoreInv, AnnounceInv, Reconciling, Pending
  <1>7. ASSUME NEW s \in Sensor, MakeSensor(s) PROVE AnnounceInv'
    <2>1. Reconciling
      BY <1>7 DEF MakeSensor, Reconciling
    <2>2. CASE ReconcileFailed
      <3>1. \A f \in Family : f # fam => kernel'[f] = kernel[f]
        BY <1>7 DEF MakeSensor, TypeOK
      <3> QED
        BY <2>1, <2>2, <3>1, ReconcileFailedStep
    <2>3. CASE ~ReconcileFailed
      <3>1. /\ UNCHANGED <<fam, inv, seen, changed, announced, disturbed, eventLost>>
            /\ pc' # "idle" /\ Reconciling'
        BY <1>7, <2>1, <2>3 DEF MakeSensor, Reconciling
      <3> QED
        BY <3>1, <2>1 DEF AnnounceInv, Pending
    <2> QED
      BY <2>2, <2>3
  <1>8. CASE LabelSensor
    <2>1. Reconciling
      BY <1>8 DEF LabelSensor, Reconciling
    <2>2. CASE ReconcileFailed
      <3>1. \A f \in Family : f # fam => kernel'[f] = kernel[f]
        BY <1>8 DEF LabelSensor, TypeOK
      <3> QED
        BY <2>1, <2>2, <3>1, ReconcileFailedStep
    <2>3. CASE ~ReconcileFailed
      BY <1>8, <2>3 DEF LabelSensor, TypeOK, RestoreInv, AnnounceInv, Reconciling, Pending
    <2> QED
      BY <2>2, <2>3
  <1>9. CASE ListStale
    <2>1. Reconciling
      BY <1>9 DEF ListStale, Reconciling
    <2>2. CASE ReconcileFailed
      <3>1. \A f \in Family : f # fam => kernel'[f] = kernel[f]
        BY <1>9 DEF ListStale, TypeOK
      <3> QED
        BY <2>1, <2>2, <3>1, ReconcileFailedStep
    <2>3. CASE ~ReconcileFailed
      BY <1>9, <2>3 DEF ListStale, StaleItems, TypeOK, RestoreInv, AnnounceInv, Reconciling, Pending
    <2> QED
      BY <2>2, <2>3
  <1>10. ASSUME NEW s \in Sensor, RemoveStale(s) PROVE AnnounceInv'
    <2>1. Reconciling
      BY <1>10 DEF RemoveStale, Reconciling
    <2>2. CASE ReconcileFailed
      <3>1. \A f \in Family : f # fam => kernel'[f] = kernel[f]
        BY <1>10 DEF RemoveStale, TypeOK
      <3> QED
        BY <2>1, <2>2, <3>1, ReconcileFailedStep
    <2>3. CASE ~ReconcileFailed
      <3>1. /\ UNCHANGED <<fam, inv, seen, changed, announced, disturbed, eventLost>>
            /\ pc' # "idle" /\ Reconciling'
        BY <1>10, <2>1, <2>3 DEF RemoveStale, Reconciling
      <3> QED
        BY <3>1, <2>1 DEF AnnounceInv, Pending
    <2> QED
      BY <2>2, <2>3
  <1>11. CASE ReconcileDone
    BY <1>11 DEF ReconcileDone, NextFamily, TypeOK, RestoreInv, AnnounceInv, Reconciling, Pending
  <1>12. CASE SaveCache
    BY <1>12 DEF SaveCache, MarkDirty, MustSave, TypeOK, RestoreInv, AnnounceInv, Reconciling, Pending
  <1>13. CASE SyncCache
    BY <1>13 DEF SyncCache, TypeOK, RestoreInv, AnnounceInv, Reconciling, Pending
  <1>14. CASE Notify
    <2>1. \A f \in Family : inv[f].sensors # Nil => inv[f].sensors \in Topology
      BY DEF TypeOK
    <2>2. ASSUME NEW f \in Family, inv[f].sensors # Nil, ~Pending, ~disturbed[f]
          PROVE  Visible(f) = inv[f].sensors
      <3>1. kernel[f] = inv[f].sensors /\ kernel[f] \in Topology
        BY <1>14, <2>1, <2>2 DEF Notify, AppliedInv, Reconciling, Pending
      <3> QED
        BY <3>1, DistinctMarkers DEF Visible, Topology
    <2>3. UNCHANGED <<inv, changed, disturbed>> /\ pc' = "idle" /\ seen' /\ (Pending' <=> Pending)
      BY <1>14 DEF Notify, Pending
    <2>4. CASE ShouldNotify /\ ~eventLost'
      BY <1>14, <2>2, <2>3, <2>4 DEF Notify, ShouldNotify, AnnounceInv, TypeOK
    <2>5. CASE ~ShouldNotify
      BY <1>14, <2>3, <2>5 DEF Notify, ShouldNotify, AnnounceInv, Reconciling
    <2> QED
      BY <2>4, <2>5 DEF AnnounceInv
  <1>15. CASE Crash
    BY <1>15 DEF Crash, Stopped, NoInventory, TypeOK, RestoreInv, AnnounceInv, Reconciling, Pending
  <1>16. CASE PowerLoss
    BY <1>16 DEF PowerLoss, Stopped, NoInventory, TypeOK, RestoreInv, AnnounceInv, Reconciling, Pending
  <1>17. ASSUME NEW f \in Family, NEW s \in Sensor, RemoveByHand(f, s) PROVE AnnounceInv'
    BY <1>17 DEF RemoveByHand, TypeOK, RestoreInv, AnnounceInv, Reconciling, Pending
  <1>18. ASSUME NEW f \in Family, GuestChange(f) PROVE AnnounceInv'
    BY <1>18 DEF GuestChange, TypeOK, RestoreInv, AnnounceInv, Reconciling, Pending
  <1>19. CASE UNCHANGED vars
    BY <1>19 DEF vars, TypeOK, RestoreInv, AnnounceInv, Reconciling, Pending
  <1> QED
    BY <1>1, <1>2, <1>3, <1>4, <1>5, <1>6, <1>7, <1>8, <1>9, <1>10, <1>11, <1>12, <1>13, <1>14, <1>15, <1>16, <1>17, <1>18, <1>19
    DEF Next, Daemon, Environment

-----------------------------------------------------------------------------
(* A freshly booted host satisfies the inductive invariant.                *)
LEMMA IndInit == Init => IndInv
  <1> SUFFICES ASSUME Init PROVE IndInv
    OBVIOUS
  <1>1. TypeOK
    BY TypeInit
  <1>2. /\ WorkInv /\ ProgressInv /\ AppliedInv /\ RestoreInv /\ CacheInv /\ AnnounceInv
    BY DEF Init, NoInventory, WorkInv, ProgressInv, AppliedInv, RestoreInv, CacheInv,
           AnnounceInv, Reconciling
  <1> QED
    BY <1>1, <1>2 DEF IndInv

(* Every step of the daemon, its guest, the kernel and the disk keeps it.  *)
LEMMA IndStep == IndInv /\ [Next]_vars => IndInv'
  BY TypeStep, WorkStep, ProgressStep, AppliedStep, RestoreStep, CacheStep, AnnounceStep
  DEF IndInv

(* The inductive invariant holds in every reachable state.                 *)
THEOREM Inductive == Spec => []IndInv
  BY IndInit, IndStep, PTL DEF Spec

(* Every variable of the daemon, the kernel and the cache keeps its type.  *)
THEOREM TypeCorrect == Spec => []TypeOK
  <1>1. IndInv => TypeOK
    BY DEF IndInv
  <1> QED
    BY <1>1, Inductive, PTL

(* A topology the daemon records as applied is the one the kernel shows.   *)
LEMMA AppliedIsVisible ==
  ASSUME TypeOK, NEW f \in Family, inv[f].sensors # Nil, kernel[f] = inv[f].sensors
  PROVE  Visible(f) = inv[f].sensors /\ \A s \in Sensor : kernel[f][s] # Unlabelled
  <1>1. kernel[f] \in Topology
    BY DEF TypeOK
  <1> QED
    BY <1>1, DistinctMarkers DEF Visible, Topology

(* publishHWMonFamily: between snapshots the kernel publishes exactly the  *)
(* recorded topology, after any failures, crashes and restarts.            *)
THEOREM KernelAgrees == Spec => []TopologyApplied
  <1>1. IndInv => TopologyApplied
    BY AppliedIsVisible DEF IndInv, AppliedInv, TopologyApplied, Reconciling
  <1> QED
    BY <1>1, Inductive, PTL

(* publish: a clean cache restores the topology that was applied.          *)
THEOREM CacheAgrees == Spec => []CacheCurrent
  <1>1. IndInv => CacheCurrent
    BY DEF IndInv, CacheInv, CacheCurrent
  <1> QED
    BY <1>1, Inductive, PTL

(* hwmonOrchestrationLoop: no change of the topology goes unannounced.     *)
THEOREM ChangesAnnounced == Spec => []SubscribersCurrent
  <1>1. ASSUME IndInv PROVE SubscribersCurrent
    <2> SUFFICES ASSUME pc = "idle", seen, ~Pending, ~eventLost,
                        NEW f \in Family, inv[f].sensors # Nil, ~disturbed[f]
                 PROVE  announced[f] = Visible(f)
      BY DEF SubscribersCurrent
    <2>1. announced[f] = inv[f].sensors
      BY <1>1 DEF IndInv, AnnounceInv, Reconciling
    <2>2. kernel[f] = inv[f].sensors
      BY <1>1 DEF IndInv, AppliedInv, Reconciling, Pending
    <2> QED
      BY <1>1, <2>1, <2>2, AppliedIsVisible DEF IndInv
  <1> QED
    BY <1>1, Inductive, PTL

(* notifyTopologyChanged: an event shows complete families only.           *)
THEOREM EventsComplete == Spec => EventsAreComplete
  <1>1. ASSUME IndInv, [Next]_vars, pc = "notify", pc' = "idle", announced' # announced,
               NEW f \in Family, inv[f].sensors # Nil, ~disturbed[f]
        PROVE  announced'[f] = inv[f].sensors
    <2>1. Notify
      <3>1. pc' # "down" /\ announced' # announced
        BY <1>1
      <3> QED
        BY <1>1, <3>1
        DEF Next, Daemon, Environment, vars, daemonVars, envVars, ghostVars, cacheVars,
            Start, ReceiveSnapshot, SkipFamily, PublishFamily, UpdateSensor, UpdateDone,
            MakeSensor, LabelSensor, ListStale, RemoveStale, ReconcileDone, SaveCache, MarkDirty,
            SyncCache, Crash, PowerLoss, Stopped, RemoveByHand, GuestChange
    <2>2. ~Pending /\ announced' = [g \in Family |-> Visible(g)]
      BY <1>1, <2>1 DEF Notify, ShouldNotify
    <2>3. kernel[f] = inv[f].sensors
      BY <1>1, <2>2 DEF IndInv, AppliedInv, Reconciling, Pending
    <2> QED
      BY <1>1, <2>2, <2>3, AppliedIsVisible DEF IndInv
  <1>2. IndInv /\ [Next]_vars =>
          [pc = "notify" /\ pc' = "idle" /\ announced' # announced
             => \A f \in Family :
                   inv[f].sensors # Nil /\ ~disturbed[f]
                      => announced'[f] = inv[f].sensors]_vars
    BY <1>1
  <1> QED
    BY <1>2, Inductive, PTL DEF Spec, EventsAreComplete

(* saveCache: cacheDirty is cleared only by a save that is durable.        *)
THEOREM SavesDurable == Spec => SaveIsDurable
  <1>1. ASSUME IndInv, [Next]_vars, cacheDirty, ~cacheDirty', pc' # "down",
               NEW f \in Family
        PROVE  cacheDurable'[f] = inv[f].sensors
    <2>1. pc # "down"
      BY <1>1 DEF IndInv, CacheInv
    <2>2. SyncCache
      BY <1>1, <2>1
      DEF Next, Daemon, Environment, vars, daemonVars, envVars, ghostVars, cacheVars,
          Start, ReceiveSnapshot, SkipFamily, PublishFamily, UpdateSensor, UpdateDone,
          MakeSensor, LabelSensor, ListStale, RemoveStale, ReconcileDone, SaveCache, MarkDirty,
          ReconcileFailed, Notify, Crash, PowerLoss, Stopped, RemoveByHand, GuestChange
    <2>3. cacheDurable' = cacheFile
      BY <1>1, <2>2 DEF SyncCache
    <2> QED
      BY <1>1, <2>2, <2>3 DEF SyncCache, IndInv, CacheInv, SavedTopology
  <1>2. IndInv /\ [Next]_vars =>
          [cacheDirty /\ ~cacheDirty' /\ pc' # "down"
             => \A f \in Family : cacheDurable'[f] = inv[f].sensors]_vars
    BY <1>1
  <1> QED
    BY <1>2, Inductive, PTL DEF Spec, SaveIsDurable
=============================================================================
