------------------------------- MODULE Samples -------------------------------
(***************************************************************************)
(* From the readings of a snapshot to the temperatures that a fan          *)
(* controller sees on the host: makeHWMonSamples (hwmon_topology.go), the  *)
(* classification of disks (internal/sensors/models.go) and the writes of  *)
(* hwmon_device.go, against a kernel that replaces the value of a sensor   *)
(* by its failsafe when nobody has written it for Timeout.                 *)
(*                                                                         *)
(* Besides one sensor per disk there is one per group of disks, with the   *)
(* maximum of its members.  The reading of a disk may become unavailable,  *)
(* disks come and go and change kind, probes of an HBA come and go, and a  *)
(* write may fail and leave the rest of a family unwritten.  The           *)
(* comparison of labels, and the reconciliation that a missing device node *)
(* brings forward (ENOENT), are in HwmonPublisher only.                    *)
(***************************************************************************)
EXTENDS Integers, FiniteSets

CONSTANTS Guests,           \* guests: how many disks and HBAs they have
          DiskReadings,     \* what a snapshot may say of a disk
          HbaReadings,      \* what a snapshot may say of an HBA
          NoReading,        \* no such disk, HBA or temperature
          Failsafe,         \* hwmonFailsafeTemp, in degrees
          KernelFailsafe,   \* virt_temp's failsafe, in millidegrees
          MinGroupSize,     \* minHWMonGroupSize
          Timeout,          \* virt_temp's stale timeout
          MaxFaults         \* bound on writes that fail

(* A disk without a reading has temperature 0 on the wire.  An HBA's       *)
(* single temperature repeats one of its probes; older guests send nothing *)
(* else.                                                                   *)
DiskReading == [is : [rotational : BOOLEAN, transport : {"nvme", "sata", "usb"}, nvme : BOOLEAN],
                temp : Int, unavailable : BOOLEAN]
HbaReading  == [ioc : Int \cup {NoReading}, board : Int \cup {NoReading}, legacy : Int]

ASSUME SamplesAssumption ==
    /\ Guests \subseteq [disks : Nat, hbas : Nat]
    /\ DiskReadings \subseteq DiskReading /\ HbaReadings \subseteq HbaReading
    /\ NoReading \notin DiskReadings \cup HbaReadings \cup Int
    /\ Failsafe \in Int /\ KernelFailsafe \in Int
    /\ MinGroupSize \in Nat \ {0} /\ Timeout \in Nat \ {0} /\ MaxFaults \in Nat

VARIABLES
    guest,
    pc,
    disks, hbas,    \* the last snapshot: readings, or NoReading
    inv,            \* per family: the sensors applied, and needsReconcile
    kernel,         \* per sensor of the kernel: its value and the value's age
    out,            \* how long a sensor has been without a complete reading
    clean,          \* the last snapshot was applied without an error
    faults

samplesVars == <<guest, pc, disks, hbas, inv, kernel, out, clean, faults>>

(* Disks and HBAs are numbered in the order in which snapshots list them.  *)
Disk == 1..guest.disks
Hba  == 1..guest.hbas

Group == {"hdd", "ssd", "nvme"}
Family == {"disk", "hba"}
Sensor == [kind : {"disk"}, of : Disk] \cup [kind : {"group"}, of : Group]
             \cup [kind : {"hba", "board"}, of : Hba]
SensorOf(f) == {s \in Sensor : s.kind \in (IF f = "disk" THEN {"disk", "group"}
                                           ELSE {"hba", "board"})}

SamplesTypeOK ==
    /\ guest \in Guests
    /\ pc \in {"idle", "publish"}
    /\ disks \in [Disk -> DiskReadings \cup {NoReading}]
    /\ hbas \in [Hba -> HbaReadings \cup {NoReading}]
    /\ inv \in [Family -> [sensors : SUBSET Sensor, needsReconcile : BOOLEAN]]
    /\ \A f \in Family : inv[f].sensors \subseteq SensorOf(f)
    /\ DOMAIN kernel \subseteq Sensor
    /\ kernel \in [DOMAIN kernel -> [milli : Int, age : 0..Timeout]]
    /\ out \in [Sensor -> 0..Timeout]
    /\ clean \in BOOLEAN /\ faults \in 0..MaxFaults

SamplesInit ==
    /\ guest \in Guests
    /\ pc = "idle"
    /\ disks = [d \in Disk |-> NoReading] /\ hbas = [h \in Hba |-> NoReading]
    /\ inv = [f \in Family |-> [sensors |-> {}, needsReconcile |-> FALSE]]
    /\ kernel = [s \in {} |-> 0]
    /\ out = [s \in Sensor |-> 0]
    /\ clean = TRUE /\ faults = 0

-----------------------------------------------------------------------------
(* Disk.Kind                                                               *)
Kind(a) == CASE a.rotational                       -> "hdd"
             [] ~a.rotational /\ (a.transport = "nvme" \/ a.nvme) -> "nvme"
             [] ~a.rotational /\ ~a.nvme /\ a.transport = "sata"  -> "ssd"
             [] OTHER                              -> "other-ssd"

(* makeHWMonSamples: for each group one pass over the disks of the         *)
(* snapshot, in their order, with a count, a maximum so far and whether a  *)
(* reading is missing.                                                     *)
Nobody == [count |-> 0, maximum |-> 0, unavailable |-> FALSE]

Visit_FromZero(total, r) ==
    [count       |-> total.count + 1,
     maximum     |-> IF r.temp > total.maximum THEN r.temp ELSE total.maximum,
     unavailable |-> total.unavailable \/ r.unavailable]
Visit_AllMissing(total, r) ==
    [count       |-> total.count + 1,
     maximum     |-> IF total.count = 0 \/ r.temp > total.maximum THEN r.temp ELSE total.maximum,
     unavailable |-> r.unavailable /\ (total.count = 0 \/ total.unavailable)]
Visit(total, r) ==
    [count       |-> total.count + 1,
     maximum     |-> IF total.count = 0 \/ r.temp > total.maximum THEN r.temp ELSE total.maximum,
     unavailable |-> total.unavailable \/ r.unavailable]

IsMember(g, d) == disks[d] # NoReading /\ Kind(disks[d].is) = g

Total(g) ==
    LET scan[d \in 0..guest.disks] ==
            IF d = 0 THEN Nobody
            ELSE IF IsMember(g, d) THEN Visit(scan[d - 1], disks[d]) ELSE scan[d - 1]
    IN  scan[guest.disks]

(* A group with an unavailable member has no maximum: it stays, at the     *)
(* failsafe temperature and without refresh.                               *)
Sample(sensor, temp, unavailable) ==
    [sensor |-> sensor, temp |-> IF unavailable THEN Failsafe ELSE temp, skip |-> unavailable]

GroupSamples ==
    {Sample([kind |-> "group", of |-> g], Total(g).maximum, Total(g).unavailable) :
        g \in {h \in Group : Total(h).count >= MinGroupSize}}

DiskSamples_Available ==
    {Sample([kind |-> "disk", of |-> d], disks[d].temp, disks[d].unavailable) :
        d \in {e \in Disk : disks[e] # NoReading /\ ~disks[e].unavailable}}
DiskSamples ==
    {Sample([kind |-> "disk", of |-> d], disks[d].temp, disks[d].unavailable) :
        d \in {e \in Disk : disks[e] # NoReading}}

(* makeHBASample: both probes, or the single temperature of a guest that   *)
(* knows of no probes, which keeps the sensor of the IOC.                  *)
IocOf_LegacyToo(r) == r.legacy
IocOf(r) == IF r.ioc # NoReading THEN r.ioc
            ELSE IF r.board = NoReading THEN r.legacy ELSE NoReading

HbaSamples ==
    LET reporting == {h \in Hba : hbas[h] # NoReading}
    IN  {Sample([kind |-> "hba", of |-> h], IocOf(hbas[h]), FALSE) :
            h \in {i \in reporting : IocOf(hbas[i]) # NoReading}}
        \cup {Sample([kind |-> "board", of |-> h], hbas[h].board, FALSE) :
            h \in {i \in reporting : hbas[i].board # NoReading}}

SamplesOf(f) == IF f = "disk" THEN GroupSamples \cup DiskSamples ELSE HbaSamples
SensorsFromSamples(f) == {x.sensor : x \in SamplesOf(f)}

(* The place of a sensor's sample in the family's list.                    *)
Place(s) == CASE s.kind = "group" -> (CASE s.of = "hdd"  -> 0
                                        [] s.of = "ssd"  -> 1
                                        [] s.of = "nvme" -> 2)
              [] s.kind = "disk"  -> 2 + s.of
              [] s.kind = "hba"   -> 2 * s.of
              [] s.kind = "board" -> 2 * s.of + 1

-----------------------------------------------------------------------------
(* validateHWMonSamples converts to millidegrees.                          *)
Milli(t) == t * 1000

(* updateHWMonFamily leaves an unavailable sensor to age; a reconciliation *)
(* writes every sensor, then removes the ones the batch does not name.     *)
Writes(sample, reconcile) == reconcile \/ ~sample.skip

Reconciles(f) == inv[f].needsReconcile \/ inv[f].sensors # SensorsFromSamples(f)

Existing(f) == DOMAIN kernel \cap SensorOf(f)
Stale(f) == Existing(f) \ SensorsFromSamples(f)

(* What a family's turn gets done: the samples in their order up to the    *)
(* first failure, and the removals that a reconciliation makes after the   *)
(* last sample.  It may also fail with every sample written, at the last   *)
(* label or at the listing of the directory.                               *)
Turns(f) ==
    {t \in [wrote : SUBSET SamplesOf(f), removed : SUBSET Stale(f), ok : BOOLEAN] :
        /\ \A x \in t.wrote, y \in SamplesOf(f) :
              Place(y.sensor) < Place(x.sensor) => y \in t.wrote
        /\ t.removed # {} => Reconciles(f) /\ t.wrote = SamplesOf(f)
        /\ t.ok => t.wrote = SamplesOf(f) /\ (Reconciles(f) => t.removed = Stale(f))
        /\ ~t.ok => Reconciles(f) \/ t.wrote # SamplesOf(f)}

Fresh(f, t, s) == {x \in t.wrote : x.sensor = s /\ Writes(x, Reconciles(f))}

Written(f, t) ==
    [s \in (Existing(f) \ t.removed) \cup {x.sensor : x \in t.wrote} |->
        IF Fresh(f, t, s) = {} THEN kernel[s]
        ELSE [milli |-> Milli((CHOOSE x \in Fresh(f, t, s) : TRUE).temp), age |-> 0]]

Applied(f, t) ==
    IF ~Reconciles(f) THEN inv[f]
    ELSE IF t.ok THEN [sensors |-> SensorsFromSamples(f), needsReconcile |-> FALSE]
    ELSE [sensors |-> inv[f].sensors, needsReconcile |-> TRUE]

(* The ghost: a sensor whose reading is missing, or a group with a member  *)
(* whose reading is missing.                                               *)
Missing(s) ==
    \/ s.kind = "disk" /\ disks[s.of] # NoReading /\ disks[s.of].unavailable
    \/ s.kind = "group" /\ \E d \in Disk : IsMember(s.of, d) /\ disks[d].unavailable

(* The event loop receives a snapshot; since the last one, any number may  *)
(* have been lost.                                                         *)
ReceiveReadings ==
    /\ pc = "idle" /\ pc' = "publish"
    /\ disks' \in [Disk -> DiskReadings \cup {NoReading}]
    /\ hbas' \in [Hba -> HbaReadings \cup {NoReading}]
    /\ UNCHANGED <<guest, inv, kernel, out, clean, faults>>

(* publish(): both families, whatever happened to the first.               *)
PublishSamples ==
    /\ pc = "publish" /\ pc' = "idle"
    /\ \E t \in Turns("disk"), u \in Turns("hba") :
          LET disk == Written("disk", t)
              hba  == Written("hba", u)
          IN  /\ kernel' = [s \in DOMAIN disk \cup DOMAIN hba |->
                               IF s \in DOMAIN disk THEN disk[s] ELSE hba[s]]
              /\ inv' = [f \in Family |-> IF f = "disk" THEN Applied("disk", t)
                                          ELSE Applied("hba", u)]
              /\ clean' = (t.ok /\ u.ok)
              /\ faults' = faults + (IF t.ok THEN 0 ELSE 1) + (IF u.ok THEN 0 ELSE 1)
              /\ faults' <= MaxFaults
    /\ out' = [s \in Sensor |-> IF Missing(s) THEN out[s] ELSE 0]
    /\ UNCHANGED <<guest, disks, hbas>>

Older(n) == IF n = Timeout THEN n ELSE n + 1
Tick ==
    /\ pc = "idle"
    /\ kernel' = [s \in DOMAIN kernel |-> [kernel[s] EXCEPT !.age = Older(@)]]
    /\ out' = [s \in Sensor |-> IF Missing(s) THEN Older(out[s]) ELSE out[s]]
    /\ UNCHANGED <<guest, pc, disks, hbas, inv, clean, faults>>

SamplesNext == ReceiveReadings \/ PublishSamples \/ Tick

SamplesSpec == SamplesInit /\ [][SamplesNext]_samplesVars

-----------------------------------------------------------------------------
Shows(s) == IF kernel[s].age >= Timeout THEN KernelFailsafe ELSE kernel[s].milli

(* A sensor never hides a missing reading for longer than the timeout,     *)
(* whatever reconciliations, failed writes and changes of the group happen *)
(* meanwhile: neither the sensor of the disk nor that of its group.        *)
MissingReachesFailsafe ==
    \A s \in DOMAIN kernel :
        out[s] = Timeout /\ Missing(s) => Shows(s) \in {KernelFailsafe, Milli(Failsafe)}

(* A group shows the temperature of its hottest member, for as long as all *)
(* are known; and a group exists exactly where enough disks are of a kind. *)
GroupIsMaximum ==
    clean /\ pc = "idle" => \A g \in Group :
        LET sensor  == [kind |-> "group", of |-> g]
            members == {d \in Disk : IsMember(g, d)}
            shown(d) == Shows([kind |-> "disk", of |-> d])
        IN  /\ sensor \in DOMAIN kernel <=> Cardinality(members) >= MinGroupSize
            /\ sensor \in DOMAIN kernel /\ ~Missing(sensor) =>
                  /\ \A d \in members : Shows(sensor) >= shown(d)
                  /\ \E d \in members : Shows(sensor) = shown(d)

(* Each probe of an HBA has one sensor and no probe has two, also when the *)
(* guest is exchanged for one that knows of no probes ("New consumers must *)
(* use IOCTemp and BoardTemp when either is set", models.go); a probe that *)
(* goes leaves no sensor behind.                                           *)
ProbesShown ==
    clean /\ pc = "idle" => \A h \in Hba :
        LET r == hbas[h]
            ioc == [kind |-> "hba", of |-> h]
            board == [kind |-> "board", of |-> h]
        IN  /\ ioc \in DOMAIN kernel <=>
                  r # NoReading /\ (r.ioc # NoReading \/ r.board = NoReading)
            /\ ioc \in DOMAIN kernel =>
                  kernel[ioc].milli = Milli(IF r.ioc # NoReading THEN r.ioc ELSE r.legacy)
            /\ board \in DOMAIN kernel <=> r # NoReading /\ r.board # NoReading
            /\ board \in DOMAIN kernel => kernel[board].milli = Milli(r.board)

(* Temperatures and failing disks never reconfigure the host's sensors:    *)
(* only the disks, their kinds and the probes of the HBAs do, so a fan     *)
(* controller does not lose sensors when a disk fails.                     *)
Identity(ds, hs) ==
    <<{<<d, ds[d].is>> : d \in {e \in Disk : ds[e] # NoReading}},
      {<<h, hs[h].ioc = NoReading, hs[h].board = NoReading>> :
          h \in {i \in Hba : hs[i] # NoReading}}>>

ChurnFree ==
    [][pc = "idle" /\ clean /\ Identity(disks, hbas) = Identity(disks', hbas')
          => \A f \in Family : SensorsFromSamples(f)' = inv[f].sensors]_samplesVars

(* What the kernel shows follows from what the guest reports: failsafe for *)
(* what is missing, the maximum for a group, one sensor per probe.         *)
SensorsTellTruth == SamplesTypeOK /\ MissingReachesFailsafe /\ GroupIsMaximum /\ ProbesShown

=============================================================================
