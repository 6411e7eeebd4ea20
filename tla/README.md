# A TLA+ development of unraid-vsock-sensors

The program moves disk and HBA temperatures out of an Unraid virtual machine and
makes them appear as `hwmon` sensors of the Proxmox host, where a fan controller
reads them. What makes it worth modelling is not the temperatures but what
happens when something is late, half done or gone: a value that is no longer
measured must disappear or turn into the failsafe, and whatever failed must be
put right without an operator.

## 1. The system

```
 guest (Unraid)                                   host (Proxmox)
 emhttpd files, SIGUSR2 ─▶ disk collector ─┐      ┌─▶ receiver ─▶ channel ─▶ publisher ─▶ virt_temp ─▶ readers
 smartctl ───────────────▶                 ├─▶ VSOCK publisher ─▶ stream          │   (configfs, /dev)
 mpt3ctl / StorCLI ──────▶ HBA collector ──┘                                      ├─▶ cache file
 WebUI ─▶ control socket ─▶ disk policies                                         └─▶ topology event
```

| Part | State it keeps | Operations | What makes it correct |
|---|---|---|---|
| Disk collector (`disk.go`, `disk_source.go`, `disk_state.go`, `disk_source_config.go`) | last heartbeat, fallback state, thermal state per disk, last snapshot | refresh, heartbeat, watchdog, snapshot | readings come from a source that is alive; a reused reading has a bounded age; no wake grace without an observed standby |
| Direct SMART (`disk_fallback.go`) | rotation cursor | a cycle of commands on a pool of workers | bounded duration, no disk left out for ever |
| Disk inventory (`disk_inventory.go`) | none | merge, shadow, validate and select the rows of emhttpd's files | complete or refused, one entry per disk |
| Disk policies, control server (`disk_policy.go`, `control_server.go`) | policy file, mutex, refresh channel, Unix socket | list, set, reset, stop | requests act like one atomic table; the collector follows it; a reachable socket |
| Service (`main.go`, `rc.unraid-vsock-sensors`) | processes, PID file, lock, socket path | start, stop, restart | one daemon, known to the PID file; every operation ends |
| HBA collector (`hba.go`) | last result, its error and time, timer | refresh with a deadline, snapshot | a late result is not accepted; served values have a bounded age |
| StorCLI backend (`hba_storcli.go`) | controller metadata | collect, rediscover | stale metadata heals itself, one discovery per collection |
| mpt3ctl backend, identities (`hba_mpt3ctl.go`, `hba_sysfs.go`) | none | scan hosts, read IOC numbers and pages | a temperature keeps the identity of its card |
| Guest publisher (`publisher.go`) | connection, status | dial, write, reconnect | order, no blocked write |
| Receiver (`hwmon_stream.go`, `internal/sensors/stream.go`) | connection, channel of one | accept, read, hand over | latest wins, a dead peer is left |
| Host publisher (`hwmon.go`, `hwmon_device.go`, `hwmon_cache.go`, `fs.go`) | topology per family, retry flags, cache file, event file | restore, publish, reconcile, save, notify | the kernel, the cache and the subscribers agree with it |
| Sample construction (`hwmon_topology.go`, `internal/sensors/models.go`) | none | samples, group maxima, HBA probes | a missing reading reaches the failsafe; readings never reconfigure sensors |
| `virt_temp` (`virt-temp/module/virt-temp.c`) | sensors, their devices and labels | mkdir, rmdir, label store, device write, hwmon read | lifetime, freshness, locking |
| Diagnostics (`diagnostics.go`, the WebUI page) | report file | copy, render, write, show | what is shown as valid was accepted recently, by this daemon |
| Address validation, logging, other WebUI pages, packaging | – | – | not modelled, see section 8 |

Interactions. The two collectors hand copies of their state to the VSOCK
publisher under a mutex. The heartbeat signal handler shares the source state with
the collection goroutine and wakes it through a channel of capacity one. The
stream is the only link between the machines. The receiver and the publication
loop share another channel of capacity one. The host publisher changes the kernel
module with `mkdir`, `rmdir`, label and device writes, each of which may fail
alone, and leaves two files: the cache, from which the next process restores the
sensors, and the event file, whose change makes subscribers rediscover them.
The control server changes the policy file that the collector reads before every
collection, and wakes the collector through the same channel as the heartbeat.
The rc script knows the daemon by its PID file and serialises itself with a lock;
the daemon defends only its socket.

Hard behaviours: partial failure of a sequence of system calls; kills and power
losses between them; heartbeats in the middle of a refresh; reuse of old readings;
late results; reconnection with torn frames and vanished peers; unlocked hwmon
reads against writes; `rmdir` against open files; concurrent policy requests and
service operations; cards plugged in between the reads of one collection; files
with two rows of one disk. `PROJECT.json` lists them as hazards, each at its line.

## 2. Modules

| Module | Models | Run by | Proofs |
|---|---|---|---|
| `HwmonPublisher` | host publisher | `MCHwmonPublisher` | `HwmonPublisherProofs` |
| `DiskCollector` | disk collector | itself | `DiskCollectorProofs` |
| `HbaCollector` | HBA collector and StorCLI metadata | itself | `HbaCollectorProofs` |
| `SnapshotStream` | guest publisher and receiver | itself | `DataPathProofs` |
| `VirtTemp` | kernel module | itself | `VirtTempProofs` |
| `FallbackPool` | workers and cursor of direct SMART | `MCFallbackPool` | `FallbackPoolProofs` |
| `PolicyRegister` | what the policy API promises (abstract) | through `PolicyControl` | implemented: `PolicyControlProofs` |
| `PolicyControl` | policy store, its HTTP handlers, the collector's use of it | `MCPolicyControl` | `PolicyControlProofs` |
| `Service` | rc script, daemon start and stop, control socket | `MCService` | `ServiceProofs` |
| `Inventory` | disk inventory and selection | `MCInventory` | `DataPathProofs` |
| `HbaIdentity` | sysfs discovery and both HBA backends | `MCHbaIdentity` | `HbaCollectorProofs` |
| `Samples` | sample construction and writes against the kernel's timeout | `MCSamples` | `DataPathProofs` |
| `Diagnostics` | report, its file and the page that shows it | itself | `ServiceProofs` |

Operators named `X_Something` directly before `X` are faulty variants of `X`, kept
to show that a property can tell them apart; no specification uses them. Most
modules gather related invariants, each defined and explained on its own, into one
that the run checks (`SourcesTrusted == TypeOK /\ EmhttpdTrusted /\ ...`). Modules whose
proofs share a file have no name in common, hence `SamplesSpec`, `InventorySpec`,
`IdentitySpec` and `DiagSpec`; their specifications stay independent of each other.

### HwmonPublisher

A process with a program counter: `Start` (`runHWMon`, `restore`),
`ReceiveSnapshot`, then for each family `SkipFamily` or `PublishFamily`
(`publishHWMonFamily`, `reconcileImmediately`), `UpdateSensor`/`UpdateDone`
(`updateHWMonFamily`), `MakeSensor`, `LabelSensor`, `ListStale`, `RemoveStale`,
`ReconcileDone` (`reconcileHWMonFamily`), then `SaveCache`, `SyncCache` (`saveCache`,
`replaceFile`, `syncDirectory`) and `Notify` (`shouldNotifyTopologyChanged`,
`notifyTopologyChanged`). Each system call is a step of its own with a failing
alternative, because the error paths differ by what has already been done. A
topology is a function from sensors to labels; temperatures and the order of the
samples do not matter to any decision of this code. `kernel` is what configfs holds,
where an item may exist without a label, and hence without a hwmon device.
`Nil` (a family never initialised) is kept apart from the empty topology (an
authoritative empty inventory), as in the code.

The environment kills the daemon, cuts the power (configfs and the event file
are lost; a rename that was not synced may be undone), removes sensors by hand
and changes what the guest reports. `announced`, `disturbed` and `eventLost` are
history variables: the devices visible at the last event, a manual removal not yet
repaired, an event write that failed.

### DiskCollector

One refresh is `BeginRefresh` (the loop, `pollAttributesState.effective`),
`Evaluate` (`smartSourceState.evaluate`), `InventoryError` or `ReadInventory`, then
`CollectEmhttpd`, `Reuse` (`reuseFallbackSnapshot`), or `BeginDirect` followed by
`FinishDirect` (`beginDirectAttempt`, `collectFallback`,
`recordFallbackResult`). `Apply` is `diskStateTracker.apply` with the publication
that follows it. `NoteEmhttpPoll` and `RequestRefresh` are the signal handler,
which may run between any two of those steps; `Tick` lets time pass there too. A
reading records its source and its time instead of a temperature: that is what
the properties are about. What the inventory lists and what `smartctl` answers is
free. `seenBeat` and `unbroken` are history variables.

### HbaCollector

`BeginRefresh`, the backend's commands (`CollectMPT3`, or `Discover`, `Read`,
`ReadError`, `Rediscover`, `Reread` of `storCLIReader.collect`) and `Finish`, which
decides whether the result is accepted. A command takes any time and may outlive
the deadline. Controllers appear and disappear at any moment. `Answer` is
`hbaCollector.snapshot`. `undisturbed` is a history variable: no command failed and
no controller changed since this collection began.

### SnapshotStream

Connections with a bounded buffer of frames, a backlog, a guest end and a host
end. `Dial`, `WriteFrame`, `WriteError` (which may leave a torn frame) and
`GuestRestart` are the guest; `Accept`, `ReadFrame`, `ReadError`, `Offer`, `Evict` and
`Insert` are `receiveSnapshots` and `sendLatestSnapshot`, each channel operation a
step; `Take`, `Expire`, `Publish` and `Discard` are the loop and its age check.
`HostRestart` is the daemon's end and next start. VSOCK itself is outside the
repository and modelled from how the code uses it. A deadline may fire whenever
what it waits for has not come, so no clock is needed.

### VirtTemp

One configfs name, the objects allocated for it, and threads: the administrator
in `mkdir`/`rmdir`, labellers, writers on the device node, and readers. The locks
are `sensor->lock` and the misc subsystem's `misc_mtx`. Temperature and
`last_update` are stored in two steps, and a reader checks `last_update` and loads
the temperature in two steps, with time passing in between. Objects are
reference counted and may be allocated again once freed. The services of the
kernel (configfs references, `misc_open` under `misc_mtx`,
`hwmon_device_unregister` waiting for readers) are modelled from how the module
uses them.

### FallbackPool

One collection of `collectFallback`: `BeginCycle`, the workers' `Claim`s from a
shared counter, `Finish` and `Kill` of their commands, `EndCycle` with the new
cursor. A command ends at any of its durations or is killed at the earlier of its
own and the cycle's deadline, after which it may hold the worker for `WaitDelay`
more. Between cycles the inventory changes at will, so the cursor may point past
its end. `smartctl` and `sdspin` answer with one of six outcomes.

### PolicyRegister and PolicyControl

`PolicyRegister` is what a client may rely on: a table that each request changes at
one instant between its call and its reply. A successful reply means that the
change was made; after an error or without a reply it may or may not have been. A
power loss may bring back a table of the recent past (`past`) and nothing else;
`Settle` is a sync, after which the past is forgotten.

`PolicyControl` has the steps: the mutex, the read of the file, the temporary file,
the rename, the directory sync, the refresh request and the reply, each system
call with a failing alternative; lists and the collector read without the mutex;
`Stop` closes the listener and `Exit` ends the process with requests still inside,
by timeout or kill. `persisted` is the set of files that a power loss may leave.
`ImplementsRegister` is the refinement: the register's table is the file's, its
past the tables in `persisted`, and a request counts as applied at its rename.

### Service

The rc script's `start`, `stop` and `restart` (with `Lock`, `Spawn`, `RecordPid`, `Verify`,
`Await`, `SendKill`, `GiveUp`) and the daemon (`Probe`, `RemoveStale`, `Bind`, `Listen`,
`Chmod`, `ServeFails`, `Shutdown`, `Exit`). The path of the control socket names nothing, a
plain file, a stale socket or the socket of a live process, which refuses connections
until that process listens: `net.Listen` is bind(2) and listen(2), two steps. Closing and
removing unlink whatever the path names. `overlapped` is a history variable: a daemon
began to start while another was starting. `world` is chosen once, in `Init`: who starts daemons, whether they crash,
whether the PID file can be written. The child is assumed to have executed the
daemon within the second that the script waits before `Verify`. With a PID file
that cannot be written the script sends SIGTERM to the child and does not wait, so
the next start may overlap with it; `OneDaemon` leaves this world out, and
`SocketOwned` the overlap, there and among daemons started by hand. `status` and `poll` change nothing and are left out.

### Inventory

A pure computation, as operators that follow the code's loops (`AddAssigned`,
`AddUnassigned`, carried from row to row by `ReadAssigned` and `ReadUnassigned`) and a
reference that says what the two files mean as sets (`Active`, `Visible`, `Monitored`,
`Sound`). The state machine only writes rows, in any order, and changes policies; the
properties compare the two definitions in every state. A device name keeps its
optional `/dev/` prefix until `NormalizeDiskDevice`; names and IDs are numbers
because the code compares them. The entries are a set: the code sorts them at the
end, with a sort that is not stable, so the result is determined only when no two
collected disks tie in its comparison (`Precedes`), which `OrderIrrelevant` includes.

### HbaIdentity

A collection of either backend, read by read (`ListControllers`, `ScanHost`,
`ReadIdentity`, `MatchControllers`, `ReadTemperatures`; `ReadIoc`, `ReadPage`), with
`Plug` and `Unplug` between any two. That the kernel reuses host numbers and not IOC
numbers, and that StorCLI counts cards in PCI order, is outside the repository.
`known`, a history variable, holds the indexes of the metadata that a collection began
with. `AttributedRight` asks for hardware at rest: during the collection for mpt3ctl,
since the last discovery for StorCLI. The code promises no more: when a host number
is reused between the scan and the read of its IOC number, mpt3ctl attributes one
collection wrongly, and a StorCLI exchange that leaves the same set of indexes is the limit
that the repository's README documents. `NewIndexesRediscovered` is the rest of
that promise.

Two reads are simpler than in the code. `ScanHost` takes a host's driver and its PCI address
in one step (`hba_sysfs.go:42-57` reads one, then resolves the other). `ReadIoc` fails
on a host number that a card of another driver has taken since the scan;
`hba_sysfs.go:126-137` would parse whatever `unique_id` that driver exports. The model so
assumes that it is not the number of an IOC that is present, in which case the page read
for it fails and so does the collection, one step later.

### Samples

`ReceiveReadings` takes a snapshot with any readings of the guest chosen in `Init`;
`PublishSamples` computes samples (`GroupSamples`, whose loop over the disks is `Total`
with one `Visit` per disk, `DiskSamples`, `HbaSamples`), decides whether to reconcile, and
writes them in order until one fails: `Turns` are the prefixes of that work which may
have been done. `Tick` ages the kernel's values. `out` counts how long a reading has
been missing. A family that was never initialised and an empty one are the same here;
`HwmonPublisher` keeps them apart. Labels, whose change reconciles a family, and the
reconciliation that follows a write to a missing device node (ENOENT) are only in
`HwmonPublisher` too.

### Diagnostics

`CopyPublished` and `CopyHeartbeat` are the two locked copies of `status`, `Write` the
rendering and the rename, `Belongs` and `Recent` the page's checks. A refresh of the
collector is two steps: `BeginRefresh` decides on the source (at `decisionAt`),
`FinishRefresh` publishes (at `finishedAt`), up to `MaxRefresh` later, with heartbeats,
copies and a kill in between; `DiskCollector` has the parts. A "healthy" decision of a stalled
refresh therefore appears under a fresh `updatedAt`, and `HealthyHasHeartbeat` has the duration in
its bound. A reading is dated when the collector accepted it, not when emhttpd measured
it, as the page says of itself. A disk in standby or waking counts as one without a
temperature. `MaxReports` bounds the reports of a behaviour: one in the run, any number in
the proofs. The page rounds ages to seconds, here they are exact; PIDs are not reused.

## 3. Runs

One run per component; each asks its safety and liveness questions together.

| Run | Bounds | Shows |
|---|---|---|
| `publisher` | 3 sensors, 2 labels, 2 failures, 2 guest changes | `TopologyApplied`, `CacheCurrent`, `SubscribersCurrent`, `SaveIsDurable`, `EventsAreComplete`; `Converges`: after the last failure the kernel and the cache show what the guest reports |
| `collector` | 1 disk, polling 0 or 2, clock to 7, a loop starved up to 2 | `SourcesTrusted`, `StatesEarned`, `HeartbeatNotMissed`, `SnapshotRenewed`, `AttemptsSpaced` |
| `virt_temp` | 2 objects, 1 thread of each kind, 2 labels, 2 timeouts, 2 writes, clock to 2 | `Lifetimes`, `FreshOrFailsafe`, `StableInside`; `DropEnds`: `rmdir` ends |
| `hba` | 2 controllers, timeout 2, intervals 2 and 4, clock to 12 | `ServedAgeBounded`, `HealthyNeverExpires`, `UndisturbedSucceeds`, `OneDiscovery` |
| `stream` | 3 connections, 2 frames, 3 snapshots | `HandsOverLatest`, `PublishedInOrder`; `EveryConnectionServed` |
| `fallback_pool` | 2 workers, 6 inventories of 0 to 5 disks, timeouts 2 and 4, durations 0, 1, 3 | `ClaimsSound`, `DeadlinesKept`; `EveryDiskProbed` |
| `policy` | 2 disks, 2 clients, any number of failures, kills and power losses | `FileInForce`, `DurableUnlessSyncFailed`, the refinement `ImplementsRegister` |
| `service` | 2 processes, 2 scripts, 4 worlds | `OneKnownDaemon`, `SocketOwned`; `OperationsEnd` |
| `inventory` | at most 4 rows over 5 names, 3 IDs, 3 devices; 3 policy files | `OnePerDisk`, `AllOrNothing`, `OrderIrrelevant` |
| `hba_identity` | 3 slots, 4 cards, 2 hardware changes, 1 failure | `UniqueIdentities`, `RightCards` |
| `samples` | 2 disks or 1 HBA, timeout 2, 1 failing write | `SensorsTellTruth`, `ChurnFree` |
| `diagnostics` | 1 disk, polling 1, refresh and report of up to 1, clock to 4, 1 restart, 1 report | `ShownIsFresh`, `ShownIsOurs` |

Why the bounds are enough (the theorems of section 5 remove them from the safety
properties, so that they matter to liveness only):

- *publisher*: two failures allow a failure in the repair of a failure (a kill
  during a reconciliation that follows a failed one); the two disk topologies
  differ in members and labels; the HBA family may be empty.
- *collector*: disks do not influence each other except through the common
  refresh, so one disk that comes, goes and comes back shows every case; the
  clock reaches a second fallback after a first one, and the starved loop goes
  past the expiry.
- *virt_temp*: a second object lets a name be recreated while the first is still
  open; two labels give a change and its undoing; a clock of two passes the
  shorter timeout. A second write lets a
  reader check the first and load the second.
- *hba*: the durations keep the code's ratio (budget : mpt3ctl interval : StorCLI
  interval = 15 s : 15 s : 30 s). The clock allows two StorCLI intervals with their
  budgets, so an expiry and the collection after it. Its run does not look for
  deadlock: after `Cancel` the service stops.
- *stream*: the third connection is a guest that reconnects behind a vanished
  predecessor and an intruder; three snapshots let one be replaced in the channel
  while another is published.
- *fallback_pool*: five disks are more than two workers can finish in a cycle of
  two command timeouts, so claims run out of time, and the longest duration
  exceeds the command's timeout. The inventories cover a disk that moves, one that
  must not be probed, and the empty list.
- *policy*: two disks show a lost update (two requests on different disks), two
  clients every overlap of a pair of requests. A policy other than `auto` is one
  value: the store treats `include` and `exclude` alike. Disks and clients are
  interchangeable and declared symmetric; the run has safety properties only
  (the register is specified without fairness).
- *service*: one script that stops while another starts, with a daemon each; a
  third would wait for the same lock. The worlds are the script with a PID file that can or
  cannot be written, and daemons started by hand that may or may not crash.
- *inventory*: four rows hold two copies of a disk, the boot device and a disk in
  conflict; the rows were chosen so that every branch of the reference occurs.
- *hba_identity*: three slots and two changes let a card be exchanged while another
  moves up one index; one of the four cards repeats another's SAS address.
- *samples*: two disks are the smallest group; the values include a negative
  temperature, which is below the 0 that a missing reading carries.
- *diagnostics*: the clock reaches one more than the oldest heartbeat that a healthy
  report may carry (poll interval, refresh and report of 1 each), so a report that ignores
  the fallback is caught, and it allows a report after a restart. Disabled polling is left to
  the proof: the report says so and promises nothing.

## 4. Fairness

- `HwmonPublisher!FairSpec`: weak fairness of the daemon. systemd restarts it,
  the guest publishes every second, and no call of the daemon waits for anybody.
  Failures are bounded by `MaxFaults`, which is the "failures end" of `Converges`.
- `SnapshotStream!FairSpec`: weak fairness of the receiver and of the publication
  loop, two goroutines that the runtime keeps scheduling; that a read ends is the
  read deadline of `hwmon_stream.go`. Nothing is assumed of the guest.
- `VirtTemp!FairSpec`: weak fairness of every thread that is inside the module, and
  strong fairness of `rmdir`: the kernel's mutexes hand a lock that is released
  again and again to a waiter in the end. Whether a process writes or reads again
  is its own choice.
- `FallbackPool!FairSpec`: weak fairness of the next-state relation: the collector
  runs a cycle whenever one is due, workers are goroutines, and a killed command
  returns (`Cmd.WaitDelay`).
- `Service!FairSpec`: weak fairness of every daemon and script that has a step to
  take, and strong fairness of `Lock`: `flock` grants a lock that is released again
  and again. Nothing is assumed of those who call the script.

## 5. Proofs

Checked by TLAPS for every value of the constants that satisfies the named
assumptions.

`HwmonPublisherProofs` assumes that the markers are distinct from the values they
mark, at least one sensor, and natural bounds. `Inductive` shows

    IndInv == TypeOK /\ WorkInv /\ ProgressInv /\ AppliedInv
              /\ RestoreInv /\ CacheInv /\ AnnounceInv

The properties speak of the moments between two snapshots, so they are not
inductive: the invariant has to say what holds inside a publication.
`WorkInv` says where the loops are, `ProgressInv` what the reconciliation has
already put into the kernel, `AppliedInv` that the other family is untouched
meanwhile. `RestoreInv` covers the daemon while it restores (the cache still
equals what it applies, although nothing is marked dirty), `CacheInv` the window
between a change and its save, `AnnounceInv` the one between a change and its
event, possibly several snapshots later. From it follow `TypeCorrect`,
`KernelAgrees` (`TopologyApplied`), `CacheAgrees` (`CacheCurrent`),
`ChangesAnnounced` (`SubscribersCurrent`), `EventsComplete` (`EventsAreComplete`) and
`SavesDurable` (`SaveIsDurable`).

`HbaCollectorProofs` assumes natural intervals and a positive timeout.
`HbaInductive` shows `TypeOK` with `PubInv` (a published result beat its
deadline), `TimerInv` (the next refresh begins exactly one interval after the last
success, which is why the expiry of interval plus budget is enough),
`DiscoveryInv` and `FreshInv` (where the one discovery can have happened) and
`MetadataInv` (metadata discovered in an undisturbed collection names the
controllers that are there). From it follow `HbaTypeCorrect`, `ServedAge`, `HealthyServes`,
`Rediscovery` and `DiscoversOnce`. `ServedAge` and `HealthyServes` pull the expiry
rule in opposite directions; they hold together for every choice of interval and
timeout, not only for the two pairs in `hba.go`.

`DataPathProofs`, on `SnapshotStream`, assumes only a buffer for one frame and that `None` is no
connection. The argument has two layers. `HandInvariant` is about the receiver alone:
`OwnInv` and `ServingInv` (the guest has one open connection, the receiver serves one,
the backlog holds each once) and `HoldInv` (between reading a snapshot and handing it over
the receiver holds the newest one) make the two halves of `HandsOverLatest`
inductive. `PublishedInOrder` needs the whole way of a snapshot: `LastInv` (nothing
of the guest's waits behind the connection it writes to), `OrderInv` (buffers are
sorted, and so is the backlog as a whole), `NewerInv` (what is still to be read is
newer than what was received or published) and `ChannelInv` (published < taken < waiting <
held). Only the single-threaded publisher, which closes one connection before it dials
the next, makes `LastInv` true; torn frames are the exception in every comparison.

`DiskCollectorProofs` assumes natural durations, in no relation to each other. A
refresh is several steps with signals and time between them, so the invariant
says what each point of it may rely on: `ClockInv` and `PaceInv` (nothing is dated in
the future; how old the last decision and the last success are), `BeatInv` (an unseen
heartbeat is on its way to a decision), `TrackerInv` (between refreshes the tracker is
what was published), `DecisionInv` (what the decision rests on, still true
when the readings arrive although a heartbeat may have come meanwhile), `SourceInv`,
`EmhttpdInv` and `DirectInv` (where the published readings came from). `StatesEarned` is
inductive beside these. From it follow `HeartbeatNotMissedHolds`, `SnapshotRenewedHolds`,
`StatesEarnedHolds`, `SourcesTrustedHolds` and the action property
`AttemptsSpacedHolds`.

`VirtTempProofs` assumes that markers and thread names are distinct and positive
timeouts. `RefInv` is its centre: the reference count of a sensor is the
cardinality of the set of those who hold it (`Holders`), and its memory is allocated
exactly while that set is not empty; `FiniteSetTheorems` gives what adding and
removing one holder does. `Sites` says where threads are, `LockInv` who owns each lock,
`StageInv` how far `rmdir` has come and that no one is inside a device which is
past its removal, `FreshInv` that a temperature is never older than the stamp which a
reader has checked, including the window between a writer's two stores. From it follow
`LifetimesHolds`, `FreshOrFailsafeHolds` and `StableInsideHolds`.

`FallbackPoolProofs` assumes at least one worker and positive timeouts.
`ClaimInv` ties the observations to the claims: a disk is unobserved exactly when its
number was not claimed or somebody is still busy with it, and no two workers are busy with
one number. `CountInv` bounds the shared counter, which the workers push
past the last disk: each that finds none left ends there. `ClockInv` carries
`DeadlinesKept`: the clock leaves zero only when every worker has claimed, and then the
first `Workers` numbers are all taken, by a pigeonhole argument (`AllClaimed`: a
set of busy workers with different numbers below the counter has as many members as there
are numbers). `RestInv` says what a cycle leaves. From it follow
`ClaimsSoundHolds` and `DeadlinesKeptHolds`.

`PolicyControlProofs` assumes only what a request is. `LockInv` (one request inside the
store), `ProgressInv` (what a request has done and is about to do at each point:
the new table is the present file's with one change, for which the mutex is needed),
`PersistedInv` (a power loss brings back the file as it is, unless its last change waits for
its sync or missed it) and `CurrentInv` (a change the collector does not know
of is on its way to it) give `FileInForceHolds` and `DurableHolds`.
`PolicyRefinement` is `Spec => Register!Spec`, `PolicyRegister` with the table of the file,
the tables in `persisted` as its past, and a request applied at its rename (or at its
read, when it has nothing to change). Step by step: the rename and the removal
are the register's `Apply`, the sync its `Settle` (or nothing, when it fails), the end of
the store's work its `Decide`, and an exit or a power loss its `Down`; the lock, the
temporary file, and the collector's steps change nothing of the register.

`ServiceProofs`, on `Service`, assumes finitely many PIDs that are not also the names of
path states. `LockInv` (one script in the critical section), `ScriptInv` (what the PID file
holds at each of its points), `KnownInv` (a process that a script started is in the
PID file or about to be, unless the write failed and it was told to stop) and `PathInv` give
`OneKnownDaemonHolds` and `SocketOwnedHolds`. `PathInv` is about what no lock protects. As
long as no two starts have overlapped, one daemon at most is between its probe and its
control API, and a socket that a daemon has bound is at the path (`Orderly`): the one that is about to
remove a socket was refused by a dead owner or by a dying one, never by a daemon that is about to
listen, because that one would be starting too. With the script as the only way to
start, and a PID file that can be written, starts do not overlap (`OneProcess`).

The same module proves `DiagnosticsInvariant`, for natural durations in no relation to each
other. A report is copied at one time, stamped at another and shown at a third, and the
collector, a heartbeat or a restart may come between any two. `SourceInv` says of a refresh
under way when it began and what its decision rests on, still true of the heartbeat known
now (`Seen`: what `evaluate` measures from only grows); `PubInv` dates what the
collector has published, later than the decision by the duration of the refresh, `DraftInv` a report being built (this daemon's, as fresh at its
first copy as a snapshot may be, and with a living heartbeat, copied or still to be
copied, if it looks healthy), `FileInv` the written one. The ages add up to the bounds
that `ShownIsFreshHolds` states; `ShownIsOursHolds` needs that a file of an earlier daemon
carries an earlier PID.

`HbaCollectorProofs` also holds `IdentityInvariant`, for any finite set of PCI addresses and any
cards, SAS addresses (repeated ones too) and drivers. One half of the invariant holds
whatever the hardware does: `MachineInv` (the kernel gives no number to two cards),
`ScanInv` (a scan finds each host, address and identity at most once), `IndexInv`,
`IocInv` and `ReadingsInv` (the identities keyed by index or by IOC number are distinct,
and a card already read is not at a number still to be visited, even if it moves), which
is what `UniqueIdentitiesHolds` needs. The other half is about hardware at rest: `KeptInv`
(metadata that StorCLI kept names the cards of today), `ScanTrue` and `IocTrue` (what was
found is true, and what was not found yet is still on the list of the loop).
`RightCardsHolds` follows from both; that StorCLI's indexes, as counts of smaller addresses, are
distinct is proved with the cardinalities of finite sets.

`DataPathProofs`, on `Samples`, assumes any guests with natural numbers of disks and HBAs, any
integer temperatures, and a positive timeout and group size. `SamplesInvariant` is `SamplesTypeOK`
with `KnownInv` (a family that asks for no reconciliation knows its sensors in the kernel),
`CleanInv` (after a snapshot without an error the kernel holds that snapshot's values,
all of one age) and `OutInv` (a value other than the failsafe is at least as old as its
reading has been missing, which is why the kernel's timeout catches it even when the
write of the failsafe fails). `TurnLemma` says what a turn cut short leaves. What the loop
over a group's members computes is an induction (`TotalRight`): count, maximum and
missing members of the first n disks, negative temperatures included. From these follow
`SensorsTellTruthHolds` and the action property `ChurnFreeHolds`.

`DataPathProofs`, on `Inventory`, assumes that names and IDs are numbers and that no policy names an
oversized ID, which the store refuses. As a state machine it is simple: `FilesInvariant` says
that a file names each of its rows once. The proof is about the computation.
`AssignedRight` and `UnassignedRight` show by induction on the rows what the two loops have
collected or refused after n of them. Of several rows of one unassigned disk the second
loop keeps the one with a device, two of those make it fail, and which of several
without a device stays depends on their order (`KeptOK`); `ChosenRight` shows that this
last choice never reaches the result. `InventoryRight` concludes
that the result is a function of the *sets* of rows, from which `OnePerDiskHolds`, `AllOrNothingHolds`
and `OrderIrrelevantHolds` follow, for any number of rows in any order.

The induction in these two is `SetInduction`, on the set of the numbers for which a statement
holds: the library's induction theorems take an operator as a parameter, which the
installed provers cannot instantiate, a set they can. `LoopExists` derives from it that a
recursive function over a range exists and satisfies its equation.

Several proofs did not go through at first, for a reason in the model.
`SocketOwned` had excluded only a race of daemons started by hand, and was false in
a world whose PID file cannot be written, once there are three PIDs, which the run does not
have. It is now stated by what both have in common, starts that overlap (section 7). `NewIndexesRediscovered` had compared the indexes
with those of the last published collection, and was false beyond the bounds of the run: the
metadata of a second discovery is kept when the read after it fails (section 7).
`FallbackPool!TypeOK` had held only for a set of inventories that contains the empty one, in
which `Init` starts. `DisksHealth` and `SourceStatus` of `Diagnostics` and `DetectBus` of
`Inventory` had been written as `CASE` with arms that overlap, where the code tests in order:
TLC takes the first arm, TLA+ any of them. They are ordered now. `FreshInv` of `VirtTemp` needs that a
temperature is one already written, which no property states.

## 6. What is only model-checked

Liveness (`Converges`, `DropEnds`, `EveryConnectionServed`, `EveryDiskProbed`,
`OperationsEnd`) depends on fairness and `ENABLED`, which the prover does not handle.

Every safety property of section 3, invariant or action property, is a theorem of
section 5, type invariants and the refinement included.

## 7. Where the properties make exceptions

Seven behaviours of the code are weaker than a reader of its comments and docs may
expect. The properties above are stated with exactly these exceptions.

- **A topology event that cannot be written is not retried** (`hwmon.go:125`). The
  error is only logged; the next snapshot finds nothing to reconfigure, and the
  subscribers keep the old sensors. A failed cache save, in contrast, is
  remembered in `cacheDirty`. `SubscribersCurrent` excepts this case (`eventLost`).
- **A save can drop a cached family** (`hwmon_cache.go:93`). When the cache could
  not be read, or one family could not be restored, and the guest then reports
  only the other family, the save writes a cache without the family that was not
  restored. If the host restarts before the guest recovers, that family's sensors
  are missing until its next valid inventory. `CacheCurrent` compares the cache with
  what was applied.
- **A claimed disk need not be observed** (`disk_fallback.go:55`). When a cycle has
  claimed every disk the cursor returns to where it was, also when the last
  commands were killed with the cycle. With three workers, six disks that take
  1.8 s and one that takes 0.6 s, a cycle of 4 s kills the last disk's command each
  time. `EveryDiskProbed` promises a command, not an answer;
  `disk_fallback_test.go` asks for the answer, of another set of durations.
- **A retry after a failed directory sync is acknowledged without one**
  (`disk_policy.go:199`). The failed request has already replaced the file, so its
  repetition finds nothing to do and is answered 200, while a power loss may still undo it.
  `DurableUnlessSyncFailed` excepts this case (`unsynced`).
- **Daemons that start at the same time may take each other's socket**
  (`control_server.go:83`). A refused connection is taken to prove a stale socket
  (`control_server.go:92`). Two starting daemons may both be refused by one
  stale socket, and the second removes what the first has bound meanwhile; or the second
  is refused by the socket that the first has bound (`control_server.go:127`) and does not listen
  on yet, and removes it, without any crash. The first then serves a socket that no path
  names. The script's lock excludes it, except that a daemon whose PID could not be
  recorded (`rc.unraid-vsock-sensors:107`) is told to stop and not waited for, and may
  still be starting when the next one is. `SocketOwned` excepts starts that overlapped, by hand or
  with an unrecorded PID.
- **A command in uninterruptible sleep outlives its deadline.** `CONTRIBUTING.md:297` says
  that `Cmd.WaitDelay` is no absolute bound: a `smartctl` blocked in the kernel dies only
  when the call returns. `DeadlinesKept` and `EveryDiskProbed` assume that a killed command
  returns within `WaitDelay`.
- **What a second StorCLI discovery found survives the failure of the read after it**
  (`hba_storcli.go:50`). A first discovery is dropped in that case, for the next
  collection to repeat. The next collection therefore starts from metadata that no
  read has confirmed; a card exchanged meanwhile for one at the same index gets the
  other's identity until the set of indexes changes.
  `NewIndexesRediscovered` compares with the metadata that the collection began with.

## 8. Not modelled

- Parsing and formats: the syntax of INI files, `smartctl` and StorCLI output, the
  ioctl and MPT pages, the JSON of requests, frames, reports and cache. A frame or
  a file decodes or does not; an answer is one of the outcomes the code tells apart.
- The HBA and VSOCK parts of the diagnostics, plain copies of the collectors'
  state under their locks.
- HTTP itself, `status` and `poll` of the rc script, command-line flags, logging,
  the validation of VSOCK addresses: no state of their own.
- The other PHP pages, which forward requests, and the packaging, apart from the
  restart of the daemon and the removal of sensors, which are environment actions.
- In `VirtTemp`, name decoding and module load and unload; more than one name.
- A composition of all parts ("a reader sees a value measured within the sum of
  the expiry times, or the failsafe"): the expiry times of each part are checked
  where they act, in `collector`, `hba`, `stream`, `samples` and `virt_temp`.

## 9. What is left

- A composition of the whole data path, from a measurement to a reader of the host's
  sensor, with the sum of the expiry times as its bound. Each part's share is now a theorem, so
  the composition could be proved from these instead of from the parts' steps.
- Shorter proofs: some leaves list many definitions, and the facts about finite sets
  and records that several proof modules state for themselves could be stated once.
- The assumptions on the constants are named in section 5 and evaluated by TLC in the run
  of their module. An assumption that a later version of the code no longer justifies
  (the bound on an ID's length, one snapshot per second) has to be changed there first.
