---------------------------- MODULE Diagnostics -----------------------------
(***************************************************************************)
(* The diagnostics of the guest daemon: diagnostics.go, the disk           *)
(* collector's status() of disk.go, and the page that shows the file.      *)
(*                                                                         *)
(* Every second a goroutine copies the disk collector's published state    *)
(* under its lock, then the live heartbeat under another, renders both     *)
(* into a report stamped with the time, and renames it over                *)
(* diagnostics.json.  The page reads the file at any time and shows it     *)
(* when the process that wrote it is the running daemon and the report is  *)
(* recent.  The collector publishes and heartbeats arrive between any two  *)
(* of these steps, the daemon may be killed and started again, and a write *)
(* may fail.                                                               *)
(*                                                                         *)
(* A refresh of the collector is two steps with time between them, its     *)
(* decision on the source and its publication; the module DiskCollector    *)
(* has the rest.  Each item of a report also carries when the collector    *)
(* accepted it, for the properties.                                        *)
(***************************************************************************)
EXTENDS Integers

CONSTANTS Disk,             \* stable disk IDs
          PollValues,       \* poll_attributes intervals; 0 disables polling
          DefaultPoll,      \* defaultPollAttributes
          PollMargin,       \* emhttpPollMargin
          DiskTimeout,      \* diskSnapshotTimeout
          PageMaxAge,       \* the age above which the page rejects a report
          MaxRefresh,       \* bound on the duration of one refresh
          MaxBuild,         \* bound on the time to build and write a report
          MaxReports,       \* bound on the reports written
          MaxRestarts,      \* bound on the restarts of the daemon
          MaxTime           \* bound on the clock

ASSUME DiagnosticsAssumption ==
    /\ PollValues \subseteq Nat /\ DefaultPoll \in Nat /\ PollMargin \in Nat
    /\ DiskTimeout \in Nat /\ PageMaxAge \in Nat
    /\ MaxRefresh \in Nat /\ MaxBuild \in Nat
    /\ MaxReports \in Nat /\ MaxRestarts \in Nat /\ MaxTime \in Nat

NoTime == -1                \* the zero time.Time
Time == 0..MaxTime
Stamp == Time \cup {NoTime}
DaemonPid == 1..(MaxRestarts + 1)

(* diskThermalState: a disk in standby or being woken has no temperature   *)
(* to show either, and stands under the unavailable ones.                  *)
Thermal == {"valid", "unavailable"}
Poll == PollValues \cup {DefaultPoll}
Health == {"healthy", "stale", "error"}

(* diagnosticDisk and diagnosticsSnapshot.                                 *)
Item == [status : Thermal \cup {"retained"}, at : Stamp]
Report == [pid : DaemonPid, at : Stamp,
           disks : Health, items : UNION {[L -> Item] : L \in SUBSET Disk},
           emhttpd : {"healthy", "stale", "unknown", "polling disabled",
                      "unknown/config error"},
           poll : Poll, beat : Stamp]
NoReport == [pid |-> 0]

(* smartSourceDecision, with the configuration that it rests on.           *)
Decision == [at : Stamp, poll : Poll, configError : BOOLEAN, direct : BOOLEAN]
NoDecision == [at |-> NoTime, poll |-> DefaultPoll, configError |-> FALSE, direct |-> FALSE]

VARIABLES
    now,
    pid, bootAt,    \* the running daemon and when it started
    startedAt,      \* smartSourceState.startedAt, of the first refresh
    beat,           \* smartSourceState.lastHeartbeat
    decision,       \* the refresh under way: when it began, its source
    pub,            \* what the disk collector has published
    writer,         \* the goroutine of runDiagnostics
    draft, draftAt, \* the report it builds, and since when
    file,           \* diagnostics.json
    reports         \* how often it was written

daemonVars == <<pid, bootAt>>
sourceVars == <<startedAt, beat, decision>>
writerVars == <<writer, draft, draftAt>>
fileVars == <<file, reports>>
diagVars == <<now, daemonVars, sourceVars, pub, writerVars, fileVars>>

DiagTypeOK ==
    /\ now \in Time /\ pid \in DaemonPid /\ bootAt \in Time
    /\ startedAt \in Stamp /\ beat \in Stamp /\ decision \in Decision
    /\ pub \in [err : BOOLEAN, updatedAt : Stamp, reused : BOOLEAN,
                disks : UNION {[L -> [thermal : Thermal, at : Stamp]] : L \in SUBSET Disk},
                direct : BOOLEAN, configError : BOOLEAN, poll : Poll]
    /\ writer \in {"idle", "heartbeat", "write"} /\ draftAt \in Stamp
    /\ draft \in Report \cup {NoReport}
    /\ file \in Report \cup {NoReport}
    /\ file # NoReport => file.at # NoTime
    /\ reports \in 0..MaxReports

(* newDiskCollector: nothing is collected yet.                             *)
NewPub == [err |-> TRUE, updatedAt |-> NoTime, reused |-> FALSE,
           disks |-> [d \in {} |-> NoTime], direct |-> FALSE,
           configError |-> FALSE, poll |-> DefaultPoll]

DiagInit ==
    /\ now = 0 /\ pid = 1 /\ bootAt = 0
    /\ startedAt = NoTime /\ beat = NoTime /\ decision = NoDecision /\ pub = NewPub
    /\ writer = "idle" /\ draft = NoReport /\ draftAt = NoTime
    /\ file = NoReport /\ reports = 0

-----------------------------------------------------------------------------
(* Only the page reads the file: once the last report is written only the  *)
(* time and the running daemon matter to it, and the collector rests as it *)
(* is.                                                                     *)
MayReport == reports < MaxReports

Tick ==
    /\ now < MaxTime /\ now' = now + 1
    /\ MayReport /\ decision # NoDecision => now < decision.at + MaxRefresh
    /\ writer # "idle" => now < draftAt + MaxBuild
    /\ UNCHANGED <<daemonVars, sourceVars, pub, writerVars, fileVars>>

NoteEmhttpPoll ==
    /\ beat' = IF MayReport THEN now ELSE beat
    /\ UNCHANGED <<now, daemonVars, startedAt, decision, pub, writerVars, fileVars>>

(* A refresh begins with pollAttributesState.effective, which falls back   *)
(* on the last valid interval, and smartSourceState.evaluate.              *)
Fallback(poll) ==
    LET reference == IF beat # NoTime THEN beat
                     ELSE IF startedAt # NoTime THEN startedAt ELSE now
    IN  poll > 0 /\ now - reference > poll + PollMargin

BeginRefresh ==
    /\ MayReport /\ decision = NoDecision
    /\ startedAt' = IF startedAt = NoTime THEN now ELSE startedAt
    /\ \E poll \in Poll, failed \in BOOLEAN :
          /\ IF failed THEN poll = pub.poll ELSE poll \in PollValues
          /\ decision' = [at |-> now, poll |-> poll, configError |-> failed,
                          direct |-> Fallback(poll)]
    /\ UNCHANGED <<now, daemonVars, beat, pub, writerVars, fileVars>>

(* What it publishes when it ends: the source that it decided on, and an   *)
(* error, a collection, or in fallback the last snapshot again.  A         *)
(* snapshot published again gives a disk it does not hold no reading.      *)
Again(listed) ==
    [d \in listed |-> IF ~pub.err /\ d \in DOMAIN pub.disks
                      THEN pub.disks[d] ELSE [thermal |-> "unavailable", at |-> NoTime]]

Collected(thermal) ==
    [d \in DOMAIN thermal |->
        [thermal |-> thermal[d], at |-> IF thermal[d] = "valid" THEN now ELSE NoTime]]

FinishRefresh ==
    /\ MayReport /\ decision # NoDecision /\ decision' = NoDecision
    /\ LET source == [pub EXCEPT !.direct = decision.direct, !.poll = decision.poll,
                                 !.configError = decision.configError]
           Success(disks, again) ==
               pub' = [source EXCEPT !.err = FALSE, !.updatedAt = now,
                                     !.disks = disks, !.reused = again]
       IN  \/ pub' = [source EXCEPT !.err = TRUE, !.updatedAt = NoTime]
           \/ \E listed \in SUBSET Disk :
                 \/ \E thermal \in [listed -> Thermal] : Success(Collected(thermal), FALSE)
                 \/ decision.direct /\ Success(Again(listed), TRUE)
    /\ UNCHANGED <<now, daemonVars, startedAt, beat, writerVars, fileVars>>

-----------------------------------------------------------------------------
(* buildDiagnosticDiskServices: a collector that failed, whose snapshot    *)
(* has outlived its timeout, or that is healthy.                           *)
DisksHealth ==
    IF pub.err THEN "error"
    ELSE IF now < pub.updatedAt + DiskTimeout THEN "healthy" ELSE "stale"

(* buildDiagnosticDisks, and the downgrade of the valid items of a         *)
(* collector that is not healthy.                                          *)
StatusOf_NotDowngraded(d) ==
    IF pub.disks[d].thermal = "valid" /\ pub.reused
    THEN "retained" ELSE pub.disks[d].thermal
StatusOf(d) ==
    IF pub.disks[d].thermal = "valid" /\ (pub.reused \/ DisksHealth # "healthy")
    THEN "retained" ELSE pub.disks[d].thermal

(* The emhttpd part: the source of the last completed refresh decides,     *)
(* unless it is healthy and no heartbeat was ever seen.                    *)
SourceStatus_IgnoresFallback ==
    IF pub.configError THEN "unknown/config error"
    ELSE IF pub.poll = 0 THEN "polling disabled" ELSE "healthy"
SourceStatus ==
    IF pub.configError THEN "unknown/config error"
    ELSE IF pub.poll = 0 THEN "polling disabled"
    ELSE IF pub.direct THEN "stale" ELSE "healthy"

(* diskCollector.status, first under the collector's lock ...              *)
CopyPublished ==
    /\ MayReport
    /\ writer = "idle" /\ writer' = "heartbeat" /\ draftAt' = now
    /\ draft' = [pid |-> pid, at |-> NoTime, disks |-> DisksHealth,
                 items |-> [d \in DOMAIN pub.disks |->
                               [status |-> StatusOf(d), at |-> pub.disks[d].at]],
                 emhttpd |-> SourceStatus, poll |-> pub.poll, beat |-> NoTime]
    /\ UNCHANGED <<now, daemonVars, sourceVars, pub, fileVars>>

(* ... then the heartbeat as it is now, which the refresh may not know.    *)
CopyHeartbeat ==
    /\ writer = "heartbeat" /\ writer' = "write"
    /\ draft' = [draft EXCEPT
          !.beat = beat,
          !.emhttpd = IF @ = "healthy" /\ beat = NoTime THEN "unknown" ELSE @]
    /\ UNCHANGED <<now, daemonVars, sourceVars, pub, draftAt, fileVars>>

(* buildDiagnosticsSnapshot stamps the report; writeDiagnosticsAtomic      *)
(* replaces the file, or fails and leaves the old one.                     *)
Stamped == [draft EXCEPT !.at = now]

Write ==
    /\ writer = "write" /\ writer' = "idle"
    /\ draft' = NoReport /\ draftAt' = NoTime
    /\ \/ file' = Stamped /\ reports' = reports + 1
       \/ UNCHANGED fileVars
    /\ UNCHANGED <<now, daemonVars, sourceVars, pub>>

(* The daemon is killed, and the service started again.                    *)
Restart ==
    /\ pid <= MaxRestarts
    /\ pid' = pid + 1 /\ bootAt' = now
    /\ startedAt' = NoTime /\ beat' = NoTime /\ decision' = NoDecision /\ pub' = NewPub
    /\ writer' = "idle" /\ draft' = NoReport /\ draftAt' = NoTime
    /\ UNCHANGED <<now, fileVars>>

DiagNext ==
    \/ Tick \/ NoteEmhttpPoll \/ BeginRefresh \/ FinishRefresh
    \/ CopyPublished \/ CopyHeartbeat \/ Write
    \/ Restart

DiagSpec == DiagInit /\ [][DiagNext]_diagVars

-----------------------------------------------------------------------------
(* UnraidVsockSensorsDiagnostics.page: the report that it shows.           *)
Belongs_AnyDaemon == TRUE
Belongs == file.pid = pid

Recent == now - file.at <= PageMaxAge

Shown == file # NoReport /\ Belongs /\ Recent

(* A temperature that the page shows as valid was accepted by the          *)
(* collector a bounded time before it is seen: the expiry of its snapshot, *)
(* the time to write a report and the age the page accepts add up.  A      *)
(* collector that is starved, a fallback that reuses its readings, a       *)
(* refresh that fails and a file that can no longer be written all end in  *)
(* another status.                                                         *)
ShownValidIsFresh ==
    Shown => \A d \in DOMAIN file.items : file.items[d].status = "valid" =>
        now - file.items[d].at < DiskTimeout + MaxBuild + PageMaxAge

(* What the page shows was accepted by the daemon that runs: after a       *)
(* restart nothing of the earlier one is shown, recent as it may be.       *)
ShownIsOurs ==
    Shown => \A d \in DOMAIN file.items :
        file.items[d].at # NoTime => file.items[d].at >= bootAt

(* When the page shows both the disks and emhttpd as healthy, emhttpd's    *)
(* heartbeat, read under another lock than the decision that rests on it,  *)
(* is as young in the report as the decision, the refresh that published   *)
(* it late, the expiry of its snapshot and the writing of the report allow.*)
HealthyHasHeartbeat ==
    Shown /\ file.disks = "healthy" /\ file.emhttpd = "healthy" =>
        /\ file.beat # NoTime
        /\ file.at - file.beat
              < file.poll + PollMargin + MaxRefresh + DiskTimeout + MaxBuild

(* What the page shows as valid or healthy was so a bounded time ago.      *)
ShownIsFresh == DiagTypeOK /\ ShownValidIsFresh /\ HealthyHasHeartbeat

=============================================================================
