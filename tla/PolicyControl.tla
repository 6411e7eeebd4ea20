---------------------------- MODULE PolicyControl ----------------------------
(***************************************************************************)
(* Disk policies from the WebUI to the collector: disk_policy.go, the      *)
(* handlers of control_server.go and readInventory of disk.go.             *)
(*                                                                         *)
(* Every HTTP request is a goroutine.  Mutations hold the store's mutex    *)
(* from the read of the policy file to the sync of its directory; each     *)
(* system call on the way may fail.  Lists and the collector read the file *)
(* without the mutex.  A successful mutation asks the collector for a      *)
(* refresh.  The daemon may be stopped, killed or lose power at any point. *)
(***************************************************************************)
EXTENDS Integers, FiniteSets

CONSTANTS Disk, Client,
          Ops               \* requests: set a disk's policy, reset, list

ASSUME OpsAssumption ==
    Ops \subseteq [kind : {"set"}, disk : Disk, policy : {"auto", "include", "exclude"}]
                  \cup [kind : {"reset", "list"}]

VARIABLES
    up,         \* the daemon: "up", "stopping" (listener closed) or "down"
    mu,         \* the clients whose requests hold diskPolicyStore.mu
    req,        \* the request of each client
    file,       \* the policy file as processes see it
    persisted,  \* what the policy file may be after a power loss
    unsynced,   \* the last change of the file lacks its directory sync,
                \* which failed or was cut off
    wanted,     \* the refresh channel holds a request
    cpc,        \* the collector: "idle", "begun" and yet to read the file, or
                \* "collecting" since
    inForce,    \* lastValidPolicies, the collector's policies
    failed      \* a system call has failed since the daemon started

storeVars == <<mu, file, persisted, unsynced, failed>>
collectorVars == <<cpc, inForce>>
vars == <<up, req, wanted, storeVars, collectorVars>>

AllAuto == [d \in Disk |-> "auto"]
Table == [Disk -> {"auto", "include", "exclude"}]

(* The file is absent, holds a table, is not a valid table, or was torn by *)
(* a power loss; a temporary file is written before it is synced.  Only    *)
(* overrides are written; auto is their absence.                           *)
NoFile == [kind |-> "none", table |-> AllAuto]
Holds(t) == [kind |-> "valid", table |-> t]
Temporary(t) == [kind |-> "temporary", table |-> t]
Invalid == [kind |-> "invalid", table |-> AllAuto]
Torn == [kind |-> "torn", table |-> AllAuto]
Readable(f) == f.kind \in {"none", "valid"}

NoOp == [kind |-> "none"]
NoReq == [op |-> NoOp, pc |-> "idle", new |-> NoFile, applied |-> FALSE, answer |-> AllAuto]

TypeOK ==
    LET File == {NoFile, Invalid, Torn} \cup {Holds(t) : t \in Table}
    IN  /\ up \in {"up", "stopping", "down"}
        /\ mu \subseteq Client /\ Cardinality(mu) <= 1
        /\ req \in [Client -> [op : Ops \cup {NoOp},
                               pc : {"idle", "begin", "listed", "locked", "write", "rename", "remove",
                                     "sync", "refresh", "ok", "error"},
                               new : File \cup {Temporary(t) : t \in Table},
                               applied : BOOLEAN, answer : Table]]
        /\ file \in File /\ persisted \subseteq File /\ file \in persisted
        /\ wanted \in BOOLEAN /\ unsynced \in BOOLEAN /\ failed \in BOOLEAN
        /\ cpc \in {"idle", "begun", "collecting"} /\ inForce \in Table

(* A user may have left any file behind.                                   *)
Init ==
    /\ up = "up" /\ mu = {} /\ req = [c \in Client |-> NoReq]
    /\ file \in {NoFile, Invalid, Holds(AllAuto)} /\ persisted = {file}
    /\ unsynced = FALSE /\ failed = FALSE
    /\ wanted = FALSE /\ cpc = "begun" /\ inForce = AllAuto

-----------------------------------------------------------------------------
(* A request is accepted while the listener is open.                       *)
Accept(c) ==
    /\ up = "up" /\ req[c].pc = "idle"
    /\ \E op \in Ops : req' = [req EXCEPT ![c] = [NoReq EXCEPT !.op = op, !.pc = "begin"]]
    /\ UNCHANGED <<up, wanted, storeVars, collectorVars>>

(* handleListDisks reads the policy file without the mutex.                *)
List(c) ==
    /\ req[c].pc = "begin" /\ req[c].op.kind = "list"
    /\ IF Readable(file)
       THEN req' = [req EXCEPT ![c].pc = "listed", ![c].applied = TRUE, ![c].answer = file.table]
       ELSE req' = [req EXCEPT ![c].pc = "error"]
    /\ UNCHANGED <<up, wanted, storeVars, collectorVars>>

(* The inventory is read after the policies, and may fail.                 *)
ListReply(c) ==
    /\ req[c].pc = "listed"
    /\ \E r \in {"ok", "error"} : req' = [req EXCEPT ![c].pc = r]
    /\ UNCHANGED <<up, wanted, storeVars, collectorVars>>

(* A body or a value that the handler refuses with 400.                    *)
Refuse(c) ==
    /\ req[c].pc = "begin" /\ req[c].op.kind = "set"
    /\ req' = [req EXCEPT ![c].pc = "error"]
    /\ UNCHANGED <<up, wanted, storeVars, collectorVars>>

MayLock_Always == TRUE
MayLock == mu = {}

Lock(c) ==
    /\ req[c].pc = "begin" /\ req[c].op.kind # "list" /\ MayLock
    /\ mu' = mu \cup {c}
    /\ req' = [req EXCEPT ![c].pc = "locked"]
    /\ UNCHANGED <<up, file, persisted, unsynced, failed, wanted, collectorVars>>

(* The store returns and releases the mutex, with an error or without.     *)
(* Without a change of its own, a request takes effect here.               *)
ReturnError(c) ==
    /\ mu' = mu \ {c}
    /\ req' = [req EXCEPT ![c].pc = "error"]
ReturnOk(c) ==
    /\ mu' = mu \ {c}
    /\ req' = [req EXCEPT ![c].pc = "refresh", ![c].applied = TRUE]

(* Any system call of the store may fail.                                  *)
Fail(c) ==
    /\ req[c].pc \in {"locked", "write", "rename", "remove", "sync"}
    /\ failed' = TRUE
    /\ unsynced' = (unsynced \/ req[c].pc = "sync")
    /\ ReturnError(c)
    /\ UNCHANGED <<up, file, persisted, wanted, collectorVars>>

(* Set: read the file, refuse an invalid one, do nothing when the policy   *)
(* is already there, otherwise edit the table.                             *)
SetRead(c) ==
    /\ req[c].pc = "locked" /\ req[c].op.kind = "set"
    /\ LET edited == [file.table EXCEPT ![req[c].op.disk] = req[c].op.policy]
       IN  \/ ~Readable(file) /\ ReturnError(c)
           \/ Readable(file) /\ edited = file.table /\ ReturnOk(c)
           \/ /\ Readable(file) /\ edited # file.table
              /\ req' = [req EXCEPT ![c].pc = "write", ![c].new = Temporary(edited)]
              /\ UNCHANGED mu
    /\ UNCHANGED <<up, file, persisted, unsynced, failed, wanted, collectorVars>>

(* writeDiskPoliciesAtomic up to the rename: the temporary file is synced. *)
WriteTemp_Unsynced(c) ==
    /\ req[c].pc = "write"
    /\ req' = [req EXCEPT ![c].pc = "rename"]
    /\ UNCHANGED <<up, wanted, storeVars, collectorVars>>
WriteTemp(c) ==
    /\ req[c].pc = "write"
    /\ req' = [req EXCEPT ![c].pc = "rename", ![c].new = Holds(req[c].new.table)]
    /\ UNCHANGED <<up, wanted, storeVars, collectorVars>>

(* The file changes.  Until the directory is synced, a power loss may undo *)
(* it; a file whose data was not synced may come back torn.                *)
Commit(c, f) ==
    /\ file' = f
    /\ persisted' = persisted \cup {f} \cup
                       (IF req[c].new.kind = "temporary" THEN {Torn} ELSE {})
    /\ req' = [req EXCEPT ![c].pc = "sync", ![c].applied = TRUE, ![c].new = NoFile]
    /\ UNCHANGED <<up, mu, unsynced, failed, wanted, collectorVars>>

Rename(c) == req[c].pc = "rename" /\ Commit(c, Holds(req[c].new.table))

(* Reset: without a file there is nothing to do.  An invalid file is       *)
(* removed like any other.                                                 *)
ResetInspect(c) ==
    /\ req[c].pc = "locked" /\ req[c].op.kind = "reset"
    /\ IF file = NoFile
       THEN ReturnOk(c)
       ELSE req' = [req EXCEPT ![c].pc = "remove"] /\ UNCHANGED mu
    /\ UNCHANGED <<up, file, persisted, unsynced, failed, wanted, collectorVars>>

Remove(c) == req[c].pc = "remove" /\ Commit(c, NoFile)

(* syncDirectory: the change, and every one before it, is on disk.         *)
SyncDirectory_Skipped(c) ==
    /\ req[c].pc = "sync" /\ ReturnOk(c)
    /\ UNCHANGED <<up, file, persisted, unsynced, failed, wanted, collectorVars>>
SyncDirectory(c) ==
    /\ req[c].pc = "sync" /\ ReturnOk(c)
    /\ persisted' = {file} /\ unsynced' = FALSE
    /\ UNCHANGED <<up, file, failed, wanted, collectorVars>>

(* requestDiskRefresh after a successful mutation, then the reply.  A full *)
(* channel already holds a request.                                        *)
Refresh_OnlyIfIdle(c) ==
    /\ req[c].pc = "refresh"
    /\ wanted' = (wanted \/ cpc = "idle")
    /\ req' = [req EXCEPT ![c].pc = "ok"]
    /\ UNCHANGED <<up, storeVars, collectorVars>>
Refresh(c) ==
    /\ req[c].pc = "refresh"
    /\ wanted' = TRUE
    /\ req' = [req EXCEPT ![c].pc = "ok"]
    /\ UNCHANGED <<up, storeVars, collectorVars>>

Reply(c) ==
    /\ req[c].pc \in {"ok", "error"}
    /\ req' = [req EXCEPT ![c] = NoReq]
    /\ UNCHANGED <<up, wanted, storeVars, collectorVars>>

-----------------------------------------------------------------------------
(* The collection goroutine takes a request, or the watchdog fires.        *)
BeginRefresh ==
    /\ up # "down" /\ cpc = "idle" /\ cpc' = "begun"
    /\ \/ wanted /\ wanted' = FALSE
       \/ UNCHANGED wanted
    /\ UNCHANGED <<up, req, storeVars, inForce>>

(* readInventory: a file that cannot be read or is not valid leaves the    *)
(* last valid policies in force.                                           *)
ReadPolicies ==
    /\ cpc = "begun" /\ cpc' = "collecting"
    /\ \/ Readable(file) /\ inForce' = file.table /\ UNCHANGED failed
       \/ ~Readable(file) /\ UNCHANGED <<inForce, failed>>
       \/ failed' = TRUE /\ UNCHANGED inForce
    /\ UNCHANGED <<up, req, wanted, mu, file, persisted, unsynced>>

EndRefresh ==
    /\ cpc = "collecting" /\ cpc' = "idle"
    /\ UNCHANGED <<up, req, wanted, storeVars, inForce>>

-----------------------------------------------------------------------------
(* The daemon's end: its requests, channels and collector are gone.        *)
Halt ==
    /\ up' = "down" /\ mu' = {} /\ wanted' = FALSE /\ failed' = FALSE
    /\ cpc' = "idle" /\ inForce' = AllAuto
    /\ req' = [c \in Client |-> NoReq]

(* SIGTERM closes the listener.  The process exits when the accepted       *)
(* requests have ended, or when the shutdown timeout has passed with some  *)
(* of them still running; a kill ends it at once.                          *)
Stop ==
    /\ up = "up" /\ up' = "stopping"
    /\ UNCHANGED <<req, wanted, storeVars, collectorVars>>

Exit ==
    /\ up # "down" /\ Halt
    /\ unsynced' = (unsynced \/ \E c \in Client : req[c].pc = "sync")
    /\ UNCHANGED <<file, persisted>>

PowerLoss ==
    /\ Halt
    /\ \E f \in persisted : file' = f /\ persisted' = {f}
    /\ unsynced' = FALSE

Start ==
    /\ up = "down" /\ up' = "up" /\ cpc' = "begun"
    /\ UNCHANGED <<req, wanted, storeVars, inForce>>

Next ==
    \/ \E c \in Client :
          \/ Accept(c) \/ List(c) \/ ListReply(c) \/ Refuse(c) \/ Lock(c) \/ Fail(c)
          \/ SetRead(c) \/ WriteTemp(c) \/ Rename(c)
          \/ ResetInspect(c) \/ Remove(c) \/ SyncDirectory(c)
          \/ Refresh(c) \/ Reply(c)
    \/ BeginRefresh \/ ReadPolicies \/ EndRefresh
    \/ Stop \/ Exit \/ PowerLoss \/ Start

Spec == Init /\ [][Next]_vars

-----------------------------------------------------------------------------
(* Whatever happens, the store behaves as one table that requests change   *)
(* one at a time: no update is lost between two requests, a successful     *)
(* reply means that the change was made, a list shows one state of the     *)
(* table between its call and its reply, and a power loss brings back no   *)
(* table but those that were current since the last sync.                  *)
Register == INSTANCE PolicyRegister WITH
    policies <- file.table,
    past <- {f.table : f \in persisted},
    call <- [c \in Client |-> [op |-> req[c].op, applied |-> req[c].applied,
                               reply |-> IF req[c].pc \in {"ok", "error"} THEN req[c].pc ELSE "none",
                               answer |-> req[c].answer]]

ImplementsRegister == Register!Spec

(* A crash never leaves a truncated file.                                  *)
NeverTorn == Torn \notin persisted /\ file # Torn

(* Once nothing is under way, the collector uses the policies in the file, *)
(* unless a system call has failed: every change asks for a refresh after  *)
(* the file has changed, so none is swallowed by a refresh that has read.  *)
CollectorCurrent ==
    /\ up # "down" /\ ~failed /\ Readable(file)
    /\ cpc = "idle" /\ ~wanted /\ \A c \in Client : req[c].pc \in {"idle", "ok", "error"}
    => inForce = file.table

(* When the store returns without an error, no power loss can undo what    *)
(* the request asked for ("The parent directory is synced after the rename *)
(* to make the replacement durable", writeDiskPoliciesAtomic).  The one    *)
(* exception follows a sync that failed: repeating the request finds its   *)
(* policy in place, and returns without syncing it.                        *)
Kept(c, f) == Readable(f) /\ Register!Effect(req[c].op, f.table) = f.table
ReturnsOk(c) == req[c].pc # "refresh" /\ req'[c].pc = "refresh"

DurableUnlessSyncFailed ==
    [][\A c \in Client : ReturnsOk(c) /\ ~unsynced => \A f \in persisted' : Kept(c, f)]_vars

(* The file is whole after any crash, and the collector follows it.        *)
FileInForce == TypeOK /\ NeverTorn /\ CollectorCurrent

=============================================================================
