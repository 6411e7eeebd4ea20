------------------------- MODULE PolicyControlProofs -------------------------
(***************************************************************************)
(* The safety properties of PolicyControl, and that it implements          *)
(* PolicyRegister, for any sets of disks, clients and requests.            *)
(***************************************************************************)
EXTENDS PolicyControl, FiniteSetTheorems, TLAPS

File == {NoFile, Invalid, Torn} \cup {Holds(t) : t \in Table}
Critical == {"locked", "write", "rename", "remove", "sync"}

(* The mutex has one holder: the one request inside the store.             *)
LockInv ==
    /\ mu = {} \/ \E c \in Client : mu = {c}
    /\ \A c \in Client : c \in mu <=> req[c].pc \in Critical

(* What a request at each point has done and is about to do.               *)
Progress(c) ==
    LET r == req[c] IN
    /\ r.pc = "idle" <=> r.op = NoOp
    /\ r.pc = "idle" => r = NoReq
    /\ r.pc \in {"begin", "locked", "write", "rename", "remove"} => ~r.applied
    /\ r.pc \in {"listed", "sync", "refresh", "ok"} => r.applied
    /\ r.pc \in {"locked", "sync"} => r.op.kind # "list"
    /\ r.pc \in {"write", "rename"} =>
          /\ r.op.kind = "set" /\ Readable(file)
          /\ r.new.table = [file.table EXCEPT ![r.op.disk] = r.op.policy]
    /\ r.pc = "rename" => r.new.kind = "valid"
    /\ r.pc \in {"begin", "locked", "remove"} => r.new = NoFile
    /\ r.pc = "remove" => r.op.kind = "reset"
    /\ r.pc = "sync" => Kept(c, file)
ProgressInv == \A c \in Client : Progress(c)

(* A power loss brings back the file as it is, unless its last change      *)
(* waits for its sync or missed it.                                        *)
PersistedInv ==
    /\ Torn \notin persisted
    /\ ~unsynced /\ (\A c \in Client : req[c].pc # "sync") => persisted = {file}

(* A change that the collector does not know of is on its way to it.       *)
CurrentInv ==
    up # "down" /\ ~failed /\ Readable(file) =>
        \/ inForce = file.table
        \/ wanted \/ cpc = "begun"
        \/ \E c \in Client : req[c].pc \in {"sync", "refresh"}

IndInv == TypeOK /\ LockInv /\ ProgressInv /\ PersistedInv /\ CurrentInv

-----------------------------------------------------------------------------
Pc == {"idle", "begin", "listed", "locked", "write", "rename", "remove", "sync", "refresh",
       "ok", "error"}
NewFile == File \cup {Temporary(t) : t \in Table}
ReqType == [op : Ops \cup {NoOp}, pc : Pc, new : NewFile, applied : BOOLEAN, answer : Table]

(* The types, conjunct by conjunct, and what is known of a request and of  *)
(* a file.                                                                 *)
Typed ==
    /\ up \in {"up", "stopping", "down"}
    /\ mu \subseteq Client /\ Cardinality(mu) <= 1
    /\ req \in [Client -> ReqType]
    /\ file \in File /\ persisted \subseteq File /\ file \in persisted
    /\ wanted \in BOOLEAN /\ unsynced \in BOOLEAN /\ failed \in BOOLEAN
    /\ cpc \in {"idle", "begun", "collecting"} /\ inForce \in Table

(* The type invariant is these conjuncts.                                  *)
LEMMA Types == (TypeOK <=> Typed) /\ (TypeOK' <=> Typed')
BY DEF TypeOK, Typed, ReqType, Pc, NewFile, File

(* The tables that files hold, and which files are readable.               *)
LEMMA Files ==
    /\ AllAuto \in Table /\ {NoFile, Invalid, Torn} \subseteq File
    /\ \A t \in Table : /\ Holds(t) \in File /\ Temporary(t) \in NewFile
                        /\ Holds(t) # Torn /\ Readable(Holds(t)) /\ Holds(t).table = t
    /\ \A f \in File : f.table \in Table /\ f \in NewFile
    /\ \A f \in NewFile : f.table \in Table
    /\ NoFile # Torn /\ Invalid # Torn /\ Readable(NoFile) /\ NoFile.table = AllAuto
<1>1. AllAuto \in Table
  BY DEF AllAuto, Table
<1>2. \A t \in Table : /\ Holds(t) \in File /\ Temporary(t) \in NewFile
                       /\ Holds(t) # Torn /\ Readable(Holds(t)) /\ Holds(t).table = t
  BY DEF File, NewFile, Holds, Temporary, Readable, Torn
<1>3. \A f \in File : f.table \in Table /\ f \in NewFile
  BY <1>1 DEF File, NewFile, NoFile, Invalid, Torn, Holds
<1>4. \A f \in NewFile : f.table \in Table
  BY <1>3 DEF NewFile, Temporary
<1>5. {NoFile, Invalid, Torn} \subseteq File
  BY DEF File
<1>6. NoFile # Torn /\ Invalid # Torn /\ Readable(NoFile) /\ NoFile.table = AllAuto
  BY DEF NoFile, Torn, Invalid, Readable
<1> QED
  BY <1>1, <1>2, <1>3, <1>4, <1>5, <1>6

(* The requests that clients send, and a client without one.               *)
LEMMA Requests ==
    /\ NoReq \in ReqType /\ NoOp \notin Ops
    /\ \A op \in Ops : /\ op.kind \in {"set", "reset", "list"}
                       /\ op.kind = "set" =>
                             op.disk \in Disk /\ op.policy \in {"auto", "include", "exclude"}
<1>1. NoReq \in ReqType
  BY Files DEF NoReq, ReqType, Pc, NewFile
<1>2. \A op \in Ops : /\ op.kind \in {"set", "reset", "list"}
                      /\ op.kind = "set" =>
                            op.disk \in Disk /\ op.policy \in {"auto", "include", "exclude"}
  BY OpsAssumption
<1> QED
  BY <1>1, <1>2 DEF NoOp

(* A client without a request is idle.                                     *)
LEMMA Idle ==
    NoReq.pc = "idle" /\ NoReq.op = NoOp /\ ~NoReq.applied /\ NoReq.new = NoFile
BY DEF NoReq

(* A table stays a table when one disk's policy is set.                    *)
LEMMA Edited ==
    ASSUME NEW t \in Table, NEW op \in Ops, op.kind = "set"
    PROVE  [t EXCEPT ![op.disk] = op.policy] \in Table
BY Requests DEF Table

(* The service starts in a well-typed state.                               *)
LEMMA TypeInit == Init => TypeOK
<1> SUFFICES ASSUME Init PROVE TypeOK
  OBVIOUS
<1>1. file \in File /\ persisted \subseteq File /\ file \in persisted
  BY Files DEF Init
<1>2. mu \subseteq Client /\ Cardinality(mu) <= 1
  BY FS_EmptySet DEF Init
<1>3. req \in [Client -> ReqType]
  BY Requests DEF Init
<1> QED
  BY <1>1, <1>2, <1>3, Files, Types DEF Typed, Init

(* A request changes only its own record, and keeps its type.              *)
LEMMA OneRequest ==
    ASSUME TypeOK, NEW c \in Client,
           \/ Accept(c) \/ List(c) \/ ListReply(c) \/ Refuse(c) \/ Lock(c) \/ Fail(c)
           \/ SetRead(c) \/ WriteTemp(c) \/ Rename(c) \/ ResetInspect(c) \/ Remove(c)
           \/ SyncDirectory(c) \/ Refresh(c) \/ Reply(c)
    PROVE  /\ req' \in [Client -> ReqType]
           /\ \A d \in Client \ {c} : req'[d] = req[d]
<1>a. req \in [Client -> ReqType] /\ file \in File /\ NoReq \in ReqType
  BY Types, Requests DEF Typed
<1>b. file.table \in Table
  BY <1>a, Files
<1> USE DEF ReqType, Pc
<1>1. CASE Accept(c)
  <2>1. PICK op \in Ops : req' = [req EXCEPT ![c] = [NoReq EXCEPT !.op = op, !.pc = "begin"]]
    BY <1>1 DEF Accept
  <2>2. [NoReq EXCEPT !.op = op, !.pc = "begin"] \in ReqType
    BY <1>a
  <2> QED
    BY <1>a, <2>1, <2>2
<1>2. CASE List(c)
  BY <1>2, <1>a, <1>b DEF List
<1>3. CASE ListReply(c) \/ Refuse(c) \/ Lock(c) \/ Refresh(c)
  BY <1>3, <1>a DEF ListReply, Refuse, Lock, Refresh
<1>4. CASE Fail(c)
  BY <1>4, <1>a DEF Fail, ReturnError
<1>5. CASE SetRead(c)
  <2>1. req[c].op \in Ops /\ req[c].op.kind = "set"
    BY <1>5, <1>a DEF SetRead, NoOp
  <2> DEFINE edited == [file.table EXCEPT ![req[c].op.disk] = req[c].op.policy]
  <2>2. Temporary(edited) \in NewFile
    BY <1>b, <2>1, Edited, Files
  <2>3. \/ ReturnError(c) \/ ReturnOk(c)
        \/ req' = [req EXCEPT ![c].pc = "write", ![c].new = Temporary(edited)]
    BY <1>5 DEF SetRead
  <2> HIDE DEF edited
  <2> QED
    BY <1>a, <2>2, <2>3 DEF ReturnError, ReturnOk
<1>6. CASE WriteTemp(c)
  <2>1. Holds(req[c].new.table) \in NewFile
    BY <1>a, Files
  <2> QED
    BY <1>6, <1>a, <2>1 DEF WriteTemp
<1>7. CASE Rename(c) \/ Remove(c)
  <2>1. NoFile \in NewFile
    BY Files
  <2> QED
    BY <1>7, <1>a, <2>1 DEF Rename, Remove, Commit
<1>8. CASE ResetInspect(c)
  BY <1>8, <1>a DEF ResetInspect, ReturnOk
<1>9. CASE SyncDirectory(c)
  BY <1>9, <1>a DEF SyncDirectory, ReturnOk
<1>10. CASE Reply(c)
  BY <1>10, <1>a DEF Reply
<1> QED
  BY <1>1, <1>2, <1>3, <1>4, <1>5, <1>6, <1>7, <1>8, <1>9, <1>10

-----------------------------------------------------------------------------
(* The mutex admits one request at a time into the store and is released   *)
(* on every way out.                                                       *)
LEMMA LockStep == TypeOK /\ LockInv /\ [Next]_vars => LockInv'
<1> SUFFICES ASSUME TypeOK, LockInv, [Next]_vars PROVE LockInv'
  OBVIOUS
<1>a. req \in [Client -> ReqType] /\ mu \subseteq Client
  BY Types DEF Typed
<1>b. ASSUME mu' = mu, \A d \in Client : req'[d].pc \in Critical <=> req[d].pc \in Critical
      PROVE  LockInv'
  BY <1>b DEF LockInv
<1>c. ASSUME NEW c \in Client, mu' = mu \ {c}, req'[c].pc \notin Critical,
             \A d \in Client \ {c} : req'[d] = req[d]
      PROVE  LockInv'
  BY <1>c DEF LockInv
<1>1. ASSUME NEW c \in Client,
             Accept(c) \/ List(c) \/ ListReply(c) \/ Refuse(c) \/ WriteTemp(c)
             \/ Rename(c) \/ Remove(c) \/ Refresh(c) \/ Reply(c)
      PROVE  LockInv'
  <2>1. \A d \in Client \ {c} : req'[d] = req[d]
    BY <1>1, OneRequest
  <2>2. mu' = mu
    BY <1>1 DEF Accept, List, ListReply, Refuse, WriteTemp, Rename, Remove, Commit, Refresh,
                Reply, storeVars
  <2>3. req'[c].pc \in Critical <=> req[c].pc \in Critical
    <3>1. CASE Accept(c) \/ Reply(c)
      <4>1. req[c].pc \in {"idle", "ok", "error"}
        BY <3>1 DEF Accept, Reply
      <4>2. req'[c].pc \in {"idle", "begin"}
        <5>1. \A op : [NoReq EXCEPT !.op = op, !.pc = "begin"].pc = "begin"
          BY DEF NoReq
        <5>2. NoReq.pc = "idle"
          BY DEF NoReq
        <5> QED
          BY <3>1, <1>a, <5>1, <5>2 DEF Accept, Reply
      <4> QED
        BY <4>1, <4>2 DEF Critical
    <3>2. CASE List(c) \/ ListReply(c) \/ Refuse(c) \/ Refresh(c)
      BY <3>2, <1>a DEF List, ListReply, Refuse, Refresh, Critical, ReqType
    <3>3. CASE WriteTemp(c) \/ Rename(c) \/ Remove(c)
      BY <3>3, <1>a DEF WriteTemp, Rename, Remove, Commit, Critical, ReqType
    <3> QED
      BY <1>1, <3>1, <3>2, <3>3
  <2> QED
    BY <1>b, <2>1, <2>2, <2>3
<1>2. ASSUME NEW c \in Client, Lock(c) PROVE LockInv'
  <2>1. mu = {} /\ mu' = {c} /\ req'[c].pc = "locked" /\ \A d \in Client \ {c} : req'[d] = req[d]
    BY <1>2, <1>a DEF Lock, MayLock, ReqType
  <2> QED
    BY <2>1 DEF LockInv, Critical
<1>3. ASSUME NEW c \in Client, Fail(c) PROVE LockInv'
  BY <1>3, <1>a, <1>c DEF Fail, ReturnError, ReqType, Critical
<1>4. ASSUME NEW c \in Client, SetRead(c) PROVE LockInv'
  <2>1. CASE ReturnError(c) \/ ReturnOk(c)
    BY <2>1, <1>a, <1>c DEF ReturnError, ReturnOk, ReqType, Critical
  <2>2. CASE mu' = mu /\ req[c].pc = "locked" /\ req'[c].pc = "write"
    BY <1>4, <2>2, <1>b, OneRequest DEF Critical
  <2> QED
    BY <1>4, <1>a, <2>1, <2>2 DEF SetRead, ReqType
<1>5. ASSUME NEW c \in Client, ResetInspect(c) PROVE LockInv'
  <2>1. CASE ReturnOk(c)
    BY <2>1, <1>a, <1>c DEF ReturnOk, ReqType, Critical
  <2>2. CASE mu' = mu /\ req[c].pc = "locked" /\ req'[c].pc = "remove"
    BY <1>5, <2>2, <1>b, OneRequest DEF Critical
  <2> QED
    BY <1>5, <1>a, <2>1, <2>2 DEF ResetInspect, ReqType
<1>6. ASSUME NEW c \in Client, SyncDirectory(c) PROVE LockInv'
  BY <1>6, <1>a, <1>c DEF SyncDirectory, ReturnOk, ReqType, Critical
<1>7. CASE BeginRefresh \/ ReadPolicies \/ EndRefresh \/ Stop \/ Start
  BY <1>7, <1>b DEF BeginRefresh, ReadPolicies, EndRefresh, Stop, Start, storeVars
<1>8. CASE Exit \/ PowerLoss
  <2>1. mu' = {} /\ \A d \in Client : req'[d].pc = "idle"
    BY <1>8 DEF Exit, PowerLoss, Halt, NoReq
  <2> QED
    BY <2>1 DEF LockInv, Critical
<1>9. CASE UNCHANGED vars
  BY <1>9, <1>b DEF vars, storeVars
<1> QED
  BY <1>1, <1>2, <1>3, <1>4, <1>5, <1>6, <1>7, <1>8, <1>9 DEF Next

(* Every step keeps the types: a file is written only from a table.        *)
LEMMA TypeStep == TypeOK /\ LockInv /\ ProgressInv /\ [Next]_vars => TypeOK'
<1> SUFFICES ASSUME TypeOK, LockInv, ProgressInv, [Next]_vars PROVE TypeOK'
  OBVIOUS
<1>a. /\ req \in [Client -> ReqType] /\ mu \subseteq Client /\ file \in File
      /\ persisted \subseteq File /\ file \in persisted /\ inForce \in Table
  BY Types DEF Typed
<1>b. mu' \subseteq Client /\ Cardinality(mu') <= 1
  <2>1. mu' = {} \/ \E c \in Client : mu' = {c}
    BY LockStep DEF LockInv
  <2> QED
    BY <2>1, FS_EmptySet, FS_Singleton
<1>1. ASSUME NEW c \in Client,
             Accept(c) \/ List(c) \/ ListReply(c) \/ Refuse(c) \/ Lock(c) \/ Fail(c)
             \/ SetRead(c) \/ WriteTemp(c) \/ ResetInspect(c) \/ SyncDirectory(c)
             \/ Refresh(c) \/ Reply(c)
      PROVE  TypeOK'
  <2>1. req' \in [Client -> ReqType]
    BY <1>1, OneRequest
  <2>2. file' = file /\ persisted' \in {persisted, {file}} /\ cpc' = cpc /\ inForce' = inForce
        /\ up' = up
    BY <1>1 DEF Accept, List, ListReply, Refuse, Lock, Fail, SetRead, WriteTemp, ResetInspect,
                SyncDirectory, Refresh, Reply, storeVars, collectorVars
  <2>3. wanted' \in {TRUE, wanted} /\ failed' \in {TRUE, failed}
    BY <1>1 DEF Accept, List, ListReply, Refuse, Lock, Fail, SetRead, WriteTemp, ResetInspect,
                SyncDirectory, Refresh, Reply, storeVars, collectorVars
  <2>4. unsynced' \in BOOLEAN
    <3>1. CASE Fail(c)
      BY <3>1, Zenon DEF Fail
    <3>2. CASE ~Fail(c)
      <4>1. unsynced' \in {unsynced, FALSE}
        BY <1>1, <3>2 DEF Accept, List, ListReply, Refuse, Lock, SetRead, WriteTemp,
                          ResetInspect, SyncDirectory, Refresh, Reply, storeVars
      <4> QED
        BY <4>1, Types DEF Typed
    <3> QED
      BY <3>1, <3>2
  <2>5. persisted' \subseteq File /\ file' \in persisted'
    BY <1>a, <2>2
  <2> QED
    BY <1>a, <1>b, <2>1, <2>2, <2>3, <2>4, <2>5, Types DEF Typed
<1>2. ASSUME NEW c \in Client, Rename(c) \/ Remove(c) PROVE TypeOK'
  <2>1. req' \in [Client -> ReqType]
    BY <1>2, OneRequest
  <2>2. PICK f \in File : Commit(c, f)
    <3>1. Holds(req[c].new.table) \in File
      BY <1>a, Files DEF ReqType
    <3> QED
      BY <1>2, <3>1, Files DEF Rename, Remove
  <2>3. persisted' \subseteq File /\ file' \in persisted' /\ file' \in File
    BY <1>a, <2>2, Files DEF Commit
  <2> QED
    BY <1>a, <1>b, <2>1, <2>2, <2>3, Types DEF Typed, Commit, collectorVars
<1>3. CASE BeginRefresh
  BY <1>3, <1>b, Types DEF Typed, BeginRefresh, storeVars
<1>4. CASE ReadPolicies
  <2>1. inForce' \in Table
    BY <1>4, <1>a, Files DEF ReadPolicies
  <2> QED
    BY <1>4, <1>b, <2>1, Types DEF Typed, ReadPolicies
<1>5. CASE EndRefresh \/ Stop \/ Start
  BY <1>5, <1>b, Types DEF Typed, EndRefresh, Stop, Start, storeVars, collectorVars
<1>6. CASE Exit
  <2>1. unsynced' \in BOOLEAN
    BY <1>6, Zenon DEF Exit
  <2> QED
    BY <1>6, <1>a, <1>b, <2>1, Files, Requests, Types DEF Typed, Exit, Halt
<1>7. CASE PowerLoss
  BY <1>7, <1>a, <1>b, Files, Requests, Types DEF Typed, PowerLoss, Halt
<1>8. CASE UNCHANGED vars
  BY <1>8, <1>b, Types DEF Typed, vars, storeVars, collectorVars
<1> QED
  BY <1>1, <1>2, <1>3, <1>4, <1>5, <1>6, <1>7, <1>8 DEF Next

-----------------------------------------------------------------------------
(* Every request goes through the store's steps in order, and the file it  *)
(* has read is still there when it renames or removes it.                  *)
LEMMA ProgressStep == TypeOK /\ LockInv /\ ProgressInv /\ [Next]_vars => ProgressInv'
<1> SUFFICES ASSUME TypeOK, LockInv, ProgressInv, [Next]_vars PROVE ProgressInv'
  OBVIOUS
<1>a. /\ req \in [Client -> ReqType] /\ mu \subseteq Client /\ file \in File
      /\ file.table \in Table
  BY Types, Files DEF Typed
<1>b. ASSUME NEW c \in Client, file' = file, Progress(c)',
             \A d \in Client \ {c} : req'[d] = req[d]
      PROVE  ProgressInv'
  <2> SUFFICES ASSUME NEW d \in Client, d # c PROVE Progress(d)'
    BY <1>b DEF ProgressInv
  <2>1. req'[d] = req[d] /\ Progress(d)
    BY <1>b DEF ProgressInv
  <2> QED
    BY <1>b, <2>1 DEF Progress, Kept, Readable, Register!Effect
<1>c. ASSUME NEW c \in Client, req[c].op \in Ops, req[c].op.kind \in {"set", "reset"},
             NEW f \in File, Readable(f), f.table = Register!Effect(req[c].op, file.table),
             Commit(c, f), req[c].pc \in {"rename", "remove"}
      PROVE  ProgressInv'
  <2>1. /\ file' = f /\ req' = [req EXCEPT ![c].pc = "sync", ![c].applied = TRUE, ![c].new = NoFile]
    BY <1>c DEF Commit
  <2>2. /\ req'[c].pc = "sync" /\ req'[c].applied /\ req'[c].new = NoFile /\ req'[c].op = req[c].op
        /\ \A d \in Client \ {c} : req'[d] = req[d]
    BY <1>a, <2>1 DEF ReqType
  <2>3. Register!Effect(req[c].op, f.table) = f.table
    BY <1>a, <1>c, Requests DEF Register!Effect, Table
  <2>4. Progress(c)'
    <3>1. Kept(c, file)'
      BY <1>c, <2>1, <2>2, <2>3 DEF Kept, Readable
    <3> QED
      BY <1>c, <2>2, <3>1, Requests DEF Progress
  <2>5. ASSUME NEW d \in Client, d # c PROVE Progress(d)'
    <3>1. req'[d] = req[d] /\ Progress(d)
      BY <2>2, <2>5 DEF ProgressInv
    <3>2. req[d].pc \notin Critical
      <4>1. c \in mu
        BY <1>c DEF LockInv, Critical
      <4>2. mu = {c}
        BY <4>1 DEF LockInv
      <4> QED
        BY <2>5, <4>2 DEF LockInv
    <3> QED
      BY <3>1, <3>2 DEF Progress, Critical
  <2> QED
    BY <2>4, <2>5 DEF ProgressInv
<1>1. ASSUME NEW c \in Client, Accept(c) PROVE ProgressInv'
  <2>1. PICK op \in Ops : req' = [req EXCEPT ![c] = [NoReq EXCEPT !.op = op, !.pc = "begin"]]
    BY <1>1 DEF Accept
  <2>2. /\ req'[c].op = op /\ req'[c].pc = "begin" /\ ~req'[c].applied /\ req'[c].new = NoFile
    BY <1>a, <2>1 DEF NoReq
  <2>3. Progress(c)'
    BY <2>2, Requests DEF Progress
  <2> QED
    BY <1>1, <1>b, <2>3, OneRequest DEF Accept, storeVars
<1>2. ASSUME NEW c \in Client, List(c) \/ ListReply(c) \/ Refuse(c) \/ Lock(c) \/ Refresh(c)
      PROVE  ProgressInv'
  <2>1. /\ Progress(c) /\ file' = file /\ \A d \in Client \ {c} : req'[d] = req[d]
    BY <1>2, OneRequest DEF ProgressInv, List, ListReply, Refuse, Lock, Refresh, storeVars
  <2>2. /\ req'[c].op = req[c].op /\ req'[c].new = req[c].new
        /\ req'[c].pc \in {"listed", "ok", "error", "locked"}
        /\ req[c].pc \in {"begin", "listed", "refresh"}
        /\ req'[c].pc = "locked" =>
              req[c].pc = "begin" /\ req[c].op.kind # "list" /\ req'[c].applied = req[c].applied
        /\ req'[c].pc = "listed" => req'[c].applied
        /\ req'[c].pc = "ok" => req'[c].applied = req[c].applied /\ req[c].pc # "begin"
    BY <1>2, <1>a DEF List, ListReply, Refuse, Lock, Refresh, ReqType
  <2>3. Progress(c)'
    BY <2>1, <2>2 DEF Progress
  <2> QED
    BY <1>b, <2>1, <2>3
<1>3. ASSUME NEW c \in Client,
             Fail(c) \/ SetRead(c) \/ WriteTemp(c) \/ ResetInspect(c) \/ SyncDirectory(c)
      PROVE  ProgressInv'
  <2>1. /\ Progress(c) /\ file' = file /\ \A d \in Client \ {c} : req'[d] = req[d]
    BY <1>3, OneRequest DEF ProgressInv, Fail, SetRead, WriteTemp, ResetInspect, SyncDirectory,
                            storeVars
  <2>2. req[c].pc \in Critical
    BY <1>3 DEF Fail, SetRead, WriteTemp, ResetInspect, SyncDirectory, Critical
  <2>3. CASE ReturnError(c) \/ ReturnOk(c)
    <3>1. /\ req'[c].op = req[c].op /\ req'[c].pc \in {"error", "refresh"}
          /\ req'[c].pc = "refresh" => req'[c].applied
      BY <2>3, <1>a DEF ReturnError, ReturnOk, ReqType
    <3> QED
      BY <1>b, <2>1, <2>2, <3>1 DEF Progress, Critical
  <2>4. CASE WriteTemp(c)
    <3>1. /\ req'[c].op = req[c].op /\ req'[c].pc = "rename" /\ req'[c].applied = req[c].applied
          /\ req'[c].new.kind = "valid" /\ req'[c].new.table = req[c].new.table
          /\ req[c].pc = "write"
      BY <2>4, <1>a DEF WriteTemp, ReqType, Holds
    <3>2. Progress(c)'
      BY <2>1, <3>1 DEF Progress, Readable
    <3> QED
      BY <1>b, <2>1, <3>2
  <2>5. CASE SetRead(c) /\ ~ReturnError(c) /\ ~ReturnOk(c)
    <3> DEFINE edited == [file.table EXCEPT ![req[c].op.disk] = req[c].op.policy]
    <3>1. /\ Readable(file) /\ req[c].pc = "locked" /\ req[c].op.kind = "set"
          /\ req' = [req EXCEPT ![c].pc = "write", ![c].new = Temporary(edited)]
      BY <2>5 DEF SetRead
    <3>2. Temporary(edited).table = edited
      BY DEF Temporary
    <3> HIDE DEF edited
    <3>3. /\ req'[c].op = req[c].op /\ req'[c].pc = "write" /\ req'[c].applied = req[c].applied
          /\ req'[c].new.table = edited
      BY <1>a, <3>1, <3>2 DEF ReqType
    <3>4. Progress(c)'
      BY <2>1, <3>1, <3>3 DEF Progress, Readable, edited
    <3> QED
      BY <1>b, <2>1, <3>4
  <2>6. CASE ResetInspect(c) /\ ~ReturnOk(c)
    <3>1. /\ req[c].pc = "locked" /\ req[c].op.kind = "reset"
          /\ req' = [req EXCEPT ![c].pc = "remove"]
      BY <2>6 DEF ResetInspect
    <3>2. /\ req'[c].op = req[c].op /\ req'[c].pc = "remove" /\ req'[c].applied = req[c].applied
          /\ req'[c].new = req[c].new
      BY <1>a, <3>1 DEF ReqType
    <3>3. Progress(c)'
      BY <2>1, <3>1, <3>2 DEF Progress
    <3> QED
      BY <1>b, <2>1, <3>3
  <2> QED
    BY <1>3, <2>3, <2>4, <2>5, <2>6 DEF Fail, SyncDirectory
<1>4. ASSUME NEW c \in Client, Rename(c) PROVE ProgressInv'
  <2>1. /\ req[c].pc = "rename" /\ req[c].op.kind = "set" /\ req[c].op \in Ops
        /\ req[c].new.table = [file.table EXCEPT ![req[c].op.disk] = req[c].op.policy]
    BY <1>4, <1>a DEF Rename, ProgressInv, Progress, ReqType, NoOp
  <2>2. /\ req[c].new.table \in Table
        /\ req[c].new.table = Register!Effect(req[c].op, file.table)
    BY <1>a, <2>1, Edited DEF Register!Effect
  <2> QED
    BY <1>4, <1>c, <2>1, <2>2, Files DEF Rename
<1>5. ASSUME NEW c \in Client, Remove(c) PROVE ProgressInv'
  <2>1. req[c].pc = "remove" /\ req[c].op.kind = "reset" /\ req[c].op \in Ops
    BY <1>5, <1>a DEF Remove, ProgressInv, Progress, ReqType, NoOp
  <2>2. NoFile.table = Register!Effect(req[c].op, file.table)
    BY <2>1 DEF Register!Effect, Register!AllAuto, NoFile, AllAuto
  <2> QED
    BY <1>5, <1>c, <2>1, <2>2, Files DEF Remove
<1>6. ASSUME NEW c \in Client, Reply(c) PROVE ProgressInv'
  <2>1. req'[c] = NoReq /\ \A d \in Client \ {c} : req'[d] = req[d]
    BY <1>6, <1>a DEF Reply
  <2>2. Progress(c)'
    BY <2>1 DEF Progress, NoReq, NoOp
  <2> QED
    BY <1>6, <1>b, <2>1, <2>2 DEF Reply, storeVars
<1>7. CASE UNCHANGED <<req, file>>
  BY <1>7 DEF ProgressInv, Progress, Kept, Readable, Register!Effect
<1>8. CASE BeginRefresh \/ ReadPolicies \/ EndRefresh \/ Stop \/ Start \/ UNCHANGED vars
  BY <1>7, <1>8 DEF BeginRefresh, ReadPolicies, EndRefresh, Stop, Start, vars, storeVars
<1>9. CASE Exit \/ PowerLoss
  <2>1. \A d \in Client : req'[d] = NoReq
    BY <1>9 DEF Exit, PowerLoss, Halt
  <2>2. ASSUME NEW d \in Client PROVE Progress(d)'
    BY <2>1, Idle DEF Progress
  <2> QED
    BY <2>2 DEF ProgressInv
<1> QED
  BY <1>1, <1>2, <1>3, <1>4, <1>5, <1>6, <1>8, <1>9 DEF Next

(* What a power loss can bring back.                                       *)
LEMMA PersistedStep ==
    TypeOK /\ ProgressInv /\ PersistedInv /\ [Next]_vars => PersistedInv'
<1> SUFFICES ASSUME TypeOK, ProgressInv, PersistedInv, [Next]_vars PROVE PersistedInv'
  OBVIOUS
<1>a. /\ req \in [Client -> ReqType] /\ file \in persisted /\ file # Torn
  BY Types DEF Typed, PersistedInv
<1>b. ASSUME UNCHANGED <<file, persisted, unsynced>>,
             \A d \in Client : req[d].pc = "sync" => req'[d].pc = "sync"
      PROVE  PersistedInv'
  BY <1>b DEF PersistedInv
<1>1. ASSUME NEW c \in Client,
             Accept(c) \/ List(c) \/ ListReply(c) \/ Refuse(c) \/ Lock(c)
             \/ SetRead(c) \/ WriteTemp(c) \/ ResetInspect(c) \/ Refresh(c) \/ Reply(c)
      PROVE  PersistedInv'
  <2>1. \A d \in Client \ {c} : req'[d] = req[d]
    BY <1>1, OneRequest
  <2>2. /\ UNCHANGED <<file, persisted, unsynced>> /\ req[c].pc # "sync"
    BY <1>1 DEF Accept, List, ListReply, Refuse, Lock, SetRead, WriteTemp, ResetInspect,
                Refresh, Reply, storeVars
  <2> QED
    BY <1>b, <2>1, <2>2
<1>2. ASSUME NEW c \in Client, Fail(c) PROVE PersistedInv'
  <2>1. \A d \in Client \ {c} : req'[d] = req[d]
    BY <1>2, OneRequest
  <2>2. UNCHANGED <<file, persisted>> /\ (unsynced' <=> unsynced \/ req[c].pc = "sync")
    BY <1>2, Zenon DEF Fail
  <2> QED
    BY <2>1, <2>2 DEF PersistedInv
<1>3. ASSUME NEW c \in Client, Rename(c) \/ Remove(c) PROVE PersistedInv'
  <2>1. PICK f : Commit(c, f) /\ f # Torn
    <3>1. req[c].new.table \in Table
      BY <1>a, Files DEF ReqType
    <3> QED
      BY <1>3, <3>1, Files DEF Rename, Remove
  <2>2. req[c].new.kind # "temporary"
    <3>1. Progress(c)
      BY DEF ProgressInv
    <3>2. NoFile.kind = "none"
      BY DEF NoFile
    <3>3. CASE req[c].pc = "rename"
      BY <3>1, <3>3 DEF Progress
    <3>4. CASE req[c].pc = "remove"
      BY <3>1, <3>2, <3>4 DEF Progress
    <3> QED
      BY <1>3, <3>3, <3>4 DEF Rename, Remove
  <2>3. Torn \notin persisted' /\ req'[c].pc = "sync"
    BY <1>a, <2>1, <2>2 DEF Commit, PersistedInv, ReqType
  <2> QED
    BY <2>3 DEF PersistedInv
<1>4. ASSUME NEW c \in Client, SyncDirectory(c) PROVE PersistedInv'
  BY <1>4, <1>a DEF SyncDirectory, PersistedInv
<1>5. CASE BeginRefresh \/ ReadPolicies \/ EndRefresh \/ Stop \/ Start \/ UNCHANGED vars
  BY <1>5, <1>b DEF BeginRefresh, ReadPolicies, EndRefresh, Stop, Start, vars, storeVars
<1>6. CASE Exit
  <2>1. UNCHANGED <<file, persisted>>
        /\ (unsynced' <=> unsynced \/ \E c \in Client : req[c].pc = "sync")
    BY <1>6, Zenon DEF Exit
  <2> QED
    BY <2>1 DEF PersistedInv
<1>7. CASE PowerLoss
  BY <1>7 DEF PowerLoss, PersistedInv
<1> QED
  BY <1>1, <1>2, <1>3, <1>4, <1>5, <1>6, <1>7 DEF Next

(* The collector is told of every change after the file has changed.       *)
LEMMA CurrentStep == TypeOK /\ CurrentInv /\ [Next]_vars => CurrentInv'
<1> SUFFICES ASSUME TypeOK, CurrentInv, [Next]_vars PROVE CurrentInv'
  OBVIOUS
<1>a. req \in [Client -> ReqType]
  BY Types DEF Typed
<1>b. ASSUME UNCHANGED <<up, file, inForce, failed, wanted, cpc>>,
             \A d \in Client : req[d].pc \in {"sync", "refresh"} =>
                                  req'[d].pc \in {"sync", "refresh"}
      PROVE  CurrentInv'
  BY <1>b DEF CurrentInv, Readable
<1>1. ASSUME NEW c \in Client,
             Accept(c) \/ List(c) \/ ListReply(c) \/ Refuse(c) \/ Lock(c)
             \/ SetRead(c) \/ WriteTemp(c) \/ ResetInspect(c) \/ Reply(c)
      PROVE  CurrentInv'
  <2>1. \A d \in Client \ {c} : req'[d] = req[d]
    BY <1>1, OneRequest
  <2>2. /\ UNCHANGED <<up, file, inForce, failed, wanted, cpc>>
        /\ req[c].pc \notin {"sync", "refresh"}
    BY <1>1 DEF Accept, List, ListReply, Refuse, Lock, SetRead, WriteTemp, ResetInspect,
                Reply, storeVars, collectorVars
  <2> QED
    BY <1>b, <2>1, <2>2
<1>2. ASSUME NEW c \in Client, Fail(c) PROVE CurrentInv'
  BY <1>2 DEF Fail, CurrentInv
<1>3. ASSUME NEW c \in Client, Rename(c) \/ Remove(c) PROVE CurrentInv'
  <2>1. req'[c].pc = "sync"
    BY <1>3, <1>a DEF Rename, Remove, Commit, ReqType
  <2> QED
    BY <2>1 DEF CurrentInv
<1>4. ASSUME NEW c \in Client, SyncDirectory(c) PROVE CurrentInv'
  <2>1. req'[c].pc = "refresh"
    BY <1>4, <1>a DEF SyncDirectory, ReturnOk, ReqType
  <2> QED
    BY <2>1 DEF CurrentInv
<1>5. ASSUME NEW c \in Client, Refresh(c) PROVE CurrentInv'
  BY <1>5 DEF Refresh, CurrentInv
<1>6. CASE BeginRefresh
  BY <1>6 DEF BeginRefresh, CurrentInv
<1>7. CASE ReadPolicies
  BY <1>7 DEF ReadPolicies, CurrentInv, Readable
<1>8. CASE EndRefresh \/ Stop
  BY <1>8 DEF EndRefresh, Stop, storeVars, collectorVars, CurrentInv, Readable
<1>9. CASE Exit \/ PowerLoss
  BY <1>9 DEF Exit, PowerLoss, Halt, CurrentInv
<1>10. CASE Start
  BY <1>10 DEF Start, CurrentInv
<1>11. CASE UNCHANGED vars
  BY <1>11, <1>b DEF vars, storeVars, collectorVars
<1> QED
  BY <1>1, <1>2, <1>3, <1>4, <1>5, <1>6, <1>7, <1>8, <1>9, <1>10, <1>11 DEF Next

(* The invariant holds in every reachable state.                           *)
THEOREM PolicyInvariant == Spec => []IndInv
<1>1. Init => IndInv
  <2> SUFFICES ASSUME Init PROVE IndInv
    OBVIOUS
  <2>1. \A c \in Client : req[c] = NoReq
    BY DEF Init
  <2>2. LockInv /\ CurrentInv
    BY <2>1 DEF Init, LockInv, CurrentInv, NoReq, Critical
  <2>3. ASSUME NEW c \in Client PROVE Progress(c)
    BY <2>1, Idle DEF Progress
  <2>4. PersistedInv
    BY Files DEF Init, PersistedInv, Holds, Torn
  <2> QED
    BY TypeInit, <2>2, <2>3, <2>4 DEF IndInv, ProgressInv
<1>2. IndInv /\ [Next]_vars => IndInv'
  BY TypeStep, LockStep, ProgressStep, PersistedStep, CurrentStep DEF IndInv
<1> QED
  BY <1>1, <1>2, PTL DEF Spec

(* After any crash the policy file is whole, and once nothing is under way *)
(* the collector uses what it says, for any number of clients and disks.   *)
THEOREM FileInForceHolds == Spec => []FileInForce
<1>1. IndInv => FileInForce
  <2> SUFFICES ASSUME IndInv PROVE FileInForce
    OBVIOUS
  <2>1. NeverTorn
    BY Types DEF IndInv, PersistedInv, NeverTorn, Typed
  <2>2. CollectorCurrent
    BY DEF IndInv, CurrentInv, CollectorCurrent
  <2> QED
    BY <2>1, <2>2 DEF FileInForce, IndInv
<1> QED
  BY <1>1, PolicyInvariant, PTL

(* When the store returns without an error, no power loss can undo what    *)
(* the request asked for, unless an earlier directory sync failed.         *)
THEOREM DurableHolds == Spec => DurableUnlessSyncFailed
<1> DEFINE Durable == \A c \in Client : ReturnsOk(c) /\ ~unsynced =>
                         \A f \in persisted' : Kept(c, f)
<1>1. IndInv /\ [Next]_vars => [Durable]_vars
  <2> SUFFICES ASSUME IndInv, Next, NEW c \in Client, ReturnsOk(c), ~unsynced,
                      NEW f \in persisted'
               PROVE  Kept(c, f)
    OBVIOUS
  <2>a. /\ TypeOK /\ LockInv /\ ProgressInv /\ PersistedInv /\ req \in [Client -> ReqType]
        /\ file \in File /\ file.table \in Table
    BY Types, Files DEF IndInv, Typed
  <2>b. ASSUME NEW d \in Client, req[d].pc \in Critical PROVE mu = {d}
    BY <2>a, <2>b DEF LockInv
  <2>c. ASSUME req[c].pc = "locked" PROVE persisted = {file}
    <3>1. \A d \in Client : req[d].pc # "sync"
      BY <2>b, <2>c DEF Critical
    <3> QED
      BY <2>a, <3>1 DEF PersistedInv
  <2>d. ASSUME NEW d \in Client, d # c, req'[c] = req[c] PROVE FALSE
    BY <2>d DEF ReturnsOk
  <2>1. ASSUME NEW d \in Client,
               Accept(d) \/ List(d) \/ ListReply(d) \/ Refuse(d) \/ Lock(d) \/ Fail(d)
               \/ WriteTemp(d) \/ Rename(d) \/ Remove(d) \/ Refresh(d) \/ Reply(d)
        PROVE  FALSE
    <3>1. d = c
      BY <2>1, <2>a, <2>d, OneRequest
    <3>2. CASE Accept(d) \/ Reply(d)
      <4>1. \A op : [NoReq EXCEPT !.op = op, !.pc = "begin"].pc = "begin" /\ NoReq.pc = "idle"
        BY DEF NoReq
      <4> QED
        BY <3>1, <3>2, <4>1, <2>a DEF Accept, Reply, ReturnsOk
    <3>3. CASE List(d) \/ ListReply(d) \/ Refuse(d) \/ Lock(d) \/ Refresh(d) \/ WriteTemp(d)
      BY <3>1, <3>3, <2>a DEF List, ListReply, Refuse, Lock, Refresh, WriteTemp, ReturnsOk,
                              ReqType
    <3>4. CASE Fail(d) \/ Rename(d) \/ Remove(d)
      BY <3>1, <3>4, <2>a DEF Fail, ReturnError, Rename, Remove, Commit, ReturnsOk, ReqType
    <3> QED
      BY <2>1, <3>2, <3>3, <3>4
  <2>2. ASSUME NEW d \in Client, SetRead(d) PROVE Kept(c, f)
    <3>1. d = c
      BY <2>2, <2>a, <2>d, OneRequest
    <3>2. /\ req[c].pc = "locked" /\ req[c].op.kind = "set" /\ persisted' = persisted
          /\ Readable(file)
          /\ [file.table EXCEPT ![req[c].op.disk] = req[c].op.policy] = file.table
      BY <2>2, <2>a, <3>1 DEF SetRead, ReturnsOk, ReturnError, ReqType
    <3>3. f = file
      BY <2>c, <3>2
    <3> QED
      BY <3>2, <3>3 DEF Kept, Register!Effect
  <2>3. ASSUME NEW d \in Client, ResetInspect(d) PROVE Kept(c, f)
    <3>1. d = c
      BY <2>3, <2>a, <2>d, OneRequest
    <3>2. /\ req[c].pc = "locked" /\ req[c].op.kind = "reset" /\ persisted' = persisted
          /\ file = NoFile
      BY <2>3, <2>a, <3>1 DEF ResetInspect, ReturnsOk, ReqType
    <3>3. f = NoFile
      BY <2>c, <3>2
    <3> QED
      BY <3>2, <3>3 DEF Kept, Register!Effect, Register!AllAuto, NoFile, AllAuto, Readable
  <2>4. ASSUME NEW d \in Client, SyncDirectory(d) PROVE Kept(c, f)
    <3>1. d = c
      BY <2>4, <2>a, <2>d, OneRequest
    <3>2. f = file /\ req[c].pc = "sync"
      BY <2>4, <3>1 DEF SyncDirectory
    <3> QED
      BY <2>a, <3>2 DEF ProgressInv, Progress
  <2>5. CASE BeginRefresh \/ ReadPolicies \/ EndRefresh \/ Stop \/ Start
    BY <2>5 DEF BeginRefresh, ReadPolicies, EndRefresh, Stop, Start, ReturnsOk
  <2>6. CASE Exit \/ PowerLoss
    BY <2>6 DEF Exit, PowerLoss, Halt, ReturnsOk, NoReq
  <2> QED
    BY <2>1, <2>2, <2>3, <2>4, <2>5, <2>6 DEF Next
<1> QED
  BY <1>1, PolicyInvariant, PTL DEF Spec, DurableUnlessSyncFailed
-----------------------------------------------------------------------------
(* What a client of the register sees of the service: its call, and the    *)
(* tables that a power loss may bring back.                                *)
View(r) == [op |-> r.op, applied |-> r.applied,
            reply |-> IF r.pc \in {"ok", "error"} THEN r.pc ELSE "none", answer |-> r.answer]
Calls == [c \in Client |-> View(req[c])]
Tables == {f.table : f \in persisted}

(* The register's actions, spelled out over the service's state.           *)
LEMMA RegisterActions ==
    /\ Register!NoCall = View(NoReq)
    /\ \A c : Register!Invoke(c) <=>
          /\ Calls[c].op.kind = "none"
          /\ \E op \in Ops : Calls' = [Calls EXCEPT ![c] = [View(NoReq) EXCEPT !.op = op]]
          /\ file'.table = file.table /\ Tables' = Tables
    /\ \A c : Register!Apply(c) <=>
          /\ Calls[c].op.kind # "none" /\ ~Calls[c].applied /\ Calls[c].reply = "none"
          /\ file'.table = Register!Effect(Calls[c].op, file.table)
          /\ Tables' = Tables \cup {file'.table}
          /\ Calls' = [Calls EXCEPT ![c].applied = TRUE,
                                    ![c].answer = IF Calls[c].op.kind = "list" THEN file.table ELSE @]
    /\ \A c : Register!Decide(c) <=>
          /\ Calls[c].op.kind # "none" /\ Calls[c].reply = "none"
          /\ \E r \in {"ok", "error"} : /\ r = "ok" => Calls[c].applied
                                        /\ Calls' = [Calls EXCEPT ![c].reply = r]
          /\ file'.table = file.table /\ Tables' = Tables
    /\ \A c : Register!Reply(c) <=>
          /\ Calls[c].op.kind # "none" /\ Calls[c].reply # "none"
          /\ Calls' = [Calls EXCEPT ![c] = View(NoReq)]
          /\ file'.table = file.table /\ Tables' = Tables
    /\ Register!Settle <=>
          Tables' = {file.table} /\ file'.table = file.table /\ Calls' = Calls
    /\ Register!Down <=>
          /\ Calls' = [c \in Client |-> View(NoReq)]
          /\ \/ file'.table = file.table /\ Tables' = Tables
             \/ file'.table \in Tables /\ Tables' = {file'.table}
    /\ UNCHANGED Register!vars <=> file'.table = file.table /\ Tables' = Tables /\ Calls' = Calls
<1>1. Register!NoCall = View(NoReq)
  BY DEF Register!NoCall, Register!AllAuto, View, NoReq, NoOp, AllAuto
<1> QED
  BY <1>1 DEF Register!Invoke, Register!Apply, Register!Decide, Register!Reply, Register!Settle,
              Register!Down, Register!Open, Register!vars, Calls, Tables, View

(* A step of one request changes one call.                                 *)
LEMMA OneCall ==
    ASSUME NEW c \in Client, \A d \in Client \ {c} : req'[d] = req[d]
    PROVE  /\ Calls' = [Calls EXCEPT ![c] = View(req'[c])]
           /\ Calls[c] = View(req[c])
           /\ req'[c] = req[c] => Calls' = Calls
BY DEF Calls

(* The fields of a call.                                                   *)
LEMMA Views ==
    ASSUME NEW r
    PROVE  /\ View(r).op = r.op /\ View(r).applied = r.applied /\ View(r).answer = r.answer
           /\ View(r).reply = IF r.pc \in {"ok", "error"} THEN r.pc ELSE "none"
BY DEF View

(* What a client sees of a mutation that takes effect.                     *)
LEMMA Applied ==
    ASSUME NEW r \in ReqType, r.pc \notin {"ok", "error"}, NEW new \in NewFile,
           NEW pc \in {"refresh", "sync"}
    PROVE  View([r EXCEPT !.pc = pc, !.applied = TRUE, !.new = new])
           = [View(r) EXCEPT !.applied = TRUE, !.answer = r.answer]
<1> DEFINE q == [r EXCEPT !.pc = pc, !.applied = TRUE, !.new = new]
           v == View(r)
           w == [v EXCEPT !.applied = TRUE, !.answer = r.answer]
           CallType == [op : Ops \cup {NoOp}, applied : BOOLEAN, reply : {"none"},
                        answer : Table]
<1>1. q.op = r.op /\ q.pc = pc /\ q.applied = TRUE /\ q.answer = r.answer
  BY DEF ReqType
<1>2. r.op \in Ops \cup {NoOp} /\ r.answer \in Table
  BY DEF ReqType
<1>3. v \in CallType /\ v.op = r.op
  BY DEF View, ReqType
<1> HIDE DEF v, q
<1>4. View(q) \in CallType
  BY <1>1, <1>2 DEF View
<1>5. View(q).op = r.op /\ View(q).applied = TRUE /\ View(q).reply = "none"
      /\ View(q).answer = r.answer
  BY <1>1, Views
<1>6. w \in CallType /\ w.op = r.op /\ w.applied = TRUE /\ w.reply = "none"
      /\ w.answer = r.answer
  BY <1>2, <1>3
<1> HIDE DEF w
<1>7. View(q) = w
  BY <1>4, <1>5, <1>6
<1> QED
  BY <1>7 DEF q, v, w

(* A step of a request is a step of the register or changes nothing that   *)
(* the register shows: a request takes effect when its file is renamed or  *)
(* removed, or when the store finds that there is nothing to do.           *)
LEMMA RequestStep ==
    ASSUME IndInv, NEW c \in Client,
           \/ Accept(c) \/ List(c) \/ ListReply(c) \/ Refuse(c) \/ Lock(c) \/ Fail(c)
           \/ SetRead(c) \/ WriteTemp(c) \/ Rename(c) \/ ResetInspect(c) \/ Remove(c)
           \/ SyncDirectory(c) \/ Refresh(c) \/ Reply(c)
    PROVE  Register!Next \/ UNCHANGED Register!vars
<1>a. /\ req \in [Client -> ReqType] /\ req[c] \in ReqType /\ file \in File
      /\ file.table \in Table /\ file \in persisted /\ Progress(c) /\ PersistedInv
  BY Types, Files DEF IndInv, Typed, ProgressInv
<1>b. /\ Calls' = [Calls EXCEPT ![c] = View(req'[c])] /\ Calls[c] = View(req[c])
      /\ \A d \in Client \ {c} : req'[d] = req[d]
  BY OneRequest, OneCall DEF IndInv
<1>c. file.table \in Tables
  BY <1>a DEF Tables
<1>d. req[c].pc # "idle" => req[c].op \in Ops /\ req[c].op.kind # "none"
  BY <1>a, Requests DEF Progress, ReqType
<1>e. ASSUME Register!Invoke(c) \/ Register!Apply(c) \/ Register!Decide(c) \/ Register!Reply(c)
      PROVE  Register!Next
  BY <1>e DEF Register!Next
<1>f. ASSUME file' = file, persisted' = persisted PROVE file'.table = file.table /\ Tables' = Tables
  BY <1>f DEF Tables
<1>1. CASE Accept(c)
  <2>1. PICK op \in Ops : req'[c] = [NoReq EXCEPT !.op = op, !.pc = "begin"]
    BY <1>1, <1>a DEF Accept
  <2>2. View([NoReq EXCEPT !.op = op, !.pc = "begin"]) = [View(NoReq) EXCEPT !.op = op]
    <3> DEFINE r == [NoReq EXCEPT !.op = op, !.pc = "begin"]
    <3>1. r.op = op /\ r.pc = "begin" /\ r.applied = NoReq.applied /\ r.answer = NoReq.answer
      BY DEF NoReq
    <3> HIDE DEF r
    <3>2. View(r) = [op |-> op, applied |-> NoReq.applied, reply |-> "none",
                     answer |-> NoReq.answer]
      BY <3>1 DEF View
    <3>3. View(NoReq) = [op |-> NoReq.op, applied |-> NoReq.applied, reply |-> "none",
                         answer |-> NoReq.answer]
      BY Idle DEF View
    <3>4. View(r) = [View(NoReq) EXCEPT !.op = op]
      BY <3>2, <3>3
    <3> QED
      BY <3>4 DEF r
  <2>3. Calls[c].op.kind = "none"
    <3>1. req[c].op = NoOp /\ NoOp.kind = "none"
      BY <1>1, <1>a DEF Accept, Progress, NoOp
    <3> QED
      BY <1>b, <3>1, Views
  <2>4. file'.table = file.table /\ Tables' = Tables
    BY <1>1, <1>f DEF Accept, storeVars
  <2> QED
    <3>1. Calls' = [Calls EXCEPT ![c] = [View(NoReq) EXCEPT !.op = op]]
      BY <1>b, <2>1, <2>2, Zenon
    <3>2. Register!Invoke(c)
      BY <2>3, <2>4, <3>1, RegisterActions, Zenon
    <3> QED
      BY <1>e, <3>2
<1>2. ASSUME req[c].pc \in Pc \ {"idle", "ok", "error"}, file' = file, persisted' = persisted,
             \/ req' = [req EXCEPT ![c].pc = "error"]
             \/ req' = [req EXCEPT ![c].pc = "ok"] /\ req[c].applied
      PROVE  Register!Next
  <2>1. PICK r \in {"ok", "error"} : /\ req'[c] = [req[c] EXCEPT !.pc = r]
                                     /\ r = "ok" => req[c].applied
    BY <1>2, <1>a
  <2>2. View([req[c] EXCEPT !.pc = r]) = [View(req[c]) EXCEPT !.reply = r]
    BY <1>a, <2>1 DEF View, ReqType
  <2>3. Calls[c].op.kind # "none" /\ Calls[c].reply = "none" /\ (r = "ok" => Calls[c].applied)
    BY <1>2, <1>a, <1>b, <1>d, <2>1, Views
  <2>4. Calls' = [Calls EXCEPT ![c].reply = r]
    BY <1>b, <2>1, <2>2
  <2> QED
    BY <1>2, <1>e, <1>f, <2>1, <2>3, <2>4, RegisterActions
<1>3. ASSUME req[c].pc \in Pc \ {"idle", "ok", "error"}, ~req[c].applied,
             req[c].op.kind # "list", NEW pc \in {"refresh", "sync"}, NEW new \in NewFile,
             req'[c] = [req[c] EXCEPT !.pc = pc, !.applied = TRUE, !.new = new],
             file'.table = Register!Effect(req[c].op, file.table),
             Tables' = Tables \cup {file'.table}
      PROVE  Register!Next
  <2>1. Calls[c].op.kind # "none" /\ ~Calls[c].applied /\ Calls[c].reply = "none"
    BY <1>3, <1>a, <1>b, <1>d, Views
  <2>2. View(req'[c]) = [View(req[c]) EXCEPT !.applied = TRUE, !.answer = req[c].answer]
    <3>1. View([req[c] EXCEPT !.pc = pc, !.applied = TRUE, !.new = new])
          = [View(req[c]) EXCEPT !.applied = TRUE, !.answer = req[c].answer]
      BY <1>3, <1>a, Applied
    <3> QED
      BY <1>3, <3>1, Zenon
  <2>3. Calls' = [Calls EXCEPT ![c].applied = TRUE,
                               ![c].answer = IF Calls[c].op.kind = "list" THEN file.table ELSE @]
    <3>1. Calls[c].op.kind # "list" /\ Calls[c].answer = req[c].answer
      BY <1>3, <1>b, Views
    <3> QED
      BY <1>b, <2>2, <3>1
  <2>4. Calls[c].op = req[c].op
    BY <1>b, Views
  <2> QED
    BY <1>3, <1>e, <2>1, <2>3, <2>4, RegisterActions
<1>4. ASSUME View(req'[c]) = View(req[c]), file' = file, persisted' = persisted
      PROVE  UNCHANGED Register!vars
  <2>1. Calls' = Calls
    BY <1>4, <1>b DEF Calls
  <2> QED
    BY <1>4, <1>f, <2>1, RegisterActions
<1>5. CASE ListReply(c) \/ Refuse(c) \/ Fail(c) \/ Refresh(c)
  <2>1. file' = file /\ persisted' = persisted /\ req[c].pc \in Pc \ {"idle", "ok", "error"}
    BY <1>5 DEF ListReply, Refuse, Fail, Refresh, storeVars, Pc
  <2>2. \/ req' = [req EXCEPT ![c].pc = "error"]
        \/ req' = [req EXCEPT ![c].pc = "ok"] /\ req[c].applied
    BY <1>5, <1>a DEF ListReply, Refuse, Fail, ReturnError, Refresh, Progress
  <2> QED
    BY <1>2, <2>1, <2>2
<1>6. CASE List(c)
  <2>1. file' = file /\ persisted' = persisted /\ req[c].pc = "begin" /\ req[c].op.kind = "list"
        /\ ~req[c].applied
    BY <1>6, <1>a DEF List, storeVars, Progress
  <2>2. CASE req' = [req EXCEPT ![c].pc = "error"]
    BY <1>2, <2>1, <2>2 DEF Pc
  <2>3. CASE req' = [req EXCEPT ![c].pc = "listed", ![c].applied = TRUE, ![c].answer = file.table]
    <3>1. Calls[c].op.kind = "list" /\ ~Calls[c].applied /\ Calls[c].reply = "none"
      BY <2>1, <1>b, Views
    <3>2. View(req'[c]) = [View(req[c]) EXCEPT !.applied = TRUE, !.answer = file.table]
      BY <2>1, <2>3, <1>a DEF View, ReqType
    <3>3. Calls' = [Calls EXCEPT ![c].applied = TRUE,
                                 ![c].answer = IF Calls[c].op.kind = "list" THEN file.table ELSE @]
      BY <1>b, <3>1, <3>2
    <3>4. file'.table = Register!Effect(Calls[c].op, file.table)
      BY <2>1, <3>1 DEF Register!Effect
    <3>5. Tables' = Tables \cup {file'.table}
      BY <1>c, <1>f, <2>1
    <3> QED
      BY <1>e, <3>1, <3>3, <3>4, <3>5, RegisterActions
  <2> QED
    BY <1>6, <2>2, <2>3 DEF List
<1>7. CASE Lock(c) \/ WriteTemp(c)
  <2>1. View(req'[c]) = View(req[c])
    BY <1>7, <1>a DEF Lock, WriteTemp, View, ReqType
  <2> QED
    BY <1>4, <1>7, <2>1 DEF Lock, WriteTemp, storeVars
<1>8. ASSUME ReturnOk(c), req[c].pc = "locked", req[c].op.kind # "list",
             file' = file, persisted' = persisted,
             file.table = Register!Effect(req[c].op, file.table)
      PROVE  Register!Next
  <2>1. /\ req'[c] = [req[c] EXCEPT !.pc = "refresh", !.applied = TRUE, !.new = req[c].new]
        /\ ~req[c].applied /\ req[c].new \in NewFile
    BY <1>8, <1>a DEF ReturnOk, Progress, ReqType
  <2>2. Tables' = Tables \cup {file'.table}
    BY <1>c, <1>f, <1>8
  <2> QED
    BY <1>3, <1>8, <2>1, <2>2 DEF Pc
<1>9. CASE SetRead(c)
  <2> DEFINE edited == [file.table EXCEPT ![req[c].op.disk] = req[c].op.policy]
  <2>1. file' = file /\ persisted' = persisted /\ req[c].pc = "locked" /\ req[c].op.kind = "set"
    BY <1>9 DEF SetRead
  <2>2. Register!Effect(req[c].op, file.table) = edited
    BY <2>1 DEF Register!Effect
  <2>3. CASE ReturnError(c)
    BY <1>2, <2>1, <2>3 DEF ReturnError, Pc
  <2>4. CASE edited = file.table /\ ReturnOk(c)
    BY <1>8, <2>1, <2>2, <2>4
  <2>5. CASE req' = [req EXCEPT ![c].pc = "write", ![c].new = Temporary(edited)]
    <3>1. View(req'[c]) = View(req[c])
      BY <1>a, <2>1, <2>5 DEF View, ReqType
    <3> QED
      BY <1>4, <2>1, <3>1
  <2> QED
    BY <1>9, <2>3, <2>4, <2>5 DEF SetRead
<1>10. CASE ResetInspect(c)
  <2>1. file' = file /\ persisted' = persisted /\ req[c].pc = "locked" /\ req[c].op.kind = "reset"
    BY <1>10 DEF ResetInspect
  <2>2. CASE file = NoFile /\ ReturnOk(c)
    <3>1. file.table = Register!Effect(req[c].op, file.table)
      BY <2>1, <2>2, Files DEF Register!Effect, Register!AllAuto, AllAuto
    <3> QED
      BY <1>8, <2>1, <2>2, <3>1
  <2>3. CASE req' = [req EXCEPT ![c].pc = "remove"]
    <3>1. View(req'[c]) = View(req[c])
      BY <1>a, <2>1, <2>3 DEF View, ReqType
    <3> QED
      BY <1>4, <2>1, <3>1
  <2> QED
    BY <1>10, <2>2, <2>3 DEF ResetInspect
<1>11. ASSUME NEW f, Commit(c, f), req[c].pc \in {"rename", "remove"},
              f.table = Register!Effect(req[c].op, file.table)
       PROVE  Register!Next
  <2>1. /\ req'[c] = [req[c] EXCEPT !.pc = "sync", !.applied = TRUE, !.new = NoFile]
        /\ file' = f /\ NoFile \in NewFile
    BY <1>11, <1>a, Files DEF Commit, ReqType
  <2>2. /\ ~req[c].applied /\ req[c].op.kind # "list" /\ req[c].new.kind # "temporary"
    <3>1. NoFile.kind = "none"
      BY DEF NoFile
    <3>2. CASE req[c].pc = "rename"
      BY <1>a, <3>2 DEF Progress
    <3>3. CASE req[c].pc = "remove"
      BY <1>a, <3>1, <3>3 DEF Progress
    <3> QED
      BY <1>11, <3>2, <3>3
  <2>3. persisted' = persisted \cup {f}
    BY <1>11, <2>2 DEF Commit
  <2>4. Tables' = Tables \cup {file'.table}
    BY <2>1, <2>3 DEF Tables
  <2> QED
    BY <1>3, <1>11, <2>1, <2>2, <2>4 DEF Pc
<1>12. CASE Rename(c)
  <2>1. /\ req[c].pc = "rename" /\ Commit(c, Holds(req[c].new.table)) /\ req[c].op.kind = "set"
        /\ req[c].new.table = [file.table EXCEPT ![req[c].op.disk] = req[c].op.policy]
    BY <1>12, <1>a DEF Rename, Progress
  <2>2. Holds(req[c].new.table).table = Register!Effect(req[c].op, file.table)
    BY <2>1 DEF Register!Effect, Holds
  <2> QED
    BY <1>11, <2>1, <2>2
<1>13. CASE Remove(c)
  <2>1. req[c].pc = "remove" /\ Commit(c, NoFile) /\ req[c].op.kind = "reset"
    BY <1>13, <1>a DEF Remove, Progress
  <2>2. NoFile.table = Register!Effect(req[c].op, file.table)
    BY <2>1, Files DEF Register!Effect, Register!AllAuto, AllAuto
  <2> QED
    BY <1>11, <2>1, <2>2
<1>14. CASE SyncDirectory(c)
  <2>1. req[c].pc = "sync" /\ req[c].applied /\ ReturnOk(c) /\ file' = file /\ persisted' = {file}
    BY <1>14, <1>a DEF SyncDirectory, Progress
  <2>2. View(req'[c]) = View(req[c])
    BY <1>a, <2>1 DEF View, ReturnOk, ReqType
  <2>3. Calls' = Calls
    BY <1>b, <2>2 DEF Calls
  <2>4. Tables' = {file.table}
    BY <2>1 DEF Tables
  <2> QED
    BY <2>1, <2>3, <2>4, RegisterActions DEF Register!Next
<1>15. CASE Reply(c)
  <2>1. file' = file /\ persisted' = persisted /\ req'[c] = NoReq /\ req[c].pc \in {"ok", "error"}
    BY <1>15, <1>a DEF Reply, storeVars
  <2>2. Calls[c].op.kind # "none" /\ Calls[c].reply # "none"
    BY <2>1, <1>b, <1>d, Views
  <2> QED
    BY <1>b, <1>e, <1>f, <2>1, <2>2, RegisterActions
<1> QED
  BY <1>1, <1>5, <1>6, <1>7, <1>9, <1>10, <1>12, <1>13, <1>14, <1>15

(* However requests, refreshes, failures and crashes interleave, the       *)
(* service implements the register: a table that changes only by whole     *)
(* requests, each at one instant between its call and its reply.           *)
THEOREM PolicyRefinement == Spec => ImplementsRegister
<1>1. Init => Register!Init
  <2> SUFFICES ASSUME Init PROVE Register!Init
    OBVIOUS
  <2>1. file.table \in Table /\ persisted = {file}
    BY Files DEF Init
  <2>2. Calls = [c \in Client |-> View(NoReq)]
    BY DEF Init, Calls
  <2>3. Tables = {file.table}
    BY <2>1 DEF Tables
  <2>4. Register!NoCall = View(NoReq)
    BY RegisterActions
  <2> QED
    BY <2>1, <2>2, <2>3, <2>4 DEF Register!Init, Table, Calls, Tables, View
<1>2. IndInv /\ [Next]_vars => [Register!Next]_(Register!vars)
  <2> SUFFICES ASSUME IndInv, [Next]_vars PROVE Register!Next \/ UNCHANGED Register!vars
    OBVIOUS
  <2>1. ASSUME UNCHANGED <<req, file, persisted>> PROVE UNCHANGED Register!vars
    BY <2>1, RegisterActions DEF Calls, Tables
  <2>2. CASE BeginRefresh \/ ReadPolicies \/ EndRefresh \/ Stop \/ Start \/ UNCHANGED vars
    BY <2>1, <2>2 DEF BeginRefresh, ReadPolicies, EndRefresh, Stop, Start, vars, storeVars
  <2>3. CASE Exit \/ PowerLoss
    <3>1. Calls' = [c \in Client |-> View(NoReq)]
      BY <2>3 DEF Exit, PowerLoss, Halt, Calls
    <3>2. CASE Exit
      BY <3>1, <3>2, RegisterActions DEF Exit, Tables, Register!Next
    <3>3. CASE PowerLoss
      <4>1. PICK f \in persisted : file' = f /\ persisted' = {f}
        BY <3>3 DEF PowerLoss
      <4>2. file'.table \in Tables /\ Tables' = {file'.table}
        BY <4>1 DEF Tables
      <4> QED
        BY <3>1, <4>2, RegisterActions DEF Register!Next
    <3> QED
      BY <2>3, <3>2, <3>3
  <2> QED
    BY <2>2, <2>3, RequestStep DEF Next
<1> QED
  BY <1>1, <1>2, PolicyInvariant, PTL DEF Spec, ImplementsRegister, Register!Spec

=============================================================================
