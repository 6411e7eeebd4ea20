------------------------------ MODULE VirtTemp ------------------------------
(***************************************************************************)
(* The virt_temp kernel module (virt-temp/module/virt-temp.c): one name in *)
(* a configfs family directory, the sensor objects that mkdir allocates    *)
(* for it one after the other, and the threads that use them:              *)
(*   - an administrator (the host daemon) that does mkdir and rmdir,       *)
(*   - labellers that store the label attribute through configfs,          *)
(*   - writers that open, write and close the temperature device node,     *)
(*   - readers of the hwmon attributes, who take no lock.                  *)
(*                                                                         *)
(* The kernel's own services are modelled from how the module uses them:   *)
(* misc_open runs the open handler under misc_mtx, which misc_deregister   *)
(* takes too; hwmon_device_unregister admits no new reader and then waits  *)
(* for those inside; configfs holds a reference on the item of an open     *)
(* attribute file.                                                         *)
(***************************************************************************)
EXTENDS Integers, FiniteSets

CONSTANTS Obj,          \* memory that kzalloc may return, again after kfree
          Writer, Reader, Labeller,
          Label,        \* labels a labeller may store
          None,
          Timeouts,     \* values of the stale_timeout parameter
          MaxWrites,    \* bound on temperature writes
          MaxTime       \* bound on jiffies

ASSUME BoundsAssumption ==
    /\ Timeouts \subseteq Nat \ {0} /\ Timeouts # {}
    /\ MaxWrites \in Nat /\ MaxTime \in Nat
ASSUME NoneAssumption == None \notin Obj \cup Writer \cup Labeller \cup Label \cup {"admin"}
ASSUME ThreadAssumption == Writer \cap Labeller = {} /\ "admin" \notin Writer \cup Labeller

(* A temperature is the number of the write that stored it; 0 stands for   *)
(* FAILSAFE_MILLIC.                                                        *)
Failsafe == 0
Pending == -1

VARIABLES
    now, timeout,       \* jiffies and stale_timeout
    dir,                \* the object the configfs name leads to
    obj,                \* the sensors
    lock,               \* sensor->lock: its holder
    miscMtx,            \* misc_mtx: its holder
    admin,              \* [pc, o] of the thread in rmdir
    lab,                \* labellers
    wr,                 \* writers
    rd,                 \* readers
    writes,             \* temperatures stored so far
    updated             \* when each write set last_update

sysVars == <<now, timeout>>
vars == <<sysVars, dir, obj, lock, miscMtx, admin, lab, wr, rd, writes, updated>>

Free == [alloc |-> FALSE, refs |-> 0, removed |-> FALSE, misc |-> FALSE,
         hwmon |-> FALSE, label |-> None, temp |-> Failsafe, upd |-> 0]

TypeOK ==
    /\ now \in 0..MaxTime /\ timeout \in Timeouts
    /\ dir \in Obj \cup {None}
    /\ obj \in [Obj -> [alloc : BOOLEAN, refs : Nat, removed : BOOLEAN,
                        misc : BOOLEAN, hwmon : BOOLEAN, label : Label \cup {None},
                        temp : 0..MaxWrites, upd : 0..MaxTime]]
    /\ lock \in [Obj -> Writer \cup Labeller \cup {"admin", None}]
    /\ miscMtx \in Writer \cup {None}
    /\ admin \in [pc : {"idle", "lock", "drain", "misc", "put"}, o : Obj \cup {None}]
    /\ lab \in [Labeller -> [pc : {"closed", "open", "drain", "done"},
                             o : Obj \cup {None}, want : Label \cup {None}]]
    /\ wr \in [Writer -> [pc : {"closed", "opening", "open", "stored", "failed"},
                          o : Obj \cup {None}]]
    /\ rd \in [Reader -> [pc : {"idle", "check", "load", "done"}, o : Obj \cup {None},
                          since : Int, val : 0..MaxWrites]]
    /\ writes \in 0..MaxWrites
    /\ updated \in [1..MaxWrites -> 0..MaxTime \cup {Pending}]

Init ==
    /\ now = 0 /\ timeout \in Timeouts
    /\ dir = None
    /\ obj = [o \in Obj |-> Free]
    /\ lock = [o \in Obj |-> None]
    /\ miscMtx = None
    /\ admin = [pc |-> "idle", o |-> None]
    /\ lab = [l \in Labeller |-> [pc |-> "closed", o |-> None, want |-> None]]
    /\ wr = [w \in Writer |-> [pc |-> "closed", o |-> None]]
    /\ rd = [r \in Reader |-> [pc |-> "idle", o |-> None, since |-> 0, val |-> Failsafe]]
    /\ writes = 0
    /\ updated = [k \in 1..MaxWrites |-> Pending]

-----------------------------------------------------------------------------
(* config_item_get and config_item_put; the last put frees the sensor      *)
(* (sensor_release).                                                       *)
Get_Missing(x) == x
Get(x) == [x EXCEPT !.refs = @ + 1]

Put(x) == IF x.refs = 1 THEN Free ELSE [x EXCEPT !.refs = @ - 1]

(* Readers inside hwmon callbacks of a sensor.                             *)
Active(o) == {r \in Reader : rd[r].pc # "idle" /\ rd[r].o = o}

-----------------------------------------------------------------------------
(* make_sensor: the temperature and last_update precede misc_register.     *)
(* A failed allocation or registration leaves nothing behind.              *)
MakeSensor(o) ==
    /\ admin.pc = "idle" /\ dir = None /\ ~obj[o].alloc
    /\ obj' = [obj EXCEPT ![o] = [Free EXCEPT !.alloc = TRUE, !.refs = 1,
                                              !.misc = TRUE, !.upd = now]]
    /\ dir' = o
    /\ UNCHANGED <<sysVars, lock, miscMtx, admin, lab, wr, rd, writes, updated>>

(* rmdir: drop_sensor = unregister_sensor, then config_item_put.           *)
DropSensor ==
    /\ admin.pc = "idle" /\ dir # None
    /\ admin' = [pc |-> "lock", o |-> dir] /\ dir' = None
    /\ UNCHANGED <<sysVars, obj, lock, miscMtx, lab, wr, rd, writes, updated>>

DropLock ==
    /\ admin.pc = "lock" /\ lock[admin.o] = None
    /\ lock' = [lock EXCEPT ![admin.o] = "admin"]
    /\ obj' = [obj EXCEPT ![admin.o].removed = TRUE, ![admin.o].hwmon = FALSE]
    /\ admin' = [admin EXCEPT !.pc = "drain"]
    /\ UNCHANGED <<sysVars, dir, miscMtx, lab, wr, rd, writes, updated>>

(* unregister_hwmon returns when no reader is inside; then unlock.         *)
DropDrain_KeepsLock ==
    /\ admin.pc = "drain" /\ Active(admin.o) = {}
    /\ admin' = [admin EXCEPT !.pc = "misc"]
    /\ UNCHANGED <<sysVars, dir, obj, lock, miscMtx, lab, wr, rd, writes, updated>>
DropDrain ==
    /\ admin.pc = "drain" /\ Active(admin.o) = {}
    /\ lock' = [lock EXCEPT ![admin.o] = None]
    /\ admin' = [admin EXCEPT !.pc = "misc"]
    /\ UNCHANGED <<sysVars, dir, obj, miscMtx, lab, wr, rd, writes, updated>>

DropMisc ==
    /\ admin.pc = "misc" /\ miscMtx = None
    /\ obj' = [obj EXCEPT ![admin.o].misc = FALSE]
    /\ admin' = [admin EXCEPT !.pc = "put"]
    /\ UNCHANGED <<sysVars, dir, lock, miscMtx, lab, wr, rd, writes, updated>>

DropPut ==
    /\ admin.pc = "put"
    /\ obj' = [obj EXCEPT ![admin.o] = Put(@)]
    /\ admin' = [pc |-> "idle", o |-> None]
    /\ UNCHANGED <<sysVars, dir, lock, miscMtx, lab, wr, rd, writes, updated>>

-----------------------------------------------------------------------------
(* The label attribute.  Opening it goes through the directory.            *)
LabelOpen(l) ==
    /\ lab[l].pc = "closed" /\ dir # None
    /\ \E want \in Label : lab' = [lab EXCEPT ![l] = [pc |-> "open", o |-> dir, want |-> want]]
    /\ obj' = [obj EXCEPT ![dir] = Get(@)]
    /\ UNCHANGED <<sysVars, dir, lock, miscMtx, admin, wr, rd, writes, updated>>

(* register_hwmon may fail; the label then stays, or goes back.            *)
RegisterOK(o)   == obj' = [obj EXCEPT ![o].hwmon = TRUE]
StoreSameLabel_Removed(l) ==
    LET o == lab[l].o IN
    /\ lab[l].pc = "open" /\ lock[o] = None
    /\ obj[o].label = lab[l].want
    /\ lab' = [lab EXCEPT ![l].pc = "done"]
    /\ RegisterOK(o) \/ (~obj[o].hwmon /\ UNCHANGED obj)
    /\ UNCHANGED <<sysVars, dir, lock, miscMtx, admin, wr, rd, writes, updated>>
StoreSameLabel(l) ==
    LET o == lab[l].o IN
    /\ lab[l].pc = "open" /\ lock[o] = None
    /\ ~obj[o].removed /\ obj[o].label = lab[l].want
    /\ lab' = [lab EXCEPT ![l].pc = "done"]
    /\ RegisterOK(o) \/ (~obj[o].hwmon /\ UNCHANGED obj)
    /\ UNCHANGED <<sysVars, dir, lock, miscMtx, admin, wr, rd, writes, updated>>

StoreRefused(l) ==
    LET o == lab[l].o IN
    /\ lab[l].pc = "open" /\ lock[o] = None /\ obj[o].removed
    /\ lab' = [lab EXCEPT ![l].pc = "done"]
    /\ UNCHANGED <<sysVars, dir, obj, lock, miscMtx, admin, wr, rd, writes, updated>>

(* A new label: unregister and wait for the readers, with the lock held.   *)
StoreNewLabel(l) ==
    LET o == lab[l].o IN
    /\ lab[l].pc = "open" /\ lock[o] = None
    /\ ~obj[o].removed /\ obj[o].label # lab[l].want
    /\ lock' = [lock EXCEPT ![o] = l]
    /\ obj' = [obj EXCEPT ![o].hwmon = FALSE]
    /\ lab' = [lab EXCEPT ![l].pc = "drain"]
    /\ UNCHANGED <<sysVars, dir, miscMtx, admin, wr, rd, writes, updated>>

(* Then change the label and register; on failure put the old label back   *)
(* and, if there was one, try to register under it.                        *)
Drained_NoWait(o) == TRUE
Drained(o) == Active(o) = {}

Relabel(l) ==
    LET o == lab[l].o IN
    /\ lab[l].pc = "drain" /\ Drained(o)
    /\ \/ obj' = [obj EXCEPT ![o].label = lab[l].want, ![o].hwmon = TRUE]
       \/ UNCHANGED obj
       \/ obj[o].label # None /\ RegisterOK(o)
    /\ lock' = [lock EXCEPT ![o] = None]
    /\ lab' = [lab EXCEPT ![l].pc = "done"]
    /\ UNCHANGED <<sysVars, dir, miscMtx, admin, wr, rd, writes, updated>>

LabelClose(l) ==
    /\ lab[l].pc = "done"
    /\ obj' = [obj EXCEPT ![lab[l].o] = Put(@)]
    /\ lab' = [lab EXCEPT ![l] = [pc |-> "closed", o |-> None, want |-> None]]
    /\ UNCHANGED <<sysVars, dir, lock, miscMtx, admin, wr, rd, writes, updated>>

-----------------------------------------------------------------------------
(* temperature_open under misc_mtx.                                        *)
OpenDevice(w, o) ==
    /\ wr[w].pc = "closed" /\ miscMtx = None /\ obj[o].misc
    /\ miscMtx' = w
    /\ obj' = [obj EXCEPT ![o] = Get(@)]
    /\ wr' = [wr EXCEPT ![w] = [pc |-> "opening", o |-> o]]
    /\ UNCHANGED <<sysVars, dir, lock, admin, lab, rd, writes, updated>>

OpenCheck(w) ==
    LET o == wr[w].o IN
    /\ wr[w].pc = "opening" /\ lock[o] = None
    /\ miscMtx' = None
    /\ \/ /\ obj[o].removed
          /\ obj' = [obj EXCEPT ![o] = Put(@)]
          /\ wr' = [wr EXCEPT ![w] = [pc |-> "closed", o |-> None]]
       \/ /\ ~obj[o].removed
          /\ wr' = [wr EXCEPT ![w].pc = "open"] /\ UNCHANGED obj
    /\ UNCHANGED <<sysVars, dir, lock, admin, lab, rd, writes, updated>>

(* temperature_write: under the lock, the temperature and then, with       *)
(* release semantics, last_update.                                         *)
WriteTemperature_NoCheck(w) ==
    LET o == wr[w].o IN
    /\ wr[w].pc = "open" /\ lock[o] = None
    /\ writes < MaxWrites
    /\ lock' = [lock EXCEPT ![o] = w]
    /\ writes' = writes + 1
    /\ obj' = [obj EXCEPT ![o].temp = writes + 1]
    /\ wr' = [wr EXCEPT ![w].pc = "stored"]
    /\ UNCHANGED <<sysVars, dir, miscMtx, admin, lab, rd, updated>>
WriteTemperature(w) ==
    LET o == wr[w].o IN
    /\ wr[w].pc = "open" /\ lock[o] = None /\ ~obj[o].removed
    /\ writes < MaxWrites
    /\ lock' = [lock EXCEPT ![o] = w]
    /\ writes' = writes + 1
    /\ obj' = [obj EXCEPT ![o].temp = writes + 1]
    /\ wr' = [wr EXCEPT ![w].pc = "stored"]
    /\ UNCHANGED <<sysVars, dir, miscMtx, admin, lab, rd, updated>>

WriteStamp(w) ==
    LET o == wr[w].o IN
    /\ wr[w].pc = "stored"
    /\ obj' = [obj EXCEPT ![o].upd = now]
    /\ updated' = [updated EXCEPT ![obj[o].temp] = now]
    /\ lock' = [lock EXCEPT ![o] = None]
    /\ wr' = [wr EXCEPT ![w].pc = "open"]
    /\ UNCHANGED <<sysVars, dir, miscMtx, admin, lab, rd, writes>>

WriteRefused(w) ==
    /\ wr[w].pc = "open" /\ lock[wr[w].o] = None /\ obj[wr[w].o].removed
    /\ wr' = [wr EXCEPT ![w].pc = "failed"]
    /\ UNCHANGED <<sysVars, dir, obj, lock, miscMtx, admin, lab, rd, writes, updated>>

CloseDevice(w) ==
    /\ wr[w].pc \in {"open", "failed"}
    /\ obj' = [obj EXCEPT ![wr[w].o] = Put(@)]
    /\ wr' = [wr EXCEPT ![w] = [pc |-> "closed", o |-> None]]
    /\ UNCHANGED <<sysVars, dir, lock, miscMtx, admin, lab, rd, writes, updated>>

-----------------------------------------------------------------------------
(* read_value.  is_stale() loads last_update (acquire) and compares it     *)
(* with jiffies; only then is the temperature loaded.                      *)
ReadBegin(r, o) ==
    /\ rd[r].pc = "idle" /\ obj[o].hwmon
    /\ rd' = [rd EXCEPT ![r] = [pc |-> "check", o |-> o, since |-> 0, val |-> Failsafe]]
    /\ UNCHANGED <<sysVars, dir, obj, lock, miscMtx, admin, lab, wr, writes, updated>>

(* One jiffy too patient. *)
IsStale_Late(o) == now > obj[o].upd + timeout + 1
IsStale(o) == now > obj[o].upd + timeout

ReadCheck(r) ==
    /\ rd[r].pc = "check"
    /\ rd' = IF IsStale(rd[r].o)
             THEN [rd EXCEPT ![r].pc = "done", ![r].since = now - timeout]
             ELSE [rd EXCEPT ![r].pc = "load", ![r].since = now - timeout]
    /\ UNCHANGED <<sysVars, dir, obj, lock, miscMtx, admin, lab, wr, writes, updated>>

ReadValue(r) ==
    /\ rd[r].pc = "load"
    /\ rd' = [rd EXCEPT ![r].pc = "done", ![r].val = obj[rd[r].o].temp]
    /\ UNCHANGED <<sysVars, dir, obj, lock, miscMtx, admin, lab, wr, writes, updated>>

ReadEnd(r) ==
    /\ rd[r].pc = "done"
    /\ rd' = [rd EXCEPT ![r] = [pc |-> "idle", o |-> None, since |-> 0, val |-> Failsafe]]
    /\ UNCHANGED <<sysVars, dir, obj, lock, miscMtx, admin, lab, wr, writes, updated>>

-----------------------------------------------------------------------------
Tick ==
    /\ now < MaxTime /\ now' = now + 1
    /\ UNCHANGED <<timeout, dir, obj, lock, miscMtx, admin, lab, wr, rd, writes, updated>>

SetStaleTimeout ==
    /\ \E t \in Timeouts \ {timeout} : timeout' = t
    /\ UNCHANGED <<now, dir, obj, lock, miscMtx, admin, lab, wr, rd, writes, updated>>

(* Steps inside the module, which a thread that entered it keeps taking.   *)
DropStep == DropLock \/ DropDrain \/ DropMisc \/ DropPut
LabelStep(l) == StoreSameLabel(l) \/ StoreRefused(l) \/ StoreNewLabel(l) \/ Relabel(l)
                \/ LabelClose(l)
WriteStep(w) == OpenCheck(w) \/ WriteStamp(w)
ReadStep(r) == ReadCheck(r) \/ ReadValue(r) \/ ReadEnd(r)

Next ==
    \/ \E o \in Obj : MakeSensor(o)
    \/ DropSensor \/ DropStep
    \/ \E l \in Labeller : LabelOpen(l) \/ LabelStep(l)
    \/ \E w \in Writer :
          \/ \E o \in Obj : OpenDevice(w, o)
          \/ WriteTemperature(w) \/ WriteRefused(w) \/ CloseDevice(w)
          \/ WriteStep(w)
    \/ \E r \in Reader : (\E o \in Obj : ReadBegin(r, o)) \/ ReadStep(r)
    \/ Tick \/ SetStaleTimeout

Spec == Init /\ [][Next]_vars

(* The scheduler runs every thread that is inside the module.  Whether a   *)
(* process opens, writes or reads again is its own choice.  A mutex that   *)
(* is released again and again is granted eventually.                      *)
FairSpec ==
    /\ Spec
    /\ SF_vars(DropStep)
    /\ \A l \in Labeller : WF_vars(LabelStep(l))
    /\ \A w \in Writer : WF_vars(WriteStep(w))
    /\ \A r \in Reader : WF_vars(ReadStep(r))

-----------------------------------------------------------------------------
(* Somebody will still dereference the sensor: the directory, rmdir, an   *)
(* open attribute or device file, or a reader.                             *)
InUse(o) ==
    \/ dir = o \/ admin.o = o
    \/ \E l \in Labeller : lab[l].o = o
    \/ \E w \in Writer : wr[w].o = o
    \/ \E r \in Reader : rd[r].o = o

(* A sensor's memory lives exactly as long as somebody can still reach it: *)
(* no use after sensor_release, and no leak once rmdir and every close are *)
(* done, for a device file kept open across rmdir too.                     *)
LivesWhileUsed == \A o \in Obj : obj[o].alloc <=> InUse(o)

(* A temperature other than the failsafe that a reader gets was stored by  *)
(* a write that set last_update within stale_timeout of the reader's check,*)
(* or is about to set it: an expired value never leaves the module.        *)
FreshOrFailsafe ==
    \A r \in Reader : rd[r].pc = "done" /\ rd[r].val # Failsafe =>
        updated[rd[r].val] = Pending \/ updated[rd[r].val] >= rd[r].since

(* "Serialize the update against rmdir so a successful write is live": a   *)
(* removed sensor is never written.                                        *)
WritesAreLive ==
    [][\A o \in Obj : obj[o].removed /\ obj'[o].alloc =>
          obj'[o].temp = obj[o].temp /\ obj'[o].upd = obj[o].upd]_vars

(* read_label returns the label's storage without the lock: while a reader *)
(* is inside, the label does not change.                                   *)
LabelStable ==
    [][\A o \in Obj : Active(o) # {} => obj'[o].label = obj[o].label]_vars

(* The hwmon device is a child of the misc device: it exists only under a  *)
(* registered parent, with a label, and never comes back once rmdir has    *)
(* marked the sensor.                                                      *)
HwmonHasParent ==
    \A o \in Obj : obj[o].hwmon =>
        obj[o].misc /\ obj[o].label # None /\ ~obj[o].removed

(* rmdir always ends: it never waits for a thread that waits for it.       *)
DropEnds == admin.pc = "lock" ~> admin.pc = "idle"

(* Neither the sensor nor its hwmon device is used after the end of what   *)
(* carries it, and neither outlives its last user.                         *)
Lifetimes == TypeOK /\ LivesWhileUsed /\ HwmonHasParent

(* rmdir and a label store change nothing under a thread that is inside,   *)
(* nor does a thread that is late change a removed sensor.                 *)
StableInside == LabelStable /\ WritesAreLive

=============================================================================
