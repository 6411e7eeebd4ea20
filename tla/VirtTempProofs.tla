--------------------------- MODULE VirtTempProofs ---------------------------
(***************************************************************************)
(* The safety properties of VirtTemp for any number of threads, sensors,   *)
(* labels and writes, and for any jiffies and timeouts.                    *)
(***************************************************************************)
EXTENDS VirtTemp, FiniteSetTheorems, TLAPS

(* Where each thread is, and that a thread is at a sensor or at none.      *)
Sites ==
    /\ admin.pc = "idle" <=> admin.o = None
    /\ admin.o # None => dir = None
    /\ \A l \in Labeller : /\ lab[l].pc = "closed" <=> lab[l].o = None
                           /\ lab[l].pc # "closed" => lab[l].want \in Label
    /\ \A w \in Writer : wr[w].pc = "closed" <=> wr[w].o = None
    /\ \A r \in Reader : rd[r].pc = "idle" <=> rd[r].o = None

(* Who holds a reference on a sensor; the directory's is rmdir's to drop.  *)
Holders(o) ==
    {t \in Writer \cup Labeller \cup {"admin"} :
        \/ t = "admin" /\ (dir = o \/ admin.o = o)
        \/ t \in Labeller /\ lab[t].o = o
        \/ t \in Writer /\ wr[t].o = o}

(* The count is the number of holders, and without one the memory is free. *)
RefInv ==
    \A o \in Obj : /\ IsFiniteSet(Holders(o)) /\ obj[o].refs = Cardinality(Holders(o))
                   /\ obj[o].alloc <=> Holders(o) # {}
                   /\ ~obj[o].alloc => obj[o] = Free

(* Who holds a sensor's lock.                                              *)
LockInv ==
    \A o \in Obj : /\ lock[o] = "admin" <=> admin.pc = "drain" /\ admin.o = o
                   /\ \A l \in Labeller : lock[o] = l <=> lab[l].pc = "drain" /\ lab[l].o = o
                   /\ \A w \in Writer : lock[o] = w <=> wr[w].pc = "stored" /\ wr[w].o = o

(* How far rmdir has come with a sensor, and what the others may rely on.  *)
Attached(o) == dir = o \/ (admin.o = o /\ admin.pc = "lock")
StageInv ==
    /\ \A o \in Obj :
          /\ Attached(o) <=> obj[o].alloc /\ ~obj[o].removed
          /\ obj[o].misc <=> Attached(o) \/ (admin.o = o /\ admin.pc \in {"drain", "misc"})
          /\ obj[o].hwmon => Attached(o) /\ obj[o].label # None
    /\ \A l \in Labeller : lab[l].pc = "drain" => Attached(lab[l].o)
    /\ \A w \in Writer : wr[w].pc = "stored" => Attached(wr[w].o)
    /\ \A r \in Reader : rd[r].pc # "idle" =>
          Attached(rd[r].o) \/ (admin.o = rd[r].o /\ admin.pc = "drain")

(* A temperature is the failsafe, or its write stamps it no earlier than   *)
(* the given time.                                                         *)
Sound(temp, since) ==
    temp = Failsafe \/ updated[temp] = Pending \/ updated[temp] >= since
FreshInv ==
    /\ \A k \in 1..MaxWrites : k > writes => updated[k] = Pending
    /\ \A o \in Obj : /\ obj[o].upd <= now /\ obj[o].temp <= writes
                      /\ Sound(obj[o].temp, obj[o].upd)
    /\ \A r \in Reader :
          /\ rd[r].since <= now
          /\ rd[r].pc = "check" => rd[r].val = Failsafe
          /\ rd[r].pc = "load" => rd[r].val = Failsafe /\ Sound(obj[rd[r].o].temp, rd[r].since)
          /\ rd[r].pc = "done" => Sound(rd[r].val, rd[r].since)

IndInv == TypeOK /\ Sites /\ RefInv /\ LockInv /\ StageInv /\ FreshInv

-----------------------------------------------------------------------------
ObjType == [alloc : BOOLEAN, refs : Nat, removed : BOOLEAN, misc : BOOLEAN, hwmon : BOOLEAN,
            label : Label \cup {None}, temp : 0..MaxWrites, upd : 0..MaxTime]
AdminType == [pc : {"idle", "lock", "drain", "misc", "put"}, o : Obj \cup {None}]
LabType == [pc : {"closed", "open", "drain", "done"}, o : Obj \cup {None},
            want : Label \cup {None}]
WrType == [pc : {"closed", "opening", "open", "stored", "failed"}, o : Obj \cup {None}]
RdType == [pc : {"idle", "check", "load", "done"}, o : Obj \cup {None}, since : Int,
           val : 0..MaxWrites]

(* The conjuncts of the type invariant.                                    *)
Typed ==
    /\ now \in 0..MaxTime /\ timeout \in Timeouts /\ dir \in Obj \cup {None}
    /\ obj \in [Obj -> ObjType]
    /\ lock \in [Obj -> Writer \cup Labeller \cup {"admin", None}]
    /\ miscMtx \in Writer \cup {None}
    /\ admin \in AdminType /\ lab \in [Labeller -> LabType] /\ wr \in [Writer -> WrType]
    /\ rd \in [Reader -> RdType]
    /\ writes \in 0..MaxWrites
    /\ updated \in [1..MaxWrites -> 0..MaxTime \cup {Pending}]

(* The type invariant is these conjuncts.                                  *)
LEMMA Types == (TypeOK <=> Typed) /\ (TypeOK' <=> Typed')
BY DEF TypeOK, Typed, ObjType, AdminType, LabType, WrType, RdType

(* A thread that has entered the module is at a sensor.                    *)
LEMMA AtObject ==
    ASSUME TypeOK, Sites
    PROVE  /\ admin.pc # "idle" => admin.o \in Obj
           /\ \A l \in Labeller : lab[l].pc # "closed" => lab[l].o \in Obj
           /\ \A w \in Writer : wr[w].pc # "closed" => wr[w].o \in Obj
           /\ \A r \in Reader : rd[r].pc # "idle" => rd[r].o \in Obj
BY Types DEF Typed, Sites, AdminType, LabType, WrType, RdType

(* A freed sensor and what allocation makes of it.                         *)
LEMMA Frees ==
    /\ Free \in ObjType /\ Free.alloc = FALSE /\ Free.refs = 0 /\ Free.removed = FALSE
    /\ Free.misc = FALSE /\ Free.hwmon = FALSE /\ Free.label = None /\ Free.temp = Failsafe
    /\ Free.upd = 0
BY BoundsAssumption DEF Free, ObjType, Failsafe

(* A reference less: the sensor is freed or keeps all but its count.       *)
LEMMA Puts ==
    ASSUME NEW x \in ObjType, x.refs # 0
    PROVE  /\ Put(x) \in ObjType
           /\ x.refs = 1 => Put(x) = Free
           /\ x.refs # 1 => /\ Put(x).refs = x.refs - 1 /\ Put(x).alloc = x.alloc
                            /\ Put(x).removed = x.removed /\ Put(x).misc = x.misc
                            /\ Put(x).hwmon = x.hwmon /\ Put(x).label = x.label
                            /\ Put(x).temp = x.temp /\ Put(x).upd = x.upd
BY Frees DEF Put, ObjType

(* A reference more.                                                       *)
LEMMA Gets ==
    ASSUME NEW x \in ObjType
    PROVE  /\ Get(x) \in ObjType
           /\ Get(x).refs = x.refs + 1 /\ Get(x).alloc = x.alloc
           /\ Get(x).removed = x.removed /\ Get(x).misc = x.misc
           /\ Get(x).hwmon = x.hwmon /\ Get(x).label = x.label
           /\ Get(x).temp = x.temp /\ Get(x).upd = x.upd
BY DEF Get, ObjType

(* What make_sensor registers.                                             *)
Made == [Free EXCEPT !.alloc = TRUE, !.refs = 1, !.misc = TRUE, !.upd = now]

(* It is a sensor of which nothing is known yet.                           *)
LEMMA Makes ==
    ASSUME TypeOK
    PROVE  /\ Made \in ObjType /\ Made.alloc = TRUE /\ Made.refs = 1 /\ Made.removed = FALSE
           /\ Made.misc = TRUE /\ Made.hwmon = FALSE /\ Made.label = None
           /\ Made.temp = Failsafe /\ Made.upd = now
<1>1. now \in 0..MaxTime
  BY Types DEF Typed
<1> QED
  BY <1>1, Frees DEF Made, ObjType

(* A holder keeps the sensor allocated, and its last one has a count of 1. *)
LEMMA Held ==
    ASSUME TypeOK, RefInv, NEW o \in Obj, NEW t, t \in Holders(o)
    PROVE  /\ obj[o].refs \in Nat /\ obj[o].refs # 0 /\ obj[o].alloc
           /\ obj[o].refs = 1 <=> Holders(o) = {t}
<1>a. IsFiniteSet(Holders(o)) /\ obj[o].refs = Cardinality(Holders(o)) /\ obj[o].alloc
  BY DEF RefInv
<1>1. Cardinality(Holders(o)) \in Nat /\ Cardinality(Holders(o)) # 0
  BY <1>a, FS_EmptySet, FS_CardinalityType
<1>2. Cardinality(Holders(o)) = 1 <=> Holders(o) = {t}
  <2>1. Cardinality({t}) = 1
    BY FS_Singleton
  <2>2. ASSUME Cardinality(Holders(o)) = 1 PROVE Holders(o) = {t}
    BY <1>a, <2>2, FS_Singleton
  <2> QED
    BY <2>1, <2>2
<1> QED
  BY <1>a, <1>1, <1>2

(* Who holds what.                                                         *)
LEMMA Holding ==
    ASSUME NEW o \in Obj
    PROVE  /\ "admin" \in Holders(o) <=> dir = o \/ admin.o = o
           /\ \A l \in Labeller : l \in Holders(o) <=> lab[l].o = o
           /\ \A w \in Writer : w \in Holders(o) <=> wr[w].o = o
BY ThreadAssumption DEF Holders

-----------------------------------------------------------------------------
(* Which of the module's steps touch only readers or the clock.            *)
ReadOrTick ==
    \/ \E r \in Reader : (\E o \in Obj : ReadBegin(r, o)) \/ ReadStep(r)
    \/ Tick \/ SetStaleTimeout \/ UNCHANGED vars

(* They leave the sensors and the other threads alone.                     *)
LEMMA Outside ==
    ReadOrTick => UNCHANGED <<dir, obj, lock, miscMtx, admin, lab, wr, writes, updated>>
BY DEF ReadOrTick, ReadBegin, ReadStep, ReadCheck, ReadValue, ReadEnd, Tick, SetStaleTimeout,
       vars, sysVars

(* The rmdir thread: its own record changes, and so may one sensor.        *)
DropAny == DropSensor \/ DropLock \/ DropDrain \/ DropMisc \/ DropPut

(* What rmdir changes.                                                     *)
LEMMA Drops ==
    ASSUME TypeOK, Sites, DropAny
    PROVE  /\ admin' \in AdminType /\ UNCHANGED <<sysVars, miscMtx, lab, wr, rd, writes, updated>>
           /\ DropSensor => /\ admin.pc = "idle" /\ admin'.pc = "lock" /\ admin'.o = dir /\ dir # None
                            /\ dir' = None /\ UNCHANGED <<obj, lock>>
           /\ DropLock => /\ admin.pc = "lock" /\ admin'.pc = "drain" /\ admin'.o = admin.o /\ dir' = dir
           /\ DropDrain => /\ admin.pc = "drain" /\ admin'.pc = "misc" /\ admin'.o = admin.o
                           /\ UNCHANGED <<dir, obj>>
           /\ DropMisc => /\ admin.pc = "misc" /\ admin'.pc = "put" /\ admin'.o = admin.o
                          /\ UNCHANGED <<dir, lock>>
           /\ DropPut => /\ admin.pc = "put" /\ admin'.pc = "idle" /\ admin'.o = None
                         /\ UNCHANGED <<dir, lock>>
<1>a. admin \in AdminType /\ dir \in Obj \cup {None}
  BY Types DEF Typed
<1>1. CASE DropSensor
  BY <1>1, <1>a DEF DropSensor, DropLock, DropDrain, DropMisc, DropPut, AdminType
<1>2. CASE DropLock
  BY <1>2, <1>a DEF DropSensor, DropLock, DropDrain, DropMisc, DropPut, AdminType
<1>3. CASE DropDrain
  BY <1>3, <1>a DEF DropSensor, DropLock, DropDrain, DropMisc, DropPut, AdminType
<1>4. CASE DropMisc
  BY <1>4, <1>a DEF DropSensor, DropLock, DropDrain, DropMisc, DropPut, AdminType
<1>5. CASE DropPut
  BY <1>5, <1>a DEF DropSensor, DropLock, DropDrain, DropMisc, DropPut, AdminType
<1> QED
  BY <1>1, <1>2, <1>3, <1>4, <1>5 DEF DropAny

(* The steps of a labeller and what they change of its record.             *)
LabelAny(l) == LabelOpen(l) \/ LabelStep(l)

(* What a labeller changes.                                                *)
LEMMA Labels ==
    ASSUME TypeOK, Sites, NEW l \in Labeller, LabelAny(l)
    PROVE  /\ lab' \in [Labeller -> LabType] /\ \A k \in Labeller \ {l} : lab'[k] = lab[k]
           /\ UNCHANGED <<sysVars, dir, miscMtx, admin, wr, rd, writes, updated>>
           /\ LabelOpen(l) => /\ lab[l].pc = "closed" /\ lab'[l].pc = "open" /\ lab'[l].o = dir
                              /\ dir # None /\ lab'[l].want \in Label /\ UNCHANGED lock
           /\ StoreSameLabel(l) \/ StoreRefused(l) =>
                 /\ lab[l].pc = "open" /\ lab'[l].pc = "done" /\ lab'[l].o = lab[l].o
                 /\ lab'[l].want = lab[l].want /\ UNCHANGED lock
           /\ StoreNewLabel(l) => /\ lab[l].pc = "open" /\ lab'[l].pc = "drain"
                                  /\ lab'[l].o = lab[l].o /\ lab'[l].want = lab[l].want
           /\ Relabel(l) => /\ lab[l].pc = "drain" /\ lab'[l].pc = "done"
                            /\ lab'[l].o = lab[l].o /\ lab'[l].want = lab[l].want
           /\ LabelClose(l) => /\ lab[l].pc = "done" /\ lab'[l].pc = "closed" /\ lab'[l].o = None
                               /\ UNCHANGED lock
<1>a. lab \in [Labeller -> LabType] /\ dir \in Obj \cup {None}
  BY Types DEF Typed
<1>1. CASE LabelOpen(l)
  BY <1>1, <1>a DEF LabelOpen, StoreSameLabel, StoreRefused, StoreNewLabel, Relabel, LabelClose, LabType
<1>2. CASE StoreSameLabel(l) \/ StoreRefused(l)
  BY <1>2, <1>a DEF LabelOpen, StoreSameLabel, StoreRefused, StoreNewLabel, Relabel, LabelClose, LabType
<1>3. CASE StoreNewLabel(l)
  BY <1>3, <1>a DEF LabelOpen, StoreSameLabel, StoreRefused, StoreNewLabel, Relabel, LabelClose, LabType
<1>4. CASE Relabel(l)
  BY <1>4, <1>a DEF LabelOpen, StoreSameLabel, StoreRefused, StoreNewLabel, Relabel, LabelClose, LabType
<1>5. CASE LabelClose(l)
  BY <1>5, <1>a DEF LabelOpen, StoreSameLabel, StoreRefused, StoreNewLabel, Relabel, LabelClose, LabType
<1> QED
  BY <1>1, <1>2, <1>3, <1>4, <1>5 DEF LabelAny, LabelStep

(* The steps of a writer and what they change of its record.               *)
WriteAny(w) ==
    \/ \E o \in Obj : OpenDevice(w, o)
    \/ OpenCheck(w) \/ WriteTemperature(w) \/ WriteStamp(w) \/ WriteRefused(w) \/ CloseDevice(w)

(* What a writer changes.                                                  *)
LEMMA Writes ==
    ASSUME TypeOK, Sites, NEW w \in Writer, WriteAny(w)
    PROVE  /\ wr' \in [Writer -> WrType] /\ \A v \in Writer \ {w} : wr'[v] = wr[v]
           /\ miscMtx' \in Writer \cup {None}
           /\ UNCHANGED <<sysVars, dir, admin, lab, rd>>
           /\ \A o \in Obj : OpenDevice(w, o) =>
                 /\ wr[w].pc = "closed" /\ wr'[w].pc = "opening" /\ wr'[w].o = o
                 /\ UNCHANGED <<lock, writes, updated>>
           /\ OpenCheck(w) => /\ wr[w].pc = "opening" /\ UNCHANGED <<lock, writes, updated>>
                              /\ \/ wr'[w].pc = "closed" /\ wr'[w].o = None
                                 \/ wr'[w].pc = "open" /\ wr'[w].o = wr[w].o /\ UNCHANGED obj
           /\ WriteTemperature(w) => /\ wr[w].pc = "open" /\ wr'[w].pc = "stored"
                                     /\ wr'[w].o = wr[w].o /\ UNCHANGED updated
           /\ WriteStamp(w) => /\ wr[w].pc = "stored" /\ wr'[w].pc = "open"
                               /\ wr'[w].o = wr[w].o /\ UNCHANGED writes
           /\ WriteRefused(w) => /\ wr[w].pc = "open" /\ wr'[w].pc = "failed"
                                 /\ wr'[w].o = wr[w].o
                                 /\ UNCHANGED <<obj, lock, writes, updated>>
           /\ CloseDevice(w) => /\ wr[w].pc \in {"open", "failed"} /\ wr'[w].pc = "closed"
                                /\ wr'[w].o = None /\ UNCHANGED <<lock, writes, updated>>
<1>a. wr \in [Writer -> WrType] /\ miscMtx \in Writer \cup {None}
  BY Types DEF Typed
<1>1. ASSUME NEW o \in Obj, OpenDevice(w, o)
      PROVE  /\ wr' \in [Writer -> WrType] /\ \A v \in Writer \ {w} : wr'[v] = wr[v]
             /\ miscMtx' = w /\ UNCHANGED <<sysVars, dir, admin, lab, rd, lock, writes, updated>>
             /\ wr[w].pc = "closed" /\ wr'[w].pc = "opening" /\ wr'[w].o = o
  BY <1>1, <1>a DEF OpenDevice, WrType
<1>2. CASE \E o \in Obj : OpenDevice(w, o)
  BY <1>1, <1>2 DEF OpenCheck, WriteTemperature, WriteStamp, WriteRefused, CloseDevice
<1>3. CASE OpenCheck(w)
  BY <1>3, <1>a DEF OpenDevice, OpenCheck, WriteTemperature, WriteStamp, WriteRefused, CloseDevice, WrType
<1>4. CASE WriteTemperature(w)
  BY <1>4, <1>a DEF OpenDevice, OpenCheck, WriteTemperature, WriteStamp, WriteRefused, CloseDevice, WrType
<1>5. CASE WriteStamp(w)
  BY <1>5, <1>a DEF OpenDevice, OpenCheck, WriteTemperature, WriteStamp, WriteRefused, CloseDevice, WrType
<1>6. CASE WriteRefused(w)
  BY <1>6, <1>a DEF OpenDevice, OpenCheck, WriteTemperature, WriteStamp, WriteRefused, CloseDevice, WrType
<1>7. CASE CloseDevice(w)
  BY <1>7, <1>a DEF OpenDevice, OpenCheck, WriteTemperature, WriteStamp, WriteRefused, CloseDevice, WrType
<1> QED
  BY <1>2, <1>3, <1>4, <1>5, <1>6, <1>7 DEF WriteAny

-----------------------------------------------------------------------------
(* One sensor becomes y, and the others stay as they are.                  *)
Becomes(o, y) == y \in ObjType /\ obj'[o] = y /\ \A q \in Obj \ {o} : obj'[q] = obj[q]

(* What each step makes of the sensor it is at.                            *)
LEMMA Objects ==
    ASSUME TypeOK, Sites, RefInv
    PROVE  /\ \A o \in Obj : MakeSensor(o) => obj' \in [Obj -> ObjType] /\ Becomes(o, Made)
           /\ DropLock => /\ obj' \in [Obj -> ObjType]
                          /\ Becomes(admin.o, [obj[admin.o] EXCEPT !.removed = TRUE, !.hwmon = FALSE])
           /\ DropMisc => /\ obj' \in [Obj -> ObjType]
                          /\ Becomes(admin.o, [obj[admin.o] EXCEPT !.misc = FALSE])
           /\ DropPut => obj' \in [Obj -> ObjType] /\ Becomes(admin.o, Put(obj[admin.o]))
<1>a. obj \in [Obj -> ObjType] /\ (admin.pc # "idle" => admin.o \in Obj)
  BY Types, AtObject DEF Typed
<1>b. ASSUME NEW o \in Obj, NEW y \in ObjType, obj' = [obj EXCEPT ![o] = y]
      PROVE  obj' \in [Obj -> ObjType] /\ Becomes(o, y)
  BY <1>a, <1>b DEF Becomes
<1>1. ASSUME NEW o \in Obj, MakeSensor(o)
      PROVE  obj' \in [Obj -> ObjType] /\ Becomes(o, Made)
  <2>1. Made \in ObjType
    BY Makes
  <2>2. obj' = [obj EXCEPT ![o] = Made]
    BY <1>1 DEF MakeSensor, Made
  <2> QED
    BY <1>b, <2>1, <2>2
<1>2. ASSUME DropLock
      PROVE  /\ obj' \in [Obj -> ObjType]
             /\ Becomes(admin.o, [obj[admin.o] EXCEPT !.removed = TRUE, !.hwmon = FALSE])
  <2>1. admin.o \in Obj /\ [obj[admin.o] EXCEPT !.removed = TRUE, !.hwmon = FALSE] \in ObjType
    BY <1>2, <1>a DEF DropLock, ObjType
  <2>2. obj' = [obj EXCEPT ![admin.o] = [obj[admin.o] EXCEPT !.removed = TRUE, !.hwmon = FALSE]]
    BY <1>2 DEF DropLock
  <2> QED
    BY <1>b, <2>1, <2>2
<1>3. ASSUME DropMisc
      PROVE  /\ obj' \in [Obj -> ObjType]
             /\ Becomes(admin.o, [obj[admin.o] EXCEPT !.misc = FALSE])
  <2>1. admin.o \in Obj /\ [obj[admin.o] EXCEPT !.misc = FALSE] \in ObjType
    BY <1>3, <1>a DEF DropMisc, ObjType
  <2>2. obj' = [obj EXCEPT ![admin.o] = [obj[admin.o] EXCEPT !.misc = FALSE]]
    BY <1>3 DEF DropMisc
  <2> QED
    BY <1>b, <2>1, <2>2
<1>4. ASSUME DropPut PROVE obj' \in [Obj -> ObjType] /\ Becomes(admin.o, Put(obj[admin.o]))
  <2>1. admin.o \in Obj /\ obj[admin.o] \in ObjType
    BY <1>4, <1>a DEF DropPut
  <2>2. obj[admin.o].refs # 0
    BY <2>1, Held, Holding
  <2>3. Put(obj[admin.o]) \in ObjType
    BY <2>1, <2>2, Puts
  <2>4. obj' = [obj EXCEPT ![admin.o] = Put(obj[admin.o])]
    BY <1>4 DEF DropPut
  <2> QED
    BY <1>b, <2>1, <2>3, <2>4
<1> QED
  BY <1>1, <1>2, <1>3, <1>4

(* The same for a labeller.                                                *)
LEMMA LabelObjects ==
    ASSUME TypeOK, Sites, RefInv, NEW l \in Labeller, NEW o, o = lab[l].o
    PROVE  /\ LabelOpen(l) => /\ obj' \in [Obj -> ObjType] /\ dir \in Obj
                              /\ Becomes(dir, Get(obj[dir]))
           /\ StoreSameLabel(l) => /\ obj' \in [Obj -> ObjType]
                                   /\ UNCHANGED obj \/ Becomes(o, [obj[o] EXCEPT !.hwmon = TRUE])
           /\ StoreNewLabel(l) => /\ obj' \in [Obj -> ObjType]
                                  /\ Becomes(o, [obj[o] EXCEPT !.hwmon = FALSE])
           /\ Relabel(l) =>
                 /\ obj' \in [Obj -> ObjType]
                 /\ \/ Becomes(o, [obj[o] EXCEPT !.label = lab[l].want, !.hwmon = TRUE])
                    \/ UNCHANGED obj
                    \/ obj[o].label # None /\ Becomes(o, [obj[o] EXCEPT !.hwmon = TRUE])
           /\ LabelClose(l) => obj' \in [Obj -> ObjType] /\ Becomes(o, Put(obj[o]))
<1>a. /\ obj \in [Obj -> ObjType] /\ (lab[l].pc # "closed" => o \in Obj) /\ lab[l] \in LabType
      /\ dir \in Obj \cup {None}
  BY Types, AtObject DEF Typed
<1>b. ASSUME NEW q \in Obj, NEW y \in ObjType, obj' = [obj EXCEPT ![q] = y]
      PROVE  obj' \in [Obj -> ObjType] /\ Becomes(q, y)
  BY <1>a, <1>b DEF Becomes
<1>c. \A h \in BOOLEAN : o \in Obj => [obj[o] EXCEPT !.hwmon = h] \in ObjType
  BY <1>a DEF ObjType
<1>1. ASSUME LabelOpen(l)
      PROVE  obj' \in [Obj -> ObjType] /\ dir \in Obj /\ Becomes(dir, Get(obj[dir]))
  <2>1. dir \in Obj /\ obj' = [obj EXCEPT ![dir] = Get(obj[dir])]
    BY <1>1, <1>a DEF LabelOpen
  <2> QED
    BY <1>a, <1>b, <2>1, Gets
<1>2. ASSUME StoreSameLabel(l)
      PROVE  /\ obj' \in [Obj -> ObjType]
             /\ UNCHANGED obj \/ Becomes(o, [obj[o] EXCEPT !.hwmon = TRUE])
  <2>1. o \in Obj /\ (UNCHANGED obj \/ obj' = [obj EXCEPT ![o] = [obj[o] EXCEPT !.hwmon = TRUE]])
    BY <1>2, <1>a DEF StoreSameLabel, RegisterOK
  <2> QED
    BY <1>a, <1>b, <1>c, <2>1
<1>3. ASSUME StoreNewLabel(l)
      PROVE  obj' \in [Obj -> ObjType] /\ Becomes(o, [obj[o] EXCEPT !.hwmon = FALSE])
  <2>1. o \in Obj /\ obj' = [obj EXCEPT ![o] = [obj[o] EXCEPT !.hwmon = FALSE]]
    BY <1>3, <1>a DEF StoreNewLabel
  <2> QED
    BY <1>b, <1>c, <2>1
<1>4. ASSUME Relabel(l)
      PROVE  /\ obj' \in [Obj -> ObjType]
             /\ \/ Becomes(o, [obj[o] EXCEPT !.label = lab[l].want, !.hwmon = TRUE])
                \/ UNCHANGED obj
                \/ obj[o].label # None /\ Becomes(o, [obj[o] EXCEPT !.hwmon = TRUE])
  <2>1. o \in Obj /\ [obj[o] EXCEPT !.label = lab[l].want, !.hwmon = TRUE] \in ObjType
    <3>1. o \in Obj
      BY <1>4, <1>a DEF Relabel
    <3>2. lab[l].want \in Label \cup {None}
      BY <1>a DEF LabType
    <3>3. \A x \in ObjType, b \in Label \cup {None} :
              [x EXCEPT !.label = b, !.hwmon = TRUE] \in ObjType
      BY DEF ObjType
    <3> QED
      BY <3>1, <3>2, <3>3, <1>a
  <2>2. \/ obj' = [obj EXCEPT ![o] = [obj[o] EXCEPT !.label = lab[l].want, !.hwmon = TRUE]]
        \/ UNCHANGED obj
        \/ obj[o].label # None /\ obj' = [obj EXCEPT ![o] = [obj[o] EXCEPT !.hwmon = TRUE]]
    BY <1>4 DEF Relabel, RegisterOK
  <2> QED
    BY <1>a, <1>b, <1>c, <2>1, <2>2
<1>5. ASSUME LabelClose(l) PROVE obj' \in [Obj -> ObjType] /\ Becomes(o, Put(obj[o]))
  <2>1. o \in Obj /\ obj[o] \in ObjType /\ obj' = [obj EXCEPT ![o] = Put(obj[o])]
    BY <1>5, <1>a DEF LabelClose
  <2>2. obj[o].refs # 0
    BY <2>1, Held, Holding
  <2> QED
    BY <1>b, <2>1, <2>2, Puts
<1> QED
  BY <1>1, <1>2, <1>3, <1>4, <1>5

(* The same for a writer.                                                  *)
LEMMA WriteObjects ==
    ASSUME TypeOK, Sites, RefInv, NEW w \in Writer, NEW o, o = wr[w].o
    PROVE  /\ \A q \in Obj : OpenDevice(w, q) =>
                 obj' \in [Obj -> ObjType] /\ Becomes(q, Get(obj[q]))
           /\ OpenCheck(w) => /\ obj' \in [Obj -> ObjType]
                              /\ wr'[w].o # None \/ Becomes(o, Put(obj[o]))
           /\ WriteTemperature(w) => /\ obj' \in [Obj -> ObjType] /\ writes + 1 \in 1..MaxWrites
                                     /\ Becomes(o, [obj[o] EXCEPT !.temp = writes + 1])
           /\ WriteStamp(w) => /\ obj' \in [Obj -> ObjType]
                               /\ Becomes(o, [obj[o] EXCEPT !.upd = now])
           /\ CloseDevice(w) => obj' \in [Obj -> ObjType] /\ Becomes(o, Put(obj[o]))
<1>a. /\ obj \in [Obj -> ObjType] /\ (wr[w].pc # "closed" => o \in Obj) /\ wr \in [Writer -> WrType]
      /\ now \in 0..MaxTime /\ writes \in 0..MaxWrites /\ MaxWrites \in Nat
  BY Types, AtObject, BoundsAssumption DEF Typed
<1>b. ASSUME NEW q \in Obj, NEW y \in ObjType, obj' = [obj EXCEPT ![q] = y]
      PROVE  obj' \in [Obj -> ObjType] /\ Becomes(q, y)
  BY <1>a, <1>b DEF Becomes
<1>c. ASSUME o \in Obj, obj' = [obj EXCEPT ![o] = Put(obj[o])]
      PROVE  obj' \in [Obj -> ObjType] /\ Becomes(o, Put(obj[o]))
  <2>1. obj[o] \in ObjType /\ obj[o].refs # 0
    BY <1>a, <1>c, Held, Holding
  <2> QED
    BY <1>b, <1>c, <2>1, Puts
<1>1. ASSUME NEW q \in Obj, OpenDevice(w, q)
      PROVE  obj' \in [Obj -> ObjType] /\ Becomes(q, Get(obj[q]))
  <2>1. obj' = [obj EXCEPT ![q] = Get(obj[q])]
    BY <1>1 DEF OpenDevice
  <2> QED
    BY <1>a, <1>b, <2>1, Gets
<1>2. ASSUME OpenCheck(w)
      PROVE  obj' \in [Obj -> ObjType] /\ (wr'[w].o # None \/ Becomes(o, Put(obj[o])))
  <2>1. CASE obj' = [obj EXCEPT ![o] = Put(obj[o])]
    BY <1>2, <1>a, <1>c, <2>1 DEF OpenCheck
  <2>2. CASE UNCHANGED obj /\ wr' = [wr EXCEPT ![w].pc = "open"]
    BY <1>2, <1>a, <2>2, NoneAssumption DEF OpenCheck, WrType
  <2> QED
    BY <1>2, <2>1, <2>2 DEF OpenCheck
<1>3. ASSUME WriteTemperature(w)
      PROVE  /\ obj' \in [Obj -> ObjType] /\ writes + 1 \in 1..MaxWrites
             /\ Becomes(o, [obj[o] EXCEPT !.temp = writes + 1])
  <2>1. o \in Obj /\ writes + 1 \in 1..MaxWrites
        /\ obj' = [obj EXCEPT ![o] = [obj[o] EXCEPT !.temp = writes + 1]]
    BY <1>3, <1>a DEF WriteTemperature
  <2>2. [obj[o] EXCEPT !.temp = writes + 1] \in ObjType
    BY <1>a, <2>1 DEF ObjType
  <2> QED
    BY <1>b, <2>1, <2>2
<1>4. ASSUME WriteStamp(w)
      PROVE  obj' \in [Obj -> ObjType] /\ Becomes(o, [obj[o] EXCEPT !.upd = now])
  <2>1. o \in Obj /\ obj' = [obj EXCEPT ![o] = [obj[o] EXCEPT !.upd = now]]
    BY <1>4, <1>a DEF WriteStamp
  <2>2. [obj[o] EXCEPT !.upd = now] \in ObjType
    BY <1>a, <2>1 DEF ObjType
  <2> QED
    BY <1>b, <2>1, <2>2
<1>5. ASSUME CloseDevice(w) PROVE obj' \in [Obj -> ObjType] /\ Becomes(o, Put(obj[o]))
  BY <1>5, <1>a, <1>c DEF CloseDevice
<1> QED
  BY <1>1, <1>2, <1>3, <1>4, <1>5

(* The fields of a sensor that a label store leaves alone, and the others. *)
LEMMA LabelFields ==
    ASSUME TypeOK, Sites, RefInv, NEW l \in Labeller, NEW o \in Obj, o = lab[l].o,
           StoreSameLabel(l) \/ StoreRefused(l) \/ StoreNewLabel(l) \/ Relabel(l)
    PROVE  /\ \A q \in Obj \ {o} : obj'[q] = obj[q]
           /\ obj'[o].alloc = obj[o].alloc /\ obj'[o].refs = obj[o].refs
           /\ obj'[o].removed = obj[o].removed /\ obj'[o].misc = obj[o].misc
           /\ obj'[o].temp = obj[o].temp /\ obj'[o].upd = obj[o].upd
           /\ \/ obj'[o] = obj[o]
              \/ obj'[o].hwmon = FALSE /\ obj'[o].label = obj[o].label
              \/ /\ obj'[o].hwmon = TRUE /\ obj'[o].label = obj[o].label
                 /\ obj[o].label # None \/ (StoreSameLabel(l) /\ obj[o].label = lab[l].want)
              \/ Relabel(l) /\ obj'[o].hwmon = TRUE /\ obj'[o].label = lab[l].want
<1>a. obj[o] \in ObjType
  BY Types DEF Typed
<1>1. ASSUME NEW h \in BOOLEAN, Becomes(o, [obj[o] EXCEPT !.hwmon = h])
      PROVE  /\ \A q \in Obj \ {o} : obj'[q] = obj[q]
             /\ obj'[o].alloc = obj[o].alloc /\ obj'[o].refs = obj[o].refs
             /\ obj'[o].removed = obj[o].removed /\ obj'[o].misc = obj[o].misc
             /\ obj'[o].temp = obj[o].temp /\ obj'[o].upd = obj[o].upd
             /\ obj'[o].hwmon = h /\ obj'[o].label = obj[o].label
  <2> DEFINE y == [obj[o] EXCEPT !.hwmon = h]
  <2>1. /\ y.alloc = obj[o].alloc /\ y.refs = obj[o].refs /\ y.removed = obj[o].removed
        /\ y.misc = obj[o].misc /\ y.temp = obj[o].temp /\ y.upd = obj[o].upd
        /\ y.hwmon = h /\ y.label = obj[o].label
    BY <1>a DEF ObjType
  <2> HIDE DEF y
  <2>2. obj'[o] = y /\ \A q \in Obj \ {o} : obj'[q] = obj[q]
    BY <1>1 DEF Becomes, y
  <2> QED
    BY <2>1, <2>2
<1>2. ASSUME Becomes(o, [obj[o] EXCEPT !.label = lab[l].want, !.hwmon = TRUE])
      PROVE  /\ \A q \in Obj \ {o} : obj'[q] = obj[q]
             /\ obj'[o].alloc = obj[o].alloc /\ obj'[o].refs = obj[o].refs
             /\ obj'[o].removed = obj[o].removed /\ obj'[o].misc = obj[o].misc
             /\ obj'[o].temp = obj[o].temp /\ obj'[o].upd = obj[o].upd
             /\ obj'[o].hwmon = TRUE /\ obj'[o].label = lab[l].want
  <2> DEFINE y == [obj[o] EXCEPT !.label = lab[l].want, !.hwmon = TRUE]
  <2>1. /\ y.alloc = obj[o].alloc /\ y.refs = obj[o].refs /\ y.removed = obj[o].removed
        /\ y.misc = obj[o].misc /\ y.temp = obj[o].temp /\ y.upd = obj[o].upd
        /\ y.hwmon = TRUE /\ y.label = lab[l].want
    BY <1>a DEF ObjType
  <2> HIDE DEF y
  <2>2. obj'[o] = y /\ \A q \in Obj \ {o} : obj'[q] = obj[q]
    BY <1>2 DEF Becomes, y
  <2> QED
    BY <2>1, <2>2
<1>3. CASE UNCHANGED obj
  BY <1>3
<1>4. CASE StoreRefused(l)
  BY <1>3, <1>4 DEF StoreRefused
<1>5. CASE StoreSameLabel(l)
  <2>1. obj[o].label = lab[l].want
    BY <1>5 DEF StoreSameLabel
  <2>2. UNCHANGED obj \/ Becomes(o, [obj[o] EXCEPT !.hwmon = TRUE])
    BY <1>5, LabelObjects
  <2> QED
    BY <1>1, <1>3, <1>5, <2>1, <2>2
<1>6. CASE StoreNewLabel(l)
  <2>1. Becomes(o, [obj[o] EXCEPT !.hwmon = FALSE])
    BY <1>6, LabelObjects
  <2> QED
    BY <1>1, <2>1
<1>7. CASE Relabel(l)
  <2>1. \/ Becomes(o, [obj[o] EXCEPT !.label = lab[l].want, !.hwmon = TRUE])
        \/ UNCHANGED obj
        \/ obj[o].label # None /\ Becomes(o, [obj[o] EXCEPT !.hwmon = TRUE])
    BY <1>7, LabelObjects
  <2> QED
    BY <1>1, <1>2, <1>3, <1>7, <2>1
<1> QED
  BY <1>4, <1>5, <1>6, <1>7

(* The fields of a sensor that a write leaves alone.                       *)
LEMMA WriteFields ==
    ASSUME TypeOK, Sites, RefInv, NEW w \in Writer, NEW o \in Obj, o = wr[w].o,
           WriteTemperature(w) \/ WriteStamp(w)
    PROVE  /\ \A q \in Obj \ {o} : obj'[q] = obj[q]
           /\ obj'[o].alloc = obj[o].alloc /\ obj'[o].refs = obj[o].refs
           /\ obj'[o].removed = obj[o].removed /\ obj'[o].misc = obj[o].misc
           /\ obj'[o].hwmon = obj[o].hwmon /\ obj'[o].label = obj[o].label
           /\ WriteTemperature(w) => obj'[o].temp = writes + 1 /\ obj'[o].upd = obj[o].upd
           /\ WriteStamp(w) => obj'[o].temp = obj[o].temp /\ obj'[o].upd = now
<1>a. obj[o] \in ObjType
  BY Types DEF Typed
<1>b. ~(WriteTemperature(w) /\ WriteStamp(w))
  BY DEF WriteTemperature, WriteStamp
<1>1. CASE WriteTemperature(w)
  <2> DEFINE y == [obj[o] EXCEPT !.temp = writes + 1]
  <2>1. /\ y.alloc = obj[o].alloc /\ y.refs = obj[o].refs /\ y.removed = obj[o].removed
        /\ y.misc = obj[o].misc /\ y.hwmon = obj[o].hwmon /\ y.label = obj[o].label
        /\ y.temp = writes + 1 /\ y.upd = obj[o].upd
    BY <1>a DEF ObjType
  <2>2. obj'[o] = y /\ \A q \in Obj \ {o} : obj'[q] = obj[q]
    BY <1>1, WriteObjects DEF Becomes
  <2> HIDE DEF y
  <2> QED
    BY <1>1, <1>b, <2>1, <2>2
<1>2. CASE WriteStamp(w)
  <2> DEFINE y == [obj[o] EXCEPT !.upd = now]
  <2>1. /\ y.alloc = obj[o].alloc /\ y.refs = obj[o].refs /\ y.removed = obj[o].removed
        /\ y.misc = obj[o].misc /\ y.hwmon = obj[o].hwmon /\ y.label = obj[o].label
        /\ y.temp = obj[o].temp /\ y.upd = now
    BY <1>a DEF ObjType
  <2>2. obj'[o] = y /\ \A q \in Obj \ {o} : obj'[q] = obj[q]
    BY <1>2, WriteObjects DEF Becomes
  <2> HIDE DEF y
  <2> QED
    BY <1>2, <1>b, <2>1, <2>2
<1> QED
  BY <1>1, <1>2

(* The fields of a sensor that rmdir leaves alone.                         *)
LEMMA DropFields ==
    ASSUME TypeOK, Sites, RefInv, NEW o \in Obj, o = admin.o, DropLock \/ DropMisc
    PROVE  /\ \A q \in Obj \ {o} : obj'[q] = obj[q]
           /\ obj'[o].alloc = obj[o].alloc /\ obj'[o].refs = obj[o].refs
           /\ obj'[o].label = obj[o].label /\ obj'[o].temp = obj[o].temp
           /\ obj'[o].upd = obj[o].upd
           /\ DropLock => /\ obj'[o].removed = TRUE /\ obj'[o].hwmon = FALSE
                          /\ obj'[o].misc = obj[o].misc
           /\ DropMisc => /\ obj'[o].removed = obj[o].removed /\ obj'[o].misc = FALSE
                          /\ obj'[o].hwmon = obj[o].hwmon
<1>a. obj[o] \in ObjType
  BY Types DEF Typed
<1>b. ~(DropLock /\ DropMisc)
  BY DEF DropLock, DropMisc
<1>1. CASE DropLock
  <2> DEFINE y == [obj[o] EXCEPT !.removed = TRUE, !.hwmon = FALSE]
  <2>1. /\ y.alloc = obj[o].alloc /\ y.refs = obj[o].refs /\ y.removed = TRUE
        /\ y.misc = obj[o].misc /\ y.hwmon = FALSE /\ y.label = obj[o].label
        /\ y.temp = obj[o].temp /\ y.upd = obj[o].upd
    BY <1>a DEF ObjType
  <2>2. obj'[o] = y /\ \A q \in Obj \ {o} : obj'[q] = obj[q]
    BY <1>1, Objects DEF Becomes
  <2> HIDE DEF y
  <2> QED
    BY <1>1, <1>b, <2>1, <2>2
<1>2. CASE DropMisc
  <2> DEFINE y == [obj[o] EXCEPT !.misc = FALSE]
  <2>1. /\ y.alloc = obj[o].alloc /\ y.refs = obj[o].refs /\ y.removed = obj[o].removed
        /\ y.misc = FALSE /\ y.hwmon = obj[o].hwmon /\ y.label = obj[o].label
        /\ y.temp = obj[o].temp /\ y.upd = obj[o].upd
    BY <1>a DEF ObjType
  <2>2. obj'[o] = y /\ \A q \in Obj \ {o} : obj'[q] = obj[q]
    BY <1>2, Objects DEF Becomes
  <2> HIDE DEF y
  <2> QED
    BY <1>2, <1>b, <2>1, <2>2
<1> QED
  BY <1>1, <1>2

-----------------------------------------------------------------------------
(* Every step is one of a thread.                                          *)
LEMMA Steps ==
    ASSUME [Next]_vars
    PROVE  \/ \E o \in Obj : MakeSensor(o)
           \/ DropAny
           \/ \E l \in Labeller : LabelAny(l)
           \/ \E w \in Writer : WriteAny(w)
           \/ ReadOrTick
BY DEF Next, DropStep, DropAny, LabelAny, WriteStep, WriteAny, ReadOrTick

(* A thread is at a sensor exactly while it is inside.                     *)
LEMMA SitesStep == TypeOK /\ Sites /\ [Next]_vars => Sites'
<1> SUFFICES ASSUME TypeOK, Sites, [Next]_vars PROVE Sites'
  OBVIOUS
<1>a. rd \in [Reader -> RdType]
  BY Types DEF Typed
<1>1. ASSUME NEW o \in Obj, MakeSensor(o) PROVE Sites'
  BY <1>1 DEF MakeSensor, Sites
<1>2. CASE DropAny
  <2>1. /\ admin'.pc = "idle" <=> admin'.o = None
        /\ admin'.o # None => dir' = None
    BY <1>2, Drops DEF DropAny, Sites
  <2>2. UNCHANGED <<lab, wr, rd>>
    BY <1>2, Drops
  <2> QED
    BY <2>1, <2>2 DEF Sites
<1>3. ASSUME NEW l \in Labeller, LabelAny(l) PROVE Sites'
  <2>1. UNCHANGED <<dir, admin, wr, rd>> /\ \A k \in Labeller \ {l} : lab'[k] = lab[k]
    BY <1>3, Labels
  <2>2. /\ lab'[l].pc = "closed" <=> lab'[l].o = None
        /\ lab'[l].pc # "closed" => lab'[l].want \in Label
    BY <1>3, Labels DEF LabelAny, LabelStep, Sites
  <2> QED
    BY <2>1, <2>2 DEF Sites
<1>4. ASSUME NEW w \in Writer, WriteAny(w) PROVE Sites'
  <2>1. UNCHANGED <<dir, admin, lab, rd>> /\ \A v \in Writer \ {w} : wr'[v] = wr[v]
    BY <1>4, Writes
  <2>2. wr'[w].pc = "closed" <=> wr'[w].o = None
    BY <1>4, Writes, NoneAssumption DEF WriteAny, Sites
  <2> QED
    BY <2>1, <2>2 DEF Sites
<1>5. CASE ReadOrTick
  <2>1. UNCHANGED <<dir, admin, lab, wr>>
    BY <1>5, Outside
  <2>2. ASSUME NEW r \in Reader PROVE rd'[r].pc = "idle" <=> rd'[r].o = None
    <3>1. CASE UNCHANGED rd
      BY <3>1 DEF Sites
    <3>2. ASSUME NEW q \in Reader, NEW o \in Obj, ReadBegin(q, o)
          PROVE  rd'[r].pc = "idle" <=> rd'[r].o = None
      BY <3>2, <1>a, NoneAssumption DEF ReadBegin, Sites, RdType
    <3>3. ASSUME NEW q \in Reader, ReadStep(q)
          PROVE  rd'[r].pc = "idle" <=> rd'[r].o = None
      BY <3>3, <1>a DEF ReadStep, ReadCheck, ReadValue, ReadEnd, Sites, RdType
    <3> QED
      BY <1>5, <3>1, <3>2, <3>3 DEF ReadOrTick, Tick, SetStaleTimeout, vars
  <2> QED
    BY <2>1, <2>2 DEF Sites
<1> QED
  BY <1>1, <1>2, <1>3, <1>4, <1>5, Steps

(* A step that leaves every thread where it is keeps the holders.          *)
LEMMA SameHolders ==
    ASSUME NEW o \in Obj,
           (dir' = o \/ admin'.o = o) <=> (dir = o \/ admin.o = o),
           \A l \in Labeller : lab'[l].o = o <=> lab[l].o = o,
           \A w \in Writer : wr'[w].o = o <=> wr[w].o = o
    PROVE  Holders(o)' = Holders(o)
BY DEF Holders

(* A sensor that gains a holder.                                           *)
LEMMA MoreHolders ==
    ASSUME NEW o \in Obj, NEW t, t \notin Holders(o), IsFiniteSet(Holders(o)),
           Holders(o)' = Holders(o) \cup {t}
    PROVE  IsFiniteSet(Holders(o)') /\ Cardinality(Holders(o)') = Cardinality(Holders(o)) + 1
BY FS_AddElement

(* A sensor that loses a holder.                                           *)
LEMMA FewerHolders ==
    ASSUME NEW o \in Obj, NEW t, t \in Holders(o), IsFiniteSet(Holders(o)),
           Holders(o)' = Holders(o) \ {t}
    PROVE  IsFiniteSet(Holders(o)') /\ Cardinality(Holders(o)') = Cardinality(Holders(o)) - 1
BY FS_RemoveElement

(* The count of one sensor.                                                *)
Counted(o) ==
    /\ IsFiniteSet(Holders(o)) /\ obj[o].refs = Cardinality(Holders(o))
    /\ obj[o].alloc <=> Holders(o) # {}
    /\ ~obj[o].alloc => obj[o] = Free

(* A step that edits a sensor that is allocated, or none.                  *)
LEMMA CountKept ==
    ASSUME TypeOK, RefInv, NEW o \in Obj, Holders(o)' = Holders(o),
           \/ obj'[o] = obj[o]
           \/ obj[o].alloc /\ obj'[o].alloc = obj[o].alloc /\ obj'[o].refs = obj[o].refs
    PROVE  Counted(o)'
BY DEF RefInv, Counted

(* A step that takes a reference on a sensor that is allocated.            *)
LEMMA CountUp ==
    ASSUME TypeOK, RefInv, NEW o \in Obj, NEW t, t \notin Holders(o), obj[o].alloc,
           Holders(o)' = Holders(o) \cup {t}, obj'[o] = Get(obj[o])
    PROVE  Counted(o)'
<1>a. obj[o] \in ObjType /\ IsFiniteSet(Holders(o)) /\ obj[o].refs = Cardinality(Holders(o))
  BY Types DEF Typed, RefInv
<1>1. IsFiniteSet(Holders(o)') /\ Cardinality(Holders(o)') = Cardinality(Holders(o)) + 1
  BY <1>a, MoreHolders
<1>2. obj'[o].refs = obj[o].refs + 1 /\ obj'[o].alloc
  BY <1>a, Gets
<1> QED
  BY <1>a, <1>1, <1>2 DEF Counted

(* A step that drops a reference.                                          *)
LEMMA CountDown ==
    ASSUME TypeOK, RefInv, NEW o \in Obj, NEW t, t \in Holders(o),
           Holders(o)' = Holders(o) \ {t}, obj'[o] = Put(obj[o])
    PROVE  Counted(o)'
<1>a. obj[o] \in ObjType /\ IsFiniteSet(Holders(o)) /\ obj[o].refs = Cardinality(Holders(o))
  BY Types DEF Typed, RefInv
<1>b. /\ obj[o].refs \in Nat /\ obj[o].refs # 0 /\ obj[o].alloc
      /\ obj[o].refs = 1 <=> Holders(o) = {t}
  BY Held
<1>1. IsFiniteSet(Holders(o)') /\ Cardinality(Holders(o)') = Cardinality(Holders(o)) - 1
  BY <1>a, FewerHolders
<1>2. CASE obj[o].refs = 1
  <2>1. obj'[o] = Free /\ Holders(o)' = {}
    BY <1>a, <1>b, <1>2, Puts
  <2> QED
    BY <1>1, <1>2, <1>a, <2>1, Frees DEF Counted
<1>3. CASE obj[o].refs # 1
  <2>1. obj'[o].refs = obj[o].refs - 1 /\ obj'[o].alloc /\ Holders(o)' # {}
    BY <1>a, <1>b, <1>3, Puts
  <2> QED
    BY <1>1, <1>3, <1>a, <2>1 DEF Counted
<1> QED
  BY <1>2, <1>3

(* The counts stay exact through every open, close, mkdir and rmdir.       *)
LEMMA RefStep == TypeOK /\ Sites /\ RefInv /\ StageInv /\ [Next]_vars => RefInv'
<1> SUFFICES ASSUME TypeOK, Sites, RefInv, StageInv, [Next]_vars, NEW q \in Obj
             PROVE  Counted(q)'
  BY DEF RefInv, Counted
<1>a. /\ obj \in [Obj -> ObjType] /\ dir \in Obj \cup {None} /\ None \notin Obj
      /\ "admin" \notin Labeller \cup Writer /\ Labeller \cap Writer = {}
  BY Types, NoneAssumption, ThreadAssumption DEF Typed
<1>b. ASSUME Holders(q)' = Holders(q), obj'[q] = obj[q] PROVE Counted(q)'
  BY <1>b, CountKept
<1>1. ASSUME NEW o \in Obj, MakeSensor(o) PROVE Counted(q)'
  <2>1. /\ ~obj[o].alloc /\ dir = None /\ admin.o = None /\ dir' = o /\ UNCHANGED <<admin, lab, wr>>
        /\ Becomes(o, Made)
    BY <1>1, Objects DEF MakeSensor, Sites
  <2>2. CASE q # o
    <3>1. Holders(q)' = Holders(q)
      BY <2>1, <2>2, <1>a, SameHolders
    <3> QED
      BY <1>b, <2>1, <2>2, <3>1 DEF Becomes
  <2>3. CASE q = o
    <3>1. Holders(q) = {}
      BY <2>1, <2>3 DEF RefInv
    <3>2. Holders(q)' = {"admin"}
      BY <2>1, <2>3, <3>1, <1>a DEF Holders
    <3>3. obj'[q] = Made
      BY <2>1, <2>3 DEF Becomes
    <3>4. IsFiniteSet({"admin"}) /\ Cardinality({"admin"}) = 1
      BY FS_Singleton
    <3> QED
      BY <3>2, <3>3, <3>4, Makes DEF Counted
  <2> QED
    BY <2>2, <2>3
<1>2. CASE DropSensor \/ DropDrain
  <2>1. UNCHANGED <<obj, lab, wr>>
    BY <1>2, Drops DEF DropAny
  <2>2. (dir' = q \/ admin'.o = q) <=> (dir = q \/ admin.o = q)
    BY <1>2, <1>a, Drops DEF DropAny, Sites
  <2> QED
    BY <1>b, <2>1, <2>2, SameHolders
<1>3. CASE DropLock \/ DropMisc
  <2>1. UNCHANGED <<lab, wr, dir>> /\ admin'.o = admin.o /\ admin.pc # "idle"
    BY <1>3, Drops DEF DropAny
  <2>2. PICK o \in Obj : o = admin.o
    BY <2>1, AtObject
  <2>3. Holders(q)' = Holders(q)
    BY <2>1, SameHolders
  <2>4. /\ obj'[o].alloc = obj[o].alloc /\ obj'[o].refs = obj[o].refs
        /\ \A p \in Obj \ {o} : obj'[p] = obj[p]
    BY <1>3, <2>2, DropFields
  <2>5. obj[o].alloc
    BY <2>2, Held, Holding
  <2> QED
    BY <2>3, <2>4, <2>5, CountKept
<1>4. CASE DropPut
  <2>1. /\ UNCHANGED <<lab, wr, dir>> /\ admin'.o = None /\ admin.pc # "idle"
        /\ Becomes(admin.o, Put(obj[admin.o]))
    BY <1>4, Drops, Objects DEF DropAny
  <2>2. PICK o \in Obj : o = admin.o
    BY <2>1, AtObject
  <2>3. CASE q # o
    <3>1. Holders(q)' = Holders(q)
      BY <1>a, <2>1, <2>2, <2>3, SameHolders DEF Sites
    <3> QED
      BY <1>b, <2>1, <2>2, <2>3, <3>1 DEF Becomes
  <2>4. CASE q = o
    <3>1. "admin" \in Holders(q)
      BY <2>2, <2>4, Holding
    <3>2. Holders(q)' = Holders(q) \ {"admin"}
      BY <1>a, <2>1, <2>2, <2>4 DEF Holders, Sites
    <3>3. obj'[q] = Put(obj[q])
      BY <2>1, <2>2, <2>4 DEF Becomes
    <3> QED
      BY <3>1, <3>2, <3>3, CountDown
  <2> QED
    BY <2>3, <2>4
<1>5. ASSUME NEW l \in Labeller, LabelOpen(l) PROVE Counted(q)'
  <2>1. /\ UNCHANGED <<wr, dir, admin>> /\ lab'[l].o = dir /\ lab[l].o = None
        /\ \A k \in Labeller \ {l} : lab'[k] = lab[k]
        /\ dir \in Obj /\ Becomes(dir, Get(obj[dir]))
    BY <1>5, Labels, LabelObjects DEF LabelAny, Sites
  <2>2. CASE q # dir
    <3>1. Holders(q)' = Holders(q)
      BY <1>a, <2>1, <2>2, SameHolders
    <3> QED
      BY <1>b, <2>1, <2>2, <3>1 DEF Becomes
  <2>3. CASE q = dir
    <3>1. l \notin Holders(q) /\ Holders(q)' = Holders(q) \cup {l}
      BY <1>a, <2>1, <2>3 DEF Holders
    <3>2. obj[q].alloc /\ obj'[q] = Get(obj[q])
      BY <2>1, <2>3, Held, Holding DEF Becomes
    <3> QED
      BY <3>1, <3>2, CountUp
  <2> QED
    BY <2>2, <2>3
<1>6. ASSUME NEW l \in Labeller,
             StoreSameLabel(l) \/ StoreRefused(l) \/ StoreNewLabel(l) \/ Relabel(l)
      PROVE  Counted(q)'
  <2>1. /\ UNCHANGED <<wr, dir, admin>> /\ lab'[l].o = lab[l].o /\ lab[l].pc # "closed"
        /\ \A k \in Labeller \ {l} : lab'[k] = lab[k]
    BY <1>6, Labels DEF LabelAny, LabelStep
  <2>2. PICK o \in Obj : o = lab[l].o
    BY <2>1, AtObject
  <2>3. Holders(q)' = Holders(q)
    BY <2>1, SameHolders
  <2>4. /\ obj'[o].alloc = obj[o].alloc /\ obj'[o].refs = obj[o].refs
        /\ \A p \in Obj \ {o} : obj'[p] = obj[p]
    BY <1>6, <2>2, LabelFields
  <2>5. obj[o].alloc
    BY <2>2, Held, Holding
  <2> QED
    BY <2>3, <2>4, <2>5, CountKept
<1>7. ASSUME NEW l \in Labeller, LabelClose(l) PROVE Counted(q)'
  <2>1. /\ UNCHANGED <<wr, dir, admin>> /\ lab'[l].o = None /\ lab[l].pc # "closed"
        /\ \A k \in Labeller \ {l} : lab'[k] = lab[k]
        /\ Becomes(lab[l].o, Put(obj[lab[l].o]))
    BY <1>7, Labels, LabelObjects DEF LabelAny, LabelStep
  <2>2. PICK o \in Obj : o = lab[l].o
    BY <2>1, AtObject
  <2>3. CASE q # o
    <3>1. Holders(q)' = Holders(q)
      BY <1>a, <2>1, <2>2, <2>3, SameHolders
    <3> QED
      BY <1>b, <2>1, <2>2, <2>3, <3>1 DEF Becomes
  <2>4. CASE q = o
    <3>1. l \in Holders(q) /\ Holders(q)' = Holders(q) \ {l}
      BY <1>a, <2>1, <2>2, <2>4 DEF Holders
    <3>2. obj'[q] = Put(obj[q])
      BY <2>1, <2>2, <2>4 DEF Becomes
    <3> QED
      BY <3>1, <3>2, CountDown
  <2> QED
    BY <2>3, <2>4
<1>8. ASSUME NEW w \in Writer, NEW o \in Obj, OpenDevice(w, o) PROVE Counted(q)'
  <2>1. /\ UNCHANGED <<lab, dir, admin>> /\ wr'[w].o = o /\ wr[w].o = None
        /\ \A v \in Writer \ {w} : wr'[v] = wr[v]
        /\ Becomes(o, Get(obj[o]))
    BY <1>8, Writes, WriteObjects DEF WriteAny, Sites
  <2>2. CASE q # o
    <3>1. Holders(q)' = Holders(q)
      BY <1>a, <2>1, <2>2, SameHolders
    <3> QED
      BY <1>b, <2>1, <2>2, <3>1 DEF Becomes
  <2>3. CASE q = o
    <3>1. w \notin Holders(q) /\ Holders(q)' = Holders(q) \cup {w}
      BY <1>a, <2>1, <2>3 DEF Holders
    <3>2. "admin" \in Holders(q)
      BY <1>8, <2>3, Holding DEF OpenDevice, StageInv, Attached
    <3>3. obj[q].alloc /\ obj'[q] = Get(obj[q])
      BY <2>1, <2>3, <3>2, Held DEF Becomes
    <3> QED
      BY <3>1, <3>3, CountUp
  <2> QED
    BY <2>2, <2>3
<1>9. ASSUME NEW w \in Writer, WriteTemperature(w) \/ WriteStamp(w) \/ WriteRefused(w)
      PROVE  Counted(q)'
  <2>1. /\ UNCHANGED <<lab, dir, admin>> /\ wr'[w].o = wr[w].o /\ wr[w].pc # "closed"
        /\ \A v \in Writer \ {w} : wr'[v] = wr[v]
    BY <1>9, Writes DEF WriteAny
  <2>2. PICK o \in Obj : o = wr[w].o
    BY <2>1, AtObject
  <2>3. Holders(q)' = Holders(q)
    BY <2>1, SameHolders
  <2>4. /\ obj'[o].alloc = obj[o].alloc /\ obj'[o].refs = obj[o].refs
        /\ \A p \in Obj \ {o} : obj'[p] = obj[p]
    <3>1. CASE WriteRefused(w)
      BY <3>1 DEF WriteRefused
    <3>2. CASE WriteTemperature(w) \/ WriteStamp(w)
      BY <3>2, <2>2, WriteFields
    <3> QED
      BY <1>9, <3>1, <3>2
  <2>5. obj[o].alloc
    BY <2>2, Held, Holding
  <2> QED
    BY <2>3, <2>4, <2>5, CountKept
<1>10. ASSUME NEW w \in Writer, OpenCheck(w) \/ CloseDevice(w) PROVE Counted(q)'
  <2>1. /\ UNCHANGED <<lab, dir, admin>> /\ wr[w].pc # "closed"
        /\ \A v \in Writer \ {w} : wr'[v] = wr[v]
    BY <1>10, Writes DEF WriteAny
  <2>2. PICK o \in Obj : o = wr[w].o
    BY <2>1, AtObject
  <2>3. CASE wr'[w].o = wr[w].o /\ UNCHANGED obj
    <3>1. Holders(q)' = Holders(q)
      BY <2>1, <2>3, SameHolders
    <3> QED
      BY <1>b, <2>3, <3>1
  <2>4. CASE wr'[w].o = None /\ q # o /\ Becomes(o, Put(obj[o]))
    <3>1. Holders(q)' = Holders(q)
      BY <1>a, <2>1, <2>2, <2>4, SameHolders
    <3> QED
      BY <1>b, <2>4, <3>1 DEF Becomes
  <2>5. CASE wr'[w].o = None /\ q = o /\ Becomes(o, Put(obj[o]))
    <3>1. w \in Holders(q) /\ Holders(q)' = Holders(q) \ {w}
      BY <1>a, <2>1, <2>2, <2>5 DEF Holders
    <3>2. obj'[q] = Put(obj[q])
      BY <2>5 DEF Becomes
    <3> QED
      BY <3>1, <3>2, CountDown
  <2> QED
    BY <1>10, <2>2, <2>3, <2>4, <2>5, Writes, WriteObjects DEF WriteAny
<1>11. CASE ReadOrTick
  <2>1. UNCHANGED <<dir, obj, admin, lab, wr>>
    BY <1>11, Outside
  <2> QED
    BY <1>b, <2>1, SameHolders
<1> QED
  BY <1>1, <1>2, <1>3, <1>4, <1>5, <1>6, <1>7, <1>8, <1>9, <1>10, <1>11, Steps
     DEF DropAny, LabelAny, LabelStep, WriteAny

-----------------------------------------------------------------------------
(* The lock of a sensor is held by the one thread between its two ends.    *)
LEMMA LockStep == TypeOK /\ Sites /\ LockInv /\ [Next]_vars => LockInv'
<1> SUFFICES ASSUME TypeOK, Sites, LockInv, [Next]_vars PROVE LockInv'
  OBVIOUS
<1>a. /\ lock \in [Obj -> Writer \cup Labeller \cup {"admin", None}]
      /\ Writer \cap Labeller = {} /\ "admin" \notin Writer \cup Labeller
      /\ None \notin Writer \cup Labeller \cup {"admin"}
  BY Types, NoneAssumption, ThreadAssumption DEF Typed
<1>b. ASSUME lock' = lock,
             \A o \in Obj : /\ admin'.pc = "drain" /\ admin'.o = o <=> admin.pc = "drain" /\ admin.o = o
                            /\ \A l \in Labeller : lab'[l].pc = "drain" /\ lab'[l].o = o
                                                   <=> lab[l].pc = "drain" /\ lab[l].o = o
                            /\ \A w \in Writer : wr'[w].pc = "stored" /\ wr'[w].o = o
                                                 <=> wr[w].pc = "stored" /\ wr[w].o = o
      PROVE  LockInv'
  BY <1>b DEF LockInv
<1>1. ASSUME NEW o \in Obj, MakeSensor(o) PROVE LockInv'
  BY <1>1, <1>b DEF MakeSensor
<1>2. CASE DropAny
  <2>1. UNCHANGED <<lab, wr>>
    BY <1>2, Drops
  <2>2. CASE DropSensor \/ DropMisc \/ DropPut
    <3>1. UNCHANGED lock /\ admin.pc # "drain" /\ admin'.pc # "drain"
      BY <2>2, Drops DEF DropAny
    <3> QED
      BY <1>b, <2>1, <3>1
  <2>3. CASE DropLock
    <3>1. /\ admin.o \in Obj /\ lock[admin.o] = None /\ lock' = [lock EXCEPT ![admin.o] = "admin"]
          /\ admin.pc = "lock" /\ admin'.pc = "drain" /\ admin'.o = admin.o
      BY <2>3, Drops, AtObject DEF DropLock, DropAny
    <3> QED
      BY <1>a, <2>1, <3>1 DEF LockInv
  <2>4. CASE DropDrain
    <3>1. /\ admin.o \in Obj /\ lock' = [lock EXCEPT ![admin.o] = None]
          /\ admin.pc = "drain" /\ admin'.pc = "misc"
      BY <2>4, Drops, AtObject DEF DropDrain, DropAny
    <3> QED
      BY <1>a, <2>1, <3>1 DEF LockInv
  <2> QED
    BY <1>2, <2>2, <2>3, <2>4 DEF DropAny
<1>3. ASSUME NEW l \in Labeller, LabelAny(l) PROVE LockInv'
  <2>1. UNCHANGED <<admin, wr>> /\ \A k \in Labeller \ {l} : lab'[k] = lab[k]
    BY <1>3, Labels
  <2>2. CASE LabelOpen(l) \/ StoreSameLabel(l) \/ StoreRefused(l) \/ LabelClose(l)
    <3>1. UNCHANGED lock /\ lab[l].pc # "drain" /\ lab'[l].pc # "drain"
      BY <2>2, Labels DEF LabelAny, LabelStep
    <3> QED
      BY <1>b, <2>1, <3>1
  <2>3. CASE StoreNewLabel(l)
    <3>1. /\ lab[l].o \in Obj /\ lock[lab[l].o] = None /\ lock' = [lock EXCEPT ![lab[l].o] = l]
          /\ lab[l].pc = "open" /\ lab'[l].pc = "drain" /\ lab'[l].o = lab[l].o
      BY <2>3, Labels, AtObject DEF StoreNewLabel, LabelAny, LabelStep
    <3> QED
      BY <1>a, <2>1, <3>1 DEF LockInv
  <2>4. CASE Relabel(l)
    <3>1. /\ lab[l].o \in Obj /\ lock' = [lock EXCEPT ![lab[l].o] = None]
          /\ lab[l].pc = "drain" /\ lab'[l].pc = "done"
      BY <2>4, Labels, AtObject DEF Relabel, LabelAny, LabelStep
    <3> QED
      BY <1>a, <2>1, <3>1 DEF LockInv
  <2> QED
    BY <1>3, <2>2, <2>3, <2>4 DEF LabelAny, LabelStep
<1>4. ASSUME NEW w \in Writer, WriteAny(w) PROVE LockInv'
  <2>1. UNCHANGED <<admin, lab>> /\ \A v \in Writer \ {w} : wr'[v] = wr[v]
    BY <1>4, Writes
  <2>2. CASE (\E o \in Obj : OpenDevice(w, o)) \/ OpenCheck(w) \/ WriteRefused(w) \/ CloseDevice(w)
    <3>1. UNCHANGED lock /\ wr[w].pc # "stored" /\ wr'[w].pc # "stored"
      BY <2>2, Writes DEF WriteAny
    <3> QED
      BY <1>b, <2>1, <3>1
  <2>3. CASE WriteTemperature(w)
    <3>1. /\ wr[w].o \in Obj /\ lock[wr[w].o] = None /\ lock' = [lock EXCEPT ![wr[w].o] = w]
          /\ wr[w].pc = "open" /\ wr'[w].pc = "stored" /\ wr'[w].o = wr[w].o
      BY <2>3, Writes, AtObject DEF WriteTemperature, WriteAny
    <3> QED
      BY <1>a, <2>1, <3>1 DEF LockInv
  <2>4. CASE WriteStamp(w)
    <3>1. /\ wr[w].o \in Obj /\ lock' = [lock EXCEPT ![wr[w].o] = None]
          /\ wr[w].pc = "stored" /\ wr'[w].pc = "open"
      BY <2>4, Writes, AtObject DEF WriteStamp, WriteAny
    <3> QED
      BY <1>a, <2>1, <3>1 DEF LockInv
  <2> QED
    BY <1>4, <2>2, <2>3, <2>4 DEF WriteAny
<1>5. CASE ReadOrTick
  BY <1>5, <1>b, Outside
<1> QED
  BY <1>1, <1>2, <1>3, <1>4, <1>5, Steps

-----------------------------------------------------------------------------
(* The parts of StageInv: one for each sensor and one for the threads.     *)
Stage(o) ==
    /\ Attached(o) <=> obj[o].alloc /\ ~obj[o].removed
    /\ obj[o].misc <=> Attached(o) \/ (admin.o = o /\ admin.pc \in {"drain", "misc"})
    /\ obj[o].hwmon => Attached(o) /\ obj[o].label # None
Threads ==
    /\ \A l \in Labeller : lab[l].pc = "drain" => Attached(lab[l].o)
    /\ \A w \in Writer : wr[w].pc = "stored" => Attached(wr[w].o)
    /\ \A r \in Reader : rd[r].pc # "idle" =>
          Attached(rd[r].o) \/ (admin.o = rd[r].o /\ admin.pc = "drain")

(* A sensor that loses a reference other than the directory's.             *)
LEMMA StagePut ==
    ASSUME TypeOK, RefInv, RefInv', StageInv, NEW o \in Obj, NEW t, t \in Holders(o),
           UNCHANGED <<dir, admin>>, obj'[o] = Put(obj[o])
    PROVE  Stage(o)'
<1>a. obj[o] \in ObjType /\ obj[o].refs # 0 /\ Stage(o)
  BY Types, Held DEF Typed, StageInv, Stage
<1>1. CASE obj[o].refs = 1
  <2>1. obj'[o] = Free
    BY <1>a, <1>1, Puts
  <2>2. Holders(o)' = {}
    BY <2>1, Frees DEF RefInv
  <2>3. dir # o /\ admin.o # o
    BY <2>2 DEF Holders
  <2> QED
    BY <2>1, <2>3, Frees DEF Stage, Attached
<1>2. CASE obj[o].refs # 1
  <2>1. /\ obj'[o].alloc = obj[o].alloc /\ obj'[o].removed = obj[o].removed
        /\ obj'[o].misc = obj[o].misc /\ obj'[o].hwmon = obj[o].hwmon
        /\ obj'[o].label = obj[o].label
    BY <1>a, <1>2, Puts
  <2> QED
    BY <1>a, <2>1 DEF Stage, Attached
<1> QED
  BY <1>1, <1>2

(* A sensor that gains a reference.                                        *)
LEMMA StageGet ==
    ASSUME TypeOK, StageInv, NEW o \in Obj, UNCHANGED <<dir, admin>>, obj'[o] = Get(obj[o])
    PROVE  Stage(o)'
<1>a. obj[o] \in ObjType /\ Stage(o)
  BY Types DEF Typed, StageInv, Stage
<1>1. /\ obj'[o].alloc = obj[o].alloc /\ obj'[o].removed = obj[o].removed
      /\ obj'[o].misc = obj[o].misc /\ obj'[o].hwmon = obj[o].hwmon
      /\ obj'[o].label = obj[o].label
  BY <1>a, Gets
<1> QED
  BY <1>a, <1>1 DEF Stage, Attached

(* A step that leaves the directory and rmdir alone keeps every sensor     *)
(* that it does not change at its stage.                                   *)
LEMMA StageSame ==
    ASSUME StageInv, NEW o \in Obj, UNCHANGED <<dir, admin>>, obj'[o] = obj[o]
    PROVE  Stage(o)'
BY DEF StageInv, Stage, Attached

(* Every step takes a sensor from one stage of its life to the next.       *)
LEMMA SensorStep ==
    TypeOK /\ Sites /\ RefInv /\ RefInv' /\ StageInv /\ [Next]_vars => \A q \in Obj : Stage(q)'
<1> SUFFICES ASSUME TypeOK, Sites, RefInv, RefInv', StageInv, [Next]_vars, NEW q \in Obj
             PROVE  Stage(q)'
  OBVIOUS
<1>a. /\ dir \in Obj \cup {None} /\ None \notin Obj /\ None \notin Label
      /\ obj[q] \in ObjType /\ Stage(q)
  BY Types, NoneAssumption DEF Typed, StageInv, Stage
<1>b. ASSUME UNCHANGED <<dir, admin>>, obj'[q] = obj[q] PROVE Stage(q)'
  BY <1>b, StageSame
<1>1. ASSUME NEW o \in Obj, MakeSensor(o) PROVE Stage(q)'
  <2>1. dir = None /\ admin.o = None /\ dir' = o /\ UNCHANGED admin /\ Becomes(o, Made)
    BY <1>1, Objects DEF MakeSensor, Sites
  <2>2. CASE q # o
    <3>1. obj'[q] = obj[q]
      BY <2>1, <2>2 DEF Becomes
    <3> QED
      BY <1>a, <2>1, <2>2, <3>1 DEF Stage, Attached
  <2>3. CASE q = o
    <3>1. obj'[q] = Made
      BY <2>1, <2>3 DEF Becomes
    <3> QED
      BY <2>1, <2>3, <3>1, Makes DEF Stage, Attached
  <2> QED
    BY <2>2, <2>3
<1>2. CASE DropSensor
  <2>1. /\ UNCHANGED obj /\ admin.pc = "idle" /\ admin.o = None
        /\ admin'.pc = "lock" /\ admin'.o = dir /\ dir # None /\ dir' = None
    BY <1>2, Drops DEF DropAny, Sites
  <2> QED
    BY <1>a, <2>1 DEF Stage, Attached
<1>3. CASE DropLock
  <2>1. /\ admin.pc = "lock" /\ admin'.pc = "drain" /\ admin'.o = admin.o /\ UNCHANGED dir
    BY <1>3, Drops DEF DropAny
  <2>2. PICK o \in Obj : o = admin.o /\ dir = None
    BY <2>1, AtObject, NoneAssumption DEF Sites
  <2>3. CASE q # o
    <3>1. obj'[q] = obj[q]
      BY <1>3, <2>2, <2>3, DropFields
    <3> QED
      BY <1>a, <2>1, <2>2, <2>3, <3>1 DEF Stage, Attached
  <2>4. CASE q = o
    <3>1. obj'[q].removed = TRUE /\ obj'[q].hwmon = FALSE /\ obj'[q].misc = obj[q].misc
      BY <1>3, <2>2, <2>4, DropFields
    <3> QED
      BY <1>a, <2>1, <2>2, <2>4, <3>1 DEF Stage, Attached
  <2> QED
    BY <2>3, <2>4
<1>4. CASE DropDrain
  <2>1. /\ admin.pc = "drain" /\ admin'.pc = "misc" /\ admin'.o = admin.o /\ UNCHANGED <<dir, obj>>
    BY <1>4, Drops DEF DropAny
  <2> QED
    BY <1>a, <2>1 DEF Stage, Attached
<1>5. CASE DropMisc
  <2>1. /\ admin.pc = "misc" /\ admin'.pc = "put" /\ admin'.o = admin.o /\ UNCHANGED dir
    BY <1>5, Drops DEF DropAny
  <2>2. PICK o \in Obj : o = admin.o /\ dir = None
    BY <2>1, AtObject, NoneAssumption DEF Sites
  <2>3. CASE q # o
    <3>1. obj'[q] = obj[q]
      BY <1>5, <2>2, <2>3, DropFields
    <3> QED
      BY <1>a, <2>1, <2>2, <2>3, <3>1 DEF Stage, Attached
  <2>4. CASE q = o
    <3>1. /\ obj'[q].removed = obj[q].removed /\ obj'[q].hwmon = obj[q].hwmon
          /\ obj'[q].misc = FALSE /\ obj'[q].alloc = obj[q].alloc
      BY <1>5, <2>2, <2>4, DropFields
    <3> QED
      BY <1>a, <2>1, <2>2, <2>4, <3>1 DEF Stage, Attached
  <2> QED
    BY <2>3, <2>4
<1>6. CASE DropPut
  <2>1. /\ admin.pc = "put" /\ admin'.pc = "idle" /\ admin'.o = None /\ UNCHANGED dir
        /\ Becomes(admin.o, Put(obj[admin.o]))
    BY <1>6, Drops, Objects DEF DropAny
  <2>2. PICK o \in Obj : o = admin.o /\ dir = None
    BY <2>1, AtObject, NoneAssumption DEF Sites
  <2>3. CASE q # o
    <3>1. obj'[q] = obj[q]
      BY <2>1, <2>2, <2>3 DEF Becomes
    <3> QED
      BY <1>a, <2>1, <2>2, <2>3, <3>1 DEF Stage, Attached
  <2>4. CASE q = o
    <3>1. obj'[q] = Put(obj[q]) /\ obj[q].refs # 0
      BY <2>1, <2>2, <2>4, Held, Holding DEF Becomes
    <3>2. \/ obj'[q] = Free
          \/ /\ obj'[q].removed = obj[q].removed /\ obj'[q].hwmon = obj[q].hwmon
             /\ obj'[q].misc = obj[q].misc /\ obj'[q].alloc = obj[q].alloc
      BY <1>a, <3>1, Puts
    <3>3. CASE obj'[q] = Free
      BY <1>a, <2>1, <2>2, <2>4, <3>3, Frees DEF Stage, Attached
    <3> QED
      BY <1>a, <2>1, <2>2, <2>4, <3>2, <3>3 DEF Stage, Attached
  <2> QED
    BY <2>3, <2>4
<1>7. ASSUME NEW l \in Labeller, LabelOpen(l) PROVE Stage(q)'
  <2>1. UNCHANGED <<dir, admin>> /\ dir \in Obj /\ Becomes(dir, Get(obj[dir]))
    BY <1>7, Labels, LabelObjects DEF LabelAny
  <2> QED
    BY <1>b, <2>1, StageGet DEF Becomes
<1>8. ASSUME NEW l \in Labeller,
             StoreSameLabel(l) \/ StoreRefused(l) \/ StoreNewLabel(l) \/ Relabel(l)
      PROVE  Stage(q)'
  <2>1. UNCHANGED <<dir, admin>> /\ lab[l].pc # "closed" /\ (Relabel(l) => lab[l].pc = "drain")
    BY <1>8, Labels DEF LabelAny, LabelStep
  <2>2. PICK o \in Obj : o = lab[l].o
    BY <2>1, AtObject
  <2>3. /\ obj[o].alloc /\ lab[l].want \in Label
        /\ StoreSameLabel(l) => ~obj[o].removed
        /\ Relabel(l) => Attached(o)
    BY <2>1, <2>2, Held, Holding DEF Sites, StoreSameLabel, StageInv
  <2>4. CASE q # o
    BY <1>8, <1>b, <2>1, <2>2, <2>4, LabelFields
  <2>5. CASE q = o
    <3>1. /\ obj'[q].alloc = obj[q].alloc /\ obj'[q].removed = obj[q].removed
          /\ obj'[q].misc = obj[q].misc
          /\ \/ obj'[q] = obj[q]
             \/ obj'[q].hwmon = FALSE /\ obj'[q].label = obj[q].label
             \/ /\ obj'[q].hwmon = TRUE /\ obj'[q].label = obj[q].label
                /\ obj[q].label # None \/ (StoreSameLabel(l) /\ obj[q].label = lab[l].want)
             \/ Relabel(l) /\ obj'[q].hwmon = TRUE /\ obj'[q].label = lab[l].want
      BY <1>8, <2>2, <2>5, LabelFields
    <3>2. Attached(q)' <=> Attached(q)
      BY <2>1 DEF Attached
    <3>3. StoreSameLabel(l) => Attached(q)
      BY <1>a, <2>3, <2>5 DEF Stage
    <3>4. obj'[q].hwmon => Attached(q) /\ obj'[q].label # None
      <4>1. CASE StoreRefused(l) \/ StoreNewLabel(l)
        <5>1. UNCHANGED obj \/ Becomes(o, [obj[o] EXCEPT !.hwmon = FALSE])
          BY <4>1, <2>2, LabelObjects DEF StoreRefused
        <5>2. [obj[q] EXCEPT !.hwmon = FALSE].hwmon = FALSE
          BY <1>a DEF ObjType
        <5> QED
          BY <1>a, <2>5, <5>1, <5>2 DEF Becomes, Stage
      <4>2. CASE StoreSameLabel(l) \/ Relabel(l)
        BY <4>2, <1>a, <2>3, <2>5, <3>1, <3>3 DEF Stage
      <4> QED
        BY <1>8, <4>1, <4>2
    <3> QED
      BY <1>a, <2>1, <3>1, <3>2, <3>4 DEF Stage
  <2> QED
    BY <2>4, <2>5
<1>9. ASSUME NEW l \in Labeller, LabelClose(l) PROVE Stage(q)'
  <2>1. /\ UNCHANGED <<dir, admin>> /\ lab[l].pc # "closed"
        /\ Becomes(lab[l].o, Put(obj[lab[l].o]))
    BY <1>9, Labels, LabelObjects DEF LabelAny, LabelStep
  <2>2. PICK o \in Obj : o = lab[l].o
    BY <2>1, AtObject
  <2> QED
    BY <1>b, <2>1, <2>2, StagePut, Holding DEF Becomes
<1>10. ASSUME NEW w \in Writer, NEW o \in Obj, OpenDevice(w, o) PROVE Stage(q)'
  <2>1. UNCHANGED <<dir, admin>> /\ Becomes(o, Get(obj[o]))
    BY <1>10, Writes, WriteObjects DEF WriteAny
  <2> QED
    BY <1>b, <2>1, StageGet DEF Becomes
<1>11. ASSUME NEW w \in Writer, WriteTemperature(w) \/ WriteStamp(w) PROVE Stage(q)'
  <2>1. UNCHANGED <<dir, admin>> /\ wr[w].pc # "closed"
    BY <1>11, Writes DEF WriteAny
  <2>2. PICK o \in Obj : o = wr[w].o
    BY <2>1, AtObject
  <2>3. CASE q # o
    BY <1>11, <1>b, <2>1, <2>2, <2>3, WriteFields
  <2>4. CASE q = o
    <3>1. /\ obj'[q].alloc = obj[q].alloc /\ obj'[q].removed = obj[q].removed
          /\ obj'[q].misc = obj[q].misc /\ obj'[q].hwmon = obj[q].hwmon
          /\ obj'[q].label = obj[q].label
      BY <1>11, <2>2, <2>4, WriteFields
    <3> QED
      BY <1>a, <2>1, <3>1 DEF Stage, Attached
  <2> QED
    BY <2>3, <2>4
<1>12. ASSUME NEW w \in Writer, OpenCheck(w) \/ WriteRefused(w) \/ CloseDevice(w) PROVE Stage(q)'
  <2>1. UNCHANGED <<dir, admin>> /\ wr[w].pc # "closed"
    BY <1>12, Writes DEF WriteAny
  <2>2. PICK o \in Obj : o = wr[w].o
    BY <2>1, AtObject
  <2>3. UNCHANGED obj \/ Becomes(o, Put(obj[o]))
    BY <1>12, <2>2, Writes, WriteObjects DEF WriteAny
  <2> QED
    BY <1>b, <2>1, <2>2, <2>3, StagePut, Holding DEF Becomes
<1>13. CASE ReadOrTick
  BY <1>13, <1>b, Outside
<1> QED
  BY <1>1, <1>2, <1>3, <1>4, <1>5, <1>6, <1>7, <1>8, <1>9, <1>10, <1>11, <1>12, <1>13, Steps
     DEF DropAny, LabelAny, LabelStep, WriteAny

(* A step that keeps the directory, rmdir and the readers keeps what the   *)
(* threads rely on, if whoever enters a lock does so at an attached sensor.*)
LEMMA ThreadsSame ==
    ASSUME StageInv, UNCHANGED <<dir, admin, rd>>,
           \A l \in Labeller : lab'[l].pc = "drain" =>
              (lab[l].pc = "drain" /\ lab'[l].o = lab[l].o) \/ Attached(lab'[l].o),
           \A w \in Writer : wr'[w].pc = "stored" =>
              (wr[w].pc = "stored" /\ wr'[w].o = wr[w].o) \/ Attached(wr'[w].o)
    PROVE  Threads'
<1>1. Threads
  BY DEF StageInv, Threads
<1>2. \A l \in Labeller : lab'[l].pc = "drain" => Attached(lab'[l].o)
  BY <1>1 DEF Threads
<1>3. \A w \in Writer : wr'[w].pc = "stored" => Attached(wr'[w].o)
  BY <1>1 DEF Threads
<1> QED
  BY <1>1, <1>2, <1>3 DEF Threads, Attached

(* The threads inside stay at an attached sensor: rmdir waits for them.    *)
LEMMA ThreadStep ==
    TypeOK /\ Sites /\ RefInv /\ LockInv /\ StageInv /\ [Next]_vars => Threads'
<1> SUFFICES ASSUME TypeOK, Sites, RefInv, LockInv, StageInv, [Next]_vars PROVE Threads'
  OBVIOUS
<1>a. /\ dir \in Obj \cup {None} /\ None \notin Obj /\ Threads
      /\ None \notin Labeller \cup Writer \cup {"admin"}
  BY Types, NoneAssumption DEF Typed, StageInv, Threads
<1>b. /\ \A l \in Labeller : lab[l].pc = "drain" => lab[l].o \in Obj
      /\ \A w \in Writer : wr[w].pc = "stored" => wr[w].o \in Obj
      /\ \A r \in Reader : rd[r].pc # "idle" => rd[r].o \in Obj
  BY AtObject
<1>1. ASSUME NEW o \in Obj, MakeSensor(o) PROVE Threads'
  <2>1. dir = None /\ UNCHANGED <<admin, lab, wr, rd>>
    BY <1>1 DEF MakeSensor
  <2> QED
    BY <1>a, <1>b, <2>1 DEF Threads, Attached
<1>2. CASE DropSensor
  <2>1. /\ UNCHANGED <<lab, wr, rd>> /\ admin.o = None
        /\ admin'.pc = "lock" /\ admin'.o = dir /\ dir # None /\ dir' = None
    BY <1>2, Drops DEF DropAny, Sites
  <2> QED
    BY <1>a, <1>b, <2>1 DEF Threads, Attached
<1>3. CASE DropLock
  <2>1. /\ UNCHANGED <<lab, wr, rd, dir>> /\ admin.pc = "lock"
        /\ admin'.pc = "drain" /\ admin'.o = admin.o /\ lock[admin.o] = None
    BY <1>3, Drops DEF DropAny, DropLock
  <2>2. PICK o \in Obj : o = admin.o /\ dir = None
    BY <2>1, AtObject, NoneAssumption DEF Sites
  <2>3. /\ \A l \in Labeller : ~(lab[l].pc = "drain" /\ lab[l].o = o)
        /\ \A w \in Writer : ~(wr[w].pc = "stored" /\ wr[w].o = o)
    BY <1>a, <2>1, <2>2 DEF LockInv
  <2> QED
    BY <1>a, <1>b, <2>1, <2>2, <2>3 DEF Threads, Attached
<1>4. CASE DropDrain
  <2>1. /\ UNCHANGED <<lab, wr, rd, dir>> /\ admin.pc = "drain"
        /\ admin'.pc = "misc" /\ admin'.o = admin.o /\ Active(admin.o) = {}
    BY <1>4, Drops DEF DropAny, DropDrain
  <2>2. \A r \in Reader : rd[r].pc # "idle" => rd[r].o # admin.o
    BY <2>1 DEF Active
  <2> QED
    BY <1>a, <1>b, <2>1, <2>2 DEF Threads, Attached
<1>5. CASE DropMisc \/ DropPut
  <2>1. /\ UNCHANGED <<lab, wr, rd, dir>> /\ admin.pc \in {"misc", "put"}
        /\ admin'.pc \in {"put", "idle"}
    BY <1>5, Drops DEF DropAny
  <2> QED
    BY <1>a, <2>1 DEF Threads, Attached
<1>6. ASSUME NEW l \in Labeller, LabelAny(l) PROVE Threads'
  <2>1. UNCHANGED <<dir, admin, wr, rd>> /\ \A k \in Labeller \ {l} : lab'[k] = lab[k]
    BY <1>6, Labels
  <2>2. lab'[l].pc = "drain" => StoreNewLabel(l)
    BY <1>6, Labels DEF LabelAny, LabelStep
  <2>3. StoreNewLabel(l) => Attached(lab'[l].o)
    <3>1. SUFFICES ASSUME StoreNewLabel(l) PROVE Attached(lab'[l].o)
      OBVIOUS
    <3>2. lab[l].pc = "open" /\ lab'[l].o = lab[l].o /\ ~obj[lab[l].o].removed
      BY <1>6, <3>1, Labels DEF StoreNewLabel, LabelAny
    <3>3. PICK o \in Obj : o = lab[l].o
      BY <3>2, AtObject
    <3>4. obj[o].alloc
      BY <3>3, Held, Holding
    <3> QED
      BY <3>2, <3>3, <3>4 DEF StageInv
  <2> QED
    BY <2>1, <2>2, <2>3, ThreadsSame
<1>7. ASSUME NEW w \in Writer, WriteAny(w) PROVE Threads'
  <2>1. UNCHANGED <<dir, admin, lab, rd>> /\ \A v \in Writer \ {w} : wr'[v] = wr[v]
    BY <1>7, Writes
  <2>2. wr'[w].pc = "stored" => WriteTemperature(w)
    BY <1>7, Writes DEF WriteAny
  <2>3. WriteTemperature(w) => Attached(wr'[w].o)
    <3>1. SUFFICES ASSUME WriteTemperature(w) PROVE Attached(wr'[w].o)
      OBVIOUS
    <3>2. wr[w].pc = "open" /\ wr'[w].o = wr[w].o /\ ~obj[wr[w].o].removed
      BY <1>7, <3>1, Writes DEF WriteTemperature
    <3>3. PICK o \in Obj : o = wr[w].o
      BY <3>2, AtObject
    <3>4. obj[o].alloc
      BY <3>3, Held, Holding
    <3> QED
      BY <3>2, <3>3, <3>4 DEF StageInv
  <2> QED
    BY <2>1, <2>2, <2>3, ThreadsSame
<1>8. CASE ReadOrTick
  <2>1. UNCHANGED <<dir, admin, lab, wr>>
    BY <1>8, Outside
  <2>2. \A r \in Reader : rd'[r].pc # "idle" =>
           Attached(rd'[r].o) \/ (admin.o = rd'[r].o /\ admin.pc = "drain")
    <3>a. rd \in [Reader -> RdType]
      BY Types DEF Typed
    <3>1. ASSUME NEW r \in Reader, NEW o \in Obj, ReadBegin(r, o)
          PROVE  rd'[r].o = o /\ Attached(o) /\ \A s \in Reader \ {r} : rd'[s] = rd[s]
      BY <3>1, <3>a DEF ReadBegin, StageInv
    <3>2. ASSUME NEW r \in Reader, ReadStep(r)
          PROVE  /\ rd[r].pc # "idle" /\ \A s \in Reader \ {r} : rd'[s] = rd[s]
                 /\ rd'[r].pc = "idle" \/ rd'[r].o = rd[r].o
      BY <3>2, <3>a DEF ReadStep, ReadCheck, ReadValue, ReadEnd, RdType
    <3>3. CASE UNCHANGED rd
      BY <3>3, <1>a DEF Threads
    <3>4. CASE Tick \/ SetStaleTimeout \/ UNCHANGED vars
      BY <3>3, <3>4 DEF Tick, SetStaleTimeout, vars
    <3>5. CASE \E r \in Reader, o \in Obj : ReadBegin(r, o)
      BY <3>1, <3>5, <1>a DEF Threads
    <3>6. CASE \E r \in Reader : ReadStep(r)
      BY <3>2, <3>6, <1>a DEF Threads
    <3> QED
      BY <1>8, <3>4, <3>5, <3>6 DEF ReadOrTick
  <2> QED
    BY <1>a, <2>1, <2>2 DEF Threads, Attached
<1> QED
  BY <1>1, <1>2, <1>3, <1>4, <1>5, <1>6, <1>7, <1>8, Steps DEF DropAny

(* The stages, for the sensors and for the threads.                        *)
LEMMA StageStep ==
    TypeOK /\ Sites /\ RefInv /\ LockInv /\ StageInv /\ [Next]_vars => StageInv'
<1>1. StageInv' <=> (\A o \in Obj : Stage(o)') /\ Threads'
  BY DEF StageInv, Stage, Threads
<1> QED
  BY <1>1, RefStep, SensorStep, ThreadStep

-----------------------------------------------------------------------------
(* The temperature and the stamp of a sensor stay, or it has the failsafe. *)
Quiet(o) == \/ obj'[o].temp = obj[o].temp /\ obj'[o].upd = obj[o].upd
            \/ obj'[o].temp = Failsafe /\ obj'[o].upd <= now

(* Steps that write no temperature keep it fresh.                          *)
LEMMA FreshKept ==
    ASSUME TypeOK, Sites, FreshInv, UNCHANGED <<now, writes, updated, rd>>, \A o \in Obj : Quiet(o)
    PROVE  FreshInv'
<1>a. now \in Int /\ writes \in Nat
  BY Types DEF Typed
<1>1. \A o \in Obj : /\ obj'[o].upd <= now /\ obj'[o].temp <= writes
                     /\ Sound(obj'[o].temp, obj'[o].upd)
  BY <1>a DEF FreshInv, Quiet, Sound, Failsafe
<1>2. \A r \in Reader : rd[r].pc = "load" => Sound(obj'[rd[r].o].temp, rd[r].since)
  <2>1. \A r \in Reader : rd[r].pc = "load" => rd[r].o \in Obj
    BY AtObject
  <2> QED
    BY <2>1 DEF FreshInv, Quiet, Sound
<1> QED
  BY <1>1, <1>2 DEF FreshInv, Sound

(* mkdir, rmdir, label stores, opens and closes write no temperature.      *)
LEMMA QuietSteps ==
    ASSUME TypeOK, Sites, RefInv
    PROVE  /\ \A o \in Obj : MakeSensor(o) => \A q \in Obj : Quiet(q)
           /\ DropAny => \A q \in Obj : Quiet(q)
           /\ \A l \in Labeller : LabelAny(l) => \A q \in Obj : Quiet(q)
           /\ \A w \in Writer : WriteAny(w) =>
                 WriteTemperature(w) \/ WriteStamp(w) \/ \A q \in Obj : Quiet(q)
<1>a. obj \in [Obj -> ObjType] /\ now \in Nat
  BY Types DEF Typed
<1>b. ASSUME UNCHANGED obj PROVE \A q \in Obj : Quiet(q)
  BY <1>b DEF Quiet
<1>c. ASSUME NEW o \in Obj, NEW t, t \in Holders(o), Becomes(o, Put(obj[o]))
      PROVE  \A q \in Obj : Quiet(q)
  <2>1. obj[o].refs # 0 /\ obj[o] \in ObjType
    BY <1>a, <1>c, Held
  <2>2. \/ Put(obj[o]) = Free
        \/ Put(obj[o]).temp = obj[o].temp /\ Put(obj[o]).upd = obj[o].upd
    BY <2>1, Puts
  <2>3. Quiet(o)
    BY <1>a, <1>c, <2>2, Frees DEF Quiet, Becomes
  <2> QED
    BY <1>c, <2>3 DEF Quiet, Becomes
<1>d. ASSUME NEW o \in Obj, Becomes(o, Get(obj[o])) PROVE \A q \in Obj : Quiet(q)
  BY <1>a, <1>d, Gets DEF Quiet, Becomes
<1>1. ASSUME NEW o \in Obj, MakeSensor(o) PROVE \A q \in Obj : Quiet(q)
  <2>1. Becomes(o, Made)
    BY <1>1, Objects
  <2>2. Made.temp = Failsafe /\ Made.upd <= now
    BY <1>a, Makes
  <2> QED
    BY <2>1, <2>2 DEF Becomes, Quiet
<1>2. ASSUME DropAny PROVE \A q \in Obj : Quiet(q)
  <2>1. CASE DropSensor \/ DropDrain
    BY <1>b, <1>2, <2>1, Drops
  <2>2. CASE DropLock \/ DropMisc
    <3>1. admin.o \in Obj
      BY <1>2, <2>2, Drops, AtObject
    <3>2. PICK o \in Obj : o = admin.o
      BY <3>1
    <3> QED
      BY <2>2, <3>2, DropFields DEF Quiet
  <2>3. CASE DropPut
    <3>1. admin.o \in Obj
      BY <1>2, <2>3, Drops, AtObject
    <3> QED
      BY <1>c, <2>3, <3>1, Objects, Holding
  <2> QED
    BY <1>2, <2>1, <2>2, <2>3 DEF DropAny
<1>3. ASSUME NEW l \in Labeller, LabelAny(l) PROVE \A q \in Obj : Quiet(q)
  <2>1. CASE LabelOpen(l)
    BY <1>d, <2>1, LabelObjects
  <2>2. CASE StoreSameLabel(l) \/ StoreRefused(l) \/ StoreNewLabel(l) \/ Relabel(l)
    <3>1. lab[l].o \in Obj
      BY <1>3, <2>2, Labels, AtObject
    <3>2. PICK o \in Obj : o = lab[l].o
      BY <3>1
    <3> QED
      BY <2>2, <3>2, LabelFields DEF Quiet
  <2>3. CASE LabelClose(l)
    <3>1. lab[l].o \in Obj
      BY <1>3, <2>3, Labels, AtObject
    <3> QED
      BY <1>c, <2>3, <3>1, LabelObjects, Holding
  <2> QED
    BY <1>3, <2>1, <2>2, <2>3 DEF LabelAny, LabelStep
<1>4. ASSUME NEW w \in Writer, WriteAny(w), ~WriteTemperature(w), ~WriteStamp(w)
      PROVE  \A q \in Obj : Quiet(q)
  <2>1. CASE \E o \in Obj : OpenDevice(w, o)
    BY <1>d, <2>1, WriteObjects
  <2>2. CASE WriteRefused(w)
    BY <1>b, <2>2 DEF WriteRefused
  <2>3. CASE OpenCheck(w) \/ CloseDevice(w)
    <3>1. wr[w].o \in Obj
      BY <1>4, <2>3, Writes, AtObject
    <3>2. UNCHANGED obj \/ Becomes(wr[w].o, Put(obj[wr[w].o]))
      BY <1>4, <2>3, Writes, WriteObjects
    <3> QED
      BY <1>b, <1>c, <3>1, <3>2, Holding
  <2> QED
    BY <1>4, <2>1, <2>2, <2>3 DEF WriteAny
<1> QED
  BY <1>1, <1>2, <1>3, <1>4

(* A reader never gets hold of an expired temperature.                     *)
LEMMA FreshStep ==
    TypeOK /\ Sites /\ RefInv /\ FreshInv /\ [Next]_vars => FreshInv'
<1> SUFFICES ASSUME TypeOK, Sites, RefInv, FreshInv, [Next]_vars PROVE FreshInv'
  OBVIOUS
<1>a. /\ now \in 0..MaxTime /\ timeout \in Nat /\ writes \in 0..MaxWrites
      /\ MaxTime \in Nat /\ MaxWrites \in Nat
      /\ updated \in [1..MaxWrites -> 0..MaxTime \cup {Pending}]
      /\ rd \in [Reader -> RdType]
      /\ \A r \in Reader : rd[r].pc = "load" \/ rd[r].pc = "check" => rd[r].o \in Obj
  BY Types, AtObject, BoundsAssumption DEF Typed
<1>b. \A q \in Obj : obj[q].temp \in 0..MaxWrites /\ obj[q].upd \in 0..MaxTime
  BY Types DEF Typed, ObjType
<1>c. \A r \in Reader : /\ rd[r].since \in Int /\ rd[r].val \in 0..MaxWrites
                        /\ rd[r].pc \in {"idle", "check", "load", "done"}
  BY <1>a DEF RdType
<1>1. ASSUME NEW o \in Obj, MakeSensor(o) PROVE FreshInv'
  BY <1>1, QuietSteps, FreshKept DEF MakeSensor, sysVars
<1>2. CASE DropAny
  BY <1>2, QuietSteps, FreshKept, Drops DEF sysVars
<1>3. ASSUME NEW l \in Labeller, LabelAny(l) PROVE FreshInv'
  BY <1>3, QuietSteps, FreshKept, Labels DEF sysVars
<1>4. ASSUME NEW w \in Writer, WriteTemperature(w) PROVE FreshInv'
  <2>1. /\ UNCHANGED <<now, updated, rd>> /\ writes' = writes + 1 /\ wr[w].pc = "open"
        /\ writes + 1 \in 1..MaxWrites
    BY <1>4, <1>a DEF WriteTemperature, sysVars
  <2>2. PICK o \in Obj : o = wr[w].o
    BY <2>1, AtObject
  <2>3. /\ obj'[o].temp = writes + 1 /\ obj'[o].upd = obj[o].upd
        /\ \A q \in Obj \ {o} : obj'[q] = obj[q]
    BY <1>4, <2>2, WriteFields
  <2>4. updated[writes + 1] = Pending /\ Sound(writes + 1, 0)
    BY <1>a, <2>1 DEF FreshInv, Sound
  <2>5. \A k \in 1..MaxWrites : k > writes' => updated'[k] = Pending
    BY <1>a, <2>1 DEF FreshInv
  <2>6. \A q \in Obj : /\ obj'[q].upd <= now /\ obj'[q].temp <= writes'
                       /\ Sound(obj'[q].temp, obj'[q].upd)
    BY <1>a, <1>b, <2>1, <2>3, <2>4 DEF FreshInv, Sound
  <2>7. \A r \in Reader : rd[r].pc = "load" => Sound(obj'[rd[r].o].temp, rd[r].since)
    BY <1>a, <2>3, <2>4 DEF FreshInv, Sound
  <2> QED
    BY <2>1, <2>5, <2>6, <2>7 DEF FreshInv, Sound
<1>5. ASSUME NEW w \in Writer, WriteStamp(w) PROVE FreshInv'
  <2> DEFINE Later(k, s) == k = Failsafe \/ updated'[k] = Pending \/ updated'[k] >= s
  <2>1. UNCHANGED <<now, writes, rd>> /\ wr[w].pc = "stored"
    BY <1>5 DEF WriteStamp, sysVars
  <2>2. PICK o \in Obj : o = wr[w].o
    BY <2>1, AtObject
  <2>3. /\ obj'[o].temp = obj[o].temp /\ obj'[o].upd = now
        /\ \A q \in Obj \ {o} : obj'[q] = obj[q]
        /\ updated' = [updated EXCEPT ![obj[o].temp] = now]
    BY <1>5, <2>2, WriteFields DEF WriteStamp
  <2>4. obj[o].temp <= writes
    BY DEF FreshInv
  <2>5. \A k \in 1..MaxWrites : updated'[k] = updated[k] \/ (updated'[k] = now /\ k = obj[o].temp)
    BY <1>a, <2>3
  <2>6. ASSUME NEW k \in 0..MaxWrites, NEW s \in Int, s <= now, Sound(k, s) PROVE Later(k, s)
    <3>1. k = Failsafe \/ k \in 1..MaxWrites
      BY DEF Failsafe
    <3> QED
      BY <1>a, <2>5, <2>6, <3>1 DEF Sound
  <2>7. \A k \in 1..MaxWrites : k > writes => updated'[k] = Pending
    BY <1>a, <1>b, <2>4, <2>5 DEF FreshInv
  <2>8. obj'[o].temp = Failsafe \/ updated'[obj'[o].temp] = now
    <3>1. obj[o].temp = Failsafe \/ obj[o].temp \in 1..MaxWrites
      BY <1>b DEF Failsafe
    <3> QED
      BY <1>a, <2>3, <3>1
  <2>9. \A q \in Obj : /\ obj'[q].upd <= now /\ obj'[q].temp <= writes
                       /\ Later(obj'[q].temp, obj'[q].upd)
    <3>1. ASSUME NEW q \in Obj \ {o}
          PROVE  obj'[q].upd <= now /\ obj'[q].temp <= writes /\ Later(obj'[q].temp, obj'[q].upd)
      <4>1. obj[q].upd <= now /\ obj[q].temp <= writes /\ Sound(obj[q].temp, obj[q].upd)
        BY DEF FreshInv
      <4> QED
        BY <1>b, <2>3, <2>6, <4>1
    <3>2. obj'[o].upd <= now /\ obj'[o].temp <= writes /\ Later(obj'[o].temp, obj'[o].upd)
      BY <1>a, <2>3, <2>4, <2>8 DEF Sound
    <3> QED
      BY <3>1, <3>2
  <2>10. \A r \in Reader : rd[r].pc = "load" => Later(obj'[rd[r].o].temp, rd[r].since)
    <3>1. \A q \in Obj : obj'[q].temp = obj[q].temp
      BY <2>3
    <3> QED
      BY <1>a, <1>b, <1>c, <2>1, <2>6, <3>1 DEF FreshInv
  <2>11. \A r \in Reader : rd[r].pc = "done" => Later(rd[r].val, rd[r].since)
    BY <1>c, <2>1, <2>6 DEF FreshInv
  <2> QED
    BY <2>1, <2>7, <2>9, <2>10, <2>11 DEF FreshInv, Sound
<1>6. ASSUME NEW w \in Writer, WriteAny(w), ~WriteTemperature(w), ~WriteStamp(w) PROVE FreshInv'
  <2>1. UNCHANGED <<now, writes, updated, rd>>
    BY <1>6, Writes DEF WriteAny, sysVars
  <2> QED
    BY <1>6, <2>1, QuietSteps, FreshKept
<1>7. CASE ReadOrTick
  <2>1. UNCHANGED <<obj, writes, updated>>
    BY <1>7, Outside
  <2>2. CASE Tick \/ SetStaleTimeout \/ UNCHANGED vars
    <3>1. now' \in Int /\ now' >= now /\ UNCHANGED rd
      BY <2>2, <1>a DEF Tick, SetStaleTimeout, vars, sysVars
    <3> QED
      BY <1>a, <1>b, <1>c, <2>1, <3>1 DEF FreshInv, Sound
  <2>3. ASSUME NEW r \in Reader, UNCHANGED now, \A s \in Reader \ {r} : rd'[s] = rd[s],
               /\ rd'[r].since <= now
               /\ rd'[r].pc = "check" => rd'[r].val = Failsafe
               /\ rd'[r].pc = "load" => /\ rd'[r].val = Failsafe
                                        /\ Sound(obj[rd'[r].o].temp, rd'[r].since)
               /\ rd'[r].pc = "done" => Sound(rd'[r].val, rd'[r].since)
        PROVE  FreshInv'
    BY <2>1, <2>3 DEF FreshInv, Sound
  <2>4. ASSUME NEW r \in Reader, (\E o \in Obj : ReadBegin(r, o)) \/ ReadEnd(r) PROVE FreshInv'
    <3>1. /\ UNCHANGED now /\ \A s \in Reader \ {r} : rd'[s] = rd[s]
          /\ rd'[r].since = 0 /\ rd'[r].val = Failsafe /\ rd'[r].pc \in {"check", "idle"}
      BY <2>4, <1>a DEF ReadBegin, ReadEnd, sysVars
    <3> QED
      BY <1>a, <2>3, <3>1
  <2>5. ASSUME NEW r \in Reader, ReadCheck(r) PROVE FreshInv'
    <3>1. /\ UNCHANGED now /\ \A s \in Reader \ {r} : rd'[s] = rd[s]
          /\ rd[r].pc = "check" /\ rd'[r].since = now - timeout /\ rd'[r].val = rd[r].val
          /\ rd'[r].o = rd[r].o
          /\ rd'[r].pc = IF IsStale(rd[r].o) THEN "done" ELSE "load"
      BY <2>5, <1>a DEF ReadCheck, RdType, sysVars
    <3>2. rd[r].val = Failsafe /\ rd[r].o \in Obj
      BY <1>a, <3>1 DEF FreshInv
    <3>3. ~IsStale(rd[r].o) => Sound(obj[rd[r].o].temp, now - timeout)
      <4>1. Sound(obj[rd[r].o].temp, obj[rd[r].o].upd)
        BY <3>2 DEF FreshInv
      <4>2. obj[rd[r].o].temp = Failsafe \/ obj[rd[r].o].temp \in 1..MaxWrites
        BY <1>b, <3>2 DEF Failsafe
      <4> QED
        BY <1>a, <1>b, <3>2, <4>1, <4>2 DEF IsStale, Sound
    <3> QED
      BY <1>a, <2>3, <3>1, <3>2, <3>3 DEF Sound
  <2>6. ASSUME NEW r \in Reader, ReadValue(r) PROVE FreshInv'
    <3>1. /\ UNCHANGED now /\ \A s \in Reader \ {r} : rd'[s] = rd[s]
          /\ rd[r].pc = "load" /\ rd'[r].since = rd[r].since /\ rd'[r].pc = "done"
          /\ rd'[r].val = obj[rd[r].o].temp
      BY <2>6, <1>a DEF ReadValue, RdType, sysVars
    <3>2. rd[r].since <= now /\ Sound(obj[rd[r].o].temp, rd[r].since)
      BY <3>1 DEF FreshInv
    <3> QED
      BY <2>3, <3>1, <3>2
  <2> QED
    BY <1>7, <2>2, <2>4, <2>5, <2>6 DEF ReadOrTick, ReadStep
<1> QED
  BY <1>1, <1>2, <1>3, <1>4, <1>5, <1>6, <1>7, Steps

-----------------------------------------------------------------------------
(* Every step keeps the types.                                             *)
LEMMA TypeStep == TypeOK /\ Sites /\ RefInv /\ [Next]_vars => TypeOK'
<1> SUFFICES ASSUME TypeOK, Sites, RefInv, [Next]_vars PROVE Typed'
  BY Types
<1>a. Typed /\ MaxWrites \in Nat /\ MaxTime \in Nat /\ Timeouts \subseteq Nat
  BY Types, BoundsAssumption
<1>1. ASSUME NEW o \in Obj, MakeSensor(o) PROVE Typed'
  BY <1>1, <1>a, Objects DEF Typed, MakeSensor, sysVars
<1>2. CASE DropAny
  <2>1. UNCHANGED <<sysVars, miscMtx, lab, wr, rd, writes, updated>> /\ admin' \in AdminType
    BY <1>2, Drops
  <2>2. dir' \in Obj \cup {None}
    BY <1>2, <1>a DEF Typed, DropAny, DropSensor, DropLock, DropDrain, DropMisc, DropPut
  <2>3. obj' \in [Obj -> ObjType]
    BY <1>2, <1>a, Objects DEF Typed, DropAny, DropSensor, DropDrain
  <2>4. lock' \in [Obj -> Writer \cup Labeller \cup {"admin", None}]
    BY <1>2, <1>a DEF Typed, DropAny, DropSensor, DropLock, DropDrain, DropMisc, DropPut
  <2> QED
    BY <1>a, <2>1, <2>2, <2>3, <2>4 DEF Typed, sysVars
<1>3. ASSUME NEW l \in Labeller, LabelAny(l) PROVE Typed'
  <2>1. /\ UNCHANGED <<sysVars, dir, miscMtx, admin, wr, rd, writes, updated>>
        /\ lab' \in [Labeller -> LabType]
    BY <1>3, Labels
  <2>2. obj' \in [Obj -> ObjType]
    BY <1>3, <1>a, LabelObjects DEF Typed, LabelAny, LabelStep, StoreRefused
  <2>3. lock' \in [Obj -> Writer \cup Labeller \cup {"admin", None}]
    BY <1>3, <1>a DEF Typed, LabelAny, LabelStep, LabelOpen, StoreSameLabel, StoreRefused,
                      StoreNewLabel, Relabel, LabelClose
  <2> QED
    BY <1>a, <2>1, <2>2, <2>3 DEF Typed, sysVars
<1>4. ASSUME NEW w \in Writer, WriteAny(w) PROVE Typed'
  <2>1. /\ UNCHANGED <<sysVars, dir, admin, lab, rd>> /\ wr' \in [Writer -> WrType]
        /\ miscMtx' \in Writer \cup {None}
    BY <1>4, Writes
  <2>2. obj' \in [Obj -> ObjType]
    BY <1>4, <1>a, WriteObjects DEF Typed, WriteAny, WriteRefused
  <2>3. lock' \in [Obj -> Writer \cup Labeller \cup {"admin", None}]
    BY <1>4, <1>a DEF Typed, WriteAny, OpenDevice, OpenCheck, WriteTemperature, WriteStamp,
                      WriteRefused, CloseDevice
  <2>4. /\ writes' \in 0..MaxWrites
        /\ updated' \in [1..MaxWrites -> 0..MaxTime \cup {Pending}]
    <3>1. CASE WriteTemperature(w)
      BY <3>1, <1>a DEF Typed, WriteTemperature
    <3>2. CASE WriteStamp(w)
      BY <3>2, <1>a DEF Typed, WriteStamp
    <3>3. CASE ~WriteTemperature(w) /\ ~WriteStamp(w)
      BY <3>3, <1>4, <1>a, Writes DEF Typed, WriteAny
    <3> QED
      BY <3>1, <3>2, <3>3
  <2> QED
    BY <1>a, <2>1, <2>2, <2>3, <2>4 DEF Typed, sysVars
<1>5. CASE ReadOrTick
  <2>1. UNCHANGED <<dir, obj, lock, miscMtx, admin, lab, wr, writes, updated>>
    BY <1>5, Outside
  <2>2. now' \in 0..MaxTime /\ timeout' \in Timeouts
    <3>1. CASE Tick
      BY <3>1, <1>a DEF Typed, Tick
    <3>2. CASE SetStaleTimeout
      BY <3>2, <1>a DEF Typed, SetStaleTimeout
    <3>3. ~Tick /\ ~SetStaleTimeout => UNCHANGED sysVars
      BY <1>5 DEF ReadOrTick, ReadBegin, ReadStep, ReadCheck, ReadValue, ReadEnd, vars
    <3> QED
      BY <3>1, <3>2, <3>3, <1>a DEF Typed, sysVars
  <2>3. rd' \in [Reader -> RdType]
    <3>a. /\ rd \in [Reader -> RdType] /\ now - timeout \in Int /\ Failsafe \in 0..MaxWrites
          /\ \A o \in Obj : obj[o].temp \in 0..MaxWrites
          /\ \A r \in Reader : rd[r].pc # "idle" => rd[r].o \in Obj
      BY <1>a, AtObject DEF Typed, ObjType, Failsafe
    <3>1. CASE UNCHANGED rd
      BY <3>1, <3>a
    <3>2. ASSUME NEW r \in Reader, NEW o \in Obj, ReadBegin(r, o) PROVE rd' \in [Reader -> RdType]
      BY <3>2, <3>a DEF ReadBegin, RdType
    <3>3. ASSUME NEW r \in Reader, ReadCheck(r) PROVE rd' \in [Reader -> RdType]
      BY <3>3, <3>a DEF ReadCheck, RdType
    <3>4. ASSUME NEW r \in Reader, ReadValue(r) PROVE rd' \in [Reader -> RdType]
      BY <3>4, <3>a DEF ReadValue, RdType
    <3>5. ASSUME NEW r \in Reader, ReadEnd(r) PROVE rd' \in [Reader -> RdType]
      BY <3>5, <3>a DEF ReadEnd, RdType
    <3> QED
      BY <1>5, <3>1, <3>2, <3>3, <3>4, <3>5
         DEF ReadOrTick, ReadStep, Tick, SetStaleTimeout, vars
  <2> QED
    BY <2>1, <2>2, <2>3, <1>a DEF Typed
<1> QED
  BY <1>1, <1>2, <1>3, <1>4, <1>5, Steps

(* It all holds of the module just loaded.                                 *)
LEMMA InitInv == Init => IndInv
<1> SUFFICES ASSUME Init PROVE IndInv
  OBVIOUS
<1>a. None \notin Obj \cup Writer \cup Labeller \cup {"admin"} /\ MaxWrites \in Nat /\ MaxTime \in Nat
  BY NoneAssumption, BoundsAssumption
<1>1. TypeOK
  BY <1>a, Types, Frees DEF Init, Typed, AdminType, LabType, WrType, RdType, Failsafe, Pending
<1>2. Sites
  BY <1>a DEF Init, Sites
<1>3. \A o \in Obj : Holders(o) = {} /\ ~Attached(o) /\ obj[o] = Free
  BY <1>a DEF Init, Holders, Attached
<1>4. RefInv
  BY <1>3, Frees, FS_EmptySet DEF RefInv
<1>5. LockInv
  BY <1>a DEF Init, LockInv
<1>6. StageInv
  <2>1. \A o \in Obj : Stage(o)
    BY <1>a, <1>3, Frees DEF Init, Stage
  <2>2. Threads
    BY DEF Init, Threads
  <2> QED
    BY <2>1, <2>2 DEF StageInv, Stage, Threads
<1>7. FreshInv
  BY <1>3, Frees DEF Init, FreshInv, Sound, Failsafe
<1> QED
  BY <1>1, <1>2, <1>4, <1>5, <1>6, <1>7 DEF IndInv

(* The inductive invariant: whatever mkdir, rmdir, label stores, writes    *)
(* and reads do to each other, every reference on a sensor is counted, its *)
(* lock is held by the thread inside, whoever is inside is at a sensor     *)
(* that rmdir has not yet passed, and every temperature can be told apart  *)
(* from an expired one.                                                    *)
THEOREM VirtTempInvariant == Spec => []IndInv
<1>1. Init => IndInv
  BY InitInv
<1>2. IndInv /\ [Next]_vars => IndInv'
  BY TypeStep, SitesStep, RefStep, LockStep, StageStep, FreshStep DEF IndInv
<1> QED
  BY <1>1, <1>2, PTL DEF Spec

(* A sensor's memory lives exactly as long as the directory, rmdir, an     *)
(* open file or a reader can still reach it, and its hwmon device only     *)
(* under a registered parent, with a label and before rmdir's mark.        *)
THEOREM LifetimesHolds == Spec => []Lifetimes
<1>1. IndInv => Lifetimes
  <2> SUFFICES ASSUME IndInv PROVE Lifetimes
    OBVIOUS
  <2>a. TypeOK /\ Sites /\ RefInv /\ StageInv
    BY DEF IndInv
  <2>1. LivesWhileUsed
    <3> SUFFICES ASSUME NEW o \in Obj PROVE obj[o].alloc <=> InUse(o)
      BY DEF LivesWhileUsed
    <3>1. obj[o].alloc <=> Holders(o) # {}
      BY <2>a DEF RefInv
    <3>2. Holders(o) # {} => InUse(o)
      BY DEF Holders, InUse
    <3>3. ASSUME NEW r \in Reader, rd[r].o = o PROVE "admin" \in Holders(o)
      <4>1. rd[r].pc # "idle"
        BY <2>a, <3>3, NoneAssumption DEF Sites
      <4>2. dir = o \/ admin.o = o
        BY <2>a, <3>3, <4>1 DEF StageInv, Attached
      <4> QED
        BY <4>2, Holding
    <3>4. InUse(o) => Holders(o) # {}
      BY <3>3, Holding DEF InUse
    <3> QED
      BY <3>1, <3>2, <3>4
  <2>2. HwmonHasParent
    BY <2>a DEF StageInv, HwmonHasParent
  <2> QED
    BY <2>a, <2>1, <2>2 DEF Lifetimes
<1> QED
  BY <1>1, VirtTempInvariant, PTL

(* A reader gets the failsafe or a temperature whose write stamped it      *)
(* within stale_timeout of the reader's check, or is about to: no expired  *)
(* value leaves the module, for any timeout and any number of threads.     *)
THEOREM FreshOrFailsafeHolds == Spec => []FreshOrFailsafe
<1>1. IndInv => FreshOrFailsafe
  BY DEF IndInv, FreshInv, Sound, FreshOrFailsafe
<1> QED
  BY <1>1, VirtTempInvariant, PTL

-----------------------------------------------------------------------------
(* What no step changes of a sensor that a thread still relies on.         *)
Kept(o) ==
    /\ Active(o) # {} => obj'[o].label = obj[o].label
    /\ obj[o].removed /\ obj'[o].alloc => obj'[o].temp = obj[o].temp /\ obj'[o].upd = obj[o].upd

(* A put that frees the sensor finds no reader inside: whoever shows the   *)
(* sensor to readers still holds a reference of its own.                   *)
LEMMA KeptByPut ==
    ASSUME IndInv, NEW o \in Obj, NEW t, t \in Holders(o), obj'[o] = Put(obj[o]),
           t = "admin" => ~Attached(o) /\ admin.pc # "drain"
    PROVE  Kept(o)
<1>a. TypeOK /\ RefInv /\ StageInv /\ obj[o] \in ObjType
  BY Types DEF IndInv, Typed
<1>b. obj[o].refs # 0 /\ (obj[o].refs = 1 <=> Holders(o) = {t})
  BY <1>a, Held
<1>1. CASE obj[o].refs # 1
  BY <1>a, <1>b, <1>1, Puts DEF Kept
<1>2. CASE obj[o].refs = 1
  <2>1. obj'[o] = Free /\ Holders(o) = {t}
    BY <1>a, <1>b, <1>2, Puts
  <2>2. ASSUME NEW r \in Active(o) PROVE FALSE
    <3>1. Attached(o) \/ (admin.o = o /\ admin.pc = "drain")
      BY <1>a, <2>2 DEF Active, StageInv
    <3>2. "admin" \in Holders(o)
      BY <3>1, Holding DEF Attached
    <3> QED
      BY <2>1, <3>1, <3>2
  <2> QED
    BY <2>1, <2>2, Frees DEF Kept
<1> QED
  BY <1>1, <1>2

(* No step of any thread changes what another one still relies on.         *)
LEMMA KeptStep == IndInv /\ [Next]_vars => \A q \in Obj : Kept(q)
<1> SUFFICES ASSUME IndInv, [Next]_vars, NEW q \in Obj PROVE Kept(q)
  OBVIOUS
<1>a. TypeOK /\ Sites /\ RefInv /\ LockInv /\ StageInv /\ obj[q] \in ObjType
  BY Types DEF IndInv, Typed
<1>b. ASSUME obj'[q] = obj[q] PROVE Kept(q)
  BY <1>b DEF Kept
<1>c. ASSUME obj'[q] = Get(obj[q]) PROVE Kept(q)
  BY <1>a, <1>c, Gets DEF Kept
<1>1. ASSUME NEW o \in Obj, MakeSensor(o) PROVE Kept(q)
  <2>1. Becomes(o, Made) /\ dir = None /\ admin.o = None /\ ~obj[o].alloc
    BY <1>1, <1>a, Objects DEF MakeSensor, Sites
  <2>2. obj[o] = Free
    BY <1>a, <2>1 DEF RefInv
  <2>3. Made.label = None
    BY <1>a, Makes
  <2> QED
    BY <1>b, <2>1, <2>2, <2>3, Frees DEF Kept, Becomes
<1>2. CASE DropAny
  <2>1. CASE DropSensor \/ DropDrain
    BY <1>2, <1>a, <1>b, <2>1, Drops
  <2>2. CASE DropLock \/ DropMisc
    <3>1. PICK o \in Obj : o = admin.o
      BY <1>2, <1>a, <2>2, Drops, AtObject
    <3> QED
      BY <1>a, <1>b, <2>2, <3>1, DropFields DEF Kept
  <2>3. CASE DropPut
    <3>1. PICK o \in Obj : o = admin.o /\ admin.pc = "put" /\ dir = None
      BY <1>2, <1>a, <2>3, Drops, AtObject, NoneAssumption DEF Sites
    <3>2. Becomes(o, Put(obj[o])) /\ "admin" \in Holders(o) /\ ~Attached(o)
      BY <1>a, <2>3, <3>1, Objects, Holding, NoneAssumption DEF Attached
    <3> QED
      BY <1>b, <3>1, <3>2, KeptByPut DEF Becomes
  <2> QED
    BY <1>2, <2>1, <2>2, <2>3 DEF DropAny
<1>3. ASSUME NEW l \in Labeller, LabelAny(l) PROVE Kept(q)
  <2>1. CASE LabelOpen(l)
    BY <1>a, <1>b, <1>c, <2>1, LabelObjects DEF Becomes
  <2>2. CASE StoreSameLabel(l) \/ StoreRefused(l) \/ StoreNewLabel(l) \/ Relabel(l)
    <3>1. PICK o \in Obj : o = lab[l].o
      BY <1>3, <1>a, <2>2, Labels, AtObject
    <3>2. /\ obj'[o].temp = obj[o].temp /\ obj'[o].upd = obj[o].upd
          /\ \A p \in Obj \ {o} : obj'[p] = obj[p]
          /\ obj'[o].label = obj[o].label \/ Relabel(l)
      BY <1>a, <2>2, <3>1, LabelFields
    <3>3. Relabel(l) => Active(o) = {}
      BY <3>1 DEF Relabel, Drained
    <3> QED
      BY <1>b, <3>2, <3>3 DEF Kept
  <2>3. CASE LabelClose(l)
    <3>1. PICK o \in Obj : o = lab[l].o
      BY <1>3, <1>a, <2>3, Labels, AtObject
    <3>2. Becomes(o, Put(obj[o])) /\ l \in Holders(o) /\ l # "admin"
      BY <1>a, <2>3, <3>1, LabelObjects, Holding, ThreadAssumption
    <3> QED
      BY <1>b, <3>2, KeptByPut DEF Becomes
  <2> QED
    BY <1>3, <2>1, <2>2, <2>3 DEF LabelAny, LabelStep
<1>4. ASSUME NEW w \in Writer, WriteAny(w) PROVE Kept(q)
  <2>1. CASE \E o \in Obj : OpenDevice(w, o)
    BY <1>a, <1>b, <1>c, <2>1, WriteObjects DEF Becomes
  <2>2. CASE WriteRefused(w)
    BY <1>b, <2>2 DEF WriteRefused
  <2>3. CASE WriteTemperature(w) \/ WriteStamp(w)
    <3>1. PICK o \in Obj : o = wr[w].o
      BY <1>4, <1>a, <2>3, Writes, AtObject
    <3>2. obj'[o].label = obj[o].label /\ \A p \in Obj \ {o} : obj'[p] = obj[p]
      BY <1>a, <2>3, <3>1, WriteFields
    <3>3. ~obj[o].removed
      BY <1>a, <2>3, <3>1 DEF WriteTemperature, WriteStamp, StageInv
    <3> QED
      BY <1>b, <3>2, <3>3 DEF Kept
  <2>4. CASE OpenCheck(w) \/ CloseDevice(w)
    <3>1. PICK o \in Obj : o = wr[w].o
      BY <1>4, <1>a, <2>4, Writes, AtObject
    <3>2. UNCHANGED obj \/ Becomes(o, Put(obj[o]))
      BY <1>4, <1>a, <2>4, <3>1, Writes, WriteObjects
    <3>3. w \in Holders(o) /\ w # "admin"
      BY <3>1, Holding, ThreadAssumption
    <3> QED
      BY <1>b, <3>2, <3>3, KeptByPut DEF Becomes
  <2> QED
    BY <1>4, <2>1, <2>2, <2>3, <2>4 DEF WriteAny
<1>5. CASE ReadOrTick
  BY <1>5, <1>b, Outside
<1> QED
  BY <1>1, <1>2, <1>3, <1>4, <1>5, Steps

(* While a reader is inside, the label whose storage read_label returned   *)
(* does not change, and a removed sensor is never written: rmdir, label    *)
(* stores and late writers change nothing under a thread that is inside.   *)
THEOREM StableInsideHolds == Spec => StableInside
<1>1. IndInv /\ [Next]_vars =>
         [\A o \in Obj : Active(o) # {} => obj'[o].label = obj[o].label]_vars
  BY KeptStep DEF Kept
<1>2. IndInv /\ [Next]_vars =>
         [\A o \in Obj : obj[o].removed /\ obj'[o].alloc =>
             obj'[o].temp = obj[o].temp /\ obj'[o].upd = obj[o].upd]_vars
  BY KeptStep DEF Kept
<1>3. Spec => LabelStable
  BY <1>1, VirtTempInvariant, PTL DEF Spec, LabelStable
<1>4. Spec => WritesAreLive
  BY <1>2, VirtTempInvariant, PTL DEF Spec, WritesAreLive
<1> QED
  BY <1>3, <1>4 DEF StableInside

=============================================================================
