------------------------------ MODULE Inventory ------------------------------
(***************************************************************************)
(* The disk inventory of the guest: disk_inventory.go, and diskSelector in *)
(* disk_policy.go.                                                         *)
(*                                                                         *)
(* Unraid describes the disks of the array in disks.ini and the others in  *)
(* devs.ini; it rewrites both files at any moment, and for a while they    *)
(* may hold two rows of one disk, in either file or in both.  From the two *)
(* files, the policies and the bus that sysfs shows, the daemon computes   *)
(* the rows that the WebUI lists and the disks that the collector reads,   *)
(* or an error: an inventory is never published in part.                   *)
(*                                                                         *)
(* The computation is pure.  The files grow a row at a time, in any order  *)
(* of rows; names and IDs are numbers, since the result is sorted by them. *)
(* Entries are kept as sets: the list in which the code collects them is   *)
(* sorted before anyone looks at it, and the sort is not stable.           *)
(***************************************************************************)
EXTENDS Integers, FiniteSets, Sequences, Functions

CONSTANTS Name,             \* section names of the two files, as numbers
          FlashName,        \* "flash", the boot device
          ID,               \* stable IDs, as numbers
          LongID,           \* those beyond maxUnraidDiskIDSize
          Device,           \* block devices
          NoDevice,         \* the empty device name
          Ancestors,        \* per device, what sysfs shows of its parents
          AssignedRows,     \* the rows disks.ini may hold
          UnassignedRows,   \* the rows devs.ini may hold
          Policies,         \* the policy files the runs consider
          MaxRows           \* bound on the rows of the two files

NoID == 0

(* A device key is a name with or without "/dev/"; anything else (a nested *)
(* path, "..", nothing) is written as NoDevice.                            *)
RawDevice == [base : Device \cup {NoDevice}, prefixed : BOOLEAN]

UnassignedRow == [name : Name, id : ID \cup {NoID}, raw : RawDevice, thermal : BOOLEAN]
AssignedRow   == [name : Name, id : ID \cup {NoID}, raw : RawDevice, thermal : BOOLEAN,
                  np : BOOLEAN]

Policy == {"auto", "include", "exclude"}

ASSUME NumbersAssumption ==
    /\ Name \subseteq Nat /\ FlashName \in Name
    /\ ID \subseteq Nat \ {NoID} /\ LongID \subseteq ID
    /\ NoDevice \notin Device /\ MaxRows \in Nat
ASSUME RowsAssumption ==
    AssignedRows \subseteq AssignedRow /\ UnassignedRows \subseteq UnassignedRow

(* The nodes from a disk's physical sysfs node up to /sys/devices: each    *)
(* has no subsystem link, a broken one, or one to the USB bus or another.  *)
(* A device that does not resolve is not found at all.                     *)
Link == {"absent", "broken", "usb", "other"}
ASSUME AncestorsAssumption ==
    \A d \in Device : Ancestors[d] \in [found : BOOLEAN, links : Seq(Link)]

(* readDiskPolicies and Set accept neither an empty nor an oversized ID.   *)
ASSUME PoliciesAssumption ==
    \A p \in Policies : p \in [ID -> Policy] /\ \A i \in LongID : p[i] = "auto"

VARIABLES disksIni, devsIni, policies
inventoryVars == <<disksIni, devsIni, policies>>

-----------------------------------------------------------------------------
(* normalizeDiskDevice                                                     *)
NormalizeDiskDevice(raw) == raw.base

(* isUSBBlockDevice and detectBus: the walk ends at the first USB bus or   *)
(* at the first link it cannot follow.                                     *)
DetectBus(device) ==
    IF device = NoDevice \/ ~Ancestors[device].found THEN "unknown"
    ELSE LET links == Ancestors[device].links
             Followed(i) == \A j \in 1..(i - 1) : links[j] # "broken"
         IN  IF \E i \in DOMAIN links : links[i] = "usb" /\ Followed(i) THEN "USB"
             ELSE IF "other" \in Range(links) /\ "broken" \notin Range(links) THEN "non-USB"
             ELSE "unknown"

(* diskSelector.evaluate                                                   *)
PolicyOf(pol, id) == IF id = NoID THEN "auto" ELSE pol[id]

Selected_IncludesFlash(pol, id, name, device) ==
    \/ PolicyOf(pol, id) = "include"
    \/ PolicyOf(pol, id) = "auto" /\ DetectBus(device) # "USB"
Selected(pol, id, name, device) ==
    /\ name # FlashName
    /\ \/ PolicyOf(pol, id) = "include"
       \/ PolicyOf(pol, id) = "auto" /\ DetectBus(device) # "USB"

(* diskValidationError, with what diskFromSection found in the rotational  *)
(* and spundown fields.                                                    *)
Invalid_AcceptsLongID(id, device, thermal) == id = NoID \/ device = NoDevice \/ ~thermal
Invalid(id, device, thermal) ==
    id = NoID \/ id \in LongID \/ device = NoDevice \/ ~thermal

(* diskInventoryEntry                                                      *)
Entry(pol, row, source) ==
    LET device == NormalizeDiskDevice(row.raw)
    IN  [name |-> row.name, id |-> row.id, device |-> device, source |-> source,
         selected |-> Selected(pol, row.id, row.name, device),
         invalid |-> Invalid(row.id, device, row.thermal)]

Failure == [err |-> TRUE, entries |-> {}]
Success(entries) == [err |-> FALSE, entries |-> entries]

(* What seenIDs and seenIDIndexes know of an ID: the entry that has it.    *)
Seen(entries, id) == {e \in entries : e.id = id /\ id # NoID}

(* readAssignedEntries: a slot without a physical disk (_NP) is skipped    *)
(* before its ID counts.                                                   *)
AddAssigned_CountsMissing(pol, acc, row) ==
    IF acc.err \/ Seen(acc.entries, row.id) # {} THEN Failure
    ELSE Success(acc.entries \cup {Entry(pol, row, "assigned")})
AddAssigned(pol, acc, row) ==
    IF acc.err \/ row.np THEN acc
    ELSE IF Seen(acc.entries, row.id) # {} THEN Failure
    ELSE Success(acc.entries \cup {Entry(pol, row, "assigned")})

ReadAssigned(pol, rows) ==
    LET read[n \in 0..Len(rows)] ==
            IF n = 0 THEN Success({}) ELSE AddAssigned(pol, read[n - 1], rows[n])
    IN  IF Len(rows) = 0 THEN Failure ELSE read[Len(rows)]

(* The rows of devs.ini that stand for an assigned disk or for the boot    *)
(* device are skipped before anything else is looked at.                   *)
AssignedIDs(assigned) == {e.id : e \in assigned} \ {NoID}
FlashDevices_WithEmpty(assigned) ==
    {e.device : e \in {a \in assigned : a.name = FlashName}}
FlashDevices(assigned) ==
    {e.device : e \in {a \in assigned : a.name = FlashName}} \ {NoDevice}

Shadowed(assigned, row) ==
    \/ row.id \in AssignedIDs(assigned)
    \/ NormalizeDiskDevice(row.raw) \in FlashDevices(assigned)

(* readUnassignedEntries: of two rows of one ID the one with a device      *)
(* stays, the first one if neither has; two devices are a conflict.        *)
AddUnassigned_FirstStays(pol, assigned, acc, row) ==
    IF acc.err \/ Shadowed(assigned, row) \/ Seen(acc.entries, row.id) # {} THEN acc
    ELSE Success(acc.entries \cup {Entry(pol, row, "unassigned")})
AddUnassigned(pol, assigned, acc, row) ==
    LET entry == Entry(pol, row, "unassigned")
        seen  == Seen(acc.entries, row.id)
    IN  IF acc.err \/ Shadowed(assigned, row) THEN acc
        ELSE IF entry.device = NoDevice /\ seen # {} THEN acc
        ELSE IF \E e \in seen : e.device # NoDevice THEN Failure
        ELSE Success((acc.entries \ seen) \cup {entry})

ReadUnassigned(pol, assigned, rows) ==
    LET read[n \in 0..Len(rows)] ==
            IF n = 0 THEN Success({}) ELSE AddUnassigned(pol, assigned, read[n - 1], rows[n])
    IN  read[Len(rows)]

(* readDiskInventoryEntries, and the order in which it lists the entries.  *)
ReadEntries(pol, assignedRows, unassignedRows) ==
    LET assigned   == ReadAssigned(pol, assignedRows)
        unassigned == ReadUnassigned(pol, assigned.entries, unassignedRows)
    IN  IF assigned.err \/ unassigned.err THEN Failure
        ELSE Success(assigned.entries \cup unassigned.entries)

Precedes_ByName(a, b) == a.name < b.name
Precedes(a, b) == a.name < b.name \/ (a.name = b.name /\ a.id < b.id)

(* selectedDisks: an unassigned row without a device is ignored; any other *)
(* selected row that is invalid invalidates the inventory.                 *)
Collects(e) == e.selected /\ ~(e.source = "unassigned" /\ e.device = NoDevice)

SelectedDisks_StrictForAll(entries) ==
    IF \E e \in entries : e.invalid THEN Failure
    ELSE Success({e \in entries : Collects(e)})
SelectedDisks(entries) ==
    LET chosen == {e \in entries : Collects(e)}
    IN  IF \E e \in chosen : e.invalid THEN Failure ELSE Success(chosen)

(* readDiskInventory                                                       *)
ReadInventory(pol, assignedRows, unassignedRows) ==
    LET read == ReadEntries(pol, assignedRows, unassignedRows)
    IN  IF read.err THEN Failure ELSE SelectedDisks(read.entries)

-----------------------------------------------------------------------------
(* Unraid writes the files, with one section per name; the WebUI changes   *)
(* the policies.                                                           *)
InventoryInit == disksIni = <<>> /\ devsIni = <<>> /\ policies \in Policies

Names(rows) == {r.name : r \in Range(rows)}
Room == Len(disksIni) + Len(devsIni) < MaxRows

WriteDisks(row) ==
    /\ Room /\ row.name \notin Names(disksIni)
    /\ disksIni' = Append(disksIni, row) /\ UNCHANGED <<devsIni, policies>>

WriteDevs(row) ==
    /\ Room /\ row.name \notin Names(devsIni)
    /\ devsIni' = Append(devsIni, row) /\ UNCHANGED <<disksIni, policies>>

SetPolicy ==
    /\ policies' \in Policies /\ UNCHANGED <<disksIni, devsIni>>

InventoryNext ==
    \/ \E row \in AssignedRows : WriteDisks(row)
    \/ \E row \in UnassignedRows : WriteDevs(row)
    \/ SetPolicy

InventorySpec == InventoryInit /\ [][InventoryNext]_inventoryVars

-----------------------------------------------------------------------------
Entries   == ReadEntries(policies, disksIni, devsIni)
Collected == ReadInventory(policies, disksIni, devsIni)

(* A disk the collector receives has a stable ID within the limit that the *)
(* host's sensors are built on, and a device to read.                      *)
InventoryTypeOK ==
    /\ disksIni \in Seq(AssignedRow) /\ devsIni \in Seq(UnassignedRow) /\ policies \in Policies
    /\ \A e \in Collected.entries :
          e.id \in ID \ LongID /\ e.device \in Device

(* The reference: what the two files mean, said of whole sets of rows.     *)
Active  == {r \in Range(disksIni) : ~r.np}
Visible == {r \in Range(devsIni) :
               /\ \A a \in Active : a.id = r.id => a.id = NoID
               /\ \A a \in Active : a.name = FlashName /\ a.raw.base # NoDevice
                                       => a.raw.base # r.raw.base}
Usable  == {r \in Visible : r.raw.base # NoDevice}

Conflict ==
    \/ \E a, b \in Active : a # b /\ a.id = b.id /\ a.id # NoID
    \/ \E a, b \in Usable : a # b /\ a.id = b.id /\ a.id # NoID

Monitored(r) ==
    /\ r.name # FlashName
    /\ CASE PolicyOf(policies, r.id) = "include" -> TRUE
         [] PolicyOf(policies, r.id) = "exclude" -> FALSE
         [] OTHER -> DetectBus(r.raw.base) # "USB"

Sound(r) == r.id \in ID \ LongID /\ r.raw.base # NoDevice /\ r.thermal

(* The collector receives every disk that the files and the policies ask   *)
(* it to monitor, or an error when one of them cannot be: never a part of  *)
(* the inventory, whatever copies the two files hold ("aucun inventaire    *)
(* partiel n'est publié", README).                                         *)
NeverPartial ==
    LET wanted == {r \in Active \cup Usable : Monitored(r)}
    IN  /\ Collected.err <=>
              disksIni = <<>> \/ Conflict \/ \E r \in wanted : ~Sound(r)
        /\ ~Collected.err =>
              {<<e.name, e.id, e.device>> : e \in Collected.entries}
                  = {<<r.name, r.id, r.raw.base>> : r \in wanted}

(* One sensor per stable ID: no disk is collected twice, and never the     *)
(* boot device, under whatever name devs.ini lists it and whatever its     *)
(* policy says.                                                            *)
CollectedOnce ==
    \A e, f \in Collected.entries :
        /\ e.id = f.id => e = f
        /\ e.name # FlashName
        /\ \A a \in Active : a.name = FlashName /\ e.source = "unassigned"
                                => a.raw.base # e.device

(* The order of the rows in the files decides nothing about what is        *)
(* collected, not even the order of the disks in the snapshot: no two tie, *)
(* so sort.Slice, which is not stable, can list them in one way only.      *)
Orders == [n \in 0..MaxRows |-> Bijection(1..n, 1..n)]
Reordered(rows, order) == [i \in 1..Len(rows) |-> rows[order[i]]]

OrderIrrelevant ==
    /\ \A p \in Orders[Len(disksIni)], q \in Orders[Len(devsIni)] :
          ReadInventory(policies, Reordered(disksIni, p), Reordered(devsIni, q)) = Collected
    /\ \A e, f \in Collected.entries : e = f \/ Precedes(e, f) \/ Precedes(f, e)

(* The WebUI shows exactly one row for every stable ID the files mention,  *)
(* rows the collector cannot use included, unless it is a copy of the boot *)
(* device; so every disk's policy can be seen and changed.                 *)
OneRowPerID ==
    ~Entries.err =>
        \A r \in Active \cup {v \in Range(devsIni) :
                    \A a \in Active : a.name = FlashName => a.raw.base # v.raw.base
                                                             \/ v.raw.base = NoDevice} :
            r.id # NoID =>
                Cardinality({e \in Entries.entries : e.id = r.id}) = 1

(* Excluding the invalid disks brings the inventory back and costs no      *)
(* other disk, provided that they have an ID a policy can name ("si son ID *)
(* stable est valide, la placer en Exclude", README).                      *)
Blocking == {e \in Entries.entries : Collects(e) /\ e.invalid}

ExclusionHeals ==
    ~Entries.err /\ (\A e \in Blocking : e.id \in ID \ LongID) =>
        LET excluded == [i \in ID |-> IF \E e \in Blocking : e.id = i THEN "exclude"
                                      ELSE policies[i]]
            healed   == ReadInventory(excluded, disksIni, devsIni)
        IN  /\ ~healed.err
            /\ healed.entries = {e \in Entries.entries : Collects(e)} \ Blocking

(* However often the two files list a disk, the collector reads it at most *)
(* once and the WebUI shows it exactly once.                               *)
OnePerDisk == InventoryTypeOK /\ CollectedOnce /\ OneRowPerID

(* An inventory is complete or refused, and refused no longer than its     *)
(* invalid disks are asked for.                                            *)
AllOrNothing == NeverPartial /\ ExclusionHeals

=============================================================================
