----------------------------- MODULE HbaIdentity -----------------------------
(***************************************************************************)
(* Which controller a temperature belongs to: hba_sysfs.go, and the        *)
(* collections of hba_storcli.go and hba_mpt3ctl.go.                       *)
(*                                                                         *)
(* The stable identity comes from sysfs, by SCSI host; temperatures come   *)
(* by controller index (StorCLI) or by IOC number (mpt3ctl).  A collection *)
(* joins these over several reads, and cards may be unplugged and plugged  *)
(* in between any two of them: the kernel gives a new card the lowest free *)
(* host number and a new IOC number, and StorCLI counts the cards in the   *)
(* order of their PCI addresses.                                           *)
(***************************************************************************)
EXTENDS Integers, FiniteSets

CONSTANTS PCI,              \* PCI addresses, as numbers
          Card, NoCard,
          SAS, NoSAS,       \* host_sas_address, by card; some have none
          Driver,           \* proc_name, by card
          Probed,           \* the cards with a temperature probe
          MaxChanges,       \* bound on hardware changes
          MaxFaults         \* bound on failing commands and reads

Drivers == {"mpt3sas", "megaraid_sas", "other"}

ASSUME HardwareAssumption ==
    /\ PCI \subseteq Nat /\ IsFiniteSet(PCI)
    /\ NoCard \notin Card /\ Probed \subseteq Card
    /\ Driver \in [Card -> Drivers]
    /\ DOMAIN SAS = Card
    /\ MaxChanges \in Nat /\ MaxFaults \in Nat

Host == 0..Cardinality(PCI) - 1
Number == 0..MaxChanges + Cardinality(PCI)

VARIABLES
    slot,           \* the cards of the machine, by PCI address
    host, ioc,      \* the numbers the kernel gave them, by PCI address
    nextIoc,
    reader,         \* the backend of the daemon
    step,           \* of the collection
    controllers,    \* StorCLI's answer to "show": PCI addresses by index
    entries,        \* hosts that discoverSysfsHBAs has still to read
    probing,        \* the host whose identity is not read yet
    found,          \* sysfsHBA records read so far
    byIoc,          \* mpt3HBAMetadataByIOC: identities by IOC number
    todo,           \* hosts or IOC numbers a loop has still to visit
    cardMetadata,   \* storCLIReader.metadata: identities by index, or Nothing
    read,           \* which read of this collection comes next: of "cached"
                    \* metadata, or after its "first" or "second" discovery
    readings,       \* what this collection has read
    known,          \* the indexes of the metadata this collection began with
    collected,      \* what the last collection that succeeded has read
    quiet,          \* no hardware change since this collection began
    sound,          \* no hardware change since the last discovery began
    changes, faults

machine == <<slot, host, ioc, nextIoc>>
local   == <<controllers, entries, probing, found, byIoc, todo, readings>>
kept    == <<machine, reader, cardMetadata, read, known, collected, quiet, sound,
             changes, faults>>
identityVars == <<kept, step, local>>

Nothing == [i \in {} |-> 0]

Occupied == {p \in PCI : slot[p] # NoCard}
Supported == {p \in Occupied : Driver[slot[p]] # "other"}

(* hbaStableID: the SAS address, or the PCI location.                      *)
HbaStableID(sas, p) == IF sas # NoSAS THEN <<"sas", sas>> ELSE <<"pci", p>>

(* StorCLI's indexes: the supported cards counted by PCI address.          *)
Index(p) == Cardinality({q \in Supported : q < p})
Indexes == {Index(p) : p \in Supported}
AtIndex(i) == CHOOSE p \in Supported : Index(p) = i

(* sysfsHBA: its identity, where it was found and what drives it.          *)
Identity == {HbaStableID(sas, p) : sas \in {SAS[c] : c \in Card} \cup {NoSAS}, p \in PCI}
Reading == [id : Identity, card : Card]

IdentityTypeOK ==
    /\ slot \in [PCI -> Card \cup {NoCard}]
    /\ host \in [PCI -> Host] /\ ioc \in [PCI -> Number] /\ nextIoc \in Number
    /\ reader \in {"mpt3ctl", "storcli"}
    /\ step \in {"idle", "list", "scan", "host", "ioc", "page", "read"}
    /\ DOMAIN controllers \subseteq Host
    /\ \A i \in DOMAIN controllers : controllers[i] \in PCI
    /\ entries \subseteq Host /\ \A g, h \in probing : g = h
    /\ probing \subseteq [host : Host, pci : PCI, driver : Drivers]
    /\ found \subseteq [host : Host, pci : PCI, driver : Drivers, id : Identity]
    /\ DOMAIN byIoc \subseteq Number /\ \A n \in DOMAIN byIoc : byIoc[n] \in Identity
    /\ todo \subseteq Host \cup Number
    /\ DOMAIN cardMetadata \subseteq Host
    /\ \A i \in DOMAIN cardMetadata : cardMetadata[i] \in Identity
    /\ read \in {"cached", "first", "second"} /\ known \subseteq Host
    /\ readings \subseteq Reading /\ collected \subseteq Reading
    /\ quiet \in BOOLEAN /\ sound \in BOOLEAN
    /\ changes \in 0..MaxChanges /\ faults \in 0..MaxFaults

NoLocals ==
    /\ controllers = Nothing /\ entries = {} /\ probing = {} /\ found = {} /\ byIoc = Nothing
    /\ todo = {} /\ readings = {}

(* The kernel numbers the cards in the order of their PCI addresses.       *)
IdentityInit ==
    /\ slot \in [PCI -> Card \cup {NoCard}]
    /\ \A p, q \in PCI : slot[p] = slot[q] /\ slot[p] # NoCard => p = q
    /\ host = [p \in PCI |-> Cardinality({q \in Occupied : q < p})]
    /\ ioc = host /\ nextIoc = Cardinality(PCI)
    /\ reader \in {"mpt3ctl", "storcli"}
    /\ step = "idle" /\ NoLocals
    /\ cardMetadata = Nothing /\ read = "cached"
    /\ known = {} /\ collected = {}
    /\ quiet = TRUE /\ sound = TRUE
    /\ changes = 0 /\ faults = 0

-----------------------------------------------------------------------------
Change ==
    /\ changes < MaxChanges /\ changes' = changes + 1
    /\ quiet' = FALSE /\ sound' = FALSE
    /\ UNCHANGED <<reader, step, local, cardMetadata, read, known, collected, faults>>

Unplug(p) ==
    /\ p \in Occupied /\ Change
    /\ slot' = [slot EXCEPT ![p] = NoCard]
    /\ UNCHANGED <<host, ioc, nextIoc>>

Plug(p, card) ==
    /\ p \notin Occupied /\ \A q \in PCI : slot[q] # card
    /\ Change
    /\ slot' = [slot EXCEPT ![p] = card]
    /\ LET free == Host \ {host[q] : q \in Occupied}
       IN  \E h \in free : (\A g \in free : h <= g) /\ host' = [host EXCEPT ![p] = h]
    /\ ioc' = [ioc EXCEPT ![p] = nextIoc] /\ nextIoc' = nextIoc + 1

-----------------------------------------------------------------------------
(* hbaCollector.refresh calls collect.  StorCLI's metadata is kept between *)
(* collections; mpt3ctl discovers each time.                               *)
Begin ==
    /\ step = "idle" /\ quiet' = TRUE
    /\ step' = IF reader = "mpt3ctl" THEN "scan"
               ELSE IF cardMetadata = Nothing THEN "list" ELSE "read"
    /\ read' = IF cardMetadata = Nothing THEN "first" ELSE "cached"
    /\ known' = DOMAIN cardMetadata
    /\ sound' = IF step' = "read" THEN sound ELSE TRUE
    /\ UNCHANGED <<machine, reader, local, cardMetadata, collected, changes, faults>>

(* The collection returns: its local variables are gone.                   *)
Leave ==
    /\ step' = "idle"
    /\ controllers' = Nothing /\ entries' = {} /\ probing' = {} /\ found' = {} /\ byIoc' = Nothing
    /\ todo' = {} /\ readings' = {} /\ known' = {} /\ read' = "cached"
    /\ UNCHANGED <<machine, reader, quiet, changes>>

ReturnError == Leave /\ UNCHANGED <<collected, cardMetadata, sound>>
ReturnReadings(rs) ==
    /\ Leave /\ collected' = rs
    /\ UNCHANGED <<cardMetadata, sound, faults>>

(* A step that fails by itself, or because what it asks for has gone.      *)
Broken(gone) == \/ gone /\ UNCHANGED faults
                \/ faults < MaxFaults /\ faults' = faults + 1

(* parseStorCLIControllers: every index with its PCI address.              *)
ListControllers ==
    /\ step = "list"
    /\ \/ /\ Indexes # {}
          /\ controllers' = [i \in Indexes |-> AtIndex(i)] /\ step' = "scan"
          /\ UNCHANGED <<kept, entries, probing, found, byIoc, todo, readings>>
       \/ Broken(Indexes = {}) /\ ReturnError

(* discoverSysfsHBAs lists the hosts, then reads them one at a time.       *)
ScanHosts ==
    /\ step = "scan"
    /\ \/ /\ step' = "host" /\ entries' = {host[p] : p \in Occupied}
          /\ UNCHANGED <<kept, controllers, probing, found, byIoc, todo, readings>>
       \/ Broken(FALSE) /\ ReturnError

(* A supported host: its driver and its PCI address are taken in one step, *)
(* ...                                                                     *)
ScanHost(h) ==
    /\ step = "host" /\ probing = {} /\ h \in entries
    /\ LET at == {p \in Occupied : host[p] = h}
           refused == at = {} \/ \E f \in found : f.pci \in at \cap Supported
       IN  \/ /\ ~refused /\ entries' = entries \ {h} /\ step' = step
              /\ probing' = {[host |-> h, pci |-> p, driver |-> Driver[slot[p]]] :
                                p \in at \cap Supported}
              /\ UNCHANGED <<kept, controllers, found, byIoc, todo, readings>>
           \/ Broken(refused) /\ ReturnError

(* ... then the SAS address under the host's path is read.  A path that is *)
(* gone counts as a card without a SAS address, and another card may have  *)
(* taken the host's number.                                                *)
SasAt(h) ==
    LET at == {p \in Occupied : host[p] = h}
    IN  IF at = {} THEN NoSAS ELSE SAS[slot[CHOOSE p \in at : TRUE]]

Duplicate_Ignored(id) == FALSE
Duplicate(id) == \E f \in found : f.id = id

ReadIdentity ==
    /\ step = "host"
    /\ \E h \in probing :
          LET id   == HbaStableID(SasAt(h.host), h.pci)
              gone == \A p \in Occupied : host[p] # h.host
          IN  \/ /\ ~Duplicate(id) /\ probing' = {} /\ step' = step
                 /\ found' = found \cup
                       {[host |-> h.host, pci |-> h.pci, driver |-> h.driver, id |-> id]}
                 /\ UNCHANGED <<kept, controllers, entries, byIoc, todo, readings>>
              \/ Broken(gone \/ Duplicate(id)) /\ ReturnError

(* matchStorCLIControllers: indexes and identities meet at the PCI         *)
(* address.  Two indexes at one identity are refused, which distinct       *)
(* addresses and the scan already exclude.                                 *)
Match_ByPosition ==
    [i \in DOMAIN controllers |->
        (CHOOSE f \in found : Cardinality({g \in found : g.host < f.host}) = i).id]
Match == [i \in DOMAIN controllers |-> (CHOOSE f \in found : f.pci = controllers[i]).id]

MatchControllers ==
    /\ step = "host" /\ reader = "storcli" /\ entries = {} /\ probing = {}
    /\ \/ /\ \A i \in DOMAIN controllers : \E f \in found : f.pci = controllers[i]
          /\ cardMetadata' = Match /\ step' = "read"
          /\ UNCHANGED <<machine, reader, local, read, known, collected, quiet, sound,
                         changes, faults>>
       \/ /\ \E i \in DOMAIN controllers : \A f \in found : f.pci # controllers[i]
          /\ ReturnError /\ UNCHANGED faults

(* storCLIReader.read: temperatures by index, of the cards plugged in now, *)
(* for the indexes the metadata knows.                                     *)
SameControllerSet_Subset == DOMAIN cardMetadata \subseteq Indexes
SameControllerSet == DOMAIN cardMetadata = Indexes

ReadTemperatures ==
    /\ step = "read" /\ Indexes # {} /\ SameControllerSet
    /\ ReturnReadings({[id |-> cardMetadata[i], card |-> slot[AtIndex(i)]] :
                          i \in {j \in DOMAIN cardMetadata : slot[AtIndex(j)] \in Probed}})

(* Anything else: cached metadata is dropped and discovered once more; a   *)
(* first discovery is dropped for the next collection to repeat; what a    *)
(* second one found is kept.                                               *)
ReadFails ==
    /\ step = "read" /\ Broken(Indexes = {} \/ ~SameControllerSet)
    /\ \/ /\ read = "cached" /\ read' = "second" /\ step' = "list"
          /\ cardMetadata' = Nothing /\ sound' = TRUE
          /\ UNCHANGED <<machine, reader, local, known, collected, quiet, changes>>
       \/ /\ read = "first" /\ cardMetadata' = Nothing
          /\ Leave /\ UNCHANGED <<collected, sound>>
       \/ read = "second" /\ ReturnError

-----------------------------------------------------------------------------
(* mpt3Reader.collect: mpt3HBAMetadataByIOC reads the number of each       *)
(* mpt3sas host, under the path that the scan found.  A host number that a *)
(* card of another driver has taken meanwhile is an error: its unique_id,  *)
(* which would parse, is assumed to be the number of no IOC.               *)
BeginIocs ==
    /\ step = "host" /\ reader = "mpt3ctl" /\ entries = {} /\ probing = {}
    /\ LET hosts == {f.host : f \in {g \in found : g.driver = "mpt3sas"}}
       IN  \/ /\ hosts # {} /\ todo' = hosts /\ step' = "ioc"
              /\ UNCHANGED <<kept, controllers, entries, probing, found, byIoc, readings>>
           \/ hosts = {} /\ ReturnError /\ UNCHANGED faults

ReadIoc(h) ==
    /\ step = "ioc" /\ h \in todo
    /\ LET at   == {p \in Occupied : host[p] = h}
           mine == CHOOSE f \in found : f.host = h
           gone == at = {} \/ \E p \in at : ioc[p] \in DOMAIN byIoc
                                         \/ Driver[slot[p]] # "mpt3sas"
       IN  \/ /\ ~gone /\ todo' = todo \ {h}
              /\ LET n == ioc[CHOOSE p \in at : TRUE]
                 IN  byIoc' = [i \in DOMAIN byIoc \cup {n} |->
                                  IF i = n THEN mine.id ELSE byIoc[i]]
              /\ UNCHANGED <<kept, step, controllers, entries, probing, found, readings>>
           \/ Broken(gone) /\ ReturnError

BeginPages ==
    /\ step = "ioc" /\ todo = {} /\ step' = "page" /\ todo' = DOMAIN byIoc
    /\ UNCHANGED <<kept, controllers, entries, probing, found, byIoc, readings>>

(* readIOUnitPage7 and makeHBAReading: a card without a probe is left out. *)
ReadPage(n) ==
    /\ step = "page" /\ n \in todo
    /\ LET at == {p \in Occupied : ioc[p] = n}
       IN  \/ /\ at # {} /\ todo' = todo \ {n}
              /\ readings' = readings \cup
                    {[id |-> byIoc[n], card |-> slot[p]] : p \in {q \in at : slot[q] \in Probed}}
              /\ UNCHANGED <<kept, step, controllers, entries, probing, found, byIoc>>
           \/ Broken(at = {}) /\ ReturnError

EndPages == step = "page" /\ todo = {} /\ ReturnReadings(readings)

IdentityNext ==
    \/ \E p \in PCI : Unplug(p) \/ \E c \in Card : Plug(p, c)
    \/ Begin \/ ListControllers \/ ScanHosts \/ ReadIdentity
    \/ \E h \in Host : ScanHost(h) \/ ReadIoc(h)
    \/ MatchControllers \/ ReadTemperatures \/ ReadFails
    \/ BeginIocs \/ BeginPages \/ EndPages
    \/ \E n \in Number : ReadPage(n)

IdentitySpec == IdentityInit /\ [][IdentityNext]_identityVars

-----------------------------------------------------------------------------
(* What the machine would answer at once.                                  *)
Backed == IF reader = "mpt3ctl" THEN {p \in Occupied : Driver[slot[p]] = "mpt3sas"}
          ELSE Supported
Truth  == {[id |-> HbaStableID(SAS[slot[p]], p), card |-> slot[p]] :
              p \in {q \in Backed : slot[q] \in Probed}}

Publish == ReadTemperatures \/ EndPages

(* Two sensors never share an identity, whatever duplicates sysfs shows    *)
(* and whatever was plugged in meanwhile: the host would refuse the whole  *)
(* family.                                                                 *)
UniqueIdentities ==
    /\ IdentityTypeOK
    /\ \A r, s \in collected : r.id = s.id => r = s
    /\ \A r, s \in collected : r.card = s.card => r = s

(* A temperature is published under the identity of the card it was        *)
(* measured on, and no card is forgotten: for mpt3ctl when the hardware    *)
(* stood still during the collection, for StorCLI when it did since the    *)
(* discovery whose indexes the collection uses.                            *)
AttributedRight ==
    [][Publish /\ (IF reader = "mpt3ctl" THEN quiet ELSE sound)
          => collected' = Truth]_identityVars

(* StorCLI notices a hot-plugged card: a collection during which nothing   *)
(* changed, and which finds other indexes than the metadata it began with, *)
(* attributes every temperature right ("redécouvre l'association [...]     *)
(* après [...] un changement de l'ensemble de leurs index", README).       *)
NewIndexesRediscovered ==
    [][Publish /\ quiet /\ Indexes # known => collected' = Truth]_identityVars

(* Cards that come and go between the reads of a collection, or between    *)
(* two collections, get neither another card's temperature nor lose theirs.*)
RightCards == AttributedRight /\ NewIndexesRediscovered

=============================================================================
