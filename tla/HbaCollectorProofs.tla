------------------------- MODULE HbaCollectorProofs -------------------------
(***************************************************************************)
(* The HBA collections: the invariants of HbaCollector, for every          *)
(* interval, timeout and set of controllers, and those of HbaIdentity, for *)
(* every machine, every card and any number of hardware changes.           *)
(***************************************************************************)
EXTENDS HbaCollector, HbaIdentity, FiniteSetTheorems, TLAPS

(* A published result was accepted before the deadline of its refresh.     *)
PubInv ==
    mode = "enabled" /\ ~pub.err =>
        /\ pub.at \in Nat /\ pub.began \in Nat
        /\ pub.at < pub.began + Timeout

(* After a success the timer counts from it, and the next refresh begins   *)
(* when it fires.                                                          *)
TimerInv ==
    mode = "enabled" /\ ~pub.err =>
        /\ pc = "idle" => timerAt = pub.at + Interval /\ (canceled \/ now <= timerAt)
        /\ pc # "idle" => startAt = pub.at + Interval

(* Where in a collection the one discovery can have happened.              *)
DiscoveryInv ==
    /\ discoveries <= 1
    /\ pc \in {"discover", "rediscover"} => discoveries = 0

(* Metadata discovered in an undisturbed collection matches the machine.   *)
MetadataInv ==
    /\ undisturbed /\ pc = "read" /\ fresh => metadata.of = hbas
    /\ undisturbed /\ pc = "reread" => metadata.of = hbas
    /\ undisturbed /\ pc = "return" => result = "ok"
FreshInv == pc = "read" /\ discoveries # 0 => fresh

IndInv == TypeOK /\ PubInv /\ TimerInv /\ DiscoveryInv /\ FreshInv /\ MetadataInv

-----------------------------------------------------------------------------
(* Either backend's refresh interval is a natural number.                  *)
LEMMA IntervalNat == Interval \in Nat
BY HbaAssumption DEF Interval

(* The collector starts in a well-typed state.                             *)
LEMMA TypeInit == Init => TypeOK
<1> SUFFICES ASSUME Init PROVE TypeOK
  OBVIOUS
<1>1. metadata \in MetadataType
  BY DEF Init, MetadataType
<1>2. pub \in PubType
  <2>1. (mode # "disabled") \in BOOLEAN
    OBVIOUS
  <2> QED
    BY <2>1 DEF Init, PubType
<1>3. 0 \in 0..MaxTime
  BY HbaAssumption
<1>4. /\ now = 0 /\ startAt = 0 /\ timerAt = 0 /\ discoveries = 0
      /\ hbas \subseteq Controller /\ pc = "idle" /\ result = "ok"
      /\ mode \in {"enabled", "disabled"} /\ backend \in {"mpt3ctl", "storcli"}
      /\ canceled = FALSE /\ fresh = FALSE /\ undisturbed = TRUE
  BY DEF Init
<1> QED
  BY <1>1, <1>2, <1>3, <1>4 DEF TypeOK

(* A discovery that finds a controller leaves well-typed metadata.         *)
LEMMA MetadataTyped ==
    TypeOK /\ Succeeds => Metadata(hbas) \in MetadataType
BY DEF TypeOK, Succeeds, Metadata, MetadataType

(* Every step keeps the types: in particular known metadata names at least *)
(* one controller, because a command succeeds only where there is one.     *)
LEMMA TypeStep == TypeOK /\ [Next]_vars => TypeOK'
<1> SUFFICES ASSUME TypeOK, [Next]_vars PROVE TypeOK'
  OBVIOUS
<1> USE DEF TypeOK
<1>1. CASE Tick
  BY <1>1, HbaAssumption DEF Tick, collectVars
<1>2. CASE HardwareChange
  BY <1>2 DEF HardwareChange, collectVars
<1>3. CASE Cancel
  BY <1>3 DEF Cancel, collectVars
<1>4. CASE BeginRefresh
  BY <1>4 DEF BeginRefresh, envVars
<1>5. CASE CollectMPT3
  BY <1>5 DEF CollectMPT3, Return, envVars
<1>6. CASE Discover
  <2>1. metadata' \in MetadataType
    BY <1>6, MetadataTyped DEF Discover
  <2>2. discoveries' \in Nat
    BY <1>6 DEF Discover
  <2>3. fresh' \in BOOLEAN /\ undisturbed' \in BOOLEAN
    BY <1>6, Zenon DEF Discover
  <2> QED
    BY <1>6, <2>1, <2>2, <2>3 DEF Discover, Return, envVars
<1>7. CASE Read
  BY <1>7 DEF Read, Return, envVars
<1>8. CASE ReadError
  <2>1. metadata' \in MetadataType
    BY <1>8 DEF ReadError, MetadataType
  <2> QED
    BY <1>8, <2>1 DEF ReadError, AfterReadError, Return, envVars
<1>9. CASE Rediscover
  <2>1. metadata' \in MetadataType
    BY <1>9, MetadataTyped DEF Rediscover
  <2>2. discoveries' \in Nat
    BY <1>9 DEF Rediscover
  <2>3. fresh' \in BOOLEAN /\ undisturbed' \in BOOLEAN
    BY <1>9, Zenon DEF Rediscover
  <2> QED
    BY <1>9, <2>1, <2>2, <2>3 DEF Rediscover, Return, envVars
<1>10. CASE Reread
  BY <1>10 DEF Reread, Return, envVars
<1>11. CASE Finish
  <2>1. timerAt' \in Nat
    BY <1>11, IntervalNat DEF Finish
  <2>2. pub' \in PubType
    BY <1>11 DEF Finish, PubType
  <2> QED
    BY <2>1, <2>2, <1>11 DEF Finish, envVars, collectVars
<1>12. CASE UNCHANGED vars
  BY <1>12 DEF vars, envVars, collectVars
<1> QED
  BY <1>1, <1>2, <1>3, <1>4, <1>5, <1>6, <1>7, <1>8, <1>9, <1>10, <1>11, <1>12 DEF Next

-----------------------------------------------------------------------------
(* The steps of a backend's collection, between BeginRefresh and Finish.   *)
BackendStep == CollectMPT3 \/ Discover \/ Read \/ ReadError \/ Rediscover \/ Reread

(* A backend step leaves the clock, the timer and what is published alone. *)
LEMMA BackendFrame ==
    BackendStep => /\ UNCHANGED <<envVars, startAt, timerAt, pub>>
                   /\ pc # "idle" /\ pc' # "idle"
BY DEF BackendStep, CollectMPT3, Discover, Read, ReadError, Rediscover, Reread,
       AfterReadError, Return

(* Publication and timer: a refresh begins exactly one interval after the  *)
(* last success, and only Finish publishes.                                *)
LEMMA TimerStep ==
    TypeOK /\ PubInv /\ TimerInv /\ [Next]_vars => PubInv' /\ TimerInv'
<1> SUFFICES ASSUME TypeOK, PubInv, TimerInv, [Next]_vars PROVE PubInv' /\ TimerInv'
  OBVIOUS
<1> USE DEF PubInv, TimerInv, Interval
<1>1. CASE Tick
  BY <1>1 DEF Tick, TypeOK
<1>2. CASE HardwareChange
  BY <1>2 DEF HardwareChange
<1>3. CASE Cancel
  BY <1>3 DEF Cancel
<1>4. CASE BeginRefresh
  <2>1. pc = "idle" /\ pc' # "idle" /\ startAt' = now /\ now >= timerAt /\ ~canceled
    BY <1>4 DEF BeginRefresh
  <2>2. UNCHANGED <<mode, backend, pub>>
    BY <1>4 DEF BeginRefresh, envVars
  <2> QED
    BY <2>1, <2>2 DEF TypeOK
<1>5. CASE BackendStep
  BY <1>5, BackendFrame DEF envVars
<1>6. CASE Finish
  <2>1. CASE Accepted
    BY <1>6, <2>1, IntervalNat DEF Finish, Accepted, Deadline, envVars, TypeOK
  <2>2. CASE ~Accepted
    BY <1>6, <2>2 DEF Finish, TypeOK
  <2> QED
    BY <2>1, <2>2
<1>7. CASE UNCHANGED vars
  BY <1>7 DEF vars, envVars
<1> QED
  BY <1>1, <1>2, <1>3, <1>4, <1>5, <1>6, <1>7 DEF Next, BackendStep

-----------------------------------------------------------------------------
(* Discoveries and the metadata they leave.                                *)
LEMMA MetadataStep ==
    /\ TypeOK /\ DiscoveryInv /\ FreshInv /\ MetadataInv /\ [Next]_vars
    => DiscoveryInv' /\ FreshInv' /\ MetadataInv'
<1> SUFFICES ASSUME TypeOK, DiscoveryInv, FreshInv, MetadataInv, [Next]_vars
             PROVE  DiscoveryInv' /\ FreshInv' /\ MetadataInv'
  OBVIOUS
<1> USE DEF DiscoveryInv, FreshInv, MetadataInv
<1>1. CASE Tick
  BY <1>1 DEF Tick, collectVars
<1>2. CASE HardwareChange
  BY <1>2 DEF HardwareChange, collectVars
<1>3. CASE Cancel
  BY <1>3 DEF Cancel, collectVars
<1>4. CASE BeginRefresh
  BY <1>4 DEF BeginRefresh
<1>5. CASE CollectMPT3
  BY <1>5 DEF CollectMPT3, Return
<1>6. CASE Discover
  BY <1>6 DEF Discover, Return, Metadata, envVars
<1>7. CASE Read
  BY <1>7 DEF Read, Return
<1>8. CASE ReadError
  <2>1. CASE fresh /\ Return("error")
    BY <1>8, <2>1 DEF ReadError, ReadSucceeds, Return
  <2>2. CASE ~fresh /\ pc' = "rediscover"
    BY <1>8, <2>2 DEF ReadError, TypeOK
  <2> QED
    BY <1>8, <2>1, <2>2 DEF ReadError, AfterReadError
<1>9. CASE Rediscover
  BY <1>9 DEF Rediscover, Return, Metadata, envVars
<1>10. CASE Reread
  BY <1>10 DEF Reread, ReadSucceeds, Return
<1>11. CASE Finish
  BY <1>11 DEF Finish, collectVars
<1>12. CASE UNCHANGED vars
  BY <1>12 DEF vars, envVars, collectVars
<1> QED
  BY <1>1, <1>2, <1>3, <1>4, <1>5, <1>6, <1>7, <1>8, <1>9, <1>10, <1>11, <1>12 DEF Next

-----------------------------------------------------------------------------
(* The inductive invariant holds in every behaviour of the collector.      *)
THEOREM HbaInductive == Spec => []IndInv
<1>1. Init => IndInv
  <2>1. Init => PubInv /\ TimerInv /\ DiscoveryInv /\ FreshInv /\ MetadataInv
    <3> SUFFICES ASSUME Init
                 PROVE  PubInv /\ TimerInv /\ DiscoveryInv /\ FreshInv /\ MetadataInv
      OBVIOUS
    <3>1. mode = "enabled" => pub.err
      BY DEF Init
    <3> QED
      BY <3>1 DEF Init, PubInv, TimerInv, DiscoveryInv, FreshInv, MetadataInv
  <2> QED
    BY <2>1, TypeInit DEF IndInv
<1>2. IndInv /\ [Next]_vars => IndInv'
  BY TypeStep, TimerStep, MetadataStep DEF IndInv
<1> QED
  BY <1>1, <1>2, PTL DEF Spec

(* Type correctness of the collector.                                      *)
THEOREM HbaTypeCorrect == Spec => []TypeOK
<1>1. IndInv => TypeOK
  BY DEF IndInv
<1> QED
  BY <1>1, HbaInductive, PTL

(* hbaCollector.snapshot never serves temperatures asked for longer ago    *)
(* than one interval and two budgets (hba.go, refresh and stale).          *)
THEOREM ServedAge == Spec => []ServedAgeBounded
<1>1. IndInv => ServedAgeBounded
  <2> SUFFICES ASSUME IndInv, Answer = "readings"
               PROVE  now < pub.began + Interval + 2 * Timeout
    BY DEF ServedAgeBounded
  <2>1. mode = "enabled" /\ ~pub.err /\ ~Stale
    BY DEF Answer, IndInv, TypeOK
  <2>2. now < pub.at + Interval + Timeout
    BY <2>1, IntervalNat, HbaAssumption DEF Stale, IndInv, TypeOK, PubInv
  <2> QED
    BY <2>1, <2>2, IntervalNat, HbaAssumption DEF IndInv, TypeOK, PubInv
<1> QED
  BY <1>1, HbaInductive, PTL

(* The expiry of hbaCollector.stale never hits a collector that keeps to   *)
(* its deadlines.                                                          *)
THEOREM HealthyServes == Spec => []HealthyNeverExpires
<1>1. IndInv => HealthyNeverExpires
  <2> SUFFICES ASSUME IndInv, ~canceled, pc = "idle" \/ now < Deadline, Answer = "expired"
               PROVE  FALSE
    BY DEF HealthyNeverExpires
  <2>1. mode = "enabled" /\ ~pub.err /\ Stale
    BY DEF Answer
  <2>2. pub.at \in Nat /\ now \in Nat /\ startAt \in Nat /\ timerAt \in Nat
    BY <2>1 DEF IndInv, PubInv, TypeOK
  <2> QED
    BY <2>1, <2>2, IntervalNat, HbaAssumption DEF IndInv, TimerInv, Stale, Deadline
<1> QED
  BY <1>1, HbaInductive, PTL

(* storCLIReader.collect heals stale metadata by itself.                   *)
THEOREM Rediscovery == Spec => []UndisturbedSucceeds
<1>1. IndInv => UndisturbedSucceeds
  BY DEF IndInv, MetadataInv, UndisturbedSucceeds
<1> QED
  BY <1>1, HbaInductive, PTL

(* storCLIReader.collect discovers at most once.                           *)
THEOREM DiscoversOnce == Spec => []OneDiscovery
<1>1. IndInv => OneDiscovery
  BY DEF IndInv, DiscoveryInv, OneDiscovery
<1> QED
  BY <1>1, HbaInductive, PTL

-----------------------------------------------------------------------------
(* HbaIdentity: the machine has each card once, and no two cards share a   *)
(* host or an IOC number, of which none is given twice.                    *)
MachineInv ==
    /\ \A p, q \in Occupied :
          slot[p] = slot[q] \/ host[p] = host[q] \/ ioc[p] = ioc[q] => p = q
    /\ \A p \in PCI : ioc[p] < nextIoc
    /\ nextIoc <= Cardinality(PCI) + changes

(* The variables of a collection that has not come to use them.            *)
ScanLocals == entries = {} /\ probing = {} /\ found = {}
PageLocals == byIoc = Nothing /\ todo = {} /\ readings = {}

StepInv ==
    /\ step \in {"idle", "list"} => controllers = Nothing
    /\ step \in {"idle", "list", "scan"} => ScanLocals
    /\ step \in {"idle", "list", "scan", "host"} => PageLocals
    /\ step = "read" /\ read = "cached" => controllers = Nothing /\ ScanLocals /\ PageLocals
    /\ step = "read" => PageLocals
    /\ step \in {"list", "read"} => reader = "storcli"
    /\ step \in {"ioc", "page"} => reader = "mpt3ctl"
    /\ step \in {"ioc", "page"} => entries = {} /\ probing = {}
    /\ step = "ioc" => readings = {}

(* A scan finds a host, a PCI address and an identity at most once.        *)
ScanInv ==
    /\ \A f, g \in found : f.host = g.host \/ f.pci = g.pci \/ f.id = g.id => f = g
    /\ \A f \in found : f.host \notin entries
    /\ \A h \in probing : /\ h.host \notin entries
                          /\ \A f \in found : f.host # h.host /\ f.pci # h.pci

(* StorCLI's addresses and the identities kept from them are distinct.     *)
IndexInv ==
    /\ \A i, j \in DOMAIN controllers : controllers[i] = controllers[j] => i = j
    /\ \A i, j \in DOMAIN cardMetadata : cardMetadata[i] = cardMetadata[j] => i = j

(* An IOC number that was read is older than any the kernel will give, and *)
(* its identity is that of a host that was visited.                        *)
IocInv ==
    /\ \A n \in DOMAIN byIoc : n < nextIoc
    /\ \A m, n \in DOMAIN byIoc : byIoc[m] = byIoc[n] => m = n
    /\ step = "ioc" =>
          /\ todo \subseteq {f.host : f \in found}
          /\ \A n \in DOMAIN byIoc : \E f \in found : f.host \notin todo /\ f.id = byIoc[n]

(* A reading has the identity of a number that was visited, and its card   *)
(* is not at a number that is still to be.                                 *)
ReadingsInv ==
    step = "page" =>
        /\ todo \subseteq DOMAIN byIoc
        /\ \A r \in readings :
              /\ \E n \in DOMAIN byIoc : n \notin todo /\ r.id = byIoc[n]
              /\ \A p \in Occupied : slot[p] = r.card => ioc[p] \notin todo
        /\ \A r, s \in readings : r.id = s.id \/ r.card = s.card => r = s

Distinct ==
    /\ \A r, s \in collected : r.id = s.id => r = s
    /\ \A r, s \in collected : r.card = s.card => r = s

(* What a collection knows while the hardware stands still is the truth,   *)
(* and what it does not know yet it has still to visit.                    *)
TrueID(p) == HbaStableID(SAS[slot[p]], p)

(* The metadata that StorCLI keeps, from one collection to the next.       *)
KeptInv ==
    /\ reader = "mpt3ctl" \/ step \in {"list", "scan", "host"} => cardMetadata = Nothing
    /\ step = "idle" => known = {} /\ read = "cached"
    /\ step = "read" /\ read = "cached" => known = DOMAIN cardMetadata
    /\ step \in {"list", "scan", "host", "ioc", "page"} => read # "cached"
    /\ quiet /\ step # "idle" /\ read # "cached" => sound
    /\ sound /\ cardMetadata # Nothing =>
          /\ DOMAIN cardMetadata = Indexes
          /\ \A i \in Indexes : cardMetadata[i] = TrueID(AtIndex(i))

ScanTrue ==
    sound /\ step \in {"scan", "host", "ioc"} =>
        /\ reader = "storcli" =>
              /\ DOMAIN controllers = Indexes
              /\ \A i \in Indexes : controllers[i] = AtIndex(i)
        /\ \A f \in found : /\ f.pci \in Supported /\ f.host = host[f.pci]
                            /\ f.driver = Driver[slot[f.pci]] /\ f.id = TrueID(f.pci)
        /\ \A h \in probing : /\ h.pci \in Supported /\ h.host = host[h.pci]
                              /\ h.driver = Driver[slot[h.pci]]
        /\ step # "scan" =>
              \A p \in Supported : \/ host[p] \in entries
                                   \/ \E h \in probing : h.pci = p
                                   \/ \E f \in found : f.pci = p

Mpt3Cards == {p \in Occupied : Driver[slot[p]] = "mpt3sas"}

IocTrue ==
    /\ sound /\ step \in {"ioc", "page"} =>
          \A n \in DOMAIN byIoc : \E p \in Mpt3Cards : ioc[p] = n /\ byIoc[n] = TrueID(p)
    /\ sound /\ step = "ioc" =>
          \A p \in Mpt3Cards : host[p] \in todo \/ ioc[p] \in DOMAIN byIoc
    /\ sound /\ step = "page" =>
          /\ \A p \in Mpt3Cards : ioc[p] \in DOMAIN byIoc
          /\ \A p \in Mpt3Cards : slot[p] \in Probed =>
                ioc[p] \in todo \/ [id |-> TrueID(p), card |-> slot[p]] \in readings
          /\ \A r \in readings : \E p \in Mpt3Cards :
                slot[p] \in Probed /\ r = [id |-> TrueID(p), card |-> slot[p]]

IdentityInv ==
    /\ IdentityTypeOK /\ MachineInv /\ StepInv /\ ScanInv /\ IndexInv
    /\ IocInv /\ ReadingsInv /\ Distinct /\ KeptInv /\ ScanTrue /\ IocTrue

-----------------------------------------------------------------------------
(* The numbers of the hosts and of the IOCs.                               *)
LEMMA Sizes ==
    /\ Cardinality(PCI) \in Nat /\ MaxChanges \in Nat
    /\ \A p \in PCI : p \in Nat
    /\ \A h : h \in Host <=> h \in Nat /\ h < Cardinality(PCI)
    /\ \A n : n \in Number <=> n \in Nat /\ n <= MaxChanges + Cardinality(PCI)
BY HardwareAssumption, FS_CardinalityType DEF Host, Number

(* How many addresses of a set are below p: what numbers the cards, both   *)
(* the hosts at boot and StorCLI's indexes.                                *)
Below(S, p) == Cardinality({q \in S : q < p})

(* There are as many numbers as slots, so a card's place is one of them.   *)
LEMMA BelowHost ==
    ASSUME NEW S \in SUBSET PCI, NEW p \in PCI
    PROVE  Below(S, p) \in Host
<1>1. IsFiniteSet(PCI \ {p}) /\ Cardinality(PCI \ {p}) = Cardinality(PCI) - 1
  BY HardwareAssumption, FS_RemoveElement
<1>2. {q \in S : q < p} \subseteq PCI \ {p}
  BY Sizes
<1>3. /\ Cardinality({q \in S : q < p}) <= Cardinality(PCI) - 1
      /\ IsFiniteSet({q \in S : q < p})
  BY <1>1, <1>2, FS_Subset
<1>4. Cardinality({q \in S : q < p}) \in Nat
  BY <1>3, FS_CardinalityType
<1> QED
  BY <1>3, <1>4, Sizes DEF Below

(* A card in a higher slot has a higher place.                             *)
LEMMA BelowGrows ==
    ASSUME NEW S \in SUBSET PCI, NEW p \in S, NEW q \in S, p < q
    PROVE  Below(S, p) < Below(S, q)
<1> DEFINE A == {r \in S : r < p}
           B == {r \in S : r < q}
<1>1. IsFiniteSet(S)
  BY HardwareAssumption, FS_Subset
<1>2. IsFiniteSet(A) /\ IsFiniteSet(B)
  BY <1>1, FS_Subset
<1>3. p \notin A /\ A \cup {p} \subseteq B
  BY Sizes
<1>4. Cardinality(A \cup {p}) = Cardinality(A) + 1
  BY <1>2, <1>3, FS_AddElement
<1>5. Cardinality(A \cup {p}) <= Cardinality(B)
  BY <1>2, <1>3, FS_Subset
<1>6. Cardinality(A) \in Nat /\ Cardinality(B) \in Nat
  BY <1>2, FS_CardinalityType
<1> QED
  BY <1>4, <1>5, <1>6 DEF Below

(* So two cards never have one place.                                      *)
LEMMA BelowInjective ==
    ASSUME NEW S \in SUBSET PCI, NEW p \in S, NEW q \in S, Below(S, p) = Below(S, q)
    PROVE  p = q
<1>1. p \in Nat /\ q \in Nat
  BY Sizes
<1>2. Below(S, p) \in Nat /\ Below(S, q) \in Nat
  BY BelowHost, Sizes
<1>3. ~(p < q) /\ ~(q < p)
  BY <1>2, BelowGrows
<1> QED
  BY <1>1, <1>3

(* StorCLI's indexes: one per supported card.                              *)
LEMMA IndexFacts ==
    /\ Occupied \subseteq PCI /\ Supported \subseteq Occupied
    /\ \A i \in Indexes : i \in Host /\ AtIndex(i) \in Supported /\ Index(AtIndex(i)) = i
    /\ \A p \in Supported : Index(p) \in Indexes /\ AtIndex(Index(p)) = p
<1>1. Occupied \subseteq PCI /\ Supported \subseteq Occupied
  BY DEF Occupied, Supported
<1>2. \A p : Index(p) = Below(Supported, p)
  BY DEF Index, Below
<1>3. \A i \in Indexes : \E p \in Supported : Index(p) = i
  BY DEF Indexes
<1>4. \A i \in Indexes : AtIndex(i) \in Supported /\ Index(AtIndex(i)) = i
  <2> SUFFICES ASSUME NEW i \in Indexes
               PROVE  AtIndex(i) \in Supported /\ Index(AtIndex(i)) = i
    OBVIOUS
  <2> QED
    BY <1>3 DEF AtIndex
<1>5. \A p \in Supported : Index(p) \in Indexes
  BY DEF Indexes
<1>6. ASSUME NEW p \in Supported PROVE AtIndex(Index(p)) = p
  <2>1. AtIndex(Index(p)) \in Supported /\ Index(AtIndex(Index(p))) = Index(p)
    BY <1>4, <1>5
  <2>2. Supported \in SUBSET PCI
    BY <1>1
  <2> QED
    BY <1>2, <2>1, <2>2, BelowInjective
<1>7. \A i \in Indexes : i \in Host
  BY <1>1, <1>2, <1>3, BelowHost
<1> QED
  BY <1>1, <1>4, <1>5, <1>6, <1>7

(* What is said of the machine does not change while it stands still.      *)
SupportedOf(s) == {p \in {q \in PCI : s[q] # NoCard} : Driver[s[p]] # "other"}
AtIndexOf(s, i) ==
    CHOOSE p \in SupportedOf(s) : Cardinality({q \in SupportedOf(s) : q < p}) = i

LEMMA Still ==
    ASSUME UNCHANGED machine
    PROVE  /\ slot' = slot /\ host' = host /\ ioc' = ioc /\ nextIoc' = nextIoc
           /\ Occupied' = Occupied /\ Supported' = Supported /\ Mpt3Cards' = Mpt3Cards
           /\ Indexes' = Indexes /\ \A i : AtIndex(i)' = AtIndex(i)
           /\ \A p : TrueID(p)' = TrueID(p)
<1>1. slot' = slot /\ host' = host /\ ioc' = ioc /\ nextIoc' = nextIoc
  BY DEF machine
<1>2. Occupied' = Occupied
  BY <1>1 DEF Occupied
<1>3. Supported' = Supported /\ Mpt3Cards' = Mpt3Cards
  BY <1>1, <1>2 DEF Supported, Mpt3Cards
<1>4. \A p : Index(p)' = Index(p)
  BY <1>3 DEF Index
<1>5. Indexes' = Indexes
  BY <1>3, <1>4 DEF Indexes
<1>6. \A i : AtIndex(i) = AtIndexOf(slot, i) /\ AtIndex(i)' = AtIndexOf(slot', i)
  BY DEF AtIndex, AtIndexOf, Index, Supported, Occupied, SupportedOf
<1>7. \A i : AtIndex(i)' = AtIndex(i)
  BY <1>1, <1>6
<1>8. \A p : TrueID(p)' = TrueID(p)
  BY <1>1 DEF TrueID
<1> QED
  BY <1>1, <1>2, <1>3, <1>5, <1>7, <1>8

(* The identity that a card at an address has, or seems to have.           *)
LEMMA InIdentity ==
    ASSUME NEW sas, NEW p \in PCI, sas = NoSAS \/ \E c \in Card : sas = SAS[c]
    PROVE  HbaStableID(sas, p) \in Identity
BY DEF Identity

(* Before the first discovery no index is known.                           *)
LEMMA NothingEmpty == DOMAIN Nothing = {}
BY DEF Nothing

(* The cards that are plugged in, and what sysfs says of them.             *)
LEMMA Plugged ==
    ASSUME IdentityTypeOK
    PROVE  /\ \A p \in Occupied : slot[p] \in Card /\ Driver[slot[p]] \in Drivers
           /\ \A p \in Occupied : TrueID(p) \in Identity
<1>1. \A p \in Occupied : p \in PCI /\ slot[p] \in Card
  BY DEF Occupied, IdentityTypeOK
<1>2. \A p \in Occupied : Driver[slot[p]] \in Drivers
  BY <1>1, HardwareAssumption
<1>3. \A p \in Occupied : TrueID(p) \in Identity
  BY <1>1, InIdentity DEF TrueID
<1> QED
  BY <1>1, <1>2, <1>3

(* The kernel's first numbers are distinct, and nothing is collected yet.  *)
LEMMA IdentityInitInv == IdentityInit => IdentityInv
<1> SUFFICES ASSUME IdentityInit PROVE IdentityInv
  OBVIOUS
<1>1. Occupied \in SUBSET PCI
  BY DEF Occupied
<1>2. \A p \in PCI : host[p] = Below(Occupied, p)
  BY DEF IdentityInit, Below
<1>3. \A p \in PCI : host[p] \in Host
  BY <1>1, <1>2, BelowHost
<1>4. host \in [PCI -> Host]
  BY <1>3 DEF IdentityInit
<1>5. ioc \in [PCI -> Number] /\ nextIoc \in Number
  <2>1. ioc = host /\ nextIoc = Cardinality(PCI)
    BY DEF IdentityInit
  <2>2. \A h \in Host : h \in Number
    BY Sizes
  <2> QED
    BY <1>4, <2>1, <2>2, Sizes
<1>6. MachineInv
  <2>1. \A p, q \in Occupied : host[p] = host[q] => p = q
    BY <1>1, <1>2, BelowInjective
  <2>2. \A p \in PCI : ioc[p] < nextIoc
    BY <1>3, Sizes DEF IdentityInit
  <2>3. nextIoc <= Cardinality(PCI) + changes
    BY Sizes DEF IdentityInit
  <2>4. \A p, q \in Occupied : slot[p] = slot[q] => p = q
    BY DEF IdentityInit, Occupied
  <2> QED
    BY <2>1, <2>2, <2>3, <2>4 DEF MachineInv, IdentityInit
<1>7. IdentityTypeOK
  BY <1>4, <1>5, NothingEmpty, HardwareAssumption DEF IdentityTypeOK, IdentityInit, NoLocals
<1>8. StepInv /\ ScanInv /\ IndexInv /\ IocInv /\ ReadingsInv /\ Distinct
  BY NothingEmpty DEF IdentityInit, NoLocals, StepInv, ScanLocals, PageLocals, ScanInv, IndexInv,
     IocInv, ReadingsInv, Distinct
<1>9. KeptInv /\ ScanTrue /\ IocTrue
  BY DEF IdentityInit, KeptInv, ScanTrue, IocTrue
<1> QED
  BY <1>6, <1>7, <1>8, <1>9 DEF IdentityInv

(* A collection that returns, with readings or an error, keeps nothing of  *)
(* its own.                                                                *)
LEMMA Leaves ==
    ASSUME IdentityInv, Leave, sound' = sound, faults' \in 0..MaxFaults,
           cardMetadata' = cardMetadata \/ cardMetadata' = Nothing,
           collected' \subseteq Reading, Distinct'
    PROVE  IdentityInv'
<1>1. UNCHANGED machine /\ reader' = reader /\ quiet' = quiet /\ changes' = changes
  BY DEF Leave
<1>2. /\ step' = "idle" /\ controllers' = Nothing /\ entries' = {} /\ probing' = {}
      /\ found' = {} /\ byIoc' = Nothing /\ todo' = {} /\ readings' = {} /\ known' = {}
      /\ read' = "cached"
  BY DEF Leave
<1>3. IdentityTypeOK'
  <2>1. /\ DOMAIN cardMetadata' \subseteq Host
        /\ \A i \in DOMAIN cardMetadata' : cardMetadata'[i] \in Identity
    BY NothingEmpty DEF IdentityInv, IdentityTypeOK
  <2> QED
    BY <1>1, <1>2, <2>1, NothingEmpty, Still DEF IdentityInv, IdentityTypeOK
<1>4. MachineInv'
  BY <1>1, Still DEF IdentityInv, MachineInv
<1>5. StepInv' /\ ScanInv' /\ IocInv' /\ ReadingsInv' /\ ScanTrue' /\ IocTrue'
  BY <1>2, NothingEmpty DEF StepInv, ScanLocals, PageLocals, ScanInv, IocInv, ReadingsInv,
     ScanTrue, IocTrue
<1>6. IndexInv'
  BY <1>2, NothingEmpty DEF IdentityInv, IndexInv
<1>7. KeptInv'
  BY <1>1, <1>2, Still DEF IdentityInv, KeptInv
<1> QED
  BY <1>3, <1>4, <1>5, <1>6, <1>7 DEF IdentityInv

(* A collection that ends with an error leaves the last readings alone.    *)
LEMMA Errs ==
    ASSUME IdentityInv, ReturnError, UNCHANGED faults \/ \E gone : Broken(gone)
    PROVE  IdentityInv'
<1>1. faults' \in 0..MaxFaults
  BY HardwareAssumption DEF Broken, IdentityInv, IdentityTypeOK
<1>2. collected' = collected /\ cardMetadata' = cardMetadata /\ sound' = sound /\ Leave
  BY DEF ReturnError
<1>3. collected' \subseteq Reading /\ Distinct'
  BY <1>2 DEF IdentityInv, IdentityTypeOK, Distinct
<1> QED
  BY <1>1, <1>2, <1>3, Leaves

(* A collection that goes on changes neither the machine nor what is kept. *)
LEMMA GoesOn ==
    ASSUME IdentityInv, UNCHANGED kept, step \in {"list", "scan", "host", "ioc", "page"},
           step' \in {"scan", "host", "ioc", "page"}
    PROVE  /\ UNCHANGED machine /\ reader' = reader /\ sound' = sound
           /\ MachineInv' /\ Distinct' /\ KeptInv'
           /\ cardMetadata' = cardMetadata
<1>1. /\ UNCHANGED machine /\ reader' = reader /\ cardMetadata' = cardMetadata /\ read' = read
      /\ known' = known /\ collected' = collected /\ quiet' = quiet /\ sound' = sound
      /\ changes' = changes
  BY DEF kept
<1>2. MachineInv' /\ Distinct'
  BY <1>1, Still DEF IdentityInv, MachineInv, Distinct
<1>3. cardMetadata = Nothing
  BY DEF IdentityInv, KeptInv, StepInv
<1>4. KeptInv'
  BY <1>1, <1>3 DEF IdentityInv, KeptInv
<1> QED
  BY <1>1, <1>2, <1>4

(* hbaCollector.refresh calls collect.                                     *)
LEMMA BeginStep == IdentityInv /\ Begin => IdentityInv'
<1> SUFFICES ASSUME IdentityInv, Begin PROVE IdentityInv'
  OBVIOUS
<1>1. /\ UNCHANGED machine /\ reader' = reader /\ UNCHANGED local
      /\ cardMetadata' = cardMetadata /\ collected' = collected /\ changes' = changes
      /\ faults' = faults /\ step = "idle" /\ quiet' = TRUE /\ known' = DOMAIN cardMetadata
  BY DEF Begin
<1>2. /\ controllers' = controllers /\ entries' = entries /\ probing' = probing
      /\ found' = found /\ byIoc' = byIoc /\ todo' = todo /\ readings' = readings
  BY <1>1 DEF local
<1>3. \/ /\ reader = "mpt3ctl" /\ step' = "scan" /\ read' = "first"
         /\ sound' = TRUE /\ cardMetadata = Nothing
      \/ /\ reader = "storcli" /\ step' = "list" /\ read' = "first"
         /\ sound' = TRUE /\ cardMetadata = Nothing
      \/ reader = "storcli" /\ step' = "read" /\ read' = "cached" /\ sound' = sound
  BY DEF Begin, IdentityInv, KeptInv, IdentityTypeOK
<1>4. controllers = Nothing /\ ScanLocals /\ PageLocals
  BY <1>1 DEF IdentityInv, StepInv
<1>5. IdentityTypeOK'
  BY <1>1, <1>2, <1>3, Still DEF IdentityInv, IdentityTypeOK
<1>6. MachineInv' /\ Distinct'
  BY <1>1, Still DEF IdentityInv, MachineInv, Distinct
<1>7. StepInv'
  BY <1>1, <1>2, <1>3, <1>4 DEF StepInv, ScanLocals, PageLocals
<1>8. ScanInv' /\ IndexInv' /\ IocInv' /\ ReadingsInv'
  BY <1>1, <1>2, <1>3, <1>4, Still DEF IdentityInv, ScanInv, IndexInv, IocInv, ReadingsInv
<1>9. KeptInv'
  BY <1>1, <1>3, Still DEF IdentityInv, KeptInv
<1>10. ScanTrue' /\ IocTrue'
  BY <1>1, <1>2, <1>3, <1>4 DEF ScanTrue, IocTrue, ScanLocals
<1> QED
  BY <1>5, <1>6, <1>7, <1>8, <1>9, <1>10 DEF IdentityInv

(* StorCLI's answer has each address at one index.                         *)
LEMMA ListStep == IdentityInv /\ ListControllers => IdentityInv'
<1> SUFFICES ASSUME IdentityInv, ListControllers PROVE IdentityInv'
  OBVIOUS
<1>1. CASE ReturnError /\ Broken(Indexes = {})
  BY <1>1, Errs
<1>2. CASE /\ controllers' = [i \in Indexes |-> AtIndex(i)] /\ step' = "scan"
           /\ UNCHANGED <<kept, entries, probing, found, byIoc, todo, readings>>
  <2>1. step = "list"
    BY DEF ListControllers
  <2>2. /\ UNCHANGED machine /\ reader' = reader /\ sound' = sound
        /\ MachineInv' /\ Distinct' /\ KeptInv' /\ cardMetadata' = cardMetadata
    BY <1>2, <2>1, GoesOn
  <2>3. DOMAIN controllers' = Indexes /\ \A i \in Indexes : controllers'[i] = AtIndex(i)
    BY <1>2
  <2>4. reader = "storcli" /\ ScanLocals /\ PageLocals
    BY <2>1 DEF IdentityInv, StepInv
  <2>5. IdentityTypeOK'
    <3>1. /\ DOMAIN controllers' \subseteq Host
          /\ \A i \in DOMAIN controllers' : controllers'[i] \in PCI
      BY <2>3, IndexFacts
    <3> QED
      BY <1>2, <2>2, <3>1, Still DEF IdentityInv, IdentityTypeOK, kept
  <2>6. StepInv'
    BY <1>2, <2>2, <2>4 DEF StepInv, ScanLocals, PageLocals
  <2>7. ScanInv' /\ IocInv' /\ ReadingsInv'
    BY <1>2, <2>2, <2>4, Still, NothingEmpty
    DEF ScanInv, IocInv, ReadingsInv, ScanLocals, PageLocals
  <2>8. IndexInv'
    BY <2>2, <2>3, IndexFacts DEF IdentityInv, IndexInv
  <2>9. ScanTrue'
    BY <1>2, <2>2, <2>3, <2>4, Still DEF ScanTrue, ScanLocals
  <2>10. IocTrue'
    BY <1>2 DEF IocTrue
  <2> QED
    BY <2>2, <2>5, <2>6, <2>7, <2>8, <2>9, <2>10 DEF IdentityInv
<1> QED
  BY <1>1, <1>2 DEF ListControllers

(* The hosts that are listed are those of the cards plugged in.            *)
LEMMA ScanHostsStep == IdentityInv /\ ScanHosts => IdentityInv'
<1> SUFFICES ASSUME IdentityInv, ScanHosts PROVE IdentityInv'
  OBVIOUS
<1>1. CASE ReturnError /\ Broken(FALSE)
  BY <1>1, Errs
<1>2. CASE /\ step' = "host" /\ entries' = {host[p] : p \in Occupied}
           /\ UNCHANGED <<kept, controllers, probing, found, byIoc, todo, readings>>
  <2>1. step = "scan"
    BY DEF ScanHosts
  <2>2. /\ UNCHANGED machine /\ reader' = reader /\ sound' = sound
        /\ MachineInv' /\ Distinct' /\ KeptInv' /\ cardMetadata' = cardMetadata
    BY <1>2, <2>1, GoesOn
  <2>3. ScanLocals /\ PageLocals
    BY <2>1 DEF IdentityInv, StepInv
  <2>4. IdentityTypeOK'
    <3>1. entries' \subseteq Host
      BY <1>2, IndexFacts DEF IdentityInv, IdentityTypeOK
    <3> QED
      BY <1>2, <2>2, <3>1, Still DEF IdentityInv, IdentityTypeOK, kept
  <2>5. StepInv'
    BY <1>2, <2>2, <2>3 DEF StepInv, PageLocals
  <2>6. ScanInv' /\ IocInv' /\ ReadingsInv'
    BY <1>2, <2>2, <2>3, Still, NothingEmpty
    DEF ScanInv, IocInv, ReadingsInv, ScanLocals, PageLocals
  <2>7. IndexInv'
    BY <1>2, <2>2 DEF IdentityInv, IndexInv
  <2>8. ScanTrue'
    <3>1. \A p \in Supported : host[p] \in entries'
      BY <1>2, IndexFacts
    <3> QED
      BY <1>2, <2>1, <2>2, <2>3, <3>1, Still DEF IdentityInv, ScanTrue, ScanLocals
  <2>9. IocTrue'
    BY <1>2 DEF IocTrue
  <2> QED
    BY <2>2, <2>4, <2>5, <2>6, <2>7, <2>8, <2>9 DEF IdentityInv
<1> QED
  BY <1>1, <1>2 DEF ScanHosts

(* A host is resolved to the one card that has its number.                 *)
LEMMA ScanHostStep == \A h \in Host : IdentityInv /\ ScanHost(h) => IdentityInv'
<1> SUFFICES ASSUME NEW h \in Host, IdentityInv, ScanHost(h) PROVE IdentityInv'
  OBVIOUS
<1> DEFINE at == {p \in Occupied : host[p] = h}
           refused == at = {} \/ \E f \in found : f.pci \in at \cap Supported
           New(p) == [host |-> h, pci |-> p, driver |-> Driver[slot[p]]]
<1>1. CASE ReturnError /\ Broken(refused)
  BY <1>1, Errs
<1>2. CASE /\ ~refused /\ entries' = entries \ {h} /\ step' = step
           /\ probing' = {New(p) : p \in at \cap Supported}
           /\ UNCHANGED <<kept, controllers, found, byIoc, todo, readings>>
  <2>1. step = "host" /\ probing = {} /\ h \in entries
    BY DEF ScanHost
  <2>2. /\ UNCHANGED machine /\ reader' = reader /\ sound' = sound
        /\ MachineInv' /\ Distinct' /\ KeptInv' /\ cardMetadata' = cardMetadata
    BY <1>2, <2>1, GoesOn
  <2>3. PageLocals
    BY <2>1 DEF IdentityInv, StepInv
  <2>4. \A g \in probing' : \E p \in Supported : host[p] = h /\ g = New(p)
    BY <1>2
  <2>5. \A p \in Supported : host[p] = h => New(p) \in probing'
    BY <1>2, IndexFacts
  <2>6. \A p, q \in Supported : host[p] = h /\ host[q] = h => p = q
    BY IndexFacts DEF IdentityInv, MachineInv
  <2>7. \A g, k \in probing' : g = k
    BY <2>4, <2>6
  <2>8. \A p \in Supported : New(p) \in [host : Host, pci : PCI, driver : Drivers]
    BY IndexFacts, Plugged DEF IdentityInv
  <2>9. \A p : New(p).host = h /\ New(p).pci = p /\ New(p).driver = Driver[slot[p]]
    OBVIOUS
  <2> HIDE DEF New
  <2>10. IdentityTypeOK'
    <3>1. probing' \subseteq [host : Host, pci : PCI, driver : Drivers]
      BY <2>4, <2>8
    <3>2. entries' \subseteq Host
      BY <1>2 DEF IdentityInv, IdentityTypeOK
    <3> QED
      BY <1>2, <2>2, <2>7, <3>1, <3>2, Still DEF IdentityInv, IdentityTypeOK, kept
  <2>11. StepInv'
    BY <1>2, <2>1, <2>2, <2>3 DEF StepInv, PageLocals
  <2>12. ScanInv'
    <3>1. \A g \in probing' : g.host = h /\ \A f \in found : f.pci # g.pci
      BY <1>2, <2>4, <2>9, IndexFacts
    <3>2. \A f \in found : f.host \notin entries' /\ f.host # h
      BY <1>2, <2>1 DEF IdentityInv, ScanInv
    <3> QED
      BY <1>2, <3>1, <3>2 DEF IdentityInv, ScanInv
  <2>13. IocInv' /\ ReadingsInv'
    BY <1>2, <2>1, <2>2, <2>3, Still, NothingEmpty DEF IocInv, ReadingsInv, PageLocals
  <2>14. IndexInv'
    BY <1>2, <2>2 DEF IdentityInv, IndexInv
  <2>15. ScanTrue'
    <3> SUFFICES ASSUME sound PROVE ScanTrue'
      BY <2>2 DEF ScanTrue
    <3>1. \A g \in probing' : /\ g.pci \in Supported /\ g.host = host[g.pci]
                              /\ g.driver = Driver[slot[g.pci]]
      BY <2>4, <2>9
    <3>2. \A p \in Supported : \/ host[p] \in entries'
                               \/ \E g \in probing' : g.pci = p
                               \/ \E f \in found : f.pci = p
      <4> SUFFICES ASSUME NEW p \in Supported, host[p] \notin entries'
                   PROVE  \/ \E g \in probing' : g.pci = p
                          \/ \E f \in found : f.pci = p
        OBVIOUS
      <4>1. CASE host[p] = h
        BY <2>5, <2>9, <4>1
      <4>2. CASE host[p] # h
        BY <1>2, <2>1, <4>2 DEF IdentityInv, ScanTrue
      <4> QED
        BY <4>1, <4>2
    <3>3. /\ reader = "storcli" => /\ DOMAIN controllers = Indexes
                                   /\ \A i \in Indexes : controllers[i] = AtIndex(i)
          /\ \A f \in found : /\ f.pci \in Supported /\ f.host = host[f.pci]
                              /\ f.driver = Driver[slot[f.pci]] /\ f.id = TrueID(f.pci)
      BY <2>1 DEF IdentityInv, ScanTrue
    <3> QED
      BY <1>2, <2>2, <3>1, <3>2, <3>3, Still DEF ScanTrue
  <2>16. IocTrue'
    BY <1>2, <2>1 DEF IocTrue
  <2> QED
    BY <2>2, <2>10, <2>11, <2>12, <2>13, <2>14, <2>15, <2>16 DEF IdentityInv
<1> QED
  BY <1>1, <1>2 DEF ScanHost

(* The SAS address that is read is the card's, or another's that has its   *)
(* host number now, or none.                                               *)
LEMMA SasRead ==
    ASSUME IdentityTypeOK, NEW h
    PROVE  SasAt(h) = NoSAS \/ \E c \in Card : SasAt(h) = SAS[c]
<1> DEFINE at == {p \in Occupied : host[p] = h}
<1>1. CASE at = {}
  BY <1>1 DEF SasAt
<1>2. CASE at # {}
  <2>1. (CHOOSE p \in at : TRUE) \in at
    BY <1>2
  <2>2. SasAt(h) = SAS[slot[CHOOSE p \in at : TRUE]]
    BY <1>2 DEF SasAt
  <2> QED
    BY <2>1, <2>2, Plugged
<1> QED
  BY <1>1, <1>2

(* sysfs gives the address of the card at a host as long as it is plugged  *)
(* in.                                                                     *)
LEMMA SasOfCard ==
    ASSUME MachineInv, NEW p \in Occupied
    PROVE  SasAt(host[p]) = SAS[slot[p]]
<1> DEFINE at == {q \in Occupied : host[q] = host[p]}
<1>1. p \in at /\ \A q \in at : q = p
  BY DEF MachineInv
<1>2. (CHOOSE q \in at : TRUE) = p
  BY <1>1
<1>3. SasAt(host[p]) = SAS[slot[CHOOSE q \in at : TRUE]]
  BY <1>1 DEF SasAt
<1> QED
  BY <1>2, <1>3

(* A scan adds a card under an identity that it has not found yet.         *)
LEMMA ReadIdentityStep == IdentityInv /\ ReadIdentity => IdentityInv'
<1> SUFFICES ASSUME IdentityInv, ReadIdentity PROVE IdentityInv'
  OBVIOUS
<1>1. PICK h \in probing :
         LET id   == HbaStableID(SasAt(h.host), h.pci)
             gone == \A p \in Occupied : host[p] # h.host
         IN  \/ /\ ~Duplicate(id) /\ probing' = {} /\ step' = step
                /\ found' = found \cup
                      {[host |-> h.host, pci |-> h.pci, driver |-> h.driver, id |-> id]}
                /\ UNCHANGED <<kept, controllers, entries, byIoc, todo, readings>>
             \/ Broken(gone \/ Duplicate(id)) /\ ReturnError
  BY DEF ReadIdentity
<1> DEFINE id == HbaStableID(SasAt(h.host), h.pci)
           gone == \A p \in Occupied : host[p] # h.host
           new == [host |-> h.host, pci |-> h.pci, driver |-> h.driver, id |-> id]
<1>2. CASE Broken(gone \/ Duplicate(id)) /\ ReturnError
  BY <1>2, Errs
<1>3. CASE /\ ~Duplicate(id) /\ probing' = {} /\ step' = step /\ found' = found \cup {new}
           /\ UNCHANGED <<kept, controllers, entries, byIoc, todo, readings>>
  <2>1. step = "host"
    BY DEF ReadIdentity
  <2>2. /\ UNCHANGED machine /\ reader' = reader /\ sound' = sound
        /\ MachineInv' /\ Distinct' /\ KeptInv' /\ cardMetadata' = cardMetadata
    BY <1>3, <2>1, GoesOn
  <2>3. PageLocals
    BY <2>1 DEF IdentityInv, StepInv
  <2>4. h.host \in Host /\ h.pci \in PCI /\ h.driver \in Drivers
    BY DEF IdentityInv, IdentityTypeOK
  <2>5. id \in Identity
    BY <2>4, SasRead, InIdentity DEF IdentityInv
  <2>6. new.host = h.host /\ new.pci = h.pci /\ new.driver = h.driver /\ new.id = id
    OBVIOUS
  <2>7. new \in [host : Host, pci : PCI, driver : Drivers, id : Identity]
    BY <2>4, <2>5
  <2> HIDE DEF id, new
  <2>8. IdentityTypeOK'
    <3>1. found' \subseteq [host : Host, pci : PCI, driver : Drivers, id : Identity]
      BY <1>3, <2>7 DEF IdentityInv, IdentityTypeOK
    <3> QED
      BY <1>3, <2>2, <3>1, Still DEF IdentityInv, IdentityTypeOK, kept
  <2>9. StepInv'
    BY <1>3, <2>1, <2>2, <2>3 DEF StepInv, PageLocals
  <2>10. ScanInv'
    <3>1. \A f \in found : f.host # new.host /\ f.pci # new.pci /\ f.id # new.id
      BY <1>3, <2>6 DEF IdentityInv, ScanInv, Duplicate
    <3>2. new.host \notin entries'
      BY <1>3, <2>6 DEF IdentityInv, ScanInv
    <3>3. \A f, g \in found : f.host = g.host \/ f.pci = g.pci \/ f.id = g.id => f = g
      BY DEF IdentityInv, ScanInv
    <3>4. \A f \in found : f.host \notin entries'
      BY <1>3 DEF IdentityInv, ScanInv
    <3> QED
      BY <1>3, <3>1, <3>2, <3>3, <3>4 DEF ScanInv
  <2>11. IocInv' /\ ReadingsInv'
    BY <1>3, <2>1, <2>2, <2>3, Still, NothingEmpty DEF IocInv, ReadingsInv, PageLocals
  <2>12. IndexInv'
    BY <1>3, <2>2 DEF IdentityInv, IndexInv
  <2>13. ScanTrue'
    <3> SUFFICES ASSUME sound PROVE ScanTrue'
      BY <2>2 DEF ScanTrue
    <3>1. h.pci \in Supported /\ h.host = host[h.pci] /\ h.driver = Driver[slot[h.pci]]
      BY <2>1 DEF IdentityInv, ScanTrue
    <3>2. id = TrueID(h.pci)
      <4>1. SasAt(h.host) = SAS[slot[h.pci]]
        BY <3>1, SasOfCard, IndexFacts DEF IdentityInv
      <4> QED
        BY <4>1 DEF id, TrueID
    <3>3. \A f \in found' : /\ f.pci \in Supported /\ f.host = host[f.pci]
                            /\ f.driver = Driver[slot[f.pci]] /\ f.id = TrueID(f.pci)
      BY <1>3, <2>1, <2>6, <3>1, <3>2 DEF IdentityInv, ScanTrue
    <3>4. \A p \in Supported : host[p] \in entries' \/ \E f \in found' : f.pci = p
      <4> SUFFICES ASSUME NEW p \in Supported, host[p] \notin entries'
                   PROVE  \E f \in found' : f.pci = p
        OBVIOUS
      <4>1. (\E g \in probing : g.pci = p) \/ (\E f \in found : f.pci = p)
        BY <1>3, <2>1 DEF IdentityInv, ScanTrue
      <4>2. \A g \in probing : g = h
        BY DEF IdentityInv, IdentityTypeOK
      <4>3. CASE h.pci = p
        BY <1>3, <2>6, <4>3
      <4> QED
        BY <1>3, <4>1, <4>2, <4>3
    <3>5. reader = "storcli" => /\ DOMAIN controllers = Indexes
                                /\ \A i \in Indexes : controllers[i] = AtIndex(i)
      BY <2>1 DEF IdentityInv, ScanTrue
    <3> QED
      BY <1>3, <2>1, <2>2, <3>3, <3>4, <3>5, Still DEF ScanTrue
  <2>14. IocTrue'
    BY <1>3, <2>1 DEF IocTrue
  <2> QED
    BY <2>2, <2>8, <2>9, <2>10, <2>11, <2>12, <2>13, <2>14 DEF IdentityInv
<1> QED
  BY <1>1, <1>2, <1>3

(* Indexes and identities meet at distinct addresses.                      *)
LEMMA MatchStep == IdentityInv /\ MatchControllers => IdentityInv'
<1> SUFFICES ASSUME IdentityInv, MatchControllers PROVE IdentityInv'
  OBVIOUS
<1>1. CASE ReturnError /\ UNCHANGED faults
  BY <1>1, Errs
<1>2. CASE /\ \A i \in DOMAIN controllers : \E f \in found : f.pci = controllers[i]
           /\ cardMetadata' = Match /\ step' = "read"
           /\ UNCHANGED <<machine, reader, local, read, known, collected, quiet, sound,
                          changes, faults>>
  <2>1. step = "host" /\ reader = "storcli" /\ entries = {} /\ probing = {}
    BY DEF MatchControllers
  <2>2. /\ UNCHANGED machine /\ reader' = reader /\ read' = read /\ known' = known
        /\ collected' = collected /\ quiet' = quiet /\ sound' = sound
        /\ changes' = changes /\ faults' = faults
        /\ controllers' = controllers /\ entries' = entries /\ probing' = probing
        /\ found' = found /\ byIoc' = byIoc /\ todo' = todo /\ readings' = readings
    BY <1>2 DEF local
  <2> DEFINE At(i) == CHOOSE f \in found : f.pci = controllers[i]
  <2>3. \A i \in DOMAIN controllers : At(i) \in found /\ At(i).pci = controllers[i]
    BY <1>2
  <2>4. /\ DOMAIN cardMetadata' = DOMAIN controllers
        /\ \A i \in DOMAIN controllers : cardMetadata'[i] = At(i).id
    BY <1>2 DEF Match
  <2> HIDE DEF At
  <2>5. PageLocals /\ read # "cached"
    BY <2>1 DEF IdentityInv, StepInv, KeptInv
  <2>6. IdentityTypeOK'
    <3>1. /\ DOMAIN cardMetadata' \subseteq Host
          /\ \A i \in DOMAIN cardMetadata' : cardMetadata'[i] \in Identity
      BY <2>3, <2>4 DEF IdentityInv, IdentityTypeOK
    <3> QED
      BY <1>2, <2>2, <3>1, Still DEF IdentityInv, IdentityTypeOK
  <2>7. MachineInv' /\ Distinct'
    BY <2>2, Still DEF IdentityInv, MachineInv, Distinct
  <2>8. StepInv'
    BY <1>2, <2>1, <2>2, <2>5 DEF StepInv, PageLocals
  <2>9. ScanInv'
    BY <2>2 DEF IdentityInv, ScanInv
  <2>10. IocInv' /\ ReadingsInv'
    BY <1>2, <2>2, <2>5, Still, NothingEmpty DEF IocInv, ReadingsInv, PageLocals
  <2>11. IndexInv'
    <3>1. ASSUME NEW i \in DOMAIN controllers, NEW j \in DOMAIN controllers,
                 cardMetadata'[i] = cardMetadata'[j]
          PROVE  i = j
      <4>1. At(i) = At(j)
        BY <2>3, <2>4, <3>1 DEF IdentityInv, ScanInv
      <4> QED
        BY <2>3, <4>1 DEF IdentityInv, IndexInv
    <3> QED
      BY <2>2, <2>4, <3>1 DEF IdentityInv, IndexInv
  <2>12. KeptInv'
    <3>1. ASSUME sound
          PROVE  /\ DOMAIN cardMetadata' = Indexes
                 /\ \A i \in Indexes : cardMetadata'[i] = TrueID(AtIndex(i))
      <4>1. DOMAIN controllers = Indexes /\ \A i \in Indexes : controllers[i] = AtIndex(i)
        BY <2>1, <3>1 DEF IdentityInv, ScanTrue
      <4>2. \A f \in found : f.id = TrueID(f.pci)
        BY <2>1, <3>1 DEF IdentityInv, ScanTrue
      <4> QED
        BY <2>3, <2>4, <4>1, <4>2
    <3>2. reader # "mpt3ctl" /\ quiet => sound
      BY <2>1, <2>5 DEF IdentityInv, KeptInv
    <3> QED
      BY <1>2, <2>1, <2>2, <2>5, <3>1, <3>2, Still DEF KeptInv
  <2>13. ScanTrue' /\ IocTrue'
    BY <1>2 DEF ScanTrue, IocTrue
  <2> QED
    BY <2>6, <2>7, <2>8, <2>9, <2>10, <2>11, <2>12, <2>13 DEF IdentityInv
<1> QED
  BY <1>1, <1>2 DEF MatchControllers

(* Distinct indexes have distinct identities and are distinct cards.       *)
LEMMA ReadTemperaturesStep == IdentityInv /\ ReadTemperatures => IdentityInv'
<1> SUFFICES ASSUME IdentityInv, ReadTemperatures PROVE IdentityInv'
  OBVIOUS
<1> DEFINE ReadingAt(i) == [id |-> cardMetadata[i], card |-> slot[AtIndex(i)]]
           Answered == {j \in DOMAIN cardMetadata : slot[AtIndex(j)] \in Probed}
<1>1. DOMAIN cardMetadata = Indexes
  BY DEF ReadTemperatures, SameControllerSet
<1>2. /\ Leave /\ collected' = {ReadingAt(i) : i \in Answered}
      /\ cardMetadata' = cardMetadata /\ sound' = sound /\ faults' = faults
  BY DEF ReadTemperatures, ReturnReadings
<1>3. \A i : ReadingAt(i).id = cardMetadata[i] /\ ReadingAt(i).card = slot[AtIndex(i)]
  OBVIOUS
<1>4. \A i \in Indexes : AtIndex(i) \in Occupied
  BY IndexFacts
<1>5. \A i \in Indexes : ReadingAt(i) \in Reading
  BY <1>1, <1>4, Plugged DEF IdentityInv, IdentityTypeOK, Reading
<1> HIDE DEF ReadingAt
<1>6. \A r \in collected' : \E i \in Indexes : r = ReadingAt(i)
  BY <1>1, <1>2
<1>7. collected' \subseteq Reading
  BY <1>5, <1>6
<1>8. Distinct'
  <2>1. ASSUME NEW i \in Indexes, NEW j \in Indexes, ReadingAt(i).id = ReadingAt(j).id
        PROVE  i = j
    BY <1>1, <1>3, <2>1 DEF IdentityInv, IndexInv
  <2>2. ASSUME NEW i \in Indexes, NEW j \in Indexes, ReadingAt(i).card = ReadingAt(j).card
        PROVE  i = j
    <3>1. AtIndex(i) = AtIndex(j)
      BY <1>3, <1>4, <2>2 DEF IdentityInv, MachineInv
    <3> QED
      BY <3>1, IndexFacts
  <2> QED
    BY <1>6, <2>1, <2>2 DEF Distinct
<1>9. faults' \in 0..MaxFaults
  BY <1>2 DEF IdentityInv, IdentityTypeOK
<1> QED
  BY <1>2, <1>7, <1>8, <1>9, Leaves

(* A read that fails drops cached metadata and discovers it once more.     *)
LEMMA ReadFailsStep == IdentityInv /\ ReadFails => IdentityInv'
<1> SUFFICES ASSUME IdentityInv, ReadFails PROVE IdentityInv'
  OBVIOUS
<1>1. faults' \in 0..MaxFaults
  BY HardwareAssumption DEF ReadFails, Broken, IdentityInv, IdentityTypeOK
<1>2. CASE read = "second" /\ ReturnError
  BY <1>2, Errs DEF ReadFails
<1>3. CASE read = "first" /\ cardMetadata' = Nothing /\ Leave /\ UNCHANGED <<collected, sound>>
  <2>1. collected' \subseteq Reading /\ Distinct'
    BY <1>3 DEF IdentityInv, IdentityTypeOK, Distinct
  <2> QED
    BY <1>1, <1>3, <2>1, Leaves
<1>4. CASE /\ read = "cached" /\ read' = "second" /\ step' = "list"
           /\ cardMetadata' = Nothing /\ sound' = TRUE
           /\ UNCHANGED <<machine, reader, local, known, collected, quiet, changes>>
  <2>1. step = "read"
    BY DEF ReadFails
  <2>2. /\ UNCHANGED machine /\ reader' = reader /\ known' = known
        /\ collected' = collected /\ quiet' = quiet /\ changes' = changes
        /\ controllers' = controllers /\ entries' = entries /\ probing' = probing
        /\ found' = found /\ byIoc' = byIoc /\ todo' = todo /\ readings' = readings
    BY <1>4 DEF local
  <2>3. controllers = Nothing /\ ScanLocals /\ PageLocals /\ reader = "storcli"
    BY <1>4, <2>1 DEF IdentityInv, StepInv
  <2>4. IdentityTypeOK'
    BY <1>1, <1>4, <2>2, NothingEmpty, Still DEF IdentityInv, IdentityTypeOK
  <2>5. MachineInv' /\ Distinct'
    BY <2>2, Still DEF IdentityInv, MachineInv, Distinct
  <2>6. StepInv'
    BY <1>4, <2>2, <2>3 DEF StepInv, ScanLocals, PageLocals
  <2>7. ScanInv' /\ IndexInv' /\ IocInv' /\ ReadingsInv'
    BY <1>4, <2>2, <2>3, NothingEmpty
    DEF ScanInv, IndexInv, IocInv, ReadingsInv, ScanLocals, PageLocals
  <2>8. KeptInv' /\ ScanTrue' /\ IocTrue'
    BY <1>4 DEF KeptInv, ScanTrue, IocTrue
  <2> QED
    BY <2>4, <2>5, <2>6, <2>7, <2>8 DEF IdentityInv
<1> QED
  BY <1>2, <1>3, <1>4 DEF ReadFails

(* The mpt3sas hosts that were found are to be visited.                    *)
LEMMA BeginIocsStep == IdentityInv /\ BeginIocs => IdentityInv'
<1> SUFFICES ASSUME IdentityInv, BeginIocs PROVE IdentityInv'
  OBVIOUS
<1> DEFINE hosts == {f.host : f \in {g \in found : g.driver = "mpt3sas"}}
<1>1. CASE ReturnError /\ UNCHANGED faults
  BY <1>1, Errs
<1>2. CASE /\ todo' = hosts /\ step' = "ioc"
           /\ UNCHANGED <<kept, controllers, entries, probing, found, byIoc, readings>>
  <2>1. step = "host" /\ reader = "mpt3ctl" /\ entries = {} /\ probing = {}
    BY DEF BeginIocs
  <2>2. /\ UNCHANGED machine /\ reader' = reader /\ sound' = sound
        /\ MachineInv' /\ Distinct' /\ KeptInv' /\ cardMetadata' = cardMetadata
    BY <1>2, <2>1, GoesOn
  <2>3. PageLocals
    BY <2>1 DEF IdentityInv, StepInv
  <2>4. hosts \subseteq {f.host : f \in found}
    OBVIOUS
  <2>5. \A f \in found : f.driver = "mpt3sas" => f.host \in hosts
    OBVIOUS
  <2>6. hosts \subseteq Host
    BY DEF IdentityInv, IdentityTypeOK
  <2> HIDE DEF hosts
  <2>7. IdentityTypeOK'
    BY <1>2, <2>2, <2>6, Still DEF IdentityInv, IdentityTypeOK, kept
  <2>8. StepInv'
    BY <1>2, <2>1, <2>2, <2>3 DEF StepInv, PageLocals
  <2>9. ScanInv' /\ IndexInv'
    BY <1>2, <2>2 DEF IdentityInv, ScanInv, IndexInv
  <2>10. IocInv' /\ ReadingsInv'
    BY <1>2, <2>3, <2>4, NothingEmpty DEF IocInv, ReadingsInv, PageLocals
  <2>11. ScanTrue'
    <3> SUFFICES ASSUME sound PROVE ScanTrue'
      BY <2>2 DEF ScanTrue
    <3> QED
      BY <1>2, <2>1, <2>2, Still DEF IdentityInv, ScanTrue
  <2>12. IocTrue'
    <3> SUFFICES ASSUME sound PROVE IocTrue'
      BY <2>2 DEF IocTrue
    <3>1. \A p \in Mpt3Cards : p \in Supported
      BY DEF Mpt3Cards, Supported
    <3>2. \A p \in Supported : \E f \in found : f.pci = p
      BY <2>1 DEF IdentityInv, ScanTrue
    <3>3. \A f \in found : f.host = host[f.pci] /\ f.driver = Driver[slot[f.pci]]
      BY <2>1 DEF IdentityInv, ScanTrue
    <3>4. \A p \in Mpt3Cards : host[p] \in hosts
      BY <2>5, <3>1, <3>2, <3>3 DEF Mpt3Cards
    <3> QED
      BY <1>2, <2>2, <2>3, <3>4, NothingEmpty, Still DEF IocTrue, PageLocals
  <2> QED
    BY <2>2, <2>7, <2>8, <2>9, <2>10, <2>11, <2>12 DEF IdentityInv
<1> QED
  BY <1>1, <1>2 DEF BeginIocs

(* The number of a host goes with the identity found for that host, which  *)
(* no visited host has.                                                    *)
LEMMA ReadIocStep == \A h \in Host : IdentityInv /\ ReadIoc(h) => IdentityInv'
<1> SUFFICES ASSUME NEW h \in Host, IdentityInv, ReadIoc(h) PROVE IdentityInv'
  OBVIOUS
<1> DEFINE at == {p \in Occupied : host[p] = h}
           mine == CHOOSE f \in found : f.host = h
           gone == at = {} \/ \E p \in at : ioc[p] \in DOMAIN byIoc
                                         \/ Driver[slot[p]] # "mpt3sas"
           card == CHOOSE p \in at : TRUE
           n == ioc[card]
<1>1. CASE ReturnError /\ Broken(gone)
  BY <1>1, Errs
<1>2. CASE /\ ~gone /\ todo' = todo \ {h}
           /\ byIoc' = [i \in DOMAIN byIoc \cup {n} |-> IF i = n THEN mine.id ELSE byIoc[i]]
           /\ UNCHANGED <<kept, step, controllers, entries, probing, found, readings>>
  <2>1. step = "ioc" /\ h \in todo
    BY DEF ReadIoc
  <2>2. /\ UNCHANGED machine /\ reader' = reader /\ sound' = sound
        /\ MachineInv' /\ Distinct' /\ KeptInv' /\ cardMetadata' = cardMetadata
    BY <1>2, <2>1, GoesOn
  <2>3. card \in at /\ n \notin DOMAIN byIoc /\ Driver[slot[card]] = "mpt3sas"
    BY <1>2
  <2>4. card \in Occupied /\ host[card] = h /\ card \in Mpt3Cards
    BY <2>3 DEF Mpt3Cards
  <2>5. \E f \in found : f.host = h
    BY <2>1 DEF IdentityInv, IocInv
  <2>6. mine \in found /\ mine.host = h
    BY <2>5
  <2>7. n \in Number /\ n < nextIoc
    BY <2>4, IndexFacts DEF IdentityInv, IdentityTypeOK, MachineInv
  <2>8. /\ DOMAIN byIoc' = DOMAIN byIoc \cup {n} /\ byIoc'[n] = mine.id
        /\ \A i \in DOMAIN byIoc : byIoc'[i] = byIoc[i]
    BY <1>2, <2>3
  <2> HIDE DEF at, mine, card, n
  <2>9. IdentityTypeOK'
    <3>1. DOMAIN byIoc' \subseteq Number /\ \A i \in DOMAIN byIoc' : byIoc'[i] \in Identity
      BY <2>6, <2>7, <2>8 DEF IdentityInv, IdentityTypeOK
    <3>2. todo' \subseteq Host \cup Number
      BY <1>2 DEF IdentityInv, IdentityTypeOK
    <3> QED
      BY <1>2, <2>2, <3>1, <3>2, Still DEF IdentityInv, IdentityTypeOK, kept
  <2>10. StepInv'
    BY <1>2, <2>1, <2>2 DEF IdentityInv, StepInv
  <2>11. ScanInv' /\ IndexInv'
    BY <1>2, <2>2 DEF IdentityInv, ScanInv, IndexInv
  <2>12. IocInv'
    <3>1. \A i \in DOMAIN byIoc : \E f \in found : f.host \notin todo /\ f.id = byIoc[i]
      BY <2>1 DEF IdentityInv, IocInv
    <3>2. \A f \in found : f.id = mine.id => f.host = h
      BY <2>6 DEF IdentityInv, ScanInv
    <3>3. \A i \in DOMAIN byIoc : byIoc[i] # mine.id
      BY <2>1, <3>1, <3>2
    <3>4. \A i, j \in DOMAIN byIoc' : byIoc'[i] = byIoc'[j] => i = j
      BY <2>8, <3>3 DEF IdentityInv, IocInv
    <3>5. \A i \in DOMAIN byIoc' : i < nextIoc'
      BY <2>2, <2>7, <2>8, Still DEF IdentityInv, IocInv
    <3>6. \A i \in DOMAIN byIoc' : \E f \in found : f.host \notin todo' /\ f.id = byIoc'[i]
      BY <1>2, <2>6, <2>8, <3>1
    <3>7. todo' \subseteq {f.host : f \in found}
      BY <1>2, <2>1 DEF IdentityInv, IocInv
    <3> QED
      BY <1>2, <3>4, <3>5, <3>6, <3>7 DEF IocInv
  <2>13. ReadingsInv'
    BY <1>2, <2>1 DEF ReadingsInv
  <2>14. ScanTrue'
    <3> SUFFICES ASSUME sound PROVE ScanTrue'
      BY <2>2 DEF ScanTrue
    <3> QED
      BY <1>2, <2>1, <2>2, Still DEF IdentityInv, ScanTrue
  <2>15. IocTrue'
    <3> SUFFICES ASSUME sound PROVE IocTrue'
      BY <2>2 DEF IocTrue
    <3>1. mine.pci \in Occupied /\ host[mine.pci] = h /\ mine.id = TrueID(mine.pci)
      BY <2>1, <2>6, IndexFacts DEF IdentityInv, ScanTrue
    <3>2. mine.pci = card
      BY <2>4, <3>1 DEF IdentityInv, MachineInv
    <3>3. ioc[card] = n
      BY DEF n
    <3>4. \A i \in DOMAIN byIoc' : \E p \in Mpt3Cards : ioc[p] = i /\ byIoc'[i] = TrueID(p)
      BY <2>1, <2>4, <2>8, <3>1, <3>2, <3>3 DEF IdentityInv, IocTrue
    <3>5. \A p \in Mpt3Cards : host[p] = h => p = card
      BY <2>4 DEF IdentityInv, MachineInv, Mpt3Cards
    <3>6. \A p \in Mpt3Cards : host[p] \in todo' \/ ioc[p] \in DOMAIN byIoc'
      BY <1>2, <2>1, <2>8, <3>3, <3>5 DEF IdentityInv, IocTrue
    <3>7. step' = "ioc" /\ Mpt3Cards' = Mpt3Cards /\ host' = host /\ ioc' = ioc
      BY <1>2, <2>1, <2>2, Still
    <3>8. \A i \in DOMAIN byIoc' : \E p \in Mpt3Cards' : ioc'[p] = i /\ byIoc'[i] = TrueID(p)'
      BY <2>2, <3>4, <3>7, Still
    <3>9. \A p \in Mpt3Cards' : host'[p] \in todo' \/ ioc'[p] \in DOMAIN byIoc'
      BY <3>6, <3>7
    <3> QED
      BY <3>7, <3>8, <3>9 DEF IocTrue
  <2> QED
    BY <2>2, <2>9, <2>10, <2>11, <2>12, <2>13, <2>14, <2>15 DEF IdentityInv
<1> QED
  BY <1>1, <1>2 DEF ReadIoc

(* The numbers that were read are to be visited.                           *)
LEMMA BeginPagesStep == IdentityInv /\ BeginPages => IdentityInv'
<1> SUFFICES ASSUME IdentityInv, BeginPages PROVE IdentityInv'
  OBVIOUS
<1>1. /\ step = "ioc" /\ todo = {} /\ step' = "page" /\ todo' = DOMAIN byIoc
      /\ UNCHANGED <<kept, controllers, entries, probing, found, byIoc, readings>>
  BY DEF BeginPages
<1>2. /\ UNCHANGED machine /\ reader' = reader /\ sound' = sound
      /\ MachineInv' /\ Distinct' /\ KeptInv' /\ cardMetadata' = cardMetadata
  BY <1>1, GoesOn
<1>3. readings = {}
  BY <1>1 DEF IdentityInv, StepInv
<1>4. IdentityTypeOK'
  BY <1>1, <1>2, Still DEF IdentityInv, IdentityTypeOK, kept
<1>5. StepInv'
  BY <1>1, <1>2 DEF IdentityInv, StepInv
<1>6. ScanInv' /\ IndexInv'
  BY <1>1, <1>2 DEF IdentityInv, ScanInv, IndexInv
<1>7. IocInv' /\ ReadingsInv'
  BY <1>1, <1>2, <1>3, Still DEF IdentityInv, IocInv, ReadingsInv
<1>8. ScanTrue'
  BY <1>1 DEF ScanTrue
<1>9. IocTrue'
  <2> SUFFICES ASSUME sound PROVE IocTrue'
    BY <1>2 DEF IocTrue
  <2>1. \A n \in DOMAIN byIoc : \E p \in Mpt3Cards : ioc[p] = n /\ byIoc[n] = TrueID(p)
    BY <1>1 DEF IdentityInv, IocTrue
  <2>2. \A p \in Mpt3Cards : ioc[p] \in DOMAIN byIoc
    BY <1>1 DEF IdentityInv, IocTrue
  <2> QED
    BY <1>1, <1>2, <1>3, <2>1, <2>2, Still DEF IocTrue
<1> QED
  BY <1>2, <1>4, <1>5, <1>6, <1>7, <1>8, <1>9 DEF IdentityInv

(* A page is of the one card that has the number now; a card that was      *)
(* plugged in again has another number.                                    *)
LEMMA ReadPageStep == \A n \in Number : IdentityInv /\ ReadPage(n) => IdentityInv'
<1> SUFFICES ASSUME NEW n \in Number, IdentityInv, ReadPage(n) PROVE IdentityInv'
  OBVIOUS
<1> DEFINE at == {p \in Occupied : ioc[p] = n}
           ReadingOf(p) == [id |-> byIoc[n], card |-> slot[p]]
<1>1. CASE ReturnError /\ Broken(at = {})
  BY <1>1, Errs
<1>2. CASE /\ todo' = todo \ {n}
           /\ readings' = readings \cup {ReadingOf(p) : p \in {q \in at : slot[q] \in Probed}}
           /\ at # {}
           /\ UNCHANGED <<kept, step, controllers, entries, probing, found, byIoc>>
  <2>1. step = "page" /\ n \in todo
    BY DEF ReadPage
  <2>2. /\ UNCHANGED machine /\ reader' = reader /\ sound' = sound
        /\ MachineInv' /\ Distinct' /\ KeptInv' /\ cardMetadata' = cardMetadata
    BY <1>2, <2>1, GoesOn
  <2>3. PICK card \in Occupied : ioc[card] = n
    BY <1>2
  <2>4. \A p \in Occupied : ioc[p] = n => p = card
    BY <2>3 DEF IdentityInv, MachineInv
  <2>5. /\ \A r \in readings' : r \in readings \/ (r = ReadingOf(card) /\ slot[card] \in Probed)
        /\ slot[card] \in Probed => ReadingOf(card) \in readings'
        /\ readings \subseteq readings'
    BY <1>2, <2>3, <2>4
  <2>6. ReadingOf(card).id = byIoc[n] /\ ReadingOf(card).card = slot[card]
    OBVIOUS
  <2>7. n \in DOMAIN byIoc
    BY <2>1 DEF IdentityInv, ReadingsInv
  <2>8. ReadingOf(card) \in Reading
    BY <2>3, <2>7, Plugged DEF IdentityInv, IdentityTypeOK, Reading
  <2>9. \A p : TrueID(p) = byIoc[n] /\ slot[p] = slot[card] =>
           [id |-> TrueID(p), card |-> slot[p]] = ReadingOf(card)
    OBVIOUS
  <2> HIDE DEF ReadingOf, at
  <2>10. IdentityTypeOK'
    <3>1. readings' \subseteq Reading
      BY <2>5, <2>8 DEF IdentityInv, IdentityTypeOK
    <3>2. todo' \subseteq Host \cup Number
      BY <1>2 DEF IdentityInv, IdentityTypeOK
    <3> QED
      BY <1>2, <2>2, <3>1, <3>2, Still DEF IdentityInv, IdentityTypeOK, kept
  <2>11. StepInv'
    BY <1>2, <2>1, <2>2 DEF IdentityInv, StepInv
  <2>12. ScanInv' /\ IndexInv'
    BY <1>2, <2>1, <2>2 DEF IdentityInv, ScanInv, IndexInv
  <2>13. IocInv'
    BY <1>2, <2>1, <2>2, Still DEF IdentityInv, IocInv
  <2>14. ReadingsInv'
    <3>1. \A r \in readings : /\ \E m \in DOMAIN byIoc : m \notin todo /\ r.id = byIoc[m]
                              /\ \A p \in Occupied : slot[p] = r.card => ioc[p] \notin todo
      BY <2>1 DEF IdentityInv, ReadingsInv
    <3>2. \A m \in DOMAIN byIoc : byIoc[m] = byIoc[n] => m = n
      BY <2>7 DEF IdentityInv, IocInv
    <3>3. \A r \in readings : r.id # byIoc[n] /\ r.card # slot[card]
      BY <2>1, <2>3, <3>1, <3>2
    <3>4. \A r, s \in readings' : r.id = s.id \/ r.card = s.card => r = s
      <4>1. \A r, s \in readings : r.id = s.id \/ r.card = s.card => r = s
        BY <2>1 DEF IdentityInv, ReadingsInv
      <4> QED
        BY <2>5, <2>6, <3>3, <4>1
    <3>5. \A r \in readings' : \E m \in DOMAIN byIoc : m \notin todo' /\ r.id = byIoc[m]
      BY <1>2, <2>5, <2>6, <2>7, <3>1
    <3>6. \A p \in Occupied : slot[p] = slot[card] => p = card
      BY <2>3 DEF IdentityInv, MachineInv
    <3>7. \A r \in readings' : \A p \in Occupied : slot[p] = r.card => ioc[p] \notin todo'
      BY <1>2, <2>3, <2>5, <2>6, <3>1, <3>6
    <3>8. todo' \subseteq DOMAIN byIoc
      BY <1>2, <2>1 DEF IdentityInv, ReadingsInv
    <3>9. byIoc' = byIoc /\ Occupied' = Occupied /\ slot' = slot /\ ioc' = ioc
      BY <1>2, <2>2, Still
    <3> QED
      BY <3>4, <3>5, <3>7, <3>8, <3>9 DEF ReadingsInv
  <2>15. ScanTrue'
    BY <1>2, <2>1 DEF ScanTrue
  <2>16. IocTrue'
    <3> SUFFICES ASSUME sound PROVE IocTrue'
      BY <2>2 DEF IocTrue
    <3>1. \A m \in DOMAIN byIoc : \E p \in Mpt3Cards : ioc[p] = m /\ byIoc[m] = TrueID(p)
      BY <2>1 DEF IdentityInv, IocTrue
    <3>2. card \in Mpt3Cards /\ byIoc[n] = TrueID(card)
      BY <2>3, <2>4, <2>7, <3>1 DEF Mpt3Cards
    <3>3. ReadingOf(card) = [id |-> TrueID(card), card |-> slot[card]]
      BY <2>9, <3>2
    <3>4. \A p \in Mpt3Cards : ioc[p] = n => p = card
      BY <2>4 DEF Mpt3Cards
    <3>5. ASSUME NEW p \in Mpt3Cards, slot[p] \in Probed
          PROVE  ioc[p] \in todo' \/ [id |-> TrueID(p), card |-> slot[p]] \in readings'
      <4>1. CASE p = card
        BY <2>5, <3>3, <3>5, <4>1
      <4>2. CASE p # card
        <5>1. ioc[p] \in todo \/ [id |-> TrueID(p), card |-> slot[p]] \in readings
          BY <2>1, <3>5 DEF IdentityInv, IocTrue
        <5> QED
          BY <1>2, <2>5, <3>4, <4>2, <5>1
      <4> QED
        BY <4>1, <4>2
    <3>6. \A r \in readings' : \E p \in Mpt3Cards :
             slot[p] \in Probed /\ r = [id |-> TrueID(p), card |-> slot[p]]
      <4>1. \A r \in readings : \E p \in Mpt3Cards :
               slot[p] \in Probed /\ r = [id |-> TrueID(p), card |-> slot[p]]
        BY <2>1 DEF IdentityInv, IocTrue
      <4> QED
        BY <2>5, <3>2, <3>3, <4>1
    <3>7. \A p \in Mpt3Cards : ioc[p] \in DOMAIN byIoc
      BY <2>1 DEF IdentityInv, IocTrue
    <3>8. /\ step' = "page" /\ Mpt3Cards' = Mpt3Cards /\ slot' = slot /\ ioc' = ioc
          /\ byIoc' = byIoc /\ \A p : TrueID(p)' = TrueID(p)
      BY <1>2, <2>1, <2>2, Still
    <3> QED
      BY <3>1, <3>5, <3>6, <3>7, <3>8 DEF IocTrue
  <2> QED
    BY <2>2, <2>10, <2>11, <2>12, <2>13, <2>14, <2>15, <2>16 DEF IdentityInv
<1> QED
  BY <1>1, <1>2 DEF ReadPage

(* The end of an mpt3ctl collection publishes the pages it read.           *)
LEMMA EndPagesStep == IdentityInv /\ EndPages => IdentityInv'
<1> SUFFICES ASSUME IdentityInv, EndPages PROVE IdentityInv'
  OBVIOUS
<1>1. /\ step = "page" /\ Leave /\ collected' = readings /\ cardMetadata' = cardMetadata
      /\ sound' = sound /\ faults' = faults
  BY DEF EndPages, ReturnReadings
<1>2. collected' \subseteq Reading /\ faults' \in 0..MaxFaults
  BY <1>1 DEF IdentityInv, IdentityTypeOK
<1>3. Distinct'
  BY <1>1 DEF IdentityInv, ReadingsInv, Distinct
<1> QED
  BY <1>1, <1>2, <1>3, Leaves

(* A hardware change disturbs only what says that there was none.          *)
LEMMA Changes ==
    ASSUME IdentityInv, Change, MachineInv',
           slot' \in [PCI -> Card \cup {NoCard}], host' \in [PCI -> Host],
           ioc' \in [PCI -> Number], nextIoc' \in Number, nextIoc' >= nextIoc,
           \A p \in Occupied' : \/ p \in Occupied /\ slot'[p] = slot[p] /\ ioc'[p] = ioc[p]
                                \/ ioc'[p] = nextIoc
    PROVE  IdentityInv'
<1>1. /\ changes < MaxChanges /\ changes' = changes + 1 /\ quiet' = FALSE /\ sound' = FALSE
      /\ reader' = reader /\ step' = step /\ cardMetadata' = cardMetadata /\ read' = read
      /\ known' = known /\ collected' = collected /\ faults' = faults
      /\ controllers' = controllers /\ entries' = entries /\ probing' = probing
      /\ found' = found /\ byIoc' = byIoc /\ todo' = todo /\ readings' = readings
  BY DEF Change, local
<1>2. IdentityTypeOK'
  <2>1. changes' \in 0..MaxChanges
    BY <1>1, HardwareAssumption DEF IdentityInv, IdentityTypeOK
  <2> QED
    BY <1>1, <2>1 DEF IdentityInv, IdentityTypeOK
<1>3. StepInv' /\ ScanInv' /\ IndexInv' /\ Distinct'
  BY <1>1 DEF IdentityInv, StepInv, ScanLocals, PageLocals, ScanInv, IndexInv, Distinct
<1>4. IocInv'
  <2>1. \A m \in DOMAIN byIoc : m \in Nat /\ m < nextIoc
    BY Sizes DEF IdentityInv, IocInv, IdentityTypeOK
  <2>2. nextIoc \in Nat /\ nextIoc' \in Nat
    BY Sizes DEF IdentityInv, IdentityTypeOK
  <2>3. \A m \in DOMAIN byIoc : m < nextIoc'
    BY <2>1, <2>2
  <2> QED
    BY <1>1, <2>3 DEF IdentityInv, IocInv
<1>5. ReadingsInv'
  <2> SUFFICES ASSUME step = "page" PROVE ReadingsInv'
    BY <1>1 DEF ReadingsInv
  <2>1. nextIoc \notin todo
    <3>1. \A m \in todo : m \in Nat /\ m < nextIoc
      BY Sizes DEF IdentityInv, IocInv, ReadingsInv, IdentityTypeOK
    <3>2. nextIoc \in Nat
      BY Sizes DEF IdentityInv, IdentityTypeOK
    <3> QED
      BY <3>1, <3>2
  <2>2. \A r \in readings : \A p \in Occupied' : slot'[p] = r.card => ioc'[p] \notin todo
    BY <2>1 DEF IdentityInv, ReadingsInv
  <2> QED
    BY <1>1, <2>2 DEF IdentityInv, ReadingsInv
<1>6. KeptInv' /\ ScanTrue' /\ IocTrue'
  BY <1>1 DEF IdentityInv, KeptInv, ScanTrue, IocTrue
<1> QED
  BY <1>2, <1>3, <1>4, <1>5, <1>6 DEF IdentityInv

(* A card that is pulled out frees its slot and its host number.           *)
LEMMA UnplugStep == \A p \in PCI : IdentityInv /\ Unplug(p) => IdentityInv'
<1> SUFFICES ASSUME NEW p \in PCI, IdentityInv, Unplug(p) PROVE IdentityInv'
  OBVIOUS
<1>1. /\ Change /\ slot' = [slot EXCEPT ![p] = NoCard]
      /\ host' = host /\ ioc' = ioc /\ nextIoc' = nextIoc /\ changes' = changes + 1
  BY DEF Unplug, Change
<1>2. /\ slot \in [PCI -> Card \cup {NoCard}] /\ nextIoc \in Nat /\ changes \in Nat
      /\ host \in [PCI -> Host] /\ ioc \in [PCI -> Number] /\ nextIoc \in Number
  BY Sizes DEF IdentityInv, IdentityTypeOK
<1>3. slot' \in [PCI -> Card \cup {NoCard}]
  BY <1>1, <1>2
<1>4. \A q \in Occupied' : q \in Occupied /\ slot'[q] = slot[q]
  BY <1>1, <1>2 DEF Occupied
<1>5. MachineInv'
  BY <1>1, <1>2, <1>4, Sizes DEF IdentityInv, MachineInv
<1> QED
  BY <1>1, <1>2, <1>3, <1>4, <1>5, Changes

(* A card that is plugged in takes a free host number and a new IOC        *)
(* number.                                                                 *)
LEMMA PlugStep == \A p \in PCI : \A c \in Card : IdentityInv /\ Plug(p, c) => IdentityInv'
<1> SUFFICES ASSUME NEW p \in PCI, NEW c \in Card, IdentityInv, Plug(p, c) PROVE IdentityInv'
  OBVIOUS
<1>1. /\ p \notin Occupied /\ \A q \in PCI : slot[q] # c
      /\ Change /\ slot' = [slot EXCEPT ![p] = c]
      /\ ioc' = [ioc EXCEPT ![p] = nextIoc] /\ nextIoc' = nextIoc + 1
      /\ changes < MaxChanges /\ changes' = changes + 1
  BY DEF Plug, Change
<1>2. PICK h \in Host \ {host[q] : q \in Occupied} : host' = [host EXCEPT ![p] = h]
  BY DEF Plug
<1>3. /\ slot \in [PCI -> Card \cup {NoCard}] /\ nextIoc \in Nat /\ changes \in Nat
      /\ host \in [PCI -> Host] /\ ioc \in [PCI -> Number] /\ nextIoc \in Number
  BY Sizes DEF IdentityInv, IdentityTypeOK
<1>4. /\ slot' \in [PCI -> Card \cup {NoCard}] /\ host' \in [PCI -> Host]
      /\ ioc' \in [PCI -> Number]
  BY <1>1, <1>2, <1>3
<1>5. nextIoc' <= Cardinality(PCI) + changes' /\ nextIoc' \in Number
  BY <1>1, <1>3, Sizes DEF IdentityInv, MachineInv
<1>6. \A q \in Occupied' : q # p => /\ q \in Occupied /\ slot'[q] = slot[q]
                                    /\ host'[q] = host[q] /\ ioc'[q] = ioc[q]
  BY <1>1, <1>2, <1>3 DEF Occupied
<1>7. slot'[p] = c /\ host'[p] = h /\ ioc'[p] = nextIoc
  BY <1>1, <1>2, <1>3
<1>8. \A q \in Occupied : slot[q] # c /\ host[q] # h /\ ioc[q] # nextIoc /\ ioc[q] < nextIoc
  <2>1. \A q \in Occupied : q \in PCI /\ slot[q] # c /\ host[q] # h
    BY <1>1, <1>2, IndexFacts
  <2>2. \A q \in PCI : ioc[q] \in Nat /\ ioc[q] < nextIoc
    BY <1>3, Sizes DEF IdentityInv, MachineInv
  <2> QED
    BY <1>3, <2>1, <2>2
<1>9. MachineInv'
  <2>1. \A q, r \in Occupied' :
           slot'[q] = slot'[r] \/ host'[q] = host'[r] \/ ioc'[q] = ioc'[r] => q = r
    BY <1>6, <1>7, <1>8 DEF IdentityInv, MachineInv
  <2>2. \A q \in PCI : ioc'[q] < nextIoc'
    <3>1. \A q \in PCI : ioc[q] \in Nat /\ ioc[q] < nextIoc
      BY <1>3, Sizes DEF IdentityInv, MachineInv
    <3> QED
      BY <1>1, <1>3, <3>1
  <2> QED
    BY <1>5, <2>1, <2>2 DEF MachineInv
<1> QED
  BY <1>1, <1>3, <1>4, <1>5, <1>6, <1>7, <1>9, Changes

(* Every step of the two backends and of the hardware.                     *)
LEMMA IdentityStep == IdentityInv /\ [IdentityNext]_identityVars => IdentityInv'
<1> SUFFICES ASSUME IdentityInv, [IdentityNext]_identityVars PROVE IdentityInv'
  OBVIOUS
<1>1. CASE UNCHANGED identityVars
  <2>1. /\ UNCHANGED machine /\ reader' = reader /\ step' = step /\ cardMetadata' = cardMetadata
        /\ read' = read /\ known' = known /\ collected' = collected /\ quiet' = quiet
        /\ sound' = sound /\ changes' = changes /\ faults' = faults
        /\ controllers' = controllers /\ entries' = entries /\ probing' = probing
        /\ found' = found /\ byIoc' = byIoc /\ todo' = todo /\ readings' = readings
    BY <1>1 DEF identityVars, kept, local
  <2>2. IdentityTypeOK' /\ MachineInv' /\ StepInv' /\ ScanInv' /\ IndexInv'
    BY <2>1, Still DEF IdentityInv, IdentityTypeOK, MachineInv, StepInv, ScanLocals, PageLocals,
       ScanInv, IndexInv
  <2>3. IocInv' /\ ReadingsInv' /\ Distinct'
    BY <2>1, Still DEF IdentityInv, IocInv, ReadingsInv, Distinct
  <2>4. KeptInv'
    BY <2>1, Still DEF IdentityInv, KeptInv
  <2>5. ScanTrue'
    BY <2>1, Still DEF IdentityInv, ScanTrue
  <2>6. IocTrue'
    BY <2>1, Still DEF IdentityInv, IocTrue
  <2> QED
    BY <2>2, <2>3, <2>4, <2>5, <2>6 DEF IdentityInv
<1>2. CASE IdentityNext
  BY <1>2, UnplugStep, PlugStep, BeginStep, ListStep, ScanHostsStep, ReadIdentityStep, ScanHostStep,
     ReadIocStep, MatchStep, ReadTemperaturesStep, ReadFailsStep, BeginIocsStep, BeginPagesStep,
     EndPagesStep, ReadPageStep DEF IdentityNext
<1> QED
  BY <1>1, <1>2

(* The inductive invariant of HbaIdentity: every number and identity is    *)
(* held once at each point of a collection, and what a collection knows of *)
(* hardware that stands still is true and complete.                        *)
THEOREM IdentityInvariant == IdentitySpec => []IdentityInv
<1>1. IdentityInit => IdentityInv
  BY IdentityInitInv
<1>2. IdentityInv /\ [IdentityNext]_identityVars => IdentityInv'
  BY IdentityStep
<1> QED
  BY <1>1, <1>2, PTL DEF IdentitySpec

(* Two sensors never share an identity nor a card, for any cards, slots    *)
(* and hardware changes.                                                   *)
THEOREM UniqueIdentitiesHolds == IdentitySpec => []UniqueIdentities
<1>1. IdentityInv => UniqueIdentities
  BY DEF IdentityInv, UniqueIdentities, Distinct
<1> QED
  BY <1>1, IdentityInvariant, PTL

(* What StorCLI answers by the indexes of a sound discovery is the truth.  *)
LEMMA StorCLITruth ==
    ASSUME IdentityInv, ReadTemperatures, sound
    PROVE  collected' = Truth
<1> DEFINE ReadingAt(i) == [id |-> cardMetadata[i], card |-> slot[AtIndex(i)]]
           Answered == {j \in DOMAIN cardMetadata : slot[AtIndex(j)] \in Probed}
           TrueReading(p) == [id |-> TrueID(p), card |-> slot[p]]
<1>1. /\ step = "read" /\ Indexes # {} /\ DOMAIN cardMetadata = Indexes
      /\ collected' = {ReadingAt(i) : i \in Answered}
  BY DEF ReadTemperatures, SameControllerSet, ReturnReadings
<1>2. reader = "storcli"
  BY <1>1 DEF IdentityInv, StepInv
<1>3. Truth = {TrueReading(p) : p \in {q \in Supported : slot[q] \in Probed}}
  BY <1>2 DEF Truth, Backed, TrueID
<1>4. \A i \in Indexes : cardMetadata[i] = TrueID(AtIndex(i))
  <2>1. cardMetadata # Nothing
    BY <1>1, NothingEmpty
  <2> QED
    BY <2>1 DEF IdentityInv, KeptInv
<1>5. \A i \in Indexes : ReadingAt(i) = TrueReading(AtIndex(i))
  BY <1>4
<1>6. \A i \in Answered : AtIndex(i) \in Supported /\ slot[AtIndex(i)] \in Probed
  BY <1>1, IndexFacts
<1>7. \A p \in Supported : slot[p] \in Probed =>
         \E i \in Answered : AtIndex(i) = p /\ ReadingAt(i) = TrueReading(p)
  BY <1>1, <1>5, IndexFacts
<1> HIDE DEF ReadingAt, TrueReading
<1>8. \A r \in collected' : r \in Truth
  BY <1>1, <1>3, <1>5, <1>6
<1>9. \A r \in Truth : r \in collected'
  BY <1>1, <1>3, <1>7
<1> QED
  BY <1>8, <1>9

(* So is what mpt3ctl has read when its loop ends.                         *)
LEMMA Mpt3Truth ==
    ASSUME IdentityInv, EndPages, sound
    PROVE  collected' = Truth
<1> DEFINE TrueReading(p) == [id |-> TrueID(p), card |-> slot[p]]
<1>1. step = "page" /\ todo = {} /\ collected' = readings
  BY DEF EndPages, ReturnReadings
<1>2. reader = "mpt3ctl"
  BY <1>1 DEF IdentityInv, StepInv
<1>3. Truth = {TrueReading(p) : p \in {q \in Mpt3Cards : slot[q] \in Probed}}
  BY <1>2 DEF Truth, Backed, TrueID, Mpt3Cards
<1>4. \A p \in Mpt3Cards : slot[p] \in Probed => TrueReading(p) \in readings
  BY <1>1 DEF IdentityInv, IocTrue
<1>5. \A r \in readings : \E p \in Mpt3Cards : slot[p] \in Probed /\ r = TrueReading(p)
  BY <1>1 DEF IdentityInv, IocTrue
<1> HIDE DEF TrueReading
<1> QED
  BY <1>1, <1>3, <1>4, <1>5

(* The condition on a collection under which its readings must be right.   *)
Accountable ==
    \/ IF reader = "mpt3ctl" THEN quiet ELSE sound
    \/ quiet /\ Indexes # known

(* A collection that discovered, and during which nothing changed, has a   *)
(* sound discovery; one that uses the cached metadata has the indexes it   *)
(* began with.                                                             *)
LEMMA AccountableSound ==
    ASSUME IdentityInv, Publish, Accountable
    PROVE  sound
<1>1. CASE EndPages
  <2>1. step = "page" /\ reader = "mpt3ctl"
    BY <1>1 DEF EndPages, IdentityInv, StepInv
  <2> QED
    BY <2>1 DEF Accountable, IdentityInv, KeptInv
<1>2. CASE ReadTemperatures
  <2>1. step = "read" /\ DOMAIN cardMetadata = Indexes /\ reader = "storcli"
    BY <1>2 DEF ReadTemperatures, SameControllerSet, IdentityInv, StepInv
  <2>2. CASE read = "cached"
    BY <2>1, <2>2 DEF Accountable, IdentityInv, KeptInv
  <2>3. CASE read # "cached"
    BY <2>1, <2>3 DEF Accountable, IdentityInv, KeptInv
  <2> QED
    BY <2>2, <2>3
<1> QED
  BY <1>1, <1>2 DEF Publish

(* A temperature is published under the identity of the card it was        *)
(* measured on, and no card with a probe is forgotten, for every machine   *)
(* and every sequence of hardware changes: when the hardware stood still   *)
(* since the discovery in use began, and when a collection during which    *)
(* nothing changed finds other indexes than it began with.                 *)
THEOREM RightCardsHolds == IdentitySpec => RightCards
<1>1. IdentityInv /\ Publish /\ Accountable => collected' = Truth
  BY AccountableSound, StorCLITruth, Mpt3Truth DEF Publish
<1>2. IdentityInv /\ [IdentityNext]_identityVars =>
         [Publish /\ (IF reader = "mpt3ctl" THEN quiet ELSE sound)
             => collected' = Truth]_identityVars
  BY <1>1 DEF Accountable
<1>3. IdentityInv /\ [IdentityNext]_identityVars =>
         [Publish /\ quiet /\ Indexes # known => collected' = Truth]_identityVars
  BY <1>1 DEF Accountable
<1>4. IdentitySpec => AttributedRight
  BY <1>2, IdentityInvariant, PTL DEF IdentitySpec, AttributedRight
<1>5. IdentitySpec => NewIndexesRediscovered
  BY <1>3, IdentityInvariant, PTL DEF IdentitySpec, NewIndexesRediscovered
<1> QED
  BY <1>4, <1>5 DEF RightCards

=============================================================================
