---------------------------- MODULE HbaCollector ----------------------------
(***************************************************************************)
(* The guest's HBA collector (hba.go) and the StorCLI backend's cache of   *)
(* controller metadata (hba_storcli.go).                                   *)
(*                                                                         *)
(* One goroutine collects, waits for the interval and collects again.  A   *)
(* backend call may outlive its deadline: meanwhile the VSOCK publisher    *)
(* reads what was published last, which expires by itself.  StorCLI        *)
(* discovers controllers rarely and their temperatures on each collection; *)
(* controllers may come and go between any two commands.                   *)
(***************************************************************************)
EXTENDS Integers

CONSTANTS Controller,       \* controller numbers
          MPT3CTLInterval, StorCLIInterval,
          Timeout,          \* hbaCollectionTimeout
          MaxTime           \* bound on the clock

ASSUME HbaAssumption ==
    /\ MPT3CTLInterval \in Nat /\ StorCLIInterval \in Nat
    /\ Timeout \in Nat \ {0} /\ MaxTime \in Nat

NoTime == -1
NoMetadata == [known |-> FALSE, of |-> {}]
Metadata(found) == [known |-> TRUE, of |-> found]

VARIABLES
    now, mode, backend,
    hbas,           \* the controllers of the machine
    pc, startAt,    \* the collection goroutine and when its refresh began
    timerAt,        \* when its timer fires
    canceled,       \* the service is stopping
    metadata,       \* storCLIReader.metadata
    fresh,          \* freshDiscovery
    result,         \* what collect returns; the readings follow the metadata
    pub,            \* err, lastSuccessfulAt, and when that refresh began
    undisturbed,    \* no command failed and no controller came or went
    discoveries     \* discoveries of this collection

envVars == <<now, mode, backend, hbas, canceled>>
collectVars == <<metadata, fresh, result, discoveries>>
vars == <<envVars, pc, startAt, timerAt, collectVars, pub, undisturbed>>

MetadataType == {NoMetadata} \cup [known : {TRUE}, of : (SUBSET Controller) \ {{}}]
PubType == [err : BOOLEAN, at : 0..MaxTime \cup {NoTime}, began : 0..MaxTime \cup {NoTime}]

TypeOK ==
    /\ now \in 0..MaxTime /\ hbas \subseteq Controller
    /\ mode \in {"enabled", "disabled"} /\ backend \in {"mpt3ctl", "storcli"}
    /\ pc \in {"idle", "mpt3ctl", "discover", "read", "rediscover", "reread", "return"}
    /\ startAt \in 0..MaxTime /\ timerAt \in Nat /\ canceled \in BOOLEAN
    /\ metadata \in MetadataType
    /\ fresh \in BOOLEAN /\ undisturbed \in BOOLEAN /\ discoveries \in Nat
    /\ result \in {"ok", "error"}
    /\ pub \in PubType

Init ==
    /\ now = 0 /\ hbas \in SUBSET Controller /\ canceled = FALSE
    /\ mode \in {"enabled", "disabled"} /\ backend \in {"mpt3ctl", "storcli"}
    /\ pc = "idle" /\ startAt = 0 /\ timerAt = 0
    /\ metadata = NoMetadata /\ fresh = FALSE /\ discoveries = 0
    /\ result = "ok"
    /\ pub = [err |-> mode # "disabled", at |-> NoTime, began |-> NoTime]
    /\ undisturbed = TRUE

Interval == IF backend = "mpt3ctl" THEN MPT3CTLInterval ELSE StorCLIInterval
Deadline == startAt + Timeout

-----------------------------------------------------------------------------
(* Time passes during a command of any length, and otherwise until the     *)
(* timer fires.                                                            *)
Tick ==
    /\ now < MaxTime /\ now' = now + 1
    /\ pc = "idle" => mode = "disabled" \/ canceled \/ now < timerAt
    /\ UNCHANGED <<mode, backend, hbas, canceled, pc, startAt, timerAt, collectVars,
                   pub, undisturbed>>

HardwareChange ==
    /\ \E s \in (SUBSET Controller) \ {hbas} : hbas' = s
    /\ undisturbed' = FALSE
    /\ UNCHANGED <<now, mode, backend, canceled, pc, startAt, timerAt, collectVars, pub>>

Cancel ==
    /\ ~canceled /\ canceled' = TRUE /\ undisturbed' = FALSE
    /\ UNCHANGED <<now, mode, backend, hbas, pc, startAt, timerAt, collectVars, pub>>

-----------------------------------------------------------------------------
(* run: a refresh at once and then whenever the timer fires.               *)
BeginRefresh ==
    /\ pc = "idle" /\ mode = "enabled" /\ ~canceled /\ now >= timerAt
    /\ startAt' = now
    /\ pc' = IF backend = "mpt3ctl" THEN "mpt3ctl"
             ELSE IF metadata.known THEN "read" ELSE "discover"
    /\ fresh' = FALSE /\ discoveries' = 0 /\ undisturbed' = TRUE
    /\ UNCHANGED <<envVars, timerAt, metadata, result, pub>>

(* A command that succeeds: before the deadline, and on a machine with     *)
(* HBAs (errNoHBA otherwise).                                              *)
Succeeds == now < Deadline /\ ~canceled /\ hbas # {}

Return(outcome) ==
    /\ pc' = "return" /\ result' = outcome
    /\ UNCHANGED <<envVars, startAt, timerAt, pub>>

(* mpt3Reader.collect discovers the controllers each time.                 *)
CollectMPT3 ==
    /\ pc = "mpt3ctl"
    /\ \/ Succeeds /\ Return("ok") /\ UNCHANGED undisturbed
       \/ Return("error") /\ undisturbed' = FALSE
    /\ UNCHANGED <<metadata, fresh, discoveries>>

(* storCLIReader.collect: discover unless the metadata is known.           *)
Discover ==
    /\ pc = "discover" /\ discoveries' = discoveries + 1
    /\ \/ /\ Succeeds /\ pc' = "read"
          /\ metadata' = Metadata(hbas) /\ fresh' = TRUE
          /\ UNCHANGED <<envVars, startAt, timerAt, result, pub, undisturbed>>
       \/ /\ Return("error") /\ undisturbed' = FALSE
          /\ UNCHANGED <<metadata, fresh>>

ReadSucceeds == Succeeds /\ hbas = metadata.of

Read ==
    /\ pc = "read" /\ ReadSucceeds /\ Return("ok")
    /\ UNCHANGED <<metadata, fresh, discoveries, undisturbed>>

(* A failed read, or controllers other than the known ones, invalidates    *)
(* the metadata; it is rediscovered at most once per collection.           *)
AfterReadError_GivesUp == Return("error")
AfterReadError_Always ==
    pc' = "rediscover" /\ UNCHANGED <<envVars, startAt, timerAt, result, pub>>
AfterReadError ==
    \/ fresh /\ Return("error")
    \/ ~fresh /\ pc' = "rediscover" /\ UNCHANGED <<envVars, startAt, timerAt, result, pub>>

ReadError ==
    /\ pc = "read"
    /\ \/ undisturbed' = FALSE
       \/ Succeeds /\ ~ReadSucceeds /\ UNCHANGED undisturbed
    /\ metadata' = NoMetadata
    /\ AfterReadError
    /\ UNCHANGED <<fresh, discoveries>>

Rediscover ==
    /\ pc = "rediscover" /\ discoveries' = discoveries + 1
    /\ \/ /\ Succeeds /\ pc' = "reread" /\ metadata' = Metadata(hbas)
          /\ UNCHANGED <<envVars, startAt, timerAt, result, pub, undisturbed>>
       \/ /\ Return("error") /\ undisturbed' = FALSE
          /\ UNCHANGED metadata
    /\ UNCHANGED fresh

(* The second read keeps the new metadata, whatever its outcome.           *)
Reread ==
    /\ pc = "reread"
    /\ \/ ReadSucceeds /\ Return("ok") /\ UNCHANGED undisturbed
       \/ Return("error") /\ undisturbed' = FALSE
       \/ Succeeds /\ ~ReadSucceeds /\ Return("error") /\ UNCHANGED undisturbed
    /\ UNCHANGED <<metadata, fresh, discoveries>>

(* refresh accepts a result only before its deadline and while the service *)
(* runs, publishes it under the lock, and resets the timer.                *)
Accepted_Late == result = "ok" /\ ~canceled
Accepted == result = "ok" /\ now < Deadline /\ ~canceled

Finish ==
    /\ pc = "return" /\ pc' = "idle"
    /\ pub' = IF Accepted
              THEN [err |-> FALSE, at |-> now, began |-> startAt]
              ELSE [pub EXCEPT !.err = TRUE]
    /\ timerAt' = now + Interval
    /\ UNCHANGED <<envVars, startAt, collectVars, undisturbed>>

Next ==
    \/ Tick \/ HardwareChange \/ Cancel
    \/ BeginRefresh \/ CollectMPT3
    \/ Discover \/ Read \/ ReadError \/ Rediscover \/ Reread
    \/ Finish

Spec == Init /\ [][Next]_vars

-----------------------------------------------------------------------------
(* The single expiry rule, and what snapshot() answers.  Disabled is an    *)
(* authoritative empty inventory.                                          *)
Stale_NoBudget == now >= pub.at + Interval
Stale == now >= pub.at + Interval + Timeout
Answer == CASE mode = "disabled" -> "empty"
            [] mode = "enabled" /\ pub.err -> "error"
            [] mode = "enabled" /\ ~pub.err /\ Stale -> "expired"
            [] OTHER -> "readings"

(* Temperatures that are served were asked for at most one interval and    *)
(* two collection budgets ago, however long a backend call blocks and      *)
(* however late its result comes.                                          *)
ServedAgeBounded ==
    Answer = "readings" => now < pub.began + Interval + 2 * Timeout

(* After a success nothing expires while the next collection keeps to its  *)
(* deadline: the expiry rule leaves room for the interval and the budget.  *)
HealthyNeverExpires ==
    ~canceled /\ (pc = "idle" \/ now < Deadline) => Answer # "expired"

(* Rediscovery heals: a collection whose commands all work, on controllers *)
(* that stay as they are, succeeds with whatever metadata earlier          *)
(* collections have left, however they ended.                              *)
UndisturbedSucceeds == pc = "return" /\ undisturbed => result = "ok"

(* "Rediscover at most once per collection" (hba_storcli.go).              *)
OneDiscovery == discoveries <= 1

=============================================================================
