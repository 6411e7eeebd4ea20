--------------------------- MODULE PolicyRegister ---------------------------
(***************************************************************************)
(* What the control API promises its clients about the disk policies: one  *)
(* table that changes only by whole requests, each at one instant between  *)
(* its call and its reply.  A successful reply means that the request took *)
(* effect; after an error, or no reply at all, it may or may not have.  A  *)
(* power loss may bring back a table of the recent past, and no other.     *)
(***************************************************************************)
CONSTANTS Disk, Client,
          Ops           \* the requests a client may send

VARIABLES policies,     \* the policy of each disk
          past,         \* the tables that a power loss may bring back
          call          \* the open call of each client and the reply it gets

vars == <<policies, past, call>>

AllAuto == [d \in Disk |-> "auto"]
NoCall == [op |-> [kind |-> "none"], applied |-> FALSE, reply |-> "none", answer |-> AllAuto]
Open(c) == call[c].op.kind # "none"

Effect(op, p) ==
    CASE op.kind = "set"   -> [p EXCEPT ![op.disk] = op.policy]
      [] op.kind = "reset" -> AllAuto
      [] OTHER             -> p

Init ==
    /\ policies \in [Disk -> {"auto", "include", "exclude"}] /\ past = {policies}
    /\ call = [c \in Client |-> NoCall]

Invoke(c) ==
    /\ ~Open(c)
    /\ \E op \in Ops : call' = [call EXCEPT ![c] = [NoCall EXCEPT !.op = op]]
    /\ UNCHANGED <<policies, past>>

(* The instant a request takes effect; a list sees the table as it is.      *)
Apply(c) ==
    /\ Open(c) /\ ~call[c].applied /\ call[c].reply = "none"
    /\ policies' = Effect(call[c].op, policies) /\ past' = past \cup {policies'}
    /\ call' = [call EXCEPT ![c].applied = TRUE,
                            ![c].answer = IF call[c].op.kind = "list" THEN policies ELSE @]

Decide(c) ==
    /\ Open(c) /\ call[c].reply = "none"
    /\ \E r \in {"ok", "error"} :
          /\ r = "ok" => call[c].applied
          /\ call' = [call EXCEPT ![c].reply = r]
    /\ UNCHANGED <<policies, past>>

Reply(c) ==
    /\ Open(c) /\ call[c].reply # "none"
    /\ call' = [call EXCEPT ![c] = NoCall]
    /\ UNCHANGED <<policies, past>>

(* The present table is on disk.                                           *)
Settle ==
    /\ past' = {policies}
    /\ UNCHANGED <<policies, call>>

(* The service goes down, alone or with the machine: open calls are never  *)
(* answered.                                                               *)
Down ==
    /\ call' = [c \in Client |-> NoCall]
    /\ \/ UNCHANGED <<policies, past>>
       \/ policies' \in past /\ past' = {policies'}

Next == Settle \/ Down \/ \E c \in Client : Invoke(c) \/ Apply(c) \/ Decide(c) \/ Reply(c)

Spec == Init /\ [][Next]_vars

=============================================================================
