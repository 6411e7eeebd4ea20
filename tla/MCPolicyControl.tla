-------------------------- MODULE MCPolicyControl --------------------------
(***************************************************************************)
(* The requests of the PolicyControl instance: they treat all disks alike. *)
(***************************************************************************)
EXTENDS PolicyControl, TLC

AllKinds == [kind : {"set"}, disk : Disk, policy : {"include"}] \cup [kind : {"reset", "list"}]

DisksAndClients == Permutations(Disk) \cup Permutations(Client)

=============================================================================
