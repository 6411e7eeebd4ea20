--------------------------- MODULE MCHbaIdentity ---------------------------
(* The instance of HbaIdentity: card a has a SAS address, b has none, c    *)
(* repeats a's (a cloned flash image) and d is driven by megaraid_sas;     *)
(* b has no temperature probe.                                             *)
EXTENDS HbaIdentity, TLC

CONSTANTS a, b, c, d, addr

MCCard == {a, b, c, d}
MCSAS == (a :> addr) @@ (b :> NoSAS) @@ (c :> addr) @@ (d :> NoSAS)
MCDriver == (a :> "mpt3sas") @@ (b :> "mpt3sas") @@ (c :> "mpt3sas") @@ (d :> "megaraid_sas")
MCProbed == {a, c, d}

=============================================================================
