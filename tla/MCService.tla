----------------------------- MODULE MCService -----------------------------
(***************************************************************************)
(* The worlds of the Service instance.                                     *)
(***************************************************************************)
EXTENDS Service

MCWorlds ==
    [by : {"script"}, crashes : {TRUE}, pidFileFails : BOOLEAN]
        \cup [by : {"hand"}, crashes : BOOLEAN, pidFileFails : {FALSE}]

=============================================================================
