---------------------------- MODULE MCInventory ----------------------------
(* The instance of Inventory: the array's rows are names 1 and 2, the      *)
(* unassigned ones 1, 3 and 4; sda hangs off a PCI controller, sdb off a   *)
(* USB hub, and sdc's sysfs links cannot be followed.                      *)
EXTENDS Inventory, TLC

CONSTANTS sda, sdb, sdc

MCDevice == {sda, sdb, sdc}
MCAncestors ==
    (sda :> [found |-> TRUE, links |-> <<"other", "absent", "other">>]) @@
    (sdb :> [found |-> TRUE, links |-> <<"other", "usb", "broken">>]) @@
    (sdc :> [found |-> TRUE, links |-> <<"other", "broken", "usb">>])

Raw(b, p) == [base |-> b, prefixed |-> p]
Plain == {Raw(b, FALSE) : b \in {sda, sdb, NoDevice}}

MCUnassignedRows ==
    [name : {1, 3, 4}, id : {1}, raw : Plain, thermal : {TRUE}]
        \cup [name : {3}, id : {NoID}, raw : {Raw(sda, FALSE), Raw(NoDevice, FALSE)}, thermal : {TRUE}]
        \cup [name : {3}, id : {2, 3}, raw : {Raw(sda, TRUE)}, thermal : BOOLEAN]
        \cup [name : {3}, id : {2}, raw : {Raw(sdb, TRUE), Raw(sdc, TRUE)}, thermal : {TRUE}]

MCAssignedRows ==
    [name : {1, 2}, id : {1, 2}, raw : Plain, thermal : {TRUE}, np : {FALSE}]
        \cup [name : {1, 2}, id : {NoID}, raw : {Raw(sda, FALSE)}, thermal : {TRUE}, np : {FALSE}]
        \cup [name : {1}, id : {1, 3}, raw : {Raw(sda, TRUE)}, thermal : {FALSE}, np : BOOLEAN]
        \cup [name : {2}, id : {1, 2}, raw : {Raw(NoDevice, FALSE)}, thermal : {TRUE}, np : {TRUE}]
        \cup [name : {FlashName}, id : {2}, raw : {Raw(sdb, TRUE), Raw(NoDevice, FALSE)},
              thermal : {TRUE}, np : {FALSE}]

MCPolicies ==
    {(1 :> "auto")    @@ (2 :> "auto")    @@ (3 :> "auto"),
     (1 :> "exclude") @@ (2 :> "include") @@ (3 :> "auto"),
     (1 :> "include") @@ (2 :> "auto")    @@ (3 :> "auto")}

=============================================================================
