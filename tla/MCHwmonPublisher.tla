-------------------------- MODULE MCHwmonPublisher --------------------------
(* HwmonPublisher on two disks and one HBA sensor.                         *)
EXTENDS HwmonPublisher

CONSTANTS d1, d2, h1, la, lb

Topo(S, l) == [s \in {d1, d2, h1} |-> IF s \in S THEN l ELSE Absent]

MCGuestTopologies ==
    [f \in {"disk", "hba"} |->
        IF f = "disk" THEN {Topo({d1}, la), Topo({d1, d2}, lb)}
                      ELSE {Topo({}, la), Topo({h1}, la)}]
=============================================================================
