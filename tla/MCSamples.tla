----------------------------- MODULE MCSamples -----------------------------
(* The instance of Samples: rotational disks, and an SSD that its device   *)
(* name classifies against its transport; an HBA with either probe, with   *)
(* both, or of a guest that knows of none.                                 *)
EXTENDS Samples

MCGuests == {[disks |-> 2, hbas |-> 0], [disks |-> 0, hbas |-> 1]}

Hard  == [rotational |-> TRUE,  transport |-> "sata", nvme |-> FALSE]
Solid == [rotational |-> FALSE, transport |-> "sata", nvme |-> TRUE]
Read(is, temp) == [is |-> is, temp |-> temp, unavailable |-> FALSE]
Lost(is) == [is |-> is, temp |-> 0, unavailable |-> TRUE]

MCDiskReadings == {Read(Hard, -5), Read(Hard, 40), Lost(Hard), Read(Solid, 40)}
MCHbaReadings ==
    {[ioc |-> NoReading, board |-> NoReading, legacy |-> 55],
     [ioc |-> 55, board |-> NoReading, legacy |-> 55],
     [ioc |-> NoReading, board |-> 45, legacy |-> 45],
     [ioc |-> 55, board |-> 45, legacy |-> 55]}

=============================================================================
