--------------------------- MODULE MCFallbackPool ---------------------------
(***************************************************************************)
(* Instances of FallbackPool: the inventories and command durations that   *)
(* the configurations choose from.                                         *)
(***************************************************************************)
EXTENDS FallbackPool

(* Disks appear, disappear and change places between collections.          *)
ChangingInventories == {<<>>, <<"a">>, <<"a", "h", "b">>, <<"b", "u", "a">>,
                        <<"h", "b", "a", "u">>, <<"a", "b", "h", "c", "u">>}
AnyDuration == [d \in Disk |-> {0, 1, 3}]

=============================================================================
