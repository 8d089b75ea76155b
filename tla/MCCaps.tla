------------------------------- MODULE MCCaps -------------------------------
(* The two boot tasks, with one endpoint and the disk: console serves its  *)
(* endpoint, initfs holds a delegable client handle to it and the disk.    *)
EXTENDS Caps

AllRights == {"r", "w", "g"}
Endpoint(rights) == [kind |-> "endpoint", obj |-> 1, lo |-> 0, len |-> 0, rights |-> rights]
Disk == [kind |-> "block", obj |-> 1, lo |-> 0, len |-> Sectors, rights |-> AllRights]

ConsoleAndInitfs ==
    << [s \in TableSlots |-> IF s = 1 THEN Endpoint(AllRights) ELSE NoCap],
       [s \in TableSlots |-> CASE s = 1 -> Endpoint({"w", "g"})
                               [] s = 2 -> Disk
                               [] OTHER -> NoCap] >>

SomeMasks == {{"r", "g"}, {"w"}}
=============================================================================
