------------------------------ MODULE MCSpaces ------------------------------
(* Instances of AddressSpaces for TLC. *)
EXTENDS AddressSpaces

TwoRegions == << <<1, 24>>, <<25, 44>> >>
TouchingRegions == << <<1, 19>>, <<19, 44>> >>
=============================================================================
