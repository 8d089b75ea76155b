------------------------------ MODULE MCVolume ------------------------------
(* Instances of the system volume for TLC: three generations, any of which  *)
(* may be staged at any time, and a package sealed for another volume.      *)
EXTENDS Volume

SomePackages == {"factory", "new", "newer", "foreign"}
ThreeGenerations == {"factory", "new", "newer"}

Generation(p) == CASE p = "factory" -> 1 [] p = "new" -> 2 [] OTHER -> 3

SomeGens == [p \in SomePackages |-> Generation(p)]
ThreeGens == [p \in ThreeGenerations |-> Generation(p)]
AllButForeign == SomePackages \ {"foreign"}
=============================================================================
