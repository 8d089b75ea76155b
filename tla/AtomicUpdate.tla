---------------------------- MODULE AtomicUpdate ----------------------------
(***************************************************************************)
(* What a system update promises (README.md "Rollback both ways"): there   *)
(* is always one installed system definition, the one the next boot runs;  *)
(* an update replaces it in a single step by a package that was delivered  *)
(* and has a higher generation, and nothing else changes it, until the     *)
(* device does damage.                                                     *)
(***************************************************************************)
EXTENDS Integers

CONSTANTS Packages, Gen,
          Factory     \* the definition the volume was formatted with

VARIABLES installed, delivered, damaged

updateVars == <<installed, delivered, damaged>>

Init == installed = Factory /\ delivered = {} /\ damaged = FALSE

Deliver(p) == /\ ~damaged
              /\ delivered' = delivered \cup {p}
              /\ UNCHANGED <<installed, damaged>>

Install(p) == /\ ~damaged
              /\ p \in delivered /\ Gen[p] > Gen[installed]
              /\ installed' = p
              /\ UNCHANGED <<delivered, damaged>>

(* From here on nothing is promised, and it stays so. *)
Damage == damaged' = TRUE

Next == Damage \/ \E p \in Packages : Deliver(p) \/ Install(p)

Spec == Init /\ [][Next]_updateVars
=============================================================================
