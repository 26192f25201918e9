----------------------------- MODULE MCDesktop -----------------------------
(* Instances of Desktop for TLC: a vault in ~/.atom_vault and one elsewhere, *)
(* and two host files to import.                                           *)
EXTENDS Desktop

Picked == {"f1", "g1"}
NameOf == [f \in Picked |-> IF f = "f1" THEN "f" ELSE "g"]
=============================================================================
