---------------------------- MODULE MCDatabaseCache ----------------------------
(* Two processes; they are interchangeable. *)
EXTENDS DatabaseCache, TLC
CONSTANTS p1, p2
MCProcs == {p1, p2}
MCSymmetry == Permutations(MCProcs)
================================================================================
