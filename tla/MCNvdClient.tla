------------------------------ MODULE MCNvdClient ------------------------------
(* Two lookups; one send per window without a key, two with it. *)
EXTENDS NvdClient, TLC
CONSTANTS l1, l2, none, key
MCLookups == {l1, l2}
MCKeys == {none, key}
MCBudget == [k \in MCKeys |-> IF k = none THEN 1 ELSE 2]
MCSymmetry == Permutations(MCLookups)
================================================================================
