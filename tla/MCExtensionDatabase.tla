-------------------------- MODULE MCExtensionDatabase --------------------------
(* Two overlapping loads; two URLs, one of which publishes a second version. *)
EXTENDS ExtensionDatabase, TLC
CONSTANTS l1, l2, home, mirror
MCLoads == {l1, l2}
MCUrls == {home, mirror}
MCVersions == 1..3
MCPublisher == [v \in MCVersions |-> IF v = 2 THEN mirror ELSE home]
MCFirst == [u \in MCUrls |-> IF u = home THEN 1 ELSE 2]
MCSymmetry == Permutations(MCLoads)
================================================================================
