------------------------------ MODULE MCScanRun -------------------------------
(* Two targets: on one a, a library which as a product only NVD knows, on the other b, an
   end-of-life product which both the database and NVD have. *)
EXTENDS ScanRun, TLC
CONSTANTS a, b, n1, n2, v1, v2, p1, p2
MCTechnologies == {a, b}
MCNames == {n1, n2}
MCRecords == {v1, v2}
MCAbout ==
  (a :> [usable |-> TRUE, name |-> n1, product |-> FALSE, records |-> {}, lifecycle |-> "none",
         library |-> TRUE, advisories |-> {}])
  @@ (b :> [usable |-> TRUE, name |-> n2, product |-> TRUE, records |-> {v2}, lifecycle |-> "eol",
            library |-> FALSE, advisories |-> {}])
MCAnswers == (n1 :> <<{}, {v1}>>) @@ (n2 :> <<{v2}>>)
MCTargets == <<(<<a>>), (<<b>>)>>
MCCatalogs == <<{}, {v1}>>
MCMarked == {v2}
MCProcs == {p1, p2}
MCOptions == {[cve |-> TRUE, db |-> TRUE, threshold |-> 4], [cve |-> TRUE, db |-> FALSE, threshold |-> 0],
              [cve |-> FALSE, db |-> FALSE, threshold |-> 5]}
Symmetric == Permutations(MCProcs)

\* Bound: NVD changes an answer or CISA publishes a catalog.
MCNext == Next /\ (published' = <<>> \/ \A n \in Names : replaced'[n] = <<>>)
MCSpec == Init /\ [][MCNext]_vars
================================================================================
