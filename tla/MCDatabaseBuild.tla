---------------------------- MODULE MCDatabaseBuild ----------------------------
(* Two feeds; the second has two later editions, one longer and one shorter, which may
   replace it before or while it is read.  r2 names no product of the fingerprints.  The
   sources spell ids in both cases, name a record twice, a record that is not stored or none,
   and list a product twice; the repositories have a library without advisories, aliases that
   are other names of technologies, and two libraries of one name. *)
EXTENDS DatabaseBuild
CONSTANTS r1, r2, r3, r4, r5, r6
MCRecords == {r1, r2, r3, r4, r5, r6}
MCEditions ==
  <<(<<(<<r1, r2>>)>>), (<<(<<r3, r4, r5>>), (<<r3, r6, r4, r5>>), (<<r6>>)>>)>>
MCNames == [r \in MCRecords |-> CASE r = r1 -> {"a", "b"} [] r = r2 -> {"x"} [] OTHER -> {"a"}]

App(slug, trimmed, override, product) ==
  [slug |-> slug, trimmed |-> trimmed, override |-> override, product |-> product]
MCApps ==
  {App("jquery", "jquery", <<>>, "a"), App("momentjs", "moment", <<>>, "b"),
   App("angular", "angular", <<None>>, "b"), App("jqueryui", "jqueryui", <<"jquery-ui">>, "b"),
   App("vuejs", "vue", <<>>, None)}

Id(r, upper) == [id |-> r, upper |-> upper]
Kev(r, upper, name) == [id |-> r, upper |-> upper, name |-> name]
Score(r, upper, score) == [id |-> r, upper |-> upper, score |-> score]
Cpe(key) == [type |-> "cpe", key |-> key]
Product(name, identifiers) == [name |-> name, identifiers |-> identifiers]
Library(name, slug, aliases, advised) ==
  [name |-> name, slug |-> slug, aliases |-> aliases, advised |-> advised]
MCAnswers ==
  <<{(<<>>), (<<Kev(r1, FALSE, "k1"), Kev(r3, TRUE, "k2"), Kev(r1, TRUE, "k3")>>),
      (<<Kev(r2, TRUE, "k1"), Kev(r6, FALSE, "k2")>>)},
    {(<<>>), (<<Score(r1, TRUE, 1), Score(r3, FALSE, 2), Score(r2, TRUE, 3), Score(r1, TRUE, 4)>>)},
    {(<<>>), (<<Id(r1, FALSE), Id(r4, TRUE), Id(r1, TRUE)>>)},
    {(<<>>), (<<Id(r1, TRUE), Id(r4, FALSE), Id(r1, TRUE)>>)},
    {(<<>>), (<<Product("p1", {Cpe("a"), Cpe("x")}), Product("p2", {Cpe("a"), [type |-> "purl", key |-> "b"]})>>)},
    {{Library("jquery", "jquery", {"jquery"}, TRUE), Library("jquery-ui", "jqueryui", {"jquery", "momentjs"}, TRUE),
      Library("momentjs", "momentjs", {}, FALSE), Library("moment", "moment", {}, TRUE)},
     {Library("jquery", "jquery", {}, FALSE), Library("jquery.js", "jqueryjs", {"jquery"}, TRUE),
      Library("Moment", "moment", {"moment"}, TRUE), Library("moment.", "moment", {"momentjs"}, TRUE)}}>>
================================================================================
