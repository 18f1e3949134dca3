------------------------------ MODULE Enrichment ------------------------------
(***************************************************************************)
(* What the builder makes of the sources it reads after the NVD feeds       *)
(* (cmd/wappacvelyze-db/enrich.go), as operators on what the database has   *)
(* so far.  `stored` is the set of records in database.Vulnerabilities.     *)
(*                                                                         *)
(* An id as a source spells it is a record with `id`, the record it names,  *)
(* and `upper`, whether it is spelled in upper case as the NVD does.  The   *)
(* names of technologies and libraries appear by their slugs.               *)
(***************************************************************************)
EXTENDS Integers, SequencesExt

CONSTANT None             \* no mark, no product, no library

Unmarked == [kev |-> None, epss |-> 0, exploits |-> <<>>]

\* database.Vulnerabilities[strings.ToUpper(id)] is there.
FoundUpper(stored, spelled) == spelled.id \in stored

\* database.Vulnerabilities[id] is there.
FoundAsIs(stored, spelled) == spelled.id \in stored /\ spelled.upper

\* Faulty variants, named Faulty..., stand before the definitions they would replace;
\* nothing uses them but the mutation runs that show each property can fail.
FaultyMarkTwice(marks, stored, spelled, source) ==
  IF FoundUpper(stored, spelled)
    THEN [marks EXCEPT ![spelled.id].exploits = Append(@, source)]
    ELSE marks

AddExploit(marks, stored, spelled, source) ==
  IF FoundUpper(stored, spelled) /\ source \notin Range(marks[spelled.id].exploits)
    THEN [marks EXCEPT ![spelled.id].exploits = Append(@, source)]
    ELSE marks

\* A later entry of the catalog replaces an earlier one.
IngestKEV(marks, stored, catalog) ==
  FoldLeft(LAMBDA m, entry : IF FoundUpper(stored, entry)
                               THEN [m EXCEPT ![entry.id].kev = entry.name] ELSE m,
           marks, catalog)

\* A score that is not a number is 0.
IngestEPSS(marks, stored, rows) ==
  FoldLeft(LAMBDA m, row : IF FoundAsIs(stored, row)
                             THEN [m EXCEPT ![row.id].epss = row.score] ELSE m,
           marks, rows)

IngestNuclei(marks, stored, entries) ==
  FoldLeft(LAMBDA m, entry : AddExploit(m, stored, entry, "nuclei"), marks, entries)

\* cveReference matches only ids in upper case.
IngestMetasploit(marks, stored, references) ==
  FoldLeft(LAMBDA m, ref : IF ref.upper THEN AddExploit(m, stored, ref, "metasploit") ELSE m,
           marks, references)

\* ingestEndOfLife: products are taken in the order of the answer; only identifiers of type
\* "cpe" count.
Lifecycles(keys, products) ==
  FoldLeft(LAMBDA cycles, product :
             [key \in keys |-> IF [type |-> "cpe", key |-> key] \in product.identifiers
                                 THEN product.name ELSE cycles[key]],
           [key \in keys |-> None], products)

--------------------------------------------------------------------------------
(* ingestRetire.  A repository is read in the random `order` of a Go map; a library is     *)
(* [name, slug, aliases, advised]: its own slug, those of its npm and Bower names, and      *)
(* whether it has advisories.  A technology is [slug, trimmed, override]: `trimmed` is the  *)
(* slug without a final "js", `override` the libraries it is pinned to, if it is.           *)

\* The slugs that a library claims: its own, and those of its aliases.
Slugs(library) == [own |-> {library.slug}, alias |-> library.aliases]

\* The last library with advisories that claims the candidate owns it.
Owner(order, kind, candidate) ==
  LET claimants == {i \in DOMAIN order : order[i].advised /\ candidate \in Slugs(order[i])[kind]}
  IN IF claimants = {} THEN None ELSE order[Max(claimants)].name

FirstLibrary(names) ==
  LET found == {i \in DOMAIN names : names[i] # None}
  IN IF found = {} THEN None ELSE names[Min(found)]

FaultyAliasFirst(technology, order) ==
  FirstLibrary(<<Owner(order, "own", technology.slug), Owner(order, "alias", technology.slug),
                 Owner(order, "own", technology.trimmed), Owner(order, "alias", technology.trimmed)>>)

\* A library's own name wins over an alias, the whole slug over the trimmed one.
MatchLibrary(technology, order) ==
  FirstLibrary(<<Owner(order, "own", technology.slug), Owner(order, "own", technology.trimmed),
                 Owner(order, "alias", technology.slug), Owner(order, "alias", technology.trimmed)>>)

LinkOf(technology, order) ==
  IF technology.override # <<>> THEN technology.override[1] ELSE MatchLibrary(technology, order)

Libraries(order) == {order[i].name : i \in {j \in DOMAIN order : order[j].advised}}
================================================================================
