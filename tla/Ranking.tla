-------------------------------- MODULE Ranking --------------------------------
(***************************************************************************)
(* The list of vulnerabilities of an assessment (cve/lookup.go,              *)
(* cve/classify.go; lib/db.ts and lib/classify.ts are the same): the records *)
(* that apply are collected in the random order of a Go map, or in the order *)
(* NVD answers them; the library advisories that apply are merged in; the    *)
(* KEV catalog marks those that are exploited; the list is sorted by urgency *)
(* and its first entry is what the command line shows (output.go).          *)
(***************************************************************************)
EXTENDS Matching

CONSTANTS Found,       \* the sets of records that may apply, each with distinct ids
          Advised,     \* the lists of advisories that a library may have
          Listings,    \* the sets of ids that the KEV catalog may have
          NoId

\* Ids are numbered in the order of their texts.
Vulnerabilities == [id : Nat, kev : BOOLEAN, exploits : BOOLEAN, epss : Nat, score : Nat]
\* Advisories of a library, with the bounds of the range that is affected.
Advisories ==
  [cves : Seq(Nat), ghsa : Nat \cup {NoId}, own : Nat, atOrAbove : Bounds, below : Bounds]
ASSUME RankingAssumption ==
  /\ \A found \in Found : found \subseteq Vulnerabilities /\ \A v, w \in found : v.id = w.id => v = w
  /\ Advised \subseteq Seq(Advisories) /\ NoId \notin Nat

VARIABLES pending,     \* records that apply and are not yet collected
          live,        \* they are NVD's own, without KEV, exploit or EPSS data
          collected,   \* those that are, in order
          advisories, listed,
          assessed     \* the list, in brackets once there is one

rankVars == <<pending, live, collected, advisories, listed, assessed>>

RankInit ==
  /\ pending \in Found
  /\ live \in BOOLEAN
  /\ live => \A v \in pending : ~v.kev /\ ~v.exploits /\ v.epss = 0
  /\ advisories \in Advised /\ listed \in Listings
  /\ collected = <<>> /\ assessed = <<>>

\* databaseVulnerabilities or VulnerabilitiesFor finds the next record that applies.
Collect(v) ==
  /\ v \in pending
  /\ pending' = pending \ {v} /\ collected' = Append(collected, v)
  /\ UNCHANGED <<live, advisories, listed, assessed>>

\* What sort.SliceStable makes of a list, one element after the other: each goes before the
\* first of those that it must come before.
Inserted(sorted, v, order) ==
  LET later == {i \in DOMAIN sorted : <<v, sorted[i]>> \in order}
  IN IF later = {} THEN Append(sorted, v) ELSE InsertAt(sorted, Min(later), v)

Sorted(list, order) == FoldLeft(LAMBDA sorted, v : Inserted(sorted, v, order), <<>>, list)

\* libraryVulnerability: only the first CVE of an advisory counts; `own` is the id that is
\* made of the library's key and the advisory's number.
LibraryVulnerability(advisory) ==
  [id |-> IF advisory.cves # <<>> THEN Head(advisory.cves)
          ELSE IF advisory.ghsa # NoId THEN advisory.ghsa ELSE advisory.own,
   kev |-> FALSE, exploits |-> FALSE, epss |-> 0, score |-> 0]

\* libraryVulnerabilities: those of the advisories whose range the detected version is in.
LibraryVulnerabilities ==
  FoldLeft(LAMBDA vulns, advisory :
             IF InLibraryRange(advisory.atOrAbove, advisory.below, detected)
               THEN Append(vulns, LibraryVulnerability(advisory)) ELSE vulns,
           <<>>, advisories)

FaultyMergeVulnerabilities(list, more) ==
  FoldLeft(LAMBDA merged, v : IF \E w \in Range(merged) : w.id = v.id THEN merged ELSE Append(merged, v),
           <<>>, more \o list)

\* The first occurrence of each id is kept.
MergeVulnerabilities(list, more) ==
  FoldLeft(LAMBDA merged, v : IF \E w \in Range(merged) : w.id = v.id THEN merged ELSE Append(merged, v),
           <<>>, list \o more)

FaultyUrgency(v) ==
  <<IF v.kev THEN 1 ELSE 0, IF v.exploits THEN 1 ELSE 0, v.epss, v.score>>

Urgency(v) ==
  <<IF v.kev THEN 1 ELSE 0, IF v.exploits THEN 1 ELSE 0, v.epss, v.score, v.id>>

MoreUrgent(v, w) ==
  \E i \in DOMAIN Urgency(v) :
    /\ Urgency(v)[i] > Urgency(w)[i]
    /\ \A j \in 1..(i - 1) : Urgency(v)[j] = Urgency(w)[j]

ByUrgency(list) == {pair \in Range(list) \X Range(list) : MoreUrgent(pair[1], pair[2])}
ById(list) == {pair \in Range(list) \X Range(list) : pair[1].id < pair[2].id}

\* Classify marks what the catalog lists and sorts.
Ranked(list) ==
  LET marked == [i \in DOMAIN list |-> [list[i] EXCEPT !.kev = @ \/ list[i].id \in listed]]
  IN Sorted(marked, ByUrgency(marked))

\* Only what comes from the database is sorted by id first.
Assess ==
  /\ pending = {} /\ assessed = <<>>
  /\ LET found == IF live THEN collected ELSE Sorted(collected, ById(collected))
     IN assessed' = <<Ranked(MergeVulnerabilities(found, LibraryVulnerabilities))>>
  /\ UNCHANGED <<pending, live, collected, advisories, listed>>

RankNext == (\E v \in pending : Collect(v)) \/ Assess

\* The list of the version that was detected.
RankSpec ==
  /\ RankInit /\ detected \in Versions
  /\ [][RankNext /\ UNCHANGED detected]_<<rankVars, detected>>

\* detail: what is shown of a list, the id of its first entry and where its link leads.
Detail(list) ==
  [id |-> Head(list).id, link |-> IF Head(list).kev THEN "catalog" ELSE "advisory"]

--------------------------------------------------------------------------------
(* Properties *)

\* The advisories that apply, by the rule for statements of NVD (rangeApplies).
LibraryIds ==
  {LibraryVulnerability(advisories[i]).id : i \in {j \in DOMAIN advisories :
     RangeApplies([version |-> Wildcard, startIncluding |-> advisories[j].atOrAbove, startExcluding |-> Absent,
                   endIncluding |-> Absent, endExcluding |-> advisories[j].below], detected)}}

\* Whatever order the records were found in, the list has every vulnerability once and in an
\* order that leaves nothing to chance: each is more urgent than all after it; and the two
\* forms in which ranges are given mean the same (databaseVulnerabilities, inLibraryRange,
\* mergeVulnerabilities, moreUrgent).
RankedOnce ==
  assessed # <<>> =>
    LET list == assessed[1]
    IN /\ \A i, j \in DOMAIN list : i < j => MoreUrgent(list[i], list[j]) /\ ~MoreUrgent(list[j], list[i])
       /\ {list[i].id : i \in DOMAIN list} = {v.id : v \in Range(collected)} \cup LibraryIds

\* A library advisory never hides what the database or the catalog knows of the same id, and a
\* technology with an exploited vulnerability shows one, with the link to the catalog
\* ("so their EPSS and KEV data win over a Retire.js duplicate"; detail).
RecordsWin ==
  assessed # <<>> =>
    LET list == assessed[1]
    IN /\ \A v \in Range(collected) : [v EXCEPT !.kev = @ \/ v.id \in listed] \in Range(list)
       /\ (\E v \in Range(list) : v.kev \/ v.id \in listed) =>
            LET shown == Detail(list)
            IN /\ shown.link = "catalog"
               /\ shown.id \in listed \cup {v.id : v \in {w \in Range(collected) : w.kev}}
================================================================================
