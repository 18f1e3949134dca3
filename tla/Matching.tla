------------------------------- MODULE Matching --------------------------------
(***************************************************************************)
(* Whether an advisory applies to a detected version.  An NVD record is a    *)
(* sequence of applicability statements.  The clients evaluate it either as *)
(* NVD answers it (cve/applies.go, lib/nvd.ts) or from the prebuilt          *)
(* database (cve/lookup.go, lib/db.ts), where the builder stored what names *)
(* a known product, statement by statement (wappacvelyze-db/nvd.go).  A feed *)
(* that fails after the record is read again from its beginning.            *)
(* Definitions named Faulty... stand before the definitions they would       *)
(* replace: plausible mistakes that the properties below must notice.        *)
(***************************************************************************)
EXTENDS CpeName, FiniteSetsExt

CONSTANTS Products,     \* "vendor:product" keys that the database has
          Others,       \* keys of other products
          Versions,     \* version numbers that can be compared, see below
          Incomparable, \* version texts that cannot
          Wildcard,     \* the version "*"
          Absent,       \* a bound that is not given
          Records,      \* NVD records
          Texts,        \* version texts as detected, as characters
          CycleNames,   \* names of release cycles, as characters
          CycleLists    \* lists of names of release cycles

\* A version number: its numeric segments, and its pre-release as character codes.
ASSUME VersionsAssumption ==
  \A v \in Versions : /\ v.segments \in Seq(Nat) /\ v.prerelease \in Seq(Nat)
ASSUME DistinctAssumption ==
  /\ Products \cap Others = {} /\ Versions # {}
  /\ Versions \cap Incomparable = {}
  /\ Wildcard \notin Versions \cup Incomparable /\ Absent \notin Versions \cup Incomparable

Bounds == Versions \cup Incomparable \cup {Absent}

\* What is stored of a statement; also the range that an applicable statement is reported
\* with.
Matches ==
  [version : Versions \cup Incomparable \cup {Wildcard},
   startIncluding : Bounds, startExcluding : Bounds, endIncluding : Bounds, endExcluding : Bounds]
\* A statement's product is the key made of its CPE name.
Statements == [product : Products \cup Others, vulnerable : BOOLEAN, match : Matches]
ASSUME RecordsAssumption == Records \subseteq Seq(Statements) /\ <<>> \in Texts
ASSUME TextsAssumption == \A t \in Texts \cup CycleNames : t \in Seq(Range(t))
ASSUME CyclesAssumption == CycleLists \subseteq Seq(CycleNames) /\ Absent \notin CycleNames

VARIABLES record,    \* the NVD record
          at,        \* statements of it that this reading of the feed has ingested
          stored,    \* each product's matches for the record in the database
          detected,  \* the version of the detected technology
          text       \* how it was written

vars == <<record, at, stored, detected, text>>

--------------------------------------------------------------------------------
(* The order of versions *)

Segment(v, i) == IF i \in DOMAIN v.segments THEN v.segments[i] ELSE 0

SegmentsBefore(v, w) ==
  \E i \in DOMAIN v.segments \cup DOMAIN w.segments :
    /\ Segment(v, i) < Segment(w, i)
    /\ \A j \in 1..(i - 1) : Segment(v, j) = Segment(w, j)

\* The order of strings.
TextBefore(p, q) ==
  \/ Len(p) < Len(q) /\ p = SubSeq(q, 1, Len(p))
  \/ \E i \in DOMAIN p \cap DOMAIN q :
       p[i] < q[i] /\ \A j \in 1..(i - 1) : p[j] = q[j]

FaultyPrereleaseBefore(p, q) == q = <<>> \/ TextBefore(p, q)

\* A pre-release comes before the release.
PrereleaseBefore(p, q) == p # <<>> /\ (q = <<>> \/ TextBefore(p, q))

Before(v, w) ==
  \/ SegmentsBefore(v, w)
  \/ ~SegmentsBefore(w, v) /\ PrereleaseBefore(v.prerelease, w.prerelease)

Same(v, w) == ~SegmentsBefore(v, w) /\ ~SegmentsBefore(w, v) /\ v.prerelease = w.prerelease

--------------------------------------------------------------------------------
(* Ranges *)

Comparable(bound) == bound \in Versions

\* rangeApplies: some bound is given, and each that is given can be compared and holds.
RangeApplies(match, v) ==
  /\ \E b \in {"startIncluding", "startExcluding", "endIncluding", "endExcluding"} : match[b] # Absent
  /\ match.startIncluding # Absent =>
       Comparable(match.startIncluding) /\ ~Before(v, match.startIncluding)
  /\ match.startExcluding # Absent =>
       Comparable(match.startExcluding) /\ Before(match.startExcluding, v)
  /\ match.endIncluding # Absent =>
       Comparable(match.endIncluding) /\ ~Before(match.endIncluding, v)
  /\ match.endExcluding # Absent =>
       Comparable(match.endExcluding) /\ Before(v, match.endExcluding)

\* Without product and vulnerability, what applies and matchApplies check.
MatchApplies(match, v) ==
  IF match.version = Wildcard THEN RangeApplies(match, v)
                         ELSE Comparable(match.version) /\ Same(match.version, v)

\* inLibraryRange, for the advisories of Retire.js.
InLibraryRange(atOrAbove, below, v) ==
  /\ atOrAbove # Absent => Comparable(atOrAbove) /\ ~Before(v, atOrAbove)
  /\ below # Absent => Comparable(below) /\ Before(v, below)
  /\ atOrAbove # Absent \/ below # Absent

--------------------------------------------------------------------------------
(* Release cycles *)

Dot == "."

FaultyInCycle(raw, name) == IsPrefix(name, raw)

\* "8.1.12" is a version of cycle "8.1".
InCycle(raw, name) == raw = name \/ IsPrefix(Append(name, Dot), raw)

\* lifecycleFor: of the cycles with the longest name the first in the list.
CycleFor(cycles, raw) ==
  LET Longer(best, name) ==
        IF InCycle(raw, name) /\ (best = Absent \/ Len(name) > Len(best)) THEN name ELSE best
  IN FoldLeft(Longer, Absent, cycles)

--------------------------------------------------------------------------------
(* The live path and the stored one *)

NotAffected == [match |-> Absent]
Affected(match) == [match |-> match]

Names(statement, p) == statement.vulnerable /\ statement.product = p

\* applicableRange: the first statement of NVD's answer that covers version v of product p.
LiveRange(nvd, p, v) ==
  LET covering == {i \in DOMAIN nvd : Names(nvd[i], p) /\ MatchApplies(nvd[i].match, v)}
  IN IF covering = {} THEN NotAffected ELSE Affected(nvd[Min(covering)].match)

\* databaseVulnerabilities, for the matches of one record.
StoredRange(matches, v) ==
  LET covering == {i \in DOMAIN matches : MatchApplies(matches[i], v)}
  IN IF covering = {} THEN NotAffected ELSE Affected(matches[Min(covering)])

FaultyAdded(matches, statement, p) ==
  IF statement.product = p /\ ~Contains(matches, statement.match)
    THEN Append(matches, statement.match) ELSE matches

\* What ingestRecord does for one statement to the matches of product p.
Added(matches, statement, p) ==
  IF Names(statement, p) /\ ~Contains(matches, statement.match)
    THEN Append(matches, statement.match)
    ELSE matches

TypeOK ==
  /\ record \in Seq(Statements)
  /\ at \in 0..Len(record)
  /\ stored \in [Products -> Seq(Matches)]
  /\ detected \in Versions
  /\ text \in Texts

AnyVersion == CHOOSE v \in Versions : TRUE

\* A record to be ingested, or a version to be named.
Init ==
  /\ \/ record \in Records /\ detected \in Versions /\ text = <<>>
     \/ record = <<>> /\ detected = AnyVersion /\ text \in Texts
  /\ at = 0
  /\ stored = [p \in Products |-> <<>>]

IngestStatement ==
  /\ at < Len(record)
  /\ at' = at + 1
  /\ stored' = [p \in Products |-> Added(stored[p], record[at + 1], p)]
  /\ UNCHANGED <<record, detected, text>>

\* The feed fails after this record and is read again.
ReadAgain ==
  /\ at > 0 /\ at = Len(record)
  /\ at' = 0
  /\ UNCHANGED <<record, stored, detected, text>>

Next == IngestStatement \/ ReadAgain

Spec == Init /\ [][Next]_vars

--------------------------------------------------------------------------------
(* Properties *)

\* A record that has been ingested, in one reading of the feed or in several, says of every
\* version of a known product what it says when NVD is asked: whether it is affected, and
\* by which range (lookup.go: "exactly as the live NVD path does").
StoredPathIsLivePath ==
  at = Len(record) => \A p \in Products :
    StoredRange(stored[p], detected) = LiveRange(record, p, detected)

\* The bounds that occur in the record.
Mentioned ==
  {record[i].match[b] : i \in DOMAIN record,
     b \in {"startIncluding", "startExcluding", "endIncluding", "endExcluding"}}

\* The order of versions is one that ranges can be built on: of two versions exactly one is
\* earlier, or they are the same, and what is before a later version is before the latest
\* (lib/version.ts: implicit zero segments, pre-releases before their release).
OrderIsTotal ==
  \A v, w \in Mentioned \cap Versions :
    /\ Cardinality({i \in 1..3 : <<Before(v, w), Same(v, w), Before(w, v)>>[i]}) = 1
    /\ Before(detected, v) /\ Before(v, w) => Before(detected, w)
    /\ Same(detected, v) /\ Before(v, w) => Before(detected, w)

\* A name keeps its 13 fields whatever the version contains, and clients and builder, which
\* have their own copies of the code, read the version back from it as it was, with the
\* command line's list of characters to quote and with the extension's (CPEWithVersion,
\* splitCPE, cpeUnescape, unescape).
Product == Join([i \in 1..FieldCount |-> <<"*">>])
VersionSurvivesName ==
  text # <<>> => \A quoted \in {Reserved, Range(text) \ Literals} :
    LET fields == SplitCPE(CPEWithVersion(Product, text, quoted))
    IN /\ Len(fields) = FieldCount
       /\ Unescape(fields[VersionField]) = text /\ BuilderUnescape(fields[VersionField]) = text

\* The segments of a version's text.
Segments(raw) ==
  LET dots == {i \in DOMAIN raw : raw[i] = Dot} \cup {0, Len(raw) + 1}
      After(i) == Min({j \in dots : j > i})
  IN {<<Cardinality({j \in dots : j < i}), SubSeq(raw, i + 1, After(i) - 1)>> :
        i \in dots \ {Len(raw) + 1}}

\* The cycle of a version, in whatever order the cycles are listed, is the one that shares
\* most segments with it, all of its own: 8.10 is no version of cycle 8.1, and is one of 8
\* only where there is no cycle 8.10 (lifecycleFor).
CycleIsClosest ==
  text # <<>> => \A cycles \in CycleLists :
    LET fitting == {name \in Range(cycles) : Segments(name) \subseteq Segments(text)}
        cycle == CycleFor(cycles, text)
    IN IF fitting = {} THEN cycle = Absent
       ELSE cycle \in fitting /\ \A name \in fitting : Segments(name) \subseteq Segments(cycle)
================================================================================
