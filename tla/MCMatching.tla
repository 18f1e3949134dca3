------------------------------ MODULE MCMatching -------------------------------
(* Statements of all kinds about a product and another, in records of up to three; or the
   ranking of up to three records that are alike in some respect, found in any order, with
   library advisories of the same and of other ids; or the analysis of a page, where two
   technologies imply each other. *)
EXTENDS Ranking, Detection, TLC
CONSTANTS p1, p2, na, f1, f2, f3, f4, short, long, longer, stamp
Version(segments, prerelease) == [segments |-> segments, prerelease |-> prerelease]
V1 == Version(<<1>>, <<>>)
V1dot0 == Version(<<1, 0>>, <<>>)
V1rc == Version(<<1>>, <<2>>)
V1rc1 == Version(<<1, 0>>, <<2, 1>>)
V11 == Version(<<1, 1>>, <<>>)
V2beta == Version(<<2>>, <<1, 1>>)
MCVersions == {V1, V1dot0, V1rc, V1rc1, V11, V2beta}
Match(version, from, after, to, below) ==
  [version |-> version, startIncluding |-> from, startExcluding |-> after,
   endIncluding |-> to, endExcluding |-> below]
Between == Match(Wildcard, V1rc, Absent, Absent, V11)
Of(product, vulnerable, match) == [product |-> product, vulnerable |-> vulnerable, match |-> match]
MCStatements ==
  {Of(p1, TRUE, match) : match \in
     {Match(V1dot0, Absent, Absent, Absent, Absent), Match(Wildcard, Absent, Absent, Absent, Absent),
      Match(Wildcard, Absent, V1, V2beta, Absent), Match(Wildcard, na, Absent, Absent, V2beta), Between}}
  \cup {Of(p1, FALSE, Between), Of(p2, TRUE, Between)}
MCRecords == SeqOf(MCStatements, 3)
MCLiterals == {"8", "1", "0", Dot}
MCReserved == {"+", "*", Colon, Backslash}
MCChars == {"1", "+", " ", Colon, Backslash}
MCTexts == SeqOf(MCChars, 4) \cup SeqOf({"8", "1", "0", Dot}, 5)
MCCycleNames == {<<"8">>, <<"1">>, <<"8", Dot, "1">>, <<"8", Dot, "1", "0">>}
MCCycleLists == {<<>>} \cup UNION {SetToSeqs(names) : names \in SUBSET MCCycleNames}

Vulnerability(id, kev, exploits, epss, score) ==
  [id |-> id, kev |-> kev, exploits |-> exploits, epss |-> epss, score |-> score]
Advisory(cves, ghsa, own, from, below) ==
  [cves |-> cves, ghsa |-> ghsa, own |-> own, atOrAbove |-> from, below |-> below]
MCEntries ==
  {Vulnerability(id, "kev" \in marks, "exploit" \in marks, IF "epss" \in marks THEN 3 ELSE 0, 7) :
     id \in {1, 2}, marks \in {{}, {"kev"}, {"exploit"}, {"epss"}}}
  \cup {Vulnerability(3, FALSE, FALSE, 0, score) : score \in {7, 9}}
MCFound ==
  {some \in SUBSET MCEntries : Cardinality(some) <= 3 /\ \A v, w \in some : v.id = w.id => v = w}
MCAdvised ==
  SeqOf({Advisory(<<2>>, NoId, 7, Absent, V11), Advisory(<<4, 1>>, 5, 8, V1, Absent),
         Advisory(<<>>, 5, 8, V1rc, V11), Advisory(<<>>, NoId, 9, na, V2beta), Advisory(<<3>>, NoId, 9, Absent, Absent)}, 2)
MCListings == {{}, {1}, {4}}

MCFingerprints == {f1, f2, f3, f4}
MCImplies == (f1 :> {f2, na}) @@ (f2 :> {f1, f3}) @@ (f3 :> {}) @@ (f4 :> {f3})
MCVersionTexts == {short, long, longer, stamp, NoVersion}
MCLengthOf == (NoVersion :> 0) @@ (short :> 3) @@ (long :> 15) @@ (longer :> 16) @@ (stamp :> 10)
Seen(counts, version) == [counts |-> counts, version |-> version]
MCPages ==
  [MCFingerprints -> {<<>>, <<Seen(FALSE, short)>>, <<Seen(FALSE, long), Seen(TRUE, short)>>,
                      <<Seen(TRUE, stamp), Seen(TRUE, longer)>>}]

NoRanking ==
  /\ pending = {} /\ live = FALSE /\ collected = <<>> /\ advisories = <<>> /\ listed = {}
  /\ assessed = <<(<<>>)>>
NoMatching ==
  /\ record = <<>> /\ at = 0 /\ stored = [p \in Products |-> <<>>]
  /\ detected \in {V1dot0, V1rc} /\ text = <<>>
NoAnalysis ==
  /\ page = [f \in Fingerprints |-> <<>>] /\ phase = "implying" /\ left = {}
  /\ found = [f \in {} |-> NoVersion] /\ queue = {}

\* Either an advisory is matched or a list is ranked or a page is analysed.
MCInit ==
  \/ Init /\ NoRanking /\ NoAnalysis
  \/ RankInit /\ NoMatching /\ NoAnalysis
  \/ AnalysisInit /\ NoMatching /\ detected = V1rc /\ NoRanking
MCNext ==
  \/ Next /\ UNCHANGED <<rankVars, analysisVars>>
  \/ RankNext /\ UNCHANGED <<vars, analysisVars>>
  \/ AnalysisNext /\ UNCHANGED <<vars, rankVars>>
MCSpec == MCInit /\ [][MCNext]_<<vars, rankVars, analysisVars>>
================================================================================
