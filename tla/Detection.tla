------------------------------- MODULE Detection -------------------------------
(***************************************************************************)
(* How the extension turns what it saw of a page into technologies           *)
(* (lib/detect.ts analyzeWithBudget): it tries one fingerprint after the      *)
(* other until its time is up, and then adds what the technologies it found  *)
(* imply, and those in turn.  What the patterns of a fingerprint match on a   *)
(* page is given.  The order in which fingerprints are tried and implications *)
(* followed is left open.                                                   *)
(***************************************************************************)
EXTENDS Integers, SequencesExt

CONSTANTS Fingerprints,  \* the technologies of the fingerprint database
          Implies,       \* what each implies, names that the database does not have included
          VersionTexts,  \* versions that patterns produce
          LengthOf,      \* the length of such a text
          Timestamps,    \* those that begin with a number from MAX_LEADING_NUMBER on
          NoVersion,     \* the empty text
          MaxLength,     \* MAX_VERSION_LENGTH
          Pages          \* what is matched on the pages: sequences of detections

ASSUME VersionTextsAssumption ==
  /\ NoVersion \in VersionTexts
  /\ Timestamps \subseteq VersionTexts
  /\ LengthOf \in [VersionTexts -> Nat] /\ LengthOf[NoVersion] = 0 /\ MaxLength \in Nat

\* A detection: whether its pattern counts (confidence above 0), and the version it gives.
Detections == [counts : BOOLEAN, version : VersionTexts]
ASSUME PagesAssumption == Pages \subseteq [Fingerprints -> Seq(Detections)]

VARIABLES page,
          phase,
          left,        \* fingerprints not tried
          found,       \* the technologies found, each with its version
          queue        \* found technologies whose implications are not followed

analysisVars == <<page, phase, left, found, queue>>

AnalysisTypeOK ==
  /\ page \in Pages
  /\ phase \in {"trying", "implying"}
  /\ left \subseteq Fingerprints
  /\ \E names \in SUBSET Fingerprints : found \in [names -> VersionTexts]
  /\ queue \subseteq Fingerprints

AnalysisInit ==
  /\ page \in Pages
  /\ phase = "trying"
  /\ left = Fingerprints
  /\ found = [f \in {} |-> NoVersion]
  /\ queue = {}

\* The longest plausible version, the first of these.
BestVersion(detections) ==
  FoldLeft(LAMBDA best, d :
             IF LengthOf[d.version] > LengthOf[best] /\ LengthOf[d.version] <= MaxLength /\ d.version \notin Timestamps
               THEN d.version ELSE best,
           NoVersion, detections)

\* Some detection counts; the version may be that of one that does not.
Detects(f) == \E i \in DOMAIN page[f] : page[f][i].counts
Result == DOMAIN found
Adding(names, version) == [f \in Result \cup names |-> IF f \in Result THEN found[f] ELSE version]

Try(f) ==
  /\ phase = "trying" /\ f \in left
  /\ left' = left \ {f}
  /\ found' = IF Detects(f) THEN Adding({f}, BestVersion(page[f])) ELSE found
  /\ UNCHANGED <<page, phase, queue>>

\* Everything has been tried, or the time is up (truncated).
TryingEnds ==
  /\ phase = "trying"
  /\ phase' = "implying"
  /\ queue' = Result
  /\ UNCHANGED <<page, left, found>>

\* What f implies that is new; names that the database does not have are ignored.
New(f) == (Implies[f] \cap Fingerprints) \ Result

FaultyAddImplied(f) ==
  /\ phase = "implying" /\ f \in queue
  /\ found' = Adding(New(f), NoVersion)
  /\ queue' = queue \ {f}
  /\ UNCHANGED <<page, phase, left>>

AddImplied(f) ==
  /\ phase = "implying" /\ f \in queue
  /\ found' = Adding(New(f), NoVersion)
  /\ queue' = (queue \ {f}) \cup New(f)
  /\ UNCHANGED <<page, phase, left>>

AnalysisNext ==
  \/ \E f \in Fingerprints : Try(f)
  \/ TryingEnds
  \/ \E f \in Fingerprints : AddImplied(f)

AnalysisSpec == AnalysisInit /\ [][AnalysisNext]_analysisVars

--------------------------------------------------------------------------------
(* Properties *)

Matched == {f \in Fingerprints \ left : Detects(f)}
Closed(technologies) ==
  \A f \in technologies : Implies[f] \cap Fingerprints \subseteq technologies

\* Whenever the time was up, the result is what was matched till then with everything that
\* follows from it, also in a circle, and nothing else; a technology that was matched has the
\* version of its detections, also when another implies it, and one that was not has none
\* (addImplied, "without versions, transitively").
ResultIsClosure ==
  phase = "implying" /\ queue = {} =>
    /\ Matched \subseteq Result /\ Closed(Result)
    /\ \A smaller \in SUBSET Result : Matched \subseteq smaller /\ Closed(smaller) => smaller = Result
    /\ \A f \in Result : found[f] = IF f \in Matched THEN BestVersion(page[f]) ELSE NoVersion
================================================================================
