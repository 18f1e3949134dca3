------------------------------- MODULE TabResult -------------------------------
(***************************************************************************)
(* What the popup may rely on: the life of one tab's published result, as   *)
(* storage.session holds it (messages.ts TabResult, background.ts publish). *)
(* A result appears with every technology either still being checked or     *)
(* carried over with its verdict, learns verdicts, is concluded once        *)
(* nothing is being checked, and may be cleared or superseded at any time.  *)
(***************************************************************************)
CONSTANTS Techs,      \* technologies (name and version) a page can show
          Verdicts,   \* verdicts an assessment can reach
          Checking    \* the placeholder of a technology still being assessed

VARIABLE result

NoResult == [phase |-> "none", verdicts |-> [t \in {} |-> Checking]]

\* Verdicts of some of the technologies, undecided ones included.
PartialVerdicts == UNION {[S -> Verdicts \cup {Checking}] : S \in SUBSET Techs}

Results == [phase : {"none", "detected", "done"}, verdicts : PartialVerdicts]

Decided(verdicts) == {t \in DOMAIN verdicts : verdicts[t] # Checking}

\* The first snapshot of a scan that found `found`: known verdicts carry over.
CarriedOver(known, found) ==
  [t \in found |-> IF t \in Decided(known) THEN known[t] ELSE Checking]

Init == result = NoResult

\* The tab navigated or closed.
Clear == result' = NoResult

\* New evidence was analysed.
Report == \E found \in SUBSET Techs :
  result' = [phase |-> "detected", verdicts |-> CarriedOver(result.verdicts, found)]

\* Some technologies being checked got their verdict; no other entry changes.
Learn ==
  /\ result.phase = "detected"
  /\ \E learned \in [DOMAIN result.verdicts -> Verdicts \cup {Checking}] :
       /\ \A t \in Decided(result.verdicts) : learned[t] = result.verdicts[t]
       /\ result' = [result EXCEPT !.verdicts = learned]

\* Every technology has its verdict.
Conclude ==
  /\ result.phase = "detected"
  /\ Decided(result.verdicts) = DOMAIN result.verdicts
  /\ result' = [result EXCEPT !.phase = "done"]

Next == Clear \/ Report \/ Learn \/ Conclude

Spec == Init /\ [][Next]_result
================================================================================
