-------------------------------- MODULE Verdict --------------------------------
(***************************************************************************)
(* How the lookups for a detected technology become a security status: the  *)
(* command line's Assess and Classify (cve/classify.go) over the records of  *)
(* the prebuilt database and of NVD (cve/lookup.go).  Which advisories apply *)
(* to the detected version is given: a record here is one that applies.     *)
(***************************************************************************)
EXTENDS Integers

CONSTANTS Technologies,  \* technologies as detected, with their versions
          Names,         \* CPE names that contain the version
          NoName,        \* stands for the missing CPE of a technology
          Records,       \* vulnerabilities
          About,         \* what is known of each technology, see below
          Marked         \* records that the database itself marks as exploited

\* usable: the version can be matched to advisories and the CPE is well formed;
\* product: the database has the product, with these records and release cycle;
\* library: the database knows it as a library, with these advisories.
TechnologyFacts ==
  [usable : BOOLEAN, name : Names \cup {NoName}, product : BOOLEAN, records : SUBSET Records,
   lifecycle : {"none", "latest", "behind", "eol"}, library : BOOLEAN, advisories : SUBSET Records]

ASSUME VerdictAssumption ==
  /\ NoName \notin Names /\ Marked \subseteq Records
  /\ About \in [Technologies -> TechnologyFacts]
  /\ \A t \in Technologies : About[t].product => About[t].name \in Names

Statuses == {"current", "outdated", "unknown", "unsupported", "vulnerable", "critical"}

Rank(status) ==
  CASE status = "current" -> 0     [] status = "outdated" -> 1   [] status = "unknown" -> 2
    [] status = "unsupported" -> 3 [] status = "vulnerable" -> 4 [] status = "critical" -> 5

\* The status for the records that apply, those that are exploited, and the lifecycle.
Classify(records, exploited, lifecycle) ==
  CASE records \cap exploited # {}              -> "critical"
    [] records # {} /\ records \cap exploited = {} -> "vulnerable"
    [] records = {} /\ lifecycle = "eol"        -> "unsupported"
    [] records = {} /\ lifecycle = "behind"     -> "outdated"
    [] OTHER                                    -> "current"

UsesProduct(t, db) == db /\ About[t].product
UsesLibrary(t, db) == db /\ About[t].library

\* A live lookup is made for a product the database lacks.
NeedsNvd(t, db) == About[t].usable /\ About[t].name # NoName /\ ~UsesProduct(t, db)

\* The status when the lookup succeeded, if one was needed: `found` is what NVD answered,
\* `listed` the records in the KEV catalog; `db` says whether there is a database.
Status(t, db, listed, found) ==
  LET stored == IF UsesProduct(t, db) THEN About[t].records ELSE {}
      live == IF NeedsNvd(t, db) THEN found ELSE {}
      library == IF UsesLibrary(t, db) THEN About[t].advisories ELSE {}
      lifecycle == IF UsesProduct(t, db) THEN About[t].lifecycle ELSE "none"
  IN IF ~About[t].usable \/ (About[t].name = NoName /\ ~UsesLibrary(t, db)) THEN "unknown"
     ELSE Classify(stored \cup live \cup library, listed \cup (stored \cap Marked), lifecycle)
================================================================================
