---------------------------- MODULE AssessmentCache ----------------------------
(***************************************************************************)
(* The live lookups of the extension (lib/classify.ts, lib/cache.ts) and the *)
(* catalog that goes with them (background.ts): the scans of several pages   *)
(* are suspended at their awaits over one storage area, in which each lookup *)
(* has an entry of its own, while the options page clears it (options.ts).  *)
(*                                                                         *)
(* A read of the storage and the resumption after it are one step, and so   *)
(* are a call of `set` and its effect; its reply is not waited for here.     *)
(***************************************************************************)
EXTENDS Sources

CONSTANTS Runs,        \* bound: calls of handleEvidence under way at once
          Detected,    \* the sets of technologies that pages have
          KevKey,      \* the key of the catalog; those of lookups are their names
          MaxTrouble   \* bound: failing requests and storage calls, worker stops

Keys == Names \cup {KevKey}
ASSUME AssessmentCacheAssumption ==
  Detected \subseteq SUBSET Technologies /\ KevKey \notin Names /\ MaxTrouble \in Nat

VARIABLES local,       \* storage.local: an entry for some keys
          runs,
          verdict,     \* the assessment that the last step returned, in brackets
          clearing,    \* the options page: whether it clears, and the keys it has seen
          trouble,     \* counter of the bound
          cleared      \* what was published at the click, and what was under way (history)

cacheVars == <<world, local, runs, verdict, clearing, trouble, cleared>>

\* A lookup of one technology: it is to begin, waits for NVD, or has NVD's answer on its way.
Lookup == [at : {"none", "reading", "asking", "answered"}, answer : Nat]
NoLookup == [at |-> "none", answer |-> 0]

\* A run: its database, the catalog it got, the one on its way, its lookups, and
\* whether it began after the cache was cleared (history).
RunRecords ==
  [pc : {"off", "fetch", "fetched", "assess"}, db : BOOLEAN, kev : Nat, got : Nat,
   lookups : [Technologies -> Lookup], after : BOOLEAN]

Off == [pc |-> "off", db |-> FALSE, kev |-> 0, got |-> 0,
        lookups |-> [t \in Technologies |-> NoLookup], after |-> FALSE]

\* An assessment: the answer of NVD and the catalog it rests on (0: none), its day, and how
\* its run began.
Assessments ==
  [tech : Technologies, status : Statuses, answer : Nat, day : Nat, kev : Nat,
   db : BOOLEAN, after : BOOLEAN]

CacheTypeOK ==
  /\ WorldTypeOK
  /\ local \in [Keys -> Entry]
  /\ runs \in [Runs -> RunRecords]
  /\ verdict \in Seq(Assessments) /\ Len(verdict) <= 1
  /\ clearing \in [at : {"no", "seen", "done"}, keys : SUBSET Keys]
  /\ trouble \in 0..MaxTrouble
  /\ cleared \in [present : [Keys -> Nat], underway : SUBSET Keys]

CacheInit ==
  /\ WorldInit
  /\ local = [k \in Keys |-> None]
  /\ runs = [r \in Runs |-> Off]
  /\ verdict = <<>>
  /\ clearing = [at |-> "no", keys |-> {}]
  /\ trouble = 0
  /\ cleared = [present |-> [k \in Keys |-> 0], underway |-> {}]

Calm == UNCHANGED trouble
Trouble == trouble < MaxTrouble /\ trouble' = trouble + 1

\* No assessment is returned.
Silent == verdict' = <<>>

\* Run r goes on as `next`.
Goes(r, next) ==
  /\ runs' = [runs EXCEPT ![r] = next]
  /\ UNCHANGED <<world, clearing, cleared>>

FaultyHit(key) == local[key].answer # 0

\* Cache.get: what is stored and not too old, an empty list included.
Hit(key) == Fresh(local[key])

\* Cache.set
Set(key, answer) == local' = [local EXCEPT ![key] = [answer |-> answer, day |-> today]]

--------------------------------------------------------------------------------
(* loadKev *)

\* A run that has its catalog, or goes on without one.
Assessing(run, number) == [run EXCEPT !.pc = "assess", !.kev = number, !.got = 0]

\* handleEvidence has its database, or none, and reads the stored catalog.  When it cannot, it
\* ends.
ReadKev(r, db, technologies) ==
  /\ runs[r] = Off
  /\ LET run == [Off EXCEPT !.pc = "fetch", !.db = db, !.after = clearing.at = "done",
                            !.lookups = [t \in Technologies |->
                              IF t \in technologies THEN [NoLookup EXCEPT !.at = "reading"] ELSE NoLookup]]
     IN Goes(r, IF Hit(KevKey) THEN Assessing(run, local[KevKey].answer) ELSE run)
  /\ UNCHANGED local /\ Silent /\ Calm

KevAnswered(r) ==
  /\ runs[r].pc = "fetch"
  /\ Goes(r, [runs[r] EXCEPT !.pc = "fetched", !.got = Catalog])
  /\ UNCHANGED local /\ Silent /\ Calm

StoreKev(r) ==
  /\ runs[r].pc = "fetched"
  /\ Set(KevKey, runs[r].got)
  /\ Goes(r, Assessing(runs[r], runs[r].got))
  /\ Silent /\ Calm

\* The catalog cannot be fetched, or not be stored.
KevUnavailable(r) ==
  /\ runs[r].pc \in {"fetch", "fetched"}
  /\ Goes(r, Assessing(runs[r], 0))
  /\ UNCHANGED local /\ Silent /\ Trouble

--------------------------------------------------------------------------------
(* Assessor.assess, for all technologies at once *)

Name(t) == About[t].name
Is(r, t, at) == runs[r].pc = "assess" /\ runs[r].lookups[t].at = at

\* The lookup of run r for t goes on, `at` NVD or with its answer.
LookupGoes(r, t, at, answer) ==
  /\ Goes(r, [runs[r] EXCEPT !.lookups[t] = [at |-> at, answer |-> answer]])
  /\ UNCHANGED local /\ Silent /\ Calm

\* assess returns; the run ends with its last lookup.
Returns(r, t, status, answer) ==
  /\ LET lookups == [runs[r].lookups EXCEPT ![t] = NoLookup]
     IN Goes(r, IF \A s \in Technologies : lookups[s] = NoLookup THEN Off
                ELSE [runs[r] EXCEPT !.lookups = lookups])
  /\ verdict' = <<[tech |-> t, status |-> status, answer |-> answer, day |-> today, kev |-> runs[r].kev,
                   db |-> runs[r].db, after |-> runs[r].after]>>

\* classify, with NVD's answer of this number (0: none was needed).
Concludes(r, t, answer) ==
  LET found == IF answer = 0 THEN {} ELSE Answers[Name(t)][answer]
  IN Returns(r, t, Status(t, runs[r].db, Listing(runs[r].kev), found), answer)

\* No live lookup is needed.
AssessStored(r, t) ==
  /\ Is(r, t, "reading") /\ ~NeedsNvd(t, runs[r].db)
  /\ Concludes(r, t, 0)
  /\ UNCHANGED local /\ Calm

Live(r, t) == Is(r, t, "reading") /\ NeedsNvd(t, runs[r].db)

\* liveVulnerabilities
AssessCached(r, t) ==
  /\ Live(r, t) /\ Hit(Name(t))
  /\ Concludes(r, t, local[Name(t)].answer)
  /\ UNCHANGED local /\ Calm

Ask(r, t) == Live(r, t) /\ ~Hit(Name(t)) /\ LookupGoes(r, t, "asking", 0)

Answered(r, t) == Is(r, t, "asking") /\ LookupGoes(r, t, "answered", Now(Name(t)))

AssessAnswered(r, t) ==
  /\ Is(r, t, "answered")
  /\ Set(Name(t), runs[r].lookups[t].answer)
  /\ Concludes(r, t, runs[r].lookups[t].answer) /\ Calm

\* The cache cannot be read, NVD fails, or its answer cannot be stored: assess returns that it
\* does not know.
AssessFails(r, t) ==
  /\ Live(r, t) \/ Is(r, t, "asking") \/ Is(r, t, "answered")
  /\ Returns(r, t, "unknown", 0)
  /\ UNCHANGED local /\ Trouble

--------------------------------------------------------------------------------
(* The options page, the worker and the world *)

Has(key) == local[key].answer # 0

\* An answer that was given is not stored yet.
Underway(key) ==
  \E r \in Runs :
    \/ key = KevKey /\ runs[r].pc = "fetched"
    \/ \E t \in Technologies : Name(t) = key /\ Is(r, t, "answered")

FaultySeen == {k \in Names : Has(k)}

\* The keys with one of the two prefixes.
Seen == {k \in Keys : Has(k)}

Click ==
  /\ clearing.at = "no"
  /\ clearing' = [at |-> "seen", keys |-> Seen]
  /\ cleared' = [present |-> [k \in Keys |-> IF k = KevKey THEN Catalog ELSE Now(k)],
                 underway |-> {k \in Keys : Underway(k)}]
  /\ UNCHANGED <<world, local, runs, trouble>> /\ Silent

\* All at once, with what was stored under these keys since.
Remove ==
  /\ clearing.at = "seen"
  /\ clearing' = [at |-> "done", keys |-> {}]
  /\ local' = [k \in Keys |-> IF k \in clearing.keys THEN None ELSE local[k]]
  /\ UNCHANGED <<world, runs, trouble, cleared>> /\ Silent

\* The worker stops, and its runs with it.
WorkerStops ==
  /\ \E r \in Runs : runs[r] # Off
  /\ runs' = [r \in Runs |-> Off]
  /\ UNCHANGED <<world, local, clearing, cleared>> /\ Silent /\ Trouble

\* Bound: a day ends between runs; a run that goes on is like one that begins then.
WorldMoves ==
  /\ World
  /\ today' = today \/ \A r \in Runs : runs[r] = Off
  /\ UNCHANGED <<local, runs, clearing, trouble, cleared>> /\ Silent

RunSteps(r) ==
  \/ \E db \in BOOLEAN, technologies \in Detected : ReadKev(r, db, technologies)
  \/ KevAnswered(r)
  \/ StoreKev(r)
  \/ KevUnavailable(r)
  \/ \E t \in Technologies :
       \/ AssessStored(r, t)
       \/ AssessCached(r, t)
       \/ Ask(r, t)
       \/ Answered(r, t)
       \/ AssessAnswered(r, t)
       \/ AssessFails(r, t)

CacheNext == (\E r \in Runs : RunSteps(r)) \/ Click \/ Remove \/ WorkerStops \/ WorldMoves

--------------------------------------------------------------------------------
(* Properties *)

\* Verdicts that rest on a live lookup.
IsLive(v) == NeedsNvd(v.tech, v.db) /\ v.status # "unknown"

\* A verdict that needs a live lookup rests on what NVD answered within the last Ttl days, and
\* on a catalog as recent, whichever tabs looked up what in between; a technology whose
\* lookup failed is unknown, never free of vulnerabilities (Cache, assess, loadKev).
LiveVerdictsAreRecent ==
  verdict # <<>> =>
    LET v == verdict[1]
    IN /\ IsLive(v) => \E day \in (v.day - Ttl)..v.day : AnsweredOn(Name(v.tech), v.answer, day)
       /\ v.kev # 0 => \E day \in (v.day - Ttl)..v.day : PublishedOn(v.kev, day)

\* After the cache was cleared, pages are judged by what NVD and CISA say since the click,
\* however lookups interleave with the two steps of clearing; the exception is an answer that
\* was under way at the click (options.ts).
ClearedStaysCleared ==
  verdict # <<>> /\ verdict[1].after =>
    LET v == verdict[1]
    IN /\ IsLive(v) => v.answer >= cleared.present[Name(v.tech)] \/ Name(v.tech) \in cleared.underway
       /\ v.kev # 0 => v.kev >= cleared.present[KevKey] \/ KevKey \in cleared.underway
================================================================================
