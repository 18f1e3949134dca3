-------------------------------- MODULE ScanRun --------------------------------
(***************************************************************************)
(* The `scan` command (cmd/wappacvelyze/scan.go): it prepares its lookups,   *)
(* goes through its targets and the technologies found on each, and ends     *)
(* with an exit status.  Processes share the files of the KEV catalog        *)
(* (cve/kev.go) and of the NVD lookups (cve/cache.go) with each other and    *)
(* with `cache clear`.  Files are replaced by a rename, in one step.         *)
(*                                                                         *)
(* Which database a scan gets is the subject of DatabaseCache: here it gets  *)
(* one or not.  Servers answer or fail as they like; NVD's answer for a name *)
(* and the published catalog change now and then.                           *)
(***************************************************************************)
EXTENDS Sources

CONSTANTS Procs,       \* bound: each runs one command
          Targets,     \* the technologies, in order, on each target of a scan
          Options,     \* the options scans are started with
          MaxTrouble   \* bound: failing requests and file operations, interrupts, kills

ASSUME ScanAssumption ==
  /\ Targets \in Seq(Seq(Technologies))
  /\ Options \subseteq [cve : BOOLEAN, db : BOOLEAN, threshold : {0, 1, 3, 4, 5}] /\ Options # {}
  /\ MaxTrouble \in Nat

VARIABLES kevFile,    \* kev.json: a catalog and its day
          nvdFile,    \* nvd.json: an answer and its day for some names
          procs,
          trouble,    \* counter of the bound
          stored,     \* the last lookup stored for each name since the cache was cleared (history)
          overlap     \* two commands ran at once, or one met trouble (history)

files == <<kevFile, nvdFile>>
history == <<stored, overlap>>
vars == <<world, files, procs, trouble, history>>

Entries == [Names -> Entry]
NoEntries == [n \in Names |-> None]

\* An assessment: its status, the answer of NVD it rests on (0: none) and its day.
Assessments == [tech : Technologies, status : Statuses, answer : Nat, day : Nat]
Results == [error : BOOLEAN, assessed : Seq(Assessments)]

\* A process: its command, the options (cve: no --no-cve; db: no --no-db; threshold:
\* the rank of --fail-on or 0), what newAssessor got (db; kev: number of the catalog read,
\* got: of the one downloaded; memory: the cache), the results so far, one for each
\* target, the last perhaps incomplete; its exit status, whether it was interrupted,
\* the catalog that was published when a refresh began (history), what it wrote warnings
\* about and whether its catalog is too old (history).
ProcRecords ==
  [pc : {"off", "kev", "fetch", "write", "open", "scan", "clearKev", "clearNvd"},
   cmd : {"none", "scan", "refresh", "clear", "killed"}, options : Options, db : BOOLEAN,
   kev : Nat, got : Nat, memory : Entries,
   results : Seq(Results), exit : {-1, 0, 1, 2},
   interrupted : BOOLEAN, since : Nat, warned : SUBSET {"database", "kev", "lookup"}, stale : BOOLEAN]

Off == [pc |-> "off", cmd |-> "none", options |-> CHOOSE o \in Options : TRUE, db |-> FALSE, kev |-> 0, got |-> 0,
        memory |-> NoEntries, results |-> <<>>, exit |-> -1,
        interrupted |-> FALSE, since |-> 0, warned |-> {}, stale |-> FALSE]

TypeOK ==
  /\ WorldTypeOK
  /\ kevFile \in [answer : 0..Catalog, day : 0..today]
  /\ nvdFile \in Entries /\ \A n \in Names : nvdFile[n].answer <= Now(n)
  /\ procs \in [Procs -> ProcRecords]
  /\ \A p \in Procs : Len(procs[p].results) <= Len(Targets)
  /\ trouble \in 0..MaxTrouble
  /\ stored \in Entries /\ overlap \in BOOLEAN

Init ==
  /\ WorldInit
  /\ kevFile = None
  /\ nvdFile = NoEntries
  /\ procs = [p \in Procs |-> Off]
  /\ trouble = 0
  /\ stored = NoEntries /\ overlap = FALSE

Active(p) == procs[p].pc # "off"

\* Process p, which was at `pc`, goes on as `next`.
Goes(p, pc, next) ==
  /\ procs[p].pc = pc
  /\ procs' = [procs EXCEPT ![p] = next]
  /\ UNCHANGED world

\* It ends: of what it knew, only what it said is left.
Exits(p, pc, status) ==
  Goes(p, pc, [procs[p] EXCEPT !.pc = "off", !.exit = status, !.got = 0, !.memory = NoEntries])

\* Nothing fails; the command is interrupted; a request fails, as all do after an interrupt; a
\* file operation fails or the process dies.
Calm == UNCHANGED <<trouble, history>>
Interrupts == trouble < MaxTrouble /\ trouble' = trouble + 1 /\ UNCHANGED history
RequestFails(p) == IF procs[p].interrupted THEN Calm ELSE Interrupts
Trouble == trouble < MaxTrouble /\ trouble' = trouble + 1 /\ overlap' = TRUE /\ UNCHANGED stored

--------------------------------------------------------------------------------
(* newAssessor *)

\* LoadDatabase, unless --no-db: a database or a warning (one that comes with a database
\* makes no difference here).  With --no-cve there is no assessor.
StartScan(p, options, db) ==
  /\ procs[p].cmd = "none"
  /\ db => options.cve /\ options.db
  /\ LET warning == options.cve /\ options.db /\ ~db
     IN /\ procs' = [procs EXCEPT ![p] =
             [Off EXCEPT !.pc = IF options.cve THEN "kev" ELSE "scan", !.cmd = "scan",
                         !.options = options, !.db = db,
                         !.warned = IF warning THEN {"database"} ELSE {}]]
        /\ trouble' = (IF warning THEN trouble + 1 ELSE trouble) /\ trouble' <= MaxTrouble
  /\ overlap' = (overlap \/ \E q \in Procs : Active(q))
  /\ UNCHANGED <<world, files, stored>>

\* The age at which a catalog is used as it is: none for cacheRefresh.
YoungEnough(p) == procs[p].cmd = "scan" /\ Fresh(kevFile)

\* LoadKEV
ReadKev(p) ==
  /\ LET young == YoungEnough(p)
     IN Goes(p, "kev", [procs[p] EXCEPT !.kev = kevFile.answer,
                                        !.pc = IF young THEN "open" ELSE "fetch"])
  /\ UNCHANGED files /\ Calm

FetchKev(p) ==
  /\ ~procs[p].interrupted
  /\ Goes(p, "fetch", [procs[p] EXCEPT !.pc = "write", !.got = Catalog])
  /\ UNCHANGED files /\ Calm

WriteKev(p) ==
  /\ kevFile' = [answer |-> procs[p].got, day |-> today]
  /\ LET next == [procs[p] EXCEPT !.kev = procs[p].got, !.got = 0]
     IN Goes(p, "write", IF procs[p].cmd = "scan" THEN [next EXCEPT !.pc = "open"]
                         ELSE [next EXCEPT !.pc = "off", !.exit = 0])
  /\ UNCHANGED nvdFile /\ Calm

FaultyGoOn(p, pc) ==
  Goes(p, pc, [procs[p] EXCEPT !.pc = "open", !.kev = 0, !.got = 0, !.warned = @ \cup {"kev"}])

\* newAssessor, or cacheRefresh, after LoadKEV returned an error and no catalog.
WithoutKev(p, pc) ==
  IF procs[p].cmd = "scan" /\ procs[p].db
    THEN Goes(p, pc, [procs[p] EXCEPT !.pc = "open", !.kev = 0, !.got = 0, !.warned = @ \cup {"kev"}])
    ELSE Exits(p, pc, 2)

\* The download fails: a scan uses a catalog that is too old, and nothing is said of it.
KevUnavailable(p) ==
  /\ IF procs[p].cmd = "scan" /\ procs[p].kev # 0
       THEN Goes(p, "fetch", [procs[p] EXCEPT !.pc = "open", !.stale = TRUE])
       ELSE WithoutKev(p, "fetch")
  /\ UNCHANGED files /\ RequestFails(p)

\* A downloaded catalog that cannot be written is not used, nor is the old one.
KevNotWritten(p) == WithoutKev(p, "write") /\ UNCHANGED files /\ Trouble

OpenCache(p) ==
  /\ Goes(p, "open", [procs[p] EXCEPT !.pc = "scan", !.memory = nvdFile])
  /\ UNCHANGED files /\ Calm

OpenCacheFails(p) == Exits(p, "open", 2) /\ UNCHANGED files /\ Trouble

--------------------------------------------------------------------------------
(* scanAll, assessAll, exitCode *)

Failure == [error |-> TRUE, assessed |-> <<>>]
Empty == [error |-> FALSE, assessed |-> <<>>]
AssessedIn(result) == {result.assessed[i] : i \in DOMAIN result.assessed}

FaultyExitCode(results, threshold) ==
  IF threshold # 0 /\ \E i \in DOMAIN results : \E a \in AssessedIn(results[i]) : Rank(a.status) >= threshold
    THEN 1
  ELSE IF \E i \in DOMAIN results : results[i].error THEN 2
  ELSE 0

\* Errors first, then the threshold (0: none).
ExitCode(results, threshold) ==
  IF \E i \in DOMAIN results : results[i].error THEN 2
  ELSE IF threshold # 0 /\ \E i \in DOMAIN results : \E a \in AssessedIn(results[i]) : Rank(a.status) >= threshold
    THEN 1
  ELSE 0

Targeted(p) == Len(procs[p].results)
Last(p) == procs[p].results[Targeted(p)]

\* Every technology of the target is assessed.
Complete(p) ==
  Targeted(p) # 0 /\ ~Last(p).error => Len(Last(p).assessed) = Len(Targets[Targeted(p)])

\* A target is left and the scan was not interrupted.
Continues(p) == Targeted(p) < Len(Targets) /\ ~procs[p].interrupted

\* Detector.Scan of the next target.
Detect(p) ==
  /\ Complete(p) /\ Continues(p)
  /\ Goes(p, "scan", [procs[p] EXCEPT !.results = Append(@, Empty)])
  /\ UNCHANGED files /\ Calm

DetectFails(p) ==
  /\ Complete(p) /\ Continues(p)
  /\ Goes(p, "scan", [procs[p] EXCEPT !.results = Append(@, Failure)])
  /\ UNCHANGED files /\ RequestFails(p)

Finish(p) ==
  /\ Complete(p) /\ ~Continues(p)
  /\ Exits(p, "scan", ExitCode(procs[p].results, procs[p].options.threshold))
  /\ UNCHANGED files /\ Calm

\* The results cannot be written.
OutputFails(p) ==
  /\ Complete(p) /\ ~Continues(p)
  /\ Exits(p, "scan", 2)
  /\ UNCHANGED files /\ Trouble

Assessing(p) == procs[p].pc = "scan" /\ ~Complete(p)
Technology(p) == Targets[Targeted(p)][Len(Last(p).assessed) + 1]
Name(p) == About[Technology(p)].name
Live(p) == Assessing(p) /\ procs[p].options.cve /\ NeedsNvd(Technology(p), procs[p].db)
Listed(p) == Listing(procs[p].kev)

\* Process p adds an assessment of its next technology, as `proc`.
Assess(p, proc, status, answer) ==
  Goes(p, "scan", [proc EXCEPT !.results[Targeted(p)].assessed =
    Append(@, [tech |-> Technology(p), status |-> status, answer |-> answer, day |-> today])])

\* No live lookup is needed, or none is wanted.
AssessStored(p) ==
  /\ Assessing(p) /\ ~Live(p)
  /\ LET status == IF procs[p].options.cve THEN Status(Technology(p), procs[p].db, Listed(p), {})
                   ELSE "unknown"
     IN Assess(p, procs[p], status, 0)
  /\ UNCHANGED files /\ Calm

\* The status for answer number `answer` of NVD.
AssessLive(p, proc, answer) ==
  Assess(p, proc, Status(Technology(p), proc.db, Listed(p), Answers[Name(p)][answer]), answer)

FaultyHit(p) == procs[p].memory[Name(p)].answer # 0

\* Cache.Get
Hit(p) == Fresh(procs[p].memory[Name(p)])

AssessCached(p) ==
  /\ Live(p) /\ Hit(p)
  /\ AssessLive(p, procs[p], procs[p].memory[Name(p)].answer)
  /\ UNCHANGED files /\ Calm

FaultyPutDropsAll(memory, n) == [NoEntries EXCEPT ![n] = [answer |-> Now(n), day |-> today]]
FaultyPutStamps(memory, n) ==
  [k \in Names |-> IF k = n THEN [answer |-> Now(n), day |-> today]
                   ELSE [memory[k] EXCEPT !.day = today]]

\* Cache.Put: the entries that have expired are dropped, the answer is added.
Put(memory, n) ==
  [k \in Names |-> IF k = n THEN [answer |-> Now(n), day |-> today]
                   ELSE IF Fresh(memory[k]) THEN memory[k] ELSE None]

\* NVD answers, and the whole cache is written to the file.
AssessAnswered(p) ==
  /\ Live(p) /\ ~Hit(p) /\ ~procs[p].interrupted
  /\ LET memory == Put(procs[p].memory, Name(p))
     IN /\ AssessLive(p, [procs[p] EXCEPT !.memory = memory], Now(Name(p)))
        /\ nvdFile' = memory
        /\ stored' = [stored EXCEPT ![Name(p)] = memory[Name(p)]]
  /\ UNCHANGED <<kevFile, trouble, overlap>>

FaultyLookupFailed(p, proc) ==
  Assess(p, proc, Status(Technology(p), proc.db, Listed(p), {}), 0)

\* A lookup that failed leaves the technology unknown, with a warning.
LookupFailed(p, proc) ==
  Assess(p, [proc EXCEPT !.warned = @ \cup {"lookup"}], "unknown", 0)

AssessFails(p) == Live(p) /\ ~Hit(p) /\ LookupFailed(p, procs[p]) /\ UNCHANGED files /\ RequestFails(p)

\* NVD answered, but the file cannot be written: the lookup counts as failed, although
\* the cache in memory has it.
AssessNotStored(p) ==
  /\ Live(p) /\ ~Hit(p) /\ ~procs[p].interrupted
  /\ LookupFailed(p, [procs[p] EXCEPT !.memory = Put(@, Name(p))])
  /\ UNCHANGED files /\ Trouble

--------------------------------------------------------------------------------
(* cache clear, cache refresh and signals *)

StartClear(p) ==
  /\ procs[p].cmd = "none"
  /\ procs' = [procs EXCEPT ![p] = [Off EXCEPT !.pc = "clearKev", !.cmd = "clear"]]
  /\ overlap' = (overlap \/ \E q \in Procs : Active(q))
  /\ UNCHANGED <<world, files, trouble, stored>>

\* LoadDatabase with no age: any error ends the command, even one that comes with a database.
StartRefresh(p, db) ==
  /\ procs[p].cmd = "none"
  /\ LET refresh == [Off EXCEPT !.cmd = "refresh", !.since = Catalog]
     IN procs' = [procs EXCEPT ![p] = IF db THEN [refresh EXCEPT !.pc = "kev"] ELSE [refresh EXCEPT !.exit = 2]]
  /\ trouble' = (IF db THEN trouble ELSE trouble + 1) /\ trouble' <= MaxTrouble
  /\ overlap' = (overlap \/ \E q \in Procs : Active(q))
  /\ UNCHANGED <<world, files, stored>>

ClearKev(p) ==
  /\ kevFile' = None
  /\ Goes(p, "clearKev", [procs[p] EXCEPT !.pc = "clearNvd"])
  /\ UNCHANGED nvdFile /\ Calm

ClearNvd(p) ==
  /\ nvdFile' = NoEntries /\ stored' = NoEntries
  /\ Exits(p, "clearNvd", 0)
  /\ UNCHANGED <<kevFile, trouble, overlap>>

ClearFails(p) ==
  /\ \E pc \in {"clearKev", "clearNvd"} : Exits(p, pc, 2)
  /\ UNCHANGED files /\ Trouble

\* SIGINT cancels the context of a scan; requests fail from then on.
Interrupt(p) ==
  /\ Active(p) /\ procs[p].pc \notin {"clearKev", "clearNvd"} /\ ~procs[p].interrupted
  /\ procs' = [procs EXCEPT ![p].interrupted = TRUE]
  /\ UNCHANGED <<world, files>> /\ Interrupts

Kill(p) ==
  /\ Active(p)
  /\ procs' = [procs EXCEPT ![p] = [Off EXCEPT !.cmd = "killed"]]
  /\ UNCHANGED <<world, files>> /\ Trouble

Prepare(p) ==
  \/ ReadKev(p)
  \/ FetchKev(p)
  \/ WriteKev(p)
  \/ KevUnavailable(p)
  \/ KevNotWritten(p)
  \/ OpenCache(p)
  \/ OpenCacheFails(p)

Scan(p) ==
  \/ Detect(p)
  \/ DetectFails(p)
  \/ Finish(p)
  \/ OutputFails(p)
  \/ AssessStored(p)
  \/ AssessCached(p)
  \/ AssessAnswered(p)
  \/ AssessFails(p)
  \/ AssessNotStored(p)

Command(p) ==
  \/ \E options \in Options, db \in BOOLEAN : StartScan(p, options, db)
  \/ StartClear(p)
  \/ \E db \in BOOLEAN : StartRefresh(p, db)
  \/ Prepare(p)
  \/ Scan(p)
  \/ ClearKev(p)
  \/ ClearNvd(p)
  \/ ClearFails(p)
  \/ Interrupt(p)
  \/ Kill(p)

Next ==
  \/ \E p \in Procs : Command(p)
  \/ World /\ UNCHANGED <<files, procs, trouble, history>>

Spec == Init /\ [][Next]_vars

--------------------------------------------------------------------------------
(* Properties *)

Assessed(p) ==
  UNION {AssessedIn(procs[p].results[i]) : i \in DOMAIN procs[p].results}

\* A status that needs a live lookup rests on what NVD answered within the last Ttl days,
\* whichever process asked and however often the shared file was rewritten; a technology
\* whose lookup failed is unknown, never free of vulnerabilities (Cache, Assess).
VerdictsAreRecent ==
  \A p \in Procs : \A a \in Assessed(p) :
    procs[p].options.cve /\ NeedsNvd(a.tech, procs[p].db) /\ a.status # "unknown" =>
      \E day \in (a.day - Ttl)..a.day : AnsweredOn(About[a.tech].name, a.answer, day)

\* With one command at a time and no trouble the file has every lookup of the last Ttl
\* days, and nothing from before it was cleared (OpenCache, Put, cacheClear).
QuietCacheIsExact ==
  ~overlap => \A n \in Names :
    /\ Fresh(stored[n]) => nvdFile[n] = stored[n]
    /\ nvdFile[n] # None => nvdFile[n] = stored[n]

\* A scan with neither a database nor a catalog ends before its first target, and one that
\* lacks what it should have has said so, whatever failed in which order (newAssessor).
MissingDataIsWarned ==
  \A p \in Procs : procs[p].pc = "scan" /\ procs[p].options.cve =>
    /\ procs[p].db \/ procs[p].kev # 0
    /\ procs[p].options.db /\ ~procs[p].db => "database" \in procs[p].warned
    /\ procs[p].kev = 0 => "kev" \in procs[p].warned

\* The exit status tells a pipeline what happened: 0 that every target was read and nothing
\* reached the threshold, unless the scan was interrupted; 1 that something did and every
\* target that was tried was read; and 0 from a refresh that it has a catalog no older than the
\* one that was published when it began (exitCode, scanAll, cacheRefresh).
ExitTellsResults ==
  /\ \A p \in Procs : procs[p].cmd = "refresh" /\ procs[p].exit = 0 => procs[p].kev >= procs[p].since
  /\ \A p \in Procs : procs[p].cmd = "scan" =>
    LET reached == \E a \in Assessed(p) : Rank(a.status) >= procs[p].options.threshold
        read == \A i \in DOMAIN procs[p].results : ~procs[p].results[i].error
    IN /\ procs[p].exit = 0 =>
            /\ read
            /\ procs[p].interrupted \/ Len(procs[p].results) = Len(Targets)
            /\ procs[p].options.threshold # 0 => ~reached
       /\ procs[p].exit = 1 => read /\ procs[p].options.threshold # 0 /\ reached

\* The comment on newAssessor: "Stale copies are used with a warning rather than aborting."
StaleKevIsWarned == \A p \in Procs : procs[p].stale => "kev" \in procs[p].warned
================================================================================
