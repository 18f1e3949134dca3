----------------------------- MODULE DatabaseCache -----------------------------
(***************************************************************************)
(* The command line tool's copy of the prebuilt vulnerability database:    *)
(* cve/db.go LoadDatabase, run by any number of `scan` and `cache refresh` *)
(* processes that share a cache directory with each other and with         *)
(* `cache clear` (cmd/wappacvelyze/cachecmd.go), while the scheduled       *)
(* workflow replaces the published assets (.github/workflows/db.yml).      *)
(*                                                                         *)
(* A version stands for a database and for its SHA-256 digest: digests     *)
(* match exactly when versions do.  0 stands for an absent file or asset.  *)
(* writeFileAtomic renames a finished temporary file, so a write is one     *)
(* step that happens or not; a crash falls between steps.                  *)
(***************************************************************************)
EXTENDS Integers

CONSTANTS Procs,        \* processes on the machine
          MaxVersion,   \* bound: databases built by the workflow
          MaxCommands,  \* bound: commands started
          MaxDays,      \* bound: times a day passes
          MaxTrouble    \* bound: crashes and failing file operations

ASSUME BoundsAssumption ==
  /\ MaxVersion \in Nat \ {0} /\ MaxCommands \in Nat
  /\ MaxDays \in Nat /\ MaxTrouble \in Nat

VARIABLES manifest,   \* db-manifest.json: the version it names, and whether it is under a day old
          blob,       \* wappacvelyze-db.json.gz: the version it holds
          server,     \* the published assets latest.json and the database
          build,      \* the version being or last published
          announced,  \* the newest version latest.json has named (history)
          yesterday,  \* the value of announced when the last day passed (history)
          procs,      \* the running or finished command of each process
          commands, days, trouble   \* counters of the bounds

vars == <<manifest, blob, server, build, announced, yesterday, procs,
          commands, days, trouble>>
disk == <<manifest, blob>>
world == <<server, build, announced, yesterday, days>>

Versions == 1..MaxVersion
Assets == {"latest", "database"}
Commands == {"scan", "refresh", "clear"}

\* A process: its command and next step, the versions of the manifests it holds
\* (cached and fresh) and what LoadDatabase returned; then history: what it met
\* (other commands, an unreliable server, failing file operations), whether a
\* verified copy was on disk when it started, and the version it must not be behind.
Idle == [cmd |-> "none", pc |-> "done", cached |-> 0, fresh |-> 0, db |-> 0, err |-> FALSE,
         met |-> {}, copy |-> FALSE, floor |-> 0]

ProcRecords ==
  [cmd : Commands \cup {"none"},
   pc : {"start", "fetch", "download", "store", "record", "open", "openCached", "stale",
         "clear", "clearBlob", "done"},
   cached : 0..MaxVersion, fresh : 0..MaxVersion, db : 0..MaxVersion, err : BOOLEAN,
   met : SUBSET {"others", "server", "files"}, copy : BOOLEAN, floor : 0..MaxVersion]

TypeOK ==
  /\ manifest \in [version : 0..MaxVersion, young : BOOLEAN]
  /\ blob \in 0..MaxVersion
  /\ server \in [Assets -> 0..MaxVersion]
  /\ build \in Versions /\ announced \in Versions /\ yesterday \in 0..MaxVersion
  /\ procs \in [Procs -> ProcRecords]
  /\ commands \in 0..MaxCommands /\ days \in 0..MaxDays /\ trouble \in 0..MaxTrouble

NoManifest == [version |-> 0, young |-> FALSE]

Init ==
  /\ manifest = NoManifest
  /\ blob = 0
  /\ server = [a \in Assets |-> 1]
  /\ build = 1 /\ announced = 1 /\ yesterday = 0
  /\ procs = [p \in Procs |-> Idle]
  /\ commands = 0 /\ days = 0 /\ trouble = 0

Active(p) == procs[p].pc # "done"
ServerIntact == \A a \in Assets : server[a] = build

\* Every process that is running meets `what`.
Meeting(what) ==
  [p \in Procs |-> IF Active(p) THEN [procs[p] EXCEPT !.met = @ \cup {what}] ELSE procs[p]]

--------------------------------------------------------------------------------
(* Commands *)

Start(p, cmd) ==
  /\ ~Active(p)
  /\ commands < MaxCommands
  /\ commands' = commands + 1
  /\ LET overlap == \E q \in Procs : Active(q)
     IN procs' = [Meeting("others") EXCEPT ![p] =
          [Idle EXCEPT !.cmd = cmd, !.pc = IF cmd = "clear" THEN "clear" ELSE "start",
                       !.met = (IF overlap THEN {"others"} ELSE {}) \cup
                               (IF ServerIntact THEN {} ELSE {"server"}),
                       !.copy = manifest.version # 0 /\ blob = manifest.version,
                       !.floor = IF cmd = "refresh" THEN announced ELSE yesterday]]
  /\ UNCHANGED <<disk, world, trouble>>

\* Process p goes on as `next`; only the disk may change with it.
Goes(p, next) ==
  /\ procs' = [procs EXCEPT ![p] = next]
  /\ UNCHANGED <<world, commands, trouble>>

Returns(p, db, err) == Goes(p, [procs[p] EXCEPT !.pc = "done", !.db = db, !.err = err])

\* Faulty variants, named Faulty..., stand before the definitions they would replace;
\* nothing uses them but the mutation runs that show each property can fail.
FaultyIgnoreAge(p) ==
  /\ procs[p].pc = "start"
  /\ Goes(p, [procs[p] EXCEPT !.cached = manifest.version,
       !.pc = IF manifest.version # 0 /\ procs[p].cmd = "scan" THEN "openCached" ELSE "fetch"])
  /\ UNCHANGED disk

\* scan accepts a manifest up to a day old, refresh (maxAge 0) none.
ReadManifest(p) ==
  /\ procs[p].pc = "start"
  /\ Goes(p, [procs[p] EXCEPT !.cached = manifest.version,
       !.pc = IF manifest.version # 0 /\ manifest.young /\ procs[p].cmd = "scan"
                THEN "openCached" ELSE "fetch"])
  /\ UNCHANGED disk

\* fetchManifest; the download is skipped when the checksum has not changed.
FetchManifest(p) ==
  /\ procs[p].pc = "fetch"
  /\ server["latest"] # 0
  /\ Goes(p, [procs[p] EXCEPT !.fresh = server["latest"],
       !.pc = IF procs[p].cached = server["latest"] THEN "record" ELSE "download"])
  /\ UNCHANGED disk

\* downloadDatabase gets the blob that latest.json names.
Download(p) ==
  /\ procs[p].pc = "download"
  /\ server["database"] = procs[p].fresh
  /\ Goes(p, [procs[p] EXCEPT !.pc = "store"])
  /\ UNCHANGED disk

\* The request fails or the asset is absent or, for the blob, not the one named.
RequestFails(p) ==
  /\ procs[p].pc \in {"fetch", "download"}
  /\ Goes(p, [procs[p] EXCEPT !.pc = "stale", !.met = @ \cup {"server"}])
  /\ UNCHANGED disk

StoreBlob(p) ==
  /\ procs[p].pc = "store"
  /\ blob' = procs[p].fresh
  /\ Goes(p, [procs[p] EXCEPT !.pc = "record"])
  /\ UNCHANGED manifest

RecordManifest(p) ==
  /\ procs[p].pc = "record"
  /\ manifest' = [version |-> procs[p].fresh, young |-> TRUE]
  /\ Goes(p, [procs[p] EXCEPT !.pc = "open"])
  /\ UNCHANGED blob

FaultyOpenUnverified(p, version, err) ==
  IF blob # 0 THEN Returns(p, blob, err) ELSE Returns(p, 0, TRUE)

\* readDatabase: the blob must match the manifest the caller holds.
Open(p, version, err) ==
  IF blob = version THEN Returns(p, version, err) ELSE Returns(p, 0, TRUE)

OpenFresh(p) ==
  /\ procs[p].pc = "open"
  /\ Open(p, procs[p].fresh, FALSE)
  /\ UNCHANGED disk

OpenCached(p) ==
  /\ procs[p].pc = "openCached"
  /\ Open(p, procs[p].cached, FALSE)
  /\ UNCHANGED disk

FaultyNoFallback(p) ==
  /\ procs[p].pc = "stale"
  /\ Returns(p, 0, TRUE)
  /\ UNCHANGED disk

\* staleDatabase: the cached copy, if any, is returned with the error.
OpenStale(p) ==
  /\ procs[p].pc = "stale"
  /\ IF procs[p].cached = 0 THEN Returns(p, 0, TRUE) ELSE Open(p, procs[p].cached, TRUE)
  /\ UNCHANGED disk

\* cache clear removes the manifest, then the blob.
ClearManifest(p) ==
  /\ procs[p].pc = "clear"
  /\ manifest' = NoManifest
  /\ Goes(p, [procs[p] EXCEPT !.pc = "clearBlob"])
  /\ UNCHANGED blob

ClearBlob(p) ==
  /\ procs[p].pc = "clearBlob"
  /\ blob' = 0
  /\ Returns(p, 0, FALSE)
  /\ UNCHANGED manifest

\* A process is killed, or a file operation fails: writing the blob leaves the
\* stale copy to return, any other failure ends the command with an error.
Trouble(p) ==
  /\ Active(p)
  /\ trouble < MaxTrouble
  /\ trouble' = trouble + 1
  /\ \/ procs' = [procs EXCEPT ![p] = Idle]
     \/ /\ procs[p].pc = "store"
        /\ procs' = [procs EXCEPT ![p].pc = "stale", ![p].met = @ \cup {"files"}]
     \/ /\ procs[p].pc \in {"record", "clear", "clearBlob"}
        /\ procs' = [procs EXCEPT ![p].pc = "done", ![p].err = TRUE, ![p].met = @ \cup {"files"}]
  /\ UNCHANGED <<disk, world, commands>>

--------------------------------------------------------------------------------
(* The published release and time *)

\* A new database is built; its two assets are then replaced, each deleted
\* before it is uploaded again (gh release upload --clobber).
Build ==
  /\ ServerIntact
  /\ build < MaxVersion
  /\ build' = build + 1
  /\ procs' = Meeting("server")
  /\ UNCHANGED <<disk, server, announced, yesterday, commands, days, trouble>>

Delete(a) ==
  /\ server[a] \notin {0, build}
  /\ server' = [server EXCEPT ![a] = 0]
  /\ UNCHANGED <<disk, build, announced, yesterday, procs, commands, days, trouble>>

Upload(a) ==
  /\ server[a] = 0
  /\ server' = [server EXCEPT ![a] = build]
  /\ announced' = IF a = "latest" THEN build ELSE announced
  /\ UNCHANGED <<disk, build, yesterday, procs, commands, days, trouble>>

\* A day passes: no command runs that long, and every manifest is too old.
DayPasses ==
  /\ days < MaxDays
  /\ \A p \in Procs : ~Active(p)
  /\ days' = days + 1
  /\ yesterday' = announced
  /\ manifest' = [manifest EXCEPT !.young = FALSE]
  /\ UNCHANGED <<blob, server, build, announced, procs, commands, trouble>>

ProcStep(p) ==
  \/ ReadManifest(p)
  \/ FetchManifest(p)
  \/ Download(p)
  \/ RequestFails(p)
  \/ StoreBlob(p)
  \/ RecordManifest(p)
  \/ OpenFresh(p)
  \/ OpenCached(p)
  \/ OpenStale(p)
  \/ ClearManifest(p)
  \/ ClearBlob(p)

Next ==
  \/ \E p \in Procs, cmd \in Commands : Start(p, cmd)
  \/ \E p \in Procs : ProcStep(p)
  \/ \E p \in Procs : Trouble(p)
  \/ Build
  \/ \E a \in Assets : Delete(a) \/ Upload(a)
  \/ DayPasses

Spec == Init /\ [][Next]_vars

--------------------------------------------------------------------------------
(* Properties *)

Loaded(p) == procs[p].pc = "done" /\ procs[p].cmd \in {"scan", "refresh"} /\ procs[p].db # 0

\* Whatever other processes replaced or removed meanwhile, a database that is
\* returned is the one named by the manifest the process loaded it under.
ReturnedIsVerified ==
  \A p \in Procs : Loaded(p) => procs[p].db \in {procs[p].cached, procs[p].fresh}

\* A database returned without an error is not behind: a scan uses one no older than
\* the newest announced when the day began, a refresh than the newest at its start.
UnwarnedIsRecent ==
  \A p \in Procs : Loaded(p) /\ ~procs[p].err => procs[p].db >= procs[p].floor

Finished(p, commandsOf) == procs[p].pc = "done" /\ procs[p].cmd \in commandsOf

\* A command that runs alone never loses the copy it started with to a server that is
\* down or being replaced (LoadDatabase: "the stale copy is returned").
CopySurvivesServer ==
  \A p \in Procs : Finished(p, {"scan", "refresh"}) /\ procs[p].copy
                      /\ procs[p].met \subseteq {"server"}
    => procs[p].db # 0

\* What readDatabase tells the user of a cache whose files disagree (db.go: "run
\* `wappacvelyze cache refresh`"): a refresh that meets nothing leaves a database.
RefreshRepairs ==
  \A p \in Procs : Finished(p, {"refresh"}) /\ procs[p].met = {} => procs[p].db # 0
================================================================================
