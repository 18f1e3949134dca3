# wappacvelyze in TLA+

wappacvelyze detects the technologies behind a website and says which of the detected
versions have known vulnerabilities. It is a Go command line tool (`cmd/wappacvelyze`,
`cve`, `detect`), a browser extension in TypeScript that mirrors it (`extension/src`), and a
scheduled builder (`cmd/wappacvelyze-db`, `.github/workflows/db.yml`) that publishes the
vulnerability database which both download. This directory models the parts of it that have
behaviour: state shared between overlapping activities, files that survive crashes, requests
that are paced, retried and resumed.

## 1. Inventory

| Component | State | Operations | Talks to | What makes it correct |
|---|---|---|---|---|
| Tab pipeline, `background.ts` 144-300, 327-347 | `generation` (memory), the tab's result (`storage.session`), the toolbar badge | `handleEvidence`, `publish`, `updateBadge`, `onUpdated`, `onRemoved` | collector (messages), database client, NVD client, popup (through storage) | a result is the shown document's, never an older scan's, verdicts are not lost, every scan concludes |
| Evidence collector, `content.ts`, `page.ts`, `background.ts` 302-334 | last page report, debounce timer, `sentOnce`, `lastReport` | page report, merge and send, rescan, injection | tab pipeline | what the page last showed reaches the worker; a rescan leads to a scan |
| NVD client and limiter, `lib/nvd.ts`, `lib/limiter.ts` (Go: `cve/nvd.go`, `cve/limiter.go`) | times of recent sends, page and attempt of each lookup | `reserve`, `wait`, `fetchPage`, `vulnerabilitiesFor` | NVD | the budget is kept, nobody waits in vain, all records are read |
| Extension database client, `lib/db.ts` 84-216 | manifest and time in `storage.local`, blob in the Cache API, parsed copy | `load`, `download`, `open` | release assets | what is returned is verified, of the configured source, and available offline |
| Command line database cache, `cve/db.go`, `cachecmd.go` | two files shared by processes | `LoadDatabase`, `cache clear`, `cache refresh` | release assets | what is returned is verified and not behind; the cache repairs itself |
| Publishing, `db.yml` | two release assets | upload with `--clobber` | both database clients | clients survive the moment in between |
| Scan command, `scan.go`, `main.go`, `cve/kev.go` | assessor, results, exit status | `newAssessor`, `scanAll`, `exitCode` | database cache, NVD client and cache | partial results are reported as such |
| NVD result caches, `cve/cache.go`, `lib/cache.ts` | entries with their age | `Get`, `Put`, `Clear` | NVD client, scan | an entry is what NVD said for that name, and is not kept beyond its age |
| Verdicts, `cve/classify.go`, `cve/lookup.go`, `lib/classify.ts` | none | `Assess`, `Classify`, `lifecycleFor`, `mergeVulnerabilities` | all lookups | status and order of urgency; no failed lookup passes for a clean one |
| Applicability, `cve/applies.go`, `lib/cpe.ts`, `lib/version.ts` | none | `compareVersions`, `matchApplies` | verdicts, builder | the version order is one, ranges mean what NVD says |
| Detection engine, `detect/detect.go`, `lib/detect.ts` | none | patterns, implied technologies, budget | tab pipeline, scan | implied technologies are all found, once |
| Feed downloads, `wappacvelyze-db/sources.go`, `main.go` | temporary file, its size, stall counter | `open`, `download`, `appendRange`, retry of a feed | feed servers | a file that is used is complete; a slow feed is not given up |
| Feed ingestion and enrichment, `wappacvelyze-db/nvd.go`, `enrich.go` | the database being built | `ingest...`, `write` | feed downloads | records once, each source's marks on the right records, the same links in every build, manifest names the blob |
| Popup and options, `popup.ts`, `options.ts`, `settings.ts` | rendered result, settings | render, rescan, save, clear the cache | tab pipeline, collector, lookup caches | what is shown is what is stored; a save keeps the other settings; what was cleared stays cleared |

What is hard: in the extension, everything asynchronous on one thread (each `await` lets
other runs, navigations and worker stops in); on the command line, several processes over
one cache directory and crashes between file operations; towards servers, assets replaced
under a download, throttling, dropped connections.

The hazards this code is exposed to are listed one by one in `PROJECT.json`, at their lines,
each with the properties that would catch it going wrong.

## 2. Plan

Most important behaviour first.

| | Modules | Builds on | State |
|---|---|---|---|
| 1 | `TabResult` (abstract), `TabPipeline` | `TabPipeline` instantiates `TabResult` under a refinement mapping | checked; types, main invariants, action property and refinement proved |
| 2 | `DatabaseCache` | | checked; every invariant proved |
| 3 | `NvdClient` | | checked; every invariant proved |
| 4 | `ExtensionDatabase` | | checked; every invariant proved |
| 5 | `Enrichment` (operators), `DatabaseBuild` | `DatabaseBuild` extends `Enrichment` | checked; every invariant proved |
| 6 | `Verdict` (operators), `Sources` (NVD, CISA and time), `ScanRun` | `Sources` extends `Verdict`, `ScanRun` extends `Sources` | checked; every invariant proved |
| 7 | `Collector` | what it delivers is `TabPipeline!Evidence` | checked; every invariant proved |
| 8 | `CpeName` (operators), `Matching` | `Matching` extends `CpeName` | checked; every invariant proved |
| 9 | `Ranking` | extends `Matching` | checked; both invariants proved |
| 10 | `AssessmentCache` | extends `Sources`, as `ScanRun` does | checked; both invariants proved |
| 11 | `Settings`, `Popup` | `Popup` shows the result of `TabResult` | checked; their properties proved |
| 12 | `Detection` | what it yields is what `TabPipeline` and `AssessmentCache` look up | checked; the closure proved |

Abstract specifications: `TabResult` is what the popup may rely on. Worth stating next: for
the two database clients, "a copy that is verified, and replaced as a whole"; for `NvdClient`,
a budget without paging and retries.

Theorems to prove next: every invariant and action property that a run checks is proved, and so is the
refinement; with an abstract specification of the database clients, that they implement it.

## 3. The modules and the code

A step of a model is what the code does between two points where something else can come in:
an `await` in the extension, a file operation or a request on the command line. Servers,
browsers, clocks and users are actions without fairness that may do at any time what
they can do to this code. Definitions named `Faulty...` are variants of the definition after them,
with a plausible bug; no specification uses them. They show that each property can fail.

**`TabPipeline`** is `background.ts` seen from one tab: all of its state is keyed by the tab.
`runs` are the calls of `handleEvidence`, each at one of its awaits: the analysis (`analysing`),
reading the old result (`carrying`), `session.set` of the first snapshot (`detected`), getting
database and catalog (`loading`), the lookups of its `Promise.all` (`assessing`), the catch
block (`rejected`) and the last publication (`ending`). `generation` is the map
that supersedes older runs, `store` the tab's entry in `storage.session`, `badge` the text on the
toolbar, `replies` the calls of `session.set` whose caller has not resumed. `Evidence`, `Loading`,
`Removed` and `WorkerStopped` are the browser's events; `RunRejected` and `LookupRejected` are awaits
that reject. **`TabResult`** is the life of one published result as the popup sees it;
`ResultLifeCycle` says that `TabPipeline` implements it, with `store` for the result.

**`DatabaseCache`** is `LoadDatabase` with the `scan`, `cache refresh` and `cache clear` processes over
the two files `manifest` and `blob`. A process reads the manifest (`ReadManifest`), asks for the published one
(`FetchManifest`), downloads (`Download`), writes the blob, then the manifest, and opens what it
has. `Build`, `Delete` and `Upload` are the workflow, which replaces two assets one after the
other. A version stands for a database and for its digest.

**`NvdClient`** is the live lookup of both programs, whose clients are one algorithm: the limiter's list of
recent sends (`sent`), the page and attempt of each lookup, and the clients that changes of the API key
create. `Granted` and `Delayed` are the two outcomes of `reserve`; `Page`, `Throttled` and `Rejected` the answers.
`Rejected` also ends a lookup that waits, as cancelling the context does in Go. The command line has
one client and asks for one lookup after the other, which is one of the behaviours.

**`ExtensionDatabase`** is `DatabaseClient.load` with `databaseClientFor`: several loads suspended at their
awaits over three stores, the manifest and its time in `storage.local` and the blobs in the Cache
API; a changed URL makes a new client over the same stores.

**`DatabaseBuild`** is the builder: `download` and `appendRange` request by request (`NoAnswer`, `WholeFeed`,
`RestOfFeed`), ingestion of the file, retries of a feed, the other sources, the two files. A feed
is a sequence of records, a block of its file each, and has editions; a file that was resumed
across editions can be decoded only up to the seam. After the feeds the build reads the six other
sources in turn (`KevRead` to `RetireRead`); **`Enrichment`** says what each makes of the records: how it spells
ids, which marks it sets, and which technology is linked to which library. The random order in which Go
reads the map of libraries is a choice.

**`Verdict`** is `Assess` and `Classify` of both programs: which sources an assessment uses, how
their records are merged, and the status. **`Sources`** is what both look up, NVD's answers and CISA's catalog, each a
sequence of versions that replace each other on some day, and what is stored of them (`Entry`, `Fresh`).
**`ScanRun`** is the `scan` command around them: `StartScan` to
`OpenCacheFails` are `newAssessor`, `Detect` to `AssessNotStored` are `scanAll` and `assessAll`, `Finish` ends with
`exitCode`. `StartRefresh` is `cache refresh`, whose catalog goes the same way. After an interrupt every request
fails. `kevFile` and `nvdFile` are shared by the processes; `memory` is the copy of the latter that a
process holds and writes back as a whole. Which database a scan gets is left open here; that
is what `DatabaseCache` is about. **`Ranking`** is the list of an assessment on either program: records are found in
any order (`Collect`), merged with the library's advisories and sorted (`Assess`), and the first is shown (`Detail`).

**`AssessmentCache`** is `ScanRun`'s counterpart in the extension: the `runs` of `handleEvidence`, each of which gets its
catalog (`ReadKev` to `KevUnavailable`, `loadKev`) and then looks up all its technologies at once (`AssessStored` to
`AssessFails`, `Assessor.assess`), over one `local` storage with an entry for each key, where the command line has one
file. `Click` and `Remove` are the options page's button, which lists the entries and then removes them.
`verdict` is what the last step returned.

**`Settings`** is one record in `storage.local` with its pages: forms, which save every field, and popups, which save
the theme. A save is `Submit` or `ClickTheme`, then `ReadSettings` and `Write`, with other pages in between; `Loaded` fills a form
from storage, over what was entered. **`Popup`** is one popup over the versions of a result: `load` is `Read`
and `Render`, `Listen` the registration of its listener, `Changed` a report to it. `MCStorage` checks these three modules side by
side: they share storage areas and nothing in them.

**`Collector`** is one document: its page scripts (`pages`) and content scripts (`contents`), of the manifest and
of injections, the messages between them that are posted and not delivered, and what the worker got
last (`evidence`). What a page script reads is a version of the page's globals. `Sample` is one of
the sampling timers of `page.ts`, `DeliverReport` and `Fallback` are the two ways to `send` in `content.ts`,
`SendEvidence` its debounce timer. A rescan is `rescan` of the popup with `ensureCollecting` of the worker: `Ask`, and if nobody
answers `InjectContent` and `InjectPage`. `Update` is an update of the extension, after which the old scripts
are orphans.

**`Matching`** is one NVD record on its two ways to a verdict: `LiveRange` is what `applies.go` and `lib/nvd.ts` make of
NVD's answer, `StoredRange` what `lookup.go` and `lib/db.ts` make of the matches that `ingestRecord` stored
(`IngestStatement`), where a feed that failed later is read again (`ReadAgain`). The algorithms under it are
operators: the order of versions, ranges, Retire.js ranges, release cycles, and in **`CpeName`** the quoting of
names. A version is its segments and its pre-release; where its text matters (`CpeName`, release cycles) it is a
sequence of characters.

**`Detection`** is `analyzeWithBudget` of the extension: `Try` is one turn of the loop over the fingerprints, `TryingEnds` its
end or the deadline, `AddImplied` one turn of `addImplied`. What the patterns of a fingerprint match is an input (`page`).
`MCMatching` checks these modules side by side, `Matching`, `Ranking` and `Detection`: they share no state.

### What is assumed of the world

- Browser: calls of extension APIs take effect in the order in which they are issued; replies to
  `session.set` come in that order; `onUpdated` says "loading" at every navigation; only an open tab
  sends evidence. In `ExtensionDatabase` a storage read and the resumption after it are one step.
- Files: `writeFileAtomic` renames a finished file, so a write happens or not. Ages are counted in
  days that are longer than any command or load of the two database models.
- Digests differ when databases do; a verified database can be parsed.
- `NvdClient`: the clock does not go back.
- `Collector`: messages between two parties arrive in the order in which they were posted; timers that are due fire in any order;
  `executeScript` waits for the document to be ready (`document_idle`), as the browsers document it.
- `Matching`: the order of versions is `lib/version.ts`'s. The command line takes its own from `go-version`,
  which is not part of the repository and compares pre-releases by their parts.
- `ScanRun`: an answer of NVD and the write of the cache that follows are one step, because the
  file is overwritten whatever it held.
- `AssessmentCache`: a storage read and the resumption after it are one step; a day ends between runs, for a run that goes
  on would only be like one that begins then.
- `Settings`, `Popup`: the calls of one page take effect, and are answered, in the order in which they were issued.

## 4. What the runs check

| Run | Question | Bounds, and why they are enough |
|---|---|---|
| `TabPipeline` | Do results stay with the document that is shown, in order, follow the life cycle, reach the badge, and conclude? | two evidence messages, two technologies, two verdicts, one each of navigation, restart, rejected await: every pair of suspended runs, with each event between any two steps |
| `DatabaseCache` | Is what a command returns verified and not behind? Does a copy survive the server, does refresh repair? | two processes and three commands (so one process meets another twice), a new release in all its steps, one day, one crash or failing operation |
| `NvdClient` | Is the budget kept and used, and is every record read? | two lookups, two pages, two attempts, two clients with budgets 1 and 2, a window of two ticks in a clock of three |
| `ExtensionDatabase` | Does the copy repair itself, survive the server, and not fall behind? | three loads, two of them overlapping, two URLs, one release, one day, one worker stop, one rejected storage call |
| `DatabaseBuild` | Is what is written whole and without doubles, does it carry what every source said, are links the same in every build, does each build end? | two feeds, the second with a longer and a shorter later edition, three stalls, two attempts: every cut of every transfer. Two or three answers of each other source, with ids in both cases, entries that come twice and records that are not stored; two repositories in any order |
| `ScanRun` | Do verdicts rest on recent answers, does the cache keep what it was told, is missing data reported, does the exit status tell the truth? | two commands of three kinds of options, `cache clear` or `cache refresh`, two technologies, one change of an answer or of the catalog, one day (entries live for the day), one failure, interrupt or kill |
| `Collector` | Does the worker get the last report and the last sample, at all, and after a rescan? | two overlapping rescans, one sample and one change of the page's globals, one update of the extension, documents with and without a page script: any two copies of a script with any event between their steps |
| `Matching` | Do stored and live statements give one answer, is the version order one, do quoting and release cycles do what they should? Is a list complete, without doubles and in a fixed order, and does it show what matters? Does an analysis find what follows from what it matched? | records of up to three of seven statements (two that overlap, one that cannot be compared, one unbounded, one of another product, one not vulnerable), read once or again; six versions with implicit zeros and pre-releases; texts of up to five characters, reserved ones among them. Lists of up to three records that differ in one mark, with up to two advisories of the same or other ids. Four technologies, two that imply each other, one implied twice, a name the database lacks; four kinds of matches for each, and the deadline at any moment |
| `Storage` | Do live verdicts rest on recent answers, does what was cleared stay cleared, does the popup show what is stored, does a save keep other settings? | two runs (the third would repeat one of them) with a lookup that NVD answers in two ways, one day, one failure or stop, one clearing; a form and a popup, two saves (a lost update needs two); three versions of a result, so that two changes meet one read |

`ScanRun` and `Storage` treat identical processes and runs as interchangeable (symmetry): no property names one.
Type invariants are proved and, but for two, not checked again, and those of modules without a theorem about them are stated in the
modules; the runs spend their time on the other properties.

The properties are stated with their reasons in the modules. Those that could surprise:

- `NeverOlderEvidence`, `ResultOfThisLoad` (`TabPipeline`): overlapping runs check `superseded()` only after an
  await, never in the same step as the effect of another run. Both hold, also across a restart
  of the worker, which forgets `generation`, because it ends the runs as well.
- `UnwarnedIsRecent` (`DatabaseCache`, `ExtensionDatabase`): a crash between blob and manifest, or a refresh by another
  process between two reads, never makes an old copy look new.
- `RepairsItself` (`ExtensionDatabase`): holds, whereas the command line's counterpart `RefreshRepairs` fails;
  the extension looks for the blob before it trusts an unchanged manifest.
- `DelayedOnlyByBudget` (`NvdClient`): no lookup sleeps while its client has budget, in spite of the `while`
  loop around `reserve` and timers that fire late.
- `BuildEnds` (`DatabaseBuild`): holds because progress is a new maximum and not any bytes at all; with servers
  that ignore Range, the other way would go on for ever.
- `WorkerHasLastReport` (`Collector`): a second content script begins with nothing, but the page script's answer
  reaches both, so neither ends with less than the other.
- `StoredPathIsLivePath` (`Matching`): also the range that is reported is the same, because the builder keeps the order in
  which statements first occur, even when it reads a feed again.
- `VerdictsAreRecent` (`ScanRun`): entries travel through the memory of other processes, and still are never
  used beyond their age.
- `ClearedStaysCleared` (`AssessmentCache`): lookups that run between the two steps of clearing store new entries that the second
  step removes or keeps; old ones come back only from an answer that was on its way at the click.
- `LinksFollowNames` (`DatabaseBuild`): Go reads a map in random order, yet the order decides only between libraries of one name.
- `PopupIsLive` (`Popup`): replies that arrive after newer changes are followed by a read of their own.

### Disagreements between the code and its documents

Each has a run that violates the property that states the document's claim.

| Run | Property | What happens |
|---|---|---|
| `TabPipelineBadge` | `BadgeClearedWithResult` | A navigation while `session.set` is under way removes the result and clears the badge; then the old run resumes and sets the badge again. |
| `DatabaseCacheRefresh` | `RefreshRepairs` | A cache whose manifest is current but whose blob is missing or wrong makes `LoadDatabase` recommend `cache refresh`, which skips the download and fails in the same way. |
| `ScanRunStale` | `StaleKevIsWarned` | An old KEV catalog is used silently. |

Met while modelling, without a run of their own: a manifest that cannot be written makes
`LoadDatabase` return nothing although it had a copy (`cve/db.go` line 55 against the comment at 31), and the same
for the catalog (`cve/kev.go` 111 against 89); a scan whose lookups failed exits with 0 (README 188 has 2 for such errors); a request that adds bytes after the server ignored Range counts as
a stall (`sources.go` 143 against 111); a scan interrupted between two targets exits with 0, which `ExitTellsResults`
excludes; changing the API key and back gives the same key a new budget (`background.ts` 40); a changed database URL
is served from the old URL's copy for up to a day (`lib/db.ts` 154); a rescan collects nothing new from a page whose
page script cannot run (`content.ts` 151-156 against the README at 337), and `RescanReachesPageScript` excludes it; a result stored between the popup's first read and its listening is not shown until
the next one (`popup.ts` 267 against "keeps it live" at 1), which `PopupIsLive` excludes; an options form submitted before it
was filled, and two pages that save at once, overwrite settings (`options.ts` 36, `settings.ts` 18), which `OtherSettingsKept`
excludes; a failed lookup carries over as a verdict and is not tried again on the same page (`background.ts` 229); after a
return through the back-forward cache headers of another page of the site may be used (`background.ts` 211); a feed whose
compressed data breaks between two records counts as a shorter one (`wappacvelyze-db/nvd.go` 74), which only a mixed file meets
in `DatabaseBuild`; the manifest lists the
page script first, so its first report is lost if it is delivered before the content script listens, and is
not repeated while nothing changes, which `LastSampleIsSent` excludes.

### Fairness

`TabPipeline!FairSpec`: each run of the worker goes on (weak fairness of `RunStep` and `Reply`), because every
await is answered: requests have timeouts, storage calls return, the limiter's timers fire. Events
owe nothing, and a restart or a rejected await ends the obligation. `EveryScanConcludes` needs it.
`DatabaseBuild!FairBuildSpec`: the builder goes on (weak fairness of `Work`): its HTTP client has a timeout and its
pauses are finite. Which answer it gets is not fair: a server may fail or start again each time.
`Collector!FairSpec`: messages are delivered and timers that are due fire (one event loop), and the browser answers what the
worker asks of it; page changes, samples, updates and rescans owe nothing.
The other specifications state safety only. Deadlock is not checked: in each model commands, events and
clocks are bounded, and a system with nothing to do stops.

## 5. What is proved

With TLAPS, for every value of the constants that satisfies the named assumptions. They say what
the constants are, such as `BudgetAssumption` (each budget is a positive number); those that say something
about the world are `YearsAssumption` (a record is in the feed of its year only, and once in an edition) and
`AnswersAssumption` (sources answer with lists, of things that have names) of `DatabaseBuild`, and `RankingAssumption` of
`Ranking` (a lookup finds no id twice, which the database's map of ids ensures, and NVD while its records do not change).

| Theorem | States | Argument |
|---|---|---|
| `TabPipelineProofs!TypeCorrect` | `TypeOK` | inductive as it stands; lemmas on verdict maps and on `BadgeText` |
| `ResultsOfThisLoad` | `ResultOfThisLoad` | needs `LoadInv`: a run that is not superseded (its number is `generation`) was started in the document that is shown. The invariant alone is not inductive: a step of a run stores its own load, so what a run can still store has to be known |
| `BadgeCorrect` | `BadgeShowsResult` | `BadgeInv`: once a result is stored, and as long as the worker lives, the badge is the text of that result, or a reply is awaited and the last of the awaited ones carries it |
| `ResultsBecomeNewer` | `NeverOlderEvidence` (action property) | `OrderInv`: runs are numbered in the order in which they began, and one older than the stored result is superseded |
| `ResultsLiveOn` | `ResultLifeCycle`: `TabPipeline` implements `TabResult` | `LifeInv` adds to `OrderInv` what the run that stored the result still holds: its phase and its verdicts are those of the result, or follow them in the life cycle |
| `DatabaseProofs!TypeCorrect` | `TypeOK` of `DatabaseCache` | inductive as it stands |
| `ReturnsCorrect`, `RecentCorrect` | `ReturnedIsVerified`, `UnwarnedIsRecent` | `ReturnInv` adds that servers never announce less than they did (`ServerInv`), that a manifest that counts as young names at least what was announced when the day began (`ManifestInv`), and what each process holds at each of its steps |
| `CopyCorrect` | `CopySurvivesServer` | `CopyInv`: what a command that began with a copy, and has met nothing but the server, finds on disk at each of its steps |
| `BuildTypeCorrect`, `FileCorrect`, `WholeCorrect` | `BuildTypeOK`, `FileIsComplete`, `WrittenIsWhole` | `BuildInv`: the file has the first blocks of editions of the feed, of the present one unless it was replaced (`FileInv`); the database has the feeds that are done, each record once, and is as long as the counts (`WholeInv`). What one file adds is computed by a recursive function (`Ingested`) and known by induction on its blocks (`IngestedRecords`, `IngestedCount`); a file that is ingested again, or in part, adds nothing twice |
| `EnrichedCorrect` | `WrittenIsEnriched` | `EnrichInv`: the sources that were read have left the marks that the property asks for, the others none. Each source is a fold over its answer; its run (`KevRuns` to `CycleRuns`) is a sequence of steps in which the last entry that counts wins (`LastWins`) or an exploit source is added once (`AddedOnce`) |
| `LinksCorrect` | `LinksFollowNames` | `LinkInv`, from what `Owner` finds in any order of the repository (`OwnerFacts`): an order has every library, because an injection between finite sets of one size is onto |
| `AdvisoryProofs!NvdTypeCorrect` | `NvdTypeOK` | inductive as it stands |
| `BudgetCorrect`, `DelayCorrect` | `WithinBudget`, `DelayedOnlyByBudget` | `BudgetInv` relates what the limiter remembers to all sends ever made: sends are numbered in the order of time, those of the window are remembered, and never more than the budget are (`ClientInv`), so sends a budget apart are a window apart (`Spaced`); a delayed lookup waits for a send that a whole budget begins with (`DelayInv`) |
| `ReadsCorrect` | `EveryRecordIsRead` | `PagesInv`: as long as the records stay, those given are exactly those before the next page's start, whatever the sizes of the pages and the retries |
| `TypeCorrect`, `StoredIsLive` | `TypeOK` of `Matching`, `StoredPathIsLivePath` | `StoredInv`: for some number of statements, not below those of the present reading, the matches that are stored are those of these statements, each after the ones that occur before it. Then the first stored match that covers a version is that of the first statement that does, for which `Smallest` (a set of natural numbers has a minimum) is needed |
| `OrderCorrect` | `OrderIsTotal` | a version is a function on the positive numbers, zero past its segments, and a text of a pre-release one that is zero past its end; versions compare as these functions do at the first place where they differ (`LexOrder`, `LexTransitive`), and pre-releases only where segments are the same |
| `NamesCorrect` | `VersionSurvivesName` | what `SplitAt` has read after each character of a joined name (`SplitJoined`): a text is clean if its colons are quoted and no quote is open at its end (`Clean`); `Escape` makes clean texts (`EscapedReads`), and `Unquote` read over them gives the text back |
| `CycleCorrect` | `CycleIsClosest` | segments are what is between dots, numbered by the dots before them (`Rank`); a name is a cycle exactly if its segments are segments of the version (`InCycleIsSegments`), and of two cycles of one version the shorter is a cycle of the longer (`ShorterIsCycle`); the fold over the list keeps a longest one |
| `ListCorrect`, `RecordsCorrect` | `RankedOnce`, `RecordsWin` of `Ranking` | `ListInv`: what was collected has distinct ids, none of them still pending. Inserting into an ordered list keeps it ordered (`InsertKeepsOrder`), for any total order, so `Sorted` orders and loses nothing (`SortedFacts`); the merge keeps the first of each id (`MergeFacts`); urgencies of different ids differ in the last of their five parts, so `MoreUrgent` is total (`UrgencyOrder`) |
| `ExtensionDatabaseProofs!TypeCorrect`, `RepairCorrect`, `CopyCorrect`, `RecentCorrect` | `TypeOK`, `RepairsItself`, `CopySurvivesServer`, `UnwarnedIsRecent` | `DatabaseInv`: a URL publishes its own versions, none older than a day ago, a manifest that counts as fetched today was published since (`StoreInv`); a load that has met no other runs alone (`AloneInv`); and what a load that has met no trouble has found, at each of its awaits (`LoadOK`) |
| `ScanRunProofs!TypeCorrect`, `VerdictsCorrect`, `QuietCorrect`, `MissingCorrect`, `ExitCorrect` | `TypeOK`, `VerdictsAreRecent`, `QuietCacheIsExact`, `MissingDataIsWarned`, `ExitTellsResults` | `ScanInv`: every entry in the file or in a process's memory was given on the day it bears (`EntriesOK`); what a command has said, assessed and counted so far, at each of its steps (`ProcOK`); and while commands run one at a time, memory, file and what was stored agree (`QuietInv`) |
| `StorageProofs!LiveVerdictsCorrect`, `ClearedCorrect` | `LiveVerdictsAreRecent`, `ClearedStaysCleared` | `CacheInv`: an entry was given on its day and, once the cache was cleared, since (`EntryInv`); an answer on its way was given today, and since the click unless it was under way then (`RunOK`) |
| `StorageProofs!SettingsCorrect` | `OtherSettingsKept` (action property) | `SettingsInv`: a save that no other page overtook has read what is stored, and is to write it but for what its user changed; a form that no other page overtook shows it but for that |
| `StorageProofs!PopupCorrect` | `PopupIsLive` | `PopupInv`: replies come in the order of their reads, and the last read has the result unless a change is yet to be reported or was missed (`LatestInv`) |
| `EvidenceProofs!ClosureCorrect` | `ResultIsClosure` of `Detection` | `AnalysisInv`: what is found and not queued has its implications in the result, every closed set that contains what was matched contains the result (`Needed`), and versions are those of the matches. The property alone says nothing before the queue is empty |
| `EvidenceProofs!TypeCorrect`, `LastReportCorrect`, `LastSampleCorrect` | `TypeOK`, `WorkerHasLastReport`, `LastSampleIsSent` of `Collector` | `CollectorInv`: a report is on its way, or all content scripts have the same one and the worker has it or is being sent it (`Agree`); only scripts that run have something to do; while one page script has ever run, its last report is the last on its way or is what the content scripts have (`LastInv`) |

The proofs end in the usual three steps, `Init => Inv`, `Inv /\ [Next]_vars => Inv'` and the safety property from `Inv`,
with a step for each action. Each inductive invariant was checked with TLC before it was proved.

**`FoldLemmas`** is what proofs about data rest on. The library's induction theorems take an operator as a
parameter, which the provers cannot instantiate; here induction over a set of numbers (`SetInduction`) follows from
the library's theorem that the finite subsets of a set are well-founded under inclusion. From it follow that a fold
and a recursive function over 1..n exist (`TableExists`, `RecursionExists`) and what they compute along a
sequence (`FoldRuns`, `LastWins`, `AddedOnce`); and where each part of a joined text stands (`JoinPositions`).

Only model-checked: the liveness properties `EveryScanConcludes`, `BuildEnds`, `EveryDocumentIsReported` and
`RescanReachesPageScript`, because fairness and ENABLED are beyond the prover; and what the runs that violate a property show.

## 6. What is not modelled

- In the detection engine, what the patterns of a fingerprint match over headers, cookies, scripts and text (`lib/detect.ts`,
  `lib/fingerprints.ts`): a pure computation whose result depends on the patterns. On the command line all of the engine is
  a library (`detect/detect.go` calls it); its result is an input of `ScanRun`.
- Output: layout, colours and wording on the command line and in the popup. Which record and link is shown is `Ranking!Detail`.
- Text that is copied along with a record (advisory links, dates, severities of library advisories), headers of requests,
  user agents, texts of errors, the order of the entries in a result, the colour of the badge.
- Parsing of feeds and sources below their records; option parsing; build scripts, generated data and store listings.
