------------------------------- MODULE Collector -------------------------------
(***************************************************************************)
(* How the extension collects evidence in one document: the page script     *)
(* (page.ts, main world) samples the page and posts what it sees; the       *)
(* content script (content.ts, isolated world) keeps the last post and       *)
(* sends evidence to the worker after a pause; the worker's ensureCollecting *)
(* (background.ts) answers a rescan, and injects both scripts into a         *)
(* document that has none.                                                 *)
(*                                                                         *)
(* Times are left open: a timer that is set fires at some later moment, so   *)
(* timers of different scripts fire in any order.                            *)
(***************************************************************************)
EXTENDS Integers, Sequences, FiniteSets

CONSTANTS MaxVersions,  \* bound: versions of the page that are shown in turn
          Globals,      \* what a page script can read in each version
          Samples,      \* length of SAMPLE_DELAYS_MS
          MaxRescans,   \* bound: rescans asked for by popups
          MaxUpdates    \* bound: updates of the extension while the page is open

Versions == 1..MaxVersions
None == 0                         \* no report so far
Request == 0                      \* a "collect-request" posted to the window
Rescans == 1..MaxRescans
ScriptIds == 1..(MaxRescans + 1)  \* 1 for the manifest's scripts, r + 1 for those of rescan r

ASSUME CollectorAssumption ==
  /\ MaxVersions \in Nat \ {0} /\ MaxRescans \in Nat
  /\ Samples \in Nat /\ MaxUpdates \in Nat
  /\ DOMAIN Globals = Versions

VARIABLES shown,      \* the version of the page
          mainWorld,  \* scripts can run in the page's main world
          booting,    \* which of the manifest's scripts starts next
          pages,      \* the page scripts
          contents,   \* the content scripts
          tasks,      \* messages posted to the window: Request, or the version reported
          evidence,   \* the page report in the evidence that the worker was sent last
          rescans,    \* the rescans, with what has become of each
          updates     \* updates of the extension so far

vars == <<shown, mainWorld, booting, pages, contents, tasks, evidence, rescans, updates>>

\* lastReport, as the version it was read from, and the samples to come.
NoPage == [running |-> FALSE, last |-> None, samples |-> 0]
\* pageEvidence, sentOnce, and whether sendTimer is set; the 3 s timer is set, and of
\* use, while nothing has been sent.  A script of an earlier installation is "gone": its
\* messages to the worker are refused.
NoContent == [state |-> "absent", page |-> None, sentOnce |-> FALSE, sending |-> FALSE]
NoEvidence == -1
\* recollected: evidence has been sent since the rescan was asked for.
NoRescan == [step |-> "idle", recollected |-> FALSE]

Running == {p \in ScriptIds : pages[p].running}
Listening == {c \in ScriptIds : contents[c].state = "live"}

TypeOK ==
  /\ shown \in Versions
  /\ mainWorld \in BOOLEAN
  /\ booting \in {"page", "content", "over"}
  /\ pages \in [ScriptIds -> [running : BOOLEAN, last : 0..MaxVersions, samples : 0..Samples]]
  /\ contents \in [ScriptIds -> [state : {"absent", "live", "gone"}, page : 0..MaxVersions,
                                 sentOnce : BOOLEAN, sending : BOOLEAN]]
  /\ tasks \in Seq(0..MaxVersions)
  /\ evidence \in {NoEvidence} \cup 0..MaxVersions
  /\ rescans \in [Rescans -> [step : {"idle", "asked", "content", "page", "over", "broken"},
                              recollected : BOOLEAN]]
  /\ updates \in 0..MaxUpdates

\* The document was loaded with the extension in place, or before it was installed.
Init ==
  /\ shown = 1
  /\ mainWorld \in BOOLEAN
  /\ booting \in {"page", "over"}
  /\ pages = [p \in ScriptIds |-> NoPage]
  /\ contents = [c \in ScriptIds |-> NoContent]
  /\ tasks = <<>>
  /\ evidence = NoEvidence
  /\ rescans = [r \in Rescans |-> NoRescan]
  /\ updates = 0

--------------------------------------------------------------------------------
(* The page script *)

\* It starts with a forced report; the samples are timers.
StartedPage == [running |-> TRUE, last |-> shown, samples |-> Samples]

\* The manifest lists the page script first.
BootPage ==
  /\ booting = "page"
  /\ booting' = "content"
  /\ IF mainWorld
       THEN pages' = [pages EXCEPT ![1] = StartedPage] /\ tasks' = Append(tasks, shown)
       ELSE UNCHANGED <<pages, tasks>>
  /\ UNCHANGED <<shown, mainWorld, contents, evidence, rescans, updates>>

\* collect(): the chains and DOM properties that the rules ask for, as the page has them now.
Observed == Globals[shown]

\* report() has nothing new to say: what it reads serializes to lastReport.
Unchanged(p) == Globals[pages[p].last] = Observed

\* Faulty variants, named Faulty..., stand before the definitions they would replace;
\* nothing uses them but the mutation runs that show each property can fail.
\* A timer of the sampling schedule is left.
Due(p) == pages[p].samples > 0

\* A sample timer fires.
Sample(p) ==
  /\ Due(p)
  /\ IF Unchanged(p)
       THEN pages' = [pages EXCEPT ![p].samples = @ - 1] /\ UNCHANGED tasks
       ELSE /\ pages' = [pages EXCEPT ![p].samples = @ - 1, ![p].last = shown]
            /\ tasks' = Append(tasks, shown)
  /\ UNCHANGED <<shown, mainWorld, booting, contents, evidence, rescans, updates>>

FaultyReporting == {p \in Running : ~Unchanged(p)}

\* The page scripts that report when asked to: all of them, changed or not.
Reporting == Running

\* A collect-request reaches every page script.
DeliverRequest ==
  /\ tasks # <<>> /\ Head(tasks) = Request
  /\ pages' = [p \in ScriptIds |-> IF p \in Reporting THEN [pages[p] EXCEPT !.last = shown]
                                                      ELSE pages[p]]
  /\ tasks' = Tail(tasks) \o [i \in 1..Cardinality(Reporting) |-> shown]
  /\ UNCHANGED <<shown, mainWorld, booting, contents, evidence, rescans, updates>>

--------------------------------------------------------------------------------
(* The content script *)

FaultyStartedContent == [NoContent EXCEPT !.state = "live", !.sentOnce = TRUE]

\* pageEvidence is empty.
StartedContent == [NoContent EXCEPT !.state = "live"]

BootContent ==
  /\ booting = "content"
  /\ booting' = "over"
  /\ contents' = [contents EXCEPT ![1] = StartedContent]
  /\ UNCHANGED <<shown, mainWorld, pages, tasks, evidence, rescans, updates>>

FaultySendOnce(content) == [content EXCEPT !.sentOnce = TRUE, !.sending = ~content.sentOnce]

\* send(): the timer is set, or set again.
Send(content) == [content EXCEPT !.sentOnce = TRUE, !.sending = TRUE]

FaultyHeard(content, report) ==
  IF content.sending THEN content ELSE Send([content EXCEPT !.page = report])

\* pageEvidence is replaced, by what sanitizePageEvidence leaves of the report.
Heard(content, report) == Send([content EXCEPT !.page = report])

\* A report reaches every content script.
DeliverReport ==
  /\ tasks # <<>> /\ Head(tasks) # Request
  /\ contents' = [c \in ScriptIds |->
       IF c \in Listening THEN Heard(contents[c], Head(tasks)) ELSE contents[c]]
  /\ tasks' = Tail(tasks)
  /\ UNCHANGED <<shown, mainWorld, booting, pages, evidence, rescans, updates>>

\* The 3 s timer fires, and the page script has not reported.
Fallback(c) ==
  /\ c \in Listening /\ ~contents[c].sentOnce
  /\ contents' = [contents EXCEPT ![c] = Send(@)]
  /\ UNCHANGED <<shown, mainWorld, booting, pages, tasks, evidence, rescans, updates>>

\* collect(): the document as it is now, with the last page report.
Collected(c) == contents[c].page

\* sendTimer fires: the worker is sent what is collected, for every rescan asked for.
SendEvidence(c) ==
  /\ contents[c].sending
  /\ contents' = [contents EXCEPT ![c].sending = FALSE]
  /\ evidence' = Collected(c)
  /\ rescans' = [r \in Rescans |-> IF rescans[r].step = "idle" THEN rescans[r]
                                   ELSE [rescans[r] EXCEPT !.recollected = TRUE]]
  /\ UNCHANGED <<shown, mainWorld, booting, pages, tasks, updates>>

--------------------------------------------------------------------------------
(* Rescans: ensureCollecting *)

\* A popup asks for a rescan: its button, or that it was opened without a result.
\* Rescans are numbered as they are asked for.
Ask(r) ==
  /\ rescans[r].step = "idle"
  /\ \A earlier \in 1..(r - 1) : rescans[earlier].step # "idle"
  /\ rescans' = [rescans EXCEPT ![r].step = "asked"]
  /\ UNCHANGED <<shown, mainWorld, booting, pages, contents, tasks, evidence, updates>>

\* The "collect" message is heard: each content script asks the page script.
Answered(r) ==
  /\ rescans[r].step = "asked"
  /\ Listening # {}
  /\ rescans' = [rescans EXCEPT ![r].step = "over"]
  /\ tasks' = tasks \o [i \in 1..Cardinality(Listening) |-> Request]
  /\ UNCHANGED <<shown, mainWorld, booting, pages, contents, evidence, updates>>

\* Nobody listens: the scripts are to be injected, the content script first.
Unanswered(r) ==
  /\ rescans[r].step = "asked"
  /\ Listening = {}
  /\ rescans' = [rescans EXCEPT ![r].step = "content"]
  /\ UNCHANGED <<shown, mainWorld, booting, pages, contents, tasks, evidence, updates>>

InjectContent(r) ==
  /\ rescans[r].step = "content"
  /\ rescans' = [rescans EXCEPT ![r].step = "page"]
  /\ contents' = [contents EXCEPT ![r + 1] = StartedContent]
  /\ UNCHANGED <<shown, mainWorld, booting, pages, tasks, evidence, updates>>

\* executeScript waits for document_idle, when the manifest's scripts start as well.
InjectPage(r) ==
  /\ rescans[r].step = "page"
  /\ booting = "over"
  /\ mainWorld
  /\ rescans' = [rescans EXCEPT ![r].step = "over"]
  /\ pages' = [pages EXCEPT ![r + 1] = StartedPage]
  /\ tasks' = Append(tasks, shown)
  /\ UNCHANGED <<shown, mainWorld, booting, contents, evidence, updates>>

\* An injection is refused, or the browser stops the worker before it.
InjectionBroken(r) ==
  /\ rescans[r].step \in {"content", "page"}
  /\ rescans' = [rescans EXCEPT ![r].step = "broken"]
  /\ UNCHANGED <<shown, mainWorld, booting, pages, contents, tasks, evidence, updates>>

--------------------------------------------------------------------------------
(* The page and the browser *)

\* The page changes, for instance because a framework has finished booting.
Change ==
  /\ shown < MaxVersions
  /\ shown' = shown + 1
  /\ UNCHANGED <<mainWorld, booting, pages, contents, tasks, evidence, rescans, updates>>

\* The extension is updated: results are gone, the worker starts anew, and the
\* document's content scripts are cut off.  Its page scripts go on.
Update ==
  /\ updates < MaxUpdates
  /\ booting = "over"
  /\ updates' = updates + 1
  /\ contents' = [c \in ScriptIds |-> IF c \in Listening THEN [NoContent EXCEPT !.state = "gone"]
                                                        ELSE contents[c]]
  /\ evidence' = NoEvidence
  /\ rescans' = [r \in Rescans |->
       IF rescans[r].step \in {"asked", "content", "page"} THEN [rescans[r] EXCEPT !.step = "broken"]
       ELSE rescans[r]]
  /\ UNCHANGED <<shown, mainWorld, booting, pages, tasks>>

PageWork == BootPage \/ DeliverRequest \/ \E p \in ScriptIds : Sample(p)
ContentWork == BootContent \/ DeliverReport \/ \E c \in ScriptIds : Fallback(c)
RescanWork(r) ==
  Answered(r) \/ Unanswered(r) \/ InjectContent(r) \/ InjectPage(r) \/ InjectionBroken(r)

Next ==
  \/ PageWork
  \/ ContentWork
  \/ \E c \in ScriptIds : SendEvidence(c)
  \/ \E r \in Rescans : Ask(r) \/ RescanWork(r)
  \/ Change
  \/ Update

Spec == Init /\ [][Next]_vars

\* The document's event loop serves its messages and timers, and the browser answers the
\* worker's calls.  Samples are not needed, and no script is favoured.
FairSpec ==
  /\ Spec
  /\ WF_vars(BootPage \/ BootContent)
  /\ WF_vars(DeliverRequest \/ DeliverReport)
  /\ WF_vars(\E c \in ScriptIds : Fallback(c))
  /\ WF_vars(\E c \in ScriptIds : SendEvidence(c))
  /\ WF_vars(\E r \in Rescans : RescanWork(r))

--------------------------------------------------------------------------------
(* Properties *)

\* Nothing is under way in the document or between it and the worker.
AtRest ==
  /\ booting = "over"
  /\ tasks = <<>>
  /\ \A c \in Listening : contents[c].sentOnce /\ ~contents[c].sending
  /\ \A r \in Rescans : rescans[r].step \in {"idle", "over"}

\* At rest the worker has the page report that the content scripts have, also when two
\* rescans have put two of them, which began with nothing, into the document (content.ts:
\* pageEvidence is sent whole with every collection, the last one counts).
WorkerHasLastReport ==
  AtRest => \A c \in Listening : contents[c].page # None => evidence = contents[c].page

\* At rest, and as long as only one page script ever ran, the worker knows what that script
\* read at its last sample, unless its first report came before anybody listened and nothing
\* has changed since (page.ts: report changes only; content.ts: every report is sent on).
LastSampleIsSent ==
  AtRest => \A p \in Running, c \in Listening :
    Running = {p} /\ contents[c].page # None => Globals[evidence] = Globals[pages[p].last]

\* A document with a content script gets its evidence to the worker, also when the page
\* script cannot run (content.ts: "still send what the isolated world can see").
EveryDocumentIsReported == Listening # {} ~> evidence # NoEvidence \/ Listening = {}

\* A rescan that meets a page script leads to evidence collected after it was asked for,
\* whether or not it has to inject the scripts first (README: "Rescan page re-collects the
\* current page").  Where the page script cannot run, nothing answers the request that the
\* content script posts, and a rescan collects nothing (content.ts: the "collect" listener).
RescanReachesPageScript ==
  \A r \in Rescans :
    rescans[r].step = "asked" /\ Running # {}
      ~> rescans[r].recollected \/ rescans[r].step = "broken" \/ updates > 0
================================================================================
