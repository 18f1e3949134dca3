------------------------------ MODULE TabPipeline ------------------------------
(***************************************************************************)
(* The extension's background worker, seen from one tab                    *)
(* (extension/src/background.ts): evidence messages start overlapping runs  *)
(* of handleEvidence, each suspended at its awaits; a newer message, a     *)
(* navigation or the tab's removal supersedes the runs before it; runs      *)
(* publish snapshots to storage.session and then set the toolbar badge.    *)
(* All of this state is keyed by the tab id, so tabs do not share any of it.*)
(*                                                                         *)
(* The worker is single threaded and the browser applies its extension API *)
(* calls in the order they are issued, so a call takes effect in the step   *)
(* that issues it; what is asynchronous is when the awaiting run resumes.   *)
(* Replies to session.set come back in order, lookups end in any order.     *)
(***************************************************************************)
EXTENDS Integers, Sequences, FiniteSets

CONSTANTS Techs,        \* technologies (name and version) a page can show
          Verdicts,     \* verdicts Assessor.assess can return
          Flagged,      \* the verdicts ranked "vulnerable" or worse
          Checking,     \* the "checking…" placeholder
          MaxEvidence,  \* bound: evidence messages delivered
          MaxLoads,     \* bound: onUpdated "loading" events
          MaxRestarts,  \* bound: times the browser stops the worker
          MaxFaults     \* bound: awaited storage calls that reject

ASSUME VerdictsAssumption ==
  /\ IsFiniteSet(Techs)
  /\ Flagged \subseteq Verdicts
  /\ Checking \notin Verdicts
ASSUME BoundsAssumption ==
  /\ MaxEvidence \in Nat /\ MaxLoads \in Nat
  /\ MaxRestarts \in Nat /\ MaxFaults \in Nat

VARIABLES open,        \* the tab exists
          loads,       \* "loading" events so far (numbers the documents shown)
          generation,  \* generation.get(tabId); 0 when the map has no entry
          started,     \* evidence messages handled so far
          runs,        \* the handleEvidence calls, by order of arrival
          store,       \* the tab's result in storage.session
          replies,     \* session.set calls whose caller has not resumed yet
          badge,       \* the number on the toolbar badge
          restarts,    \* worker stops so far
          faults       \* rejected awaits so far

tab == <<open, loads>>
limits == <<restarts, faults>>
vars == <<open, loads, generation, started, runs, store, replies, badge, restarts, faults>>

RunIds == 1..MaxEvidence

Nothing == [t \in {} |-> Checking]
PartialVerdicts == UNION {[S -> Verdicts \cup {Checking}] : S \in SUBSET Techs}
Decided(verdicts) == {t \in DOMAIN verdicts : verdicts[t] # Checking}

\* Badge texts: "…" while technologies are being checked, "" for none flagged.
Busy == -1
Blank == 0
BadgeText(phase, verdicts) ==
  IF phase = "detected" THEN Busy
                        ELSE Cardinality({t \in DOMAIN verdicts : verdicts[t] \in Flagged})

NoResult == [run |-> 0, load |-> 0, phase |-> "none", verdicts |-> Nothing]

\* A call of handleEvidence: its run number, the load it was delivered in,
\* the await it is suspended at, its result.assessments and the lookups of
\* its Promise.all.  A call that has returned or thrown is Ended.
Ended == [no |-> 0, load |-> 0, pc |-> "ended", verdicts |-> Nothing,
          lookup |-> [t \in Techs |-> "none"]]

RunRecords ==
  [no : Nat, load : Nat,
   pc : {"analysing", "carrying", "detected", "loading", "assessing", "rejected", "ending", "ended"},
   verdicts : PartialVerdicts,
   lookup : [Techs -> {"none", "looking", "setting", "over"}]]

Replies == [run : RunIds, lookup : SUBSET Techs, text : Int]

TypeOK ==
  /\ open \in BOOLEAN
  /\ loads \in Nat
  /\ generation \in Nat
  /\ started \in 0..MaxEvidence
  /\ runs \in [RunIds -> RunRecords]
  /\ store \in [run : Nat, load : Nat, phase : {"none", "detected", "done"},
                verdicts : PartialVerdicts]
  /\ replies \in Seq(Replies)
  /\ badge \in Int
  /\ restarts \in Nat
  /\ faults \in Nat

Init ==
  /\ open = TRUE
  /\ loads = 0
  /\ generation = 0
  /\ started = 0
  /\ runs = [id \in RunIds |-> Ended]
  /\ store = NoResult
  /\ replies = <<>>
  /\ badge = Blank
  /\ restarts = 0
  /\ faults = 0

--------------------------------------------------------------------------------
(* handleEvidence, await by await *)

\* Faulty variants, named Faulty..., stand before the definitions they would replace;
\* nothing uses them but the mutation runs that show each property can fail.
FaultyNeverSuperseded(id) == FALSE

Superseded(id) == generation # runs[id].no

FaultyTextOfLastSnapshot(id, lookup, phase, verdicts) ==
  /\ store' = [run |-> id, load |-> runs[id].load, phase |-> phase, verdicts |-> verdicts]
  /\ replies' = Append(replies, [run |-> id, lookup |-> lookup,
                                 text |-> BadgeText(store.phase, store.verdicts)])

\* publish(): the snapshot is stored at once; the caller resumes, and sets the
\* badge, when the reply arrives.  `lookup` is {t} when the lookup of t publishes.
Publish(id, lookup, phase, verdicts) ==
  /\ store' = [run |-> id, load |-> runs[id].load, phase |-> phase, verdicts |-> verdicts]
  /\ replies' = Append(replies, [run |-> id, lookup |-> lookup, text |-> BadgeText(phase, verdicts)])

\* A message arrives: the run takes the next number and awaits headers and cookies.
Evidence == \E found \in SUBSET Techs :
  /\ open
  /\ started < MaxEvidence
  /\ started' = started + 1
  /\ generation' = generation + 1
  /\ runs' = [runs EXCEPT ![started + 1] =
       [no |-> generation + 1, load |-> loads, pc |-> "analysing",
        verdicts |-> [t \in found |-> Checking], lookup |-> [t \in Techs |-> "none"]]]
  /\ UNCHANGED <<tab, store, replies, badge, limits>>

FaultyForgetVerdicts(id) ==
  /\ runs[id].pc = "analysing"
  /\ runs' = [runs EXCEPT ![id].pc = "carrying"]
  /\ UNCHANGED <<tab, generation, started, store, replies, badge, limits>>

\* The evidence is analysed and the stored result is read for prior verdicts.
CarryOver(id) ==
  /\ runs[id].pc = "analysing"
  /\ LET known == store.verdicts
     IN runs' = [runs EXCEPT ![id].pc = "carrying",
          ![id].verdicts = [t \in DOMAIN runs[id].verdicts |->
                              IF t \in Decided(known) THEN known[t] ELSE Checking]]
  /\ UNCHANGED <<tab, generation, started, store, replies, badge, limits>>

PublishDetected(id) ==
  /\ runs[id].pc = "carrying"
  /\ ~Superseded(id)
  /\ runs' = [runs EXCEPT ![id].pc = "detected"]
  /\ Publish(id, {}, "detected", runs[id].verdicts)
  /\ UNCHANGED <<tab, generation, started, badge, limits>>

\* Settings, database, KEV catalog and assessor are ready: all lookups start.
StartLookups(id) ==
  /\ runs[id].pc = "loading"
  /\ runs' = [runs EXCEPT ![id].pc = "assessing",
       ![id].lookup = [t \in Techs |->
         IF t \in DOMAIN runs[id].verdicts \ Decided(runs[id].verdicts) THEN "looking" ELSE "none"]]
  /\ UNCHANGED <<tab, generation, started, store, replies, badge, limits>>

\* One lookup of the Promise.all ends, whether or not another has rejected.
Assessed(id, t, verdict) ==
  LET verdicts == [runs[id].verdicts EXCEPT ![t] = verdict]
  IN /\ runs[id].lookup[t] = "looking"
     /\ ~Superseded(id)
     /\ runs' = [runs EXCEPT ![id].verdicts = verdicts, ![id].lookup[t] = "setting"]
     /\ Publish(id, {t}, "detected", verdicts)
     /\ UNCHANGED <<tab, generation, started, badge, limits>>

AssessedTooLate(id, t) ==
  /\ runs[id].lookup[t] = "looking"
  /\ Superseded(id)
  /\ runs' = [runs EXCEPT ![id].lookup[t] = "over"]
  /\ UNCHANGED <<tab, generation, started, store, replies, badge, limits>>

FaultyAwaitCarried(id) ==
  /\ runs[id].pc = "assessing"
  /\ \A t \in DOMAIN runs[id].verdicts : runs[id].lookup[t] = "over"

\* Promise.all has resolved: every lookup it started is over.
AllAssessed(id) ==
  /\ runs[id].pc = "assessing"
  /\ \A t \in Techs : runs[id].lookup[t] \in {"none", "over"}

PublishDone(id) ==
  /\ AllAssessed(id)
  /\ ~Superseded(id)
  /\ runs' = [runs EXCEPT ![id].pc = "ending"]
  /\ Publish(id, {}, "done", runs[id].verdicts)
  /\ UNCHANGED <<tab, generation, started, badge, limits>>

\* A superseded run returns without publishing.
GiveUp(id) ==
  /\ runs[id].pc = "carrying" \/ AllAssessed(id)
  /\ Superseded(id)
  /\ runs' = [runs EXCEPT ![id] = Ended]
  /\ UNCHANGED <<tab, generation, started, store, replies, badge, limits>>

\* The oldest session.set answers: updateBadge runs (it fails silently once the
\* tab is closed) and the publisher continues.
Reply ==
  /\ replies # <<>>
  /\ LET reply == Head(replies)
         run == runs[reply.run]
     IN /\ badge' = IF open THEN reply.text ELSE badge
        /\ runs' = [runs EXCEPT ![reply.run] =
             IF reply.lookup # {}
               THEN [run EXCEPT !.lookup = [t \in Techs |-> IF t \in reply.lookup THEN "over" ELSE @[t]]]
             ELSE IF run.pc = "detected" THEN [run EXCEPT !.pc = "loading"]
             ELSE Ended]
  /\ replies' = Tail(replies)
  /\ UNCHANGED <<tab, generation, started, store, limits>>

--------------------------------------------------------------------------------
(* One step of several failing: an awaited call rejects *)

Rejected(id, run) ==
  /\ faults < MaxFaults
  /\ faults' = faults + 1
  /\ runs' = [runs EXCEPT ![id] = run]
  /\ UNCHANGED <<tab, generation, started, store, replies, badge, restarts>>

\* session.set rejects in the first or the last publish, or reading the settings,
\* the database or the KEV cache does: handleEvidence rejects.
RunRejected(id) ==
  /\ \/ runs[id].pc = "carrying" /\ ~Superseded(id)
     \/ runs[id].pc = "loading"
     \/ AllAssessed(id) /\ ~Superseded(id)
  /\ Rejected(id, Ended)

\* session.set rejects in a lookup's publish: Promise.all rejects, the others go on.
LookupRejected(id, t, verdict) ==
  /\ runs[id].lookup[t] = "looking"
  /\ ~Superseded(id)
  /\ Rejected(id, [runs[id] EXCEPT !.pc = "rejected", !.verdicts[t] = verdict, !.lookup[t] = "over"])

--------------------------------------------------------------------------------
(* Events of the tab and of the worker *)

FaultyLoadingKeepsRuns ==
  /\ open
  /\ loads < MaxLoads
  /\ loads' = loads + 1
  /\ store' = NoResult
  /\ badge' = Blank
  /\ UNCHANGED <<open, generation, started, runs, replies, limits>>

FaultyLoadingCountsBack ==
  /\ open
  /\ loads < MaxLoads
  /\ loads' = loads + 1
  /\ generation' = generation - 1
  /\ store' = NoResult
  /\ badge' = Blank
  /\ UNCHANGED <<open, started, runs, replies, limits>>

\* tabs.onUpdated with status "loading".
Loading ==
  /\ open
  /\ loads < MaxLoads
  /\ loads' = loads + 1
  /\ generation' = generation + 1
  /\ store' = NoResult
  /\ badge' = Blank
  /\ UNCHANGED <<open, started, runs, replies, limits>>

\* tabs.onRemoved.
Removed ==
  /\ open
  /\ open' = FALSE
  /\ generation' = 0
  /\ store' = NoResult
  /\ badge' = Blank
  /\ UNCHANGED <<loads, started, runs, replies, limits>>

\* The browser stops the worker: its memory and its pending calls are gone,
\* storage.session and the badge stay.  The next event starts it again.
WorkerStopped ==
  /\ restarts < MaxRestarts
  /\ \E id \in RunIds : runs[id].pc # "ended"
  /\ restarts' = restarts + 1
  /\ generation' = 0
  /\ runs' = [id \in RunIds |-> Ended]
  /\ replies' = <<>>
  /\ UNCHANGED <<tab, started, store, badge, faults>>

RunStep(id) ==
  \/ CarryOver(id)
  \/ PublishDetected(id)
  \/ StartLookups(id)
  \/ \E t \in Techs, verdict \in Verdicts : Assessed(id, t, verdict)
  \/ \E t \in Techs : AssessedTooLate(id, t)
  \/ PublishDone(id)
  \/ GiveUp(id)

Next ==
  \/ Evidence
  \/ \E id \in RunIds : RunStep(id)
  \/ Reply
  \/ \E id \in RunIds : RunRejected(id)
  \/ \E id \in RunIds, t \in Techs, verdict \in Verdicts : LookupRejected(id, t, verdict)
  \/ Loading
  \/ Removed
  \/ WorkerStopped

Spec == Init /\ [][Next]_vars

\* Every await is answered while the worker lives: fetches, storage calls and
\* limiter waits end, so each run goes on.  Events owe nothing.
FairSpec == Spec /\ WF_vars(Reply) /\ \A id \in RunIds : WF_vars(RunStep(id))

--------------------------------------------------------------------------------
(* Properties *)

\* The stored result always is one of the document now shown in an existing tab:
\* a run that was suspended while the tab navigated or closed never stores it
\* (background.ts: superseded(), onUpdated, onRemoved).
ResultOfThisLoad == store # NoResult => open /\ store.load = loads

\* Overlapping runs never let an older evidence message's result replace a newer
\* one's (background.ts: "a newer evidence message supersedes any run still in progress").
NeverOlderEvidence ==
  [][store # NoResult /\ store' # NoResult => store'.run >= store.run]_vars

\* Once all badge updates under way are made, the badge shows the stored result,
\* however the publications of several runs interleaved (updateBadge).
BadgeShowsResult ==
  replies = <<>> /\ store # NoResult /\ restarts = 0
    => badge = BadgeText(store.phase, store.verdicts)

\* With no badge update under way, a tab without a result has no badge either
\* (README: results are cleared when the tab navigates; the badge is its count).
BadgeClearedWithResult == replies = <<>> /\ store = NoResult => badge = Blank

\* The published results follow the life cycle that the popup relies on: verdicts
\* reached for the shown document are never lost or changed by a later scan, and
\* "done" is only said when nothing is being checked.
LifeCycle == INSTANCE TabResult
  WITH result <- [phase |-> store.phase, verdicts |-> store.verdicts]
ResultLifeCycle == LifeCycle!Spec

\* Evidence of a document that stays shown leads to a concluded result of it or of
\* newer evidence, if no awaited call rejects and the worker lives: a run is never left
\* waiting for its lookups, nor superseded by one that gives up in its turn.
EveryScanConcludes ==
  \A id \in RunIds, n \in 0..MaxLoads :
    runs[id].pc = "analysing" /\ runs[id].load = n /\ loads = n
      ~> \/ store.phase = "done" /\ store.run >= id
         \/ loads # n \/ ~open
         \/ restarts > 0 \/ faults > 0
================================================================================
