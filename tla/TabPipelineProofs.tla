--------------------------- MODULE TabPipelineProofs ---------------------------
(* Theorems about TabPipeline, for any technologies, verdicts and bounds. *)
EXTENDS TabPipeline, FiniteSetTheorems, SequenceTheorems, TLAPS

\* A verdict map with one entry changed, or with values that come from another
\* verdict map, still is one.
LEMMA PartialVerdictsIntro ==
  ASSUME NEW S \in SUBSET Techs, NEW f \in [S -> Verdicts \cup {Checking}]
  PROVE  f \in PartialVerdicts
  BY DEF PartialVerdicts

LEMMA PartialVerdictsElim ==
  ASSUME NEW f \in PartialVerdicts
  PROVE  /\ DOMAIN f \in SUBSET Techs
         /\ f \in [DOMAIN f -> Verdicts \cup {Checking}]
  BY DEF PartialVerdicts

LEMMA PartialVerdictsExcept ==
  ASSUME NEW f \in PartialVerdicts, NEW t, NEW v \in Verdicts
  PROVE  [f EXCEPT ![t] = v] \in PartialVerdicts
<1>1. DOMAIN f \in SUBSET Techs /\ f \in [DOMAIN f -> Verdicts \cup {Checking}]
  BY PartialVerdictsElim
<1>2. [f EXCEPT ![t] = v] \in [DOMAIN f -> Verdicts \cup {Checking}]
  BY <1>1
<1>3. QED
  BY <1>1, <1>2, PartialVerdictsIntro

LEMMA NothingType == Nothing \in PartialVerdicts
<1>1. Nothing \in [{} -> Verdicts \cup {Checking}]
  BY DEF Nothing
<1>2. QED
  BY <1>1, PartialVerdictsIntro

LEMMA EndedType == Ended \in RunRecords
  BY NothingType DEF Ended, RunRecords

LEMMA NoResultType ==
  NoResult \in [run : Nat, load : Nat, phase : {"none", "detected", "done"},
                verdicts : PartialVerdicts]
  BY NothingType DEF NoResult

\* The badge text of a snapshot is a number.
LEMMA BadgeTextType ==
  ASSUME NEW phase, NEW verdicts \in PartialVerdicts
  PROVE  BadgeText(phase, verdicts) \in Int
<1> DEFINE flagged == {t \in DOMAIN verdicts : verdicts[t] \in Flagged}
<1>1. IsFiniteSet(flagged)
  <2>1. DOMAIN verdicts \in SUBSET Techs
    BY PartialVerdictsElim
  <2>2. flagged \subseteq Techs
    BY <2>1
  <2>3. QED
    BY <2>2, FS_Subset, VerdictsAssumption
<1>2. Cardinality(flagged) \in Nat
  BY <1>1, FS_CardinalityType
<1>3. QED
  BY <1>2 DEF BadgeText, Busy

\* publish() keeps the types of what it writes.
LEMMA PublishType ==
  ASSUME TypeOK, NEW id \in RunIds, NEW lookup \in SUBSET Techs,
         NEW phase \in {"detected", "done"}, NEW verdicts \in PartialVerdicts,
         Publish(id, lookup, phase, verdicts)
  PROVE  /\ store' \in [run : Nat, load : Nat, phase : {"none", "detected", "done"},
                         verdicts : PartialVerdicts]
         /\ replies' \in Seq(Replies)
<1>1. runs[id].load \in Nat /\ id \in Nat
  BY DEF TypeOK, RunRecords, RunIds
<1>2. [run |-> id, lookup |-> lookup, text |-> BadgeText(phase, verdicts)] \in Replies
  BY BadgeTextType DEF Replies
<1>3. QED
  BY <1>1, <1>2 DEF Publish, TypeOK

LEMMA InitType == Init => TypeOK
<1> SUFFICES ASSUME Init PROVE TypeOK
  OBVIOUS
<1>1. runs \in [RunIds -> RunRecords]
  BY EndedType DEF Init
<1>2. QED
  BY <1>1, NoResultType, BoundsAssumption DEF Init, TypeOK, Blank

LEMMA NextType == TypeOK /\ [Next]_vars => TypeOK'
<1> SUFFICES ASSUME TypeOK, [Next]_vars PROVE TypeOK'
  OBVIOUS
<1> USE BoundsAssumption DEF tab, limits
<1>1. CASE Evidence
  <2> PICK found \in SUBSET Techs :
        /\ started < MaxEvidence
        /\ started' = started + 1
        /\ generation' = generation + 1
        /\ runs' = [runs EXCEPT ![started + 1] =
             [no |-> generation + 1, load |-> loads, pc |-> "analysing",
              verdicts |-> [t \in found |-> Checking], lookup |-> [t \in Techs |-> "none"]]]
        /\ UNCHANGED <<tab, store, replies, badge, limits>>
    BY <1>1 DEF Evidence
  <2> DEFINE fresh == [t \in found |-> Checking]
  <2>1. fresh \in PartialVerdicts
    <3>1. fresh \in [found -> Verdicts \cup {Checking}]
      OBVIOUS
    <3>2. QED
      BY <3>1, PartialVerdictsIntro
  <2>2. [no |-> generation + 1, load |-> loads, pc |-> "analysing",
         verdicts |-> fresh, lookup |-> [t \in Techs |-> "none"]] \in RunRecords
    BY <2>1 DEF TypeOK, RunRecords
  <2>3. started + 1 \in RunIds
    BY DEF TypeOK, RunIds
  <2>4. runs' \in [RunIds -> RunRecords]
    BY <2>2, <2>3 DEF TypeOK
  <2>5. QED
    BY <2>4 DEF TypeOK
<1>2. ASSUME NEW id \in RunIds, RunStep(id) PROVE TypeOK'
  <2> DEFINE run == runs[id]
  <2>0. run \in RunRecords
    BY DEF TypeOK
  <2>1. CASE CarryOver(id)
    <3> DEFINE carried == [t \in DOMAIN run.verdicts |->
                 IF t \in Decided(store.verdicts) THEN store.verdicts[t] ELSE Checking]
    <3>1. store.verdicts \in PartialVerdicts /\ run.verdicts \in PartialVerdicts
      BY <2>0 DEF TypeOK, RunRecords
    <3>2. store.verdicts \in [DOMAIN store.verdicts -> Verdicts \cup {Checking}]
      BY <3>1, PartialVerdictsElim
    <3>3. DOMAIN run.verdicts \in SUBSET Techs
      BY <3>1, PartialVerdictsElim
    <3>4. carried \in [DOMAIN run.verdicts -> Verdicts \cup {Checking}]
      BY <3>2 DEF Decided
    <3>5. carried \in PartialVerdicts
      BY <3>3, <3>4, PartialVerdictsIntro
    <3>6. runs' = [runs EXCEPT ![id] = [run EXCEPT !.pc = "carrying", !.verdicts = carried]]
      BY <2>1, <2>0 DEF CarryOver, TypeOK
    <3>7. [run EXCEPT !.pc = "carrying", !.verdicts = carried] \in RunRecords
      BY <3>5, <2>0 DEF RunRecords
    <3>8. runs' \in [RunIds -> RunRecords]
      BY <3>6, <3>7 DEF TypeOK
    <3>9. QED
      BY <3>8, <2>1 DEF CarryOver, TypeOK
  <2>2. CASE PublishDetected(id)
    <3>1. run.verdicts \in PartialVerdicts
      BY <2>0 DEF RunRecords
    <3>2. Publish(id, {}, "detected", run.verdicts)
      BY <2>2 DEF PublishDetected
    <3>3. /\ store' \in [run : Nat, load : Nat, phase : {"none", "detected", "done"},
                          verdicts : PartialVerdicts]
          /\ replies' \in Seq(Replies)
      BY <3>1, <3>2, PublishType
    <3>4. runs' \in [RunIds -> RunRecords]
      BY <2>2, <2>0 DEF PublishDetected, TypeOK, RunRecords
    <3>5. QED
      BY <3>3, <3>4, <2>2 DEF PublishDetected, TypeOK
  <2>3. CASE StartLookups(id)
    <3>1. runs' \in [RunIds -> RunRecords]
      BY <2>3, <2>0 DEF StartLookups, TypeOK, RunRecords
    <3>2. QED
      BY <3>1, <2>3 DEF StartLookups, TypeOK
  <2>4. ASSUME NEW t \in Techs, NEW verdict \in Verdicts, Assessed(id, t, verdict) PROVE TypeOK'
    <3> DEFINE verdicts == [run.verdicts EXCEPT ![t] = verdict]
    <3>1. verdicts \in PartialVerdicts
      BY <2>0, PartialVerdictsExcept DEF RunRecords
    <3>2. Publish(id, {t}, "detected", verdicts)
      BY <2>4 DEF Assessed
    <3>3. /\ store' \in [run : Nat, load : Nat, phase : {"none", "detected", "done"},
                          verdicts : PartialVerdicts]
          /\ replies' \in Seq(Replies)
      BY <3>1, <3>2, PublishType
    <3>4. runs' = [runs EXCEPT ![id] = [run EXCEPT !.verdicts = verdicts, !.lookup[t] = "setting"]]
      BY <2>4, <2>0 DEF Assessed, TypeOK
    <3>5. [run EXCEPT !.verdicts = verdicts, !.lookup[t] = "setting"] \in RunRecords
      BY <3>1, <2>0 DEF RunRecords
    <3>6. runs' \in [RunIds -> RunRecords]
      BY <3>4, <3>5 DEF TypeOK
    <3>7. QED
      BY <3>3, <3>6, <2>4 DEF Assessed, TypeOK
  <2>5. ASSUME NEW t \in Techs, AssessedTooLate(id, t) PROVE TypeOK'
    <3>1. runs' \in [RunIds -> RunRecords]
      BY <2>5, <2>0 DEF AssessedTooLate, TypeOK, RunRecords
    <3>2. QED
      BY <3>1, <2>5 DEF AssessedTooLate, TypeOK
  <2>6. CASE PublishDone(id)
    <3>1. run.verdicts \in PartialVerdicts
      BY <2>0 DEF RunRecords
    <3>2. Publish(id, {}, "done", run.verdicts)
      BY <2>6 DEF PublishDone
    <3>3. /\ store' \in [run : Nat, load : Nat, phase : {"none", "detected", "done"},
                          verdicts : PartialVerdicts]
          /\ replies' \in Seq(Replies)
      BY <3>1, <3>2, PublishType
    <3>4. runs' \in [RunIds -> RunRecords]
      BY <2>6, <2>0 DEF PublishDone, TypeOK, RunRecords
    <3>5. QED
      BY <3>3, <3>4, <2>6 DEF PublishDone, TypeOK
  <2>7. CASE GiveUp(id)
    BY <2>7, EndedType DEF GiveUp, TypeOK
  <2>8. QED
    BY <1>2, <2>1, <2>2, <2>3, <2>4, <2>5, <2>6, <2>7 DEF RunStep
<1>3. CASE Reply
  <2> DEFINE reply == Head(replies)
             run == runs[reply.run]
             resumed == IF reply.lookup # {}
               THEN [run EXCEPT !.lookup = [t \in Techs |-> IF t \in reply.lookup THEN "over" ELSE @[t]]]
             ELSE IF run.pc = "detected" THEN [run EXCEPT !.pc = "loading"]
             ELSE Ended
  <2>1. reply \in Replies /\ Tail(replies) \in Seq(Replies)
    BY <1>3 DEF Reply, TypeOK
  <2>2. run \in RunRecords /\ reply.text \in Int
    BY <2>1 DEF Replies, TypeOK
  <2>3. resumed \in RunRecords
    <3>1. [run EXCEPT !.lookup = [t \in Techs |-> IF t \in reply.lookup THEN "over" ELSE @[t]]]
            \in RunRecords
      BY <2>2 DEF RunRecords
    <3>2. [run EXCEPT !.pc = "loading"] \in RunRecords
      BY <2>2 DEF RunRecords
    <3>3. QED
      BY <3>1, <3>2, EndedType
  <2>4. runs' = [runs EXCEPT ![reply.run] = resumed]
    BY <1>3 DEF Reply
  <2>5. runs' \in [RunIds -> RunRecords]
    BY <2>3, <2>4 DEF TypeOK
  <2>6. replies' \in Seq(Replies) /\ badge' \in Int
    BY <1>3, <2>1, <2>2 DEF Reply, TypeOK
  <2>7. QED
    BY <2>5, <2>6, <1>3 DEF Reply, TypeOK
<1>4. ASSUME NEW id \in RunIds, RunRejected(id) PROVE TypeOK'
  BY <1>4, EndedType DEF RunRejected, Rejected, TypeOK
<1>5. ASSUME NEW id \in RunIds, NEW t \in Techs, NEW verdict \in Verdicts,
             LookupRejected(id, t, verdict)
      PROVE  TypeOK'
  <2>0. runs[id] \in RunRecords
    BY DEF TypeOK
  <2>1. [runs[id].verdicts EXCEPT ![t] = verdict] \in PartialVerdicts
    BY <2>0, PartialVerdictsExcept DEF RunRecords
  <2>2. [runs[id] EXCEPT !.pc = "rejected", !.verdicts[t] = verdict, !.lookup[t] = "over"]
          \in RunRecords
    BY <2>0, <2>1 DEF RunRecords
  <2>3. runs' \in [RunIds -> RunRecords]
    BY <2>2, <1>5 DEF LookupRejected, Rejected, TypeOK
  <2>4. QED
    BY <2>3, <1>5 DEF LookupRejected, Rejected, TypeOK
<1>6. CASE Loading
  BY <1>6, NoResultType DEF Loading, TypeOK, Blank
<1>7. CASE Removed
  <2>1. open' \in BOOLEAN
    BY <1>7 DEF Removed
  <2>2. QED
    BY <2>1, <1>7, NoResultType DEF Removed, TypeOK, Blank
<1>8. CASE WorkerStopped
  <2>1. runs' \in [RunIds -> RunRecords]
    BY <1>8, EndedType DEF WorkerStopped
  <2>2. QED
    BY <2>1, <1>8 DEF WorkerStopped, TypeOK
<1>9. CASE UNCHANGED vars
  BY <1>9 DEF vars, TypeOK
<1>10. QED
  BY <1>1, <1>2, <1>3, <1>4, <1>5, <1>6, <1>7, <1>8, <1>9 DEF Next

\* Every reachable state is well typed, whatever interleaving of runs, events,
\* stops and rejections of background.ts led to it.
THEOREM TypeCorrect == Spec => []TypeOK
<1>1. Init => TypeOK
  BY InitType
<1>2. TypeOK /\ [Next]_vars => TypeOK'
  BY NextType
<1>3. QED
  BY <1>1, <1>2, PTL DEF Spec

--------------------------------------------------------------------------------
(* The stored result is one of the document shown.  The property is not inductive:
   a publishing run must be known to belong to the load it was started in.  What
   makes it so is that run numbers only grow while the tab exists, that every load
   takes a number of its own, and that a closed tab has none. *)

RunOfItsLoad(id) ==
  \/ /\ runs[id].no >= 1
     /\ open => /\ runs[id].no <= generation
                /\ runs[id].no = generation => runs[id].load = loads
  \/ /\ runs[id].no = 0
     /\ runs[id].pc = "ended"
     /\ \A t \in Techs : runs[id].lookup[t] # "looking"

LoadInv ==
  /\ TypeOK
  /\ ResultOfThisLoad
  /\ ~open => generation = 0
  /\ \A id \in RunIds : RunOfItsLoad(id)

\* A run that is not superseded belongs to the load shown, in a tab that exists.
LEMMA LatestRunIsOfThisLoad ==
  ASSUME LoadInv, NEW id \in RunIds, ~Superseded(id),
         \/ runs[id].pc # "ended"
         \/ \E t \in Techs : runs[id].lookup[t] = "looking"
  PROVE  open /\ runs[id].load = loads
<1>1. runs[id].no >= 1 /\ runs[id].no = generation /\ runs[id].no \in Nat
  BY DEF LoadInv, RunOfItsLoad, Superseded, TypeOK, RunRecords
<1>2. open
  BY <1>1 DEF LoadInv
<1>3. QED
  BY <1>1, <1>2 DEF LoadInv, RunOfItsLoad, TypeOK, RunRecords

\* What such a run publishes is a result of the load shown.
LEMMA PublishKeepsLoad ==
  ASSUME LoadInv, NEW id \in RunIds, NEW lookup, NEW phase, NEW verdicts,
         ~Superseded(id),
         \/ runs[id].pc # "ended"
         \/ \E t \in Techs : runs[id].lookup[t] = "looking",
         Publish(id, lookup, phase, verdicts), UNCHANGED tab
  PROVE  ResultOfThisLoad'
<1>1. open /\ runs[id].load = loads
  BY LatestRunIsOfThisLoad
<1>2. QED
  BY <1>1 DEF Publish, ResultOfThisLoad, tab

\* A step that leaves the numbers of the tab alone and gives each run either its
\* old number and load, without new lookups unless it had a number, or none.
LEMMA RunsKept ==
  ASSUME LoadInv, UNCHANGED <<tab, generation>>,
         \A id \in RunIds :
           \/ /\ runs'[id].no = runs[id].no
              /\ runs'[id].load = runs[id].load
              /\ \/ runs[id].pc # "ended"
                 \/ \E t \in Techs : runs[id].lookup[t] = "looking"
                 \/ /\ runs'[id].pc = "ended"
                    /\ \A t \in Techs : runs'[id].lookup[t] # "looking"
                 \/ runs'[id] = runs[id]
           \/ runs'[id] = Ended
  PROVE  (~open => generation = 0)' /\ \A id \in RunIds : RunOfItsLoad(id)'
<1>1. (~open => generation = 0)'
  BY DEF LoadInv, tab
<1>2. ASSUME NEW id \in RunIds PROVE RunOfItsLoad(id)'
  <2>1. RunOfItsLoad(id)
    BY DEF LoadInv
  <2>2. CASE runs'[id] = Ended
    BY <2>2 DEF RunOfItsLoad, Ended
  <2>3. CASE runs'[id] # Ended
    BY <2>1, <2>3 DEF RunOfItsLoad, tab
  <2>4. QED
    BY <2>2, <2>3
<1>3. QED
  BY <1>1, <1>2

LEMMA InitLoad == Init => LoadInv
<1> SUFFICES ASSUME Init PROVE LoadInv
  OBVIOUS
<1>1. TypeOK
  BY InitType
<1>2. QED
  BY <1>1 DEF Init, LoadInv, ResultOfThisLoad, RunOfItsLoad, Ended

LEMMA NextLoad == LoadInv /\ [Next]_vars => LoadInv'
<1> SUFFICES ASSUME LoadInv, [Next]_vars PROVE LoadInv'
  OBVIOUS
<1>0. TypeOK /\ TypeOK'
  BY NextType DEF LoadInv
<1> USE DEF tab, limits
<1>1. CASE Evidence
  <2> PICK found \in SUBSET Techs :
        runs' = [runs EXCEPT ![started + 1] =
             [no |-> generation + 1, load |-> loads, pc |-> "analysing",
              verdicts |-> [t \in found |-> Checking], lookup |-> [t \in Techs |-> "none"]]]
    BY <1>1 DEF Evidence
  <2>1. open /\ open' /\ generation' = generation + 1 /\ loads' = loads /\ store' = store
    BY <1>1 DEF Evidence
  <2>2. generation \in Nat /\ \A id \in RunIds : runs[id].no \in Nat
    BY <1>0 DEF TypeOK, RunRecords
  <2>3. ASSUME NEW id \in RunIds PROVE RunOfItsLoad(id)'
    <3>1. CASE id = started + 1
      <4>1. runs'[id].no = generation + 1 /\ runs'[id].load = loads
        BY <3>1, <1>0 DEF TypeOK
      <4>2. QED
        BY <4>1, <2>1, <2>2 DEF RunOfItsLoad
    <3>2. CASE id # started + 1
      <4>1. runs'[id] = runs[id]
        BY <3>2, <1>0 DEF TypeOK
      <4>2. RunOfItsLoad(id)
        BY DEF LoadInv
      <4>3. QED
        BY <4>1, <4>2, <2>1, <2>2 DEF RunOfItsLoad
    <3>3. QED
      BY <3>1, <3>2
  <2>4. ResultOfThisLoad' /\ (~open => generation = 0)'
    BY <2>1 DEF LoadInv, ResultOfThisLoad
  <2>5. QED
    BY <1>0, <2>3, <2>4 DEF LoadInv
<1>2. ASSUME NEW id \in RunIds, RunStep(id) PROVE LoadInv'
  <2>0. runs \in [RunIds -> RunRecords]
    BY <1>0 DEF TypeOK
  <2>1. UNCHANGED <<tab, generation>>
    BY <1>2 DEF RunStep, CarryOver, PublishDetected, StartLookups, Assessed, AssessedTooLate,
                PublishDone, GiveUp
  <2>2. ResultOfThisLoad'
    <3>1. CASE PublishDetected(id)
      <4>1. Publish(id, {}, "detected", runs[id].verdicts) /\ ~Superseded(id) /\ runs[id].pc # "ended"
        BY <3>1 DEF PublishDetected
      <4>2. QED
        BY <4>1, <2>1, PublishKeepsLoad
    <3>2. ASSUME NEW t \in Techs, NEW verdict \in Verdicts, Assessed(id, t, verdict)
          PROVE  ResultOfThisLoad'
      <4>1. /\ Publish(id, {t}, "detected", [runs[id].verdicts EXCEPT ![t] = verdict])
            /\ ~Superseded(id)
            /\ \E u \in Techs : runs[id].lookup[u] = "looking"
        BY <3>2 DEF Assessed
      <4>2. QED
        BY <4>1, <2>1, PublishKeepsLoad
    <3>3. CASE PublishDone(id)
      <4>1. Publish(id, {}, "done", runs[id].verdicts) /\ ~Superseded(id) /\ runs[id].pc # "ended"
        BY <3>3 DEF PublishDone, AllAssessed
      <4>2. QED
        BY <4>1, <2>1, PublishKeepsLoad
    <3>4. CASE UNCHANGED store
      BY <3>4, <2>1 DEF LoadInv, ResultOfThisLoad
    <3>5. QED
      BY <1>2, <3>1, <3>2, <3>3, <3>4
         DEF RunStep, CarryOver, StartLookups, AssessedTooLate, GiveUp
  <2>3. \A other \in RunIds : other # id => runs'[other] = runs[other]
    BY <1>2, <2>0 DEF RunStep, CarryOver, PublishDetected, StartLookups, Assessed, AssessedTooLate,
                PublishDone, GiveUp
  <2>4. \/ /\ runs'[id].no = runs[id].no
           /\ runs'[id].load = runs[id].load
           /\ \/ runs[id].pc # "ended"
              \/ \E t \in Techs : runs[id].lookup[t] = "looking"
        \/ runs'[id] = Ended
    <3>1. CASE CarryOver(id)
      BY <3>1, <2>0 DEF CarryOver, RunRecords
    <3>2. CASE PublishDetected(id)
      BY <3>2, <2>0 DEF PublishDetected, RunRecords
    <3>3. CASE StartLookups(id)
      BY <3>3, <2>0 DEF StartLookups, RunRecords
    <3>4. ASSUME NEW t \in Techs, NEW verdict \in Verdicts, Assessed(id, t, verdict)
          PROVE  /\ runs'[id].no = runs[id].no
                 /\ runs'[id].load = runs[id].load
                 /\ \E u \in Techs : runs[id].lookup[u] = "looking"
      BY <3>4, <2>0 DEF Assessed, RunRecords
    <3>5. ASSUME NEW t \in Techs, AssessedTooLate(id, t)
          PROVE  /\ runs'[id].no = runs[id].no
                 /\ runs'[id].load = runs[id].load
                 /\ \E u \in Techs : runs[id].lookup[u] = "looking"
      BY <3>5, <2>0 DEF AssessedTooLate, RunRecords
    <3>6. CASE PublishDone(id)
      BY <3>6, <2>0 DEF PublishDone, AllAssessed, RunRecords
    <3>7. CASE GiveUp(id)
      BY <3>7, <2>0 DEF GiveUp
    <3>8. QED
      BY <1>2, <3>1, <3>2, <3>3, <3>4, <3>5, <3>6, <3>7 DEF RunStep
  <2>5. (~open => generation = 0)' /\ \A other \in RunIds : RunOfItsLoad(other)'
    BY <2>1, <2>3, <2>4, RunsKept
  <2>6. QED
    BY <1>0, <2>2, <2>5 DEF LoadInv
<1>3. CASE Reply
  <2>0. runs \in [RunIds -> RunRecords] /\ Head(replies).run \in RunIds
    BY <1>0, <1>3 DEF Reply, TypeOK, Replies
  <2>1. UNCHANGED <<tab, generation, store>>
    BY <1>3 DEF Reply
  <2>2. ASSUME NEW id \in RunIds PROVE RunOfItsLoad(id)'
    <3>0. RunOfItsLoad(id) /\ runs[id] \in RunRecords
      BY <2>0 DEF LoadInv
    <3>1. CASE id = Head(replies).run /\ Head(replies).lookup # {}
      <4>1. runs'[id] = [runs[id] EXCEPT !.lookup =
              [t \in Techs |-> IF t \in Head(replies).lookup THEN "over" ELSE @[t]]]
        BY <1>3, <2>0, <3>1 DEF Reply
      <4>2. /\ runs'[id].no = runs[id].no
            /\ runs'[id].load = runs[id].load
            /\ runs'[id].pc = runs[id].pc
            /\ \A t \in Techs : runs'[id].lookup[t] \in {runs[id].lookup[t], "over"}
        BY <4>1, <3>0 DEF RunRecords
      <4>3. QED
        BY <4>2, <2>1, <3>0 DEF RunOfItsLoad
    <3>2. CASE id = Head(replies).run /\ Head(replies).lookup = {} /\ runs[id].pc = "detected"
      <4>1. runs'[id] = [runs[id] EXCEPT !.pc = "loading"]
        BY <1>3, <2>0, <3>2 DEF Reply
      <4>2. runs'[id].no = runs[id].no /\ runs'[id].load = runs[id].load
        BY <4>1, <3>0 DEF RunRecords
      <4>3. QED
        BY <4>2, <2>1, <3>0, <3>2 DEF RunOfItsLoad
    <3>3. CASE id = Head(replies).run /\ Head(replies).lookup = {} /\ runs[id].pc # "detected"
      <4>1. runs'[id] = Ended
        BY <1>3, <2>0, <3>3 DEF Reply
      <4>2. QED
        BY <4>1 DEF RunOfItsLoad, Ended
    <3>4. CASE id # Head(replies).run
      <4>1. runs'[id] = runs[id]
        BY <1>3, <2>0, <3>4 DEF Reply
      <4>2. QED
        BY <4>1, <2>1, <3>0 DEF RunOfItsLoad
    <3>5. QED
      BY <3>1, <3>2, <3>3, <3>4
  <2>3. QED
    BY <1>0, <2>1, <2>2 DEF LoadInv, ResultOfThisLoad
<1>4. ASSUME NEW id \in RunIds, RunRejected(id) PROVE LoadInv'
  <2>1. UNCHANGED <<tab, generation, store>> /\ runs' = [runs EXCEPT ![id] = Ended]
    BY <1>4 DEF RunRejected, Rejected
  <2>2. (~open => generation = 0)' /\ \A other \in RunIds : RunOfItsLoad(other)'
    BY <2>1, <1>0, RunsKept DEF TypeOK
  <2>3. QED
    BY <1>0, <2>1, <2>2 DEF LoadInv, ResultOfThisLoad
<1>5. ASSUME NEW id \in RunIds, NEW t \in Techs, NEW verdict \in Verdicts,
             LookupRejected(id, t, verdict)
      PROVE  LoadInv'
  <2>1. UNCHANGED <<tab, generation, store>>
    BY <1>5 DEF LookupRejected, Rejected
  <2>2. /\ runs'[id].no = runs[id].no
        /\ runs'[id].load = runs[id].load
        /\ runs[id].lookup[t] = "looking"
    BY <1>5, <1>0 DEF LookupRejected, Rejected, TypeOK, RunRecords
  <2>3. \A other \in RunIds : other # id => runs'[other] = runs[other]
    BY <1>5, <1>0 DEF LookupRejected, Rejected, TypeOK
  <2>4. (~open => generation = 0)' /\ \A other \in RunIds : RunOfItsLoad(other)'
    BY <2>1, <2>2, <2>3, RunsKept
  <2>5. QED
    BY <1>0, <2>1, <2>4 DEF LoadInv, ResultOfThisLoad
<1>6. CASE Loading
  <2>1. /\ open /\ open' = open /\ generation' = generation + 1 /\ runs' = runs
        /\ store' = NoResult
    BY <1>6 DEF Loading
  <2>2. generation \in Nat /\ \A id \in RunIds : runs[id].no \in Nat
    BY <1>0 DEF TypeOK, RunRecords
  <2>3. \A id \in RunIds : RunOfItsLoad(id)'
    BY <2>1, <2>2 DEF LoadInv, RunOfItsLoad
  <2>4. QED
    BY <1>0, <2>1, <2>3 DEF LoadInv, ResultOfThisLoad
<1>7. CASE Removed
  <2>1. ~open' /\ generation' = 0 /\ runs' = runs /\ store' = NoResult
    BY <1>7 DEF Removed
  <2>2. \A id \in RunIds : RunOfItsLoad(id)'
    BY <2>1 DEF LoadInv, RunOfItsLoad
  <2>3. QED
    BY <1>0, <2>1, <2>2 DEF LoadInv, ResultOfThisLoad
<1>8. CASE WorkerStopped
  <2>1. UNCHANGED <<tab, store>> /\ generation' = 0 /\ runs' = [id \in RunIds |-> Ended]
    BY <1>8 DEF WorkerStopped
  <2>2. \A id \in RunIds : RunOfItsLoad(id)'
    BY <2>1 DEF RunOfItsLoad, Ended
  <2>3. QED
    BY <1>0, <2>1, <2>2 DEF LoadInv, ResultOfThisLoad
<1>9. CASE UNCHANGED vars
  BY <1>0, <1>9 DEF vars, LoadInv, ResultOfThisLoad, RunOfItsLoad
<1>10. QED
  BY <1>1, <1>2, <1>3, <1>4, <1>5, <1>6, <1>7, <1>8, <1>9 DEF Next

\* The result that storage.session holds for a tab always is one of the document it
\* shows: no run suspended across a navigation or the tab's removal publishes.
THEOREM ResultsOfThisLoad == Spec => []ResultOfThisLoad
<1>1. Init => LoadInv
  BY InitLoad
<1>2. LoadInv /\ [Next]_vars => LoadInv'
  BY NextLoad
<1>3. LoadInv => ResultOfThisLoad
  BY DEF LoadInv
<1>4. QED
  BY <1>1, <1>2, <1>3, PTL DEF Spec
--------------------------------------------------------------------------------
(* The badge shows the stored result.  While updates are under way the one that was
   issued last is that of the stored result, and replies come in order. *)

BadgeInv ==
  store # NoResult /\ restarts = 0 =>
    IF replies = <<>> THEN badge = BadgeText(store.phase, store.verdicts)
                      ELSE replies[Len(replies)].text = BadgeText(store.phase, store.verdicts)

\* A step of a run concerns that run only, and publishes nothing once it is superseded.
LEMMA RunStepEffect ==
  ASSUME TypeOK, NEW id \in RunIds, RunStep(id)
  PROVE  /\ UNCHANGED <<open, loads, generation, started, badge, restarts, faults>>
         /\ \A other \in RunIds : other # id => runs'[other] = runs[other]
         /\ \/ runs'[id] = Ended
            \/ runs'[id].no = runs[id].no /\ runs'[id].load = runs[id].load
         /\ \/ UNCHANGED <<store, replies>>
            \/ /\ ~Superseded(id)
               /\ \/ runs[id].pc # "ended"
                  \/ \E t \in Techs : runs[id].lookup[t] = "looking"
               /\ \E lookup \in SUBSET Techs, phase \in {"detected", "done"} :
                    \E verdicts : Publish(id, lookup, phase, verdicts)
<1>0. runs \in [RunIds -> RunRecords] /\ runs[id] \in RunRecords
  BY DEF TypeOK
<1> USE DEF tab, limits
<1>1. UNCHANGED <<open, loads, generation, started, badge, restarts, faults>>
  BY DEF RunStep, CarryOver, PublishDetected, StartLookups, Assessed, AssessedTooLate, PublishDone, GiveUp
<1>2. \A other \in RunIds : other # id => runs'[other] = runs[other]
  BY <1>0 DEF RunStep, CarryOver, PublishDetected, StartLookups, Assessed, AssessedTooLate, PublishDone, GiveUp
<1>3. CASE CarryOver(id)
  BY <1>0, <1>1, <1>2, <1>3 DEF CarryOver, RunRecords
<1>4. CASE PublishDetected(id)
  <2>1. runs'[id].no = runs[id].no /\ runs'[id].load = runs[id].load
    BY <1>0, <1>4 DEF PublishDetected, RunRecords
  <2>2. ~Superseded(id) /\ runs[id].pc # "ended" /\ Publish(id, {}, "detected", runs[id].verdicts)
    BY <1>4 DEF PublishDetected
  <2>3. QED
    BY <1>1, <1>2, <2>1, <2>2
<1>5. CASE StartLookups(id)
  BY <1>0, <1>1, <1>2, <1>5 DEF StartLookups, RunRecords
<1>6. ASSUME NEW t \in Techs, NEW verdict \in Verdicts, Assessed(id, t, verdict)
      PROVE  /\ runs'[id].no = runs[id].no /\ runs'[id].load = runs[id].load
             /\ ~Superseded(id) /\ runs[id].lookup[t] = "looking"
             /\ \E verdicts : Publish(id, {t}, "detected", verdicts)
  BY <1>0, <1>6 DEF Assessed, RunRecords
<1>7. ASSUME NEW t \in Techs, AssessedTooLate(id, t)
      PROVE  runs'[id].no = runs[id].no /\ runs'[id].load = runs[id].load /\ UNCHANGED <<store, replies>>
  BY <1>0, <1>7 DEF AssessedTooLate, RunRecords
<1>8. CASE PublishDone(id)
  <2>1. runs'[id].no = runs[id].no /\ runs'[id].load = runs[id].load
    BY <1>0, <1>8 DEF PublishDone, RunRecords
  <2>2. ~Superseded(id) /\ runs[id].pc # "ended" /\ Publish(id, {}, "done", runs[id].verdicts)
    BY <1>8 DEF PublishDone, AllAssessed
  <2>3. QED
    BY <1>1, <1>2, <2>1, <2>2
<1>9. CASE GiveUp(id)
  BY <1>0, <1>1, <1>2, <1>9 DEF GiveUp
<1>10. QED
  BY <1>1, <1>2, <1>3, <1>4, <1>5, <1>6, <1>7, <1>8, <1>9 DEF RunStep

\* With the publication of a snapshot goes the badge that shows it.
LEMMA PublishKeepsBadge ==
  ASSUME TypeOK, NEW id, NEW lookup, NEW phase, NEW verdicts,
         Publish(id, lookup, phase, verdicts)
  PROVE  BadgeInv'
<1> DEFINE reply == [run |-> id, lookup |-> lookup, text |-> BadgeText(phase, verdicts)]
<1>1. replies' = Append(replies, reply) /\ replies \in Seq(Replies)
  BY DEF Publish, TypeOK
<1>2. Len(replies') = Len(replies) + 1 /\ replies'[Len(replies) + 1] = reply /\ replies' # <<>>
  BY <1>1
<1>3. store'.phase = phase /\ store'.verdicts = verdicts
  BY DEF Publish
<1>4. BadgeText(phase, verdicts) = BadgeText(store'.phase, store'.verdicts)
  BY <1>3
<1>5. QED
  BY <1>2, <1>4 DEF BadgeInv, BadgeText

LEMMA NextBadge == LoadInv /\ BadgeInv /\ [Next]_vars => BadgeInv'
<1> SUFFICES ASSUME LoadInv, BadgeInv, [Next]_vars PROVE BadgeInv'
  OBVIOUS
<1>0. TypeOK /\ ResultOfThisLoad
  BY DEF LoadInv
<1> USE DEF tab, limits
<1>1. ASSUME NEW id \in RunIds, RunStep(id) PROVE BadgeInv'
  <2>1. CASE UNCHANGED <<store, replies>>
    BY <2>1, <1>0, <1>1, RunStepEffect DEF BadgeInv, BadgeText
  <2>2. CASE \E lookup, phase, verdicts : Publish(id, lookup, phase, verdicts)
    BY <2>2, <1>0, PublishKeepsBadge
  <2>3. QED
    BY <2>1, <2>2, <1>0, <1>1, RunStepEffect
<1>2. CASE Reply
  <2>1. /\ replies # <<>> /\ replies' = Tail(replies) /\ store' = store /\ restarts' = restarts
        /\ badge' = IF open THEN Head(replies).text ELSE badge
    BY <1>2 DEF Reply
  <2> SUFFICES ASSUME store # NoResult, restarts = 0
               PROVE  IF replies' = <<>> THEN badge' = BadgeText(store.phase, store.verdicts)
                      ELSE replies'[Len(replies')].text = BadgeText(store.phase, store.verdicts)
    BY <2>1 DEF BadgeInv, BadgeText
  <2>2. replies[Len(replies)].text = BadgeText(store.phase, store.verdicts)
    BY <2>1 DEF BadgeInv
  <2>3. open /\ replies \in Seq(Replies)
    BY <1>0 DEF ResultOfThisLoad, TypeOK
  <2>4. CASE Len(replies) = 1
    BY <2>1, <2>2, <2>3, <2>4
  <2>5. CASE Len(replies) # 1
    <3>1. /\ Len(replies) \in Nat /\ Len(replies) # 0 /\ Len(Tail(replies)) = Len(replies) - 1
          /\ \A i \in 1..Len(Tail(replies)) : Tail(replies)[i] = replies[i + 1]
      BY <2>1, <2>3, EmptySeq, HeadTailProperties, LenProperties
    <3>2. replies'[Len(replies')] = replies[Len(replies)]
      BY <2>1, <2>5, <3>1
    <3>3. replies' # <<>>
      <4>1. Len(replies') # 0
        BY <2>1, <2>5, <3>1
      <4>2. QED
        BY <4>1, EmptySeq
    <3>4. QED
      BY <2>2, <3>2, <3>3
  <2>6. QED
    BY <2>4, <2>5
<1>3. CASE Evidence
  BY <1>3 DEF Evidence, BadgeInv, BadgeText
<1>4. ASSUME NEW id \in RunIds, RunRejected(id) PROVE BadgeInv'
  BY <1>4 DEF RunRejected, Rejected, BadgeInv, BadgeText
<1>5. ASSUME NEW id \in RunIds, NEW t \in Techs, NEW verdict \in Verdicts, LookupRejected(id, t, verdict)
      PROVE  BadgeInv'
  BY <1>5 DEF LookupRejected, Rejected, BadgeInv, BadgeText
<1>6. CASE Loading \/ Removed
  BY <1>6 DEF Loading, Removed, BadgeInv
<1>7. CASE WorkerStopped
  <2>1. restarts' = restarts + 1 /\ restarts \in Nat
    BY <1>0, <1>7 DEF WorkerStopped, TypeOK
  <2>2. QED
    BY <2>1 DEF BadgeInv
<1>8. CASE UNCHANGED vars
  BY <1>8 DEF vars, BadgeInv, BadgeText
<1>9. QED
  BY <1>1, <1>2, <1>3, <1>4, <1>5, <1>6, <1>7, <1>8 DEF Next

\* However the publications of several runs and their replies interleave, the badge shows the
\* stored result once no update is under way (publish and updateBadge of background.ts).
THEOREM BadgeCorrect == Spec => []BadgeShowsResult
<1>1. Init => LoadInv /\ BadgeInv
  BY InitLoad DEF Init, BadgeInv
<1>2. LoadInv /\ BadgeInv /\ [Next]_vars => LoadInv' /\ BadgeInv'
  BY NextLoad, NextBadge
<1>3. BadgeInv => BadgeShowsResult
  BY DEF BadgeInv, BadgeShowsResult
<1>4. QED
  BY <1>1, <1>2, <1>3, PTL DEF Spec
--------------------------------------------------------------------------------
(* Results only become newer.  Numbers are given in the order of arrival, so a run that
   is not superseded came after every other, and after the one that stored the result:
   its number may be gone by then, but those of the runs before it remain too low. *)

Unstarted == \A id \in RunIds : id > started => runs[id].no = 0
InOrderOfArrival ==
  \A i, j \in RunIds : i < j /\ runs[i].no >= 1 /\ runs[j].no >= 1 => runs[i].no < runs[j].no
StoredByStarted == store.run <= started
OlderSuperseded == \A id \in RunIds : id < store.run /\ runs[id].no >= 1 => runs[id].no < generation
OrderInv == LoadInv /\ Unstarted /\ InOrderOfArrival /\ StoredByStarted /\ OlderSuperseded

\* What runs, tab and result look like to the arithmetic of these proofs.
LEMMA Numbers ==
  ASSUME LoadInv
  PROVE  /\ generation \in Nat /\ started \in Nat /\ store.run \in Nat
         /\ \A id \in RunIds : id \in Nat /\ runs[id].no \in Nat
         /\ NoResult.run = 0 /\ Ended.no = 0
  BY DEF LoadInv, TypeOK, RunRecords, RunIds, NoResult, Ended

\* Only a run with a number goes on.
LEMMA ActiveHasNumber ==
  ASSUME LoadInv, NEW id \in RunIds,
         \/ runs[id].pc # "ended"
         \/ \E t \in Techs : runs[id].lookup[t] = "looking"
  PROVE  runs[id].no >= 1
  BY DEF LoadInv, RunOfItsLoad

\* What a step of a run stores is its own, and it is the latest run.
LEMMA StoresOwn ==
  ASSUME LoadInv, NEW id \in RunIds, RunStep(id)
  PROVE  \/ store' = store
         \/ ~Superseded(id) /\ runs[id].no >= 1 /\ store'.run = id
<1>0. TypeOK
  BY DEF LoadInv
<1>1. CASE UNCHANGED store
  BY <1>1
<1>2. CASE store' # store
  <2>1. /\ ~Superseded(id)
        /\ runs[id].pc # "ended" \/ \E t \in Techs : runs[id].lookup[t] = "looking"
        /\ \E lookup \in SUBSET Techs, phase \in {"detected", "done"} : \E verdicts :
             Publish(id, lookup, phase, verdicts)
    BY <1>0, <1>2, RunStepEffect
  <2>2. runs[id].no >= 1
    BY <2>1, ActiveHasNumber
  <2>3. store'.run = id
    BY <2>1 DEF Publish
  <2>4. QED
    BY <2>1, <2>2, <2>3
<1>3. QED
  BY <1>1, <1>2

\* A step that gives no numbers, and stores at most a result of the latest run.
LEMMA NumbersKept ==
  ASSUME OrderInv, UNCHANGED <<generation, started>>,
         \A id \in RunIds : runs'[id].no \in {runs[id].no, 0},
         \/ store' \in {store, NoResult}
         \/ \E id \in RunIds : ~Superseded(id) /\ runs[id].no >= 1 /\ store'.run = id
  PROVE  Unstarted' /\ InOrderOfArrival' /\ StoredByStarted' /\ OlderSuperseded'
<1>0. /\ generation \in Nat /\ started \in Nat /\ store.run \in Nat
      /\ \A id \in RunIds : id \in Nat /\ runs[id].no \in Nat
      /\ NoResult.run = 0
  BY Numbers DEF OrderInv
<1>1. Unstarted' /\ InOrderOfArrival'
  BY <1>0 DEF OrderInv, Unstarted, InOrderOfArrival
<1>2. CASE store' \in {store, NoResult}
  BY <1>0, <1>1, <1>2 DEF OrderInv, StoredByStarted, OlderSuperseded
<1>3. ASSUME NEW id \in RunIds, ~Superseded(id), runs[id].no >= 1, store'.run = id
      PROVE  StoredByStarted' /\ OlderSuperseded'
  <2>1. id <= started
    BY <1>0, <1>3 DEF OrderInv, Unstarted
  <2>2. \A other \in RunIds : other < id /\ runs[other].no >= 1 => runs[other].no < generation
    BY <1>0, <1>3 DEF OrderInv, InOrderOfArrival, Superseded
  <2>3. QED
    BY <1>0, <1>3, <2>1, <2>2 DEF StoredByStarted, OlderSuperseded
<1>4. QED
  BY <1>1, <1>2, <1>3

LEMMA NextOrder == OrderInv /\ [Next]_vars => OrderInv'
<1> SUFFICES ASSUME OrderInv, [Next]_vars PROVE OrderInv'
  OBVIOUS
<1>0. LoadInv /\ LoadInv' /\ TypeOK
  BY NextLoad DEF OrderInv, LoadInv
<1>00. /\ generation \in Nat /\ started \in Nat /\ store.run \in Nat
       /\ \A id \in RunIds : id \in Nat /\ runs[id].no \in Nat
       /\ NoResult.run = 0 /\ Ended.no = 0
  BY <1>0, Numbers
<1> USE DEF tab, limits
<1>1. CASE Evidence
  <2>1. PICK found \in SUBSET Techs :
          runs' = [runs EXCEPT ![started + 1] =
             [no |-> generation + 1, load |-> loads, pc |-> "analysing",
              verdicts |-> [t \in found |-> Checking], lookup |-> [t \in Techs |-> "none"]]]
    BY <1>1 DEF Evidence
  <2>2. /\ open /\ started < MaxEvidence /\ started' = started + 1
        /\ generation' = generation + 1 /\ store' = store
    BY <1>1 DEF Evidence
  <2>20. started + 1 \in RunIds
    BY <1>00, <2>2, BoundsAssumption DEF RunIds
  <2>3. /\ runs'[started + 1].no = generation + 1
        /\ \A id \in RunIds : id # started + 1 => runs'[id] = runs[id]
    BY <1>0, <2>1, <2>20 DEF TypeOK
  <2>4. \A id \in RunIds : runs[id].no <= generation
    BY <1>0, <1>00, <2>2 DEF LoadInv, RunOfItsLoad
  <2>5. Unstarted'
    BY <1>00, <2>2, <2>3 DEF OrderInv, Unstarted
  <2>6. InOrderOfArrival'
    <3> SUFFICES ASSUME NEW i \in RunIds, NEW j \in RunIds, i < j, runs'[i].no >= 1, runs'[j].no >= 1
                 PROVE  runs'[i].no < runs'[j].no
      BY DEF InOrderOfArrival
    <3>1. j <= started + 1
      BY <1>00, <2>2, <2>5 DEF Unstarted
    <3>2. CASE j = started + 1
      BY <1>00, <2>3, <2>4, <3>2
    <3>3. CASE j # started + 1
      BY <1>00, <2>3, <3>1, <3>3 DEF OrderInv, InOrderOfArrival
    <3>4. QED
      BY <3>2, <3>3
  <2>7. StoredByStarted' /\ OlderSuperseded'
    BY <1>00, <2>2, <2>3, <2>4 DEF OrderInv, StoredByStarted, OlderSuperseded
  <2>8. QED
    BY <1>0, <2>5, <2>6, <2>7 DEF OrderInv
<1>2. ASSUME NEW id \in RunIds, RunStep(id) PROVE OrderInv'
  <2>1. \A other \in RunIds : runs'[other].no \in {runs[other].no, 0}
    BY <1>0, <1>00, <1>2, RunStepEffect
  <2>2. UNCHANGED <<generation, started>>
    BY <1>0, <1>2, RunStepEffect
  <2>3. store' = store \/ (~Superseded(id) /\ runs[id].no >= 1 /\ store'.run = id)
    BY <1>0, <1>2, StoresOwn
  <2>4. QED
    BY <1>0, <2>1, <2>2, <2>3, NumbersKept DEF OrderInv
<1>3. CASE Reply
  <2>0. UNCHANGED <<generation, started, store>> /\ replies # <<>>
    BY <1>3 DEF Reply
  <2>1. runs \in [RunIds -> RunRecords] /\ Head(replies) \in Replies
    BY <1>0, <2>0, HeadTailProperties DEF TypeOK
  <2>2. \A id \in RunIds : runs'[id].no \in {runs[id].no, 0}
    <3> TAKE id \in RunIds
    <3>0. runs[id] \in RunRecords
      BY <2>1
    <3>1. \/ runs'[id] = [runs[id] EXCEPT !.lookup =
                            [t \in Techs |-> IF t \in Head(replies).lookup THEN "over" ELSE @[t]]]
          \/ runs'[id] = [runs[id] EXCEPT !.pc = "loading"]
          \/ runs'[id] \in {runs[id], Ended}
      BY <1>3, <2>1 DEF Reply, Replies
    <3>2. QED
      BY <1>00, <3>0, <3>1 DEF RunRecords
  <2>3. QED
    BY <1>0, <2>0, <2>2, NumbersKept DEF OrderInv
<1>4. ASSUME NEW id \in RunIds, RunRejected(id) PROVE OrderInv'
  <2>1. UNCHANGED <<generation, started, store>> /\ \A other \in RunIds : runs'[other].no \in {runs[other].no, 0}
    BY <1>0, <1>00, <1>4 DEF RunRejected, Rejected, TypeOK
  <2>2. QED
    BY <1>0, <2>1, NumbersKept DEF OrderInv
<1>5. ASSUME NEW id \in RunIds, NEW t \in Techs, NEW verdict \in Verdicts, LookupRejected(id, t, verdict)
      PROVE  OrderInv'
  <2>1. UNCHANGED <<generation, started, store>> /\ \A other \in RunIds : runs'[other].no = runs[other].no
    BY <1>0, <1>5 DEF LookupRejected, Rejected, TypeOK, RunRecords
  <2>2. QED
    BY <1>0, <2>1, NumbersKept DEF OrderInv
<1>6. CASE Loading \/ Removed
  <2>1. started' = started /\ runs' = runs /\ store' = NoResult
    BY <1>6 DEF Loading, Removed
  <2>2. Unstarted' /\ InOrderOfArrival'
    BY <2>1 DEF OrderInv, Unstarted, InOrderOfArrival
  <2>3. StoredByStarted' /\ OlderSuperseded'
    BY <1>00, <2>1 DEF StoredByStarted, OlderSuperseded
  <2>4. QED
    BY <1>0, <2>2, <2>3 DEF OrderInv
<1>7. CASE WorkerStopped
  <2>1. started' = started /\ store' = store /\ \A id \in RunIds : runs'[id].no = 0
    BY <1>00, <1>7 DEF WorkerStopped
  <2>2. QED
    BY <1>0, <1>00, <2>1 DEF OrderInv, Unstarted, InOrderOfArrival, StoredByStarted, OlderSuperseded
<1>8. CASE UNCHANGED vars
  BY <1>0, <1>8 DEF vars, OrderInv, Unstarted, InOrderOfArrival, StoredByStarted, OlderSuperseded
<1>9. QED
  BY <1>1, <1>2, <1>3, <1>4, <1>5, <1>6, <1>7, <1>8 DEF Next

LEMMA InitOrder == Init => OrderInv
<1> SUFFICES ASSUME Init PROVE OrderInv
  OBVIOUS
<1>1. LoadInv
  BY InitLoad
<1>2. store.run = 0 /\ started = 0 /\ \A id \in RunIds : runs[id].no = 0
  BY <1>1, Numbers DEF Init
<1>3. QED
  BY <1>1, <1>2, Numbers DEF OrderInv, Unstarted, InOrderOfArrival, StoredByStarted, OlderSuperseded

\* No step replaces the result of a newer evidence message by that of an older one, however
\* many runs overlap and wherever the worker stopped (superseded() of background.ts).
THEOREM ResultsBecomeNewer == Spec => NeverOlderEvidence
<1>1. Init => OrderInv
  BY InitOrder
<1>2. OrderInv /\ [Next]_vars => OrderInv'
  BY NextOrder
<1>3. OrderInv /\ [Next]_vars => [store # NoResult /\ store' # NoResult => store'.run >= store.run]_vars
  <2> SUFFICES ASSUME OrderInv, Next, store' # NoResult PROVE store'.run >= store.run
    OBVIOUS
  <2>0. LoadInv /\ TypeOK
    BY DEF OrderInv, LoadInv
  <2>1. ASSUME NEW id \in RunIds, RunStep(id) PROVE store'.run >= store.run
    <3>1. \/ store' = store
          \/ ~Superseded(id) /\ runs[id].no >= 1 /\ store'.run = id
      BY <2>0, <2>1, StoresOwn
    <3>2. QED
      BY <2>0, <3>1, Numbers DEF OrderInv, OlderSuperseded, Superseded
  <2>2. CASE UNCHANGED store
    BY <2>0, <2>2, Numbers
  <2>3. QED
    BY <2>1, <2>2 DEF Next, Evidence, Reply, RunRejected, LookupRejected, Rejected, Loading, Removed, WorkerStopped
<1>4. QED
  BY <1>1, <1>2, <1>3, PTL DEF Spec, NeverOlderEvidence
--------------------------------------------------------------------------------
(* TabPipeline implements TabResult.  What a run that is not superseded will publish
   must be a next snapshot of what is stored: between its awaits nobody else stores, its
   own lookups store what they learn, and a technology is only looked up while it is
   undecided, here and in the store.  A lookup whose publication failed is ahead of the
   store, and then the run never says "done". *)

\* A reply is to a run that has started, and to lookups of it that are not looking any more.
SettledIn(reply, calls, n) ==
  /\ reply.run <= n
  /\ \A t \in reply.lookup : \/ calls[reply.run].pc = "ended"
                             \/ calls[reply.run].lookup[t] \in {"setting", "over"}
Settled == \A i \in DOMAIN replies : SettledIn(replies[i], runs, started)

LookupsOf(id) ==
  /\ runs[id].pc \in {"analysing", "carrying", "detected", "loading"} =>
       \A t \in Techs : runs[id].lookup[t] = "none"
  /\ \A t \in Techs : runs[id].lookup[t] = "looking" =>
       /\ runs[id].pc \in {"assessing", "rejected"}
       /\ t \in DOMAIN runs[id].verdicts /\ runs[id].verdicts[t] = Checking

StoreFollows(id) ==
  ~Superseded(id) =>
    /\ runs[id].pc = "carrying" =>
         runs[id].verdicts = LifeCycle!CarriedOver(store.verdicts, DOMAIN runs[id].verdicts)
    /\ runs[id].pc \in {"detected", "loading", "assessing"} =>
         store.phase = "detected" /\ store.verdicts = runs[id].verdicts
    /\ runs[id].pc = "assessing" =>
         \A t \in DOMAIN runs[id].verdicts : runs[id].verdicts[t] = Checking => runs[id].lookup[t] = "looking"
    /\ runs[id].pc = "rejected" =>
         /\ store.phase = "detected" /\ DOMAIN store.verdicts = DOMAIN runs[id].verdicts
         /\ \A t \in Decided(store.verdicts) : runs[id].verdicts[t] = store.verdicts[t]

LifeInv == OrderInv /\ Settled /\ \A id \in RunIds : LookupsOf(id) /\ StoreFollows(id)

\* What a step has to keep of a run.
SettledStays(id) ==
  \A t \in Techs : runs[id].pc = "ended" \/ runs[id].lookup[t] \in {"setting", "over"} =>
                     runs'[id].pc = "ended" \/ runs'[id].lookup[t] \in {"setting", "over"}
GoesOn(id) == LookupsOf(id)' /\ StoreFollows(id)' /\ SettledStays(id)

LEMMA LifeTypes ==
  ASSUME LifeInv
  PROVE  /\ LoadInv /\ TypeOK /\ runs \in [RunIds -> RunRecords]
         /\ store.verdicts \in PartialVerdicts /\ replies \in Seq(Replies)
         /\ \A id \in RunIds : runs[id] \in RunRecords
  BY DEF LifeInv, OrderInv, LoadInv, TypeOK

\* A run that has ended owes nothing.
LEMMA EndedGoesOn ==
  ASSUME NEW id \in RunIds, runs'[id] = Ended
  PROVE  GoesOn(id)
  BY DEF GoesOn, LookupsOf, StoreFollows, SettledStays, Ended

\* A run goes on as it is while another one publishes, because it is superseded.
LEMMA OthersGoOn ==
  ASSUME LifeInv, NEW id \in RunIds, NEW other \in RunIds \ {id}, runs'[other] = runs[other],
         generation' = generation, store' = store \/ (~Superseded(id) /\ runs[id].no >= 1)
  PROVE  GoesOn(other)
<1>1. LookupsOf(other) /\ StoreFollows(other)
  BY DEF LifeInv
<1>2. LookupsOf(other)' /\ SettledStays(other)
  BY <1>1 DEF LookupsOf, SettledStays
<1>3. CASE store' = store
  BY <1>1, <1>2, <1>3 DEF GoesOn, StoreFollows, Superseded
<1>4. CASE ~Superseded(id) /\ runs[id].no >= 1
  <2>1. CASE runs[other].no >= 1
    <3>1. Superseded(other)
      BY <1>4, <2>1, Numbers DEF LifeInv, OrderInv, InOrderOfArrival, Superseded
    <3>2. QED
      BY <1>2, <3>1 DEF GoesOn, StoreFollows, Superseded
  <2>2. CASE ~(runs[other].no >= 1)
    <3>1. runs[other].pc = "ended"
      BY <2>2, ActiveHasNumber DEF LifeInv, OrderInv
    <3>2. QED
      BY <1>2, <3>1 DEF GoesOn, StoreFollows
  <2>3. QED
    BY <2>1, <2>2
<1>5. QED
  BY <1>3, <1>4

LEMMA CarryOverGoesOn ==
  ASSUME LifeInv, NEW id \in RunIds, CarryOver(id)
  PROVE  GoesOn(id)
<1>0. runs \in [RunIds -> RunRecords] /\ runs[id] \in RunRecords /\ LookupsOf(id)
  BY LifeTypes DEF LifeInv
<1> DEFINE carried == LifeCycle!CarriedOver(store.verdicts, DOMAIN runs[id].verdicts)
<1>1. /\ runs'[id].pc = "carrying" /\ runs'[id].lookup = runs[id].lookup
      /\ runs'[id].verdicts = carried /\ runs[id].pc = "analysing" /\ store' = store
  BY <1>0 DEF CarryOver, RunRecords, LifeCycle!CarriedOver, LifeCycle!Decided, Decided
<1>2. DOMAIN carried = DOMAIN runs[id].verdicts
  BY DEF LifeCycle!CarriedOver
<1>3. LookupsOf(id)' /\ SettledStays(id)
  BY <1>0, <1>1 DEF LookupsOf, SettledStays
<1>4. StoreFollows(id)'
  BY <1>1, <1>2 DEF StoreFollows
<1>5. QED
  BY <1>3, <1>4 DEF GoesOn

LEMMA PublishDetectedGoesOn ==
  ASSUME LifeInv, NEW id \in RunIds, PublishDetected(id)
  PROVE  GoesOn(id)
<1>0. runs \in [RunIds -> RunRecords] /\ runs[id] \in RunRecords /\ LookupsOf(id)
  BY LifeTypes DEF LifeInv
<1>1. /\ runs'[id].pc = "detected" /\ runs'[id].lookup = runs[id].lookup
      /\ runs'[id].verdicts = runs[id].verdicts /\ runs[id].pc = "carrying"
      /\ store'.phase = "detected" /\ store'.verdicts = runs[id].verdicts
  BY <1>0 DEF PublishDetected, Publish, RunRecords
<1>2. QED
  BY <1>0, <1>1 DEF GoesOn, LookupsOf, StoreFollows, SettledStays

LEMMA StartLookupsGoesOn ==
  ASSUME LifeInv, NEW id \in RunIds, StartLookups(id)
  PROVE  GoesOn(id)
<1>0. /\ runs \in [RunIds -> RunRecords] /\ runs[id] \in RunRecords
      /\ LookupsOf(id) /\ StoreFollows(id)
  BY LifeTypes DEF LifeInv
<1>1. /\ runs'[id].pc = "assessing" /\ runs[id].pc = "loading" /\ runs'[id].no = runs[id].no
      /\ runs'[id].verdicts = runs[id].verdicts /\ store' = store /\ generation' = generation
      /\ runs'[id].lookup = [t \in Techs |-> IF t \in DOMAIN runs[id].verdicts \ Decided(runs[id].verdicts)
                                               THEN "looking" ELSE "none"]
  BY <1>0 DEF StartLookups, RunRecords
<1>2. DOMAIN runs[id].verdicts \subseteq Techs
  BY <1>0, PartialVerdictsElim DEF RunRecords
<1>3. LookupsOf(id)'
  BY <1>1 DEF LookupsOf, Decided
<1>4. StoreFollows(id)'
  BY <1>0, <1>1, <1>2 DEF StoreFollows, Superseded, Decided
<1>5. SettledStays(id)
  BY <1>0, <1>1 DEF SettledStays, LookupsOf
<1>6. QED
  BY <1>3, <1>4, <1>5 DEF GoesOn

LEMMA AssessedGoesOn ==
  ASSUME LifeInv, NEW id \in RunIds, NEW t \in Techs, NEW verdict \in Verdicts, Assessed(id, t, verdict)
  PROVE  GoesOn(id)
<1> DEFINE verdicts == [runs[id].verdicts EXCEPT ![t] = verdict]
<1>0. /\ runs \in [RunIds -> RunRecords] /\ runs[id] \in RunRecords
      /\ LookupsOf(id) /\ StoreFollows(id)
  BY LifeTypes DEF LifeInv
<1>1. /\ runs'[id].pc = runs[id].pc /\ runs'[id].lookup = [runs[id].lookup EXCEPT ![t] = "setting"]
      /\ runs'[id].verdicts = verdicts /\ runs[id].lookup[t] = "looking"
      /\ store'.phase = "detected" /\ store'.verdicts = verdicts /\ ~Superseded(id)
  BY <1>0 DEF Assessed, Publish, RunRecords
<1>2. /\ runs[id].lookup \in [Techs -> {"none", "looking", "setting", "over"}]
      /\ runs[id].pc \in {"assessing", "rejected"} /\ verdict # Checking
      /\ t \in DOMAIN runs[id].verdicts /\ DOMAIN runs[id].verdicts \subseteq Techs
  BY <1>0, <1>1, PartialVerdictsElim, VerdictsAssumption DEF LookupsOf, RunRecords
<1>3. /\ DOMAIN verdicts = DOMAIN runs[id].verdicts /\ verdicts[t] = verdict
      /\ \A u \in DOMAIN verdicts : u # t => verdicts[u] = runs[id].verdicts[u]
  BY <1>2
<1>4. LookupsOf(id)' /\ SettledStays(id)
  BY <1>0, <1>1, <1>2, <1>3 DEF LookupsOf, SettledStays
<1>5. StoreFollows(id)'
  BY <1>0, <1>1, <1>2, <1>3 DEF StoreFollows, Decided
<1>6. QED
  BY <1>4, <1>5 DEF GoesOn

LEMMA AssessedTooLateGoesOn ==
  ASSUME LifeInv, NEW id \in RunIds, NEW t \in Techs, AssessedTooLate(id, t)
  PROVE  GoesOn(id)
<1>0. runs \in [RunIds -> RunRecords] /\ runs[id] \in RunRecords /\ LookupsOf(id)
  BY LifeTypes DEF LifeInv
<1>1. /\ runs'[id].pc = runs[id].pc /\ runs'[id].lookup = [runs[id].lookup EXCEPT ![t] = "over"]
      /\ runs'[id].verdicts = runs[id].verdicts /\ runs[id].lookup[t] = "looking"
      /\ runs'[id].no = runs[id].no /\ generation' = generation /\ Superseded(id)
  BY <1>0 DEF AssessedTooLate, RunRecords
<1>2. runs[id].lookup \in [Techs -> {"none", "looking", "setting", "over"}]
  BY <1>0 DEF RunRecords
<1>3. LookupsOf(id)' /\ SettledStays(id)
  BY <1>0, <1>1, <1>2 DEF LookupsOf, SettledStays
<1>4. QED
  BY <1>1, <1>3 DEF GoesOn, StoreFollows, Superseded

LEMMA PublishDoneGoesOn ==
  ASSUME LifeInv, NEW id \in RunIds, PublishDone(id)
  PROVE  GoesOn(id)
<1>0. runs \in [RunIds -> RunRecords] /\ runs[id] \in RunRecords /\ LookupsOf(id)
  BY LifeTypes DEF LifeInv
<1>1. /\ runs'[id].pc = "ending" /\ runs'[id].lookup = runs[id].lookup /\ runs[id].pc = "assessing"
      /\ \A t \in Techs : runs[id].lookup[t] \in {"none", "over"}
  BY <1>0 DEF PublishDone, AllAssessed, RunRecords
<1>2. QED
  BY <1>1 DEF GoesOn, LookupsOf, StoreFollows, SettledStays

\* Every step of a run keeps what is known of all runs.
LEMMA RunStepGoesOn ==
  ASSUME LifeInv, NEW id \in RunIds, RunStep(id), NEW any \in RunIds
  PROVE  GoesOn(any)
<1>0. LoadInv /\ TypeOK
  BY LifeTypes
<1>1. CASE any # id
  <2>1. runs'[any] = runs[any] /\ generation' = generation
    BY <1>0, <1>1, RunStepEffect
  <2>2. store' = store \/ (~Superseded(id) /\ runs[id].no >= 1)
    BY <1>0, StoresOwn
  <2>3. QED
    BY <1>1, <2>1, <2>2, OthersGoOn
<1>2. CASE any = id
  <2>1. CASE GiveUp(id)
    <3>1. runs'[id] = Ended
      BY <1>0, <2>1 DEF GiveUp, TypeOK
    <3>2. QED
      BY <1>2, <3>1, EndedGoesOn
  <2>2. QED
    BY <1>2, <2>1, CarryOverGoesOn, PublishDetectedGoesOn, StartLookupsGoesOn, AssessedGoesOn,
       AssessedTooLateGoesOn, PublishDoneGoesOn DEF RunStep
<1>3. QED
  BY <1>1, <1>2

\* Replies that were settled stay so, and a publication adds one that is.
LEMMA SettledKept ==
  ASSUME LifeInv, started' \in Nat, started' >= started, \A id \in RunIds : id <= started => SettledStays(id),
         NEW reply \in Replies, SettledIn(reply, runs, started)
  PROVE  SettledIn(reply, runs', started')
<1>1. reply.run \in RunIds /\ reply.run <= started /\ reply.lookup \subseteq Techs
  BY DEF SettledIn, Replies
<1>2. SettledStays(reply.run)
  BY <1>1
<1>3. started \in Nat /\ reply.run \in Nat
  BY <1>1, LifeTypes, Numbers
<1>4. QED
  BY <1>1, <1>2, <1>3 DEF SettledIn, SettledStays

LEMMA RepliesKept ==
  ASSUME LifeInv, started' \in Nat, started' >= started, \A id \in RunIds : id <= started => SettledStays(id),
         replies' \in {replies, <<>>} \/ (replies # <<>> /\ replies' = Tail(replies))
  PROVE  Settled'
<1>0. replies \in Seq(Replies) /\ Settled
  BY LifeTypes DEF LifeInv
<1>1. \A i \in DOMAIN replies : SettledIn(replies[i], runs', started')
  <2> TAKE i \in DOMAIN replies
  <2>1. replies[i] \in Replies /\ SettledIn(replies[i], runs, started)
    BY <1>0, ElementOfSeq, LenProperties DEF Settled
  <2>2. QED
    BY <2>1, SettledKept
<1>2. ASSUME NEW i \in DOMAIN replies' PROVE \E j \in DOMAIN replies : replies'[i] = replies[j]
  <2>1. CASE replies' \in {replies, <<>>}
    BY <2>1
  <2>2. CASE replies # <<>> /\ replies' = Tail(replies)
    <3>1. /\ Len(replies) \in Nat /\ Len(Tail(replies)) = Len(replies) - 1 /\ Tail(replies) \in Seq(Replies)
          /\ \A k \in 1..Len(Tail(replies)) : Tail(replies)[k] = replies[k + 1]
      BY <1>0, <2>2, HeadTailProperties, LenProperties
    <3>2. DOMAIN replies = 1..Len(replies) /\ DOMAIN Tail(replies) = 1..(Len(replies) - 1)
      BY <1>0, <3>1, LenProperties
    <3>3. i \in 1..(Len(replies) - 1)
      BY <2>2, <3>2
    <3>4. i + 1 \in 1..Len(replies) /\ i \in 1..Len(Tail(replies))
      BY <3>1, <3>3
    <3>5. Tail(replies)[i] = replies[i + 1]
      BY <3>1, <3>4
    <3>6. QED
      BY <2>2, <3>2, <3>4, <3>5
  <2>3. QED
    BY <2>1, <2>2
<1>3. QED
  BY <1>1, <1>2 DEF Settled

LEMMA RepliesAppended ==
  ASSUME LifeInv, started' = started, \A id \in RunIds : SettledStays(id),
         NEW reply \in Replies, SettledIn(reply, runs', started'), replies' = Append(replies, reply)
  PROVE  Settled'
<1>0. replies \in Seq(Replies) /\ Settled /\ started \in Nat
  BY LifeTypes, Numbers DEF LifeInv
<1>1. \A i \in DOMAIN replies : SettledIn(replies[i], runs', started')
  <2> TAKE i \in DOMAIN replies
  <2>1. replies[i] \in Replies /\ SettledIn(replies[i], runs, started)
    BY <1>0, ElementOfSeq, LenProperties DEF Settled
  <2>2. QED
    BY <1>0, <2>1, SettledKept
<1>2. \A i \in DOMAIN replies' : replies'[i] = reply \/ \E j \in DOMAIN replies : replies'[i] = replies[j]
  BY <1>0, AppendProperties, LenProperties
<1>3. QED
  BY <1>1, <1>2 DEF Settled

\* A run publishes for itself or for a lookup that is setting.
LEMMA RunStepSettled ==
  ASSUME LifeInv, NEW id \in RunIds, RunStep(id)
  PROVE  Settled'
<1>0. /\ TypeOK /\ LoadInv /\ runs \in [RunIds -> RunRecords] /\ runs[id] \in RunRecords
      /\ started' = started /\ started \in Nat
  BY LifeTypes, RunStepEffect, Numbers
<1>1. \A any \in RunIds : SettledStays(any)
  BY RunStepGoesOn DEF GoesOn
<1>2. CASE UNCHANGED replies
  BY <1>0, <1>1, <1>2, RepliesKept
<1>3. id <= started
  <2>1. \/ runs[id].pc # "ended"
        \/ \E t \in Techs : runs[id].lookup[t] = "looking"
    BY DEF RunStep, CarryOver, PublishDetected, StartLookups, Assessed, AssessedTooLate, PublishDone, GiveUp, AllAssessed
  <2>2. runs[id].no >= 1
    BY <1>0, <2>1, ActiveHasNumber
  <2>3. QED
    BY <1>0, <2>2, Numbers DEF LifeInv, OrderInv, Unstarted
<1>4. ASSUME NEW phase \in {"detected", "done"}, NEW verdicts \in PartialVerdicts, Publish(id, {}, phase, verdicts)
      PROVE  Settled'
  <2> DEFINE reply == [run |-> id, lookup |-> {}, text |-> BadgeText(phase, verdicts)]
  <2>1. reply \in Replies
    BY BadgeTextType DEF Replies
  <2>2. SettledIn(reply, runs', started')
    BY <1>0, <1>3 DEF SettledIn
  <2>3. QED
    BY <1>0, <1>1, <1>4, <2>1, <2>2, RepliesAppended DEF Publish
<1>5. ASSUME NEW t \in Techs, NEW verdict \in Verdicts, Assessed(id, t, verdict)
      PROVE  Settled'
  <2> DEFINE verdicts == [runs[id].verdicts EXCEPT ![t] = verdict]
             reply == [run |-> id, lookup |-> {t}, text |-> BadgeText("detected", verdicts)]
  <2>1. verdicts \in PartialVerdicts
    BY <1>0, PartialVerdictsExcept DEF RunRecords
  <2>2. reply \in Replies
    BY <2>1, BadgeTextType DEF Replies
  <2>3. runs'[id].lookup[t] = "setting" /\ replies' = Append(replies, reply)
    BY <1>0, <1>5 DEF Assessed, Publish, RunRecords
  <2>4. SettledIn(reply, runs', started')
    BY <1>0, <1>3, <2>3 DEF SettledIn
  <2>5. QED
    BY <1>0, <1>1, <2>2, <2>3, <2>4, RepliesAppended
<1>6. runs[id].verdicts \in PartialVerdicts
  BY <1>0 DEF RunRecords
<1>7. CASE PublishDetected(id) \/ PublishDone(id)
  BY <1>4, <1>6, <1>7 DEF PublishDetected, PublishDone
<1>8. QED
  BY <1>2, <1>5, <1>7 DEF RunStep, CarryOver, StartLookups, AssessedTooLate, GiveUp

\* A reply ends the lookups it is for, or lets the run itself go on.
LEMMA ReplyKeepsLife ==
  ASSUME LifeInv, Reply
  PROVE  Settled' /\ \A id \in RunIds : GoesOn(id)
<1>0. TypeOK /\ LoadInv /\ runs \in [RunIds -> RunRecords] /\ replies \in Seq(Replies) /\ started \in Nat
  BY LifeTypes, Numbers
<1>1. /\ replies # <<>> /\ replies' = Tail(replies)
      /\ UNCHANGED <<generation, started, store>>
  BY DEF Reply
<1> DEFINE reply == Head(replies)
<1>2. reply \in Replies /\ reply = replies[1] /\ 1 \in DOMAIN replies
  BY <1>0, <1>1, HeadTailProperties, EmptySeq, LenProperties
<1>3. SettledIn(reply, runs, started) /\ reply.run \in RunIds /\ reply.lookup \subseteq Techs
  BY <1>2 DEF LifeInv, Settled, Replies
<1>4. \A id \in RunIds : GoesOn(id)
  <2> TAKE id \in RunIds
  <2>0. runs[id] \in RunRecords /\ LookupsOf(id) /\ StoreFollows(id)
    BY <1>0 DEF LifeInv
  <2>1. CASE id # reply.run
    <3>1. runs'[id] = runs[id]
      BY <1>0, <1>3, <2>1 DEF Reply
    <3>2. QED
      BY <1>1, <2>0, <3>1 DEF GoesOn, LookupsOf, StoreFollows, SettledStays, Superseded
  <2>2. CASE id = reply.run /\ reply.lookup # {}
    <3>1. runs'[id] = [runs[id] EXCEPT !.lookup = [t \in Techs |-> IF t \in reply.lookup THEN "over" ELSE @[t]]]
      BY <1>0, <2>2 DEF Reply
    <3>2. /\ runs'[id].pc = runs[id].pc /\ runs'[id].verdicts = runs[id].verdicts /\ runs'[id].no = runs[id].no
          /\ \A t \in Techs : runs'[id].lookup[t] = IF t \in reply.lookup THEN "over" ELSE runs[id].lookup[t]
      BY <2>0, <3>1 DEF RunRecords
    <3>3. runs[id].pc = "ended" \/ \A t \in reply.lookup : runs[id].lookup[t] \in {"setting", "over"}
      BY <1>3, <2>2 DEF SettledIn
    <3>4. DOMAIN runs[id].verdicts \subseteq Techs
      BY <2>0, PartialVerdictsElim DEF RunRecords
    <3>5. LookupsOf(id)' /\ SettledStays(id)
      BY <1>3, <2>0, <2>2, <3>2, <3>3, ZenonT(30) DEF LookupsOf, SettledStays
    <3>6. StoreFollows(id)'
      BY <1>1, <2>0, <3>2, <3>3, <3>4 DEF StoreFollows, Superseded
    <3>7. QED
      BY <3>5, <3>6 DEF GoesOn
  <2>3. CASE id = reply.run /\ reply.lookup = {} /\ runs[id].pc = "detected"
    <3>1. runs'[id] = [runs[id] EXCEPT !.pc = "loading"]
      BY <1>0, <2>3 DEF Reply
    <3>2. /\ runs'[id].pc = "loading" /\ runs'[id].verdicts = runs[id].verdicts /\ runs'[id].no = runs[id].no
          /\ runs'[id].lookup = runs[id].lookup
      BY <2>0, <3>1 DEF RunRecords
    <3>3. QED
      BY <1>1, <2>0, <2>3, <3>2, ZenonT(30) DEF GoesOn, LookupsOf, StoreFollows, SettledStays, Superseded
  <2>4. CASE id = reply.run /\ reply.lookup = {} /\ runs[id].pc # "detected"
    <3>1. runs'[id] = Ended
      BY <1>0, <2>4 DEF Reply
    <3>2. QED
      BY <3>1, EndedGoesOn
  <2>5. QED
    BY <2>1, <2>2, <2>3, <2>4
<1>5. QED
  BY <1>0, <1>1, <1>4, RepliesKept DEF GoesOn

\* A lookup whose publication failed leaves its verdict with the run alone.
LEMMA LookupRejectedKeepsLife ==
  ASSUME LifeInv, NEW id \in RunIds, NEW t \in Techs, NEW verdict \in Verdicts, LookupRejected(id, t, verdict)
  PROVE  \A any \in RunIds : GoesOn(any)
<1>0. /\ runs \in [RunIds -> RunRecords] /\ runs[id] \in RunRecords
      /\ LookupsOf(id) /\ StoreFollows(id)
  BY LifeTypes DEF LifeInv
<1> DEFINE verdicts == [runs[id].verdicts EXCEPT ![t] = verdict]
<1>1. /\ runs'[id].pc = "rejected" /\ runs'[id].lookup = [runs[id].lookup EXCEPT ![t] = "over"]
      /\ runs'[id].verdicts = verdicts /\ runs'[id].no = runs[id].no
      /\ runs[id].lookup[t] = "looking" /\ ~Superseded(id)
      /\ generation' = generation /\ store' = store
      /\ \A any \in RunIds : any # id => runs'[any] = runs[any]
  BY <1>0 DEF LookupRejected, Rejected, RunRecords
<1>2. /\ runs[id].lookup \in [Techs -> {"none", "looking", "setting", "over"}]
      /\ runs[id].pc \in {"assessing", "rejected"} /\ verdict # Checking
      /\ t \in DOMAIN runs[id].verdicts /\ runs[id].verdicts[t] = Checking
  BY <1>0, <1>1, VerdictsAssumption DEF LookupsOf, RunRecords
<1>3. /\ DOMAIN verdicts = DOMAIN runs[id].verdicts /\ verdicts[t] = verdict
      /\ \A u \in DOMAIN verdicts : u # t => verdicts[u] = runs[id].verdicts[u]
  BY <1>2
<1>4. LookupsOf(id)' /\ SettledStays(id)
  BY <1>0, <1>1, <1>2, <1>3 DEF LookupsOf, SettledStays
<1>5. StoreFollows(id)'
  BY <1>0, <1>1, <1>2, <1>3 DEF StoreFollows, Decided
<1>6. QED
  BY <1>1, <1>4, <1>5, OthersGoOn DEF GoesOn

LEMMA NextLife == LifeInv /\ [Next]_vars => LifeInv'
<1> SUFFICES ASSUME LifeInv, [Next]_vars PROVE LifeInv'
  OBVIOUS
<1>0. /\ OrderInv' /\ TypeOK /\ LoadInv /\ runs \in [RunIds -> RunRecords]
      /\ started \in Nat /\ started' \in Nat /\ generation \in Nat
  <2>1. OrderInv' /\ TypeOK /\ LoadInv /\ runs \in [RunIds -> RunRecords]
    BY LifeTypes, NextOrder DEF LifeInv
  <2>2. TypeOK'
    BY <2>1 DEF OrderInv, LoadInv
  <2>3. started \in Nat /\ started' \in Nat /\ generation \in Nat
    BY <2>1, <2>2 DEF TypeOK
  <2>4. QED
    BY <2>1, <2>3
<1> USE DEF tab, limits
<1>1. CASE Evidence
  <2>1. PICK found \in SUBSET Techs :
          runs' = [runs EXCEPT ![started + 1] =
             [no |-> generation + 1, load |-> loads, pc |-> "analysing",
              verdicts |-> [t \in found |-> Checking], lookup |-> [t \in Techs |-> "none"]]]
    BY <1>1 DEF Evidence
  <2>2. /\ open /\ started' = started + 1 /\ generation' = generation + 1
        /\ store' = store /\ replies' = replies
    BY <1>1 DEF Evidence
  <2>3. ASSUME NEW id \in RunIds PROVE GoesOn(id) \/ id = started + 1
    <3>1. id # started + 1 => runs'[id] = runs[id]
      BY <1>0, <2>1
    <3>2. runs[id].pc = "ended" \/ (runs[id].no >= 1 /\ runs[id].no <= generation /\ runs[id].no \in Nat)
      BY <1>0, <2>2, Numbers DEF LoadInv, RunOfItsLoad
    <3>3. id # started + 1 => StoreFollows(id)'
      BY <1>0, <2>2, <3>1, <3>2 DEF StoreFollows, Superseded
    <3>4. id # started + 1 => LookupsOf(id)' /\ SettledStays(id)
      BY <3>1 DEF LifeInv, LookupsOf, SettledStays
    <3>5. QED
      BY <3>3, <3>4 DEF GoesOn
  <2>4. \A id \in RunIds : id = started + 1 => LookupsOf(id)' /\ StoreFollows(id)'
    BY <1>0, <2>1 DEF LookupsOf, StoreFollows
  <2>5. \A id \in RunIds : LookupsOf(id)' /\ StoreFollows(id)'
    BY <2>3, <2>4 DEF GoesOn
  <2>6. \A id \in RunIds : id <= started => SettledStays(id)
    BY <1>0, <2>3 DEF GoesOn, RunIds
  <2>7. Settled'
    BY <1>0, <2>2, <2>6, RepliesKept
  <2>8. QED
    BY <1>0, <2>5, <2>7 DEF LifeInv
<1>2. ASSUME NEW id \in RunIds, RunStep(id) PROVE LifeInv'
  BY <1>0, <1>2, RunStepGoesOn, RunStepSettled DEF LifeInv, GoesOn
<1>3. CASE Reply
  BY <1>0, <1>3, ReplyKeepsLife DEF LifeInv, GoesOn
<1>4. ASSUME NEW id \in RunIds, RunRejected(id) PROVE LifeInv'
  <2>1. /\ UNCHANGED <<generation, started, store, replies>> /\ runs'[id] = Ended
        /\ \A any \in RunIds : any # id => runs'[any] = runs[any]
    BY <1>0, <1>4 DEF RunRejected, Rejected
  <2>2. \A any \in RunIds : GoesOn(any)
    BY <2>1, EndedGoesOn, OthersGoOn
  <2>3. QED
    BY <1>0, <2>1, <2>2, RepliesKept DEF LifeInv, GoesOn
<1>5. ASSUME NEW id \in RunIds, NEW t \in Techs, NEW verdict \in Verdicts, LookupRejected(id, t, verdict)
      PROVE  LifeInv'
  <2>1. \A any \in RunIds : GoesOn(any)
    BY <1>5, LookupRejectedKeepsLife
  <2>2. started' = started /\ replies' = replies
    BY <1>5 DEF LookupRejected, Rejected
  <2>3. QED
    BY <1>0, <2>1, <2>2, RepliesKept DEF LifeInv, GoesOn
<1>6. CASE Loading \/ Removed
  <2>1. /\ open /\ started' = started /\ runs' = runs /\ replies' = replies
        /\ generation' \in {generation + 1, 0}
    BY <1>6 DEF Loading, Removed
  <2>2. ASSUME NEW id \in RunIds PROVE GoesOn(id)
    <3>1. runs[id].pc = "ended" \/ (runs[id].no >= 1 /\ runs[id].no <= generation /\ runs[id].no \in Nat)
      BY <1>0, <2>1, Numbers DEF LoadInv, RunOfItsLoad
    <3>2. StoreFollows(id)'
      BY <1>0, <2>1, <3>1 DEF StoreFollows, Superseded
    <3>3. LookupsOf(id)' /\ SettledStays(id)
      BY <2>1 DEF LifeInv, LookupsOf, SettledStays
    <3>4. QED
      BY <3>2, <3>3 DEF GoesOn
  <2>3. QED
    BY <1>0, <2>1, <2>2, RepliesKept DEF LifeInv, GoesOn
<1>7. CASE WorkerStopped
  <2>1. /\ started' = started /\ replies' = <<>>
        /\ \A id \in RunIds : runs'[id] = Ended
    BY <1>7 DEF WorkerStopped
  <2>2. \A id \in RunIds : GoesOn(id)
    BY <2>1, EndedGoesOn
  <2>3. QED
    BY <1>0, <2>1, <2>2, RepliesKept DEF LifeInv, GoesOn
<1>8. CASE UNCHANGED vars
  <2>1. \A id \in RunIds : GoesOn(id)
    BY <1>8 DEF vars, LifeInv, GoesOn, LookupsOf, StoreFollows, SettledStays, Superseded
  <2>2. QED
    BY <1>0, <1>8, <2>1, RepliesKept DEF vars, LifeInv, GoesOn
<1>9. QED
  BY <1>1, <1>2, <1>3, <1>4, <1>5, <1>6, <1>7, <1>8 DEF Next

LEMMA InitLife == Init => LifeInv
<1> SUFFICES ASSUME Init PROVE LifeInv
  OBVIOUS
<1>1. OrderInv /\ Settled
  BY InitOrder DEF Init, Settled
<1>2. \A id \in RunIds : LookupsOf(id) /\ StoreFollows(id)
  BY DEF Init, LookupsOf, StoreFollows, Ended
<1>3. QED
  BY <1>1, <1>2 DEF LifeInv

--------------------------------------------------------------------------------
(* The steps of TabPipeline as steps of TabResult. *)

\* What a step stores is the next snapshot of the result's life.
LEMMA StepsOfLife ==
  ASSUME LifeInv, [Next]_vars
  PROVE  [LifeCycle!Next]_[phase |-> store.phase, verdicts |-> store.verdicts]
<1>0. TypeOK /\ LoadInv /\ runs \in [RunIds -> RunRecords] /\ store.verdicts \in PartialVerdicts
  BY LifeTypes
<1>1. ASSUME NEW id \in RunIds, PublishDetected(id) PROVE LifeCycle!Report
  <2>1. /\ runs[id].verdicts = LifeCycle!CarriedOver(store.verdicts, DOMAIN runs[id].verdicts)
        /\ store'.phase = "detected" /\ store'.verdicts = runs[id].verdicts
    BY <1>1 DEF PublishDetected, Publish, LifeInv, StoreFollows
  <2>2. DOMAIN runs[id].verdicts \in SUBSET Techs
    BY <1>0, PartialVerdictsElim DEF RunRecords
  <2>3. QED
    BY <2>1, <2>2 DEF LifeCycle!Report
<1>2. ASSUME NEW id \in RunIds, NEW t \in Techs, NEW verdict \in Verdicts, Assessed(id, t, verdict)
      PROVE  LifeCycle!Learn
  <2> DEFINE verdicts == [runs[id].verdicts EXCEPT ![t] = verdict]
  <2>1. /\ store'.phase = "detected" /\ store'.verdicts = verdicts
        /\ runs[id].lookup[t] = "looking" /\ ~Superseded(id)
    BY <1>2 DEF Assessed, Publish
  <2>2. /\ runs[id].pc \in {"assessing", "rejected"}
        /\ t \in DOMAIN runs[id].verdicts /\ runs[id].verdicts[t] = Checking
    BY <2>1 DEF LifeInv, LookupsOf
  <2>3. /\ store.phase = "detected" /\ DOMAIN store.verdicts = DOMAIN runs[id].verdicts
        /\ \A u \in Decided(store.verdicts) : runs[id].verdicts[u] = store.verdicts[u]
    BY <2>1, <2>2 DEF LifeInv, StoreFollows, Decided
  <2>4. verdicts \in [DOMAIN store.verdicts -> Verdicts \cup {Checking}]
    BY <1>0, <2>3, PartialVerdictsElim DEF RunRecords
  <2>5. \A u \in Decided(store.verdicts) : verdicts[u] = store.verdicts[u]
    BY <2>2, <2>3 DEF Decided
  <2>6. [phase |-> store'.phase, verdicts |-> store'.verdicts]
          = [[phase |-> store.phase, verdicts |-> store.verdicts] EXCEPT !.verdicts = verdicts]
    BY <2>1, <2>3
  <2>7. QED
    BY <2>3, <2>4, <2>5, <2>6 DEF LifeCycle!Learn, LifeCycle!Decided, Decided
<1>3. ASSUME NEW id \in RunIds, PublishDone(id) PROVE LifeCycle!Conclude
  <2>1. /\ store'.phase = "done" /\ store'.verdicts = runs[id].verdicts /\ ~Superseded(id)
        /\ runs[id].pc = "assessing" /\ \A t \in Techs : runs[id].lookup[t] \in {"none", "over"}
    BY <1>3 DEF PublishDone, Publish, AllAssessed
  <2>2. /\ store.phase = "detected" /\ store.verdicts = runs[id].verdicts
        /\ \A t \in DOMAIN runs[id].verdicts : runs[id].verdicts[t] = Checking => runs[id].lookup[t] = "looking"
    BY <2>1 DEF LifeInv, StoreFollows
  <2>3. DOMAIN runs[id].verdicts \subseteq Techs
    BY <1>0, PartialVerdictsElim DEF RunRecords
  <2>4. \A t \in DOMAIN store.verdicts : store.verdicts[t] # Checking
    BY <2>1, <2>2, <2>3
  <2>5. QED
    BY <2>1, <2>2, <2>4 DEF LifeCycle!Conclude, LifeCycle!Decided
<1>4. CASE Loading \/ Removed
  <2>1. LifeCycle!Clear
    BY <1>4 DEF Loading, Removed, NoResult, Nothing, LifeCycle!Clear, LifeCycle!NoResult
  <2>2. QED
    BY <2>1 DEF LifeCycle!Next
<1>5. CASE UNCHANGED store
  BY <1>5
<1>6. ASSUME NEW id \in RunIds, RunStep(id)
      PROVE  [LifeCycle!Next]_[phase |-> store.phase, verdicts |-> store.verdicts]
  <2>1. CASE UNCHANGED store
    BY <1>5, <2>1
  <2>2. CASE store' # store
    BY <1>1, <1>2, <1>3, <1>6, <2>2
       DEF LifeCycle!Next, RunStep, CarryOver, StartLookups, AssessedTooLate, GiveUp
  <2>3. QED
    BY <2>1, <2>2
<1>7. QED
  BY <1>4, <1>5, <1>6
     DEF Next, vars, Evidence, Reply, RunRejected, LookupRejected, Rejected, WorkerStopped

\* The results that overlapping runs of background.ts store live as the popup relies on:
\* verdicts of a document are neither lost nor changed, and "done" is said once, when nothing
\* is being checked, whatever navigations, stops and rejected calls come in between.
THEOREM ResultsLiveOn == Spec => ResultLifeCycle
<1>1. Init => LifeInv
  BY InitLife
<1>2. LifeInv /\ [Next]_vars => LifeInv'
  BY NextLife
<1>3. Init => LifeCycle!Init
  BY DEF Init, NoResult, Nothing, LifeCycle!Init, LifeCycle!NoResult
<1>4. LifeInv /\ [Next]_vars => [LifeCycle!Next]_[phase |-> store.phase, verdicts |-> store.verdicts]
  BY StepsOfLife
<1>5. QED
  BY <1>1, <1>2, <1>3, <1>4, PTL DEF Spec, ResultLifeCycle, LifeCycle!Spec
================================================================================
