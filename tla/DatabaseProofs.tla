----------------------------- MODULE DatabaseProofs -----------------------------
(***************************************************************************)
(* Theorems about the database: DatabaseCache, the command line's copy of   *)
(* it, for any number of processes and any bounds, and DatabaseBuild, which  *)
(* makes it, for any feeds, sources and limits.                             *)
(***************************************************************************)
EXTENDS DatabaseCache, DatabaseBuild, FoldLemmas

--------------------------------------------------------------------------------
(* DatabaseCache *)

LEMMA IdleType == Idle \in ProcRecords
  BY BoundsAssumption DEF Idle, ProcRecords, Commands

\* Interrupting running commands only adds to what they met.
LEMMA MeetingType ==
  ASSUME TypeOK, NEW what \in {"others", "server", "files"}
  PROVE  Meeting(what) \in [Procs -> ProcRecords]
<1> SUFFICES ASSUME NEW p \in Procs PROVE Meeting(what)[p] \in ProcRecords
  BY DEF Meeting
<1>1. procs[p] \in ProcRecords
  BY DEF TypeOK
<1>2. [procs[p] EXCEPT !.met = @ \cup {what}] \in ProcRecords
  BY <1>1 DEF ProcRecords
<1>3. QED
  BY <1>1, <1>2 DEF Meeting

LEMMA InitType == Init => TypeOK
<1> SUFFICES ASSUME Init PROVE TypeOK
  OBVIOUS
<1>1. 0 \in 0..MaxVersion /\ 1 \in 0..MaxVersion /\ 1 \in Versions
  BY BoundsAssumption DEF Versions
<1>2. procs \in [Procs -> ProcRecords]
  BY IdleType DEF Init
<1>3. manifest \in [version : 0..MaxVersion, young : BOOLEAN]
  BY <1>1 DEF Init, NoManifest
<1>4. server \in [Assets -> 0..MaxVersion]
  BY <1>1 DEF Init
<1>5. QED
  BY <1>1, <1>2, <1>3, <1>4, BoundsAssumption DEF Init, TypeOK

\* Returning a version keeps the types, when the step leaves the disk alone.
LEMMA ReturnsType ==
  ASSUME TypeOK, NEW p \in Procs, NEW db \in 0..MaxVersion, NEW err \in BOOLEAN,
         Returns(p, db, err), UNCHANGED disk
  PROVE  TypeOK'
<1>1. procs[p] \in ProcRecords /\ procs \in [Procs -> ProcRecords]
  BY DEF TypeOK
<1>2. [procs[p] EXCEPT !.pc = "done", !.db = db, !.err = err] \in ProcRecords
  BY <1>1 DEF ProcRecords
<1>3. procs' \in [Procs -> ProcRecords]
  BY <1>1, <1>2 DEF Returns, Goes
<1>4. QED
  BY <1>3 DEF Returns, Goes, TypeOK, disk, world

LEMMA OpenType ==
  ASSUME TypeOK, NEW p \in Procs, NEW version \in 0..MaxVersion, NEW err \in BOOLEAN,
         Open(p, version, err), UNCHANGED disk
  PROVE  TypeOK'
<1>1. 0 \in 0..MaxVersion /\ TRUE \in BOOLEAN
  BY BoundsAssumption
<1>2. CASE Returns(p, version, err)
  BY <1>2, ReturnsType
<1>3. CASE Returns(p, 0, TRUE)
  BY <1>1, <1>3, ReturnsType
<1>4. QED
  BY <1>2, <1>3 DEF Open

LEMMA ProcStepType ==
  ASSUME TypeOK, NEW p \in Procs, ProcStep(p)
  PROVE  TypeOK'
<1> USE BoundsAssumption DEF Goes, disk, world
<1>0. procs[p] \in ProcRecords /\ procs \in [Procs -> ProcRecords]
  BY DEF TypeOK
<1>a. /\ procs[p].cached \in 0..MaxVersion
      /\ procs[p].fresh \in 0..MaxVersion
      /\ 0 \in 0..MaxVersion
      /\ TRUE \in BOOLEAN
      /\ FALSE \in BOOLEAN
  BY <1>0 DEF ProcRecords
<1>1. CASE ReadManifest(p)
  BY <1>0, <1>1 DEF ReadManifest, TypeOK, ProcRecords
<1>2. CASE FetchManifest(p)
  BY <1>0, <1>2 DEF FetchManifest, TypeOK, ProcRecords, Assets
<1>3. CASE Download(p)
  BY <1>0, <1>3 DEF Download, TypeOK, ProcRecords
<1>4. CASE RequestFails(p)
  BY <1>0, <1>4 DEF RequestFails, TypeOK, ProcRecords
<1>5. CASE StoreBlob(p)
  BY <1>0, <1>5 DEF StoreBlob, TypeOK, ProcRecords
<1>6. CASE RecordManifest(p)
  BY <1>0, <1>6 DEF RecordManifest, TypeOK, ProcRecords
<1>7. CASE OpenFresh(p)
  BY <1>a, <1>7, OpenType DEF OpenFresh
<1>8. CASE OpenCached(p)
  BY <1>a, <1>8, OpenType DEF OpenCached
<1>9. CASE OpenStale(p)
  BY <1>a, <1>9, OpenType, ReturnsType DEF OpenStale
<1>10. CASE ClearManifest(p)
  BY <1>0, <1>10 DEF ClearManifest, TypeOK, ProcRecords, NoManifest
<1>11. CASE ClearBlob(p)
  <2>1. [procs[p] EXCEPT !.pc = "done", !.db = 0, !.err = FALSE] \in ProcRecords
    BY <1>0, <1>a DEF ProcRecords
  <2>2. procs' \in [Procs -> ProcRecords]
    BY <1>0, <1>11, <2>1 DEF ClearBlob, Returns
  <2>3. QED
    BY <1>11, <2>2 DEF ClearBlob, Returns, TypeOK
<1>12. QED
  BY <1>1, <1>2, <1>3, <1>4, <1>5, <1>6, <1>7, <1>8, <1>9, <1>10, <1>11 DEF ProcStep

LEMMA NextType == TypeOK /\ [Next]_vars => TypeOK'
<1> SUFFICES ASSUME TypeOK, [Next]_vars PROVE TypeOK'
  OBVIOUS
<1> USE BoundsAssumption DEF disk, world
<1>1. ASSUME NEW p \in Procs, NEW cmd \in Commands, Start(p, cmd) PROVE TypeOK'
  <2>1. Meeting("others") \in [Procs -> ProcRecords]
    BY MeetingType
  <2> DEFINE overlap == \E q \in Procs : Active(q)
             started == [Idle EXCEPT !.cmd = cmd, !.pc = IF cmd = "clear" THEN "clear" ELSE "start",
                          !.met = (IF overlap THEN {"others"} ELSE {}) \cup
                                  (IF ServerIntact THEN {} ELSE {"server"}),
                          !.copy = manifest.version # 0 /\ blob = manifest.version,
                          !.floor = IF cmd = "refresh" THEN announced ELSE yesterday]
  <2>2. started \in ProcRecords
    <3> DEFINE met == (IF overlap THEN {"others"} ELSE {}) \cup
                      (IF ServerIntact THEN {} ELSE {"server"})
               copy == manifest.version # 0 /\ blob = manifest.version
               floor == IF cmd = "refresh" THEN announced ELSE yesterday
    <3>1. met \in SUBSET {"others", "server", "files"}
      OBVIOUS
    <3>2. copy \in BOOLEAN
      OBVIOUS
    <3>3. floor \in 0..MaxVersion
      BY DEF TypeOK, Versions
    <3> HIDE DEF met, copy, floor
    <3>4. [Idle EXCEPT !.cmd = cmd, !.pc = IF cmd = "clear" THEN "clear" ELSE "start",
                       !.met = met, !.copy = copy, !.floor = floor] \in ProcRecords
      BY <3>1, <3>2, <3>3, IdleType DEF ProcRecords
    <3>5. QED
      BY <3>4 DEF met, copy, floor
  <2>3. procs' = [Meeting("others") EXCEPT ![p] = started]
    BY <1>1 DEF Start
  <2>4. procs' \in [Procs -> ProcRecords]
    BY <2>1, <2>2, <2>3
  <2>5. QED
    BY <2>4, <1>1 DEF Start, TypeOK
<1>2. ASSUME NEW p \in Procs, ProcStep(p) PROVE TypeOK'
  BY <1>2, ProcStepType
<1>3. ASSUME NEW p \in Procs, Trouble(p) PROVE TypeOK'
  <2>0. procs[p] \in ProcRecords /\ procs \in [Procs -> ProcRecords]
    BY DEF TypeOK
  <2>1. CASE procs' = [procs EXCEPT ![p] = Idle]
    BY <2>0, <2>1, <1>3, IdleType DEF Trouble, TypeOK
  <2>2. CASE procs' = [procs EXCEPT ![p].pc = "stale", ![p].met = @ \cup {"files"}]
    <3>1. procs' \in [Procs -> ProcRecords]
      BY <2>0, <2>2 DEF ProcRecords
    <3>2. QED
      BY <3>1, <1>3 DEF Trouble, TypeOK
  <2>3. CASE procs' = [procs EXCEPT ![p].pc = "done", ![p].err = TRUE, ![p].met = @ \cup {"files"}]
    <3>1. procs' \in [Procs -> ProcRecords]
      BY <2>0, <2>3 DEF ProcRecords
    <3>2. QED
      BY <3>1, <1>3 DEF Trouble, TypeOK
  <2>4. QED
    BY <1>3, <2>1, <2>2, <2>3 DEF Trouble
<1>4. CASE Build
  BY <1>4, MeetingType DEF Build, TypeOK, Versions
<1>5. ASSUME NEW a \in Assets, Delete(a) \/ Upload(a) PROVE TypeOK'
  BY <1>5 DEF Delete, Upload, TypeOK, Versions
<1>6. CASE DayPasses
  <2>1. manifest' \in [version : 0..MaxVersion, young : BOOLEAN]
    <3>1. FALSE \in BOOLEAN
      OBVIOUS
    <3>2. QED
      BY <1>6, <3>1 DEF DayPasses, TypeOK
  <2>2. yesterday' \in 0..MaxVersion /\ days' \in 0..MaxDays
    BY <1>6 DEF DayPasses, TypeOK, Versions
  <2>3. QED
    BY <1>6, <2>1, <2>2 DEF DayPasses, TypeOK
<1>7. CASE UNCHANGED vars
  BY <1>7 DEF vars, TypeOK
<1>8. QED
  BY <1>1, <1>2, <1>3, <1>4, <1>5, <1>6, <1>7 DEF Next

\* Every reachable state is well typed, whatever commands, crashes and publications
\* of the database overlap.
THEOREM TypeCorrect == Spec => []TypeOK
<1>1. Init => TypeOK
  BY InitType
<1>2. TypeOK /\ [Next]_vars => TypeOK'
  BY NextType
<1>3. QED
  BY <1>1, <1>2, PTL DEF Spec

--------------------------------------------------------------------------------
(* What a command returns.  Neither property is inductive alone: a returned version
   is verified and recent because of what the process read, steps and commands of
   others before, so the invariant follows each manifest from the server to the
   process that fetched it, to the disk and to the process that reads it there.
   While any command runs no day passes, so nothing it holds grows old. *)

\* The server never names a version older than one it has named.
ServerInv ==
  /\ yesterday <= announced
  /\ announced <= build
  /\ server["latest"] \in {0, announced}

\* A manifest under a day old was fetched since the last day passed.
ManifestInv == manifest.young => manifest.version >= yesterday

ProcInv(p) ==
  /\ Active(p) => procs[p].floor <= announced /\ procs[p].db = 0
  /\ Active(p) /\ procs[p].cmd = "scan" => procs[p].floor <= yesterday
  /\ procs[p].pc \in {"download", "store", "record", "open"} =>
       procs[p].fresh >= procs[p].floor /\ procs[p].fresh >= yesterday
  /\ procs[p].pc = "openCached" => procs[p].cached >= procs[p].floor
  /\ Loaded(p) => /\ procs[p].db \in {procs[p].cached, procs[p].fresh}
                  /\ ~procs[p].err => procs[p].db >= procs[p].floor

ReturnInv ==
  /\ TypeOK
  /\ ServerInv
  /\ ManifestInv
  /\ \A p \in Procs : ProcInv(p)

LEMMA InitReturn == Init => ReturnInv
<1> SUFFICES ASSUME Init PROVE ReturnInv
  OBVIOUS
<1>1. TypeOK
  BY InitType
<1>2. ServerInv /\ ManifestInv
  BY DEF Init, ServerInv, ManifestInv, NoManifest, Assets
<1>3. \A p \in Procs : ProcInv(p)
  BY DEF Init, ProcInv, Idle, Active, Loaded
<1>4. QED
  BY <1>1, <1>2, <1>3 DEF ReturnInv

\* What the step of one process owes the others: nothing, as long as the server and
\* the history of the day stand still and no other process's record changes but in
\* what it met.
LEMMA OthersKeep ==
  ASSUME ReturnInv, NEW q \in Procs, UNCHANGED <<announced, yesterday>>,
         procs'[q] = procs[q] \/ procs'[q] = Meeting("others")[q] \/ procs'[q] = Meeting("server")[q]
  PROVE  ProcInv(q)'
<1>1. procs[q] \in ProcRecords /\ ProcInv(q)
  BY DEF ReturnInv, TypeOK
<1>2. /\ procs'[q].pc = procs[q].pc
      /\ procs'[q].cmd = procs[q].cmd
      /\ procs'[q].cached = procs[q].cached
      /\ procs'[q].fresh = procs[q].fresh
      /\ procs'[q].db = procs[q].db
      /\ procs'[q].err = procs[q].err
      /\ procs'[q].floor = procs[q].floor
  BY <1>1 DEF Meeting, ProcRecords
<1>3. QED
  BY <1>1, <1>2 DEF ProcInv, Active, Loaded

\* Opening the blob under a manifest the process holds returns what it may return.
LEMMA OpenReturn ==
  ASSUME ReturnInv, NEW p \in Procs, NEW version, NEW err \in BOOLEAN,
         version \in {procs[p].cached, procs[p].fresh},
         err = FALSE => version >= procs[p].floor,
         Open(p, version, err), UNCHANGED disk
  PROVE  ManifestInv' /\ ProcInv(p)'
<1>0. procs[p] \in ProcRecords /\ procs \in [Procs -> ProcRecords] /\ ManifestInv
  BY DEF ReturnInv, TypeOK
<1>1. UNCHANGED <<disk, announced, yesterday>>
  BY DEF Open, Returns, Goes, world
<1>2. ManifestInv'
  BY <1>0, <1>1 DEF ManifestInv, disk
<1>3. CASE Returns(p, version, err)
  <2>1. procs'[p] = [procs[p] EXCEPT !.pc = "done", !.db = version, !.err = err]
    BY <1>0, <1>3 DEF Returns, Goes
  <2>2. /\ procs'[p].pc = "done" /\ procs'[p].db = version /\ procs'[p].err = err
        /\ procs'[p].cached = procs[p].cached /\ procs'[p].fresh = procs[p].fresh
        /\ procs'[p].floor = procs[p].floor
    BY <1>0, <2>1 DEF ProcRecords
  <2>3. ~procs'[p].err => err = FALSE
    BY <2>2
  <2>4. QED
    BY <1>2, <2>2, <2>3 DEF ProcInv, Active, Loaded
<1>4. CASE Returns(p, 0, TRUE)
  <2>1. procs'[p] = [procs[p] EXCEPT !.pc = "done", !.db = 0, !.err = TRUE]
    BY <1>0, <1>4 DEF Returns, Goes
  <2>2. procs'[p].pc = "done" /\ procs'[p].db = 0
    BY <1>0, <2>1 DEF ProcRecords
  <2>3. QED
    BY <1>2, <2>2 DEF ProcInv, Active, Loaded
<1>5. QED
  BY <1>3, <1>4 DEF Open

LEMMA ProcStepReturn ==
  ASSUME ReturnInv, NEW p \in Procs, ProcStep(p)
  PROVE  ManifestInv' /\ ProcInv(p)'
<1> USE DEF Goes, Returns, disk, world
<1>0. /\ procs[p] \in ProcRecords /\ procs \in [Procs -> ProcRecords]
      /\ ProcInv(p) /\ ManifestInv /\ ServerInv
      /\ announced \in Int /\ yesterday \in Int /\ manifest.version \in Int
      /\ procs[p].floor \in Int /\ procs[p].fresh \in Int /\ procs[p].cached \in Int
  BY DEF ReturnInv, TypeOK, ProcRecords, Versions
<1>1. CASE ReadManifest(p)
  BY <1>0, <1>1 DEF ReadManifest, ProcRecords, ProcInv, ManifestInv, Active, Loaded
<1>2. CASE FetchManifest(p)
  BY <1>0, <1>2 DEF FetchManifest, ProcRecords, ProcInv, ManifestInv, ServerInv, Active, Loaded
<1>3. CASE Download(p)
  BY <1>0, <1>3 DEF Download, ProcRecords, ProcInv, ManifestInv, Active, Loaded
<1>4. CASE RequestFails(p)
  BY <1>0, <1>4 DEF RequestFails, ProcRecords, ProcInv, ManifestInv, Active, Loaded
<1>5. CASE StoreBlob(p)
  BY <1>0, <1>5 DEF StoreBlob, ProcRecords, ProcInv, ManifestInv, Active, Loaded
<1>6. CASE RecordManifest(p)
  BY <1>0, <1>6 DEF RecordManifest, ProcRecords, ProcInv, ManifestInv, Active, Loaded
<1>7. CASE OpenFresh(p)
  <2>1. procs[p].fresh >= procs[p].floor /\ FALSE \in BOOLEAN
    BY <1>0, <1>7 DEF OpenFresh, ProcInv
  <2>2. QED
    BY <1>7, <2>1, OpenReturn DEF OpenFresh
<1>8. CASE OpenCached(p)
  <2>1. procs[p].cached >= procs[p].floor /\ FALSE \in BOOLEAN
    BY <1>0, <1>8 DEF OpenCached, ProcInv
  <2>2. QED
    BY <1>8, <2>1, OpenReturn DEF OpenCached
<1>9. CASE OpenStale(p)
  <2>1. CASE Open(p, procs[p].cached, TRUE)
    <3>1. TRUE \in BOOLEAN /\ TRUE # FALSE /\ UNCHANGED <<manifest, blob>>
      BY <1>9 DEF OpenStale
    <3>2. QED
      BY <2>1, <3>1, OpenReturn
  <2>2. CASE Returns(p, 0, TRUE)
    <3>1. procs'[p].pc = "done" /\ procs'[p].db = 0
      BY <1>0, <2>2 DEF ProcRecords
    <3>2. QED
      BY <1>0, <1>9, <2>2, <3>1 DEF OpenStale, ProcInv, ManifestInv, Active, Loaded
  <2>3. QED
    BY <1>9, <2>1, <2>2 DEF OpenStale
<1>10. CASE ClearManifest(p)
  BY <1>0, <1>10 DEF ClearManifest, NoManifest, ProcRecords, ProcInv, ManifestInv, Active, Loaded
<1>11. CASE ClearBlob(p)
  BY <1>0, <1>11 DEF ClearBlob, ProcRecords, ProcInv, ManifestInv, Active, Loaded
<1>12. QED
  BY <1>1, <1>2, <1>3, <1>4, <1>5, <1>6, <1>7, <1>8, <1>9, <1>10, <1>11, ProcStep(p) DEF ProcStep

LEMMA NextReturn == ReturnInv /\ [Next]_vars => ReturnInv'
<1> SUFFICES ASSUME ReturnInv, [Next]_vars PROVE ReturnInv'
  OBVIOUS
<1>0. TypeOK /\ TypeOK'
  BY NextType DEF ReturnInv
<1> USE DEF disk, world
<1>1. ASSUME NEW p \in Procs, NEW cmd \in Commands, Start(p, cmd) PROVE ReturnInv'
  <2>1. UNCHANGED <<disk, server, build, announced, yesterday>>
    BY <1>1 DEF Start
  <2>2. ServerInv' /\ ManifestInv'
    BY <2>1 DEF ReturnInv, ServerInv, ManifestInv
  <2>3. /\ procs'[p].cmd = cmd
        /\ procs'[p].pc \in {"start", "clear"} /\ procs'[p].db = 0
        /\ procs'[p].floor = IF cmd = "refresh" THEN announced ELSE yesterday
    BY <1>1 DEF Start, Idle, Meeting
  <2>4. announced \in Int /\ yesterday \in Int /\ yesterday <= announced
    BY <1>0 DEF TypeOK, Versions, ReturnInv, ServerInv
  <2>5. ProcInv(p)'
    BY <2>1, <2>3, <2>4 DEF ProcInv, Active, Loaded
  <2>6. ASSUME NEW q \in Procs, q # p PROVE ProcInv(q)'
    <3>1. procs'[q] = Meeting("others")[q]
      BY <1>1, <2>6 DEF Start, Meeting
    <3>2. QED
      BY <2>1, <3>1, OthersKeep
  <2>7. QED
    BY <1>0, <2>2, <2>5, <2>6 DEF ReturnInv
<1>2. ASSUME NEW p \in Procs, ProcStep(p) PROVE ReturnInv'
  <2>1. UNCHANGED world /\ \A q \in Procs : q # p => procs'[q] = procs[q]
    BY <1>0, <1>2 DEF ProcStep, ReadManifest, FetchManifest, Download, RequestFails, StoreBlob,
       RecordManifest, OpenFresh, OpenCached, OpenStale, ClearManifest, ClearBlob, Open, Returns,
       Goes, TypeOK
  <2>2. ServerInv'
    BY <2>1 DEF ReturnInv, ServerInv
  <2>3. ManifestInv' /\ ProcInv(p)'
    BY <1>2, ProcStepReturn
  <2>4. \A q \in Procs : q # p => ProcInv(q)'
    BY <2>1, OthersKeep
  <2>5. QED
    BY <1>0, <2>2, <2>3, <2>4 DEF ReturnInv
<1>3. ASSUME NEW p \in Procs, Trouble(p) PROVE ReturnInv'
  <2>1. UNCHANGED <<disk, world>>
    BY <1>3 DEF Trouble
  <2>2. ServerInv' /\ ManifestInv'
    BY <2>1 DEF ReturnInv, ServerInv, ManifestInv
  <2>3. \A q \in Procs : q # p => procs'[q] = procs[q]
    BY <1>0, <1>3 DEF Trouble, TypeOK
  <2>4. ProcInv(p)'
    <3>0. procs[p] \in ProcRecords /\ procs \in [Procs -> ProcRecords] /\ ProcInv(p)
      BY <1>0 DEF TypeOK, ReturnInv
    <3>1. CASE procs' = [procs EXCEPT ![p] = Idle]
      <4>1. procs'[p].pc = "done" /\ procs'[p].db = 0
        BY <3>0, <3>1 DEF Idle
      <4>2. QED
        BY <4>1 DEF ProcInv, Active, Loaded
    <3>2. CASE procs' = [procs EXCEPT ![p].pc = "stale", ![p].met = @ \cup {"files"}]
               /\ procs[p].pc = "store"
      BY <2>1, <3>0, <3>2 DEF ProcInv, ProcRecords, Active, Loaded
    <3>3. CASE procs' = [procs EXCEPT ![p].pc = "done", ![p].err = TRUE, ![p].met = @ \cup {"files"}]
               /\ procs[p].pc \in {"record", "clear", "clearBlob"}
      BY <2>1, <3>0, <3>3 DEF ProcInv, ProcRecords, Active, Loaded
    <3>4. QED
      BY <1>3, <3>1, <3>2, <3>3 DEF Trouble
  <2>5. \A q \in Procs : q # p => ProcInv(q)'
    BY <2>1, <2>3, OthersKeep
  <2>6. QED
    BY <1>0, <2>2, <2>4, <2>5 DEF ReturnInv
<1>4. CASE Build
  <2>1. ServerInv' /\ ManifestInv'
    BY <1>0, <1>4 DEF Build, ReturnInv, ServerInv, ManifestInv, TypeOK, Versions
  <2>2. \A q \in Procs : ProcInv(q)'
    BY <1>4, OthersKeep DEF Build
  <2>3. QED
    BY <1>0, <2>1, <2>2 DEF ReturnInv
<1>5. ASSUME NEW a \in Assets, Delete(a) \/ Upload(a) PROVE ReturnInv'
  <2>0. /\ announced \in Int /\ yesterday \in Int /\ build \in Int
        /\ server \in [Assets -> 0..MaxVersion] /\ "latest" \in Assets
    BY <1>0 DEF TypeOK, Versions, Assets
  <2>1. ServerInv'
    BY <1>5, <2>0 DEF Delete, Upload, ReturnInv, ServerInv
  <2>2. UNCHANGED <<disk, yesterday, procs>> /\ announced <= announced'
    BY <1>5, <2>0 DEF Delete, Upload, ReturnInv, ServerInv
  <2>3. ManifestInv'
    BY <2>2 DEF ReturnInv, ManifestInv
  <2>4. ASSUME NEW q \in Procs PROVE ProcInv(q)'
    <3>1. ProcInv(q) /\ procs[q].floor \in Int
      BY <1>0 DEF ReturnInv, TypeOK, ProcRecords
    <3>2. announced' \in Int
      BY <1>0 DEF TypeOK, Versions
    <3>3. QED
      BY <2>0, <2>2, <3>1, <3>2 DEF ProcInv, Active, Loaded
  <2>5. QED
    BY <1>0, <2>1, <2>3, <2>4 DEF ReturnInv
<1>6. CASE DayPasses
  <2>1. ServerInv'
    BY <1>0, <1>6 DEF DayPasses, ReturnInv, ServerInv, TypeOK, Versions
  <2>2. ManifestInv'
    BY <1>0, <1>6 DEF DayPasses, ManifestInv, TypeOK
  <2>3. ASSUME NEW q \in Procs PROVE ProcInv(q)'
    BY <1>6, <2>3 DEF DayPasses, ReturnInv, ProcInv, Active, Loaded
  <2>4. QED
    BY <1>0, <2>1, <2>2, <2>3 DEF ReturnInv
<1>7. CASE UNCHANGED vars
  <2>1. ServerInv' /\ ManifestInv'
    BY <1>7 DEF vars, ReturnInv, ServerInv, ManifestInv
  <2>2. \A q \in Procs : ProcInv(q)'
    BY <1>7 DEF vars, ReturnInv, ProcInv, Active, Loaded
  <2>3. QED
    BY <1>0, <2>1, <2>2 DEF ReturnInv
<1>8. QED
  BY <1>1, <1>2, <1>3, <1>4, <1>5, <1>6, <1>7 DEF Next

\* LoadDatabase never returns a database but the one named by the manifest it was
\* loaded under, and without an error never one that is behind, whatever other
\* commands, crashes and publications came between its steps.
THEOREM ReturnsCorrect == Spec => [](ReturnedIsVerified /\ UnwarnedIsRecent)
<1>1. Init => ReturnInv
  BY InitReturn
<1>2. ReturnInv /\ [Next]_vars => ReturnInv'
  BY NextReturn
<1>3. ReturnInv => ReturnedIsVerified /\ UnwarnedIsRecent
  BY DEF ReturnInv, ProcInv, ReturnedIsVerified, UnwarnedIsRecent
<1>4. QED
  BY <1>1, <1>2, <1>3, PTL DEF Spec

\* A database that is returned without an error is never behind what the process knows, for
\* any number of processes (LoadDatabase).
THEOREM RecentCorrect == Spec => []UnwarnedIsRecent
BY ReturnsCorrect, PTL

--------------------------------------------------------------------------------
(* A copy survives the server.  A command that met no other one is the only one that is
   active, so until it replaces them the two files are those it began with. *)

CopyInv(p) ==
  procs[p].cmd \in {"scan", "refresh"} /\ procs[p].copy /\ procs[p].met \subseteq {"server"} =>
    /\ Active(p) => \A q \in Procs \ {p} : ~Active(q)
    /\ procs[p].pc \notin {"clear", "clearBlob"}
    /\ procs[p].pc = "start" => manifest.version # 0 /\ blob = manifest.version
    /\ procs[p].pc \in {"fetch", "download", "store", "openCached", "stale"} =>
         procs[p].cached # 0 /\ blob = procs[p].cached
    /\ procs[p].pc \in {"download", "store", "record", "open"} => procs[p].fresh # 0
    /\ procs[p].pc \in {"record", "open"} => blob = procs[p].fresh
    /\ procs[p].pc = "done" => procs[p].db # 0

\* Opening the blob that is there returns it.
LEMMA OpenCopy ==
  ASSUME TypeOK, NEW p \in Procs, NEW version, NEW err, version # 0, blob = version,
         Open(p, version, err)
  PROVE  procs'[p].pc = "done" /\ procs'[p].db # 0
<1>1. procs[p] \in ProcRecords /\ procs \in [Procs -> ProcRecords]
  BY DEF TypeOK
<1>2. procs'[p] = [procs[p] EXCEPT !.pc = "done", !.db = version, !.err = err]
  BY <1>1 DEF Open, Returns, Goes
<1>3. QED
  BY <1>1, <1>2 DEF ProcRecords

\* A process goes on alone: what it knows of the files stays true.
LEMMA ProcStepCopy ==
  ASSUME TypeOK, NEW p \in Procs, CopyInv(p), ProcStep(p)
  PROVE  CopyInv(p)'
<1> USE DEF Goes, Returns, disk, world
<1>0. procs[p] \in ProcRecords /\ procs \in [Procs -> ProcRecords] /\ Active(p)
  BY DEF TypeOK, ProcStep, ReadManifest, FetchManifest, Download, RequestFails, StoreBlob,
     RecordManifest, OpenFresh, OpenCached, OpenStale, ClearManifest, ClearBlob, Active
<1>1. \A q \in Procs \ {p} : procs'[q] = procs[q]
  BY <1>0 DEF ProcStep, ReadManifest, FetchManifest, Download, RequestFails, StoreBlob,
     RecordManifest, OpenFresh, OpenCached, OpenStale, ClearManifest, ClearBlob, Open
<1>2. /\ procs'[p].cmd = procs[p].cmd /\ procs'[p].copy = procs[p].copy
      /\ procs[p].met \subseteq procs'[p].met
  <2> DEFINE Kept(next) == /\ next.cmd = procs[p].cmd /\ next.copy = procs[p].copy
                           /\ procs[p].met \subseteq next.met
  <2>1. ASSUME NEW next, Goes(p, next), Kept(next) PROVE Kept(procs'[p])
    BY <1>0, <2>1
  <2>2. \A to, cached : Kept([procs[p] EXCEPT !.cached = cached, !.pc = to])
    BY <1>0 DEF ProcRecords
  <2>3. \A to, fresh : Kept([procs[p] EXCEPT !.fresh = fresh, !.pc = to])
    BY <1>0 DEF ProcRecords
  <2>4. \A to : Kept([procs[p] EXCEPT !.pc = to])
    BY <1>0 DEF ProcRecords
  <2>5. Kept([procs[p] EXCEPT !.pc = "stale", !.met = @ \cup {"server"}])
    BY <1>0 DEF ProcRecords
  <2>6. \A db, err : Kept([procs[p] EXCEPT !.pc = "done", !.db = db, !.err = err])
    BY <1>0 DEF ProcRecords
  <2> HIDE DEF Kept, Goes
  <2>7. ReadManifest(p) \/ FetchManifest(p) => Kept(procs'[p])
    BY <2>1, <2>2, <2>3 DEF ReadManifest, FetchManifest
  <2>8. Download(p) \/ StoreBlob(p) \/ RecordManifest(p) \/ RequestFails(p) => Kept(procs'[p])
    BY <2>1, <2>4, <2>5 DEF Download, StoreBlob, RecordManifest, RequestFails
  <2>9. OpenFresh(p) \/ OpenCached(p) \/ OpenStale(p) => Kept(procs'[p])
    BY <2>1, <2>6 DEF OpenFresh, OpenCached, OpenStale, Open
  <2>10. ClearManifest(p) \/ ClearBlob(p) => Kept(procs'[p])
    BY <2>1, <2>4, <2>6 DEF ClearManifest, ClearBlob
  <2>11. Kept(procs'[p])
    BY <2>7, <2>8, <2>9, <2>10 DEF ProcStep
  <2>12. QED
    BY <2>11 DEF Kept
<1> SUFFICES ASSUME procs[p].cmd \in {"scan", "refresh"}, procs[p].copy, procs[p].met \subseteq {"server"}
             PROVE  CopyInv(p)'
  BY <1>2 DEF CopyInv
<1>3. (Active(p) => \A q \in Procs \ {p} : ~Active(q))'
  BY <1>0, <1>1 DEF CopyInv, Active
<1>4. CASE ReadManifest(p)
  BY <1>0, <1>3, <1>4 DEF CopyInv, ReadManifest, ProcRecords
<1>5. CASE FetchManifest(p)
  BY <1>0, <1>3, <1>5 DEF CopyInv, FetchManifest, ProcRecords
<1>6. CASE Download(p)
  BY <1>0, <1>3, <1>6 DEF CopyInv, Download, ProcRecords
<1>7. CASE RequestFails(p)
  BY <1>0, <1>3, <1>7 DEF CopyInv, RequestFails, ProcRecords
<1>8. CASE StoreBlob(p)
  BY <1>0, <1>3, <1>8 DEF CopyInv, StoreBlob, ProcRecords
<1>9. CASE RecordManifest(p)
  BY <1>0, <1>3, <1>9 DEF CopyInv, RecordManifest, ProcRecords
<1>10. CASE OpenFresh(p) \/ OpenCached(p) \/ OpenStale(p)
  <2>1. procs'[p].pc = "done" /\ procs'[p].db # 0
    BY <1>0, <1>10, OpenCopy DEF CopyInv, OpenFresh, OpenCached, OpenStale
  <2>2. QED
    BY <1>3, <2>1 DEF CopyInv
<1>11. CASE ClearManifest(p) \/ ClearBlob(p)
  BY <1>11 DEF CopyInv, ClearManifest, ClearBlob
<1>12. QED
  BY <1>4, <1>5, <1>6, <1>7, <1>8, <1>9, <1>10, <1>11 DEF ProcStep

\* A process that takes no step owes nothing to one that does: either it is not active, or
\* it has met the other.
LEMMA OthersCopy ==
  ASSUME TypeOK, NEW q \in Procs, NEW p \in Procs \ {q}, CopyInv(q), Active(p), procs'[q] = procs[q]
  PROVE  CopyInv(q)'
<1>1. procs[q] \in ProcRecords
  BY DEF TypeOK
<1>2. CASE Active(q)
  BY <1>2 DEF CopyInv
<1>3. CASE ~Active(q)
  BY <1>3 DEF CopyInv, Active
<1>4. QED
  BY <1>2, <1>3

LEMMA NextCopy ==
  ASSUME TypeOK, \A p \in Procs : CopyInv(p), [Next]_vars
  PROVE  \A p \in Procs : CopyInv(p)'
<1>0. procs \in [Procs -> ProcRecords] /\ \A p \in Procs : procs[p] \in ProcRecords
  BY DEF TypeOK
<1> USE DEF disk, world
<1>1. ASSUME NEW p \in Procs, NEW cmd \in Commands, Start(p, cmd) PROVE \A q \in Procs : CopyInv(q)'
  <2>1. UNCHANGED <<manifest, blob>> /\ ~Active(p)
    BY <1>1 DEF Start
  <2>2. /\ procs'[p].pc = IF cmd = "clear" THEN "clear" ELSE "start"
        /\ procs'[p].cmd = cmd
        /\ procs'[p].copy = (manifest.version # 0 /\ blob = manifest.version)
        /\ (\E q \in Procs : Active(q)) => "others" \in procs'[p].met
    BY <1>0, <1>1 DEF Start, Idle, Meeting
  <2>3. \A q \in Procs \ {p} : procs'[q] = Meeting("others")[q]
    BY <1>0, <1>1 DEF Start, Meeting
  <2>4. CopyInv(p)'
    <3> SUFFICES ASSUME procs'[p].cmd \in {"scan", "refresh"}, procs'[p].copy, procs'[p].met \subseteq {"server"}
                 PROVE  CopyInv(p)'
      BY DEF CopyInv
    <3>1. \A q \in Procs \ {p} : ~Active(q) /\ procs'[q] = procs[q]
      BY <2>2, <2>3 DEF Meeting
    <3>2. procs'[p].pc = "start" /\ manifest'.version # 0 /\ blob' = manifest'.version
      BY <2>1, <2>2
    <3>3. QED
      BY <3>1, <3>2 DEF CopyInv, Active
  <2>5. ASSUME NEW q \in Procs \ {p} PROVE CopyInv(q)'
    <3>1. CASE Active(q)
      <4>1. procs'[q] = [procs[q] EXCEPT !.met = @ \cup {"others"}]
        BY <2>3, <3>1 DEF Meeting
      <4>2. "others" \in procs'[q].met
        BY <1>0, <4>1 DEF ProcRecords
      <4>3. QED
        BY <4>2 DEF CopyInv
    <3>2. CASE ~Active(q)
      <4>1. procs'[q] = procs[q]
        BY <2>3, <3>2 DEF Meeting
      <4>2. QED
        BY <3>2, <4>1 DEF CopyInv, Active
    <3>3. QED
      BY <3>1, <3>2
  <2>6. QED
    BY <2>4, <2>5
<1>2. ASSUME NEW p \in Procs, ProcStep(p) PROVE \A q \in Procs : CopyInv(q)'
  <2>1. Active(p) /\ \A q \in Procs \ {p} : procs'[q] = procs[q]
    BY <1>0, <1>2 DEF ProcStep, ReadManifest, FetchManifest, Download, RequestFails, StoreBlob,
       RecordManifest, OpenFresh, OpenCached, OpenStale, ClearManifest, ClearBlob, Open, Returns,
       Goes, Active
  <2>2. QED
    BY <1>2, <2>1, ProcStepCopy, OthersCopy
<1>3. ASSUME NEW p \in Procs, Trouble(p) PROVE \A q \in Procs : CopyInv(q)'
  <2>1. Active(p) /\ \A q \in Procs \ {p} : procs'[q] = procs[q]
    BY <1>0, <1>3 DEF Trouble
  <2>2. procs'[p].cmd = "none" \/ "files" \in procs'[p].met
    BY <1>0, <1>3 DEF Trouble, Idle, ProcRecords
  <2>3. CopyInv(p)'
    BY <2>2 DEF CopyInv
  <2>4. QED
    BY <2>1, <2>3, OthersCopy
<1>4. CASE Build
  <2>1. UNCHANGED <<manifest, blob>> /\ procs' = Meeting("server")
    BY <1>4 DEF Build
  <2>2. ASSUME NEW q \in Procs
        PROVE  /\ procs'[q].pc = procs[q].pc /\ procs'[q].cmd = procs[q].cmd
               /\ procs'[q].cached = procs[q].cached /\ procs'[q].fresh = procs[q].fresh
               /\ procs'[q].db = procs[q].db /\ procs'[q].copy = procs[q].copy
               /\ procs[q].met \subseteq procs'[q].met
    BY <1>0, <2>1 DEF Meeting, ProcRecords
  <2>3. QED
    BY <2>1, <2>2 DEF CopyInv, Active
<1>5. ASSUME NEW a \in Assets, Delete(a) \/ Upload(a) PROVE \A q \in Procs : CopyInv(q)'
  BY <1>5 DEF Delete, Upload, CopyInv, Active
<1>6. CASE DayPasses
  <2>1. manifest'.version = manifest.version /\ UNCHANGED <<blob, procs>>
    BY <1>6 DEF DayPasses, TypeOK
  <2>2. QED
    BY <2>1 DEF CopyInv, Active
<1>7. CASE UNCHANGED vars
  BY <1>7 DEF vars, CopyInv, Active
<1>8. QED
  BY <1>1, <1>2, <1>3, <1>4, <1>5, <1>6, <1>7 DEF Next

\* A command that runs alone ends with a database if it began with a copy, whatever the server
\* answers and whichever assets are just being replaced (LoadDatabase and staleDatabase).
THEOREM CopyCorrect == Spec => []CopySurvivesServer
<1> DEFINE Copies == \A p \in Procs : CopyInv(p)
<1>1. Init => TypeOK /\ Copies
  BY InitType DEF Init, CopyInv, Idle
<1>2. TypeOK /\ Copies /\ [Next]_vars => TypeOK' /\ Copies'
  BY NextType, NextCopy
<1>3. Copies => CopySurvivesServer
  BY DEF CopyInv, CopySurvivesServer, Finished
<1>4. QED
  BY <1>1, <1>2, <1>3, PTL DEF Spec

--------------------------------------------------------------------------------
(* DatabaseBuild: the inductive invariant *)

AllAnswers == UNION {Answers[k] : k \in 1..6}

\* How far the build has come, and what bounds its counters.
ProgressInv ==
  /\ pc = "request" => stalls < StallLimit
  /\ pc = "open" => tries < OpenAttempts
  /\ pc \in {"request", "ingest", "failed"} => source = 1 /\ tries = 0
  /\ pc = "open" => source <= 6
  /\ pc \in {"blob", "manifest", "written"} => source = 7
  /\ read \in Seq(AllAnswers) /\ \A k \in DOMAIN read : read[k] \in Answers[k]

\* The record in the k-th block of the file.
RecordOf(k) == Content(year, file[k].edition)[file[k].block]

\* The blocks of the file are the first ones of editions of the feed, of the present one as long
\* as it was not replaced; a file to be ingested is as long as the edition of its last block.
FileInv ==
  /\ \A k \in DOMAIN file : /\ file[k].block = k /\ file[k].edition \in DOMAIN Editions[year]
                            /\ k \in DOMAIN Content(year, file[k].edition)
  /\ pc = "ingest" => have # 0 /\ have = Len(Content(year, file[have].edition))
  /\ ~replaced => \A k \in DOMAIN file : file[k].edition = edition[year]

\* Feeds that have been ingested completely.
Done == {y \in Years : y < year \/ (y = year /\ pc \in {"open", "blob", "manifest", "written"})}
RecordsOf(y) == Range(Content(y, edition[y]))

\* Nothing is in the database twice; it has the feeds that are done.
WholeInv ==
  /\ IsInjective(matches)
  /\ pc \in {"open", "blob", "manifest", "written"} => year = LastYear
  /\ ~replaced /\ pc # "aborted" =>
       Stored = Known \cap UNION {RecordsOf(y) : y \in Done} /\ kept = Len(matches)

--------------------------------------------------------------------------------
(* What is ingested *)

LEMMA ContentFacts ==
  ASSUME NEW y \in Years, NEW e \in DOMAIN Editions[y]
  PROVE  /\ Content(y, e) \in Seq(Records) /\ Content(y, e) # <<>>
         /\ Len(Content(y, e)) \in Nat \ {0} /\ DOMAIN Content(y, e) = 1..Len(Content(y, e))
         /\ \A i \in DOMAIN Content(y, e) : Content(y, e)[i] \in Records
<1>1. Editions[y] \in Seq(Seq(Records) \ {<<>>})
  BY FeedsAssumption DEF Years
<1>2. Editions[y][e] \in Seq(Records) \ {<<>>}
  BY <1>1, ElementOfSeq
<1>3. QED
  BY <1>2, LenProperties, EmptySeq, ElementOfSeq DEF Content

LEMMA RecordOfFacts ==
  ASSUME BuildTypeOK, FileInv
  PROVE  /\ DOMAIN file = 1..Len(file) /\ Len(file) \in Nat
         /\ \A k \in DOMAIN file : RecordOf(k) \in Records /\ RecordOf(k) \in Range(Content(year, file[k].edition))
<1>1. DOMAIN file = 1..Len(file) /\ Len(file) \in Nat
  BY LenProperties DEF BuildTypeOK
<1>2. ASSUME NEW k \in DOMAIN file
      PROVE  RecordOf(k) \in Records /\ RecordOf(k) \in Range(Content(year, file[k].edition))
  <2>1. year \in Years /\ file[k].edition \in DOMAIN Editions[year] /\ file[k].block \in DOMAIN Content(year, file[k].edition)
    BY DEF BuildTypeOK, FileInv
  <2>2. QED
    BY <2>1, ContentFacts DEF RecordOf, Range
<1>3. QED
  BY <1>1, <1>2

\* The database after each of the first n blocks.
IsIngestion(h, n) == /\ h[0] = matches /\ h[n] = Ingested(n)
                     /\ \A k \in 1..n : h[k] = IngestRecord(h[k - 1], RecordOf(k))

LEMMA IngestionExists ==
  ASSUME BuildTypeOK, FileInv, NEW n \in 0..Len(file)
  PROVE  \E h \in [0..n -> Seq(Records)] : IsIngestion(h, n)
<1> DEFINE S == Seq(Records)
           g == [x \in S \X (1..n) |-> IngestRecord(x[1], RecordOf(x[2]))]
           Rule(f) == f = [i \in 0..n |-> IF i = 0 THEN matches
                                          ELSE IngestRecord(f[i - 1], Content(year, file[i].edition)[file[i].block])]
<1>1. n \in Nat /\ matches \in S /\ \A k \in 1..n : RecordOf(k) \in Records
  <2>1. DOMAIN file = 1..Len(file) /\ Len(file) \in Nat /\ \A k \in DOMAIN file : RecordOf(k) \in Records
    BY RecordOfFacts
  <2>2. matches \in S
    BY DEF BuildTypeOK
  <2>3. n \in Nat /\ \A k \in 1..n : k \in DOMAIN file
    BY <2>1
  <2>4. QED
    BY <2>1, <2>2, <2>3
<1>2. \A list \in S, k \in 1..n : IngestRecord(list, RecordOf(k)) \in S
  BY <1>1, AppendProperties DEF IngestRecord
<1>3. g \in [S \X (1..n) -> S] /\ \A list \in S, k \in 1..n : g[<<list, k>>] = IngestRecord(list, RecordOf(k))
  BY <1>2
<1> HIDE DEF S, g
<1>4. PICK f \in [0..n -> S] : IsRecursion(f, n, matches, g)
  BY <1>1, <1>3, RecursionExists
<1>5. \A k \in 1..n : f[k] = IngestRecord(f[k - 1], RecordOf(k))
  <2> TAKE k \in 1..n
  <2>1. k \in 0..n /\ k # 0 /\ k - 1 \in 0..n /\ f[k - 1] \in S
    BY <1>1
  <2>2. QED
    BY <1>3, <1>4, <2>1 DEF IsRecursion
<1>6. Rule(f)
  <2>1. \A i \in 0..n : f[i] = IF i = 0 THEN matches ELSE IngestRecord(f[i - 1], RecordOf(i))
    <3> TAKE i \in 0..n
    <3>1. i = 0 \/ i \in 1..n
      BY <1>1
    <3>2. QED
      BY <1>4, <1>5, <3>1 DEF IsRecursion
  <2>2. QED
    BY <2>1 DEF RecordOf
<1> DEFINE F == CHOOSE x : Rule(x)
<1>7. Rule(F)
  BY <1>6, Zenon
<1>8. Ingested(n) = F[n]
  BY DEF Ingested
<1> HIDE DEF F
<1>9. F[0] = matches /\ \A k \in 1..n : F[k] = IngestRecord(F[k - 1], RecordOf(k))
  BY <1>1, <1>7 DEF RecordOf
<1>10. \A k \in 0..n : F[k] \in S
  <2> DEFINE T == {k \in 0..n : F[k] \in S}
  <2>1. 0 \in T
    BY <1>1, <1>9
  <2>2. \A k \in 0..(n - 1) : k \in T => k + 1 \in T
    <3> SUFFICES ASSUME NEW k \in 0..(n - 1), F[k] \in S PROVE k + 1 \in 0..n /\ F[k + 1] \in S
      OBVIOUS
    <3>1. k + 1 \in 1..n /\ (k + 1) - 1 = k /\ k + 1 \in 0..n
      BY <1>1
    <3>2. F[k + 1] = IngestRecord(F[k], RecordOf(k + 1))
      BY <1>9, <3>1
    <3>3. QED
      BY <1>2, <3>1, <3>2
  <2> HIDE DEF T
  <2>3. \A k \in 0..n : k \in T
    BY <1>1, <2>1, <2>2, SetInductionUpTo
  <2>4. QED
    BY <2>3 DEF T
<1>11. F \in [0..n -> S]
  BY <1>7, <1>10
<1>12. QED
  BY <1>8, <1>9, <1>11 DEF IsIngestion, S

LEMMA IngestRecordFacts ==
  ASSUME NEW list \in Seq(Records), IsInjective(list), NEW record \in Records
  PROVE  LET new == IngestRecord(list, record)
         IN /\ IsInjective(new) /\ Range(new) = Range(list) \cup (Known \cap {record})
            /\ Len(new) = IF record \in Known \ Range(list) THEN Len(list) + 1 ELSE Len(list)
<1> DEFINE new == IngestRecord(list, record)
<1>1. CASE record \notin Known \ Range(list)
  <2>1. new = list
    BY <1>1 DEF IngestRecord
  <2> HIDE DEF new
  <2>2. Known \cap {record} \subseteq Range(list)
    BY <1>1
  <2>3. QED
    BY <1>1, <2>1, <2>2 DEF new
<1>2. CASE record \in Known \ Range(list)
  <2>1. new = Append(list, record)
    BY <1>2 DEF IngestRecord
  <2>2. /\ IsInjective(Append(list, record)) /\ Range(Append(list, record)) = Range(list) \cup {record}
        /\ Len(Append(list, record)) = Len(list) + 1
    BY <1>2, AppendOnce
  <2> HIDE DEF new
  <2>3. QED
    BY <1>2, <2>1, <2>2 DEF new
<1>3. QED
  BY <1>1, <1>2

RecordsUpTo(k) == {RecordOf(i) : i \in 1..k}
KeptUpTo(k) == {i \in 1..k : RecordOf(i) \in Known}

LEMMA IngestedRecords ==
  ASSUME BuildTypeOK, FileInv, IsInjective(matches), NEW n \in 0..Len(file),
         NEW h \in [0..n -> Seq(Records)], IsIngestion(h, n)
  PROVE  \A k \in 0..n : IsInjective(h[k]) /\ Range(h[k]) = Stored \cup (Known \cap RecordsUpTo(k))
<1> DEFINE T == {k \in 0..n : IsInjective(h[k]) /\ Range(h[k]) = Stored \cup (Known \cap RecordsUpTo(k))}
<1>1. /\ n \in Nat /\ h[0] = matches /\ \A k \in 1..n : h[k] = IngestRecord(h[k - 1], RecordOf(k))
      /\ \A k \in 1..n : RecordOf(k) \in Records
  <2>1. DOMAIN file = 1..Len(file) /\ Len(file) \in Nat /\ \A k \in DOMAIN file : RecordOf(k) \in Records
    BY RecordOfFacts
  <2>2. n \in Nat /\ \A k \in 1..n : k \in DOMAIN file
    BY <2>1
  <2>3. QED
    BY <2>1, <2>2 DEF IsIngestion
<1>2. 0 \in T
  <2>1. RecordsUpTo(0) = {}
    BY DEF RecordsUpTo
  <2>2. QED
    BY <1>1, <2>1 DEF Stored
<1>3. \A k \in 0..(n - 1) : k \in T => k + 1 \in T
  <2> SUFFICES ASSUME NEW k \in 0..(n - 1), IsInjective(h[k]),
                      Range(h[k]) = Stored \cup (Known \cap RecordsUpTo(k))
               PROVE  /\ k + 1 \in 0..n /\ IsInjective(h[k + 1])
                      /\ Range(h[k + 1]) = Stored \cup (Known \cap RecordsUpTo(k + 1))
    OBVIOUS
  <2>1. k + 1 \in 1..n /\ k + 1 \in 0..n /\ k \in 0..n /\ (k + 1) - 1 = k
    BY <1>1
  <2>2. h[k + 1] = IngestRecord(h[k], RecordOf(k + 1)) /\ RecordOf(k + 1) \in Records /\ h[k] \in Seq(Records)
    BY <1>1, <2>1
  <2>3. IsInjective(h[k + 1]) /\ Range(h[k + 1]) = Range(h[k]) \cup (Known \cap {RecordOf(k + 1)})
    BY <2>2, IngestRecordFacts
  <2>4. RecordsUpTo(k + 1) = RecordsUpTo(k) \cup {RecordOf(k + 1)}
    <3>1. 1..(k + 1) = (1..k) \cup {k + 1}
      BY <1>1
    <3>2. QED
      BY <3>1 DEF RecordsUpTo
  <2>5. QED
    BY <2>1, <2>3, <2>4
<1> HIDE DEF T
<1>4. \A k \in 0..n : k \in T
  BY <1>1, <1>2, <1>3, SetInductionUpTo
<1>5. QED
  BY <1>4 DEF T

\* If the blocks have records that are new, as many are added as are counted.
LEMMA IngestedCount ==
  ASSUME BuildTypeOK, FileInv, IsInjective(matches), NEW n \in 0..Len(file),
         NEW h \in [0..n -> Seq(Records)], IsIngestion(h, n),
         \A i, j \in 1..n : RecordOf(i) = RecordOf(j) => i = j,
         \A i \in 1..n : RecordOf(i) \notin Stored
  PROVE  Len(h[n]) = Len(matches) + Cardinality(KeptUpTo(n))
<1> DEFINE T == {k \in 0..n : Len(h[k]) = Len(matches) + Cardinality(KeptUpTo(k))}
<1>1. /\ n \in Nat /\ h[0] = matches /\ \A k \in 1..n : h[k] = IngestRecord(h[k - 1], RecordOf(k))
      /\ \A k \in 1..n : RecordOf(k) \in Records
  <2>1. DOMAIN file = 1..Len(file) /\ Len(file) \in Nat /\ \A k \in DOMAIN file : RecordOf(k) \in Records
    BY RecordOfFacts
  <2>2. n \in Nat /\ \A k \in 1..n : k \in DOMAIN file
    BY <2>1
  <2>3. QED
    BY <2>1, <2>2 DEF IsIngestion
<1>2. \A k \in 0..n : IsInjective(h[k]) /\ Range(h[k]) = Stored \cup (Known \cap RecordsUpTo(k))
  BY IngestedRecords
<1>3. \A k \in 0..n : IsFiniteSet(KeptUpTo(k)) /\ Cardinality(KeptUpTo(k)) \in Nat
  <2> TAKE k \in 0..n
  <2>1. \A m \in Nat : IsFiniteSet(1..m)
    BY FS_Interval
  <2>2. k \in Nat
    BY <1>1
  <2>3. IsFiniteSet(1..k)
    BY <2>1, <2>2
  <2>4. KeptUpTo(k) \in SUBSET (1..k)
    BY DEF KeptUpTo
  <2>5. QED
    BY <2>3, <2>4, FS_Subset, FS_CardinalityType
<1>4. 0 \in T
  <2>1. KeptUpTo(0) = {}
    BY DEF KeptUpTo
  <2>2. Len(matches) \in Nat
    BY LenProperties DEF BuildTypeOK
  <2>3. QED
    BY <1>1, <2>1, <2>2, FS_EmptySet
<1>5. \A k \in 0..(n - 1) : k \in T => k + 1 \in T
  <2> SUFFICES ASSUME NEW k \in 0..(n - 1), Len(h[k]) = Len(matches) + Cardinality(KeptUpTo(k))
               PROVE  k + 1 \in 0..n /\ Len(h[k + 1]) = Len(matches) + Cardinality(KeptUpTo(k + 1))
    OBVIOUS
  <2>1. k + 1 \in 1..n /\ k + 1 \in 0..n /\ k \in 0..n /\ (k + 1) - 1 = k /\ 1..(k + 1) = (1..k) \cup {k + 1}
        /\ k + 1 \notin 1..k
    BY <1>1
  <2> DEFINE record == RecordOf(k + 1)
  <2>2. h[k + 1] = IngestRecord(h[k], record) /\ record \in Records /\ h[k] \in Seq(Records) /\ IsInjective(h[k])
    BY <1>1, <1>2, <2>1
  <2>3. record \notin Range(h[k])
    <3>1. \A i \in 1..k : i \in 1..n /\ i # k + 1
      BY <1>1, <2>1
    <3>2. \A i \in 1..k : RecordOf(i) # record
      BY <2>1, <3>1
    <3>3. record \notin RecordsUpTo(k)
      BY <3>2 DEF RecordsUpTo
    <3>4. record \notin Stored
      BY <2>1
    <3>5. QED
      BY <1>2, <2>1, <3>3, <3>4
  <2>4. Len(h[k + 1]) = IF record \in Known THEN Len(h[k]) + 1 ELSE Len(h[k])
    BY <2>2, <2>3, IngestRecordFacts
  <2>5. KeptUpTo(k + 1) = IF record \in Known THEN KeptUpTo(k) \cup {k + 1} ELSE KeptUpTo(k)
    BY <2>1 DEF KeptUpTo
  <2>6. k + 1 \notin KeptUpTo(k)
    BY <2>1 DEF KeptUpTo
  <2>7. Cardinality(KeptUpTo(k) \cup {k + 1}) = Cardinality(KeptUpTo(k)) + 1
    BY <1>3, <2>1, <2>6, FS_AddElement
  <2>8. Len(matches) \in Nat /\ Cardinality(KeptUpTo(k)) \in Nat
    BY <1>3, <2>1, LenProperties DEF BuildTypeOK
  <2> HIDE DEF record
  <2>9. Len(h[k + 1]) = Len(matches) + Cardinality(KeptUpTo(k + 1))
    BY <2>4, <2>5, <2>7, <2>8, SMTT(30)
  <2>10. QED
    BY <2>1, <2>9
<1> HIDE DEF T
<1>6. n \in T
  BY <1>1, <1>4, <1>5, SetInduction
<1>7. QED
  BY <1>6 DEF T

LEMMA IngestedFacts ==
  ASSUME BuildTypeOK, FileInv, IsInjective(matches), NEW n \in 0..Len(file)
  PROVE  /\ Ingested(n) \in Seq(Records) /\ IsInjective(Ingested(n))
         /\ Range(Ingested(n)) = Stored \cup (Known \cap RecordsUpTo(n))
         /\ KeptOf(n) \in Nat
         /\ /\ \A i, j \in 1..n : RecordOf(i) = RecordOf(j) => i = j
            /\ \A i \in 1..n : RecordOf(i) \notin Stored
            => Len(Ingested(n)) = Len(matches) + KeptOf(n)
<1>1. PICK h \in [0..n -> Seq(Records)] : IsIngestion(h, n)
  BY IngestionExists
<1>2. n \in Nat /\ n \in 0..n
  <2>1. Len(file) \in Nat
    BY RecordOfFacts
  <2>2. QED
    BY <2>1
<1>3. h[n] = Ingested(n) /\ h[n] \in Seq(Records)
  BY <1>1, <1>2 DEF IsIngestion
<1>4. IsInjective(h[n]) /\ Range(h[n]) = Stored \cup (Known \cap RecordsUpTo(n))
  BY <1>1, <1>2, IngestedRecords
<1>5. KeptOf(n) = Cardinality(KeptUpTo(n))
  BY DEF KeptOf, KeptUpTo, RecordOf
<1>6. KeptOf(n) \in Nat
  <2>1. \A m \in Nat : IsFiniteSet(1..m)
    BY FS_Interval
  <2>2. IsFiniteSet(1..n) /\ KeptUpTo(n) \in SUBSET (1..n)
    BY <1>2, <2>1 DEF KeptUpTo
  <2>3. QED
    BY <1>5, <2>2, FS_Subset, FS_CardinalityType
<1>7. /\ \A i, j \in 1..n : RecordOf(i) = RecordOf(j) => i = j
      /\ \A i \in 1..n : RecordOf(i) \notin Stored
      => Len(h[n]) = Len(matches) + Cardinality(KeptUpTo(n))
  BY <1>1, IngestedCount
<1>8. QED
  BY <1>3, <1>4, <1>5, <1>6, <1>7

--------------------------------------------------------------------------------
(* Each step of the feeds *)

BuildInv == BuildTypeOK /\ ProgressInv /\ FileInv /\ WholeInv

FileBlocks == [edition : Nat, block : Nat]

\* What may be in the file.
BytesOK(bytes) ==
  /\ bytes \in Seq(FileBlocks)
  /\ \A k \in DOMAIN bytes : /\ bytes[k].block = k /\ bytes[k].edition \in DOMAIN Editions[year]
                             /\ k \in DOMAIN Content(year, bytes[k].edition)
                             /\ ~replaced => bytes[k].edition = edition[year]

LEMMA FileIsOK ==
  ASSUME BuildInv
  PROVE  BytesOK(file)
BY DEF BuildInv, BuildTypeOK, FileInv, BytesOK, FileBlocks

LEMMA RequestedKeeps ==
  ASSUME BuildInv, NEW bytes, BytesOK(bytes), NEW whole \in BOOLEAN, Requested(bytes, whole),
         whole => Len(bytes) # 0 /\ Len(bytes) = Len(Content(year, bytes[Len(bytes)].edition))
  PROVE  BuildInv'
<1>1. /\ pc = "request" /\ file' = bytes /\ have' = Len(bytes) /\ bytes \in Seq(FileBlocks) /\ Len(bytes) \in Nat
      /\ UNCHANGED <<edition, year, attempt, matches, kept, source, tries, marks, lifecycle, links, read, replaced>>
  BY LenProperties DEF Requested, BytesOK, database, later, retire
<1>2. /\ pc' \in {"request", "ingest", "failed"} /\ best' \in Nat /\ stalls' \in 0..StallLimit
      /\ pc' = "request" => stalls' < StallLimit
      /\ pc' = "ingest" => whole
  <2>1. stalls \in 0..StallLimit /\ stalls < StallLimit /\ best \in Nat /\ StallLimit \in Nat \ {0}
    BY <1>1, LimitsAssumption DEF BuildInv, BuildTypeOK, ProgressInv
  <2>2. AfterRequest(bytes, whole)
    BY DEF Requested
  <2>3. CASE whole
    BY <2>1, <2>2, <2>3 DEF AfterRequest
  <2>4. CASE ~whole
    BY <1>1, <2>1, <2>2, <2>4 DEF AfterRequest
  <2>5. QED
    BY <2>3, <2>4
<1>3. BuildTypeOK'
  BY <1>1, <1>2 DEF BuildInv, BuildTypeOK, FileBlocks
<1>4. ProgressInv'
  BY <1>1, <1>2 DEF BuildInv, ProgressInv
<1>5. FileInv'
  BY <1>1, <1>2 DEF FileInv, BytesOK, Content
<1>6. WholeInv'
  <2>1. Done' = Done /\ Stored' = Stored /\ \A y \in Done : RecordsOf(y)' = RecordsOf(y)
    BY <1>1, <1>2 DEF Done, Stored, RecordsOf, Content
  <2>2. QED
    BY <1>1, <1>2, <2>1 DEF BuildInv, WholeInv
<1>7. QED
  BY <1>3, <1>4, <1>5, <1>6 DEF BuildInv

LEMMA CurrentFacts ==
  ASSUME BuildInv
  PROVE  /\ year \in Years /\ edition[year] \in DOMAIN Editions[year] /\ edition[year] \in Nat
         /\ Current = Content(year, edition[year]) /\ Len(Current) \in Nat \ {0}
         /\ DOMAIN Current = 1..Len(Current)
<1>1. year \in Years /\ edition[year] \in DOMAIN Editions[year] /\ edition[year] \in Nat
  BY DEF BuildInv, BuildTypeOK
<1>2. QED
  BY <1>1, ContentFacts DEF Current

LEMMA BlocksFacts ==
  ASSUME BuildInv, NEW first \in Nat \ {0}, NEW last \in Nat, first <= last + 1
  PROVE  /\ Blocks(first, last) \in Seq(FileBlocks) /\ Len(Blocks(first, last)) = last - first + 1
         /\ \A k \in 1..(last - first + 1) :
              Blocks(first, last)[k] = [edition |-> edition[year], block |-> first + k - 1]
<1> DEFINE n == last - first + 1
           t == Blocks(first, last)
<1>1. n \in Nat
  OBVIOUS
<1>2. \A k \in 1..n : first + k - 1 \in Nat
  BY <1>1
<1>3. t = [k \in 1..n |-> [edition |-> edition[year], block |-> first + k - 1]]
  BY DEF Blocks
<1>4. \A k \in 1..n : [edition |-> edition[year], block |-> first + k - 1] \in FileBlocks
  BY <1>2, CurrentFacts DEF FileBlocks
<1> HIDE DEF n, t
<1>5. t \in Seq(FileBlocks)
  <2>1. \A m \in Nat : \A f \in [1..m -> FileBlocks] : f \in Seq(FileBlocks)
    BY SeqDef
  <2>2. t \in [1..n -> FileBlocks]
    BY <1>3, <1>4
  <2>3. QED
    BY <1>1, <2>1, <2>2
<1>6. Len(t) = n
  BY <1>1, <1>3, <1>5, LenProperties
<1>7. QED
  BY <1>3, <1>5, <1>6 DEF n, t

LEMMA NoAnswerKeeps == BuildInv /\ NoAnswer => BuildInv'
BY FileIsOK, RequestedKeeps DEF NoAnswer

LEMMA WholeFeedKeeps ==
  ASSUME BuildInv, NEW n \in 0..Len(Current), WholeFeed(n)
  PROVE  BuildInv'
<1> DEFINE t == Blocks(1, n)
<1>1. n \in Nat /\ n <= Len(Current) /\ 1 <= n + 1 /\ n - 1 + 1 = n
  BY CurrentFacts
<1>2. /\ t \in Seq(FileBlocks) /\ Len(t) = n /\ DOMAIN t = 1..n
      /\ \A k \in 1..n : t[k].edition = edition[year] /\ t[k].block = k
  <2>1. /\ t \in Seq(FileBlocks) /\ Len(t) = n
        /\ \A k \in 1..n : t[k] = [edition |-> edition[year], block |-> 1 + k - 1]
    BY <1>1, BlocksFacts
  <2>2. DOMAIN t = 1..n
    BY <2>1, LenProperties
  <2> HIDE DEF t
  <2>3. \A k \in 1..n : 1 + k - 1 = k
    BY <1>1
  <2>4. QED
    BY <2>1, <2>2, <2>3
<1> HIDE DEF t
<1>3. BytesOK(t)
  <2>1. \A k \in 1..n : k \in DOMAIN Content(year, edition[year])
    BY <1>1, CurrentFacts
  <2>2. QED
    BY <1>2, <2>1, CurrentFacts DEF BytesOK
<1>4. (n = Len(Current)) => Len(t) # 0 /\ Len(t) = Len(Content(year, t[Len(t)].edition))
  <2> SUFFICES ASSUME n = Len(Current) PROVE Len(t) # 0 /\ Len(t) = Len(Content(year, t[Len(t)].edition))
    OBVIOUS
  <2>1. n \in 1..n
    BY CurrentFacts
  <2>2. QED
    BY <1>2, <2>1, CurrentFacts
<1>5. Requested(t, n = Len(Current)) /\ (n = Len(Current)) \in BOOLEAN
  BY DEF WholeFeed, t
<1>6. QED
  BY <1>3, <1>4, <1>5, RequestedKeeps

LEMMA RestOfFeedKeeps ==
  ASSUME BuildInv, NEW n \in 0..Len(Current), RestOfFeed(n)
  PROVE  BuildInv'
<1> DEFINE more == Blocks(have + 1, have + n)
           t == file \o more
<1>1. /\ have > 0 /\ have < Len(Current) /\ n \in 0..(Len(Current) - have) /\ Requested(t, have + n = Len(Current))
      /\ have \in Nat /\ have = Len(file) /\ file \in Seq(FileBlocks) /\ DOMAIN file = 1..have
  BY LenProperties DEF RestOfFeed, BuildInv, BuildTypeOK, FileBlocks
<1>2. n \in Nat /\ have + n <= Len(Current) /\ (have + n) - (have + 1) + 1 = n
  BY <1>1, CurrentFacts
<1>3. /\ more \in Seq(FileBlocks) /\ Len(more) = n
      /\ \A k \in 1..n : more[k] = [edition |-> edition[year], block |-> (have + 1) + k - 1]
  <2>1. have + 1 \in Nat \ {0} /\ have + n \in Nat /\ have + 1 <= (have + n) + 1
    BY <1>1, <1>2
  <2> HIDE DEF more
  <2>2. /\ Blocks(have + 1, have + n) \in Seq(FileBlocks)
        /\ Len(Blocks(have + 1, have + n)) = (have + n) - (have + 1) + 1
        /\ \A k \in 1..((have + n) - (have + 1) + 1) :
             Blocks(have + 1, have + n)[k] = [edition |-> edition[year], block |-> (have + 1) + k - 1]
    BY <2>1, BlocksFacts
  <2>3. QED
    BY <1>2, <2>2 DEF more
<1> HIDE DEF more
<1>4. /\ t \in Seq(FileBlocks) /\ Len(t) = have + n
      /\ \A k \in 1..(have + n) : t[k] = IF k <= have THEN file[k] ELSE more[k - have]
  BY <1>1, <1>3, ConcatProperties
<1> HIDE DEF t
<1>5. DOMAIN t = 1..(have + n)
  BY <1>4, LenProperties
<1>6. \A k \in 1..have : k \in DOMAIN file /\ t[k] = file[k]
  BY <1>1, <1>2, <1>4
<1>7. \A k \in (have + 1)..(have + n) : t[k].edition = edition[year] /\ t[k].block = k
  <2> TAKE k \in (have + 1)..(have + n)
  <2>1. k - have \in 1..n /\ (have + 1) + (k - have) - 1 = k /\ k \in 1..(have + n) /\ ~(k <= have)
    BY <1>1, <1>2
  <2>2. QED
    BY <1>3, <1>4, <2>1
<1>8. BytesOK(t)
  <2> SUFFICES ASSUME NEW k \in DOMAIN t
               PROVE  /\ t[k].block = k /\ t[k].edition \in DOMAIN Editions[year]
                      /\ k \in DOMAIN Content(year, t[k].edition)
                      /\ ~replaced => t[k].edition = edition[year]
    BY <1>4 DEF BytesOK
  <2>1. CASE k \in 1..have
    BY <1>6, <2>1, FileIsOK DEF BytesOK
  <2>2. CASE k \in (have + 1)..(have + n)
    <3>1. k \in DOMAIN Current
      BY <1>1, <1>2, <2>2, CurrentFacts
    <3>2. QED
      BY <1>7, <2>2, <3>1, CurrentFacts
  <2>3. QED
    BY <1>1, <1>2, <1>5, <2>1, <2>2
<1>9. (have + n = Len(Current)) => Len(t) # 0 /\ Len(t) = Len(Content(year, t[Len(t)].edition))
  <2> SUFFICES ASSUME have + n = Len(Current) PROVE Len(t) # 0 /\ Len(t) = Len(Content(year, t[Len(t)].edition))
    OBVIOUS
  <2>1. have + n \in (have + 1)..(have + n)
    BY <1>1, <1>2
  <2>2. QED
    BY <1>1, <1>4, <1>7, <2>1, CurrentFacts
<1>10. QED
  BY <1>1, <1>8, <1>9, RequestedKeeps

\* A feed whose server kept it has its records once, and the database none of them before.
LEMMA FeedRecords ==
  ASSUME BuildInv, pc = "ingest", ~replaced
  PROVE  /\ RecordsUpTo(Len(file)) = RecordsOf(year)
         /\ \A i, j \in 1..Len(file) : RecordOf(i) = RecordOf(j) => i = j
         /\ \A i \in 1..Len(file) : RecordOf(i) \notin Stored
<1> DEFINE e == edition[year]
           content == Content(year, e)
<1>1. /\ year \in Years /\ e \in DOMAIN Editions[year] /\ DOMAIN file = 1..Len(file) /\ Len(file) \in Nat
      /\ \A k \in 1..Len(file) : file[k].edition = e /\ file[k].block = k
      /\ Len(file) \in 1..Len(file) /\ Len(file) = Len(Content(year, file[Len(file)].edition))
  <2>1. DOMAIN file = 1..Len(file) /\ Len(file) \in Nat
    BY RecordOfFacts DEF BuildInv
  <2>2. have = Len(file) /\ have # 0 /\ have = Len(Content(year, file[have].edition))
    BY DEF BuildInv, BuildTypeOK, FileInv
  <2>3. \A k \in DOMAIN file : file[k].edition = e /\ file[k].block = k
    BY DEF BuildInv, FileInv
  <2>4. year \in Years /\ e \in DOMAIN Editions[year]
    BY CurrentFacts
  <2>5. QED
    BY <2>1, <2>2, <2>3, <2>4
<1>2. Len(file) = Len(content) /\ DOMAIN content = 1..Len(file)
  BY <1>1, ContentFacts
<1>3. \A k \in 1..Len(file) : RecordOf(k) = content[k]
  BY <1>1 DEF RecordOf
<1>4. RecordsUpTo(Len(file)) = RecordsOf(year)
  BY <1>2, <1>3 DEF RecordsUpTo, RecordsOf, Range
<1>5. \A i, j \in 1..Len(file) : RecordOf(i) = RecordOf(j) => i = j
  BY <1>1, <1>2, <1>3, YearsAssumption DEF Content, Years
<1>6. ASSUME NEW i \in 1..Len(file) PROVE RecordOf(i) \notin Stored
  <2> SUFFICES ASSUME content[i] \in Stored PROVE FALSE
    BY <1>3
  <2>1. PICK y \in Done : content[i] \in RecordsOf(y)
    BY DEF BuildInv, WholeInv
  <2>2. y \in Years /\ y # year /\ edition[y] \in DOMAIN Editions[y]
    BY <1>1 DEF Done, Years, BuildInv, BuildTypeOK
  <2>3. PICK j \in DOMAIN Content(y, edition[y]) : Content(y, edition[y])[j] = content[i]
    BY <2>1 DEF RecordsOf, Range
  <2>4. QED
    BY <1>1, <1>2, <2>2, <2>3, YearsAssumption DEF Content, Years
<1>7. QED
  BY <1>4, <1>5, <1>6

\* The feed that is done adds its records.
LEMMA FeedDoneKeeps ==
  ASSUME BuildInv, pc = "ingest", NEW n \in 0..Len(file), matches' = Ingested(n), FeedDone(n),
         ~replaced => n = Len(file)
  PROVE  BuildInv'
<1>1. /\ matches' \in Seq(Records) /\ IsInjective(matches') /\ KeptOf(n) \in Nat
      /\ Range(matches') = Stored \cup (Known \cap RecordsUpTo(n))
  BY IngestedFacts DEF BuildInv, WholeInv
<1>2. /\ kept' = kept + KeptOf(n) /\ attempt' = 1 /\ file' = <<>> /\ have' = 0 /\ best' = 0 /\ stalls' = 0
      /\ UNCHANGED <<edition, source, tries, marks, lifecycle, links, read, replaced>>
      /\ \/ year < LastYear /\ year' = year + 1 /\ pc' = "request"
         \/ ~(year < LastYear) /\ pc' = "open" /\ year' = year
  BY DEF FeedDone, NewFile, later, retire
<1>3. year \in 1..LastYear /\ LastYear \in Nat /\ kept \in Nat /\ source = 1 /\ tries = 0 /\ OpenAttempts \in Nat \ {0}
      /\ StallLimit \in Nat \ {0} /\ FeedAttempts \in Nat \ {0}
  BY FeedsAssumption, LimitsAssumption DEF BuildInv, BuildTypeOK, ProgressInv, Years
<1>4. year' \in 1..LastYear /\ kept' \in Nat /\ pc' \in {"request", "open"}
  BY <1>1, <1>2, <1>3
<1>5. BuildTypeOK'
  <2>1. file' \in Seq(FileBlocks) /\ Len(file') = 0 /\ 0 \in 0..StallLimit /\ 1 \in 1..FeedAttempts
    BY <1>2, <1>3
  <2>2. QED
    BY <1>1, <1>2, <1>4, <2>1 DEF BuildInv, BuildTypeOK, Years, FileBlocks
<1>6. ProgressInv'
  BY <1>2, <1>3 DEF BuildInv, ProgressInv
<1>7. FileInv'
  BY <1>2 DEF FileInv
<1>8. WholeInv'
  <2>1. Done' = Done \cup {year}
    BY <1>2, <1>3 DEF Done, Years
  <2>2. (year' = LastYear) \/ pc' = "request"
    BY <1>2, <1>3
  <2>3. ASSUME ~replaced
        PROVE  /\ Range(matches') = Known \cap UNION {RecordsOf(y) : y \in Done \cup {year}}
               /\ kept' = Len(matches')
    <3>1. n = Len(file)
      BY <2>3
    <3>2. /\ RecordsUpTo(n) = RecordsOf(year)
          /\ \A i, j \in 1..n : RecordOf(i) = RecordOf(j) => i = j
          /\ \A i \in 1..n : RecordOf(i) \notin Stored
      BY <2>3, <3>1, FeedRecords
    <3>3. Stored = Known \cap UNION {RecordsOf(y) : y \in Done} /\ kept = Len(matches)
      BY <2>3 DEF BuildInv, WholeInv
    <3>4. Len(Ingested(n)) = Len(matches) + KeptOf(n)
      BY <3>2, IngestedFacts DEF BuildInv, WholeInv
    <3>5. UNION {RecordsOf(y) : y \in Done \cup {year}} = (UNION {RecordsOf(y) : y \in Done}) \cup RecordsOf(year)
      OBVIOUS
    <3>6. Range(matches') = Known \cap UNION {RecordsOf(y) : y \in Done \cup {year}}
      BY <1>1, <3>2, <3>3, <3>5
    <3>7. QED
      BY <1>2, <3>3, <3>4, <3>6
  <2>4. \A y \in Years : RecordsOf(y)' = RecordsOf(y)
    BY <1>2 DEF RecordsOf, Content
  <2>5. Done' \subseteq Years /\ Done \cup {year} \subseteq Years
    BY <1>3, <2>1 DEF Done, Years
  <2>6. UNION {RecordsOf(y)' : y \in Done'} = UNION {RecordsOf(y) : y \in Done \cup {year}}
    BY <2>1, <2>4, <2>5
  <2>7. pc' \in {"request", "open"}
    BY <1>2
  <2>8. QED
    BY <1>1, <1>2, <2>2, <2>3, <2>6, <2>7 DEF WholeInv, Stored
<1>9. QED
  BY <1>5, <1>6, <1>7, <1>8 DEF BuildInv

\* A file of one edition is the only one a server that keeps its feed can have sent.
LEMMA MixedIsReplaced ==
  ASSUME BuildInv, ~OneEdition
  PROVE  replaced
<1>1. DOMAIN file = 1..Len(file) /\ Len(file) \in Nat
  BY RecordOfFacts DEF BuildInv
<1>2. SUFFICES ASSUME ~replaced PROVE OneEdition
  OBVIOUS
<1>3. \A i \in 1..Len(file) : file[i].edition = edition[year]
  BY <1>1, <1>2 DEF BuildInv, FileInv
<1>4. \A i \in 1..Len(file) : 1 \in 1..Len(file)
  BY <1>1
<1>5. QED
  BY <1>1, <1>3, <1>4 DEF OneEdition, Leading

LEMMA IngestFeedKeeps == BuildInv /\ IngestFeed => BuildInv'
<1>1. BuildInv => Len(file) \in 0..Len(file)
  BY RecordOfFacts DEF BuildInv
<1>2. QED
  BY <1>1, FeedDoneKeeps DEF IngestFeed

LEMMA IngestStopsShortKeeps ==
  ASSUME BuildInv, NEW n \in Leading, IngestStopsShort(n)
  PROVE  BuildInv'
<1>1. n \in 0..Len(file)
  BY DEF Leading
<1>2. QED
  BY <1>1, MixedIsReplaced, FeedDoneKeeps DEF IngestStopsShort

LEMMA IngestFailsKeeps ==
  ASSUME BuildInv, NEW n \in Leading, IngestFails(n)
  PROVE  BuildInv'
<1>1. n \in 0..Len(file) /\ replaced
  BY MixedIsReplaced DEF Leading, IngestFails
<1>2. matches' \in Seq(Records) /\ IsInjective(matches')
  BY <1>1, IngestedFacts DEF IngestFails, BuildInv, WholeInv
<1>3. /\ pc = "ingest" /\ pc' = "failed"
      /\ UNCHANGED <<edition, year, attempt, file, have, best, stalls, kept, source, tries, marks, lifecycle, links, read, replaced>>
  BY DEF IngestFails, transfer, later, retire
<1>4. BuildTypeOK'
  BY <1>2, <1>3 DEF BuildInv, BuildTypeOK
<1>5. ProgressInv'
  BY <1>3 DEF BuildInv, ProgressInv
<1>6. FileInv'
  BY <1>1, <1>3 DEF BuildInv, FileInv, Content
<1>7. WholeInv'
  BY <1>1, <1>2, <1>3 DEF WholeInv
<1>8. QED
  BY <1>4, <1>5, <1>6, <1>7 DEF BuildInv

LEMMA RetryKeeps == BuildInv /\ Retry => BuildInv'
<1> SUFFICES ASSUME BuildInv, Retry PROVE BuildInv'
  OBVIOUS
<1>1. /\ pc = "failed" /\ source = 1 /\ tries = 0 /\ attempt \in 1..FeedAttempts /\ FeedAttempts \in Nat \ {0}
      /\ StallLimit \in Nat \ {0}
      /\ UNCHANGED <<edition, year, matches, kept, source, tries, marks, lifecycle, links, read, replaced>>
  BY LimitsAssumption DEF Retry, database, later, retire, BuildInv, BuildTypeOK, ProgressInv
<1>2. CASE attempt < FeedAttempts
  <2>1. pc' = "request" /\ attempt' = attempt + 1 /\ file' = <<>> /\ have' = 0 /\ best' = 0 /\ stalls' = 0
    BY <1>2 DEF Retry, NewFile
  <2>2. file' \in Seq(FileBlocks) /\ Len(file') = 0 /\ 0 \in 0..StallLimit /\ attempt + 1 \in 1..FeedAttempts
    BY <1>1, <1>2, <2>1
  <2>3. BuildTypeOK'
    BY <1>1, <2>1, <2>2 DEF BuildInv, BuildTypeOK, FileBlocks
  <2>4. ProgressInv' /\ FileInv'
    BY <1>1, <2>1 DEF BuildInv, ProgressInv, FileInv
  <2>5. WholeInv'
    <3>1. Done' = Done /\ Stored' = Stored /\ \A y \in Done : RecordsOf(y)' = RecordsOf(y)
      BY <1>1, <2>1 DEF Done, Stored, RecordsOf, Content
    <3>2. QED
      BY <1>1, <2>1, <3>1 DEF BuildInv, WholeInv
  <2>6. QED
    BY <2>3, <2>4, <2>5 DEF BuildInv
<1>3. CASE ~(attempt < FeedAttempts)
  <2>1. pc' = "aborted" /\ UNCHANGED <<attempt, file, have, best, stalls>>
    BY <1>3 DEF Retry, transfer
  <2>2. BuildTypeOK'
    BY <1>1, <2>1 DEF BuildInv, BuildTypeOK
  <2>3. ProgressInv' /\ FileInv' /\ WholeInv'
    BY <1>1, <2>1 DEF BuildInv, ProgressInv, FileInv, WholeInv, Content
  <2>4. QED
    BY <2>2, <2>3 DEF BuildInv
<1>4. QED
  BY <1>2, <1>3

--------------------------------------------------------------------------------
(* The steps after the feeds *)

\* They leave the feeds and their records as they are.
LEMMA LaterKeeps ==
  ASSUME BuildInv, pc \in {"open", "blob", "manifest"}, pc' \in {"open", "blob", "manifest", "written", "aborted"},
         UNCHANGED <<edition, year, attempt, transfer, database, replaced>>, source' \in 1..7,
         tries' \in 0..OpenAttempts, Len(read') = source' - 1, DOMAIN marks' = Records,
         DOMAIN lifecycle' = Products, DOMAIN links' \subseteq Technologies, ProgressInv'
  PROVE  BuildInv'
<1>1. UNCHANGED <<edition, year, attempt, file, have, best, stalls, matches, kept, replaced>>
  BY DEF transfer, database
<1>2. BuildTypeOK'
  BY <1>1 DEF BuildInv, BuildTypeOK
<1>3. FileInv'
  BY <1>1 DEF BuildInv, FileInv, Content
<1>4. WholeInv'
  <2>1. year = LastYear /\ IsInjective(matches)
    BY DEF BuildInv, WholeInv
  <2>2. pc' # "aborted" => Done' = Done
    BY <1>1 DEF Done
  <2>3. Stored' = Stored /\ \A y \in Done : RecordsOf(y)' = RecordsOf(y)
    BY <1>1 DEF Stored, RecordsOf, Content
  <2>4. QED
    BY <1>1, <2>1, <2>2, <2>3 DEF BuildInv, WholeInv
<1>5. QED
  BY <1>2, <1>3, <1>4 DEF BuildInv

\* The answer of source k is the k-th that was read.
LEMMA AnsweredKeeps ==
  ASSUME BuildInv, NEW k \in 1..6, NEW answer, Answered(k, answer), DOMAIN marks' = Records,
         DOMAIN lifecycle' = Products, DOMAIN links' \subseteq Technologies,
         pc' = IF k = 6 THEN "blob" ELSE "open"
  PROVE  /\ BuildInv'
         /\ DOMAIN read = 1..(k - 1) /\ DOMAIN read' = 1..k /\ read'[k] = answer
         /\ \A i \in 1..(k - 1) : read'[i] = read[i]
<1>1. /\ pc = "open" /\ source = k /\ answer \in Answers[k] /\ source' = k + 1 /\ tries' = 0
      /\ read' = Append(read, answer)
      /\ UNCHANGED <<edition, year, attempt, transfer, database, replaced>>
  BY DEF Answered
<1>2. read \in Seq(AllAnswers) /\ Len(read) = k - 1 /\ answer \in AllAnswers
  BY <1>1 DEF BuildInv, BuildTypeOK, ProgressInv, AllAnswers
<1>3. /\ read' \in Seq(AllAnswers) /\ Len(read') = k /\ DOMAIN read' = 1..k /\ DOMAIN read = 1..(k - 1)
      /\ read'[k] = answer /\ \A i \in 1..(k - 1) : read'[i] = read[i]
  BY <1>1, <1>2, AppendProperties, LenProperties
<1>4. \A i \in 1..k : i = k \/ i \in DOMAIN read
  BY <1>3
<1>5. \A i \in DOMAIN read' : read'[i] \in Answers[i]
  BY <1>1, <1>3, <1>4 DEF BuildInv, ProgressInv
<1>6. OpenAttempts \in Nat \ {0} /\ k + 1 \in 1..7 /\ (k + 1) - 1 = k /\ (k # 6 => k + 1 <= 6)
  BY LimitsAssumption
<1>7. ProgressInv'
  BY <1>1, <1>3, <1>5, <1>6 DEF ProgressInv, AllAnswers
<1>8. BuildInv'
  BY <1>1, <1>3, <1>6, <1>7, LaterKeeps
<1>9. QED
  BY <1>3, <1>8

LEMMA KevEmptyKeeps == BuildInv /\ KevEmpty => BuildInv'
<1> SUFFICES ASSUME BuildInv, KevEmpty PROVE BuildInv'
  OBVIOUS
<1>1. pc = "open" /\ pc' = "aborted" /\ UNCHANGED <<edition, year, attempt, transfer, database, later, replaced>>
  BY DEF KevEmpty
<1>2. ProgressInv'
  BY <1>1 DEF BuildInv, ProgressInv, later
<1>3. UNCHANGED <<source, tries, marks, lifecycle, links, read>>
  BY <1>1 DEF later, retire
<1>4. QED
  BY <1>1, <1>2, <1>3, LaterKeeps DEF BuildInv, BuildTypeOK

LEMMA OpenFailsKeeps == BuildInv /\ OpenFails => BuildInv'
<1> SUFFICES ASSUME BuildInv, OpenFails PROVE BuildInv'
  OBVIOUS
<1>1. /\ pc = "open" /\ tries' = tries + 1 /\ pc' = IF tries' = OpenAttempts THEN "aborted" ELSE "open"
      /\ UNCHANGED <<edition, year, attempt, transfer, database, source, marks, lifecycle, links, read, replaced>>
  BY DEF OpenFails, retire
<1>2. tries \in 0..OpenAttempts /\ tries < OpenAttempts /\ OpenAttempts \in Nat \ {0} /\ source <= 6
  BY <1>1, LimitsAssumption DEF BuildInv, BuildTypeOK, ProgressInv
<1>3. tries' \in 0..OpenAttempts /\ (pc' = "open" => tries' < OpenAttempts) /\ pc' \in {"open", "aborted"}
  BY <1>1, <1>2
<1>4. ProgressInv'
  BY <1>1, <1>2, <1>3 DEF BuildInv, ProgressInv
<1>5. QED
  BY <1>1, <1>3, <1>4, LaterKeeps DEF BuildInv, BuildTypeOK

LEMMA WriteKeeps == BuildInv /\ (WriteBlob \/ WriteManifest) => BuildInv'
<1> SUFFICES ASSUME BuildInv, WriteBlob \/ WriteManifest PROVE BuildInv'
  OBVIOUS
<1>1. /\ \/ pc = "blob" /\ pc' = "manifest"
         \/ pc = "manifest" /\ pc' = "written"
      /\ UNCHANGED <<edition, year, attempt, transfer, database, later, replaced>>
  BY DEF WriteBlob, WriteManifest
<1>2. ProgressInv'
  BY <1>1 DEF BuildInv, ProgressInv, later
<1>3. UNCHANGED <<source, tries, marks, lifecycle, links, read>>
  BY <1>1 DEF later, retire
<1>4. QED
  BY <1>1, <1>2, <1>3, LaterKeeps DEF BuildInv, BuildTypeOK

--------------------------------------------------------------------------------
(* The world *)

LEMMA AbortedKeeps == BuildInv /\ Aborted => BuildInv'
BY DEF BuildInv, Aborted, BuildTypeOK, ProgressInv, FileInv, WholeInv, Content, Stored,
       transfer, database, later, retire

LEMMA ReplaceKeeps ==
  ASSUME BuildInv, NEW y \in Years, Replace(y)
  PROVE  BuildInv'
<1>1. /\ edition[y] < Len(Editions[y]) /\ edition' = [edition EXCEPT ![y] = @ + 1]
      /\ replaced' = (replaced \/ y <= year)
      /\ UNCHANGED <<pc, year, attempt, file, have, best, stalls, matches, kept, source, tries, marks, lifecycle, links, read>>
  BY DEF Replace, transfer, database, later, retire
<1>2. edition \in [Years -> Nat] /\ year \in Years /\ Years \subseteq Nat /\ edition[y] \in 1..Len(Editions[y])
      /\ DOMAIN Editions[y] = 1..Len(Editions[y]) /\ Len(Editions[y]) \in Nat
  <2>1. Editions[y] \in Seq(Seq(Records) \ {<<>>})
    BY FeedsAssumption DEF Years
  <2>2. DOMAIN Editions[y] = 1..Len(Editions[y]) /\ Len(Editions[y]) \in Nat
    BY <2>1, LenProperties
  <2>3. edition \in [Years -> Nat] /\ year \in Years /\ edition[y] \in DOMAIN Editions[y]
    BY DEF BuildInv, BuildTypeOK
  <2>4. QED
    BY <2>2, <2>3 DEF Years
<1>3. /\ edition' \in [Years -> Nat] /\ edition'[y] \in DOMAIN Editions[y]
      /\ \A z \in Years : z # y => edition'[z] = edition[z]
  BY <1>1, <1>2
<1>4. BuildTypeOK'
  BY <1>1, <1>2, <1>3 DEF BuildInv, BuildTypeOK
<1>5. ProgressInv'
  BY <1>1 DEF BuildInv, ProgressInv
<1>6. ~replaced' => ~replaced /\ ~(y <= year)
  BY <1>1
<1>7. FileInv'
  BY <1>1, <1>2, <1>3, <1>6 DEF BuildInv, FileInv, Content
<1>8. WholeInv'
  <2>1. Done' = Done /\ Stored' = Stored /\ Done \subseteq Years /\ \A z \in Done : z <= year
    BY <1>1, <1>2 DEF Done, Stored
  <2>2. ~replaced' => \A z \in Done : RecordsOf(z)' = RecordsOf(z)
    BY <1>3, <1>6, <2>1 DEF RecordsOf, Content
  <2>3. QED
    BY <1>1, <1>6, <2>1, <2>2 DEF BuildInv, WholeInv
<1>9. QED
  BY <1>4, <1>5, <1>7, <1>8 DEF BuildInv

LEMMA BuildStutters == BuildInv /\ UNCHANGED buildVars => BuildInv'
<1> SUFFICES ASSUME BuildInv, UNCHANGED buildVars PROVE BuildInv'
  OBVIOUS
<1>1. UNCHANGED <<edition, pc, year, attempt, file, have, best, stalls, matches, kept, source, tries, marks, lifecycle, links, read, replaced>>
  BY DEF buildVars, transfer, database, later, retire
<1>2. BuildTypeOK' /\ ProgressInv' /\ FileInv'
  BY <1>1 DEF BuildInv, BuildTypeOK, ProgressInv, FileInv, Content
<1>3. Done' = Done /\ Stored' = Stored /\ \A y \in Done : RecordsOf(y)' = RecordsOf(y)
  BY <1>1 DEF Done, Stored, RecordsOf, Content
<1>4. WholeInv'
  BY <1>1, <1>3 DEF BuildInv, WholeInv
<1>5. QED
  BY <1>2, <1>4 DEF BuildInv

--------------------------------------------------------------------------------
(* Enrichment: what the sources said so far *)

\* Where source k names record r, and where it does in upper case.
Said(k, r) == {i \in DOMAIN read[k] : r \in Stored /\ read[k][i].id = r}
SaidUpper(k, r) == {i \in Said(k, r) : read[k][i].upper}

\* A mark is what the last entry says that counts, if there is one.
KevFits(r) ==
  /\ \A i \in Said(1, r) : marks[r].kev = read[1][i].name \/ \E j \in Said(1, r) : j > i
  /\ Said(1, r) = {} <=> marks[r].kev = None
EpssFits(r) ==
  /\ \A i \in SaidUpper(2, r) : marks[r].epss = read[2][i].score \/ \E j \in SaidUpper(2, r) : j > i
  /\ SaidUpper(2, r) = {} => marks[r].epss = 0
Lists(key) == {i \in DOMAIN read[5] : [type |-> "cpe", key |-> key] \in read[5][i].identifiers}
CycleFits(key) ==
  /\ \A i \in Lists(key) : lifecycle[key] = read[5][i].name \/ \E j \in Lists(key) : j > i
  /\ Lists(key) = {} <=> lifecycle[key] = None

MarkRecords ==
  [kev : {None} \cup UNION {{answer[i].name : i \in DOMAIN answer} : answer \in Answers[1]},
   epss : {0} \cup UNION {{answer[i].score : i \in DOMAIN answer} : answer \in Answers[2]},
   exploits : Seq({"nuclei", "metasploit"})]

CycleSets ==
  [Products -> {None} \cup UNION {{answer[i].name : i \in DOMAIN answer} : answer \in Answers[5]}]
MarkSets == [Records -> MarkRecords]

\* Each source that was read has left its mark, and no other has.
EnrichInv ==
  /\ marks \in MarkSets
  /\ lifecycle \in CycleSets
  /\ \A r \in Records :
       /\ IF source = 1 THEN marks[r].kev = None ELSE KevFits(r)
       /\ IF source <= 2 THEN marks[r].epss = 0 ELSE EpssFits(r)
       /\ IsInjective(marks[r].exploits)
       /\ ("nuclei" \in Range(marks[r].exploits)) <=> (source > 3 /\ Said(3, r) # {})
       /\ ("metasploit" \in Range(marks[r].exploits)) <=> (source > 4 /\ SaidUpper(4, r) # {})
  /\ \A key \in Products : IF source <= 5 THEN lifecycle[key] = None ELSE CycleFits(key)

\* The steps of the folds.
KevStep(m, entry) == IF FoundUpper(Stored, entry) THEN [m EXCEPT ![entry.id].kev = entry.name] ELSE m
EpssStep(m, row) == IF FoundAsIs(Stored, row) THEN [m EXCEPT ![row.id].epss = row.score] ELSE m
NucleiStep(m, entry) == AddExploit(m, Stored, entry, "nuclei")
MetasploitStep(m, ref) == IF ref.upper THEN AddExploit(m, Stored, ref, "metasploit") ELSE m
CycleStep(cycles, product) ==
  [key \in Products |-> IF [type |-> "cpe", key |-> key] \in product.identifiers THEN product.name ELSE cycles[key]]

LEMMA StoredIsKnown == BuildInv => Stored \subseteq Records
<1> SUFFICES ASSUME BuildInv PROVE Stored \subseteq Records
  OBVIOUS
<1>1. matches \in Seq(Records)
  BY DEF BuildInv, BuildTypeOK
<1>2. QED
  BY <1>1, ElementOfSeq, LenProperties DEF Stored, Range

LEMMA KevRuns ==
  ASSUME BuildInv, marks \in MarkSets, NEW answer \in Answers[1]
  PROVE  \E h \in [0..Len(answer) -> MarkSets] :
           /\ h[0] = marks /\ h[Len(answer)] = IngestKEV(marks, Stored, answer)
           /\ \A k \in 1..Len(answer) : h[k] = KevStep(h[k - 1], answer[k])
<1> DEFINE n == Len(answer)
           g == [x \in MarkSets \X (1..n) |-> KevStep(x[1], answer[x[2]])]
           Iter(f) == f = [s \in SUBSET DOMAIN answer |->
                             IF s = {} THEN marks ELSE KevStep(f[s \ {Max(s)}], answer[Max(s)])]
<1>1. n \in Nat /\ DOMAIN answer = 1..n
  BY AnswersAssumption, LenProperties
<1>2. \A m \in MarkSets, k \in 1..n : KevStep(m, answer[k]) \in MarkSets
  <2> SUFFICES ASSUME NEW m \in MarkSets, NEW k \in 1..n PROVE KevStep(m, answer[k]) \in MarkSets
    OBVIOUS
  <2>1. answer[k].name \in UNION {{a[i].name : i \in DOMAIN a} : a \in Answers[1]}
    BY <1>1
  <2>2. QED
    BY <2>1, StoredIsKnown, ZenonT(30) DEF KevStep, MarkSets, MarkRecords, FoundUpper
<1>3. marks \in MarkSets
  OBVIOUS
<1>4. g \in [MarkSets \X (1..n) -> MarkSets] /\ \A m \in MarkSets, k \in 1..n : g[<<m, k>>] = KevStep(m, answer[k])
  BY <1>2
<1> HIDE DEF g
<1>5. PICK f \in [SUBSET (1..n) -> MarkSets] : IsTable(f, n, marks, g)
  BY <1>1, <1>3, <1>4, TableExists
<1>6. \A s \in SUBSET (1..n) : f[s] = IF s = {} THEN marks ELSE KevStep(f[s \ {Max(s)}], answer[Max(s)])
  <2> SUFFICES ASSUME NEW s \in SUBSET (1..n), s # {} PROVE f[s] = KevStep(f[s \ {Max(s)}], answer[Max(s)])
    BY <1>5 DEF IsTable
  <2>1. Max(s) \in 1..n /\ f[s \ {Max(s)}] \in MarkSets
    BY <1>1, MaxOf
  <2>2. QED
    BY <1>4, <1>5, <2>1 DEF IsTable
<1>7. Iter(f)
  BY <1>1, <1>6
<1> DEFINE F == CHOOSE x : Iter(x)
<1>8. Iter(F)
  BY <1>7, Zenon
<1>9. IngestKEV(marks, Stored, answer) = F[DOMAIN answer]
  BY DEF IngestKEV, KevStep, FoldLeft, MapThenFoldSet
<1> HIDE DEF F
<1>10. \A s \in SUBSET (1..n) : F[s] = IF s = {} THEN marks ELSE KevStep(F[s \ {Max(s)}], answer[Max(s)])
  BY <1>1, <1>8
<1>11. Follows(F, n, MarkSets, marks, g)
  <2> SUFFICES ASSUME NEW s \in SUBSET (1..n), s # {}, F[s \ {Max(s)}] \in MarkSets
               PROVE  F[s] = g[<<F[s \ {Max(s)}], Max(s)>>]
    BY <1>10 DEF Follows
  <2>1. Max(s) \in 1..n
    BY <1>1, MaxOf
  <2>2. QED
    BY <1>4, <1>10, <2>1
<1>12. PICK h \in [0..n -> MarkSets] : h[n] = F[1..n] /\ IsRecursion(h, n, marks, g)
  BY <1>1, <1>3, <1>4, <1>11, FoldRuns
<1>13. h[0] = marks /\ \A k \in 1..n : h[k] = KevStep(h[k - 1], answer[k])
  <2>1. h[0] = marks
    <3>1. 0 \in 0..n
      BY <1>1
    <3>2. QED
      BY <1>12, <3>1 DEF IsRecursion
  <2>2. ASSUME NEW k \in 1..n PROVE h[k] = KevStep(h[k - 1], answer[k])
    <3>1. k \in 0..n /\ k # 0 /\ k - 1 \in 0..n
      BY <1>1
    <3>2. QED
      BY <1>4, <1>12, <3>1 DEF IsRecursion
  <2>3. QED
    BY <2>1, <2>2
<1>14. QED
  BY <1>1, <1>9, <1>12, <1>13

LEMMA EpssRuns ==
  ASSUME BuildInv, marks \in MarkSets, NEW answer \in Answers[2]
  PROVE  \E h \in [0..Len(answer) -> MarkSets] :
           /\ h[0] = marks /\ h[Len(answer)] = IngestEPSS(marks, Stored, answer)
           /\ \A k \in 1..Len(answer) : h[k] = EpssStep(h[k - 1], answer[k])
<1> DEFINE n == Len(answer)
           g == [x \in MarkSets \X (1..n) |-> EpssStep(x[1], answer[x[2]])]
           Iter(f) == f = [s \in SUBSET DOMAIN answer |->
                             IF s = {} THEN marks ELSE EpssStep(f[s \ {Max(s)}], answer[Max(s)])]
<1>1. n \in Nat /\ DOMAIN answer = 1..n
  BY AnswersAssumption, LenProperties
<1>2. \A m \in MarkSets, k \in 1..n : EpssStep(m, answer[k]) \in MarkSets
  <2> SUFFICES ASSUME NEW m \in MarkSets, NEW k \in 1..n PROVE EpssStep(m, answer[k]) \in MarkSets
    OBVIOUS
  <2>1. answer[k].score \in UNION {{a[i].score : i \in DOMAIN a} : a \in Answers[2]}
    BY <1>1
  <2>2. QED
    BY <2>1, StoredIsKnown, ZenonT(30) DEF EpssStep, MarkSets, MarkRecords, FoundAsIs
<1>3. marks \in MarkSets
  OBVIOUS
<1>4. g \in [MarkSets \X (1..n) -> MarkSets] /\ \A m \in MarkSets, k \in 1..n : g[<<m, k>>] = EpssStep(m, answer[k])
  BY <1>2
<1> HIDE DEF g
<1>5. PICK f \in [SUBSET (1..n) -> MarkSets] : IsTable(f, n, marks, g)
  BY <1>1, <1>3, <1>4, TableExists
<1>6. \A s \in SUBSET (1..n) : f[s] = IF s = {} THEN marks ELSE EpssStep(f[s \ {Max(s)}], answer[Max(s)])
  <2> SUFFICES ASSUME NEW s \in SUBSET (1..n), s # {} PROVE f[s] = EpssStep(f[s \ {Max(s)}], answer[Max(s)])
    BY <1>5 DEF IsTable
  <2>1. Max(s) \in 1..n /\ f[s \ {Max(s)}] \in MarkSets
    BY <1>1, MaxOf
  <2>2. QED
    BY <1>4, <1>5, <2>1 DEF IsTable
<1>7. Iter(f)
  BY <1>1, <1>6
<1> DEFINE F == CHOOSE x : Iter(x)
<1>8. Iter(F)
  BY <1>7, Zenon
<1>9. IngestEPSS(marks, Stored, answer) = F[DOMAIN answer]
  BY DEF IngestEPSS, EpssStep, FoldLeft, MapThenFoldSet
<1> HIDE DEF F
<1>10. \A s \in SUBSET (1..n) : F[s] = IF s = {} THEN marks ELSE EpssStep(F[s \ {Max(s)}], answer[Max(s)])
  BY <1>1, <1>8
<1>11. Follows(F, n, MarkSets, marks, g)
  <2> SUFFICES ASSUME NEW s \in SUBSET (1..n), s # {}, F[s \ {Max(s)}] \in MarkSets
               PROVE  F[s] = g[<<F[s \ {Max(s)}], Max(s)>>]
    BY <1>10 DEF Follows
  <2>1. Max(s) \in 1..n
    BY <1>1, MaxOf
  <2>2. QED
    BY <1>4, <1>10, <2>1
<1>12. PICK h \in [0..n -> MarkSets] : h[n] = F[1..n] /\ IsRecursion(h, n, marks, g)
  BY <1>1, <1>3, <1>4, <1>11, FoldRuns
<1>13. h[0] = marks /\ \A k \in 1..n : h[k] = EpssStep(h[k - 1], answer[k])
  <2>1. h[0] = marks
    <3>1. 0 \in 0..n
      BY <1>1
    <3>2. QED
      BY <1>12, <3>1 DEF IsRecursion
  <2>2. ASSUME NEW k \in 1..n PROVE h[k] = EpssStep(h[k - 1], answer[k])
    <3>1. k \in 0..n /\ k # 0 /\ k - 1 \in 0..n
      BY <1>1
    <3>2. QED
      BY <1>4, <1>12, <3>1 DEF IsRecursion
  <2>3. QED
    BY <2>1, <2>2
<1>14. QED
  BY <1>1, <1>9, <1>12, <1>13

LEMMA NucleiRuns ==
  ASSUME BuildInv, marks \in MarkSets, NEW answer \in Answers[3]
  PROVE  \E h \in [0..Len(answer) -> MarkSets] :
           /\ h[0] = marks /\ h[Len(answer)] = IngestNuclei(marks, Stored, answer)
           /\ \A k \in 1..Len(answer) : h[k] = NucleiStep(h[k - 1], answer[k])
<1> DEFINE n == Len(answer)
           g == [x \in MarkSets \X (1..n) |-> NucleiStep(x[1], answer[x[2]])]
           Iter(f) == f = [s \in SUBSET DOMAIN answer |->
                             IF s = {} THEN marks ELSE NucleiStep(f[s \ {Max(s)}], answer[Max(s)])]
<1>1. n \in Nat /\ DOMAIN answer = 1..n
  BY AnswersAssumption, LenProperties
<1>2. \A m \in MarkSets, k \in 1..n : NucleiStep(m, answer[k]) \in MarkSets
  <2> SUFFICES ASSUME NEW m \in MarkSets, NEW k \in 1..n PROVE NucleiStep(m, answer[k]) \in MarkSets
    OBVIOUS
  <2>1. \A list \in Seq({"nuclei", "metasploit"}) : Append(list, "nuclei") \in Seq({"nuclei", "metasploit"})
    BY AppendProperties
  <2>2. QED
    BY <2>1, StoredIsKnown, ZenonT(30) DEF NucleiStep, MarkSets, MarkRecords, FoundUpper, AddExploit
<1>3. marks \in MarkSets
  OBVIOUS
<1>4. g \in [MarkSets \X (1..n) -> MarkSets] /\ \A m \in MarkSets, k \in 1..n : g[<<m, k>>] = NucleiStep(m, answer[k])
  BY <1>2
<1> HIDE DEF g
<1>5. PICK f \in [SUBSET (1..n) -> MarkSets] : IsTable(f, n, marks, g)
  BY <1>1, <1>3, <1>4, TableExists
<1>6. \A s \in SUBSET (1..n) : f[s] = IF s = {} THEN marks ELSE NucleiStep(f[s \ {Max(s)}], answer[Max(s)])
  <2> SUFFICES ASSUME NEW s \in SUBSET (1..n), s # {} PROVE f[s] = NucleiStep(f[s \ {Max(s)}], answer[Max(s)])
    BY <1>5 DEF IsTable
  <2>1. Max(s) \in 1..n /\ f[s \ {Max(s)}] \in MarkSets
    BY <1>1, MaxOf
  <2>2. QED
    BY <1>4, <1>5, <2>1 DEF IsTable
<1>7. Iter(f)
  BY <1>1, <1>6
<1> DEFINE F == CHOOSE x : Iter(x)
<1>8. Iter(F)
  BY <1>7, Zenon
<1>9. IngestNuclei(marks, Stored, answer) = F[DOMAIN answer]
  BY DEF IngestNuclei, NucleiStep, FoldLeft, MapThenFoldSet
<1> HIDE DEF F
<1>10. \A s \in SUBSET (1..n) : F[s] = IF s = {} THEN marks ELSE NucleiStep(F[s \ {Max(s)}], answer[Max(s)])
  BY <1>1, <1>8
<1>11. Follows(F, n, MarkSets, marks, g)
  <2> SUFFICES ASSUME NEW s \in SUBSET (1..n), s # {}, F[s \ {Max(s)}] \in MarkSets
               PROVE  F[s] = g[<<F[s \ {Max(s)}], Max(s)>>]
    BY <1>10 DEF Follows
  <2>1. Max(s) \in 1..n
    BY <1>1, MaxOf
  <2>2. QED
    BY <1>4, <1>10, <2>1
<1>12. PICK h \in [0..n -> MarkSets] : h[n] = F[1..n] /\ IsRecursion(h, n, marks, g)
  BY <1>1, <1>3, <1>4, <1>11, FoldRuns
<1>13. h[0] = marks /\ \A k \in 1..n : h[k] = NucleiStep(h[k - 1], answer[k])
  <2>1. h[0] = marks
    <3>1. 0 \in 0..n
      BY <1>1
    <3>2. QED
      BY <1>12, <3>1 DEF IsRecursion
  <2>2. ASSUME NEW k \in 1..n PROVE h[k] = NucleiStep(h[k - 1], answer[k])
    <3>1. k \in 0..n /\ k # 0 /\ k - 1 \in 0..n
      BY <1>1
    <3>2. QED
      BY <1>4, <1>12, <3>1 DEF IsRecursion
  <2>3. QED
    BY <2>1, <2>2
<1>14. QED
  BY <1>1, <1>9, <1>12, <1>13

LEMMA MetasploitRuns ==
  ASSUME BuildInv, marks \in MarkSets, NEW answer \in Answers[4]
  PROVE  \E h \in [0..Len(answer) -> MarkSets] :
           /\ h[0] = marks /\ h[Len(answer)] = IngestMetasploit(marks, Stored, answer)
           /\ \A k \in 1..Len(answer) : h[k] = MetasploitStep(h[k - 1], answer[k])
<1> DEFINE n == Len(answer)
           g == [x \in MarkSets \X (1..n) |-> MetasploitStep(x[1], answer[x[2]])]
           Iter(f) == f = [s \in SUBSET DOMAIN answer |->
                             IF s = {} THEN marks ELSE MetasploitStep(f[s \ {Max(s)}], answer[Max(s)])]
<1>1. n \in Nat /\ DOMAIN answer = 1..n
  BY AnswersAssumption, LenProperties
<1>2. \A m \in MarkSets, k \in 1..n : MetasploitStep(m, answer[k]) \in MarkSets
  <2> SUFFICES ASSUME NEW m \in MarkSets, NEW k \in 1..n PROVE MetasploitStep(m, answer[k]) \in MarkSets
    OBVIOUS
  <2>1. \A list \in Seq({"nuclei", "metasploit"}) : Append(list, "metasploit") \in Seq({"nuclei", "metasploit"})
    BY AppendProperties
  <2>2. AddExploit(m, Stored, answer[k], "metasploit") \in MarkSets
    BY <2>1, StoredIsKnown, ZenonT(30) DEF MarkSets, MarkRecords, FoundUpper, AddExploit
  <2>3. QED
    BY <2>2 DEF MetasploitStep
<1>3. marks \in MarkSets
  OBVIOUS
<1>4. g \in [MarkSets \X (1..n) -> MarkSets] /\ \A m \in MarkSets, k \in 1..n : g[<<m, k>>] = MetasploitStep(m, answer[k])
  BY <1>2
<1> HIDE DEF g
<1>5. PICK f \in [SUBSET (1..n) -> MarkSets] : IsTable(f, n, marks, g)
  BY <1>1, <1>3, <1>4, TableExists
<1>6. \A s \in SUBSET (1..n) : f[s] = IF s = {} THEN marks ELSE MetasploitStep(f[s \ {Max(s)}], answer[Max(s)])
  <2> SUFFICES ASSUME NEW s \in SUBSET (1..n), s # {} PROVE f[s] = MetasploitStep(f[s \ {Max(s)}], answer[Max(s)])
    BY <1>5 DEF IsTable
  <2>1. Max(s) \in 1..n /\ f[s \ {Max(s)}] \in MarkSets
    BY <1>1, MaxOf
  <2>2. QED
    BY <1>4, <1>5, <2>1 DEF IsTable
<1>7. Iter(f)
  BY <1>1, <1>6
<1> DEFINE F == CHOOSE x : Iter(x)
<1>8. Iter(F)
  BY <1>7, Zenon
<1>9. IngestMetasploit(marks, Stored, answer) = F[DOMAIN answer]
  BY DEF IngestMetasploit, MetasploitStep, FoldLeft, MapThenFoldSet
<1> HIDE DEF F
<1>10. \A s \in SUBSET (1..n) : F[s] = IF s = {} THEN marks ELSE MetasploitStep(F[s \ {Max(s)}], answer[Max(s)])
  BY <1>1, <1>8
<1>11. Follows(F, n, MarkSets, marks, g)
  <2> SUFFICES ASSUME NEW s \in SUBSET (1..n), s # {}, F[s \ {Max(s)}] \in MarkSets
               PROVE  F[s] = g[<<F[s \ {Max(s)}], Max(s)>>]
    BY <1>10 DEF Follows
  <2>1. Max(s) \in 1..n
    BY <1>1, MaxOf
  <2>2. QED
    BY <1>4, <1>10, <2>1
<1>12. PICK h \in [0..n -> MarkSets] : h[n] = F[1..n] /\ IsRecursion(h, n, marks, g)
  BY <1>1, <1>3, <1>4, <1>11, FoldRuns
<1>13. h[0] = marks /\ \A k \in 1..n : h[k] = MetasploitStep(h[k - 1], answer[k])
  <2>1. h[0] = marks
    <3>1. 0 \in 0..n
      BY <1>1
    <3>2. QED
      BY <1>12, <3>1 DEF IsRecursion
  <2>2. ASSUME NEW k \in 1..n PROVE h[k] = MetasploitStep(h[k - 1], answer[k])
    <3>1. k \in 0..n /\ k # 0 /\ k - 1 \in 0..n
      BY <1>1
    <3>2. QED
      BY <1>4, <1>12, <3>1 DEF IsRecursion
  <2>3. QED
    BY <2>1, <2>2
<1>14. QED
  BY <1>1, <1>9, <1>12, <1>13

LEMMA CycleRuns ==
  ASSUME BuildInv, NEW answer \in Answers[5]
  PROVE  \E h \in [0..Len(answer) -> CycleSets] :
           /\ h[0] = [key \in Products |-> None] /\ h[Len(answer)] = Lifecycles(Products, answer)
           /\ \A k \in 1..Len(answer) : h[k] = CycleStep(h[k - 1], answer[k])
<1> DEFINE n == Len(answer)
           g == [x \in CycleSets \X (1..n) |-> CycleStep(x[1], answer[x[2]])]
           Iter(f) == f = [s \in SUBSET DOMAIN answer |->
                             IF s = {} THEN [key \in Products |-> None] ELSE CycleStep(f[s \ {Max(s)}], answer[Max(s)])]
<1>1. n \in Nat /\ DOMAIN answer = 1..n
  BY AnswersAssumption, LenProperties
<1>2. \A m \in CycleSets, k \in 1..n : CycleStep(m, answer[k]) \in CycleSets
  <2> SUFFICES ASSUME NEW m \in CycleSets, NEW k \in 1..n PROVE CycleStep(m, answer[k]) \in CycleSets
    OBVIOUS
  <2>1. answer[k].name \in UNION {{a[i].name : i \in DOMAIN a} : a \in Answers[5]}
    BY <1>1
  <2>2. QED
    BY <2>1 DEF CycleStep, CycleSets
<1>3. [key \in Products |-> None] \in CycleSets
  BY DEF CycleSets
<1>4. g \in [CycleSets \X (1..n) -> CycleSets] /\ \A m \in CycleSets, k \in 1..n : g[<<m, k>>] = CycleStep(m, answer[k])
  BY <1>2
<1> HIDE DEF g
<1>5. PICK f \in [SUBSET (1..n) -> CycleSets] : IsTable(f, n, [key \in Products |-> None], g)
  BY <1>1, <1>3, <1>4, TableExists
<1>6. \A s \in SUBSET (1..n) : f[s] = IF s = {} THEN [key \in Products |-> None] ELSE CycleStep(f[s \ {Max(s)}], answer[Max(s)])
  <2> SUFFICES ASSUME NEW s \in SUBSET (1..n), s # {} PROVE f[s] = CycleStep(f[s \ {Max(s)}], answer[Max(s)])
    BY <1>5 DEF IsTable
  <2>1. Max(s) \in 1..n /\ f[s \ {Max(s)}] \in CycleSets
    BY <1>1, MaxOf
  <2>2. QED
    BY <1>4, <1>5, <2>1 DEF IsTable
<1>7. Iter(f)
  BY <1>1, <1>6
<1> DEFINE F == CHOOSE x : Iter(x)
<1>8. Iter(F)
  BY <1>7, Zenon
<1>9. Lifecycles(Products, answer) = F[DOMAIN answer]
  BY DEF Lifecycles, CycleStep, FoldLeft, MapThenFoldSet
<1> HIDE DEF F
<1>10. \A s \in SUBSET (1..n) : F[s] = IF s = {} THEN [key \in Products |-> None] ELSE CycleStep(F[s \ {Max(s)}], answer[Max(s)])
  BY <1>1, <1>8
<1>11. Follows(F, n, CycleSets, [key \in Products |-> None], g)
  <2> SUFFICES ASSUME NEW s \in SUBSET (1..n), s # {}, F[s \ {Max(s)}] \in CycleSets
               PROVE  F[s] = g[<<F[s \ {Max(s)}], Max(s)>>]
    BY <1>10 DEF Follows
  <2>1. Max(s) \in 1..n
    BY <1>1, MaxOf
  <2>2. QED
    BY <1>4, <1>10, <2>1
<1>12. PICK h \in [0..n -> CycleSets] : h[n] = F[1..n] /\ IsRecursion(h, n, [key \in Products |-> None], g)
  BY <1>1, <1>3, <1>4, <1>11, FoldRuns
<1>13. h[0] = [key \in Products |-> None] /\ \A k \in 1..n : h[k] = CycleStep(h[k - 1], answer[k])
  <2>1. h[0] = [key \in Products |-> None]
    <3>1. 0 \in 0..n
      BY <1>1
    <3>2. QED
      BY <1>12, <3>1 DEF IsRecursion
  <2>2. ASSUME NEW k \in 1..n PROVE h[k] = CycleStep(h[k - 1], answer[k])
    <3>1. k \in 0..n /\ k # 0 /\ k - 1 \in 0..n
      BY <1>1
    <3>2. QED
      BY <1>4, <1>12, <3>1 DEF IsRecursion
  <2>3. QED
    BY <2>1, <2>2
<1>14. QED
  BY <1>1, <1>9, <1>12, <1>13

LEMMA KevMarks ==
  ASSUME BuildInv, marks \in MarkSets, NEW answer \in Answers[1], NEW r \in Records
  PROVE  LET new == IngestKEV(marks, Stored, answer)
             hits == {i \in DOMAIN answer : r \in Stored /\ answer[i].id = r}
         IN  /\ new \in MarkSets /\ new[r].epss = marks[r].epss /\ new[r].exploits = marks[r].exploits
             /\ \/ hits = {} /\ new[r].kev = marks[r].kev
                \/ \E i \in hits : new[r].kev = answer[i].name /\ \A j \in hits : j <= i
<1> DEFINE n == Len(answer)
           hits == {i \in DOMAIN answer : r \in Stored /\ answer[i].id = r}
<1>1. n \in Nat /\ DOMAIN answer = 1..n
  BY AnswersAssumption, LenProperties
<1>2. PICK h \in [0..n -> MarkSets] :
        /\ h[0] = marks /\ h[n] = IngestKEV(marks, Stored, answer)
        /\ \A k \in 1..n : h[k] = KevStep(h[k - 1], answer[k])
  BY KevRuns
<1> DEFINE v == [k \in 0..n |-> h[k][r].kev]
           w == [k \in 0..n |-> <<h[k][r].epss, h[k][r].exploits>>]
           says == [k \in 1..n |-> answer[k].name]
<1>3. ASSUME NEW k \in 1..n
      PROVE  /\ k \in 0..n /\ k - 1 \in 0..n
             /\ h[k][r].kev = IF k \in hits THEN answer[k].name ELSE h[k - 1][r].kev
             /\ h[k][r].epss = h[k - 1][r].epss /\ h[k][r].exploits = h[k - 1][r].exploits
  <2>1. k \in 0..n /\ k - 1 \in 0..n /\ h[k - 1] \in MarkSets /\ h[k] = KevStep(h[k - 1], answer[k])
    BY <1>1, <1>2
  <2>2. CASE k \in hits
    <3>1. h[k] = [h[k - 1] EXCEPT ![r].kev = answer[k].name]
      BY <1>1, <2>1, <2>2 DEF KevStep, FoundUpper
    <3>2. QED
      BY <2>1, <2>2, <3>1 DEF MarkSets, MarkRecords
  <2>3. CASE k \notin hits
    <3>1. h[k][r] = h[k - 1][r]
      BY <1>1, <2>1, <2>3 DEF KevStep, FoundUpper, MarkSets, MarkRecords
    <3>2. QED
      BY <2>1, <2>3, <3>1
  <2>4. QED
    BY <2>2, <2>3
<1>4. hits \in SUBSET (1..n)
  BY <1>1
<1> HIDE DEF hits
<1>5. IsLast(v, n, hits, says) /\ IsLast(w, n, {}, says)
  BY <1>3 DEF IsLast
<1>6. /\ v[0] = marks[r].kev /\ v[n] = h[n][r].kev
      /\ w[0] = <<marks[r].epss, marks[r].exploits>> /\ w[n] = <<h[n][r].epss, h[n][r].exploits>>
      /\ h[n] \in MarkSets /\ \A i \in hits : says[i] = answer[i].name
  BY <1>1, <1>2, <1>4
<1> HIDE DEF v, w, says
<1>7. w[n] = w[0]
  BY <1>1, <1>5, LastWins
<1>8. \/ hits = {} /\ v[n] = v[0]
      \/ \E i \in hits : v[n] = says[i] /\ \A j \in hits : j <= i
  BY <1>1, <1>4, <1>5, LastWins
<1> HIDE DEF n
<1>9. QED
  BY <1>2, <1>6, <1>7, <1>8 DEF hits

LEMMA EpssMarks ==
  ASSUME BuildInv, marks \in MarkSets, NEW answer \in Answers[2], NEW r \in Records
  PROVE  LET new == IngestEPSS(marks, Stored, answer)
             hits == {i \in DOMAIN answer : r \in Stored /\ answer[i].id = r /\ answer[i].upper}
         IN  /\ new \in MarkSets /\ new[r].kev = marks[r].kev /\ new[r].exploits = marks[r].exploits
             /\ \/ hits = {} /\ new[r].epss = marks[r].epss
                \/ \E i \in hits : new[r].epss = answer[i].score /\ \A j \in hits : j <= i
<1> DEFINE n == Len(answer)
           hits == {i \in DOMAIN answer : r \in Stored /\ answer[i].id = r /\ answer[i].upper}
<1>1. n \in Nat /\ DOMAIN answer = 1..n
  BY AnswersAssumption, LenProperties
<1>2. PICK h \in [0..n -> MarkSets] :
        /\ h[0] = marks /\ h[n] = IngestEPSS(marks, Stored, answer)
        /\ \A k \in 1..n : h[k] = EpssStep(h[k - 1], answer[k])
  BY EpssRuns
<1> DEFINE v == [k \in 0..n |-> h[k][r].epss]
           w == [k \in 0..n |-> <<h[k][r].kev, h[k][r].exploits>>]
           says == [k \in 1..n |-> answer[k].score]
<1>3. ASSUME NEW k \in 1..n
      PROVE  /\ k \in 0..n /\ k - 1 \in 0..n
             /\ h[k][r].epss = IF k \in hits THEN answer[k].score ELSE h[k - 1][r].epss
             /\ h[k][r].kev = h[k - 1][r].kev /\ h[k][r].exploits = h[k - 1][r].exploits
  <2>1. k \in 0..n /\ k - 1 \in 0..n /\ h[k - 1] \in MarkSets /\ h[k] = EpssStep(h[k - 1], answer[k])
    BY <1>1, <1>2
  <2>2. CASE k \in hits
    <3>1. h[k] = [h[k - 1] EXCEPT ![r].epss = answer[k].score]
      BY <1>1, <2>1, <2>2 DEF EpssStep, FoundAsIs
    <3>2. QED
      BY <2>1, <2>2, <3>1 DEF MarkSets, MarkRecords
  <2>3. CASE k \notin hits
    <3>1. h[k][r] = h[k - 1][r]
      BY <1>1, <2>1, <2>3 DEF EpssStep, FoundAsIs, MarkSets, MarkRecords
    <3>2. QED
      BY <2>1, <2>3, <3>1
  <2>4. QED
    BY <2>2, <2>3
<1>4. hits \in SUBSET (1..n)
  BY <1>1
<1> HIDE DEF hits
<1>5. IsLast(v, n, hits, says) /\ IsLast(w, n, {}, says)
  BY <1>3 DEF IsLast
<1>6. /\ v[0] = marks[r].epss /\ v[n] = h[n][r].epss
      /\ w[0] = <<marks[r].kev, marks[r].exploits>> /\ w[n] = <<h[n][r].kev, h[n][r].exploits>>
      /\ h[n] \in MarkSets /\ \A i \in hits : says[i] = answer[i].score
  BY <1>1, <1>2, <1>4
<1> HIDE DEF v, w, says
<1>7. w[n] = w[0]
  BY <1>1, <1>5, LastWins
<1>8. \/ hits = {} /\ v[n] = v[0]
      \/ \E i \in hits : v[n] = says[i] /\ \A j \in hits : j <= i
  BY <1>1, <1>4, <1>5, LastWins
<1> HIDE DEF n
<1>9. QED
  BY <1>2, <1>6, <1>7, <1>8 DEF hits

LEMMA NucleiMarks ==
  ASSUME BuildInv, marks \in MarkSets, NEW answer \in Answers[3], NEW r \in Records, IsInjective(marks[r].exploits)
  PROVE  LET new == IngestNuclei(marks, Stored, answer)
             hits == {i \in DOMAIN answer : r \in Stored /\ answer[i].id = r}
         IN  /\ new \in MarkSets /\ new[r].kev = marks[r].kev /\ new[r].epss = marks[r].epss
             /\ IsInjective(new[r].exploits)
             /\ \A y : y \in Range(new[r].exploits) <=> y \in Range(marks[r].exploits) \/ (y = "nuclei" /\ hits # {})
<1> DEFINE n == Len(answer)
           hits == {i \in DOMAIN answer : r \in Stored /\ answer[i].id = r}
<1>1. n \in Nat /\ DOMAIN answer = 1..n
  BY AnswersAssumption, LenProperties
<1>2. PICK h \in [0..n -> MarkSets] :
        /\ h[0] = marks /\ h[n] = IngestNuclei(marks, Stored, answer)
        /\ \A k \in 1..n : h[k] = NucleiStep(h[k - 1], answer[k])
  BY NucleiRuns
<1> DEFINE v == [k \in 0..n |-> h[k][r].exploits]
           w == [k \in 0..n |-> <<h[k][r].kev, h[k][r].epss>>]
           says == [k \in 1..n |-> answer[k]]
           S == {"nuclei", "metasploit"}
<1>3. ASSUME NEW k \in 1..n
      PROVE  /\ k \in 0..n /\ k - 1 \in 0..n
             /\ h[k][r].exploits = IF k \in hits /\ "nuclei" \notin Range(h[k - 1][r].exploits)
                                     THEN Append(h[k - 1][r].exploits, "nuclei") ELSE h[k - 1][r].exploits
             /\ h[k][r].kev = h[k - 1][r].kev /\ h[k][r].epss = h[k - 1][r].epss
  <2>1. k \in 0..n /\ k - 1 \in 0..n /\ h[k - 1] \in MarkSets /\ h[k] = NucleiStep(h[k - 1], answer[k])
    BY <1>1, <1>2
  <2>2. CASE k \in hits /\ "nuclei" \notin Range(h[k - 1][r].exploits)
    <3>1. h[k] = [h[k - 1] EXCEPT ![r].exploits = Append(@, "nuclei")]
      BY <1>1, <2>1, <2>2 DEF NucleiStep, AddExploit, FoundUpper
    <3>2. QED
      BY <2>1, <2>2, <3>1 DEF MarkSets, MarkRecords
  <2>3. CASE ~(k \in hits /\ "nuclei" \notin Range(h[k - 1][r].exploits))
    <3>1. h[k][r] = h[k - 1][r]
      BY <1>1, <2>1, <2>3 DEF NucleiStep, AddExploit, FoundUpper, MarkSets, MarkRecords
    <3>2. QED
      BY <2>1, <2>3, <3>1
  <2>4. QED
    BY <2>2, <2>3
<1>4. hits \in SUBSET (1..n)
  BY <1>1
<1> HIDE DEF hits
<1>5. IsAdded(v, n, hits, "nuclei") /\ IsLast(w, n, {}, says)
  BY <1>3 DEF IsAdded, IsLast
<1>6. /\ v[0] = marks[r].exploits /\ v[n] = h[n][r].exploits
      /\ w[0] = <<marks[r].kev, marks[r].epss>> /\ w[n] = <<h[n][r].kev, h[n][r].epss>>
      /\ h[n] \in MarkSets
  BY <1>1, <1>2
<1>7. v \in [0..n -> Seq(S)] /\ "nuclei" \in S
  BY DEF MarkSets, MarkRecords
<1> HIDE DEF v, w, says, S
<1>8. w[n] = w[0]
  BY <1>1, <1>5, LastWins
<1>9. /\ IsInjective(v[n])
      /\ \A y : y \in Range(v[n]) <=> y \in Range(v[0]) \/ (y = "nuclei" /\ hits # {})
  BY <1>1, <1>4, <1>5, <1>6, <1>7, AddedOnce
<1> HIDE DEF n
<1>10. QED
  BY <1>2, <1>6, <1>8, <1>9 DEF hits

LEMMA MetasploitMarks ==
  ASSUME BuildInv, marks \in MarkSets, NEW answer \in Answers[4], NEW r \in Records, IsInjective(marks[r].exploits)
  PROVE  LET new == IngestMetasploit(marks, Stored, answer)
             hits == {i \in DOMAIN answer : r \in Stored /\ answer[i].id = r /\ answer[i].upper}
         IN  /\ new \in MarkSets /\ new[r].kev = marks[r].kev /\ new[r].epss = marks[r].epss
             /\ IsInjective(new[r].exploits)
             /\ \A y : y \in Range(new[r].exploits) <=> y \in Range(marks[r].exploits) \/ (y = "metasploit" /\ hits # {})
<1> DEFINE n == Len(answer)
           hits == {i \in DOMAIN answer : r \in Stored /\ answer[i].id = r /\ answer[i].upper}
<1>1. n \in Nat /\ DOMAIN answer = 1..n
  BY AnswersAssumption, LenProperties
<1>2. PICK h \in [0..n -> MarkSets] :
        /\ h[0] = marks /\ h[n] = IngestMetasploit(marks, Stored, answer)
        /\ \A k \in 1..n : h[k] = MetasploitStep(h[k - 1], answer[k])
  BY MetasploitRuns
<1> DEFINE v == [k \in 0..n |-> h[k][r].exploits]
           w == [k \in 0..n |-> <<h[k][r].kev, h[k][r].epss>>]
           says == [k \in 1..n |-> answer[k]]
           S == {"nuclei", "metasploit"}
<1>3. ASSUME NEW k \in 1..n
      PROVE  /\ k \in 0..n /\ k - 1 \in 0..n
             /\ h[k][r].exploits = IF k \in hits /\ "metasploit" \notin Range(h[k - 1][r].exploits)
                                     THEN Append(h[k - 1][r].exploits, "metasploit") ELSE h[k - 1][r].exploits
             /\ h[k][r].kev = h[k - 1][r].kev /\ h[k][r].epss = h[k - 1][r].epss
  <2>1. k \in 0..n /\ k - 1 \in 0..n /\ h[k - 1] \in MarkSets /\ h[k] = MetasploitStep(h[k - 1], answer[k])
    BY <1>1, <1>2
  <2>2. CASE k \in hits /\ "metasploit" \notin Range(h[k - 1][r].exploits)
    <3>1. h[k] = [h[k - 1] EXCEPT ![r].exploits = Append(@, "metasploit")]
      BY <1>1, <2>1, <2>2 DEF MetasploitStep, AddExploit, FoundUpper
    <3>2. QED
      BY <2>1, <2>2, <3>1 DEF MarkSets, MarkRecords
  <2>3. CASE ~(k \in hits /\ "metasploit" \notin Range(h[k - 1][r].exploits))
    <3>1. h[k][r] = h[k - 1][r]
      BY <1>1, <2>1, <2>3 DEF MetasploitStep, AddExploit, FoundUpper, MarkSets, MarkRecords
    <3>2. QED
      BY <2>1, <2>3, <3>1
  <2>4. QED
    BY <2>2, <2>3
<1>4. hits \in SUBSET (1..n)
  BY <1>1
<1> HIDE DEF hits
<1>5. IsAdded(v, n, hits, "metasploit") /\ IsLast(w, n, {}, says)
  BY <1>3 DEF IsAdded, IsLast
<1>6. /\ v[0] = marks[r].exploits /\ v[n] = h[n][r].exploits
      /\ w[0] = <<marks[r].kev, marks[r].epss>> /\ w[n] = <<h[n][r].kev, h[n][r].epss>>
      /\ h[n] \in MarkSets
  BY <1>1, <1>2
<1>7. v \in [0..n -> Seq(S)] /\ "metasploit" \in S
  BY DEF MarkSets, MarkRecords
<1> HIDE DEF v, w, says, S
<1>8. w[n] = w[0]
  BY <1>1, <1>5, LastWins
<1>9. /\ IsInjective(v[n])
      /\ \A y : y \in Range(v[n]) <=> y \in Range(v[0]) \/ (y = "metasploit" /\ hits # {})
  BY <1>1, <1>4, <1>5, <1>6, <1>7, AddedOnce
<1> HIDE DEF n
<1>10. QED
  BY <1>2, <1>6, <1>8, <1>9 DEF hits

LEMMA CycleMarks ==
  ASSUME BuildInv, NEW answer \in Answers[5], NEW key \in Products
  PROVE  LET new == Lifecycles(Products, answer)
             hits == {i \in DOMAIN answer : [type |-> "cpe", key |-> key] \in answer[i].identifiers}
         IN  /\ new \in CycleSets
             /\ \/ hits = {} /\ new[key] = None
                \/ \E i \in hits : new[key] = answer[i].name /\ \A j \in hits : j <= i
<1> DEFINE n == Len(answer)
           hits == {i \in DOMAIN answer : [type |-> "cpe", key |-> key] \in answer[i].identifiers}
<1>1. n \in Nat /\ DOMAIN answer = 1..n
  BY AnswersAssumption, LenProperties
<1>2. PICK h \in [0..n -> CycleSets] :
        /\ h[0] = [k \in Products |-> None] /\ h[n] = Lifecycles(Products, answer)
        /\ \A k \in 1..n : h[k] = CycleStep(h[k - 1], answer[k])
  BY CycleRuns
<1> DEFINE v == [k \in 0..n |-> h[k][key]]
           says == [k \in 1..n |-> answer[k].name]
<1>3. hits \in SUBSET (1..n)
  BY <1>1
<1>4. IsLast(v, n, hits, says)
  <2> SUFFICES ASSUME NEW k \in 1..n PROVE h[k][key] = IF k \in hits THEN answer[k].name ELSE h[k - 1][key]
    BY <1>1 DEF IsLast
  <2>1. k - 1 \in 0..n /\ h[k - 1] \in CycleSets
    BY <1>1, <1>2
  <2>2. h[k] = CycleStep(h[k - 1], answer[k])
    BY <1>2
  <2>3. QED
    BY <1>1, <2>1, <2>2 DEF CycleStep
<1> HIDE DEF hits
<1>5. v[0] = None /\ v[n] = h[n][key] /\ h[n] \in CycleSets /\ \A i \in hits : says[i] = answer[i].name
  BY <1>1, <1>2, <1>3
<1> HIDE DEF v, says
<1>6. \/ hits = {} /\ v[n] = v[0]
      \/ \E i \in hits : v[n] = says[i] /\ \A j \in hits : j <= i
  BY <1>1, <1>3, <1>4, LastWins
<1> HIDE DEF n
<1>7. QED
  BY <1>2, <1>5, <1>6 DEF hits

--------------------------------------------------------------------------------
(* Enrichment: each source leaves its mark *)

LEMMA FeedEnrich ==
  ASSUME EnrichInv, source = 1, UNCHANGED later
  PROVE  EnrichInv'
<1>1. UNCHANGED <<source, marks, lifecycle, read>>
  BY DEF later
<1>2. QED
  BY <1>1 DEF EnrichInv

\* What was said is not forgotten.
LEMMA FitsKeep ==
  ASSUME Stored' = Stored, NEW r, NEW key
  PROVE  /\ read'[1] = read[1] /\ marks'[r].kev = marks[r].kev /\ KevFits(r) => KevFits(r)'
         /\ read'[2] = read[2] /\ marks'[r].epss = marks[r].epss /\ EpssFits(r) => EpssFits(r)'
         /\ read'[3] = read[3] => Said(3, r)' = Said(3, r)
         /\ read'[4] = read[4] => SaidUpper(4, r)' = SaidUpper(4, r)
         /\ read'[5] = read[5] /\ lifecycle'[key] = lifecycle[key] /\ CycleFits(key) => CycleFits(key)'
<1>1. read'[1] = read[1] => Said(1, r)' = Said(1, r)
  BY DEF Said
<1>2. read'[2] = read[2] => SaidUpper(2, r)' = SaidUpper(2, r)
  BY DEF Said, SaidUpper
<1>3. read'[5] = read[5] => Lists(key)' = Lists(key)
  BY DEF Lists
<1>4. QED
  BY <1>1, <1>2, <1>3 DEF KevFits, EpssFits, CycleFits, Said, SaidUpper

LEMMA SameEnrich ==
  ASSUME EnrichInv, UNCHANGED <<matches, source, marks, lifecycle, read>>
  PROVE  EnrichInv'
<1>1. Stored' = Stored
  BY DEF Stored
<1>2. \A r \in Records :
        /\ KevFits(r) => KevFits(r)'
        /\ EpssFits(r) => EpssFits(r)'
        /\ Said(3, r)' = Said(3, r)
        /\ SaidUpper(4, r)' = SaidUpper(4, r)
  BY <1>1, FitsKeep
<1>3. \A key \in Products : CycleFits(key) => CycleFits(key)'
  BY <1>1, FitsKeep
<1>4. QED
  BY <1>2, <1>3 DEF EnrichInv

\* What the folds make of the marks are marks again.
LEMMA IngestTypes ==
  ASSUME BuildInv, marks \in MarkSets
  PROVE  /\ \A answer \in Answers[1] : IngestKEV(marks, Stored, answer) \in MarkSets
         /\ \A answer \in Answers[2] : IngestEPSS(marks, Stored, answer) \in MarkSets
         /\ \A answer \in Answers[3] : IngestNuclei(marks, Stored, answer) \in MarkSets
         /\ \A answer \in Answers[4] : IngestMetasploit(marks, Stored, answer) \in MarkSets
         /\ \A answer \in Answers[5] : Lifecycles(Products, answer) \in CycleSets
<1>1. \A k \in 1..5 : \A answer \in Answers[k] : Len(answer) \in 0..Len(answer)
  <2> TAKE k \in 1..5
  <2> TAKE answer \in Answers[k]
  <2>1. Len(answer) \in Nat
    BY AnswersAssumption, LenProperties
  <2>2. QED
    BY <2>1
<1>2. \A answer \in Answers[1] : IngestKEV(marks, Stored, answer) \in MarkSets
  BY <1>1, KevRuns
<1>3. \A answer \in Answers[2] : IngestEPSS(marks, Stored, answer) \in MarkSets
  BY <1>1, EpssRuns
<1>4. \A answer \in Answers[3] : IngestNuclei(marks, Stored, answer) \in MarkSets
  BY <1>1, NucleiRuns
<1>5. \A answer \in Answers[4] : IngestMetasploit(marks, Stored, answer) \in MarkSets
  BY <1>1, MetasploitRuns
<1>6. \A answer \in Answers[5] : Lifecycles(Products, answer) \in CycleSets
  BY <1>1, CycleRuns
<1>7. QED
  BY <1>2, <1>3, <1>4, <1>5, <1>6

LEMMA KevReadKeeps ==
  ASSUME BuildInv, EnrichInv, NEW answer \in Answers[1], KevRead(answer)
  PROVE  BuildInv' /\ EnrichInv'
<1>1. /\ Answered(1, answer) /\ source = 1 /\ source' = 2 /\ UNCHANGED <<pc, lifecycle, links>>
      /\ marks' = IngestKEV(marks, Stored, answer) /\ pc = "open" /\ Stored' = Stored
  BY DEF KevRead, Marked, Answered, database, retire, Stored
<1>2. marks \in MarkSets /\ lifecycle \in CycleSets /\ marks' \in MarkSets
  BY <1>1, IngestTypes DEF EnrichInv
<1>3. BuildInv' /\ read'[1] = answer
  <2>1. DOMAIN marks' = Records
    BY <1>2 DEF MarkSets
  <2>2. DOMAIN lifecycle' = Products /\ DOMAIN links' \subseteq Technologies
    BY <1>1 DEF BuildInv, BuildTypeOK
  <2>3. pc' = "open"
    BY <1>1
  <2>4. QED
    BY <1>1, <2>1, <2>2, <2>3, AnsweredKeeps
<1>4. ASSUME NEW r \in Records
      PROVE  /\ KevFits(r)' /\ marks'[r].epss = 0 /\ IsInjective(marks'[r].exploits)
             /\ "nuclei" \notin Range(marks'[r].exploits) /\ "metasploit" \notin Range(marks'[r].exploits)
  <2> DEFINE hits == {i \in DOMAIN answer : r \in Stored /\ answer[i].id = r}
  <2>1. /\ marks'[r].epss = marks[r].epss /\ marks'[r].exploits = marks[r].exploits
        /\ \/ hits = {} /\ marks'[r].kev = marks[r].kev
           \/ \E i \in hits : marks'[r].kev = answer[i].name /\ \A j \in hits : j <= i
    BY <1>1, <1>2, KevMarks
  <2>2. Said(1, r)' = hits
    BY <1>1, <1>3 DEF Said
  <2>3. \A i \in hits : answer[i].name # None /\ i \in Nat
    BY AnswersAssumption, LenProperties
  <2>4. marks[r].kev = None
    BY <1>1 DEF EnrichInv
  <2> HIDE DEF hits
  <2>5. KevFits(r)'
    BY <1>3, <2>1, <2>2, <2>3, <2>4 DEF KevFits
  <2>6. QED
    BY <1>1, <2>1, <2>5 DEF EnrichInv
<1>5. \A key \in Products : lifecycle'[key] = None
  BY <1>1 DEF EnrichInv
<1>6. EnrichInv'
  BY <1>1, <1>2, <1>4, <1>5 DEF EnrichInv
<1>7. QED
  BY <1>3, <1>6

LEMMA EpssReadKeeps ==
  ASSUME BuildInv, EnrichInv, NEW answer \in Answers[2], EpssRead(answer)
  PROVE  BuildInv' /\ EnrichInv'
<1>1. /\ Answered(2, answer) /\ source = 2 /\ source' = 3 /\ UNCHANGED <<pc, lifecycle, links>>
      /\ marks' = IngestEPSS(marks, Stored, answer) /\ pc = "open" /\ Stored' = Stored
  BY DEF EpssRead, Marked, Answered, database, retire, Stored
<1>2. marks \in MarkSets /\ lifecycle \in CycleSets /\ marks' \in MarkSets
  BY <1>1, IngestTypes DEF EnrichInv
<1>3. BuildInv' /\ read'[1] = read[1] /\ read'[2] = answer
  <2>1. DOMAIN marks' = Records
    BY <1>2 DEF MarkSets
  <2>2. DOMAIN lifecycle' = Products /\ DOMAIN links' \subseteq Technologies
    BY <1>1 DEF BuildInv, BuildTypeOK
  <2>3. pc' = "open"
    BY <1>1
  <2>4. QED
    BY <1>1, <2>1, <2>2, <2>3, AnsweredKeeps
<1>4. ASSUME NEW r \in Records
      PROVE  /\ KevFits(r)' /\ EpssFits(r)' /\ IsInjective(marks'[r].exploits)
             /\ "nuclei" \notin Range(marks'[r].exploits) /\ "metasploit" \notin Range(marks'[r].exploits)
  <2> DEFINE hits == {i \in DOMAIN answer : r \in Stored /\ answer[i].id = r /\ answer[i].upper}
  <2>1. /\ marks'[r].kev = marks[r].kev /\ marks'[r].exploits = marks[r].exploits
        /\ \/ hits = {} /\ marks'[r].epss = marks[r].epss
           \/ \E i \in hits : marks'[r].epss = answer[i].score /\ \A j \in hits : j <= i
    BY <1>1, <1>2, EpssMarks
  <2>2. SaidUpper(2, r)' = hits
    BY <1>1, <1>3 DEF Said, SaidUpper
  <2>3. \A i \in hits : i \in Nat
    BY AnswersAssumption, LenProperties
  <2>4. marks[r].epss = 0 /\ KevFits(r)
    BY <1>1 DEF EnrichInv
  <2> HIDE DEF hits
  <2>5. EpssFits(r)'
    BY <1>3, <2>1, <2>2, <2>3, <2>4 DEF EpssFits
  <2>6. KevFits(r)'
    BY <1>1, <1>3, <2>1, <2>4, FitsKeep
  <2>7. QED
    BY <1>1, <2>1, <2>5, <2>6 DEF EnrichInv
<1>5. \A key \in Products : lifecycle'[key] = None
  BY <1>1 DEF EnrichInv
<1>6. EnrichInv'
  BY <1>1, <1>2, <1>4, <1>5 DEF EnrichInv
<1>7. QED
  BY <1>3, <1>6

LEMMA NucleiReadKeeps ==
  ASSUME BuildInv, EnrichInv, NEW answer \in Answers[3], NucleiRead(answer)
  PROVE  BuildInv' /\ EnrichInv'
<1>1. /\ Answered(3, answer) /\ source = 3 /\ source' = 4 /\ UNCHANGED <<pc, lifecycle, links>>
      /\ marks' = IngestNuclei(marks, Stored, answer) /\ pc = "open" /\ Stored' = Stored
  BY DEF NucleiRead, Marked, Answered, database, retire, Stored
<1>2. marks \in MarkSets /\ lifecycle \in CycleSets /\ marks' \in MarkSets
  BY <1>1, IngestTypes DEF EnrichInv
<1>3. BuildInv' /\ read'[1] = read[1] /\ read'[2] = read[2] /\ read'[3] = answer
  <2>1. DOMAIN marks' = Records
    BY <1>2 DEF MarkSets
  <2>2. DOMAIN lifecycle' = Products /\ DOMAIN links' \subseteq Technologies
    BY <1>1 DEF BuildInv, BuildTypeOK
  <2>3. pc' = "open"
    BY <1>1
  <2>4. QED
    BY <1>1, <2>1, <2>2, <2>3, AnsweredKeeps
<1>4. ASSUME NEW r \in Records
      PROVE  /\ KevFits(r)' /\ EpssFits(r)' /\ IsInjective(marks'[r].exploits)
             /\ ("nuclei" \in Range(marks'[r].exploits)) <=> Said(3, r)' # {}
             /\ "metasploit" \notin Range(marks'[r].exploits)
  <2> DEFINE hits == {i \in DOMAIN answer : r \in Stored /\ answer[i].id = r}
  <2>1. IsInjective(marks[r].exploits) /\ "nuclei" \notin Range(marks[r].exploits) /\ "metasploit" \notin Range(marks[r].exploits)
        /\ KevFits(r) /\ EpssFits(r)
    BY <1>1 DEF EnrichInv
  <2>2. /\ marks'[r].kev = marks[r].kev /\ marks'[r].epss = marks[r].epss /\ IsInjective(marks'[r].exploits)
        /\ \A y : y \in Range(marks'[r].exploits) <=> y \in Range(marks[r].exploits) \/ (y = "nuclei" /\ hits # {})
    BY <1>1, <1>2, <2>1, NucleiMarks
  <2>3. Said(3, r)' = hits
    BY <1>1, <1>3 DEF Said
  <2> HIDE DEF hits
  <2>4. KevFits(r)' /\ EpssFits(r)'
    BY <1>1, <1>3, <2>1, <2>2, FitsKeep
  <2>5. QED
    BY <2>1, <2>2, <2>3, <2>4
<1>5. \A key \in Products : lifecycle'[key] = None
  BY <1>1 DEF EnrichInv
<1>6. EnrichInv'
  BY <1>1, <1>2, <1>4, <1>5 DEF EnrichInv
<1>7. QED
  BY <1>3, <1>6

LEMMA MetasploitReadKeeps ==
  ASSUME BuildInv, EnrichInv, NEW answer \in Answers[4], MetasploitRead(answer)
  PROVE  BuildInv' /\ EnrichInv'
<1>1. /\ Answered(4, answer) /\ source = 4 /\ source' = 5 /\ UNCHANGED <<pc, lifecycle, links>>
      /\ marks' = IngestMetasploit(marks, Stored, answer) /\ pc = "open" /\ Stored' = Stored
  BY DEF MetasploitRead, Marked, Answered, database, retire, Stored
<1>2. marks \in MarkSets /\ lifecycle \in CycleSets /\ marks' \in MarkSets
  BY <1>1, IngestTypes DEF EnrichInv
<1>3. BuildInv' /\ read'[1] = read[1] /\ read'[2] = read[2] /\ read'[3] = read[3] /\ read'[4] = answer
  <2>1. DOMAIN marks' = Records
    BY <1>2 DEF MarkSets
  <2>2. DOMAIN lifecycle' = Products /\ DOMAIN links' \subseteq Technologies
    BY <1>1 DEF BuildInv, BuildTypeOK
  <2>3. pc' = "open"
    BY <1>1
  <2>4. QED
    BY <1>1, <2>1, <2>2, <2>3, AnsweredKeeps
<1>4. ASSUME NEW r \in Records
      PROVE  /\ KevFits(r)' /\ EpssFits(r)' /\ IsInjective(marks'[r].exploits)
             /\ ("nuclei" \in Range(marks'[r].exploits)) <=> Said(3, r)' # {}
             /\ ("metasploit" \in Range(marks'[r].exploits)) <=> SaidUpper(4, r)' # {}
  <2> DEFINE hits == {i \in DOMAIN answer : r \in Stored /\ answer[i].id = r /\ answer[i].upper}
  <2>1. IsInjective(marks[r].exploits) /\ (("nuclei" \in Range(marks[r].exploits)) <=> Said(3, r) # {})
        /\ "metasploit" \notin Range(marks[r].exploits) /\ KevFits(r) /\ EpssFits(r)
    BY <1>1 DEF EnrichInv
  <2>2. /\ marks'[r].kev = marks[r].kev /\ marks'[r].epss = marks[r].epss /\ IsInjective(marks'[r].exploits)
        /\ \A y : y \in Range(marks'[r].exploits) <=> y \in Range(marks[r].exploits) \/ (y = "metasploit" /\ hits # {})
    BY <1>1, <1>2, <2>1, MetasploitMarks
  <2>3. SaidUpper(4, r)' = hits
    BY <1>1, <1>3 DEF Said, SaidUpper
  <2> HIDE DEF hits
  <2>4. KevFits(r)' /\ EpssFits(r)' /\ Said(3, r)' = Said(3, r)
    BY <1>1, <1>3, <2>1, <2>2, FitsKeep
  <2>5. QED
    BY <2>1, <2>2, <2>3, <2>4
<1>5. \A key \in Products : lifecycle'[key] = None
  BY <1>1 DEF EnrichInv
<1>6. EnrichInv'
  BY <1>1, <1>2, <1>4, <1>5 DEF EnrichInv
<1>7. QED
  BY <1>3, <1>6

LEMMA EndOfLifeReadKeeps ==
  ASSUME BuildInv, EnrichInv, NEW answer \in Answers[5], EndOfLifeRead(answer)
  PROVE  BuildInv' /\ EnrichInv'
<1>1. /\ Answered(5, answer) /\ source = 5 /\ source' = 6 /\ UNCHANGED <<pc, marks, links>>
      /\ lifecycle' = Lifecycles(Products, answer) /\ pc = "open" /\ Stored' = Stored
  BY DEF EndOfLifeRead, Answered, database, retire, Stored
<1>2. marks \in MarkSets /\ lifecycle' \in CycleSets
  BY <1>1, IngestTypes DEF EnrichInv
<1>3. /\ BuildInv' /\ read'[5] = answer
      /\ read'[1] = read[1] /\ read'[2] = read[2] /\ read'[3] = read[3] /\ read'[4] = read[4]
  <2>1. DOMAIN marks' = Records /\ DOMAIN links' \subseteq Technologies
    BY <1>1 DEF BuildInv, BuildTypeOK
  <2>2. DOMAIN lifecycle' = Products
    BY <1>2 DEF CycleSets
  <2>3. pc' = "open"
    BY <1>1
  <2>4. QED
    BY <1>1, <2>1, <2>2, <2>3, AnsweredKeeps
<1>4. ASSUME NEW r \in Records
      PROVE  /\ KevFits(r)' /\ EpssFits(r)' /\ IsInjective(marks'[r].exploits)
             /\ ("nuclei" \in Range(marks'[r].exploits)) <=> Said(3, r)' # {}
             /\ ("metasploit" \in Range(marks'[r].exploits)) <=> SaidUpper(4, r)' # {}
  <2>1. IsInjective(marks[r].exploits) /\ (("nuclei" \in Range(marks[r].exploits)) <=> Said(3, r) # {})
        /\ (("metasploit" \in Range(marks[r].exploits)) <=> SaidUpper(4, r) # {}) /\ KevFits(r) /\ EpssFits(r)
    BY <1>1 DEF EnrichInv
  <2>2. KevFits(r)' /\ EpssFits(r)' /\ Said(3, r)' = Said(3, r) /\ SaidUpper(4, r)' = SaidUpper(4, r)
    BY <1>1, <1>3, <2>1, FitsKeep
  <2>3. QED
    BY <1>1, <2>1, <2>2
<1>5. ASSUME NEW key \in Products PROVE CycleFits(key)'
  <2> DEFINE hits == {i \in DOMAIN answer : [type |-> "cpe", key |-> key] \in answer[i].identifiers}
  <2>1. \/ hits = {} /\ lifecycle'[key] = None
        \/ \E i \in hits : lifecycle'[key] = answer[i].name /\ \A j \in hits : j <= i
    BY <1>1, CycleMarks
  <2>2. Lists(key)' = hits
    BY <1>3 DEF Lists
  <2>3. \A i \in hits : answer[i].name # None /\ i \in Nat
    BY AnswersAssumption, LenProperties
  <2> HIDE DEF hits
  <2>4. QED
    BY <1>3, <2>1, <2>2, <2>3 DEF CycleFits
<1>6. EnrichInv'
  BY <1>1, <1>2, <1>4, <1>5 DEF EnrichInv
<1>7. QED
  BY <1>3, <1>6

LEMMA RetireReadKeeps ==
  ASSUME BuildInv, EnrichInv, NEW answer \in Answers[6], RetireRead(answer)
  PROVE  BuildInv' /\ EnrichInv' /\ read'[6] = answer
<1>1. /\ Answered(6, answer) /\ source = 6 /\ source' = 7 /\ UNCHANGED <<marks, lifecycle>>
      /\ pc = "open" /\ pc' = "blob" /\ Stored' = Stored /\ DOMAIN links' \subseteq Technologies
  BY DEF RetireRead, Answered, database, Stored
<1>2. marks \in MarkSets /\ lifecycle \in CycleSets
  BY DEF EnrichInv
<1>3. /\ BuildInv' /\ read'[6] = answer
      /\ read'[1] = read[1] /\ read'[2] = read[2] /\ read'[3] = read[3] /\ read'[4] = read[4] /\ read'[5] = read[5]
  <2>1. DOMAIN marks' = Records /\ DOMAIN lifecycle' = Products
    BY <1>1 DEF BuildInv, BuildTypeOK
  <2>2. QED
    BY <1>1, <2>1, AnsweredKeeps
<1>4. ASSUME NEW r \in Records
      PROVE  /\ KevFits(r)' /\ EpssFits(r)' /\ IsInjective(marks'[r].exploits)
             /\ ("nuclei" \in Range(marks'[r].exploits)) <=> Said(3, r)' # {}
             /\ ("metasploit" \in Range(marks'[r].exploits)) <=> SaidUpper(4, r)' # {}
  <2>1. IsInjective(marks[r].exploits) /\ (("nuclei" \in Range(marks[r].exploits)) <=> Said(3, r) # {})
        /\ (("metasploit" \in Range(marks[r].exploits)) <=> SaidUpper(4, r) # {}) /\ KevFits(r) /\ EpssFits(r)
    BY <1>1 DEF EnrichInv
  <2>2. KevFits(r)' /\ EpssFits(r)' /\ Said(3, r)' = Said(3, r) /\ SaidUpper(4, r)' = SaidUpper(4, r)
    BY <1>1, <1>3, <2>1, FitsKeep
  <2>3. QED
    BY <1>1, <2>1, <2>2
<1>5. \A key \in Products : CycleFits(key)'
  <2>1. \A key \in Products : CycleFits(key) /\ lifecycle'[key] = lifecycle[key]
    BY <1>1 DEF EnrichInv
  <2>2. QED
    BY <1>1, <1>3, <2>1, FitsKeep
<1>6. EnrichInv'
  BY <1>1, <1>2, <1>4, <1>5 DEF EnrichInv
<1>7. QED
  BY <1>3, <1>6

--------------------------------------------------------------------------------
(* Links *)

\* An order of a repository has all of it.
LEMMA OrderFacts ==
  ASSUME NEW answer \in Answers[6], NEW order \in SetToSeqs(answer)
  PROVE  /\ DOMAIN order = 1..Cardinality(answer) /\ Cardinality(answer) \in Nat
         /\ \A i \in DOMAIN order : order[i] \in answer
         /\ \A library \in answer : \E i \in DOMAIN order : order[i] = library
<1> DEFINE n == Cardinality(answer)
<1>1. IsFiniteSet(answer) /\ n \in Nat
  BY AnswersAssumption, FS_CardinalityType
<1>2. order \in [1..n -> answer] /\ \A i, j \in 1..n : i # j => order[i] # order[j]
  BY DEF SetToSeqs
<1>3. order \in Injection(1..n, answer)
  BY <1>2 DEF Injection, IsInjective
<1>4. Cardinality(1..n) = n
  <2>1. \A m \in Nat : Cardinality(1..m) = m
    <3> TAKE m \in Nat
    <3>1. Cardinality(1..m) = IF 1 > m THEN 0 ELSE m - 1 + 1
      BY FS_Interval
    <3>2. QED
      BY <3>1
  <2>2. QED
    BY <1>1, <2>1
<1> HIDE DEF n
<1>5. order \in Surjection(1..n, answer)
  BY <1>1, <1>3, <1>4, FS_Injection DEF n
<1>6. \A library \in answer : \E i \in 1..n : order[i] = library
  BY <1>5 DEF Surjection
<1>7. QED
  BY <1>1, <1>2, <1>6 DEF n

Claims(library, kind, candidate) == library.advised /\ candidate \in Slugs(library)[kind]

\* An owner is a library of the answer that claims the candidate; without one, none does.
LEMMA OwnerFacts ==
  ASSUME NEW answer \in Answers[6], NEW order \in SetToSeqs(answer), NEW kind, NEW candidate
  PROVE  LET owner == Owner(order, kind, candidate)
         IN  \/ owner = None /\ \A library \in answer : ~Claims(library, kind, candidate)
             \/ /\ owner # None /\ owner \in Libraries(order)
                /\ \E library \in answer : Claims(library, kind, candidate) /\ owner = library.name
<1> DEFINE claimants == {i \in DOMAIN order : order[i].advised /\ candidate \in Slugs(order[i])[kind]}
<1>1. /\ DOMAIN order = 1..Cardinality(answer) /\ Cardinality(answer) \in Nat
      /\ \A i \in DOMAIN order : order[i] \in answer
      /\ \A library \in answer : \E i \in DOMAIN order : order[i] = library
  BY OrderFacts
<1>2. Owner(order, kind, candidate) = IF claimants = {} THEN None ELSE order[Max(claimants)].name
  BY DEF Owner
<1>3. CASE claimants = {}
  BY <1>1, <1>2, <1>3 DEF Claims
<1>4. CASE claimants # {}
  <2>1. claimants \in SUBSET (1..Cardinality(answer))
    BY <1>1
  <2> HIDE DEF claimants
  <2>2. Max(claimants) \in claimants
    BY <1>1, <1>4, <2>1, MaxOf
  <2>3. PICK i \in DOMAIN order : i = Max(claimants) /\ order[i].advised /\ candidate \in Slugs(order[i])[kind]
    BY <2>2 DEF claimants
  <2>4. order[i] \in answer /\ order[i].name # None /\ order[i].name \in Libraries(order)
    BY <1>1, <2>3, AnswersAssumption DEF Libraries
  <2>5. Owner(order, kind, candidate) = order[i].name /\ Claims(order[i], kind, candidate)
    BY <1>2, <1>4, <2>3 DEF Claims
  <2>6. QED
    BY <2>4, <2>5
<1>5. QED
  BY <1>3, <1>4

LEMMA FirstOfFour ==
  ASSUME NEW a, NEW b, NEW c, NEW d
  PROVE  FirstLibrary(<<a, b, c, d>>) =
           IF a # None THEN a ELSE IF b # None THEN b ELSE IF c # None THEN c ELSE d
<1> DEFINE names == <<a, b, c, d>>
           found == {i \in DOMAIN names : names[i] # None}
<1>1. /\ DOMAIN names = {1, 2, 3, 4}
      /\ names[1] = a /\ names[2] = b /\ names[3] = c /\ names[4] = d
  OBVIOUS
<1>2. FirstLibrary(names) = IF found = {} THEN None ELSE names[Min(found)]
  BY DEF FirstLibrary
<1> HIDE DEF names
<1>3. CASE found = {}
  <2>1. a = None /\ b = None /\ c = None /\ d = None
    BY <1>1, <1>3
  <2>2. QED
    BY <1>2, <1>3, <2>1 DEF names
<1>4. CASE found # {}
  <2>1. found \in SUBSET Nat
    BY <1>1
  <2> HIDE DEF found
  <2>2. Min(found) \in found /\ \A k \in found : Min(found) <= k
    BY <1>4, <2>1, MinOf
  <2>3. /\ Min(found) \in {1, 2, 3, 4} /\ names[Min(found)] # None
        /\ \A k \in {1, 2, 3, 4} : names[k] # None => Min(found) <= k
    BY <1>1, <2>2 DEF found
  <2>4. names[Min(found)] = IF a # None THEN a ELSE IF b # None THEN b ELSE IF c # None THEN c ELSE d
    BY <1>1, <2>3
  <2>5. QED
    BY <1>2, <1>4, <2>4 DEF names
<1>5. QED
  BY <1>3, <1>4

\* The technology is left alone, or linked to a library that goes by its name.
Linked(t) ==
  LET advised == {library \in read[6] : library.advised}
      called == {library \in advised : library.slug \in {t.slug, t.trimmed}}
      alias == {library \in advised : library.aliases \cap {t.slug, t.trimmed} # {}}
      named == IF called # {} THEN called ELSE alias
  IN IF t \in DOMAIN links
       THEN \E library \in named : library.name = links[t] /\ links[t] \in libraries
       ELSE named = {}
LinkInv == source = 7 => \A t \in {u \in Technologies : u.override = <<>>} : Linked(t)

LEMMA RetireReadLinks ==
  ASSUME NEW answer \in Answers[6], RetireRead(answer), read'[6] = answer
  PROVE  LinkInv'
<1>1. PICK order \in SetToSeqs(answer) :
        LET linked == {t \in Technologies : LinkOf(t, order) # None}
        IN /\ libraries' = Libraries(order)
           /\ links' = [t \in linked |-> LinkOf(t, order)]
  BY DEF RetireRead
<1>2. SUFFICES ASSUME NEW t \in Technologies, t.override = <<>> PROVE Linked(t)'
  BY DEF LinkInv
<1> DEFINE advised == {library \in answer : library.advised}
           called == {library \in advised : library.slug \in {t.slug, t.trimmed}}
           alias == {library \in advised : library.aliases \cap {t.slug, t.trimmed} # {}}
           named == IF called # {} THEN called ELSE alias
           own1 == Owner(order, "own", t.slug)
           own2 == Owner(order, "own", t.trimmed)
           alias1 == Owner(order, "alias", t.slug)
           alias2 == Owner(order, "alias", t.trimmed)
           link == LinkOf(t, order)
<1>3. link = IF own1 # None THEN own1 ELSE IF own2 # None THEN own2 ELSE IF alias1 # None THEN alias1 ELSE alias2
  BY <1>2, FirstOfFour DEF LinkOf, MatchLibrary
<1>4. \A library, candidate :
        /\ Claims(library, "own", candidate) <=> library.advised /\ candidate = library.slug
        /\ Claims(library, "alias", candidate) <=> library.advised /\ candidate \in library.aliases
  <2> TAKE library, candidate
  <2>1. Slugs(library)["own"] = {library.slug} /\ Slugs(library)["alias"] = library.aliases
    BY DEF Slugs
  <2>2. QED
    BY <2>1 DEF Claims
<1>5. \A kind, candidate :
        LET owner == Owner(order, kind, candidate)
        IN  \/ owner = None /\ \A library \in answer : ~Claims(library, kind, candidate)
            \/ /\ owner # None /\ owner \in Libraries(order)
               /\ \E library \in answer : Claims(library, kind, candidate) /\ owner = library.name
  BY OwnerFacts
<1>6. /\ own1 = None <=> \A library \in advised : library.slug # t.slug
      /\ own2 = None <=> \A library \in advised : library.slug # t.trimmed
      /\ alias1 = None <=> \A library \in advised : t.slug \notin library.aliases
      /\ alias2 = None <=> \A library \in advised : t.trimmed \notin library.aliases
  BY <1>4, <1>5
<1>7. /\ own1 # None => own1 \in Libraries(order) /\ \E library \in called : library.name = own1
      /\ own2 # None => own2 \in Libraries(order) /\ \E library \in called : library.name = own2
      /\ alias1 # None => alias1 \in Libraries(order) /\ \E library \in alias : library.name = alias1
      /\ alias2 # None => alias2 \in Libraries(order) /\ \E library \in alias : library.name = alias2
  <2>1. \A library \in answer, candidate \in {t.slug, t.trimmed} :
          /\ Claims(library, "own", candidate) => library \in called
          /\ Claims(library, "alias", candidate) => library \in alias
    BY <1>4
  <2> HIDE DEF called, alias
  <2>2. QED
    BY <1>5, <2>1
<1>8. called = {} <=> own1 = None /\ own2 = None
  BY <1>6
<1>9. alias = {} <=> alias1 = None /\ alias2 = None
  BY <1>6
<1> HIDE DEF own1, own2, alias1, alias2, called, alias, link
<1>10. CASE link # None
  <2>1. link \in Libraries(order) /\ \E library \in named : library.name = link
    BY <1>3, <1>7, <1>8, <1>10
  <2>2. t \in DOMAIN links' /\ links'[t] = link /\ libraries' = Libraries(order)
    BY <1>1, <1>2, <1>10 DEF link
  <2>3. QED
    BY <2>1, <2>2 DEF Linked, called, alias
<1>11. CASE link = None
  <2>1. named = {}
    BY <1>3, <1>8, <1>9, <1>11
  <2>2. t \notin DOMAIN links'
    BY <1>1, <1>11 DEF link
  <2>3. QED
    BY <2>1, <2>2 DEF Linked, called, alias
<1>12. QED
  BY <1>10, <1>11

--------------------------------------------------------------------------------
(* DatabaseBuild: the theorems *)

WholeBuildInv == BuildInv /\ EnrichInv /\ LinkInv

LEMMA BuildInitHolds == BuildInit => WholeBuildInv
<1> SUFFICES ASSUME BuildInit PROVE WholeBuildInv
  OBVIOUS
<1>1. LastYear \in Nat \ {0} /\ StallLimit \in Nat \ {0} /\ FeedAttempts \in Nat \ {0} /\ OpenAttempts \in Nat \ {0}
  BY FeedsAssumption, LimitsAssumption
<1>2. \A y \in Years : 1 \in DOMAIN Editions[y]
  <2> TAKE y \in Years
  <2>1. Editions[y] \in Seq(Seq(Records) \ {<<>>}) /\ Editions[y] # <<>>
    BY FeedsAssumption DEF Years
  <2>2. Len(Editions[y]) \in Nat /\ Len(Editions[y]) # 0 /\ DOMAIN Editions[y] = 1..Len(Editions[y])
    BY <2>1, LenProperties, EmptySeq
  <2>3. QED
    BY <2>2
<1>3. BuildTypeOK
  <2>1. DOMAIN links = {} /\ Len(read) = 0 /\ Len(file) = 0
    BY DEF BuildInit
  <2>2. 1 \in Years /\ 1 \in 1..FeedAttempts /\ 0 \in 0..StallLimit /\ 0 \in 0..OpenAttempts
    BY <1>1 DEF Years
  <2>3. edition \in [Years -> Nat] /\ \A y \in Years : edition[y] \in DOMAIN Editions[y]
    BY <1>2 DEF BuildInit
  <2>4. file \in Seq([edition : Nat, block : Nat]) /\ matches \in Seq(Records)
    BY DEF BuildInit
  <2>5. DOMAIN marks = Records /\ DOMAIN lifecycle = Products
    BY DEF BuildInit
  <2>6. /\ pc = "request" /\ year = 1 /\ attempt = 1 /\ have = 0 /\ best = 0 /\ stalls = 0 /\ kept = 0
        /\ source = 1 /\ tries = 0 /\ replaced = FALSE
    BY DEF BuildInit
  <2>7. year \in Years /\ attempt \in 1..FeedAttempts /\ stalls \in 0..StallLimit /\ tries \in 0..OpenAttempts
    BY <2>2, <2>6
  <2>8. best \in Nat /\ kept \in Nat /\ source \in 1..7 /\ Len(read) = source - 1 /\ have = Len(file)
    BY <2>1, <2>6
  <2>9. DOMAIN links \subseteq Technologies
    BY <2>1
  <2>10. QED
    BY <2>3, <2>4, <2>5, <2>6, <2>7, <2>8, <2>9 DEF BuildTypeOK
<1>4. ProgressInv /\ FileInv
  BY <1>1 DEF BuildInit, ProgressInv, FileInv
<1>5. WholeInv
  <2>1. Done = {}
    BY <1>1 DEF BuildInit, Done, Years
  <2>2. Stored = {} /\ IsInjective(matches) /\ kept = Len(matches)
    BY DEF BuildInit, Stored, Range, IsInjective
  <2>3. QED
    BY <2>1, <2>2 DEF BuildInit, WholeInv
<1>6. EnrichInv
  <2>1. Unmarked \in MarkRecords /\ Unmarked.kev = None /\ Unmarked.epss = 0 /\ Unmarked.exploits = <<>>
    BY DEF Unmarked, MarkRecords
  <2>2. IsInjective(<<>>) /\ \A y : y \notin Range(<<>>)
    BY DEF IsInjective, Range
  <2>3. marks \in MarkSets /\ lifecycle \in CycleSets
    BY <2>1 DEF BuildInit, MarkSets, CycleSets
  <2>4. QED
    BY <2>1, <2>2, <2>3 DEF BuildInit, EnrichInv
<1>7. LinkInv
  BY DEF BuildInit, LinkInv
<1>8. QED
  BY <1>3, <1>4, <1>5, <1>6, <1>7 DEF BuildInv, WholeBuildInv

LEMMA LinkKeeps ==
  ASSUME LinkInv, UNCHANGED <<source, read, retire>>
  PROVE  LinkInv'
BY DEF LinkInv, Linked, retire

\* Until the last source was read, nothing is linked.
LEMMA EarlyLink == source' # 7 => LinkInv'
BY DEF LinkInv

LEMMA WorkKeeps == WholeBuildInv /\ Work => WholeBuildInv'
<1> SUFFICES ASSUME BuildInv, EnrichInv, LinkInv, Work PROVE WholeBuildInv'
  BY DEF WholeBuildInv
<1>1. ASSUME BuildInv', source = 1, UNCHANGED later PROVE WholeBuildInv'
  BY <1>1, FeedEnrich, EarlyLink DEF WholeBuildInv, later
<1>2. ASSUME BuildInv', UNCHANGED <<matches, source, marks, lifecycle, read, retire>> PROVE WholeBuildInv'
  BY <1>2, SameEnrich, LinkKeeps DEF WholeBuildInv
<1>3. pc \in {"request", "ingest", "failed"} => source = 1
  BY DEF BuildInv, ProgressInv
<1>4. CASE Request
  <2>1. pc = "request" /\ UNCHANGED later
    BY <1>4 DEF Request, NoAnswer, WholeFeed, RestOfFeed, Requested
  <2>2. BuildInv'
    BY <1>4, NoAnswerKeeps, WholeFeedKeeps, RestOfFeedKeeps DEF Request
  <2>3. QED
    BY <1>1, <1>3, <2>1, <2>2
<1>5. CASE IngestFeed
  BY <1>1, <1>3, <1>5, IngestFeedKeeps DEF IngestFeed, FeedDone
<1>6. ASSUME NEW n \in Leading, IngestFails(n) PROVE WholeBuildInv'
  BY <1>1, <1>3, <1>6, IngestFailsKeeps DEF IngestFails
<1>7. ASSUME NEW n \in Leading, IngestStopsShort(n) PROVE WholeBuildInv'
  BY <1>1, <1>3, <1>7, IngestStopsShortKeeps DEF IngestStopsShort, FeedDone
<1>8. CASE Retry
  BY <1>1, <1>3, <1>8, RetryKeeps DEF Retry
<1>9. CASE SourceRead
  <2>1. ASSUME NEW answer \in Answers[1], KevRead(answer) PROVE WholeBuildInv'
    BY <2>1, KevReadKeeps, EarlyLink DEF WholeBuildInv, KevRead, Marked, Answered
  <2>2. ASSUME NEW answer \in Answers[2], EpssRead(answer) PROVE WholeBuildInv'
    BY <2>2, EpssReadKeeps, EarlyLink DEF WholeBuildInv, EpssRead, Marked, Answered
  <2>3. ASSUME NEW answer \in Answers[3], NucleiRead(answer) PROVE WholeBuildInv'
    BY <2>3, NucleiReadKeeps, EarlyLink DEF WholeBuildInv, NucleiRead, Marked, Answered
  <2>4. ASSUME NEW answer \in Answers[4], MetasploitRead(answer) PROVE WholeBuildInv'
    BY <2>4, MetasploitReadKeeps, EarlyLink DEF WholeBuildInv, MetasploitRead, Marked, Answered
  <2>5. ASSUME NEW answer \in Answers[5], EndOfLifeRead(answer) PROVE WholeBuildInv'
    BY <2>5, EndOfLifeReadKeeps, EarlyLink DEF WholeBuildInv, EndOfLifeRead, Answered
  <2>6. ASSUME NEW answer \in Answers[6], RetireRead(answer) PROVE WholeBuildInv'
    BY <2>6, RetireReadKeeps, RetireReadLinks DEF WholeBuildInv
  <2>7. QED
    BY <1>9, <2>1, <2>2, <2>3, <2>4, <2>5, <2>6 DEF SourceRead
<1>10. CASE KevEmpty
  BY <1>2, <1>10, KevEmptyKeeps DEF KevEmpty, database, later
<1>11. CASE OpenFails
  BY <1>2, <1>11, OpenFailsKeeps DEF OpenFails, database
<1>12. CASE WriteBlob \/ WriteManifest
  BY <1>2, <1>12, WriteKeeps DEF WriteBlob, WriteManifest, database, later
<1>13. QED
  BY <1>4, <1>5, <1>6, <1>7, <1>8, <1>9, <1>10, <1>11, <1>12 DEF Work

LEMMA BuildNextKeeps == WholeBuildInv /\ [BuildNext]_buildVars => WholeBuildInv'
<1> SUFFICES ASSUME BuildInv, EnrichInv, LinkInv, [BuildNext]_buildVars PROVE WholeBuildInv'
  BY DEF WholeBuildInv
<1>1. ASSUME BuildInv', UNCHANGED <<matches, source, marks, lifecycle, read, retire>> PROVE WholeBuildInv'
  BY <1>1, SameEnrich, LinkKeeps DEF WholeBuildInv
<1>2. CASE Work
  BY <1>2, WorkKeeps DEF WholeBuildInv
<1>3. CASE Aborted
  BY <1>1, <1>3, AbortedKeeps DEF Aborted, database, later
<1>4. ASSUME NEW y \in Years, Replace(y) PROVE WholeBuildInv'
  BY <1>1, <1>4, ReplaceKeeps DEF Replace, database, later
<1>5. CASE UNCHANGED buildVars
  BY <1>1, <1>5, BuildStutters DEF buildVars, database, later
<1>6. QED
  BY <1>2, <1>3, <1>4, <1>5 DEF BuildNext

LEMMA BuildHolds == BuildSpec => []WholeBuildInv
BY BuildInitHolds, BuildNextKeeps, PTL DEF BuildSpec

\* Every variable of the builder keeps its type (main.go, sources.go, enrich.go).
THEOREM BuildTypeCorrect == BuildSpec => []BuildTypeOK
<1>1. WholeBuildInv => BuildTypeOK
  BY DEF WholeBuildInv, BuildInv
<1>2. QED
  BY <1>1, BuildHolds, PTL

\* A file that is ingested has every block once, in order and to the end of the feed, and is of
\* one edition if the server kept it, however often its transfer was resumed (download).
THEOREM FileCorrect == BuildSpec => []FileIsComplete
<1>1. BuildInv => FileIsComplete
  <2> SUFFICES ASSUME BuildInv, pc = "ingest"
               PROVE  /\ \A k \in DOMAIN file : file[k].block = k
                      /\ have = Len(Content(year, file[have].edition))
                      /\ ~replaced => OneEdition
    BY DEF FileIsComplete
  <2>1. QED
    BY MixedIsReplaced DEF BuildInv, FileInv
<1>2. QED
  BY <1>1, BuildHolds, PTL DEF WholeBuildInv

\* A database that is written has nothing twice, and unless a feed was replaced while it was read
\* all records of all feeds, as many as are reported (ingestNVDFeedWithRetry).
THEOREM WholeCorrect == BuildSpec => []WrittenIsWhole
<1>1. BuildInv => WrittenIsWhole
  <2> SUFFICES ASSUME BuildInv, pc = "written" PROVE WrittenIsWhole
    BY DEF WrittenIsWhole
  <2>1. year = LastYear /\ IsInjective(matches)
    BY DEF BuildInv, WholeInv
  <2>2. Done = Years
    BY <2>1, FeedsAssumption DEF Done, Years
  <2>3. ~replaced => Stored = Known \cap UNION {Range(Content(y, edition[y])) : y \in Years} /\ kept = Len(matches)
    BY <2>2 DEF BuildInv, WholeInv, RecordsOf
  <2>4. QED
    BY <2>1, <2>3 DEF WrittenIsWhole, IsInjective
<1>2. QED
  BY <1>1, BuildHolds, PTL DEF WholeBuildInv

\* The database that is written says of each record and product what the last entry of each
\* source said that counts, each exploit source once, and nothing else (enrich.go).
THEOREM EnrichedCorrect == BuildSpec => []WrittenIsEnriched
<1>1. BuildInv /\ EnrichInv => WrittenIsEnriched
  <2> SUFFICES ASSUME BuildInv, EnrichInv, pc = "written" PROVE WrittenIsEnriched
    BY DEF WrittenIsEnriched
  <2>1. source = 7
    BY DEF BuildInv, ProgressInv
  <2>2. \A r \in Records :
          /\ KevFits(r) /\ EpssFits(r) /\ IsInjective(marks[r].exploits)
          /\ ("nuclei" \in Range(marks[r].exploits)) <=> (Said(3, r) # {})
          /\ ("metasploit" \in Range(marks[r].exploits)) <=> (SaidUpper(4, r) # {})
    BY <2>1 DEF EnrichInv
  <2>3. \A key \in Products : CycleFits(key)
    BY <2>1 DEF EnrichInv
  <2>4. QED
    BY <2>2, <2>3 DEF WrittenIsEnriched, KevFits, EpssFits, CycleFits, Said, SaidUpper, Lists
<1>2. QED
  BY <1>1, BuildHolds, PTL DEF WholeBuildInv

\* A technology is linked to a library with advisories that goes by its name, by its own name if
\* one does, and left alone only if none does, in whatever order the repository is read
\* (ingestRetire).
THEOREM LinksCorrect == BuildSpec => []LinksFollowNames
<1>1. BuildInv /\ LinkInv => LinksFollowNames
  BY DEF BuildInv, ProgressInv, LinkInv, Linked, LinksFollowNames
<1>2. QED
  BY <1>1, BuildHolds, PTL DEF WholeBuildInv
================================================================================
