---------------------------- MODULE ScanRunProofs ----------------------------
(* Theorems about ScanRun, for any processes, targets, options, answers and bounds. *)
EXTENDS ScanRun, SequenceTheorems, TLAPS

--------------------------------------------------------------------------------
(* The inductive invariant *)

\* A stored answer was NVD's answer for the name on the day it is stored under.
EntryOK(n, entry) == entry.answer # 0 => entry.day <= today /\ AnsweredOn(n, entry.answer, entry.day)
EntriesOK(entries) == \A n \in Names : EntryOK(n, entries[n])

AssessedOf(results) == UNION {AssessedIn(results[i]) : i \in DOMAIN results}

\* An assessment that a live lookup made rests on an answer of the last Ttl days.
VerdictOK(a, options, db) ==
  /\ a.day <= today
  /\ options.cve /\ NeedsNvd(a.tech, db) /\ a.status # "unknown" =>
       \E day \in (a.day - Ttl)..a.day : AnsweredOn(About[a.tech].name, a.answer, day)
VerdictsOK(results, options, db) == \A a \in AssessedOf(results) : VerdictOK(a, options, db)

\* No target has more assessments than technologies.
Fits(results) ==
  /\ Len(results) <= Len(Targets)
  /\ \A i \in DOMAIN results : Len(results[i].assessed) <= Len(Targets[i])

Preparing == {"kev", "fetch", "write", "open"}

\* Which steps each command takes, and what it knows of the catalog at each.
ControlOK(proc) ==
  /\ proc.pc # "off" => proc.exit = -1
  /\ proc.pc \in {"kev", "fetch", "write"} => proc.cmd \in {"scan", "refresh"}
  /\ proc.pc \in {"open", "scan"} => proc.cmd = "scan"
  /\ proc.pc \in {"clearKev", "clearNvd"} => proc.cmd = "clear"
  /\ proc.pc \in Preparing /\ proc.cmd = "scan" => proc.options.cve
  /\ proc.since <= Catalog /\ proc.got <= Catalog
  /\ proc.pc = "write" => proc.got # 0 /\ proc.got >= proc.since

\* What is missing has been said.
WarnedOK(proc) ==
  proc.cmd = "scan" /\ proc.pc # "off" /\ proc.options.cve =>
    /\ proc.options.db /\ ~proc.db => "database" \in proc.warned
    /\ proc.pc \in {"open", "scan"} => (proc.db \/ proc.kev # 0) /\ (proc.kev = 0 => "kev" \in proc.warned)

\* What the exit status tells.
ExitOK(proc) ==
  /\ proc.cmd = "refresh" /\ proc.exit = 0 => proc.kev >= proc.since
  /\ proc.cmd = "scan" =>
       LET reached == \E a \in AssessedOf(proc.results) : Rank(a.status) >= proc.options.threshold
           read == \A i \in DOMAIN proc.results : ~proc.results[i].error
       IN /\ proc.exit = 0 =>
               /\ read
               /\ proc.interrupted \/ Len(proc.results) = Len(Targets)
               /\ proc.options.threshold # 0 => ~reached
          /\ proc.exit = 1 => read /\ proc.options.threshold # 0 /\ reached

ProcOK(proc) ==
  /\ proc \in ProcRecords
  /\ Fits(proc.results)
  /\ EntriesOK(proc.memory)
  /\ VerdictsOK(proc.results, proc.options, proc.db)
  /\ ControlOK(proc)
  /\ WarnedOK(proc)
  /\ ExitOK(proc)

\* While commands run one at a time and meet no trouble, the one that runs has the file in
\* its memory, and the file has what was stored.
QuietInv ==
  ~overlap =>
    /\ \A p, q \in Procs : Active(p) /\ Active(q) => p = q
    /\ \A p \in Procs : procs[p].pc = "scan" /\ procs[p].options.cve => procs[p].memory = nvdFile
    /\ \A n \in Names : Fresh(stored[n]) => nvdFile[n] = stored[n]
    /\ \A n \in Names : nvdFile[n] # None => nvdFile[n] = stored[n]

ScanInv ==
  /\ TypeOK
  /\ EntriesOK(nvdFile)
  /\ \A p \in Procs : ProcOK(procs[p])
  /\ QuietInv
--------------------------------------------------------------------------------
(* Sequences of results *)

LEMMA NoResults ==
  /\ <<>> \in Seq(Results) /\ Fits(<<>>) /\ AssessedOf(<<>>) = {}
<1>1. Len(Targets) \in Nat
  BY ScanAssumption
<1>2. QED
  BY <1>1, EmptySeq DEF Fits, AssessedOf

\* A result that begins has no assessments.
LEMMA AppendResult ==
  ASSUME NEW results \in Seq(Results), Fits(results), Len(results) < Len(Targets),
         NEW result \in {Empty, Failure}
  PROVE  /\ Append(results, result) \in Seq(Results) /\ Fits(Append(results, result))
         /\ AssessedOf(Append(results, result)) = AssessedOf(results)
<1> DEFINE new == Append(results, result)
<1>1. result \in Results /\ result.assessed = <<>>
  <2>1. <<>> \in Seq(Assessments)
    BY EmptySeq
  <2>2. Empty \in Results /\ Empty.assessed = <<>>
    BY <2>1 DEF Empty, Results
  <2>3. Failure \in Results /\ Failure.assessed = <<>>
    BY <2>1 DEF Failure, Results
  <2>4. QED
    BY <2>2, <2>3
<1>2. /\ new \in Seq(Results) /\ Len(new) = Len(results) + 1 /\ Len(results) \in Nat
      /\ DOMAIN new = 1..Len(new) /\ DOMAIN results = 1..Len(results)
      /\ \A i \in 1..Len(results) : new[i] = results[i]
      /\ new[Len(results) + 1] = result
  BY <1>1, AppendProperties, LenProperties
<1>3. Len(Targets) \in Nat /\ \A i \in 1..Len(Targets) : Len(Targets[i]) \in Nat
  BY ScanAssumption, ElementOfSeq, LenProperties
<1>4. Len(new[Len(results) + 1].assessed) = 0 /\ AssessedIn(new[Len(results) + 1]) = {}
  BY <1>1, <1>2, EmptySeq DEF AssessedIn
<1> HIDE DEF new
<1>5. Fits(new)
  <2>1. ASSUME NEW i \in DOMAIN new PROVE Len(new[i].assessed) <= Len(Targets[i])
    <3>1. CASE i \in DOMAIN results
      BY <1>2, <3>1 DEF Fits
    <3>2. CASE i = Len(results) + 1
      BY <1>2, <1>3, <1>4, <3>2
    <3>3. QED
      BY <1>2, <3>1, <3>2
  <2>2. QED
    BY <1>2, <1>3, <2>1 DEF Fits
<1>6. AssessedOf(new) = AssessedOf(results)
  <2>1. \A i \in DOMAIN new : i \in DOMAIN results \/ i = Len(results) + 1
    BY <1>2
  <2>2. \A i \in DOMAIN results : i \in DOMAIN new /\ AssessedIn(new[i]) = AssessedIn(results[i])
    BY <1>2 DEF AssessedIn
  <2>3. QED
    BY <1>4, <2>1, <2>2 DEF AssessedOf
<1>7. QED
  BY <1>2, <1>5, <1>6 DEF new

\* A technology of the last target is assessed.
LEMMA AppendAssessment ==
  ASSUME NEW results \in Seq(Results), Fits(results), Len(results) # 0,
         NEW a \in Assessments, Len(results[Len(results)].assessed) # Len(Targets[Len(results)])
  PROVE  LET new == [results EXCEPT ![Len(results)].assessed = Append(@, a)]
         IN /\ new \in Seq(Results) /\ Fits(new) /\ AssessedOf(new) \subseteq AssessedOf(results) \cup {a}
<1> DEFINE last == Len(results)
           grown == Append(results[last].assessed, a)
           new == [results EXCEPT ![last].assessed = grown]
<1>1. /\ last \in Nat /\ DOMAIN results = 1..last /\ last \in DOMAIN results
      /\ \A i \in DOMAIN results : results[i] \in Results
  BY LenProperties, ElementOfSeq
<1>2. results[last].assessed \in Seq(Assessments)
  BY <1>1 DEF Results
<1>3. /\ grown \in Seq(Assessments) /\ Len(grown) = Len(results[last].assessed) + 1
      /\ Len(results[last].assessed) \in Nat
      /\ DOMAIN grown = 1..Len(grown) /\ DOMAIN results[last].assessed = 1..Len(results[last].assessed)
      /\ \A i \in 1..Len(results[last].assessed) : grown[i] = results[last].assessed[i]
      /\ grown[Len(results[last].assessed) + 1] = a
  BY <1>2, AppendProperties, LenProperties
<1> HIDE DEF grown
<1>4. /\ DOMAIN new = 1..last /\ new[last] = [results[last] EXCEPT !.assessed = grown]
      /\ \A i \in DOMAIN results : i # last => new[i] = results[i]
  BY <1>1
<1>5. new[last] \in Results /\ new[last].assessed = grown
  BY <1>1, <1>3, <1>4 DEF Results
<1> HIDE DEF new
<1>6. new \in Seq(Results) /\ Len(new) = last
  <2> DEFINE grownLast == [results[last] EXCEPT !.assessed = grown]
  <2>1. grownLast \in Results
    BY <1>4, <1>5
  <2>2. new = [results EXCEPT ![last] = grownLast]
    BY DEF new
  <2> HIDE DEF grownLast
  <2>3. QED
    BY <1>1, <2>1, <2>2, ExceptSeq
<1>7. Fits(new)
  <2>1. Len(Targets) \in Nat /\ \A i \in 1..Len(Targets) : Len(Targets[i]) \in Nat
    BY ScanAssumption, ElementOfSeq, LenProperties
  <2>2. last \in 1..Len(Targets)
    BY <1>1, <2>1 DEF Fits
  <2>3. Len(grown) <= Len(Targets[last])
    BY <1>1, <1>3, <2>1, <2>2 DEF Fits
  <2>4. QED
    BY <1>1, <1>4, <1>5, <1>6, <2>3 DEF Fits
<1>8. AssessedOf(new) \subseteq AssessedOf(results) \cup {a}
  <2>1. ASSUME NEW i \in 1..last, NEW b \in AssessedIn(new[i]) PROVE b \in AssessedOf(results) \cup {a}
    <3>1. CASE i # last
      BY <1>1, <1>4, <2>1, <3>1 DEF AssessedIn, AssessedOf
    <3>2. CASE i = last
      <4>1. PICK k \in DOMAIN grown : b = grown[k]
        BY <1>5, <2>1, <3>2 DEF AssessedIn
      <4>2. k \in DOMAIN results[last].assessed \/ k = Len(results[last].assessed) + 1
        BY <1>3
      <4>3. QED
        BY <1>1, <1>3, <4>1, <4>2, SMTT(30) DEF AssessedIn, AssessedOf
    <3>3. QED
      BY <3>1, <3>2
  <2>2. QED
    BY <1>4, <2>1 DEF AssessedOf
<1>9. QED
  BY <1>6, <1>7, <1>8 DEF new, grown

--------------------------------------------------------------------------------
(* What a command knows *)

LEMMA WorldFacts ==
  ASSUME WorldTypeOK
  PROVE  /\ today \in Nat /\ Catalog \in Nat /\ Catalog >= 1
         /\ \A n \in Names : replaced[n] \in Seq(0..today) /\ Len(replaced[n]) \in Nat /\ Now(n) \in Nat
<1>1. today \in Nat /\ published \in Seq(0..today) /\ replaced \in [Names -> Seq(0..today)]
  BY SourcesAssumption DEF WorldTypeOK
<1>2. Len(published) \in Nat
  BY <1>1, LenProperties
<1>3. ASSUME NEW n \in Names PROVE replaced[n] \in Seq(0..today) /\ Len(replaced[n]) \in Nat
  BY <1>1, LenProperties
<1>4. QED
  BY <1>1, <1>2, <1>3 DEF Catalog, Now

\* NVD's present answer is the one it gives today.
LEMMA AnsweredNow ==
  ASSUME WorldTypeOK, NEW n \in Names
  PROVE  AnsweredOn(n, Now(n), today)
<1>1. replaced[n] \in Seq(0..today) /\ Len(replaced[n]) \in Nat /\ today \in Nat
  BY WorldFacts
<1>2. Len(replaced[n]) # 0 => replaced[n][Len(replaced[n])] <= today
  <2>1. Len(replaced[n]) # 0 => replaced[n][Len(replaced[n])] \in 0..today
    BY <1>1, ElementOfSeq
  <2>2. QED
    BY <1>1, <2>1
<1>3. QED
  BY <1>1, <1>2 DEF AnsweredOn, WasOn, Now

\* The step of another process, and what a process wrote, change nothing that is known of one.
LEMMA Unmoved ==
  ASSUME NEW proc, ProcOK(proc), UNCHANGED world, NEW p \in Procs, procs'[p] = proc
  PROVE  ProcOK(procs[p])'
BY DEF ProcOK, Fits, EntriesOK, EntryOK, VerdictsOK, VerdictOK, ControlOK, WarnedOK, ExitOK, Catalog,
   AnsweredOn, WasOn, world

LEMMA OffFields ==
  /\ Off \in ProcRecords /\ Off.pc = "off" /\ Off.cmd = "none" /\ Off.results = <<>>
  /\ Off.memory = NoEntries /\ Off.exit = -1 /\ Off.since = 0 /\ Off.got = 0 /\ Off.kev = 0
  /\ NoEntries \in Entries /\ \A n \in Names : NoEntries[n] = None
<1>1. (CHOOSE o \in Options : TRUE) \in Options
  BY ScanAssumption
<1>2. <<>> \in Seq(Results)
  BY EmptySeq
<1>3. NoEntries \in Entries /\ \A n \in Names : NoEntries[n] = None
  BY DEF NoEntries, Entries, None, Entry
<1>4. QED
  BY <1>1, <1>2, <1>3 DEF Off, ProcRecords

LEMMA EmptyEntries == EntriesOK(NoEntries)
BY OffFields DEF EntriesOK, EntryOK, None

\* A command that has no results yet.
LEMMA StartedOK ==
  ASSUME NEW proc \in ProcRecords, proc.results = <<>>, proc.memory = NoEntries, proc.exit \notin {0, 1},
         ControlOK(proc), WarnedOK(proc)
  PROVE  ProcOK(proc)
<1>1. Fits(proc.results) /\ AssessedOf(proc.results) = {}
  BY NoResults
<1>2. EntriesOK(proc.memory)
  BY EmptyEntries
<1>3. ExitOK(proc)
  BY DEF ExitOK
<1>4. QED
  BY <1>1, <1>2, <1>3 DEF ProcOK, VerdictsOK

\* A command that goes on with the results it has.
LEMMA PreparedOK ==
  ASSUME NEW proc, ProcOK(proc), NEW next \in ProcRecords, next.results = proc.results,
         next.options = proc.options, next.db = proc.db, next.memory = proc.memory \/ EntriesOK(next.memory),
         ControlOK(next), WarnedOK(next), ExitOK(next)
  PROVE  ProcOK(next)
BY DEF ProcOK

\* A command that ends.
LEMMA ExitsOK ==
  ASSUME NEW p \in Procs, ProcOK(procs[p]), NEW pc, NEW status \in {0, 1, 2}, Exits(p, pc, status),
         LET next == [procs[p] EXCEPT !.pc = "off", !.exit = status, !.got = 0, !.memory = NoEntries]
         IN ExitOK(next),
         WorldTypeOK
  PROVE  \E next : ProcOK(next) /\ procs' = [procs EXCEPT ![p] = next] /\ next.pc = "off"
<1> DEFINE next == [procs[p] EXCEPT !.pc = "off", !.exit = status, !.got = 0, !.memory = NoEntries]
<1>1. procs[p] \in ProcRecords
  BY DEF ProcOK
<1>2. /\ next \in ProcRecords /\ next.pc = "off" /\ next.results = procs[p].results
      /\ next.options = procs[p].options /\ next.db = procs[p].db /\ next.memory = NoEntries
      /\ next.got = 0 /\ next.since = procs[p].since
  BY <1>1, OffFields DEF ProcRecords
<1>3. ControlOK(next) /\ WarnedOK(next)
  BY <1>2, WorldFacts DEF ControlOK, WarnedOK, Preparing, ProcOK
<1>4. procs' = [procs EXCEPT ![p] = next]
  BY DEF Exits, Goes
<1>5. EntriesOK(next.memory) /\ ExitOK(next)
  BY <1>2, EmptyEntries
<1> HIDE DEF next
<1>6. ProcOK(next)
  BY <1>2, <1>3, <1>5, PreparedOK
<1>7. QED
  BY <1>2, <1>4, <1>6

\* One that ends with an error has nothing to tell.
LEMMA FailsOK ==
  ASSUME NEW p \in Procs, ProcOK(procs[p]), NEW pc, Exits(p, pc, 2), WorldTypeOK
  PROVE  \E next : ProcOK(next) /\ procs' = [procs EXCEPT ![p] = next] /\ next.pc = "off"
<1> DEFINE next == [procs[p] EXCEPT !.pc = "off", !.exit = 2, !.got = 0, !.memory = NoEntries]
<1>1. next.exit = 2
  BY DEF ProcOK, ProcRecords
<1>2. ExitOK(next)
  BY <1>1 DEF ExitOK
<1>3. QED
  BY <1>2, ExitsOK

--------------------------------------------------------------------------------
(* The steps of a command: each leaves it as it should be *)

\* Process p goes on as `next`, and has in its memory what is in the file or what it had.
GoesOnAs(p, next) ==
  /\ ProcOK(next) /\ procs' = [procs EXCEPT ![p] = next]
  /\ next.pc = "scan" /\ next.options.cve =>
       \/ next.memory = nvdFile
       \/ procs[p].pc = "scan" /\ procs[p].options.cve /\ next.memory = procs[p].memory

LEMMA WithoutKevOK ==
  ASSUME NEW p \in Procs, ProcOK(procs[p]), WorldTypeOK, NEW pc \in {"fetch", "write"}, WithoutKev(p, pc)
  PROVE  \E next : GoesOnAs(p, next)
<1> DEFINE proc == procs[p]
           warned == proc.warned \cup {"kev"}
           next == [proc EXCEPT !.pc = "open", !.kev = 0, !.got = 0, !.warned = warned]
<1>1. proc \in ProcRecords /\ ControlOK(proc) /\ WarnedOK(proc)
  BY DEF ProcOK
<1>2. CASE proc.cmd = "scan" /\ proc.db
  <2>1. procs' = [procs EXCEPT ![p] = next] /\ proc.pc = pc
    BY <1>2 DEF WithoutKev, Goes
  <2>2. /\ next \in ProcRecords /\ next.pc = "open" /\ next.cmd = "scan" /\ next.results = proc.results
        /\ next.options = proc.options /\ next.db = proc.db /\ next.memory = proc.memory
        /\ next.exit = proc.exit /\ next.got = 0 /\ next.since = proc.since
        /\ next.warned = warned /\ next.kev = 0
    BY <1>1, <1>2 DEF ProcRecords
  <2> HIDE DEF next
  <2>3. ControlOK(next)
    BY <1>1, <1>2, <2>1, <2>2, WorldFacts DEF ControlOK, Preparing
  <2>4. WarnedOK(next)
    BY <1>1, <1>2, <2>1, <2>2 DEF WarnedOK
  <2>5. ExitOK(next)
    BY <2>2, <2>3 DEF ControlOK, ExitOK
  <2>6. ProcOK(next)
    BY <2>2, <2>3, <2>4, <2>5, PreparedOK
  <2>7. QED
    BY <2>1, <2>2, <2>6 DEF GoesOnAs
<1>3. CASE ~(proc.cmd = "scan" /\ proc.db)
  <2>1. Exits(p, pc, 2)
    BY <1>3 DEF WithoutKev
  <2>2. QED
    BY <2>1, FailsOK DEF GoesOnAs
<1>4. QED
  BY <1>2, <1>3

LEMMA PrepareOK ==
  ASSUME ScanInv, NEW p \in Procs, Prepare(p)
  PROVE  (\E next : GoesOnAs(p, next)) /\ procs[p].pc # "off"
<1> DEFINE proc == procs[p]
<1>0. WorldTypeOK /\ ProcOK(proc) /\ EntriesOK(nvdFile) /\ nvdFile \in Entries
  BY DEF ScanInv, TypeOK
<1>1. proc \in ProcRecords /\ ControlOK(proc) /\ WarnedOK(proc)
  BY <1>0 DEF ProcOK
<1>2. Catalog \in Nat /\ Catalog >= 1 /\ kevFile.answer \in Nat
  BY <1>0, WorldFacts DEF ScanInv, TypeOK
<1>3. CASE ReadKev(p)
  <2>1. PICK pc \in {"open", "fetch"} :
          /\ procs' = [procs EXCEPT ![p] = [proc EXCEPT !.kev = kevFile.answer, !.pc = pc]]
          /\ pc = "open" => proc.cmd = "scan" /\ kevFile.answer # 0
    <3>1. YoungEnough(p) => proc.cmd = "scan" /\ kevFile.answer # 0
      BY DEF YoungEnough, Fresh
    <3>2. CASE YoungEnough(p)
      BY <1>3, <3>1, <3>2 DEF ReadKev, Goes
    <3>3. CASE ~YoungEnough(p)
      BY <1>3, <3>3 DEF ReadKev, Goes
    <3>4. QED
      BY <3>2, <3>3
  <2>2. proc.pc = "kev"
    BY <1>3 DEF ReadKev, Goes
  <2> DEFINE next == [proc EXCEPT !.kev = kevFile.answer, !.pc = pc]
  <2>3. /\ next \in ProcRecords /\ next.pc = pc /\ next.cmd = proc.cmd /\ next.results = proc.results
        /\ next.options = proc.options /\ next.db = proc.db /\ next.memory = proc.memory
        /\ next.exit = proc.exit /\ next.got = proc.got /\ next.since = proc.since
        /\ next.warned = proc.warned /\ next.kev = kevFile.answer
    BY <1>1, <1>2 DEF ProcRecords
  <2>4. procs' = [procs EXCEPT ![p] = next]
    BY <2>1
  <2> HIDE DEF next
  <2>5. ControlOK(next)
    BY <1>1, <2>1, <2>2, <2>3 DEF ControlOK, Preparing
  <2>6. WarnedOK(next)
    BY <1>1, <2>1, <2>2, <2>3 DEF WarnedOK
  <2>7. ExitOK(next)
    BY <2>1, <2>3, <2>5 DEF ControlOK, ExitOK
  <2>8. ProcOK(next)
    BY <1>0, <2>3, <2>5, <2>6, <2>7, PreparedOK
  <2>9. QED
    BY <2>1, <2>2, <2>3, <2>4, <2>8 DEF GoesOnAs
<1>4. CASE FetchKev(p)
  <2> DEFINE next == [proc EXCEPT !.pc = "write", !.got = Catalog]
  <2>1. procs' = [procs EXCEPT ![p] = next] /\ proc.pc = "fetch"
    BY <1>4 DEF FetchKev, Goes
  <2>2. /\ next \in ProcRecords /\ next.pc = "write" /\ next.cmd = proc.cmd /\ next.results = proc.results
        /\ next.options = proc.options /\ next.db = proc.db /\ next.memory = proc.memory
        /\ next.exit = proc.exit /\ next.got = Catalog /\ next.since = proc.since
        /\ next.warned = proc.warned
    BY <1>1, <1>2 DEF ProcRecords
  <2> HIDE DEF next
  <2>3. ControlOK(next)
    BY <1>1, <1>2, <2>1, <2>2 DEF ControlOK, Preparing
  <2>4. WarnedOK(next)
    BY <1>1, <2>1, <2>2 DEF WarnedOK
  <2>5. ExitOK(next)
    BY <2>2, <2>3 DEF ControlOK, ExitOK
  <2>6. ProcOK(next)
    BY <1>0, <2>2, <2>3, <2>4, <2>5, PreparedOK
  <2>7. QED
    BY <2>1, <2>2, <2>6 DEF GoesOnAs
<1>5. CASE WriteKev(p)
  <2> DEFINE open == [proc EXCEPT !.pc = "open", !.kev = proc.got, !.got = 0]
             ended == [proc EXCEPT !.pc = "off", !.exit = 0, !.kev = proc.got, !.got = 0]
  <2>1. proc.pc = "write" /\ procs' = [procs EXCEPT ![p] = IF proc.cmd = "scan" THEN open ELSE ended]
    <3>1. [[proc EXCEPT !.kev = proc.got, !.got = 0] EXCEPT !.pc = "open"] = open
      BY <1>1 DEF ProcRecords
    <3>2. [[proc EXCEPT !.kev = proc.got, !.got = 0] EXCEPT !.pc = "off", !.exit = 0] = ended
      BY <1>1 DEF ProcRecords
    <3> HIDE DEF open, ended
    <3>3. QED
      BY <1>5, <3>1, <3>2 DEF WriteKev, Goes
  <2>2. proc.got \in Nat /\ proc.got # 0 /\ proc.got >= proc.since
    BY <1>1, <2>1 DEF ControlOK, ProcRecords
  <2>3. CASE proc.cmd = "scan"
    <3>1. /\ open \in ProcRecords /\ open.pc = "open" /\ open.cmd = "scan" /\ open.results = proc.results
          /\ open.options = proc.options /\ open.db = proc.db /\ open.memory = proc.memory
          /\ open.exit = proc.exit /\ open.got = 0 /\ open.since = proc.since
          /\ open.warned = proc.warned /\ open.kev = proc.got
      BY <1>1, <2>3 DEF ProcRecords
    <3> HIDE DEF open, ended
    <3>2. ControlOK(open)
      BY <1>1, <1>2, <2>1, <2>3, <3>1 DEF ControlOK, Preparing
    <3>3. WarnedOK(open)
      BY <1>1, <2>1, <2>2, <2>3, <3>1 DEF WarnedOK
    <3>4. ExitOK(open)
      BY <3>1, <3>2 DEF ControlOK, ExitOK
    <3>5. ProcOK(open)
      BY <1>0, <3>1, <3>2, <3>3, <3>4, PreparedOK
    <3>6. QED
      BY <2>1, <2>3, <3>1, <3>5 DEF GoesOnAs
  <2>4. CASE proc.cmd # "scan"
    <3>1. /\ ended \in ProcRecords /\ ended.pc = "off" /\ ended.cmd = proc.cmd /\ ended.results = proc.results
          /\ ended.options = proc.options /\ ended.db = proc.db /\ ended.memory = proc.memory
          /\ ended.exit = 0 /\ ended.got = 0 /\ ended.since = proc.since /\ ended.kev = proc.got
      BY <1>1 DEF ProcRecords
    <3> HIDE DEF open, ended
    <3>2. ControlOK(ended) /\ WarnedOK(ended)
      BY <1>1, <1>2, <3>1 DEF ControlOK, WarnedOK, Preparing
    <3>3. ExitOK(ended)
      BY <2>2, <2>4, <3>1 DEF ExitOK
    <3>4. ProcOK(ended)
      BY <1>0, <3>1, <3>2, <3>3, PreparedOK
    <3>5. QED
      BY <2>1, <2>4, <3>1, <3>4 DEF GoesOnAs
  <2>5. QED
    BY <2>3, <2>4
<1>6. CASE KevUnavailable(p)
  <2>1. CASE proc.cmd = "scan" /\ proc.kev # 0
    <3> DEFINE next == [proc EXCEPT !.pc = "open", !.stale = TRUE]
    <3>1. proc.pc = "fetch" /\ procs' = [procs EXCEPT ![p] = next]
      BY <1>6, <2>1 DEF KevUnavailable, Goes
    <3>2. /\ next \in ProcRecords /\ next.pc = "open" /\ next.cmd = "scan" /\ next.results = proc.results
          /\ next.options = proc.options /\ next.db = proc.db /\ next.memory = proc.memory
          /\ next.exit = proc.exit /\ next.got = proc.got /\ next.since = proc.since
          /\ next.warned = proc.warned /\ next.kev = proc.kev
      BY <1>1, <2>1 DEF ProcRecords
    <3> HIDE DEF next
    <3>3. ControlOK(next)
      BY <1>1, <2>1, <3>1, <3>2 DEF ControlOK, Preparing
    <3>4. WarnedOK(next)
      BY <1>1, <2>1, <3>1, <3>2 DEF WarnedOK
    <3>5. ExitOK(next)
      BY <3>2, <3>3 DEF ControlOK, ExitOK
    <3>6. ProcOK(next)
      BY <1>0, <3>2, <3>3, <3>4, <3>5, PreparedOK
    <3>7. QED
      BY <3>1, <3>2, <3>6 DEF GoesOnAs
  <2>2. CASE ~(proc.cmd = "scan" /\ proc.kev # 0)
    <3>1. WithoutKev(p, "fetch")
      BY <1>6, <2>2 DEF KevUnavailable
    <3>2. proc.pc = "fetch"
      BY <3>1 DEF WithoutKev, Goes, Exits
    <3>3. QED
      BY <1>0, <3>1, <3>2, WithoutKevOK
  <2>3. QED
    BY <2>1, <2>2
<1>7. CASE KevNotWritten(p)
  <2>1. WithoutKev(p, "write")
    BY <1>7 DEF KevNotWritten
  <2>2. proc.pc = "write"
    BY <2>1 DEF WithoutKev, Goes, Exits
  <2>3. QED
    BY <1>0, <2>1, <2>2, WithoutKevOK
<1>8. CASE OpenCache(p)
  <2> DEFINE next == [proc EXCEPT !.pc = "scan", !.memory = nvdFile]
  <2>1. proc.pc = "open" /\ procs' = [procs EXCEPT ![p] = next]
    BY <1>8 DEF OpenCache, Goes
  <2>2. /\ next \in ProcRecords /\ next.pc = "scan" /\ next.cmd = proc.cmd /\ next.results = proc.results
        /\ next.options = proc.options /\ next.db = proc.db /\ next.memory = nvdFile
        /\ next.exit = proc.exit /\ next.got = proc.got /\ next.since = proc.since
        /\ next.warned = proc.warned /\ next.kev = proc.kev
    BY <1>0, <1>1 DEF ProcRecords
  <2> HIDE DEF next
  <2>3. ControlOK(next)
    BY <1>1, <2>1, <2>2 DEF ControlOK, Preparing
  <2>4. WarnedOK(next)
    BY <1>1, <2>1, <2>2 DEF WarnedOK
  <2>5. ExitOK(next)
    BY <2>2, <2>3 DEF ControlOK, ExitOK
  <2>6. ProcOK(next)
    BY <1>0, <2>2, <2>3, <2>4, <2>5, PreparedOK
  <2>7. QED
    BY <2>1, <2>2, <2>6 DEF GoesOnAs
<1>9. CASE OpenCacheFails(p)
  <2>1. Exits(p, "open", 2) /\ proc.pc = "open"
    BY <1>9 DEF OpenCacheFails, Exits, Goes
  <2>2. QED
    BY <1>0, <2>1, FailsOK DEF GoesOnAs
<1>10. QED
  BY <1>3, <1>4, <1>5, <1>6, <1>7, <1>8, <1>9 DEF Prepare

\* A command that takes results from its targets: only these, its memory and its warnings change.
LEMMA ScanningOK ==
  ASSUME NEW proc, ProcOK(proc), proc.pc = "scan", NEW next \in ProcRecords, next.pc = "scan",
         next.cmd = proc.cmd, next.options = proc.options, next.db = proc.db, next.kev = proc.kev,
         next.exit = proc.exit, next.got = proc.got, next.since = proc.since,
         proc.warned \subseteq next.warned, EntriesOK(next.memory), Fits(next.results),
         VerdictsOK(next.results, next.options, next.db)
  PROVE  ProcOK(next)
<1>1. ControlOK(next) /\ WarnedOK(next)
  BY DEF ProcOK, ControlOK, WarnedOK, Preparing
<1>2. ExitOK(next)
  BY <1>1 DEF ControlOK, ExitOK
<1>3. QED
  BY <1>1, <1>2 DEF ProcOK

\* The facts about a command that goes through its targets.
LEMMA ScanFacts ==
  ASSUME ScanInv, NEW p \in Procs
  PROVE  /\ WorldTypeOK /\ ProcOK(procs[p]) /\ procs[p] \in ProcRecords
         /\ procs[p].results \in Seq(Results) /\ Fits(procs[p].results)
         /\ Len(procs[p].results) \in Nat /\ DOMAIN procs[p].results = 1..Len(procs[p].results)
         /\ Targets \in Seq(Seq(Technologies)) /\ Len(Targets) \in Nat
<1>1. WorldTypeOK /\ ProcOK(procs[p]) /\ procs[p] \in ProcRecords /\ Fits(procs[p].results)
  BY DEF ScanInv, TypeOK, ProcOK
<1>2. procs[p].results \in Seq(Results)
  BY <1>1 DEF ProcRecords
<1>3. QED
  BY <1>1, <1>2, LenProperties, ScanAssumption

\* The next target: it was read or not.
LEMMA DetectOK ==
  ASSUME ScanInv, NEW p \in Procs, Detect(p) \/ DetectFails(p)
  PROVE  (\E next : GoesOnAs(p, next)) /\ procs[p].pc # "off"
<1> DEFINE proc == procs[p]
<1>0. /\ WorldTypeOK /\ ProcOK(proc) /\ proc \in ProcRecords
      /\ proc.results \in Seq(Results) /\ Fits(proc.results)
  BY ScanFacts
<1>1. PICK result \in {Empty, Failure} :
        procs' = [procs EXCEPT ![p] = [proc EXCEPT !.results = Append(proc.results, result)]]
  BY DEF Detect, DetectFails, Goes
<1>2. proc.pc = "scan" /\ Len(proc.results) < Len(Targets)
  BY DEF Detect, DetectFails, Goes, Continues, Targeted
<1> DEFINE results == Append(proc.results, result)
           next == [proc EXCEPT !.results = results]
<1>3. results \in Seq(Results) /\ Fits(results) /\ AssessedOf(results) = AssessedOf(proc.results)
  BY <1>0, <1>2, AppendResult
<1> HIDE DEF results
<1>4. /\ next \in ProcRecords /\ next.pc = "scan" /\ next.cmd = proc.cmd /\ next.results = results
      /\ next.options = proc.options /\ next.db = proc.db /\ next.memory = proc.memory
      /\ next.exit = proc.exit /\ next.got = proc.got /\ next.since = proc.since
      /\ next.warned = proc.warned /\ next.kev = proc.kev
  BY <1>0, <1>2, <1>3 DEF ProcRecords
<1>5. procs' = [procs EXCEPT ![p] = next]
  BY <1>1 DEF results
<1> HIDE DEF next
<1>6. VerdictsOK(next.results, next.options, next.db) /\ EntriesOK(next.memory) /\ Fits(next.results)
  BY <1>0, <1>3, <1>4 DEF ProcOK, VerdictsOK
<1>7. ProcOK(next)
  BY <1>0, <1>2, <1>4, <1>6, ScanningOK
<1>8. QED
  BY <1>2, <1>4, <1>5, <1>7 DEF GoesOnAs

\* The end: exitCode tells the results, and the last target is complete.
LEMMA FinishOK ==
  ASSUME ScanInv, NEW p \in Procs, Finish(p) \/ OutputFails(p)
  PROVE  (\E next : GoesOnAs(p, next)) /\ procs[p].pc # "off"
<1> DEFINE proc == procs[p]
           code == ExitCode(proc.results, proc.options.threshold)
           next == [proc EXCEPT !.pc = "off", !.exit = code, !.got = 0, !.memory = NoEntries]
<1>0. WorldTypeOK /\ ProcOK(proc) /\ proc \in ProcRecords /\ Fits(proc.results)
      /\ Len(proc.results) \in Nat /\ Len(Targets) \in Nat
  BY ScanFacts
<1>1. proc.pc = "scan"
  BY DEF Finish, OutputFails, Exits, Goes
<1>2. CASE OutputFails(p)
  <2>1. Exits(p, "scan", 2)
    BY <1>2 DEF OutputFails
  <2>2. QED
    BY <1>0, <1>1, <2>1, FailsOK DEF GoesOnAs
<1>3. CASE Finish(p)
  <2>1. Exits(p, "scan", code) /\ ~Continues(p)
    BY <1>3 DEF Finish
  <2>2. code \in {0, 1, 2}
    BY DEF ExitCode
  <2>3. /\ next.exit = code /\ next.cmd = "scan" /\ next.results = proc.results
        /\ next.options = proc.options /\ next.interrupted = proc.interrupted
    BY <1>0, <1>1 DEF ProcOK, ControlOK, ProcRecords
  <2> HIDE DEF next
  <2> DEFINE reached == \E a \in AssessedOf(proc.results) : Rank(a.status) >= proc.options.threshold
             read == \A i \in DOMAIN proc.results : ~proc.results[i].error
  <2>4. code = 0 => read /\ (proc.options.threshold # 0 => ~reached)
    BY DEF ExitCode, AssessedOf
  <2>5. code = 1 => read /\ proc.options.threshold # 0 /\ reached
    BY DEF ExitCode, AssessedOf
  <2>6. proc.interrupted \/ Len(proc.results) = Len(Targets)
    BY <1>0, <2>1 DEF Continues, Targeted, Fits
  <2>7. ExitOK(next)
    BY <2>3, <2>4, <2>5, <2>6 DEF ExitOK
  <2>8. QED
    BY <1>0, <1>1, <2>1, <2>2, <2>7, ExitsOK DEF next, GoesOnAs
<1>4. QED
  BY <1>2, <1>3

\* The technology that is assessed next is one of the target.
LEMMA NextTechnology ==
  ASSUME ScanInv, NEW p \in Procs, Assessing(p)
  PROVE  /\ Technology(p) \in Technologies
         /\ Len(procs[p].results) # 0
         /\ Len(Last(p).assessed) # Len(Targets[Len(procs[p].results)])
<1> DEFINE results == procs[p].results
           last == Len(results)
<1>1. /\ results \in Seq(Results) /\ Fits(results) /\ last \in Nat /\ DOMAIN results = 1..last
      /\ Targets \in Seq(Seq(Technologies)) /\ Len(Targets) \in Nat
  BY ScanFacts
<1>2. last # 0 /\ Len(results[last].assessed) # Len(Targets[last])
  BY DEF Assessing, Complete, Targeted, Last
<1>3. last \in DOMAIN results /\ results[last].assessed \in Seq(Assessments)
  <2>1. last \in 1..last /\ last \in DOMAIN results
    BY <1>1, <1>2
  <2>2. results[last] \in Results
    BY <1>1, <2>1, ElementOfSeq
  <2>3. QED
    BY <2>1, <2>2 DEF Results
<1>4. last \in 1..Len(Targets)
  BY <1>1, <1>2 DEF Fits
<1>5. Targets[last] \in Seq(Technologies)
  BY <1>1, <1>4, ElementOfSeq
<1>6. Len(results[last].assessed) + 1 \in 1..Len(Targets[last])
  <2>1. Len(results[last].assessed) \in Nat /\ Len(Targets[last]) \in Nat
    BY <1>3, <1>5, LenProperties
  <2>2. Len(results[last].assessed) <= Len(Targets[last])
    BY <1>1, <1>3 DEF Fits
  <2> HIDE DEF results, last
  <2>3. QED
    BY <1>2, <2>1, <2>2
<1>7. QED
  BY <1>2, <1>5, <1>6, ElementOfSeq DEF Technology, Targeted, Last

LEMMA StatusType ==
  \A t, db, listed, found : Status(t, db, listed, found) \in Statuses
BY DEF Status, Classify, Statuses

\* Process p as `proc`: only its memory and its warnings are other than they were.
Looked(p, proc) ==
  /\ proc \in ProcRecords /\ EntriesOK(proc.memory) /\ procs[p].warned \subseteq proc.warned
  /\ proc.pc = procs[p].pc /\ proc.cmd = procs[p].cmd /\ proc.options = procs[p].options
  /\ proc.db = procs[p].db /\ proc.kev = procs[p].kev /\ proc.got = procs[p].got
  /\ proc.results = procs[p].results /\ proc.exit = procs[p].exit /\ proc.since = procs[p].since

\* An assessment is added to the results of the target.
LEMMA AssessOK ==
  ASSUME ScanInv, NEW p \in Procs, Assessing(p), NEW status \in Statuses, NEW answer \in Nat,
         NEW proc, Looked(p, proc), Assess(p, proc, status, answer),
         procs[p].options.cve /\ NeedsNvd(Technology(p), procs[p].db) /\ status # "unknown" =>
           \E day \in (today - Ttl)..today : AnsweredOn(About[Technology(p)].name, answer, day)
  PROVE  \E next : /\ ProcOK(next) /\ procs' = [procs EXCEPT ![p] = next]
                   /\ next.pc = "scan" /\ next.memory = proc.memory /\ next.options = procs[p].options
<1> DEFINE a == [tech |-> Technology(p), status |-> status, answer |-> answer, day |-> today]
           old == procs[p].results
           results == [old EXCEPT ![Len(old)].assessed = Append(@, a)]
           next == [proc EXCEPT !.results = results]
<1>0. /\ WorldTypeOK /\ ProcOK(procs[p]) /\ procs[p] \in ProcRecords
      /\ old \in Seq(Results) /\ Fits(old) /\ Len(old) \in Nat
  BY ScanFacts
<1>1. today \in Nat
  BY <1>0, WorldFacts
<1>2. a \in Assessments
  BY <1>1, NextTechnology DEF Assessments
<1>3. results \in Seq(Results) /\ Fits(results) /\ AssessedOf(results) \subseteq AssessedOf(old) \cup {a}
  BY <1>0, <1>2, NextTechnology, AppendAssessment, ZenonT(30) DEF Last, Targeted
<1>4. proc \in ProcRecords /\ proc.results = old /\ proc.pc = "scan" /\ procs[p].pc = "scan"
  BY DEF Assessing, Looked
<1>5. procs' = [procs EXCEPT ![p] = next]
  BY <1>4 DEF Assess, Goes, Targeted
<1>6. VerdictOK(a, procs[p].options, procs[p].db)
  BY <1>1 DEF VerdictOK
<1> HIDE DEF a, results
<1>7. /\ next \in ProcRecords /\ next.pc = "scan" /\ next.cmd = proc.cmd /\ next.results = results
      /\ next.options = proc.options /\ next.db = proc.db /\ next.memory = proc.memory
      /\ next.exit = proc.exit /\ next.got = proc.got /\ next.since = proc.since
      /\ next.warned = proc.warned /\ next.kev = proc.kev
  BY <1>3, <1>4 DEF ProcRecords
<1> HIDE DEF next
<1>8. VerdictsOK(next.results, next.options, next.db)
  BY <1>0, <1>3, <1>6, <1>7 DEF VerdictsOK, ProcOK, Looked
<1>9. ProcOK(next)
  BY <1>0, <1>3, <1>4, <1>7, <1>8, ScanningOK DEF Looked
<1>10. QED
  BY <1>5, <1>7, <1>9 DEF Looked

\* The cache after an answer.
LEMMA PutOK ==
  ASSUME WorldTypeOK, NEW memory \in Entries, EntriesOK(memory), NEW n \in Names
  PROVE  /\ Put(memory, n) \in Entries /\ EntriesOK(Put(memory, n))
         /\ Put(memory, n)[n] = [answer |-> Now(n), day |-> today]
<1> DEFINE new == Put(memory, n)
           entry == [answer |-> Now(n), day |-> today]
<1>1. entry \in Entry /\ None \in Entry
  BY WorldFacts DEF Entry, None
<1>2. new \in Entries /\ new[n] = entry
  BY <1>1 DEF Put, Entries
<1>3. EntryOK(n, entry)
  BY WorldFacts, AnsweredNow DEF EntryOK
<1>4. ASSUME NEW k \in Names, k # n PROVE EntryOK(k, new[k])
  <2>1. new[k] = memory[k] \/ new[k] = None
    BY <1>4 DEF Put
  <2>2. QED
    BY <2>1 DEF EntriesOK, EntryOK, None
<1>5. EntriesOK(new)
  BY <1>2, <1>3, <1>4 DEF EntriesOK
<1>6. QED
  BY <1>2, <1>5

\* A technology that is looked up has a name, which the cache may have an answer for.
LEMMA LiveFacts ==
  ASSUME ScanInv, NEW p \in Procs, Live(p)
  PROVE  /\ Name(p) \in Names /\ procs[p].memory \in Entries /\ EntriesOK(procs[p].memory)
         /\ procs[p].memory[Name(p)] \in Entry
         /\ procs[p].warned \subseteq {"database", "kev", "lookup"}
         /\ Now(Name(p)) \in Nat /\ today \in Nat /\ Ttl \in Nat
<1>1. ProcOK(procs[p]) /\ procs[p] \in ProcRecords /\ WorldTypeOK
  BY ScanFacts
<1>2. Technology(p) \in Technologies /\ About[Technology(p)].name # NoName
  BY NextTechnology DEF Live, NeedsNvd
<1>3. Name(p) \in Names
  <2>1. About[Technology(p)] \in TechnologyFacts
    BY <1>2, VerdictAssumption
  <2>2. QED
    BY <1>2, <2>1 DEF TechnologyFacts, Name
<1>4. procs[p].memory \in Entries /\ procs[p].warned \subseteq {"database", "kev", "lookup"}
  BY <1>1 DEF ProcRecords
<1>5. QED
  BY <1>1, <1>3, <1>4, WorldFacts, SourcesAssumption DEF ProcOK, Entries

\* A lookup whose answer is not stored: none is needed, the cache has it, or it failed.
LEMMA AssessKeptOK ==
  ASSUME ScanInv, NEW p \in Procs, AssessStored(p) \/ AssessCached(p) \/ AssessFails(p)
  PROVE  (\E next : GoesOnAs(p, next)) /\ procs[p].pc # "off"
<1> DEFINE memory == procs[p].memory
<1>1. Assessing(p) /\ procs[p].pc = "scan"
  BY DEF AssessStored, AssessCached, AssessFails, Live, Assessing
<1>2. ProcOK(procs[p]) /\ procs[p] \in ProcRecords /\ WorldTypeOK
  BY ScanFacts
<1>3. Looked(p, procs[p])
  BY <1>2 DEF Looked, ProcOK
<1> SUFFICES \E next : /\ ProcOK(next) /\ procs' = [procs EXCEPT ![p] = next]
                       /\ next.pc = "scan" /\ next.memory = memory /\ next.options = procs[p].options
  BY <1>1 DEF GoesOnAs
<1>4. CASE AssessStored(p)
  <2> DEFINE status == IF procs[p].options.cve THEN Status(Technology(p), procs[p].db, Listed(p), {})
                       ELSE "unknown"
  <2>1. Assess(p, procs[p], status, 0) /\ ~(procs[p].options.cve /\ NeedsNvd(Technology(p), procs[p].db))
    BY <1>1, <1>4 DEF AssessStored, Live
  <2>2. status \in Statuses
    BY StatusType DEF Statuses
  <2> HIDE DEF status
  <2>3. QED
    BY <1>1, <1>3, <2>1, <2>2, AssessOK
<1>5. CASE AssessCached(p)
  <2> DEFINE entry == memory[Name(p)]
             answer == entry.answer
             status == Status(Technology(p), procs[p].db, Listed(p), Answers[Name(p)][answer])
  <2>1. Live(p) /\ Fresh(entry) /\ Assess(p, procs[p], status, answer)
    BY <1>5 DEF AssessCached, Hit, AssessLive
  <2>2. status \in Statuses
    BY StatusType
  <2>3. answer \in Nat /\ entry.day \in Nat
    BY <2>1, LiveFacts DEF Entry
  <2>4. AnsweredOn(About[Technology(p)].name, answer, entry.day) /\ entry.day <= today
    BY <2>1, LiveFacts DEF Fresh, EntriesOK, EntryOK, Name
  <2>5. entry.day \in (today - Ttl)..today
    <3>1. today \in Nat /\ Ttl \in Nat /\ today - entry.day <= Ttl
      BY <2>1, LiveFacts DEF Fresh
    <3> HIDE DEF entry
    <3>2. QED
      BY <2>3, <2>4, <3>1
  <2>6. \E day \in (today - Ttl)..today : AnsweredOn(About[Technology(p)].name, answer, day)
    BY <2>4, <2>5
  <2>7. Assess(p, procs[p], status, answer) /\ answer \in Nat
    BY <2>1, <2>3
  <2> HIDE DEF status, answer, entry
  <2>8. QED
    BY <1>1, <1>3, <2>2, <2>6, <2>7, AssessOK
<1>6. CASE AssessFails(p)
  <2> DEFINE warned == procs[p].warned \cup {"lookup"}
             proc == [procs[p] EXCEPT !.warned = warned]
  <2>1. Assess(p, proc, "unknown", 0)
    BY <1>6 DEF AssessFails, LookupFailed
  <2>2. Looked(p, proc) /\ proc.memory = memory
    BY <1>2 DEF ProcRecords, ProcOK, Looked
  <2>3. "unknown" \in Statuses /\ 0 \in Nat
    BY DEF Statuses
  <2> HIDE DEF proc
  <2>4. QED
    BY <1>1, <2>1, <2>2, <2>3, AssessOK
<1>7. QED
  BY <1>4, <1>5, <1>6

\* NVD's answer goes to the memory and to the file.
LEMMA AssessAnsweredOK ==
  ASSUME ScanInv, NEW p \in Procs, AssessAnswered(p)
  PROVE  /\ \E next : /\ ProcOK(next) /\ procs' = [procs EXCEPT ![p] = next]
                      /\ next.pc = "scan" /\ next.memory = nvdFile'
         /\ procs[p].pc = "scan" /\ procs[p].options.cve
<1> DEFINE memory == Put(procs[p].memory, Name(p))
           proc == [procs[p] EXCEPT !.memory = memory]
           answer == Now(Name(p))
           status == Status(Technology(p), proc.db, Listed(p), Answers[Name(p)][answer])
<1>1. Live(p) /\ Assess(p, proc, status, answer) /\ nvdFile' = memory
  BY DEF AssessAnswered, AssessLive
<1>2. Assessing(p) /\ procs[p].pc = "scan" /\ procs[p].options.cve
  BY <1>1 DEF Live, Assessing
<1>3. ProcOK(procs[p]) /\ procs[p] \in ProcRecords /\ WorldTypeOK
  BY ScanFacts
<1>4. memory \in Entries /\ EntriesOK(memory)
  BY <1>1, <1>3, LiveFacts, PutOK
<1>5. status \in Statuses
  BY StatusType
<1>6. answer \in Nat
  BY <1>1, LiveFacts
<1>7. \E day \in (today - Ttl)..today : AnsweredOn(About[Technology(p)].name, answer, day)
  <2>1. today \in (today - Ttl)..today
    BY <1>1, LiveFacts
  <2>2. AnsweredOn(Name(p), answer, today)
    BY <1>1, <1>3, LiveFacts, AnsweredNow
  <2>3. QED
    BY <2>1, <2>2 DEF Name
<1> HIDE DEF memory, answer, status
<1>8. Looked(p, proc) /\ proc.memory = memory
  BY <1>3, <1>4 DEF ProcRecords, Looked
<1> HIDE DEF proc
<1>9. QED
  BY <1>1, <1>2, <1>5, <1>6, <1>7, <1>8, AssessOK

\* NVD's answer goes to the memory, and counts as a failed lookup.
LEMMA AssessNotStoredOK ==
  ASSUME ScanInv, NEW p \in Procs, AssessNotStored(p)
  PROVE  /\ \E next : ProcOK(next) /\ procs' = [procs EXCEPT ![p] = next]
         /\ procs[p].pc # "off"
<1> DEFINE memory == Put(procs[p].memory, Name(p))
           proc == [[procs[p] EXCEPT !.memory = memory] EXCEPT !.warned = @ \cup {"lookup"}]
<1>1. Live(p) /\ Assess(p, proc, "unknown", 0)
  BY DEF AssessNotStored, LookupFailed
<1>2. Assessing(p) /\ procs[p].pc = "scan"
  BY <1>1 DEF Live, Assessing
<1>3. ProcOK(procs[p]) /\ procs[p] \in ProcRecords /\ WorldTypeOK
  BY ScanFacts
<1>4. memory \in Entries /\ EntriesOK(memory)
  BY <1>1, <1>3, LiveFacts, PutOK
<1> HIDE DEF memory
<1>5. Looked(p, proc)
  BY <1>3, <1>4 DEF ProcRecords, Looked
<1>6. "unknown" \in Statuses /\ 0 \in Nat
  BY DEF Statuses
<1> HIDE DEF proc
<1>7. QED
  BY <1>1, <1>2, <1>5, <1>6, AssessOK

\* A command that begins, and one that is killed, knows nothing yet.
Begins(p, next) ==
  ProcOK(next) /\ procs' = [procs EXCEPT ![p] = next] /\ (next.pc = "scan" => ~next.options.cve)

LEMMA StartOK ==
  ASSUME ScanInv, NEW p \in Procs,
         \/ \E options \in Options, db \in BOOLEAN : StartScan(p, options, db)
         \/ StartClear(p)
         \/ \E db \in BOOLEAN : StartRefresh(p, db)
         \/ Kill(p)
  PROVE  \E next : Begins(p, next)
<1>0. Catalog \in Nat
  BY WorldFacts DEF ScanInv, TypeOK
<1>1. ASSUME NEW options \in Options, NEW db \in BOOLEAN, StartScan(p, options, db) PROVE \E next : Begins(p, next)
  <2> DEFINE warned == IF options.cve /\ options.db /\ ~db THEN {"database"} ELSE {}
             pc == IF options.cve THEN "kev" ELSE "scan"
             next == [Off EXCEPT !.pc = pc, !.cmd = "scan", !.options = options, !.db = db, !.warned = warned]
  <2>1. procs' = [procs EXCEPT ![p] = next] /\ (db => options.cve /\ options.db)
    BY <1>1 DEF StartScan
  <2>2. /\ warned \subseteq {"database", "kev", "lookup"} /\ pc \in {"kev", "scan"}
        /\ options.cve \in BOOLEAN /\ options.db \in BOOLEAN /\ options \in Options
    BY ScanAssumption
  <2>3. /\ pc = "kev" <=> options.cve
        /\ options.cve /\ options.db /\ ~db => "database" \in warned
    BY <2>2
  <2> HIDE DEF warned, pc
  <2>4. /\ next \in ProcRecords /\ next.pc = pc /\ next.cmd = "scan" /\ next.options = options
        /\ next.db = db /\ next.results = <<>> /\ next.memory = NoEntries /\ next.exit = -1
        /\ next.since = 0 /\ next.got = 0 /\ next.warned = warned
    BY <2>2, OffFields DEF ProcRecords
  <2> HIDE DEF next
  <2>5. ControlOK(next)
    BY <1>0, <2>2, <2>3, <2>4 DEF ControlOK, Preparing
  <2>6. WarnedOK(next)
    BY <2>2, <2>3, <2>4 DEF WarnedOK
  <2>7. ProcOK(next)
    BY <2>4, <2>5, <2>6, StartedOK
  <2>8. QED
    BY <2>1, <2>2, <2>3, <2>4, <2>7 DEF Begins
<1>2. ASSUME StartClear(p) PROVE \E next : Begins(p, next)
  <2> DEFINE next == [Off EXCEPT !.pc = "clearKev", !.cmd = "clear"]
  <2>1. procs' = [procs EXCEPT ![p] = next]
    BY <1>2 DEF StartClear
  <2>2. /\ next \in ProcRecords /\ next.pc = "clearKev" /\ next.cmd = "clear" /\ next.results = <<>>
        /\ next.memory = NoEntries /\ next.exit = -1 /\ next.since = 0 /\ next.got = 0
    BY OffFields DEF ProcRecords
  <2> HIDE DEF next
  <2>3. ControlOK(next) /\ WarnedOK(next)
    BY <1>0, <2>2 DEF ControlOK, WarnedOK, Preparing
  <2>4. ProcOK(next)
    BY <2>2, <2>3, StartedOK
  <2>5. QED
    BY <2>1, <2>2, <2>4 DEF Begins
<1>3. ASSUME NEW db \in BOOLEAN, StartRefresh(p, db) PROVE \E next : Begins(p, next)
  <2> DEFINE refresh == [Off EXCEPT !.cmd = "refresh", !.since = Catalog]
             next == IF db THEN [refresh EXCEPT !.pc = "kev"] ELSE [refresh EXCEPT !.exit = 2]
  <2>1. procs' = [procs EXCEPT ![p] = next]
    BY <1>3 DEF StartRefresh
  <2>2. /\ refresh \in ProcRecords /\ refresh.cmd = "refresh" /\ refresh.results = <<>>
        /\ refresh.memory = NoEntries /\ refresh.exit = -1 /\ refresh.since = Catalog /\ refresh.got = 0
        /\ refresh.pc = "off"
    BY <1>0, OffFields DEF ProcRecords
  <2> HIDE DEF refresh
  <2>3. /\ next \in ProcRecords /\ next.cmd = "refresh" /\ next.results = <<>>
        /\ next.memory = NoEntries /\ next.since = Catalog /\ next.got = 0
        /\ (next.pc = "kev" /\ next.exit = -1) \/ (next.pc = "off" /\ next.exit = 2)
    BY <2>2 DEF ProcRecords
  <2> HIDE DEF next
  <2>4. ControlOK(next) /\ WarnedOK(next)
    BY <1>0, <2>3 DEF ControlOK, WarnedOK, Preparing
  <2>5. ProcOK(next)
    BY <2>3, <2>4, StartedOK
  <2>6. QED
    BY <2>1, <2>3, <2>5 DEF Begins
<1>4. ASSUME Kill(p) PROVE \E next : Begins(p, next)
  <2> DEFINE next == [Off EXCEPT !.cmd = "killed"]
  <2>1. procs' = [procs EXCEPT ![p] = next]
    BY <1>4 DEF Kill
  <2>2. /\ next \in ProcRecords /\ next.pc = "off" /\ next.cmd = "killed" /\ next.results = <<>>
        /\ next.memory = NoEntries /\ next.exit = -1 /\ next.since = 0 /\ next.got = 0
    BY OffFields DEF ProcRecords
  <2> HIDE DEF next
  <2>3. ControlOK(next) /\ WarnedOK(next)
    BY <1>0, <2>2 DEF ControlOK, WarnedOK, Preparing
  <2>4. ProcOK(next)
    BY <2>2, <2>3, StartedOK
  <2>5. QED
    BY <2>1, <2>2, <2>4 DEF Begins
<1>5. QED
  BY <1>1, <1>2, <1>3, <1>4

\* `cache clear`, and a signal.
LEMMA ClearOK ==
  ASSUME ScanInv, NEW p \in Procs, ClearKev(p) \/ ClearNvd(p) \/ ClearFails(p) \/ Interrupt(p)
  PROVE  (\E next : GoesOnAs(p, next)) /\ procs[p].pc # "off"
<1> DEFINE proc == procs[p]
<1>0. WorldTypeOK /\ ProcOK(proc) /\ proc \in ProcRecords /\ ControlOK(proc) /\ WarnedOK(proc) /\ ExitOK(proc)
  BY ScanFacts DEF ProcOK
<1>1. CASE ClearKev(p)
  <2> DEFINE next == [proc EXCEPT !.pc = "clearNvd"]
  <2>1. proc.pc = "clearKev" /\ procs' = [procs EXCEPT ![p] = next]
    BY <1>1 DEF ClearKev, Goes
  <2>2. /\ next \in ProcRecords /\ next.pc = "clearNvd" /\ next.cmd = proc.cmd /\ next.results = proc.results
        /\ next.options = proc.options /\ next.db = proc.db /\ next.memory = proc.memory
        /\ next.exit = proc.exit /\ next.got = proc.got /\ next.since = proc.since
        /\ next.warned = proc.warned /\ next.kev = proc.kev
    BY <1>0 DEF ProcRecords
  <2> HIDE DEF next
  <2>3. ControlOK(next) /\ WarnedOK(next) /\ ExitOK(next)
    BY <1>0, <2>1, <2>2 DEF ControlOK, WarnedOK, ExitOK, Preparing
  <2>4. ProcOK(next)
    BY <1>0, <2>2, <2>3, PreparedOK
  <2>5. QED
    BY <2>1, <2>2, <2>4 DEF GoesOnAs
<1>2. CASE ClearNvd(p)
  <2> DEFINE next == [proc EXCEPT !.pc = "off", !.exit = 0, !.got = 0, !.memory = NoEntries]
  <2>1. Exits(p, "clearNvd", 0) /\ proc.pc = "clearNvd"
    BY <1>2 DEF ClearNvd, Exits, Goes
  <2>2. next.cmd = "clear"
    BY <1>0, <2>1 DEF ControlOK, ProcRecords
  <2>3. ExitOK(next)
    BY <2>2 DEF ExitOK
  <2>4. QED
    BY <1>0, <2>1, <2>3, ExitsOK DEF GoesOnAs
<1>3. CASE ClearFails(p)
  <2>1. PICK pc \in {"clearKev", "clearNvd"} : Exits(p, pc, 2)
    BY <1>3 DEF ClearFails
  <2>2. proc.pc = pc
    BY <2>1 DEF Exits, Goes
  <2>3. QED
    BY <1>0, <2>1, <2>2, FailsOK DEF GoesOnAs
<1>4. CASE Interrupt(p)
  <2> DEFINE next == [proc EXCEPT !.interrupted = TRUE]
  <2>1. proc.pc # "off" /\ procs' = [procs EXCEPT ![p] = next]
    BY <1>4 DEF Interrupt, Active
  <2>2. /\ next \in ProcRecords /\ next.pc = proc.pc /\ next.cmd = proc.cmd /\ next.results = proc.results
        /\ next.options = proc.options /\ next.db = proc.db /\ next.memory = proc.memory
        /\ next.exit = proc.exit /\ next.got = proc.got /\ next.since = proc.since
        /\ next.warned = proc.warned /\ next.kev = proc.kev
    BY <1>0 DEF ProcRecords
  <2> HIDE DEF next
  <2>3. ControlOK(next) /\ WarnedOK(next)
    BY <1>0, <2>1, <2>2 DEF ControlOK, WarnedOK
  <2>4. ExitOK(next)
    BY <2>1, <2>2, <2>3 DEF ControlOK, ExitOK
  <2>5. ProcOK(next)
    BY <1>0, <2>2, <2>3, <2>4, PreparedOK
  <2>6. QED
    BY <2>1, <2>2, <2>5 DEF GoesOnAs
<1>5. QED
  BY <1>1, <1>2, <1>3, <1>4

--------------------------------------------------------------------------------
(* The steps of a command: the files and what was stored *)

\* A process that goes on, while the file stays as it is.
LEMMA QuietKept ==
  ASSUME ScanInv, NEW p \in Procs, NEW next, GoesOnAs(p, next), procs[p].pc # "off",
         UNCHANGED <<today, nvdFile, stored>>, overlap' = TRUE \/ overlap' = overlap
  PROVE  QuietInv'
<1> SUFFICES ASSUME ~overlap' PROVE QuietInv'
  BY DEF QuietInv
<1>1. QuietInv /\ ~overlap /\ procs \in [Procs -> ProcRecords]
  BY DEF ScanInv, TypeOK
<1>2. procs' = [procs EXCEPT ![p] = next]
  BY DEF GoesOnAs
<1>3. \A q \in Procs : procs'[q] = IF q = p THEN next ELSE procs[q]
  BY <1>1, <1>2
<1>4. \A q, r \in Procs : Active(q)' /\ Active(r)' => q = r
  BY <1>1, <1>3 DEF QuietInv, Active
<1>5. ASSUME NEW q \in Procs, procs'[q].pc = "scan" /\ procs'[q].options.cve PROVE procs'[q].memory = nvdFile'
  BY <1>1, <1>3, <1>5 DEF QuietInv, GoesOnAs
<1>6. \A n \in Names : (Fresh(stored[n])' => nvdFile'[n] = stored'[n]) /\ (nvdFile'[n] # None => nvdFile'[n] = stored'[n])
  BY <1>1 DEF QuietInv, Fresh
<1>7. QED
  BY <1>4, <1>5, <1>6 DEF QuietInv

\* A process that begins when no other runs.
LEMMA QuietStart ==
  ASSUME ScanInv, NEW p \in Procs, NEW next, Begins(p, next), UNCHANGED <<today, nvdFile, stored>>,
         overlap' = TRUE \/ overlap' = (overlap \/ \E q \in Procs : Active(q))
  PROVE  QuietInv'
<1> SUFFICES ASSUME ~overlap' PROVE QuietInv'
  BY DEF QuietInv
<1>1. QuietInv /\ ~overlap /\ procs \in [Procs -> ProcRecords] /\ \A q \in Procs : procs[q].pc = "off"
  BY DEF ScanInv, TypeOK, Active
<1>2. procs' = [procs EXCEPT ![p] = next] /\ (next.pc = "scan" => ~next.options.cve)
  BY DEF Begins
<1>3. \A q \in Procs : procs'[q] = IF q = p THEN next ELSE procs[q]
  BY <1>1, <1>2
<1>4. \A q, r \in Procs : Active(q)' /\ Active(r)' => q = r
  BY <1>1, <1>3 DEF Active
<1>5. ASSUME NEW q \in Procs, procs'[q].pc = "scan" /\ procs'[q].options.cve PROVE procs'[q].memory = nvdFile'
  BY <1>1, <1>2, <1>3, <1>5
<1>6. \A n \in Names : (Fresh(stored[n])' => nvdFile'[n] = stored'[n]) /\ (nvdFile'[n] # None => nvdFile'[n] = stored'[n])
  BY <1>1 DEF QuietInv, Fresh
<1>7. QED
  BY <1>4, <1>5, <1>6 DEF QuietInv

\* An answer that is stored: the process had the whole file in its memory.
LEMMA QuietAnswered ==
  ASSUME ScanInv, NEW p \in Procs, AssessAnswered(p)
  PROVE  QuietInv'
<1> SUFFICES ASSUME ~overlap' PROVE QuietInv'
  BY DEF QuietInv
<1>1. QuietInv /\ ~overlap /\ procs \in [Procs -> ProcRecords] /\ WorldTypeOK
  BY DEF ScanInv, TypeOK, AssessAnswered
<1>2. PICK next : /\ procs' = [procs EXCEPT ![p] = next] /\ next.pc = "scan" /\ next.memory = nvdFile'
                  /\ procs[p].pc = "scan" /\ procs[p].options.cve
  BY AssessAnsweredOK
<1>3. \A q \in Procs : procs'[q] = IF q = p THEN next ELSE procs[q]
  BY <1>1, <1>2
<1>4. \A q \in Procs : q # p => procs[q].pc = "off"
  BY <1>1, <1>2 DEF QuietInv, Active
<1>5. \A q, r \in Procs : Active(q)' /\ Active(r)' => q = r
  BY <1>3, <1>4 DEF Active
<1>6. ASSUME NEW q \in Procs, procs'[q].pc = "scan" /\ procs'[q].options.cve PROVE procs'[q].memory = nvdFile'
  BY <1>2, <1>3, <1>4, <1>6
<1>7. Name(p) \in Names /\ procs[p].memory = nvdFile
  <2>1. Live(p)
    BY DEF AssessAnswered
  <2>2. QED
    BY <1>1, <1>2, <2>1, LiveFacts DEF QuietInv
<1>8. /\ nvdFile' = Put(nvdFile, Name(p)) /\ stored \in Entries
      /\ stored' = [stored EXCEPT ![Name(p)] = nvdFile'[Name(p)]] /\ UNCHANGED today
  BY <1>7 DEF AssessAnswered, AssessLive, Assess, Goes, world, ScanInv, TypeOK
<1>9. \A n \in Names : stored'[n] = IF n = Name(p) THEN nvdFile'[n] ELSE stored[n]
  BY <1>7, <1>8 DEF Entries
<1>10. ASSUME NEW n \in Names, n # Name(p)
       PROVE  (Fresh(stored[n])' => nvdFile'[n] = stored'[n]) /\ (nvdFile'[n] # None => nvdFile'[n] = stored'[n])
  <2>1. nvdFile'[n] = IF Fresh(nvdFile[n]) THEN nvdFile[n] ELSE None
    BY <1>8, <1>10 DEF Put
  <2>2. stored'[n] = stored[n] /\ (Fresh(stored[n])' <=> Fresh(stored[n]))
    BY <1>8, <1>9, <1>10 DEF Fresh
  <2>3. (Fresh(stored[n]) => nvdFile[n] = stored[n]) /\ (nvdFile[n] # None => nvdFile[n] = stored[n])
    BY <1>1 DEF QuietInv
  <2>4. Fresh(nvdFile[n]) => nvdFile[n] # None
    BY DEF Fresh, None
  <2>5. QED
    BY <2>1, <2>2, <2>3, <2>4
<1>11. QED
  BY <1>5, <1>6, <1>9, <1>10 DEF QuietInv

\* A cache that is cleared.
LEMMA QuietCleared ==
  ASSUME ScanInv, NEW p \in Procs, ClearNvd(p)
  PROVE  QuietInv'
<1> SUFFICES ASSUME ~overlap' PROVE QuietInv'
  BY DEF QuietInv
<1>1. QuietInv /\ ~overlap /\ procs \in [Procs -> ProcRecords] /\ nvdFile' = NoEntries /\ stored' = NoEntries
  BY DEF ScanInv, TypeOK, ClearNvd
<1>2. PICK next : GoesOnAs(p, next) /\ procs[p].pc = "clearNvd" /\ next.pc = "off"
  <2> DEFINE next == [procs[p] EXCEPT !.pc = "off", !.exit = 0, !.got = 0, !.memory = NoEntries]
  <2>1. procs' = [procs EXCEPT ![p] = next] /\ procs[p].pc = "clearNvd"
    BY DEF ClearNvd, Exits, Goes
  <2>2. next.pc = "off"
    BY <1>1 DEF ProcRecords
  <2> HIDE DEF next
  <2>3. PICK other : GoesOnAs(p, other)
    BY ClearOK
  <2>4. procs'[p] = next /\ procs'[p] = other
    BY <1>1, <2>1, <2>3 DEF GoesOnAs
  <2>5. QED
    BY <2>1, <2>2, <2>3, <2>4
<1>3. \A q \in Procs : procs'[q].pc = "off"
  BY <1>1, <1>2 DEF QuietInv, Active, GoesOnAs
<1>4. \A n \in Names : ~Fresh(None)' /\ stored'[n] = None /\ nvdFile'[n] = None
  BY <1>1, OffFields DEF Fresh, None
<1>5. QED
  BY <1>3, <1>4 DEF QuietInv, Active, Fresh

\* What is known of the files and of the histories.
SharedOK ==
  /\ kevFile \in [answer : 0..Catalog, day : 0..today]
  /\ nvdFile \in Entries /\ EntriesOK(nvdFile)
  /\ trouble \in 0..MaxTrouble
  /\ stored \in Entries /\ overlap \in BOOLEAN

LEMMA SharedFacts == ASSUME ScanInv PROVE SharedOK
BY DEF ScanInv, TypeOK, SharedOK

\* Steps that leave the files and what was stored alone.
LEMMA SharedKept ==
  ASSUME ScanInv, UNCHANGED <<world, files, stored>>, trouble' \in 0..MaxTrouble, overlap' \in BOOLEAN
  PROVE  SharedOK'
<1>1. SharedOK /\ UNCHANGED <<today, replaced, published, kevFile, nvdFile, stored>>
  BY SharedFacts DEF world, files
<1>2. EntriesOK(nvdFile)'
  BY <1>1 DEF SharedOK, EntriesOK, EntryOK, AnsweredOn, WasOn
<1>3. QED
  BY <1>1, <1>2 DEF SharedOK, Catalog

LEMMA SharedNext ==
  ASSUME ScanInv, NEW p \in Procs, Command(p)
  PROVE  SharedOK' /\ UNCHANGED world
<1>1. SharedOK /\ trouble \in 0..MaxTrouble /\ MaxTrouble \in Nat /\ overlap \in BOOLEAN /\ WorldTypeOK
  BY SharedFacts, ScanAssumption DEF SharedOK, ScanInv, TypeOK
<1>2. Calm \/ Interrupts \/ Trouble =>
        UNCHANGED stored /\ trouble' \in 0..MaxTrouble /\ overlap' \in BOOLEAN
  <2>1. Calm => UNCHANGED <<trouble, stored, overlap>>
    BY DEF Calm, history
  <2>2. Interrupts \/ Trouble =>
          UNCHANGED stored /\ trouble < MaxTrouble /\ trouble' = trouble + 1 /\ (overlap' = overlap \/ overlap' = TRUE)
    BY DEF Interrupts, Trouble, history
  <2>3. trouble < MaxTrouble => trouble + 1 \in 0..MaxTrouble
    BY <1>1
  <2>4. QED
    BY <1>1, <2>1, <2>2, <2>3
<1>3. UNCHANGED <<world, files>> /\ (Calm \/ Interrupts \/ Trouble) => SharedOK' /\ UNCHANGED world
  <2>1. SUFFICES ASSUME UNCHANGED <<world, files>>, Calm \/ Interrupts \/ Trouble PROVE SharedOK' /\ UNCHANGED world
    OBVIOUS
  <2>2. UNCHANGED <<world, files, stored>> /\ trouble' \in 0..MaxTrouble /\ overlap' \in BOOLEAN
    BY <1>2, <2>1
  <2>3. QED
    BY <2>2, SharedKept
<1>4. CASE ReadKev(p) \/ FetchKev(p) \/ OpenCache(p) \/ Detect(p) \/ Finish(p)
  BY <1>3, <1>4 DEF ReadKev, FetchKev, OpenCache, Detect, Finish, Goes, Exits
<1>5. CASE AssessStored(p) \/ AssessCached(p)
  BY <1>3, <1>5 DEF AssessStored, AssessCached, AssessLive, Assess, Goes
<1>6. CASE KevUnavailable(p) \/ DetectFails(p) \/ AssessFails(p)
  <2>1. UNCHANGED <<world, files>> /\ RequestFails(p)
    BY <1>6 DEF KevUnavailable, DetectFails, AssessFails, WithoutKev, LookupFailed, Assess, Goes, Exits
  <2>2. QED
    BY <1>3, <2>1 DEF RequestFails
<1>7. CASE KevNotWritten(p) \/ OpenCacheFails(p) \/ OutputFails(p) \/ AssessNotStored(p) \/ ClearFails(p) \/ Kill(p)
  BY <1>3, <1>7 DEF KevNotWritten, OpenCacheFails, OutputFails, AssessNotStored, ClearFails, Kill, WithoutKev,
     LookupFailed, Assess, Goes, Exits
<1>8. CASE Interrupt(p)
  BY <1>3, <1>8 DEF Interrupt
<1>9. CASE \/ \E options \in Options, db \in BOOLEAN : StartScan(p, options, db)
           \/ StartClear(p)
           \/ \E db \in BOOLEAN : StartRefresh(p, db)
  <2>1. UNCHANGED <<world, files, stored>> /\ overlap' \in BOOLEAN
    BY <1>1, <1>9 DEF StartScan, StartClear, StartRefresh
  <2>2. trouble' \in 0..MaxTrouble
    <3>1. trouble' = trouble \/ (trouble' = trouble + 1 /\ trouble' <= MaxTrouble)
      BY <1>9 DEF StartScan, StartClear, StartRefresh
    <3>2. QED
      BY <1>1, <3>1
  <2>3. QED
    BY <2>1, <2>2, SharedKept
<1>10. CASE WriteKev(p)
  <2>1. UNCHANGED <<world, nvdFile, trouble, stored, overlap>> /\ kevFile' = [answer |-> procs[p].got, day |-> today]
    BY <1>10 DEF WriteKev, Goes, Calm, history
  <2>2. procs[p].got \in 0..Catalog /\ today \in Nat
    <3>1. procs[p].got \in Nat /\ procs[p].got <= Catalog
      BY ScanFacts DEF ProcOK, ControlOK, ProcRecords
    <3>2. QED
      BY <1>1, <3>1, WorldFacts
  <2>3. kevFile' \in [answer : 0..Catalog, day : 0..today]
    BY <2>1, <2>2
  <2>4. EntriesOK(nvdFile)'
    BY <1>1, <2>1 DEF SharedOK, EntriesOK, EntryOK, AnsweredOn, WasOn, world
  <2>5. QED
    BY <1>1, <2>1, <2>3, <2>4 DEF SharedOK, Catalog, world
<1>11. CASE ClearKev(p)
  <2>1. UNCHANGED <<world, nvdFile, trouble, stored, overlap>> /\ kevFile' = None
    BY <1>11 DEF ClearKev, Goes, Calm, history
  <2>2. kevFile' \in [answer : 0..Catalog, day : 0..today]
    BY <1>1, <2>1, WorldFacts DEF None
  <2>3. EntriesOK(nvdFile)'
    BY <1>1, <2>1 DEF SharedOK, EntriesOK, EntryOK, AnsweredOn, WasOn, world
  <2>4. QED
    BY <1>1, <2>1, <2>2, <2>3 DEF SharedOK, Catalog, world
<1>12. CASE ClearNvd(p)
  <2>1. /\ UNCHANGED <<world, kevFile, trouble, overlap>> /\ nvdFile' = NoEntries /\ stored' = NoEntries
    BY <1>12 DEF ClearNvd, Exits, Goes
  <2>2. EntriesOK(nvdFile)'
    BY <2>1, EmptyEntries DEF EntriesOK, EntryOK, AnsweredOn, WasOn, world
  <2>3. QED
    BY <1>1, <2>1, <2>2, OffFields DEF SharedOK, Catalog, world
<1>13. CASE AssessAnswered(p)
  <2> DEFINE memory == Put(procs[p].memory, Name(p))
  <2>1. /\ UNCHANGED <<world, kevFile, trouble, overlap>> /\ nvdFile' = memory
        /\ stored' = [stored EXCEPT ![Name(p)] = memory[Name(p)]]
    BY <1>13 DEF AssessAnswered, AssessLive, Assess, Goes
  <2>2. Live(p)
    BY <1>13 DEF AssessAnswered
  <2>3. memory \in Entries /\ EntriesOK(memory) /\ memory[Name(p)] \in Entry
    BY <1>1, <2>2, LiveFacts, PutOK DEF Entries
  <2> HIDE DEF memory
  <2>4. EntriesOK(nvdFile)'
    BY <2>1, <2>3 DEF EntriesOK, EntryOK, AnsweredOn, WasOn, world
  <2>5. stored' \in Entries
    BY <1>1, <2>1, <2>3 DEF SharedOK, Entries
  <2>6. QED
    BY <1>1, <2>1, <2>3, <2>4, <2>5 DEF SharedOK, Catalog, world
<1>14. QED
  BY <1>4, <1>5, <1>6, <1>7, <1>8, <1>9, <1>10, <1>11, <1>12, <1>13 DEF Command, Prepare, Scan

--------------------------------------------------------------------------------
(* The steps of the world *)

\* An answer that was given on a day that is past stays what was given on that day.
LEMMA WasOnGrows ==
  ASSUME WorldTypeOK, NEW n \in Names, NvdChanges(n), NEW name \in Names, NEW answer \in Nat, NEW day \in Int,
         day <= today, AnsweredOn(name, answer, day)
  PROVE  AnsweredOn(name, answer, day)'
<1> DEFINE old == replaced[name]
           new == replaced'[name]
<1>1. today \in Nat /\ old \in Seq(0..today) /\ Len(old) \in Nat /\ replaced \in [Names -> Seq(0..today)]
  BY WorldFacts DEF WorldTypeOK
<1>2. new = old \/ new = Append(old, today)
  BY <1>1 DEF NvdChanges
<1>3. WasOn(old, answer, day)
  BY DEF AnsweredOn
<1>4. CASE new = Append(old, today)
  <2>1. /\ Len(new) = Len(old) + 1 /\ new[Len(old) + 1] = today
        /\ \A i \in 1..Len(old) : new[i] = old[i]
    BY <1>1, <1>4, AppendProperties
  <2> HIDE DEF new, old
  <2>2. answer \in 1..(Len(new) + 1)
    BY <1>1, <1>3, <2>1 DEF WasOn
  <2>3. answer > 1 => new[answer - 1] <= day
    <3>1. answer > 1 => answer - 1 \in 1..Len(old)
      BY <1>1, <1>3 DEF WasOn
    <3>2. QED
      BY <1>3, <2>1, <3>1 DEF WasOn
  <2>4. answer <= Len(new) => day <= new[answer]
    <3>1. answer <= Len(new) => answer \in 1..Len(old) \/ answer = Len(old) + 1
      BY <1>1, <1>3, <2>1 DEF WasOn
    <3>2. QED
      BY <1>1, <1>3, <2>1, <3>1 DEF WasOn
  <2>5. QED
    BY <2>2, <2>3, <2>4 DEF AnsweredOn, WasOn, new
<1>5. QED
  BY <1>2, <1>3, <1>4 DEF AnsweredOn

\* What was known to be an answer of a day is known still.
LEMMA AnsweredGrows ==
  ASSUME WorldTypeOK, World, NEW name \in Names, NEW answer \in Nat, NEW day \in Int,
         day <= today, AnsweredOn(name, answer, day)
  PROVE  AnsweredOn(name, answer, day)' /\ day <= today'
<1>1. today \in Nat
  BY WorldFacts
<1>2. CASE DayPasses \/ KevPublished
  BY <1>1, <1>2 DEF DayPasses, KevPublished, AnsweredOn, WasOn
<1>3. CASE \E n \in Names : NvdChanges(n)
  BY <1>1, <1>3, WasOnGrows DEF NvdChanges
<1>4. QED
  BY <1>2, <1>3 DEF World

\* Every assessment is of a technology.
LEMMA AssessedType ==
  ASSUME NEW results \in Seq(Results), NEW a \in AssessedOf(results)
  PROVE  a \in Assessments
<1>1. PICK i \in DOMAIN results : a \in AssessedIn(results[i])
  BY DEF AssessedOf
<1>2. results[i].assessed \in Seq(Assessments)
  <2>1. i \in 1..Len(results)
    BY <1>1, LenProperties
  <2>2. results[i] \in Results
    BY <2>1, ElementOfSeq
  <2>3. QED
    BY <2>2 DEF Results
<1>3. PICK k \in DOMAIN results[i].assessed : a = results[i].assessed[k]
  BY <1>1 DEF AssessedIn
<1>4. k \in 1..Len(results[i].assessed)
  BY <1>2, <1>3, LenProperties
<1>5. QED
  BY <1>2, <1>3, <1>4, ElementOfSeq

LEMMA EntriesGrow ==
  ASSUME WorldTypeOK, World, NEW entries \in Entries, EntriesOK(entries)
  PROVE  \A n \in Names : entries[n].answer # 0 => entries[n].day <= today' /\ AnsweredOn(n, entries[n].answer, entries[n].day)'
<1> SUFFICES ASSUME NEW n \in Names, entries[n].answer # 0
             PROVE  entries[n].day <= today' /\ AnsweredOn(n, entries[n].answer, entries[n].day)'
  OBVIOUS
<1> DEFINE answer == entries[n].answer
           day == entries[n].day
<1>1. answer \in Nat /\ day \in Nat
  BY DEF Entries, Entry
<1>2. day <= today /\ AnsweredOn(n, answer, day)
  BY DEF EntriesOK, EntryOK
<1>3. day \in Int
  BY <1>1
<1> HIDE DEF answer, day
<1>4. day <= today' /\ AnsweredOn(n, answer, day)'
  BY <1>1, <1>2, <1>3, AnsweredGrows
<1>5. QED
  BY <1>4 DEF answer, day

\* What a process knows stays true when the world goes on.
LEMMA ProcWorld ==
  ASSUME WorldTypeOK, World, NEW p \in Procs, ProcOK(procs[p]), UNCHANGED procs
  PROVE  ProcOK(procs[p])'
<1> DEFINE proc == procs[p]
<1>1. proc \in ProcRecords /\ today \in Nat /\ Catalog \in Nat /\ Ttl \in Nat
  BY WorldFacts, SourcesAssumption DEF ProcOK
<1>2. Catalog' >= Catalog
  <2>1. published' = published \/ published' = Append(published, today)
    BY DEF World, DayPasses, NvdChanges, KevPublished
  <2>2. published \in Seq(0..today) /\ today \in 0..today
    BY <1>1 DEF WorldTypeOK
  <2>3. Len(published') = Len(published) \/ Len(published') = Len(published) + 1
    BY <2>1, <2>2, AppendProperties
  <2>4. Len(published) \in Nat
    BY <2>2, LenProperties
  <2>5. QED
    BY <2>3, <2>4 DEF Catalog
<1>3. EntriesOK(proc.memory)'
  <2>1. proc.memory \in Entries /\ EntriesOK(proc.memory)
    BY <1>1 DEF ProcOK, ProcRecords
  <2>2. QED
    BY <2>1, EntriesGrow DEF EntriesOK, EntryOK
<1>4. VerdictsOK(proc.results, proc.options, proc.db)'
  <2> SUFFICES ASSUME NEW a \in AssessedOf(proc.results) PROVE VerdictOK(a, proc.options, proc.db)'
    BY DEF VerdictsOK, AssessedOf, AssessedIn
  <2>1. a \in Assessments /\ VerdictOK(a, proc.options, proc.db)
    BY <1>1, AssessedType DEF ProcOK, VerdictsOK, ProcRecords
  <2>2. a.day \in Nat /\ a.answer \in Nat /\ a.tech \in Technologies
    BY <2>1 DEF Assessments
  <2>3. a.day <= today /\ a.day <= today'
    <3>1. a.day <= today /\ (today' = today \/ today' = today + 1)
      BY <2>1 DEF VerdictOK, World, DayPasses, NvdChanges, KevPublished
    <3>2. QED
      BY <1>1, <2>2, <3>1
  <2>4. ASSUME proc.options.cve, NeedsNvd(a.tech, proc.db), a.status # "unknown"
        PROVE  \E day \in (a.day - Ttl)..a.day : AnsweredOn(About[a.tech].name, a.answer, day)'
    <3>1. PICK day \in (a.day - Ttl)..a.day : AnsweredOn(About[a.tech].name, a.answer, day)
      BY <2>1, <2>4 DEF VerdictOK
    <3>2. day \in Int /\ day <= today
      BY <1>1, <2>2, <2>3
    <3>3. About[a.tech].name \in Names
      <4>1. About[a.tech] \in TechnologyFacts
        BY <2>2, VerdictAssumption
      <4>2. QED
        BY <2>4, <4>1 DEF TechnologyFacts, NeedsNvd
    <3>4. AnsweredOn(About[a.tech].name, a.answer, day)'
      BY <2>2, <3>1, <3>2, <3>3, AnsweredGrows
    <3>5. QED
      BY <3>4
  <2>5. QED
    BY <2>3, <2>4 DEF VerdictOK
<1>5. ControlOK(proc)'
  <2>1. proc.since \in Nat /\ proc.got \in Nat
    BY <1>1 DEF ProcRecords
  <2>2. ControlOK(proc) /\ Catalog' \in Int
    BY DEF ProcOK, Catalog
  <2>3. QED
    BY <1>1, <1>2, <2>1, <2>2 DEF ControlOK, Preparing
<1>6. QED
  BY <1>1, <1>3, <1>4, <1>5, SMTT(30) DEF ProcOK, Fits, WarnedOK, ExitOK, AssessedOf, AssessedIn

\* The answers that are fresh are fewer.
LEMMA QuietWorld ==
  ASSUME ScanInv, World, UNCHANGED <<files, procs, history>>
  PROVE  QuietInv'
<1>1. /\ QuietInv /\ UNCHANGED <<nvdFile, procs, stored, overlap>> /\ stored \in Entries
      /\ today \in Nat /\ today' \in Nat /\ today <= today'
  <2>1. today \in Nat /\ (today' = today \/ today' = today + 1)
    BY WorldFacts DEF ScanInv, TypeOK, World, DayPasses, NvdChanges, KevPublished
  <2>2. QED
    BY <2>1 DEF ScanInv, TypeOK, files, history
<1>2. ASSUME NEW n \in Names, Fresh(stored[n])' PROVE Fresh(stored[n])
  <2>1. stored[n].day \in Nat /\ Ttl \in Nat
    BY <1>1, SourcesAssumption DEF Entries, Entry
  <2>2. QED
    BY <1>1, <1>2, <2>1 DEF Fresh
<1>3. QED
  BY <1>1, <1>2 DEF QuietInv, Active

LEMMA SeqGrows ==
  ASSUME NEW m \in Nat, NEW n \in Nat, m <= n, NEW s \in Seq(0..m)
  PROVE  s \in Seq(0..n)
<1>1. s \in [1..Len(s) -> 0..m] /\ Len(s) \in Nat
  BY LenProperties
<1>2. s \in [1..Len(s) -> 0..n]
  BY <1>1
<1>3. QED
  BY <1>1, <1>2, SeqDef

LEMMA WorldTypeNext ==
  ASSUME WorldTypeOK, World
  PROVE  WorldTypeOK' /\ today <= today' /\ Catalog <= Catalog'
<1>1. /\ today \in Nat /\ today <= MaxDays /\ MaxDays \in Nat /\ today \in 0..today
      /\ replaced \in [Names -> Seq(0..today)] /\ published \in Seq(0..today)
      /\ Catalog \in Nat
  BY WorldFacts, SourcesAssumption DEF WorldTypeOK
<1>2. CASE DayPasses
  <2>1. today' \in 0..MaxDays /\ today' \in Nat /\ today <= today' /\ UNCHANGED <<replaced, published>>
    BY <1>1, <1>2 DEF DayPasses
  <2>2. published' \in Seq(0..today')
    BY <1>1, <2>1, SeqGrows
  <2>3. replaced' \in [Names -> Seq(0..today')]
    <3>1. \A n \in Names : replaced[n] \in Seq(0..today')
      BY <1>1, <2>1, SeqGrows
    <3>2. QED
      BY <1>1, <2>1, <3>1
  <2>4. QED
    BY <1>1, <2>1, <2>2, <2>3 DEF WorldTypeOK, Catalog
<1>3. ASSUME NEW n \in Names, NvdChanges(n) PROVE WorldTypeOK' /\ today <= today' /\ Catalog <= Catalog'
  <2>1. /\ UNCHANGED <<today, published>> /\ replaced' = [replaced EXCEPT ![n] = Append(replaced[n], today)]
        /\ Len(replaced[n]) + 1 < Len(Answers[n])
    BY <1>3 DEF NvdChanges, Now
  <2>2. Append(replaced[n], today) \in Seq(0..today) /\ Len(Append(replaced[n], today)) = Len(replaced[n]) + 1
    BY <1>1, AppendProperties
  <2>3. replaced' \in [Names -> Seq(0..today')]
    BY <1>1, <2>1, <2>2
  <2>4. \A k \in Names : Len(replaced'[k]) < Len(Answers[k])
    BY <1>1, <2>1, <2>2 DEF WorldTypeOK
  <2>5. QED
    BY <1>1, <2>1, <2>3, <2>4 DEF WorldTypeOK, Catalog
<1>4. CASE KevPublished
  <2>1. /\ UNCHANGED <<today, replaced>> /\ published' = Append(published, today)
        /\ Len(published) + 1 < Len(Catalogs)
    BY <1>4 DEF KevPublished, Catalog
  <2>2. published' \in Seq(0..today') /\ Len(published') = Len(published) + 1 /\ Len(published) \in Nat
    BY <1>1, <2>1, AppendProperties, LenProperties
  <2>3. QED
    BY <1>1, <2>1, <2>2 DEF WorldTypeOK, Catalog
<1>5. QED
  BY <1>2, <1>3, <1>4 DEF World

LEMMA SharedWorld ==
  ASSUME ScanInv, World, UNCHANGED <<files, trouble, history>>
  PROVE  SharedOK'
<1>1. SharedOK /\ WorldTypeOK /\ UNCHANGED <<kevFile, nvdFile, trouble, stored, overlap>>
  BY SharedFacts DEF ScanInv, TypeOK, files, history
<1>2. kevFile' \in [answer : 0..(Catalog'), day : 0..(today')]
  <2>1. today <= today' /\ Catalog <= Catalog' /\ today \in Nat /\ today' \in Nat /\ Catalog \in Nat /\ Catalog' \in Nat
    <3>1. WorldTypeOK' /\ today <= today' /\ Catalog <= Catalog'
      BY <1>1, WorldTypeNext
    <3>2. today' \in Nat /\ Catalog' \in Nat
      <4>1. today' \in Nat
        BY <3>1, SourcesAssumption DEF WorldTypeOK
      <4>2. published' \in Seq(0..(today'))
        BY <3>1 DEF WorldTypeOK
      <4>3. QED
        BY <4>1, <4>2, LenProperties DEF Catalog
    <3>3. QED
      BY <1>1, <3>1, <3>2, WorldFacts
  <2>2. 0..Catalog \subseteq 0..(Catalog') /\ 0..today \subseteq 0..(today')
    BY <2>1
  <2>3. QED
    BY <1>1, <2>2 DEF SharedOK
<1>3. EntriesOK(nvdFile)'
  BY <1>1, EntriesGrow DEF SharedOK, EntriesOK, EntryOK
<1>4. QED
  BY <1>1, <1>2, <1>3 DEF SharedOK

--------------------------------------------------------------------------------
(* Theorems *)

\* What the lemmas say of the parts is all of the invariant.
Parts ==
  /\ WorldTypeOK /\ SharedOK /\ QuietInv
  /\ procs \in [Procs -> ProcRecords] /\ \A p \in Procs : ProcOK(procs[p])

LEMMA InvFromParts == Parts => ScanInv
<1> SUFFICES ASSUME Parts PROVE ScanInv
  OBVIOUS
<1> USE DEF Parts
<1>1. ASSUME NEW n \in Names PROVE nvdFile[n].answer <= Now(n)
  <2>1. nvdFile[n].answer \in Nat /\ Now(n) \in Nat /\ EntryOK(n, nvdFile[n])
    BY WorldFacts DEF SharedOK, EntriesOK, Entries, Entry
  <2>2. CASE nvdFile[n].answer = 0
    BY <2>1, <2>2
  <2>3. CASE nvdFile[n].answer # 0
    <3>1. nvdFile[n].answer \in 1..(Len(replaced[n]) + 1)
      BY <2>1, <2>3 DEF EntryOK, AnsweredOn, WasOn
    <3>2. Len(replaced[n]) \in Nat
      BY WorldFacts
    <3>3. QED
      BY <3>1, <3>2 DEF Now
  <2>4. QED
    BY <2>2, <2>3
<1>2. \A p \in Procs : Len(procs[p].results) <= Len(Targets)
  BY DEF ProcOK, Fits
<1>3. QED
  BY <1>1, <1>2 DEF ScanInv, TypeOK, SharedOK

LEMMA InitInv == Init => ScanInv
<1> SUFFICES ASSUME Init PROVE ScanInv
  OBVIOUS
<1>1. WorldTypeOK
  <2>1. /\ today = 0 /\ replaced = [n \in Names |-> <<>>] /\ published = <<>>
        /\ \A n \in Names : Answers[n] \in Seq(SUBSET Records) \ {<<>>}
        /\ Catalogs \in Seq(SUBSET Records) \ {<<>>} /\ MaxDays \in Nat
    BY SourcesAssumption DEF Init, WorldInit
  <2>2. <<>> \in Seq(0..0) /\ Len(<<>>) = 0
    BY EmptySeq
  <2>3. \A s \in Seq(SUBSET Records) \ {<<>>} : 0 < Len(s)
    BY EmptySeq, LenProperties
  <2>4. QED
    BY <2>1, <2>2, <2>3 DEF WorldTypeOK
<1>2. /\ kevFile = None /\ nvdFile = NoEntries /\ stored = NoEntries /\ overlap = FALSE /\ trouble = 0
      /\ procs = [p \in Procs |-> Off]
  BY DEF Init
<1>3. SharedOK
  <2>1. kevFile \in [answer : 0..Catalog, day : 0..today]
    BY <1>1, <1>2, WorldFacts DEF None
  <2>2. QED
    <3>1. 0 \in 0..MaxTrouble /\ FALSE \in BOOLEAN
      BY ScanAssumption
    <3>2. nvdFile \in Entries /\ EntriesOK(nvdFile) /\ stored \in Entries
      BY <1>2, OffFields, EmptyEntries
    <3>3. QED
      BY <1>2, <2>1, <3>1, <3>2 DEF SharedOK
<1>4. procs \in [Procs -> ProcRecords] /\ \A p \in Procs : procs[p].pc = "off"
  BY <1>2, OffFields
<1>5. \A p \in Procs : ProcOK(procs[p])
  <2>1. ControlOK(Off) /\ WarnedOK(Off)
    BY <1>1, OffFields, WorldFacts DEF ControlOK, WarnedOK, Preparing
  <2>2. ProcOK(Off)
    BY <2>1, OffFields, StartedOK
  <2>3. QED
    BY <1>2, <2>2
<1>6. QuietInv
  BY <1>2, <1>4 DEF QuietInv, Active
<1>7. QED
  BY <1>1, <1>3, <1>4, <1>5, <1>6, InvFromParts DEF Parts

LEMMA CommandInv ==
  ASSUME ScanInv, NEW p \in Procs, Command(p)
  PROVE  ScanInv'
<1>1. SharedOK' /\ UNCHANGED world
  BY SharedNext
<1>2. WorldTypeOK'
  BY <1>1 DEF ScanInv, TypeOK, WorldTypeOK, world
<1>3. (\E next : ProcOK(next) /\ procs' = [procs EXCEPT ![p] = next]) /\ QuietInv'
  <2>1. UNCHANGED today
    BY <1>1 DEF world
  <2>2. CASE \/ \E options \in Options, db \in BOOLEAN : StartScan(p, options, db)
             \/ StartClear(p)
             \/ \E db \in BOOLEAN : StartRefresh(p, db)
             \/ Kill(p)
    <3>1. PICK next : Begins(p, next)
      BY <2>2, StartOK
    <3>2. /\ UNCHANGED <<nvdFile, stored>>
          /\ overlap' = TRUE \/ overlap' = (overlap \/ \E q \in Procs : Active(q))
      BY <2>2 DEF StartScan, StartClear, StartRefresh, Kill, Trouble, files
    <3>3. QED
      BY <2>1, <3>1, <3>2, QuietStart DEF Begins
  <2>3. CASE ClearNvd(p)
    BY <2>3, ClearOK, QuietCleared DEF GoesOnAs
  <2>4. CASE AssessAnswered(p)
    BY <2>4, AssessAnsweredOK, QuietAnswered
  <2>5. CASE AssessNotStored(p)
    <3>1. overlap' = TRUE
      BY <2>5 DEF AssessNotStored, Trouble
    <3>2. QED
      BY <2>5, <3>1, AssessNotStoredOK DEF QuietInv
  <2>6. CASE \/ Prepare(p) \/ Detect(p) \/ DetectFails(p) \/ Finish(p) \/ OutputFails(p)
             \/ AssessStored(p) \/ AssessCached(p) \/ AssessFails(p)
             \/ ClearKev(p) \/ ClearFails(p) \/ Interrupt(p)
    <3>1. PICK next : GoesOnAs(p, next) /\ procs[p].pc # "off"
      BY <2>6, PrepareOK, DetectOK, FinishOK, AssessKeptOK, ClearOK
    <3>2. UNCHANGED <<nvdFile, stored>> /\ (overlap' = TRUE \/ overlap' = overlap)
      BY <2>6 DEF Prepare, ReadKev, FetchKev, WriteKev, KevUnavailable, KevNotWritten, OpenCache, OpenCacheFails,
         Detect, DetectFails, Finish, OutputFails, AssessStored, AssessCached, AssessFails, ClearKev, ClearFails,
         Interrupt, Calm, Interrupts, Trouble, RequestFails, files, history
    <3>3. QED
      BY <2>1, <3>1, <3>2, QuietKept DEF GoesOnAs
  <2>7. QED
    BY <2>2, <2>3, <2>4, <2>5, <2>6 DEF Command, Scan
<1>4. PICK next : ProcOK(next) /\ procs' = [procs EXCEPT ![p] = next]
  BY <1>3
<1>5. procs \in [Procs -> ProcRecords] /\ next \in ProcRecords
  BY <1>4 DEF ScanInv, TypeOK, ProcOK
<1>6. procs' \in [Procs -> ProcRecords]
  BY <1>4, <1>5
<1>7. ASSUME NEW q \in Procs PROVE ProcOK(procs[q])'
  <2>1. ProcOK(procs'[q])
    BY <1>4, <1>5 DEF ScanInv
  <2>2. QED
    BY <1>1, <2>1, Unmoved
<1>8. Parts'
  BY <1>1, <1>2, <1>3, <1>6, <1>7 DEF Parts
<1>9. QED
  BY <1>8, InvFromParts, PTL

LEMMA NextInv ==
  ASSUME ScanInv, [Next]_vars
  PROVE  ScanInv'
<1>1. ASSUME NEW p \in Procs, Command(p) PROVE ScanInv'
  BY <1>1, CommandInv
<1>2. ASSUME World, UNCHANGED <<files, procs, trouble, history>> PROVE ScanInv'
  <2>1. SharedOK' /\ WorldTypeOK' /\ QuietInv'
    BY <1>2, SharedWorld, WorldTypeNext, QuietWorld DEF ScanInv, TypeOK
  <2>2. procs' \in [Procs -> ProcRecords] /\ \A p \in Procs : ProcOK(procs[p])'
    BY <1>2, ProcWorld DEF ScanInv, TypeOK
  <2>3. Parts'
    BY <2>1, <2>2 DEF Parts
  <2>4. QED
    BY <2>3, InvFromParts, PTL
<1>3. ASSUME UNCHANGED vars PROVE ScanInv'
  <2>1. /\ UNCHANGED <<today, replaced, published, kevFile, nvdFile, procs, trouble, stored, overlap>>
        /\ \A n, number, day : AnsweredOn(n, number, day)' <=> AnsweredOn(n, number, day)
        /\ Catalog' = Catalog /\ \A n : Now(n)' = Now(n)
        /\ \A entry : Fresh(entry)' <=> Fresh(entry)
    BY <1>3 DEF vars, world, files, history, Catalog, Now, AnsweredOn, WasOn, Fresh
  <2>2. TypeOK'
    BY <2>1 DEF ScanInv, TypeOK, WorldTypeOK
  <2>3. \A entries : EntriesOK(entries)' <=> EntriesOK(entries)
    BY <2>1 DEF EntriesOK, EntryOK
  <2>4. \A p \in Procs : ProcOK(procs[p])'
    BY <2>1, <2>3 DEF ScanInv, ProcOK, Fits, VerdictsOK, VerdictOK, ControlOK, WarnedOK, ExitOK, EntryOK
  <2>5. EntriesOK(nvdFile)' /\ QuietInv'
    BY <2>1, <2>3 DEF ScanInv, QuietInv, Active
  <2>6. QED
    BY <2>2, <2>4, <2>5 DEF ScanInv
<1>4. QED
  BY <1>1, <1>2, <1>3 DEF Next

LEMMA Invariant == Spec => []ScanInv
<1>1. ScanInv /\ [Next]_vars => ScanInv'
  BY NextInv
<1>2. QED
  BY InitInv, <1>1, PTL DEF Spec

\* The files, the commands and the world stay of their types, and no stored answer is newer
\* than NVD's present one.
THEOREM TypeCorrect == Spec => []TypeOK
<1>1. ScanInv => TypeOK
  BY DEF ScanInv
<1>2. QED
  BY Invariant, <1>1, PTL

\* However commands share and rewrite the file of the lookups, a status that needs a live
\* lookup rests on what NVD answered within the last Ttl days (Cache.Get, Cache.Put, Assess).
THEOREM VerdictsCorrect == Spec => []VerdictsAreRecent
<1>1. ScanInv => VerdictsAreRecent
  BY DEF ScanInv, ProcOK, VerdictsOK, VerdictOK, VerdictsAreRecent, Assessed, AssessedOf
<1>2. QED
  BY Invariant, <1>1, PTL

\* With one command at a time and no trouble the file has every lookup of the last Ttl
\* days, and none from before it was cleared (OpenCache, Put, cacheClear).
THEOREM QuietCorrect == Spec => []QuietCacheIsExact
<1>1. ScanInv => QuietCacheIsExact
  BY DEF ScanInv, QuietInv, QuietCacheIsExact
<1>2. QED
  BY Invariant, <1>1, PTL

\* A scan that reaches its targets has a database or a catalog, and has said what it
\* lacks (newAssessor).
THEOREM MissingCorrect == Spec => []MissingDataIsWarned
<1>1. ScanInv => MissingDataIsWarned
  BY DEF ScanInv, ProcOK, ControlOK, WarnedOK, MissingDataIsWarned
<1>2. QED
  BY Invariant, <1>1, PTL

\* The exit status tells what the results are, and a refresh that succeeded has a catalog no
\* older than the one published when it began (exitCode, scanAll, cacheRefresh).
THEOREM ExitCorrect == Spec => []ExitTellsResults
<1>1. ASSUME ScanInv, NEW p \in Procs PROVE ExitOK(procs[p])
  BY <1>1 DEF ScanInv, ProcOK
<1>2. ScanInv => ExitTellsResults
  BY <1>1 DEF ExitOK, ExitTellsResults, Assessed, AssessedOf
<1>3. QED
  BY Invariant, <1>2, PTL
================================================================================
