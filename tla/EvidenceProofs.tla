---------------------------- MODULE EvidenceProofs ----------------------------
(***************************************************************************)
(* Proofs about the way from a page to its technologies: that the worker     *)
(* ends up with the last report of the page scripts, however rescans,        *)
(* injections and updates overlap, and that an analysis yields the closure   *)
(* of what was matched, for every database, also with circles of             *)
(* implications, every page and every moment at which the time is up.        *)
(***************************************************************************)
EXTENDS Collector, Detection, SequenceTheorems, FiniteSetTheorems, TLAPS

--------------------------------------------------------------------------------
(* Detection *)

Trying == phase = "trying" => Result = Matched
\* What is found and no longer queued has its implications among what is found.
Following == phase = "implying" => \A f \in Result \ queue : Implies[f] \cap Fingerprints \subseteq Result
\* Nothing is found that does not follow from what was matched.
Needed == \A all \in SUBSET Fingerprints : Matched \subseteq all /\ Closed(all) => Result \subseteq all
VersionsKept == \A f \in Result : found[f] = IF f \in Matched THEN BestVersion(page[f]) ELSE NoVersion

AnalysisInv ==
  /\ phase \in {"trying", "implying"}
  /\ left \subseteq Fingerprints
  /\ Result \subseteq Fingerprints /\ Matched \subseteq Result /\ queue \subseteq Result
  /\ Trying /\ Following /\ Needed /\ VersionsKept

\* What adding technologies to the result does.
LEMMA AddingAdds ==
  ASSUME NEW names, NEW version, found' = Adding(names, version)
  PROVE  /\ Result' = Result \cup names
         /\ \A f \in Result : found'[f] = found[f]
         /\ \A f \in names \ Result : found'[f] = version
  BY DEF Adding, Result

\* The invariant gives the property.
LEMMA InvGivesClosure == AnalysisInv => ResultIsClosure
<1> SUFFICES ASSUME AnalysisInv, phase = "implying", queue = {}
             PROVE  ResultIsClosure
  BY DEF ResultIsClosure
<1>1. Matched \subseteq Result
  BY DEF AnalysisInv
<1>2. Closed(Result)
  BY DEF AnalysisInv, Following, Closed
<1>3. ASSUME NEW smaller \in SUBSET Result, Matched \subseteq smaller, Closed(smaller)
      PROVE  smaller = Result
  BY <1>3 DEF AnalysisInv, Needed
<1>4. QED
  BY <1>1, <1>2, <1>3 DEF ResultIsClosure, AnalysisInv, VersionsKept

LEMMA InitHolds == AnalysisInit => AnalysisInv
<1> SUFFICES ASSUME AnalysisInit PROVE AnalysisInv
  OBVIOUS
<1>1. Result = {} /\ Matched = {}
  BY DEF AnalysisInit, Result, Matched
<1>2. QED
  BY <1>1 DEF AnalysisInit, AnalysisInv, Trying, Following, Needed, VersionsKept

\* Trying a fingerprint: it is found when it is matched.
LEMMA TryKeeps ==
  ASSUME AnalysisInv, NEW f \in Fingerprints, Try(f)
  PROVE  AnalysisInv'
<1>1. phase = "trying" /\ phase' = "trying" /\ page' = page /\ queue' = queue /\ f \in left /\ left' = left \ {f}
  BY DEF Try
<1>2. \A g : Detects(g)' <=> Detects(g)
  BY <1>1 DEF Detects
<1>3. Result = Matched /\ f \notin Result
  BY <1>1 DEF AnalysisInv, Trying, Matched
<1>4. CASE Detects(f)
  <2>1. found' = Adding({f}, BestVersion(page[f]))
    BY <1>4 DEF Try
  <2>2. Result' = Result \cup {f} /\ \A g \in Result : found'[g] = found[g]
    BY <2>1, AddingAdds
  <2>3. found'[f] = BestVersion(page[f])
    BY <2>1, <1>3, AddingAdds
  <2>4. Matched' = Matched \cup {f}
    BY <1>1, <1>2, <1>4 DEF AnalysisInv, Matched
  <2>5. VersionsKept'
    <3> SUFFICES ASSUME NEW g \in Result'
                 PROVE  found'[g] = IF g \in Matched' THEN BestVersion(page'[g]) ELSE NoVersion
      BY DEF VersionsKept
    <3>1. CASE g = f
      BY <3>1, <2>3, <2>4, <1>1
    <3>2. CASE g # f
      <4>1. g \in Result /\ found'[g] = found[g]
        BY <3>2, <2>2
      <4>2. found[g] = BestVersion(page[g])
        BY <4>1, <1>3 DEF AnalysisInv, VersionsKept
      <4>3. QED
        BY <4>1, <4>2, <2>4, <1>3, <1>1
    <3>3. QED
      BY <3>1, <3>2
  <2>6. Trying' /\ Following' /\ Needed'
    BY <1>1, <1>3, <2>2, <2>4 DEF Trying, Following, Needed
  <2>7. QED
    BY <1>1, <1>3, <2>2, <2>4, <2>5, <2>6 DEF AnalysisInv
<1>5. CASE ~Detects(f)
  <2>1. found' = found /\ Result' = Result
    BY <1>5 DEF Try, Result
  <2>2. Matched' = Matched
    BY <1>1, <1>2, <1>5 DEF AnalysisInv, Matched
  <2>3. Trying' /\ Following' /\ Needed' /\ VersionsKept'
    BY <1>1, <1>3, <2>1, <2>2 DEF AnalysisInv, Trying, Following, Needed, VersionsKept
  <2>4. QED
    BY <1>1, <2>1, <2>2, <2>3 DEF AnalysisInv
<1>6. QED
  BY <1>4, <1>5

\* The time is up, or everything was tried: all that was found is queued.
LEMMA TryingEndsKeeps ==
  ASSUME AnalysisInv, TryingEnds
  PROVE  AnalysisInv'
<1>1. phase' = "implying" /\ page' = page /\ left' = left /\ found' = found /\ queue' = Result
  BY DEF TryingEnds
<1>2. Result' = Result /\ Matched' = Matched
  BY <1>1 DEF Result, Matched, Detects
<1>3. QED
  BY <1>1, <1>2 DEF AnalysisInv, Trying, Following, Needed, VersionsKept

\* Following the implications of a technology.
LEMMA AddImpliedKeeps ==
  ASSUME AnalysisInv, NEW f \in Fingerprints, AddImplied(f)
  PROVE  AnalysisInv'
<1>1. /\ phase = "implying" /\ phase' = "implying" /\ page' = page /\ left' = left
      /\ f \in queue /\ found' = Adding(New(f), NoVersion) /\ queue' = (queue \ {f}) \cup New(f)
  BY DEF AddImplied
<1>2. /\ Result' = Result \cup New(f)
      /\ \A g \in Result : found'[g] = found[g]
      /\ \A g \in New(f) : found'[g] = NoVersion
  BY <1>1, AddingAdds DEF New
<1>3. Matched' = Matched
  BY <1>1 DEF Matched, Detects
<1>4. f \in Result /\ New(f) \subseteq Fingerprints \ Result
  BY <1>1 DEF AnalysisInv, New
<1>5. Following'
  <2> SUFFICES ASSUME NEW g \in Result' \ queue'
               PROVE  Implies[g] \cap Fingerprints \subseteq Result'
    BY DEF Following
  <2>1. CASE g = f
    BY <2>1, <1>2 DEF New
  <2>2. CASE g # f
    BY <2>2, <1>1, <1>2 DEF AnalysisInv, Following
  <2>3. QED
    BY <2>1, <2>2
<1>6. Needed'
  <2> SUFFICES ASSUME NEW all \in SUBSET Fingerprints, Matched \subseteq all, Closed(all)
               PROVE  Result' \subseteq all
    BY <1>3 DEF Needed, Closed
  <2>1. Result \subseteq all
    BY DEF AnalysisInv, Needed
  <2>2. New(f) \subseteq all
    BY <2>1, <1>4 DEF New, Closed
  <2>3. QED
    BY <2>1, <2>2, <1>2
<1>7. VersionsKept'
  <2> SUFFICES ASSUME NEW g \in Result'
               PROVE  found'[g] = IF g \in Matched THEN BestVersion(page[g]) ELSE NoVersion
    BY <1>1, <1>3 DEF VersionsKept
  <2>1. CASE g \in Result
    BY <2>1, <1>2 DEF AnalysisInv, VersionsKept
  <2>2. CASE g \in New(f)
    BY <2>2, <1>2, <1>4 DEF AnalysisInv
  <2>3. QED
    BY <2>1, <2>2, <1>2
<1>8. QED
  BY <1>1, <1>2, <1>3, <1>4, <1>5, <1>6, <1>7 DEF AnalysisInv, Trying

LEMMA StutterKeeps ==
  ASSUME AnalysisInv, UNCHANGED analysisVars
  PROVE  AnalysisInv'
<1>1. phase' = phase /\ page' = page /\ left' = left /\ found' = found /\ queue' = queue
  BY DEF analysisVars
<1>2. QED
  BY <1>1 DEF AnalysisInv, Trying, Following, Needed, VersionsKept, Result, Matched, Detects, Closed

\* Whenever the time was up, what an analysis yields is what was matched till then and what
\* follows from it, with the versions that were matched (analyzeWithBudget and addImplied of
\* lib/detect.ts), whatever implies what.
THEOREM ClosureCorrect == AnalysisSpec => []ResultIsClosure
<1>1. AnalysisInit => AnalysisInv
  BY InitHolds
<1>2. AnalysisInv /\ [AnalysisNext]_analysisVars => AnalysisInv'
  <2> SUFFICES ASSUME AnalysisInv, [AnalysisNext]_analysisVars
               PROVE  AnalysisInv'
    OBVIOUS
  <2>1. ASSUME NEW f \in Fingerprints, Try(f) PROVE AnalysisInv'
    BY <2>1, TryKeeps
  <2>2. CASE TryingEnds
    BY <2>2, TryingEndsKeeps
  <2>3. ASSUME NEW f \in Fingerprints, AddImplied(f) PROVE AnalysisInv'
    BY <2>3, AddImpliedKeeps
  <2>4. CASE UNCHANGED analysisVars
    BY <2>4, StutterKeeps
  <2>5. QED
    BY <2>1, <2>2, <2>3, <2>4 DEF AnalysisNext
<1>3. AnalysisInv => ResultIsClosure
  BY InvGivesClosure
<1>4. QED
  BY <1>1, <1>2, <1>3, PTL DEF AnalysisSpec

--------------------------------------------------------------------------------
(* Collector *)

\* A report is on its way to all content scripts, or to come, or what it should have come
\* from was broken.
ReportComes ==
  \/ \E i \in DOMAIN tasks : tasks[i] # Request
  \/ \E r \in Rescans : rescans[r].step \in {"content", "page", "broken"}

\* The content scripts have the same report, and the worker has it or will be sent it.
Agree ==
  /\ \A c, d \in Listening : contents[c].page = contents[d].page
  /\ \A c \in Listening : contents[c].page # None => evidence = contents[c].page \/ contents[c].sending

\* Only scripts that run have something to do.
RunningInv ==
  /\ \A c \in ScriptIds : contents[c].sending => c \in Listening
  /\ \A p \in ScriptIds : Due(p) => p \in Running

\* As long as the manifest's scripts have not started, a content script is one of a rescan
\* that has its page script yet to inject.
BootInv ==
  booting # "over" =>
    \A c \in Listening : c # 1 /\ \E r \in Rescans : c = r + 1 /\ rescans[r].step \in {"page", "broken"}

\* The messages in s are requests, or `report` is the last that is none.
NoReports(s) == \A i \in DOMAIN s : s[i] = Request
EndsWith(s, report) ==
  \E i \in DOMAIN s : s[i] = report /\ report # Request /\ \A j \in DOMAIN s : i < j => s[j] = Request

\* While one page script has ever run, its last report is on its way or is what the content
\* scripts have that have any.
LastInv ==
  \A p \in Running : Running = {p} =>
    \/ EndsWith(tasks, pages[p].last)
    \/ NoReports(tasks) /\ \A c \in Listening : contents[c].page \in {None, pages[p].last}

CollectorInv == TypeOK /\ RunningInv /\ BootInv /\ (ReportComes \/ Agree) /\ LastInv

--------------------------------------------------------------------------------
(* Sequences of messages *)

LEMMA AppendReport ==
  ASSUME NEW S, NEW s \in Seq(S), NEW report \in S, report # Request
  PROVE  Append(s, report) \in Seq(S) /\ EndsWith(Append(s, report), report)
<1> DEFINE t == Append(s, report)
<1>1. /\ t \in Seq(S) /\ Len(t) = Len(s) + 1 /\ t[Len(s) + 1] = report
      /\ Len(s) \in Nat /\ DOMAIN t = 1..(Len(s) + 1)
  BY AppendProperties, LenProperties
<1> HIDE DEF t
<1>2. EndsWith(t, report)
  BY <1>1 DEF EndsWith
<1>3. QED
  BY <1>1, <1>2 DEF t

\* The same message from several scripts.
LEMMA ConcatMessages ==
  ASSUME NEW S, NEW s \in Seq(S), NEW n \in Nat, NEW message \in S
  PROVE  LET t == s \o [i \in 1..n |-> message]
         IN /\ t \in Seq(S) /\ Len(t) = Len(s) + n /\ DOMAIN t = 1..(Len(s) + n) /\ Len(s) \in Nat
            /\ DOMAIN s = 1..Len(s)
            /\ \A i \in 1..Len(s) : t[i] = s[i]
            /\ \A i \in (Len(s) + 1)..(Len(s) + n) : t[i] = message
<1> DEFINE more == [i \in 1..n |-> message]
           t == s \o more
<1>1. more \in Seq(S) /\ Len(more) = n /\ \A i \in 1..n : more[i] = message
  <2>1. more \in Seq(S)
    BY IsASeq
  <2>2. QED
    BY <2>1, LenProperties
<1> HIDE DEF more
<1>2. /\ t \in Seq(S) /\ Len(t) = Len(s) + n
      /\ \A i \in 1..(Len(s) + n) : t[i] = IF i <= Len(s) THEN s[i] ELSE more[i - Len(s)]
  BY <1>1, ConcatProperties
<1> HIDE DEF t
<1>3. DOMAIN t = 1..(Len(s) + n) /\ Len(s) \in Nat /\ DOMAIN s = 1..Len(s)
  BY <1>2, LenProperties
<1>4. \A i \in 1..Len(s) : t[i] = s[i]
  BY <1>2, <1>3
<1>5. \A i \in (Len(s) + 1)..(Len(s) + n) : t[i] = message
  BY <1>1, <1>2, <1>3
<1>6. QED
  BY <1>2, <1>3, <1>4, <1>5 DEF t, more

LEMMA ConcatReports ==
  ASSUME NEW S, NEW s \in Seq(S), NEW n \in Nat, n # 0, NEW report \in S, report # Request
  PROVE  EndsWith(s \o [i \in 1..n |-> report], report)
<1> DEFINE t == s \o [i \in 1..n |-> report]
<1>1. /\ DOMAIN t = 1..(Len(s) + n) /\ Len(s) \in Nat
      /\ \A i \in (Len(s) + 1)..(Len(s) + n) : t[i] = report
  BY ConcatMessages
<1> HIDE DEF t
<1>2. Len(s) + n \in DOMAIN t /\ t[Len(s) + n] = report /\ \A j \in DOMAIN t : ~(Len(s) + n < j)
  BY <1>1
<1>3. EndsWith(t, report)
  BY <1>2 DEF EndsWith
<1>4. QED
  BY <1>3 DEF t

LEMMA ConcatRequests ==
  ASSUME NEW S, NEW s \in Seq(S), NEW n \in Nat, Request \in S
  PROVE  LET t == s \o [i \in 1..n |-> Request]
         IN /\ \A report : EndsWith(s, report) => EndsWith(t, report)
            /\ NoReports(s) => NoReports(t)
<1> DEFINE t == s \o [i \in 1..n |-> Request]
<1>1. /\ DOMAIN t = 1..(Len(s) + n) /\ Len(s) \in Nat /\ DOMAIN s = 1..Len(s)
      /\ \A i \in 1..Len(s) : t[i] = s[i]
      /\ \A i \in (Len(s) + 1)..(Len(s) + n) : t[i] = Request
  BY ConcatMessages
<1> HIDE DEF t
<1>2. \A i \in DOMAIN t : (i \in DOMAIN s /\ t[i] = s[i]) \/ t[i] = Request
  BY <1>1
<1>3. \A i \in DOMAIN s : i \in DOMAIN t /\ t[i] = s[i]
  BY <1>1
<1>4. ASSUME NEW report, EndsWith(s, report) PROVE EndsWith(t, report)
  BY <1>2, <1>3, <1>4 DEF EndsWith
<1>5. NoReports(s) => NoReports(t)
  BY <1>2 DEF NoReports
<1>6. QED
  BY <1>4, <1>5 DEF t

\* The first message is delivered.
LEMMA Delivered ==
  ASSUME NEW S, NEW s \in Seq(S), s # <<>>
  PROVE  /\ Tail(s) \in Seq(S) /\ Head(s) \in S /\ 1 \in DOMAIN s /\ s[1] = Head(s)
         /\ \A i \in DOMAIN s : i # 1 => \E j \in DOMAIN Tail(s) : Tail(s)[j] = s[i]
         /\ NoReports(s) => NoReports(Tail(s))
         /\ \A report : EndsWith(s, report) =>
              EndsWith(Tail(s), report) \/ (Head(s) = report /\ NoReports(Tail(s)))
<1> DEFINE t == Tail(s)
<1>1. /\ t \in Seq(S) /\ Head(s) \in S /\ Len(s) \in Nat \ {0} /\ Len(t) = Len(s) - 1 /\ s[1] = Head(s)
      /\ \A i \in 1..Len(t) : t[i] = s[i + 1]
  BY HeadTailProperties, EmptySeq
<1>2. DOMAIN s = 1..Len(s) /\ DOMAIN t = 1..Len(t)
  BY <1>1, LenProperties
<1> HIDE DEF t
<1>3. \A i \in DOMAIN s : i # 1 => i - 1 \in DOMAIN t /\ t[i - 1] = s[i]
  BY <1>1, <1>2
<1>4. \A i \in DOMAIN t : i + 1 \in DOMAIN s /\ t[i] = s[i + 1] /\ i + 1 # 1 /\ i \in Nat
  BY <1>1, <1>2
<1>5. NoReports(s) => NoReports(t)
  BY <1>4 DEF NoReports
<1>6. ASSUME NEW report, EndsWith(s, report)
      PROVE  EndsWith(t, report) \/ (Head(s) = report /\ NoReports(t))
  <2>1. PICK i \in DOMAIN s : s[i] = report /\ report # Request /\ \A j \in DOMAIN s : i < j => s[j] = Request
    BY <1>6 DEF EndsWith
  <2>2. CASE i = 1
    <3>1. \A j \in DOMAIN t : t[j] = Request
      BY <1>4, <2>1, <2>2
    <3>2. QED
      BY <1>1, <2>1, <2>2, <3>1 DEF NoReports
  <2>3. CASE i # 1
    <3>1. i - 1 \in DOMAIN t /\ t[i - 1] = report
      BY <1>3, <2>1, <2>3
    <3>2. ASSUME NEW j \in DOMAIN t, i - 1 < j PROVE t[j] = Request
      <4>1. j + 1 \in DOMAIN s /\ t[j] = s[j + 1] /\ i < j + 1
        BY <1>2, <1>4, <3>2
      <4>2. QED
        BY <2>1, <4>1
    <3>3. QED
      BY <2>1, <3>1, <3>2 DEF EndsWith
  <2>4. QED
    BY <2>2, <2>3
<1>7. 1 \in DOMAIN s
  BY <1>1, <1>2
<1>8. QED
  BY <1>1, <1>3, <1>5, <1>6, <1>7 DEF t

--------------------------------------------------------------------------------
(* What the scripts are and do *)

PageScripts == [running : BOOLEAN, last : 0..MaxVersions, samples : 0..Samples]
ContentScripts ==
  [state : {"absent", "live", "gone"}, page : 0..MaxVersions, sentOnce : BOOLEAN, sending : BOOLEAN]
RescanRecords ==
  [step : {"idle", "asked", "content", "page", "over", "broken"}, recollected : BOOLEAN]

LEMMA TypeFacts ==
  ASSUME TypeOK
  PROVE  /\ pages \in [ScriptIds -> PageScripts] /\ contents \in [ScriptIds -> ContentScripts]
         /\ rescans \in [Rescans -> RescanRecords] /\ tasks \in Seq(0..MaxVersions)
         /\ shown \in 1..MaxVersions /\ shown \in 0..MaxVersions /\ shown # Request /\ Request \in 0..MaxVersions
         /\ MaxVersions \in Nat /\ Samples \in Nat /\ 1 \in ScriptIds /\ MaxRescans \in Nat
         /\ \A r \in Rescans : r + 1 \in ScriptIds /\ r \in Nat
<1>1. /\ pages \in [ScriptIds -> PageScripts] /\ contents \in [ScriptIds -> ContentScripts]
      /\ rescans \in [Rescans -> RescanRecords] /\ tasks \in Seq(0..MaxVersions)
  BY DEF TypeOK, PageScripts, ContentScripts, RescanRecords
<1>2. MaxVersions \in Nat /\ Samples \in Nat /\ MaxRescans \in Nat
  BY CollectorAssumption
<1>3. shown \in 1..MaxVersions /\ shown \in 0..MaxVersions /\ shown # Request /\ Request \in 0..MaxVersions
  BY <1>2 DEF TypeOK, Versions, Request
<1>4. 1 \in ScriptIds /\ \A r \in Rescans : r + 1 \in ScriptIds /\ r \in Nat
  BY <1>2 DEF ScriptIds, Rescans
<1>5. QED
  BY <1>1, <1>2, <1>3, <1>4

LEMMA StartedPageFacts ==
  ASSUME TypeOK
  PROVE  /\ StartedPage \in PageScripts /\ StartedPage.running /\ StartedPage.last = shown
BY TypeFacts DEF StartedPage, PageScripts

LEMMA StartedContentFacts ==
  ASSUME TypeOK
  PROVE  /\ NoContent \in ContentScripts /\ StartedContent \in ContentScripts
         /\ StartedContent.state = "live" /\ StartedContent.page = None /\ ~StartedContent.sending
         /\ [NoContent EXCEPT !.state = "gone"] \in ContentScripts
         /\ [NoContent EXCEPT !.state = "gone"].state = "gone" /\ ~[NoContent EXCEPT !.state = "gone"].sending
<1>1. None \in 0..MaxVersions
  BY CollectorAssumption DEF None
<1>2. QED
  BY <1>1 DEF StartedContent, NoContent, ContentScripts

LEMMA SendFacts ==
  ASSUME NEW content \in ContentScripts
  PROVE  /\ Send(content) \in ContentScripts /\ Send(content).state = content.state
         /\ Send(content).page = content.page /\ Send(content).sending
BY DEF Send, ContentScripts

LEMMA HeardFacts ==
  ASSUME NEW content \in ContentScripts, NEW report \in 0..MaxVersions
  PROVE  /\ Heard(content, report) \in ContentScripts /\ Heard(content, report).state = content.state
         /\ Heard(content, report).page = report /\ Heard(content, report).sending
<1> DEFINE new == [content EXCEPT !.page = report]
<1>1. new \in ContentScripts /\ new.state = content.state /\ new.page = report
  BY DEF ContentScripts
<1>2. Heard(content, report) = Send(new)
  BY DEF Heard
<1> HIDE DEF new
<1>3. QED
  BY <1>1, <1>2, SendFacts

\* A sample is taken, and reported or not.
LEMMA SampleFacts ==
  ASSUME TypeOK, NEW p \in ScriptIds, Sample(p)
  PROVE  /\ Due(p) /\ UNCHANGED <<shown, mainWorld, booting, contents, evidence, rescans, updates>>
         /\ pages' \in [ScriptIds -> PageScripts] /\ \A q \in ScriptIds \ {p} : pages'[q] = pages[q]
         /\ pages'[p].running = pages[p].running /\ pages'[p].samples = pages[p].samples - 1
         /\ \/ tasks' = tasks /\ pages'[p].last = pages[p].last
            \/ tasks' = Append(tasks, shown) /\ pages'[p].last = shown
<1> DEFINE script == pages[p]
           same == [script EXCEPT !.samples = script.samples - 1]
           new == [script EXCEPT !.samples = script.samples - 1, !.last = shown]
<1>1. /\ pages \in [ScriptIds -> PageScripts] /\ script \in PageScripts /\ shown \in 0..MaxVersions /\ Samples \in Nat
  BY TypeFacts
<1>2. script.samples > 0 /\ UNCHANGED <<shown, mainWorld, booting, contents, evidence, rescans, updates>>
  BY DEF Sample, Due
<1>3. script.samples - 1 \in 0..Samples
  BY <1>1, <1>2 DEF PageScripts
<1>4. /\ same \in PageScripts /\ same.running = script.running /\ same.samples = script.samples - 1 /\ same.last = script.last
      /\ new \in PageScripts /\ new.running = script.running /\ new.samples = script.samples - 1 /\ new.last = shown
  BY <1>1, <1>3 DEF PageScripts
<1>5. \/ tasks' = tasks /\ pages' = [pages EXCEPT ![p] = same]
      \/ tasks' = Append(tasks, shown) /\ pages' = [pages EXCEPT ![p] = new]
  BY DEF Sample
<1> HIDE DEF same, new
<1>6. QED
  BY <1>1, <1>2, <1>4, <1>5 DEF Due

\* A request is answered by the script scripts that run.
LEMMA RequestFacts ==
  ASSUME TypeOK, DeliverRequest
  PROVE  /\ tasks # <<>> /\ Head(tasks) = Request
         /\ UNCHANGED <<shown, mainWorld, booting, contents, evidence, rescans, updates>>
         /\ Cardinality(Running) \in Nat /\ tasks' = Tail(tasks) \o [i \in 1..Cardinality(Running) |-> shown]
         /\ pages' \in [ScriptIds -> PageScripts]
         /\ \A p \in ScriptIds : /\ pages'[p].running = pages[p].running /\ pages'[p].samples = pages[p].samples
                                 /\ p \in Running => pages'[p].last = shown
<1>1. /\ pages \in [ScriptIds -> PageScripts] /\ shown \in 0..MaxVersions /\ MaxRescans \in Nat
  BY TypeFacts
<1>2. Cardinality(Running) \in Nat
  <2>1. IsFiniteSet(ScriptIds)
    BY <1>1, FS_Interval DEF ScriptIds
  <2>2. Running \in SUBSET ScriptIds
    BY DEF Running
  <2>3. QED
    BY <2>1, <2>2, FS_Subset, FS_CardinalityType
<1>3. ASSUME NEW p \in ScriptIds
      PROVE  /\ [pages[p] EXCEPT !.last = shown] \in PageScripts
             /\ [pages[p] EXCEPT !.last = shown].running = pages[p].running
             /\ [pages[p] EXCEPT !.last = shown].samples = pages[p].samples
             /\ [pages[p] EXCEPT !.last = shown].last = shown
  BY <1>1 DEF PageScripts
<1>4. pages' = [p \in ScriptIds |-> IF p \in Running THEN [pages[p] EXCEPT !.last = shown] ELSE pages[p]]
  BY DEF DeliverRequest, Reporting
<1>5. pages' \in [ScriptIds -> PageScripts]
  BY <1>1, <1>3, <1>4
<1>6. QED
  BY <1>2, <1>3, <1>4, <1>5 DEF DeliverRequest, Reporting

\* A report is heard by the content scripts that listen.
LEMMA ReportFacts ==
  ASSUME TypeOK, DeliverReport
  PROVE  /\ tasks # <<>> /\ Head(tasks) # Request /\ Head(tasks) \in 0..MaxVersions /\ tasks' = Tail(tasks)
         /\ UNCHANGED <<shown, mainWorld, booting, pages, evidence, rescans, updates>>
         /\ contents' \in [ScriptIds -> ContentScripts] /\ Listening' = Listening
         /\ \A c \in Listening : contents'[c].page = Head(tasks) /\ contents'[c].sending
         /\ \A c \in ScriptIds \ Listening : contents'[c] = contents[c]
<1>1. tasks # <<>> /\ Head(tasks) # Request /\ tasks' = Tail(tasks)
      /\ UNCHANGED <<shown, mainWorld, booting, pages, evidence, rescans, updates>>
      /\ contents' = [c \in ScriptIds |-> IF c \in Listening THEN Heard(contents[c], Head(tasks)) ELSE contents[c]]
  BY DEF DeliverReport
<1>2. Head(tasks) \in 0..MaxVersions /\ contents \in [ScriptIds -> ContentScripts]
  BY <1>1, TypeFacts, Delivered
<1>3. ASSUME NEW c \in ScriptIds
      PROVE  /\ contents'[c] \in ContentScripts /\ contents'[c].state = contents[c].state
             /\ c \in Listening => contents'[c].page = Head(tasks) /\ contents'[c].sending
             /\ c \notin Listening => contents'[c] = contents[c]
  BY <1>1, <1>2, HeardFacts
<1>4. contents' \in [ScriptIds -> ContentScripts]
  BY <1>1, <1>3
<1>5. Listening' = Listening
  BY <1>3 DEF Listening
<1>6. QED
  BY <1>1, <1>2, <1>3, <1>4, <1>5 DEF Listening

--------------------------------------------------------------------------------
(* Each step *)

LEMMA CollectorTypeNext == TypeOK /\ Next => TypeOK'
<1> SUFFICES ASSUME TypeOK, Next PROVE TypeOK'
  OBVIOUS
<1>1. /\ pages \in [ScriptIds -> PageScripts] /\ contents \in [ScriptIds -> ContentScripts]
      /\ rescans \in [Rescans -> RescanRecords] /\ tasks \in Seq(0..MaxVersions)
      /\ shown \in 0..MaxVersions /\ shown # Request /\ Request \in 0..MaxVersions
      /\ 1 \in ScriptIds /\ \A r \in Rescans : r + 1 \in ScriptIds
  BY TypeFacts
<1>2. Append(tasks, shown) \in Seq(0..MaxVersions)
  BY <1>1, AppendReport
<1>3. shown \in Versions /\ mainWorld \in BOOLEAN /\ updates \in 0..MaxUpdates
      /\ booting \in {"page", "content", "over"} /\ evidence \in {NoEvidence} \cup 0..MaxVersions
  BY DEF TypeOK
<1> DEFINE PartsOK ==
      /\ shown' \in Versions /\ mainWorld' \in BOOLEAN /\ booting' \in {"page", "content", "over"}
      /\ pages' \in [ScriptIds -> PageScripts] /\ contents' \in [ScriptIds -> ContentScripts]
      /\ tasks' \in Seq(0..MaxVersions) /\ evidence' \in {NoEvidence} \cup 0..MaxVersions
      /\ rescans' \in [Rescans -> RescanRecords] /\ updates' \in 0..MaxUpdates
<1> SUFFICES PartsOK
  BY DEF TypeOK, PageScripts, ContentScripts, RescanRecords
<1>4. \A s \in Seq(0..MaxVersions), n \in Nat, message \in 0..MaxVersions :
        s \o [i \in 1..n |-> message] \in Seq(0..MaxVersions)
  BY ConcatMessages
<1>5. ASSUME NEW r \in Rescans, NEW step \in {"idle", "asked", "content", "page", "over", "broken"}
      PROVE  [rescans EXCEPT ![r].step = step] \in [Rescans -> RescanRecords]
  BY <1>1 DEF RescanRecords
<1>6. CASE PageWork
  <2>1. CASE BootPage
    BY <1>1, <1>2, <1>3, <2>1, StartedPageFacts DEF BootPage
  <2>2. CASE DeliverRequest
    <3>1. tasks' \in Seq(0..MaxVersions)
      <4>1. tasks # <<>> /\ Tail(tasks) \in Seq(0..MaxVersions)
        BY <1>1, <2>2, RequestFacts, Delivered
      <4>2. QED
        BY <1>1, <1>4, <2>2, <4>1, RequestFacts
    <3>2. QED
      BY <1>1, <1>3, <2>2, <3>1, RequestFacts
  <2>3. ASSUME NEW p \in ScriptIds, Sample(p) PROVE PartsOK
    BY <1>1, <1>2, <1>3, <2>3, SampleFacts
  <2>4. QED
    BY <1>6, <2>1, <2>2, <2>3 DEF PageWork
<1>7. CASE ContentWork
  <2>1. CASE BootContent
    BY <1>1, <1>3, <2>1, StartedContentFacts DEF BootContent
  <2>2. CASE DeliverReport
    <3>1. tasks' \in Seq(0..MaxVersions)
      <4>1. tasks # <<>> /\ tasks' = Tail(tasks)
        BY <2>2, ReportFacts
      <4>2. Tail(tasks) \in Seq(0..MaxVersions)
        BY <1>1, <4>1, HeadTailProperties
      <4>3. QED
        BY <4>1, <4>2
    <3>2. QED
      BY <1>1, <1>3, <2>2, <3>1, ReportFacts
  <2>3. ASSUME NEW c \in ScriptIds, Fallback(c) PROVE PartsOK
    BY <1>1, <1>3, <2>3, SendFacts DEF Fallback
  <2>4. QED
    BY <1>7, <2>1, <2>2, <2>3 DEF ContentWork
<1>8. ASSUME NEW c \in ScriptIds, SendEvidence(c) PROVE PartsOK
  <2>1. contents' \in [ScriptIds -> ContentScripts] /\ evidence' \in 0..MaxVersions
    BY <1>1, <1>8 DEF SendEvidence, ContentScripts, Collected
  <2>2. \A r \in Rescans : [rescans[r] EXCEPT !.recollected = TRUE] \in RescanRecords
    BY <1>1 DEF RescanRecords
  <2>3. rescans' \in [Rescans -> RescanRecords]
    BY <1>1, <1>8, <2>2 DEF SendEvidence
  <2>4. QED
    BY <1>1, <1>3, <1>8, <2>1, <2>3 DEF SendEvidence
<1>9. ASSUME NEW r \in Rescans, Ask(r) \/ RescanWork(r) PROVE PartsOK
  <2>1. CASE Answered(r)
    <3>1. Cardinality(Listening) \in Nat
      <4>1. IsFiniteSet(ScriptIds)
        BY TypeFacts, FS_Interval DEF ScriptIds
      <4>2. Listening \in SUBSET ScriptIds
        BY DEF Listening
      <4>3. QED
        BY <4>1, <4>2, FS_Subset, FS_CardinalityType
    <3>2. tasks' \in Seq(0..MaxVersions)
      BY <1>1, <1>4, <2>1, <3>1 DEF Answered
    <3>3. QED
      BY <1>1, <1>3, <1>5, <2>1, <3>2 DEF Answered
  <2>2. CASE InjectContent(r)
    BY <1>1, <1>3, <1>5, <2>2, StartedContentFacts DEF InjectContent
  <2>3. CASE InjectPage(r)
    BY <1>1, <1>2, <1>3, <1>5, <2>3, StartedPageFacts DEF InjectPage
  <2>4. CASE Ask(r) \/ Unanswered(r) \/ InjectionBroken(r)
    BY <1>1, <1>3, <1>5, <2>4, ZenonT(30) DEF Ask, Unanswered, InjectionBroken
  <2>5. QED
    BY <1>9, <2>1, <2>2, <2>3, <2>4 DEF RescanWork
<1>10. CASE Change
  <2>1. shown' \in Versions
    BY <1>3, <1>10, TypeFacts DEF Change, Versions
  <2>2. QED
    BY <1>1, <1>3, <1>10, <2>1 DEF Change
<1>11. CASE Update
  <2>1. updates' \in 0..MaxUpdates
    BY <1>3, <1>11, CollectorAssumption DEF Update
  <2>2. contents' \in [ScriptIds -> ContentScripts]
    BY <1>1, <1>11, StartedContentFacts DEF Update
  <2>3. \A r \in Rescans : [rescans[r] EXCEPT !.step = "broken"] \in RescanRecords
    BY <1>1 DEF RescanRecords
  <2>4. rescans' \in [Rescans -> RescanRecords]
    BY <1>1, <1>11, <2>3 DEF Update
  <2>5. QED
    BY <1>1, <1>3, <1>11, <2>1, <2>2, <2>4 DEF Update
<1>12. QED
  BY <1>6, <1>7, <1>8, <1>9, <1>10, <1>11 DEF Next

\* What a step has to keep.
Rest == RunningInv /\ BootInv /\ (ReportComes \/ Agree) /\ LastInv

\* A page script starts and reports.
LEMMA PageStarts ==
  ASSUME CollectorInv, NEW p \in ScriptIds, pages' = [pages EXCEPT ![p] = StartedPage],
         tasks' = Append(tasks, shown)
  PROVE  /\ \A q \in ScriptIds : Due(q)' => q \in Running'
         /\ ReportComes' /\ LastInv'
<1>1. /\ TypeOK /\ RunningInv /\ pages \in [ScriptIds -> PageScripts] /\ tasks \in Seq(0..MaxVersions)
      /\ shown \in 0..MaxVersions /\ shown # Request
  BY TypeFacts DEF CollectorInv
<1>2. /\ pages'[p] = StartedPage /\ StartedPage.running /\ StartedPage.last = shown
      /\ \A q \in ScriptIds \ {p} : pages'[q] = pages[q]
  BY <1>1, StartedPageFacts
<1>3. EndsWith(tasks', shown)
  BY <1>1, AppendReport
<1>4. p \in Running' /\ \A q \in ScriptIds : Due(q)' => q \in Running'
  BY <1>1, <1>2 DEF RunningInv, Running, Due
<1>5. LastInv'
  BY <1>2, <1>3, <1>4 DEF LastInv, EndsWith
<1>6. ReportComes'
  BY <1>3 DEF ReportComes, EndsWith
<1>7. QED
  BY <1>4, <1>5, <1>6

\* Nothing changes but what the invariant does not look at.
LEMMA RestUnchanged ==
  ASSUME CollectorInv, UNCHANGED <<booting, pages, contents, tasks, evidence>>,
         \A r \in Rescans : rescans[r].step \in {"content", "page", "broken"} => rescans'[r].step = rescans[r].step
  PROVE  Rest'
<1>1. Listening' = Listening /\ Running' = Running
  BY DEF Listening, Running
<1>2. RunningInv' /\ BootInv'
  BY <1>1 DEF CollectorInv, RunningInv, Due, BootInv
<1>3. ReportComes' \/ Agree'
  BY <1>1 DEF CollectorInv, ReportComes, Agree
<1>4. LastInv'
  BY <1>1 DEF CollectorInv, LastInv, EndsWith, NoReports
<1>5. QED
  BY <1>2, <1>3, <1>4 DEF Rest

LEMMA BootPageRest ==
  ASSUME CollectorInv, BootPage
  PROVE  Rest'
<1>1. TypeOK /\ 1 \in ScriptIds
  BY TypeFacts DEF CollectorInv
<1>2. booting = "page" /\ UNCHANGED <<contents, evidence, rescans>> /\ Listening' = Listening
  BY DEF BootPage, Listening
<1>3. BootInv'
  BY <1>2 DEF CollectorInv, BootInv
<1>4. CASE mainWorld
  <2>1. pages' = [pages EXCEPT ![1] = StartedPage] /\ tasks' = Append(tasks, shown)
    BY <1>4 DEF BootPage
  <2>2. (\A q \in ScriptIds : Due(q)' => q \in Running') /\ ReportComes' /\ LastInv'
    BY <1>1, <2>1, PageStarts
  <2>3. RunningInv'
    BY <1>2, <2>2 DEF CollectorInv, RunningInv
  <2>4. QED
    BY <1>3, <2>2, <2>3 DEF Rest
<1>5. CASE ~mainWorld
  <2>1. UNCHANGED <<pages, tasks>> /\ Running' = Running
    BY <1>5 DEF BootPage, Running
  <2>2. RunningInv'
    BY <1>2, <2>1 DEF CollectorInv, RunningInv, Due
  <2>3. ReportComes' \/ Agree'
    BY <1>2, <2>1 DEF CollectorInv, ReportComes, Agree
  <2>4. LastInv'
    BY <1>2, <2>1 DEF CollectorInv, LastInv, EndsWith, NoReports
  <2>5. QED
    BY <1>3, <2>2, <2>3, <2>4 DEF Rest
<1>6. QED
  BY <1>4, <1>5

LEMMA SampleRest ==
  ASSUME CollectorInv, NEW p \in ScriptIds, Sample(p)
  PROVE  Rest'
<1>1. /\ TypeOK /\ RunningInv /\ LastInv /\ tasks \in Seq(0..MaxVersions) /\ shown \in 0..MaxVersions /\ shown # Request
  BY TypeFacts DEF CollectorInv
<1>2. /\ Due(p) /\ UNCHANGED <<booting, contents, evidence, rescans>> /\ Listening' = Listening
      /\ \A q \in ScriptIds \ {p} : pages'[q] = pages[q]
      /\ pages'[p].running = pages[p].running
      /\ \/ tasks' = tasks /\ pages'[p].last = pages[p].last
         \/ tasks' = Append(tasks, shown) /\ pages'[p].last = shown
  BY <1>1, SampleFacts DEF Listening
<1>3. p \in Running /\ Running' = Running
  BY <1>1, <1>2 DEF RunningInv, Running
<1>4. RunningInv' /\ BootInv'
  <2>1. \A q \in ScriptIds : Due(q)' => q \in Running'
    BY <1>1, <1>2, <1>3 DEF RunningInv, Due
  <2>2. QED
    BY <1>2, <2>1 DEF CollectorInv, RunningInv, BootInv
<1>5. CASE tasks' = tasks /\ pages'[p].last = pages[p].last
  <2>1. ReportComes' \/ Agree'
    BY <1>2, <1>5 DEF CollectorInv, ReportComes, Agree
  <2>2. \A q \in Running : pages'[q].last = pages[q].last
    BY <1>2, <1>5 DEF Running
  <2>3. LastInv'
    BY <1>1, <1>2, <1>3, <1>5, <2>2 DEF LastInv, EndsWith, NoReports
  <2>4. QED
    BY <1>4, <2>1, <2>3 DEF Rest
<1>6. CASE tasks' = Append(tasks, shown) /\ pages'[p].last = shown
  <2>1. EndsWith(tasks', shown)
    BY <1>1, <1>6, AppendReport
  <2>2. ReportComes'
    BY <2>1 DEF ReportComes, EndsWith
  <2>3. LastInv'
    BY <1>3, <1>6, <2>1 DEF LastInv, EndsWith
  <2>4. QED
    BY <1>4, <2>2, <2>3 DEF Rest
<1>7. QED
  BY <1>2, <1>5, <1>6

LEMMA DeliverRequestRest ==
  ASSUME CollectorInv, DeliverRequest
  PROVE  Rest'
<1> DEFINE n == Cardinality(Running)
           t == Tail(tasks)
<1>1. /\ TypeOK /\ tasks \in Seq(0..MaxVersions) /\ shown \in 0..MaxVersions /\ shown # Request
  BY TypeFacts DEF CollectorInv
<1>2. /\ tasks # <<>> /\ Head(tasks) = Request /\ UNCHANGED <<booting, contents, evidence, rescans>>
      /\ n \in Nat /\ tasks' = t \o [i \in 1..n |-> shown]
      /\ \A p \in ScriptIds : /\ pages'[p].running = pages[p].running /\ pages'[p].samples = pages[p].samples
                              /\ p \in Running => pages'[p].last = shown
  BY <1>1, RequestFacts
<1>3. Listening' = Listening /\ Running' = Running
  BY <1>2 DEF Listening, Running
<1>4. RunningInv' /\ BootInv'
  <2>1. \A q \in ScriptIds : Due(q)' => q \in Running'
    BY <1>2, <1>3 DEF CollectorInv, RunningInv, Due
  <2>2. QED
    BY <1>2, <1>3, <2>1 DEF CollectorInv, RunningInv, BootInv
<1>5. /\ t \in Seq(0..MaxVersions) /\ tasks[1] = Request
      /\ \A i \in DOMAIN tasks : i # 1 => \E j \in DOMAIN t : t[j] = tasks[i]
  BY <1>1, <1>2, Delivered
<1> HIDE DEF n, t
<1>6. DOMAIN t \subseteq DOMAIN tasks' /\ \A j \in DOMAIN t : tasks'[j] = t[j]
  <2>1. /\ DOMAIN tasks' = 1..(Len(t) + n) /\ Len(t) \in Nat /\ DOMAIN t = 1..Len(t)
        /\ \A j \in 1..Len(t) : tasks'[j] = t[j]
    BY <1>1, <1>2, <1>5, ConcatMessages
  <2>2. QED
    BY <1>2, <2>1
<1>7. ReportComes' \/ Agree'
  <2>1. CASE \E i \in DOMAIN tasks : tasks[i] # Request
    <3>1. PICK j \in DOMAIN t : t[j] # Request
      BY <1>5, <2>1
    <3>2. QED
      BY <1>6, <3>1 DEF ReportComes
  <2>2. CASE ~\E i \in DOMAIN tasks : tasks[i] # Request
    BY <1>2, <1>3, <2>2 DEF CollectorInv, ReportComes, Agree
  <2>3. QED
    BY <2>1, <2>2
<1>8. LastInv'
  <2> SUFFICES ASSUME NEW p \in Running', Running' = {p} PROVE EndsWith(tasks', pages'[p].last)
    BY DEF LastInv, EndsWith
  <2>1. n = 1
    BY <1>3, FS_Singleton DEF n
  <2>2. EndsWith(tasks', shown)
    <3>1. \A m \in Nat : m # 0 => EndsWith(t \o [i \in 1..m |-> shown], shown)
      BY <1>1, <1>5, ConcatReports
    <3>2. n \in Nat /\ n # 0
      BY <1>2, <2>1
    <3>3. EndsWith(t \o [i \in 1..n |-> shown], shown)
      BY <3>1, <3>2
    <3>4. QED
      BY <1>2, <3>3
  <2>3. pages'[p].last = shown
    BY <1>2, <1>3 DEF Running
  <2>4. QED
    BY <2>2, <2>3
<1>9. QED
  BY <1>4, <1>7, <1>8 DEF Rest

\* The manifest's content script starts: if others listen already, a report is to come.
LEMMA BootContentRest ==
  ASSUME CollectorInv, BootContent
  PROVE  Rest'
<1>1. /\ TypeOK /\ RunningInv /\ BootInv /\ LastInv /\ contents \in [ScriptIds -> ContentScripts] /\ 1 \in ScriptIds
  BY TypeFacts DEF CollectorInv
<1>2. /\ booting = "content" /\ booting' = "over" /\ UNCHANGED <<pages, tasks, evidence, rescans>>
      /\ contents' = [contents EXCEPT ![1] = StartedContent]
  BY DEF BootContent
<1>3. /\ contents'[1].page = None /\ contents'[1].state = "live" /\ ~contents'[1].sending
      /\ \A c \in ScriptIds \ {1} : contents'[c] = contents[c]
  BY <1>1, <1>2, StartedContentFacts
<1>4. Listening' = Listening \cup {1} /\ Running' = Running
  BY <1>1, <1>2, <1>3 DEF Listening, Running
<1>5. RunningInv'
  BY <1>1, <1>2, <1>3, <1>4 DEF RunningInv, Due
<1>6. BootInv'
  BY <1>2 DEF BootInv
<1>7. ReportComes' \/ Agree'
  <2>1. CASE Listening = {}
    <3>1. Listening' = {1}
      BY <1>4, <2>1
    <3>2. QED
      BY <1>3, <3>1 DEF Agree
  <2>2. CASE Listening # {}
    <3>1. \E r \in Rescans : rescans[r].step \in {"page", "broken"}
      BY <1>1, <1>2, <2>2 DEF BootInv
    <3>2. QED
      BY <1>2, <3>1 DEF ReportComes
  <2>3. QED
    BY <2>1, <2>2
<1>8. \A c \in Listening' : contents'[c].page = None \/ (c \in Listening /\ contents'[c].page = contents[c].page)
  BY <1>3, <1>4 DEF Listening
<1>9. LastInv'
  <2> SUFFICES ASSUME NEW p \in Running, Running = {p}
               PROVE  \/ EndsWith(tasks, pages[p].last)
                      \/ NoReports(tasks) /\ \A c \in Listening' : contents'[c].page \in {None, pages[p].last}
    BY <1>2, <1>4 DEF LastInv, EndsWith, NoReports
  <2>1. QED
    BY <1>1, <1>8 DEF LastInv
<1>10. QED
  BY <1>5, <1>6, <1>7, <1>9 DEF Rest

LEMMA DeliverReportRest ==
  ASSUME CollectorInv, DeliverReport
  PROVE  Rest'
<1>1. TypeOK /\ RunningInv /\ BootInv /\ LastInv /\ tasks \in Seq(0..MaxVersions)
  BY TypeFacts DEF CollectorInv
<1>2. /\ tasks # <<>> /\ Head(tasks) # Request /\ tasks' = Tail(tasks)
      /\ UNCHANGED <<booting, pages, evidence, rescans>> /\ Listening' = Listening
      /\ \A c \in Listening : contents'[c].page = Head(tasks) /\ contents'[c].sending
      /\ \A c \in ScriptIds \ Listening : contents'[c] = contents[c]
  BY <1>1, ReportFacts
<1>3. Running' = Running
  BY <1>2 DEF Running
<1>4. RunningInv' /\ BootInv'
  BY <1>1, <1>2, <1>3 DEF RunningInv, BootInv, Due
<1>5. Agree'
  BY <1>2 DEF Agree
<1>6. /\ ~NoReports(tasks)
      /\ \A report : EndsWith(tasks, report) =>
           EndsWith(tasks', report) \/ (Head(tasks) = report /\ NoReports(tasks'))
  <2>1. /\ 1 \in DOMAIN tasks /\ tasks[1] = Head(tasks)
        /\ \A report : EndsWith(tasks, report) =>
             EndsWith(Tail(tasks), report) \/ (Head(tasks) = report /\ NoReports(Tail(tasks)))
    BY <1>1, <1>2, Delivered
  <2>2. QED
    BY <1>2, <2>1 DEF NoReports
<1>7. LastInv'
  <2> SUFFICES ASSUME NEW p \in Running, Running = {p}
               PROVE  \/ EndsWith(tasks', pages[p].last)
                      \/ NoReports(tasks') /\ \A c \in Listening : contents'[c].page \in {None, pages[p].last}
    BY <1>2, <1>3 DEF LastInv, EndsWith, NoReports
  <2>1. EndsWith(tasks, pages[p].last)
    BY <1>1, <1>6 DEF LastInv
  <2>2. QED
    BY <1>2, <1>6, <2>1
<1>8. QED
  BY <1>4, <1>5, <1>7 DEF Rest

LEMMA FallbackRest ==
  ASSUME CollectorInv, NEW c \in ScriptIds, Fallback(c)
  PROVE  Rest'
<1>1. TypeOK /\ RunningInv /\ BootInv /\ LastInv /\ contents \in [ScriptIds -> ContentScripts]
  BY TypeFacts DEF CollectorInv
<1>2. /\ c \in Listening /\ UNCHANGED <<booting, pages, tasks, evidence, rescans>>
      /\ contents' = [contents EXCEPT ![c] = Send(contents[c])]
  BY DEF Fallback
<1>3. /\ \A d \in ScriptIds : contents'[d].state = contents[d].state /\ contents'[d].page = contents[d].page
      /\ contents'[c].sending /\ \A d \in ScriptIds \ {c} : contents'[d] = contents[d]
  BY <1>1, <1>2, SendFacts
<1>4. Listening' = Listening /\ Running' = Running
  BY <1>2, <1>3 DEF Listening, Running
<1>5. RunningInv' /\ BootInv'
  BY <1>1, <1>2, <1>3, <1>4 DEF RunningInv, BootInv, Due
<1>6. \A d \in Listening : d \in ScriptIds /\ contents'[d].page = contents[d].page
                           /\ (contents[d].sending => contents'[d].sending)
  BY <1>3 DEF Listening
<1>7. ReportComes' \/ Agree'
  BY <1>2, <1>4, <1>6 DEF CollectorInv, ReportComes, Agree
<1>8. LastInv'
  BY <1>1, <1>2, <1>4, <1>6 DEF LastInv, EndsWith, NoReports
<1>9. QED
  BY <1>5, <1>7, <1>8 DEF Rest

\* What one content script sends is what they all have, unless a report is to come.
LEMMA SendEvidenceRest ==
  ASSUME CollectorInv, NEW c \in ScriptIds, SendEvidence(c)
  PROVE  Rest'
<1>1. /\ TypeOK /\ RunningInv /\ BootInv /\ LastInv /\ contents \in [ScriptIds -> ContentScripts]
      /\ rescans \in [Rescans -> RescanRecords]
  BY TypeFacts DEF CollectorInv
<1>2. /\ contents[c].sending /\ UNCHANGED <<booting, pages, tasks>> /\ evidence' = contents[c].page
      /\ contents' = [contents EXCEPT ![c].sending = FALSE]
      /\ rescans' = [r \in Rescans |-> IF rescans[r].step = "idle" THEN rescans[r]
                                       ELSE [rescans[r] EXCEPT !.recollected = TRUE]]
  BY DEF SendEvidence, Collected
<1>3. /\ \A d \in ScriptIds : contents'[d].state = contents[d].state /\ contents'[d].page = contents[d].page
      /\ ~contents'[c].sending /\ \A d \in ScriptIds \ {c} : contents'[d] = contents[d]
  BY <1>1, <1>2 DEF ContentScripts
<1>4. \A r \in Rescans : rescans'[r].step = rescans[r].step
  BY <1>1, <1>2 DEF RescanRecords
<1>5. Listening' = Listening /\ Running' = Running /\ c \in Listening
  BY <1>1, <1>2, <1>3 DEF Listening, Running, RunningInv
<1>6. RunningInv' /\ BootInv'
  BY <1>1, <1>2, <1>3, <1>4, <1>5 DEF RunningInv, BootInv, Due
<1>7. \A d \in Listening : contents'[d].page = contents[d].page
  BY <1>3 DEF Listening
<1>8. ReportComes' \/ Agree'
  BY <1>2, <1>4, <1>5, <1>7 DEF CollectorInv, ReportComes, Agree
<1>9. LastInv'
  BY <1>1, <1>2, <1>5, <1>7 DEF LastInv, EndsWith, NoReports
<1>10. QED
  BY <1>6, <1>8, <1>9 DEF Rest

LEMMA AnsweredRest ==
  ASSUME CollectorInv, NEW r \in Rescans, Answered(r)
  PROVE  Rest'
<1> DEFINE n == Cardinality(Listening)
<1>1. /\ TypeOK /\ RunningInv /\ BootInv /\ LastInv /\ tasks \in Seq(0..MaxVersions) /\ Request \in 0..MaxVersions
      /\ rescans \in [Rescans -> RescanRecords]
  BY TypeFacts DEF CollectorInv
<1>2. /\ rescans[r].step = "asked" /\ UNCHANGED <<booting, pages, contents, evidence>>
      /\ rescans' = [rescans EXCEPT ![r].step = "over"] /\ tasks' = tasks \o [i \in 1..n |-> Request]
  BY DEF Answered
<1>3. \A q \in Rescans : rescans[q].step \in {"content", "page", "broken"} => rescans'[q].step = rescans[q].step
  BY <1>1, <1>2
<1>4. Listening' = Listening /\ Running' = Running
  BY <1>2 DEF Listening, Running
<1>5. RunningInv' /\ BootInv'
  BY <1>1, <1>2, <1>3, <1>4 DEF RunningInv, BootInv, Due
<1>6. n \in Nat
  <2>1. IsFiniteSet(ScriptIds) /\ Listening \in SUBSET ScriptIds
    BY <1>1, TypeFacts, FS_Interval DEF ScriptIds, Listening
  <2>2. QED
    BY <2>1, FS_Subset, FS_CardinalityType
<1> HIDE DEF n
<1>7. /\ \A report : EndsWith(tasks, report) => EndsWith(tasks', report)
      /\ NoReports(tasks) => NoReports(tasks')
  <2>1. \A m \in Nat : /\ \A report : EndsWith(tasks, report) => EndsWith(tasks \o [i \in 1..m |-> Request], report)
                       /\ NoReports(tasks) => NoReports(tasks \o [i \in 1..m |-> Request])
    BY <1>1, ConcatRequests
  <2>2. QED
    BY <1>2, <1>6, <2>1
<1>8. ReportComes' \/ Agree'
  <2>1. CASE \E i \in DOMAIN tasks : tasks[i] # Request
    <3>1. \A m \in Nat : LET t == tasks \o [i \in 1..m |-> Request]
                         IN \A i \in DOMAIN tasks : i \in DOMAIN t /\ t[i] = tasks[i]
      <4> TAKE m \in Nat
      <4> DEFINE t == tasks \o [i \in 1..m |-> Request]
      <4>1. /\ DOMAIN t = 1..(Len(tasks) + m) /\ Len(tasks) \in Nat /\ DOMAIN tasks = 1..Len(tasks)
            /\ \A i \in 1..Len(tasks) : t[i] = tasks[i]
        BY <1>1, ConcatMessages
      <4> HIDE DEF t
      <4>2. \A i \in DOMAIN tasks : i \in DOMAIN t /\ t[i] = tasks[i]
        BY <4>1
      <4>3. QED
        BY <4>2 DEF t
    <3>2. \A i \in DOMAIN tasks : i \in DOMAIN tasks' /\ tasks'[i] = tasks[i]
      BY <1>2, <1>6, <3>1
    <3>3. QED
      BY <2>1, <3>2 DEF ReportComes
  <2>2. CASE \E q \in Rescans : rescans[q].step \in {"content", "page", "broken"}
    BY <1>3, <2>2 DEF ReportComes
  <2>3. CASE Agree
    BY <1>2, <1>4, <2>3 DEF Agree
  <2>4. QED
    BY <2>1, <2>2, <2>3 DEF CollectorInv, ReportComes
<1>9. LastInv'
  <2> SUFFICES ASSUME NEW p \in Running, Running = {p}
               PROVE  \/ EndsWith(tasks', pages[p].last)
                      \/ NoReports(tasks') /\ \A c \in Listening : contents[c].page \in {None, pages[p].last}
    BY <1>2, <1>4, ZenonT(30) DEF LastInv, EndsWith, NoReports
  <2>1. QED
    BY <1>1, <1>7 DEF LastInv
<1>10. QED
  BY <1>5, <1>8, <1>9 DEF Rest

LEMMA InjectContentRest ==
  ASSUME CollectorInv, NEW r \in Rescans, InjectContent(r)
  PROVE  Rest'
<1>1. /\ TypeOK /\ RunningInv /\ BootInv /\ LastInv /\ contents \in [ScriptIds -> ContentScripts]
      /\ rescans \in [Rescans -> RescanRecords] /\ r + 1 \in ScriptIds /\ r \in Rescans
  BY TypeFacts DEF CollectorInv
<1>2. /\ rescans' = [rescans EXCEPT ![r].step = "page"] /\ contents' = [contents EXCEPT ![r + 1] = StartedContent]
      /\ rescans[r].step = "content" /\ UNCHANGED <<booting, pages, tasks, evidence>>
  BY DEF InjectContent
<1>3. /\ contents'[r + 1].page = None /\ contents'[r + 1].state = "live" /\ ~contents'[r + 1].sending
      /\ \A c \in ScriptIds \ {r + 1} : contents'[c] = contents[c]
  BY <1>1, <1>2, StartedContentFacts
<1>4. rescans'[r].step = "page" /\ \A q \in Rescans \ {r} : rescans'[q].step = rescans[q].step
  BY <1>1, <1>2 DEF RescanRecords
<1>5. Listening' = Listening \cup {r + 1} /\ Running' = Running
  BY <1>1, <1>2, <1>3 DEF Listening, Running
<1>6. RunningInv'
  BY <1>1, <1>2, <1>3, <1>5 DEF RunningInv, Due
<1>7. BootInv'
  <2> SUFFICES ASSUME booting # "over", NEW c \in Listening'
               PROVE  c # 1 /\ \E q \in Rescans : c = q + 1 /\ rescans'[q].step \in {"page", "broken"}
    BY <1>2 DEF BootInv
  <2>1. CASE c = r + 1
    BY <1>4, <2>1, CollectorAssumption DEF Rescans
  <2>2. CASE c # r + 1
    <3>1. c # 1 /\ \E q \in Rescans : c = q + 1 /\ rescans[q].step \in {"page", "broken"}
      BY <1>1, <1>5, <2>2 DEF BootInv
    <3>2. QED
      BY <1>4, <2>2, <3>1
  <2>3. QED
    BY <2>1, <2>2
<1>8. ReportComes'
  BY <1>4 DEF ReportComes
<1>9. \A c \in Listening' : contents'[c].page = None \/ (c \in Listening /\ contents'[c].page = contents[c].page)
  BY <1>3, <1>5 DEF Listening
<1>10. LastInv'
  <2> SUFFICES ASSUME NEW p \in Running, Running = {p}
               PROVE  \/ EndsWith(tasks, pages[p].last)
                      \/ NoReports(tasks) /\ \A c \in Listening' : contents'[c].page \in {None, pages[p].last}
    BY <1>2, <1>5 DEF LastInv, EndsWith, NoReports
  <2>1. QED
    BY <1>1, <1>9 DEF LastInv
<1>11. QED
  BY <1>6, <1>7, <1>8, <1>10 DEF Rest

LEMMA InjectPageRest ==
  ASSUME CollectorInv, NEW r \in Rescans, InjectPage(r)
  PROVE  Rest'
<1>1. RunningInv /\ r + 1 \in ScriptIds
  BY TypeFacts DEF CollectorInv
<1>2. /\ booting' = "over" /\ pages' = [pages EXCEPT ![r + 1] = StartedPage] /\ tasks' = Append(tasks, shown)
      /\ contents' = contents
  BY DEF InjectPage
<1>3. (\A q \in ScriptIds : Due(q)' => q \in Running') /\ ReportComes' /\ LastInv'
  BY <1>1, <1>2, PageStarts
<1>4. RunningInv' /\ BootInv'
  BY <1>1, <1>2, <1>3 DEF RunningInv, BootInv, Listening
<1>5. QED
  BY <1>3, <1>4 DEF Rest

\* Nobody listens, or an injection is refused: a report is still owed.
LEMMA UnansweredRest ==
  ASSUME CollectorInv, NEW r \in Rescans, Unanswered(r) \/ InjectionBroken(r)
  PROVE  Rest'
<1>1. RunningInv /\ BootInv /\ LastInv /\ rescans \in [Rescans -> RescanRecords]
  BY TypeFacts DEF CollectorInv
<1>2. /\ UNCHANGED <<booting, pages, contents, tasks, evidence>>
      /\ \A q \in Rescans \ {r} : rescans'[q].step = rescans[q].step
      /\ (Listening = {} /\ rescans'[r].step = "content") \/ rescans'[r].step = "broken"
  <2>1. CASE Unanswered(r)
    BY <1>1, <2>1 DEF Unanswered, RescanRecords
  <2>2. CASE InjectionBroken(r)
    BY <1>1, <2>2 DEF InjectionBroken, RescanRecords
  <2>3. QED
    BY <2>1, <2>2
<1>3. Listening' = Listening /\ Running' = Running
  BY <1>2 DEF Listening, Running
<1>4. RunningInv' /\ LastInv'
  BY <1>1, <1>2, <1>3 DEF RunningInv, Due, LastInv, EndsWith, NoReports
<1>5. BootInv'
  BY <1>1, <1>2, <1>3 DEF BootInv
<1>6. ReportComes'
  BY <1>2 DEF ReportComes
<1>7. QED
  BY <1>4, <1>5, <1>6 DEF Rest

LEMMA UpdateRest ==
  ASSUME CollectorInv, Update
  PROVE  Rest'
<1>1. RunningInv /\ LastInv /\ contents \in [ScriptIds -> ContentScripts]
  BY TypeFacts DEF CollectorInv
<1>2. /\ booting' = "over" /\ UNCHANGED <<pages, tasks>>
      /\ contents' = [c \in ScriptIds |-> IF c \in Listening THEN [NoContent EXCEPT !.state = "gone"]
                                                              ELSE contents[c]]
  BY DEF Update
<1>3. \A c \in ScriptIds : contents'[c].state # "live" /\ ~contents'[c].sending
  BY <1>1, <1>2, StartedContentFacts DEF RunningInv, Listening, CollectorInv
<1>4. Listening' = {} /\ Running' = Running
  BY <1>2, <1>3 DEF Listening, Running
<1>5. RunningInv' /\ BootInv' /\ Agree'
  BY <1>1, <1>2, <1>3, <1>4 DEF RunningInv, BootInv, Agree, Due
<1>6. LastInv'
  BY <1>1, <1>2, <1>4 DEF LastInv, EndsWith, NoReports
<1>7. QED
  BY <1>5, <1>6 DEF Rest

LEMMA CollectorInit == Init => CollectorInv
<1> SUFFICES ASSUME Init PROVE CollectorInv
  OBVIOUS
<1>1. /\ \A p \in ScriptIds : pages[p] = NoPage
      /\ \A c \in ScriptIds : contents[c] = NoContent
      /\ \A r \in Rescans : rescans[r] = NoRescan
      /\ tasks = <<>> /\ Running = {} /\ Listening = {}
  BY DEF Init, Running, Listening, NoPage, NoContent
<1>2. TypeOK
  <2>1. /\ shown \in Versions /\ mainWorld \in BOOLEAN /\ booting \in {"page", "content", "over"}
        /\ tasks \in Seq(0..MaxVersions) /\ evidence \in {NoEvidence} \cup 0..MaxVersions /\ updates \in 0..MaxUpdates
    BY CollectorAssumption DEF Init, Versions
  <2>2. pages \in [ScriptIds -> [running : BOOLEAN, last : 0..MaxVersions, samples : 0..Samples]]
    BY CollectorAssumption DEF Init, NoPage, None
  <2>3. contents \in [ScriptIds -> [state : {"absent", "live", "gone"}, page : 0..MaxVersions,
                                    sentOnce : BOOLEAN, sending : BOOLEAN]]
    BY CollectorAssumption DEF Init, NoContent, None
  <2>4. rescans \in [Rescans -> [step : {"idle", "asked", "content", "page", "over", "broken"},
                                 recollected : BOOLEAN]]
    BY DEF Init, NoRescan
  <2>5. QED
    BY <2>1, <2>2, <2>3, <2>4 DEF TypeOK
<1>3. RunningInv
  BY <1>1, CollectorAssumption DEF RunningInv, Due, NoPage, NoContent
<1>4. BootInv /\ Agree /\ LastInv
  BY <1>1 DEF BootInv, Agree, LastInv
<1>5. QED
  BY <1>2, <1>3, <1>4 DEF CollectorInv

LEMMA CollectorStep == CollectorInv /\ [Next]_vars => CollectorInv'
<1> SUFFICES ASSUME CollectorInv, [Next]_vars PROVE CollectorInv'
  OBVIOUS
<1>1. TypeOK /\ rescans \in [Rescans -> RescanRecords]
  BY TypeFacts DEF CollectorInv
<1>2. CASE Next
  <2>1. TypeOK'
    BY <1>1, <1>2, CollectorTypeNext
  <2> SUFFICES Rest'
    BY <2>1 DEF CollectorInv, Rest
  <2>2. CASE PageWork
    BY <2>2, BootPageRest, DeliverRequestRest, SampleRest DEF PageWork
  <2>3. CASE ContentWork
    BY <2>3, BootContentRest, DeliverReportRest, FallbackRest DEF ContentWork
  <2>4. ASSUME NEW r \in Rescans, Ask(r) PROVE Rest'
    <3>1. /\ UNCHANGED <<booting, pages, contents, tasks, evidence>>
          /\ rescans[r].step = "idle" /\ rescans' = [rescans EXCEPT ![r].step = "asked"]
      BY <2>4 DEF Ask
    <3>2. \A q \in Rescans : rescans[q].step \in {"content", "page", "broken"} => rescans'[q].step = rescans[q].step
      BY <1>1, <3>1
    <3>3. QED
      BY <3>1, <3>2, RestUnchanged
  <2>5. ASSUME NEW r \in Rescans, RescanWork(r) PROVE Rest'
    BY <2>5, AnsweredRest, UnansweredRest, InjectContentRest, InjectPageRest DEF RescanWork
  <2>6. CASE Change
    BY <2>6, RestUnchanged DEF Change
  <2>7. QED
    BY <1>2, <2>2, <2>3, <2>4, <2>5, <2>6, SendEvidenceRest, UpdateRest DEF Next
<1>3. CASE UNCHANGED vars
  <2>1. TypeOK'
    BY <1>1, <1>3 DEF TypeOK, vars
  <2>2. Rest'
    BY <1>3, RestUnchanged DEF vars
  <2>3. QED
    BY <2>1, <2>2 DEF CollectorInv, Rest
<1>4. QED
  BY <1>2, <1>3

LEMMA CollectorAlways == Spec => []CollectorInv
BY CollectorInit, CollectorStep, PTL DEF Spec

--------------------------------------------------------------------------------
(* Theorems *)

\* Whatever the scripts, rescans and updates do, the document's state is one of those listed.
THEOREM TypeCorrect == Spec => []TypeOK
<1>1. CollectorInv => TypeOK
  BY DEF CollectorInv
<1>2. QED
  BY <1>1, CollectorAlways, PTL

\* With any number of rescans, scripts and updates, and whatever the order of timers and
\* messages, the worker of a document at rest has the report that its content scripts have
\* (content.ts sends every report on; background.ts ensureCollecting injects the page script
\* after the content script, so that whoever listens hears its first report).
THEOREM LastReportCorrect == Spec => []WorkerHasLastReport
<1>1. CollectorInv => WorkerHasLastReport
  <2> SUFFICES ASSUME CollectorInv, AtRest, NEW c \in Listening, contents[c].page # None
               PROVE  evidence = contents[c].page
    BY DEF WorkerHasLastReport
  <2>1. ~ReportComes
    BY DEF AtRest, ReportComes
  <2>2. QED
    BY <2>1 DEF CollectorInv, Agree, AtRest
<1>2. QED
  BY <1>1, CollectorAlways, PTL

\* While one page script has ever run, what it read at its last sample is what the worker of
\* a document at rest knows, if anybody heard it at all (report of page.ts, the "collect"
\* and message listeners of content.ts).
THEOREM LastSampleCorrect == Spec => []LastSampleIsSent
<1>1. CollectorInv => LastSampleIsSent
  <2> SUFFICES ASSUME CollectorInv, AtRest, NEW p \in Running, NEW c \in Listening,
                      Running = {p}, contents[c].page # None
               PROVE  Globals[evidence] = Globals[pages[p].last]
    BY DEF LastSampleIsSent
  <2>1. ~ReportComes
    BY DEF AtRest, ReportComes
  <2>2. evidence = contents[c].page
    BY <2>1 DEF CollectorInv, Agree, AtRest
  <2>3. contents[c].page = pages[p].last
    BY DEF CollectorInv, LastInv, EndsWith, AtRest
  <2>4. QED
    BY <2>2, <2>3
<1>2. QED
  BY <1>1, CollectorAlways, PTL
================================================================================
