----------------------------- MODULE DatabaseBuild -----------------------------
(***************************************************************************)
(* The builder of the vulnerability database (cmd/wappacvelyze-db): the    *)
(* yearly NVD feeds are downloaded one after the other, each into a         *)
(* temporary file that dropped connections resume (sources.go), ingested    *)
(* and, on failure, tried again (main.go); six other sources enrich what was *)
(* kept (enrich.go); then the database and its manifest are written.        *)
(* Servers answer as they like and may replace a feed at any moment.        *)
(*                                                                         *)
(* A feed is a sequence of records, each as long as a block of its file.    *)
(***************************************************************************)
EXTENDS Enrichment

CONSTANTS LastYear,       \* feeds are numbered 1..LastYear
          Records,        \* the records of all versions of all feeds
          Editions,       \* Editions[y]: the successive contents of feed y
          StallLimit,     \* downloadStallLimit
          FeedAttempts,   \* nvdRetryAttempts
          OpenAttempts,   \* attempts of fetcher.open
          Apps,           \* the fingerprints: technologies and their product, if they have a CPE
          Names,          \* Names[r]: the products record r lists as vulnerable
          Answers         \* Answers[k]: the answers source k may give

ASSUME FeedsAssumption ==
  /\ LastYear \in Nat \ {0}
  /\ Editions \in [1..LastYear -> Seq(Seq(Records) \ {<<>>}) \ {<<>>}]
\* A feed has the records with an id of its year, each once.
ASSUME YearsAssumption ==
  \A y, z \in 1..LastYear : \A e \in DOMAIN Editions[y], f \in DOMAIN Editions[z] :
    \A i \in DOMAIN Editions[y][e], j \in DOMAIN Editions[z][f] :
      Editions[y][e][i] = Editions[z][f][j] => y = z /\ (e = f => i = j)
\* The answers are lists, the last one is a map; names are not empty.
ASSUME AnswersAssumption ==
  /\ \A k \in 1..5 : \A answer \in Answers[k] : answer \in Seq(Range(answer))
  /\ \A answer \in Answers[1] \cup Answers[5] : \A i \in DOMAIN answer : answer[i].name # None
  /\ \A answer \in Answers[6] : IsFiniteSet(answer) /\ \A library \in answer : library.name # None
ASSUME LimitsAssumption ==
  /\ StallLimit \in Nat \ {0} /\ FeedAttempts \in Nat \ {0}
  /\ OpenAttempts \in Nat \ {0}

VARIABLES edition,   \* the edition of each feed that its server has now
          pc, year, attempt,
          file,      \* the temporary file: the edition and number of each block
          have, best, stalls,
          matches,   \* the records ingested into the database, in order
          kept,      \* records counted for the "nvd" source
          source, tries,  \* the source that is opened after the feeds, and the attempts made
          marks,     \* KEV entry, EPSS score and exploits of each record
          lifecycle, \* the endoflife.date product of each product
          libraries, \* the Retire.js libraries in the database
          links,     \* TechnologyLibraries
          read,      \* the answers of the sources so far (history)
          replaced   \* a feed was replaced while it was read (history)

transfer == <<file, have, best, stalls>>
database == <<matches, kept>>
retire == <<libraries, links>>
later == <<source, tries, marks, lifecycle, retire, read>>
buildVars == <<edition, pc, year, attempt, transfer, database, later, replaced>>

Years == 1..LastYear
Content(y, e) == Editions[y][e]
Current == Content(year, edition[year])
Technologies == {app \in Apps : app.product # None}
Products == {app.product : app \in Technologies}
Known == {r \in Records : Names[r] \cap Products # {}}
Stored == Range(matches)
Running == pc \notin {"written", "aborted"}

BuildTypeOK ==
  /\ edition \in [Years -> Nat] /\ \A y \in Years : edition[y] \in DOMAIN Editions[y]
  /\ pc \in {"request", "ingest", "failed", "open", "blob", "manifest", "written", "aborted"}
  /\ year \in Years /\ attempt \in 1..FeedAttempts
  /\ file \in Seq([edition : Nat, block : Nat])
  /\ have = Len(file) /\ best \in Nat /\ stalls \in 0..StallLimit
  /\ matches \in Seq(Records) /\ kept \in Nat
  /\ source \in 1..7 /\ tries \in 0..OpenAttempts
  /\ DOMAIN marks = Records /\ DOMAIN lifecycle = Products
  /\ DOMAIN links \subseteq Technologies
  /\ Len(read) = source - 1 /\ replaced \in BOOLEAN

BuildInit ==
  /\ edition = [y \in Years |-> 1]
  /\ pc = "request" /\ year = 1 /\ attempt = 1
  /\ file = <<>> /\ have = 0 /\ best = 0 /\ stalls = 0
  /\ matches = <<>> /\ kept = 0
  /\ source = 1 /\ tries = 0
  /\ marks = [r \in Records |-> Unmarked] /\ lifecycle = [key \in Products |-> None]
  /\ libraries = {} /\ links = <<>> /\ read = <<>>
  /\ replaced = FALSE

--------------------------------------------------------------------------------
(* fetcher.download *)

\* Faulty variants, named Faulty..., stand before the definitions they would replace;
\* nothing uses them but the mutation runs that show each property can fail.
FaultyBytesAreProgress(bytes, whole) ==
  IF whole THEN pc' = "ingest" /\ UNCHANGED <<best, stalls>>
  ELSE IF Len(bytes) > have
    THEN best' = Len(bytes) /\ stalls' = 0 /\ UNCHANGED pc
  ELSE /\ stalls' = stalls + 1
       /\ pc' = IF stalls' = StallLimit THEN "failed" ELSE "request"
       /\ UNCHANGED best

\* The loop of download after a request that leaves `bytes` in the file: progress is
\* having more than ever before; without it the requests are counted.
AfterRequest(bytes, whole) ==
  IF whole THEN pc' = "ingest" /\ UNCHANGED <<best, stalls>>
  ELSE IF Len(bytes) > best
    THEN best' = Len(bytes) /\ stalls' = 0 /\ UNCHANGED pc
  ELSE /\ stalls' = stalls + 1
       /\ pc' = IF stalls' = StallLimit THEN "failed" ELSE "request"
       /\ UNCHANGED best

\* appendRange leaves `bytes`; `whole` says that it returned no error and that the size
\* it returned is the size of the file.
Requested(bytes, whole) ==
  /\ pc = "request"
  /\ file' = bytes /\ have' = Len(bytes)
  /\ AfterRequest(bytes, whole)
  /\ UNCHANGED <<edition, year, attempt, database, later, replaced>>

\* Blocks of the feed the server has now.
Blocks(first, last) == [k \in 1..(last - first + 1) |-> [edition |-> edition[year], block |-> first + k - 1]]

\* No usable answer: no connection, an error status (also "range not satisfiable").
NoAnswer == Requested(file, FALSE)

FaultyKeepBytes(n) ==
  /\ n \in 0..Len(Current)
  /\ Requested(file \o Blocks(1, n), n = Len(Current))

\* 200: the file starts again; n blocks arrive before the connection ends.  An answer
\* without a size is an error after the truncation, as if no block had arrived.
WholeFeed(n) ==
  /\ n \in 0..Len(Current)
  /\ Requested(Blocks(1, n), n = Len(Current))

\* 206: n more blocks arrive before the connection ends.
RestOfFeed(n) ==
  /\ have > 0 /\ have < Len(Current)
  /\ n \in 0..(Len(Current) - have)
  /\ Requested(file \o Blocks(have + 1, have + n), have + n = Len(Current))

--------------------------------------------------------------------------------
(* ingestNVDFeed and its retries *)

FaultyAppendTwice(list, record) == IF record \in Known THEN Append(list, record) ELSE list

\* ingestRecord: the record is kept if it names a product of the database; a statement the
\* product already has is not added again.
IngestRecord(list, record) ==
  IF record \in Known \ Range(list) THEN Append(list, record) ELSE list

\* How many of the file's first n blocks were kept, those ingested before included.
KeptOf(n) == Cardinality({i \in 1..n : Content(year, file[i].edition)[file[i].block] \in Known})

\* The records of the file's first n blocks are ingested.
Ingested(n) ==
  LET upTo[i \in 0..n] ==
        IF i = 0 THEN matches
                 ELSE IngestRecord(upTo[i - 1], Content(year, file[i].edition)[file[i].block])
  IN upTo[n]

NewFile == file' = <<>> /\ have' = 0 /\ best' = 0 /\ stalls' = 0

\* A feed is finished with n records: the next one, or the other sources.
FeedDone(n) ==
  /\ kept' = kept + KeptOf(n)
  /\ attempt' = 1
  /\ NewFile
  /\ IF year < LastYear THEN year' = year + 1 /\ pc' = "request"
     ELSE pc' = "open" /\ UNCHANGED year
  /\ UNCHANGED <<edition, later, replaced>>

\* Blocks at the head of the file that come from one edition: a file resumed across a
\* replacement cannot be decompressed beyond them.
Leading == {n \in 0..Len(file) : \A i \in 1..n : file[i].edition = file[1].edition}
OneEdition == Len(file) \in Leading

IngestFeed ==
  /\ pc = "ingest" /\ OneEdition
  /\ matches' = Ingested(Len(file))
  /\ FeedDone(Len(file))

\* Decoding a mixed file stops with an error at or before the seam...
IngestFails(n) ==
  /\ pc = "ingest" /\ ~OneEdition
  /\ n \in Leading
  /\ matches' = Ingested(n)
  /\ pc' = "failed"
  /\ UNCHANGED <<edition, year, attempt, transfer, kept, later, replaced>>

\* ... or, when the broken data begins between two records, as if the array had ended
\* (Decoder.More answers false for an error).
IngestStopsShort(n) ==
  /\ pc = "ingest" /\ ~OneEdition
  /\ n \in Leading
  /\ matches' = Ingested(n)
  /\ FeedDone(n)

\* The feed is read again from the start, or the build is given up.
Retry ==
  /\ pc = "failed"
  /\ IF attempt < FeedAttempts
       THEN pc' = "request" /\ attempt' = attempt + 1 /\ NewFile
       ELSE pc' = "aborted" /\ UNCHANGED <<attempt, transfer>>
  /\ UNCHANGED <<edition, year, database, later, replaced>>

--------------------------------------------------------------------------------
(* The other sources *)

\* Source k answers, and its answer is ingested.
Answered(k, answer) ==
  /\ pc = "open" /\ source = k
  /\ answer \in Answers[k]
  /\ source' = k + 1 /\ tries' = 0
  /\ read' = Append(read, answer)
  /\ UNCHANGED <<edition, year, attempt, transfer, database, replaced>>

Marked(k, answer, newMarks) ==
  /\ Answered(k, answer)
  /\ marks' = newMarks
  /\ UNCHANGED <<pc, lifecycle, retire>>

KevRead(answer) == answer # <<>> /\ Marked(1, answer, IngestKEV(marks, Stored, answer))
EpssRead(answer) == Marked(2, answer, IngestEPSS(marks, Stored, answer))
NucleiRead(answer) == Marked(3, answer, IngestNuclei(marks, Stored, answer))
MetasploitRead(answer) == Marked(4, answer, IngestMetasploit(marks, Stored, answer))

\* An empty KEV catalog is an error.
KevEmpty ==
  /\ pc = "open" /\ source = 1 /\ <<>> \in Answers[1]
  /\ pc' = "aborted"
  /\ UNCHANGED <<edition, year, attempt, transfer, database, later, replaced>>

EndOfLifeRead(answer) ==
  /\ Answered(5, answer)
  /\ lifecycle' = Lifecycles(Products, answer)
  /\ UNCHANGED <<pc, marks, retire>>

\* The repository is read in any order.
RetireRead(answer) ==
  /\ Answered(6, answer)
  /\ \E order \in SetToSeqs(answer) :
       LET linked == {t \in Technologies : LinkOf(t, order) # None}
       IN /\ libraries' = Libraries(order)
          /\ links' = [t \in linked |-> LinkOf(t, order)]
  /\ pc' = "blob"
  /\ UNCHANGED <<marks, lifecycle>>

OpenFails ==
  /\ pc = "open"
  /\ tries' = tries + 1
  /\ pc' = IF tries' = OpenAttempts THEN "aborted" ELSE "open"
  /\ UNCHANGED <<edition, year, attempt, transfer, database, source, marks, lifecycle, retire, read, replaced>>

--------------------------------------------------------------------------------
(* The output, and the world *)

WriteBlob ==
  /\ pc = "blob"
  /\ pc' = "manifest"
  /\ UNCHANGED <<edition, year, attempt, transfer, database, later, replaced>>

WriteManifest ==
  /\ pc = "manifest"
  /\ pc' = "written"
  /\ UNCHANGED <<edition, year, attempt, transfer, database, later, replaced>>

\* The build is interrupted, or a source is malformed or a file cannot be written.
Aborted ==
  /\ Running
  /\ pc' = "aborted"
  /\ UNCHANGED <<edition, year, attempt, transfer, database, later, replaced>>

\* The server replaces a feed by its next edition.
Replace(y) ==
  /\ edition[y] < Len(Editions[y])
  /\ edition' = [edition EXCEPT ![y] = @ + 1]
  /\ replaced' = (replaced \/ y <= year)
  /\ UNCHANGED <<pc, year, attempt, transfer, database, later>>

Request ==
  \/ NoAnswer
  \/ \E n \in 0..Len(Current) : WholeFeed(n)
  \/ \E n \in 0..Len(Current) : RestOfFeed(n)

SourceRead ==
  \/ \E answer \in Answers[1] : KevRead(answer)
  \/ \E answer \in Answers[2] : EpssRead(answer)
  \/ \E answer \in Answers[3] : NucleiRead(answer)
  \/ \E answer \in Answers[4] : MetasploitRead(answer)
  \/ \E answer \in Answers[5] : EndOfLifeRead(answer)
  \/ \E answer \in Answers[6] : RetireRead(answer)

Work ==
  \/ Request
  \/ IngestFeed
  \/ \E n \in Leading : IngestFails(n)
  \/ \E n \in Leading : IngestStopsShort(n)
  \/ Retry
  \/ SourceRead
  \/ KevEmpty
  \/ OpenFails
  \/ WriteBlob
  \/ WriteManifest

BuildNext == Work \/ Aborted \/ \E y \in Years : Replace(y)

BuildSpec == BuildInit /\ [][BuildNext]_buildVars

\* Requests end: the client has a timeout and pauses are finite.
FairBuildSpec == BuildSpec /\ WF_buildVars(Work)

--------------------------------------------------------------------------------
(* Properties *)

\* However often the connection drops and whether or not Range is honoured, a file that
\* is ingested has every block once and in order up to the size of the feed, all of one
\* edition if the server kept it (download, appendRange).
FileIsComplete ==
  pc = "ingest" =>
    /\ \A k \in DOMAIN file : file[k].block = k
    /\ have = Len(Content(year, file[have].edition))
    /\ ~replaced => OneEdition

\* A database that is written has nothing twice, also when a feed was ingested in part and
\* then again ("must not double it either"); it has the records of every feed, as many as are
\* reported, whatever had to be downloaded again, as long as no feed was replaced while it was
\* read (ingestNVDFeedWithRetry).
WrittenIsWhole ==
  pc = "written" =>
    /\ \A i, j \in DOMAIN matches : matches[i] = matches[j] => i = j
    /\ ~replaced =>
         /\ Stored = Known \cap UNION {Range(Content(y, edition[y])) : y \in Years}
         /\ kept = Len(matches)

\* The database that is written says of each record it has what the six sources said, however
\* they spell its id, and nothing of any other: the last KEV entry, the EPSS score (ids in upper
\* case only), each exploit source once, and for each product the last lifecycle that lists it
\* (enrich.go).
WrittenIsEnriched ==
  pc = "written" =>
    /\ \A r \in Records :
         LET Said(k) == {i \in DOMAIN read[k] : r \in Stored /\ read[k][i].id = r}
             Upper(k) == {i \in Said(k) : read[k][i].upper}
         IN /\ \A i \in Said(1) : marks[r].kev = read[1][i].name \/ \E j \in Said(1) : j > i
            /\ Said(1) = {} <=> marks[r].kev = None
            /\ \A i \in Upper(2) : marks[r].epss = read[2][i].score \/ \E j \in Upper(2) : j > i
            /\ Upper(2) = {} => marks[r].epss = 0
            /\ IsInjective(marks[r].exploits)
            /\ ("nuclei" \in Range(marks[r].exploits)) <=> (Said(3) # {})
            /\ ("metasploit" \in Range(marks[r].exploits)) <=> (Upper(4) # {})
    /\ \A key \in Products :
         LET Lists == {i \in DOMAIN read[5] : [type |-> "cpe", key |-> key] \in read[5][i].identifiers}
         IN /\ \A i \in Lists : lifecycle[key] = read[5][i].name \/ \E j \in Lists : j > i
            /\ Lists = {} <=> lifecycle[key] = None

\* A technology that is not pinned is linked to a library with advisories that goes by its name,
\* by its own name if one does, and is left alone only if none does: the order in which the
\* repository's map is read matters only between libraries that share the name (ingestRetire).
LinksFollowNames ==
  pc = "written" =>
    \A t \in {u \in Technologies : u.override = <<>>} :
      LET advised == {library \in read[6] : library.advised}
          called == {library \in advised : library.slug \in {t.slug, t.trimmed}}
          alias == {library \in advised : library.aliases \cap {t.slug, t.trimmed} # {}}
          named == IF called # {} THEN called ELSE alias
      IN IF t \in DOMAIN links
           THEN \E library \in named : library.name = links[t] /\ links[t] \in libraries
           ELSE named = {}

\* Every build ends, even with servers that start each transfer again: what counts as
\* progress can happen only finitely often.
BuildEnds == <>~Running
================================================================================
