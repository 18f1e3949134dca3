----------------------- MODULE ExtensionDatabaseProofs -----------------------
(* Theorems about ExtensionDatabase, for any calls, URLs, versions and bounds. *)
EXTENDS ExtensionDatabase, SequenceTheorems, TLAPS

--------------------------------------------------------------------------------
(* The inductive invariant *)

\* A version that was published at its URL when the last day passed, or later.
Today(version) == version # None /\ version >= yesterday[Publisher[version]]

AtOpen(load) == load.pc \in {"open", "parse"}

\* The calls that have the manifest they fetched, those whose blob is stored, and those
\* that may yet return the version they had.
HasFresh(load) ==
  \/ load.pc \in {"check", "download", "keys", "delete", "put", "setManifest", "setFetchedAt"}
  \/ AtOpen(load) /\ load.path = "fresh"
HasStored(load) ==
  load.pc \in {"setManifest", "setFetchedAt"} \/ (AtOpen(load) /\ load.path = "fresh")
NeedsCached(load) ==
  \/ load.pc \in {"fetchedAt", "fetch", "check", "download", "keys"}
  \/ AtOpen(load) /\ load.path # "fresh"

\* What holds of a call whose client is for `site` while it goes on, whatever others do.
GoesOn(load, site) ==
  load.pc # "done" =>
    /\ load.warning
    /\ load.floor = yesterday[site]
    /\ HasFresh(load) => load.fresh # None /\ Publisher[load.fresh] = site /\ load.fresh >= yesterday[site]
    /\ AtOpen(load) /\ load.path # "fresh" => load.cached # None
    /\ AtOpen(load) /\ load.path = "stale" => load.met \cap {"server", "storage"} # {}
    /\ load.pc = "setFetchedAt" => Today(manifest)

\* What holds of one that met no other call.
GoesAlone(load, site) ==
  load.pc # "done" /\ "others" \notin load.met =>
    /\ HasStored(load) => load.fresh \in blobs
    /\ load.pc = "fetchedAt" => load.cached = manifest
    /\ "url" \notin load.met =>
         /\ load.pc \in {"manifest", "fetchedAt"} /\ manifest # None => Publisher[manifest] = site
         /\ AtOpen(load) /\ load.path = "young" => load.cached >= load.floor
    /\ load.copy /\ "storage" \notin load.met =>
         /\ load.pc = "manifest" => manifest \in blobs
         /\ NeedsCached(load) => load.cached \in blobs

\* What it promises when it has returned.
Ends(load) ==
  load.pc = "done" /\ load.client # 0 =>
    /\ load.met \subseteq {"url"} => load.db # None /\ ~load.warning
    /\ load.copy /\ load.met \subseteq {"server", "url"} => load.db # None
    /\ ~load.warning /\ load.met \cap {"others", "url"} = {} => load.db >= load.floor

LoadOK(load, site) == GoesOn(load, site) /\ GoesAlone(load, site) /\ Ends(load)

Site(l) == clients[loads[l].client].url

\* A URL publishes its own versions, none older than a day ago, and what the store takes
\* for fetched today was published since.
StoreInv ==
  /\ \A u \in Urls : Publisher[server[u]] = u /\ server[u] >= yesterday[u]
  /\ young => Today(manifest)

AloneInv ==
  \A l \in Loads : Active(l) /\ "others" \notin loads[l].met => \A k \in Loads \ {l} : ~Active(k)

DatabaseInv ==
  /\ TypeOK
  /\ StoreInv
  /\ AloneInv
  /\ \A l \in Loads : LoadOK(loads[l], Site(l))
--------------------------------------------------------------------------------
(* Types *)

\* open() and the catch clause only decide where a call goes on: they leave the client,
\* the manifests and the history of the call alone.
LEMMA OpenedType ==
  ASSUME NEW load \in LoadRecords, NEW found \in Maybe
  PROVE  /\ Opened(load, found) \in LoadRecords /\ Opened(load, found).client = load.client
         /\ Opened(load, found).met = load.met
BY DEF Opened, LoadRecords

LEMMA OpeningType ==
  ASSUME TypeOK, NEW load \in LoadRecords, load.client \in DOMAIN clients,
         NEW path \in {"young", "fresh", "stale"}
  PROVE  /\ Opening(load, path) \in LoadRecords /\ Opening(load, path).client = load.client
         /\ Opening(load, path).met = load.met
<1> DEFINE asked == [load EXCEPT !.path = path, !.pc = "open"]
<1>1. asked \in LoadRecords /\ asked.client = load.client /\ asked.met = load.met
  BY DEF LoadRecords
<1>2. Wanted(asked) \in Maybe
  BY <1>1 DEF Wanted, LoadRecords
<1>3. QED
  BY <1>1, <1>2, OpenedType DEF Opening

LEMMA CaughtType ==
  ASSUME TypeOK, NEW load \in LoadRecords, load.client \in DOMAIN clients
  PROVE  /\ Caught(load) \in LoadRecords /\ Caught(load).client = load.client
         /\ Caught(load).met = load.met
<1> DEFINE asked == [load EXCEPT !.path = "stale"]
<1>1. asked \in LoadRecords /\ asked.client = load.client /\ asked.met = load.met /\ None \in Maybe
  BY DEF LoadRecords, Maybe
<1>2. QED
  BY <1>1, OpenedType, OpeningType DEF Caught

\* A call that goes on as another well typed record of the same client keeps the types.
LEMMA GoesType ==
  ASSUME TypeOK, NEW l \in Loads, NEW next \in LoadRecords, next.client = loads[l].client, Active(l),
         loads' = [loads EXCEPT ![l] = next], DOMAIN clients' = DOMAIN clients
  PROVE  /\ loads' \in [Loads -> LoadRecords]
         /\ \A k \in Loads : loads'[k].pc # "done" => loads'[k].client \in DOMAIN clients'
BY DEF TypeOK, Active

\* The facts about the client of a call under way.
LEMMA ActiveFacts ==
  ASSUME TypeOK, NEW l \in Loads, Active(l)
  PROVE  /\ loads \in [Loads -> LoadRecords] /\ loads[l] \in LoadRecords
         /\ loads[l].client \in DOMAIN clients
         /\ clients[loads[l].client] \in Clients
         /\ Site(l) \in Urls
<1>1. loads[l] \in LoadRecords /\ loads \in [Loads -> LoadRecords] /\ loads[l].client \in DOMAIN clients
  BY DEF TypeOK, Active
<1>2. clients[loads[l].client] \in Clients
  BY <1>1, ElementOfSeq DEF TypeOK
<1>3. QED
  BY <1>1, <1>2 DEF Clients, Site

\* Only a call under way takes a step, and it changes no other call and no URL of a client.
LEMMA StepFrame ==
  ASSUME TypeOK, NEW l \in Loads, LoadStep(l)
  PROVE  /\ Active(l)
         /\ \A k \in Loads \ {l} : loads'[k] = loads[k]
         /\ UNCHANGED <<world, count>>
         /\ DOMAIN clients' = DOMAIN clients /\ clients' \in Seq(Clients)
         /\ \A c \in DOMAIN clients : clients'[c].url = clients[c].url
<1>1. Active(l)
  BY DEF LoadStep, Active, ReadManifest, ReadFetchedAt, FetchManifest, CheckBlob, Download, RequestFails,
     ListBlobs, DeleteBlobs, PutBlob, SetManifest, SetFetchedAt, FindBlob, Parsed
<1>2. \E next : Goes(l, next)
  BY DEF LoadStep, ReadManifest, ReadFetchedAt, FetchManifest, CheckBlob, Download, RequestFails,
     ListBlobs, DeleteBlobs, PutBlob, SetManifest, SetFetchedAt, FindBlob, Parsed
<1>3. \A k \in Loads \ {l} : loads'[k] = loads[k]
  BY <1>2 DEF Goes, TypeOK
<1>4. clients' = clients \/ clients' = [clients EXCEPT ![loads[l].client].loaded = Wanted(loads[l])]
  BY DEF LoadStep, ReadManifest, ReadFetchedAt, FetchManifest, CheckBlob, Download, RequestFails,
     ListBlobs, DeleteBlobs, PutBlob, SetManifest, SetFetchedAt, FindBlob, Parsed
<1>5. clients \in Seq(Clients) /\ DOMAIN clients = 1..Len(clients) /\ Len(clients) \in Nat
  BY LenProperties DEF TypeOK
<1>6. Wanted(loads[l]) \in Maybe
  BY <1>1, ActiveFacts DEF Wanted, LoadRecords
<1>7. ASSUME clients' = [clients EXCEPT ![loads[l].client].loaded = Wanted(loads[l])]
      PROVE  /\ DOMAIN clients' = DOMAIN clients /\ clients' \in Seq(Clients)
             /\ \A c \in DOMAIN clients : clients'[c].url = clients[c].url
  <2>1. \A c \in DOMAIN clients : clients[c] \in Clients
    BY <1>5, ElementOfSeq
  <2>2. DOMAIN clients' = DOMAIN clients
    BY <1>5, <1>7
  <2>3. \A c \in DOMAIN clients : clients'[c] \in Clients /\ clients'[c].url = clients[c].url
    BY <1>5, <1>6, <1>7, <2>1 DEF Clients
  <2>4. clients' \in Seq(Clients)
    <3>1. clients' \in [1..Len(clients) -> Clients]
      BY <1>5, <1>7, <2>3
    <3>2. QED
      BY <1>5, <3>1, SeqDef
  <2>5. QED
    BY <2>2, <2>3, <2>4
<1>8. QED
  BY <1>1, <1>2, <1>3, <1>4, <1>5, <1>7 DEF Goes

\* The step is one of the call: another record, with what it met before.
LEMMA StepNext ==
  ASSUME TypeOK, NEW l \in Loads, LoadStep(l)
  PROVE  \E next \in LoadRecords : /\ next.client = loads[l].client /\ loads[l].met \subseteq next.met
                                    /\ loads' = [loads EXCEPT ![l] = next]
<1> DEFINE Steps == \E next \in LoadRecords : /\ next.client = loads[l].client
                                              /\ loads[l].met \subseteq next.met
                                              /\ loads' = [loads EXCEPT ![l] = next]
<1>1. Active(l)
  BY StepFrame
<1>2. loads[l] \in LoadRecords /\ loads[l].client \in DOMAIN clients /\ Site(l) \in Urls
  BY <1>1, ActiveFacts
<1>3. server[Site(l)] \in Maybe /\ manifest \in Maybe /\ blobs \subseteq Versions
  BY <1>2 DEF TypeOK, Maybe
<1>4. ASSUME NEW next \in LoadRecords, next.client = loads[l].client, loads[l].met \subseteq next.met,
             Goes(l, next)
      PROVE  Steps
  BY <1>4 DEF Goes
<1>5. CASE ReadManifest(l) \/ CheckBlob(l) \/ Download(l)
  BY <1>2, <1>3, <1>5 DEF LoadRecords, Goes, ReadManifest, CheckBlob, Download
<1>6. CASE ListBlobs(l) \/ DeleteBlobs(l) \/ PutBlob(l) \/ SetManifest(l)
  BY <1>2, <1>3, <1>6 DEF LoadRecords, Goes, ListBlobs, DeleteBlobs, PutBlob, SetManifest
<1>7. CASE ReadFetchedAt(l)
  <2>1. [loads[l] EXCEPT !.pc = "fetch"] \in LoadRecords
    BY <1>2 DEF LoadRecords
  <2>2. QED
    BY <1>2, <1>4, <1>7, <2>1, OpeningType DEF ReadFetchedAt, LoadRecords
<1>8. CASE FetchManifest(l)
  BY <1>2, <1>3, <1>8 DEF LoadRecords, Goes, FetchManifest, Site
<1>9. CASE RequestFails(l)
  <2> DEFINE load == [loads[l] EXCEPT !.met = @ \cup {"server"}]
  <2>1. load \in LoadRecords /\ load.client = loads[l].client /\ loads[l].met \subseteq load.met
    BY <1>2 DEF LoadRecords
  <2>2. QED
    BY <1>2, <1>4, <1>9, <2>1, CaughtType DEF RequestFails
<1>10. CASE SetFetchedAt(l)
  BY <1>2, <1>4, <1>10, OpeningType DEF SetFetchedAt
<1>11. CASE FindBlob(l) \/ Parsed(l)
  <2>1. [loads[l] EXCEPT !.pc = "parse"] \in LoadRecords
    BY <1>2 DEF LoadRecords
  <2>2. Wanted(loads[l]) \in Maybe /\ None \in Maybe
    BY <1>2 DEF Wanted, LoadRecords, Maybe
  <2>3. QED
    BY <1>2, <1>4, <1>11, <2>1, <2>2, OpenedType DEF FindBlob, Parsed, LoadRecords
<1>12. QED
  BY <1>5, <1>6, <1>7, <1>8, <1>9, <1>10, <1>11 DEF LoadStep

\* The blob that is put is the one of a manifest that was fetched: a fact of the invariant.
LEMMA StepType ==
  ASSUME TypeOK, NEW l \in Loads, LoadStep(l), loads[l].pc = "put" => loads[l].fresh # None
  PROVE  TypeOK'
<1>1. /\ Active(l) /\ UNCHANGED <<world, count>>
      /\ DOMAIN clients' = DOMAIN clients /\ clients' \in Seq(Clients)
  BY StepFrame
<1>2. loads[l] \in LoadRecords
  BY <1>1, ActiveFacts
<1>3. /\ loads' \in [Loads -> LoadRecords]
      /\ \A k \in Loads : loads'[k].pc # "done" => loads'[k].client \in DOMAIN clients'
  <2>1. PICK next \in LoadRecords : next.client = loads[l].client /\ loads' = [loads EXCEPT ![l] = next]
    BY StepNext
  <2>2. QED
    BY <1>1, <2>1, GoesType
<1>4. manifest' \in Maybe /\ young' \in BOOLEAN /\ blobs' \subseteq Versions
  <2>1. loads[l].fresh \in Maybe /\ manifest \in Maybe /\ young \in BOOLEAN /\ blobs \subseteq Versions
    BY <1>2 DEF LoadRecords, TypeOK
  <2>2. QED
    BY <2>1 DEF LoadStep, meta, Maybe, ReadManifest, ReadFetchedAt, FetchManifest, CheckBlob, Download,
       RequestFails, ListBlobs, DeleteBlobs, PutBlob, SetManifest, SetFetchedAt, FindBlob, Parsed
<1>5. QED
  BY <1>1, <1>3, <1>4 DEF TypeOK, world

--------------------------------------------------------------------------------
(* One call *)

\* When open() has found a version, or has not and it is not stored, the call goes on or
\* returns as it should.
LEMMA OpenedOK ==
  ASSUME NEW load \in LoadRecords, NEW site, NEW found, AtOpen(load),
         GoesOn(load, site), GoesAlone(load, site), None \notin blobs,
         found = Wanted(load) \/ (found = None /\ Wanted(load) \notin blobs)
  PROVE  LoadOK(Opened(load, found), site)
<1>1. CASE load.path = "young" /\ found = None
  <2> DEFINE next == [load EXCEPT !.pc = "fetch"]
  <2>1. /\ Opened(load, found) = next
        /\ next.pc = "fetch" /\ next.warning = load.warning /\ next.floor = load.floor
        /\ next.met = load.met /\ next.copy = load.copy /\ next.cached = load.cached
    BY <1>1 DEF Opened, LoadRecords
  <2>2. GoesOn(next, site)
    BY <2>1 DEF GoesOn, HasFresh, AtOpen
  <2>3. load.copy /\ "others" \notin load.met /\ "storage" \notin load.met => load.cached \in blobs
    BY <1>1 DEF GoesAlone, NeedsCached, AtOpen
  <2>4. GoesAlone(next, site)
    BY <2>1, <2>3 DEF GoesAlone, HasStored, AtOpen
  <2>5. Ends(next)
    BY <2>1 DEF Ends
  <2>6. QED
    BY <2>1, <2>2, <2>4, <2>5 DEF LoadOK
<1>2. CASE ~(load.path = "young" /\ found = None)
  <2> DEFINE next == [load EXCEPT !.pc = "done", !.db = found, !.warning = load.path = "stale"]
  <2>1. /\ Opened(load, found) = next
        /\ next.pc = "done" /\ next.db = found /\ next.warning = (load.path = "stale")
        /\ next.floor = load.floor /\ next.met = load.met /\ next.copy = load.copy
    BY <1>2 DEF Opened, LoadRecords
  <2>2. load.path \in {"young", "fresh", "stale"} /\ load.pc # "done"
    BY DEF LoadRecords, AtOpen
  <2>3. CASE load.path = "fresh"
    <3>1. load.fresh # None /\ load.fresh >= load.floor /\ Wanted(load) = load.fresh
      BY <2>2, <2>3 DEF GoesOn, HasFresh, Wanted
    <3>2. "others" \notin load.met => found = load.fresh
      BY <2>2, <2>3, <3>1 DEF GoesAlone, HasStored
    <3>3. ~next.warning
      BY <2>1, <2>3
    <3>4. "others" \notin next.met => next.db # None /\ next.db >= next.floor
      BY <2>1, <3>1, <3>2
    <3>5. Ends(next)
      BY <3>3, <3>4 DEF Ends
    <3>6. QED
      BY <2>1, <3>5 DEF LoadOK, GoesOn, GoesAlone
  <2>4. CASE load.path = "young"
    <3>1. found = load.cached /\ found # None
      BY <1>2, <2>4 DEF Wanted
    <3>2. load.met \cap {"others", "url"} = {} => found >= load.floor
      BY <2>2, <2>4, <3>1 DEF GoesAlone
    <3>3. ~next.warning /\ next.db # None
      BY <2>1, <2>4, <3>1
    <3>4. Ends(next)
      BY <2>1, <3>1, <3>2, <3>3 DEF Ends
    <3>5. QED
      BY <2>1, <3>4 DEF LoadOK, GoesOn, GoesAlone
  <2>5. CASE load.path = "stale"
    <3>1. load.cached # None /\ load.met \cap {"server", "storage"} # {} /\ Wanted(load) = load.cached
      BY <2>2, <2>5 DEF GoesOn, Wanted
    <3>2. load.copy /\ load.met \subseteq {"server", "url"} => load.cached \in blobs
      BY <2>2, <2>5 DEF GoesAlone, NeedsCached
    <3>3. next.warning /\ ~(next.met \subseteq {"url"})
      BY <2>1, <2>5, <3>1
    <3>4. next.copy /\ next.met \subseteq {"server", "url"} => next.db # None
      BY <2>1, <3>1, <3>2
    <3>5. Ends(next)
      BY <3>3, <3>4 DEF Ends
    <3>6. QED
      BY <2>1, <3>5 DEF LoadOK, GoesOn, GoesAlone
  <2>6. QED
    BY <2>2, <2>3, <2>4, <2>5
<1>3. QED
  BY <1>1, <1>2

\* A call of open() that may look for the blob may also find it parsed already.
LEMMA OpeningOK ==
  ASSUME NEW load \in LoadRecords, NEW site, NEW path \in {"young", "fresh", "stale"}, None \notin blobs,
         GoesOn([load EXCEPT !.path = path, !.pc = "open"], site),
         GoesAlone([load EXCEPT !.path = path, !.pc = "open"], site)
  PROVE  LoadOK(Opening(load, path), site)
<1> DEFINE asked == [load EXCEPT !.path = path, !.pc = "open"]
<1>1. asked \in LoadRecords /\ asked.pc = "open"
  BY DEF LoadRecords
<1>2. GoesOn(asked, site) /\ GoesAlone(asked, site)
  OBVIOUS
<1>3. LoadOK(asked, site)
  BY <1>1, <1>2 DEF LoadOK, Ends
<1>4. Opening(load, path) \in {asked, Opened(asked, Wanted(asked))}
  BY DEF Opening
<1> HIDE DEF asked
<1>5. LoadOK(Opened(asked, Wanted(asked)), site)
  BY <1>1, <1>2, OpenedOK DEF AtOpen
<1>6. QED
  BY <1>3, <1>4, <1>5

\* A call that a server or a store failed falls back on the version it has, if any.
LEMMA CaughtOK ==
  ASSUME NEW load \in LoadRecords, NEW site, None \notin blobs, load.pc # "done",
         load.warning, load.floor = yesterday[site], load.met \cap {"server", "storage"} # {},
         load.copy /\ load.met \subseteq {"server", "url"} => load.cached \in blobs
  PROVE  LoadOK(Caught(load), site)
<1>1. CASE load.cached = None
  <2> DEFINE asked == [load EXCEPT !.path = "stale"]
             next == [asked EXCEPT !.pc = "done", !.db = None, !.warning = TRUE]
  <2>1. /\ Caught(load) = next
        /\ next.pc = "done" /\ next.warning /\ next.met = load.met /\ next.copy = load.copy
    BY <1>1 DEF Caught, Opened, LoadRecords
  <2>2. Ends(next)
    BY <1>1, <2>1 DEF Ends
  <2>3. QED
    BY <2>1, <2>2 DEF LoadOK, GoesOn, GoesAlone
<1>2. CASE load.cached # None
  <2> DEFINE asked == [load EXCEPT !.path = "stale", !.pc = "open"]
  <2>1. /\ asked.pc = "open" /\ asked.path = "stale" /\ asked.cached = load.cached /\ asked.met = load.met
        /\ asked.warning = load.warning /\ asked.floor = load.floor /\ asked.copy = load.copy
    BY DEF LoadRecords
  <2>2. GoesOn(asked, site)
    BY <1>2, <2>1 DEF GoesOn, HasFresh, AtOpen
  <2>3. load.met \subseteq {"others", "server", "storage", "url"}
    BY DEF LoadRecords
  <2>4. GoesAlone(asked, site)
    BY <2>1, <2>3 DEF GoesAlone, HasStored, NeedsCached, AtOpen
  <2>5. QED
    BY <1>2, <2>2, <2>4, OpeningOK DEF Caught
<1>3. QED
  BY <1>1, <1>2

--------------------------------------------------------------------------------
(* The steps of a call *)

\* A call that goes on while the stores stay as they are.
LEMMA Carry ==
  ASSUME NEW l \in Loads, LoadOK(loads'[l], Site(l)), UNCHANGED <<manifest, blobs, yesterday>>,
         clients'[loads'[l].client].url = Site(l)
  PROVE  LoadOK(loads[l], Site(l))'
BY DEF LoadOK, GoesOn, GoesAlone, Ends, HasFresh, HasStored, NeedsCached, AtOpen, Today, Site

\* The calls that take no step are not alone with one that does, or have returned.
LEMMA OthersOK ==
  ASSUME NEW l \in Loads, Active(l), AloneInv, NEW k \in Loads \ {l}, LoadOK(loads[k], Site(k)),
         loads'[k] = loads[k], yesterday' = yesterday, manifest' = manifest \/ Today(manifest)',
         Active(k) => clients'[loads[k].client].url = Site(k)
  PROVE  LoadOK(loads[k], Site(k))'
<1>1. CASE ~Active(k)
  BY <1>1 DEF LoadOK, GoesOn, GoesAlone, Ends, Active
<1>2. CASE Active(k)
  <2>1. "others" \in loads[k].met
    BY <1>2 DEF AloneInv
  <2>2. Site(k)' = Site(k)
    BY <1>2 DEF Site
  <2>3. GoesOn(loads[k], Site(k))'
    BY <1>2, <2>2 DEF LoadOK, GoesOn, HasFresh, AtOpen, Today, Active
  <2>4. QED
    BY <1>2, <2>1, <2>3 DEF LoadOK, GoesAlone, Ends, Active
<1>3. QED
  BY <1>1, <1>2

\* Each step of a call leaves it as it should be.  First the steps that change no store.
LEMMA QuietStepOK ==
  ASSUME DatabaseInv, NEW l \in Loads, Active(l), None \notin blobs,
         ReadManifest(l) \/ ReadFetchedAt(l) \/ FetchManifest(l) \/ CheckBlob(l) \/ Download(l)
           \/ RequestFails(l) \/ ListBlobs(l) \/ SetFetchedAt(l) \/ FindBlob(l) \/ Parsed(l)
  PROVE  LoadOK(loads'[l], Site(l))
<1> DEFINE load == loads[l]
           site == Site(l)
<1>1. load \in LoadRecords /\ loads \in [Loads -> LoadRecords] /\ site \in Urls
  BY ActiveFacts DEF DatabaseInv
<1>2. GoesOn(load, site) /\ GoesAlone(load, site) /\ load.pc # "done"
  BY DEF DatabaseInv, LoadOK, Active
<1>3. \A next : Goes(l, next) => loads'[l] = next
  BY <1>1 DEF Goes
<1>4. CASE ReadManifest(l)
  <2> DEFINE next == [load EXCEPT !.pc = "fetchedAt", !.cached = manifest]
  <2>1. loads'[l] = next /\ load.pc = "manifest"
    BY <1>3, <1>4 DEF ReadManifest
  <2>2. /\ next.pc = "fetchedAt" /\ next.cached = manifest /\ next.warning = load.warning
        /\ next.floor = load.floor /\ next.met = load.met /\ next.copy = load.copy
    BY <1>1 DEF LoadRecords
  <2>3. GoesOn(next, site)
    BY <1>2, <2>2 DEF GoesOn, HasFresh, AtOpen
  <2>4. GoesAlone(next, site)
    BY <1>2, <2>1, <2>2 DEF GoesAlone, HasStored, NeedsCached, AtOpen
  <2>5. QED
    BY <2>1, <2>2, <2>3, <2>4 DEF LoadOK, Ends
<1>5. CASE ReadFetchedAt(l)
  <2> DEFINE fetch == [load EXCEPT !.pc = "fetch"]
             asked == [load EXCEPT !.path = "young", !.pc = "open"]
  <2>1. /\ load.pc = "fetchedAt"
        /\ loads'[l] = IF load.cached # None /\ young THEN Opening(load, "young") ELSE fetch
    BY <1>3, <1>5 DEF ReadFetchedAt
  <2>2. CASE load.cached # None /\ young
    <3>1. /\ asked.pc = "open" /\ asked.path = "young" /\ asked.cached = load.cached
          /\ asked.warning = load.warning /\ asked.floor = load.floor /\ asked.met = load.met
          /\ asked.copy = load.copy
      BY <1>1 DEF LoadRecords
    <3>2. GoesOn(asked, site)
      BY <1>2, <2>2, <3>1 DEF GoesOn, HasFresh, AtOpen
    <3>3. load.met \cap {"others", "url"} = {} => load.cached >= load.floor
      <4>1. Today(manifest)
        BY <2>2 DEF DatabaseInv, StoreInv
      <4>2. QED
        BY <1>2, <2>1, <2>2, <4>1 DEF GoesAlone, GoesOn, Today
    <3>4. GoesAlone(asked, site)
      BY <1>2, <2>1, <3>1, <3>3 DEF GoesAlone, HasStored, NeedsCached, AtOpen
    <3>5. QED
      BY <1>1, <2>1, <2>2, <3>2, <3>4, OpeningOK
  <2>3. CASE ~(load.cached # None /\ young)
    <3>1. /\ fetch.pc = "fetch" /\ fetch.cached = load.cached /\ fetch.warning = load.warning
          /\ fetch.floor = load.floor /\ fetch.met = load.met /\ fetch.copy = load.copy
      BY <1>1 DEF LoadRecords
    <3>2. GoesOn(fetch, site) /\ GoesAlone(fetch, site)
      BY <1>2, <2>1, <3>1 DEF GoesOn, GoesAlone, HasFresh, HasStored, NeedsCached, AtOpen
    <3>3. QED
      BY <2>1, <2>3, <3>1, <3>2 DEF LoadOK, Ends
  <2>4. QED
    BY <2>2, <2>3
<1>6. CASE FetchManifest(l)
  <2> DEFINE fresh == server[site]
             next == [load EXCEPT !.fresh = fresh, !.pc = IF load.cached = fresh THEN "check" ELSE "download"]
  <2>1. loads'[l] = next /\ load.pc = "fetch"
    BY <1>3, <1>6 DEF FetchManifest, Site
  <2>2. /\ next.pc \in {"check", "download"} /\ next.fresh = fresh /\ next.cached = load.cached
        /\ next.warning = load.warning /\ next.floor = load.floor /\ next.met = load.met
        /\ next.copy = load.copy
    BY <1>1 DEF LoadRecords
  <2>3. fresh # None /\ Publisher[fresh] = site /\ fresh >= yesterday[site]
    <3>1. fresh \in Versions
      BY <1>1 DEF DatabaseInv, TypeOK
    <3>2. QED
      BY <1>1, <3>1, VersionsAssumption DEF DatabaseInv, StoreInv, None
  <2>4. GoesOn(next, site)
    BY <1>2, <2>2, <2>3 DEF GoesOn, HasFresh, AtOpen
  <2>5. GoesAlone(next, site)
    BY <1>2, <2>1, <2>2 DEF GoesAlone, HasStored, NeedsCached, AtOpen
  <2>6. QED
    BY <2>1, <2>2, <2>4, <2>5 DEF LoadOK, Ends
<1>7. CASE CheckBlob(l) \/ Download(l) \/ ListBlobs(l)
  <2>0. PICK pc \in {"setManifest", "download", "keys", "delete"} : \E old :
          /\ loads'[l] = [load EXCEPT !.pc = pc, !.old = old]
          /\ load.pc \in {"check", "download", "keys"}
          /\ pc = "setManifest" => load.fresh \in blobs
    <3>1. CheckBlob(l) => loads'[l] = [load EXCEPT !.pc = IF load.fresh \in blobs THEN "setManifest" ELSE "download",
                                                   !.old = load.old]
      BY <1>1, <1>3, ZenonT(30) DEF CheckBlob, LoadRecords
    <3>2. Download(l) => loads'[l] = [load EXCEPT !.pc = "keys", !.old = load.old]
      BY <1>1, <1>3, ZenonT(30) DEF Download, LoadRecords
    <3>3. ListBlobs(l) => loads'[l] = [load EXCEPT !.pc = "delete", !.old = blobs]
      BY <1>3 DEF ListBlobs
    <3>4. load.pc \in {"check", "download", "keys"}
      BY <1>7 DEF CheckBlob, Download, ListBlobs
    <3>5. CASE load.fresh \in blobs
      BY <1>7, <3>1, <3>2, <3>3, <3>4, <3>5
    <3>6. CASE load.fresh \notin blobs
      BY <1>7, <3>1, <3>2, <3>3, <3>4, <3>6
    <3>7. QED
      BY <3>5, <3>6
  <2>1. PICK old :
          /\ loads'[l] = [load EXCEPT !.pc = pc, !.old = old]
          /\ load.pc \in {"check", "download", "keys"}
          /\ pc = "setManifest" => load.fresh \in blobs
    BY <2>0
  <2> DEFINE next == [load EXCEPT !.pc = pc, !.old = old]
  <2>2. /\ next.pc = pc /\ next.fresh = load.fresh /\ next.cached = load.cached
        /\ next.warning = load.warning /\ next.floor = load.floor /\ next.met = load.met
        /\ next.copy = load.copy
    BY <1>1 DEF LoadRecords
  <2>3. GoesOn(next, site)
    BY <1>2, <2>1, <2>2 DEF GoesOn, HasFresh, AtOpen
  <2>4. GoesAlone(next, site)
    BY <1>2, <2>1, <2>2 DEF GoesAlone, HasStored, NeedsCached, AtOpen
  <2>5. QED
    BY <2>1, <2>2, <2>3, <2>4 DEF LoadOK, Ends
<1>8. CASE RequestFails(l)
  <2> DEFINE met == load.met \cup {"server"}
             next == [load EXCEPT !.met = met]
  <2>1. loads'[l] = Caught(next) /\ load.pc \in {"fetch", "download"}
    BY <1>3, <1>8 DEF RequestFails
  <2>2. /\ next \in LoadRecords /\ next.met = met /\ next.pc = load.pc /\ next.warning = load.warning
        /\ next.floor = load.floor /\ next.copy = load.copy /\ next.cached = load.cached
    BY <1>1 DEF LoadRecords
  <2>3. load.copy /\ met \subseteq {"server", "url"} => load.cached \in blobs
    BY <1>2, <2>1 DEF GoesAlone, NeedsCached
  <2>4. load.warning /\ load.floor = yesterday[site]
    BY <1>2 DEF GoesOn
  <2> HIDE DEF next
  <2>5. LoadOK(Caught(next), site)
    BY <1>2, <2>2, <2>3, <2>4, CaughtOK
  <2>6. QED
    BY <2>1, <2>5
<1>9. CASE SetFetchedAt(l)
  <2> DEFINE asked == [load EXCEPT !.path = "fresh", !.pc = "open"]
  <2>1. loads'[l] = Opening(load, "fresh") /\ load.pc = "setFetchedAt"
    BY <1>3, <1>9 DEF SetFetchedAt
  <2>2. /\ asked.pc = "open" /\ asked.path = "fresh" /\ asked.fresh = load.fresh
        /\ asked.warning = load.warning /\ asked.floor = load.floor /\ asked.met = load.met
        /\ asked.copy = load.copy
    BY <1>1 DEF LoadRecords
  <2>3. GoesOn(asked, site) /\ GoesAlone(asked, site)
    BY <1>2, <2>1, <2>2 DEF GoesOn, GoesAlone, HasFresh, HasStored, NeedsCached, AtOpen
  <2>4. QED
    BY <1>1, <2>1, <2>3, OpeningOK
<1>10. CASE FindBlob(l)
  <2> DEFINE parse == [load EXCEPT !.pc = "parse"]
  <2>1. /\ load.pc = "open"
        /\ loads'[l] = IF Wanted(load) \in blobs THEN parse ELSE Opened(load, None)
    BY <1>3, <1>10 DEF FindBlob
  <2>2. CASE Wanted(load) \in blobs
    <3>1. /\ parse.pc = "parse" /\ parse.path = load.path /\ parse.fresh = load.fresh
          /\ parse.cached = load.cached /\ parse.warning = load.warning /\ parse.floor = load.floor
          /\ parse.met = load.met /\ parse.copy = load.copy
      BY <1>1 DEF LoadRecords
    <3>2. GoesOn(parse, site) /\ GoesAlone(parse, site)
      BY <1>2, <2>1, <3>1 DEF GoesOn, GoesAlone, HasFresh, HasStored, NeedsCached, AtOpen
    <3>3. QED
      BY <2>1, <2>2, <3>1, <3>2 DEF LoadOK, Ends
  <2>3. CASE Wanted(load) \notin blobs
    BY <1>1, <1>2, <2>1, <2>3, OpenedOK DEF AtOpen
  <2>4. QED
    BY <2>2, <2>3
<1>11. CASE Parsed(l)
  <2>1. load.pc = "parse" /\ loads'[l] = Opened(load, Wanted(load))
    BY <1>3, <1>11 DEF Parsed
  <2>2. QED
    BY <1>1, <1>2, <2>1, OpenedOK DEF AtOpen
<1>12. QED
  BY <1>4, <1>5, <1>6, <1>7, <1>8, <1>9, <1>10, <1>11

\* Then the steps that replace the blob and the manifest.
LEMMA StoreStepOK ==
  ASSUME DatabaseInv, NEW l \in Loads, Active(l), clients'[loads'[l].client].url = Site(l),
         yesterday' = yesterday, DeleteBlobs(l) \/ PutBlob(l) \/ SetManifest(l)
  PROVE  LoadOK(loads[l], Site(l))' /\ (manifest' = manifest \/ Today(manifest)')
<1> DEFINE load == loads[l]
           site == Site(l)
<1>1. load \in LoadRecords /\ loads \in [Loads -> LoadRecords]
  BY ActiveFacts DEF DatabaseInv
<1>2. GoesOn(load, site) /\ GoesAlone(load, site) /\ load.pc # "done"
  BY DEF DatabaseInv, LoadOK, Active
<1>3. Site(l)' = site
  BY DEF Site
<1>4. CASE DeleteBlobs(l)
  <2>1. loads'[l] = [load EXCEPT !.pc = "put", !.old = {}] /\ load.pc = "delete" /\ manifest' = manifest
    BY <1>1, <1>4 DEF DeleteBlobs, Goes, meta
  <2>2. /\ loads'[l].pc = "put" /\ loads'[l].fresh = load.fresh /\ loads'[l].warning = load.warning
        /\ loads'[l].floor = load.floor
    BY <1>1, <2>1 DEF LoadRecords
  <2>3. GoesOn(loads[l], Site(l))'
    BY <1>2, <1>3, <2>1, <2>2 DEF GoesOn, HasFresh, AtOpen
  <2>4. QED
    BY <2>1, <2>2, <2>3 DEF LoadOK, GoesAlone, HasStored, NeedsCached, AtOpen, Ends
<1>5. CASE PutBlob(l)
  <2>1. /\ loads'[l] = [load EXCEPT !.pc = "setManifest"] /\ load.pc = "put" /\ manifest' = manifest
        /\ blobs' = blobs \cup {load.fresh}
    BY <1>1, <1>5 DEF PutBlob, Goes, meta
  <2>2. /\ loads'[l].pc = "setManifest" /\ loads'[l].fresh = load.fresh /\ loads'[l].warning = load.warning
        /\ loads'[l].floor = load.floor
    BY <1>1, <2>1 DEF LoadRecords
  <2>3. GoesOn(loads[l], Site(l))'
    BY <1>2, <1>3, <2>1, <2>2 DEF GoesOn, HasFresh, AtOpen
  <2>4. GoesAlone(loads[l], Site(l))'
    BY <2>1, <2>2 DEF GoesAlone, HasStored, NeedsCached, AtOpen
  <2>5. QED
    BY <2>1, <2>2, <2>3, <2>4 DEF LoadOK, Ends
<1>6. CASE SetManifest(l)
  <2>1. /\ loads'[l] = [load EXCEPT !.pc = "setFetchedAt"] /\ load.pc = "setManifest"
        /\ manifest' = load.fresh /\ blobs' = blobs
    BY <1>1, <1>6 DEF SetManifest, Goes
  <2>2. /\ loads'[l].pc = "setFetchedAt" /\ loads'[l].fresh = load.fresh
        /\ loads'[l].warning = load.warning /\ loads'[l].floor = load.floor /\ loads'[l].met = load.met
    BY <1>1, <2>1 DEF LoadRecords
  <2>3. Today(manifest)'
    BY <1>2, <2>1 DEF GoesOn, HasFresh, Today
  <2>4. GoesOn(loads[l], Site(l))'
    BY <1>2, <1>3, <2>1, <2>2, <2>3 DEF GoesOn, HasFresh, AtOpen
  <2>5. GoesAlone(loads[l], Site(l))'
    BY <1>2, <2>1, <2>2 DEF GoesAlone, HasStored, NeedsCached, AtOpen
  <2>6. QED
    BY <2>2, <2>3, <2>4, <2>5 DEF LoadOK, Ends
<1>7. QED
  BY <1>4, <1>5, <1>6

\* The stores stay as they should be; a call that reaches the time of its manifest has
\* written one of today.
LEMMA StepStores ==
  ASSUME DatabaseInv, NEW l \in Loads, LoadStep(l), UNCHANGED <<server, yesterday>>,
         manifest' = manifest \/ Today(manifest)'
  PROVE  StoreInv'
<1>1. Active(l)
  BY StepFrame DEF DatabaseInv
<1>2. young' = young \/ SetFetchedAt(l)
  BY DEF LoadStep, meta, ReadManifest, ReadFetchedAt, FetchManifest, CheckBlob, Download, RequestFails,
     ListBlobs, DeleteBlobs, PutBlob, SetManifest, SetFetchedAt, FindBlob, Parsed
<1>3. young' => Today(manifest) \/ Today(manifest)'
  <2>1. CASE young' = young
    BY <2>1 DEF DatabaseInv, StoreInv
  <2>2. CASE SetFetchedAt(l)
    BY <1>1, <2>2 DEF DatabaseInv, LoadOK, GoesOn, SetFetchedAt
  <2>3. QED
    BY <1>2, <2>1, <2>2
<1>4. Today(manifest) /\ manifest' = manifest => Today(manifest)'
  BY DEF Today
<1>5. QED
  BY <1>3, <1>4 DEF DatabaseInv, StoreInv

LEMMA StepAlone ==
  ASSUME AloneInv, NEW l \in Loads, Active(l), NEW next, loads[l].met \subseteq next.met,
         loads' = [loads EXCEPT ![l] = next], loads \in [Loads -> LoadRecords]
  PROVE  AloneInv'
BY DEF AloneInv, Active

LEMMA NoneStored == TypeOK => None \notin blobs /\ None \notin Versions
BY VersionsAssumption DEF TypeOK, None

LEMMA StepInv ==
  ASSUME DatabaseInv, NEW l \in Loads, LoadStep(l)
  PROVE  DatabaseInv'
<1>0. TypeOK /\ None \notin blobs
  BY NoneStored DEF DatabaseInv
<1>1. /\ Active(l) /\ \A k \in Loads \ {l} : loads'[k] = loads[k]
      /\ UNCHANGED <<server, yesterday>> /\ \A c \in DOMAIN clients : clients'[c].url = clients[c].url
  BY <1>0, StepFrame DEF world
<1>2. PICK next \in LoadRecords : /\ next.client = loads[l].client /\ loads[l].met \subseteq next.met
                                  /\ loads' = [loads EXCEPT ![l] = next]
  BY <1>0, StepNext
<1>3. loads \in [Loads -> LoadRecords] /\ loads'[l] = next /\ loads[l].client \in DOMAIN clients
  BY <1>0, <1>1, <1>2, ActiveFacts
<1>4. clients'[loads'[l].client].url = Site(l)
  BY <1>1, <1>2, <1>3 DEF Site
<1>5. LoadOK(loads[l], Site(l))' /\ (manifest' = manifest \/ Today(manifest)')
  <2>1. CASE DeleteBlobs(l) \/ PutBlob(l) \/ SetManifest(l)
    BY <1>1, <1>4, <2>1, StoreStepOK
  <2>2. CASE ReadManifest(l) \/ ReadFetchedAt(l) \/ FetchManifest(l) \/ CheckBlob(l) \/ Download(l)
               \/ RequestFails(l) \/ ListBlobs(l) \/ SetFetchedAt(l) \/ FindBlob(l) \/ Parsed(l)
    <3>1. LoadOK(loads'[l], Site(l))
      BY <1>0, <1>1, <2>2, QuietStepOK
    <3>2. UNCHANGED <<manifest, blobs>>
      BY <2>2 DEF meta, ReadManifest, ReadFetchedAt, FetchManifest, CheckBlob, Download, RequestFails,
         ListBlobs, SetFetchedAt, FindBlob, Parsed
    <3>3. UNCHANGED <<manifest, blobs, yesterday>>
      BY <1>1, <3>2
    <3>4. LoadOK(loads[l], Site(l))'
      BY <1>4, <3>1, <3>3, Carry
    <3>5. QED
      BY <3>3, <3>4
  <2>3. QED
    BY <2>1, <2>2 DEF LoadStep
<1>6. ASSUME NEW k \in Loads \ {l} PROVE LoadOK(loads[k], Site(k))'
  <2>1. Active(k) => clients'[loads[k].client].url = Site(k)
    BY <1>0, <1>1, ActiveFacts DEF Site
  <2>2. QED
    BY <1>1, <1>5, <2>1, OthersOK DEF DatabaseInv
<1>7. TypeOK'
  <2>1. loads[l].pc = "put" => loads[l].fresh # None
    BY DEF DatabaseInv, LoadOK, GoesOn, HasFresh
  <2>2. QED
    BY <1>0, <2>1, StepType
<1>8. StoreInv' /\ AloneInv'
  BY <1>1, <1>2, <1>3, <1>5, StepStores, StepAlone DEF DatabaseInv
<1>9. QED
  BY <1>5, <1>6, <1>7, <1>8 DEF DatabaseInv

--------------------------------------------------------------------------------
(* Calls begin and fail, databases are published, days pass *)

LEMMA InitInv == Init => DatabaseInv
<1> SUFFICES ASSUME Init PROVE DatabaseInv
  OBVIOUS
<1>1. Idle \in LoadRecords /\ Idle.pc = "done" /\ Idle.client = 0
  BY DEF Idle, LoadRecords, Maybe
<1>2. \A l \in Loads : loads[l] = Idle /\ ~Active(l)
  BY <1>1 DEF Init, Active
<1>3. TypeOK
  <2>1. clients \in Seq(Clients)
    BY EmptySeq DEF Init
  <2>2. count \in Counts
    BY BoundsAssumption DEF Init, Counts
  <2>3. loads \in [Loads -> LoadRecords]
    BY <1>1 DEF Init
  <2>4. QED
    BY <1>2, <2>1, <2>2, <2>3, VersionsAssumption DEF Init, TypeOK, Maybe, Active
<1>4. StoreInv
  <2>1. ASSUME NEW u \in Urls PROVE Publisher[server[u]] = u /\ server[u] >= yesterday[u]
    <3>1. First[u] \in Nat /\ server[u] = First[u] /\ yesterday[u] = 0 /\ Publisher[First[u]] = u
      BY VersionsAssumption DEF Init, None
    <3>2. QED
      BY <3>1
  <2>2. QED
    BY <2>1 DEF Init, StoreInv
<1>5. AloneInv /\ \A l \in Loads : LoadOK(loads[l], Site(l))
  BY <1>1, <1>2 DEF AloneInv, LoadOK, GoesOn, GoesAlone, Ends
<1>6. QED
  BY <1>3, <1>4, <1>5 DEF DatabaseInv

\* A call that begins finds the store as it is, and whether it is alone.
LEMMA LoadInv ==
  ASSUME DatabaseInv, NEW l \in Loads, Load(l)
  PROVE  DatabaseInv'
<1> DEFINE overlap == \E other \in Loads : Active(other)
           met == (IF overlap THEN {"others"} ELSE {}) \cup
                  (IF manifest # None /\ Publisher[manifest] # url THEN {"url"} ELSE {})
           started == [Idle EXCEPT !.pc = "manifest", !.client = Len(clients'), !.met = met,
                                   !.copy = manifest \in blobs, !.floor = yesterday[url]]
<1>0. /\ TypeOK /\ loads \in [Loads -> LoadRecords] /\ ~Active(l)
      /\ UNCHANGED <<manifest, young, blobs, url, server, yesterday>>
  BY DEF DatabaseInv, TypeOK, Load, meta, world
<1>1. loads'[l] = started
  BY <1>0 DEF Load
<1>2. /\ started.pc = "manifest" /\ started.client = Len(clients') /\ started.met = met /\ started.warning
      /\ started.copy = (manifest \in blobs) /\ started.floor = yesterday[url]
  BY DEF Idle
<1>3. /\ clients' \in Seq(Clients) /\ Len(clients') \in DOMAIN clients' /\ DOMAIN clients \subseteq DOMAIN clients'
      /\ clients'[Len(clients')].url = url /\ \A c \in DOMAIN clients : clients'[c] = clients[c]
  <2>1. clients \in Seq(Clients) /\ Len(clients) \in Nat /\ DOMAIN clients = 1..Len(clients)
    BY <1>0, LenProperties DEF TypeOK
  <2>2. CASE clients # <<>> /\ clients[Len(clients)].url = url
    <3>1. clients' = clients
      BY <2>2 DEF Load
    <3>2. Len(clients) # 0
      BY <2>1, <2>2, EmptySeq
    <3>3. QED
      BY <2>1, <2>2, <3>1, <3>2
  <2>3. CASE ~(clients # <<>> /\ clients[Len(clients)].url = url)
    <3> DEFINE client == [url |-> url, loaded |-> None]
    <3>1. clients' = Append(clients, client)
      BY <2>3 DEF Load
    <3>2. client \in Clients
      BY <1>0 DEF TypeOK, Clients, Maybe
    <3> HIDE DEF client
    <3>3. /\ Append(clients, client) \in Seq(Clients)
          /\ Len(Append(clients, client)) = Len(clients) + 1
          /\ \A c \in 1..Len(clients) : Append(clients, client)[c] = clients[c]
          /\ Append(clients, client)[Len(clients) + 1] = client
      BY <2>1, <3>2, AppendProperties
    <3>4. DOMAIN clients' = 1..(Len(clients) + 1)
      BY <3>1, <3>3, LenProperties
    <3>5. client.url = url
      BY DEF client
    <3>6. QED
      BY <2>1, <3>1, <3>3, <3>4, <3>5
  <2>4. QED
    BY <2>2, <2>3
<1>4. Site(l)' = url
  BY <1>1, <1>2, <1>3 DEF Site
<1>5. LoadOK(loads[l], Site(l))'
  <2>1. GoesOn(loads[l], Site(l))'
    BY <1>0, <1>1, <1>2, <1>4 DEF GoesOn, HasFresh, AtOpen
  <2>2. GoesAlone(loads[l], Site(l))'
    BY <1>0, <1>1, <1>2, <1>4 DEF GoesAlone, HasStored, NeedsCached, AtOpen
  <2>3. QED
    BY <1>1, <1>2, <2>1, <2>2 DEF LoadOK, Ends
<1>6. \A k \in Loads \ {l} :
        loads'[k] = IF Active(k) THEN [loads[k] EXCEPT !.met = @ \cup {"others"}] ELSE loads[k]
  BY <1>0 DEF Load
<1>7. ASSUME NEW k \in Loads \ {l}
      PROVE  /\ loads'[k] \in LoadRecords /\ loads'[k].pc = loads[k].pc /\ loads'[k].client = loads[k].client
             /\ Active(k) => "others" \in loads'[k].met
             /\ LoadOK(loads[k], Site(k))'
  <2>0. loads[k] \in LoadRecords /\ LoadOK(loads[k], Site(k))
    BY <1>0 DEF DatabaseInv
  <2>1. CASE ~Active(k)
    <3>1. loads'[k] = loads[k]
      BY <1>6, <2>1
    <3>2. QED
      BY <2>0, <2>1, <3>1 DEF LoadOK, GoesOn, GoesAlone, Ends, Active
  <2>2. CASE Active(k)
    <3>1. loads'[k] = [loads[k] EXCEPT !.met = @ \cup {"others"}]
      BY <1>6, <2>2
    <3>2. /\ loads'[k] \in LoadRecords /\ loads'[k].met = loads[k].met \cup {"others"}
          /\ loads'[k].pc = loads[k].pc /\ loads'[k].client = loads[k].client
          /\ loads'[k].path = loads[k].path /\ loads'[k].warning = loads[k].warning
          /\ loads'[k].cached = loads[k].cached /\ loads'[k].fresh = loads[k].fresh
          /\ loads'[k].floor = loads[k].floor
      BY <2>0, <3>1 DEF LoadRecords
    <3>3. Site(k)' = Site(k)
      BY <1>0, <1>3, <2>2, <3>2, ActiveFacts DEF Site
    <3>4. GoesOn(loads[k], Site(k))'
      BY <1>0, <2>0, <2>2, <3>2, <3>3 DEF LoadOK, GoesOn, HasFresh, AtOpen, Today, Active
    <3>5. QED
      BY <2>2, <3>2, <3>4 DEF LoadOK, GoesAlone, Ends, Active
  <2>3. QED
    BY <2>1, <2>2
<1>8. AloneInv'
  <2>1. ASSUME NEW k \in Loads, NEW m \in Loads \ {k}, Active(k)', "others" \notin loads'[k].met, Active(m)'
        PROVE  FALSE
    <3>1. CASE k = l
      BY <1>1, <1>2, <1>7, <2>1, <3>1, ZenonT(30) DEF Active
    <3>2. CASE k # l
      BY <1>7, <2>1, <3>2 DEF Active
    <3>3. QED
      BY <3>1, <3>2
  <2>2. QED
    BY <2>1 DEF AloneInv
<1>9. StoreInv'
  BY <1>0 DEF DatabaseInv, StoreInv, Today
<1>10. TypeOK'
  <2>1. started \in LoadRecords
    <3>1. yesterday[url] \in Maybe /\ Len(clients') \in Nat /\ met \subseteq {"others", "url"}
      BY <1>0, <1>3, LenProperties DEF TypeOK
    <3>2. (manifest \in blobs) \in BOOLEAN
      OBVIOUS
    <3> HIDE DEF met
    <3>3. Idle \in LoadRecords
      BY DEF Idle, LoadRecords, Maybe
    <3>4. QED
      BY <3>1, <3>2, <3>3 DEF LoadRecords
  <2>2. loads' \in [Loads -> LoadRecords]
    <3> DEFINE others == [other \in Loads |->
                 IF Active(other) THEN [loads[other] EXCEPT !.met = @ \cup {"others"}] ELSE loads[other]]
    <3>1. loads' = [others EXCEPT ![l] = started]
      BY DEF Load
    <3>2. ASSUME NEW k \in Loads PROVE others[k] \in LoadRecords
      <4>1. loads[k] \in LoadRecords
        BY <1>0
      <4>2. [loads[k] EXCEPT !.met = @ \cup {"others"}] \in LoadRecords
        BY <4>1 DEF LoadRecords
      <4>3. QED
        BY <4>1, <4>2
    <3>3. others \in [Loads -> LoadRecords]
      BY <3>2
    <3> HIDE DEF others, started
    <3>4. QED
      BY <2>1, <3>1, <3>3
  <2>3. ASSUME NEW k \in Loads, loads'[k].pc # "done" PROVE loads'[k].client \in DOMAIN clients'
    <3>1. CASE k = l
      BY <1>1, <1>2, <1>3, <3>1, ZenonT(30)
    <3>2. CASE k # l
      <4>1. loads[k].client \in DOMAIN clients /\ loads'[k].client = loads[k].client
        BY <1>0, <1>7, <2>3, <3>2 DEF TypeOK
      <4>2. QED
        BY <1>3, <4>1
    <3>3. QED
      BY <3>1, <3>2
  <2>4. count' \in Counts
    <3>1. count' = [count EXCEPT !.calls = @ + 1] /\ count.calls < MaxCalls
      BY DEF Load
    <3>2. count \in Counts
      BY <1>0 DEF TypeOK
    <3>3. count.calls + 1 \in 0..MaxCalls
      BY <3>1, <3>2, BoundsAssumption DEF Counts
    <3>4. QED
      BY <3>1, <3>2, <3>3 DEF Counts
  <2>5. QED
    BY <1>0, <1>3, <2>2, <2>3, <2>4 DEF TypeOK
<1>11. QED
  BY <1>5, <1>7, <1>8, <1>9, <1>10 DEF DatabaseInv

\* A storage call that rejects is caught, and the call falls back, or load rejects.
LEMMA FailInv ==
  ASSUME DatabaseInv, NEW l \in Loads, StorageFails(l)
  PROVE  DatabaseInv'
<1> DEFINE met == loads[l].met \cup {"storage"}
           load == [loads[l] EXCEPT !.met = met]
           ended == [load EXCEPT !.pc = "done"]
<1>0. /\ TypeOK /\ loads \in [Loads -> LoadRecords]
      /\ UNCHANGED <<manifest, young, blobs, clients, url, server, yesterday>>
      /\ None \notin blobs
  BY NoneStored DEF DatabaseInv, TypeOK, StorageFails, meta, world
<1>1. loads[l].pc # "done" /\ Active(l) /\ loads[l] \in LoadRecords
  BY <1>0 DEF StorageFails, Active, LoadRecords
<1>2. GoesOn(loads[l], Site(l)) /\ loads[l].client \in DOMAIN clients
  BY <1>0, <1>1, ActiveFacts DEF DatabaseInv, LoadOK
<1>3. /\ load \in LoadRecords /\ load.met = met /\ load.pc = loads[l].pc /\ load.client = loads[l].client
      /\ load.warning = loads[l].warning /\ load.floor = loads[l].floor
  BY <1>1 DEF LoadRecords
<1>4. /\ ended \in LoadRecords /\ ended.met = met /\ ended.pc = "done" /\ ended.client = loads[l].client
      /\ ended.warning = loads[l].warning
  BY <1>1, <1>3 DEF LoadRecords
<1>5. loads' = [loads EXCEPT ![l] = Caught(load)] \/ loads' = [loads EXCEPT ![l] = ended]
  BY DEF StorageFails
<1>6. Caught(load) \in LoadRecords /\ Caught(load).client = loads[l].client /\ Caught(load).met = met
  BY <1>0, <1>2, <1>3, CaughtType
<1>7. LoadOK(Caught(load), Site(l))
  <2>1. load.warning /\ load.floor = yesterday[Site(l)]
    BY <1>1, <1>2, <1>3 DEF GoesOn
  <2>2. load.met \cap {"server", "storage"} # {} /\ ~(load.met \subseteq {"server", "url"})
    BY <1>3
  <2> HIDE DEF load
  <2>3. QED
    BY <1>0, <1>1, <1>3, <2>1, <2>2, CaughtOK
<1>8. LoadOK(ended, Site(l))
  <2>1. ended.warning /\ "storage" \in ended.met
    BY <1>1, <1>2, <1>4 DEF GoesOn
  <2>2. QED
    BY <1>4, <2>1 DEF LoadOK, GoesOn, GoesAlone, Ends
<1> HIDE DEF load, ended
<1>9. PICK next \in LoadRecords : /\ loads' = [loads EXCEPT ![l] = next] /\ next.client = loads[l].client
                                  /\ loads[l].met \subseteq next.met /\ LoadOK(next, Site(l))
  BY <1>4, <1>5, <1>6, <1>7, <1>8
<1>10. loads'[l] = next /\ \A k \in Loads \ {l} : loads'[k] = loads[k]
  BY <1>0, <1>9
<1>11. LoadOK(loads[l], Site(l))'
  <2>1. LoadOK(loads'[l], Site(l)) /\ clients'[loads'[l].client].url = Site(l)
    BY <1>0, <1>9, <1>10 DEF Site
  <2>2. UNCHANGED <<manifest, blobs, yesterday>>
    BY <1>0
  <2>3. QED
    BY <2>1, <2>2, Carry
<1>12. ASSUME NEW k \in Loads \ {l} PROVE LoadOK(loads[k], Site(k))'
  <2>1. Active(k) => clients'[loads[k].client].url = Site(k)
    BY <1>0 DEF Site
  <2>2. QED
    BY <1>0, <1>1, <1>10, <2>1, OthersOK DEF DatabaseInv
<1>13. TypeOK'
  <2>1. /\ loads' \in [Loads -> LoadRecords]
        /\ \A k \in Loads : loads'[k].pc # "done" => loads'[k].client \in DOMAIN clients'
    BY <1>0, <1>1, <1>9, GoesType
  <2>2. count' \in Counts
    <3>1. count' = [count EXCEPT !.faults = @ + 1] /\ count.faults < MaxFaults
      BY DEF StorageFails
    <3>2. count \in Counts
      BY <1>0 DEF TypeOK
    <3>3. count.faults + 1 \in 0..MaxFaults
      BY <3>1, <3>2, BoundsAssumption DEF Counts
    <3>4. QED
      BY <3>1, <3>2, <3>3 DEF Counts
  <2>3. QED
    BY <1>0, <2>1, <2>2 DEF TypeOK
<1>14. AloneInv'
  BY <1>0, <1>1, <1>9, StepAlone DEF DatabaseInv
<1>15. StoreInv'
  BY <1>0 DEF DatabaseInv, StoreInv, Today
<1>16. QED
  BY <1>11, <1>12, <1>13, <1>14, <1>15 DEF DatabaseInv

\* A newer version is published at its URL: the calls under way have met it.
LEMMA PublishInv ==
  ASSUME DatabaseInv, NEW version \in Versions, Publish(version)
  PROVE  DatabaseInv'
<1>0. /\ TypeOK /\ loads \in [Loads -> LoadRecords]
      /\ UNCHANGED <<manifest, young, blobs, clients, url, yesterday, count>>
  BY DEF DatabaseInv, TypeOK, Publish, meta
<1>1. loads' = [l \in Loads |->
         IF Active(l) THEN [loads[l] EXCEPT !.met = @ \cup {"server"}] ELSE loads[l]]
  BY DEF Publish
<1>2. ASSUME NEW l \in Loads
      PROVE  /\ loads'[l] \in LoadRecords /\ loads'[l].pc = loads[l].pc
             /\ loads'[l].client = loads[l].client /\ loads[l].met \subseteq loads'[l].met
             /\ loads'[l].met \subseteq loads[l].met \cup {"server"}
             /\ LoadOK(loads[l], Site(l))'
  <2>0. loads[l] \in LoadRecords /\ LoadOK(loads[l], Site(l))
    BY <1>0 DEF DatabaseInv
  <2>1. CASE ~Active(l)
    <3>1. loads'[l] = loads[l]
      BY <1>1, <2>1
    <3>2. QED
      BY <2>0, <2>1, <3>1 DEF LoadOK, GoesOn, GoesAlone, Ends, Active
  <2>2. CASE Active(l)
    <3>1. loads'[l] = [loads[l] EXCEPT !.met = @ \cup {"server"}]
      BY <1>1, <2>2
    <3>2. /\ loads'[l] \in LoadRecords /\ loads'[l].met = loads[l].met \cup {"server"}
          /\ loads'[l].pc = loads[l].pc /\ loads'[l].client = loads[l].client
          /\ loads'[l].path = loads[l].path /\ loads'[l].warning = loads[l].warning
          /\ loads'[l].cached = loads[l].cached /\ loads'[l].fresh = loads[l].fresh
          /\ loads'[l].floor = loads[l].floor /\ loads'[l].copy = loads[l].copy
      BY <2>0, <3>1 DEF LoadRecords
    <3>3. Site(l)' = Site(l)
      BY <1>0, <3>2 DEF Site
    <3>4. GoesOn(loads[l], Site(l))'
      BY <1>0, <2>0, <2>2, <3>2, <3>3 DEF LoadOK, GoesOn, HasFresh, AtOpen, Today, Active
    <3>5. GoesAlone(loads[l], Site(l))'
      BY <1>0, <2>0, <2>2, <3>2, <3>3
         DEF LoadOK, GoesAlone, HasStored, NeedsCached, AtOpen, Active
    <3>6. QED
      BY <2>2, <3>2, <3>4, <3>5 DEF LoadOK, Ends, Active
  <2>3. QED
    BY <2>1, <2>2
<1>3. AloneInv'
  BY <1>2 DEF DatabaseInv, AloneInv, Active
<1>4. Publisher[version] \in Urls /\ version \in Nat
  BY VersionsAssumption
<1>5. StoreInv'
  <2>1. ASSUME NEW u \in Urls PROVE Publisher[server'[u]] = u /\ server'[u] >= yesterday[u]
    <3>1. /\ server' = [server EXCEPT ![Publisher[version]] = version]
          /\ version > server[Publisher[version]]
      BY DEF Publish
    <3>2. server \in [Urls -> Versions] /\ yesterday[u] \in Int /\ server[u] \in Int
      <4>1. server \in [Urls -> Versions] /\ yesterday[u] \in Versions \cup {0}
        BY <1>0 DEF TypeOK, Maybe, None
      <4>2. server[u] \in Versions
        BY <4>1
      <4>3. \A v \in Versions : v \in Int
        BY VersionsAssumption
      <4>4. QED
        BY <4>1, <4>2, <4>3
    <3>3. Publisher[server[u]] = u /\ server[u] >= yesterday[u]
      BY DEF DatabaseInv, StoreInv
    <3>4. CASE u = Publisher[version]
      BY <1>4, <3>1, <3>2, <3>3, <3>4
    <3>5. CASE u # Publisher[version]
      BY <3>1, <3>2, <3>3, <3>5
    <3>6. QED
      BY <3>4, <3>5
  <2>2. QED
    BY <1>0, <2>1 DEF DatabaseInv, StoreInv, Today
<1>6. TypeOK'
  <2>1. loads' \in [Loads -> LoadRecords]
    BY <1>1, <1>2
  <2>2. server' \in [Urls -> Versions]
    BY <1>0 DEF Publish, TypeOK
  <2>3. \A l \in Loads : loads'[l].pc # "done" => loads'[l].client \in DOMAIN clients'
    BY <1>0, <1>2 DEF TypeOK
  <2>4. QED
    BY <1>0, <2>1, <2>2, <2>3 DEF TypeOK
<1>7. QED
  BY <1>2, <1>3, <1>5, <1>6 DEF DatabaseInv

\* The user, the browser and time.
LEMMA WorldInv ==
  ASSUME DatabaseInv, (\E to \in Urls : ChangeUrl(to)) \/ WorkerStopped \/ DayPasses
  PROVE  DatabaseInv'
<1>0. TypeOK /\ loads \in [Loads -> LoadRecords] /\ count \in Counts
  BY DEF DatabaseInv, TypeOK
<1>1. ASSUME NEW to \in Urls, ChangeUrl(to) PROVE DatabaseInv'
  <2>1. UNCHANGED <<manifest, young, blobs, clients, loads, server, yesterday>> /\ url' = to
    BY <1>1 DEF ChangeUrl, meta
  <2>2. count' \in Counts
    <3>1. count' = [count EXCEPT !.changes = @ + 1] /\ count.changes < MaxChanges
      BY <1>1 DEF ChangeUrl
    <3>2. count.changes + 1 \in 0..MaxChanges
      BY <1>0, <3>1, BoundsAssumption DEF Counts
    <3>3. QED
      BY <1>0, <3>1, <3>2 DEF Counts
  <2>3. TypeOK'
    BY <1>0, <2>1, <2>2 DEF TypeOK
  <2>4. StoreInv' /\ AloneInv'
    BY <2>1 DEF DatabaseInv, StoreInv, AloneInv, Active, Today
  <2>5. ASSUME NEW l \in Loads PROVE LoadOK(loads[l], Site(l))'
    BY <2>1 DEF DatabaseInv, LoadOK, GoesOn, GoesAlone, Ends, HasFresh, HasStored, NeedsCached, AtOpen,
       Today, Site
  <2>6. QED
    BY <2>3, <2>4, <2>5 DEF DatabaseInv
<1>2. CASE WorkerStopped
  <2>1. /\ UNCHANGED <<manifest, young, blobs, url, server, yesterday>>
        /\ clients' = <<>> /\ loads' = [l \in Loads |-> Idle]
    BY <1>2 DEF WorkerStopped, meta, world
  <2>2. Idle \in LoadRecords /\ Idle.pc = "done" /\ Idle.client = 0
    BY DEF Idle, LoadRecords, Maybe
  <2>3. count' \in Counts
    <3>1. count' = [count EXCEPT !.restarts = @ + 1] /\ count.restarts < MaxRestarts
      BY <1>2 DEF WorkerStopped
    <3>2. count.restarts + 1 \in 0..MaxRestarts
      BY <1>0, <3>1, BoundsAssumption DEF Counts
    <3>3. QED
      BY <1>0, <3>1, <3>2 DEF Counts
  <2>4. TypeOK'
    BY <1>0, <2>1, <2>2, <2>3, EmptySeq DEF TypeOK
  <2>5. StoreInv' /\ AloneInv'
    BY <2>1, <2>2 DEF DatabaseInv, StoreInv, AloneInv, Active, Today
  <2>6. ASSUME NEW l \in Loads PROVE LoadOK(loads[l], Site(l))'
    BY <2>1, <2>2 DEF LoadOK, GoesOn, GoesAlone, Ends
  <2>7. QED
    BY <2>4, <2>5, <2>6 DEF DatabaseInv
<1>3. CASE DayPasses
  <2>1. /\ UNCHANGED <<manifest, blobs, clients, loads, url, server>> /\ yesterday' = server /\ ~young'
        /\ young' \in BOOLEAN /\ \A l \in Loads : ~Active(l)
    BY <1>3 DEF DayPasses
  <2>2. count' \in Counts
    <3>1. count' = [count EXCEPT !.days = @ + 1] /\ count.days < MaxDays
      BY <1>3 DEF DayPasses
    <3>2. count.days + 1 \in 0..MaxDays
      BY <1>0, <3>1, BoundsAssumption DEF Counts
    <3>3. QED
      BY <1>0, <3>1, <3>2 DEF Counts
  <2>3. server \in [Urls -> Versions] /\ \A u \in Urls : server[u] \in Nat
    BY <1>0, VersionsAssumption DEF TypeOK
  <2>4. TypeOK'
    BY <1>0, <2>1, <2>2, <2>3 DEF TypeOK, Maybe
  <2>5. StoreInv'
    BY <2>1, <2>3 DEF DatabaseInv, StoreInv
  <2>6. AloneInv'
    BY <2>1 DEF AloneInv, Active
  <2>7. ASSUME NEW l \in Loads PROVE LoadOK(loads[l], Site(l))'
    BY <2>1 DEF DatabaseInv, LoadOK, GoesOn, GoesAlone, Ends, Active
  <2>8. QED
    BY <2>4, <2>5, <2>6, <2>7 DEF DatabaseInv
<1>4. QED
  BY <1>1, <1>2, <1>3

LEMMA NextInv == DatabaseInv /\ [Next]_vars => DatabaseInv'
<1> SUFFICES ASSUME DatabaseInv, [Next]_vars PROVE DatabaseInv'
  OBVIOUS
<1>1. CASE UNCHANGED vars
  <2>1. TypeOK' /\ StoreInv' /\ AloneInv'
    BY <1>1 DEF vars, DatabaseInv, TypeOK, StoreInv, AloneInv, Active, Today
  <2>2. ASSUME NEW l \in Loads PROVE LoadOK(loads[l], Site(l))'
    BY <1>1 DEF vars, DatabaseInv, LoadOK, GoesOn, GoesAlone, Ends, HasFresh, HasStored, NeedsCached,
       AtOpen, Today, Site
  <2>3. QED
    BY <2>1, <2>2 DEF DatabaseInv
<1>2. QED
  BY <1>1, LoadInv, StepInv, FailInv, PublishInv, WorldInv DEF Next

--------------------------------------------------------------------------------
(* The theorems *)

\* The stores, the clients and the calls stay well typed; in particular no blob is ever
\* put under no version (DatabaseClient.load).
THEOREM TypeCorrect == Spec => []TypeOK
<1>1. DatabaseInv => TypeOK
  BY DEF DatabaseInv
<1>2. QED
  BY <1>1, InitInv, NextInv, PTL DEF Spec

\* Whatever earlier loads, crashes and failures left in the stores, a load that meets no
\* trouble of its own returns a database without a warning (DatabaseClient.load).
THEOREM RepairCorrect == Spec => []RepairsItself
<1>1. DatabaseInv => RepairsItself
  BY DEF DatabaseInv, LoadOK, Ends, RepairsItself, Returned, Active
<1>2. QED
  BY <1>1, InitInv, NextInv, PTL DEF Spec

\* A load that runs alone never loses a copy it could have used to a server that is down or
\* replaces its database (the catch clause of load).
THEOREM CopyCorrect == Spec => []CopySurvivesServer
<1>1. DatabaseInv => CopySurvivesServer
  BY DEF DatabaseInv, LoadOK, Ends, CopySurvivesServer, Returned, Active
<1>2. QED
  BY <1>1, InitInv, NextInv, PTL DEF Spec

\* A load that runs alone on a copy from its own URL returns without a warning only a database
\* no older than the one published there a day ago (the age check of load), wherever an
\* earlier load was stopped.
THEOREM RecentCorrect == Spec => []UnwarnedIsRecent
<1>1. DatabaseInv => UnwarnedIsRecent
  BY DEF DatabaseInv, LoadOK, Ends, UnwarnedIsRecent, Returned, Active
<1>2. QED
  BY <1>1, InitInv, NextInv, PTL DEF Spec
================================================================================
