--------------------------- MODULE ExtensionDatabase ---------------------------
(***************************************************************************)
(* The extension's copy of the prebuilt vulnerability database:            *)
(* DatabaseClient.load of extension/src/lib/db.ts, called by every run of  *)
(* the background worker through databaseClientFor (background.ts).        *)
(* Overlapping loads interleave at their awaits over three stores that      *)
(* outlive the worker: the manifest and the time it was fetched in          *)
(* storage.local, and the blobs in the Cache API.                          *)
(*                                                                         *)
(* A version stands for a database and its SHA-256 digest; 0 for none.      *)
(* A step is an await: the stored value it waits for and the code up to     *)
(* the next await.                                                         *)
(***************************************************************************)
EXTENDS Integers, Sequences

CONSTANTS Loads,        \* calls of load() that may be under way at once
          Urls,         \* database URLs a user may configure
          Versions,     \* databases published, numbered in the order they are built
          Publisher,    \* the URL a version is published at
          First,        \* the version published at each URL in the beginning
          MaxCalls,     \* bound: calls of load()
          MaxChanges,   \* bound: changes of the configured URL
          MaxDays,      \* bound: times a day passes
          MaxRestarts,  \* bound: times the browser stops the worker
          MaxFaults     \* bound: storage and Cache API calls that reject

ASSUME VersionsAssumption ==
  /\ Versions \subseteq Nat \ {0}
  /\ Publisher \in [Versions -> Urls]
  /\ First \in [Urls -> Versions] /\ \A u \in Urls : Publisher[First[u]] = u
ASSUME BoundsAssumption ==
  /\ MaxCalls \in Nat /\ MaxChanges \in Nat /\ MaxDays \in Nat
  /\ MaxRestarts \in Nat /\ MaxFaults \in Nat

VARIABLES manifest,   \* "db:manifest": the version it names
          young,      \* whether "db:fetchedAt" is less than a day ago
          blobs,      \* the Cache API: versions whose blob is stored
          clients,    \* DatabaseClients made by databaseClientFor; the last is current
          loads,      \* the calls of load()
          url,        \* the configured database URL
          server,     \* the version published at each URL
          yesterday,  \* what was published when the last day passed (history)
          count       \* uses of the bounds

vars == <<manifest, young, blobs, clients, loads, url, server, yesterday, count>>
meta == <<manifest, young>>
world == <<url, server, yesterday>>

None == 0
Maybe == Versions \cup {None}

\* A call: its client, the manifest it read (`cached`) and fetched (`fresh`), the blobs
\* that blobs.set is to delete, the version open() was asked for and on which path, what
\* it returned; then history: what it met, whether the blob of the stored manifest was
\* there when it started, and the version that one without a warning must not be behind.
Idle == [pc |-> "done", client |-> 0, cached |-> None, fresh |-> None, old |-> {}, path |-> "fresh",
         db |-> None, warning |-> TRUE, met |-> {}, copy |-> FALSE, floor |-> None]

LoadRecords ==
  [pc : {"manifest", "fetchedAt", "fetch", "check", "download", "keys", "delete", "put",
         "setManifest", "setFetchedAt", "open", "parse", "done"},
   client : Nat, cached : Maybe, fresh : Maybe, old : SUBSET Versions,
   path : {"young", "fresh", "stale"}, db : Maybe, warning : BOOLEAN,
   met : SUBSET {"others", "server", "storage", "url"}, copy : BOOLEAN, floor : Maybe]

Clients == [url : Urls, loaded : Maybe]
Counts == [calls : 0..MaxCalls, changes : 0..MaxChanges, days : 0..MaxDays,
           restarts : 0..MaxRestarts, faults : 0..MaxFaults]

TypeOK ==
  /\ manifest \in Maybe /\ young \in BOOLEAN
  /\ blobs \subseteq Versions
  /\ clients \in Seq(Clients)
  /\ loads \in [Loads -> LoadRecords]
  /\ \A l \in Loads : loads[l].pc # "done" => loads[l].client \in DOMAIN clients
  /\ url \in Urls /\ server \in [Urls -> Versions] /\ yesterday \in [Urls -> Maybe]
  /\ count \in Counts

Init ==
  /\ manifest = None /\ young = FALSE
  /\ blobs = {}
  /\ clients = <<>>
  /\ loads = [l \in Loads |-> Idle]
  /\ url \in Urls
  /\ server = First
  /\ yesterday = [u \in Urls |-> None]
  /\ count = [calls |-> 0, changes |-> 0, days |-> 0, restarts |-> 0, faults |-> 0]

Active(l) == loads[l].pc # "done"

\* The version that open() was asked for.
Wanted(load) == IF load.path = "fresh" THEN load.fresh ELSE load.cached

--------------------------------------------------------------------------------
(* Where a call goes on *)

\* The call goes on as `next`.
Goes(l, next) ==
  /\ loads' = [loads EXCEPT ![l] = next]
  /\ UNCHANGED <<world, count>>

\* open() on a path has found a version, or None: load goes on or returns.
Opened(load, found) ==
  IF load.path = "young" /\ found = None
    THEN [load EXCEPT !.pc = "fetch"]
    ELSE [load EXCEPT !.pc = "done", !.db = found, !.warning = load.path = "stale"]

\* open() is called: a version that the client has parsed is there at once.
Opening(load, path) ==
  LET asked == [load EXCEPT !.path = path, !.pc = "open"]
  IN IF clients[load.client].loaded = Wanted(asked) THEN Opened(asked, Wanted(asked)) ELSE asked

\* The catch clause: the stale copy is returned with a warning.
Caught(load) ==
  IF load.cached = None THEN Opened([load EXCEPT !.path = "stale"], None) ELSE Opening(load, "stale")

--------------------------------------------------------------------------------
(* DatabaseClient.load *)

\* databaseClientFor makes a client for a URL other than the last one's.
Load(l) ==
  /\ ~Active(l)
  /\ count.calls < MaxCalls
  /\ count' = [count EXCEPT !.calls = @ + 1]
  /\ clients' = IF clients # <<>> /\ clients[Len(clients)].url = url THEN clients
                ELSE Append(clients, [url |-> url, loaded |-> None])
  /\ LET overlap == \E other \in Loads : Active(other)
         others == [other \in Loads |->
           IF Active(other) THEN [loads[other] EXCEPT !.met = @ \cup {"others"}] ELSE loads[other]]
     IN loads' = [others EXCEPT ![l] =
          [Idle EXCEPT !.pc = "manifest", !.client = Len(clients'),
                       !.met = (IF overlap THEN {"others"} ELSE {}) \cup
                               (IF manifest # None /\ Publisher[manifest] # url THEN {"url"} ELSE {}),
                       !.copy = manifest \in blobs, !.floor = yesterday[url]]]
  /\ UNCHANGED <<meta, blobs, world>>

ReadManifest(l) ==
  /\ loads[l].pc = "manifest"
  /\ Goes(l, [loads[l] EXCEPT !.pc = "fetchedAt", !.cached = manifest])
  /\ UNCHANGED <<meta, blobs, clients>>

\* Faulty variants, named Faulty..., stand before the definitions they would replace;
\* nothing uses them but the mutation runs that show each property can fail.
FaultyIgnoreAge(l) ==
  /\ loads[l].pc = "fetchedAt"
  /\ Goes(l, IF loads[l].cached # None
               THEN Opening(loads[l], "young") ELSE [loads[l] EXCEPT !.pc = "fetch"])
  /\ UNCHANGED <<meta, blobs, clients>>

ReadFetchedAt(l) ==
  /\ loads[l].pc = "fetchedAt"
  /\ Goes(l, IF loads[l].cached # None /\ young
               THEN Opening(loads[l], "young") ELSE [loads[l] EXCEPT !.pc = "fetch"])
  /\ UNCHANGED <<meta, blobs, clients>>

FaultyTrustManifest(l) ==
  /\ loads[l].pc = "fetch"
  /\ LET fresh == server[clients[loads[l].client].url]
     IN Goes(l, [loads[l] EXCEPT !.fresh = fresh,
                                 !.pc = IF loads[l].cached = fresh THEN "setManifest" ELSE "download"])
  /\ UNCHANGED <<meta, blobs, clients>>

\* fetchManifest; the stored blob is looked for when the checksum has not changed.
FetchManifest(l) ==
  /\ loads[l].pc = "fetch"
  /\ LET fresh == server[clients[loads[l].client].url]
     IN Goes(l, [loads[l] EXCEPT !.fresh = fresh,
                                 !.pc = IF loads[l].cached = fresh THEN "check" ELSE "download"])
  /\ UNCHANGED <<meta, blobs, clients>>

CheckBlob(l) ==
  /\ loads[l].pc = "check"
  /\ Goes(l, [loads[l] EXCEPT !.pc = IF loads[l].fresh \in blobs THEN "setManifest" ELSE "download"])
  /\ UNCHANGED <<meta, blobs, clients>>

\* download gets the blob the manifest names.
Download(l) ==
  /\ loads[l].pc = "download"
  /\ server[clients[loads[l].client].url] = loads[l].fresh
  /\ Goes(l, [loads[l] EXCEPT !.pc = "keys"])
  /\ UNCHANGED <<meta, blobs, clients>>

\* A request fails, or the blob is not the one named.
RequestFails(l) ==
  /\ loads[l].pc \in {"fetch", "download"}
  /\ Goes(l, Caught([loads[l] EXCEPT !.met = @ \cup {"server"}]))
  /\ UNCHANGED <<meta, blobs, clients>>

\* blobs.set lists what is stored, deletes that, then puts the blob.
ListBlobs(l) ==
  /\ loads[l].pc = "keys"
  /\ Goes(l, [loads[l] EXCEPT !.pc = "delete", !.old = blobs])
  /\ UNCHANGED <<meta, blobs, clients>>

DeleteBlobs(l) ==
  /\ loads[l].pc = "delete"
  /\ blobs' = blobs \ loads[l].old
  /\ Goes(l, [loads[l] EXCEPT !.pc = "put", !.old = {}])
  /\ UNCHANGED <<meta, clients>>

PutBlob(l) ==
  /\ loads[l].pc = "put"
  /\ blobs' = blobs \cup {loads[l].fresh}
  /\ Goes(l, [loads[l] EXCEPT !.pc = "setManifest"])
  /\ UNCHANGED <<meta, clients>>

SetManifest(l) ==
  /\ loads[l].pc = "setManifest"
  /\ manifest' = loads[l].fresh
  /\ Goes(l, [loads[l] EXCEPT !.pc = "setFetchedAt"])
  /\ UNCHANGED <<young, blobs, clients>>

SetFetchedAt(l) ==
  /\ loads[l].pc = "setFetchedAt"
  /\ young' = TRUE
  /\ Goes(l, Opening(loads[l], "fresh"))
  /\ UNCHANGED <<manifest, blobs, clients>>

FaultyOpenNothing(l) ==
  /\ loads[l].pc = "open"
  /\ Goes(l, Opened(loads[l], None))
  /\ UNCHANGED <<meta, blobs, clients>>

\* open() looks for the blob.
FindBlob(l) ==
  /\ loads[l].pc = "open"
  /\ Goes(l, IF Wanted(loads[l]) \in blobs THEN [loads[l] EXCEPT !.pc = "parse"] ELSE Opened(loads[l], None))
  /\ UNCHANGED <<meta, blobs, clients>>

\* parseDatabase is done; the client remembers what it parsed.
Parsed(l) ==
  /\ loads[l].pc = "parse"
  /\ clients' = [clients EXCEPT ![loads[l].client].loaded = Wanted(loads[l])]
  /\ Goes(l, Opened(loads[l], Wanted(loads[l])))
  /\ UNCHANGED <<meta, blobs>>

\* A storage or Cache API call rejects: inside the try it is caught, outside (and in the
\* catch clause) load rejects.
StorageFails(l) ==
  /\ count.faults < MaxFaults
  /\ count' = [count EXCEPT !.faults = @ + 1]
  /\ LET load == [loads[l] EXCEPT !.met = @ \cup {"storage"}]
         caught == \/ load.pc \in {"check", "keys", "delete", "put", "setManifest", "setFetchedAt"}
                   \/ load.pc = "open" /\ load.path = "fresh"
         rejected == \/ load.pc \in {"manifest", "fetchedAt"}
                     \/ load.pc = "open" /\ load.path # "fresh"
     IN \/ caught /\ loads' = [loads EXCEPT ![l] = Caught(load)]
        \/ rejected /\ loads' = [loads EXCEPT ![l] = [load EXCEPT !.pc = "done"]]
  /\ UNCHANGED <<meta, blobs, clients, world>>

--------------------------------------------------------------------------------
(* The user, the servers, the browser and time *)

ChangeUrl(to) ==
  /\ count.changes < MaxChanges
  /\ to # url
  /\ url' = to
  /\ count' = [count EXCEPT !.changes = @ + 1]
  /\ UNCHANGED <<meta, blobs, clients, loads, server, yesterday>>

\* A newer database replaces the published one.
Publish(version) ==
  /\ version > server[Publisher[version]]
  /\ server' = [server EXCEPT ![Publisher[version]] = version]
  /\ loads' = [l \in Loads |->
       IF Active(l) THEN [loads[l] EXCEPT !.met = @ \cup {"server"}] ELSE loads[l]]
  /\ UNCHANGED <<meta, blobs, clients, url, yesterday, count>>

\* The worker stops: the clients and the calls are gone, the stores stay.
WorkerStopped ==
  /\ count.restarts < MaxRestarts
  /\ clients # <<>>
  /\ count' = [count EXCEPT !.restarts = @ + 1]
  /\ clients' = <<>>
  /\ loads' = [l \in Loads |-> Idle]
  /\ UNCHANGED <<meta, blobs, world>>

\* A day passes; no call takes that long.
DayPasses ==
  /\ count.days < MaxDays
  /\ \A l \in Loads : ~Active(l)
  /\ count' = [count EXCEPT !.days = @ + 1]
  /\ young' = FALSE
  /\ yesterday' = server
  /\ UNCHANGED <<manifest, blobs, clients, loads, url, server>>

LoadStep(l) ==
  \/ ReadManifest(l)
  \/ ReadFetchedAt(l)
  \/ FetchManifest(l)
  \/ CheckBlob(l)
  \/ Download(l)
  \/ RequestFails(l)
  \/ ListBlobs(l)
  \/ DeleteBlobs(l)
  \/ PutBlob(l)
  \/ SetManifest(l)
  \/ SetFetchedAt(l)
  \/ FindBlob(l)
  \/ Parsed(l)

Next ==
  \/ \E l \in Loads : Load(l)
  \/ \E l \in Loads : LoadStep(l)
  \/ \E l \in Loads : StorageFails(l)
  \/ \E to \in Urls : ChangeUrl(to)
  \/ \E version \in Versions : Publish(version)
  \/ WorkerStopped
  \/ DayPasses

Spec == Init /\ [][Next]_vars

--------------------------------------------------------------------------------
(* Properties *)

Returned(l) == ~Active(l) /\ loads[l].client # 0

\* Whatever earlier loads, crashes and failures left in the stores, a load that meets
\* no trouble of its own returns a database without a warning: the copy repairs itself
\* (load looks for the blob before it trusts an unchanged manifest).
RepairsItself ==
  \A l \in Loads : Returned(l) /\ loads[l].met \subseteq {"url"}
    => loads[l].db # None /\ ~loads[l].warning

\* A load that runs alone never loses a copy it could have used to a server that is down
\* or replaces its database (DatabaseClient: "so scans keep working offline").
CopySurvivesServer ==
  \A l \in Loads : Returned(l) /\ loads[l].copy /\ loads[l].met \subseteq {"server", "url"}
    => loads[l].db # None

\* A load that runs alone on a copy from its own URL returns without a warning only a
\* database no older than the one published there a day ago, also after a crash between
\* the writes of an earlier load.
UnwarnedIsRecent ==
  \A l \in Loads : Returned(l) /\ ~loads[l].warning /\ loads[l].met \cap {"others", "url"} = {}
    => loads[l].db >= loads[l].floor
================================================================================
