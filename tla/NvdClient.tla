------------------------------- MODULE NvdClient -------------------------------
(***************************************************************************)
(* Live NVD lookups, written twice: cve/nvd.go and cve/limiter.go for the    *)
(* command line, extension/src/lib/nvd.ts and lib/limiter.ts for the         *)
(* extension (paging, retries, the sliding window budget), with nvdClientFor *)
(* of background.ts (which client a scan uses).  Any number of lookups go on *)
(* at once: goroutines that share the limiter's mutex, or awaits.  Only the  *)
(* command line cancels waits; only the extension replaces its client.       *)
(*                                                                         *)
(* Time is a counter that never goes back.  A lookup is suspended at each   *)
(* await, so the steps of different lookups interleave; reading the clock   *)
(* and reserving a send happen in one step.                                 *)
(***************************************************************************)
EXTENDS Integers, Sequences, FiniteSets

CONSTANTS Lookups,      \* calls of vulnerabilitiesFor, each for one CPE name
          Keys,         \* API keys in the settings, the empty one included
          Budget,       \* sends per window allowed with each key
          Window,       \* length of the window (WINDOW_MS)
          RetryDelay,   \* wait before asking a throttled page again
          MaxAttempts,  \* requests made for one page (MAX_ATTEMPTS)
          MaxRecords,   \* bound: records NVD has for one CPE name
          MaxChanges,   \* bound: times NVD gains or loses a record
          MaxClients,   \* bound: clients created by changes of the key
          MaxTime       \* bound: the clock

ASSUME BudgetAssumption == Budget \in [Keys -> Nat \ {0}]
ASSUME TimesAssumption ==
  /\ Window \in Nat \ {0} /\ RetryDelay \in Nat /\ MaxAttempts \in Nat \ {0}
  /\ MaxRecords \in Nat /\ MaxChanges \in Nat /\ MaxClients \in Nat /\ MaxTime \in Nat

VARIABLES now,
          clients,  \* the clients created; scans use the last one
          lookups,
          records,  \* records NVD has now for the CPE name of each lookup
          changes

nvdVars == <<now, clients, lookups, records, changes>>

\* A client: its key, the times of its sends (the whole history, by number) and
\* the sends its limiter still remembers (`sent`, which holds their times in order).
ClientRecords ==
  {client \in [key : Keys, sends : Seq(Nat), sent : SUBSET Nat] : client.sent \subseteq DOMAIN client.sends}

\* A lookup: its client, the page it wants (`start`), the attempt for that page, when
\* its timer fires, the positions of the records it has been given and whether the
\* records changed while it ran (history).
LookupRecords ==
  [pc : {"idle", "waiting", "delayed", "sending", "retrying", "done", "failed"},
   client : Nat, start : Nat, attempt : 1..MaxAttempts, until : Nat,
   given : SUBSET (1..MaxRecords), changed : BOOLEAN]

NvdTypeOK ==
  /\ now \in Nat
  /\ clients \in Seq(ClientRecords)
  /\ lookups \in [Lookups -> LookupRecords]
  /\ \A l \in Lookups : lookups[l].pc # "idle" => lookups[l].client \in DOMAIN clients
  /\ records \in [Lookups -> 0..MaxRecords]
  /\ changes \in Nat

Unused == [pc |-> "idle", client |-> 0, start |-> 0, attempt |-> 1, until |-> 0,
           given |-> {}, changed |-> FALSE]

NvdInit ==
  /\ now = 0
  /\ clients = <<>>
  /\ lookups = [l \in Lookups |-> Unused]
  /\ records \in [Lookups -> 0..MaxRecords]
  /\ changes = 0

--------------------------------------------------------------------------------
(* Clients and lookups *)

\* nvdClientFor with another key than before, or for the first time, replaces the
\* client; lookups that hold an older one keep it.
NewClient(key) ==
  /\ Len(clients) < MaxClients
  /\ \A c \in DOMAIN clients : c = Len(clients) => clients[c].key # key
  /\ clients' = Append(clients, [key |-> key, sends |-> <<>>, sent |-> {}])
  /\ UNCHANGED <<now, lookups, records, changes>>

\* A lookup starts on the client its scan was given.
Begin(l) ==
  /\ lookups[l].pc = "idle"
  /\ \E c \in DOMAIN clients :
       lookups' = [lookups EXCEPT ![l] = [Unused EXCEPT !.pc = "waiting", !.client = c]]
  /\ UNCHANGED <<now, clients, records, changes>>

\* Limiter.reserve: the sends within the window are kept.
Kept(client) == {i \in client.sent : client.sends[i] > now - Window}

\* A send at this moment is recorded.
Sending(client) ==
  [key |-> client.key, sends |-> Append(client.sends, now),
   sent |-> Kept(client) \cup {Len(client.sends) + 1}]

\* Faulty variants, named Faulty..., stand before the definitions they would replace;
\* nothing uses them but the mutation runs that show each property can fail.
FaultyForgetOne(l, c, client) ==
  /\ lookups[l].pc = "waiting"
  /\ Cardinality(Kept(client)) <= Budget[client.key]
  /\ clients' = [clients EXCEPT ![c] = Sending(client)]
  /\ lookups' = [lookups EXCEPT ![l].pc = "sending"]
  /\ UNCHANGED <<now, records, changes>>

\* reserve records a send, and the request goes out.
Granted(l, c, client) ==
  /\ lookups[l].pc = "waiting"
  /\ Cardinality(Kept(client)) < Budget[client.key]
  /\ clients' = [clients EXCEPT ![c] = Sending(client)]
  /\ lookups' = [lookups EXCEPT ![l].pc = "sending"]
  /\ UNCHANGED <<now, records, changes>>

FaultyWaitWindow(l, c, client) ==
  /\ lookups[l].pc = "waiting"
  /\ Cardinality(Kept(client)) >= Budget[client.key]
  /\ clients' = [clients EXCEPT ![c] = [client EXCEPT !.sent = Kept(client)]]
  /\ lookups' = [lookups EXCEPT ![l].pc = "delayed", ![l].until = now + Window]
  /\ UNCHANGED <<now, records, changes>>

\* reserve answers how long until the oldest send it remembers leaves the window.
Delayed(l, c, client) ==
  /\ lookups[l].pc = "waiting"
  /\ Cardinality(Kept(client)) >= Budget[client.key]
  /\ clients' = [clients EXCEPT ![c] = [client EXCEPT !.sent = Kept(client)]]
  /\ \E oldest \in Kept(client) :
       /\ \A i \in Kept(client) : oldest <= i
       /\ lookups' = [lookups EXCEPT ![l].pc = "delayed",
                                     ![l].until = client.sends[oldest] + Window]
  /\ UNCHANGED <<now, records, changes>>

\* A timer fires, no earlier than it was set for; the budget is asked for again.
Wake(l) ==
  /\ lookups[l].pc \in {"delayed", "retrying"}
  /\ lookups[l].until <= now
  /\ lookups' = [lookups EXCEPT ![l].pc = "waiting"]
  /\ UNCHANGED <<now, clients, records, changes>>

\* What NVD answers: records from `start` on, at least one if there is one.
PageSizes(l) == IF lookups[l].start >= records[l] THEN {0} ELSE 1..(records[l] - lookups[l].start)

FaultyAdvanceByPageSize(l, n) ==
  /\ lookups[l].pc = "sending"
  /\ lookups' = [lookups EXCEPT ![l].start = @ + MaxRecords, ![l].attempt = 1,
       ![l].given = @ \cup (lookups[l].start + 1 .. lookups[l].start + n),
       ![l].pc = IF n = 0 \/ lookups[l].start + MaxRecords >= records[l] THEN "done" ELSE "waiting"]
  /\ UNCHANGED <<now, clients, records, changes>>

\* A page arrives with n records and the number there are; the next page is asked
\* for until there is none.
Page(l, n) ==
  /\ lookups[l].pc = "sending"
  /\ lookups' = [lookups EXCEPT ![l].start = @ + n, ![l].attempt = 1,
       ![l].given = @ \cup (lookups[l].start + 1 .. lookups[l].start + n),
       ![l].pc = IF n = 0 \/ lookups[l].start + n >= records[l] THEN "done" ELSE "waiting"]
  /\ UNCHANGED <<now, clients, records, changes>>

FaultyOneMoreAttempt(l) ==
  /\ lookups[l].pc = "sending"
  /\ lookups' =
       IF lookups[l].attempt > MaxAttempts
         THEN [lookups EXCEPT ![l].pc = "failed"]
         ELSE [lookups EXCEPT ![l].pc = "retrying", ![l].attempt = @ + 1, ![l].until = now + RetryDelay]
  /\ UNCHANGED <<now, clients, records, changes>>

\* NVD throttles the request: it is repeated after a delay unless it was the last attempt.
Throttled(l) ==
  /\ lookups[l].pc = "sending"
  /\ lookups' =
       IF lookups[l].attempt >= MaxAttempts
         THEN [lookups EXCEPT ![l].pc = "failed"]
         ELSE [lookups EXCEPT ![l].pc = "retrying", ![l].attempt = @ + 1, ![l].until = now + RetryDelay]
  /\ UNCHANGED <<now, clients, records, changes>>

\* The request fails, is rejected or is cancelled, or the context ends during a wait; the
\* lookup is not repeated.
Rejected(l) ==
  /\ lookups[l].pc \in {"sending", "delayed", "retrying"}
  /\ lookups' = [lookups EXCEPT ![l].pc = "failed"]
  /\ UNCHANGED <<now, clients, records, changes>>

LookupStep(l) ==
  \/ Begin(l)
  \/ \E c \in DOMAIN clients : c = lookups[l].client /\ Granted(l, c, clients[c])
  \/ \E c \in DOMAIN clients : c = lookups[l].client /\ Delayed(l, c, clients[c])
  \/ Wake(l)
  \/ \E n \in PageSizes(l) : Page(l, n)
  \/ Throttled(l)
  \/ Rejected(l)

\* NVD publishes or withdraws a record of the CPE name of l.
RecordsChange(l, total) ==
  /\ changes < MaxChanges
  /\ records[l] # total
  /\ changes' = changes + 1
  /\ records' = [records EXCEPT ![l] = total]
  /\ lookups' = [lookups EXCEPT ![l].changed = TRUE]
  /\ UNCHANGED <<now, clients>>

Tick ==
  /\ now < MaxTime
  /\ now' = now + 1
  /\ UNCHANGED <<clients, lookups, records, changes>>

NvdNext ==
  \/ \E key \in Keys : NewClient(key)
  \/ \E l \in Lookups : LookupStep(l)
  \/ \E l \in Lookups, total \in 0..MaxRecords : RecordsChange(l, total)
  \/ Tick

NvdSpec == NvdInit /\ [][NvdNext]_nvdVars

--------------------------------------------------------------------------------
(* Properties *)

\* However the lookups interleave, a client never sends more than its budget within
\* one window: the send that is a whole budget after another is a window later
\* (limiter.ts: "at most `max` sends per sliding window").
WithinBudget ==
  \A c \in DOMAIN clients :
    LET client == clients[c]
        budget == Budget[client.key]
    IN \A i \in DOMAIN client.sends :
         i + budget \in DOMAIN client.sends =>
           client.sends[i + budget] >= client.sends[i] + Window

\* A lookup delayed by the limiter never sleeps while its client could send: until its
\* timer is due, the last sends of the client use up the budget of the window
\* (reserve's "how long to wait").
DelayedOnlyByBudget ==
  \A l \in Lookups : lookups[l].pc = "delayed" /\ now < lookups[l].until =>
    LET client == clients[lookups[l].client]
        last == Len(client.sends) - Budget[client.key] + 1
    IN last \in DOMAIN client.sends /\ client.sends[last] > now - Window

\* Whatever the size of each page and however often a page had to be asked for again,
\* a lookup that succeeds was given every record exactly as NVD counts them, as long
\* as NVD's records did not change meanwhile (vulnerabilitiesFor).
EveryRecordIsRead ==
  \A l \in Lookups : lookups[l].pc = "done" /\ ~lookups[l].changed =>
    lookups[l].given = 1..records[l]
================================================================================
