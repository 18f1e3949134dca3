----------------------------- MODULE AdvisoryProofs -----------------------------
(***************************************************************************)
(* Theorems about the advisories of a product: NvdClient, which reads them  *)
(* from the NVD, for any lookups, keys, budgets, delays and bounds; Matching, *)
(* which decides whether they apply; and Ranking, which makes one list of    *)
(* those that do.                                                           *)
(***************************************************************************)
EXTENDS NvdClient, Ranking, FoldLemmas

--------------------------------------------------------------------------------
(* Types *)

\* Replacing the record of one lookup, its client one of the clients, keeps the types.
LEMMA LookupType ==
  ASSUME NvdTypeOK, NEW l \in Lookups, NEW next \in LookupRecords, lookups' = [lookups EXCEPT ![l] = next],
         next.pc # "idle" => next.client \in DOMAIN clients', DOMAIN clients \subseteq DOMAIN clients'
  PROVE  /\ lookups' \in [Lookups -> LookupRecords]
         /\ \A k \in Lookups : lookups'[k].pc # "idle" => lookups'[k].client \in DOMAIN clients'
<1>1. lookups \in [Lookups -> LookupRecords]
  BY DEF NvdTypeOK
<1>2. \A k \in Lookups : lookups'[k] = IF k = l THEN next ELSE lookups[k]
  BY <1>1
<1>3. QED
  BY <1>1, <1>2 DEF NvdTypeOK

LEMMA UnusedType == Unused \in LookupRecords
  BY TimesAssumption DEF Unused, LookupRecords

\* A client that sent once more, or forgot some sends, still is a client.
LEMMA ClientType ==
  ASSUME NvdTypeOK, NEW c \in DOMAIN clients, NEW next \in ClientRecords,
         clients' = [clients EXCEPT ![c] = next]
  PROVE  clients' \in Seq(ClientRecords) /\ DOMAIN clients' = DOMAIN clients
  BY DEF NvdTypeOK

LEMMA InitType == NvdInit => NvdTypeOK
  BY UnusedType DEF NvdInit, NvdTypeOK, Unused

LEMMA SendingType ==
  ASSUME NvdTypeOK, NEW c \in DOMAIN clients
  PROVE  Sending(clients[c]) \in ClientRecords
<1> DEFINE client == clients[c]
<1>1. client \in ClientRecords /\ now \in Nat
  BY DEF NvdTypeOK
<1>2. client.key \in Keys /\ client.sends \in Seq(Nat) /\ client.sent \subseteq DOMAIN client.sends
  BY <1>1 DEF ClientRecords
<1>3. Append(client.sends, now) \in Seq(Nat)
      /\ DOMAIN Append(client.sends, now) = 1..(Len(client.sends) + 1)
  BY <1>1, <1>2
<1>4. Kept(client) \cup {Len(client.sends) + 1} \subseteq 1..(Len(client.sends) + 1)
  BY <1>2 DEF Kept
<1>5. QED
  BY <1>2, <1>3, <1>4 DEF ClientRecords, Sending

LEMMA GrantedType ==
  ASSUME NvdTypeOK, NEW l \in Lookups, NEW c \in DOMAIN clients, Granted(l, c, clients[c])
  PROVE  NvdTypeOK'
<1>1. clients' \in Seq(ClientRecords) /\ DOMAIN clients' = DOMAIN clients
  BY SendingType, ClientType DEF Granted
<1> DEFINE next == [lookups[l] EXCEPT !.pc = "sending"]
<1>2. next \in LookupRecords /\ next.client = lookups[l].client
  BY DEF NvdTypeOK, LookupRecords
<1>3. lookups' = [lookups EXCEPT ![l] = next] /\ lookups[l].client \in DOMAIN clients
  BY DEF NvdTypeOK, Granted
<1>4. QED
  BY <1>1, <1>2, <1>3, LookupType DEF NvdTypeOK, Granted

LEMMA DelayedType ==
  ASSUME NvdTypeOK, NEW l \in Lookups, NEW c \in DOMAIN clients, Delayed(l, c, clients[c])
  PROVE  NvdTypeOK'
<1> DEFINE client == clients[c]
           nextClient == [key |-> client.key, sends |-> client.sends, sent |-> Kept(client)]
<1>1. client \in ClientRecords /\ now \in Nat /\ clients \in Seq(ClientRecords)
  BY DEF NvdTypeOK
<1>2. nextClient \in ClientRecords
  BY <1>1 DEF ClientRecords, Kept
<1>3. clients' = [clients EXCEPT ![c] = nextClient]
  <2>1. client \in [key : Keys, sends : Seq(Nat), sent : SUBSET Nat]
    BY <1>1 DEF ClientRecords
  <2>2. [client EXCEPT !.sent = Kept(client)] = nextClient
    BY <2>1
  <2>3. QED
    BY <2>2 DEF Delayed
<1>4. clients' \in Seq(ClientRecords) /\ DOMAIN clients' = DOMAIN clients
  BY <1>2, <1>3, ClientType
<1>5. PICK oldest \in Kept(client) :
        lookups' = [lookups EXCEPT ![l].pc = "delayed", ![l].until = client.sends[oldest] + Window]
  BY DEF Delayed
<1> DEFINE next == [lookups[l] EXCEPT !.pc = "delayed", !.until = client.sends[oldest] + Window]
<1>6. client.sends[oldest] + Window \in Nat
  <2>1. client.sends \in Seq(Nat) /\ oldest \in DOMAIN client.sends
    BY <1>1, <1>5 DEF Kept, ClientRecords
  <2>2. QED
    BY <2>1, TimesAssumption
<1>7. next \in LookupRecords
  BY <1>6, ZenonT(30) DEF NvdTypeOK, LookupRecords
<1>8. lookups' = [lookups EXCEPT ![l] = next]
  BY <1>5
<1>9. next.client \in DOMAIN clients'
  BY <1>4, <1>7 DEF NvdTypeOK, LookupRecords, Delayed
<1>10. QED
  BY <1>1, <1>4, <1>7, <1>8, <1>9, LookupType DEF NvdTypeOK, Delayed

\* Every other step of a lookup leaves the clients alone.
LEMMA QuietType ==
  ASSUME NvdTypeOK, NEW l \in Lookups, NEW next \in LookupRecords,
         lookups' = [lookups EXCEPT ![l] = next],
         next.pc # "idle" => next.client \in DOMAIN clients, UNCHANGED <<now, clients, records, changes>>
  PROVE  NvdTypeOK'
  BY LookupType DEF NvdTypeOK

LEMMA LookupStepType ==
  ASSUME NvdTypeOK, NEW l \in Lookups, LookupStep(l)
  PROVE  NvdTypeOK'
<1>0. /\ lookups[l] \in LookupRecords /\ lookups \in [Lookups -> LookupRecords]
      /\ lookups[l].pc # "idle" => lookups[l].client \in DOMAIN clients
      /\ now \in Nat /\ records[l] \in 0..MaxRecords
  BY DEF NvdTypeOK
<1>1. CASE Begin(l)
  <2>1. PICK c \in DOMAIN clients :
          lookups' = [lookups EXCEPT ![l] = [Unused EXCEPT !.pc = "waiting", !.client = c]]
    BY <1>1 DEF Begin
  <2>2. c \in Nat /\ c \in DOMAIN clients
    BY <2>1 DEF NvdTypeOK
  <2>3. [Unused EXCEPT !.pc = "waiting", !.client = c] \in LookupRecords
    BY <2>2, UnusedType DEF LookupRecords
  <2>4. [Unused EXCEPT !.pc = "waiting", !.client = c].client = c
    BY DEF Unused
  <2>5. QED
    BY <1>1, <2>1, <2>2, <2>3, <2>4, QuietType DEF Begin
<1>2. ASSUME NEW c \in DOMAIN clients, Granted(l, c, clients[c]) PROVE NvdTypeOK'
  BY <1>2, GrantedType
<1>3. ASSUME NEW c \in DOMAIN clients, Delayed(l, c, clients[c]) PROVE NvdTypeOK'
  BY <1>3, DelayedType
<1>4. CASE Wake(l)
  <2> DEFINE next == [lookups[l] EXCEPT !.pc = "waiting"]
  <2>1. next \in LookupRecords /\ next.client = lookups[l].client
    BY <1>0 DEF LookupRecords
  <2>2. lookups' = [lookups EXCEPT ![l] = next] /\ lookups[l].pc # "idle"
    BY <1>4 DEF Wake
  <2>3. QED
    BY <1>0, <1>4, <2>1, <2>2, QuietType DEF Wake
<1>5. ASSUME NEW n \in PageSizes(l), Page(l, n) PROVE NvdTypeOK'
  <2> DEFINE reached == lookups[l].start + n
             given == lookups[l].given \cup (lookups[l].start + 1 .. reached)
             pc == IF n = 0 \/ reached >= records[l] THEN "done" ELSE "waiting"
             next == [lookups[l] EXCEPT !.start = reached, !.attempt = 1, !.given = given, !.pc = pc]
  <2>1. lookups[l].start \in Nat /\ n \in Nat /\ n # 0 => reached <= MaxRecords
    BY <1>0, TimesAssumption DEF PageSizes, LookupRecords
  <2>2. reached \in Nat /\ given \in SUBSET (1..MaxRecords)
    BY <1>0, <2>1, TimesAssumption DEF PageSizes, LookupRecords
  <2>3. pc \in {"done", "waiting"} /\ 1 \in 1..MaxAttempts
    BY TimesAssumption
  <2>4. next \in LookupRecords /\ next.client = lookups[l].client
    <3> HIDE DEF pc, given, reached
    <3>1. QED
      BY <1>0, <2>2, <2>3 DEF LookupRecords
  <2>5. lookups' = [lookups EXCEPT ![l] = next] /\ lookups[l].pc # "idle"
    BY <1>5 DEF Page
  <2>6. UNCHANGED <<now, clients, records, changes>>
    BY <1>5 DEF Page
  <2>7. QED
    <3> HIDE DEF next
    <3>1. QED
      BY <1>0, <2>4, <2>5, <2>6, QuietType
<1>6. CASE Throttled(l)
  <2>1. CASE lookups[l].attempt >= MaxAttempts
    <3> DEFINE next == [lookups[l] EXCEPT !.pc = "failed"]
    <3>1. next \in LookupRecords /\ next.client = lookups[l].client
      BY <1>0 DEF LookupRecords
    <3>2. lookups' = [lookups EXCEPT ![l] = next] /\ lookups[l].pc # "idle"
      BY <1>6, <2>1 DEF Throttled
    <3>3. QED
      BY <1>0, <1>6, <3>1, <3>2, QuietType DEF Throttled
  <2>2. CASE ~(lookups[l].attempt >= MaxAttempts)
    <3> DEFINE again == lookups[l].attempt + 1
               until == now + RetryDelay
               next == [lookups[l] EXCEPT !.pc = "retrying", !.attempt = again, !.until = until]
    <3>1. again \in 1..MaxAttempts /\ until \in Nat
      BY <1>0, <2>2, TimesAssumption DEF LookupRecords
    <3>2. next \in LookupRecords /\ next.client = lookups[l].client
      <4> HIDE DEF again, until
      <4>1. QED
        BY <1>0, <3>1 DEF LookupRecords
    <3>3. lookups' = [lookups EXCEPT ![l] = next] /\ lookups[l].pc # "idle"
      BY <1>6, <2>2 DEF Throttled
    <3>4. QED
      BY <1>0, <1>6, <3>2, <3>3, QuietType DEF Throttled
  <2>3. QED
    BY <2>1, <2>2
<1>7. CASE Rejected(l)
  <2> DEFINE next == [lookups[l] EXCEPT !.pc = "failed"]
  <2>1. next \in LookupRecords /\ next.client = lookups[l].client
    BY <1>0 DEF LookupRecords
  <2>2. lookups' = [lookups EXCEPT ![l] = next] /\ lookups[l].pc # "idle"
    BY <1>7 DEF Rejected
  <2>3. QED
    BY <1>0, <1>7, <2>1, <2>2, QuietType DEF Rejected
<1>8. QED
  BY <1>1, <1>2, <1>3, <1>4, <1>5, <1>6, <1>7, LookupStep(l) DEF LookupStep

LEMMA NextType == NvdTypeOK /\ [NvdNext]_nvdVars => NvdTypeOK'
<1> SUFFICES ASSUME NvdTypeOK, [NvdNext]_nvdVars PROVE NvdTypeOK'
  OBVIOUS
<1>1. ASSUME NEW key \in Keys, NewClient(key) PROVE NvdTypeOK'
  <2>1. [key |-> key, sends |-> <<>>, sent |-> {}] \in ClientRecords
    BY DEF ClientRecords
  <2>2. clients' \in Seq(ClientRecords) /\ DOMAIN clients \subseteq DOMAIN clients'
    BY <1>1, <2>1 DEF NewClient, NvdTypeOK
  <2>3. QED
    BY <1>1, <2>2 DEF NewClient, NvdTypeOK
<1>2. ASSUME NEW l \in Lookups, LookupStep(l) PROVE NvdTypeOK'
  BY <1>2, LookupStepType
<1>3. ASSUME NEW l \in Lookups, NEW total \in 0..MaxRecords, RecordsChange(l, total) PROVE NvdTypeOK'
  <2> DEFINE next == [lookups[l] EXCEPT !.changed = TRUE]
  <2>1. next \in LookupRecords /\ next.client = lookups[l].client /\ next.pc = lookups[l].pc
    BY DEF NvdTypeOK, LookupRecords
  <2>2. lookups' = [lookups EXCEPT ![l] = next] /\ clients' = clients
    BY <1>3 DEF RecordsChange
  <2>3. lookups[l].pc # "idle" => lookups[l].client \in DOMAIN clients
    BY DEF NvdTypeOK
  <2>4. /\ lookups' \in [Lookups -> LookupRecords]
        /\ \A k \in Lookups : lookups'[k].pc # "idle" => lookups'[k].client \in DOMAIN clients'
    BY <2>1, <2>2, <2>3, LookupType
  <2>5. QED
    BY <1>3, <2>2, <2>4 DEF RecordsChange, NvdTypeOK
<1>4. CASE Tick
  BY <1>4 DEF Tick, NvdTypeOK
<1>5. CASE UNCHANGED nvdVars
  BY <1>5 DEF nvdVars, NvdTypeOK
<1>6. QED
  BY <1>1, <1>2, <1>3, <1>4, <1>5 DEF NvdNext

\* Every variable keeps its type (vulnerabilitiesFor, Limiter, nvdClientFor), so no page
\* is asked for more than MaxAttempts times and no record is read past the last one.
THEOREM NvdTypeCorrect == NvdSpec => []NvdTypeOK
<1>1. QED
  BY InitType, NextType, PTL DEF NvdSpec

--------------------------------------------------------------------------------
(* The budget *)

\* What a limiter remembers: sends are numbered in the order of time, those of the
\* window are among the ones remembered, and these never exceed the budget.
ClientInv(client) ==
  /\ \A i, j \in DOMAIN client.sends : i <= j => client.sends[i] <= client.sends[j]
  /\ \A i \in DOMAIN client.sends : client.sends[i] <= now
  /\ \A i \in DOMAIN client.sends : client.sends[i] > now - Window => i \in client.sent
  /\ Cardinality(client.sent) <= Budget[client.key]

Spaced(client) ==
  \A i \in DOMAIN client.sends :
    i + Budget[client.key] \in DOMAIN client.sends =>
      client.sends[i + Budget[client.key]] >= client.sends[i] + Window

\* A delayed lookup waits for a send that a whole budget of sends begins with.
DelayInv(l) ==
  LET client == clients[lookups[l].client]
  IN lookups[l].pc = "delayed" =>
       \E i \in DOMAIN client.sends :
         /\ lookups[l].until = client.sends[i] + Window
         /\ i + Budget[client.key] - 1 \in DOMAIN client.sends

BudgetInv ==
  /\ NvdTypeOK
  /\ \A c \in DOMAIN clients : ClientInv(clients[c]) /\ Spaced(clients[c])
  /\ \A l \in Lookups : DelayInv(l)

\* A set that contains, or is contained in, an interval is at least, or at most, as large.
LEMMA AtLeastInterval ==
  ASSUME NEW S, IsFiniteSet(S), NEW i \in Nat, NEW n \in Nat, i <= n, i..n \subseteq S
  PROVE  Cardinality(S) \in Nat /\ Cardinality(S) >= n - i + 1
<1>1. Cardinality(i..n) = n - i + 1
  BY FS_Interval
<1>2. Cardinality(i..n) <= Cardinality(S) /\ Cardinality(S) \in Nat
  BY FS_Subset, FS_CardinalityType
<1>3. QED
  BY <1>1, <1>2

LEMMA AtMostInterval ==
  ASSUME NEW S, NEW i \in Nat, NEW n \in Nat, i <= n, S \subseteq i..n
  PROVE  IsFiniteSet(S) /\ Cardinality(S) \in Nat /\ Cardinality(S) <= n - i + 1
<1>1. IsFiniteSet(i..n) /\ Cardinality(i..n) = n - i + 1
  BY FS_Interval
<1>2. IsFiniteSet(S) /\ Cardinality(S) <= Cardinality(i..n)
  BY <1>1, FS_Subset
<1>3. QED
  BY <1>1, <1>2, FS_CardinalityType

\* The facts about one client that the steps use.
LEMMA ClientFacts ==
  ASSUME NvdTypeOK, NEW c \in DOMAIN clients
  PROVE  /\ now \in Nat
         /\ clients[c].sends \in Seq(Nat)
         /\ DOMAIN clients[c].sends = 1..Len(clients[c].sends)
         /\ Len(clients[c].sends) \in Nat
         /\ clients[c].sent \subseteq 1..Len(clients[c].sends)
         /\ IsFiniteSet(clients[c].sent)
         /\ IsFiniteSet(Kept(clients[c])) /\ Cardinality(Kept(clients[c])) \in Nat
         /\ Cardinality(Kept(clients[c])) <= Cardinality(clients[c].sent)
         /\ clients[c].key \in Keys /\ Budget[clients[c].key] \in Nat \ {0}
<1> DEFINE client == clients[c]
<1>1. client \in ClientRecords /\ now \in Nat
  BY DEF NvdTypeOK
<1>2. /\ client.sends \in Seq(Nat) /\ client.sent \subseteq 1..Len(client.sends)
      /\ Len(client.sends) \in Nat /\ client.key \in Keys
  BY <1>1 DEF ClientRecords
<1>3. IsFiniteSet(client.sent)
  <2>1. \A n \in Nat : IsFiniteSet(1..n)
    BY FS_Interval
  <2>2. QED
    BY <1>2, <2>1, FS_Subset
<1>4. Kept(client) \subseteq client.sent
  BY DEF Kept
<1>5. QED
  BY <1>1, <1>2, <1>3, <1>4, FS_Subset, FS_CardinalityType, BudgetAssumption

\* Every send of the window is kept.
LEMMA WindowKept ==
  ASSUME NvdTypeOK, NEW c \in DOMAIN clients, ClientInv(clients[c]),
         NEW i \in DOMAIN clients[c].sends, clients[c].sends[i] > now - Window
  PROVE  i..Len(clients[c].sends) \subseteq Kept(clients[c])
<1> DEFINE client == clients[c]
<1>1. /\ now \in Nat /\ client.sends \in Seq(Nat) /\ DOMAIN client.sends = 1..Len(client.sends)
      /\ Len(client.sends) \in Nat
  BY ClientFacts
<1>2. ASSUME NEW j \in i..Len(client.sends) PROVE j \in Kept(client)
  <2>1. j \in DOMAIN client.sends /\ i <= j
    BY <1>1
  <2>2. client.sends[j] >= client.sends[i] /\ client.sends[j] \in Nat /\ client.sends[i] \in Nat
    BY <1>1, <2>1 DEF ClientInv
  <2>3. client.sends[j] > now - Window
    BY <1>1, <2>2, TimesAssumption
  <2>4. QED
    BY <2>1, <2>3 DEF ClientInv, Kept
<1>3. QED
  BY <1>2

\* A granted send keeps the budget.
LEMMA GrantedBudget ==
  ASSUME NvdTypeOK, NEW c \in DOMAIN clients, ClientInv(clients[c]), Spaced(clients[c]),
         Cardinality(Kept(clients[c])) < Budget[clients[c].key]
  PROVE  ClientInv(Sending(clients[c])) /\ Spaced(Sending(clients[c]))
<1> DEFINE client == clients[c]
           next == Sending(client)
           n == Len(client.sends) + 1
           budget == Budget[client.key]
<1>1. /\ now \in Nat /\ client.sends \in Seq(Nat) /\ DOMAIN client.sends = 1..Len(client.sends)
      /\ Len(client.sends) \in Nat /\ budget \in Nat \ {0}
      /\ IsFiniteSet(Kept(client)) /\ Cardinality(Kept(client)) \in Nat
  BY ClientFacts
<1>2. /\ next.key = client.key /\ DOMAIN next.sends = 1..n /\ n \in Nat
      /\ next.sent = Kept(client) \cup {n}
      /\ next.sends[n] = now
      /\ \A i \in DOMAIN client.sends : next.sends[i] = client.sends[i]
  BY <1>1 DEF Sending
<1>3. /\ \A i, j \in DOMAIN client.sends : i <= j => client.sends[i] <= client.sends[j]
      /\ \A i \in DOMAIN client.sends : client.sends[i] <= now /\ client.sends[i] \in Nat
      /\ \A i \in DOMAIN client.sends :
           i + budget \in DOMAIN client.sends => client.sends[i + budget] >= client.sends[i] + Window
      /\ \A i \in DOMAIN client.sends : client.sends[i] > now - Window => i \in Kept(client)
      /\ Cardinality(Kept(client)) < budget
  <2>1. \A i, j \in DOMAIN client.sends : i <= j => client.sends[i] <= client.sends[j]
    BY DEF ClientInv
  <2>2. \A i \in DOMAIN client.sends : client.sends[i] <= now /\ client.sends[i] \in Nat
    BY <1>1 DEF ClientInv
  <2>3. \A i \in DOMAIN client.sends : client.sends[i] > now - Window => i \in Kept(client)
    BY DEF ClientInv, Kept
  <2>4. QED
    BY <2>1, <2>2, <2>3 DEF Spaced
<1>31. ASSUME NEW i \in DOMAIN client.sends, client.sends[i] > now - Window
       PROVE  i..Len(client.sends) \subseteq Kept(client)
  BY <1>31, WindowKept
<1> HIDE DEF client, next, budget
<1>4. ASSUME NEW i \in DOMAIN next.sends PROVE next.sends[i] <= now
  <2>1. CASE i = n
    BY <1>1, <1>2, <2>1
  <2>2. CASE i # n
    <3>1. i \in DOMAIN client.sends
      BY <1>1, <1>2, <2>2
    <3>2. QED
      BY <1>2, <1>3, <3>1
  <2>3. QED
    BY <2>1, <2>2
<1>5. ASSUME NEW i \in DOMAIN next.sends, NEW j \in DOMAIN next.sends, i <= j
      PROVE  next.sends[i] <= next.sends[j]
  <2>1. CASE j = n
    BY <1>2, <1>4, <2>1
  <2>2. CASE j # n
    <3>1. i \in DOMAIN client.sends /\ j \in DOMAIN client.sends
      BY <1>1, <1>2, <1>5, <2>2, SMTT(30)
    <3>2. QED
      BY <1>2, <1>3, <1>5, <3>1
  <2>3. QED
    BY <2>1, <2>2
<1>6. \A i \in DOMAIN next.sends : next.sends[i] > now - Window => i \in next.sent
  BY <1>1, <1>2, <1>3
<1>7. Cardinality(next.sent) <= budget
  <2>1. Cardinality(Kept(client) \cup {n}) =
          IF n \in Kept(client) THEN Cardinality(Kept(client)) ELSE Cardinality(Kept(client)) + 1
    BY <1>1, FS_AddElement
  <2>2. QED
    BY <1>1, <1>2, <1>3, <2>1
<1>8. ASSUME NEW i \in DOMAIN next.sends, i + budget \in DOMAIN next.sends
      PROVE  next.sends[i + budget] >= next.sends[i] + Window
  <2>1. i \in DOMAIN client.sends /\ next.sends[i] = client.sends[i] /\ client.sends[i] \in Nat
    <3>1. i \in 1..Len(client.sends)
      BY <1>1, <1>2, <1>8
    <3>2. QED
      BY <1>1, <1>2, <1>3, <3>1
  <2>2. CASE i + budget # n
    <3>1. i + budget \in DOMAIN client.sends
      BY <1>1, <1>2, <1>8, <2>2, SMTT(30)
    <3>2. QED
      BY <1>2, <1>3, <2>1, <3>1
  <2>3. CASE i + budget = n /\ client.sends[i] > now - Window
    <3>1. i..Len(client.sends) \subseteq Kept(client)
      BY <1>31, <2>1, <2>3
    <3>2. i \in Nat /\ i <= Len(client.sends) /\ Len(client.sends) - i + 1 = budget
      <4>1. /\ Len(client.sends) \in Nat /\ budget \in Nat /\ i \in 1..Len(client.sends)
            /\ i + budget = Len(client.sends) + 1
        BY <1>1, <2>1, <2>3
      <4> HIDE DEF client, budget
      <4>2. QED
        BY <4>1
    <3>3. Cardinality(Kept(client)) >= Len(client.sends) - i + 1
      BY <1>1, <3>1, <3>2, AtLeastInterval
    <3>4. QED
      BY <1>1, <1>3, <3>2, <3>3
  <2>4. CASE i + budget = n /\ ~(client.sends[i] > now - Window)
    <3>1. next.sends[i + budget] = now
      BY <1>2, <2>4
    <3>2. client.sends[i] + Window <= now
      BY <1>1, <2>1, <2>4, TimesAssumption, SMTT(30)
    <3>3. QED
      BY <2>1, <3>1, <3>2
  <2>5. QED
    BY <2>2, <2>3, <2>4
<1>9. ClientInv(next) /\ Spaced(next)
  BY <1>2, <1>4, <1>5, <1>6, <1>7, <1>8 DEF ClientInv, Spaced, budget
<1>10. QED
  BY <1>9 DEF next, client

\* Forgetting the sends that have left the window loses nothing, and the oldest one kept
\* begins a whole budget of sends.
LEMMA DelayedBudget ==
  ASSUME NvdTypeOK, NEW c \in DOMAIN clients, ClientInv(clients[c]), Spaced(clients[c]),
         NEW oldest \in Kept(clients[c]), \A i \in Kept(clients[c]) : oldest <= i,
         Cardinality(Kept(clients[c])) >= Budget[clients[c].key]
  PROVE  /\ ClientInv([clients[c] EXCEPT !.sent = Kept(clients[c])])
         /\ oldest \in DOMAIN clients[c].sends
         /\ oldest + Budget[clients[c].key] - 1 \in DOMAIN clients[c].sends
<1> DEFINE client == clients[c]
           next == [client EXCEPT !.sent = Kept(client)]
           budget == Budget[client.key]
<1>1. /\ client.sends \in Seq(Nat) /\ DOMAIN client.sends = 1..Len(client.sends)
      /\ Len(client.sends) \in Nat /\ budget \in Nat \ {0}
      /\ Cardinality(Kept(client)) \in Nat /\ Cardinality(client.sent) \in Nat
      /\ Cardinality(Kept(client)) <= Cardinality(client.sent)
      /\ client.sent \subseteq 1..Len(client.sends)
  BY ClientFacts, FS_CardinalityType
<1>2. client \in ClientRecords
  BY DEF NvdTypeOK
<1>3. next.sends = client.sends /\ next.key = client.key /\ next.sent = Kept(client)
  BY <1>2 DEF ClientRecords
<1>4. ClientInv(next)
  <2>1. Cardinality(next.sent) <= Budget[next.key]
    <3>1. Cardinality(client.sent) <= budget
      BY DEF ClientInv
    <3>2. QED
      BY <1>1, <1>3, <3>1
  <2>2. \A i \in DOMAIN client.sends : client.sends[i] > now - Window => i \in Kept(client)
    BY DEF ClientInv, Kept
  <2>3. QED
    BY <1>3, <2>1, <2>2 DEF ClientInv
<1>5. Kept(client) \subseteq oldest..Len(client.sends) /\ oldest \in 1..Len(client.sends)
  BY <1>1 DEF Kept
<1>6. budget <= Len(client.sends) - oldest + 1
  <2> DEFINE kept == Kept(client)
             n == Len(client.sends)
  <2>1. kept \subseteq oldest..n /\ oldest \in Nat /\ n \in Nat /\ oldest <= n
    BY <1>1, <1>5
  <2>2. Cardinality(kept) <= n - oldest + 1
    <3> HIDE DEF kept, n
    <3>1. QED
      BY <2>1, AtMostInterval
  <2>3. budget <= Cardinality(kept)
    OBVIOUS
  <2>4. QED
    <3> HIDE DEF kept, client
    <3>1. Cardinality(kept) \in Nat /\ budget \in Nat
      BY <1>1 DEF kept
    <3>2. QED
      BY <2>1, <2>2, <2>3, <3>1
<1>7. oldest + budget - 1 \in DOMAIN client.sends
  <2> DEFINE n == Len(client.sends)
  <2>1. oldest \in 1..n /\ n \in Nat /\ budget \in Nat \ {0} /\ budget <= n - oldest + 1
    BY <1>1, <1>5, <1>6
  <2>2. oldest + budget - 1 \in 1..n
    <3> HIDE DEF budget, n
    <3>1. QED
      BY <2>1
  <2>3. QED
    BY <1>1, <2>2
<1>8. QED
  BY <1>1, <1>4, <1>5, <1>7

LEMMA InitBudget == NvdInit => BudgetInv
<1> SUFFICES ASSUME NvdInit PROVE BudgetInv
  OBVIOUS
<1>1. DOMAIN clients = {} /\ \A l \in Lookups : lookups[l].pc = "idle"
  BY DEF NvdInit, Unused
<1>2. QED
  BY <1>1, InitType DEF BudgetInv, DelayInv

\* A delayed lookup keeps waiting for the same send, whatever its client sends next.
LEMMA DelayKept ==
  ASSUME BudgetInv, NEW l \in Lookups, lookups'[l].pc = "delayed",
         lookups[l].pc = "delayed", lookups'[l].until = lookups[l].until,
         lookups'[l].client = lookups[l].client,
         LET c == lookups[l].client
         IN /\ clients'[c].key = clients[c].key
            /\ DOMAIN clients[c].sends \subseteq DOMAIN clients'[c].sends
            /\ \A i \in DOMAIN clients[c].sends : clients'[c].sends[i] = clients[c].sends[i]
  PROVE  DelayInv(l)'
<1>1. PICK i \in DOMAIN clients[lookups[l].client].sends :
        /\ lookups[l].until = clients[lookups[l].client].sends[i] + Window
        /\ i + Budget[clients[lookups[l].client].key] - 1 \in DOMAIN clients[lookups[l].client].sends
  BY DEF BudgetInv, DelayInv
<1>2. QED
  BY <1>1 DEF DelayInv

\* A step that changes one client and one lookup.
LEMMA OneClientStep ==
  ASSUME BudgetInv, NvdTypeOK', now' = now, NEW c \in DOMAIN clients, NEW next, clients' = [clients EXCEPT ![c] = next],
         ClientInv(next), Spaced(next), next.key = clients[c].key,
         DOMAIN clients[c].sends \subseteq DOMAIN next.sends,
         \A i \in DOMAIN clients[c].sends : next.sends[i] = clients[c].sends[i],
         NEW l \in Lookups, \A k \in Lookups \ {l} : lookups'[k] = lookups[k], DelayInv(l)'
  PROVE  BudgetInv'
<1>1. clients \in Seq(ClientRecords)
  BY DEF BudgetInv, NvdTypeOK
<1>2. DOMAIN clients' = DOMAIN clients /\ \A d \in DOMAIN clients :
        clients'[d] = IF d = c THEN next ELSE clients[d]
  BY <1>1
<1>3. \A d \in DOMAIN clients' : (ClientInv(clients[d]) /\ Spaced(clients[d]))'
  BY <1>2 DEF BudgetInv, ClientInv, Spaced
<1>4. ASSUME NEW k \in Lookups \ {l} PROVE DelayInv(k)'
  <2>1. CASE lookups[k].pc = "delayed"
    <3>1. lookups[k].client \in DOMAIN clients
      BY <2>1 DEF BudgetInv, NvdTypeOK
    <3>2. QED
      BY <1>2, <1>4, <2>1, <3>1, DelayKept
  <2>2. CASE lookups[k].pc # "delayed"
    BY <1>4, <2>2 DEF DelayInv
  <2>3. QED
    BY <2>1, <2>2
<1>5. QED
  BY <1>3, <1>4 DEF BudgetInv

\* A step of a lookup that leaves the clients alone and does not end in a delay.
LEMMA OneLookupStep ==
  ASSUME BudgetInv, NvdTypeOK', UNCHANGED <<now, clients>>, NEW l \in Lookups,
         \A k \in Lookups \ {l} : lookups'[k] = lookups[k],
         DelayInv(l)'
  PROVE  BudgetInv'
<1>1. ASSUME NEW k \in Lookups \ {l} PROVE DelayInv(k)'
  BY <1>1 DEF BudgetInv, DelayInv
<1>2. QED
  BY <1>1 DEF BudgetInv, ClientInv, Spaced

LEMMA LookupStepBudget ==
  ASSUME BudgetInv, NvdTypeOK', NEW l \in Lookups, LookupStep(l)
  PROVE  BudgetInv'
<1>0. NvdTypeOK /\ lookups \in [Lookups -> LookupRecords]
  BY DEF BudgetInv, NvdTypeOK
<1>1. ASSUME Begin(l) \/ Wake(l) \/ (\E n \in PageSizes(l) : Page(l, n)) \/ Throttled(l) \/ Rejected(l)
      PROVE  BudgetInv'
  <2>1. UNCHANGED <<now, clients>> /\ \A k \in Lookups \ {l} : lookups'[k] = lookups[k]
    BY <1>0, <1>1 DEF Begin, Wake, Page, Throttled, Rejected
  <2>2. lookups'[l].pc # "delayed"
    <3>1. CASE Begin(l)
      BY <1>0, <3>1 DEF Begin, Unused
    <3>2. CASE Wake(l)
      BY <1>0, <3>2 DEF Wake, LookupRecords
    <3>3. ASSUME NEW n \in PageSizes(l), Page(l, n) PROVE lookups'[l].pc # "delayed"
      <4>1. lookups'[l].pc \in {"done", "waiting"}
        BY <1>0, <3>3 DEF Page, LookupRecords
      <4>2. QED
        BY <4>1
    <3>4. CASE Throttled(l)
      <4>1. lookups'[l].pc \in {"failed", "retrying"}
        BY <1>0, <3>4 DEF Throttled, LookupRecords
      <4>2. QED
        BY <4>1
    <3>5. CASE Rejected(l)
      BY <1>0, <3>5 DEF Rejected, LookupRecords
    <3>6. QED
      BY <1>1, <3>1, <3>2, <3>3, <3>4, <3>5
  <2>3. DelayInv(l)'
    BY <2>2 DEF DelayInv
  <2>4. QED
    BY <2>1, <2>3, OneLookupStep
<1>2. ASSUME NEW c \in DOMAIN clients, Granted(l, c, clients[c]) PROVE BudgetInv'
  <2> DEFINE next == Sending(clients[c])
  <2>1. /\ now' = now /\ clients' = [clients EXCEPT ![c] = next]
        /\ \A k \in Lookups \ {l} : lookups'[k] = lookups[k]
        /\ lookups'[l].pc = "sending"
    BY <1>0, <1>2 DEF Granted, LookupRecords
  <2>2. ClientInv(next) /\ Spaced(next)
    BY <1>0, <1>2, GrantedBudget DEF BudgetInv, Granted
  <2>3. /\ next.key = clients[c].key /\ DOMAIN clients[c].sends \subseteq DOMAIN next.sends
        /\ \A i \in DOMAIN clients[c].sends : next.sends[i] = clients[c].sends[i]
    BY <1>0, ClientFacts, SMTT(30) DEF Sending
  <2>4. DelayInv(l)'
    BY <2>1 DEF DelayInv
  <2>5. QED
    <3> HIDE DEF next
    <3>1. QED
      BY <2>1, <2>2, <2>3, <2>4, OneClientStep
<1>3. ASSUME NEW c \in DOMAIN clients, c = lookups[l].client, Delayed(l, c, clients[c]) PROVE BudgetInv'
  <2> DEFINE client == clients[c]
             next == [client EXCEPT !.sent = Kept(client)]
  <2>1. PICK oldest \in Kept(client) :
          /\ \A i \in Kept(client) : oldest <= i
          /\ lookups' = [lookups EXCEPT ![l].pc = "delayed",
                                        ![l].until = client.sends[oldest] + Window]
    BY <1>3 DEF Delayed
  <2>2. /\ now' = now /\ clients' = [clients EXCEPT ![c] = next]
        /\ \A k \in Lookups \ {l} : lookups'[k] = lookups[k]
    BY <1>0, <1>3, <2>1 DEF Delayed
  <2>3. lookups'[l].until = client.sends[oldest] + Window /\ lookups'[l].client = c
    BY <1>0, <1>3, <2>1 DEF LookupRecords
  <2>4. /\ ClientInv(next) /\ oldest \in DOMAIN client.sends
        /\ oldest + Budget[client.key] - 1 \in DOMAIN client.sends
    BY <1>0, <1>3, <2>1, DelayedBudget DEF BudgetInv, Delayed
  <2>5. next.sends = client.sends /\ next.key = client.key
    <3>1. client \in ClientRecords
      BY <1>0 DEF NvdTypeOK
    <3>2. QED
      BY <3>1 DEF ClientRecords
  <2>6. Spaced(next)
    BY <2>5 DEF BudgetInv, Spaced
  <2>7. DelayInv(l)'
    <3>1. clients'[c] = next
      BY <1>0, <2>2 DEF NvdTypeOK
    <3>2. QED
      BY <2>3, <2>4, <2>5, <3>1 DEF DelayInv
  <2>8. QED
    <3>1. \A i \in DOMAIN client.sends : next.sends[i] = client.sends[i]
      BY <2>5
    <3>2. DOMAIN client.sends \subseteq DOMAIN next.sends
      BY <2>5
    <3> HIDE DEF next
    <3>3. QED
      BY <2>2, <2>4, <2>5, <2>6, <2>7, <3>1, <3>2, OneClientStep
<1>4. QED
  BY <1>1, <1>2, <1>3 DEF LookupStep

LEMMA NextBudget == BudgetInv /\ [NvdNext]_nvdVars => BudgetInv'
<1> SUFFICES ASSUME BudgetInv, [NvdNext]_nvdVars PROVE BudgetInv'
  OBVIOUS
<1>0. NvdTypeOK /\ NvdTypeOK'
  BY NextType DEF BudgetInv
<1>1. ASSUME NEW key \in Keys, NewClient(key) PROVE BudgetInv'
  <2> DEFINE next == [key |-> key, sends |-> <<>>, sent |-> {}]
  <2>1. clients \in Seq(ClientRecords) /\ clients' = Append(clients, next) /\ UNCHANGED <<now, lookups>>
    BY <1>0, <1>1 DEF NewClient, NvdTypeOK
  <2>2. /\ DOMAIN clients' = 1..(Len(clients) + 1) /\ DOMAIN clients = 1..Len(clients)
        /\ Len(clients) \in Nat /\ clients'[Len(clients) + 1] = next
        /\ \A c \in DOMAIN clients : clients'[c] = clients[c]
    BY <2>1
  <2>3. (ClientInv(next) /\ Spaced(next))'
    <3>1. Cardinality({}) = 0 /\ Budget[key] \in Nat
      BY FS_EmptySet, BudgetAssumption
    <3>2. QED
      BY <3>1 DEF ClientInv, Spaced
  <2>4. ASSUME NEW c \in DOMAIN clients' PROVE (ClientInv(clients[c]) /\ Spaced(clients[c]))'
    <3>1. CASE c = Len(clients) + 1
      BY <2>2, <2>3, <3>1
    <3>2. CASE c # Len(clients) + 1
      <4>1. c \in DOMAIN clients
        BY <2>2, <3>2
      <4>2. QED
        BY <2>1, <2>2, <4>1 DEF BudgetInv, ClientInv, Spaced
    <3>3. QED
      BY <3>1, <3>2
  <2>5. ASSUME NEW l \in Lookups, lookups[l].pc = "delayed" PROVE DelayInv(l)'
    <3>1. lookups[l].client \in DOMAIN clients
      BY <1>0, <2>5 DEF NvdTypeOK
    <3>2. QED
      BY <2>1, <2>2, <2>5, <3>1, DelayKept
  <2>6. QED
    BY <1>0, <2>1, <2>4, <2>5 DEF BudgetInv, DelayInv
<1>2. ASSUME NEW l \in Lookups, LookupStep(l) PROVE BudgetInv'
  BY <1>0, <1>2, LookupStepBudget
<1>3. ASSUME NEW l \in Lookups, NEW total \in 0..MaxRecords, RecordsChange(l, total) PROVE BudgetInv'
  <2>1. UNCHANGED <<now, clients>> /\ \A k \in Lookups \ {l} : lookups'[k] = lookups[k]
    BY <1>0, <1>3 DEF RecordsChange, NvdTypeOK
  <2>2. lookups[l] \in LookupRecords /\ lookups' = [lookups EXCEPT ![l].changed = TRUE]
    BY <1>0, <1>3 DEF RecordsChange, NvdTypeOK
  <2>3. /\ lookups'[l].pc = lookups[l].pc /\ lookups'[l].until = lookups[l].until
        /\ lookups'[l].client = lookups[l].client
    BY <1>0, <2>2 DEF LookupRecords, NvdTypeOK
  <2>4. DelayInv(l)'
    BY <2>1, <2>3 DEF BudgetInv, DelayInv
  <2>5. QED
    BY <1>0, <2>1, <2>4, OneLookupStep
<1>4. CASE Tick
  <2>1. now \in Nat /\ now' = now + 1 /\ UNCHANGED <<clients, lookups>>
    BY <1>0, <1>4 DEF Tick, NvdTypeOK
  <2>2. ASSUME NEW c \in DOMAIN clients PROVE (ClientInv(clients[c]) /\ Spaced(clients[c]))'
    <3>1. \A i \in DOMAIN clients[c].sends : clients[c].sends[i] \in Nat
      BY <1>0, <2>2, ClientFacts
    <3>2. QED
      BY <2>1, <2>2, <3>1, TimesAssumption DEF BudgetInv, ClientInv, Spaced
  <2>3. QED
    BY <1>0, <2>1, <2>2 DEF BudgetInv, DelayInv
<1>5. CASE UNCHANGED nvdVars
  BY <1>0, <1>5 DEF nvdVars, BudgetInv, ClientInv, Spaced, DelayInv
<1>6. QED
  BY <1>1, <1>2, <1>3, <1>4, <1>5 DEF NvdNext

LEMMA BudgetSafe == BudgetInv => WithinBudget /\ DelayedOnlyByBudget
<1> SUFFICES ASSUME BudgetInv PROVE WithinBudget /\ DelayedOnlyByBudget
  OBVIOUS
<1>1. NvdTypeOK /\ WithinBudget
  BY DEF BudgetInv, WithinBudget, Spaced
<1>2. ASSUME NEW l \in Lookups, lookups[l].pc = "delayed", now < lookups[l].until
      PROVE  LET client == clients[lookups[l].client]
                 last == Len(client.sends) - Budget[client.key] + 1
             IN last \in DOMAIN client.sends /\ client.sends[last] > now - Window
  <2> DEFINE c == lookups[l].client
             sends == clients[c].sends
             budget == Budget[clients[c].key]
             last == Len(sends) - budget + 1
  <2>1. c \in DOMAIN clients
    BY <1>1, <1>2 DEF NvdTypeOK
  <2>2. PICK i \in DOMAIN sends : lookups[l].until = sends[i] + Window /\ i + budget - 1 \in DOMAIN sends
    BY <1>2 DEF BudgetInv, DelayInv
  <2>3. /\ now \in Nat /\ sends \in Seq(Nat) /\ DOMAIN sends = 1..Len(sends) /\ Len(sends) \in Nat
        /\ budget \in Nat \ {0}
    BY <1>1, <2>1, ClientFacts
  <2>4. \A j, k \in DOMAIN sends : j <= k => sends[j] <= sends[k]
    BY <2>1 DEF BudgetInv, ClientInv
  <2> HIDE DEF c, sends, budget
  <2>5. last \in DOMAIN sends /\ i <= last
    BY <2>2, <2>3
  <2>6. sends[i] \in Nat /\ sends[last] \in Nat /\ sends[i] <= sends[last]
    BY <2>2, <2>3, <2>4, <2>5
  <2>7. sends[last] > now - Window
    <3> HIDE DEF last
    <3>1. now < sends[i] + Window /\ now \in Nat /\ Window \in Nat
      BY <1>2, <2>2, <2>3, TimesAssumption
    <3>2. QED
      BY <2>6, <3>1
  <2>8. QED
    BY <2>5, <2>7 DEF c, sends, budget
<1>3. QED
  BY <1>1, <1>2 DEF DelayedOnlyByBudget

\* For any budgets, window and number of lookups, however these interleave: no client
\* sends more than its budget in a window, and no lookup is held back while its client
\* could send (Limiter.reserve and wait).
THEOREM BudgetCorrect == NvdSpec => [](WithinBudget /\ DelayedOnlyByBudget)
<1>1. NvdSpec => []BudgetInv
  BY InitBudget, NextBudget, PTL DEF NvdSpec
<1>2. QED
  BY <1>1, BudgetSafe, PTL

\* No lookup sleeps for the limiter while its client could send, whatever the others do and
\* however late timers fire (Limiter.reserve).
THEOREM DelayCorrect == NvdSpec => []DelayedOnlyByBudget
BY BudgetCorrect, PTL

--------------------------------------------------------------------------------
(* The pages *)

\* While NVD's records stay as they are, the records given so far are those before `start`,
\* and none is missing at the end.
ReadInv(l) ==
  ~lookups[l].changed =>
    /\ lookups[l].start <= records[l]
    /\ lookups[l].given = 1..lookups[l].start
    /\ lookups[l].pc = "done" => lookups[l].start = records[l]

PagesInv == \A l \in Lookups : ReadInv(l)

\* Adjacent intervals join.
LEMMA JoinIntervals ==
  ASSUME NEW i \in Nat, NEW n \in Nat
  PROVE  (1..i) \cup (i + 1 .. i + n) = 1..(i + n)
OBVIOUS

\* A page goes on where the last one ended, and the last page ends at the last record.
LEMMA PageReads ==
  ASSUME NvdTypeOK, NEW l \in Lookups, ReadInv(l), NEW n \in PageSizes(l), Page(l, n)
  PROVE  ReadInv(l)'
<1>1. /\ lookups[l] \in LookupRecords /\ records[l] \in Nat /\ lookups[l].start \in Nat
      /\ lookups \in [Lookups -> LookupRecords]
  BY DEF NvdTypeOK, LookupRecords
<1>2. n \in Nat
  BY <1>1 DEF PageSizes
<1> DEFINE reached == lookups[l].start + n
<1>3. /\ lookups'[l].start = reached /\ lookups'[l].changed = lookups[l].changed
      /\ lookups'[l].given = lookups[l].given \cup (lookups[l].start + 1 .. reached)
      /\ lookups'[l].pc = IF n = 0 \/ reached >= records[l] THEN "done" ELSE "waiting"
      /\ records' = records
  BY <1>1 DEF Page, LookupRecords
<1> SUFFICES ASSUME ~lookups[l].changed
             PROVE  ReadInv(l)'
  BY <1>3 DEF ReadInv
<1>4. lookups[l].start <= records[l] /\ lookups[l].given = 1..lookups[l].start
  BY DEF ReadInv
<1>5. reached <= records[l] /\ (n = 0 => reached = records[l])
  BY <1>1, <1>2, <1>4 DEF PageSizes
<1>6. lookups'[l].given = 1..reached
  BY <1>1, <1>2, <1>3, <1>4, JoinIntervals
<1>7. lookups'[l].pc = "done" => reached = records[l]
  BY <1>1, <1>2, <1>3, <1>5
<1>8. QED
  BY <1>3, <1>5, <1>6, <1>7 DEF ReadInv

\* Between the pages a lookup waits, is delayed or repeats a page: what it was given stays,
\* and it does not end.
LEMMA BetweenPages ==
  ASSUME NvdTypeOK, NEW l \in Lookups, ReadInv(l), records' = records,
         lookups'[l].start = lookups[l].start, lookups'[l].given = lookups[l].given,
         lookups'[l].changed = lookups[l].changed, lookups'[l].pc = "done" => lookups[l].pc = "done"
  PROVE  ReadInv(l)'
BY DEF ReadInv

LEMMA StepReads ==
  ASSUME NvdTypeOK, NEW l \in Lookups, ReadInv(l), LookupStep(l)
  PROVE  ReadInv(l)' /\ records' = records /\ \A k \in Lookups \ {l} : lookups'[k] = lookups[k]
<1>0. /\ lookups \in [Lookups -> LookupRecords] /\ lookups[l] \in LookupRecords /\ records[l] \in Nat
  BY DEF NvdTypeOK
<1>1. records' = records /\ \A k \in Lookups \ {l} : lookups'[k] = lookups[k]
  BY <1>0 DEF LookupStep, Begin, Granted, Delayed, Wake, Page, Throttled, Rejected
<1>2. CASE Begin(l)
  <2>1. /\ lookups'[l].start = 0 /\ lookups'[l].given = {} /\ lookups'[l].pc = "waiting"
    BY <1>0, <1>2 DEF Begin, Unused
  <2>2. QED
    BY <1>0, <1>1, <2>1 DEF ReadInv
<1>3. CASE \E n \in PageSizes(l) : Page(l, n)
  BY <1>1, <1>3, PageReads
<1>4. ASSUME NEW c \in DOMAIN clients, Granted(l, c, clients[c]) PROVE ReadInv(l)'
  BY <1>0, <1>1, <1>4, BetweenPages DEF Granted, LookupRecords
<1>5. ASSUME NEW c \in DOMAIN clients, Delayed(l, c, clients[c]) PROVE ReadInv(l)'
  <2>1. PICK until : lookups' = [lookups EXCEPT ![l].pc = "delayed", ![l].until = until]
    BY <1>5 DEF Delayed
  <2>2. QED
    BY <1>0, <1>1, <2>1, BetweenPages DEF LookupRecords
<1>6. CASE Wake(l)
  BY <1>0, <1>1, <1>6, BetweenPages DEF Wake, LookupRecords
<1>7. CASE Rejected(l)
  BY <1>0, <1>1, <1>7, BetweenPages DEF Rejected, LookupRecords
<1>8. CASE Throttled(l)
  BY <1>0, <1>1, <1>8, BetweenPages DEF Throttled, LookupRecords
<1>9. QED
  BY <1>1, <1>2, <1>3, <1>4, <1>5, <1>6, <1>7, <1>8 DEF LookupStep

LEMMA NextReads == NvdTypeOK /\ PagesInv /\ [NvdNext]_nvdVars => PagesInv'
<1> SUFFICES ASSUME NvdTypeOK, PagesInv, [NvdNext]_nvdVars PROVE PagesInv'
  OBVIOUS
<1>1. ASSUME NEW key \in Keys, NewClient(key) PROVE PagesInv'
  BY <1>1 DEF NewClient, PagesInv, ReadInv
<1>2. ASSUME NEW l \in Lookups, LookupStep(l) PROVE PagesInv'
  <2>1. ReadInv(l)' /\ records' = records /\ \A k \in Lookups \ {l} : lookups'[k] = lookups[k]
    BY <1>2, StepReads DEF PagesInv
  <2>2. QED
    BY <2>1 DEF PagesInv, ReadInv
<1>3. ASSUME NEW l \in Lookups, NEW total \in 0..MaxRecords, RecordsChange(l, total) PROVE PagesInv'
  <2>0. lookups \in [Lookups -> LookupRecords] /\ records \in [Lookups -> 0..MaxRecords]
    BY DEF NvdTypeOK
  <2>1. lookups'[l].changed
    BY <1>3, <2>0 DEF RecordsChange, LookupRecords
  <2>2. ASSUME NEW k \in Lookups \ {l} PROVE lookups'[k] = lookups[k] /\ records'[k] = records[k]
    BY <1>3, <2>0 DEF RecordsChange
  <2>3. QED
    BY <2>1, <2>2 DEF PagesInv, ReadInv
<1>4. CASE Tick \/ UNCHANGED nvdVars
  BY <1>4 DEF Tick, nvdVars, PagesInv, ReadInv
<1>5. QED
  BY <1>1, <1>2, <1>3, <1>4 DEF NvdNext

\* Whatever the size of each page, however often one is asked for again and whatever other
\* lookups do, a lookup that succeeds was given every record, unless NVD's records changed
\* while it ran (vulnerabilitiesFor).
THEOREM ReadsCorrect == NvdSpec => []EveryRecordIsRead
<1>1. NvdInit => NvdTypeOK /\ PagesInv
  <2>1. ASSUME NvdInit, NEW l \in Lookups PROVE ReadInv(l)
    <3>1. /\ lookups[l].start = 0 /\ lookups[l].given = {} /\ lookups[l].pc = "idle"
      BY <2>1 DEF NvdInit, Unused
    <3>2. records[l] \in 0..MaxRecords
      BY <2>1 DEF NvdInit
    <3>3. QED
      BY <3>1, <3>2 DEF ReadInv
  <2>2. QED
    BY <2>1, InitType DEF PagesInv
<1>2. NvdTypeOK /\ PagesInv /\ [NvdNext]_nvdVars => NvdTypeOK' /\ PagesInv'
  BY NextType, NextReads
<1>3. PagesInv => EveryRecordIsRead
  BY DEF PagesInv, ReadInv, EveryRecordIsRead
<1>4. QED
  BY <1>1, <1>2, <1>3, PTL DEF NvdSpec

--------------------------------------------------------------------------------
(* Matching *)

(***************************************************************************)
(* The stored path is the live one, for all records, however often a feed is *)
(* read again.  StoredPathIsLivePath is not inductive: it says nothing until *)
(* the record has been ingested, and a second reading begins with a database *)
(* that is full.  StoredInv says what the database holds in between: the     *)
(* matches of the statements up to the highest that any reading has reached, *)
(* in the order in which they first occur.                                   *)
(***************************************************************************)

Says(i, p, match) == Names(record[i], p) /\ record[i].match = match

\* The first `high` statements: what they say of p is stored, nothing else is, and of two
\* stored matches the first one occurs before any statement says the second.
FromStatements(high, p) == \A k \in DOMAIN stored[p] : \E i \in 1..high : Says(i, p, stored[p][k])
AllStored(high, p) == \A i \in 1..high : Names(record[i], p) => Contains(stored[p], record[i].match)
InOrder(high, p) ==
  \A k, l \in DOMAIN stored[p] : k < l =>
    \E i \in 1..high : /\ Says(i, p, stored[p][k])
                      /\ \A j \in 1..high : Says(j, p, stored[p][l]) => i < j
Reached(high, p) == FromStatements(high, p) /\ AllStored(high, p) /\ InOrder(high, p)

StoredInv == \E high \in at..Len(record) : \A p \in Products : Reached(high, p)

LEMMA TypeInit == Init => TypeOK
<1> SUFFICES ASSUME Init PROVE TypeOK
  OBVIOUS
<1>1. record \in Seq(Statements)
  BY RecordsAssumption, EmptySeq DEF Init
<1>2. detected \in Versions
  BY DistinctAssumption DEF Init, AnyVersion
<1>3. text \in Texts
  BY RecordsAssumption DEF Init
<1>4. stored \in [Products -> Seq(Matches)]
  BY EmptySeq DEF Init
<1> QED BY <1>1, <1>2, <1>3, <1>4, LenProperties DEF Init, TypeOK

\* Every record is one that Init chose, and what is stored are matches of its statements.
THEOREM TypeCorrect == Spec => []TypeOK
<1>1. Init => TypeOK
  BY TypeInit
<1>2. TypeOK /\ [Next]_vars => TypeOK'
  <2> SUFFICES ASSUME TypeOK, [Next]_vars PROVE TypeOK'
    OBVIOUS
  <2> USE DEF TypeOK
  <2>1. CASE IngestStatement
    <3>1. at + 1 \in 1..Len(record)
      BY <2>1, LenProperties DEF IngestStatement
    <3>2. record[at + 1].match \in Matches
      <4>1. record[at + 1] \in Statements
        BY <3>1, ElementOfSeq
      <4> QED BY <4>1 DEF Statements
    <3>3. \A p \in Products : Added(stored[p], record[at + 1], p) \in Seq(Matches)
      BY <3>2, AppendProperties DEF Added
    <3> QED BY <2>1, <3>1, <3>3 DEF IngestStatement
  <2>2. CASE ReadAgain
    BY <2>2, LenProperties DEF ReadAgain
  <2>3. CASE UNCHANGED vars
    BY <2>3 DEF vars
  <2> QED BY <2>1, <2>2, <2>3 DEF Next
<1> QED BY <1>1, <1>2, PTL DEF Spec

\* One more reading of a statement that an earlier reading reached changes nothing.
LEMMA IngestAgain ==
  ASSUME TypeOK, IngestStatement, NEW high \in (at + 1)..Len(record),
         NEW p \in Products, Reached(high, p)
  PROVE  stored'[p] = stored[p]
<1>1. at + 1 \in 1..high
  BY LenProperties DEF TypeOK
<1>2. stored'[p] = Added(stored[p], record[at + 1], p)
  BY DEF IngestStatement
<1>3. Names(record[at + 1], p) => Contains(stored[p], record[at + 1].match)
  BY <1>1 DEF Reached, AllStored
<1> QED BY <1>2, <1>3 DEF Added

\* A statement that is read for the first time adds its match at the end, unless an earlier
\* one has said the same.
LEMMA IngestFirst ==
  ASSUME TypeOK, IngestStatement, NEW p \in Products, NEW n, n = at + 1, Reached(at, p)
  PROVE  Reached(n, p)'
<1> DEFINE s == stored[p]
           new == record[n].match
<1>1. /\ at \in Nat /\ n \in Nat /\ n \in 1..Len(record)
      /\ n \in 1..n /\ \A i \in 1..n : i \in 1..at \/ i = n
  BY LenProperties DEF TypeOK, IngestStatement
<1>2. s \in Seq(Matches) /\ Len(s) \in Nat /\ DOMAIN s = 1..Len(s)
  BY LenProperties DEF TypeOK
<1>3. record' = record /\ at' = n /\ stored'[p] = Added(s, record[n], p)
  BY DEF IngestStatement
<1>4. \A k \in DOMAIN s : \E i \in 1..at : Says(i, p, s[k])
  BY DEF Reached, FromStatements
<1>5. \A i \in 1..at : Names(record[i], p) => Contains(s, record[i].match)
  BY DEF Reached, AllStored
<1>6. \A k, l \in DOMAIN s : k < l =>
        \E i \in 1..at : Says(i, p, s[k]) /\ \A j \in 1..at : Says(j, p, s[l]) => i < j
  BY DEF Reached, InOrder
<1>7. CASE ~Names(record[n], p) \/ Contains(s, new)
  <2>1. stored'[p] = s
    BY <1>3, <1>7 DEF Added
  <2>2. FromStatements(n, p)'
    BY <1>1, <1>3, <1>4, <2>1 DEF FromStatements, Says
  <2>3. AllStored(n, p)'
    <3>1. \A i \in 1..n : Names(record[i], p) => Contains(s, record[i].match)
      BY <1>1, <1>5, <1>7
    <3> QED BY <1>3, <2>1, <3>1 DEF AllStored
  <2>4. InOrder(n, p)'
    <3> SUFFICES ASSUME NEW k \in DOMAIN s, NEW l \in DOMAIN s, k < l
                 PROVE  \E i \in 1..n : Says(i, p, s[k]) /\ \A j \in 1..n : Says(j, p, s[l]) => i < j
      BY <1>3, <2>1 DEF InOrder, Says
    <3>1. PICK i \in 1..at : Says(i, p, s[k]) /\ \A j \in 1..at : Says(j, p, s[l]) => i < j
      BY <1>6
    <3>2. i \in 1..n /\ i < n
      BY <1>1
    <3> QED BY <1>1, <3>1, <3>2
  <2> QED BY <1>3, <2>2, <2>3, <2>4 DEF Reached
<1>8. CASE Names(record[n], p) /\ ~Contains(s, new)
  <2>1. new \in Matches
    <3>1. record[n] \in Statements
      BY <1>1, ElementOfSeq DEF TypeOK
    <3> QED BY <3>1 DEF Statements
  <2>2. stored'[p] = Append(s, new)
    BY <1>3, <1>8 DEF Added
  <2>3. /\ Append(s, new) \in Seq(Matches)
        /\ Len(Append(s, new)) = Len(s) + 1
        /\ \A i \in 1..Len(s) : Append(s, new)[i] = s[i]
        /\ Append(s, new)[Len(s) + 1] = new
    BY <1>2, <2>1, AppendProperties
  <2> DEFINE t == stored'[p]
  <2>4. /\ DOMAIN t = 1..(Len(s) + 1) /\ Len(t) = Len(s) + 1
        /\ \A k \in DOMAIN t : (k \in DOMAIN s /\ t[k] = s[k]) \/ (k = Len(s) + 1 /\ t[k] = new)
    <3>1. DOMAIN t = 1..(Len(s) + 1) /\ Len(t) = Len(s) + 1
      BY <2>2, <2>3, LenProperties
    <3>2. \A k \in 1..(Len(s) + 1) : k \in 1..Len(s) \/ k = Len(s) + 1
      BY <1>2
    <3>3. \A k \in 1..Len(s) : k \in DOMAIN s /\ t[k] = s[k]
      BY <1>2, <2>2, <2>3
    <3>4. t[Len(s) + 1] = new
      BY <2>2, <2>3
    <3> HIDE DEF s, t, new
    <3> QED BY <3>1, <3>2, <3>3, <3>4
  <2>5. Says(n, p, new)
    BY <1>8 DEF Says
  <2>6. \A i \in 1..at : ~Says(i, p, new)
    BY <1>5, <1>8 DEF Says
  <2>7. FromStatements(n, p)'
    <3> SUFFICES ASSUME NEW k \in DOMAIN t PROVE \E i \in 1..n : Says(i, p, t[k])
      BY <1>3 DEF FromStatements, Says
    <3>1. CASE k \in DOMAIN s /\ t[k] = s[k]
      BY <1>1, <1>4, <3>1 DEF FromStatements
    <3>2. CASE t[k] = new
      BY <1>1, <2>5, <3>2
    <3>3. QED
      BY <2>4, <3>1, <3>2
  <2>8. AllStored(n, p)'
    <3> SUFFICES ASSUME NEW i \in 1..n, Names(record[i], p)
                 PROVE  Contains(stored'[p], record[i].match)
      BY <1>3 DEF AllStored
    <3>1. CASE i = n
      BY <1>2, <2>3, <2>2, <2>4, <3>1 DEF Contains
    <3>2. CASE i \in 1..at
      BY <1>2, <1>5, <2>2, <2>3, <2>4, <3>2 DEF Contains
    <3> QED BY <1>1, <3>1, <3>2
  <2>9. InOrder(n, p)'
    <3> SUFFICES ASSUME NEW k \in DOMAIN t, NEW l \in DOMAIN t, k < l
                 PROVE  \E i \in 1..n : Says(i, p, t[k]) /\ \A j \in 1..n : Says(j, p, t[l]) => i < j
      BY <1>3 DEF InOrder, Says
    <3>1. k \in DOMAIN s /\ t[k] = s[k]
      BY <1>2, <2>4
    <3>2. CASE l \in DOMAIN s /\ t[l] = s[l]
      <4>1. PICK i \in 1..at : Says(i, p, s[k]) /\ \A j \in 1..at : Says(j, p, s[l]) => i < j
        BY <1>6, <3>1, <3>2
      <4>2. i \in 1..n /\ i < n
        BY <1>1
      <4> QED BY <1>1, <3>1, <3>2, <4>1, <4>2
    <3>3. CASE t[l] = new
      <4>1. PICK i \in 1..at : Says(i, p, s[k])
        BY <1>4, <3>1
      <4>2. i \in 1..n /\ i < n
        BY <1>1
      <4> QED BY <1>1, <2>6, <3>1, <3>3, <4>1, <4>2
    <3> QED BY <2>4, <3>2, <3>3
  <2> QED BY <1>3, <2>7, <2>8, <2>9 DEF Reached
<1> QED BY <1>7, <1>8

\* When the record has been ingested, the first stored match that covers a version is the
\* match of the first statement that does.
LEMMA FirstMatches ==
  ASSUME TypeOK, NEW p \in Products, Reached(Len(record), p), NEW v
  PROVE  StoredRange(stored[p], v) = LiveRange(record, p, v)
<1> DEFINE applying == {i \in DOMAIN record : Names(record[i], p) /\ MatchApplies(record[i].match, v)}
           kept == {k \in DOMAIN stored[p] : MatchApplies(stored[p][k], v)}
<1>1. /\ DOMAIN record = 1..Len(record) /\ Len(record) \in Nat
      /\ DOMAIN stored[p] = 1..Len(stored[p]) /\ Len(stored[p]) \in Nat
  BY LenProperties DEF TypeOK
<1>2. applying \in SUBSET Nat /\ kept \in SUBSET Nat
  BY <1>1
<1>3. \A k \in kept : \E i \in applying : Says(i, p, stored[p][k])
  BY <1>1 DEF Reached, FromStatements, Says
<1>4. \A i \in applying : \E k \in kept : stored[p][k] = record[i].match
  BY <1>1 DEF Reached, AllStored, Contains
<1>5. CASE applying = {}
  <2>1. kept = {}
    BY <1>3, <1>5
  <2> QED BY <1>5, <2>1 DEF StoredRange, LiveRange
<1>6. CASE applying # {}
  <2>1. kept # {}
    BY <1>4, <1>6
  <2>2. Min(applying) \in applying /\ \A i \in applying : Min(applying) <= i
    BY <1>2, <1>6, MinOf
  <2>3. Min(kept) \in kept /\ \A k \in kept : Min(kept) <= k
    BY <1>2, <2>1, MinOf
  <2>4. PICK k \in kept : stored[p][k] = record[Min(applying)].match
    BY <1>4, <2>2
  <2>5. ASSUME Min(kept) < k PROVE FALSE
    <3>1. PICK i \in 1..Len(record) :
            /\ Says(i, p, stored[p][Min(kept)])
            /\ \A j \in 1..Len(record) : Says(j, p, stored[p][k]) => i < j
      BY <2>3, <2>4, <2>5 DEF Reached, InOrder
    <3>2. Says(Min(applying), p, stored[p][k])
      BY <2>2, <2>4 DEF Says
    <3>3. i < Min(applying)
      <4>1. Min(applying) \in 1..Len(record)
        BY <1>1, <2>2
      <4> QED BY <3>1, <3>2, <4>1
    <3>4. i \in applying
      BY <1>1, <2>3, <3>1 DEF Says
    <3>5. i \in Nat /\ Min(applying) \in Nat /\ Min(applying) <= i
      BY <1>2, <2>2, <3>4
    <3> HIDE DEF applying
    <3> QED BY <3>3, <3>5
  <2>6. Min(kept) = k
    <3>1. Min(kept) <= k /\ Min(kept) \in Nat /\ k \in Nat
      BY <1>2, <2>3, <2>4
    <3> QED BY <2>5, <3>1
  <2> QED BY <1>6, <2>1, <2>4, <2>6 DEF StoredRange, LiveRange
<1> QED BY <1>5, <1>6

\* What the database answers for an ingested record is what NVD's answer gives, for all
\* records, versions and interrupted readings: lookup.go and db.ts agree with applies.go and
\* nvd.ts.
THEOREM StoredIsLive == Spec => []StoredPathIsLivePath
<1>1. Init => StoredInv
  <2> SUFFICES ASSUME Init, TypeOK PROVE StoredInv
    BY TypeInit
  <2>1. 0 \in at..Len(record)
    BY LenProperties DEF Init, TypeOK
  <2>2. \A p \in Products : DOMAIN stored[p] = {}
    BY DEF Init
  <2>3. \A p \in Products : Reached(0, p)
    BY <2>2 DEF Reached, FromStatements, AllStored, InOrder
  <2> QED BY <2>1, <2>3 DEF StoredInv
<1>2. TypeOK /\ StoredInv /\ [Next]_vars => StoredInv'
  <2> SUFFICES ASSUME TypeOK, StoredInv, [Next]_vars PROVE StoredInv'
    OBVIOUS
  <2>1. PICK high \in at..Len(record) : \A p \in Products : Reached(high, p)
    BY DEF StoredInv
  <2>2. high \in Nat /\ at \in Nat /\ Len(record) \in Nat
    BY LenProperties DEF TypeOK
  <2>3. CASE IngestStatement
    <3>1. CASE high = at
      <4>1. PICK n : n = at + 1
        OBVIOUS
      <4>2. \A p \in Products : Reached(n, p)'
        BY <2>1, <2>3, <3>1, <4>1, IngestFirst
      <4>3. n \in at'..Len(record')
        BY <2>2, <2>3, <4>1 DEF IngestStatement
      <4> QED BY <4>2, <4>3 DEF StoredInv
    <3>2. CASE high # at
      <4>1. high \in (at + 1)..Len(record)
        BY <2>1, <2>2, <3>2
      <4>2. \A p \in Products : Reached(high, p)'
        <5> SUFFICES ASSUME NEW p \in Products PROVE Reached(high, p)'
          OBVIOUS
        <5>1. stored'[p] = stored[p] /\ record' = record
          BY <2>1, <2>3, <4>1, IngestAgain DEF IngestStatement
        <5> QED BY <2>1, <5>1 DEF Reached, FromStatements, AllStored, InOrder, Says
      <4>3. high \in at'..Len(record')
        BY <2>3, <4>1 DEF IngestStatement
      <4> QED BY <4>2, <4>3 DEF StoredInv
    <3> QED BY <3>1, <3>2
  <2>4. CASE ReadAgain \/ UNCHANGED vars
    <3>1. record' = record /\ stored' = stored /\ high \in at'..Len(record')
      BY <2>1, <2>2, <2>4 DEF ReadAgain, vars
    <3>2. \A p \in Products : Reached(high, p)'
      BY <2>1, <3>1 DEF Reached, FromStatements, AllStored, InOrder, Says
    <3> QED BY <3>1, <3>2 DEF StoredInv
  <2> QED BY <2>3, <2>4 DEF Next
<1>3. TypeOK /\ StoredInv => StoredPathIsLivePath
  <2> SUFFICES ASSUME TypeOK, StoredInv, at = Len(record), NEW p \in Products
               PROVE  StoredRange(stored[p], detected) = LiveRange(record, p, detected)
    BY DEF StoredPathIsLivePath
  <2>1. Reached(Len(record), p)
    BY LenProperties DEF StoredInv, TypeOK
  <2> QED BY <2>1, FirstMatches
<1> QED BY <1>1, <1>2, <1>3, TypeCorrect, PTL DEF Spec

--------------------------------------------------------------------------------
(* The order of versions *)

(***************************************************************************)
(* Segments of versions and texts of pre-releases are both compared by the   *)
(* first position where they differ, with a number for a position that is    *)
(* missing.                                                                 *)
(***************************************************************************)
Places == Nat \ {0}
LexBefore(f, g) == \E i \in Places : f[i] < g[i] /\ \A j \in 1..(i - 1) : f[j] = g[j]

LEMMA LexOrder ==
  ASSUME NEW f \in [Places -> Nat], NEW g \in [Places -> Nat]
  PROVE  /\ ~(LexBefore(f, g) /\ LexBefore(g, f))
         /\ ~LexBefore(f, f)
         /\ LexBefore(f, g) \/ LexBefore(g, f) \/ f = g
<1>1. ASSUME LexBefore(f, g), LexBefore(g, f) PROVE FALSE
  <2>1. PICK i \in Places : f[i] < g[i] /\ \A j \in 1..(i - 1) : f[j] = g[j]
    BY <1>1 DEF LexBefore
  <2>2. PICK k \in Places : g[k] < f[k] /\ \A j \in 1..(k - 1) : g[j] = f[j]
    BY <1>1 DEF LexBefore
  <2>3. i \in Nat /\ k \in Nat /\ i > 0 /\ k > 0 /\ f[i] \in Nat /\ g[i] \in Nat /\ f[k] \in Nat /\ g[k] \in Nat
    BY DEF Places
  <2>4. i < k => i \in 1..(k - 1)
    BY <2>3
  <2>5. k < i => k \in 1..(i - 1)
    BY <2>3
  <2>6. QED
    BY <2>1, <2>2, <2>3, <2>4, <2>5
<1>2. ~LexBefore(f, f)
  BY DEF LexBefore
<1>3. ASSUME f # g PROVE LexBefore(f, g) \/ LexBefore(g, f)
  <2> DEFINE S == {i \in Places : f[i] # g[i]}
  <2>1. S # {}
    BY <1>3
  <2>2. S \in SUBSET Nat
    BY DEF Places
  <2>3. PICK m \in S : \A k \in S : m <= k
    BY <2>1, <2>2, LeastNatural
  <2>4. \A j \in 1..(m - 1) : f[j] = g[j]
    <3> SUFFICES ASSUME NEW j \in 1..(m - 1) PROVE f[j] = g[j]
      OBVIOUS
    <3>1. j \in Places /\ m \in Nat /\ j < m /\ j \in Nat
      BY <2>2 DEF Places
    <3>2. j \notin S
      BY <2>3, <3>1
    <3>3. QED
      BY <3>1, <3>2
  <2>5. m \in Places /\ (f[m] < g[m] \/ g[m] < f[m])
    <3>1. m \in Places /\ f[m] \in Nat /\ g[m] \in Nat /\ f[m] # g[m]
      OBVIOUS
    <3>2. QED
      BY <3>1
  <2>6. QED
    BY <2>4, <2>5 DEF LexBefore
<1>4. QED
  BY <1>1, <1>2, <1>3

LEMMA LexTransitive ==
  ASSUME NEW f \in [Places -> Nat], NEW g \in [Places -> Nat], NEW h \in [Places -> Nat],
         LexBefore(f, g), LexBefore(g, h)
  PROVE  LexBefore(f, h)
<1>1. PICK i \in Places : f[i] < g[i] /\ \A j \in 1..(i - 1) : f[j] = g[j]
  BY DEF LexBefore
<1>2. PICK k \in Places : g[k] < h[k] /\ \A j \in 1..(k - 1) : g[j] = h[j]
  BY DEF LexBefore
<1>3. PICK m \in Places : m = IF i < k THEN i ELSE k
  OBVIOUS
<1>4. i \in Nat /\ k \in Nat /\ i > 0 /\ k > 0 /\ m \in Nat /\ m <= i /\ m <= k
  BY <1>3 DEF Places
<1>5. \A j \in 1..(m - 1) : j \in 1..(i - 1) /\ j \in 1..(k - 1)
  BY <1>4
<1>6. \A j \in 1..(m - 1) : f[j] = h[j]
  BY <1>1, <1>2, <1>5
<1>7. f[m] \in Nat /\ g[m] \in Nat /\ h[m] \in Nat
  OBVIOUS
<1>8. f[m] <= g[m]
  <2>1. m = i \/ m \in 1..(i - 1)
    BY <1>3, <1>4
  <2>2. QED
    BY <1>1, <1>7, <2>1
<1>9. g[m] <= h[m]
  <2>1. m = k \/ m \in 1..(k - 1)
    BY <1>3, <1>4
  <2>2. QED
    BY <1>2, <1>7, <2>1
<1>10. f[m] < g[m] \/ g[m] < h[m]
  BY <1>1, <1>2, <1>3
<1>11. f[m] < h[m]
  BY <1>7, <1>8, <1>9, <1>10
<1>12. QED
  BY <1>6, <1>11 DEF LexBefore

\* A version's segments, with zeros after them.
SegmentsOf(v) == [i \in Places |-> Segment(v, i)]
\* A text's characters, those that are missing before all others.
TextOf(p) == [i \in Places |-> IF i \in DOMAIN p THEN p[i] + 1 ELSE 0]

LEMMA SegmentsOrder ==
  ASSUME NEW v \in Versions, NEW w \in Versions
  PROVE  /\ SegmentsOf(v) \in [Places -> Nat] /\ SegmentsOf(w) \in [Places -> Nat]
         /\ SegmentsBefore(v, w) <=> LexBefore(SegmentsOf(v), SegmentsOf(w))
<1>1. /\ v.segments \in Seq(Nat) /\ w.segments \in Seq(Nat)
      /\ Len(v.segments) \in Nat /\ DOMAIN v.segments = 1..Len(v.segments)
      /\ Len(w.segments) \in Nat /\ DOMAIN w.segments = 1..Len(w.segments)
  BY VersionsAssumption, LenProperties
<1>2. \A i \in Places : Segment(v, i) \in Nat /\ Segment(w, i) \in Nat
  BY <1>1, ElementOfSeq DEF Segment
<1>3. \A i \in Places : \A j \in 1..(i - 1) : j \in Places
  BY DEF Places
<1>4. DOMAIN v.segments \cup DOMAIN w.segments \subseteq Places
  BY <1>1 DEF Places
<1>5. \A i \in Places : Segment(v, i) < Segment(w, i) => i \in DOMAIN w.segments
  BY <1>2 DEF Segment
<1>6. SegmentsBefore(v, w) => LexBefore(SegmentsOf(v), SegmentsOf(w))
  BY <1>3, <1>4 DEF SegmentsBefore, LexBefore, SegmentsOf
<1>7. LexBefore(SegmentsOf(v), SegmentsOf(w)) => SegmentsBefore(v, w)
  BY <1>3, <1>5 DEF SegmentsBefore, LexBefore, SegmentsOf
<1>8. QED
  BY <1>2, <1>6, <1>7 DEF SegmentsOf

LEMMA TextOrder ==
  ASSUME NEW p \in Seq(Nat), NEW q \in Seq(Nat)
  PROVE  /\ TextOf(p) \in [Places -> Nat] /\ TextOf(q) \in [Places -> Nat]
         /\ TextBefore(p, q) <=> LexBefore(TextOf(p), TextOf(q))
         /\ TextOf(p) = TextOf(q) => p = q
<1> DEFINE f == TextOf(p)
           g == TextOf(q)
<1>1. /\ Len(p) \in Nat /\ DOMAIN p = 1..Len(p) /\ Len(q) \in Nat /\ DOMAIN q = 1..Len(q)
      /\ \A i \in 1..Len(p) : p[i] \in Nat
      /\ \A i \in 1..Len(q) : q[i] \in Nat
  BY LenProperties, ElementOfSeq
<1>2. /\ \A i \in 1..Len(p) : i \in Places /\ f[i] = p[i] + 1 /\ f[i] > 0
      /\ \A i \in 1..Len(q) : i \in Places /\ g[i] = q[i] + 1 /\ g[i] > 0
      /\ \A i \in Places : i \notin 1..Len(p) => f[i] = 0
      /\ \A i \in Places : i \notin 1..Len(q) => g[i] = 0
  BY <1>1 DEF Places, TextOf
<1>3. f \in [Places -> Nat] /\ g \in [Places -> Nat]
  BY <1>1 DEF TextOf
<1> HIDE DEF f, g
<1>4. ASSUME TextBefore(p, q) PROVE LexBefore(f, g)
  <2>1. CASE Len(p) < Len(q) /\ p = SubSeq(q, 1, Len(p))
    <3>1. PICK i \in Places : i = Len(p) + 1
      BY <1>1 DEF Places
    <3>2. i \in 1..Len(q) /\ i \notin 1..Len(p)
      BY <1>1, <2>1, <3>1
    <3>3. f[i] < g[i]
      BY <1>2, <3>2
    <3>4. \A j \in 1..Len(p) : p[j] = q[j]
      <4>1. \A j \in 1..Len(p) : SubSeq(q, 1, Len(p))[j] = q[1 + j - 1]
        BY <1>1, <2>1, SubSeqProperties
      <4>2. \A j \in 1..Len(p) : 1 + j - 1 = j
        BY <1>1
      <4>3. QED
        BY <2>1, <4>1, <4>2
    <3>5. \A j \in 1..(i - 1) : f[j] = g[j]
      <4>1. \A j \in 1..(i - 1) : j \in 1..Len(p) /\ j \in 1..Len(q)
        BY <1>1, <2>1, <3>1
      <4>2. QED
        BY <1>2, <3>4, <4>1
    <3>6. QED
      BY <3>3, <3>5 DEF LexBefore
  <2>2. CASE \E i \in DOMAIN p \cap DOMAIN q : p[i] < q[i] /\ \A j \in 1..(i - 1) : p[j] = q[j]
    <3>1. PICK i \in DOMAIN p \cap DOMAIN q : p[i] < q[i] /\ \A j \in 1..(i - 1) : p[j] = q[j]
      BY <2>2
    <3>2. \A j \in 1..(i - 1) : j \in 1..Len(p) /\ j \in 1..Len(q)
      BY <1>1
    <3>3. \A j \in 1..(i - 1) : f[j] = g[j]
      BY <1>2, <3>1, <3>2
    <3>4. i \in Places /\ f[i] < g[i]
      BY <1>1, <1>2, <3>1
    <3>5. QED
      BY <3>3, <3>4 DEF LexBefore
  <2>3. QED
    BY <1>4, <2>1, <2>2 DEF TextBefore
<1>5. ASSUME LexBefore(f, g) PROVE TextBefore(p, q)
  <2>1. PICK i \in Places : f[i] < g[i] /\ \A j \in 1..(i - 1) : f[j] = g[j]
    BY <1>5 DEF LexBefore
  <2>2. i \in Nat /\ i > 0 /\ f[i] \in Nat /\ g[i] \in Nat
    BY <1>3 DEF Places
  <2>3. i \in 1..Len(q)
    BY <1>2, <2>1, <2>2
  <2>4. \A j \in 1..(i - 1) : j \in 1..Len(q) /\ j \in Places
    BY <1>1, <1>2, <2>2, <2>3
  <2>5. \A j \in 1..(i - 1) : j \in 1..Len(p)
    <3> SUFFICES ASSUME NEW j \in 1..(i - 1), j \notin 1..Len(p) PROVE FALSE
      OBVIOUS
    <3>1. f[j] = 0 /\ g[j] > 0
      BY <1>2, <2>4
    <3>2. QED
      BY <2>1, <3>1
  <2>6. \A j \in 1..(i - 1) : p[j] = q[j]
    <3> SUFFICES ASSUME NEW j \in 1..(i - 1) PROVE p[j] = q[j]
      OBVIOUS
    <3>1. f[j] = p[j] + 1 /\ g[j] = q[j] + 1 /\ p[j] \in Nat /\ q[j] \in Nat
      BY <1>1, <1>2, <2>4, <2>5
    <3>2. QED
      BY <2>1, <3>1
  <2>7. CASE i \in 1..Len(p)
    <3>1. p[i] < q[i]
      <4>1. f[i] = p[i] + 1 /\ g[i] = q[i] + 1 /\ p[i] \in Nat /\ q[i] \in Nat
        BY <1>1, <1>2, <2>3, <2>7
      <4>2. QED
        BY <2>1, <4>1
    <3>2. QED
      BY <1>1, <2>3, <2>6, <2>7, <3>1 DEF TextBefore
  <2>8. CASE i \notin 1..Len(p)
    <3>1. i = Len(p) + 1
      <4>1. i > Len(p)
        BY <1>1, <2>2, <2>8
      <4>2. i - 1 > 0 => i - 1 \in 1..Len(p)
        BY <2>2, <2>5
      <4>3. i - 1 <= Len(p)
        BY <1>1, <2>2, <4>2
      <4>4. QED
        BY <1>1, <2>2, <4>1, <4>3
    <3>2. Len(p) < Len(q) /\ 1..(i - 1) = 1..Len(p)
      BY <1>1, <2>3, <3>1
    <3>3. p = SubSeq(q, 1, Len(p))
      <4>1. SubSeq(q, 1, Len(p)) = [j \in 1..Len(p) |-> q[1 + j - 1]]
        <5>1. Len(p) - 1 + 1 = Len(p)
          BY <1>1
        <5>2. QED
          BY <1>1, <3>2, <5>1
      <4>2. \A j \in 1..Len(p) : p[j] = q[1 + j - 1]
        <5>1. \A j \in 1..Len(p) : 1 + j - 1 = j
          BY <1>1
        <5>2. QED
          BY <2>6, <3>2, <5>1
      <4>3. p = [j \in 1..Len(p) |-> p[j]]
        BY <1>1
      <4>4. QED
        BY <4>1, <4>2, <4>3
    <3>4. QED
      BY <3>2, <3>3 DEF TextBefore
  <2>9. QED
    BY <2>7, <2>8
<1>6. ASSUME f = g PROVE p = q
  <2>1. \A i \in 1..Len(p) : i \in 1..Len(q)
    <3> SUFFICES ASSUME NEW i \in 1..Len(p), i \notin 1..Len(q) PROVE FALSE
      OBVIOUS
    <3>1. f[i] > 0 /\ g[i] = 0
      BY <1>2
    <3>2. QED
      BY <1>6, <3>1
  <2>2. \A i \in 1..Len(q) : i \in 1..Len(p)
    <3> SUFFICES ASSUME NEW i \in 1..Len(q), i \notin 1..Len(p) PROVE FALSE
      OBVIOUS
    <3>1. g[i] > 0 /\ f[i] = 0
      BY <1>2
    <3>2. QED
      BY <1>6, <3>1
  <2>3. Len(p) = Len(q)
    <3>1. ASSUME Len(p) > Len(q) PROVE FALSE
      <4>1. Len(p) \in 1..Len(p) /\ Len(p) \notin 1..Len(q)
        BY <1>1, <3>1
      <4>2. QED
        BY <2>1, <4>1
    <3>2. ASSUME Len(q) > Len(p) PROVE FALSE
      <4>1. Len(q) \in 1..Len(q) /\ Len(q) \notin 1..Len(p)
        BY <1>1, <3>2
      <4>2. QED
        BY <2>2, <4>1
    <3>3. Len(p) \in Nat /\ Len(q) \in Nat /\ ~(Len(p) > Len(q)) /\ ~(Len(q) > Len(p))
      BY <1>1, <3>1, <3>2
    <3>4. QED
      BY <3>3
  <2>4. \A i \in 1..Len(p) : p[i] = q[i]
    <3> SUFFICES ASSUME NEW i \in 1..Len(p) PROVE p[i] = q[i]
      OBVIOUS
    <3>1. f[i] = p[i] + 1 /\ g[i] = q[i] + 1 /\ p[i] \in Nat /\ q[i] \in Nat
      BY <1>1, <1>2, <2>1
    <3>2. QED
      BY <1>6, <3>1
  <2>5. QED
    BY <2>3, <2>4, SeqEqual
<1>7. QED
  BY <1>3, <1>4, <1>5, <1>6 DEF f, g

\* Pre-releases are in an order of which the release is the last.
LEMMA PrereleaseOrder ==
  ASSUME NEW p \in Seq(Nat), NEW q \in Seq(Nat)
  PROVE  /\ ~PrereleaseBefore(p, p)
         /\ ~(PrereleaseBefore(p, q) /\ PrereleaseBefore(q, p))
         /\ PrereleaseBefore(p, q) \/ PrereleaseBefore(q, p) \/ p = q
<1>1. /\ TextBefore(p, q) <=> LexBefore(TextOf(p), TextOf(q))
      /\ TextBefore(q, p) <=> LexBefore(TextOf(q), TextOf(p))
      /\ TextBefore(p, p) <=> LexBefore(TextOf(p), TextOf(p))
      /\ TextOf(p) \in [Places -> Nat] /\ TextOf(q) \in [Places -> Nat]
      /\ TextOf(p) = TextOf(q) => p = q
  BY TextOrder
<1>2. /\ ~(TextBefore(p, q) /\ TextBefore(q, p)) /\ ~TextBefore(p, p)
      /\ TextBefore(p, q) \/ TextBefore(q, p) \/ p = q
  BY <1>1, LexOrder
<1>3. QED
  BY <1>2 DEF PrereleaseBefore

LEMMA PrereleaseTransitive ==
  ASSUME NEW p \in Seq(Nat), NEW q \in Seq(Nat), NEW r \in Seq(Nat),
         PrereleaseBefore(p, q), PrereleaseBefore(q, r)
  PROVE  PrereleaseBefore(p, r)
<1>1. /\ TextBefore(p, q) <=> LexBefore(TextOf(p), TextOf(q))
      /\ TextBefore(q, r) <=> LexBefore(TextOf(q), TextOf(r))
      /\ TextBefore(p, r) <=> LexBefore(TextOf(p), TextOf(r))
      /\ TextOf(p) \in [Places -> Nat] /\ TextOf(q) \in [Places -> Nat] /\ TextOf(r) \in [Places -> Nat]
  BY TextOrder
<1>2. TextBefore(p, q) /\ TextBefore(q, r) => TextBefore(p, r)
  BY <1>1, LexTransitive
<1>3. QED
  BY <1>2 DEF PrereleaseBefore

\* Of two versions exactly one is earlier, or they are the same.
LEMMA VersionOrder ==
  ASSUME NEW v \in Versions, NEW w \in Versions
  PROVE  /\ Before(v, w) \/ Same(v, w) \/ Before(w, v)
         /\ ~(Before(v, w) /\ Before(w, v))
         /\ ~(Same(v, w) /\ (Before(v, w) \/ Before(w, v)))
<1>1. v.prerelease \in Seq(Nat) /\ w.prerelease \in Seq(Nat)
  BY VersionsAssumption
<1>2. ~(SegmentsBefore(v, w) /\ SegmentsBefore(w, v))
  BY SegmentsOrder, LexOrder
<1>3. /\ ~PrereleaseBefore(v.prerelease, v.prerelease)
      /\ ~(PrereleaseBefore(v.prerelease, w.prerelease) /\ PrereleaseBefore(w.prerelease, v.prerelease))
      /\ PrereleaseBefore(v.prerelease, w.prerelease) \/ PrereleaseBefore(w.prerelease, v.prerelease)
         \/ v.prerelease = w.prerelease
  BY <1>1, PrereleaseOrder
<1>4. QED
  BY <1>2, <1>3 DEF Before, Same

\* What is before a later version, or the same as it, is before all that come after it.
LEMMA VersionTransitive ==
  ASSUME NEW u \in Versions, NEW v \in Versions, NEW w \in Versions, Before(v, w)
  PROVE  Before(u, v) \/ Same(u, v) => Before(u, w)
<1> DEFINE a == SegmentsOf(u)
           b == SegmentsOf(v)
           c == SegmentsOf(w)
<1>1. /\ a \in [Places -> Nat] /\ b \in [Places -> Nat] /\ c \in [Places -> Nat]
      /\ SegmentsBefore(u, v) <=> LexBefore(a, b)
      /\ SegmentsBefore(v, u) <=> LexBefore(b, a)
      /\ SegmentsBefore(v, w) <=> LexBefore(b, c)
      /\ SegmentsBefore(w, v) <=> LexBefore(c, b)
      /\ SegmentsBefore(u, w) <=> LexBefore(a, c)
      /\ SegmentsBefore(w, u) <=> LexBefore(c, a)
  BY SegmentsOrder
<1>2. u.prerelease \in Seq(Nat) /\ v.prerelease \in Seq(Nat) /\ w.prerelease \in Seq(Nat)
  BY VersionsAssumption
<1>3. PrereleaseBefore(u.prerelease, v.prerelease) /\ PrereleaseBefore(v.prerelease, w.prerelease)
        => PrereleaseBefore(u.prerelease, w.prerelease)
  BY <1>2, PrereleaseTransitive
<1> HIDE DEF a, b, c
<1>4. LexBefore(a, b) /\ LexBefore(b, c) => LexBefore(a, c)
  BY <1>1, LexTransitive
<1>5. ~LexBefore(a, b) /\ ~LexBefore(b, a) => a = b
  BY <1>1, LexOrder
<1>6. ~LexBefore(b, c) /\ ~LexBefore(c, b) => b = c
  BY <1>1, LexOrder
<1>7. /\ ~LexBefore(a, a) /\ ~LexBefore(c, c)
      /\ ~(LexBefore(a, b) /\ LexBefore(b, a)) /\ ~(LexBefore(b, c) /\ LexBefore(c, b))
      /\ ~(LexBefore(a, c) /\ LexBefore(c, a))
  BY <1>1, LexOrder
<1>8. ~LexBefore(b, a) /\ ~LexBefore(c, b) => LexBefore(a, c) \/ (a = b /\ b = c)
  BY <1>4, <1>5, <1>6
<1>9. SUFFICES ASSUME Before(u, v) \/ Same(u, v) PROVE Before(u, w)
  OBVIOUS
<1>10. ~LexBefore(b, a) /\ ~LexBefore(c, b)
  BY <1>1, <1>7, <1>9 DEF Before, Same
<1>11. CASE LexBefore(a, c)
  BY <1>1, <1>11 DEF Before
<1>12. CASE a = b /\ b = c
  <2>1. ~SegmentsBefore(u, v) /\ ~SegmentsBefore(v, w) /\ ~SegmentsBefore(w, u)
    BY <1>1, <1>7, <1>12
  <2>2. PrereleaseBefore(v.prerelease, w.prerelease)
    BY <2>1 DEF Before
  <2>3. PrereleaseBefore(u.prerelease, v.prerelease) \/ u.prerelease = v.prerelease
    BY <1>9, <2>1 DEF Before, Same
  <2>4. PrereleaseBefore(u.prerelease, w.prerelease)
    BY <1>3, <2>2, <2>3
  <2>5. QED
    BY <2>1, <2>4 DEF Before
<1>13. QED
  BY <1>8, <1>10, <1>11, <1>12

LEMMA ExactlyOne ==
  ASSUME NEW t \in [1..3 -> BOOLEAN], t[1] \/ t[2] \/ t[3],
         ~(t[1] /\ t[2]), ~(t[1] /\ t[3]), ~(t[2] /\ t[3])
  PROVE  Cardinality({i \in 1..3 : t[i]}) = 1
<1>1. PICK k \in 1..3 : t[k]
  OBVIOUS
<1>2. \A i \in 1..3 : i = 1 \/ i = 2 \/ i = 3
  OBVIOUS
<1>3. \A i \in 1..3 : t[i] <=> i = k
  BY <1>1, <1>2
<1>4. {i \in 1..3 : t[i]} = {k}
  BY <1>3
<1>5. QED
  BY <1>4, FS_Singleton

\* The order of versions is total, for all versions, however many segments they have: of two
\* that a record mentions exactly one is earlier or they are the same, and the detected version
\* stands before all that come after what it is before, or the same as (version.ts, and the
\* comparisons of applies.go).
THEOREM OrderCorrect == Spec => []OrderIsTotal
<1>1. TypeOK => OrderIsTotal
  <2> SUFFICES ASSUME TypeOK, NEW v \in Mentioned \cap Versions, NEW w \in Mentioned \cap Versions
               PROVE  /\ Cardinality({i \in 1..3 : <<Before(v, w), Same(v, w), Before(w, v)>>[i]}) = 1
                      /\ Before(detected, v) /\ Before(v, w) => Before(detected, w)
                      /\ Same(detected, v) /\ Before(v, w) => Before(detected, w)
    BY DEF OrderIsTotal
  <2>1. detected \in Versions
    BY DEF TypeOK
  <2>2. Before(v, w) => (Before(detected, v) \/ Same(detected, v) => Before(detected, w))
    BY <2>1, VersionTransitive
  <2> DEFINE t == <<Before(v, w), Same(v, w), Before(w, v)>>
  <2>3. Before(v, w) \in BOOLEAN /\ Same(v, w) \in BOOLEAN /\ Before(w, v) \in BOOLEAN
    BY DEF Before, Same
  <2>4. t \in [1..3 -> BOOLEAN]
    BY <2>3
  <2>5. t[1] = Before(v, w) /\ t[2] = Same(v, w) /\ t[3] = Before(w, v)
    OBVIOUS
  <2>6. /\ Before(v, w) \/ Same(v, w) \/ Before(w, v)
        /\ ~(Before(v, w) /\ Before(w, v))
        /\ ~(Same(v, w) /\ (Before(v, w) \/ Before(w, v)))
    BY VersionOrder
  <2> HIDE DEF t
  <2>7. Cardinality({i \in 1..3 : t[i]}) = 1
    BY <2>4, <2>5, <2>6, ExactlyOne
  <2>8. QED
    BY <2>2, <2>7 DEF t
<1>2. QED
  BY <1>1, TypeCorrect, PTL

--------------------------------------------------------------------------------
(* Names *)

Reading(C) == [text : Seq(C), quoted : BOOLEAN]
Splitting(C) == [fields : Seq(Seq(C)), field : Seq(C), quoted : BOOLEAN]
Begun == [text |-> <<>>, quoted |-> FALSE]
Unsplit == [fields |-> <<>>, field |-> <<>>, quoted |-> FALSE]

\* What Read and SplitCPE have computed of the first k characters.
IsReading(r, s) == r[0] = Begun /\ \A k \in 1..Len(s) : r[k] = Unquote(r[k - 1], s[k])
IsSplitting(r, s) == r[0] = Unsplit /\ \A k \in 1..Len(s) : r[k] = SplitAt(r[k - 1], s[k])

LEMMA ReadRuns ==
  ASSUME NEW C, NEW s \in Seq(C)
  PROVE  \E r \in [0..Len(s) -> Reading(C)] : IsReading(r, s) /\ r[Len(s)] = Read(s)
<1> DEFINE n == Len(s)
           S == Reading(C)
           base == Begun
           g == [x \in S \X (1..n) |-> Unquote(x[1], s[x[2]])]
           Iter(f) == f = [u \in SUBSET DOMAIN s |->
                             IF u = {} THEN base ELSE Unquote(f[u \ {Max(u)}], s[Max(u)])]
<1>1. n \in Nat /\ DOMAIN s = 1..n /\ \A k \in 1..n : s[k] \in C
  BY LenProperties, ElementOfSeq
<1>2. \A m \in S, k \in 1..n : Unquote(m, s[k]) \in S
  <2> SUFFICES ASSUME NEW m \in S, NEW k \in 1..n PROVE Unquote(m, s[k]) \in S
    OBVIOUS
  <2>1. Append(m.text, s[k]) \in Seq(C)
    BY <1>1, AppendProperties DEF Reading
  <2>2. QED
    BY <2>1 DEF Unquote, Reading
<1>3. base \in S
  BY EmptySeq DEF Reading, Begun
<1>4. g \in [S \X (1..n) -> S] /\ \A m \in S, k \in 1..n : g[<<m, k>>] = Unquote(m, s[k])
  BY <1>2
<1> HIDE DEF g, S, base
<1>5. PICK f \in [SUBSET (1..n) -> S] : IsTable(f, n, base, g)
  BY <1>1, <1>3, <1>4, TableExists
<1>6. \A u \in SUBSET (1..n) : f[u] = IF u = {} THEN base ELSE Unquote(f[u \ {Max(u)}], s[Max(u)])
  <2> SUFFICES ASSUME NEW u \in SUBSET (1..n), u # {} PROVE f[u] = Unquote(f[u \ {Max(u)}], s[Max(u)])
    BY <1>5 DEF IsTable
  <2>1. Max(u) \in 1..n /\ f[u \ {Max(u)}] \in S
    BY <1>1, MaxOf
  <2>2. QED
    BY <1>4, <1>5, <2>1 DEF IsTable
<1>7. Iter(f)
  BY <1>1, <1>6
<1> DEFINE F == CHOOSE x : Iter(x)
<1>8. Iter(F)
  BY <1>7, Zenon
<1>9. Read(s) = F[DOMAIN s]
  BY DEF Read, FoldLeft, MapThenFoldSet, base, Begun
<1> HIDE DEF F
<1>10. \A u \in SUBSET (1..n) : F[u] = IF u = {} THEN base ELSE Unquote(F[u \ {Max(u)}], s[Max(u)])
  BY <1>1, <1>8
<1>11. Follows(F, n, S, base, g)
  <2> SUFFICES ASSUME NEW u \in SUBSET (1..n), u # {}, F[u \ {Max(u)}] \in S
               PROVE  F[u] = g[<<F[u \ {Max(u)}], Max(u)>>]
    BY <1>10 DEF Follows
  <2>1. Max(u) \in 1..n
    BY <1>1, MaxOf
  <2>2. QED
    BY <1>4, <1>10, <2>1
<1>12. PICK h \in [0..n -> S] : h[n] = F[1..n] /\ IsRecursion(h, n, base, g)
  BY <1>1, <1>3, <1>4, <1>11, FoldRuns
<1>13. IsReading(h, s)
  <2>0. 0 \in 0..n
    BY <1>1
  <2>1. h[0] = base
    BY <1>12, <2>0 DEF IsRecursion
  <2>2. ASSUME NEW k \in 1..n PROVE h[k] = Unquote(h[k - 1], s[k])
    <3>1. k \in 0..n /\ k - 1 \in 0..n /\ k # 0
      BY <1>1
    <3>2. h[k - 1] \in S
      BY <3>1
    <3>3. QED
      BY <1>4, <1>12, <3>1, <3>2 DEF IsRecursion
  <2>3. QED
    BY <2>1, <2>2 DEF IsReading, base
<1>14. QED
  BY <1>1, <1>9, <1>12, <1>13 DEF S

LEMMA SplitRuns ==
  ASSUME NEW C, NEW s \in Seq(C)
  PROVE  \E r \in [0..Len(s) -> Splitting(C)] :
           IsSplitting(r, s) /\ SplitCPE(s) = Append(r[Len(s)].fields, r[Len(s)].field)
<1> DEFINE n == Len(s)
           S == Splitting(C)
           base == Unsplit
           g == [x \in S \X (1..n) |-> SplitAt(x[1], s[x[2]])]
           Iter(f) == f = [u \in SUBSET DOMAIN s |->
                             IF u = {} THEN base ELSE SplitAt(f[u \ {Max(u)}], s[Max(u)])]
<1>1. n \in Nat /\ DOMAIN s = 1..n /\ \A k \in 1..n : s[k] \in C
  BY LenProperties, ElementOfSeq
<1>2. \A m \in S, k \in 1..n : SplitAt(m, s[k]) \in S
  <2> SUFFICES ASSUME NEW m \in S, NEW k \in 1..n PROVE SplitAt(m, s[k]) \in S
    OBVIOUS
  <2>1. Append(m.field, s[k]) \in Seq(C) /\ Append(m.fields, m.field) \in Seq(Seq(C)) /\ <<>> \in Seq(C)
    BY <1>1, AppendProperties, EmptySeq DEF Splitting
  <2>2. QED
    BY <2>1 DEF SplitAt, Splitting
<1>3. base \in S
  BY EmptySeq DEF Splitting, Unsplit
<1>4. g \in [S \X (1..n) -> S] /\ \A m \in S, k \in 1..n : g[<<m, k>>] = SplitAt(m, s[k])
  BY <1>2
<1> HIDE DEF g, S, base
<1>5. PICK f \in [SUBSET (1..n) -> S] : IsTable(f, n, base, g)
  BY <1>1, <1>3, <1>4, TableExists
<1>6. \A u \in SUBSET (1..n) : f[u] = IF u = {} THEN base ELSE SplitAt(f[u \ {Max(u)}], s[Max(u)])
  <2> SUFFICES ASSUME NEW u \in SUBSET (1..n), u # {} PROVE f[u] = SplitAt(f[u \ {Max(u)}], s[Max(u)])
    BY <1>5 DEF IsTable
  <2>1. Max(u) \in 1..n /\ f[u \ {Max(u)}] \in S
    BY <1>1, MaxOf
  <2>2. QED
    BY <1>4, <1>5, <2>1 DEF IsTable
<1>7. Iter(f)
  BY <1>1, <1>6
<1> DEFINE F == CHOOSE x : Iter(x)
<1>8. Iter(F)
  BY <1>7, Zenon
<1>9. SplitCPE(s) = Append(F[DOMAIN s].fields, F[DOMAIN s].field)
  BY DEF SplitCPE, FoldLeft, MapThenFoldSet, base, Unsplit
<1> HIDE DEF F
<1>10. \A u \in SUBSET (1..n) : F[u] = IF u = {} THEN base ELSE SplitAt(F[u \ {Max(u)}], s[Max(u)])
  BY <1>1, <1>8
<1>11. Follows(F, n, S, base, g)
  <2> SUFFICES ASSUME NEW u \in SUBSET (1..n), u # {}, F[u \ {Max(u)}] \in S
               PROVE  F[u] = g[<<F[u \ {Max(u)}], Max(u)>>]
    BY <1>10 DEF Follows
  <2>1. Max(u) \in 1..n
    BY <1>1, MaxOf
  <2>2. QED
    BY <1>4, <1>10, <2>1
<1>12. PICK h \in [0..n -> S] : h[n] = F[1..n] /\ IsRecursion(h, n, base, g)
  BY <1>1, <1>3, <1>4, <1>11, FoldRuns
<1>13. IsSplitting(h, s)
  <2>0. 0 \in 0..n
    BY <1>1
  <2>1. h[0] = base
    BY <1>12, <2>0 DEF IsRecursion
  <2>2. ASSUME NEW k \in 1..n PROVE h[k] = SplitAt(h[k - 1], s[k])
    <3>1. k \in 0..n /\ k - 1 \in 0..n /\ k # 0
      BY <1>1
    <3>2. h[k - 1] \in S
      BY <3>1
    <3>3. QED
      BY <1>4, <1>12, <3>1, <3>2 DEF IsRecursion
  <2>3. QED
    BY <2>1, <2>2 DEF IsSplitting, base
<1>14. QED
  BY <1>1, <1>9, <1>12, <1>13 DEF S

\* Of a field: every colon is quoted, and the end is not.
IsQuoting(q, f) ==
  /\ q[0] = FALSE /\ q[Len(f)] = FALSE
  /\ \A j \in 1..Len(f) : q[j] = (f[j] = Backslash /\ ~q[j - 1]) /\ (f[j] = Colon => q[j - 1])
Clean(f) == \E q \in [0..Len(f) -> BOOLEAN] : IsQuoting(q, f)

LEMMA UnquoteFacts ==
  ASSUME NEW t, NEW char
  PROVE  /\ Unquote([text |-> t, quoted |-> FALSE], Backslash) = [text |-> t, quoted |-> TRUE]
         /\ Unquote([text |-> t, quoted |-> TRUE], char) = [text |-> Append(t, char), quoted |-> FALSE]
         /\ char # Backslash =>
              Unquote([text |-> t, quoted |-> FALSE], char) = [text |-> Append(t, char), quoted |-> FALSE]
BY DEF Unquote

LEMMA UnquoteQuoted ==
  ASSUME NEW C, NEW m \in Reading(C), NEW char
  PROVE  Unquote(m, char).quoted = (char = Backslash /\ ~m.quoted)
<1>1. m.quoted \in BOOLEAN /\ m = [text |-> m.text, quoted |-> m.quoted]
  BY DEF Reading
<1>2. CASE char = Backslash /\ ~m.quoted
  BY <1>1, <1>2 DEF Unquote
<1>3. CASE ~(char = Backslash /\ ~m.quoted)
  BY <1>1, <1>3 DEF Unquote
<1>4. QED
  BY <1>2, <1>3

\* A version that was quoted is read back as it was, and can stand in a name.
LEMMA EscapedReads ==
  ASSUME NEW C, NEW s \in Seq(C), NEW quoted, Backslash \in C,
         \A k \in DOMAIN s : s[k] \in {Colon, Backslash} => s[k] \in quoted
  PROVE  /\ Escape(s, quoted) \in Seq(C)
         /\ Read(Escape(s, quoted)) = [text |-> s, quoted |-> FALSE]
         /\ Clean(Escape(s, quoted))
<1> DEFINE n == Len(s)
           pieces == [i \in 1..n |-> IF s[i] \in quoted THEN <<Backslash, s[i]>> ELSE <<s[i]>>]
           e == Escape(s, quoted)
<1>1. n \in Nat /\ DOMAIN s = 1..n /\ \A k \in 1..n : s[k] \in C
  BY LenProperties, ElementOfSeq
<1>2. pieces \in [1..n -> Seq(C)]
  <2>1. \A k \in 1..n : <<Backslash, s[k]>> \in Seq(C) /\ <<s[k]>> \in Seq(C)
    BY <1>1
  <2>2. QED
    BY <2>1
<1>3. e = FlattenSeq(pieces)
  BY <1>1 DEF Escape
<1>8. \A k \in 1..n : pieces[k] = IF s[k] \in quoted THEN <<Backslash, s[k]>> ELSE <<s[k]>>
  OBVIOUS
<1> HIDE DEF e, pieces
<1>4. PICK v \in [0..n -> Seq(C)] : IsJoin(v, n, pieces) /\ v[n] = e
  BY <1>1, <1>2, <1>3, FlattenRuns
<1>5. e \in Seq(C) /\ Len(e) \in Nat /\ n \in 0..n /\ 0 \in 0..n
  BY <1>1, <1>4, LenProperties
<1>6. PICK r \in [0..Len(e) -> Reading(C)] : IsReading(r, e) /\ r[Len(e)] = Read(e)
  BY <1>5, ReadRuns
<1>7. \A k \in 1..n : IsPlaced(v, n, pieces, k)
  BY <1>1, <1>2, <1>4, JoinPositions
<1> DEFINE SoFar(k) == /\ r[Len(v[k])] = [text |-> SubSeq(s, 1, k), quoted |-> FALSE]
                       /\ \A j \in 1..Len(v[k]) : e[j] = Colon => r[j - 1].quoted
           T == {k \in 0..n : SoFar(k)}
<1>9. 0 \in T
  <2>1. v[0] = <<>> /\ r[0] = [text |-> <<>>, quoted |-> FALSE]
    BY <1>4, <1>6 DEF IsJoin, IsReading, Begun
  <2>2. SubSeq(s, 1, 0) = <<>>
    BY <1>1
  <2>3. Len(v[0]) = 0
    BY <2>1, EmptySeq
  <2>4. r[Len(v[0])] = [text |-> SubSeq(s, 1, 0), quoted |-> FALSE]
    BY <2>1, <2>2, <2>3
  <2>5. \A j \in 1..Len(v[0]) : e[j] = Colon => r[j - 1].quoted
    BY <2>3
  <2>6. QED
    BY <1>5, <2>4, <2>5
<1>10. ASSUME NEW k \in 1..n, SoFar(k - 1) PROVE SoFar(k)
  <2> DEFINE b == Len(v[k - 1])
             before == SubSeq(s, 1, k - 1)
  <2>1. b \in Nat /\ r[b] = [text |-> before, quoted |-> FALSE]
    BY <1>7, <1>10 DEF IsPlaced
  <2>2. SubSeq(s, 1, k) = Append(before, s[k])
    BY OneMore
  <2>3. \A j \in 1..b : e[j] = Colon => r[j - 1].quoted
    BY <1>10
  <2>4. \A j \in 1..Len(e) : r[j] = Unquote(r[j - 1], e[j])
    BY <1>6 DEF IsReading
  <2>5. /\ Len(v[k]) = b + Len(pieces[k])
        /\ \A j \in 1..Len(pieces[k]) : b + j \in 1..Len(e) /\ e[b + j] = pieces[k][j]
    BY <1>4, <1>7 DEF IsPlaced
  <2> HIDE DEF b, before
  <2>6. CASE s[k] \in quoted
    <3>1. pieces[k] = <<Backslash, s[k]>>
      BY <1>8, <2>6
    <3>2. Len(pieces[k]) = 2 /\ pieces[k][1] = Backslash /\ pieces[k][2] = s[k] /\ 1 \in 1..2 /\ 2 \in 1..2
      BY <3>1
    <3>3. /\ Len(v[k]) = b + 2 /\ b + 1 \in 1..Len(e) /\ b + 2 \in 1..Len(e)
          /\ e[b + 1] = Backslash /\ e[b + 2] = s[k]
      BY <2>5, <3>2
    <3>4. (b + 1) - 1 = b /\ (b + 2) - 1 = b + 1
      BY <2>1
    <3>5. r[b + 1] = [text |-> before, quoted |-> TRUE]
      BY <2>1, <2>4, <3>3, <3>4, UnquoteFacts
    <3>6. r[b + 2] = [text |-> Append(before, s[k]), quoted |-> FALSE]
      <4>1. r[b + 2] = Unquote(r[(b + 2) - 1], e[b + 2])
        BY <2>4, <3>3
      <4>2. r[b + 2] = Unquote([text |-> before, quoted |-> TRUE], s[k])
        BY <3>3, <3>4, <3>5, <4>1
      <4>3. QED
        BY <4>2, UnquoteFacts
    <3>7. Backslash # Colon
      BY DEF Backslash, Colon
    <3>8. \A j \in 1..(b + 2) : j \in 1..b \/ j = b + 1 \/ j = b + 2
      BY <2>1
    <3>9. e[b + 1] # Colon /\ r[(b + 2) - 1].quoted
      BY <3>3, <3>4, <3>5, <3>7
    <3>10. \A j \in 1..(b + 2) : e[j] = Colon => r[j - 1].quoted
      BY <2>3, <3>8, <3>9
    <3>11. QED
      BY <2>2, <3>3, <3>6, <3>10
  <2>7. CASE s[k] \notin quoted
    <3>1. pieces[k] = <<s[k]>>
      BY <1>8, <2>7
    <3>2. Len(pieces[k]) = 1 /\ pieces[k][1] = s[k] /\ 1 \in 1..1
      BY <3>1
    <3>3. Len(v[k]) = b + 1 /\ b + 1 \in 1..Len(e) /\ e[b + 1] = s[k]
      BY <2>5, <3>2
    <3>4. (b + 1) - 1 = b
      BY <2>1
    <3>5. s[k] # Colon /\ s[k] # Backslash
      BY <1>1, <2>7
    <3>6. r[b + 1] = [text |-> Append(before, s[k]), quoted |-> FALSE]
      <4>1. r[b + 1] = Unquote(r[(b + 1) - 1], e[b + 1])
        BY <2>4, <3>3
      <4>2. r[b + 1] = Unquote([text |-> before, quoted |-> FALSE], s[k])
        BY <2>1, <3>3, <3>4, <4>1
      <4>3. QED
        BY <3>5, <4>2, UnquoteFacts
    <3>7. \A j \in 1..(b + 1) : j \in 1..b \/ j = b + 1
      BY <2>1
    <3>8. \A j \in 1..(b + 1) : e[j] = Colon => r[j - 1].quoted
      BY <2>3, <3>3, <3>5, <3>7
    <3>9. QED
      BY <2>2, <3>3, <3>6, <3>8
  <2>8. QED
    BY <2>6, <2>7
<1>11. \A k \in 0..(n - 1) : k \in T => k + 1 \in T
  <2> SUFFICES ASSUME NEW k \in 0..(n - 1), SoFar(k) PROVE k + 1 \in 0..n /\ SoFar(k + 1)
    OBVIOUS
  <2>1. k + 1 \in 1..n /\ k + 1 \in 0..n /\ (k + 1) - 1 = k
    BY <1>1
  <2> HIDE DEF SoFar
  <2>2. SoFar((k + 1) - 1)
    BY <2>1
  <2>3. QED
    BY <1>10, <2>1, <2>2
<1> HIDE DEF T
<1>12. n \in T
  BY <1>1, <1>9, <1>11, SetInduction
<1>13. SoFar(n)
  BY <1>12 DEF T
<1>14. SubSeq(s, 1, n) = s
  BY <1>1
<1>15. Read(e) = [text |-> s, quoted |-> FALSE]
  BY <1>4, <1>6, <1>13, <1>14
<1>16. Clean(e)
  <2> DEFINE q == [j \in 0..Len(e) |-> r[j].quoted]
  <2>1. q \in [0..Len(e) -> BOOLEAN]
    BY <1>6 DEF Reading
  <2>2. \A j \in 0..Len(e) : q[j] = r[j].quoted
    OBVIOUS
  <2> HIDE DEF q
  <2>3. \A j \in 1..Len(e) : /\ j \in 0..Len(e) /\ j - 1 \in 0..Len(e)
                             /\ r[j] = Unquote(r[j - 1], e[j]) /\ (e[j] = Colon => r[j - 1].quoted)
    BY <1>4, <1>5, <1>6, <1>13 DEF IsReading
  <2>4. ASSUME NEW j \in 1..Len(e) PROVE q[j] = (e[j] = Backslash /\ ~q[j - 1]) /\ (e[j] = Colon => q[j - 1])
    <3>1. j \in 0..Len(e) /\ j - 1 \in 0..Len(e) /\ q[j] = r[j].quoted /\ q[j - 1] = r[j - 1].quoted
      BY <2>2, <2>3
    <3>2. r[j - 1] \in Reading(C) /\ r[j] = Unquote(r[j - 1], e[j])
      BY <2>3, <3>1
    <3>3. r[j].quoted = (e[j] = Backslash /\ ~r[j - 1].quoted)
      BY <3>2, UnquoteQuoted
    <3>4. QED
      BY <2>3, <3>1, <3>3
  <2>5. q[0] = FALSE /\ q[Len(e)] = FALSE
    <3>1. 0 \in 0..Len(e) /\ Len(e) \in 0..Len(e)
      BY <1>5
    <3>2. r[0].quoted = FALSE /\ r[Len(e)].quoted = FALSE
      BY <1>4, <1>6, <1>13 DEF IsReading, Begun
    <3>3. QED
      BY <2>2, <3>1, <3>2
  <2>6. IsQuoting(q, e)
    BY <2>4, <2>5 DEF IsQuoting
  <2>7. QED
    BY <2>1, <2>6 DEF Clean
<1>17. QED
  BY <1>5, <1>15, <1>16 DEF e

\* At position b the field f stands in e, or has been read.
StandsAt(f, e, b) == \A j \in 1..Len(f) : b + j \in 1..Len(e) /\ e[b + j] = f[j]
HasRead(r, b, done, f) == r[b] = [fields |-> done, field |-> f, quoted |-> FALSE]

\* While the characters of a clean field are read, they are added to the field being read.
LEMMA FieldReads ==
  ASSUME NEW C, NEW e \in Seq(C), NEW f \in Seq(C), Clean(f), NEW r, IsSplitting(r, e),
         NEW b \in Nat, NEW done, StandsAt(f, e, b), HasRead(r, b, done, <<>>)
  PROVE  HasRead(r, b + Len(f), done, f)
<1> USE DEF StandsAt, HasRead
<1>1. PICK q \in [0..Len(f) -> BOOLEAN] : IsQuoting(q, f)
  BY DEF Clean
<1> DEFINE n == Len(f)
           SoFar(j) == r[b + j] = [fields |-> done, field |-> SubSeq(f, 1, j), quoted |-> q[j]]
           T == {j \in 0..n : SoFar(j)}
<1>2. n \in Nat /\ SubSeq(f, 1, n) = f /\ SubSeq(f, 1, 0) = <<>>
  BY LenProperties
<1>3. 0 \in T
  <2>1. b + 0 = b /\ q[0] = FALSE /\ 0 \in 0..n
    BY <1>1, <1>2 DEF IsQuoting
  <2>2. QED
    BY <1>2, <2>1
<1>4. ASSUME NEW j \in 1..n, SoFar(j - 1) PROVE SoFar(j)
  <2>1. /\ b + j \in 1..Len(e) /\ e[b + j] = f[j] /\ (b + j) - 1 = b + (j - 1)
        /\ j \in 0..n /\ j - 1 \in 0..n
    BY <1>2
  <2>2. r[b + j] = SplitAt(r[b + (j - 1)], f[j])
    BY <2>1 DEF IsSplitting
  <2>3. q[j] = (f[j] = Backslash /\ ~q[j - 1]) /\ (f[j] = Colon => q[j - 1]) /\ q[j] \in BOOLEAN /\ q[j - 1] \in BOOLEAN
    BY <1>1, <2>1 DEF IsQuoting
  <2>4. SubSeq(f, 1, j) = Append(SubSeq(f, 1, j - 1), f[j])
    BY OneMore
  <2> DEFINE before == SubSeq(f, 1, j - 1)
             quoted == q[j - 1]
  <2>5. r[b + j] = SplitAt([fields |-> done, field |-> before, quoted |-> quoted], f[j])
    BY <1>4, <2>2
  <2>6. SplitAt([fields |-> done, field |-> before, quoted |-> quoted], f[j])
          = [fields |-> done, field |-> Append(before, f[j]), quoted |-> q[j]]
    <3> HIDE DEF before
    <3>1. ~(f[j] = Colon /\ ~quoted) /\ (f[j] = Backslash /\ ~quoted) = q[j]
      BY <2>3
    <3> HIDE DEF quoted
    <3>2. QED
      BY <3>1 DEF SplitAt
  <2>7. QED
    BY <2>4, <2>5, <2>6
<1>5. \A j \in 0..(n - 1) : j \in T => j + 1 \in T
  <2> SUFFICES ASSUME NEW j \in 0..(n - 1), SoFar(j) PROVE j + 1 \in 0..n /\ SoFar(j + 1)
    OBVIOUS
  <2>1. j + 1 \in 1..n /\ j + 1 \in 0..n /\ (j + 1) - 1 = j
    BY <1>2
  <2> HIDE DEF SoFar
  <2>2. SoFar((j + 1) - 1)
    BY <2>1
  <2>3. QED
    BY <1>4, <2>1, <2>2
<1> HIDE DEF T
<1>6. n \in T
  BY <1>2, <1>3, <1>5, SetInduction
<1>7. SoFar(n) /\ q[n] = FALSE
  BY <1>1, <1>6 DEF T, IsQuoting
<1>8. QED
  BY <1>2, <1>7

\* A name made of clean fields is split into them again.
LEMMA SplitJoined ==
  ASSUME NEW C, Colon \in C, NEW n \in Nat \ {0}, NEW fields \in [1..n -> Seq(C)],
         \A k \in 1..n : Clean(fields[k])
  PROVE  SplitCPE(Join(fields)) = fields
<1> DEFINE pieces == [i \in 1..n |-> IF i = 1 THEN fields[i] ELSE <<Colon>> \o fields[i]]
           e == Join(fields)
<1>1. n \in Nat /\ n \in 1..n /\ 1 \in 1..n /\ n \in 0..n
  OBVIOUS
<1>2. fields \in Seq(Seq(C)) /\ Len(fields) = n
  <2>1. \A m \in Nat : \A f \in [1..m -> Seq(C)] : f \in Seq(Seq(C)) /\ Len(f) = m
    BY SeqDef
  <2>2. QED
    BY <1>1, <2>1
<1>3. pieces \in [1..n -> Seq(C)]
  <2>1. <<Colon>> \in Seq(C)
    OBVIOUS
  <2>2. \A k \in 1..n : fields[k] \in Seq(C) /\ <<Colon>> \o fields[k] \in Seq(C)
    BY <2>1, ConcatProperties
  <2>3. QED
    BY <2>2
<1>4. e = FlattenSeq(pieces)
  BY DEF Join
<1>5. \A k \in 1..n : pieces[k] = IF k = 1 THEN fields[k] ELSE <<Colon>> \o fields[k]
  OBVIOUS
<1> HIDE DEF e, pieces
<1>6. PICK v \in [0..n -> Seq(C)] : IsJoin(v, n, pieces) /\ v[n] = e
  BY <1>1, <1>3, <1>4, FlattenRuns
<1>7. e \in Seq(C)
  BY <1>1, <1>6
<1>8. PICK r \in [0..Len(e) -> Splitting(C)] :
        IsSplitting(r, e) /\ SplitCPE(e) = Append(r[Len(e)].fields, r[Len(e)].field)
  BY <1>7, SplitRuns
<1>9. \A k \in 1..n : IsPlaced(v, n, pieces, k)
  BY <1>1, <1>3, <1>6, JoinPositions
<1> DEFINE SoFar(k) == r[Len(v[k])] = [fields |-> SubSeq(fields, 1, k - 1), field |-> fields[k], quoted |-> FALSE]
           T == {k \in 0..n : k = 0 \/ SoFar(k)}
<1>10. SoFar(1)
  <2>1. IsPlaced(v, n, pieces, 1) /\ pieces[1] = fields[1] /\ Clean(fields[1]) /\ fields[1] \in Seq(C)
    BY <1>1, <1>5, <1>9
  <2>2. v[0] = <<>> /\ r[0] = [fields |-> <<>>, field |-> <<>>, quoted |-> FALSE]
    BY <1>6, <1>8 DEF IsJoin, IsSplitting, Unsplit
  <2>3. Len(v[0]) = 0 /\ 1 - 1 = 0
    BY <2>2, EmptySeq
  <2>4. StandsAt(fields[1], e, 0) /\ HasRead(r, 0, <<>>, <<>>)
    BY <1>6, <2>1, <2>2, <2>3 DEF IsPlaced, StandsAt, HasRead
  <2>5. HasRead(r, 0 + Len(fields[1]), <<>>, fields[1])
    BY <1>7, <1>8, <2>1, <2>4, FieldReads
  <2>6. Len(v[1]) = 0 + Len(fields[1])
    BY <2>1, <2>3 DEF IsPlaced
  <2>7. SubSeq(fields, 1, 1 - 1) = <<>>
    BY <1>2, <2>3
  <2>8. QED
    BY <2>5, <2>6, <2>7 DEF HasRead
<1>11. ASSUME NEW k \in 2..n, SoFar(k - 1) PROVE SoFar(k)
  <2> DEFINE b == Len(v[k - 1])
             done == SubSeq(fields, 1, k - 1)
             field == fields[k]
  <2>1. /\ k \in 1..n /\ k - 1 \in 1..n /\ k # 1
    BY <1>1
  <2>2. IsPlaced(v, n, pieces, k) /\ pieces[k] = <<Colon>> \o field /\ Clean(field) /\ field \in Seq(C)
    BY <1>5, <1>9, <2>1
  <2>3. /\ Len(pieces[k]) = 1 + Len(field) /\ pieces[k][1] = Colon
        /\ \A j \in 1..Len(field) : pieces[k][1 + j] = field[j]
    <3>1. /\ Len(<<Colon>>) = 1 /\ <<Colon>>[1] = Colon /\ <<Colon>> \in Seq(C) /\ Len(field) \in Nat
      BY <2>2, LenProperties
    <3> DEFINE colon == <<Colon>>
    <3> HIDE DEF colon
    <3>2. /\ Len(colon \o field) = Len(colon) + Len(field)
          /\ \A i \in 1..(Len(colon) + Len(field)) :
               (colon \o field)[i] = IF i <= Len(colon) THEN colon[i] ELSE field[i - Len(colon)]
      BY <2>2, <3>1, ConcatProperties DEF colon
    <3>3. Len(colon) = 1 /\ colon[1] = Colon /\ pieces[k] = colon \o field
      BY <2>2, <3>1 DEF colon
    <3>4. 1 \in 1..(1 + Len(field)) /\ 1 <= 1
      BY <3>1
    <3>5. \A j \in 1..Len(field) : 1 + j \in 1..(1 + Len(field)) /\ ~(1 + j <= 1) /\ (1 + j) - 1 = j
      BY <3>1
    <3> HIDE DEF field
    <3>6. \A j \in 1..Len(field) : pieces[k][1 + j] = field[(1 + j) - 1]
      BY <3>2, <3>3, <3>5
    <3>7. Len(pieces[k]) = 1 + Len(field) /\ pieces[k][1] = Colon
      BY <3>2, <3>3, <3>4
    <3>8. QED
      BY <3>5, <3>6, <3>7
  <2>4. /\ b \in Nat /\ Len(field) \in Nat /\ Len(v[k]) = b + (1 + Len(field))
        /\ \A j \in 1..(1 + Len(field)) : b + j \in 1..Len(e) /\ e[b + j] = pieces[k][j]
    BY <1>6, <2>2, <2>3, LenProperties DEF IsPlaced
  <2>5. r[b] = [fields |-> SubSeq(fields, 1, (k - 1) - 1), field |-> fields[k - 1], quoted |-> FALSE]
    BY <1>11
  <2>6. done = Append(SubSeq(fields, 1, (k - 1) - 1), fields[k - 1])
    BY <1>2, <2>1, OneMore
  <2> HIDE DEF b, done, field
  <2>7. b + 1 \in 1..Len(e) /\ e[b + 1] = Colon /\ (b + 1) - 1 = b
    <3>1. 1 \in 1..(1 + Len(field)) /\ (b + 1) - 1 = b
      BY <2>4
    <3>2. b + 1 \in 1..Len(e) /\ e[b + 1] = pieces[k][1]
      BY <2>4, <3>1
    <3> QED BY <2>3, <3>1, <3>2
  <2>8. r[b + 1] = [fields |-> done, field |-> <<>>, quoted |-> FALSE]
    <3>1. r[b + 1] = SplitAt(r[(b + 1) - 1], e[b + 1])
      BY <1>8, <2>7 DEF IsSplitting
    <3>2. r[b + 1] = SplitAt([fields |-> SubSeq(fields, 1, (k - 1) - 1), field |-> fields[k - 1], quoted |-> FALSE], Colon)
      BY <2>5, <2>7, <3>1
    <3>3. QED
      BY <2>6, <3>2 DEF SplitAt
  <2>9. b + 1 \in Nat /\ \A j \in 1..Len(field) : (b + 1) + j \in 1..Len(e) /\ e[(b + 1) + j] = field[j]
    <3> SUFFICES ASSUME NEW j \in 1..Len(field) PROVE (b + 1) + j \in 1..Len(e) /\ e[(b + 1) + j] = field[j]
      BY <2>4
    <3>1. 1 + j \in 1..(1 + Len(field)) /\ b + (1 + j) = (b + 1) + j
      BY <2>4
    <3>2. QED
      BY <2>3, <2>4, <3>1
  <2>10. HasRead(r, (b + 1) + Len(field), done, field)
    <3>1. StandsAt(field, e, b + 1) /\ HasRead(r, b + 1, done, <<>>) /\ b + 1 \in Nat
      BY <2>8, <2>9 DEF StandsAt, HasRead
    <3>2. QED
      BY <1>7, <1>8, <2>2, <3>1, FieldReads
  <2>11. (b + 1) + Len(field) = Len(v[k])
    BY <2>4
  <2>12. QED
    BY <2>10, <2>11 DEF done, field, HasRead
<1>12. 0 \in T
  OBVIOUS
<1>13. \A k \in 0..(n - 1) : k \in T => k + 1 \in T
  <2> SUFFICES ASSUME NEW k \in 0..(n - 1), k = 0 \/ SoFar(k) PROVE k + 1 \in 0..n /\ SoFar(k + 1)
    OBVIOUS
  <2>1. k + 1 \in 0..n /\ (k + 1) - 1 = k /\ (k # 0 => k + 1 \in 2..n) /\ (k = 0 => k + 1 = 1)
    OBVIOUS
  <2> HIDE DEF SoFar
  <2>2. CASE k = 0
    BY <1>10, <2>1, <2>2
  <2>3. CASE k # 0
    <3>1. SoFar((k + 1) - 1)
      BY <2>1, <2>3
    <3>2. QED
      BY <1>11, <2>1, <2>3, <3>1
  <2>4. QED
    BY <2>2, <2>3
<1> HIDE DEF T
<1>14. n \in T
  BY <1>1, <1>12, <1>13, SetInduction
<1>15. SoFar(n)
  BY <1>1, <1>14 DEF T
<1>16. SplitCPE(e) = Append(SubSeq(fields, 1, n - 1), fields[n])
  BY <1>6, <1>8, <1>15
<1>17. Append(SubSeq(fields, 1, n - 1), fields[n]) = fields
  <2>1. SubSeq(fields, 1, n) = fields
    BY <1>2
  <2>2. SubSeq(fields, 1, n) = Append(SubSeq(fields, 1, n - 1), fields[n])
    BY <1>1, <1>2, OneMore
  <2>3. QED
    BY <2>1, <2>2
<1>18. QED
  BY <1>16, <1>17 DEF e

LEMMA StarIsClean == Clean(<<"*">>)
<1> DEFINE q == [j \in 0..1 |-> FALSE]
           f == <<"*">>
<1>1. Len(f) = 1 /\ f[1] = "*"
  OBVIOUS
<1>2. "*" # Colon /\ "*" # Backslash
  BY DEF Colon, Backslash
<1>3. q \in [0..1 -> BOOLEAN] /\ q[0] = FALSE /\ q[1] = FALSE
  <2>1. 0 \in 0..1 /\ 1 \in 0..1
    OBVIOUS
  <2>2. QED
    BY <2>1
<1> HIDE DEF q, f
<1>4. \A j \in 1..1 : j = 1 /\ j - 1 = 0
  OBVIOUS
<1>5. IsQuoting(q, f)
  BY <1>1, <1>2, <1>3, <1>4 DEF IsQuoting
<1>6. Clean(f)
  BY <1>1, <1>3, <1>5 DEF Clean
<1>7. QED
  BY <1>6 DEF f

\* A version put into the name of a product is read back from it, whatever characters it has,
\* if colon and backslash are among those that are quoted.
LEMMA VersionReadBack ==
  ASSUME NEW C, {Colon, Backslash, "*"} \subseteq C, NEW s \in Seq(C), NEW quoted,
         \A k \in DOMAIN s : s[k] \in {Colon, Backslash} => s[k] \in quoted,
         NEW fields, fields = SplitCPE(CPEWithVersion(Product, s, quoted))
  PROVE  /\ Len(fields) = FieldCount
         /\ Unescape(fields[VersionField]) = s /\ BuilderUnescape(fields[VersionField]) = s
<1> DEFINE stars == [i \in 1..FieldCount |-> <<"*">>]
           escaped == Escape(s, quoted)
           named == [stars EXCEPT ![VersionField] = escaped]
<1>1. FieldCount \in Nat \ {0} /\ VersionField \in 1..FieldCount
  BY DEF FieldCount, VersionField
<1>2. <<"*">> \in Seq(C) /\ Colon \in C /\ Backslash \in C
  OBVIOUS
<1>3. stars \in [1..FieldCount -> Seq(C)] /\ \A k \in 1..FieldCount : stars[k] = <<"*">>
  BY <1>2
<1>4. /\ escaped \in Seq(C) /\ Read(escaped) = [text |-> s, quoted |-> FALSE] /\ Clean(escaped)
  BY <1>2, EscapedReads
<1>5. Product = Join(stars)
  BY DEF Product
<1> HIDE DEF stars, escaped
<1>6. /\ named \in [1..FieldCount -> Seq(C)] /\ named[VersionField] = escaped
      /\ \A k \in 1..FieldCount : named[k] = IF k = VersionField THEN escaped ELSE <<"*">>
  BY <1>1, <1>3, <1>4
<1>7. CPEWithVersion(Product, s, quoted) = Join([SplitCPE(Product) EXCEPT ![VersionField] = escaped])
  BY DEF CPEWithVersion, escaped
<1> HIDE DEF named
<1>8. SplitCPE(Product) = stars
  <2>1. \A k \in 1..FieldCount : Clean(stars[k])
    BY <1>3, StarIsClean
  <2>2. SplitCPE(Join(stars)) = stars
    BY <1>1, <1>2, <1>3, <2>1, SplitJoined
  <2>3. QED
    BY <1>5, <2>2
<1>9. CPEWithVersion(Product, s, quoted) = Join(named)
  BY <1>7, <1>8 DEF named
<1>10. fields = named
  <2>1. \A k \in 1..FieldCount : Clean(named[k])
    BY <1>4, <1>6, StarIsClean
  <2>2. SplitCPE(Join(named)) = named
    BY <1>1, <1>2, <1>6, <2>1, SplitJoined
  <2>3. QED
    BY <1>9, <2>2
<1>11. Len(named) = FieldCount
  <2>1. \A m \in Nat : \A f \in [1..m -> Seq(C)] : Len(f) = m
    OBVIOUS
  <2>2. QED
    BY <1>1, <1>6, <2>1
<1>12. Unescape(escaped) = s /\ BuilderUnescape(escaped) = s
  BY <1>4 DEF Unescape, BuilderUnescape
<1>13. QED
  BY <1>6, <1>10, <1>11, <1>12

\* The version of a technology survives being quoted into a CPE name, and the name its 13
\* fields, for every text that was detected and both lists of characters that are quoted.
THEOREM NamesCorrect == Spec => []VersionSurvivesName
<1>1. TypeOK => VersionSurvivesName
  <2> SUFFICES ASSUME TypeOK, NEW quoted \in {Reserved, Range(text) \ Literals},
                      NEW fields, fields = SplitCPE(CPEWithVersion(Product, text, quoted))
               PROVE  /\ Len(fields) = FieldCount
                      /\ Unescape(fields[VersionField]) = text
                      /\ BuilderUnescape(fields[VersionField]) = text
    BY DEF VersionSurvivesName
  <2> DEFINE C == Range(text) \cup {Colon, Backslash, "*"}
             s == text
  <2>1. s \in Seq(C) /\ Range(s) = {s[k] : k \in DOMAIN s}
    <3>1. text \in Seq(Range(text))
      BY TextsAssumption DEF TypeOK
    <3>2. \A S, T : S \subseteq T => Seq(S) \subseteq Seq(T)
      BY SeqDef
    <3>3. Range(text) \subseteq C
      OBVIOUS
    <3>4. QED
      BY <3>1, <3>2, <3>3 DEF Range
  <2>2. \A k \in DOMAIN s : s[k] \in {Colon, Backslash} => s[k] \in quoted
    BY <2>1, CharactersAssumption
  <2>3. {Colon, Backslash, "*"} \subseteq C /\ fields = SplitCPE(CPEWithVersion(Product, s, quoted))
    OBVIOUS
  <2> HIDE DEF C, s
  <2>4. /\ Len(fields) = FieldCount
        /\ Unescape(fields[VersionField]) = s /\ BuilderUnescape(fields[VersionField]) = s
    BY <2>1, <2>2, <2>3, VersionReadBack
  <2>5. QED
    BY <2>4 DEF s
<1>2. QED
  BY <1>1, TypeCorrect, PTL

--------------------------------------------------------------------------------
(* Release cycles *)

\* Where the segments of a text are separated, with its two ends.
Dots(raw) == {i \in DOMAIN raw : raw[i] = Dot} \cup {0, Len(raw) + 1}
DotAfter(raw, i) == Min({j \in Dots(raw) : j > i})
Rank(raw, i) == Cardinality({j \in Dots(raw) : j < i})

\* Position i separates segments of raw, too, and what is before it is the same in both.
AgreeTo(raw, name, i) == i \in Dots(raw) /\ \A j \in 1..(i - 1) : raw[j] = name[j]

LEMMA DotFacts ==
  ASSUME NEW C, NEW raw \in Seq(C)
  PROVE  /\ Len(raw) \in Nat /\ DOMAIN raw = 1..Len(raw)
         /\ Dots(raw) \subseteq 0..(Len(raw) + 1) /\ Dots(raw) \subseteq Nat
         /\ 0 \in Dots(raw) /\ Len(raw) + 1 \in Dots(raw)
         /\ \A j \in 1..Len(raw) : j \in Dots(raw) <=> raw[j] = Dot
<1>1. Len(raw) \in Nat /\ DOMAIN raw = 1..Len(raw)
  BY LenProperties
<1>2. QED
  BY <1>1 DEF Dots

LEMMA AfterFacts ==
  ASSUME NEW C, NEW raw \in Seq(C), NEW i \in Dots(raw), i # Len(raw) + 1
  PROVE  /\ i \in 0..Len(raw) /\ DotAfter(raw, i) \in Dots(raw)
         /\ DotAfter(raw, i) \in (i + 1)..(Len(raw) + 1)
         /\ \A j \in Dots(raw) : j > i => DotAfter(raw, i) <= j
<1> DEFINE later == {j \in Dots(raw) : j > i}
<1>1. Len(raw) \in Nat /\ Dots(raw) \subseteq 0..(Len(raw) + 1) /\ Len(raw) + 1 \in Dots(raw)
  BY DotFacts
<1>2. i \in 0..Len(raw)
  BY <1>1
<1>3. Len(raw) + 1 \in later /\ later \in SUBSET Nat
  BY <1>1, <1>2
<1>4. Min(later) \in later /\ \A k \in later : Min(later) <= k
  BY <1>3, MinOf
<1>5. DotAfter(raw, i) = Min(later)
  BY DEF DotAfter
<1>6. QED
  BY <1>1, <1>2, <1>3, <1>4, <1>5

\* What comes after i in the order of the dots has a higher rank.
LEMMA RankGrows ==
  ASSUME NEW C, NEW raw \in Seq(C), NEW i \in Dots(raw), NEW k \in Dots(raw), i < k
  PROVE  Rank(raw, i) # Rank(raw, k)
<1> DEFINE S == {j \in Dots(raw) : j < i}
           T == {j \in Dots(raw) : j < k}
<1>1. Len(raw) \in Nat /\ Dots(raw) \subseteq 0..(Len(raw) + 1)
  BY DotFacts
<1>2. IsFiniteSet(T)
  <2>1. IsFiniteSet(0..(Len(raw) + 1))
    BY <1>1, FS_Interval
  <2>2. T \subseteq 0..(Len(raw) + 1)
    BY <1>1
  <2> QED BY <2>1, <2>2, FS_Subset
<1>3. S \subseteq T /\ i \in T /\ i \notin S
  BY <1>1
<1>4. Cardinality(S) < Cardinality(T)
  <2> HIDE DEF S, T
  <2>1. S # T
    BY <1>3
  <2> QED BY <1>2, <1>3, <2>1, FS_Subset, FS_CardinalityType
<1>5. Cardinality(S) # Cardinality(T)
  <2> HIDE DEF S, T
  <2>1. IsFiniteSet(S)
    BY <1>2, <1>3, FS_Subset
  <2>2. Cardinality(S) \in Nat /\ Cardinality(T) \in Nat
    BY <1>2, <2>1, FS_CardinalityType
  <2> QED BY <1>4, <2>2
<1>6. QED
  BY <1>5 DEF Rank

LEMMA RankTells ==
  ASSUME NEW C, NEW raw \in Seq(C), NEW i \in Dots(raw), NEW k \in Dots(raw), Rank(raw, i) = Rank(raw, k)
  PROVE  i = k
<1>1. i \in Nat /\ k \in Nat
  BY DotFacts
<1>2. CASE i < k
  BY <1>2, RankGrows
<1>3. CASE k < i
  BY <1>3, RankGrows
<1>4. QED
  BY <1>1, <1>2, <1>3

\* Up to where they agree, both have the same dots.
LEMMA SameDots ==
  ASSUME NEW C, NEW raw \in Seq(C), NEW name \in Seq(C), NEW m \in Dots(name), AgreeTo(raw, name, m)
  PROVE  /\ \A j \in 0..m : j \in Dots(raw) <=> j \in Dots(name)
         /\ \A i \in 0..m : Rank(raw, i) = Rank(name, i)
<1>1. /\ Len(raw) \in Nat /\ Dots(raw) \subseteq 0..(Len(raw) + 1) /\ 0 \in Dots(raw)
      /\ \A j \in 1..Len(raw) : j \in Dots(raw) <=> raw[j] = Dot
  BY DotFacts
<1>2. /\ Len(name) \in Nat /\ Dots(name) \subseteq 0..(Len(name) + 1) /\ 0 \in Dots(name)
      /\ \A j \in 1..Len(name) : j \in Dots(name) <=> name[j] = Dot
  BY DotFacts
<1>3. m \in Dots(raw) /\ \A j \in 1..(m - 1) : raw[j] = name[j]
  BY DEF AgreeTo
<1>4. ASSUME NEW j \in 0..m PROVE j \in Dots(raw) <=> j \in Dots(name)
  <2>1. j = 0 \/ j = m \/ j \in 1..(m - 1)
    BY <1>2
  <2>2. CASE j \in 1..(m - 1)
    <3>1. j \in 1..Len(raw) /\ j \in 1..Len(name)
      BY <1>1, <1>2, <1>3, <2>2
    <3> QED BY <1>1, <1>2, <1>3, <2>2, <3>1
  <2> QED BY <1>1, <1>2, <1>3, <2>1, <2>2
<1>5. ASSUME NEW i \in 0..m PROVE Rank(raw, i) = Rank(name, i)
  <2>1. \A j \in Dots(raw) \cup Dots(name) : j < i => j \in 0..m
    BY <1>1, <1>2
  <2>2. {j \in Dots(raw) : j < i} = {j \in Dots(name) : j < i}
    BY <1>4, <2>1
  <2> QED BY <2>2 DEF Rank
<1>6. QED
  BY <1>4, <1>5

LEMMA SegmentsAre ==
  ASSUME NEW raw
  PROVE  Segments(raw) = {<<Rank(raw, i), SubSeq(raw, i + 1, DotAfter(raw, i) - 1)>> : i \in Dots(raw) \ {Len(raw) + 1}}
BY DEF Segments, Dots, DotAfter, Rank

\* The characters of a segment.
LEMMA SegmentIs ==
  ASSUME NEW C, NEW raw \in Seq(C), NEW i \in 0..Len(raw), NEW a \in (i + 1)..(Len(raw) + 1)
  PROVE  /\ SubSeq(raw, i + 1, a - 1) \in Seq(C)
         /\ Len(SubSeq(raw, i + 1, a - 1)) = a - 1 - i
         /\ \A k \in 1..(a - 1 - i) : SubSeq(raw, i + 1, a - 1)[k] = raw[i + k]
<1>1. Len(raw) \in Nat /\ \A k \in 1..Len(raw) : raw[k] \in C
  BY LenProperties, ElementOfSeq
<1> DEFINE m == i + 1
           n == a - 1
<1>2. m \in Int /\ n \in Int /\ m \in 1..(Len(raw) + 1) /\ n \in i..Len(raw) /\ n - m + 1 = a - 1 - i
      /\ (m <= n => n - m + 1 = a - 1 - i) /\ (~(m <= n) => a - 1 - i = 0)
  BY <1>1
<1>3. \A k \in m..n : raw[k] \in C
  BY <1>1, <1>2
<1>4. \A k \in 1..(a - 1 - i) : m + k - 1 = i + k
  BY <1>1
<1> HIDE DEF m, n
<1>5. /\ SubSeq(raw, m, n) \in Seq(C)
      /\ Len(SubSeq(raw, m, n)) = IF m <= n THEN n - m + 1 ELSE 0
      /\ \A k \in 1..(n - m + 1) : SubSeq(raw, m, n)[k] = raw[m + k - 1]
  BY <1>2, <1>3, SubSeqProperties
<1>6. Len(SubSeq(raw, m, n)) = a - 1 - i
  BY <1>2, <1>5
<1>7. \A k \in 1..(a - 1 - i) : SubSeq(raw, m, n)[k] = raw[i + k]
  BY <1>2, <1>4, <1>5
<1>8. QED
  BY <1>5, <1>6, <1>7 DEF m, n

\* A text whose beginning is a name has the segments of the name.
LEMMA PrefixHasSegments ==
  ASSUME NEW C, NEW raw \in Seq(C), NEW name \in Seq(C), AgreeTo(raw, name, Len(name) + 1)
  PROVE  Segments(name) \subseteq Segments(raw)
<1> DEFINE L == Len(name)
<1>1. L \in Nat /\ L + 1 \in Dots(name) /\ Dots(name) \subseteq 0..(L + 1)
  BY DotFacts
<1>2. Len(raw) \in Nat /\ Dots(raw) \subseteq 0..(Len(raw) + 1)
  BY DotFacts
<1>3. /\ \A j \in 0..(L + 1) : j \in Dots(raw) <=> j \in Dots(name)
      /\ \A i \in 0..(L + 1) : Rank(raw, i) = Rank(name, i)
  BY <1>1, SameDots
<1>4. L + 1 \in Dots(raw) /\ \A j \in 1..L : raw[j] = name[j]
  BY <1>1 DEF AgreeTo
<1>5. L + 1 <= Len(raw) + 1
  BY <1>1, <1>2, <1>4
<1>6. ASSUME NEW i \in Dots(name) \ {L + 1}
      PROVE  /\ i \in Dots(raw) \ {Len(raw) + 1} /\ Rank(raw, i) = Rank(name, i)
             /\ SubSeq(raw, i + 1, DotAfter(raw, i) - 1) = SubSeq(name, i + 1, DotAfter(name, i) - 1)
  <2> DEFINE a == DotAfter(name, i)
             b == DotAfter(raw, i)
  <2>1. /\ i \in 0..L /\ a \in Dots(name) /\ a \in (i + 1)..(L + 1)
        /\ \A j \in Dots(name) : j > i => a <= j
    BY AfterFacts
  <2>2. i \in 0..(L + 1) /\ i # Len(raw) + 1 /\ i \in 0..Len(raw) /\ a \in 0..(L + 1)
    BY <1>1, <1>2, <1>5, <2>1
  <2>3. i \in Dots(raw) /\ Rank(raw, i) = Rank(name, i) /\ a \in Dots(raw)
    BY <1>3, <2>1, <2>2
  <2>4. /\ b \in Dots(raw) /\ b \in (i + 1)..(Len(raw) + 1)
        /\ \A j \in Dots(raw) : j > i => b <= j
    BY <2>2, <2>3, AfterFacts
  <2> HIDE DEF a, b
  <2>5. b <= a
    BY <1>1, <2>1, <2>3, <2>4
  <2>6. b \in 0..(L + 1) /\ b > i
    BY <1>1, <1>2, <2>1, <2>4, <2>5
  <2>7. b = a
    <3>1. b \in Dots(name)
      BY <1>3, <2>4, <2>6
    <3>2. a <= b
      BY <2>1, <2>6, <3>1
    <3> QED BY <1>1, <2>1, <2>5, <2>6, <3>2
  <2>8. a \in (i + 1)..(Len(raw) + 1) /\ i \in 0..Len(raw)
    BY <2>2, <2>4, <2>7
  <2> DEFINE s == SubSeq(raw, i + 1, a - 1)
             t == SubSeq(name, i + 1, a - 1)
  <2>9. s \in Seq(C) /\ Len(s) = a - 1 - i /\ \A k \in 1..(a - 1 - i) : s[k] = raw[i + k]
    BY <2>8, SegmentIs, SMTT(30)
  <2>10. t \in Seq(C) /\ Len(t) = a - 1 - i /\ \A k \in 1..(a - 1 - i) : t[k] = name[i + k]
    BY <2>1, SegmentIs, SMTT(30)
  <2>11. \A k \in 1..(a - 1 - i) : i + k \in 1..L
    BY <1>1, <2>1
  <2> HIDE DEF s, t
  <2>12. \A k \in 1..Len(s) : s[k] = t[k]
    BY <1>4, <2>9, <2>10, <2>11
  <2>13. s = t
    BY <2>9, <2>10, <2>12, SeqEqual
  <2> QED BY <2>2, <2>3, <2>7, <2>13 DEF s, t, a, b
<1>7. QED
  BY <1>6, SegmentsAre

\* Where a text has the segment of a name that begins at i, both agree to the end of it.
LEMMA SegmentAgrees ==
  ASSUME NEW C, NEW raw \in Seq(C), NEW name \in Seq(C), Segments(name) \subseteq Segments(raw),
         NEW i \in Dots(name), i # Len(name) + 1, AgreeTo(raw, name, i)
  PROVE  AgreeTo(raw, name, DotAfter(name, i))
<1> DEFINE a == DotAfter(name, i)
           s == SubSeq(name, i + 1, a - 1)
<1>1. i \in 0..Len(name) /\ a \in (i + 1)..(Len(name) + 1) /\ Len(name) \in Nat
  BY AfterFacts, DotFacts
<1>2. <<Rank(name, i), s>> \in Segments(name)
  BY SegmentsAre
<1>3. PICK k \in Dots(raw) \ {Len(raw) + 1} :
        <<Rank(name, i), s>> = <<Rank(raw, k), SubSeq(raw, k + 1, DotAfter(raw, k) - 1)>>
  BY <1>2, SegmentsAre
<1>4. k = i
  <2>1. i \in Dots(raw)
    BY DEF AgreeTo
  <2>2. i \in 0..i
    BY <1>1
  <2>3. Rank(raw, i) = Rank(name, i)
    BY <2>2, SameDots
  <2> QED BY <1>3, <2>1, <2>3, RankTells
<1> DEFINE b == DotAfter(raw, i)
<1>5. i \in 0..Len(raw) /\ b \in Dots(raw) /\ b \in (i + 1)..(Len(raw) + 1) /\ Len(raw) \in Nat
  BY <1>3, <1>4, AfterFacts, DotFacts
<1> DEFINE t == SubSeq(raw, i + 1, b - 1)
<1>6. s = t
  BY <1>3, <1>4
<1>7. Len(s) = a - 1 - i /\ \A j \in 1..(a - 1 - i) : s[j] = name[i + j]
  BY <1>1, SegmentIs, SMTT(30)
<1>8. Len(t) = b - 1 - i /\ \A j \in 1..(b - 1 - i) : t[j] = raw[i + j]
  BY <1>5, SegmentIs, SMTT(30)
<1>9. \A j \in 1..(i - 1) : raw[j] = name[j]
  BY DEF AgreeTo
<1>10. i \in Dots(raw)
  BY DEF AgreeTo
<1> HIDE DEF a, b, s, t
<1>11. a = b
  <2>1. a - 1 - i = b - 1 - i
    BY <1>6, <1>7, <1>8
  <2> QED BY <1>1, <1>5, <2>1
<1>12. ASSUME NEW j \in 1..(a - 1) PROVE raw[j] = name[j]
  <2>1. CASE j \in 1..(i - 1)
    BY <1>9, <2>1
  <2>2. CASE j = i
    <3>1. i \in 1..Len(raw) /\ i \in 1..Len(name)
      BY <1>1, <1>5, <2>2
    <3>2. raw[i] = Dot /\ name[i] = Dot
      BY <1>10, <3>1, DotFacts
    <3> QED BY <2>2, <3>2
  <2>3. CASE j > i
    <3>1. j - i \in 1..(a - 1 - i) /\ i + (j - i) = j
      BY <1>1, <2>3
    <3>2. s[j - i] = name[i + (j - i)] /\ t[j - i] = raw[i + (j - i)]
      BY <1>7, <1>8, <1>11, <3>1
    <3> QED BY <1>6, <3>1, <3>2
  <2>4. j \in 1..(i - 1) \/ j = i \/ j > i
    BY <1>1
  <2> QED BY <2>1, <2>2, <2>3, <2>4
<1>13. QED
  BY <1>5, <1>11, <1>12 DEF AgreeTo, a

\* A text that has all segments of a name begins with it.
LEMMA SegmentsMakePrefix ==
  ASSUME NEW C, NEW raw \in Seq(C), NEW name \in Seq(C), Segments(name) \subseteq Segments(raw)
  PROVE  AgreeTo(raw, name, Len(name) + 1)
<1> DEFINE L == Len(name)
           Holds(i) == AgreeTo(raw, name, i)
           After(i) == DotAfter(name, i)
           T == {m \in 0..L : \E i \in Dots(name) : i <= m /\ m < After(i) /\ Holds(i)}
<1>1. L \in Nat /\ 0 \in Dots(name) /\ 0 # L + 1 /\ Dots(name) \subseteq 0..(L + 1)
  BY DotFacts
<1>2. \A i \in Dots(name) : i # L + 1 =>
        i \in 0..L /\ After(i) \in Dots(name) /\ After(i) \in (i + 1)..(L + 1)
  BY AfterFacts
<1>3. \A i \in Dots(name) : i # L + 1 /\ Holds(i) => Holds(After(i))
  BY SegmentAgrees
<1>4. Holds(0)
  BY DotFacts DEF AgreeTo
<1> HIDE DEF L, Holds, After
<1>5. 0 \in T
  <2>1. 0 \in 0..L /\ 0 <= 0 /\ 0 < After(0)
    BY <1>1, <1>2
  <2> QED BY <1>1, <1>4, <2>1
<1>6. ASSUME NEW m \in 0..(L - 1), m \in T PROVE m + 1 \in T
  <2>1. PICK i \in Dots(name) : i <= m /\ m < After(i) /\ Holds(i)
    BY <1>6
  <2>2. m + 1 \in 0..L /\ i # L + 1 /\ i \in Nat /\ m \in Nat /\ m + 1 # L + 1
    BY <1>1, <2>1
  <2>3. After(i) \in Dots(name) /\ After(i) \in (i + 1)..(L + 1) /\ Holds(After(i))
    BY <1>2, <1>3, <2>1, <2>2
  <2>4. CASE m + 1 < After(i)
    <3>1. i <= m + 1
      BY <2>1, <2>2
    <3> QED BY <2>1, <2>2, <2>4, <3>1
  <2>5. CASE ~(m + 1 < After(i))
    <3>1. After(i) = m + 1
      BY <1>1, <2>1, <2>2, <2>3, <2>5
    <3>2. After(m + 1) \in (m + 1 + 1)..(L + 1)
      BY <1>2, <2>2, <2>3, <3>1
    <3>3. m + 1 <= m + 1 /\ m + 1 < After(m + 1)
      BY <1>1, <2>2, <3>2
    <3> QED BY <2>2, <2>3, <3>1, <3>3
  <2> QED BY <2>4, <2>5
<1> HIDE DEF T
<1>7. L \in T
  BY <1>1, <1>5, <1>6, SetInduction
<1>8. PICK i \in Dots(name) : i <= L /\ L < After(i) /\ Holds(i)
  BY <1>7 DEF T
<1>9. i # L + 1 /\ i \in Nat
  BY <1>1, <1>8
<1>10. After(i) \in (i + 1)..(L + 1) /\ Holds(After(i))
  BY <1>2, <1>3, <1>8, <1>9
<1>11. After(i) = L + 1
  BY <1>1, <1>8, <1>9, <1>10
<1>12. QED
  BY <1>10, <1>11 DEF Holds, L
\* A version is of a cycle if its text begins with the cycle's name, and ends there or goes on
\* with a dot.
LEMMA InCycleAgrees ==
  ASSUME NEW C, Dot \in C, NEW raw \in Seq(C), NEW name \in Seq(C)
  PROVE  InCycle(raw, name) <=> AgreeTo(raw, name, Len(name) + 1)
<1> DEFINE L == Len(name)
           longer == Append(name, Dot)
<1>1. /\ Len(raw) \in Nat /\ Dots(raw) \subseteq 0..(Len(raw) + 1) /\ Len(raw) + 1 \in Dots(raw)
      /\ \A j \in 1..Len(raw) : j \in Dots(raw) <=> raw[j] = Dot
  BY DotFacts
<1>2. L \in Nat
  BY LenProperties
<1>3. /\ longer \in Seq(C) /\ Len(longer) = L + 1 /\ longer[L + 1] = Dot
      /\ \A j \in 1..L : longer[j] = name[j]
  BY AppendProperties
<1>4. \A j \in 1..((L + 1) - 1) : j \in 1..L
  BY <1>2
<1>5. ASSUME raw = name PROVE AgreeTo(raw, name, L + 1)
  BY <1>1, <1>5 DEF AgreeTo
<1> HIDE DEF L, longer
<1>6. ASSUME IsPrefix(longer, raw) PROVE AgreeTo(raw, name, L + 1)
  <2>1. L + 1 <= Len(raw) /\ SubSeq(longer, 1, L + 1) = SubSeq(raw, 1, L + 1)
    BY <1>3, <1>6 DEF IsPrefix
  <2>2. \A j \in 1..(L + 1) : longer[j] = raw[j]
    <3>1. SubSeq(longer, 1, L + 1) = [j \in 1..(L + 1) |-> longer[j]]
      BY <1>2, <1>3
    <3>2. SubSeq(raw, 1, L + 1) = [j \in 1..(L + 1) |-> raw[j]]
      BY <1>1, <1>2, <2>1
    <3> DEFINE x == SubSeq(longer, 1, L + 1)
               y == SubSeq(raw, 1, L + 1)
    <3> HIDE DEF x, y
    <3>3. x = y /\ x = [j \in 1..(L + 1) |-> longer[j]] /\ y = [j \in 1..(L + 1) |-> raw[j]]
      BY <2>1, <3>1, <3>2 DEF x, y
    <3> QED BY <3>3
  <2>3. L + 1 \in 1..Len(raw) /\ L + 1 \in 1..(L + 1) /\ \A j \in 1..L : j \in 1..(L + 1)
    BY <1>1, <1>2, <2>1
  <2>4. L + 1 \in Dots(raw)
    BY <1>1, <1>3, <2>2, <2>3
  <2>5. \A j \in 1..L : raw[j] = name[j]
    BY <1>3, <2>2, <2>3
  <2> QED BY <1>4, <2>4, <2>5 DEF AgreeTo
<1>7. ASSUME AgreeTo(raw, name, L + 1) PROVE raw = name \/ IsPrefix(longer, raw)
  <2>1. L + 1 \in Dots(raw) /\ L + 1 \in 1..(Len(raw) + 1) /\ \A j \in 1..L : raw[j] = name[j]
    <3>1. L + 1 \in Dots(raw) /\ \A j \in 1..((L + 1) - 1) : raw[j] = name[j]
      BY <1>7 DEF AgreeTo
    <3>2. (L + 1) - 1 = L
      BY <1>2
    <3> QED BY <1>1, <1>2, <3>1, <3>2
  <2>2. CASE L = Len(raw)
    <3>1. \A j \in 1..Len(raw) : raw[j] = name[j]
      BY <2>1, <2>2
    <3>2. Len(raw) = Len(name)
      BY <2>2 DEF L
    <3>3. raw = name
      BY <3>1, <3>2, SeqEqual
    <3> QED BY <3>3
  <2>3. CASE L # Len(raw)
    <3>1. L + 1 \in 1..Len(raw) /\ L + 1 <= Len(raw)
      BY <1>1, <1>2, <2>1, <2>3
    <3>2. raw[L + 1] = Dot
      BY <1>1, <2>1, <3>1
    <3>3. \A j \in 1..(L + 1) : longer[j] = raw[j]
      <4>1. \A j \in 1..(L + 1) : j = L + 1 \/ j \in 1..L
        BY <1>2
      <4> QED BY <1>3, <2>1, <3>2, <4>1
    <3>4. SubSeq(longer, 1, L + 1) = [j \in 1..(L + 1) |-> longer[j]]
      BY <1>2, <1>3
    <3>5. SubSeq(raw, 1, L + 1) = [j \in 1..(L + 1) |-> raw[j]]
      BY <1>1, <1>2, <3>1
    <3>6. SubSeq(longer, 1, L + 1) = SubSeq(raw, 1, L + 1)
      BY <3>3, <3>4, <3>5
    <3>7. IsPrefix(longer, raw)
      BY <1>3, <3>1, <3>6 DEF IsPrefix
    <3> QED BY <3>7
  <2> QED BY <2>2, <2>3
<1>8. QED
  BY <1>5, <1>6, <1>7 DEF InCycle, L, longer

\* Comparing texts as the code does is comparing segments.
LEMMA InCycleIsSegments ==
  ASSUME NEW C, Dot \in C, NEW raw \in Seq(C), NEW name \in Seq(C)
  PROVE  InCycle(raw, name) <=> Segments(name) \subseteq Segments(raw)
BY InCycleAgrees, PrefixHasSegments, SegmentsMakePrefix

\* Of two cycles of a version the shorter name is a cycle of the longer.
LEMMA ShorterIsCycle ==
  ASSUME NEW C, Dot \in C, NEW raw \in Seq(C), NEW short \in Seq(C), NEW long \in Seq(C),
         InCycle(raw, short), InCycle(raw, long), Len(short) <= Len(long)
  PROVE  InCycle(long, short)
<1> DEFINE S == Len(short)
           L == Len(long)
<1>1. S \in Nat /\ L \in Nat /\ Len(raw) \in Nat /\ S <= L
  BY LenProperties
<1>2. S + 1 \in Dots(raw) /\ \A j \in 1..((S + 1) - 1) : raw[j] = short[j]
  BY InCycleAgrees DEF AgreeTo
<1>3. L + 1 \in Dots(raw) /\ \A j \in 1..((L + 1) - 1) : raw[j] = long[j]
  BY InCycleAgrees DEF AgreeTo
<1>4. (S + 1) - 1 = S /\ (L + 1) - 1 = L
  BY <1>1
<1>5. /\ Dots(raw) \subseteq 0..(Len(raw) + 1) /\ Dots(long) \subseteq 0..(L + 1) /\ L + 1 \in Dots(long)
      /\ \A j \in 1..Len(raw) : j \in Dots(raw) <=> raw[j] = Dot
      /\ \A j \in 1..L : j \in Dots(long) <=> long[j] = Dot
  BY DotFacts
<1> HIDE DEF S, L
<1>6. \A j \in 1..S : j \in 1..L /\ long[j] = short[j]
  <2>1. \A j \in 1..S : j \in 1..L
    BY <1>1
  <2>2. (\A j \in 1..S : raw[j] = short[j]) /\ \A j \in 1..L : raw[j] = long[j]
    BY <1>2, <1>3, <1>4
  <2> QED BY <2>1, <2>2
<1>7. S + 1 \in Dots(long)
  <2>1. CASE S = L
    BY <1>5, <2>1
  <2>2. CASE S # L
    <3>1. S + 1 \in 1..L /\ S + 1 \in 1..Len(raw)
      BY <1>1, <1>3, <1>5, <2>2
    <3> QED BY <1>2, <1>3, <1>4, <1>5, <3>1
  <2> QED BY <2>1, <2>2
<1>8. AgreeTo(long, short, S + 1)
  BY <1>4, <1>6, <1>7 DEF AgreeTo
<1>9. QED
  BY <1>8, InCycleAgrees DEF S

--------------------------------------------------------------------------------
(* The choice of a cycle *)

Cycles == CycleNames \cup {Absent}
Longer(best, name, raw) ==
  IF InCycle(raw, name) /\ (best = Absent \/ Len(name) > Len(best)) THEN name ELSE best

\* What lifecycleFor has found in the first k cycles of the list.
IsChoosing(r, cycles, raw) ==
  r[0] = Absent /\ \A k \in 1..Len(cycles) : r[k] = Longer(r[k - 1], cycles[k], raw)

LEMMA CycleRuns ==
  ASSUME NEW cycles \in Seq(CycleNames), NEW raw
  PROVE  \E r \in [0..Len(cycles) -> Cycles] :
           IsChoosing(r, cycles, raw) /\ r[Len(cycles)] = CycleFor(cycles, raw)
<1> DEFINE n == Len(cycles)
           S == Cycles
           base == Absent
           g == [x \in S \X (1..n) |-> Longer(x[1], cycles[x[2]], raw)]
           Iter(f) == f = [u \in SUBSET DOMAIN cycles |->
                             IF u = {} THEN base ELSE Longer(f[u \ {Max(u)}], cycles[Max(u)], raw)]
<1>1. n \in Nat /\ DOMAIN cycles = 1..n /\ \A k \in 1..n : cycles[k] \in CycleNames
  BY LenProperties, ElementOfSeq
<1>2. \A m \in S, k \in 1..n : Longer(m, cycles[k], raw) \in S
  BY <1>1 DEF Longer, Cycles
<1>3. base \in S
  BY DEF Cycles
<1>4. g \in [S \X (1..n) -> S] /\ \A m \in S, k \in 1..n : g[<<m, k>>] = Longer(m, cycles[k], raw)
  BY <1>2
<1> HIDE DEF g, S, base
<1>5. PICK f \in [SUBSET (1..n) -> S] : IsTable(f, n, base, g)
  BY <1>1, <1>3, <1>4, TableExists
<1>6. \A u \in SUBSET (1..n) : f[u] = IF u = {} THEN base ELSE Longer(f[u \ {Max(u)}], cycles[Max(u)], raw)
  <2> SUFFICES ASSUME NEW u \in SUBSET (1..n), u # {} PROVE f[u] = Longer(f[u \ {Max(u)}], cycles[Max(u)], raw)
    BY <1>5 DEF IsTable
  <2>1. Max(u) \in 1..n /\ f[u \ {Max(u)}] \in S
    BY <1>1, MaxOf
  <2>2. QED
    BY <1>4, <1>5, <2>1 DEF IsTable
<1>7. Iter(f)
  BY <1>1, <1>6
<1> DEFINE F == CHOOSE x : Iter(x)
<1>8. Iter(F)
  BY <1>7, Zenon
<1>9. CycleFor(cycles, raw) = F[DOMAIN cycles]
  BY DEF CycleFor, FoldLeft, MapThenFoldSet, base, Longer
<1> HIDE DEF F
<1>10. \A u \in SUBSET (1..n) : F[u] = IF u = {} THEN base ELSE Longer(F[u \ {Max(u)}], cycles[Max(u)], raw)
  BY <1>1, <1>8
<1>11. Follows(F, n, S, base, g)
  <2> SUFFICES ASSUME NEW u \in SUBSET (1..n), u # {}, F[u \ {Max(u)}] \in S
               PROVE  F[u] = g[<<F[u \ {Max(u)}], Max(u)>>]
    BY <1>10 DEF Follows
  <2>1. Max(u) \in 1..n
    BY <1>1, MaxOf
  <2>2. QED
    BY <1>4, <1>10, <2>1
<1>12. PICK h \in [0..n -> S] : h[n] = F[1..n] /\ IsRecursion(h, n, base, g)
  BY <1>1, <1>3, <1>4, <1>11, FoldRuns
<1>13. IsChoosing(h, cycles, raw)
  <2>0. 0 \in 0..n
    BY <1>1
  <2>1. h[0] = base
    BY <1>12, <2>0 DEF IsRecursion
  <2>2. ASSUME NEW k \in 1..n PROVE h[k] = Longer(h[k - 1], cycles[k], raw)
    <3>1. k \in 0..n /\ k - 1 \in 0..n /\ k # 0
      BY <1>1
    <3>2. h[k - 1] \in S
      BY <3>1
    <3>3. QED
      BY <1>4, <1>12, <3>1, <3>2 DEF IsRecursion
  <2>3. QED
    BY <2>1, <2>2 DEF IsChoosing, base
<1>14. QED
  BY <1>1, <1>9, <1>12, <1>13 DEF S

\* The chosen cycle has the longest name of those that fit.
LEMMA LongestFits ==
  ASSUME NEW cycles \in Seq(CycleNames), NEW raw, \A name \in CycleNames : Len(name) \in Nat,
         NEW cycle, cycle = CycleFor(cycles, raw)
  PROVE  \/ cycle = Absent /\ \A k \in 1..Len(cycles) : ~InCycle(raw, cycles[k])
         \/ /\ cycle \in Range(cycles) /\ InCycle(raw, cycle)
            /\ \A k \in 1..Len(cycles) : InCycle(raw, cycles[k]) => Len(cycles[k]) <= Len(cycle)
<1> DEFINE n == Len(cycles)
           Fits(k) == InCycle(raw, cycles[k])
<1>1. n \in Nat /\ DOMAIN cycles = 1..n /\ \A k \in 1..n : cycles[k] \in CycleNames
  BY LenProperties, ElementOfSeq
<1>2. PICK r \in [0..n -> Cycles] : IsChoosing(r, cycles, raw) /\ r[n] = CycleFor(cycles, raw)
  BY CycleRuns
<1>3. r[0] = Absent /\ \A k \in 1..n : r[k] = Longer(r[k - 1], cycles[k], raw)
  BY <1>2 DEF IsChoosing
<1> HIDE DEF n
<1> DEFINE None(m) == r[m] = Absent /\ \A k \in 1..m : ~Fits(k)
           Best(m) == /\ r[m] # Absent /\ r[m] \in Range(cycles) /\ InCycle(raw, r[m])
                      /\ \A k \in 1..m : Fits(k) => Len(cycles[k]) <= Len(r[m])
           T == {m \in 0..n : None(m) \/ Best(m)}
<1>4. 0 \in T
  BY <1>1, <1>3
<1>5. ASSUME NEW m \in 1..n, None(m - 1) \/ Best(m - 1) PROVE None(m) \/ Best(m)
  <2>1. r[m] = Longer(r[m - 1], cycles[m], raw) /\ m - 1 \in 0..n
    BY <1>1, <1>3
  <2>2. cycles[m] # Absent /\ cycles[m] \in Range(cycles) /\ Len(cycles[m]) \in Nat
    BY <1>1, CyclesAssumption DEF Range
  <2>3. \A k \in 1..m : k = m \/ k \in 1..(m - 1)
    BY <1>1
  <2>4. \A name \in Range(cycles) : Len(name) \in Nat
    BY <1>1 DEF Range
  <2>5. CASE None(m - 1)
    <3>1. CASE Fits(m)
      <4>1. r[m] = cycles[m]
        BY <2>1, <2>5, <3>1 DEF Longer
      <4>2. \A k \in 1..m : Fits(k) => Len(cycles[k]) <= Len(r[m])
        BY <2>2, <2>3, <2>5, <4>1
      <4> QED BY <2>2, <3>1, <4>1, <4>2
    <3>2. CASE ~Fits(m)
      <4>1. r[m] = Absent
        BY <2>1, <2>5, <3>2 DEF Longer
      <4> QED BY <2>3, <2>5, <3>2, <4>1
    <3> QED BY <3>1, <3>2
  <2>6. CASE Best(m - 1)
    <3> DEFINE best == r[m - 1]
    <3>1. best # Absent /\ best \in Range(cycles) /\ InCycle(raw, best) /\ Len(best) \in Nat
      BY <2>4, <2>6
    <3>2. \A k \in 1..(m - 1) : Fits(k) => Len(cycles[k]) <= Len(best)
      BY <2>6
    <3>3. \A k \in 1..(m - 1) : Len(cycles[k]) \in Nat
      BY <1>1
    <3> HIDE DEF best, Fits
    <3>4. CASE Fits(m) /\ Len(cycles[m]) > Len(best)
      <4>1. r[m] = cycles[m]
        BY <2>1, <3>4 DEF Longer, Fits, best
      <4>2. \A k \in 1..m : Fits(k) => Len(cycles[k]) <= Len(r[m])
        BY <2>2, <2>3, <3>1, <3>2, <3>3, <3>4, <4>1
      <4> QED BY <2>2, <3>4, <4>1, <4>2 DEF Fits
    <3>5. CASE ~(Fits(m) /\ Len(cycles[m]) > Len(best))
      <4>1. r[m] = best
        BY <2>1, <3>1, <3>5 DEF Longer, Fits, best
      <4>2. Fits(m) => Len(cycles[m]) <= Len(best)
        BY <2>2, <3>1, <3>5
      <4> QED BY <2>3, <3>1, <3>2, <4>1, <4>2
    <3> QED BY <3>4, <3>5
  <2> QED BY <1>5, <2>5, <2>6
<1>6. \A m \in 0..(n - 1) : m \in T => m + 1 \in T
  <2> SUFFICES ASSUME NEW m \in 0..(n - 1), None(m) \/ Best(m)
               PROVE  m + 1 \in 0..n /\ (None(m + 1) \/ Best(m + 1))
    OBVIOUS
  <2>1. m + 1 \in 1..n /\ m + 1 \in 0..n /\ (m + 1) - 1 = m
    BY <1>1
  <2> HIDE DEF None, Best
  <2>2. None((m + 1) - 1) \/ Best((m + 1) - 1)
    BY <2>1
  <2> QED BY <1>5, <2>1, <2>2
<1> HIDE DEF T
<1>7. n \in T
  BY <1>1, <1>4, <1>6, SetInduction
<1>8. None(n) \/ Best(n)
  BY <1>7 DEF T
<1>9. QED
  BY <1>2, <1>8 DEF n

\* The cycle of a version is the one that shares most segments with it, for all texts of
\* versions and all lists of cycles: the longest text is the closest cycle (lifecycleFor).
THEOREM CycleCorrect == Spec => []CycleIsClosest
<1>1. TypeOK => CycleIsClosest
  <2> SUFFICES ASSUME TypeOK, NEW cycles \in CycleLists,
                      NEW fitting, fitting = {name \in Range(cycles) : Segments(name) \subseteq Segments(text)},
                      NEW cycle, cycle = CycleFor(cycles, text)
               PROVE  IF fitting = {} THEN cycle = Absent
                      ELSE cycle \in fitting /\ \A name \in fitting : Segments(name) \subseteq Segments(cycle)
    BY DEF CycleIsClosest
  <2> DEFINE C == (UNION {Range(t) : t \in Texts \cup CycleNames}) \cup {Dot}
             raw == text
  <2>1. \A t \in Texts \cup CycleNames : t \in Seq(C)
    <3> SUFFICES ASSUME NEW t \in Texts \cup CycleNames PROVE t \in Seq(C)
      OBVIOUS
    <3>1. t \in Seq(Range(t)) /\ Range(t) \subseteq C
      BY TextsAssumption
    <3> HIDE DEF C
    <3> QED BY <3>1, SeqMonotonic
  <2>2. Dot \in C /\ raw \in Seq(C) /\ \A name \in CycleNames : name \in Seq(C)
    BY <2>1 DEF TypeOK
  <2> HIDE DEF C
  <2>3. cycles \in Seq(CycleNames) /\ \A name \in CycleNames : Len(name) \in Nat
    BY <2>2, CyclesAssumption, LenProperties
  <2>4. /\ Range(cycles) = {cycles[k] : k \in 1..Len(cycles)}
        /\ \A name \in Range(cycles) : name \in CycleNames /\ name \in Seq(C)
    BY <2>2, <2>3, LenProperties, ElementOfSeq DEF Range
  <2>5. \A name \in Range(cycles) : InCycle(raw, name) <=> Segments(name) \subseteq Segments(raw)
    BY <2>2, <2>4, InCycleIsSegments
  <2>6. \A name \in Range(cycles) : name \in fitting <=> InCycle(raw, name)
    BY <2>5
  <2>7. cycle = CycleFor(cycles, raw)
    OBVIOUS
  <2>8. CASE cycle = Absent /\ \A k \in 1..Len(cycles) : ~InCycle(raw, cycles[k])
    <3>1. fitting = {}
      BY <2>4, <2>6, <2>8
    <3> QED BY <2>8, <3>1
  <2>9. CASE /\ cycle \in Range(cycles) /\ InCycle(raw, cycle)
             /\ \A k \in 1..Len(cycles) : InCycle(raw, cycles[k]) => Len(cycles[k]) <= Len(cycle)
    <3>1. cycle \in fitting
      BY <2>6, <2>9
    <3>2. ASSUME NEW name \in fitting PROVE Segments(name) \subseteq Segments(cycle)
      <4>1. name \in Range(cycles) /\ InCycle(raw, name)
        BY <2>6
      <4>2. Len(name) <= Len(cycle)
        BY <2>4, <2>9, <4>1
      <4>3. name \in Seq(C) /\ cycle \in Seq(C)
        BY <2>4, <2>9, <4>1
      <4>4. InCycle(cycle, name)
        BY <2>2, <2>9, <4>1, <4>2, <4>3, ShorterIsCycle
      <4> QED BY <2>2, <4>3, <4>4, InCycleIsSegments
    <3> QED BY <3>1, <3>2
  <2> HIDE DEF raw
  <2>10. QED
    BY <2>3, <2>7, <2>8, <2>9, LongestFits
<1>2. QED
  BY <1>1, TypeCorrect, PTL

--------------------------------------------------------------------------------
(* Sorting *)

\* t is s with x at position p.
IsInsertion(t, s, p, x) ==
  /\ Len(t) = Len(s) + 1 /\ t[p] = x
  /\ \A i \in 1..(p - 1) : t[i] = s[i]
  /\ \A i \in p..Len(s) : t[i + 1] = s[i]

LEMMA InsertAtFacts ==
  ASSUME NEW S, NEW s \in Seq(S), NEW p \in 1..Len(s), NEW x \in S, NEW t, t = InsertAt(s, p, x)
  PROVE  t \in Seq(S) /\ IsInsertion(t, s, p, x)
<1> DEFINE n == Len(s)
           a == SubSeq(s, 1, p - 1)
           b == SubSeq(s, p, n)
           c == <<x>>
<1>1. n \in Nat /\ p \in 1..n /\ p - 1 \in Int /\ p \in Int /\ 1 \in Int /\ n \in Int
  BY LenProperties
<1>2. \A i \in 1..n : s[i] \in S
  BY ElementOfSeq
<1>3. a \in Seq(S) /\ Len(a) = p - 1 /\ \A i \in 1..(p - 1) : a[i] = s[i]
  <2>1. \A i \in 1..(p - 1) : s[i] \in S /\ 1 + i - 1 = i
    BY <1>1, <1>2
  <2>2. /\ a \in Seq(S) /\ Len(a) = IF 1 <= p - 1 THEN (p - 1) - 1 + 1 ELSE 0
        /\ \A i \in 1..((p - 1) - 1 + 1) : a[i] = s[1 + i - 1]
    BY <1>1, <2>1, SubSeqProperties
  <2>3. (p - 1) - 1 + 1 = p - 1 /\ (~(1 <= p - 1) => p - 1 = 0)
    BY <1>1
  <2> HIDE DEF a
  <2> QED BY <2>1, <2>2, <2>3
<1>4. b \in Seq(S) /\ Len(b) = n - p + 1 /\ \A i \in 1..(n - p + 1) : b[i] = s[p + i - 1]
  <2>1. \A i \in p..n : s[i] \in S
    BY <1>1, <1>2
  <2>2. /\ b \in Seq(S) /\ Len(b) = IF p <= n THEN n - p + 1 ELSE 0
        /\ \A i \in 1..(n - p + 1) : b[i] = s[p + i - 1]
    BY <1>1, <2>1, SubSeqProperties
  <2>3. p <= n
    BY <1>1
  <2> HIDE DEF b
  <2> QED BY <2>2, <2>3
<1>5. c \in Seq(S) /\ Len(c) = 1 /\ c[1] = x
  OBVIOUS
<1>6. t = (a \o c) \o b
  BY DEF InsertAt
<1> HIDE DEF a, b, c, n
<1> DEFINE d == a \o c
<1>7. /\ d \in Seq(S) /\ Len(d) = p
      /\ \A i \in 1..p : d[i] = IF i <= p - 1 THEN a[i] ELSE c[i - (p - 1)]
  <2>1. /\ d \in Seq(S) /\ Len(d) = Len(a) + Len(c)
        /\ \A i \in 1..(Len(a) + Len(c)) : d[i] = IF i <= Len(a) THEN a[i] ELSE c[i - Len(a)]
    BY <1>3, <1>5, ConcatProperties
  <2>2. Len(a) + Len(c) = p
    BY <1>1, <1>3, <1>5
  <2> HIDE DEF d
  <2> QED BY <1>3, <2>1, <2>2
<1> HIDE DEF d
<1>8. /\ t \in Seq(S) /\ Len(t) = n + 1
      /\ \A i \in 1..(n + 1) : t[i] = IF i <= p THEN d[i] ELSE b[i - p]
  <2>1. /\ d \o b \in Seq(S) /\ Len(d \o b) = Len(d) + Len(b)
        /\ \A i \in 1..(Len(d) + Len(b)) : (d \o b)[i] = IF i <= Len(d) THEN d[i] ELSE b[i - Len(d)]
    BY <1>4, <1>7, ConcatProperties
  <2>2. Len(d) + Len(b) = n + 1
    BY <1>1, <1>4, <1>7
  <2>3. t = d \o b
    BY <1>6 DEF d
  <2> QED BY <1>7, <2>1, <2>2, <2>3
<1>9. \A i \in 1..(p - 1) : t[i] = s[i]
  <2> SUFFICES ASSUME NEW i \in 1..(p - 1) PROVE t[i] = s[i]
    OBVIOUS
  <2>1. i \in 1..p /\ i \in 1..(n + 1) /\ i <= p /\ i <= p - 1
    BY <1>1
  <2> QED BY <1>3, <1>7, <1>8, <2>1
<1>10. t[p] = x
  <2>1. p \in 1..p /\ p \in 1..(n + 1) /\ p <= p /\ ~(p <= p - 1) /\ p - (p - 1) = 1
    BY <1>1
  <2> QED BY <1>5, <1>7, <1>8, <2>1
<1>11. \A i \in p..n : t[i + 1] = s[i]
  <2> SUFFICES ASSUME NEW i \in p..n PROVE t[i + 1] = s[i]
    OBVIOUS
  <2>1. i + 1 \in 1..(n + 1) /\ ~(i + 1 <= p) /\ (i + 1) - p \in 1..(n - p + 1) /\ p + ((i + 1) - p) - 1 = i
    BY <1>1
  <2>2. t[i + 1] = b[(i + 1) - p]
    BY <1>8, <2>1
  <2>3. b[(i + 1) - p] = s[p + ((i + 1) - p) - 1]
    BY <1>4, <2>1
  <2> QED BY <2>1, <2>2, <2>3
<1>12. QED
  BY <1>8, <1>9, <1>10, <1>11 DEF n, IsInsertion

\* Each element of a list comes before all after it.
IsOrdered(s, order) == \A i, j \in DOMAIN s : i < j => <<s[i], s[j]>> \in order

\* x can be put into the list s.
FitsIn(s, x, order) ==
  /\ \A y \in Range(s) : <<x, y>> \in order \/ <<y, x>> \in order
  /\ \A y, z \in Range(s) : <<x, y>> \in order /\ <<y, z>> \in order => <<x, z>> \in order

LEMMA InsertedType ==
  ASSUME NEW S, NEW s \in Seq(S), NEW x \in S, NEW order
  PROVE  Inserted(s, x, order) \in Seq(S)
<1> DEFINE later == {i \in DOMAIN s : <<x, s[i]>> \in order}
<1>1. CASE later = {}
  BY <1>1, AppendProperties DEF Inserted
<1>2. CASE later # {}
  <2>1. DOMAIN s = 1..Len(s) /\ Len(s) \in Nat /\ later \in SUBSET Nat /\ later \subseteq 1..Len(s)
    BY LenProperties
  <2>2. Min(later) \in 1..Len(s)
    <3> HIDE DEF later
    <3> QED BY <1>2, <2>1, MinOf
  <2>3. Inserted(s, x, order) = InsertAt(s, Min(later), x)
    BY <1>2 DEF Inserted
  <2> HIDE DEF later
  <2> QED BY <2>2, <2>3, InsertAtFacts
<1>3. QED
  BY <1>1, <1>2

LEMMA InsertKeepsOrder ==
  ASSUME NEW S, NEW s \in Seq(S), NEW x \in S, NEW order, IsOrdered(s, order), FitsIn(s, x, order),
         NEW t, t = Inserted(s, x, order)
  PROVE  IsOrdered(t, order) /\ Range(t) = Range(s) \cup {x}
<1> DEFINE n == Len(s)
           later == {i \in DOMAIN s : <<x, s[i]>> \in order}
<1>1. n \in Nat /\ DOMAIN s = 1..n /\ \A i \in 1..n : s[i] \in S /\ s[i] \in Range(s)
  BY LenProperties, ElementOfSeq DEF Range
<1>2. \A i, j \in 1..n : i < j => <<s[i], s[j]>> \in order
  BY <1>1 DEF IsOrdered
<1>3. \A i \in 1..n : i \in later <=> <<x, s[i]>> \in order
  BY <1>1
<1>4. \A i \in 1..n : i \notin later => <<s[i], x>> \in order
  BY <1>1, <1>3 DEF FitsIn
<1>5. Range(s) = {s[i] : i \in 1..n}
  BY <1>1 DEF Range
<1>6. CASE later = {}
  <2>1. t = Append(s, x)
    BY <1>6 DEF Inserted
  <2> HIDE DEF later, n
  <2>2. DOMAIN t = 1..(n + 1) /\ t[n + 1] = x /\ \A i \in 1..n : t[i] = s[i]
    <3>1. n = Len(s)
      BY DEF n
    <3> QED BY <1>1, <2>1, <3>1, AppendProperties, LenProperties
  <2>3. \A i \in 1..(n + 1) : i = n + 1 \/ i \in 1..n
    BY <1>1
  <2>4. n + 1 \in 1..(n + 1) /\ \A i \in 1..n : i \in 1..(n + 1)
    BY <1>1
  <2>5. IsOrdered(t, order)
    <3> SUFFICES ASSUME NEW i \in 1..(n + 1), NEW j \in 1..(n + 1), i < j PROVE <<t[i], t[j]>> \in order
      BY <2>2 DEF IsOrdered
    <3>1. i \in 1..n
      BY <1>1
    <3>2. CASE j = n + 1
      BY <1>4, <1>6, <2>2, <3>1, <3>2
    <3>3. CASE j \in 1..n
      BY <1>2, <2>2, <3>1, <3>3
    <3> QED BY <2>3, <3>2, <3>3
  <2>6. Range(t) = {t[i] : i \in 1..(n + 1)}
    BY <2>2 DEF Range
  <2>7. Range(t) = Range(s) \cup {x}
    BY <1>5, <2>2, <2>3, <2>4, <2>6
  <2> QED BY <2>5, <2>7
<1>7. CASE later # {}
  <2> DEFINE p == Min(later)
  <2>1. later \in SUBSET Nat /\ later \subseteq 1..n
    BY <1>1
  <2>2. t = InsertAt(s, p, x)
    BY <1>7 DEF Inserted
  <2> HIDE DEF later
  <2>3. p \in later /\ \A i \in later : p <= i
    BY <1>7, <2>1, MinOf
  <2> HIDE DEF p
  <2>4. p \in 1..n
    BY <2>1, <2>3
  <2>5. /\ t \in Seq(S) /\ Len(t) = n + 1
        /\ \A i \in 1..(p - 1) : t[i] = s[i]
        /\ t[p] = x
        /\ \A i \in p..n : t[i + 1] = s[i]
    <3>1. p \in 1..Len(s) /\ t = InsertAt(s, p, x)
      BY <2>2, <2>4
    <3>2. t \in Seq(S) /\ IsInsertion(t, s, p, x)
      BY <3>1, InsertAtFacts
    <3> QED BY <3>2 DEF IsInsertion
  <2> HIDE DEF n
  <2>6. \A i \in 1..(p - 1) : i \in 1..n /\ <<s[i], x>> \in order
    <3>1. \A i \in 1..(p - 1) : i \in 1..n /\ i \notin later
      BY <1>1, <2>3, <2>4
    <3> QED BY <1>4, <3>1
  <2>7. \A i \in p..n : i \in 1..n /\ <<x, s[i]>> \in order
    <3> SUFFICES ASSUME NEW i \in p..n PROVE i \in 1..n /\ <<x, s[i]>> \in order
      OBVIOUS
    <3>1. i \in 1..n /\ (i = p \/ p < i)
      BY <1>1, <2>4
    <3>2. <<x, s[p]>> \in order
      BY <1>3, <2>3, <2>4
    <3>3. CASE p < i
      <4>1. <<s[p], s[i]>> \in order
        BY <1>2, <2>4, <3>1, <3>3
      <4> QED BY <1>1, <2>4, <3>1, <3>2, <4>1 DEF FitsIn
    <3> QED BY <3>1, <3>2, <3>3
  <2>8. DOMAIN t = 1..(n + 1)
    BY <2>5, LenProperties
  <2>9. \A k \in 1..(n + 1) : \/ k \in 1..(p - 1) /\ t[k] = s[k]
                              \/ k = p /\ t[k] = x
                              \/ k - 1 \in p..n /\ t[k] = s[k - 1]
    <3> SUFFICES ASSUME NEW k \in 1..(n + 1) PROVE \/ k \in 1..(p - 1) /\ t[k] = s[k]
                                                   \/ k = p /\ t[k] = x
                                                   \/ k - 1 \in p..n /\ t[k] = s[k - 1]
      OBVIOUS
    <3>1. k \in 1..(p - 1) \/ k = p \/ (k - 1 \in p..n /\ (k - 1) + 1 = k)
      BY <1>1, <2>4
    <3> QED BY <2>5, <3>1
  <2>10. IsOrdered(t, order)
    <3> SUFFICES ASSUME NEW i \in 1..(n + 1), NEW j \in 1..(n + 1), i < j PROVE <<t[i], t[j]>> \in order
      BY <2>8 DEF IsOrdered
    <3>1. CASE j \in 1..(p - 1) /\ t[j] = s[j]
      <4>1. i \in 1..(p - 1)
        BY <2>4, <3>1
      <4> QED BY <1>2, <2>5, <2>6, <3>1, <4>1
    <3>2. CASE j = p /\ t[j] = x
      <4>1. i \in 1..(p - 1)
        BY <2>4, <3>2
      <4> QED BY <2>5, <2>6, <3>2, <4>1
    <3>3. CASE j - 1 \in p..n /\ t[j] = s[j - 1]
      <4>1. j - 1 \in 1..n /\ j - 1 \in Nat /\ j - 1 >= p
        BY <2>4, <2>7, <3>3
      <4>2. CASE i \in 1..(p - 1) /\ t[i] = s[i]
        <5>1. i \in 1..n /\ i < j - 1
          BY <1>1, <2>4, <2>6, <4>1, <4>2
        <5> QED BY <1>2, <3>3, <4>1, <4>2, <5>1
      <4>3. CASE i = p /\ t[i] = x
        BY <2>7, <3>3, <4>3
      <4>4. CASE i - 1 \in p..n /\ t[i] = s[i - 1]
        <5>1. i - 1 \in 1..n /\ i - 1 < j - 1
          BY <1>1, <2>4, <2>7, <4>1, <4>4
        <5> QED BY <1>2, <3>3, <4>1, <4>4, <5>1
      <4> QED BY <2>9, <4>2, <4>3, <4>4
    <3> QED BY <2>9, <3>1, <3>2, <3>3
  <2>11. Range(t) = {t[i] : i \in 1..(n + 1)}
    BY <2>8 DEF Range
  <2>12. Range(t) \subseteq Range(s) \cup {x}
    BY <1>5, <2>6, <2>7, <2>9, <2>11
  <2>13. Range(s) \cup {x} \subseteq Range(t)
    <3>1. x \in Range(t)
      <4>1. p \in 1..(n + 1)
        BY <1>1, <2>4
      <4> QED BY <2>5, <2>11, <4>1
    <3>2. ASSUME NEW i \in 1..n PROVE s[i] \in Range(t)
      <4>1. i \in 1..(n + 1) /\ i + 1 \in 1..(n + 1) /\ (i \in 1..(p - 1) \/ i \in p..n)
        BY <1>1, <2>4
      <4> QED BY <2>5, <2>11, <4>1
    <3> QED BY <1>5, <3>1, <3>2
  <2> QED BY <2>10, <2>12, <2>13
<1>8. QED
  BY <1>6, <1>7

\* What sorting has made of the first k elements of a list.
IsSorting(r, s, order) == r[0] = <<>> /\ \A k \in 1..Len(s) : r[k] = Inserted(r[k - 1], s[k], order)

LEMMA SortRuns ==
  ASSUME NEW C, NEW s \in Seq(C), NEW order
  PROVE  \E r \in [0..Len(s) -> Seq(C)] : IsSorting(r, s, order) /\ r[Len(s)] = Sorted(s, order)
<1> DEFINE n == Len(s)
           S == Seq(C)
           base == <<>>
           g == [x \in S \X (1..n) |-> Inserted(x[1], s[x[2]], order)]
           Iter(f) == f = [u \in SUBSET DOMAIN s |->
                             IF u = {} THEN base ELSE Inserted(f[u \ {Max(u)}], s[Max(u)], order)]
<1>1. n \in Nat /\ DOMAIN s = 1..n /\ \A k \in 1..n : s[k] \in C
  BY LenProperties, ElementOfSeq
<1>2. \A m \in S, k \in 1..n : Inserted(m, s[k], order) \in S
  BY <1>1, InsertedType
<1>3. base \in S
  BY EmptySeq
<1>4. g \in [S \X (1..n) -> S] /\ \A m \in S, k \in 1..n : g[<<m, k>>] = Inserted(m, s[k], order)
  BY <1>2
<1> HIDE DEF g, S, base
<1>5. PICK f \in [SUBSET (1..n) -> S] : IsTable(f, n, base, g)
  BY <1>1, <1>3, <1>4, TableExists
<1>6. \A u \in SUBSET (1..n) : f[u] = IF u = {} THEN base ELSE Inserted(f[u \ {Max(u)}], s[Max(u)], order)
  <2> SUFFICES ASSUME NEW u \in SUBSET (1..n), u # {} PROVE f[u] = Inserted(f[u \ {Max(u)}], s[Max(u)], order)
    BY <1>5 DEF IsTable
  <2>1. Max(u) \in 1..n /\ f[u \ {Max(u)}] \in S
    BY <1>1, MaxOf
  <2> QED BY <1>4, <1>5, <2>1 DEF IsTable
<1>7. Iter(f)
  BY <1>1, <1>6
<1> DEFINE F == CHOOSE x : Iter(x)
<1>8. Iter(F)
  BY <1>7, Zenon
<1>9. Sorted(s, order) = F[DOMAIN s]
  BY DEF Sorted, FoldLeft, MapThenFoldSet, base
<1> HIDE DEF F
<1>10. \A u \in SUBSET (1..n) : F[u] = IF u = {} THEN base ELSE Inserted(F[u \ {Max(u)}], s[Max(u)], order)
  BY <1>1, <1>8
<1>11. Follows(F, n, S, base, g)
  <2> SUFFICES ASSUME NEW u \in SUBSET (1..n), u # {}, F[u \ {Max(u)}] \in S
               PROVE  F[u] = g[<<F[u \ {Max(u)}], Max(u)>>]
    BY <1>10 DEF Follows
  <2>1. Max(u) \in 1..n
    BY <1>1, MaxOf
  <2> QED BY <1>4, <1>10, <2>1
<1>12. PICK h \in [0..n -> S] : h[n] = F[1..n] /\ IsRecursion(h, n, base, g)
  BY <1>1, <1>3, <1>4, <1>11, FoldRuns
<1>13. IsSorting(h, s, order)
  <2>1. 0 \in 0..n
    BY <1>1
  <2>2. h[0] = base
    BY <1>12, <2>1 DEF IsRecursion
  <2>3. ASSUME NEW k \in 1..n PROVE h[k] = Inserted(h[k - 1], s[k], order)
    <3>1. k \in 0..n /\ k - 1 \in 0..n /\ k # 0
      BY <1>1
    <3>2. h[k - 1] \in S
      BY <3>1
    <3> QED BY <1>4, <1>12, <3>1, <3>2 DEF IsRecursion
  <2> QED BY <2>2, <2>3 DEF IsSorting, base
<1> QED BY <1>1, <1>9, <1>12, <1>13 DEF S

\* A list whose elements are all comparable and distinct is sorted, and keeps its elements.
IsTotal(order, all) ==
  /\ \A x, y \in all : x # y => <<x, y>> \in order \/ <<y, x>> \in order
  /\ \A x, y, z \in all : <<x, y>> \in order /\ <<y, z>> \in order => <<x, z>> \in order

LEMMA SortedFacts ==
  ASSUME NEW C, NEW s \in Seq(C), IsInjective(s), NEW order, IsTotal(order, Range(s)),
         NEW t, t = Sorted(s, order)
  PROVE  t \in Seq(C) /\ IsOrdered(t, order) /\ Range(t) = Range(s)
<1> DEFINE n == Len(s)
<1>1. n \in Nat /\ DOMAIN s = 1..n /\ \A k \in 1..n : s[k] \in C
  BY LenProperties, ElementOfSeq
<1>2. PICK r \in [0..n -> Seq(C)] : IsSorting(r, s, order) /\ r[n] = Sorted(s, order)
  BY SortRuns
<1>3. r[0] = <<>> /\ \A k \in 1..n : r[k] = Inserted(r[k - 1], s[k], order)
  BY <1>2 DEF IsSorting
<1>4. Range(s) = {s[j] : j \in 1..n}
  BY <1>1 DEF Range
<1> HIDE DEF n
<1> DEFINE First(k) == {s[j] : j \in 1..k}
           Done(k) == IsOrdered(r[k], order) /\ Range(r[k]) = First(k)
           T == {k \in 0..n : Done(k)}
<1>5. 0 \in T
  <2>1. DOMAIN r[0] = {}
    BY <1>3
  <2>2. IsOrdered(r[0], order)
    BY <2>1 DEF IsOrdered
  <2>3. Range(r[0]) = {}
    BY <2>1 DEF Range
  <2>4. First(0) = {}
    OBVIOUS
  <2> QED BY <1>1, <2>2, <2>3, <2>4
<1>6. ASSUME NEW k \in 1..n, Done(k - 1) PROVE Done(k)
  <2> DEFINE u == r[k - 1]
             x == s[k]
  <2>1. u \in Seq(C) /\ x \in C /\ r[k] = Inserted(u, x, order) /\ IsOrdered(u, order)
    <3>1. k - 1 \in 0..n
      BY <1>1
    <3> QED BY <1>1, <1>2, <1>3, <1>6, <3>1
  <2>2. Range(u) = First(k - 1)
    BY <1>6
  <2>3. \A y \in Range(u) : y \in Range(s) /\ y # x
    <3> SUFFICES ASSUME NEW j \in 1..(k - 1) PROVE s[j] \in Range(s) /\ s[j] # x
      BY <2>2
    <3>1. j \in 1..n /\ j # k
      BY <1>1
    <3> QED BY <1>1, <1>4, <3>1 DEF IsInjective
  <2>4. x \in Range(s)
    BY <1>4
  <2> HIDE DEF u, x
  <2>5. FitsIn(u, x, order)
    BY <2>3, <2>4 DEF FitsIn, IsTotal
  <2>6. IsOrdered(r[k], order) /\ Range(r[k]) = Range(u) \cup {x}
    BY <2>1, <2>5, InsertKeepsOrder
  <2>7. First(k) = First(k - 1) \cup {x}
    <3>1. \A j \in 1..k : j = k \/ j \in 1..(k - 1)
      BY <1>1
    <3>2. k \in 1..k /\ \A j \in 1..(k - 1) : j \in 1..k
      BY <1>1
    <3> QED BY <3>1, <3>2 DEF x
  <2> QED BY <2>2, <2>6, <2>7
<1>7. \A k \in 0..(n - 1) : k \in T => k + 1 \in T
  <2> SUFFICES ASSUME NEW k \in 0..(n - 1), Done(k) PROVE k + 1 \in 0..n /\ Done(k + 1)
    OBVIOUS
  <2>1. k + 1 \in 1..n /\ k + 1 \in 0..n /\ (k + 1) - 1 = k
    BY <1>1
  <2> HIDE DEF Done
  <2>2. Done((k + 1) - 1)
    BY <2>1
  <2> QED BY <1>6, <2>1, <2>2
<1> HIDE DEF T
<1>8. n \in T
  BY <1>1, <1>5, <1>7, SetInduction
<1>9. Done(n) /\ n \in 0..n
  BY <1>1, <1>8 DEF T
<1> QED BY <1>2, <1>4, <1>9

--------------------------------------------------------------------------------
(* Merging *)

KeptFirst(merged, v) == IF \E w \in Range(merged) : w.id = v.id THEN merged ELSE Append(merged, v)

Merged(s) == FoldLeft(KeptFirst, <<>>, s)

\* What mergeVulnerabilities has kept of the first k.
IsMerging(r, s) == r[0] = <<>> /\ \A k \in 1..Len(s) : r[k] = KeptFirst(r[k - 1], s[k])

LEMMA MergeRuns ==
  ASSUME NEW C, NEW s \in Seq(C)
  PROVE  \E r \in [0..Len(s) -> Seq(C)] : IsMerging(r, s) /\ r[Len(s)] = Merged(s)
<1> DEFINE n == Len(s)
           S == Seq(C)
           base == <<>>
           g == [x \in S \X (1..n) |-> KeptFirst(x[1], s[x[2]])]
           Iter(f) == f = [u \in SUBSET DOMAIN s |->
                             IF u = {} THEN base ELSE KeptFirst(f[u \ {Max(u)}], s[Max(u)])]
<1>1. n \in Nat /\ DOMAIN s = 1..n /\ \A k \in 1..n : s[k] \in C
  BY LenProperties, ElementOfSeq
<1>2. \A m \in S, k \in 1..n : KeptFirst(m, s[k]) \in S
  BY <1>1, AppendProperties DEF KeptFirst
<1>3. base \in S
  BY EmptySeq
<1>4. g \in [S \X (1..n) -> S] /\ \A m \in S, k \in 1..n : g[<<m, k>>] = KeptFirst(m, s[k])
  BY <1>2
<1> HIDE DEF g, S, base
<1>5. PICK f \in [SUBSET (1..n) -> S] : IsTable(f, n, base, g)
  BY <1>1, <1>3, <1>4, TableExists
<1>6. \A u \in SUBSET (1..n) : f[u] = IF u = {} THEN base ELSE KeptFirst(f[u \ {Max(u)}], s[Max(u)])
  <2> SUFFICES ASSUME NEW u \in SUBSET (1..n), u # {} PROVE f[u] = KeptFirst(f[u \ {Max(u)}], s[Max(u)])
    BY <1>5 DEF IsTable
  <2>1. Max(u) \in 1..n /\ f[u \ {Max(u)}] \in S
    BY <1>1, MaxOf
  <2> QED BY <1>4, <1>5, <2>1 DEF IsTable
<1>7. Iter(f)
  BY <1>1, <1>6
<1> DEFINE F == CHOOSE x : Iter(x)
<1>8. Iter(F)
  BY <1>7, Zenon
<1>9. Merged(s) = F[DOMAIN s]
  BY DEF Merged, FoldLeft, MapThenFoldSet, base
<1> HIDE DEF F
<1>10. \A u \in SUBSET (1..n) : F[u] = IF u = {} THEN base ELSE KeptFirst(F[u \ {Max(u)}], s[Max(u)])
  BY <1>1, <1>8
<1>11. Follows(F, n, S, base, g)
  <2> SUFFICES ASSUME NEW u \in SUBSET (1..n), u # {}, F[u \ {Max(u)}] \in S
               PROVE  F[u] = g[<<F[u \ {Max(u)}], Max(u)>>]
    BY <1>10 DEF Follows
  <2>1. Max(u) \in 1..n
    BY <1>1, MaxOf
  <2> QED BY <1>4, <1>10, <2>1
<1>12. PICK h \in [0..n -> S] : h[n] = F[1..n] /\ IsRecursion(h, n, base, g)
  BY <1>1, <1>3, <1>4, <1>11, FoldRuns
<1>13. IsMerging(h, s)
  <2>1. 0 \in 0..n
    BY <1>1
  <2>2. h[0] = base
    BY <1>12, <2>1 DEF IsRecursion
  <2>3. ASSUME NEW k \in 1..n PROVE h[k] = KeptFirst(h[k - 1], s[k])
    <3>1. k \in 0..n /\ k - 1 \in 0..n /\ k # 0
      BY <1>1
    <3>2. h[k - 1] \in S
      BY <3>1
    <3> QED BY <1>4, <1>12, <3>1, <3>2 DEF IsRecursion
  <2> QED BY <2>2, <2>3 DEF IsMerging, base
<1> QED BY <1>1, <1>9, <1>12, <1>13 DEF S

\* No id occurs twice.
DistinctIds(s) == \A i, j \in DOMAIN s : s[i].id = s[j].id => i = j

\* x is the first of the first k elements that has its id.
IsFirst(x, s, k) == \E i \in 1..k : x = s[i] /\ \A j \in 1..(i - 1) : s[j].id # x.id
FirstsKept(m, s, k) ==
  /\ DistinctIds(m)
  /\ \A x \in Range(m) : IsFirst(x, s, k)
  /\ \A i \in 1..k : \E x \in Range(m) : x.id = s[i].id

LEMMA MergeFacts ==
  ASSUME NEW C, NEW list \in Seq(C), NEW more \in Seq(C), NEW s, s = list \o more,
         NEW m, m = MergeVulnerabilities(list, more)
  PROVE  m \in Seq(C) /\ FirstsKept(m, s, Len(s))
<1> DEFINE n == Len(s)
<1>1. s \in Seq(C) /\ m = Merged(s)
  <2>1. s \in Seq(C)
    BY ConcatProperties
  <2>2. MergeVulnerabilities(list, more) = Merged(list \o more)
    BY DEF MergeVulnerabilities, Merged, KeptFirst, FoldLeft, MapThenFoldSet
  <2> QED BY <2>1, <2>2
<1>2. n \in Nat /\ DOMAIN s = 1..n /\ \A k \in 1..n : s[k] \in C
  BY <1>1, LenProperties, ElementOfSeq
<1>3. PICK r \in [0..n -> Seq(C)] : IsMerging(r, s) /\ r[n] = Merged(s)
  BY <1>1, MergeRuns
<1>4. r[0] = <<>> /\ \A k \in 1..n : r[k] = KeptFirst(r[k - 1], s[k])
  BY <1>3 DEF IsMerging
<1> HIDE DEF n
<1> DEFINE T == {k \in 0..n : FirstsKept(r[k], s, k)}
<1>5. 0 \in T
  <2>1. DOMAIN r[0] = {} /\ Range(r[0]) = {}
    BY <1>4 DEF Range
  <2>2. FirstsKept(r[0], s, 0)
    BY <2>1 DEF FirstsKept, DistinctIds
  <2> QED BY <1>2, <2>2
<1>6. ASSUME NEW k \in 1..n, FirstsKept(r[k - 1], s, k - 1) PROVE FirstsKept(r[k], s, k)
  <2> DEFINE u == r[k - 1]
             v == s[k]
  <2>1. u \in Seq(C) /\ v \in C /\ r[k] = KeptFirst(u, v)
    <3>1. k - 1 \in 0..n
      BY <1>2
    <3> QED BY <1>2, <1>3, <1>4, <3>1
  <2>2. FirstsKept(u, s, k - 1)
    BY <1>6
  <2>3. (\A i \in 1..k : i = k \/ i \in 1..(k - 1)) /\ k \in 1..k /\ \A i \in 1..(k - 1) : i \in 1..k
    BY <1>2
  <2>4. \A x : IsFirst(x, s, k - 1) => IsFirst(x, s, k)
    BY <2>3 DEF IsFirst
  <2>5. v = s[k]
    OBVIOUS
  <2> HIDE DEF u, v
  <2>6. CASE \E w \in Range(u) : w.id = v.id
    <3>1. r[k] = u
      BY <2>1, <2>6 DEF KeptFirst
    <3>2. \A i \in 1..k : \E x \in Range(u) : x.id = s[i].id
      BY <2>2, <2>3, <2>5, <2>6 DEF FirstsKept
    <3> QED BY <2>2, <2>4, <3>1, <3>2 DEF FirstsKept
  <2>7. CASE ~\E w \in Range(u) : w.id = v.id
    <3>1. r[k] = Append(u, v)
      BY <2>1, <2>7 DEF KeptFirst
    <3> DEFINE t == Append(u, v)
               l == Len(u)
    <3>2. /\ l \in Nat /\ DOMAIN u = 1..l /\ DOMAIN t = 1..(l + 1) /\ t[l + 1] = v
          /\ \A i \in 1..l : t[i] = u[i]
      BY <2>1, AppendProperties, LenProperties
    <3> HIDE DEF t, l
    <3>3. (\A i \in 1..(l + 1) : i = l + 1 \/ i \in 1..l) /\ l + 1 \in 1..(l + 1) /\ \A i \in 1..l : i \in 1..(l + 1)
      BY <3>2
    <3>4. Range(u) = {u[i] : i \in 1..l} /\ Range(t) = {t[i] : i \in 1..(l + 1)}
      BY <3>2 DEF Range
    <3>5. Range(t) = Range(u) \cup {v}
      BY <3>2, <3>3, <3>4
    <3>6. DistinctIds(t)
      <4>1. \A i \in 1..l : u[i].id # v.id
        BY <2>7, <3>4
      <4> SUFFICES ASSUME NEW i \in 1..(l + 1), NEW j \in 1..(l + 1), t[i].id = t[j].id PROVE i = j
        BY <3>2 DEF DistinctIds
      <4>2. CASE i \in 1..l /\ j \in 1..l
        BY <2>2, <3>2, <4>2 DEF FirstsKept, DistinctIds
      <4>3. CASE ~(i \in 1..l /\ j \in 1..l)
        BY <3>2, <3>3, <4>1, <4>3
      <4> QED BY <4>2, <4>3
    <3>7. IsFirst(v, s, k)
      <4>1. \A j \in 1..(k - 1) : s[j].id # v.id
        BY <2>2, <2>7 DEF FirstsKept
      <4> QED BY <2>3, <2>5, <4>1 DEF IsFirst
    <3>8. \A x \in Range(t) : IsFirst(x, s, k)
      BY <2>2, <2>4, <3>5, <3>7 DEF FirstsKept
    <3>9. \A i \in 1..k : \E x \in Range(t) : x.id = s[i].id
      BY <2>2, <2>3, <2>5, <3>5 DEF FirstsKept
    <3> QED BY <3>1, <3>6, <3>8, <3>9 DEF FirstsKept, t
  <2> QED BY <2>6, <2>7
<1>7. \A k \in 0..(n - 1) : k \in T => k + 1 \in T
  <2> SUFFICES ASSUME NEW k \in 0..(n - 1), FirstsKept(r[k], s, k) PROVE k + 1 \in 0..n /\ FirstsKept(r[k + 1], s, k + 1)
    OBVIOUS
  <2>1. k + 1 \in 1..n /\ k + 1 \in 0..n /\ (k + 1) - 1 = k
    BY <1>2
  <2>2. FirstsKept(r[(k + 1) - 1], s, (k + 1) - 1)
    BY <2>1
  <2> QED BY <1>6, <2>1, <2>2
<1> HIDE DEF T
<1>8. n \in T
  BY <1>2, <1>5, <1>7, SetInduction
<1>9. FirstsKept(r[n], s, n) /\ n \in 0..n
  BY <1>2, <1>8 DEF T
<1> QED BY <1>1, <1>3, <1>9 DEF n

--------------------------------------------------------------------------------
(* Advisories of a library *)

LEMMA LibraryType ==
  ASSUME NEW a \in Advisories
  PROVE  LibraryVulnerability(a) \in Vulnerabilities /\ LibraryVulnerability(a).kev = FALSE
<1>1. a.cves \in Seq(Nat) /\ a.ghsa \in Nat \cup {NoId} /\ a.own \in Nat
  BY DEF Advisories
<1>2. a.cves # <<>> => Head(a.cves) \in Nat
  BY <1>1, HeadTailProperties
<1>3. LibraryVulnerability(a).id \in Nat
  BY <1>1, <1>2 DEF LibraryVulnerability
<1> QED BY <1>3 DEF LibraryVulnerability, Vulnerabilities

Advising(vulns, advisory) ==
  IF InLibraryRange(advisory.atOrAbove, advisory.below, detected)
    THEN Append(vulns, LibraryVulnerability(advisory)) ELSE vulns

\* What libraryVulnerabilities has found in the first k advisories.
IsAdvising(r, s) == r[0] = <<>> /\ \A k \in 1..Len(s) : r[k] = Advising(r[k - 1], s[k])

LEMMA LibraryRuns ==
  ASSUME NEW s \in Seq(Advisories), s = advisories
  PROVE  \E r \in [0..Len(s) -> Seq(Vulnerabilities)] : IsAdvising(r, s) /\ r[Len(s)] = LibraryVulnerabilities
<1> DEFINE n == Len(s)
           S == Seq(Vulnerabilities)
           base == <<>>
           g == [x \in S \X (1..n) |-> Advising(x[1], s[x[2]])]
           Iter(f) == f = [u \in SUBSET DOMAIN s |->
                             IF u = {} THEN base ELSE Advising(f[u \ {Max(u)}], s[Max(u)])]
<1>1. n \in Nat /\ DOMAIN s = 1..n /\ \A k \in 1..n : s[k] \in Advisories
  BY LenProperties, ElementOfSeq
<1>2. \A m \in S, k \in 1..n : Advising(m, s[k]) \in S
  <2> SUFFICES ASSUME NEW m \in S, NEW k \in 1..n PROVE Advising(m, s[k]) \in S
    OBVIOUS
  <2>1. LibraryVulnerability(s[k]) \in Vulnerabilities
    BY <1>1, LibraryType
  <2> QED BY <2>1, AppendProperties DEF Advising
<1>3. base \in S
  BY EmptySeq
<1>4. g \in [S \X (1..n) -> S] /\ \A m \in S, k \in 1..n : g[<<m, k>>] = Advising(m, s[k])
  BY <1>2
<1> HIDE DEF g, S, base
<1>5. PICK f \in [SUBSET (1..n) -> S] : IsTable(f, n, base, g)
  BY <1>1, <1>3, <1>4, TableExists
<1>6. \A u \in SUBSET (1..n) : f[u] = IF u = {} THEN base ELSE Advising(f[u \ {Max(u)}], s[Max(u)])
  <2> SUFFICES ASSUME NEW u \in SUBSET (1..n), u # {} PROVE f[u] = Advising(f[u \ {Max(u)}], s[Max(u)])
    BY <1>5 DEF IsTable
  <2>1. Max(u) \in 1..n /\ f[u \ {Max(u)}] \in S
    BY <1>1, MaxOf
  <2> QED BY <1>4, <1>5, <2>1 DEF IsTable
<1>7. Iter(f)
  BY <1>1, <1>6
<1> DEFINE F == CHOOSE x : Iter(x)
<1>8. Iter(F)
  BY <1>7, Zenon
<1>9. LibraryVulnerabilities = F[DOMAIN s]
  BY DEF LibraryVulnerabilities, Advising, FoldLeft, MapThenFoldSet, base
<1> HIDE DEF F
<1>10. \A u \in SUBSET (1..n) : F[u] = IF u = {} THEN base ELSE Advising(F[u \ {Max(u)}], s[Max(u)])
  BY <1>1, <1>8
<1>11. Follows(F, n, S, base, g)
  <2> SUFFICES ASSUME NEW u \in SUBSET (1..n), u # {}, F[u \ {Max(u)}] \in S
               PROVE  F[u] = g[<<F[u \ {Max(u)}], Max(u)>>]
    BY <1>10 DEF Follows
  <2>1. Max(u) \in 1..n
    BY <1>1, MaxOf
  <2> QED BY <1>4, <1>10, <2>1
<1>12. PICK h \in [0..n -> S] : h[n] = F[1..n] /\ IsRecursion(h, n, base, g)
  BY <1>1, <1>3, <1>4, <1>11, FoldRuns
<1>13. IsAdvising(h, s)
  <2>1. 0 \in 0..n
    BY <1>1
  <2>2. h[0] = base
    BY <1>12, <2>1 DEF IsRecursion
  <2>3. ASSUME NEW k \in 1..n PROVE h[k] = Advising(h[k - 1], s[k])
    <3>1. k \in 0..n /\ k - 1 \in 0..n /\ k # 0
      BY <1>1
    <3>2. h[k - 1] \in S
      BY <3>1
    <3> QED BY <1>4, <1>12, <3>1, <3>2 DEF IsRecursion
  <2> QED BY <2>2, <2>3 DEF IsAdvising, base
<1> QED BY <1>1, <1>9, <1>12, <1>13 DEF S

\* A library's bounds are the bounds of a statement.
LEMMA SameRange ==
  ASSUME NEW from, NEW below, NEW v
  PROVE  RangeApplies([version |-> Wildcard, startIncluding |-> from, startExcluding |-> Absent,
                       endIncluding |-> Absent, endExcluding |-> below], v)
           <=> InLibraryRange(from, below, v)
<1> DEFINE match == [version |-> Wildcard, startIncluding |-> from, startExcluding |-> Absent,
                     endIncluding |-> Absent, endExcluding |-> below]
<1>1. /\ match.startIncluding = from /\ match.startExcluding = Absent
      /\ match.endIncluding = Absent /\ match.endExcluding = below
  OBVIOUS
<1> HIDE DEF match
<1>2. (\E b \in {"startIncluding", "startExcluding", "endIncluding", "endExcluding"} : match[b] # Absent)
        <=> from # Absent \/ below # Absent
  BY <1>1
<1>3. RangeApplies(match, v) <=> InLibraryRange(from, below, v)
  BY <1>1, <1>2 DEF RangeApplies, InLibraryRange
<1> QED BY <1>3 DEF match

LEMMA LibraryFacts ==
  ASSUME advisories \in Seq(Advisories)
  PROVE  /\ LibraryVulnerabilities \in Seq(Vulnerabilities)
         /\ \A x \in Range(LibraryVulnerabilities) : x.kev = FALSE
         /\ {x.id : x \in Range(LibraryVulnerabilities)} = LibraryIds
<1> DEFINE n == Len(advisories)
           Applies(k) == InLibraryRange(advisories[k].atOrAbove, advisories[k].below, detected)
           Of(k) == LibraryVulnerability(advisories[k])
<1>1. n \in Nat /\ DOMAIN advisories = 1..n /\ \A k \in 1..n : advisories[k] \in Advisories
  BY LenProperties, ElementOfSeq
<1>2. PICK r \in [0..n -> Seq(Vulnerabilities)] : IsAdvising(r, advisories) /\ r[n] = LibraryVulnerabilities
  BY LibraryRuns
<1>3. r[0] = <<>> /\ \A k \in 1..n : r[k] = IF Applies(k) THEN Append(r[k - 1], Of(k)) ELSE r[k - 1]
  BY <1>2 DEF IsAdvising, Advising
<1>4. \A k \in 1..n : Of(k) \in Vulnerabilities /\ Of(k).kev = FALSE
  BY <1>1, LibraryType
<1>5. LibraryIds = {Of(k).id : k \in {j \in 1..n : Applies(j)}}
  BY <1>1, SameRange DEF LibraryIds
<1> HIDE DEF n, Applies, Of
<1> DEFINE Until(k) == {Of(i) : i \in {j \in 1..k : Applies(j)}}
           T == {k \in 0..n : Range(r[k]) = Until(k)}
<1>6. 0 \in T
  <2>1. Range(r[0]) = {}
    BY <1>3 DEF Range
  <2> QED BY <1>1, <2>1
<1>7. ASSUME NEW k \in 1..n, Range(r[k - 1]) = Until(k - 1) PROVE Range(r[k]) = Until(k)
  <2>1. \A i \in 1..k : i = k \/ i \in 1..(k - 1)
    BY <1>1
  <2>2. k \in 1..k /\ k - 1 \in 0..n /\ \A i \in 1..(k - 1) : i \in 1..k
    BY <1>1
  <2>3. CASE Applies(k)
    <3>1. r[k] = Append(r[k - 1], Of(k)) /\ r[k - 1] \in Seq(Vulnerabilities)
      BY <1>3, <2>2, <2>3
    <3> DEFINE u == r[k - 1]
               x == Of(k)
               l == Len(u)
               t == Append(u, x)
    <3>2. /\ l \in Nat /\ DOMAIN u = 1..l /\ DOMAIN t = 1..(l + 1) /\ t[l + 1] = x
          /\ \A i \in 1..l : t[i] = u[i]
      BY <1>4, <3>1, AppendProperties, LenProperties
    <3>3. r[k] = t /\ Range(u) = Until(k - 1)
      BY <1>7, <3>1
    <3> HIDE DEF t, l, u
    <3>4. (\A i \in 1..(l + 1) : i = l + 1 \/ i \in 1..l) /\ l + 1 \in 1..(l + 1) /\ \A i \in 1..l : i \in 1..(l + 1)
      BY <3>2
    <3>5. Range(t) = Range(u) \cup {x}
      <4>1. Range(u) = {u[i] : i \in 1..l} /\ Range(t) = {t[i] : i \in 1..(l + 1)}
        BY <3>2 DEF Range
      <4> QED BY <3>2, <3>4, <4>1
    <3>6. Until(k) = Until(k - 1) \cup {x}
      BY <2>1, <2>2, <2>3
    <3> QED BY <3>3, <3>5, <3>6
  <2>4. CASE ~Applies(k)
    <3>1. r[k] = r[k - 1]
      BY <1>3, <2>4
    <3>2. Until(k) = Until(k - 1)
      BY <2>1, <2>2, <2>4
    <3> QED BY <1>7, <3>1, <3>2
  <2> QED BY <2>3, <2>4
<1>8. \A k \in 0..(n - 1) : k \in T => k + 1 \in T
  <2> SUFFICES ASSUME NEW k \in 0..(n - 1), Range(r[k]) = Until(k)
               PROVE  k + 1 \in 0..n /\ Range(r[k + 1]) = Until(k + 1)
    OBVIOUS
  <2>1. k + 1 \in 1..n /\ k + 1 \in 0..n /\ (k + 1) - 1 = k
    BY <1>1
  <2> HIDE DEF Until
  <2>2. Range(r[(k + 1) - 1]) = Until((k + 1) - 1)
    BY <2>1
  <2> QED BY <1>7, <2>1, <2>2
<1> HIDE DEF T
<1>9. n \in T
  BY <1>1, <1>6, <1>8, SetInduction
<1>10. Range(LibraryVulnerabilities) = Until(n)
  BY <1>2, <1>9 DEF T
<1>11. LibraryVulnerabilities \in Seq(Vulnerabilities)
  <2>1. n \in 0..n
    BY <1>1
  <2> QED BY <1>2, <2>1
<1>12. \A x \in Until(n) : x.kev = FALSE
  BY <1>4
<1>13. {x.id : x \in Until(n)} = LibraryIds
  BY <1>5
<1> HIDE DEF Until
<1> QED BY <1>10, <1>11, <1>12, <1>13

--------------------------------------------------------------------------------
(* The order of a list *)

\* The first of five positions where two tuples differ.
LEMMA FirstOfFive ==
  ASSUME NEW u, NEW t
  PROVE  (\E i \in 1..5 : u[i] > t[i] /\ \A j \in 1..(i - 1) : u[j] = t[j])
           <=> \/ u[1] > t[1]
               \/ u[1] = t[1] /\ u[2] > t[2]
               \/ u[1] = t[1] /\ u[2] = t[2] /\ u[3] > t[3]
               \/ u[1] = t[1] /\ u[2] = t[2] /\ u[3] = t[3] /\ u[4] > t[4]
               \/ u[1] = t[1] /\ u[2] = t[2] /\ u[3] = t[3] /\ u[4] = t[4] /\ u[5] > t[5]
<1> DEFINE At(i) == u[i] > t[i] /\ \A j \in 1..(i - 1) : u[j] = t[j]
<1>1. (\E i \in 1..5 : At(i)) <=> At(1) \/ At(2) \/ At(3) \/ At(4) \/ At(5)
  <2>1. \A i : i \in 1..5 <=> i = 1 \/ i = 2 \/ i = 3 \/ i = 4 \/ i = 5
    OBVIOUS
  <2> HIDE DEF At
  <2> QED BY <2>1
<1>2. /\ \A j : j \notin 1..(1 - 1)
      /\ \A j : j \in 1..(2 - 1) <=> j = 1
      /\ \A j : j \in 1..(3 - 1) <=> j = 1 \/ j = 2
      /\ \A j : j \in 1..(4 - 1) <=> j = 1 \/ j = 2 \/ j = 3
      /\ \A j : j \in 1..(5 - 1) <=> j = 1 \/ j = 2 \/ j = 3 \/ j = 4
  OBVIOUS
<1>3. /\ At(1) <=> u[1] > t[1]
      /\ At(2) <=> u[1] = t[1] /\ u[2] > t[2]
      /\ At(3) <=> u[1] = t[1] /\ u[2] = t[2] /\ u[3] > t[3]
  BY <1>2
<1>4. /\ At(4) <=> u[1] = t[1] /\ u[2] = t[2] /\ u[3] = t[3] /\ u[4] > t[4]
      /\ At(5) <=> u[1] = t[1] /\ u[2] = t[2] /\ u[3] = t[3] /\ u[4] = t[4] /\ u[5] > t[5]
  BY <1>2
<1> HIDE DEF At
<1>5. (\E i \in 1..5 : At(i))
           <=> \/ u[1] > t[1]
               \/ u[1] = t[1] /\ u[2] > t[2]
               \/ u[1] = t[1] /\ u[2] = t[2] /\ u[3] > t[3]
               \/ u[1] = t[1] /\ u[2] = t[2] /\ u[3] = t[3] /\ u[4] > t[4]
               \/ u[1] = t[1] /\ u[2] = t[2] /\ u[3] = t[3] /\ u[4] = t[4] /\ u[5] > t[5]
  BY <1>1, <1>3, <1>4
<1> QED BY <1>5 DEF At

LEMMA UrgencyFacts ==
  ASSUME NEW v \in Vulnerabilities
  PROVE  /\ DOMAIN Urgency(v) = 1..5
         /\ Urgency(v)[1] \in 0..1 /\ (Urgency(v)[1] = 1 <=> v.kev)
         /\ Urgency(v)[2] \in 0..1 /\ Urgency(v)[3] \in Nat /\ Urgency(v)[4] \in Nat
         /\ Urgency(v)[5] \in Nat /\ Urgency(v)[5] = v.id
BY DEF Urgency, Vulnerabilities

MoreUrgentIn(u, t) ==
  \/ u[1] > t[1]
  \/ u[1] = t[1] /\ u[2] > t[2]
  \/ u[1] = t[1] /\ u[2] = t[2] /\ u[3] > t[3]
  \/ u[1] = t[1] /\ u[2] = t[2] /\ u[3] = t[3] /\ u[4] > t[4]
  \/ u[1] = t[1] /\ u[2] = t[2] /\ u[3] = t[3] /\ u[4] = t[4] /\ u[5] > t[5]

LEMMA MoreUrgentIs ==
  ASSUME NEW v \in Vulnerabilities, NEW w
  PROVE  MoreUrgent(v, w) <=> MoreUrgentIn(Urgency(v), Urgency(w))
<1>1. DOMAIN Urgency(v) = 1..5
  BY UrgencyFacts
<1> QED BY <1>1, FirstOfFive DEF MoreUrgent, MoreUrgentIn

\* Of two vulnerabilities with different ids exactly one is more urgent; exploited ones are.
LEMMA UrgencyOrder ==
  ASSUME NEW v \in Vulnerabilities, NEW w \in Vulnerabilities
  PROVE  /\ v.id # w.id => MoreUrgent(v, w) \/ MoreUrgent(w, v)
         /\ ~(MoreUrgent(v, w) /\ MoreUrgent(w, v))
         /\ v.kev /\ ~w.kev => MoreUrgent(v, w)
<1> DEFINE u == Urgency(v)
           t == Urgency(w)
<1>1. /\ u[1] \in Int /\ u[2] \in Int /\ u[3] \in Int /\ u[4] \in Int /\ u[5] \in Int
      /\ t[1] \in Int /\ t[2] \in Int /\ t[3] \in Int /\ t[4] \in Int /\ t[5] \in Int
      /\ u[5] = v.id /\ t[5] = w.id /\ (v.kev /\ ~w.kev => u[1] > t[1])
  BY UrgencyFacts
<1>2. (MoreUrgent(v, w) <=> MoreUrgentIn(u, t)) /\ (MoreUrgent(w, v) <=> MoreUrgentIn(t, u))
  BY MoreUrgentIs
<1> HIDE DEF u, t
<1> QED BY <1>1, <1>2 DEF MoreUrgentIn

LEMMA UrgencyTransitive ==
  ASSUME NEW v \in Vulnerabilities, NEW w \in Vulnerabilities, NEW z \in Vulnerabilities,
         MoreUrgent(v, w), MoreUrgent(w, z)
  PROVE  MoreUrgent(v, z)
<1> DEFINE u == Urgency(v)
           t == Urgency(w)
           s == Urgency(z)
<1>1. /\ u[1] \in Int /\ u[2] \in Int /\ u[3] \in Int /\ u[4] \in Int /\ u[5] \in Int
      /\ t[1] \in Int /\ t[2] \in Int /\ t[3] \in Int /\ t[4] \in Int /\ t[5] \in Int
      /\ s[1] \in Int /\ s[2] \in Int /\ s[3] \in Int /\ s[4] \in Int /\ s[5] \in Int
  BY UrgencyFacts
<1>2. MoreUrgentIn(u, t) /\ MoreUrgentIn(t, s) /\ (MoreUrgent(v, z) <=> MoreUrgentIn(u, s))
  BY MoreUrgentIs
<1> HIDE DEF u, t, s
<1>3. MoreUrgentIn(u, s)
  BY <1>1, <1>2 DEF MoreUrgentIn
<1> QED BY <1>2, <1>3

--------------------------------------------------------------------------------
(* The list *)

Marked(v) == [v EXCEPT !.kev = @ \/ v.id \in listed]

LEMMA MarkedFacts ==
  ASSUME NEW v \in Vulnerabilities
  PROVE  /\ Marked(v) \in Vulnerabilities /\ Marked(v).id = v.id
         /\ Marked(v).kev <=> v.kev \/ v.id \in listed
BY DEF Marked, Vulnerabilities

\* Classify's list: each element more urgent than all after it, and the elements that were
\* given, marked.
LEMMA RankedFacts ==
  ASSUME NEW list \in Seq(Vulnerabilities), DistinctIds(list), NEW t, t = Ranked(list)
  PROVE  /\ t \in Seq(Vulnerabilities)
         /\ \A i, j \in DOMAIN t : i < j => MoreUrgent(t[i], t[j])
         /\ Range(t) = {Marked(v) : v \in Range(list)}
<1> DEFINE n == Len(list)
           marked == [i \in DOMAIN list |-> Marked(list[i])]
           order == ByUrgency(marked)
<1>1. n \in Nat /\ DOMAIN list = 1..n /\ \A i \in 1..n : list[i] \in Vulnerabilities
  BY LenProperties, ElementOfSeq
<1>2. t = Sorted(marked, order)
  BY DEF Ranked, Marked
<1>3. DOMAIN marked = 1..n /\ \A i \in 1..n : marked[i] = Marked(list[i])
  BY <1>1
<1>4. marked \in Seq(Vulnerabilities)
  <2>1. marked \in [1..n -> Vulnerabilities]
    BY <1>1, MarkedFacts
  <2>2. \A m \in Nat : \A f \in [1..m -> Vulnerabilities] : f \in Seq(Vulnerabilities)
    BY SeqDef
  <2> QED BY <1>1, <2>1, <2>2
<1> HIDE DEF marked, n
<1>5. \A i, j \in 1..n : marked[i].id = marked[j].id => i = j
  BY <1>1, <1>3, MarkedFacts DEF DistinctIds
<1>6. IsInjective(marked)
  BY <1>3, <1>5 DEF IsInjective
<1>7. Range(marked) = {marked[i] : i \in 1..n}
  BY <1>3 DEF Range
<1>8. \A v, w \in Range(marked) : /\ v \in Vulnerabilities /\ w \in Vulnerabilities
                                  /\ <<v, w>> \in order <=> MoreUrgent(v, w)
  <2>1. \A i \in 1..n : marked[i] \in Vulnerabilities
    BY <1>1, <1>3, MarkedFacts
  <2>2. \A v, w \in Range(marked) : <<v, w>> \in order <=> MoreUrgent(v, w)
    BY DEF ByUrgency
  <2> HIDE DEF order
  <2> QED BY <1>7, <2>1, <2>2
<1>9. IsTotal(order, Range(marked))
  <2> HIDE DEF order
  <2>1. ASSUME NEW v \in Range(marked), NEW w \in Range(marked), v # w
        PROVE  <<v, w>> \in order \/ <<w, v>> \in order
    <3>1. v.id # w.id
      BY <1>5, <1>7, <2>1
    <3> QED BY <1>8, <3>1, UrgencyOrder
  <2>2. ASSUME NEW v \in Range(marked), NEW w \in Range(marked), NEW z \in Range(marked),
               <<v, w>> \in order, <<w, z>> \in order
        PROVE  <<v, z>> \in order
    BY <1>8, <2>2, UrgencyTransitive
  <2> QED BY <2>1, <2>2 DEF IsTotal
<1>10. t \in Seq(Vulnerabilities) /\ IsOrdered(t, order) /\ Range(t) = Range(marked)
  <2> HIDE DEF order
  <2> QED BY <1>2, <1>4, <1>6, <1>9, SortedFacts
<1>11. ASSUME NEW i \in DOMAIN t, NEW j \in DOMAIN t, i < j PROVE MoreUrgent(t[i], t[j])
  <2>1. t[i] \in Range(t) /\ t[j] \in Range(t)
    BY DEF Range
  <2>2. <<t[i], t[j]>> \in order
    <3> HIDE DEF order
    <3> QED BY <1>10, <1>11 DEF IsOrdered
  <2> HIDE DEF order
  <2> QED BY <1>8, <1>10, <2>1, <2>2
<1>12. Range(t) = {Marked(v) : v \in Range(list)}
  <2>1. Range(list) = {list[i] : i \in 1..n}
    BY <1>1 DEF Range
  <2>2. \A x : x \in Range(marked) <=> \E i \in 1..n : x = Marked(list[i])
    BY <1>3, <1>7
  <2> QED BY <1>10, <2>1, <2>2
<1> QED BY <1>10, <1>11, <1>12

\* Each record that was collected is in the merged list, and what is exploited there is one.
LEMMA MergedFacts ==
  ASSUME NEW list \in Seq(Vulnerabilities), DistinctIds(list), NEW more \in Seq(Vulnerabilities),
         \A x \in Range(more) : x.kev = FALSE, NEW m, m = MergeVulnerabilities(list, more)
  PROVE  /\ m \in Seq(Vulnerabilities) /\ DistinctIds(m) /\ Range(list) \subseteq Range(m)
         /\ {x.id : x \in Range(m)} = {x.id : x \in Range(list)} \cup {x.id : x \in Range(more)}
         /\ \A x \in Range(m) : x.kev => x \in Range(list)
<1> DEFINE V == Vulnerabilities
           s == list \o more
           l == Len(list)
           k == Len(more)
<1>1. /\ l \in Nat /\ DOMAIN list = 1..l /\ k \in Nat /\ DOMAIN more = 1..k
  BY LenProperties
<1>2. /\ Len(s) = l + k
      /\ \A i \in 1..(l + k) : s[i] = IF i <= l THEN list[i] ELSE more[i - l]
  BY ConcatProperties
<1> HIDE DEF V, s, l, k
<1>3. m \in Seq(Vulnerabilities) /\ FirstsKept(m, s, l + k)
  <2>1. m \in Seq(Vulnerabilities) /\ FirstsKept(m, s, Len(s))
    BY MergeFacts DEF s
  <2> QED BY <1>2, <2>1
<1>4. \A i \in 1..l : i \in 1..(l + k) /\ s[i] = list[i]
  <2>1. \A i \in 1..l : i \in 1..(l + k) /\ i <= l
    BY <1>1
  <2> QED BY <1>2, <2>1
<1>5. \A i \in 1..k : l + i \in 1..(l + k) /\ s[l + i] = more[i]
  <2>1. \A i \in 1..k : l + i \in 1..(l + k) /\ ~(l + i <= l) /\ (l + i) - l = i
    BY <1>1
  <2> QED BY <1>2, <2>1
<1>6. \A i \in 1..(l + k) : (i \in 1..l /\ s[i] = list[i]) \/ (i - l \in 1..k /\ s[i] = more[i - l])
  <2>1. \A i \in 1..(l + k) : (i \in 1..l /\ i <= l) \/ (i - l \in 1..k /\ ~(i <= l))
    BY <1>1
  <2> QED BY <1>2, <2>1
<1>7. Range(list) = {list[i] : i \in 1..l} /\ Range(more) = {more[i] : i \in 1..k}
  BY <1>1 DEF Range
<1>8. /\ DistinctIds(m)
      /\ \A x \in Range(m) : IsFirst(x, s, l + k)
      /\ \A i \in 1..(l + k) : \E x \in Range(m) : x.id = s[i].id
  BY <1>3 DEF FirstsKept
<1>9. \A x \in Range(m) : x \in Range(list) \/ x \in Range(more)
  <2>1. \A x \in Range(m) : \E i \in 1..(l + k) : x = s[i]
    BY <1>8 DEF IsFirst
  <2> QED BY <1>6, <1>7, <2>1
<1>10. ASSUME NEW i \in 1..l PROVE list[i] \in Range(m)
  <2>1. i \in 1..(l + k) /\ s[i] = list[i]
    BY <1>4
  <2>2. PICK x \in Range(m) : x.id = s[i].id
    BY <1>8, <2>1
  <2>3. PICK j \in 1..(l + k) : x = s[j] /\ \A h \in 1..(j - 1) : s[h].id # x.id
    BY <1>8 DEF IsFirst
  <2>4. j <= i
    <3>1. i \in 1..(j - 1) \/ j <= i
      BY <1>1
    <3> QED BY <2>2, <2>3, <3>1
  <2>5. j \in 1..l /\ s[j] = list[j]
    <3>1. j \in 1..l
      BY <1>1, <2>4
    <3> QED BY <1>4, <3>1
  <2>6. list[j].id = list[i].id
    BY <2>1, <2>2, <2>3, <2>5
  <2>7. j = i
    BY <1>1, <2>5, <2>6 DEF DistinctIds
  <2> QED BY <2>3, <2>5, <2>7
<1>11. \A x \in Range(m) : x.kev => x \in Range(list)
  BY <1>9
<1>12. {x.id : x \in Range(m)} = {x.id : x \in Range(list)} \cup {x.id : x \in Range(more)}
  <2>1. \A i \in 1..k : \E x \in Range(m) : x.id = more[i].id
    BY <1>5, <1>8
  <2>2. \A y \in Range(more) : \E x \in Range(m) : x.id = y.id
    BY <1>7, <2>1
  <2>3. \A y \in Range(list) : y \in Range(m)
    BY <1>7, <1>10
  <2> QED BY <1>9, <2>2, <2>3
<1> QED BY <1>3, <1>7, <1>8, <1>10, <1>11, <1>12

\* What the two properties say of a list.
HasOnce(list) ==
  /\ \A i, j \in DOMAIN list : i < j => MoreUrgent(list[i], list[j]) /\ ~MoreUrgent(list[j], list[i])
  /\ {list[i].id : i \in DOMAIN list} = {v.id : v \in Range(collected)} \cup LibraryIds
KeepsRecords(list) ==
  /\ \A v \in Range(collected) : [v EXCEPT !.kev = @ \/ v.id \in listed] \in Range(list)
  /\ (\E v \in Range(list) : v.kev \/ v.id \in listed) =>
       /\ Detail(list).link = "catalog"
       /\ Detail(list).id \in listed \cup {v.id : v \in {w \in Range(collected) : w.kev}}

Collecting ==
  /\ pending \subseteq Vulnerabilities /\ \A v, w \in pending : v.id = w.id => v = w
  /\ collected \in Seq(Vulnerabilities) /\ DistinctIds(collected)
  /\ \A v \in pending, x \in Range(collected) : v.id # x.id
  /\ advisories \in Seq(Advisories)

LEMMA ListFacts ==
  ASSUME Collecting, NEW found, found = (IF live THEN collected ELSE Sorted(collected, ById(collected))),
         NEW list, list = Ranked(MergeVulnerabilities(found, LibraryVulnerabilities))
  PROVE  HasOnce(list) /\ KeepsRecords(list)
<1> DEFINE V == Vulnerabilities
           order == ById(collected)
           library == LibraryVulnerabilities
           m == MergeVulnerabilities(found, library)
<1>1. collected \in Seq(V) /\ DistinctIds(collected) /\ advisories \in Seq(Advisories)
  BY DEF Collecting
<1>2. \A x, y \in Range(collected) : x.id \in Nat /\ (x.id = y.id => x = y)
  <2>1. \A x \in Range(collected) : \E i \in DOMAIN collected : x = collected[i]
    BY DEF Range
  <2>2. \A i \in DOMAIN collected : collected[i] \in V
    BY <1>1, LenProperties, ElementOfSeq
  <2> QED BY <1>1, <2>1, <2>2 DEF DistinctIds, Vulnerabilities
<1>3. IsInjective(collected)
  BY <1>1 DEF IsInjective, DistinctIds
<1>4. IsTotal(order, Range(collected))
  <2>1. \A x, y \in Range(collected) : <<x, y>> \in order <=> x.id < y.id
    BY DEF ById
  <2> HIDE DEF order
  <2> QED BY <1>2, <2>1 DEF IsTotal
<1>5. /\ found \in Seq(V) /\ DistinctIds(found) /\ Range(found) = Range(collected)
  <2>1. CASE live
    BY <1>1, <2>1
  <2>2. CASE ~live
    <3>1. found = Sorted(collected, order)
      BY <2>2
    <3>2. \A x, y \in Range(collected) : <<x, y>> \in order => x.id < y.id
      BY DEF ById
    <3> HIDE DEF order, V
    <3>3. found \in Seq(V) /\ IsOrdered(found, order) /\ Range(found) = Range(collected)
      BY <1>1, <1>3, <1>4, <3>1, SortedFacts
    <3>4. DistinctIds(found)
      <4> SUFFICES ASSUME NEW i \in DOMAIN found, NEW j \in DOMAIN found, found[i].id = found[j].id PROVE i = j
        BY DEF DistinctIds
      <4>1. found[i] \in Range(collected) /\ found[j] \in Range(collected)
        BY <3>3 DEF Range
      <4>2. i \in Nat /\ j \in Nat
        BY <3>3, LenProperties
      <4>3. (i < j => found[i].id < found[j].id) /\ (j < i => found[j].id < found[i].id)
        BY <3>2, <3>3, <4>1 DEF IsOrdered
      <4> QED BY <1>2, <4>1, <4>2, <4>3
    <3> QED BY <3>3, <3>4
  <2> QED BY <2>1, <2>2
<1>6. /\ library \in Seq(V) /\ \A x \in Range(library) : x.kev = FALSE
      /\ {x.id : x \in Range(library)} = LibraryIds
  BY <1>1, LibraryFacts
<1> HIDE DEF library
<1>7. list = Ranked(m)
  BY DEF library
<1>8. /\ m \in Seq(V) /\ DistinctIds(m) /\ Range(found) \subseteq Range(m)
      /\ {x.id : x \in Range(m)} = {x.id : x \in Range(found)} \cup {x.id : x \in Range(library)}
      /\ \A x \in Range(m) : x.kev => x \in Range(found)
  BY <1>5, <1>6, MergedFacts
<1> HIDE DEF m
<1>9. /\ list \in Seq(V)
      /\ \A i, j \in DOMAIN list : i < j => MoreUrgent(list[i], list[j])
      /\ Range(list) = {Marked(v) : v \in Range(m)}
  BY <1>7, <1>8, RankedFacts
<1>10. \A v \in Range(m) : v \in V
  <2>1. \A x \in Range(m) : \E i \in DOMAIN m : x = m[i]
    BY DEF Range
  <2> QED BY <1>8, <2>1, LenProperties, ElementOfSeq
<1>11. DOMAIN list = 1..Len(list) /\ Len(list) \in Nat /\ \A i \in DOMAIN list : list[i] \in V
  BY <1>9, LenProperties, ElementOfSeq
<1>12. Range(list) = {list[i] : i \in DOMAIN list}
  BY DEF Range
<1>13. \A v \in Range(m) : Marked(v).id = v.id /\ (Marked(v).kev <=> v.kev \/ v.id \in listed)
  BY <1>10, MarkedFacts
<1>14. HasOnce(list)
  <2>1. \A i, j \in DOMAIN list : i < j => MoreUrgent(list[i], list[j]) /\ ~MoreUrgent(list[j], list[i])
    BY <1>9, <1>11, UrgencyOrder
  <2>2. {list[i].id : i \in DOMAIN list} = {x.id : x \in Range(m)}
    <3>1. {list[i].id : i \in DOMAIN list} = {x.id : x \in Range(list)}
      BY <1>12
    <3>2. {x.id : x \in Range(list)} = {x.id : x \in Range(m)}
      BY <1>9, <1>13
    <3> QED BY <3>1, <3>2
  <2>3. {x.id : x \in Range(m)} = {v.id : v \in Range(collected)} \cup LibraryIds
    BY <1>5, <1>6, <1>8
  <2> QED BY <2>1, <2>2, <2>3 DEF HasOnce
<1>15. \A v \in Range(collected) : [v EXCEPT !.kev = @ \/ v.id \in listed] \in Range(list)
  BY <1>5, <1>8, <1>9 DEF Marked
<1>16. ASSUME NEW v \in Range(list), v.kev \/ v.id \in listed
       PROVE  /\ Detail(list).link = "catalog"
              /\ Detail(list).id \in listed \cup {x.id : x \in {w \in Range(collected) : w.kev}}
  <2>1. PICK i \in DOMAIN list : v = list[i]
    BY <1>12
  <2>2. v.kev
    BY <1>9, <1>13, <1>16
  <2>3. i \in 1..Len(list) /\ 1 \in DOMAIN list
    BY <1>11, <2>1
  <2>4. list[1].kev
    <3>1. CASE i = 1
      BY <2>1, <2>2, <3>1
    <3>2. CASE i # 1
      <4>1. 1 < i
        BY <1>11, <2>3, <3>2
      <4>2. MoreUrgent(list[1], v) /\ v \in V /\ list[1] \in V
        BY <1>9, <1>11, <2>1, <2>3, <4>1
      <4>3. ~list[1].kev => MoreUrgent(v, list[1])
        BY <2>2, <4>2, UrgencyOrder
      <4>4. ~(MoreUrgent(list[1], v) /\ MoreUrgent(v, list[1]))
        BY <4>2, UrgencyOrder
      <4> QED BY <4>2, <4>3, <4>4
    <3> QED BY <3>1, <3>2
  <2>5. Head(list) = list[1]
    BY <1>9
  <2>6. Detail(list).link = "catalog" /\ Detail(list).id = list[1].id
    BY <2>4, <2>5 DEF Detail
  <2>7. PICK x \in Range(m) : list[1] = Marked(x)
    <3>1. list[1] \in Range(list)
      BY <1>12, <2>3
    <3>2. list[1] \in {Marked(w) : w \in Range(m)}
      BY <1>9, <3>1
    <3> QED BY <3>2
  <2>8. list[1].id = x.id /\ (x.kev \/ x.id \in listed)
    BY <1>13, <2>4, <2>7
  <2>9. x.kev => x \in Range(collected)
    BY <1>5, <1>8
  <2> QED BY <2>6, <2>8, <2>9
<1>17. KeepsRecords(list)
  BY <1>15, <1>16 DEF KeepsRecords
<1> QED BY <1>14, <1>17

ListInv ==
  /\ Collecting
  /\ assessed # <<>> => pending = {} /\ HasOnce(assessed[1]) /\ KeepsRecords(assessed[1])

LEMMA CollectKeeps ==
  ASSUME ListInv, NEW v \in pending, Collect(v)
  PROVE  ListInv'
<1>1. /\ pending \subseteq Vulnerabilities /\ collected \in Seq(Vulnerabilities) /\ DistinctIds(collected)
      /\ (\A x, y \in pending : x.id = y.id => x = y)
      /\ (\A x \in pending, y \in Range(collected) : x.id # y.id)
      /\ advisories \in Seq(Advisories) /\ assessed = <<>>
  BY DEF ListInv, Collecting
<1>2. /\ pending' = pending \ {v} /\ collected' = Append(collected, v)
      /\ advisories' = advisories /\ assessed' = assessed
  BY DEF Collect
<1> DEFINE u == collected
           t == Append(u, v)
           l == Len(u)
<1>3. v \in Vulnerabilities /\ u \in Seq(Vulnerabilities)
  BY <1>1
<1>4. /\ l \in Nat /\ DOMAIN u = 1..l /\ DOMAIN t = 1..(l + 1) /\ t[l + 1] = v /\ t \in Seq(Vulnerabilities)
      /\ \A i \in 1..l : t[i] = u[i]
  BY <1>3, AppendProperties, LenProperties
<1> HIDE DEF t, l
<1>5. (\A i \in 1..(l + 1) : i = l + 1 \/ i \in 1..l) /\ l + 1 \in 1..(l + 1) /\ \A i \in 1..l : i \in 1..(l + 1)
  BY <1>4
<1>6. Range(u) = {u[i] : i \in 1..l} /\ Range(t) = {t[i] : i \in 1..(l + 1)}
  BY <1>4 DEF Range
<1>7. Range(t) = Range(u) \cup {v}
  BY <1>4, <1>5, <1>6
<1>8. DistinctIds(t)
  <2>1. \A i \in 1..l : u[i].id # v.id
    BY <1>1, <1>6
  <2> SUFFICES ASSUME NEW i \in 1..(l + 1), NEW j \in 1..(l + 1), t[i].id = t[j].id PROVE i = j
    BY <1>4 DEF DistinctIds
  <2>2. CASE i \in 1..l /\ j \in 1..l
    BY <1>1, <1>4, <2>2 DEF DistinctIds
  <2>3. CASE ~(i \in 1..l /\ j \in 1..l)
    BY <1>4, <1>5, <2>1, <2>3
  <2> QED BY <2>2, <2>3
<1>9. \A x \in pending \ {v}, y \in Range(t) : x.id # y.id
  BY <1>1, <1>7
<1>10. collected' = t
  BY <1>2 DEF t
<1>11. Collecting'
  BY <1>1, <1>2, <1>4, <1>8, <1>9, <1>10 DEF Collecting
<1> QED BY <1>1, <1>2, <1>11 DEF ListInv

LEMMA AssessKeeps ==
  ASSUME ListInv, Assess, UNCHANGED detected
  PROVE  ListInv'
<1> DEFINE found == IF live THEN collected ELSE Sorted(collected, ById(collected))
           answer == Ranked(MergeVulnerabilities(found, LibraryVulnerabilities))
<1>1. /\ pending = {} /\ pending' = pending /\ collected' = collected /\ advisories' = advisories
      /\ listed' = listed /\ assessed' = <<answer>>
  BY DEF Assess
<1>2. Collecting
  BY DEF ListInv
<1>3. HasOnce(answer) /\ KeepsRecords(answer)
  BY <1>2, ListFacts
<1> HIDE DEF answer
<1>4. Collecting'
  BY <1>1, <1>2 DEF Collecting
<1>5. LibraryIds' = LibraryIds
  BY <1>1 DEF LibraryIds
<1>6. assessed'[1] = answer
  BY <1>1
<1>7. HasOnce(assessed[1])'
  BY <1>1, <1>3, <1>5, <1>6 DEF HasOnce
<1>8. KeepsRecords(assessed[1])'
  BY <1>1, <1>3, <1>6 DEF KeepsRecords
<1> QED BY <1>1, <1>4, <1>7, <1>8 DEF ListInv

\* However the records were found, the list has each vulnerability once, in one order, and what
\* the database and the catalog know of it survives the merge, for all sets of records, lists of
\* advisories, catalogs and versions (lookup.go, classify.go, lib/db.ts, lib/classify.ts).
THEOREM ListCorrect == RankSpec => [](RankedOnce /\ RecordsWin)
<1>1. RankInit => ListInv
  <2> SUFFICES ASSUME RankInit PROVE ListInv
    OBVIOUS
  <2>1. /\ pending \subseteq Vulnerabilities /\ (\A v, w \in pending : v.id = w.id => v = w)
        /\ advisories \in Seq(Advisories)
    BY RankingAssumption DEF RankInit
  <2>2. collected = <<>> /\ assessed = <<>>
    BY DEF RankInit
  <2>3. DOMAIN collected = {} /\ Range(collected) = {} /\ collected \in Seq(Vulnerabilities)
    BY <2>2, EmptySeq DEF Range
  <2> QED BY <2>1, <2>2, <2>3 DEF ListInv, Collecting, DistinctIds
<1>2. ListInv /\ [RankNext /\ UNCHANGED detected]_<<rankVars, detected>> => ListInv'
  <2> SUFFICES ASSUME ListInv, [RankNext /\ UNCHANGED detected]_<<rankVars, detected>> PROVE ListInv'
    OBVIOUS
  <2>1. CASE \E v \in pending : Collect(v)
    BY <2>1, CollectKeeps
  <2>2. CASE Assess /\ UNCHANGED detected
    BY <2>2, AssessKeeps
  <2>3. CASE UNCHANGED <<rankVars, detected>>
    <3>1. /\ pending' = pending /\ collected' = collected /\ advisories' = advisories
          /\ listed' = listed /\ assessed' = assessed /\ detected' = detected
      BY <2>3 DEF rankVars
    <3>2. Collecting'
      BY <3>1 DEF ListInv, Collecting
    <3>3. LibraryIds' = LibraryIds
      BY <3>1 DEF LibraryIds
    <3>4. HasOnce(assessed[1]) => HasOnce(assessed[1])'
      BY <3>1, <3>3 DEF HasOnce
    <3>5. KeepsRecords(assessed[1]) => KeepsRecords(assessed[1])'
      BY <3>1 DEF KeepsRecords
    <3> QED BY <3>1, <3>2, <3>4, <3>5 DEF ListInv
  <2> QED BY <2>1, <2>2, <2>3 DEF RankNext
<1>3. ListInv => RankedOnce /\ RecordsWin
  BY DEF ListInv, HasOnce, KeepsRecords, RankedOnce, RecordsWin
<1> QED BY <1>1, <1>2, <1>3, PTL DEF RankSpec

\* A record's data survive the merge with a library advisory, and what is exploited is shown.
THEOREM RecordsCorrect == RankSpec => []RecordsWin
BY ListCorrect, PTL
================================================================================
