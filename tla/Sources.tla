-------------------------------- MODULE Sources --------------------------------
(***************************************************************************)
(* What both programs look up live, and the time: NVD's answers for the      *)
(* names of products, and CISA's catalog of exploited vulnerabilities (KEV). *)
(* They change now and then, and owe nothing to those who ask.              *)
(***************************************************************************)
EXTENDS Verdict, Sequences, FiniteSets

CONSTANTS Answers,     \* Answers[n]: the successive answers of NVD for a name
          Catalogs,    \* the successive KEV catalogs, sets of records
          Ttl,         \* how long lookups and catalogs are kept, in days
          MaxDays      \* bound: times a day passes

ASSUME SourcesAssumption ==
  /\ Answers \in [Names -> Seq(SUBSET Records) \ {<<>>}]
  /\ Catalogs \in Seq(SUBSET Records) \ {<<>>}
  /\ Ttl \in Nat /\ MaxDays \in Nat

VARIABLES today,
          replaced,   \* the days on which NVD's answer for a name was replaced
          published   \* the days on which the KEV catalog was replaced

world == <<today, replaced, published>>

WorldTypeOK ==
  /\ today \in 0..MaxDays
  /\ replaced \in [Names -> Seq(0..today)] /\ \A n \in Names : Len(replaced[n]) < Len(Answers[n])
  /\ published \in Seq(0..today) /\ Len(published) < Len(Catalogs)

WorldInit ==
  /\ today = 0
  /\ replaced = [n \in Names |-> <<>>]
  /\ published = <<>>

\* The numbers of NVD's present answer for a name, and of the present catalog.
Now(n) == Len(replaced[n]) + 1
Catalog == Len(published) + 1

\* The records in a catalog, of which 0 stands for none.
Listing(number) == IF number = 0 THEN {} ELSE Catalogs[number]

\* What is stored: the number of an answer, or of a catalog, and its day.
Entry == [answer : Nat, day : Nat]
None == [answer |-> 0, day |-> 0]
Fresh(entry) == entry.answer # 0 /\ today - entry.day <= Ttl

DayPasses ==
  /\ today < MaxDays /\ today' = today + 1
  /\ UNCHANGED <<replaced, published>>

NvdChanges(n) ==
  /\ Now(n) < Len(Answers[n])
  /\ replaced' = [replaced EXCEPT ![n] = Append(@, today)]
  /\ UNCHANGED <<today, published>>

KevPublished ==
  /\ Catalog < Len(Catalogs) /\ published' = Append(published, today)
  /\ UNCHANGED <<today, replaced>>

World == DayPasses \/ (\E n \in Names : NvdChanges(n)) \/ KevPublished

\* The thing that was replaced on the days `changes` was at its version `number` on `day`.
WasOn(changes, number, day) ==
  /\ number \in 1..(Len(changes) + 1)
  /\ number > 1 => changes[number - 1] <= day
  /\ number <= Len(changes) => day <= changes[number]

AnsweredOn(name, answer, day) == WasOn(replaced[name], answer, day)
PublishedOn(number, day) == WasOn(published, number, day)
================================================================================
