------------------------------ MODULE FoldLemmas ------------------------------
(***************************************************************************)
(* What the proofs about data need: induction on a set of numbers, and what *)
(* the folds of the community modules and recursive functions compute.      *)
(*                                                                         *)
(* The library's induction theorems take an operator as a parameter; these   *)
(* take sets and functions, so that first-order provers can use them.        *)
(***************************************************************************)
EXTENDS SequencesExt, FiniteSetTheorems, SequenceTheorems, WellFoundedInduction, TLAPS

LEMMA LeastNatural ==
  ASSUME NEW S \in SUBSET Nat, S # {}
  PROVE  \E m \in S : \A k \in S : m <= k
<1> DEFINE T == {0..m : m \in S}
<1>1. T # {} /\ T \in SUBSET FiniteSubsetsOf(Nat)
  <2>1. \A m \in Nat : IsFiniteSet(0..m)
    BY FS_Interval
  <2>2. \A m \in S : 0..m \in FiniteSubsetsOf(Nat)
    BY <2>1 DEF FiniteSubsetsOf
  <2>3. QED
    BY <2>2
<1> HIDE DEF T
<1>2. PICK x \in T : \A y \in T : ~(<<y, x>> \in StrictSubsetOrdering(Nat))
  BY <1>1, WFMin, FS_StrictSubsetOrderingWellFounded
<1>3. PICK m \in S : x = 0..m
  BY DEF T
<1>4. ASSUME NEW k \in S, k < m PROVE FALSE
  <2>1. 0..k \in T /\ 0..k \subseteq Nat /\ 0..m \subseteq Nat /\ 0..k \subseteq 0..m /\ m \in 0..m /\ m \notin 0..k
    BY <1>4 DEF T
  <2>2. <<0..k, x>> \in StrictSubsetOrdering(Nat)
    BY <1>3, <2>1 DEF StrictSubsetOrdering
  <2>3. QED
    BY <1>2, <2>1, <2>2
<1>5. QED
  BY <1>4

LEMMA SetInduction ==
  ASSUME NEW S, 0 \in S, NEW n \in Nat, \A k \in 0..(n - 1) : k \in S => k + 1 \in S
  PROVE  n \in S
<1> DEFINE Bad == {k \in 0..n : k \notin S}
<1>1. ASSUME Bad # {} PROVE FALSE
  <2>1. PICK m \in Bad : \A k \in Bad : m <= k
    BY <1>1, LeastNatural, Bad \in SUBSET Nat
  <2>2. m # 0 /\ m \in 0..n /\ m \notin S
    OBVIOUS
  <2>3. m - 1 \in 0..(n - 1) /\ m - 1 \notin Bad
    BY <2>1, <2>2
  <2>4. QED
    BY <2>2, <2>3
<1>2. QED
  BY <1>1

\* Every number up to n.
LEMMA SetInductionUpTo ==
  ASSUME NEW S, 0 \in S, NEW n \in Nat, \A k \in 0..(n - 1) : k \in S => k + 1 \in S
  PROVE  \A k \in 0..n : k \in S
BY SetInduction

LEMMA MinOf ==
  ASSUME NEW s \in SUBSET Nat, s # {}
  PROVE  Min(s) \in s /\ \A k \in s : Min(s) <= k
<1>1. PICK x \in s : \A k \in s : x <= k
  BY LeastNatural
<1>2. QED
  BY <1>1 DEF Min

LEMMA MaxOf ==
  ASSUME NEW n \in Nat, NEW s \in SUBSET (1..n), s # {}
  PROVE  Max(s) \in s /\ \A k \in s : Max(s) >= k
<1> DEFINE T == {n - k : k \in s}
<1>1. T \in SUBSET Nat
  OBVIOUS
<1>2. T # {}
  <2>1. PICK k \in s : TRUE
    OBVIOUS
  <2>2. n - k \in T
    OBVIOUS
  <2>3. QED
    BY <2>2
<1> HIDE DEF T
<1>3. PICK m \in T : \A k \in T : m <= k
  BY <1>1, <1>2, LeastNatural
<1>4. PICK x \in s : m = n - x
  BY DEF T
<1>5. \A k \in s : x >= k
  <2> TAKE k \in s
  <2>1. n - k \in T
    BY DEF T
  <2>2. QED
    BY <1>3, <1>4, <2>1
<1>6. QED
  BY <1>5 DEF Max

LEMMA Intervals ==
  ASSUME NEW n \in Nat, NEW k \in 1..n
  PROVE  /\ 1..k \in SUBSET (1..n) /\ 1..k # {} /\ Max(1..k) = k
         /\ (1..k) \ {Max(1..k)} = 1..(k - 1)
<1>1. 1..k \in SUBSET (1..n) /\ 1..k # {} /\ k \in 1..k
  OBVIOUS
<1>2. Max(1..k) \in 1..k /\ \A j \in 1..k : Max(1..k) >= j
  BY <1>1, MaxOf
<1>3. Max(1..k) = k
  BY <1>1, <1>2
<1>4. QED
  BY <1>1, <1>3

--------------------------------------------------------------------------------
(* Folds: f says what FoldLeft has computed of each set of positions, for a step g *)

IsTable(f, n, base, g) ==
  \A s \in SUBSET (1..n) : f[s] = IF s = {} THEN base ELSE g[<<f[s \ {Max(s)}], Max(s)>>]

LEMMA TableExists ==
  ASSUME NEW n \in Nat, NEW S, NEW base \in S, NEW g \in [S \X (1..n) -> S]
  PROVE  \E f \in [SUBSET (1..n) -> S] : IsTable(f, n, base, g)
<1> DEFINE Good == {k \in 0..n : \E f \in [SUBSET (1..k) -> S] : IsTable(f, k, base, g)}
<1>1. 0 \in Good
  <2> DEFINE f == [s \in SUBSET (1..0) |-> base]
  <2>1. f \in [SUBSET (1..0) -> S]
    OBVIOUS
  <2>2. \A s \in SUBSET (1..0) : s = {}
    OBVIOUS
  <2>3. IsTable(f, 0, base, g)
    BY <2>2 DEF IsTable
  <2>4. QED
    BY <2>1, <2>3
<1>2. ASSUME NEW k \in 0..(n - 1), k \in Good
      PROVE  k + 1 \in Good
  <2>1. PICK f \in [SUBSET (1..k) -> S] : IsTable(f, k, base, g)
    BY <1>2
  <2> DEFINE h == [s \in SUBSET (1..(k + 1)) |->
                     IF k + 1 \in s THEN g[<<f[s \ {k + 1}], k + 1>>] ELSE f[s]]
  <2>2. \A s \in SUBSET (1..(k + 1)) : s \ {k + 1} \in SUBSET (1..k) /\ (k + 1 \notin s => s \in SUBSET (1..k))
    OBVIOUS
  <2>3. k + 1 \in 1..n
    OBVIOUS
  <2>4. h \in [SUBSET (1..(k + 1)) -> S]
    <3> SUFFICES ASSUME NEW s \in SUBSET (1..(k + 1))
                 PROVE  (IF k + 1 \in s THEN g[<<f[s \ {k + 1}], k + 1>>] ELSE f[s]) \in S
      OBVIOUS
    <3>1. f[s \ {k + 1}] \in S
      BY <2>2
    <3>2. CASE k + 1 \in s
      BY <2>3, <3>1, <3>2
    <3>3. CASE k + 1 \notin s
      BY <2>2, <3>3
    <3>4. QED
      BY <3>2, <3>3
  <2>5. IsTable(h, k + 1, base, g)
    <3> SUFFICES ASSUME NEW s \in SUBSET (1..(k + 1))
                 PROVE  h[s] = IF s = {} THEN base ELSE g[<<h[s \ {Max(s)}], Max(s)>>]
      BY DEF IsTable
    <3>1. CASE k + 1 \in s
      <4>1. Max(s) = k + 1
        <5>1. k + 1 \in Nat /\ s # {} /\ \A j \in s : j <= k + 1 /\ j \in Nat
          BY <3>1
        <5>2. Max(s) \in s /\ \A j \in s : Max(s) >= j
          BY <5>1, MaxOf
        <5>3. Max(s) >= k + 1 /\ Max(s) <= k + 1 /\ Max(s) \in Nat
          BY <3>1, <5>1, <5>2
        <5>4. QED
          BY <5>1, <5>3
      <4>2. s \ {k + 1} \in SUBSET (1..(k + 1)) /\ k + 1 \notin s \ {k + 1}
        OBVIOUS
      <4>3. h[s \ {k + 1}] = f[s \ {k + 1}]
        BY <4>2
      <4>4. QED
        BY <3>1, <4>1, <4>3
    <3>2. CASE k + 1 \notin s
      <4>1. s \in SUBSET (1..k) /\ h[s] = f[s]
        BY <2>2, <3>2
      <4>2. s \ {Max(s)} \in SUBSET (1..(k + 1)) /\ k + 1 \notin s \ {Max(s)}
        BY <3>2
      <4>3. h[s \ {Max(s)}] = f[s \ {Max(s)}]
        BY <4>2
      <4>4. f[s] = IF s = {} THEN base ELSE g[<<f[s \ {Max(s)}], Max(s)>>]
        BY <2>1, <4>1 DEF IsTable
      <4>5. QED
        BY <4>1, <4>3, <4>4
    <3>3. QED
      BY <3>1, <3>2
  <2>6. k + 1 \in 0..n
    OBVIOUS
  <2> HIDE DEF h
  <2>7. QED
    BY <2>4, <2>5, <2>6
<1> HIDE DEF Good
<1>3. n \in Good
  BY <1>1, <1>2, SetInduction
<1>4. QED
  BY <1>3 DEF Good

\* f obeys the rule of a fold as long as what it says is in S.
Follows(f, n, S, base, g) ==
  \A s \in SUBSET (1..n) :
    /\ s = {} => f[s] = base
    /\ s # {} /\ f[s \ {Max(s)}] \in S => f[s] = g[<<f[s \ {Max(s)}], Max(s)>>]

\* A recursive function on 0..n: f[k] is made of f[k - 1].
IsRecursion(f, n, base, g) == \A k \in 0..n : f[k] = IF k = 0 THEN base ELSE g[<<f[k - 1], k>>]

LEMMA RecursionExists ==
  ASSUME NEW n \in Nat, NEW S, NEW base \in S, NEW g \in [S \X (1..n) -> S]
  PROVE  \E f \in [0..n -> S] : IsRecursion(f, n, base, g)
<1>1. PICK t \in [SUBSET (1..n) -> S] : IsTable(t, n, base, g)
  BY TableExists
<1> DEFINE f == [k \in 0..n |-> t[1..k]]
<1>2. \A k \in 0..n : 1..k \in SUBSET (1..n)
  OBVIOUS
<1>3. f \in [0..n -> S]
  BY <1>2
<1>4. ASSUME NEW k \in 0..n PROVE f[k] = IF k = 0 THEN base ELSE g[<<f[k - 1], k>>]
  <2>1. CASE k = 0
    <3>1. 1..k = {}
      BY <2>1
    <3>2. QED
      BY <1>1, <1>2, <2>1, <3>1 DEF IsTable
  <2>2. CASE k # 0
    <3>1. k \in 1..n /\ k - 1 \in 0..n
      BY <2>2
    <3>2. 1..k \in SUBSET (1..n) /\ 1..k # {} /\ Max(1..k) = k /\ (1..k) \ {Max(1..k)} = 1..(k - 1)
      BY <3>1, Intervals
    <3>3. t[1..k] = g[<<t[(1..k) \ {Max(1..k)}], Max(1..k)>>]
      BY <1>1, <3>2 DEF IsTable
    <3>4. f[k] = t[1..k] /\ f[k - 1] = t[1..(k - 1)]
      BY <3>1
    <3>5. QED
      BY <2>2, <3>2, <3>3, <3>4
  <2>3. QED
    BY <2>1, <2>2
<1> HIDE DEF f
<1>5. IsRecursion(f, n, base, g)
  BY <1>4 DEF IsRecursion
<1>6. QED
  BY <1>3, <1>5

\* What a fold computes of the first k positions is a recursion, and it ends with the fold.
LEMMA FoldRuns ==
  ASSUME NEW n \in Nat, NEW S, NEW base \in S, NEW g \in [S \X (1..n) -> S], NEW f, Follows(f, n, S, base, g)
  PROVE  \E h \in [0..n -> S] : h[n] = f[1..n] /\ IsRecursion(h, n, base, g)
<1> DEFINE h == [k \in 0..n |-> f[1..k]]
           T == {k \in 0..n : f[1..k] \in S}
<1>1. f[1..0] = base
  <2>1. 1..0 = {} /\ {} \in SUBSET (1..n)
    OBVIOUS
  <2>2. QED
    BY <2>1 DEF Follows
<1>2. ASSUME NEW k \in 1..n, f[1..(k - 1)] \in S
      PROVE  f[1..k] = g[<<f[1..(k - 1)], k>>] /\ f[1..k] \in S
  <2>1. 1..k \in SUBSET (1..n) /\ 1..k # {} /\ Max(1..k) = k /\ (1..k) \ {Max(1..k)} = 1..(k - 1)
    BY Intervals
  <2>2. f[1..k] = g[<<f[1..(k - 1)], k>>]
    BY <1>2, <2>1 DEF Follows
  <2>3. QED
    BY <1>2, <2>2
<1>3. 0 \in T
  BY <1>1
<1>4. \A k \in 0..(n - 1) : k \in T => k + 1 \in T
  <2> SUFFICES ASSUME NEW k \in 0..(n - 1), f[1..k] \in S PROVE k + 1 \in 0..n /\ f[1..(k + 1)] \in S
    OBVIOUS
  <2>1. k + 1 \in 1..n /\ (k + 1) - 1 = k /\ k + 1 \in 0..n
    OBVIOUS
  <2>2. QED
    BY <1>2, <2>1
<1> HIDE DEF T
<1>5. \A k \in 0..n : k \in T
  BY <1>3, <1>4, SetInductionUpTo
<1>6. \A k \in 0..n : f[1..k] \in S
  BY <1>5 DEF T
<1>7. h \in [0..n -> S] /\ h[n] = f[1..n]
  BY <1>6
<1>8. ASSUME NEW k \in 0..n PROVE h[k] = IF k = 0 THEN base ELSE g[<<h[k - 1], k>>]
  <2>1. CASE k = 0
    BY <1>1, <2>1
  <2>2. CASE k # 0
    <3>1. k \in 1..n /\ k - 1 \in 0..n
      BY <2>2
    <3>2. f[1..k] = g[<<f[1..(k - 1)], k>>]
      BY <1>2, <1>6, <3>1
    <3>3. QED
      BY <2>2, <3>1, <3>2
  <2>3. QED
    BY <2>1, <2>2
<1> HIDE DEF h
<1>9. IsRecursion(h, n, base, g)
  BY <1>8 DEF IsRecursion
<1>10. QED
  BY <1>7, <1>9

--------------------------------------------------------------------------------
(* What recursions along a sequence compute *)

\* v[k] is what the last of the first k positions that hit says.
IsLast(v, n, hits, says) == \A k \in 1..n : v[k] = IF k \in hits THEN says[k] ELSE v[k - 1]

LEMMA LastWins ==
  ASSUME NEW n \in Nat, NEW hits \in SUBSET (1..n), NEW v, NEW says, IsLast(v, n, hits, says)
  PROVE  \/ hits = {} /\ v[n] = v[0]
         \/ \E i \in hits : v[n] = says[i] /\ \A j \in hits : j <= i
<1> DEFINE Hits(k) == hits \cap (1..k)
           T == {k \in 0..n : \/ Hits(k) = {} /\ v[k] = v[0]
                              \/ \E i \in Hits(k) : v[k] = says[i] /\ \A j \in Hits(k) : j <= i}
<1>1. 0 \in T
  OBVIOUS
<1>2. \A k \in 0..(n - 1) : k \in T => k + 1 \in T
  <2> SUFFICES ASSUME NEW k \in 0..(n - 1), k \in T PROVE k + 1 \in T
    OBVIOUS
  <2>1. k + 1 \in 1..n /\ (k + 1) - 1 = k /\ k + 1 \in 0..n
    OBVIOUS
  <2>2. v[k + 1] = IF k + 1 \in hits THEN says[k + 1] ELSE v[k]
    BY <2>1 DEF IsLast
  <2>3. CASE k + 1 \in hits
    <3>1. k + 1 \in Hits(k + 1) /\ \A j \in Hits(k + 1) : j <= k + 1
      BY <2>3
    <3>2. QED
      BY <2>1, <2>2, <2>3, <3>1
  <2>4. CASE k + 1 \notin hits
    <3>1. Hits(k + 1) = Hits(k)
      BY <2>4
    <3>2. QED
      BY <2>1, <2>2, <2>4, <3>1
  <2>5. QED
    BY <2>3, <2>4
<1> HIDE DEF T
<1>3. n \in T
  BY <1>1, <1>2, SetInduction
<1>4. Hits(n) = hits
  OBVIOUS
<1>5. QED
  BY <1>3, <1>4 DEF T

LEMMA AppendOnce ==
  ASSUME NEW S, NEW list \in Seq(S), IsInjective(list), NEW x \in S, x \notin Range(list)
  PROVE  /\ Append(list, x) \in Seq(S) /\ IsInjective(Append(list, x))
         /\ Range(Append(list, x)) = Range(list) \cup {x} /\ Len(Append(list, x)) = Len(list) + 1
<1> DEFINE new == Append(list, x)
<1>1. /\ Len(list) \in Nat /\ DOMAIN list = 1..Len(list) /\ new \in Seq(S) /\ Len(new) = Len(list) + 1
      /\ DOMAIN new = 1..(Len(list) + 1)
      /\ \A i \in 1..Len(list) : new[i] = list[i]
      /\ new[Len(list) + 1] = x
  BY AppendProperties, LenProperties
<1> HIDE DEF new
<1>2. /\ \A i \in DOMAIN new : (i \in DOMAIN list /\ new[i] = list[i]) \/ (i = Len(list) + 1 /\ new[i] = x)
      /\ \A i \in DOMAIN list : i \in DOMAIN new /\ new[i] = list[i]
      /\ Len(list) + 1 \in DOMAIN new
  BY <1>1
<1>3. \A i \in DOMAIN list : list[i] # x
  BY DEF Range
<1>4. IsInjective(new)
  <2> SUFFICES ASSUME NEW i \in DOMAIN new, NEW j \in DOMAIN new, new[i] = new[j] PROVE i = j
    BY DEF IsInjective
  <2>1. CASE i \in DOMAIN list /\ j \in DOMAIN list
    BY <1>2, <2>1 DEF IsInjective
  <2>2. CASE ~(i \in DOMAIN list /\ j \in DOMAIN list)
    BY <1>2, <1>3, <2>2
  <2>3. QED
    BY <2>1, <2>2
<1>5. Range(new) = Range(list) \cup {x}
  <2>1. Range(new) \subseteq Range(list) \cup {x}
    BY <1>2 DEF Range
  <2>2. Range(list) \subseteq Range(new) /\ x \in Range(new)
    BY <1>1, <1>2 DEF Range
  <2>3. QED
    BY <2>1, <2>2
<1>6. QED
  BY <1>1, <1>4, <1>5 DEF new

\* v[k] is the list v[0] with x, if one of the first k positions hits, but never twice.
IsAdded(v, n, hits, x) ==
  \A k \in 1..n : v[k] = IF k \in hits /\ x \notin Range(v[k - 1]) THEN Append(v[k - 1], x) ELSE v[k - 1]

LEMMA AddedOnce ==
  ASSUME NEW n \in Nat, NEW hits \in SUBSET (1..n), NEW S, NEW v \in [0..n -> Seq(S)], NEW x \in S,
         IsInjective(v[0]), IsAdded(v, n, hits, x)
  PROVE  /\ IsInjective(v[n])
         /\ \A y : y \in Range(v[n]) <=> y \in Range(v[0]) \/ (y = x /\ hits # {})
<1> DEFINE Hits(k) == hits \cap (1..k)
           T == {k \in 0..n : /\ IsInjective(v[k])
                              /\ \A y : y \in Range(v[k]) <=> y \in Range(v[0]) \/ (y = x /\ Hits(k) # {})}
<1>1. 0 \in T
  OBVIOUS
<1>2. \A k \in 0..(n - 1) : k \in T => k + 1 \in T
  <2> SUFFICES ASSUME NEW k \in 0..(n - 1), k \in T PROVE k + 1 \in T
    OBVIOUS
  <2>1. k + 1 \in 1..n /\ (k + 1) - 1 = k /\ k + 1 \in 0..n /\ k \in 0..n
    OBVIOUS
  <2>2. v[k + 1] = IF k + 1 \in hits /\ x \notin Range(v[k]) THEN Append(v[k], x) ELSE v[k]
    BY <2>1 DEF IsAdded
  <2>3. v[k] \in Seq(S) /\ IsInjective(v[k])
    BY <2>1
  <2>4. CASE k + 1 \in hits /\ x \notin Range(v[k])
    <3>1. IsInjective(v[k + 1]) /\ Range(v[k + 1]) = Range(v[k]) \cup {x}
      BY <2>2, <2>3, <2>4, AppendOnce
    <3>2. k + 1 \in Hits(k + 1)
      BY <2>4
    <3>3. QED
      BY <2>1, <3>1, <3>2
  <2>5. CASE k + 1 \in hits /\ x \in Range(v[k])
    <3>1. k + 1 \in Hits(k + 1) /\ v[k + 1] = v[k]
      BY <2>2, <2>5
    <3>2. QED
      BY <2>1, <2>3, <2>5, <3>1
  <2>6. CASE k + 1 \notin hits
    <3>1. Hits(k + 1) = Hits(k) /\ v[k + 1] = v[k]
      BY <2>2, <2>6
    <3>2. QED
      BY <2>1, <3>1
  <2>7. QED
    BY <2>4, <2>5, <2>6
<1> HIDE DEF T
<1>3. n \in T
  BY <1>1, <1>2, SetInduction
<1>4. Hits(n) = hits
  OBVIOUS
<1>5. QED
  BY <1>3, <1>4 DEF T

\* v[k] is the first k pieces, one after the other.
IsJoin(v, n, pieces) == v[0] = <<>> /\ \A k \in 1..n : v[k] = v[k - 1] \o pieces[k]

\* FlattenSeq joins piece by piece.
LEMMA FlattenRuns ==
  ASSUME NEW C, NEW n \in Nat, NEW pieces \in [1..n -> Seq(C)]
  PROVE  \E v \in [0..n -> Seq(C)] : IsJoin(v, n, pieces) /\ v[n] = FlattenSeq(pieces)
<1> DEFINE S == Seq(C)
           none == <<>>
           g == [x \in S \X (1..n) |-> x[1] \o pieces[x[2]]]
           Rule(f) == f = [i \in 1..n |-> IF i = 1 THEN pieces[i] ELSE f[i - 1] \o pieces[i]]
<1>1. none \in S /\ \A s \in S : none \o s = s
  BY EmptySeq, ConcatEmptySeq
<1>2. pieces \in Seq(S) /\ Len(pieces) = n
  <2>1. \A m \in Nat : \A f \in [1..m -> S] : f \in Seq(S)
    BY SeqDef
  <2>2. QED
    BY <2>1
<1>3. \A s \in S, k \in 1..n : s \o pieces[k] \in S
  BY ConcatProperties
<1>4. g \in [S \X (1..n) -> S] /\ \A s \in S, k \in 1..n : g[<<s, k>>] = s \o pieces[k]
  BY <1>3
<1> HIDE DEF S, none, g
<1>5. PICK h \in [0..n -> S] : IsRecursion(h, n, none, g)
  BY <1>1, <1>4, RecursionExists
<1>6. \A k \in 1..n : h[k] = h[k - 1] \o pieces[k]
  <2> SUFFICES ASSUME NEW k \in 1..n PROVE h[k] = h[k - 1] \o pieces[k]
    OBVIOUS
  <2>1. k \in 0..n /\ k - 1 \in 0..n /\ k # 0
    OBVIOUS
  <2>2. h[k - 1] \in S
    BY <2>1
  <2>3. QED
    BY <1>4, <1>5, <2>1, <2>2 DEF IsRecursion
<1>7. h[0] = none
  <2>1. 0 \in 0..n
    OBVIOUS
  <2>2. QED
    BY <1>5, <2>1 DEF IsRecursion
<1>8. CASE n = 0
  <2>1. pieces = none
    BY <1>2, <1>8, EmptySeq DEF none
  <2>2. FlattenSeq(pieces) = pieces
    BY <1>2, <1>8 DEF FlattenSeq
  <2>3. h[n] = FlattenSeq(pieces)
    BY <1>7, <1>8, <2>1, <2>2
  <2>4. IsJoin(h, n, pieces)
    BY <1>6, <1>7 DEF IsJoin, none
  <2>5. QED
    BY <2>3, <2>4 DEF S
<1>9. CASE n # 0
  <2> DEFINE f == [i \in 1..n |-> h[i]]
  <2>1. Rule(f)
    <3>1. \A i \in 1..n : i # 1 => i - 1 \in 1..n
      OBVIOUS
    <3>2. 1 \in 1..n
      BY <1>9
    <3>3. h[1] = pieces[1]
      <4>1. h[1] = h[0] \o pieces[1]
        BY <1>6, <3>2
      <4>2. pieces[1] \in S
        BY <1>2, <3>2 DEF S
      <4>3. QED
        BY <1>1, <1>7, <4>1, <4>2
    <3>4. QED
      BY <1>6, <3>1, <3>3
  <2> DEFINE F == CHOOSE x : Rule(x)
  <2> HIDE DEF f
  <2>2. Rule(F)
    BY <2>1, Zenon
  <2>3. FlattenSeq(pieces) = F[n]
    BY <1>2, <1>9 DEF FlattenSeq
  <2> HIDE DEF F
  <2>4. \A i \in 1..n : F[i] = IF i = 1 THEN pieces[i] ELSE F[i - 1] \o pieces[i]
    BY <2>2
  <2> DEFINE T == {k \in 0..n : k = 0 \/ F[k] = h[k]}
  <2>5. 0 \in T
    OBVIOUS
  <2>6. \A k \in 0..(n - 1) : k \in T => k + 1 \in T
    <3> SUFFICES ASSUME NEW k \in 0..(n - 1), k = 0 \/ F[k] = h[k] PROVE k + 1 \in 0..n /\ F[k + 1] = h[k + 1]
      OBVIOUS
    <3>1. k + 1 \in 1..n /\ k + 1 \in 0..n /\ (k + 1) - 1 = k /\ (k + 1 = 1 <=> k = 0)
      OBVIOUS
    <3>2. h[k + 1] = h[k] \o pieces[k + 1]
      BY <1>6, <3>1
    <3>3. CASE k = 0
      <4>1. pieces[k + 1] \in S
        BY <3>1 DEF S
      <4>2. h[k + 1] = pieces[k + 1]
        BY <1>1, <1>7, <3>2, <3>3, <4>1
      <4>3. QED
        BY <2>4, <3>1, <3>3, <4>2
    <3>4. CASE k # 0
      BY <2>4, <3>1, <3>2, <3>4
    <3>5. QED
      BY <3>3, <3>4
  <2> HIDE DEF T
  <2>7. n \in T
    BY <2>5, <2>6, SetInduction
  <2>8. F[n] = h[n]
    BY <1>9, <2>7 DEF T
  <2>9. IsJoin(h, n, pieces)
    BY <1>6, <1>7 DEF IsJoin, none
  <2>10. QED
    BY <2>3, <2>8, <2>9 DEF S
<1>10. QED
  BY <1>8, <1>9

\* In what is joined, each piece begins where those before it end.
IsPlaced(v, n, pieces, k) ==
  /\ Len(v[k - 1]) \in Nat /\ Len(pieces[k]) \in Nat
  /\ Len(v[k]) = Len(v[k - 1]) + Len(pieces[k])
  /\ \A j \in 1..Len(pieces[k]) : /\ Len(v[k - 1]) + j \in 1..Len(v[n])
                                  /\ v[n][Len(v[k - 1]) + j] = pieces[k][j]

LEMMA JoinPositions ==
  ASSUME NEW C, NEW n \in Nat, NEW pieces \in [1..n -> Seq(C)], NEW v \in [0..n -> Seq(C)],
         IsJoin(v, n, pieces)
  PROVE  \A k \in 1..n : IsPlaced(v, n, pieces, k)
<1> TAKE k \in 1..n
<1> DEFINE end == Len(v[k])
           T == {m \in 0..n : m >= k => Len(v[m]) >= end /\ \A i \in 1..end : v[m][i] = v[k][i]}
<1>1. \A m \in 0..n : Len(v[m]) \in Nat
  BY LenProperties
<1>2. \A m \in 1..n : /\ m - 1 \in 0..n /\ m \in 0..n /\ Len(pieces[m]) \in Nat
                      /\ Len(v[m]) = Len(v[m - 1]) + Len(pieces[m])
                      /\ \A i \in 1..Len(v[m - 1]) : v[m][i] = v[m - 1][i]
                      /\ \A i \in 1..Len(pieces[m]) : v[m][Len(v[m - 1]) + i] = pieces[m][i]
  <2> SUFFICES ASSUME NEW m \in 1..n
               PROVE  /\ m - 1 \in 0..n /\ m \in 0..n /\ Len(pieces[m]) \in Nat
                      /\ Len(v[m]) = Len(v[m - 1]) + Len(pieces[m])
                      /\ \A i \in 1..Len(v[m - 1]) : v[m][i] = v[m - 1][i]
                      /\ \A i \in 1..Len(pieces[m]) : v[m][Len(v[m - 1]) + i] = pieces[m][i]
    OBVIOUS
  <2>1. m - 1 \in 0..n /\ m \in 0..n
    OBVIOUS
  <2>2. v[m - 1] \in Seq(C) /\ pieces[m] \in Seq(C) /\ v[m] = v[m - 1] \o pieces[m]
    BY <2>1 DEF IsJoin
  <2> DEFINE a == v[m - 1]
             b == pieces[m]
  <2> HIDE DEF a, b
  <2>3. /\ Len(a) \in Nat /\ Len(b) \in Nat /\ Len(a \o b) = Len(a) + Len(b)
        /\ \A i \in 1..(Len(a) + Len(b)) : (a \o b)[i] = IF i <= Len(a) THEN a[i] ELSE b[i - Len(a)]
    BY <2>2, ConcatProperties, LenProperties DEF a, b
  <2>4. \A i \in 1..Len(a) : (a \o b)[i] = a[i]
    <3> SUFFICES ASSUME NEW i \in 1..Len(a) PROVE (a \o b)[i] = a[i]
      OBVIOUS
    <3>1. i \in 1..(Len(a) + Len(b)) /\ i <= Len(a)
      BY <2>3
    <3>2. QED
      BY <2>3, <3>1
  <2>5. \A i \in 1..Len(b) : (a \o b)[Len(a) + i] = b[i]
    <3> SUFFICES ASSUME NEW i \in 1..Len(b) PROVE (a \o b)[Len(a) + i] = b[i]
      OBVIOUS
    <3>1. Len(a) + i \in 1..(Len(a) + Len(b)) /\ ~(Len(a) + i <= Len(a)) /\ Len(a) + i - Len(a) = i
      BY <2>3
    <3>2. QED
      BY <2>3, <3>1
  <2>6. QED
    BY <2>1, <2>2, <2>3, <2>4, <2>5 DEF a, b
<1>3. 0 \in T
  OBVIOUS
<1>4. ASSUME NEW m \in 0..(n - 1), m \in T, m + 1 >= k
      PROVE  Len(v[m + 1]) >= end /\ \A i \in 1..end : v[m + 1][i] = v[k][i]
  <2>1. m + 1 \in 1..n /\ m + 1 \in 0..n /\ (m + 1) - 1 = m /\ m \in 0..n
    OBVIOUS
  <2>2. CASE m + 1 = k
    BY <1>1, <2>1, <2>2
  <2>3. CASE m + 1 # k
    <3>1. Len(v[m]) >= end /\ \A i \in 1..end : v[m][i] = v[k][i]
      BY <1>4, <2>3
    <3>2. /\ Len(v[m + 1]) = Len(v[m]) + Len(pieces[m + 1]) /\ Len(pieces[m + 1]) \in Nat
          /\ \A i \in 1..Len(v[m]) : v[m + 1][i] = v[m][i]
      BY <1>2, <2>1
    <3>3. Len(v[m]) \in Nat /\ end \in Nat
      BY <1>1, <2>1
    <3> HIDE DEF end
    <3>4. \A i \in 1..end : i \in 1..Len(v[m])
      BY <3>1, <3>3
    <3>5. Len(v[m + 1]) >= end
      <4>1. \A x, y, z \in Nat : x >= z => x + y >= z
        OBVIOUS
      <4>2. QED
        BY <3>1, <3>2, <3>3, <4>1
    <3>6. QED
      BY <2>1, <3>1, <3>2, <3>4, <3>5
  <2>4. QED
    BY <2>2, <2>3
<1>5. n \in T
  <2>1. \A m \in 0..(n - 1) : m \in T => m + 1 \in T
    <3> SUFFICES ASSUME NEW m \in 0..(n - 1), m \in T PROVE m + 1 \in T
      OBVIOUS
    <3>1. m + 1 \in 0..n
      OBVIOUS
    <3>2. QED
      BY <1>4, <3>1
  <2> HIDE DEF T
  <2>2. QED
    BY <1>3, <2>1, SetInduction
<1> HIDE DEF T
<1>6. Len(v[n]) >= end /\ \A i \in 1..end : v[n][i] = v[k][i]
  BY <1>5 DEF T
<1>7. /\ k - 1 \in 0..n /\ Len(v[k - 1]) \in Nat /\ Len(pieces[k]) \in Nat /\ Len(v[n]) \in Nat
      /\ end = Len(v[k - 1]) + Len(pieces[k])
      /\ \A i \in 1..Len(pieces[k]) : v[k][Len(v[k - 1]) + i] = pieces[k][i]
  BY <1>1, <1>2
<1>8. \A j \in 1..Len(pieces[k]) : Len(v[k - 1]) + j \in 1..end /\ Len(v[k - 1]) + j \in 1..Len(v[n])
  <2> HIDE DEF end
  <2>1. QED
    BY <1>6, <1>7
<1>9. QED
  BY <1>6, <1>7, <1>8 DEF IsPlaced

\* One more element of a sequence.
LEMMA OneMore ==
  ASSUME NEW C, NEW s \in Seq(C), NEW k \in 1..Len(s)
  PROVE  SubSeq(s, 1, k) = Append(SubSeq(s, 1, k - 1), s[k])
<1>1. Len(s) \in Nat /\ k \in Nat /\ k - 1 \in Nat /\ k - 1 <= Len(s)
  BY LenProperties
<1>2. SubSeq(s, 1, k) = [i \in 1..k |-> s[i]]
  BY <1>1
<1>3. SubSeq(s, 1, k - 1) = [i \in 1..(k - 1) |-> s[i]] /\ Len(SubSeq(s, 1, k - 1)) = k - 1
  BY <1>1
<1>4. SubSeq(s, 1, k - 1) \in Seq(C) /\ s[k] \in C
  BY <1>1, SubSeqProperties, ElementOfSeq
<1> DEFINE t == SubSeq(s, 1, k - 1)
           u == SubSeq(s, 1, k)
<1> HIDE DEF t, u
<1>5. /\ Append(t, s[k]) \in Seq(C) /\ Len(Append(t, s[k])) = k /\ Append(t, s[k])[k] = s[k]
      /\ \A i \in 1..(k - 1) : Append(t, s[k])[i] = t[i]
  <2>1. t \in Seq(C) /\ s[k] \in C /\ Len(t) = k - 1
    BY <1>3, <1>4 DEF t
  <2>2. (k - 1) + 1 = k
    BY <1>1
  <2>3. QED
    BY <2>1, <2>2, AppendProperties
<1>6. \A i \in 1..k : u[i] = Append(t, s[k])[i]
  <2> SUFFICES ASSUME NEW i \in 1..k PROVE u[i] = Append(t, s[k])[i]
    OBVIOUS
  <2>1. i = k \/ i \in 1..(k - 1)
    BY <1>1
  <2>2. \A j \in 1..(k - 1) : t[j] = s[j]
    BY <1>3 DEF t
  <2>3. u[i] = s[i]
    BY <1>2 DEF u
  <2>4. QED
    BY <1>5, <2>1, <2>2, <2>3
<1>7. u \in Seq(C) /\ Len(u) = k
  <2>1. SubSeq(s, 1, k) \in Seq(C)
    BY <1>1, SubSeqProperties
  <2>2. Len(SubSeq(s, 1, k)) = k
    BY <1>1
  <2>3. QED
    BY <2>1, <2>2 DEF u
<1>8. u = Append(t, s[k])
  BY <1>5, <1>6, <1>7, SeqEqual
<1>9. QED
  BY <1>8 DEF t, u
================================================================================
