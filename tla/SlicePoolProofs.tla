-------------------------- MODULE SlicePoolProofs --------------------------
(***************************************************************************)
(* Proofs about SlicePool, for every set of clients, connections and       *)
(* configurations: its types, the balance of active, the home of every     *)
(* connection, what waiting requests imply, the bound of openerCh and what *)
(* is left to a closed pool.                                               *)
(***************************************************************************)
EXTENDS SlicePool, FiniteSetTheorems, SequenceTheorems, TLAPS

-----------------------------------------------------------------------------
(* The queue. Connections enter and leave it with their items. *)

ConnsOf(s) == {s[i].c : i \in 1..Len(s)}
Distinct(s) == \A i, j \in 1..Len(s) : s[i].c = s[j].c => i = j

LEMMA QueueTail ==
  ASSUME NEW s \in Seq(Item), s # <<>>, Distinct(s)
  PROVE  /\ Tail(s) \in Seq(Item) /\ Len(Tail(s)) = Len(s) - 1 /\ Head(s) \in Item
         /\ Distinct(Tail(s)) /\ ConnsOf(Tail(s)) = ConnsOf(s) \ {Head(s).c}
         /\ Head(s).c \in ConnsOf(s)
<1>1. Len(s) \in Nat /\ Len(s) >= 1 /\ Head(s) = s[1]
  OBVIOUS
<1>2. /\ Tail(s) \in Seq(Item) /\ Head(s) \in Item
      /\ Len(Tail(s)) = Len(s) - 1 /\ \A i \in 1..Len(s) - 1 : Tail(s)[i] = s[i + 1]
  BY HeadTailProperties
<1>3. Distinct(Tail(s))
  <2> SUFFICES ASSUME NEW i \in 1..Len(Tail(s)), NEW k \in 1..Len(Tail(s)), Tail(s)[i].c = Tail(s)[k].c
               PROVE  i = k
    BY DEF Distinct
  <2>1. s[i + 1].c = s[k + 1].c /\ i + 1 \in 1..Len(s) /\ k + 1 \in 1..Len(s)
    BY <1>1, <1>2
  <2>2. i + 1 = k + 1
    BY <2>1 DEF Distinct
  <2> QED BY <2>2
<1>4. ConnsOf(Tail(s)) \subseteq ConnsOf(s) \ {Head(s).c}
  <2> SUFFICES ASSUME NEW i \in 1..Len(Tail(s))
               PROVE  Tail(s)[i].c \in ConnsOf(s) /\ Tail(s)[i].c # s[1].c
    BY <1>1 DEF ConnsOf
  <2>1. Tail(s)[i] = s[i + 1] /\ i + 1 \in 1..Len(s) /\ i + 1 # 1 /\ 1 \in 1..Len(s)
    BY <1>1, <1>2
  <2> QED BY <2>1 DEF ConnsOf, Distinct
<1>5. ConnsOf(s) \ {Head(s).c} \subseteq ConnsOf(Tail(s))
  <2> SUFFICES ASSUME NEW i \in 1..Len(s), s[i].c # s[1].c PROVE s[i].c \in ConnsOf(Tail(s))
    BY <1>1 DEF ConnsOf
  <2>1. i # 1
    OBVIOUS
  <2>2. i - 1 \in 1..Len(s) - 1
    BY <1>1, <2>1
  <2>3. Tail(s)[i - 1] = s[(i - 1) + 1]
    BY <1>2, <2>2
  <2>4. i - 1 \in 1..Len(Tail(s)) /\ Tail(s)[i - 1] = s[i]
    BY <1>1, <1>2, <2>2, <2>3
  <2> QED BY <2>4 DEF ConnsOf
<1>6. Head(s).c \in ConnsOf(s)
  BY <1>1 DEF ConnsOf
<1> QED BY <1>2, <1>3, <1>4, <1>5, <1>6

LEMMA QueueAppend ==
  ASSUME NEW s \in Seq(Item), NEW e \in Item, Distinct(s), e.c \notin ConnsOf(s)
  PROVE  /\ Append(s, e) \in Seq(Item) /\ Len(Append(s, e)) = Len(s) + 1
         /\ Distinct(Append(s, e)) /\ ConnsOf(Append(s, e)) = ConnsOf(s) \union {e.c}
<1> DEFINE r == Append(s, e)
<1>1. /\ r \in Seq(Item) /\ Len(r) = Len(s) + 1 /\ Len(s) \in Nat /\ r[Len(s) + 1] = e
      /\ \A i \in 1..Len(s) : r[i] = s[i]
  OBVIOUS
<1> HIDE DEF r
<1>2. \A i \in 1..Len(r) : i \in 1..Len(s) \/ i = Len(s) + 1
  BY <1>1
<1>3. Distinct(r)
  BY <1>1, <1>2 DEF Distinct, ConnsOf
<1>4. ConnsOf(r) \subseteq ConnsOf(s) \union {e.c}
  BY <1>1, <1>2 DEF ConnsOf
<1>5. ConnsOf(s) \union {e.c} \subseteq ConnsOf(r)
  <2>1. \A i \in 1..Len(s) : i \in 1..Len(r) /\ r[i] = s[i]
    BY <1>1
  <2>2. Len(s) + 1 \in 1..Len(r)
    BY <1>1
  <2> QED BY <1>1, <2>1, <2>2 DEF ConnsOf
<1> QED BY <1>1, <1>3, <1>4, <1>5 DEF r

LEMMA QueueEmpty == <<>> \in Seq(Item) /\ Len(<<>>) = 0 /\ Distinct(<<>>) /\ ConnsOf(<<>>) = {}
<1>1. <<>> \in Seq(Item) /\ Len(<<>>) = 0
  OBVIOUS
<1>2. \A i : i \notin 1..Len(<<>>)
  BY <1>1
<1> QED BY <1>1, <1>2 DEF Distinct, ConnsOf

-----------------------------------------------------------------------------
(* The sweep: each expired item gives its place to a fresh one of the tail, *)
(* the last first. What is left is the fresh items, each once.              *)

\* Of the stretches of a set of places.
LEMMA FreshFinite ==
  ASSUME NEW a \in Int, NEW b \in Int
  PROVE  IsFiniteSet(FreshIn(a, b)) /\ Cardinality(FreshIn(a, b)) \in Nat
<1>1. IsFiniteSet(a..b) /\ FreshIn(a, b) \in SUBSET (a..b)
  BY FS_Interval DEF FreshIn
<1>2. IsFiniteSet(FreshIn(a, b))
  BY <1>1, FS_Subset
<1> QED BY <1>2, FS_CardinalityType

LEMMA FreshSplit ==
  ASSUME NEW n \in Int, NEW i \in 0..n
  PROVE  Cardinality(FreshIn(1, n)) = Cardinality(FreshIn(1, i)) + Cardinality(FreshIn(i + 1, n))
<1> DEFINE A == FreshIn(1, i)
           B == FreshIn(i + 1, n)
<1>1. FreshIn(1, n) = A \union B
  BY DEF FreshIn
<1>2. A \intersect B = {}
  BY DEF FreshIn
<1>3. /\ IsFiniteSet(A) /\ IsFiniteSet(B)
      /\ Cardinality(A) \in Nat /\ Cardinality(B) \in Nat
  <2>1. i \in Int /\ i + 1 \in Int /\ 1 \in Int
    OBVIOUS
  <2> QED BY <2>1, FreshFinite
<1> HIDE DEF A, B
<1>4. Cardinality(A \intersect B) = 0
  BY <1>2, FS_EmptySet
<1>5. Cardinality(A \union B) = Cardinality(A) + Cardinality(B) - Cardinality(A \intersect B)
  BY <1>3, FS_Union
<1>6. Cardinality(A \union B) = Cardinality(A) + Cardinality(B)
  BY <1>3, <1>4, <1>5
<1> QED BY <1>1, <1>6 DEF A, B

\* A longer stretch that begins with a fresh item has more of them.
LEMMA FreshMore ==
  ASSUME NEW n \in Int, NEW m \in Int, NEW k \in Int, m < k, m <= n, Fresh(m)
  PROVE  Cardinality(FreshIn(k, n)) < Cardinality(FreshIn(m, n))
<1>1. FreshIn(k, n) \subseteq FreshIn(m, n) /\ m \in FreshIn(m, n) /\ m \notin FreshIn(k, n)
  BY DEF FreshIn
<1>2. /\ IsFiniteSet(FreshIn(m, n)) /\ Cardinality(FreshIn(m, n)) \in Nat
      /\ Cardinality(FreshIn(k, n)) \in Nat
  BY FreshFinite
<1>3. /\ Cardinality(FreshIn(k, n)) <= Cardinality(FreshIn(m, n))
      /\ Cardinality(FreshIn(m, n)) = Cardinality(FreshIn(k, n)) => FreshIn(m, n) = FreshIn(k, n)
  BY <1>1, <1>2, FS_Subset
<1> QED BY <1>1, <1>2, <1>3

\* Counted from the end, every number up to that of the fresh items is the
\* number of one of them.
LEMMA FreshFromEnd ==
  ASSUME NEW n \in Nat, NEW c \in 1..Cardinality(FreshIn(1, n))
  PROVE  \E m \in FreshIn(1, n) : Cardinality(FreshIn(m, n)) = c
<1> DEFINE F == FreshIn(1, n)
           T == 1..Cardinality(F)
           g == [m \in F |-> Cardinality(FreshIn(m, n))]
<1>1. IsFiniteSet(F) /\ Cardinality(F) \in Nat
  BY FreshFinite
<1>2. \A m \in F : m \in 1..n /\ Fresh(m)
  BY DEF FreshIn
<1>3. \A m \in F : Cardinality(FreshIn(m, n)) \in T
  <2> TAKE m \in F
  <2>1. m \in FreshIn(m, n) /\ FreshIn(m, n) \in SUBSET F
    BY <1>2 DEF FreshIn
  <2>2. /\ IsFiniteSet(FreshIn(m, n)) /\ Cardinality(FreshIn(m, n)) \in Nat
    BY <1>2, FreshFinite
  <2>3. Cardinality(FreshIn(m, n)) # 0
    BY <2>1, <2>2, FS_EmptySet
  <2>4. Cardinality(FreshIn(m, n)) <= Cardinality(F)
    BY <1>1, <2>1, FS_Subset
  <2> QED BY <1>1, <2>2, <2>3, <2>4
<1>4. \A m, k \in F : Cardinality(FreshIn(m, n)) = Cardinality(FreshIn(k, n)) => m = k
  <2> SUFFICES ASSUME NEW m \in F, NEW k \in F, m # k
               PROVE  Cardinality(FreshIn(m, n)) # Cardinality(FreshIn(k, n))
    OBVIOUS
  <2>1. m \in Int /\ k \in Int /\ m <= n /\ k <= n /\ Fresh(m) /\ Fresh(k)
    BY <1>2
  <2>2. Cardinality(FreshIn(m, n)) \in Nat /\ Cardinality(FreshIn(k, n)) \in Nat
    BY <2>1, FreshFinite
  <2>3. CASE m < k
    BY <2>1, <2>2, <2>3, FreshMore
  <2>4. CASE k < m
    BY <2>1, <2>2, <2>4, FreshMore
  <2> QED BY <2>1, <2>3, <2>4
<1>5. IsFiniteSet(T) /\ Cardinality(T) = Cardinality(F)
  <2>1. Cardinality(F) \in Int
    BY <1>1
  <2>2. Cardinality(T) = IF 1 > Cardinality(F) THEN 0 ELSE Cardinality(F) - 1 + 1
    BY <2>1, FS_Interval
  <2>3. IsFiniteSet(T)
    BY <2>1, FS_Interval
  <2> HIDE DEF T
  <2> QED BY <1>1, <2>2, <2>3
<1>6. g \in Injection(F, T)
  <2>1. g \in [F -> T]
    BY <1>3
  <2>2. \A m, k \in F : g[m] = g[k] => m = k
    BY <1>4
  <2> HIDE DEF g, F, T
  <2> QED BY <2>1, <2>2 DEF Injection, IsInjective
<1>7. g \in Surjection(F, T)
  <2> HIDE DEF g, F, T
  <2> QED BY <1>5, <1>6, FS_Injection
<1>8. \E m \in F : g[m] = c
  <2>1. c \in T
    OBVIOUS
  <2> HIDE DEF g, F, T
  <2> QED BY <1>7, <2>1 DEF Surjection
<1> QED BY <1>8

\* Fresh items up to place i, expired ones among them, and fresh ones from i on.
Upto(i) == Cardinality(FreshIn(1, i))
Holes(i) == i - Upto(i)
From(i) == Cardinality(FreshIn(i, Len(freeItem)))

LEMMA CountTypes ==
  ASSUME freeItem \in Seq(Item)
  PROVE  /\ Len(freeItem) \in Nat
         /\ \A i \in Int : Upto(i) \in Nat /\ Holes(i) \in Int /\ From(i) \in Nat
<1>1. Len(freeItem) \in Nat
  OBVIOUS
<1>2. \A i \in Int : Upto(i) \in Nat
  <2> TAKE i \in Int
  <2>1. 1 \in Int /\ i \in Int
    OBVIOUS
  <2>2. Cardinality(FreshIn(1, i)) \in Nat
    BY <2>1, FreshFinite
  <2> QED BY <2>2 DEF Upto
<1>3. \A i \in Int : From(i) \in Nat
  <2> TAKE i \in Int
  <2>1. Len(freeItem) \in Int
    BY <1>1
  <2>2. Cardinality(FreshIn(i, Len(freeItem))) \in Nat
    BY <2>1, FreshFinite
  <2> QED BY <2>2 DEF From
<1>4. \A i \in Int : Holes(i) \in Int
  BY <1>2 DEF Holes
<1> QED BY <1>1, <1>2, <1>3, <1>4

\* A stretch has at most as many fresh items as places.
LEMMA FreshBound ==
  ASSUME NEW i \in Nat, NEW j \in Nat, i <= j
  PROVE  Cardinality(FreshIn(i + 1, j)) <= j - i
<1>1. i + 1 \in Int /\ j \in Int
  OBVIOUS
<1>2. /\ IsFiniteSet((i + 1)..j)
      /\ Cardinality((i + 1)..j) = IF i + 1 > j THEN 0 ELSE j - (i + 1) + 1
  BY <1>1, FS_Interval
<1>3. (IF i + 1 > j THEN 0 ELSE j - (i + 1) + 1) = j - i
  OBVIOUS
<1>4. FreshIn(i + 1, j) \in SUBSET ((i + 1)..j)
  BY DEF FreshIn
<1>5. Cardinality(FreshIn(i + 1, j)) <= Cardinality((i + 1)..j)
  BY <1>2, <1>4, FS_Subset
<1> QED BY <1>2, <1>3, <1>5

LEMMA HolesGrow ==
  ASSUME freeItem \in Seq(Item), NEW i \in Nat, NEW j \in Nat
  PROVE  /\ i <= j => Holes(i) <= Holes(j)
         /\ i < j /\ ~Fresh(j) => Holes(i) < Holes(j)
<1>1. ASSUME NEW m \in Nat, i <= m PROVE Holes(i) <= Holes(m)
  <2>1. m \in Int /\ i \in 0..m
    BY <1>1
  <2>2. Upto(m) = Upto(i) + Cardinality(FreshIn(i + 1, m))
    BY <2>1, FreshSplit DEF Upto
  <2>3. Cardinality(FreshIn(i + 1, m)) <= m - i
    BY <1>1, FreshBound
  <2>4. Cardinality(FreshIn(i + 1, m)) \in Nat
    <3>1. i + 1 \in Int /\ m \in Int
      OBVIOUS
    <3> QED BY <3>1, FreshFinite
  <2>5. Upto(m) \in Nat /\ Upto(i) \in Nat
    <3>1. i \in Int /\ m \in Int
      OBVIOUS
    <3> QED BY <3>1, CountTypes
  <2> QED BY <2>2, <2>3, <2>4, <2>5 DEF Holes
<1>2. ASSUME i < j, ~Fresh(j) PROVE Holes(i) < Holes(j)
  <2>1. j - 1 \in Nat /\ i <= j - 1
    BY <1>2
  <2>2. FreshIn(1, j) = FreshIn(1, j - 1)
    <3>1. \A m \in 1..j : Fresh(m) => m \in 1..(j - 1)
      BY <1>2
    <3>2. 1..(j - 1) \subseteq 1..j
      BY <2>1
    <3> QED BY <3>1, <3>2 DEF FreshIn
  <2>3. Upto(j) = Upto(j - 1)
    BY <2>2 DEF Upto
  <2>4. Holes(i) <= Holes(j - 1)
    BY <1>1, <2>1
  <2>5. Upto(j) \in Nat /\ Holes(i) \in Int
    <3>1. i \in Int /\ j \in Int
      OBVIOUS
    <3> QED BY <3>1, CountTypes
  <2> QED BY <2>1, <2>3, <2>4, <2>5 DEF Holes
<1> QED BY <1>1, <1>2

\* There are as many holes in the places that are left as fresh items behind them.
LEMMA HolesFilled ==
  ASSUME freeItem \in Seq(Item), NEW k, k = Upto(Len(freeItem))
  PROVE  k \in 0..Len(freeItem) /\ k \in Nat /\ Holes(0) = 0 /\ Holes(k) = From(k + 1)
<1> DEFINE n == Len(freeItem)
<1>0. n \in Nat /\ k \in Nat
  BY CountTypes
<1>1. Holes(0) = 0 /\ Holes(0) <= Holes(n)
  <2>1. FreshIn(1, 0) = {}
    BY DEF FreshIn
  <2>2. Upto(0) = 0
    BY <2>1, FS_EmptySet DEF Upto
  <2> HIDE DEF n
  <2> QED BY <1>0, <2>2, HolesGrow DEF Holes
<1>2. k \in 0..n
  BY <1>0, <1>1 DEF Holes
<1>3. Upto(n) = Upto(k) + From(k + 1)
  <2> HIDE DEF n
  <2>1. n \in Int /\ k \in 0..n
    BY <1>0, <1>2
  <2>2. Cardinality(FreshIn(1, n)) = Cardinality(FreshIn(1, k)) + Cardinality(FreshIn(k + 1, n))
    BY <2>1, FreshSplit
  <2> QED BY <2>2 DEF Upto, From, n
<1>4. Upto(k) \in Nat /\ From(k + 1) \in Nat
  <2>1. k \in Int /\ k + 1 \in Int
    BY <1>0
  <2> QED BY <2>1, CountTypes
<1> QED BY <1>0, <1>1, <1>2, <1>3, <1>4 DEF Holes

\* What the sweep leaves in place i.
Stays(i) ==
  IF Fresh(i) THEN i
  ELSE CHOOSE m \in FreshIn(1, Len(freeItem)) : From(m) = Holes(i)

\* The filler of a hole exists, and is behind the places that are left.
LEMMA Filler ==
  ASSUME freeItem \in Seq(Item), NEW i \in 1..Upto(Len(freeItem)), ~Fresh(i)
  PROVE  /\ Stays(i) \in FreshIn(1, Len(freeItem)) /\ From(Stays(i)) = Holes(i)
         /\ Stays(i) > Upto(Len(freeItem))
<1> DEFINE n == Len(freeItem)
           k == Upto(n)
<1>1. /\ n \in Nat /\ k \in Nat /\ k \in 0..n /\ Holes(0) = 0 /\ Holes(k) = From(k + 1)
  BY CountTypes, HolesFilled
<1>2. i \in Nat /\ 0 < i /\ i <= k
  BY <1>1
<1> HIDE DEF k, n
<1>3. 0 < Holes(i) /\ Holes(i) <= Holes(k) /\ Holes(i) \in Int
  BY <1>1, <1>2, HolesGrow, CountTypes
<1>4. Holes(i) \in 1..k
  <2>1. Upto(k) \in Nat
    <3>1. k \in Int
      BY <1>1
    <3> QED BY <3>1, CountTypes
  <2>2. Holes(k) <= k /\ Holes(k) \in Int
    BY <1>1, <2>1 DEF Holes
  <2> QED BY <1>1, <1>3, <2>2
<1>5. \E m \in FreshIn(1, n) : From(m) = Holes(i)
  <2>1. Holes(i) \in 1..Cardinality(FreshIn(1, n))
    BY <1>4 DEF k, Upto
  <2>2. \E m \in FreshIn(1, n) : Cardinality(FreshIn(m, n)) = Holes(i)
    BY <1>1, <2>1, FreshFromEnd
  <2> QED BY <2>2 DEF From, n
<1>6. Stays(i) \in FreshIn(1, n) /\ From(Stays(i)) = Holes(i)
  BY <1>5 DEF Stays, n
<1>7. Stays(i) \in 1..n /\ Fresh(Stays(i))
  BY <1>6 DEF FreshIn
<1>8. ASSUME Stays(i) <= k PROVE FALSE
  <2>1. n \in Int /\ Stays(i) \in Int /\ k + 1 \in Int /\ Stays(i) < k + 1 /\ Stays(i) <= n
    BY <1>1, <1>7, <1>8
  <2>2. Cardinality(FreshIn(k + 1, n)) < Cardinality(FreshIn(Stays(i), n))
    BY <1>7, <2>1, FreshMore
  <2>3. From(k + 1) < From(Stays(i))
    BY <2>2 DEF From, n
  <2>4. Holes(k) < Holes(i)
    BY <1>1, <1>6, <2>3
  <2>5. Holes(k) \in Int
    BY <1>1, CountTypes
  <2> QED BY <1>3, <2>4, <2>5
<1>9. Stays(i) > k
  <2>1. Stays(i) \in Int /\ k \in Int
    BY <1>1, <1>7
  <2> QED BY <1>8, <2>1
<1> QED BY <1>6, <1>9 DEF k, n

\* The places that are left hold the fresh items, each one once.
LEMMA SweepChoice ==
  ASSUME freeItem \in Seq(Item), NEW k, k = Upto(Len(freeItem)), NEW F, F = FreshIn(1, Len(freeItem))
  PROVE  /\ \A i \in 1..k : Stays(i) \in F
         /\ \A i, j \in 1..k : Stays(i) = Stays(j) => i = j
         /\ \A m \in F : \E i \in 1..k : Stays(i) = m
<1>1. /\ Len(freeItem) \in Nat /\ k \in Nat /\ k \in 0..Len(freeItem)
      /\ IsFiniteSet(F) /\ Cardinality(F) = k
  BY CountTypes, HolesFilled, FreshFinite DEF Upto
<1>2. \A i \in 1..k : i \in 1..Len(freeItem) /\ i \in Nat
  BY <1>1
<1>3. \A i \in 1..k : ~Fresh(i) => Stays(i) \in F /\ From(Stays(i)) = Holes(i) /\ Stays(i) > k
  BY Filler
<1>4. \A i \in 1..k : Fresh(i) => Stays(i) = i
  BY DEF Stays
<1>5. \A i \in 1..k : Stays(i) \in F
  <2> TAKE i \in 1..k
  <2>1. CASE Fresh(i)
    BY <1>2, <1>4, <2>1 DEF FreshIn
  <2>2. CASE ~Fresh(i)
    BY <1>3, <2>2
  <2> QED BY <2>1, <2>2
<1>6. ASSUME NEW i \in 1..k, NEW j \in 1..k, i < j PROVE Stays(i) # Stays(j)
  <2>1. CASE Fresh(i) /\ Fresh(j)
    BY <1>4, <1>6, <2>1
  <2>2. CASE Fresh(i) /\ ~Fresh(j)
    BY <1>1, <1>2, <1>3, <1>4, <2>2
  <2>3. CASE ~Fresh(i) /\ Fresh(j)
    BY <1>1, <1>2, <1>3, <1>4, <2>3
  <2>4. CASE ~Fresh(i) /\ ~Fresh(j)
    <3>1. From(Stays(i)) = Holes(i) /\ From(Stays(j)) = Holes(j)
      BY <1>3, <2>4
    <3>2. Holes(i) < Holes(j) /\ Holes(i) \in Int
      BY <1>2, <1>6, <2>4, HolesGrow, CountTypes
    <3> QED BY <3>1, <3>2
  <2> QED BY <2>1, <2>2, <2>3, <2>4
<1>7. \A i, j \in 1..k : Stays(i) = Stays(j) => i = j
  <2>1. \A i, j \in 1..k : i < j \/ j < i \/ i = j
    BY <1>1
  <2> QED BY <1>6, <2>1
<1>8. \A m \in F : \E i \in 1..k : Stays(i) = m
  <2> DEFINE S == 1..k
             g == [i \in S |-> Stays(i)]
  <2>1. g \in [S -> F] /\ \A i, j \in S : g[i] = g[j] => i = j
    BY <1>5, <1>7
  <2>2. IsFiniteSet(S) /\ Cardinality(S) = Cardinality(F)
    <3>1. 1 \in Int /\ k \in Int
      BY <1>1
    <3>2. IsFiniteSet(1..k) /\ Cardinality(1..k) = IF 1 > k THEN 0 ELSE k - 1 + 1
      BY <3>1, FS_Interval
    <3> QED BY <1>1, <3>2
  <2>3. \A m \in F : \E i \in S : g[i] = m
    <3> HIDE DEF g, S
    <3>1. g \in Injection(S, F)
      BY <2>1 DEF Injection, IsInjective
    <3>2. g \in Surjection(S, F)
      BY <1>1, <2>2, <3>1, FS_Injection
    <3> QED BY <3>2 DEF Surjection
  <2> QED BY <2>3
<1> QED BY <1>5, <1>7, <1>8

\* The sweep: a shorter queue of the fresh items, and the set of the others.
LEMMA SweepKeeps ==
  ASSUME freeItem \in Seq(Item), Distinct(freeItem)
  PROVE  /\ Swept \in Seq(Item) /\ Distinct(Swept)
         /\ Stale \subseteq ConnsOf(freeItem) /\ ConnsOf(Swept) = ConnsOf(freeItem) \ Stale
         /\ IsFiniteSet(Stale) /\ Cardinality(Stale) \in Nat
         /\ Len(Swept) + Cardinality(Stale) = Len(freeItem)
<1> DEFINE n == Len(freeItem)
           k == Upto(n)
           F == FreshIn(1, n)
           E == (1..n) \ F
<1>1. n \in Nat /\ k \in Nat /\ k \in 0..n /\ \A i \in 1..n : freeItem[i] \in Item
  BY CountTypes, HolesFilled, ElementOfSeq
<1>2. /\ \A i \in 1..k : Stays(i) \in F
      /\ \A i, j \in 1..k : Stays(i) = Stays(j) => i = j
      /\ \A m \in F : \E i \in 1..k : Stays(i) = m
  BY SweepChoice
<1>3. F \subseteq 1..n
  BY DEF FreshIn
<1>4. Swept = [i \in 1..k |-> freeItem[Stays(i)]]
  <2>1. Swept = [i \in 1..k |-> IF Fresh(i) THEN freeItem[i]
                                ELSE freeItem[CHOOSE m \in F : From(m) = Holes(i)]]
    BY DEF Swept, Upto, From, Holes
  <2>2. \A i \in 1..k : freeItem[Stays(i)] = IF Fresh(i) THEN freeItem[i]
                                ELSE freeItem[CHOOSE m \in F : From(m) = Holes(i)]
    BY DEF Stays
  <2> HIDE DEF k, F
  <2> QED BY <2>1, <2>2
<1> HIDE DEF k
<1>5. Swept \in Seq(Item) /\ Len(Swept) = k /\ \A i \in 1..k : Swept[i] = freeItem[Stays(i)]
  <2>1. \A i \in 1..k : freeItem[Stays(i)] \in Item
    BY <1>1, <1>2, <1>3
  <2> HIDE DEF n, F
  <2> QED BY <1>1, <1>4, <2>1
<1> HIDE DEF F
<1>6. Distinct(Swept)
  <2> SUFFICES ASSUME NEW i \in 1..k, NEW j \in 1..k, Swept[i].c = Swept[j].c PROVE i = j
    BY <1>5 DEF Distinct
  <2>1. Stays(i) \in 1..n /\ Stays(j) \in 1..n /\ freeItem[Stays(i)].c = freeItem[Stays(j)].c
    BY <1>2, <1>3, <1>5
  <2> QED BY <1>2, <2>1 DEF Distinct
<1>7. ConnsOf(Swept) = {freeItem[m].c : m \in F}
  <2>1. ConnsOf(Swept) = {freeItem[Stays(i)].c : i \in 1..k}
    BY <1>5 DEF ConnsOf
  <2> QED BY <1>2, <2>1
<1>8. Stale = {freeItem[m].c : m \in E}
  BY DEF Stale, F
<1>9. Stale \subseteq ConnsOf(freeItem) /\ ConnsOf(Swept) = ConnsOf(freeItem) \ Stale
  <2>1. \A i \in F, m \in E : freeItem[i].c # freeItem[m].c
    BY <1>3 DEF Distinct
  <2>2. ConnsOf(freeItem) = {freeItem[m].c : m \in F} \union {freeItem[m].c : m \in E}
    BY <1>3 DEF ConnsOf
  <2> QED BY <1>7, <1>8, <2>1, <2>2
<1>10. /\ IsFiniteSet(E) /\ Cardinality(E) = n - k
  <2>1. IsFiniteSet(1..n) /\ Cardinality(1..n) = n
    <3> HIDE DEF n
    <3>1. 1 \in Int /\ n \in Int
      BY <1>1
    <3>2. IsFiniteSet(1..n) /\ Cardinality(1..n) = IF 1 > n THEN 0 ELSE n - 1 + 1
      BY <3>1, FS_Interval
    <3> QED BY <1>1, <3>2
  <2>2. (1..n) \intersect F = F /\ Cardinality(F) = k
    BY <1>3 DEF k, Upto, F
  <2>3. /\ IsFiniteSet((1..n) \ F)
        /\ Cardinality((1..n) \ F) = Cardinality(1..n) - Cardinality((1..n) \intersect F)
    BY <2>1, FS_Difference
  <2> QED BY <2>1, <2>2, <2>3
<1>11. IsFiniteSet(Stale) /\ Cardinality(Stale) = n - k
  <2> DEFINE g == [m \in E |-> freeItem[m].c]
  <2>1. g \in [E -> Stale] /\ (\A a, b \in E : g[a] = g[b] => a = b) /\ \A c \in Stale : \E m \in E : g[m] = c
    BY <1>8 DEF Distinct
  <2>2. g \in Bijection(E, Stale)
    <3> HIDE DEF g, E
    <3> QED BY <2>1 DEF Bijection, Injection, IsInjective, Surjection
  <2>3. ExistsBijection(E, Stale)
    BY <2>2 DEF ExistsBijection
  <2> HIDE DEF E, g, n
  <2> QED BY <1>10, <2>3, FS_Bijection
<1> QED BY <1>1, <1>5, <1>6, <1>9, <1>11

-----------------------------------------------------------------------------
(* The home of every connection, an invariant of its own. Idle connections  *)
(* I, those h in the hands or in the channels of clients, those D that the   *)
(* cleaner has to close and the lost ones L are apart, and are together      *)
(* those open (o).                                                           *)

Own(I, h, D, L, o) ==
  /\ \A p, q \in Clients : h[p] \in Conns /\ h[p] = h[q] => p = q
  /\ \A p \in Clients : h[p] \in Conns => h[p] \notin I \union D \union L
  /\ I \intersect (D \union L) = {} /\ D \intersect L = {}
  /\ \A c \in Conns : c \in o <=> c \in I \/ c \in D \/ c \in L \/ \E p \in Clients : h[p] = c

\* What a client does with a connection: it takes an idle one and returns it,
\* has one dialed, closes one, and loses the one in its channel.
LEMMA OwnMoves ==
  ASSUME NEW I \in SUBSET Conns, NEW h \in [Clients -> Conns \union {NoConn}],
         NEW D \in SUBSET Conns, NEW L \in SUBSET Conns, NEW o \in SUBSET Conns,
         NEW p \in Clients, NEW c \in Conns, Own(I, h, D, L, o)
  PROVE  /\ h[p] = NoConn /\ c \in I => Own(I \ {c}, [h EXCEPT ![p] = c], D, L, o)
         /\ h[p] \in Conns => Own(I \union {h[p]}, [h EXCEPT ![p] = NoConn], D, L, o)
         /\ h[p] = NoConn /\ c \notin o => Own(I, [h EXCEPT ![p] = c], D, L, o \union {c})
         /\ h[p] \in Conns => Own(I, [h EXCEPT ![p] = NoConn], D, L, o \ {h[p]})
         /\ h[p] \in Conns => Own(I, [h EXCEPT ![p] = NoConn], D, L \union {h[p]}, o)
<1> USE ConnsAssumption DEF Own
<1>1. ASSUME h[p] = NoConn, c \in I PROVE Own(I \ {c}, [h EXCEPT ![p] = c], D, L, o)
  BY <1>1
<1>2. ASSUME h[p] \in Conns PROVE Own(I \union {h[p]}, [h EXCEPT ![p] = NoConn], D, L, o)
  BY <1>2
<1>3. ASSUME h[p] = NoConn, c \notin o PROVE Own(I, [h EXCEPT ![p] = c], D, L, o \union {c})
  BY <1>3
<1>4. ASSUME h[p] \in Conns PROVE Own(I, [h EXCEPT ![p] = NoConn], D, L, o \ {h[p]})
  BY <1>4
<1>5. ASSUME h[p] \in Conns PROVE Own(I, [h EXCEPT ![p] = NoConn], D, L \union {h[p]}, o)
  BY <1>5
<1> QED BY <1>1, <1>2, <1>3, <1>4, <1>5

\* What the pool does: it hands one over, stocks one, sweeps, closes one of
\* those swept, and closes all that are idle.
LEMMA OwnRest ==
  ASSUME NEW I \in SUBSET Conns, NEW h \in [Clients -> Conns \union {NoConn}],
         NEW D \in SUBSET Conns, NEW L \in SUBSET Conns, NEW o \in SUBSET Conns,
         NEW c \in Conns, NEW S \in SUBSET Conns, Own(I, h, D, L, o)
  PROVE  /\ \A p, q \in Clients : h[p] \in Conns /\ h[q] = NoConn
              => Own(I, [[h EXCEPT ![p] = NoConn] EXCEPT ![q] = h[p]], D, L, o)
         /\ c \notin o => Own(I \union {c}, h, D, L, o \union {c})
         /\ S \subseteq I /\ D = {} => Own(I \ S, h, S, L, o)
         /\ c \in D => Own(I, h, D \ {c}, L, o \ {c})
         /\ Own({}, h, D, L, o \ I)
<1> USE ConnsAssumption DEF Own
<1>1. ASSUME NEW p \in Clients, NEW q \in Clients, h[p] \in Conns, h[q] = NoConn
      PROVE  Own(I, [[h EXCEPT ![p] = NoConn] EXCEPT ![q] = h[p]], D, L, o)
  <2> DEFINE g == [[h EXCEPT ![p] = NoConn] EXCEPT ![q] = h[p]]
  <2>1. p # q /\ g[p] = NoConn /\ g[q] = h[p] /\ \A r \in Clients \ {p, q} : g[r] = h[r]
    BY <1>1
  <2> HIDE DEF g
  <2>2. \A r, s \in Clients : g[r] \in Conns /\ g[r] = g[s] => r = s
    BY <1>1, <2>1
  <2>3. \A r \in Clients : g[r] \in Conns => g[r] \notin I \union D \union L
    BY <1>1, <2>1
  <2>4. \A d \in Conns : (\E r \in Clients : g[r] = d) <=> \E r \in Clients : h[r] = d
    BY <1>1, <2>1
  <2> QED BY <2>2, <2>3, <2>4 DEF g
<1>2. ASSUME c \notin o PROVE Own(I \union {c}, h, D, L, o \union {c})
  BY <1>2
<1>3. ASSUME S \subseteq I, D = {} PROVE Own(I \ S, h, S, L, o)
  BY <1>3
<1>4. ASSUME c \in D PROVE Own(I, h, D \ {c}, L, o \ {c})
  BY <1>4
<1>5. Own({}, h, D, L, o \ I)
  OBVIOUS
<1> QED BY <1>1, <1>2, <1>3, <1>4, <1>5

\* The types, but for what is counted.
Shape ==
  /\ conf \in Configs /\ closed \in BOOLEAN /\ mu \in {"free", "reload", "panicked"}
  /\ freeItem \in Seq(Item)
  /\ requests \subseteq Clients /\ shut \subseteq Clients /\ late \subseteq Bounded
  /\ pc \in [Clients -> PCs]
  /\ conn \in [Clients -> Conns \union {NoConn}]
  /\ stamp \in [Clients -> 0..MaxNow]
  /\ opener \in {"select", "dialing", "exited"}
  /\ cleaner \in {"none", "select", "closing", "exited"}
  /\ doomed \in SUBSET Conns /\ open \in SUBSET Conns /\ lost \in SUBSET Conns
  /\ now \in 0..MaxNow

Queued == {"waiting", "cancelling"}

\* Which places go with a connection in hand, and which with none.
Placed(p) ==
  /\ pc[p] \in {"got", "stale", "staleMail", "holding"} => conn[p] \in Conns
  /\ pc[p] \in {"out", "relock", "redial", "dialing"} => conn[p] = NoConn
  /\ p \in requests => conn[p] = NoConn /\ (pc[p] \in Queued \/ (closed /\ pc[p] = "out"))
  /\ p \in shut => conn[p] = NoConn /\ closed /\ pc[p] \in Queued

Swpt == cleaner # "closing" => doomed = {}

Homes == Distinct(freeItem) /\ Own(ConnsOf(freeItem), conn, doomed, lost, open) /\ Swpt

HomeInv == Shape /\ (\A p \in Clients : Placed(p)) /\ Homes

LEMMA HomeTypes ==
  ASSUME HomeInv
  PROVE  /\ ConnsOf(freeItem) \in SUBSET Conns /\ freeItem \in Seq(Item) /\ Len(freeItem) \in Nat
         /\ conn \in [Clients -> Conns \union {NoConn}] /\ Distinct(freeItem)
         /\ doomed \in SUBSET Conns /\ open \in SUBSET Conns /\ lost \in SUBSET Conns
         /\ Own(ConnsOf(freeItem), conn, doomed, lost, open)
<1>1. freeItem \in Seq(Item) /\ Len(freeItem) \in Nat
  BY DEF HomeInv, Shape
<1>2. \A i \in 1..Len(freeItem) : freeItem[i] \in Item
  BY <1>1, ElementOfSeq
<1>3. ConnsOf(freeItem) \in SUBSET Conns
  BY <1>2 DEF ConnsOf, Item
<1> QED BY <1>1, <1>3 DEF HomeInv, Shape, Homes

LEMMA InitHome == Init => HomeInv
<1> SUFFICES ASSUME Init PROVE HomeInv
  OBVIOUS
<1>1. 0 \in 0..MaxNow /\ "out" \in PCs
  BY BoundAssumption DEF PCs
<1>2. Shape
  <2>1. /\ conf \in Configs /\ closed \in BOOLEAN /\ mu \in {"free", "reload", "panicked"}
        /\ freeItem \in Seq(Item) /\ requests \subseteq Clients /\ shut \subseteq Clients
        /\ late \subseteq Bounded /\ opener \in {"select", "dialing", "exited"}
        /\ cleaner \in {"none", "select", "closing", "exited"}
        /\ doomed \in SUBSET Conns /\ open \in SUBSET Conns /\ lost \in SUBSET Conns
    BY QueueEmpty DEF Init
  <2>2. pc \in [Clients -> PCs] /\ conn \in [Clients -> Conns \union {NoConn}]
    BY <1>1 DEF Init
  <2>3. stamp \in [Clients -> 0..MaxNow] /\ now \in 0..MaxNow
    BY <1>1 DEF Init
  <2> QED BY <2>1, <2>2, <2>3 DEF Shape
<1>3. \A p \in Clients : Placed(p)
  BY DEF Init, Placed
<1>4. Homes
  BY ConnsAssumption, QueueEmpty DEF Init, Homes, Own, Swpt
<1> QED BY <1>2, <1>3, <1>4 DEF HomeInv

LEMMA LoopHome ==
  ASSUME HomeInv, NEW p \in Clients, pc[p] \in {"out", "relock"}, NEW a, NEW t,
         late' \subseteq Bounded, pc[p] = "out" => ~closed, GetLoop(p, a, t)
  PROVE  HomeInv'
<1>0. /\ conn[p] = NoConn /\ p \notin shut /\ (p \in requests => closed /\ pc[p] = "out")
  BY DEF HomeInv, Placed, Queued
<1>1. p \notin requests
  BY <1>0
<1>2. CASE freeItem # <<>> /\ freeItem' = Tail(freeItem)
  <2>1. /\ freeItem' = Tail(freeItem) /\ conn' = [conn EXCEPT ![p] = Head(freeItem).c]
        /\ stamp' = [stamp EXCEPT ![p] = Head(freeItem).at] /\ pc' = [pc EXCEPT ![p] = "got"]
        /\ UNCHANGED <<requests, conf, closed, mu, shut, opener, cleaner, doomed, now, open, lost>>
    <3>1. Len(Tail(freeItem)) # Len(freeItem)
      BY <1>2, HomeTypes, QueueTail
    <3> QED BY <1>2, <3>1 DEF GetLoop
  <2>2. /\ Tail(freeItem) \in Seq(Item) /\ Head(freeItem) \in Item /\ Distinct(Tail(freeItem))
        /\ ConnsOf(Tail(freeItem)) = ConnsOf(freeItem) \ {Head(freeItem).c}
        /\ Head(freeItem).c \in ConnsOf(freeItem)
    BY <1>2, HomeTypes, QueueTail
  <2>3. Head(freeItem).c \in Conns /\ Head(freeItem).at \in 0..MaxNow
    BY <2>2 DEF Item
  <2>4. Shape'
    <3>1. pc' \in [Clients -> PCs]
      BY <2>1 DEF HomeInv, Shape, PCs, InGet
    <3>2. conn' \in [Clients -> Conns \union {NoConn}] /\ stamp' \in [Clients -> 0..MaxNow]
      BY <2>1, <2>3 DEF HomeInv, Shape
    <3> QED BY <2>1, <2>2, <3>1, <3>2 DEF HomeInv, Shape
  <2>5. ASSUME NEW q \in Clients PROVE Placed(q)'
    BY <1>0, <1>1, <2>1, <2>3 DEF HomeInv, Shape, Placed, Queued
  <2>6. Own(ConnsOf(freeItem) \ {Head(freeItem).c}, [conn EXCEPT ![p] = Head(freeItem).c], doomed, lost, open)
    BY <1>0, <2>2, <2>3, HomeTypes, OwnMoves
  <2>7. Homes'
    BY <2>1, <2>2, <2>6 DEF HomeInv, Homes, Swpt
  <2> QED BY <2>4, <2>5, <2>7 DEF HomeInv
<1>3. CASE UNCHANGED <<freeItem, conn, stamp>>
  <2>1. /\ \E v \in {"dialing", "out", "waiting"} :
             /\ pc' = [pc EXCEPT ![p] = v]
             /\ requests' = requests \/ (requests' = requests \union {p} /\ v = "waiting")
        /\ UNCHANGED <<conf, closed, mu, shut, opener, cleaner, doomed, now, open, lost>>
    <3>1. freeItem' # Tail(freeItem) \/ freeItem = <<>>
      BY <1>3, HomeTypes, QueueTail
    <3> QED BY <3>1 DEF GetLoop
  <2>2. PICK v \in {"dialing", "out", "waiting"} :
             /\ pc' = [pc EXCEPT ![p] = v]
             /\ requests' = requests \/ (requests' = requests \union {p} /\ v = "waiting")
    BY <2>1
  <2>3. Shape'
    <3>1. pc' \in [Clients -> PCs] /\ requests' \subseteq Clients
      BY <2>2 DEF HomeInv, Shape, PCs, InGet
    <3> QED BY <1>3, <2>1, <3>1 DEF HomeInv, Shape
  <2>4. ASSUME NEW q \in Clients PROVE Placed(q)'
    BY <1>0, <1>1, <1>3, <2>1, <2>2 DEF HomeInv, Shape, Placed, Queued
  <2>5. Homes'
    BY <1>3, <2>1 DEF HomeInv, Homes, Swpt
  <2> QED BY <2>3, <2>4, <2>5 DEF HomeInv
<1> QED BY <1>2, <1>3 DEF GetLoop

\* Steps of Get that take no connection and give none away.
LEMMA IdleStepsHome ==
  ASSUME HomeInv, NEW p \in Clients,
         \/ CheckExpired(p) \/ Receive(p) \/ ReceiveClosed(p) \/ TimeoutFires(p)
         \/ DialAfterStale(p) \/ DialFail(p) \/ CtxDone(p)
  PROVE  HomeInv'
<1>1. /\ UNCHANGED <<conf, closed, mu, freeItem, requests, conn, opener, cleaner, doomed, now, open, lost>>
      /\ shut' \subseteq shut /\ late' \subseteq Bounded
      /\ stamp' = stamp \/ stamp' = [stamp EXCEPT ![p] = 0]
  BY DEF HomeInv, Shape, CheckExpired, Receive, ReceiveClosed, TimeoutFires, DialAfterStale, DialFail, CtxDone, books
<1>2. pc' \in [Clients -> PCs]
  BY DEF HomeInv, Shape, CheckExpired, Receive, ReceiveClosed, TimeoutFires, DialAfterStale, DialFail, CtxDone,
         PCs, InGet
<1>3. Shape'
  <2>1. stamp' \in [Clients -> 0..MaxNow]
    BY <1>1, BoundAssumption DEF HomeInv, Shape
  <2> QED BY <1>1, <1>2, <2>1 DEF HomeInv, Shape
<1>4. ASSUME NEW q \in Clients PROVE Placed(q)'
  <2>0. conn[p] \in Conns \union {NoConn}
    BY DEF HomeInv, Shape
  <2>1. CASE CheckExpired(p)
    BY <1>1, <2>1 DEF HomeInv, Shape, CheckExpired, Placed, Queued, calls
  <2>2. CASE Receive(p)
    BY <1>1, <2>0, <2>2 DEF HomeInv, Shape, Receive, Placed, Queued
  <2>3. CASE ReceiveClosed(p) \/ TimeoutFires(p)
    BY <1>1, <2>3 DEF HomeInv, Shape, ReceiveClosed, TimeoutFires, Placed, Queued
  <2>4. CASE DialAfterStale(p) \/ DialFail(p) \/ CtxDone(p)
    BY <1>1, <2>4 DEF HomeInv, Shape, DialAfterStale, DialFail, CtxDone, Placed, Queued
  <2> QED BY <2>1, <2>2, <2>3, <2>4
<1>5. Homes'
  BY <1>1 DEF HomeInv, Homes, Swpt
<1> QED BY <1>3, <1>4, <1>5 DEF HomeInv

\* Steps of Get, and of Put, after which a client has another connection.
LEMMA HandStepsHome ==
  ASSUME HomeInv, NEW p \in Clients, CloseStale(p) \/ DialOk(p) \/ CancelRequest(p) \/ PutClosed(p)
  PROVE  HomeInv'
<1>0. conn[p] \in Conns \union {NoConn}
  BY DEF HomeInv, Shape
<1>1. /\ UNCHANGED <<conf, closed, mu, freeItem, late, opener, cleaner, doomed, now>>
      /\ requests' \subseteq requests /\ shut' \subseteq shut
      /\ stamp' = stamp \/ stamp' = [stamp EXCEPT ![p] = 0]
  BY DEF CloseStale, DialOk, CancelRequest, PutClosed, books
<1>2. CASE CloseStale(p) \/ PutClosed(p)
  <2>1. /\ conn[p] \in Conns /\ conn' = [conn EXCEPT ![p] = NoConn] /\ open' = open \ {conn[p]}
        /\ UNCHANGED <<lost, stamp, requests, shut>>
    BY <1>2 DEF HomeInv, Placed, CloseStale, PutClosed, books
  <2>2. pc' \in [Clients -> PCs] /\ conn' \in [Clients -> Conns \union {NoConn}] /\ open' \in SUBSET Conns
    BY <1>2, <2>1 DEF HomeInv, Shape, CloseStale, PutClosed, PCs, InGet
  <2>3. Shape'
    BY <1>1, <2>1, <2>2 DEF HomeInv, Shape
  <2>4. ASSUME NEW q \in Clients PROVE Placed(q)'
    BY <1>1, <1>2, <2>1, ConnsAssumption DEF HomeInv, Shape, Placed, Queued, CloseStale, PutClosed
  <2>5. Own(ConnsOf(freeItem), [conn EXCEPT ![p] = NoConn], doomed, lost, open \ {conn[p]})
    BY <2>1, HomeTypes, OwnMoves
  <2>6. Homes'
    BY <1>1, <2>1, <2>5 DEF HomeInv, Homes, Swpt
  <2> QED BY <2>3, <2>4, <2>6 DEF HomeInv
<1>3. CASE DialOk(p)
  <2>1. PICK c \in Conns \ open : open' = open \union {c} /\ conn' = [conn EXCEPT ![p] = c]
    BY <1>3 DEF DialOk
  <2>2. conn[p] = NoConn /\ UNCHANGED <<lost, stamp, requests, shut>> /\ pc' = [pc EXCEPT ![p] = "holding"]
        /\ p \notin requests /\ p \notin shut
    BY <1>3 DEF HomeInv, Placed, Queued, DialOk, books
  <2>3. pc' \in [Clients -> PCs] /\ conn' \in [Clients -> Conns \union {NoConn}] /\ open' \in SUBSET Conns
    BY <2>1, <2>2 DEF HomeInv, Shape, PCs, InGet
  <2>4. Shape'
    BY <1>1, <2>2, <2>3 DEF HomeInv, Shape
  <2>5. ASSUME NEW q \in Clients PROVE Placed(q)'
    BY <1>1, <2>1, <2>2 DEF HomeInv, Shape, Placed, Queued
  <2>6. Own(ConnsOf(freeItem), [conn EXCEPT ![p] = c], doomed, lost, open \union {c})
    BY <2>1, <2>2, HomeTypes, OwnMoves
  <2>7. Homes'
    BY <1>1, <2>1, <2>2, <2>6 DEF HomeInv, Homes, Swpt
  <2> QED BY <2>4, <2>5, <2>7 DEF HomeInv
<1>4. CASE CancelRequest(p)
  <2>1. /\ conn' = [conn EXCEPT ![p] = NoConn] /\ lost' = lost \union ({conn[p]} \ {NoConn}) /\ open' = open
        /\ pc' = [pc EXCEPT ![p] = "out"] /\ requests' = requests \ {p} /\ shut' = shut \ {p}
    BY <1>4 DEF CancelRequest
  <2>2. /\ pc' \in [Clients -> PCs] /\ conn' \in [Clients -> Conns \union {NoConn}]
        /\ stamp' \in [Clients -> 0..MaxNow] /\ lost' \in SUBSET Conns
    <3>1. pc' \in [Clients -> PCs] /\ conn' \in [Clients -> Conns \union {NoConn}]
      BY <2>1 DEF HomeInv, Shape, PCs
    <3>2. stamp' \in [Clients -> 0..MaxNow]
      BY <1>1, BoundAssumption DEF HomeInv, Shape
    <3>3. lost' \in SUBSET Conns
      BY <1>0, <2>1 DEF HomeInv, Shape
    <3> QED BY <3>1, <3>2, <3>3
  <2>3. Shape'
    BY <1>1, <2>1, <2>2 DEF HomeInv, Shape
  <2>4. ASSUME NEW q \in Clients PROVE Placed(q)'
    BY <1>1, <2>1 DEF HomeInv, Shape, Placed, Queued
  <2>5. Own(ConnsOf(freeItem), conn', doomed, lost', open)
    <3>1. CASE conn[p] \in Conns
      <4>1. lost' = lost \union {conn[p]}
        BY <2>1, <3>1, ConnsAssumption
      <4>2. Own(ConnsOf(freeItem), [conn EXCEPT ![p] = NoConn], doomed, lost \union {conn[p]}, open)
        BY <3>1, HomeTypes, OwnMoves
      <4> QED BY <2>1, <4>1, <4>2
    <3>2. CASE conn[p] = NoConn
      <4>1. lost' = lost /\ conn' = conn
        BY <2>1, <3>2, HomeTypes
      <4> QED BY <4>1, HomeTypes
    <3> QED BY <1>0, <3>1, <3>2
  <2>6. Homes'
    BY <1>1, <2>1, <2>5 DEF HomeInv, Homes, Swpt
  <2> QED BY <2>3, <2>4, <2>6 DEF HomeInv
<1> QED BY <1>2, <1>3, <1>4

LEMMA PutKeptHome ==
  ASSUME HomeInv, NEW p \in Clients, PutKept(p)
  PROVE  HomeInv'
<1> DEFINE h == [conn EXCEPT ![p] = NoConn]
           e == [c |-> conn[p], at |-> now]
<1>1. /\ pc[p] = "holding" /\ conn[p] \in Conns /\ p \notin requests /\ p \notin shut
      /\ pc' = [pc EXCEPT ![p] = "out"]
      /\ UNCHANGED <<conf, closed, mu, late, shut, opener, cleaner, doomed, now, open, lost>>
  BY DEF HomeInv, Placed, Queued, PutKept
<1>2. pc' \in [Clients -> PCs]
  BY <1>1 DEF HomeInv, Shape, PCs
<1>3. CASE Enqueue(conn[p], h)
  <2>1. freeItem' = Append(freeItem, e) /\ conn' = h /\ UNCHANGED <<requests, stamp>>
    BY <1>3 DEF Enqueue
  <2>2. e \in Item /\ e.c = conn[p] /\ e.c \notin ConnsOf(freeItem)
    BY <1>1 DEF HomeInv, Shape, Homes, Own, Item
  <2> HIDE DEF e
  <2>3. /\ Append(freeItem, e) \in Seq(Item) /\ Distinct(Append(freeItem, e))
        /\ ConnsOf(Append(freeItem, e)) = ConnsOf(freeItem) \union {conn[p]}
    BY <2>2, HomeTypes, QueueAppend
  <2>4. Shape'
    <3>1. conn' \in [Clients -> Conns \union {NoConn}]
      BY <2>1 DEF HomeInv, Shape
    <3> QED BY <1>1, <1>2, <2>1, <2>3, <3>1 DEF HomeInv, Shape
  <2>5. ASSUME NEW q \in Clients PROVE Placed(q)'
    BY <1>1, <2>1 DEF HomeInv, Shape, Placed, Queued
  <2>6. Own(ConnsOf(freeItem) \union {conn[p]}, h, doomed, lost, open)
    BY <1>1, HomeTypes, OwnMoves
  <2>7. Homes'
    BY <1>1, <2>1, <2>3, <2>6 DEF HomeInv, Homes, Swpt
  <2> QED BY <2>4, <2>5, <2>7 DEF HomeInv
<1>4. ASSUME NEW q \in Clients, Deliver(conn[p], q, h) PROVE HomeInv'
  <2>1. /\ q \in requests /\ requests' = requests \ {q} /\ conn' = [h EXCEPT ![q] = conn[p]]
        /\ stamp' = [stamp EXCEPT ![q] = now] /\ freeItem' = freeItem /\ ~closed
    BY <1>4 DEF Deliver, Refuses
  <2>2. conn[q] = NoConn /\ pc[q] \in Queued /\ p # q /\ q \notin shut
    BY <1>1, <2>1 DEF HomeInv, Placed
  <2>3. Shape'
    <3>1. conn' \in [Clients -> Conns \union {NoConn}] /\ stamp' \in [Clients -> 0..MaxNow]
      BY <1>1, <2>1 DEF HomeInv, Shape
    <3> QED BY <1>1, <1>2, <2>1, <3>1 DEF HomeInv, Shape
  <2>4. ASSUME NEW r \in Clients PROVE Placed(r)'
    <3>1. conn'[r] = IF r = q THEN conn[p] ELSE IF r = p THEN NoConn ELSE conn[r]
      BY <2>1, HomeTypes
    <3>2. pc'[r] = IF r = p THEN "out" ELSE pc[r]
      BY <1>1 DEF HomeInv, Shape
    <3> QED BY <1>1, <2>1, <2>2, <3>1, <3>2 DEF HomeInv, Placed, Queued
  <2>5. Own(ConnsOf(freeItem), [h EXCEPT ![q] = conn[p]], doomed, lost, open)
    BY <1>1, <2>2, HomeTypes, OwnRest
  <2>6. Homes'
    BY <1>1, <2>1, <2>5 DEF HomeInv, Homes, Swpt
  <2> QED BY <2>3, <2>4, <2>6 DEF HomeInv
<1> QED BY <1>3, <1>4 DEF PutKept

LEMMA OpenKeptHome ==
  ASSUME HomeInv, OpenKept
  PROVE  HomeInv'
<1>1. PICK c \in Conns \ open :
        open' = open \union {c} /\ (Enqueue(c, conn) \/ \E q \in Clients : Deliver(c, q, conn))
  BY DEF OpenKept
<1>2. opener' = "select" /\ UNCHANGED <<conf, closed, mu, pc, late, shut, cleaner, doomed, now, lost>>
  BY DEF OpenKept
<1>3. CASE Enqueue(c, conn)
  <2> DEFINE e == [c |-> c, at |-> now]
  <2>1. freeItem' = Append(freeItem, e) /\ UNCHANGED <<conn, requests, stamp>>
    BY <1>3 DEF Enqueue
  <2>2. e \in Item /\ e.c = c /\ e.c \notin ConnsOf(freeItem)
    BY <1>1 DEF HomeInv, Shape, Homes, Own, Item
  <2> HIDE DEF e
  <2>3. /\ Append(freeItem, e) \in Seq(Item) /\ Distinct(Append(freeItem, e))
        /\ ConnsOf(Append(freeItem, e)) = ConnsOf(freeItem) \union {c}
    BY <2>2, HomeTypes, QueueAppend
  <2>4. Shape'
    BY <1>1, <1>2, <2>1, <2>3 DEF HomeInv, Shape
  <2>5. ASSUME NEW q \in Clients PROVE Placed(q)'
    BY <1>2, <2>1 DEF HomeInv, Placed, Queued
  <2>6. Own(ConnsOf(freeItem) \union {c}, conn, doomed, lost, open \union {c})
    BY <1>1, HomeTypes, OwnRest
  <2>7. Homes'
    BY <1>1, <1>2, <2>1, <2>3, <2>6 DEF HomeInv, Homes, Swpt
  <2> QED BY <2>4, <2>5, <2>7 DEF HomeInv
<1>4. ASSUME NEW q \in Clients, Deliver(c, q, conn) PROVE HomeInv'
  <2>1. /\ q \in requests /\ requests' = requests \ {q} /\ conn' = [conn EXCEPT ![q] = c]
        /\ stamp' = [stamp EXCEPT ![q] = now] /\ freeItem' = freeItem /\ ~closed
    BY <1>4 DEF Deliver, Refuses
  <2>2. conn[q] = NoConn /\ pc[q] \in Queued /\ q \notin shut
    BY <2>1 DEF HomeInv, Placed
  <2>3. Shape'
    <3>1. conn' \in [Clients -> Conns \union {NoConn}] /\ stamp' \in [Clients -> 0..MaxNow]
      BY <1>1, <2>1 DEF HomeInv, Shape
    <3> QED BY <1>1, <1>2, <2>1, <3>1 DEF HomeInv, Shape
  <2>4. ASSUME NEW r \in Clients PROVE Placed(r)'
    BY <1>1, <1>2, <2>1, <2>2, HomeTypes DEF HomeInv, Placed, Queued
  <2>5. Own(ConnsOf(freeItem), [conn EXCEPT ![q] = c], doomed, lost, open \union {c})
    BY <1>1, <2>2, HomeTypes, OwnMoves
  <2>6. Homes'
    BY <1>1, <1>2, <2>1, <2>5 DEF HomeInv, Homes, Swpt
  <2> QED BY <2>3, <2>4, <2>6 DEF HomeInv
<1> QED BY <1>1, <1>3, <1>4

\* The rest of itemOpener, the cleaner, Close, Reload and the clock.
LEMMA PoolStepsHome ==
  ASSUME HomeInv,
         \/ OpenerTake \/ OpenerExit \/ OpenFails \/ Cleaner \/ Close
         \/ (\E k \in Configs : Reload(k)) \/ Tick \/ UNCHANGED vars
  PROVE  HomeInv'
<1>1. CASE OpenerTake \/ OpenerExit \/ OpenFails \/ (\E k \in Configs : Reload(k)) \/ Tick \/ UNCHANGED vars
  <2>1. /\ UNCHANGED <<conf, closed, freeItem, requests, pc, conn, stamp, late, shut, doomed, open, lost>>
    BY <1>1 DEF OpenerTake, OpenerExit, OpenFails, Reload, Tick, vars, calls, books
  <2>2. /\ opener' \in {"select", "dialing", "exited"} /\ mu' \in {"free", "reload", "panicked"}
        /\ cleaner' \in {"none", "select", "closing", "exited"}
        /\ cleaner' = cleaner \/ (cleaner = "none" /\ cleaner' = "select")
    BY <1>1 DEF HomeInv, Shape, OpenerTake, OpenerExit, OpenFails, Reload, Tick, vars, calls, books
  <2>3. now' \in 0..MaxNow
    BY <1>1, BoundAssumption DEF HomeInv, Shape, OpenerTake, OpenerExit, OpenFails, Reload, Tick, vars
  <2>4. Shape'
    BY <2>1, <2>2, <2>3 DEF HomeInv, Shape
  <2>5. ASSUME NEW q \in Clients PROVE Placed(q)'
    BY <2>1 DEF HomeInv, Placed
  <2>6. Homes'
    BY <2>1, <2>2 DEF HomeInv, Homes, Swpt
  <2> QED BY <2>4, <2>5, <2>6 DEF HomeInv
<1>2. CASE CleanerWake
  <2>1. /\ UNCHANGED <<conf, closed, mu, requests, pc, conn, stamp, late, shut, opener, now, open, lost>>
        /\ cleaner = "select"
    BY <1>2 DEF CleanerWake, calls
  <2>2. CASE closed
    <3>1. cleaner' = "exited" /\ UNCHANGED <<doomed, freeItem>>
      BY <1>2, <2>2 DEF CleanerWake
    <3>2. Shape' /\ \A q \in Clients : Placed(q)'
      BY <2>1, <3>1 DEF HomeInv, Shape, Placed
    <3>3. Homes'
      BY <2>1, <3>1 DEF HomeInv, Homes, Swpt
    <3> QED BY <3>2, <3>3 DEF HomeInv
  <2>3. CASE ~closed
    <3>1. doomed' = Stale /\ freeItem' = Swept /\ cleaner' = IF Stale = {} THEN "select" ELSE "closing"
      BY <1>2, <2>3 DEF CleanerWake
    <3>2. /\ Swept \in Seq(Item) /\ Distinct(Swept) /\ Stale \subseteq ConnsOf(freeItem)
          /\ ConnsOf(Swept) = ConnsOf(freeItem) \ Stale
      BY HomeTypes, SweepKeeps
    <3>3. Stale \in SUBSET Conns /\ doomed = {}
      BY <2>1, <3>2, HomeTypes DEF HomeInv, Homes, Swpt
    <3>4. Shape'
      BY <2>1, <3>1, <3>2, <3>3 DEF HomeInv, Shape
    <3>5. \A q \in Clients : Placed(q)'
      BY <2>1 DEF HomeInv, Placed
    <3>6. Own(ConnsOf(freeItem) \ Stale, conn, Stale, lost, open)
      <4>1. CASE Conns = {}
        BY <3>2, <3>3, <4>1, HomeTypes DEF Own
      <4>2. CASE Conns # {}
        BY <3>2, <3>3, <4>2, HomeTypes, OwnRest
      <4> QED BY <4>1, <4>2
    <3>7. Homes'
      BY <2>1, <3>1, <3>2, <3>6 DEF Homes, Swpt
    <3> QED BY <3>4, <3>5, <3>7 DEF HomeInv
  <2> QED BY <2>2, <2>3
<1>3. CASE CleanerClose
  <2>1. PICK c \in doomed : /\ open' = open \ {c} /\ doomed' = doomed \ {c}
                            /\ cleaner' = IF doomed' = {} THEN "select" ELSE "closing"
    BY <1>3 DEF CleanerClose
  <2>2. /\ UNCHANGED <<conf, closed, mu, freeItem, requests, pc, conn, stamp, late, shut, opener, now, lost>>
        /\ c \in Conns
    BY <1>3, HomeTypes DEF CleanerClose, calls, books
  <2>3. Shape' /\ \A q \in Clients : Placed(q)'
    BY <2>1, <2>2 DEF HomeInv, Shape, Placed
  <2>4. Own(ConnsOf(freeItem), conn, doomed \ {c}, lost, open \ {c})
    BY <2>2, HomeTypes, OwnRest
  <2>5. Homes'
    BY <2>1, <2>2, <2>4 DEF HomeInv, Homes, Swpt
  <2> QED BY <2>3, <2>5 DEF HomeInv
<1>4. CASE Close
  <2>1. /\ closed' = TRUE /\ ~closed /\ open' = open \ ConnsOf(freeItem) /\ freeItem' = <<>> /\ shut' = requests
        /\ UNCHANGED <<conf, mu, requests, pc, conn, stamp, late, opener, cleaner, doomed, now, lost>>
    BY <1>4 DEF Close, ConnsOf
  <2>2. Shape'
    BY <2>1, QueueEmpty DEF HomeInv, Shape
  <2>3. ASSUME NEW q \in Clients PROVE Placed(q)'
    BY <2>1 DEF HomeInv, Placed, Queued
  <2>4. Own({}, conn, doomed, lost, open \ ConnsOf(freeItem))
    <3>1. CASE Conns = {}
      BY <3>1, HomeTypes DEF Own
    <3>2. CASE Conns # {}
      BY <3>2, HomeTypes, OwnRest
    <3> QED BY <3>1, <3>2
  <2>5. Homes'
    BY <2>1, <2>4, QueueEmpty DEF HomeInv, Homes, Swpt
  <2> QED BY <2>2, <2>3, <2>5 DEF HomeInv
<1> QED BY <1>1, <1>2, <1>3, <1>4 DEF Cleaner

LEMMA NextHome == HomeInv /\ [Next]_vars => HomeInv'
<1> SUFFICES ASSUME HomeInv, [Next]_vars PROVE HomeInv'
  OBVIOUS
<1>1. ASSUME NEW p \in Clients, GetStart(p) PROVE HomeInv'
  <2>1. late' \subseteq Bounded
    BY <1>1 DEF GetStart, HomeInv, Shape
  <2> QED BY <1>1, <2>1, LoopHome DEF GetStart
<1>2. ASSUME NEW p \in Clients, RetryAfterStale(p) PROVE HomeInv'
  <2>1. late' \subseteq Bounded
    BY <1>2 DEF RetryAfterStale, HomeInv, Shape
  <2> QED BY <1>2, <2>1, LoopHome DEF RetryAfterStale
<1>3. ASSUME NEW p \in Clients, GetStep(p) \/ CtxDone(p) \/ Put(p) PROVE HomeInv'
  BY <1>2, <1>3, IdleStepsHome, HandStepsHome, PutKeptHome DEF GetStep, Put
<1> QED BY <1>1, <1>3, OpenKeptHome, PoolStepsHome DEF Next, Opener

-----------------------------------------------------------------------------
(* The balance of active. It is exact until Close, which takes the idle     *)
(* items off the books without counting them out: from then on it is no     *)
(* less than what it counts, so that no release makes it negative.          *)

HandOf(h) == {p \in Clients : h[p] # NoConn}
PassOf(f) == {p \in Clients : f[p] \in {"relock", "redial", "dialing"}}
With(h) == Cardinality(HandOf(h))
Passing(f) == Cardinality(PassOf(f))

Idle == Len(freeItem)
InHands == With(conn)
Midway == Passing(pc)
Opening == IF opener = "dialing" THEN 1 ELSE 0
Forgotten == Cardinality(lost)
Tally == Idle + InHands + Midway + tokens + Opening + Forgotten

Balanced(a, n) == IF closed THEN a >= n ELSE a = n

BalanceInv == active \in Nat /\ tokens \in Nat /\ IsFiniteSet(lost) /\ Balanced(active, Tally)

LEMMA CountsAreNat ==
  /\ \A h : IsFiniteSet(HandOf(h)) /\ With(h) \in Nat
  /\ \A f : IsFiniteSet(PassOf(f)) /\ Passing(f) \in Nat
  /\ \A S \in SUBSET Clients : IsFiniteSet(S) /\ Cardinality(S) \in Nat
<1>1. \A S \in SUBSET Clients : IsFiniteSet(S) /\ Cardinality(S) \in Nat
  BY ClientsAssumption, FS_Subset, FS_CardinalityType
<1>2. ASSUME NEW h PROVE IsFiniteSet(HandOf(h)) /\ With(h) \in Nat
  <2>1. HandOf(h) \in SUBSET Clients
    BY DEF HandOf
  <2> QED BY <1>1, <2>1 DEF With
<1>3. ASSUME NEW f PROVE IsFiniteSet(PassOf(f)) /\ Passing(f) \in Nat
  <2>1. PassOf(f) \in SUBSET Clients
    BY DEF PassOf
  <2> QED BY <1>1, <2>1 DEF Passing
<1> QED BY <1>1, <1>2, <1>3

LEMMA BooksAreNat ==
  ASSUME HomeInv, BalanceInv
  PROVE  /\ active \in Nat /\ tokens \in Nat
         /\ Idle \in Nat /\ InHands \in Nat /\ Midway \in Nat /\ Opening \in Nat /\ Forgotten \in Nat
<1>1. Idle \in Nat
  BY HomeTypes DEF Idle
<1>2. InHands \in Nat /\ Midway \in Nat
  BY CountsAreNat DEF InHands, Midway
<1>3. Forgotten \in Nat
  BY FS_CardinalityType DEF BalanceInv, Forgotten
<1> QED BY <1>1, <1>2, <1>3 DEF BalanceInv, Opening

\* One client takes a connection or gives one up.
LEMMA WithMove ==
  ASSUME NEW h \in [Clients -> Conns \union {NoConn}], NEW p \in Clients
  PROVE  /\ \A c \in Conns : h[p] = NoConn => With([h EXCEPT ![p] = c]) = With(h) + 1
         /\ h[p] # NoConn => With([h EXCEPT ![p] = NoConn]) = With(h) - 1
<1>0. IsFiniteSet(HandOf(h)) /\ With(h) \in Nat
  BY CountsAreNat
<1>1. ASSUME NEW c \in Conns, h[p] = NoConn PROVE With([h EXCEPT ![p] = c]) = With(h) + 1
  <2>1. HandOf([h EXCEPT ![p] = c]) = HandOf(h) \union {p} /\ p \notin HandOf(h)
    BY <1>1, ConnsAssumption DEF HandOf
  <2> QED BY <1>0, <2>1, FS_AddElement DEF With
<1>2. ASSUME h[p] # NoConn PROVE With([h EXCEPT ![p] = NoConn]) = With(h) - 1
  <2>1. HandOf([h EXCEPT ![p] = NoConn]) = HandOf(h) \ {p} /\ p \in HandOf(h)
    BY <1>2 DEF HandOf
  <2> QED BY <1>0, <2>1, FS_RemoveElement DEF With
<1> QED BY <1>1, <1>2

\* One client comes to a place between two connections, or leaves it.
LEMMA PassMove ==
  ASSUME NEW f \in [Clients -> PCs], NEW p \in Clients, NEW v
  PROVE  LET Mid == {"relock", "redial", "dialing"}
             g == [f EXCEPT ![p] = v]
         IN  /\ (f[p] \in Mid <=> v \in Mid) => Passing(g) = Passing(f)
             /\ f[p] \notin Mid /\ v \in Mid => Passing(g) = Passing(f) + 1
             /\ f[p] \in Mid /\ v \notin Mid => Passing(g) = Passing(f) - 1
<1> DEFINE Mid == {"relock", "redial", "dialing"}
           g == [f EXCEPT ![p] = v]
<1>0. IsFiniteSet(PassOf(f)) /\ Passing(f) \in Nat
  BY CountsAreNat
<1>1. ASSUME f[p] \in Mid <=> v \in Mid PROVE Passing(g) = Passing(f)
  <2>1. PassOf(g) = PassOf(f)
    BY <1>1 DEF PassOf
  <2> QED BY <2>1 DEF Passing
<1>2. ASSUME f[p] \notin Mid, v \in Mid PROVE Passing(g) = Passing(f) + 1
  <2>1. PassOf(g) = PassOf(f) \union {p} /\ p \notin PassOf(f)
    BY <1>2 DEF PassOf
  <2> QED BY <1>0, <2>1, FS_AddElement DEF Passing
<1>3. ASSUME f[p] \in Mid, v \notin Mid PROVE Passing(g) = Passing(f) - 1
  <2>1. PassOf(g) = PassOf(f) \ {p} /\ p \in PassOf(f)
    BY <1>3 DEF PassOf
  <2> QED BY <1>0, <2>1, FS_RemoveElement DEF Passing
<1> QED BY <1>1, <1>2, <1>3

\* How many items a release asks for.
LEMMA OpensNat ==
  ASSUME HomeInv, NEW a \in Nat
  PROVE  /\ conf.Active \in Nat /\ Cardinality(requests) \in Nat /\ Opens(a) \in Nat
         /\ Opens(a) <= Cardinality(requests)
         /\ conf.Active > 0 /\ a < conf.Active => a + Opens(a) <= conf.Active
         /\ conf.Active > 0 /\ a >= conf.Active => Opens(a) = 0
<1>1. conf.Active \in Nat
  BY ConfigAssumption DEF HomeInv, Shape, Config
<1>2. Cardinality(requests) \in Nat
  BY CountsAreNat DEF HomeInv, Shape
<1> QED BY <1>1, <1>2 DEF Opens, Lesser

\* A release takes one off, and puts on what it asks for.
LEMMA ReleaseBalances ==
  ASSUME HomeInv, BalanceInv, NEW n \in Nat, Tally = n + 1 + tokens
  PROVE  /\ Released.active \in Nat /\ Released.tokens \in Nat
         /\ Balanced(Released.active, n + Released.tokens)
<1>1. active \in Nat /\ tokens \in Nat /\ active >= n + 1 + tokens /\ active - 1 \in Nat
  BY DEF BalanceInv, Balanced
<1>2. Opens(active - 1) \in Nat
  BY <1>1, OpensNat
<1>3. CASE closed
  <2>1. Released.active = active - 1 + Lesser(Opens(active - 1), 1) /\ Released.tokens = tokens
    BY <1>3 DEF Released
  <2> QED BY <1>1, <1>2, <1>3, <2>1 DEF Balanced, Lesser
<1>4. CASE ~closed
  <2>1. /\ Released.active = active - 1 + Opens(active - 1)
        /\ Released.tokens = tokens + Opens(active - 1)
    BY <1>4 DEF Released
  <2>2. active = n + 1 + tokens
    BY <1>4 DEF BalanceInv, Balanced
  <2> QED BY <1>1, <1>2, <1>4, <2>1, <2>2 DEF Balanced
<1> QED BY <1>3, <1>4

\* Get's loop, entered by a client between no connections, its slot, if it had
\* one, released.
LEMMA LoopBalances ==
  ASSUME HomeInv, BalanceInv, NEW p \in Clients, conn[p] = NoConn, NEW a \in Nat, NEW t \in Nat,
         Balanced(a, Idle + InHands + Passing([pc EXCEPT ![p] = "out"]) + t + Opening + Forgotten),
         GetLoop(p, a, t)
  PROVE  BalanceInv'
<1> DEFINE f == [pc EXCEPT ![p] = "out"]
<1>0. pc \in [Clients -> PCs] /\ f \in [Clients -> PCs] /\ f[p] = "out" /\ \A v : [f EXCEPT ![p] = v] = [pc EXCEPT ![p] = v]
  BY DEF HomeInv, Shape, PCs
<1>1. /\ Idle \in Nat /\ InHands \in Nat /\ Opening \in Nat /\ Forgotten \in Nat /\ Passing(f) \in Nat
      /\ IsFiniteSet(lost)
  BY BooksAreNat, CountsAreNat DEF BalanceInv
<1>2. tokens' = t /\ closed' = closed /\ opener' = opener /\ lost' = lost
  BY DEF GetLoop
<1>3. Opening' = Opening /\ Forgotten' = Forgotten
  BY <1>2 DEF Opening, Forgotten
<1> DEFINE n == Idle + InHands + Passing(f) + t + Opening + Forgotten
<1>7. Balanced(a, n) /\ n \in Nat
  BY <1>1
<1> HIDE DEF f, n
<1>8. ASSUME NEW k \in {0, 1}, Tally' = n + k, active' = a + k PROVE BalanceInv'
  <2>1. IF closed' THEN active' >= Tally' ELSE active' = Tally'
    BY <1>2, <1>7, <1>8 DEF Balanced
  <2> HIDE DEF Tally
  <2> QED BY <1>1, <1>2, <1>8, <2>1 DEF BalanceInv, Balanced
<1>4. CASE freeItem # <<>> /\ active' = a /\ freeItem' = Tail(freeItem) /\ pc' = [pc EXCEPT ![p] = "got"]
           /\ conn' = [conn EXCEPT ![p] = Head(freeItem).c]
  <2>1. Idle' = Idle - 1 /\ Head(freeItem).c \in Conns
    <3>1. Len(Tail(freeItem)) = Len(freeItem) - 1 /\ Head(freeItem).c \in ConnsOf(freeItem)
      BY <1>4, HomeTypes, QueueTail
    <3> QED BY <1>4, <3>1, HomeTypes DEF Idle
  <2>2. InHands' = InHands + 1
    <3>1. With([conn EXCEPT ![p] = Head(freeItem).c]) = With(conn) + 1
      BY <2>1, HomeTypes, WithMove
    <3> QED BY <1>4, <3>1 DEF InHands
  <2>3. Midway' = Passing(f)
    <3>1. pc' = [f EXCEPT ![p] = "got"]
      BY <1>0, <1>4
    <3>2. f \in [Clients -> PCs] /\ f[p] \notin {"relock", "redial", "dialing"}
      BY <1>0
    <3>3. Passing([f EXCEPT ![p] = "got"]) = Passing(f)
      BY ONLY <3>2, PassMove, p \in Clients
    <3> QED BY <3>1, <3>3 DEF Midway
  <2>4. Tally' = n + 0 /\ active' = a + 0
    BY <1>1, <1>2, <1>3, <1>4, <2>1, <2>2, <2>3 DEF Tally, n
  <2> QED BY <1>8, <2>4
<1>5. CASE \E v \in {"dialing", "out", "waiting"} :
             /\ freeItem' = freeItem /\ conn' = conn /\ pc' = [pc EXCEPT ![p] = v]
             /\ active' = IF v = "dialing" THEN a + 1 ELSE a
  <2>1. PICK v \in {"dialing", "out", "waiting"} :
             /\ freeItem' = freeItem /\ conn' = conn /\ pc' = [pc EXCEPT ![p] = v]
             /\ active' = IF v = "dialing" THEN a + 1 ELSE a
    BY <1>5
  <2>2. Idle' = Idle /\ InHands' = InHands
    BY <2>1 DEF Idle, InHands
  <2>3. Midway' = IF v = "dialing" THEN Passing(f) + 1 ELSE Passing(f)
    <3>1. pc' = [f EXCEPT ![p] = v]
      BY <1>0, <2>1
    <3>2. f \in [Clients -> PCs] /\ f[p] \notin {"relock", "redial", "dialing"}
      BY <1>0
    <3>3. Passing([f EXCEPT ![p] = v]) = IF v = "dialing" THEN Passing(f) + 1 ELSE Passing(f)
      BY ONLY <3>2, PassMove, v \in {"dialing", "out", "waiting"}, p \in Clients
    <3> QED BY <3>1, <3>3 DEF Midway
  <2>4. PICK k \in {0, 1} : Tally' = n + k /\ active' = a + k
    <3>1. CASE v = "dialing"
      BY <1>1, <1>2, <1>3, <2>1, <2>2, <2>3, <3>1 DEF Tally, n
    <3>2. CASE v # "dialing"
      BY <1>1, <1>2, <1>3, <2>1, <2>2, <2>3, <3>2 DEF Tally, n
    <3> QED BY <3>1, <3>2
  <2> QED BY <1>8, <2>4
<1>6. \/ freeItem # <<>> /\ active' = a /\ freeItem' = Tail(freeItem) /\ pc' = [pc EXCEPT ![p] = "got"]
         /\ conn' = [conn EXCEPT ![p] = Head(freeItem).c]
      \/ \E v \in {"dialing", "out", "waiting"} :
             /\ freeItem' = freeItem /\ conn' = conn /\ pc' = [pc EXCEPT ![p] = v]
             /\ active' = IF v = "dialing" THEN a + 1 ELSE a
  BY DEF GetLoop
<1> QED BY <1>4, <1>5, <1>6

\* A client's step from one place to another that is no place between two
\* connections, or to and from such a place.
Mid == {"relock", "redial", "dialing"}

LEMMA MidwayMove ==
  ASSUME HomeInv, NEW p \in Clients, NEW v, pc' = [pc EXCEPT ![p] = v]
  PROVE  /\ (pc[p] \in Mid <=> v \in Mid) => Midway' = Midway
         /\ pc[p] \notin Mid /\ v \in Mid => Midway' = Midway + 1
         /\ pc[p] \in Mid /\ v \notin Mid => Midway' = Midway - 1
<1>1. pc \in [Clients -> PCs]
  BY DEF HomeInv, Shape
<1> QED BY <1>1, PassMove DEF Midway, Mid

LEMMA InitBalance == Init => BalanceInv
<1> SUFFICES ASSUME Init PROVE BalanceInv
  OBVIOUS
<1>1. HandOf(conn) = {} /\ PassOf(pc) = {}
  BY DEF Init, HandOf, PassOf
<1>2. InHands = 0 /\ Midway = 0 /\ Forgotten = 0 /\ IsFiniteSet(lost)
  BY <1>1, FS_EmptySet DEF Init, InHands, Midway, Forgotten, With, Passing
<1>3. Idle = 0 /\ Opening = 0 /\ active = 0 /\ tokens = 0 /\ ~closed
  BY QueueEmpty DEF Init, Idle, Opening
<1> QED BY <1>2, <1>3 DEF BalanceInv, Balanced, Tally

\* Steps that no count takes note of.
LEMMA IdleStepsBalance ==
  ASSUME HomeInv, BalanceInv,
         \/ \E p \in Clients : \/ CheckExpired(p) \/ Receive(p) \/ ReceiveClosed(p) \/ TimeoutFires(p) \/ CtxDone(p)
         \/ OpenerExit \/ CleanerClose \/ (\E k \in Configs : Reload(k)) \/ Tick \/ UNCHANGED vars
  PROVE  BalanceInv'
<1>1. /\ UNCHANGED <<closed, active, tokens, freeItem, conn, lost>>
      /\ opener' = "dialing" <=> opener = "dialing"
  BY DEF CheckExpired, Receive, ReceiveClosed, TimeoutFires, CtxDone, OpenerExit, CleanerClose, Reload, Tick,
         vars, calls, books
<1>2. Midway' = Midway
  <2>1. CASE pc' = pc
    BY <2>1 DEF Midway
  <2>2. CASE \E p \in Clients, v \in PCs \ Mid : pc[p] \notin Mid /\ pc' = [pc EXCEPT ![p] = v]
    BY <2>2, MidwayMove
  <2>3. pc' = pc \/ \E p \in Clients, v \in PCs \ Mid : pc[p] \notin Mid /\ pc' = [pc EXCEPT ![p] = v]
    BY DEF CheckExpired, Receive, ReceiveClosed, TimeoutFires, CtxDone, OpenerExit, CleanerClose, Reload, Tick,
           vars, calls, Mid, PCs, InGet
  <2> QED BY <2>1, <2>2, <2>3
<1>3. Idle' = Idle /\ InHands' = InHands /\ Opening' = Opening /\ Forgotten' = Forgotten
  BY <1>1 DEF Idle, InHands, Opening, Forgotten
<1> QED BY <1>1, <1>2, <1>3 DEF BalanceInv, Balanced, Tally

\* A Get enters the loop, at its call and after an expired item.
LEMMA LoopStepsBalance ==
  ASSUME HomeInv, BalanceInv, NEW p \in Clients, GetStart(p) \/ RetryAfterStale(p)
  PROVE  BalanceInv'
<1> DEFINE f == [pc EXCEPT ![p] = "out"]
<1>1. /\ active \in Nat /\ tokens \in Nat /\ Idle \in Nat /\ InHands \in Nat /\ Midway \in Nat
      /\ Opening \in Nat /\ Forgotten \in Nat /\ Passing(f) \in Nat
  BY BooksAreNat, CountsAreNat
<1>2. pc \in [Clients -> PCs]
  BY DEF HomeInv, Shape
<1>3. CASE GetStart(p)
  <2>1. conn[p] = NoConn /\ pc[p] = "out" /\ GetLoop(p, active, tokens)
    BY <1>3 DEF GetStart, HomeInv, Placed
  <2>2. Passing(f) = Midway
    BY <1>2, <2>1, PassMove DEF Midway
  <2>3. Balanced(active, Idle + InHands + Passing(f) + tokens + Opening + Forgotten)
    BY <2>2 DEF BalanceInv, Tally
  <2> QED BY <1>1, <2>1, <2>3, LoopBalances
<1>4. CASE RetryAfterStale(p)
  <2>1. conn[p] = NoConn /\ pc[p] = "relock" /\ GetLoop(p, Released.active, Released.tokens)
    BY <1>4 DEF RetryAfterStale, HomeInv, Placed
  <2>2. Passing(f) = Midway - 1
    <3>1. pc[p] \in Mid /\ "out" \notin Mid
      BY <2>1 DEF Mid
    <3> QED BY <1>2, <3>1, PassMove DEF Midway, Mid
  <2> DEFINE n == Idle + InHands + Passing(f) + Opening + Forgotten
  <2> HIDE DEF f
  <2>3. n \in Nat /\ Tally = n + 1 + tokens
    BY <1>1, <2>2 DEF Tally
  <2> HIDE DEF n
  <2>4. /\ Released.active \in Nat /\ Released.tokens \in Nat
        /\ Balanced(Released.active, n + Released.tokens)
    BY <2>3, ReleaseBalances
  <2>5. n + Released.tokens = Idle + InHands + Passing(f) + Released.tokens + Opening + Forgotten
    BY <1>1, <2>4 DEF n
  <2>6. Balanced(Released.active, Idle + InHands + Passing(f) + Released.tokens + Opening + Forgotten)
    BY <2>4, <2>5
  <2> HIDE DEF Released
  <2> QED BY <2>1, <2>4, <2>6, LoopBalances DEF f
<1> QED BY <1>3, <1>4

\* A client gives its connection up, or dials one.
LEMMA HandStepsBalance ==
  ASSUME HomeInv, BalanceInv, NEW p \in Clients, CloseStale(p) \/ DialOk(p) \/ CancelRequest(p)
  PROVE  BalanceInv'
<1>1. /\ active \in Nat /\ tokens \in Nat /\ Idle \in Nat /\ InHands \in Nat /\ Midway \in Nat
      /\ Opening \in Nat /\ Forgotten \in Nat /\ IsFiniteSet(lost)
  BY BooksAreNat DEF BalanceInv
<1>2. /\ UNCHANGED <<closed, active, tokens, freeItem, opener>>
      /\ Idle' = Idle /\ Opening' = Opening
  BY DEF CloseStale, DialOk, CancelRequest, books, Idle, Opening
<1>3. conn \in [Clients -> Conns \union {NoConn}] /\ conn[p] \in Conns \union {NoConn}
  BY HomeTypes
<1>4. CASE CloseStale(p)
  <2>1. /\ conn[p] # NoConn /\ conn' = [conn EXCEPT ![p] = NoConn] /\ lost' = lost
        /\ pc[p] \notin Mid /\ \E v \in Mid : pc' = [pc EXCEPT ![p] = v]
    BY <1>4, ConnsAssumption DEF CloseStale, HomeInv, Placed, Mid
  <2>2. InHands' = InHands - 1
    BY <1>3, <2>1, WithMove DEF InHands
  <2>3. Midway' = Midway + 1
    BY <2>1, MidwayMove
  <2>4. Forgotten' = Forgotten
    BY <2>1 DEF Forgotten
  <2> QED BY <1>1, <1>2, <2>1, <2>2, <2>3, <2>4 DEF BalanceInv, Balanced, Tally
<1>5. CASE DialOk(p)
  <2>1. /\ conn[p] = NoConn /\ lost' = lost /\ pc[p] \in Mid /\ pc' = [pc EXCEPT ![p] = "holding"]
        /\ "holding" \notin Mid
    BY <1>5 DEF DialOk, HomeInv, Placed, Mid
  <2>2. InHands' = InHands + 1
    <3>1. PICK c \in Conns : conn' = [conn EXCEPT ![p] = c]
      BY <1>5 DEF DialOk
    <3>2. With([conn EXCEPT ![p] = c]) = With(conn) + 1
      BY <1>3, <2>1, WithMove
    <3> QED BY <3>1, <3>2 DEF InHands
  <2>3. Midway' = Midway - 1
    BY <2>1, MidwayMove
  <2>4. Forgotten' = Forgotten
    BY <2>1 DEF Forgotten
  <2> QED BY <1>1, <1>2, <2>1, <2>2, <2>3, <2>4 DEF BalanceInv, Balanced, Tally
<1>6. CASE CancelRequest(p)
  <2>1. /\ conn' = [conn EXCEPT ![p] = NoConn] /\ lost' = lost \union ({conn[p]} \ {NoConn})
        /\ pc[p] \notin Mid /\ "out" \notin Mid /\ pc' = [pc EXCEPT ![p] = "out"]
    BY <1>6 DEF CancelRequest, Mid
  <2>2. Midway' = Midway
    BY <2>1, MidwayMove
  <2>3. CASE conn[p] \in Conns
    <3>1. lost' = lost \union {conn[p]} /\ conn[p] \notin lost /\ conn[p] # NoConn
      BY <2>1, <2>3, ConnsAssumption, HomeTypes DEF Own
    <3>2. IsFiniteSet(lost') /\ Forgotten' = Forgotten + 1
      BY <1>1, <3>1, FS_AddElement DEF Forgotten
    <3>3. InHands' = InHands - 1
      BY <1>3, <2>1, <3>1, WithMove DEF InHands
    <3> QED BY <1>1, <1>2, <2>2, <3>2, <3>3 DEF BalanceInv, Balanced, Tally
  <2>4. CASE conn[p] = NoConn
    <3>1. lost' = lost /\ conn' = conn
      BY <1>3, <2>1, <2>4
    <3>2. InHands' = InHands /\ Forgotten' = Forgotten /\ IsFiniteSet(lost')
      BY <1>1, <3>1 DEF InHands, Forgotten
    <3> QED BY <1>1, <1>2, <2>2, <3>2 DEF BalanceInv, Balanced, Tally
  <2> QED BY <1>3, <2>3, <2>4
<1> QED BY <1>4, <1>5, <1>6

\* A client gives up a slot: its dial has failed, it dials again after an
\* expired item, or the connection it put is closed.
LEMMA SlotStepsBalance ==
  ASSUME HomeInv, BalanceInv, NEW p \in Clients, DialAfterStale(p) \/ DialFail(p) \/ PutClosed(p)
  PROVE  BalanceInv'
<1>1. /\ active \in Nat /\ tokens \in Nat /\ Idle \in Nat /\ InHands \in Nat /\ Midway \in Nat
      /\ Opening \in Nat /\ Forgotten \in Nat /\ IsFiniteSet(lost) /\ Midway' \in Nat /\ InHands' \in Nat
  BY BooksAreNat, CountsAreNat DEF BalanceInv, Midway, InHands
<1>2. /\ UNCHANGED <<closed, freeItem, opener, lost>>
      /\ Idle' = Idle /\ Opening' = Opening /\ Forgotten' = Forgotten
  BY DEF DialAfterStale, DialFail, PutClosed, Idle, Opening, Forgotten
<1>3. conn \in [Clients -> Conns \union {NoConn}]
  BY HomeTypes
<1> DEFINE n == Tally - 1 - tokens
<1>4. CASE DialAfterStale(p)
  <2>1. /\ conn' = conn /\ pc[p] \in Mid /\ "dialing" \in Mid /\ pc' = [pc EXCEPT ![p] = "dialing"]
        /\ active' = Released.active + 1 /\ tokens' = Released.tokens
    BY <1>4 DEF DialAfterStale, Mid
  <2>2. InHands' = InHands /\ Midway' = Midway
    BY <2>1, MidwayMove DEF InHands
  <2>3. Midway >= 1
    <3>1. pc \in [Clients -> PCs] /\ [pc EXCEPT ![p] = "out"] \in [Clients -> PCs]
      BY DEF HomeInv, Shape, PCs
    <3>2. Passing([pc EXCEPT ![p] = "out"]) = Midway - 1
      BY <2>1, <3>1, PassMove DEF Mid, Midway
    <3>3. Passing([pc EXCEPT ![p] = "out"]) \in Nat
      BY CountsAreNat
    <3> QED BY <1>1, <3>2, <3>3
  <2>4. n \in Nat /\ Tally = n + 1 + tokens
    BY <1>1, <2>3 DEF Tally
  <2> HIDE DEF n
  <2>5. /\ Released.active \in Nat /\ Released.tokens \in Nat
        /\ Balanced(Released.active, n + Released.tokens)
    BY <2>4, ReleaseBalances
  <2>6. Tally' = n + 1 + Released.tokens
    BY <1>1, <1>2, <2>1, <2>2, <2>5 DEF Tally, n
  <2> HIDE DEF Released
  <2> QED BY <1>1, <1>2, <2>1, <2>4, <2>5, <2>6 DEF BalanceInv, Balanced
<1>5. CASE (DialFail(p) \/ PutClosed(p)) /\ Release
  <2>1. active' = Released.active /\ tokens' = Released.tokens
    BY <1>5 DEF Release
  <2>2. CASE DialFail(p)
    <3>1. conn' = conn /\ pc[p] \in Mid /\ "out" \notin Mid /\ pc' = [pc EXCEPT ![p] = "out"]
      BY <2>2 DEF DialFail, Mid
    <3>2. InHands' = InHands /\ Midway' = Midway - 1
      BY <3>1, MidwayMove DEF InHands
    <3>3. n \in Nat /\ Tally = n + 1 + tokens
      BY <1>1, <3>2 DEF Tally
    <3> HIDE DEF n
    <3>4. /\ Released.active \in Nat /\ Released.tokens \in Nat
          /\ Balanced(Released.active, n + Released.tokens)
      BY <3>3, ReleaseBalances
    <3> HIDE DEF Released
    <3>5. Tally' = n + Released.tokens
      BY <1>1, <1>2, <2>1, <3>2, <3>3, <3>4 DEF Tally
    <3> QED BY <1>1, <1>2, <2>1, <3>3, <3>4, <3>5 DEF BalanceInv, Balanced
  <2>3. CASE PutClosed(p)
    <3>1. /\ conn[p] # NoConn /\ conn' = [conn EXCEPT ![p] = NoConn]
          /\ pc[p] \notin Mid /\ "out" \notin Mid /\ pc' = [pc EXCEPT ![p] = "out"]
      BY <2>3, ConnsAssumption DEF PutClosed, HomeInv, Placed, Mid
    <3>2. InHands' = InHands - 1 /\ Midway' = Midway
      BY <1>3, <3>1, WithMove, MidwayMove DEF InHands
    <3>3. n \in Nat /\ Tally = n + 1 + tokens
      BY <1>1, <3>2 DEF Tally
    <3> HIDE DEF n
    <3>4. /\ Released.active \in Nat /\ Released.tokens \in Nat
          /\ Balanced(Released.active, n + Released.tokens)
      BY <3>3, ReleaseBalances
    <3> HIDE DEF Released
    <3>5. Tally' = n + Released.tokens
      BY <1>1, <1>2, <2>1, <3>2, <3>3, <3>4 DEF Tally
    <3> QED BY <1>1, <1>2, <2>1, <3>3, <3>4, <3>5 DEF BalanceInv, Balanced
  <2> QED BY <1>5, <2>2, <2>3
<1>6. CASE PutClosed(p) /\ active' = active - 1 /\ UNCHANGED tokens
  <2>1. /\ conn[p] # NoConn /\ conn' = [conn EXCEPT ![p] = NoConn]
        /\ pc[p] \notin Mid /\ "out" \notin Mid /\ pc' = [pc EXCEPT ![p] = "out"]
    BY <1>6, ConnsAssumption DEF PutClosed, HomeInv, Placed, Mid
  <2>2. InHands' = InHands - 1 /\ Midway' = Midway
    BY <1>3, <2>1, WithMove, MidwayMove DEF InHands
  <2> QED BY <1>1, <1>2, <1>6, <2>2 DEF BalanceInv, Balanced, Tally
<1> QED BY <1>4, <1>5, <1>6 DEF PutClosed, DialFail

\* A connection is kept: it joins the queue or goes to a request.
LEMMA KeptCounts ==
  ASSUME HomeInv, NEW c \in Conns, NEW h \in [Clients -> Conns \union {NoConn}]
  PROVE  /\ Enqueue(c, h) => Idle' = Idle + 1 /\ InHands' = With(h) /\ UNCHANGED <<active, tokens>>
         /\ \A q \in Clients : h[q] = NoConn /\ Deliver(c, q, h)
              => Idle' = Idle /\ InHands' = With(h) + 1 /\ UNCHANGED <<active, tokens>>
<1>1. ASSUME Enqueue(c, h) PROVE Idle' = Idle + 1 /\ InHands' = With(h) /\ UNCHANGED <<active, tokens>>
  <2> DEFINE e == [c |-> c, at |-> now]
  <2>1. freeItem' = Append(freeItem, e) /\ conn' = h /\ UNCHANGED <<active, tokens>>
    BY <1>1 DEF Enqueue
  <2>2. e \in Item
    BY DEF HomeInv, Shape, Item
  <2> HIDE DEF e
  <2>3. Len(Append(freeItem, e)) = Len(freeItem) + 1
    BY <2>2, HomeTypes, AppendProperties
  <2> QED BY <2>1, <2>3 DEF Idle, InHands
<1>2. ASSUME NEW q \in Clients, h[q] = NoConn, Deliver(c, q, h)
      PROVE  Idle' = Idle /\ InHands' = With(h) + 1 /\ UNCHANGED <<active, tokens>>
  <2>1. conn' = [h EXCEPT ![q] = c] /\ freeItem' = freeItem /\ UNCHANGED <<active, tokens>>
    BY <1>2 DEF Deliver
  <2>2. With([h EXCEPT ![q] = c]) = With(h) + 1
    BY <1>2, WithMove
  <2> QED BY <2>1, <2>2 DEF Idle, InHands
<1> QED BY <1>1, <1>2

LEMMA PutKeptBalance ==
  ASSUME HomeInv, BalanceInv, NEW p \in Clients, PutKept(p)
  PROVE  BalanceInv'
<1> DEFINE h == [conn EXCEPT ![p] = NoConn]
<1>1. /\ active \in Nat /\ tokens \in Nat /\ Idle \in Nat /\ InHands \in Nat /\ Midway \in Nat
      /\ Opening \in Nat /\ Forgotten \in Nat /\ IsFiniteSet(lost)
  BY BooksAreNat DEF BalanceInv
<1>2. /\ pc[p] = "holding" /\ conn[p] \in Conns /\ p \notin requests
      /\ pc' = [pc EXCEPT ![p] = "out"] /\ UNCHANGED <<closed, opener, lost>>
  BY DEF PutKept, HomeInv, Placed, Queued
<1>3. h \in [Clients -> Conns \union {NoConn}] /\ With(h) = InHands - 1
  BY <1>2, HomeTypes, WithMove, ConnsAssumption DEF InHands
<1>4. Midway' = Midway /\ Opening' = Opening /\ Forgotten' = Forgotten
  <2>1. pc[p] \notin Mid /\ "out" \notin Mid
    BY <1>2 DEF Mid
  <2>2. Midway' = Midway
    BY <1>2, <2>1, MidwayMove
  <2> QED BY <1>2, <2>2 DEF Opening, Forgotten
<1>5. \A q \in requests : q \in Clients /\ h[q] = NoConn
  BY <1>2 DEF HomeInv, Shape, Placed
<1> HIDE DEF h
<1>6. CASE Enqueue(conn[p], h)
  <2>1. Idle' = Idle + 1 /\ InHands' = InHands - 1 /\ UNCHANGED <<active, tokens>>
    BY <1>2, <1>3, <1>6, KeptCounts
  <2> QED BY <1>1, <1>2, <1>4, <2>1 DEF BalanceInv, Balanced, Tally
<1>7. CASE \E q \in Clients : Deliver(conn[p], q, h)
  <2>1. PICK q \in Clients : Deliver(conn[p], q, h)
    BY <1>7
  <2>2. h[q] = NoConn
    BY <1>5, <2>1 DEF Deliver
  <2>3. Idle' = Idle /\ InHands' = InHands - 1 + 1 /\ UNCHANGED <<active, tokens>>
    BY <1>2, <1>3, <2>1, <2>2, KeptCounts
  <2> QED BY <1>1, <1>2, <1>4, <2>3 DEF BalanceInv, Balanced, Tally
<1> QED BY <1>6, <1>7 DEF PutKept, h

LEMMA OpenerBalance ==
  ASSUME HomeInv, BalanceInv, OpenerTake \/ OpenKept \/ OpenFails
  PROVE  BalanceInv'
<1>1. /\ active \in Nat /\ tokens \in Nat /\ Idle \in Nat /\ InHands \in Nat /\ Midway \in Nat
      /\ Forgotten \in Nat /\ IsFiniteSet(lost)
  BY BooksAreNat DEF BalanceInv
<1>2. UNCHANGED <<closed, pc, lost>> /\ Midway' = Midway /\ Forgotten' = Forgotten
  BY DEF OpenerTake, OpenKept, OpenFails, calls, Midway, Forgotten
<1>3. CASE OpenerTake
  <2>1. /\ tokens > 0 /\ tokens' = tokens - 1 /\ Opening = 0 /\ Opening' = 1
        /\ UNCHANGED <<active, freeItem, conn>>
    BY <1>3 DEF OpenerTake, calls, Opening
  <2>2. Idle' = Idle /\ InHands' = InHands
    BY <2>1 DEF Idle, InHands
  <2> QED BY <1>1, <1>2, <2>1, <2>2 DEF BalanceInv, Balanced, Tally
<1>4. CASE OpenKept
  <2>1. Opening = 1 /\ Opening' = 0
    BY <1>4 DEF OpenKept, Opening
  <2>2. PICK c \in Conns : Enqueue(c, conn) \/ \E q \in Clients : Deliver(c, q, conn)
    BY <1>4 DEF OpenKept
  <2>3. conn \in [Clients -> Conns \union {NoConn}] /\ \A q \in requests : conn[q] = NoConn
    BY DEF HomeInv, Shape, Placed
  <2>4. CASE Enqueue(c, conn)
    <3>1. Idle' = Idle + 1 /\ InHands' = InHands /\ UNCHANGED <<active, tokens>>
      BY <2>3, <2>4, KeptCounts DEF InHands
    <3> QED BY <1>1, <1>2, <2>1, <3>1 DEF BalanceInv, Balanced, Tally
  <2>5. CASE \E q \in Clients : Deliver(c, q, conn)
    <3>1. PICK q \in Clients : Deliver(c, q, conn)
      BY <2>5
    <3>2. conn[q] = NoConn
      BY <2>3, <3>1 DEF Deliver
    <3>3. Idle' = Idle /\ InHands' = InHands + 1 /\ UNCHANGED <<active, tokens>>
      BY <2>3, <3>1, <3>2, KeptCounts DEF InHands
    <3> QED BY <1>1, <1>2, <2>1, <3>3 DEF BalanceInv, Balanced, Tally
  <2> QED BY <2>2, <2>4, <2>5
<1>5. CASE OpenFails
  <2>1. Opening = 1 /\ Opening' = 0 /\ UNCHANGED <<freeItem, conn>>
    BY <1>5 DEF OpenFails, Opening, calls
  <2>2. Idle' = Idle /\ InHands' = InHands
    BY <2>1 DEF Idle, InHands
  <2>3. CASE active' = active - 1 /\ tokens' = tokens
    BY <1>1, <1>2, <2>1, <2>2, <2>3 DEF BalanceInv, Balanced, Tally
  <2>4. CASE Release
    <3> DEFINE n == Tally - 1 - tokens
    <3>1. n \in Nat /\ Tally = n + 1 + tokens
      BY <1>1, <2>1 DEF Tally
    <3> HIDE DEF n
    <3>2. /\ Released.active \in Nat /\ Released.tokens \in Nat
          /\ Balanced(Released.active, n + Released.tokens)
      BY <3>1, ReleaseBalances
    <3>3. active' = Released.active /\ tokens' = Released.tokens
      BY <2>4 DEF Release
    <3> HIDE DEF Released
    <3>4. Tally' = n + Released.tokens
      BY <1>1, <1>2, <2>1, <2>2, <3>1, <3>2, <3>3 DEF Tally
    <3> QED BY <1>1, <1>2, <3>1, <3>2, <3>3, <3>4 DEF BalanceInv, Balanced
  <2> QED BY <1>5, <2>3, <2>4 DEF OpenFails
<1> QED BY <1>3, <1>4, <1>5

\* The cleaner takes the expired items off, Close takes them all.
LEMMA IdlesLeaveBalance ==
  ASSUME HomeInv, BalanceInv, CleanerWake \/ Close
  PROVE  BalanceInv'
<1>1. /\ active \in Nat /\ tokens \in Nat /\ Idle \in Nat /\ InHands \in Nat /\ Midway \in Nat
      /\ Opening \in Nat /\ Forgotten \in Nat /\ IsFiniteSet(lost)
  BY BooksAreNat DEF BalanceInv
<1>2. /\ UNCHANGED <<tokens, pc, conn, opener, lost>>
      /\ Midway' = Midway /\ InHands' = InHands /\ Opening' = Opening /\ Forgotten' = Forgotten
  BY DEF CleanerWake, Close, calls, Midway, InHands, Opening, Forgotten
<1>3. CASE CleanerWake /\ closed
  <2>1. UNCHANGED <<closed, active, freeItem>>
    BY <1>3 DEF CleanerWake
  <2>2. Idle' = Idle
    BY <2>1 DEF Idle
  <2> QED BY <1>1, <1>2, <2>1, <2>2 DEF BalanceInv, Balanced, Tally
<1>4. CASE CleanerWake /\ ~closed
  <2> DEFINE s == Cardinality(Stale)
  <2>1. active' = active - s /\ freeItem' = Swept /\ closed' = closed
    BY <1>4 DEF CleanerWake
  <2>2. s \in Nat /\ Len(Swept) + s = Len(freeItem) /\ Swept \in Seq(Item)
    BY HomeTypes, SweepKeeps
  <2>3. Len(Swept) \in Nat
    BY <2>2
  <2> HIDE DEF s
  <2>4. Idle' = Idle - s /\ s <= Idle
    BY <1>1, <2>1, <2>2, <2>3 DEF Idle
  <2> QED BY <1>1, <1>2, <1>4, <2>1, <2>2, <2>4 DEF BalanceInv, Balanced, Tally
<1>5. CASE Close
  <2>1. ~closed /\ closed' = TRUE /\ active' = active /\ freeItem' = <<>>
    BY <1>5 DEF Close
  <2>2. Idle' = 0
    BY <2>1, QueueEmpty DEF Idle
  <2> QED BY <1>1, <1>2, <2>1, <2>2 DEF BalanceInv, Balanced, Tally
<1> QED BY <1>3, <1>4, <1>5

LEMMA NextBalance == HomeInv /\ BalanceInv /\ [Next]_vars => BalanceInv'
<1> SUFFICES ASSUME HomeInv, BalanceInv, [Next]_vars PROVE BalanceInv'
  OBVIOUS
<1>1. ASSUME NEW p \in Clients, GetStart(p) \/ GetStep(p) \/ CtxDone(p) \/ Put(p) PROVE BalanceInv'
  BY <1>1, IdleStepsBalance, LoopStepsBalance, HandStepsBalance, SlotStepsBalance, PutKeptBalance DEF GetStep, Put
<1>2. CASE Opener \/ Cleaner \/ Close \/ (\E k \in Configs : Reload(k)) \/ Tick \/ UNCHANGED vars
  BY <1>2, IdleStepsBalance, OpenerBalance, IdlesLeaveBalance DEF Opener, Cleaner
<1> QED BY <1>1, <1>2 DEF Next

-----------------------------------------------------------------------------
(* What waiting requests imply, and the bound of openerCh. A release asks    *)
(* for items only up to Active, and the tokens it finds are counted in what  *)
(* active counts already: so the two together stay within Active.            *)

BoundInv ==
  /\ NoneWaitsByIdle /\ WaitersMeanFull /\ OpenerChBounded
  /\ conf.Active = 0 => requests = {}
  /\ IsFiniteSet(doomed)

LEMMA InitBound == Init => BoundInv
<1> SUFFICES ASSUME Init PROVE BoundInv
  OBVIOUS
<1>1. tokens = 0 /\ requests = {} /\ conf.Active \in Nat /\ IsFiniteSet(doomed)
  BY ConfigAssumption, FS_EmptySet DEF Init, Config
<1> QED BY <1>1 DEF BoundInv, NoneWaitsByIdle, WaitersMeanFull, OpenerChBounded

\* A slot that is given up is one that active counts beside the tokens.
LEMMA SlotCounted ==
  ASSUME HomeInv, BalanceInv,
         opener = "dialing" \/ \E p \in Clients : conn[p] # NoConn \/ pc[p] \in Mid
  PROVE  active - 1 \in Nat /\ active - 1 >= tokens
<1>1. /\ active \in Nat /\ tokens \in Nat /\ Idle \in Nat /\ InHands \in Nat /\ Midway \in Nat
      /\ Opening \in Nat /\ Forgotten \in Nat
  BY BooksAreNat
<1>2. ASSUME NEW p \in Clients, conn[p] # NoConn PROVE InHands # 0
  <2>1. p \in HandOf(conn)
    BY <1>2 DEF HandOf
  <2> QED BY <2>1, CountsAreNat, FS_EmptySet DEF InHands, With
<1>3. ASSUME NEW p \in Clients, pc[p] \in Mid PROVE Midway # 0
  <2>1. p \in PassOf(pc)
    BY <1>3 DEF PassOf, Mid
  <2> QED BY <2>1, CountsAreNat, FS_EmptySet DEF Midway, Passing
<1>4. opener = "dialing" => Opening # 0
  BY DEF Opening
<1>5. Tally >= tokens + 1
  BY <1>1, <1>2, <1>3, <1>4 DEF Tally
<1>6. Tally \in Nat
  BY <1>1 DEF Tally
<1> HIDE DEF Tally
<1> QED BY <1>1, <1>5, <1>6 DEF BalanceInv, Balanced

LEMMA ReleaseBound ==
  ASSUME HomeInv, BalanceInv, BoundInv, active - 1 \in Nat, active - 1 >= tokens
  PROVE  /\ Released.active \in Int /\ Released.tokens \in Nat /\ Released.tokens <= conf.Active
         /\ ~closed /\ requests # {} => Released.active >= conf.Active
<1>1. /\ active \in Nat /\ tokens \in Nat /\ tokens <= conf.Active /\ conf.Active \in Nat
      /\ ~closed /\ requests # {} => active >= conf.Active /\ conf.Active > 0
      /\ conf.Active = 0 => requests = {}
  BY OpensNat DEF BalanceInv, BoundInv, WaitersMeanFull, OpenerChBounded
<1> DEFINE k == Opens(active - 1)
<1>2. k \in Nat
  BY OpensNat
<1>3. requests # {} => Cardinality(requests) >= 1
  <2>1. IsFiniteSet(requests) /\ Cardinality(requests) \in Nat
    BY CountsAreNat DEF HomeInv, Shape
  <2> QED BY <2>1, FS_EmptySet
<1>4. /\ conf.Active = 0 => k = 0
      /\ conf.Active > 0 /\ active - 1 < conf.Active => active - 1 + k <= conf.Active
      /\ conf.Active > 0 /\ active - 1 >= conf.Active => k = 0
  <2>1. requests = {} => Cardinality(requests) = 0
    BY FS_EmptySet
  <2> QED BY <1>1, <2>1, OpensNat DEF Opens
<1>5. requests # {} /\ conf.Active > 0 /\ active - 1 < conf.Active => k >= 1
  <2>1. Cardinality(requests) \in Nat
    BY OpensNat
  <2> QED BY <1>1, <1>3, <2>1 DEF Opens, Lesser
<1> HIDE DEF k
<1>6. CASE closed
  <2>1. Released.active = active - 1 + Lesser(k, 1) /\ Released.tokens = tokens
    BY <1>6 DEF Released, k
  <2> QED BY <1>1, <1>2, <1>6, <2>1 DEF Lesser
<1>7. CASE ~closed
  <2>1. Released.active = active - 1 + k /\ Released.tokens = tokens + k
    BY <1>7 DEF Released, k
  <2> QED BY <1>1, <1>2, <1>4, <1>5, <1>7, <2>1
<1> QED BY <1>6, <1>7

\* Requests only leave, no item joins the queue, and the books stay as said.
LEMMA BoundKept ==
  ASSUME HomeInv, BoundInv, UNCHANGED <<conf, closed, freeItem, doomed>>, requests' \subseteq requests,
         tokens' <= conf.Active, ~closed /\ requests # {} => active' >= conf.Active
  PROVE  BoundInv'
BY DEF BoundInv, NoneWaitsByIdle, WaitersMeanFull, OpenerChBounded

LEMMA LoopBound ==
  ASSUME HomeInv, BoundInv, NEW p \in Clients, NEW a \in Int, NEW t \in Int, t <= conf.Active,
         ~closed /\ requests # {} => a >= conf.Active, GetLoop(p, a, t)
  PROVE  BoundInv'
<1>1. UNCHANGED <<conf, closed, doomed>> /\ tokens' = t /\ conf.Active \in Nat
  BY ConfigAssumption DEF GetLoop, HomeInv, Shape, Config
<1>2. CASE freeItem # <<>> /\ active' = a /\ UNCHANGED requests
  BY <1>1, <1>2 DEF BoundInv, NoneWaitsByIdle, WaitersMeanFull, OpenerChBounded
<1>3. CASE UNCHANGED <<freeItem, requests>> /\ active' \in {a, a + 1}
  BY <1>1, <1>3, BoundKept
<1>4. CASE freeItem = <<>> /\ AtLimit(a) /\ active' = a /\ freeItem' = freeItem
  BY <1>1, <1>4 DEF AtLimit, BoundInv, NoneWaitsByIdle, WaitersMeanFull, OpenerChBounded
<1>5. \/ freeItem # <<>> /\ active' = a /\ UNCHANGED requests
      \/ UNCHANGED <<freeItem, requests>> /\ active' \in {a, a + 1}
      \/ freeItem = <<>> /\ AtLimit(a) /\ active' = a /\ freeItem' = freeItem
  BY DEF GetLoop
<1> QED BY <1>2, <1>3, <1>4, <1>5

\* Every step of a client.
LEMMA ClientBound ==
  ASSUME HomeInv, BalanceInv, BoundInv, NEW p \in Clients,
         GetStart(p) \/ GetStep(p) \/ CtxDone(p) \/ Put(p)
  PROVE  BoundInv'
<1>1. /\ active \in Nat /\ tokens \in Nat /\ tokens <= conf.Active /\ conf.Active \in Nat
      /\ ~closed /\ requests # {} => active >= conf.Active
  BY OpensNat DEF BalanceInv, BoundInv, WaitersMeanFull, OpenerChBounded
<1>2. conn[p] # NoConn \/ pc[p] \in Mid
      => /\ Released.active \in Int /\ Released.tokens \in Nat /\ Released.tokens <= conf.Active
         /\ ~closed /\ requests # {} => Released.active >= conf.Active
  BY SlotCounted, ReleaseBound
<1> HIDE DEF Released
<1>3. CASE GetStart(p)
  <2>1. active \in Int /\ tokens \in Int /\ GetLoop(p, active, tokens)
    BY <1>1, <1>3 DEF GetStart
  <2> QED BY <1>1, <2>1, LoopBound
<1>4. CASE RetryAfterStale(p)
  <2>1. pc[p] \in Mid /\ GetLoop(p, Released.active, Released.tokens)
    BY <1>4 DEF RetryAfterStale, Mid
  <2>2. Released.active \in Int /\ Released.tokens \in Int
    BY <1>2, <2>1
  <2> QED BY <1>2, <2>1, <2>2, LoopBound
<1>5. CASE DialAfterStale(p)
  <2>1. /\ pc[p] \in Mid /\ active' = Released.active + 1 /\ tokens' = Released.tokens
        /\ UNCHANGED <<conf, closed, freeItem, doomed, requests>>
    BY <1>5 DEF DialAfterStale, Mid
  <2>2. ~closed /\ requests # {} => active' >= conf.Active
    BY <1>1, <1>2, <2>1
  <2> QED BY <1>2, <2>1, <2>2, BoundKept
<1>6. CASE DialFail(p) \/ (PutClosed(p) /\ Release)
  <2>1. /\ conn[p] # NoConn \/ pc[p] \in Mid
        /\ active' = Released.active /\ tokens' = Released.tokens
        /\ UNCHANGED <<conf, closed, freeItem, doomed, requests>>
    BY <1>6, ConnsAssumption DEF DialFail, PutClosed, Release, HomeInv, Placed, Mid
  <2> QED BY <1>2, <2>1, BoundKept
<1>7. CASE PutClosed(p) /\ Refused /\ active' = active - 1 /\ UNCHANGED tokens
  <2>1. UNCHANGED <<conf, closed, freeItem, doomed, requests>>
    BY <1>7 DEF PutClosed
  <2>2. ~closed /\ requests # {} => active' >= conf.Active
    BY <1>1, <1>7 DEF Refused, Refuses
  <2> QED BY <1>1, <1>7, <2>1, <2>2, BoundKept
<1>8. CASE PutKept(p)
  <2>1. UNCHANGED <<conf, closed, doomed, active, tokens>>
    BY <1>8 DEF PutKept, Enqueue, Deliver
  <2>2. CASE requests = {} /\ requests' = requests
    BY <1>1, <2>1, <2>2 DEF BoundInv, NoneWaitsByIdle, WaitersMeanFull, OpenerChBounded
  <2>3. CASE requests' \subseteq requests /\ freeItem' = freeItem
    BY <1>1, <2>1, <2>3, BoundKept
  <2> QED BY <1>8, <2>2, <2>3 DEF PutKept, Enqueue, MayQueue, Deliver
<1>9. CASE \/ CheckExpired(p) \/ Receive(p) \/ ReceiveClosed(p) \/ TimeoutFires(p) \/ CtxDone(p)
           \/ CloseStale(p) \/ DialOk(p) \/ CancelRequest(p)
  <2>1. /\ UNCHANGED <<conf, closed, freeItem, doomed, active, tokens>>
        /\ requests' \subseteq requests
    BY <1>9 DEF CheckExpired, Receive, ReceiveClosed, TimeoutFires, CtxDone, CloseStale, DialOk, CancelRequest, books
  <2> QED BY <1>1, <2>1, BoundKept
<1> QED BY <1>3, <1>4, <1>5, <1>6, <1>7, <1>8, <1>9 DEF GetStep, Put, PutClosed

\* Every step of the pool.
LEMMA PoolBound ==
  ASSUME HomeInv, BalanceInv, BoundInv,
         Opener \/ Cleaner \/ Close \/ (\E k \in Configs : Reload(k)) \/ Tick \/ UNCHANGED vars
  PROVE  BoundInv'
<1>1. /\ active \in Nat /\ tokens \in Nat /\ tokens <= conf.Active /\ conf.Active \in Nat
      /\ ~closed /\ requests # {} => active >= conf.Active
  BY OpensNat DEF BalanceInv, BoundInv, WaitersMeanFull, OpenerChBounded
<1>2. CASE OpenerExit \/ (\E k \in Configs : Reload(k)) \/ Tick \/ UNCHANGED vars
  <2>1. UNCHANGED <<conf, closed, freeItem, doomed, active, tokens, requests>>
    BY <1>2 DEF OpenerExit, Reload, Tick, vars, books
  <2> QED BY <1>1, <2>1, BoundKept
<1>3. CASE OpenerTake
  <2>1. UNCHANGED <<conf, closed, freeItem, doomed, active, requests>> /\ tokens' = tokens - 1
    BY <1>3 DEF OpenerTake
  <2> QED BY <1>1, <2>1, BoundKept
<1>4. CASE OpenKept
  <2>1. UNCHANGED <<conf, closed, doomed, active, tokens>>
    BY <1>4 DEF OpenKept, Enqueue, Deliver
  <2>2. CASE requests = {} /\ requests' = requests
    BY <1>1, <2>1, <2>2 DEF BoundInv, NoneWaitsByIdle, WaitersMeanFull, OpenerChBounded
  <2>3. CASE requests' \subseteq requests /\ freeItem' = freeItem
    BY <1>1, <2>1, <2>3, BoundKept
  <2> QED BY <1>4, <2>2, <2>3 DEF OpenKept, Enqueue, MayQueue, Deliver
<1>5. CASE OpenFails
  <2>1. opener = "dialing" /\ UNCHANGED <<conf, closed, freeItem, doomed, requests>>
    BY <1>5 DEF OpenFails
  <2>2. CASE Refused /\ active' = active - 1 /\ tokens' = tokens
    <3>1. ~closed /\ requests # {} => active' >= conf.Active
      BY <1>1, <2>2 DEF Refused, Refuses
    <3> QED BY <1>1, <2>1, <2>2, <3>1, BoundKept
  <2>3. CASE Release
    <3>1. active - 1 \in Nat /\ active - 1 >= tokens
      BY <2>1, SlotCounted
    <3>2. active' = Released.active /\ tokens' = Released.tokens
      BY <2>3 DEF Release
    <3>3. /\ Released.tokens <= conf.Active
          /\ ~closed /\ requests # {} => Released.active >= conf.Active
      BY <3>1, ReleaseBound
    <3> HIDE DEF Released
    <3> QED BY <2>1, <3>2, <3>3, BoundKept
  <2> QED BY <1>5, <2>2, <2>3 DEF OpenFails
<1>6. CASE CleanerWake
  <2>1. UNCHANGED <<conf, closed, requests, tokens>>
    BY <1>6 DEF CleanerWake
  <2>2. CASE closed
    BY <1>1, <1>6, <2>1, <2>2, BoundKept DEF CleanerWake
  <2>3. CASE ~closed
    <3> DEFINE s == Cardinality(Stale)
    <3>1. active' = active - s /\ freeItem' = Swept /\ doomed' = Stale
      BY <1>6, <2>3 DEF CleanerWake
    <3>2. s \in Nat /\ IsFiniteSet(Stale) /\ Len(Swept) + s = Len(freeItem) /\ Swept \in Seq(Item)
      BY HomeTypes, SweepKeeps
    <3> HIDE DEF s
    <3>3. requests # {} => freeItem = <<>>
      BY <2>3 DEF BoundInv, NoneWaitsByIdle
    <3>4. requests # {} => s = 0 /\ Swept = <<>>
      <4>1. Len(Swept) \in Nat
        BY <3>2
      <4>2. requests # {} => s = 0 /\ Len(Swept) = 0
        BY <3>2, <3>3, <4>1, QueueEmpty
      <4> QED BY <3>2, <4>2, EmptySeq
    <3> QED BY <1>1, <2>1, <2>3, <3>1, <3>2, <3>4 DEF BoundInv, NoneWaitsByIdle, WaitersMeanFull, OpenerChBounded
  <2> QED BY <2>2, <2>3
<1>7. CASE CleanerClose
  <2>1. UNCHANGED <<conf, closed, freeItem, requests, active, tokens>> /\ doomed' \subseteq doomed
    BY <1>7 DEF CleanerClose, books
  <2>2. IsFiniteSet(doomed')
    BY <2>1, FS_Subset DEF BoundInv
  <2> QED BY <2>1, <2>2 DEF BoundInv, NoneWaitsByIdle, WaitersMeanFull, OpenerChBounded
<1>8. CASE Close
  BY <1>8 DEF Close, BoundInv, NoneWaitsByIdle, WaitersMeanFull, OpenerChBounded
<1> QED BY <1>2, <1>3, <1>4, <1>5, <1>6, <1>7, <1>8 DEF Opener, Cleaner

LEMMA NextBound == HomeInv /\ BalanceInv /\ BoundInv /\ [Next]_vars => BoundInv'
<1> SUFFICES ASSUME HomeInv, BalanceInv, BoundInv, [Next]_vars PROVE BoundInv'
  OBVIOUS
<1> QED BY ClientBound, PoolBound DEF Next

-----------------------------------------------------------------------------
(* The theorems. *)

SliceInv == HomeInv /\ BalanceInv /\ BoundInv

LEMMA SliceInvHolds == Spec => []SliceInv
<1>1. Init => SliceInv
  BY InitHome, InitBalance, InitBound DEF SliceInv
<1>2. SliceInv /\ [Next]_vars => SliceInv'
  BY NextHome, NextBalance, NextBound DEF SliceInv
<1> QED BY <1>1, <1>2, PTL DEF Spec

\* Every variable of the pool keeps its type: active never falls below zero
\* and no more tokens are taken than were sent, after Close too (slice.go:59-81).
THEOREM SliceTypes == Spec => []TypeOK
<1>1. SliceInv => TypeOK
  BY DEF SliceInv, HomeInv, Shape, BalanceInv, TypeOK
<1> QED BY <1>1, SliceInvHolds, PTL

\* Until Close, active is what the idle items, the hands, the Gets between
\* two connections, the tokens, itemOpener and the lost items add up to.
THEOREM ActiveIsExact == Spec => []ActiveExact
<1>1. SliceInv => ActiveExact
  <2> SUFFICES ASSUME SliceInv, ~closed PROVE
        active = Len(freeItem) + Cardinality(WithConn) + Cardinality(Between)
                   + tokens + (IF opener = "dialing" THEN 1 ELSE 0) + Cardinality(lost)
    BY DEF ActiveExact
  <2>1. WithConn = HandOf(conn) /\ Between = PassOf(pc)
    BY DEF WithConn, Between, HandOf, PassOf
  <2>2. active = Tally
    BY DEF SliceInv, BalanceInv, Balanced
  <2> QED BY <2>1, <2>2 DEF Tally, Idle, InHands, Midway, Opening, Forgotten, With, Passing
<1> QED BY <1>1, SliceInvHolds, PTL

\* Items are as many as the connections they hold, and so are the clients
\* that hold one.
LEMMA ConnsCounted ==
  ASSUME HomeInv
  PROVE  /\ IsFiniteSet(FreeConns) /\ Cardinality(FreeConns) = Len(freeItem)
         /\ IsFiniteSet({conn[p] : p \in WithConn})
         /\ Cardinality({conn[p] : p \in WithConn}) = Cardinality(WithConn)
<1>1. IsFiniteSet(FreeConns) /\ Cardinality(FreeConns) = Len(freeItem)
  <2> DEFINE n == Len(freeItem)
             g == [i \in 1..n |-> freeItem[i].c]
  <2>1. n \in Nat /\ IsFiniteSet(1..n) /\ Cardinality(1..n) = n
    <3>1. n \in Nat
      BY HomeTypes
    <3> HIDE DEF n
    <3>2. 1 \in Int /\ n \in Int
      BY <3>1
    <3>3. IsFiniteSet(1..n) /\ Cardinality(1..n) = IF 1 > n THEN 0 ELSE n - 1 + 1
      BY <3>2, FS_Interval
    <3> QED BY <3>1, <3>3
  <2>2. /\ g \in [1..n -> FreeConns] /\ \A i, j \in 1..n : g[i] = g[j] => i = j
        /\ \A c \in FreeConns : \E i \in 1..n : g[i] = c
    BY HomeTypes DEF FreeConns, Distinct
  <2> HIDE DEF g, n
  <2>3. g \in Bijection(1..n, FreeConns)
    BY <2>2 DEF Bijection, Injection, IsInjective, Surjection
  <2>4. ExistsBijection(1..n, FreeConns)
    BY <2>3 DEF ExistsBijection
  <2> QED BY <2>1, <2>4, FS_Bijection DEF n
<1>2. /\ IsFiniteSet({conn[p] : p \in WithConn})
      /\ Cardinality({conn[p] : p \in WithConn}) = Cardinality(WithConn)
  <2> DEFINE M == {conn[p] : p \in WithConn}
             g == [p \in WithConn |-> conn[p]]
  <2>1. IsFiniteSet(WithConn)
    <3>1. WithConn \in SUBSET Clients
      BY DEF WithConn
    <3> QED BY <3>1, CountsAreNat
  <2>2. \A p, q \in WithConn : conn[p] = conn[q] => p = q
    BY HomeTypes DEF WithConn, Own
  <2>3. /\ g \in [WithConn -> M] /\ \A p, q \in WithConn : g[p] = g[q] => p = q
        /\ \A c \in M : \E p \in WithConn : g[p] = c
    BY <2>2
  <2> HIDE DEF g, M
  <2>4. g \in Bijection(WithConn, M)
    BY <2>3 DEF Bijection, Injection, IsInjective, Surjection
  <2>5. ExistsBijection(WithConn, M)
    BY <2>4 DEF ExistsBijection
  <2> QED BY <2>1, <2>5, FS_Bijection DEF M
<1> QED BY <1>1, <1>2

LEMMA DisjointUnion ==
  ASSUME NEW S, NEW T, IsFiniteSet(S), IsFiniteSet(T), S \intersect T = {}
  PROVE  /\ IsFiniteSet(S \union T) /\ Cardinality(S \union T) = Cardinality(S) + Cardinality(T)
         /\ Cardinality(S) \in Nat /\ Cardinality(T) \in Nat
<1>1. /\ IsFiniteSet(S \union T)
      /\ Cardinality(S \union T) = Cardinality(S) + Cardinality(T) - Cardinality(S \intersect T)
  BY FS_Union
<1>2. Cardinality(S \intersect T) = 0
  BY FS_EmptySet
<1>3. Cardinality(S) \in Nat /\ Cardinality(T) \in Nat
  BY FS_CardinalityType
<1> QED BY <1>1, <1>2, <1>3

\* Every open connection is in exactly one place, and every place holds an
\* open one: none is handed out twice, closed while it is lent, or forgotten
\* anywhere but in the channel of a Get that timed out (slice.go:112-190, 360-386).
THEOREM EachInOneHome == Spec => []OneHome
<1>1. SliceInv => OneHome
  <2> SUFFICES ASSUME SliceInv PROVE OneHome
    OBVIOUS
  <2> DEFINE M == {conn[p] : p \in WithConn}
  <2>1. HomeInv /\ IsFiniteSet(lost) /\ IsFiniteSet(doomed)
    BY DEF SliceInv, BalanceInv, BoundInv
  <2>2. ConnsOf(freeItem) = FreeConns /\ M \subseteq Conns /\ \A c : c \in M <=> \E p \in Clients : c = conn[p] /\ c \in Conns
    BY <2>1, HomeTypes, ConnsAssumption DEF ConnsOf, FreeConns, WithConn
  <2>3. /\ IsFiniteSet(FreeConns) /\ Cardinality(FreeConns) = Len(freeItem)
        /\ IsFiniteSet(M) /\ Cardinality(M) = Cardinality(WithConn)
    BY <2>1, ConnsCounted
  <2> HIDE DEF M
  <2>4. Own(FreeConns, conn, doomed, lost, open)
        /\ FreeConns \in SUBSET Conns /\ doomed \in SUBSET Conns /\ lost \in SUBSET Conns /\ open \in SUBSET Conns
    BY <2>1, <2>2, HomeTypes
  <2>5. open = FreeConns \union M \union doomed \union lost
    BY <2>2, <2>4 DEF Own
  <2>6. /\ FreeConns \intersect M = {} /\ (FreeConns \union M) \intersect doomed = {}
        /\ (FreeConns \union M \union doomed) \intersect lost = {}
    BY <2>2, <2>4 DEF Own
  <2>7. /\ IsFiniteSet(FreeConns \union M)
        /\ Cardinality(FreeConns \union M) = Len(freeItem) + Cardinality(WithConn)
    <3>1. IsFiniteSet(FreeConns) /\ IsFiniteSet(M) /\ FreeConns \intersect M = {}
      BY <2>3, <2>6
    <3>2. /\ IsFiniteSet(FreeConns \union M)
          /\ Cardinality(FreeConns \union M) = Cardinality(FreeConns) + Cardinality(M)
      BY <3>1, DisjointUnion
    <3> QED BY <2>3, <3>2
  <2>8. /\ IsFiniteSet(FreeConns \union M \union doomed)
        /\ Cardinality(FreeConns \union M \union doomed)
             = Len(freeItem) + Cardinality(WithConn) + Cardinality(doomed)
    BY <2>1, <2>6, <2>7, DisjointUnion
  <2>9. Cardinality(open) = Len(freeItem) + Cardinality(WithConn) + Cardinality(doomed) + Cardinality(lost)
    BY <2>1, <2>5, <2>6, <2>8, DisjointUnion
  <2> QED BY <2>5, <2>9 DEF OneHome, M
<1> QED BY <1>1, SliceInvHolds, PTL

\* No Get waits in the map of requests while there is an idle item
\* (slice.go:121-176, 283-303).
THEOREM WaitersSeeNoIdle == Spec => []NoneWaitsByIdle
<1>1. SliceInv => NoneWaitsByIdle
  BY DEF SliceInv, BoundInv
<1> QED BY <1>1, SliceInvHolds, PTL

\* While a request waits the pool is at its limit: a release asks itemOpener
\* for as many items as the requests may have (slice.go:233-258).
THEOREM WaitersFindItFull == Spec => []WaitersMeanFull
<1>1. SliceInv => WaitersMeanFull
  BY DEF SliceInv, BoundInv
<1> QED BY <1>1, SliceInvHolds, PTL

\* openerCh never holds more than Active tokens, so that the send with mu held
\* blocks nobody while Active is below a million (slice.go:75, 250-256).
THEOREM OpenerChWithinActive == Spec => []OpenerChBounded
<1>1. SliceInv => OpenerChBounded
  BY DEF SliceInv, BoundInv
<1> QED BY <1>1, SliceInvHolds, PTL

-----------------------------------------------------------------------------
(* After Close. *)

DrainInv == HomeInv /\ (closed => freeItem = <<>>)

\* Nothing is queued, delivered or opened by a step of a client but the
\* connection of its own dial.
LEMMA ClientShrinks ==
  ASSUME DrainInv, closed, NEW p \in Clients,
         GetStart(p) \/ GetStep(p) \/ CtxDone(p) \/ Put(p)
  PROVE  /\ closed' /\ freeItem' = <<>>
         /\ Claims' \subseteq Claims
         /\ open' \ open \subseteq {conn'[q] : q \in Between}
<1>1. /\ freeItem = <<>> /\ pc \in [Clients -> PCs] /\ conn \in [Clients -> Conns \union {NoConn}]
  BY DEF DrainInv, HomeInv, Shape
<1>2. ~GetStart(p)
  BY DEF GetStart
<1>3. CASE RetryAfterStale(p)
  <2>1. /\ pc[p] = "relock" /\ freeItem' = <<>> /\ UNCHANGED <<closed, conn, open>>
        /\ \E m \in PCs : pc' = [pc EXCEPT ![p] = m]
    BY <1>1, <1>3 DEF RetryAfterStale, GetLoop, PCs, InGet
  <2> QED BY <1>1, <2>1 DEF Claims, WithConn, Between
<1>4. CASE DialAfterStale(p) \/ DialFail(p)
  BY <1>1, <1>4 DEF DialAfterStale, DialFail, Claims, WithConn, Between
<1>5. CASE DialOk(p)
  <2>1. PICK c \in Conns \ open : open' = open \union {c} /\ conn' = [conn EXCEPT ![p] = c]
    BY <1>5 DEF DialOk
  <2>2. p \in Between /\ conn'[p] = c
    BY <1>1, <1>5, <2>1 DEF DialOk, Between
  <2>3. UNCHANGED <<closed, freeItem>> /\ pc' = [pc EXCEPT ![p] = "holding"]
    BY <1>5 DEF DialOk, books
  <2>4. Claims' \subseteq Claims
    BY <1>1, <2>1, <2>2, <2>3 DEF Claims, WithConn, Between
  <2> QED BY <1>1, <2>1, <2>2, <2>3, <2>4
<1>6. CASE CloseStale(p)
  <2>1. conn[p] # NoConn
    BY <1>6, ConnsAssumption DEF CloseStale, DrainInv, HomeInv, Placed
  <2> QED BY <1>1, <1>6, <2>1 DEF CloseStale, books, Claims, WithConn, Between
<1>7. CASE PutClosed(p)
  BY <1>1, <1>7 DEF PutClosed, Claims, WithConn, Between
<1>8. ~PutKept(p)
  BY DEF PutKept, Enqueue, Deliver, Refuses
<1>9. CASE CheckExpired(p) \/ Receive(p) \/ ReceiveClosed(p) \/ TimeoutFires(p) \/ CtxDone(p)
  BY <1>1, <1>9 DEF CheckExpired, Receive, ReceiveClosed, TimeoutFires, CtxDone, books, Claims, WithConn, Between
<1>10. CASE CancelRequest(p)
  BY <1>1, <1>10 DEF CancelRequest, Claims, WithConn, Between
<1> QED BY <1>2, <1>3, <1>4, <1>5, <1>6, <1>7, <1>8, <1>9, <1>10 DEF GetStep, Put

\* Nor by a step of the goroutines: itemOpener has its connection refused.
LEMMA PoolShrinks ==
  ASSUME DrainInv, closed,
         Opener \/ Cleaner \/ Close \/ (\E k \in Configs : Reload(k)) \/ Tick \/ UNCHANGED vars
  PROVE  /\ closed' /\ freeItem' = <<>>
         /\ Claims' \subseteq Claims
         /\ open' \ open \subseteq {conn'[q] : q \in Between}
<1>1. freeItem = <<>>
  BY DEF DrainInv
<1>2. ~OpenKept /\ ~Close
  BY DEF OpenKept, Enqueue, Deliver, Refuses, Close
<1>3. /\ closed' /\ freeItem' = <<>> /\ UNCHANGED <<pc, conn>> /\ open' \subseteq open
  BY <1>1, <1>2 DEF Opener, OpenerTake, OpenerExit, OpenFails, Cleaner, CleanerWake, CleanerClose, Reload, Tick,
     vars, books, calls
<1> QED BY <1>3 DEF Claims, WithConn, Between

\* A closed pool takes nothing back, serves no request, also none registered
\* after Close, and opens nothing but for the Gets that were between two
\* connections (slice.go:108-131, 164-173, 202-227, 424-443).
THEOREM ClosedForGood == Spec => ClosedOnlyShrinks
<1> DEFINE Shrinks == closed => /\ closed' /\ freeItem' = <<>>
                                /\ Claims' \subseteq Claims
                                /\ open' \ open \subseteq {conn'[p] : p \in Between}
<1>1. DrainInv /\ [Next]_vars => Shrinks
  BY ClientShrinks, PoolShrinks DEF Next
<1>2. Init => (closed => freeItem = <<>>)
  BY DEF Init
<1>3. HomeInv /\ (closed => freeItem = <<>>) /\ [Next]_vars => (closed => freeItem = <<>>)'
  <2> SUFFICES ASSUME HomeInv, closed => freeItem = <<>>, [Next]_vars, closed' PROVE freeItem' = <<>>
    OBVIOUS
  <2>1. CASE closed
    BY <1>1, <2>1 DEF DrainInv
  <2>2. CASE ~closed
    <3>1. Close
      <4>1. ASSUME NEW p \in Clients, GetStart(p) \/ GetStep(p) \/ CtxDone(p) \/ Put(p) PROVE closed' = closed
        BY <4>1 DEF GetStart, GetStep, GetLoop, CtxDone, Put, PutKept, PutClosed, CheckExpired, Receive,
           ReceiveClosed, TimeoutFires, CancelRequest, CloseStale, RetryAfterStale, DialAfterStale, DialOk, DialFail
      <4>2. ASSUME Opener \/ Cleaner \/ (\E k \in Configs : Reload(k)) \/ Tick \/ UNCHANGED vars PROVE closed' = closed
        BY <4>2 DEF Opener, OpenerTake, OpenerExit, OpenKept, OpenFails, Cleaner, CleanerWake, CleanerClose,
           Reload, Tick, vars
      <4> QED BY <2>2, <4>1, <4>2 DEF Next
    <3> QED BY <3>1 DEF Close
  <2> QED BY <2>1, <2>2
<1>4. SliceInv => HomeInv
  BY DEF SliceInv
<1>5. Spec => [](HomeInv /\ (closed => freeItem = <<>>))
  BY <1>2, <1>3, <1>4, SliceInvHolds, PTL DEF Spec
<1>6. HomeInv /\ (closed => freeItem = <<>>) /\ [Next]_vars => [Shrinks]_vars
  BY <1>1 DEF DrainInv
<1> QED BY <1>5, <1>6, PTL DEF Spec, ClosedOnlyShrinks

=============================================================================
