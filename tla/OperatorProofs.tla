----------------------------- MODULE OperatorProofs -----------------------------
(***************************************************************************)
(* Proofs about the operators the state machines are built from: induction *)
(* over numbers and sequences; what QueuePolicy and StateImage select from *)
(* queues and collections; and the identifiers of Identifiers, which are   *)
(* what they stand for: different chats, deliveries and outputs have       *)
(* different ones, whatever their names hold, and a derived identifier is  *)
(* one that a file is read back with.                                      *)
(***************************************************************************)
EXTENDS StateImage, Identifiers, SequenceTheorems, FiniteSetTheorems, TLAPS

-----------------------------------------------------------------------------
(* Induction, stated of sets: the numbers and the sequences that have a    *)
(* property are all of them.                                               *)
LEMMA NatInduct ==
  ASSUME NEW T, 0 \in T, \A n \in Nat : n \in T => n + 1 \in T
  PROVE  Nat \subseteq T
<1>1. SUFFICES ASSUME NEW n \in Nat, n \notin T PROVE FALSE
  OBVIOUS
<1> DEFINE Initial == {0..k : k \in {j \in Nat : j \notin T}}
<1>2. Initial # {} /\ Initial \subseteq FiniteSubsetsOf(Nat)
  <2>1. \A k \in Nat : 0..k \in SUBSET Nat /\ IsFiniteSet(0..k)
    BY FS_Interval
  <2> QED
    BY <1>1, <2>1 DEF FiniteSubsetsOf
<1>3. PICK w \in Initial : \A v \in Initial : ~(<<v, w>> \in StrictSubsetOrdering(Nat))
  <2> HIDE DEF Initial
  <2> QED
    BY <1>2, FS_StrictSubsetOrderingWellFounded, WFMin
<1>4. PICK k \in Nat : k \notin T /\ w = 0..k
  BY <1>3
<1>5. k - 1 \in Nat /\ k - 1 \notin T
  BY <1>4
<1>6. <<0..(k - 1), 0..k>> \in StrictSubsetOrdering(Nat)
  <2>1. 0..(k - 1) \in SUBSET Nat /\ 0..k \in SUBSET Nat /\ 0..(k - 1) \subseteq 0..k
    BY <1>5
  <2>2. k \in 0..k /\ k \notin 0..(k - 1)
    BY <1>5
  <2> QED
    BY <2>1, <2>2 DEF StrictSubsetOrdering
<1> QED
  BY <1>3, <1>4, <1>5, <1>6

LEMMA SeqInduct ==
  ASSUME NEW X, NEW T, <<>> \in T,
         \A s \in Seq(X), x \in X : s \in T => Append(s, x) \in T
  PROVE  Seq(X) \subseteq T
<1> DEFINE Lengths == {n \in Nat : \A s \in Seq(X) : Len(s) = n => s \in T}
<1>1. 0 \in Lengths
  <2>1. \A s \in Seq(X) : Len(s) = 0 => s = <<>>
    BY EmptySeq
  <2> QED
    BY <2>1
<1>2. ASSUME NEW n \in Nat, n \in Lengths PROVE n + 1 \in Lengths
  <2>1. SUFFICES ASSUME NEW s \in Seq(X), Len(s) = n + 1 PROVE s \in T
    OBVIOUS
  <2>2. s # <<>>
    BY <2>1, EmptySeq
  <2>3. PICK front \in Seq(X), x \in X : s = Append(front, x)
    BY <2>2, SequenceEmptyOrAppend
  <2>4. Len(front) = n
    BY <2>1, <2>3, AppendProperties, LenProperties
  <2> QED
    BY <1>2, <2>3, <2>4
<1>3. Nat \subseteq Lengths
  <2> HIDE DEF Lengths
  <2> QED
    BY <1>1, <1>2, NatInduct
<1> QED
  BY <1>3, LenProperties

-----------------------------------------------------------------------------
(* The least and the greatest of some numbers.                             *)
LEMMA MinIsLeast ==
  ASSUME NEW S \in SUBSET Nat, S # {}
  PROVE  Min(S) \in S /\ \A y \in S : Min(S) <= y
<1> DEFINE T == {n \in Nat : \A k \in 0..n : k \in S => \E x \in S : \A y \in S : x <= y}
<1>1. 0 \in T
  OBVIOUS
<1>2. ASSUME NEW n \in Nat, n \in T PROVE n + 1 \in T
  <2>1. CASE \E k \in 0..n : k \in S
    BY <1>2, <2>1
  <2>2. CASE ~\E k \in 0..n : k \in S
    <3>1. \A y \in S : n + 1 <= y
      BY <2>2
    <3>2. \A k \in 0..(n + 1) : k \in S => k = n + 1
      BY <2>2
    <3> QED
      BY <3>1, <3>2
  <2> QED
    BY <2>1, <2>2
<1>3. Nat \subseteq T
  <2> HIDE DEF T
  <2> QED
    BY <1>1, <1>2, NatInduct
<1>4. \E x \in S : \A y \in S : x <= y
  <2>1. PICK k \in S : TRUE
    OBVIOUS
  <2>2. k \in T /\ k \in 0..k
    BY <1>3
  <2> QED
    BY <2>2
<1> QED
  BY <1>4 DEF Min

LEMMA MaxIsGreatest ==
  ASSUME NEW S \in SUBSET Nat, S # {}, IsFiniteSet(S)
  PROVE  Max(S) \in S /\ \A y \in S : y <= Max(S)
<1> DEFINE Bound(A) == \E x \in A : \A y \in A : y <= x
           T == {n \in Nat : \A A \in SUBSET Nat :
                   IsFiniteSet(A) /\ Cardinality(A) = n + 1 => Bound(A)}
<1>1. 0 \in T
  <2>1. SUFFICES ASSUME NEW A \in SUBSET Nat, IsFiniteSet(A), Cardinality(A) = 1 PROVE Bound(A)
    OBVIOUS
  <2>2. PICK x : A = {x}
    BY <2>1, FS_Singleton
  <2> QED
    BY <2>2
<1>2. ASSUME NEW n \in Nat, n \in T PROVE n + 1 \in T
  <2>1. SUFFICES ASSUME NEW A \in SUBSET Nat, IsFiniteSet(A), Cardinality(A) = n + 2
                 PROVE  Bound(A)
    OBVIOUS
  <2>2. PICK x \in A : TRUE
    <3>1. Cardinality(A) # 0
      BY <2>1
    <3> QED
      BY <2>1, <3>1, FS_EmptySet
  <2>3. IsFiniteSet(A \ {x}) /\ Cardinality(A \ {x}) = n + 1
    BY <2>1, <2>2, FS_RemoveElement
  <2>4. PICK y \in A \ {x} : \A z \in A \ {x} : z <= y
    BY <1>2, <2>3
  <2>5. CASE x <= y
    BY <2>4, <2>5
  <2>6. CASE ~(x <= y)
    BY <2>2, <2>4, <2>6
  <2> QED
    BY <2>5, <2>6
<1>3. Nat \subseteq T
  <2> HIDE DEF T
  <2> QED
    BY <1>1, <1>2, NatInduct
<1>4. Bound(S)
  <2>1. Cardinality(S) \in Nat \ {0}
    BY FS_CardinalityType, FS_EmptySet
  <2>2. Cardinality(S) - 1 \in T
    BY <1>3, <2>1
  <2> QED
    BY <2>1, <2>2
<1>5. \E x \in S : \A y \in S : x >= y
  BY <1>4
<1> QED
  BY <1>5 DEF Max

LEMMA MaxIs ==
  ASSUME NEW S \in SUBSET Nat, NEW x \in S, \A y \in S : y <= x
  PROVE  Max(S) = x
<1>1. PICK m : m = Max(S)
  OBVIOUS
<1>2. m \in S /\ m >= x
  BY <1>1 DEF Max
<1>3. m <= x /\ m \in Nat /\ x \in Nat
  BY <1>2
<1> QED
  BY <1>1, <1>2, <1>3

(* The times of finitely many records.                                     *)
LEMMA TimesAre ==
  ASSUME NEW T, IsFiniteSet(T), NEW g \in [T -> Nat]
  PROVE  {g[x] : x \in T} \in SUBSET Nat /\ IsFiniteSet({g[x] : x \in T})
<1>1. g \in Surjection(T, {g[x] : x \in T})
  BY DEF Surjection
<1>2. IsFiniteSet({g[x] : x \in T})
  BY <1>1, FS_Surjection
<1> QED
  BY <1>2

LEMMA LatestIs ==
  ASSUME NEW u \in Nat, NEW S \in SUBSET Nat, IsFiniteSet(S)
  PROVE  /\ Max({u} \cup S) \in Nat /\ Max({u} \cup S) \in {u} \cup S
         /\ \A y \in {u} \cup S : y <= Max({u} \cup S)
<1> DEFINE all == {u} \cup S
<1>1. all \in SUBSET Nat /\ all # {}
  OBVIOUS
<1>2. IsFiniteSet(all)
  BY FS_Singleton, FS_Union
<1> HIDE DEF all
<1>3. Max(all) \in all /\ \A y \in all : y <= Max(all)
  BY <1>1, <1>2, MaxIsGreatest
<1>4. Max(all) \in Nat
  BY <1>1, <1>3
<1> QED
  BY <1>3, <1>4 DEF all

-----------------------------------------------------------------------------
(* Functions defined by recursion over the positions of a sequence.        *)
Scans(n, V, a, next) ==
  {f \in [0..n -> V] : f[0] = a /\ \A i \in 1..n : f[i] = next[<<i, f[i - 1]>>]}

LEMMA ScanExists ==
  ASSUME NEW n \in Nat, NEW V, NEW a \in V, NEW next \in [(1..n) \X V -> V]
  PROVE  Scans(n, V, a, next) # {}
<1> DEFINE IsScan(f, k) == f[0] = a /\ \A i \in 1..k : f[i] = next[<<i, f[i - 1]>>]
           T == {k \in Nat : k <= n => \E f \in [0..k -> V] : IsScan(f, k)}
<1>1. 0 \in T
  <2> DEFINE f == [i \in 0..0 |-> a]
  <2>1. f \in [0..0 -> V] /\ IsScan(f, 0)
    OBVIOUS
  <2> QED
    BY <2>1
<1>2. ASSUME NEW k \in Nat, k \in T PROVE k + 1 \in T
  <2>1. SUFFICES ASSUME k + 1 <= n PROVE \E f \in [0..(k + 1) -> V] : IsScan(f, k + 1)
    OBVIOUS
  <2>2. PICK f \in [0..k -> V] : IsScan(f, k)
    BY <1>2, <2>1
  <2> DEFINE g == [i \in 0..(k + 1) |-> IF i = k + 1 THEN next[<<k + 1, f[k]>>] ELSE f[i]]
  <2>3. next[<<k + 1, f[k]>>] \in V
    BY <2>1
  <2>4. g \in [0..(k + 1) -> V] /\ g[k + 1] = next[<<k + 1, f[k]>>] /\ \A i \in 0..k : g[i] = f[i]
    BY <2>3
  <2> HIDE DEF g
  <2>5. ASSUME NEW i \in 1..(k + 1) PROVE g[i] = next[<<i, g[i - 1]>>]
    <3>1. CASE i = k + 1
      <4>1. i - 1 = k /\ k \in 0..k /\ g[k] = f[k]
        BY <2>4, <3>1
      <4> QED
        BY <2>4, <3>1, <4>1
    <3>2. CASE i \in 1..k
      <4>1. g[i] = f[i] /\ g[i - 1] = f[i - 1]
        BY <2>4, <3>2
      <4> QED
        BY <2>2, <3>2, <4>1
    <3> QED
      BY <3>1, <3>2
  <2>6. g[0] = a
    BY <2>2, <2>4
  <2> QED
    BY <2>4, <2>5, <2>6
<1>3. Nat \subseteq T
  <2> HIDE DEF T
  <2> QED
    BY <1>1, <1>2, NatInduct
<1>4. n \in T /\ n <= n
  BY <1>3
<1> QED
  BY <1>4 DEF Scans

LEMMA ScanType ==
  ASSUME NEW n \in Nat, NEW V, NEW f, f[0] \in V,
         \A i \in 1..n : f[i - 1] \in V => f[i] \in V
  PROVE  \A i \in 0..n : f[i] \in V
<1> DEFINE T == {k \in Nat : k <= n => f[k] \in V}
<1>1. 0 \in T
  OBVIOUS
<1>2. ASSUME NEW k \in Nat, k \in T PROVE k + 1 \in T
  <2>1. SUFFICES ASSUME k + 1 <= n PROVE f[k + 1] \in V
    OBVIOUS
  <2>2. f[(k + 1) - 1] \in V /\ k + 1 \in 1..n
    BY <1>2, <2>1
  <2> QED
    BY <2>2
<1>3. Nat \subseteq T
  <2> HIDE DEF T
  <2> QED
    BY <1>1, <1>2, NatInduct
<1> QED
  BY <1>3

SameSteps(f, g, n) ==
  f[0] = g[0] /\ \A i \in 1..n : f[i - 1] = g[i - 1] => f[i] = g[i]

LEMMA ScanUnique ==
  ASSUME NEW n \in Nat, NEW f, NEW g, SameSteps(f, g, n)
  PROVE  \A i \in 0..n : f[i] = g[i]
<1>0. f[0] = g[0] /\ \A i \in 1..n : f[i - 1] = g[i - 1] => f[i] = g[i]
  BY DEF SameSteps
<1> DEFINE T == {k \in Nat : k <= n => f[k] = g[k]}
<1>1. 0 \in T
  BY <1>0
<1>2. ASSUME NEW k \in Nat, k \in T PROVE k + 1 \in T
  <2>1. SUFFICES ASSUME k + 1 <= n PROVE f[k + 1] = g[k + 1]
    OBVIOUS
  <2>2. f[(k + 1) - 1] = g[(k + 1) - 1] /\ k + 1 \in 1..n
    BY <1>2, <2>1
  <2> QED
    BY <1>0, <2>2
<1>3. Nat \subseteq T
  <2> HIDE DEF T
  <2> QED
    BY <1>1, <1>2, NatInduct
<1> QED
  BY <1>3

-----------------------------------------------------------------------------
(* Select and MessagesOf, by the elements they are given.                  *)
SelectsUpTo(f, X, seq, S) ==
  /\ f \in [0..Len(seq) -> Seq(X)]
  /\ f[0] = <<>>
  /\ \A i \in 1..Len(seq) :
       f[i] = IF seq[i] \in S THEN Append(f[i - 1], seq[i]) ELSE f[i - 1]
  /\ Select(seq, S) = f[Len(seq)]

LEMMA SelectScan ==
  ASSUME NEW X, NEW seq \in Seq(X), NEW S
  PROVE  \E f : SelectsUpTo(f, X, seq, S)
<1>1. PICK n \in Nat : n = Len(seq) /\ \A i \in 1..n : seq[i] \in X
  BY LenProperties, ElementOfSeq
<1> DEFINE V == Seq(X)
<1> DEFINE Step(f, i) == IF seq[i] \in S THEN Append(f[i - 1], seq[i]) ELSE f[i - 1]
           IsUpTo(f) == f = [i \in 0..n |-> IF i = 0 THEN <<>> ELSE Step(f, i)]
<1>2. PICK next : next = [p \in (1..n) \X V |->
                      IF seq[p[1]] \in S THEN Append(p[2], seq[p[1]]) ELSE p[2]]
  OBVIOUS
<1>3. next \in [(1..n) \X V -> V]
  BY <1>1, <1>2, AppendProperties
<1>4. PICK f \in [0..n -> V] : f[0] = <<>> /\ \A i \in 1..n : f[i] = next[<<i, f[i - 1]>>]
  <2>1. PICK none \in V : none = <<>>
    BY EmptySeq
  <2> HIDE DEF V
  <2>2. Scans(n, V, none, next) # {}
    BY <1>3, ScanExists
  <2> QED
    BY <2>1, <2>2 DEF Scans
<1>5. \A i \in 1..n : f[i] = Step(f, i)
  <2>1. \A i \in 1..n : f[i - 1] \in V
    OBVIOUS
  <2> QED
    BY <1>2, <1>4, <2>1
<1>6. IsUpTo(f)
  <2> HIDE DEF Step
  <2>1. \A i \in 0..n : i # 0 => i \in 1..n
    OBVIOUS
  <2>2. \A i \in 0..n : f[i] = IF i = 0 THEN <<>> ELSE Step(f, i)
    BY <1>4, <1>5, <2>1
  <2> QED
    BY <2>2
<1>7. PICK g : g = CHOOSE h : IsUpTo(h)
  OBVIOUS
<1>8. IsUpTo(g)
  BY <1>6, <1>7
<1>9. Select(seq, S) = g[n]
  BY <1>1, <1>7 DEF Select
<1>10. g[0] = <<>> /\ \A i \in 1..n : g[i] = Step(g, i)
  <2> HIDE DEF Step
  <2>1. \A i \in 1..n : i \in 0..n /\ i # 0
    OBVIOUS
  <2>2. \A i \in 0..n : g[i] = IF i = 0 THEN <<>> ELSE Step(g, i)
    BY <1>8
  <2> QED
    BY <2>1, <2>2
<1>11. \A i \in 0..n : g[i] = f[i]
  <2>1. SameSteps(f, g, n)
    BY <1>4, <1>5, <1>10 DEF SameSteps
  <2> HIDE DEF Step, IsUpTo, V
  <2> QED
    BY <2>1, ScanUnique
<1>12. Select(seq, S) = f[n]
  BY <1>9, <1>11
<1> QED
  BY <1>1, <1>4, <1>5, <1>12 DEF SelectsUpTo

LEMMA SelectEmpty ==
  ASSUME NEW S
  PROVE  Select(<<>>, S) = <<>>
<1>1. <<>> \in Seq({}) /\ Len(<<>>) = 0
  BY EmptySeq
<1>2. PICK f : SelectsUpTo(f, {}, <<>>, S)
  BY <1>1, SelectScan
<1> QED
  BY <1>1, <1>2 DEF SelectsUpTo

LEMMA SelectAppend ==
  ASSUME NEW X, NEW seq \in Seq(X), NEW x \in X, NEW S
  PROVE  Select(Append(seq, x), S) =
           IF x \in S THEN Append(Select(seq, S), x) ELSE Select(seq, S)
<1>1. PICK longer \in Seq(X) : longer = Append(seq, x)
  BY AppendProperties
<1>2. PICK n \in Nat : n = Len(seq)
  BY LenProperties
<1>3. Len(longer) = n + 1 /\ longer[n + 1] = x /\ \A i \in 1..n : longer[i] = seq[i]
  BY <1>1, <1>2, AppendProperties
<1>4. PICK f : SelectsUpTo(f, X, seq, S)
  BY SelectScan
<1>5. PICK g : SelectsUpTo(g, X, longer, S)
  BY SelectScan
<1>6. \A i \in 0..n : f[i] = g[i]
  <2>1. SameSteps(f, g, n)
    BY <1>2, <1>3, <1>4, <1>5 DEF SelectsUpTo, SameSteps
  <2> QED
    BY <2>1, ScanUnique
<1>7. g[n + 1] = IF x \in S THEN Append(g[n], x) ELSE g[n]
  <2>1. n + 1 \in 1..(n + 1) /\ (n + 1) - 1 = n
    OBVIOUS
  <2> QED
    BY <1>3, <1>5, <2>1 DEF SelectsUpTo
<1>8. g[n + 1] = Select(longer, S) /\ f[n] = Select(seq, S) /\ f[n] = g[n]
  BY <1>2, <1>3, <1>4, <1>5, <1>6 DEF SelectsUpTo
<1> QED
  BY <1>1, <1>7, <1>8

LEMMA MessagesAreSelected ==
  ASSUME NEW X, NEW queue \in Seq(X), NEW s
  PROVE  MessagesOf(queue, s) = Select(queue, {m \in X : m.session = s})
<1> DEFINE n == Len(queue)
           S == {m \in X : m.session = s}
           A(f, i) == IF queue[i].session = s THEN Append(f[i - 1], queue[i]) ELSE f[i - 1]
           B(f, i) == IF queue[i] \in S THEN Append(f[i - 1], queue[i]) ELSE f[i - 1]
           ByField(f) == [i \in 0..n |-> IF i = 0 THEN <<>> ELSE A(f, i)]
           BySet(f) == [i \in 0..n |-> IF i = 0 THEN <<>> ELSE B(f, i)]
<1>1. ASSUME NEW f PROVE ByField(f) = BySet(f)
  <2>1. \A i \in 0..n : i # 0 => queue[i] \in X
    BY LenProperties, ElementOfSeq
  <2>2. \A i \in 0..n : i # 0 => A(f, i) = B(f, i)
    BY <2>1
  <2> HIDE DEF A, B, n
  <2> QED
    BY <2>2
<1>2. (CHOOSE f : f = ByField(f)) = (CHOOSE f : f = BySet(f))
  <2> HIDE DEF ByField, BySet
  <2> QED
    BY <1>1
<1>3. MessagesOf(queue, s) = (CHOOSE f : f = ByField(f))[n]
  BY DEF MessagesOf
<1>4. Select(queue, S) = (CHOOSE f : f = BySet(f))[n]
  BY DEF Select
<1> QED
  BY <1>2, <1>3, <1>4

-----------------------------------------------------------------------------
(* The elements of a sequence.                                             *)
LEMMA ElementsEmpty ==
  /\ ToSet(<<>>) = {}
  /\ \A X : \A s \in Seq(X) : ToSet(s) = {} => s = <<>>
<1>1. ToSet(<<>>) = {}
  BY DEF ToSet
<1>2. ASSUME NEW X, NEW s \in Seq(X), ToSet(s) = {} PROVE s = <<>>
  <2>1. DOMAIN s = 1..Len(s) /\ Len(s) \in Nat
    BY LenProperties
  <2>2. ~(1 \in DOMAIN s)
    BY <1>2 DEF ToSet
  <2>3. Len(s) = 0
    BY <2>1, <2>2
  <2> QED
    BY <2>3, EmptySeq
<1> QED
  BY <1>1, <1>2

LEMMA ElementsType ==
  ASSUME NEW X, NEW s \in Seq(X)
  PROVE  ToSet(s) \subseteq X /\ s \in Seq(ToSet(s)) /\ IsFiniteSet(ToSet(s))
<1>1. DOMAIN s = 1..Len(s) /\ Len(s) \in Nat /\ s \in [1..Len(s) -> X]
  BY LenProperties
<1>2. ToSet(s) = Range(s)
  BY DEF ToSet, Range
<1>3. ToSet(s) \subseteq X /\ s \in Seq(ToSet(s))
  BY <1>2, RangeOfSeq, SeqOfRange
<1>4. IsFiniteSet(ToSet(s))
  <2>1. s \in [1..Len(s) -> ToSet(s)] /\ \A y \in ToSet(s) : \E i \in 1..Len(s) : s[i] = y
    BY <1>1 DEF ToSet
  <2>2. s \in Surjection(1..Len(s), ToSet(s))
    BY <2>1 DEF Surjection
  <2>3. IsFiniteSet(1..Len(s))
    BY <1>1, FS_Interval
  <2> QED
    BY <2>2, <2>3, FS_Surjection
<1> QED
  BY <1>3, <1>4

LEMMA PositionsAppend ==
  ASSUME NEW X, NEW s \in Seq(X), NEW x \in X
  PROVE  /\ Append(s, x) \in Seq(X)
         /\ Len(s) \in Nat /\ DOMAIN s = 1..Len(s)
         /\ DOMAIN Append(s, x) = 1..(Len(s) + 1)
         /\ Append(s, x)[Len(s) + 1] = x
         /\ \A i \in 1..Len(s) : Append(s, x)[i] = s[i]
<1>1. PICK t \in Seq(X) : t = Append(s, x)
  BY AppendProperties
<1>2. DOMAIN t = 1..Len(t) /\ Len(t) = Len(s) + 1
  BY <1>1, LenProperties, AppendProperties
<1> QED
  BY <1>1, <1>2, AppendProperties, LenProperties

LEMMA ElementsAppend ==
  ASSUME NEW X, NEW s \in Seq(X), NEW x \in X
  PROVE  ToSet(Append(s, x)) = ToSet(s) \cup {x}
<1>1. PICK t \in Seq(X) : t = Append(s, x)
  BY AppendProperties
<1>2. PICK n \in Nat : n = Len(s) /\ DOMAIN s = 1..n /\ DOMAIN t = 1..(n + 1)
  BY <1>1, LenProperties, AppendProperties
<1>3. t[n + 1] = x /\ \A i \in 1..n : t[i] = s[i]
  BY <1>1, <1>2, AppendProperties
<1>4. n + 1 \in 1..(n + 1) /\ \A i \in 1..(n + 1) : i \in 1..n \/ i = n + 1
  BY <1>2
<1> QED
  BY <1>1, <1>2, <1>3, <1>4 DEF ToSet

LEMMA ElementsConcat ==
  ASSUME NEW X, NEW s \in Seq(X), NEW t \in Seq(X)
  PROVE  ToSet(s \o t) = ToSet(s) \cup ToSet(t)
<1>1. ToSet(s) = Range(s) /\ ToSet(t) = Range(t) /\ ToSet(s \o t) = Range(s \o t)
  BY DEF ToSet, Range
<1> QED
  BY <1>1, RangeConcatenation

LEMMA AppendConcat ==
  ASSUME NEW X, NEW s \in Seq(X), NEW t \in Seq(X), NEW x \in X
  PROVE  s \o Append(t, x) = Append(s \o t, x)
<1>1. <<x>> \in Seq(X) /\ s \o t \in Seq(X)
  BY ConcatProperties
<1>2. Append(t, x) = t \o <<x>> /\ Append(s \o t, x) = (s \o t) \o <<x>>
  BY <1>1, AppendIsConcat
<1> QED
  BY <1>1, <1>2, ConcatAssociative

-----------------------------------------------------------------------------
(* What Select selects.                                                    *)
LEMMA SelectType ==
  ASSUME NEW X, NEW seq \in Seq(X), NEW S
  PROVE  Select(seq, S) \in Seq(X) /\ ToSet(Select(seq, S)) = ToSet(seq) \cap S
<1> DEFINE T == {q \in Seq(X) : Select(q, S) \in Seq(X)
                                  /\ ToSet(Select(q, S)) = ToSet(q) \cap S}
<1>1. <<>> \in T
  BY SelectEmpty, ElementsEmpty, EmptySeq
<1>2. ASSUME NEW q \in Seq(X), NEW x \in X, q \in T PROVE Append(q, x) \in T
  <2>1. Append(q, x) \in Seq(X) /\ ToSet(Append(q, x)) = ToSet(q) \cup {x}
    BY AppendProperties, ElementsAppend
  <2>2. PICK p \in Seq(X) : p = Select(q, S) /\ ToSet(p) = ToSet(q) \cap S
    BY <1>2
  <2>3. CASE x \in S
    <3>1. Select(Append(q, x), S) = Append(p, x)
      BY <2>2, <2>3, SelectAppend
    <3>2. Append(p, x) \in Seq(X) /\ ToSet(Append(p, x)) = ToSet(p) \cup {x}
      BY AppendProperties, ElementsAppend
    <3> QED
      BY <2>1, <2>2, <2>3, <3>1, <3>2
  <2>4. CASE x \notin S
    <3>1. Select(Append(q, x), S) = p
      BY <2>2, <2>4, SelectAppend
    <3> QED
      BY <2>1, <2>2, <2>4, <3>1
  <2> QED
    BY <2>3, <2>4
<1>3. Seq(X) \subseteq T
  <2> HIDE DEF T
  <2> QED
    BY <1>1, <1>2, SeqInduct
<1> QED
  BY <1>3

LEMMA SelectConcat ==
  ASSUME NEW X, NEW p \in Seq(X), NEW q \in Seq(X), NEW S
  PROVE  Select(p \o q, S) = Select(p, S) \o Select(q, S)
<1> DEFINE T == {r \in Seq(X) : Select(p \o r, S) = Select(p, S) \o Select(r, S)}
<1>1. <<>> \in T
  BY SelectEmpty, SelectType, ConcatEmptySeq, EmptySeq
<1>2. ASSUME NEW r \in Seq(X), NEW x \in X, r \in T PROVE Append(r, x) \in T
  <2>1. PICK pr \in Seq(X) : pr = p \o r
    BY ConcatProperties
  <2>2. Append(r, x) \in Seq(X) /\ p \o Append(r, x) = Append(pr, x)
    BY <2>1, AppendProperties, AppendConcat
  <2>3. PICK ps \in Seq(X), rs \in Seq(X) : ps = Select(p, S) /\ rs = Select(r, S)
    BY SelectType
  <2>4. Select(pr, S) = ps \o rs
    BY <1>2, <2>1, <2>3
  <2>5. Select(Append(pr, x), S) =
          IF x \in S THEN Append(Select(pr, S), x) ELSE Select(pr, S)
    BY SelectAppend
  <2>6. Select(Append(r, x), S) = IF x \in S THEN Append(Select(r, S), x) ELSE Select(r, S)
    BY SelectAppend
  <2>7. ps \o Append(rs, x) = Append(ps \o rs, x)
    BY AppendConcat
  <2> QED
    BY <2>2, <2>3, <2>4, <2>5, <2>6, <2>7
<1>3. Seq(X) \subseteq T
  <2> HIDE DEF T
  <2> QED
    BY <1>1, <1>2, SeqInduct
<1> QED
  BY <1>3

LEMMA SelectAgain ==
  ASSUME NEW X, NEW seq \in Seq(X), NEW A, NEW B
  PROVE  Select(Select(seq, A), B) = Select(seq, A \cap B)
<1> DEFINE T == {q \in Seq(X) : Select(Select(q, A), B) = Select(q, A \cap B)}
<1>1. <<>> \in T
  BY SelectEmpty, EmptySeq
<1>2. ASSUME NEW q \in Seq(X), NEW x \in X, q \in T PROVE Append(q, x) \in T
  <2>1. PICK qa \in Seq(X) : qa = Select(q, A) /\ Append(q, x) \in Seq(X)
    BY AppendProperties, SelectType
  <2>2. Select(qa, B) = Select(q, A \cap B)
    BY <1>2, <2>1
  <2>3. Select(Append(q, x), A) = IF x \in A THEN Append(qa, x) ELSE qa
    BY <2>1, SelectAppend
  <2>4. Select(Append(q, x), A \cap B) =
          IF x \in A \cap B THEN Append(Select(qa, B), x) ELSE Select(qa, B)
    BY <2>2, SelectAppend
  <2>5. Select(Append(qa, x), B) = IF x \in B THEN Append(Select(qa, B), x) ELSE Select(qa, B)
    BY SelectAppend
  <2> QED
    BY <2>1, <2>3, <2>4, <2>5
<1>3. Seq(X) \subseteq T
  <2> HIDE DEF T
  <2> QED
    BY <1>1, <1>2, SeqInduct
<1> QED
  BY <1>3

(* Only the elements that occur matter.                                    *)
LEMMA SelectSame ==
  ASSUME NEW X, NEW seq \in Seq(X), NEW A, NEW B, ToSet(seq) \cap A = ToSet(seq) \cap B
  PROVE  Select(seq, A) = Select(seq, B)
<1> DEFINE Y == ToSet(seq)
           T == {q \in Seq(Y) : Select(q, A) = Select(q, B)}
<1>1. <<>> \in T
  BY SelectEmpty, EmptySeq
<1>2. ASSUME NEW q \in Seq(Y), NEW x \in Y, q \in T PROVE Append(q, x) \in T
  <2>1. x \in A <=> x \in B
    OBVIOUS
  <2>2. Append(q, x) \in Seq(Y)
    BY AppendProperties
  <2>3. Select(Append(q, x), A) = IF x \in A THEN Append(Select(q, A), x) ELSE Select(q, A)
    BY SelectAppend
  <2>4. Select(Append(q, x), B) = IF x \in B THEN Append(Select(q, B), x) ELSE Select(q, B)
    BY SelectAppend
  <2> QED
    BY <1>2, <2>1, <2>2, <2>3, <2>4
<1>3. Seq(Y) \subseteq T
  <2> HIDE DEF T, Y
  <2> QED
    BY <1>1, <1>2, SeqInduct
<1>4. seq \in Seq(Y)
  BY ElementsType
<1> QED
  BY <1>3, <1>4

LEMMA SelectAll ==
  ASSUME NEW X, NEW seq \in Seq(X), NEW S, ToSet(seq) \subseteq S
  PROVE  Select(seq, S) = seq
<1> DEFINE Y == ToSet(seq)
           T == {q \in Seq(Y) : Select(q, S) = q}
<1>1. <<>> \in T
  BY SelectEmpty, EmptySeq
<1>2. ASSUME NEW q \in Seq(Y), NEW x \in Y, q \in T PROVE Append(q, x) \in T
  BY <1>2, SelectAppend, AppendProperties
<1>3. Seq(Y) \subseteq T
  <2> HIDE DEF T, Y
  <2> QED
    BY <1>1, <1>2, SeqInduct
<1>4. seq \in Seq(Y)
  BY ElementsType
<1> QED
  BY <1>3, <1>4

LEMMA SelectNone ==
  ASSUME NEW X, NEW seq \in Seq(X), NEW S, ToSet(seq) \cap S = {}
  PROVE  Select(seq, S) = <<>>
BY SelectType, ElementsEmpty

(* ... and the order in which it does.                                     *)
Embeds(g, a, b) ==
  /\ g \in [DOMAIN a -> DOMAIN b]
  /\ \A i \in DOMAIN a : a[i] = b[g[i]]
  /\ \A i, j \in DOMAIN a : i < j => g[i] < g[j]

LEMMA SelectOrder ==
  ASSUME NEW X, NEW seq \in Seq(X), NEW S
  PROVE  \E g : Embeds(g, Select(seq, S), seq)
<1> DEFINE T == {q \in Seq(X) : \E g : Embeds(g, Select(q, S), q)}
<1>1. <<>> \in T
  <2>1. Embeds(<<>>, <<>>, <<>>)
    BY DEF Embeds
  <2> QED
    BY <2>1, SelectEmpty, EmptySeq
<1>2. ASSUME NEW q \in Seq(X), NEW x \in X, q \in T PROVE Append(q, x) \in T
  <2>0. PICK p \in Seq(X) : p = Select(q, S)
    BY SelectType
  <2>1. PICK g : p = Select(q, S) /\ Embeds(g, p, q)
    BY <1>2, <2>0
  <2>2. PICK n \in Nat, k \in Nat :
          n = Len(q) /\ k = Len(p) /\ DOMAIN q = 1..n /\ DOMAIN p = 1..k
    BY LenProperties
  <2>3. PICK r \in Seq(X) : r = Append(q, x) /\ DOMAIN r = 1..(n + 1) /\ r[n + 1] = x
                              /\ \A i \in 1..n : r[i] = q[i]
    <3>1. PICK r : r = Append(q, x)
      OBVIOUS
    <3>2. r \in Seq(X) /\ DOMAIN r = 1..(n + 1) /\ r[n + 1] = x /\ \A i \in 1..n : r[i] = q[i]
      BY <2>2, <3>1, PositionsAppend
    <3> QED
      BY <3>1, <3>2
  <2>4. g \in [1..k -> 1..n] /\ \A i \in 1..k : p[i] = q[g[i]]
    BY <2>1, <2>2 DEF Embeds
  <2>5. \A i, j \in 1..k : i < j => g[i] < g[j]
    BY <2>1, <2>2 DEF Embeds
  <2>6. CASE x \in S
    <3>1. PICK o \in Seq(X) : o = Append(p, x) /\ DOMAIN o = 1..(k + 1) /\ o[k + 1] = x
                                /\ \A i \in 1..k : o[i] = p[i]
      <4>1. PICK o : o = Append(p, x)
        OBVIOUS
      <4>2. o \in Seq(X) /\ DOMAIN o = 1..(k + 1) /\ o[k + 1] = x /\ \A i \in 1..k : o[i] = p[i]
        BY <2>2, <4>1, PositionsAppend
      <4> QED
        BY <4>1, <4>2
    <3>2. PICK h : h = [i \in 1..(k + 1) |-> IF i = k + 1 THEN n + 1 ELSE g[i]]
      OBVIOUS
    <3>3. h[k + 1] = n + 1 /\ \A i \in 1..k : h[i] = g[i] /\ h[i] \in 1..n
      BY <2>4, <3>2
    <3>4. \A i \in 1..(k + 1) : i \in 1..k \/ i = k + 1
      OBVIOUS
    <3>5. h \in [1..(k + 1) -> 1..(n + 1)]
      <4>1. \A i \in 1..(k + 1) : h[i] \in 1..(n + 1)
        BY <3>3, <3>4
      <4> QED
        BY <3>2, <4>1
    <3>6. \A i \in 1..(k + 1) : o[i] = r[h[i]]
      BY <2>3, <2>4, <3>1, <3>3, <3>4
    <3>7. \A i, j \in 1..(k + 1) : i < j => h[i] < h[j]
      <4>1. SUFFICES ASSUME NEW i \in 1..(k + 1), NEW j \in 1..(k + 1), i < j PROVE h[i] < h[j]
        OBVIOUS
      <4>2. i \in 1..k
        BY <4>1
      <4>3. CASE j \in 1..k
        BY <2>5, <3>3, <4>1, <4>2, <4>3
      <4>4. CASE j = k + 1
        BY <3>3, <4>2, <4>4
      <4> QED
        BY <3>4, <4>3, <4>4
    <3>8. Embeds(h, o, r)
      BY <2>3, <3>1, <3>5, <3>6, <3>7 DEF Embeds
    <3>9. Select(r, S) = o
      BY <2>1, <2>3, <2>6, <3>1, SelectAppend
    <3> QED
      BY <2>3, <3>8, <3>9
  <2>7. CASE x \notin S
    <3>1. Embeds(g, p, r)
      BY <2>2, <2>3, <2>4, <2>5 DEF Embeds
    <3>2. Select(r, S) = p
      BY <2>1, <2>3, <2>7, SelectAppend
    <3> QED
      BY <2>3, <3>1, <3>2
  <2> QED
    BY <2>6, <2>7
<1>3. Seq(X) \subseteq T
  <2> HIDE DEF T
  <2> QED
    BY <1>1, <1>2, SeqInduct
<1> QED
  BY <1>3

LEMMA SelectInjective ==
  ASSUME NEW X, NEW seq \in Seq(X), NEW S, IsInjective(seq)
  PROVE  IsInjective(Select(seq, S))
<1>1. PICK p, g : p = Select(seq, S) /\ Embeds(g, p, seq)
  BY SelectOrder
<1>2. DOMAIN p \subseteq Nat
  BY <1>1, SelectType, LenProperties
<1>3. \A i, j \in DOMAIN p : i # j => g[i] # g[j]
  <2>1. DOMAIN seq \subseteq Nat
    BY LenProperties
  <2> QED
    BY <1>1, <1>2, <2>1 DEF Embeds
<1> QED
  BY <1>1, <1>3 DEF Embeds, IsInjective

-----------------------------------------------------------------------------
(* The messages of a session.                                              *)
LEMMA MessagesType ==
  ASSUME NEW X, NEW queue \in Seq(X), NEW s
  PROVE  /\ MessagesOf(queue, s) \in Seq(X)
         /\ ToSet(MessagesOf(queue, s)) = {m \in ToSet(queue) : m.session = s}
<1> DEFINE S == {x \in X : x.session = s}
<1>1. MessagesOf(queue, s) = Select(queue, S)
  BY MessagesAreSelected
<1>2. Select(queue, S) \in Seq(X) /\ ToSet(Select(queue, S)) = ToSet(queue) \cap S
  BY SelectType
<1>3. ToSet(queue) \subseteq X
  BY ElementsType
<1> QED
  BY <1>1, <1>2, <1>3

LEMMA MessagesAppend ==
  ASSUME NEW X, NEW queue \in Seq(X), NEW m \in X, NEW s
  PROVE  MessagesOf(Append(queue, m), s) =
           IF m.session = s THEN Append(MessagesOf(queue, s), m) ELSE MessagesOf(queue, s)
<1> DEFINE S == {x \in X : x.session = s}
<1>1. Append(queue, m) \in Seq(X)
  BY AppendProperties
<1>2. Select(Append(queue, m), S) = IF m \in S THEN Append(Select(queue, S), m) ELSE Select(queue, S)
  BY SelectAppend
<1>3. MessagesOf(Append(queue, m), s) = Select(Append(queue, m), S)
  BY <1>1, MessagesAreSelected
<1>4. MessagesOf(queue, s) = Select(queue, S)
  BY MessagesAreSelected
<1> QED
  BY <1>2, <1>3, <1>4

LEMMA MessagesConcat ==
  ASSUME NEW X, NEW p \in Seq(X), NEW q \in Seq(X), NEW s
  PROVE  MessagesOf(p \o q, s) = MessagesOf(p, s) \o MessagesOf(q, s)
<1> DEFINE S == {x \in X : x.session = s}
<1>1. p \o q \in Seq(X)
  BY ConcatProperties
<1>2. MessagesOf(p \o q, s) = Select(p \o q, S)
  BY <1>1, MessagesAreSelected
<1>3. MessagesOf(p, s) = Select(p, S) /\ MessagesOf(q, s) = Select(q, S)
  BY MessagesAreSelected
<1>4. Select(p \o q, S) = Select(p, S) \o Select(q, S)
  BY SelectConcat
<1> HIDE DEF S
<1> QED
  BY <1>2, <1>3, <1>4

(* Those of a queue without some of them, and of those alone.              *)
LEMMA MessagesSplit ==
  ASSUME NEW X, NEW queue \in Seq(X), NEW B, NEW s
  PROVE  MessagesOf(Select(queue, B), s) = Select(MessagesOf(queue, s), B)
<1> DEFINE S == {x \in X : x.session = s}
<1>1. Select(queue, B) \in Seq(X)
  BY SelectType
<1>2. MessagesOf(Select(queue, B), s) = Select(Select(queue, B), S)
  BY <1>1, MessagesAreSelected
<1>3. Select(Select(queue, B), S) = Select(queue, B \cap S)
  BY SelectAgain
<1>4. Select(Select(queue, S), B) = Select(queue, S \cap B)
  BY SelectAgain
<1>5. B \cap S = S \cap B
  OBVIOUS
<1>6. MessagesOf(queue, s) = Select(queue, S)
  BY MessagesAreSelected
<1> HIDE DEF S
<1> QED
  BY <1>2, <1>3, <1>4, <1>5, <1>6

-----------------------------------------------------------------------------
(* FlattenSeq (of the community modules).                                  *)
FlattensUpTo(g, X, ss) ==
  /\ g \in [0..Len(ss) -> Seq(X)]
  /\ g[0] = <<>>
  /\ \A i \in 1..Len(ss) : g[i] = g[i - 1] \o ss[i]
  /\ FlattenSeq(ss) = g[Len(ss)]

LEMMA FlattenScan ==
  ASSUME NEW X, NEW ss \in Seq(Seq(X))
  PROVE  \E g : FlattensUpTo(g, X, ss)
<1>1. PICK n \in Nat : n = Len(ss) /\ \A i \in 1..n : ss[i] \in Seq(X)
  BY LenProperties, ElementOfSeq
<1> DEFINE V == Seq(X)
           IsFlatten(f) == f = [i \in 1..n |-> IF i = 1 THEN ss[i] ELSE f[i - 1] \o ss[i]]
<1>2. PICK next : next = [p \in (1..n) \X V |-> p[2] \o ss[p[1]]]
  OBVIOUS
<1>3. next \in [(1..n) \X V -> V]
  BY <1>1, <1>2, ConcatProperties
<1>4. PICK g \in [0..n -> V] : g[0] = <<>> /\ \A i \in 1..n : g[i] = next[<<i, g[i - 1]>>]
  <2>1. PICK none \in V : none = <<>>
    BY EmptySeq
  <2> HIDE DEF V
  <2>2. Scans(n, V, none, next) # {}
    BY <1>3, ScanExists
  <2> QED
    BY <2>1, <2>2 DEF Scans
<1>5. \A i \in 1..n : g[i] = g[i - 1] \o ss[i]
  <2>1. \A i \in 1..n : g[i - 1] \in V
    OBVIOUS
  <2> QED
    BY <1>2, <1>4, <2>1
<1>6. CASE n = 0
  <2>1. FlattenSeq(ss) = ss /\ ss = <<>>
    BY <1>1, <1>6, EmptySeq DEF FlattenSeq
  <2> QED
    BY <1>1, <1>4, <1>5, <1>6, <2>1 DEF FlattensUpTo
<1>7. CASE n # 0
  <2>1. g[1] = ss[1]
    <3>1. 1 \in 1..n /\ 1 - 1 = 0
      BY <1>7
    <3>2. g[1] = g[1 - 1] \o ss[1]
      BY <1>5, <3>1
    <3>3. ss[1] \in Seq(X) /\ g[0] = <<>>
      BY <1>1, <1>4, <3>1
    <3>4. <<>> \o ss[1] = ss[1]
      BY <3>3, ConcatEmptySeq
    <3> QED
      BY <3>1, <3>2, <3>3, <3>4
  <2>2. PICK f : f = [i \in 1..n |-> g[i]]
    OBVIOUS
  <2>3. IsFlatten(f)
    <3>1. \A i \in 1..n : f[i] = IF i = 1 THEN ss[i] ELSE f[i - 1] \o ss[i]
      <4>1. \A i \in 1..n : i = 1 \/ i - 1 \in 1..n
        OBVIOUS
      <4> QED
        BY <1>5, <2>1, <2>2, <4>1
    <3> QED
      BY <2>2, <3>1
  <2>4. PICK h : h = CHOOSE k : IsFlatten(k)
    OBVIOUS
  <2>5. IsFlatten(h)
    BY <2>3, <2>4
  <2>6. FlattenSeq(ss) = h[n]
    BY <1>1, <1>7, <2>4 DEF FlattenSeq
  <2>7. \A i \in 1..n : h[i] = IF i = 1 THEN ss[i] ELSE h[i - 1] \o ss[i]
    BY <2>5
  <2>8. PICK k : k = [i \in 0..n |-> IF i = 0 THEN <<>> ELSE h[i]]
    OBVIOUS
  <2>9. \A i \in 0..n : g[i] = k[i]
    <3>1. g[0] = k[0]
      BY <1>4, <2>8
    <3>2. ASSUME NEW i \in 1..n, g[i - 1] = k[i - 1] PROVE g[i] = k[i]
      <4>1. k[i] = h[i] /\ i \in 1..n
        BY <2>8
      <4>2. CASE i = 1
        BY <2>1, <2>7, <4>1, <4>2
      <4>3. CASE i # 1
        <5>1. i - 1 \in 1..n /\ i - 1 \in 0..n /\ i - 1 # 0
          BY <4>3
        <5>2. k[i - 1] = h[i - 1]
          BY <2>8, <5>1
        <5>3. h[i] = h[i - 1] \o ss[i]
          BY <2>7, <4>3
        <5>4. g[i] = g[i - 1] \o ss[i]
          BY <1>5
        <5> QED
          BY <3>2, <4>1, <5>2, <5>3, <5>4
      <4> QED
        BY <4>2, <4>3
    <3>3. SameSteps(g, k, n)
      BY <3>1, <3>2 DEF SameSteps
    <3> HIDE DEF V, IsFlatten
    <3> QED
      BY <3>3, ScanUnique
  <2>10. FlattenSeq(ss) = g[n]
    BY <1>7, <2>6, <2>8, <2>9
  <2> QED
    BY <1>1, <1>4, <1>5, <2>10 DEF FlattensUpTo
<1> QED
  BY <1>6, <1>7

LEMMA FlattenEmpty ==
  FlattenSeq(<<>>) = <<>>
BY DEF FlattenSeq

LEMMA FlattenAppend ==
  ASSUME NEW X, NEW ss \in Seq(Seq(X)), NEW t \in Seq(X)
  PROVE  FlattenSeq(Append(ss, t)) = FlattenSeq(ss) \o t /\ FlattenSeq(ss) \in Seq(X)
<1>1. PICK longer : longer = Append(ss, t)
  OBVIOUS
<1>2. PICK n \in Nat : n = Len(ss)
  BY LenProperties
<1>3. longer \in Seq(Seq(X)) /\ Len(longer) = n + 1
  BY <1>1, <1>2, AppendProperties
<1>4. longer[n + 1] = t /\ \A i \in 1..n : longer[i] = ss[i]
  BY <1>1, <1>2, AppendProperties
<1>5. PICK f : FlattensUpTo(f, X, ss)
  BY FlattenScan
<1>6. PICK g : FlattensUpTo(g, X, longer)
  BY <1>3, FlattenScan
<1>7. /\ f \in [0..n -> Seq(X)] /\ f[0] = <<>>
      /\ \A i \in 1..n : f[i] = f[i - 1] \o ss[i]
      /\ FlattenSeq(ss) = f[n]
  BY <1>2, <1>5 DEF FlattensUpTo
<1>8. /\ g[0] = <<>>
      /\ \A i \in 1..(n + 1) : g[i] = g[i - 1] \o longer[i]
      /\ FlattenSeq(longer) = g[n + 1]
  BY <1>3, <1>6 DEF FlattensUpTo
<1>9. \A i \in 0..n : f[i] = g[i]
  <2>1. f[0] = g[0]
    BY <1>7, <1>8
  <2>2. ASSUME NEW i \in 1..n, f[i - 1] = g[i - 1] PROVE f[i] = g[i]
    <3>1. i \in 1..(n + 1) /\ longer[i] = ss[i]
      BY <1>4
    <3> QED
      BY <1>7, <1>8, <2>2, <3>1
  <2>3. SameSteps(f, g, n)
    BY <2>1, <2>2 DEF SameSteps
  <2> QED
    BY <2>3, ScanUnique
<1>10. g[n + 1] = g[n] \o t
  <2>1. n + 1 \in 1..(n + 1) /\ (n + 1) - 1 = n
    OBVIOUS
  <2>2. g[n + 1] = g[(n + 1) - 1] \o longer[n + 1]
    BY <1>8, <2>1
  <2> QED
    BY <1>4, <2>1, <2>2
<1>11. f[n] = g[n] /\ f[n] \in Seq(X)
  BY <1>7, <1>9
<1> QED
  BY <1>1, <1>7, <1>8, <1>10, <1>11

LEMMA FlattenElements ==
  ASSUME NEW X, NEW ss \in Seq(Seq(X))
  PROVE  FlattenSeq(ss) \in Seq(X) /\ ToSet(FlattenSeq(ss)) = UNION {ToSet(t) : t \in ToSet(ss)}
<1> DEFINE Y == Seq(X)
           T == {us \in Seq(Y) : /\ FlattenSeq(us) \in Y
                                 /\ ToSet(FlattenSeq(us)) = UNION {ToSet(t) : t \in ToSet(us)}}
<1>1. <<>> \in T
  BY FlattenEmpty, ElementsEmpty, EmptySeq
<1>2. ASSUME NEW us \in Seq(Y), NEW t \in Y, us \in T PROVE Append(us, t) \in T
  <2>1. PICK f, l : /\ f = FlattenSeq(us) /\ l = Append(us, t)
    OBVIOUS
  <2>2. f \in Seq(X) /\ ToSet(f) = UNION {ToSet(u) : u \in ToSet(us)}
    BY <1>2, <2>1
  <2>3. FlattenSeq(l) = f \o t /\ l \in Seq(Y)
    BY <2>1, FlattenAppend, AppendProperties
  <2>4. ToSet(l) = ToSet(us) \cup {t}
    BY <2>1, ElementsAppend
  <2>5. ToSet(f \o t) = ToSet(f) \cup ToSet(t) /\ f \o t \in Seq(X)
    BY <2>2, ElementsConcat, ConcatProperties
  <2> QED
    BY <2>1, <2>2, <2>3, <2>4, <2>5
<1>3. Seq(Y) \subseteq T
  <2> HIDE DEF T, Y
  <2> QED
    BY <1>1, <1>2, SeqInduct
<1> QED
  BY <1>3

-----------------------------------------------------------------------------
(* SetToSeq (of the community modules).                                    *)
LEMMA ListsAll ==
  ASSUME NEW S, IsFiniteSet(S)
  PROVE  SetToSeq(S) \in Seq(S) /\ IsInjective(SetToSeq(S)) /\ ToSet(SetToSeq(S)) = S
<1>1. PICK n \in Nat : n = Cardinality(S) /\ ExistsBijection(1..n, S)
  BY FS_CardinalityType
<1>2. \E f \in [1..n -> S] : IsInjective(f)
  BY <1>1 DEF ExistsBijection, Bijection, Injection
<1>3. PICK f \in [1..n -> S] : f = SetToSeq(S) /\ IsInjective(f)
  <2>1. PICK f : f = SetToSeq(S)
    OBVIOUS
  <2>2. f \in [1..n -> S] /\ IsInjective(f)
    BY <1>1, <1>2, <2>1 DEF SetToSeq
  <2> QED
    BY <2>1, <2>2
<1>4. f \in Seq(S)
  BY SeqDef
<1>5. IsFiniteSet(1..n) /\ Cardinality(1..n) = n
  BY FS_Interval
<1>6. f \in Injection(1..n, S)
  BY <1>3 DEF Injection
<1>7. f \in Surjection(1..n, S)
  BY <1>1, <1>5, <1>6, FS_Injection
<1>8. ToSet(f) = S
  BY <1>7 DEF Surjection, ToSet
<1> QED
  BY <1>3, <1>4, <1>8

LEMMA ListsNone ==
  SetToSeq({}) = <<>>
<1>1. SetToSeq({}) \in Seq({}) /\ ToSet(SetToSeq({})) = {}
  BY ListsAll, FS_EmptySet
<1> QED
  BY <1>1, ElementsEmpty

LEMMA ListsOne ==
  ASSUME NEW x
  PROVE  SetToSeq({x}) = <<x>>
<1>1. PICK s : s = SetToSeq({x})
  OBVIOUS
<1>2. s \in Seq({x}) /\ IsInjective(s) /\ ToSet(s) = {x}
  BY <1>1, ListsAll, FS_Singleton
<1>3. PICK n \in Nat : n = Len(s) /\ DOMAIN s = 1..n /\ \A i \in 1..n : s[i] = x
  BY <1>2, LenProperties, ElementOfSeq
<1>4. n = 1
  <2>1. n # 0
    BY <1>2, <1>3 DEF ToSet
  <2>2. ~(n > 1)
    BY <1>2, <1>3 DEF IsInjective
  <2> QED
    BY <2>1, <2>2
<1>5. <<x>> \in Seq({x}) /\ Len(<<x>>) = 1 /\ <<x>>[1] = x
  OBVIOUS
<1> QED
  BY <1>1, <1>2, <1>3, <1>4, <1>5, SeqEqual

-----------------------------------------------------------------------------
(* What claiming the first n messages of a session does to the queue: they *)
(* and those that stay make up what the session had, and no other session  *)
(* loses a message.                                                        *)
LEMMA PrefixSplit ==
  ASSUME NEW X, NEW messages \in Seq(X), NEW n \in Nat
  PROVE  \E rest \in Seq(X) : /\ Prefix(messages, n) \in Seq(X)
                              /\ messages = Prefix(messages, n) \o rest
<1>1. PICK len \in Nat, k \in Nat :
        len = Len(messages) /\ k <= len /\ k = IF Len(messages) < n THEN Len(messages) ELSE n
  BY LenProperties
<1>2. \A i \in 1..len : messages[i] \in X
  BY <1>1, ElementOfSeq
<1>3. PICK p, r : p = SubSeq(messages, 1, k) /\ r = SubSeq(messages, k + 1, len)
  OBVIOUS
<1>4. p \in Seq(X) /\ r \in Seq(X)
  <2>1. \A i \in 1..k : messages[i] \in X
    BY <1>1, <1>2
  <2>2. \A i \in (k + 1)..len : messages[i] \in X
    BY <1>1, <1>2
  <2>3. SubSeq(messages, 1, k) \in Seq(X)
    BY <2>1, SubSeqProperties
  <2>4. SubSeq(messages, k + 1, len) \in Seq(X)
    BY <2>2, SubSeqProperties
  <2> QED
    BY <1>3, <2>3, <2>4
<1>5. p \o r = SubSeq(messages, 1, len)
  <2>1. 1 \in 1..(len + 1) /\ k \in (1 - 1)..len /\ len \in k..len
    BY <1>1
  <2>2. SubSeq(messages, 1, k) \o SubSeq(messages, k + 1, len) = SubSeq(messages, 1, len)
    BY <1>1, <2>1, ConcatAdjacentSubSeq
  <2> QED
    BY <1>3, <2>2
<1>6. SubSeq(messages, 1, len) = messages
  BY <1>1, SubSeqFull
<1>7. p = Prefix(messages, n)
  BY <1>1, <1>3 DEF Prefix
<1> QED
  BY <1>4, <1>5, <1>6, <1>7

LEMMA SelectSecond ==
  ASSUME NEW X, NEW p \in Seq(X), NEW r \in Seq(X), NEW S,
         ToSet(p) \cap S = {}, ToSet(r) \subseteq S
  PROVE  Select(p \o r, S) = r
<1>1. Select(p \o r, S) = Select(p, S) \o Select(r, S)
  BY SelectConcat
<1>2. Select(p, S) = <<>>
  BY SelectNone
<1>3. Select(r, S) = r
  BY SelectAll
<1>4. <<>> \o r = r
  BY ConcatEmptySeq
<1> QED
  BY <1>1, <1>2, <1>3, <1>4

LEMMA DisjointParts ==
  ASSUME NEW X, NEW p \in Seq(X), NEW r \in Seq(X), IsInjective(p \o r)
  PROVE  ToSet(p) \cap ToSet(r) = {}
<1>1. PICK m \in Nat, n \in Nat :
        /\ m = Len(p) /\ n = Len(r) /\ DOMAIN p = 1..m /\ DOMAIN r = 1..n
  BY LenProperties
<1>2. PICK o : o = p \o r /\ o \in Seq(X) /\ Len(o) = m + n /\ DOMAIN o = 1..(m + n)
  <2>1. PICK o : o = p \o r
    OBVIOUS
  <2>2. o \in Seq(X) /\ Len(o) = m + n
    BY <1>1, <2>1, ConcatProperties
  <2> QED
    BY <2>1, <2>2, LenProperties
<1>3. \A i \in 1..(m + n) : o[i] = IF i <= m THEN p[i] ELSE r[i - m]
  BY <1>1, <1>2, ConcatProperties
<1>4. SUFFICES ASSUME NEW i \in 1..m, NEW j \in 1..n, p[i] = r[j] PROVE FALSE
  BY <1>1 DEF ToSet
<1>5. o[i] = p[i] /\ i \in 1..(m + n)
  BY <1>3
<1>6. o[m + j] = r[j] /\ m + j \in 1..(m + n)
  <2>1. m + j \in 1..(m + n) /\ ~(m + j <= m) /\ (m + j) - m = j
    OBVIOUS
  <2> QED
    BY <1>3, <2>1
<1>7. i # m + j
  OBVIOUS
<1> QED
  BY <1>2, <1>4, <1>5, <1>6, <1>7 DEF IsInjective

SplitsOff(X, queue, s, taken, kept) ==
  /\ taken \in Seq(X) /\ kept \in Seq(X)
  /\ \A m \in ToSet(taken) : m \in ToSet(queue) /\ m.session = s
  /\ MessagesOf(queue, s) = taken \o MessagesOf(kept, s)
  /\ \A t : t # s => MessagesOf(kept, t) = MessagesOf(queue, t)

LEMMA TakesItsFirst ==
  ASSUME NEW X, NEW queue \in Seq(X), IsInjective(queue), NEW s, NEW n \in Nat,
         NEW taken, taken = Prefix(MessagesOf(queue, s), n),
         NEW kept, kept = Select(queue, ToSet(queue) \ ToSet(taken))
  PROVE  SplitsOff(X, queue, s, taken, kept)
<1>1. PICK mine : mine = MessagesOf(queue, s)
  OBVIOUS
<1>2. mine \in Seq(X) /\ ToSet(mine) = {m \in ToSet(queue) : m.session = s}
  BY <1>1, MessagesType
<1>3. PICK rest \in Seq(X) : taken \in Seq(X) /\ mine = taken \o rest
  <2>1. PICK rest \in Seq(X) : Prefix(mine, n) \in Seq(X) /\ mine = Prefix(mine, n) \o rest
    BY <1>2, PrefixSplit
  <2> QED
    BY <1>1, <2>1
<1>4. PICK rests : rests = ToSet(queue) \ ToSet(taken)
  OBVIOUS
<1>5. kept = Select(queue, rests)
  BY <1>4
<1>6. kept \in Seq(X)
  BY <1>5, SelectType
<1>7. ToSet(mine) = ToSet(taken) \cup ToSet(rest)
  BY <1>3, ElementsConcat
<1>8. ToSet(taken) \cap ToSet(rest) = {}
  <2>1. IsInjective(mine)
    <3>1. mine = Select(queue, {m \in X : m.session = s})
      BY <1>1, MessagesAreSelected
    <3> QED
      BY <3>1, SelectInjective
  <2> QED
    BY <1>3, <2>1, DisjointParts
<1>9. MessagesOf(kept, s) = rest
  <2>1. MessagesOf(kept, s) = Select(mine, rests)
    BY <1>1, <1>5, MessagesSplit
  <2>2. ToSet(taken) \cap rests = {} /\ ToSet(rest) \subseteq rests
    BY <1>2, <1>4, <1>7, <1>8
  <2>3. Select(taken \o rest, rests) = rest
    BY <1>3, <2>2, SelectSecond
  <2> QED
    BY <1>3, <2>1, <2>3
<1>10. ASSUME NEW t, t # s PROVE MessagesOf(kept, t) = MessagesOf(queue, t)
  <2>1. PICK others : others = MessagesOf(queue, t)
    OBVIOUS
  <2>2. others \in Seq(X) /\ ToSet(others) = {m \in ToSet(queue) : m.session = t}
    BY <2>1, MessagesType
  <2>3. MessagesOf(kept, t) = Select(others, rests)
    BY <1>5, <2>1, MessagesSplit
  <2>4. ToSet(others) \subseteq rests
    BY <1>2, <1>4, <1>7, <1>10, <2>2
  <2> QED
    BY <2>1, <2>2, <2>3, <2>4, SelectAll
<1>11. \A m \in ToSet(taken) : m \in ToSet(queue) /\ m.session = s
  BY <1>2, <1>7
<1> QED
  BY <1>1, <1>3, <1>6, <1>9, <1>10, <1>11 DEF SplitsOff

-----------------------------------------------------------------------------
(* Images.                                                                 *)
LEMMA PositionOf ==
  ASSUME NEW img, NEW id, Has(img.ledger, id)
  PROVE  Position(img, id) \in DOMAIN img.ledger /\ img.ledger[Position(img, id)].id = id
BY DEF Has, Position

LEMMA PositionIs ==
  ASSUME NEW img, DistinctIds(img.ledger), NEW i \in DOMAIN img.ledger
  PROVE  Position(img, img.ledger[i].id) = i
BY DEF DistinctIds, Position

LEMMA LargerIs ==
  ASSUME NEW a \in Nat, NEW b \in Nat
  PROVE  Larger(a, b) \in Nat /\ Larger(a, b) \in {a, b} /\ Larger(a, b) >= a /\ Larger(a, b) >= b
BY DEF Larger

LEMMA DistinctIdsAppend ==
  ASSUME NEW X, NEW records \in Seq(X), NEW x \in X, DistinctIds(records), ~Has(records, x.id)
  PROVE  DistinctIds(Append(records, x)) /\ \A id : Has(records, id) => Has(Append(records, x), id)
<1>1. PICK n, l :
        /\ n \in Nat /\ l = Append(records, x) /\ DOMAIN records = 1..n /\ DOMAIN l = 1..(n + 1)
        /\ l[n + 1] = x /\ \A i \in 1..n : l[i] = records[i]
  <2>1. PICK l : l = Append(records, x)
    OBVIOUS
  <2>2. /\ Len(records) \in Nat /\ DOMAIN records = 1..Len(records)
        /\ DOMAIN l = 1..(Len(records) + 1)
        /\ l[Len(records) + 1] = x /\ \A i \in 1..Len(records) : l[i] = records[i]
    BY <2>1, PositionsAppend
  <2> QED
    BY <2>1, <2>2
<1>2. \A i \in 1..n : records[i].id # x.id
  BY <1>1 DEF Has
<1>3. ASSUME NEW i \in 1..(n + 1), NEW j \in 1..(n + 1), l[i].id = l[j].id PROVE i = j
  <2>1. CASE i \in 1..n /\ j \in 1..n
    BY <1>1, <1>3, <2>1 DEF DistinctIds
  <2>2. CASE i = n + 1 /\ j \in 1..n
    BY <1>1, <1>2, <1>3, <2>2
  <2>3. CASE i \in 1..n /\ j = n + 1
    BY <1>1, <1>2, <1>3, <2>3
  <2>4. CASE i = n + 1 /\ j = n + 1
    BY <2>4
  <2> QED
    BY <1>1, <2>1, <2>2, <2>3, <2>4
<1>4. \A id : Has(records, id) => Has(l, id)
  BY <1>1 DEF Has
<1> QED
  BY <1>1, <1>3, <1>4 DEF DistinctIds

LEMMA DistinctIsInjective ==
  ASSUME NEW records, DistinctIds(records)
  PROVE  IsInjective(records)
BY DEF DistinctIds, IsInjective

LEMMA SameClaims ==
  ASSUME NEW img, NEW new, new.inputs = img.inputs, new.queue = img.queue, ClaimedOnce(img)
  PROVE  ClaimedOnce(new)
<1>1. Claimed(new) = Claimed(img)
  BY DEF Claimed
<1> QED
  BY <1>1 DEF ClaimedOnce

-----------------------------------------------------------------------------
(* Who has what: the messages of a session, claimed and waiting.           *)

(* The records of the inputs hold messages, and these have times.          *)
Carries(I, M) == (\A x \in I : x.messages \in Seq(M)) /\ \A m \in M : m.enqueued \in Nat

BatchesOf(inputs) == [i \in DOMAIN inputs |-> inputs[i].messages]

Taken(img) == FlattenSeq(BatchesOf(img.inputs))

SameOwners(img, new) == \A s : OwnershipOf(new, s) = OwnershipOf(img, s)

LEMMA BatchesListed ==
  ASSUME NEW I, NEW M, Carries(I, M),
         NEW inputs \in Seq(I)
  PROVE  /\ BatchesOf(inputs) \in Seq(Seq(M))
         /\ ToSet(BatchesOf(inputs)) = {inputs[i].messages : i \in DOMAIN inputs}
<1>1. PICK n \in Nat : n = Len(inputs) /\ DOMAIN inputs = 1..n
  BY LenProperties
<1>2. \A i \in 1..n : inputs[i].messages \in Seq(M)
  <2>1. \A i \in 1..n : inputs[i] \in I
    BY <1>1, ElementOfSeq
  <2> QED
    BY <2>1 DEF Carries
<1>3. BatchesOf(inputs) \in [1..n -> Seq(M)]
  BY <1>1, <1>2 DEF BatchesOf
<1> QED
  BY <1>1, <1>3, SeqDef DEF BatchesOf, ToSet

LEMMA BatchesGrow ==
  ASSUME NEW I, NEW M, Carries(I, M),
         NEW inputs \in Seq(I), NEW input \in I
  PROVE  BatchesOf(Append(inputs, input)) = Append(BatchesOf(inputs), input.messages)
<1>1. PICK n \in Nat : n = Len(inputs) /\ DOMAIN inputs = 1..n
  BY LenProperties
<1>2. PICK longer : longer = Append(inputs, input)
  OBVIOUS
<1>3. /\ longer \in Seq(I) /\ DOMAIN longer = 1..(n + 1)
      /\ longer[n + 1] = input /\ \A i \in 1..n : longer[i] = inputs[i]
  BY <1>1, <1>2, PositionsAppend
<1>4. BatchesOf(inputs) \in Seq(Seq(M)) /\ BatchesOf(longer) \in Seq(Seq(M))
  BY <1>3, BatchesListed
<1>5. input.messages \in Seq(M)
  BY DEF Carries
<1>6. PICK b : b = Append(BatchesOf(inputs), input.messages)
  OBVIOUS
<1>7. DOMAIN BatchesOf(inputs) = 1..n /\ DOMAIN BatchesOf(longer) = 1..(n + 1)
  BY <1>1, <1>3 DEF BatchesOf
<1>8. Len(BatchesOf(inputs)) = n /\ Len(BatchesOf(longer)) = n + 1
  BY <1>4, <1>7, LenProperties
<1>9. /\ b \in Seq(Seq(M)) /\ DOMAIN b = 1..(n + 1)
      /\ b[n + 1] = input.messages /\ \A i \in 1..n : b[i] = BatchesOf(inputs)[i]
  BY <1>4, <1>5, <1>6, <1>8, PositionsAppend
<1>10. Len(b) = n + 1
  BY <1>9, LenProperties
<1>11. \A i \in 1..(n + 1) : b[i] = BatchesOf(longer)[i]
  <2>1. ASSUME NEW i \in 1..(n + 1) PROVE b[i] = BatchesOf(longer)[i]
    <3>1. CASE i = n + 1
      BY <1>3, <1>9, <3>1 DEF BatchesOf
    <3>2. CASE i \in 1..n
      BY <1>1, <1>3, <1>9, <3>2 DEF BatchesOf
    <3> QED
      BY <3>1, <3>2
  <2> QED
    BY <2>1
<1> QED
  BY <1>2, <1>4, <1>6, <1>8, <1>9, <1>10, <1>11, SeqEqual

LEMMA TakenListed ==
  ASSUME NEW I, NEW M, Carries(I, M),
         NEW img, img.inputs \in Seq(I)
  PROVE  Taken(img) \in Seq(M) /\ ToSet(Taken(img)) = Claimed(img)
<1>1. PICK b : b = BatchesOf(img.inputs)
  OBVIOUS
<1>2. b \in Seq(Seq(M)) /\ ToSet(b) = {img.inputs[i].messages : i \in DOMAIN img.inputs}
  BY <1>1, BatchesListed
<1>3. FlattenSeq(b) \in Seq(M) /\ ToSet(FlattenSeq(b)) = UNION {ToSet(t) : t \in ToSet(b)}
  BY <1>2, FlattenElements
<1> QED
  BY <1>1, <1>2, <1>3 DEF Taken, Claimed

LEMMA OwnershipListed ==
  ASSUME NEW I, NEW M, Carries(I, M),
         NEW img, img.inputs \in Seq(I), img.queue \in Seq(M), NEW s
  PROVE  /\ MessagesOf(Taken(img), s) \in Seq(M)
         /\ MessagesOf(img.queue, s) \in Seq(M)
         /\ OwnershipOf(img, s) \in Seq(M)
         /\ OwnershipOf(img, s) = MessagesOf(Taken(img), s) \o MessagesOf(img.queue, s)
         /\ ToSet(OwnershipOf(img, s)) =
              {m \in ToSet(img.queue) \cup Claimed(img) : m.session = s}
<1>1. PICK t, q : t = Taken(img) /\ q = img.queue
  OBVIOUS
<1>2. t \in Seq(M) /\ ToSet(t) = Claimed(img) /\ q \in Seq(M)
  BY <1>1, TakenListed
<1>3. OwnershipOf(img, s) = MessagesOf(t \o q, s)
  BY <1>1 DEF OwnershipOf, Taken, BatchesOf
<1>4. t \o q \in Seq(M) /\ ToSet(t \o q) = ToSet(t) \cup ToSet(q)
  BY <1>2, ConcatProperties, ElementsConcat
<1>5. MessagesOf(t \o q, s) = MessagesOf(t, s) \o MessagesOf(q, s)
  BY <1>2, MessagesConcat
<1>6. /\ MessagesOf(t \o q, s) \in Seq(M)
      /\ ToSet(MessagesOf(t \o q, s)) = {m \in ToSet(t \o q) : m.session = s}
  <2>1. PICK o : o = t \o q
    OBVIOUS
  <2>2. o \in Seq(M)
    BY <1>4, <2>1
  <2>3. /\ MessagesOf(o, s) \in Seq(M)
        /\ ToSet(MessagesOf(o, s)) = {m \in ToSet(o) : m.session = s}
    BY <2>2, MessagesType
  <2> QED
    BY <2>1, <2>3
<1>7. MessagesOf(t, s) \in Seq(M) /\ MessagesOf(q, s) \in Seq(M)
  BY <1>2, MessagesType
<1> QED
  BY <1>1, <1>2, <1>3, <1>4, <1>5, <1>6, <1>7

LEMMA OwnershipSplit ==
  ASSUME NEW I, NEW M, Carries(I, M),
         NEW img, img.inputs \in Seq(I), img.queue \in Seq(M), NEW s
  PROVE  OwnershipOf(img, s) = MessagesOf(Taken(img), s) \o MessagesOf(img.queue, s)
BY OwnershipListed

(* A message that joins the queue comes last of its session.               *)
LEMMA OwnershipGrows ==
  ASSUME NEW I, NEW M, Carries(I, M),
         NEW img, img.inputs \in Seq(I), img.queue \in Seq(M),
         NEW new, new.inputs = img.inputs, NEW m \in M,
         new.queue = Append(img.queue, m), NEW s
  PROVE  OwnershipOf(new, s) = IF m.session = s THEN Append(OwnershipOf(img, s), m)
                               ELSE OwnershipOf(img, s)
<1>1. PICK t, q : t = MessagesOf(Taken(img), s) /\ q = MessagesOf(img.queue, s)
  OBVIOUS
<1>2. t \in Seq(M) /\ q \in Seq(M) /\ OwnershipOf(img, s) = t \o q
  <2>1. /\ MessagesOf(Taken(img), s) \in Seq(M)
        /\ MessagesOf(img.queue, s) \in Seq(M)
        /\ OwnershipOf(img, s) = MessagesOf(Taken(img), s) \o MessagesOf(img.queue, s)
    BY OwnershipListed
  <2> QED
    BY <1>1, <2>1
<1>3. new.queue \in Seq(M) /\ Taken(new) = Taken(img)
  BY AppendProperties DEF Taken
<1>4. OwnershipOf(new, s) = t \o MessagesOf(new.queue, s)
  <2>1. new.inputs \in Seq(I)
    OBVIOUS
  <2>2. OwnershipOf(new, s) = MessagesOf(Taken(new), s) \o MessagesOf(new.queue, s)
    BY <1>3, <2>1, OwnershipSplit
  <2> QED
    BY <1>1, <1>3, <2>2
<1>5. MessagesOf(new.queue, s) = IF m.session = s THEN Append(q, m) ELSE q
  <2>1. MessagesOf(Append(img.queue, m), s) =
          IF m.session = s THEN Append(MessagesOf(img.queue, s), m) ELSE MessagesOf(img.queue, s)
    BY MessagesAppend
  <2> QED
    BY <1>1, <2>1
<1>6. t \o Append(q, m) = Append(t \o q, m)
  BY <1>2, AppendConcat
<1> QED
  BY <1>2, <1>4, <1>5, <1>6

(* A batch that is claimed is taken from the one half into the other.      *)
LEMMA OwnershipMoves ==
  ASSUME NEW I, NEW M, Carries(I, M),
         NEW img, img.inputs \in Seq(I), img.queue \in Seq(M),
         IsInjective(img.queue), NEW s, NEW n \in Nat, NEW new, NEW input \in I,
         input.messages = Prefix(MessagesOf(img.queue, s), n),
         new.inputs = Append(img.inputs, input),
         new.queue = Select(img.queue, ToSet(img.queue) \ ToSet(input.messages))
  PROVE  SameOwners(img, new)
<1>1. PICK p, k, q : p = input.messages /\ k = new.queue /\ q = img.queue
  OBVIOUS
<1>2. /\ p \in Seq(M) /\ k \in Seq(M) /\ q \in Seq(M)
      /\ \A m \in ToSet(p) : m \in ToSet(q) /\ m.session = s
      /\ MessagesOf(q, s) = p \o MessagesOf(k, s)
      /\ \A r : r # s => MessagesOf(k, r) = MessagesOf(q, r)
  <2>1. q \in Seq(M) /\ IsInjective(q)
    BY <1>1
  <2>2. p = Prefix(MessagesOf(q, s), n) /\ k = Select(q, ToSet(q) \ ToSet(p))
    BY <1>1
  <2>3. SplitsOff(M, q, s, p, k)
    BY <2>1, <2>2, TakesItsFirst
  <2> QED
    BY <2>1, <2>3 DEF SplitsOff
<1>3. PICK t, u : t = Taken(img) /\ u = Taken(new)
  OBVIOUS
<1>4. t \in Seq(M) /\ u \in Seq(M) /\ u = t \o p
  <2>1. t \in Seq(M)
    BY <1>3, TakenListed
  <2>2. BatchesOf(new.inputs) = Append(BatchesOf(img.inputs), p)
    BY <1>1, BatchesGrow
  <2>3. BatchesOf(img.inputs) \in Seq(Seq(M))
    BY BatchesListed
  <2>4. u = t \o p
    BY <1>2, <1>3, <2>2, <2>3, FlattenAppend DEF Taken
  <2>5. t \o p \in Seq(M)
    BY <1>2, <2>1, ConcatProperties
  <2> QED
    BY <2>1, <2>4, <2>5
<1>5. SUFFICES ASSUME NEW r PROVE OwnershipOf(new, r) = OwnershipOf(img, r)
  BY DEF SameOwners
<1>6. OwnershipOf(img, r) = MessagesOf(t, r) \o MessagesOf(q, r)
  <2>1. OwnershipOf(img, r) = MessagesOf(Taken(img), r) \o MessagesOf(img.queue, r)
    BY OwnershipListed
  <2> QED
    BY <1>1, <1>3, <2>1
<1>7. OwnershipOf(new, r) = MessagesOf(u, r) \o MessagesOf(k, r)
  <2>1. new.inputs \in Seq(I) /\ new.queue \in Seq(M)
    BY <1>1, <1>2, AppendProperties
  <2>2. OwnershipOf(new, r) = MessagesOf(Taken(new), r) \o MessagesOf(new.queue, r)
    BY <2>1, OwnershipSplit
  <2> QED
    BY <1>1, <1>3, <2>2
<1>8. MessagesOf(u, r) = MessagesOf(t, r) \o MessagesOf(p, r)
  <2>1. t \in Seq(M) /\ p \in Seq(M)
    BY <1>2, <1>4
  <2>2. MessagesOf(t \o p, r) = MessagesOf(t, r) \o MessagesOf(p, r)
    BY <2>1, MessagesConcat
  <2> QED
    BY <1>4, <2>2
<1>9. PICK a, b, c : a = MessagesOf(t, r) /\ b = MessagesOf(p, r) /\ c = MessagesOf(k, r)
  OBVIOUS
<1>10. /\ a \in Seq(M) /\ b \in Seq(M) /\ c \in Seq(M)
       /\ ToSet(b) = {m \in ToSet(p) : m.session = r}
  BY <1>2, <1>4, <1>9, MessagesType
<1>11. MessagesOf(q, r) = b \o c
  <2>1. CASE r = s
    <3>1. p = b
      <4>1. b = Select(p, {m \in M : m.session = r})
        BY <1>2, <1>9, MessagesAreSelected
      <4>2. ToSet(p) \subseteq {m \in M : m.session = r}
        BY <1>2, <2>1, ElementsType
      <4> QED
        BY <1>2, <4>1, <4>2, SelectAll
    <3> QED
      BY <1>2, <1>9, <2>1, <3>1
  <2>2. CASE r # s
    <3>1. b = <<>>
      <4>1. ToSet(b) = {}
        BY <1>2, <1>10, <2>2
      <4> QED
        BY <1>10, <4>1, ElementsEmpty
    <3>2. <<>> \o c = c
      BY <1>10, ConcatEmptySeq
    <3> QED
      BY <1>2, <1>9, <2>2, <3>1, <3>2
  <2> QED
    BY <2>1, <2>2
<1>12. (a \o b) \o c = a \o (b \o c)
  BY <1>10, ConcatAssociative
<1> QED
  BY <1>6, <1>7, <1>8, <1>9, <1>11, <1>12

LEMMA LastEnqueuedListed ==
  ASSUME NEW I, NEW M, Carries(I, M),
         NEW img, img.inputs \in Seq(I), img.queue \in Seq(M), NEW s
  PROVE  LET owned == OwnershipOf(img, s)
         IN /\ LastEnqueued(img, s) \in Nat
            /\ \A i \in DOMAIN owned : owned[i].enqueued <= LastEnqueued(img, s)
            /\ \/ LastEnqueued(img, s) = 0
               \/ \E i \in DOMAIN owned : LastEnqueued(img, s) = owned[i].enqueued
<1>1. PICK owned : owned = OwnershipOf(img, s)
  OBVIOUS
<1>2. /\ owned \in Seq(M)
      /\ ToSet(owned) = {m \in ToSet(img.queue) \cup Claimed(img) : m.session = s}
  BY <1>1, OwnershipListed
<1> DEFINE times == {0} \cup {m.enqueued : m \in ToSet(owned)}
<1>3. times \in SUBSET Nat /\ times # {}
  <2>1. ToSet(owned) \subseteq M
    BY <1>2, ElementsType
  <2> QED
    BY <2>1 DEF Carries
<1>4. IsFiniteSet(times)
  <2>1. IsFiniteSet(ToSet(owned))
    BY <1>2, ElementsType
  <2>2. IsFiniteSet({m.enqueued : m \in ToSet(owned)})
    <3>1. PICK g : g = [m \in ToSet(owned) |-> m.enqueued]
      OBVIOUS
    <3>2. g \in Surjection(ToSet(owned), {m.enqueued : m \in ToSet(owned)})
      BY <3>1 DEF Surjection
    <3> QED
      BY <2>1, <3>2, FS_Surjection
  <2>3. IsFiniteSet({0})
    BY FS_Singleton
  <2> QED
    BY <2>2, <2>3, FS_Union
<1>5. Max(times) \in times /\ \A t \in times : t <= Max(times)
  <2> HIDE DEF times
  <2> QED
    BY <1>3, <1>4, MaxIsGreatest
<1>6. LastEnqueued(img, s) = Max(times)
  BY <1>2 DEF LastEnqueued
<1>7. PICK top : top = Max(times)
  OBVIOUS
<1>8. top \in Nat
  BY <1>3, <1>5, <1>7
<1>9. \A i \in DOMAIN owned : owned[i].enqueued <= top
  <2>1. \A i \in DOMAIN owned : owned[i].enqueued \in times
    BY DEF ToSet
  <2> QED
    BY <1>5, <1>7, <2>1
<1>10. top = 0 \/ \E i \in DOMAIN owned : top = owned[i].enqueued
  <2>1. top \in times
    BY <1>5, <1>7
  <2> QED
    BY <2>1 DEF ToSet
<1> HIDE DEF times
<1> QED
  BY <1>1, <1>6, <1>7, <1>8, <1>9, <1>10

-----------------------------------------------------------------------------
(* The merge of records.                                                   *)

(* What was there comes first.                                             *)
Grows(new, old) == DOMAIN old \subseteq DOMAIN new /\ \A i \in DOMAIN old : new[i] = old[i]

LEMMA HasIs ==
  ASSUME NEW records, NEW id
  PROVE  Has(records, id) <=> \E x \in ToSet(records) : x.id = id
BY DEF Has, ToSet

LEMMA ConcatGrows ==
  ASSUME NEW X, NEW a \in Seq(X), NEW b \in Seq(X)
  PROVE  /\ Grows(a \o b, a)
         /\ Len(a) \in Nat /\ Len(b) \in Nat
         /\ DOMAIN a = 1..Len(a) /\ DOMAIN b = 1..Len(b)
         /\ DOMAIN (a \o b) = 1..(Len(a) + Len(b))
         /\ \A i \in 1..Len(b) : (a \o b)[Len(a) + i] = b[i]
<1>1. PICK c : c = a \o b
  OBVIOUS
<1>2. /\ c \in Seq(X) /\ Len(c) = Len(a) + Len(b)
      /\ \A i \in 1..(Len(a) + Len(b)) : c[i] = IF i <= Len(a) THEN a[i] ELSE b[i - Len(a)]
  BY <1>1, ConcatProperties
<1>3. /\ Len(a) \in Nat /\ Len(b) \in Nat
      /\ DOMAIN a = 1..Len(a) /\ DOMAIN b = 1..Len(b) /\ DOMAIN c = 1..(Len(a) + Len(b))
  BY <1>2, LenProperties
<1>4. PICK n \in Nat, k \in Nat : n = Len(a) /\ k = Len(b)
  BY <1>3
<1>5. \A i \in 1..n : i \in 1..(n + k) /\ i <= n
  OBVIOUS
<1>6. ASSUME NEW i \in 1..k PROVE c[n + i] = b[i]
  <2>1. n + i \in 1..(n + k) /\ ~(n + i <= n) /\ (n + i) - n = i
    OBVIOUS
  <2> QED
    BY <1>2, <1>4, <2>1
<1>7. Grows(c, a)
  BY <1>2, <1>3, <1>4, <1>5 DEF Grows
<1> QED
  BY <1>1, <1>3, <1>4, <1>6, <1>7

LEMMA GrowsIsPrefix ==
  ASSUME NEW X, NEW a \in Seq(X), NEW b \in Seq(X), Grows(b, a)
  PROVE  IsPrefix(a, b)
<1>1. PICK n \in Nat, k \in Nat :
        n = Len(a) /\ k = Len(b) /\ DOMAIN a = 1..n /\ DOMAIN b = 1..k
  BY LenProperties
<1>2. n <= k
  BY <1>1 DEF Grows
<1>3. SubSeq(a, 1, n) = a
  BY <1>1, SubSeqFull
<1>4. SubSeq(b, 1, n) = a
  <2>1. PICK c : c = SubSeq(b, 1, n)
    OBVIOUS
  <2>2. \A i \in 1..n : b[i] \in X
    BY <1>1, <1>2, ElementOfSeq
  <2>3. c = [i \in 1..n |-> b[i]]
    BY <1>1, <1>2, <2>1
  <2>4. a = [i \in 1..n |-> a[i]]
    BY <1>1, SeqDef
  <2>5. \A i \in 1..n : a[i] = b[i]
    BY <1>1 DEF Grows
  <2> QED
    BY <2>1, <2>3, <2>4, <2>5
<1> QED
  BY <1>1, <1>2, <1>3, <1>4 DEF IsPrefix

LEMMA UnionIs ==
  ASSUME NEW X, NEW a \in Seq(X), NEW b \in Seq(X)
  PROVE  /\ Union(a, b) \in Seq(X)
         /\ ToSet(Union(a, b)) = ToSet(a) \cup {x \in ToSet(b) : ~Has(a, x.id)}
         /\ Grows(Union(a, b), a)
<1>1. PICK c : c = Select(b, {x \in ToSet(b) : ~Has(a, x.id)})
  OBVIOUS
<1>2. c \in Seq(X) /\ ToSet(c) = {x \in ToSet(b) : ~Has(a, x.id)}
  <2>1. c \in Seq(X) /\ ToSet(c) = ToSet(b) \cap {x \in ToSet(b) : ~Has(a, x.id)}
    BY <1>1, SelectType
  <2> QED
    BY <2>1
<1>3. Union(a, b) = a \o c
  BY <1>1 DEF Union
<1>4. Grows(a \o c, a)
  BY <1>2, ConcatGrows
<1>5. ToSet(a \o c) = ToSet(a) \cup ToSet(c) /\ a \o c \in Seq(X)
  BY <1>2, ElementsConcat, ConcatProperties
<1> QED
  BY <1>2, <1>3, <1>4, <1>5

(* Nothing new, nothing added.                                             *)
LEMMA UnionOfKnown ==
  ASSUME NEW X, NEW a \in Seq(X), NEW b \in Seq(X), \A x \in ToSet(b) : Has(a, x.id)
  PROVE  Union(a, b) = a
<1>1. PICK new : new = {x \in ToSet(b) : ~Has(a, x.id)}
  OBVIOUS
<1>2. new = {}
  BY <1>1
<1>3. Select(b, new) = <<>>
  BY <1>2, SelectNone
<1> QED
  BY <1>1, <1>3, ConcatEmptySeq DEF Union

LEMMA SelectDistinct ==
  ASSUME NEW X, NEW seq \in Seq(X), NEW S, DistinctIds(seq)
  PROVE  DistinctIds(Select(seq, S))
<1>1. PICK p, g : p = Select(seq, S) /\ Embeds(g, p, seq)
  BY SelectOrder
<1>2. DOMAIN p \subseteq Nat /\ DOMAIN seq \subseteq Nat
  BY <1>1, SelectType, LenProperties
<1>3. \A i, j \in DOMAIN p : i # j => g[i] # g[j]
  BY <1>1, <1>2 DEF Embeds
<1>4. ASSUME NEW i \in DOMAIN p, NEW j \in DOMAIN p, p[i].id = p[j].id PROVE i = j
  <2>1. g[i] \in DOMAIN seq /\ g[j] \in DOMAIN seq /\ seq[g[i]].id = seq[g[j]].id
    BY <1>1, <1>4 DEF Embeds
  <2> QED
    BY <1>3, <2>1 DEF DistinctIds
<1> QED
  BY <1>1, <1>4 DEF DistinctIds

(* Each record once, and the new ones in the order they had.               *)
LEMMA UnionDistinct ==
  ASSUME NEW X, NEW a \in Seq(X), NEW b \in Seq(X), DistinctIds(a), DistinctIds(b)
  PROVE  DistinctIds(Union(a, b))
<1>1. PICK c \in Seq(X) : /\ c = Select(b, {x \in ToSet(b) : ~Has(a, x.id)})
                          /\ ToSet(c) = ToSet(b) \cap {x \in ToSet(b) : ~Has(a, x.id)}
  BY SelectType
<1>2. PICK u \in Seq(X), n \in Nat, k \in Nat : u = a \o c /\ n = Len(a) /\ k = Len(c)
  <2>1. a \o c \in Seq(X) /\ Len(a) \in Nat /\ Len(c) \in Nat
    BY LenProperties
  <2> QED
    BY <2>1, Zenon
<1>3. /\ u = Union(a, b)
      /\ DOMAIN a = 1..n /\ DOMAIN c = 1..k /\ DOMAIN u = 1..(n + k)
      /\ \A i \in 1..k : u[n + i] = c[i]
      /\ Grows(u, a)
  BY <1>1, <1>2, ConcatGrows DEF Union
<1>4. \A i \in 1..n : u[i] = a[i]
  BY <1>3 DEF Grows
<1>5. DistinctIds(c)
  BY <1>1, SelectDistinct
<1>6. \A i \in 1..k : ~Has(a, c[i].id)
  BY <1>1, <1>3 DEF ToSet
<1>7. ASSUME NEW i \in DOMAIN u, NEW j \in DOMAIN u, u[i].id = u[j].id PROVE i = j
  <2>1. \A q \in DOMAIN u : q \in 1..n \/ (q - n \in 1..k /\ q = n + (q - n))
    BY <1>3
  <2>2. CASE i \in 1..n /\ j \in 1..n
    BY <1>3, <1>4, <1>7, <2>2 DEF DistinctIds
  <2>3. CASE i \in 1..n /\ j - n \in 1..k /\ j = n + (j - n)
    <3>1. u[j] = c[j - n]
      BY <1>3, <2>3
    <3> QED
      BY <1>3, <1>4, <1>6, <1>7, <2>3, <3>1 DEF Has
  <2>4. CASE j \in 1..n /\ i - n \in 1..k /\ i = n + (i - n)
    <3>1. u[i] = c[i - n]
      BY <1>3, <2>4
    <3> QED
      BY <1>3, <1>4, <1>6, <1>7, <2>4, <3>1 DEF Has
  <2>5. CASE i - n \in 1..k /\ i = n + (i - n) /\ j - n \in 1..k /\ j = n + (j - n)
    <3>1. u[i] = c[i - n] /\ u[j] = c[j - n]
      BY <1>3, <2>5
    <3>2. i - n = j - n
      BY <1>3, <1>5, <1>7, <2>5, <3>1 DEF DistinctIds
    <3> QED
      BY <2>5, <3>2
  <2> QED
    BY <2>1, <2>2, <2>3, <2>4, <2>5
<1> QED
  BY <1>3, <1>7 DEF DistinctIds

LEMMA UnionOrder ==
  ASSUME NEW X, NEW a \in Seq(X), NEW b \in Seq(X), DistinctIds(b),
         NEW i \in DOMAIN Union(a, b), NEW j \in DOMAIN Union(a, b),
         i \notin DOMAIN a, j \notin DOMAIN a,
         NEW k \in DOMAIN b, NEW l \in DOMAIN b,
         Union(a, b)[i] = b[k], Union(a, b)[j] = b[l], k < l
  PROVE  i < j
<1>1. PICK c, g : c = Select(b, {x \in ToSet(b) : ~Has(a, x.id)}) /\ Embeds(g, c, b)
  BY SelectOrder
<1>2. c \in Seq(X)
  BY <1>1, SelectType
<1>3. PICK u \in Seq(X), n \in Nat, m \in Nat : u = a \o c /\ n = Len(a) /\ m = Len(c)
  <2>1. a \o c \in Seq(X) /\ Len(a) \in Nat /\ Len(c) \in Nat
    BY <1>2, LenProperties
  <2> QED
    BY <2>1, Zenon
<1>4. /\ u = Union(a, b)
      /\ DOMAIN a = 1..n /\ DOMAIN c = 1..m /\ DOMAIN u = 1..(n + m)
      /\ \A q \in 1..m : u[n + q] = c[q]
  BY <1>1, <1>2, <1>3, ConcatGrows DEF Union
<1>5. PICK p \in 1..m, q \in 1..m : i = n + p /\ j = n + q
  <2>1. i - n \in 1..m /\ j - n \in 1..m /\ i = n + (i - n) /\ j = n + (j - n)
    BY <1>4
  <2> QED
    BY <2>1
<1>6. b[g[p]] = b[k] /\ b[g[q]] = b[l] /\ g[p] \in DOMAIN b /\ g[q] \in DOMAIN b
  BY <1>1, <1>4, <1>5 DEF Embeds
<1>7. g[p] = k /\ g[q] = l
  BY <1>6 DEF DistinctIds
<1>8. DOMAIN b \subseteq Nat
  BY LenProperties
<1>9. ~(q < p) /\ q # p
  <2>1. p \in DOMAIN c /\ q \in DOMAIN c
    BY <1>4, <1>5
  <2>2. q < p => g[q] < g[p]
    BY <1>1, <2>1 DEF Embeds
  <2>3. ~(l < k) /\ l # k
    BY <1>8
  <2> QED
    BY <1>7, <2>2, <2>3
<1> QED
  BY <1>5, <1>9

-----------------------------------------------------------------------------
(* Which session is served, and when.                                      *)

(* Messages have a session and a time.                                     *)
Timed(M) == \A m \in M : m.session \in Nat /\ m.enqueued \in Nat

LEMMA SessionWaits ==
  ASSUME NEW M, Timed(M), NEW queue \in Seq(M), NEW s
  PROVE  /\ MessagesOf(queue, s) \in Seq(M)
         /\ s \in SessionsIn(queue) <=> MessagesOf(queue, s) # <<>>
         /\ s \in SessionsIn(queue) => s \in Nat
<1>1. PICK mine \in Seq(M) :
        mine = MessagesOf(queue, s) /\ ToSet(mine) = {m \in ToSet(queue) : m.session = s}
  <2>1. /\ MessagesOf(queue, s) \in Seq(M)
        /\ ToSet(MessagesOf(queue, s)) = {m \in ToSet(queue) : m.session = s}
    BY MessagesType
  <2> QED
    BY <2>1
<1>2. ToSet(mine) = {} <=> mine = <<>>
  BY ElementsEmpty
<1>3. s \in SessionsIn(queue) <=> ToSet(mine) # {}
  BY <1>1 DEF SessionsIn, ToSet
<1>4. s \in SessionsIn(queue) => s \in Nat
  <2>1. ToSet(queue) \subseteq M
    BY ElementsType
  <2> QED
    BY <2>1 DEF SessionsIn, ToSet, Timed
<1> QED
  BY <1>1, <1>2, <1>3, <1>4

LEMMA ReadyAtIs ==
  ASSUME NEW M, Timed(M), NEW messages \in Seq(M), messages # <<>>
  PROVE  ReadyAt(messages) \in Nat
<1>1. PICK n \in Nat : n = Len(messages) /\ n # 0 /\ \A i \in 1..n : messages[i].enqueued \in Nat
  <2>1. \A i \in 1..Len(messages) : messages[i] \in M
    BY ElementOfSeq
  <2>2. Len(messages) \in Nat \ {0}
    BY EmptySeq
  <2> QED
    BY <2>1, <2>2 DEF Timed
<1>2. CASE n >= MaxBatch
  <2>1. MaxBatch \in 1..n
    BY <1>2, PolicyAssumption
  <2> QED
    BY <1>1, <1>2, <2>1 DEF ReadyAt
<1>3. CASE ~(n >= MaxBatch)
  <2>1. n \in 1..n
    BY <1>1
  <2>2. messages[n].enqueued \in Nat
    BY <1>1, <2>1
  <2> QED
    BY <1>1, <1>3, <2>2, PolicyAssumption DEF ReadyAt, SaturatingAdd
<1> QED
  BY <1>2, <1>3

LEMMA SessionReadyAtIs ==
  ASSUME NEW M, Timed(M), NEW queue \in Seq(M), NEW s \in SessionsIn(queue)
  PROVE  ReadyAt(MessagesOf(queue, s)) \in Nat /\ s \in Nat
<1>1. MessagesOf(queue, s) \in Seq(M) /\ MessagesOf(queue, s) # <<>> /\ s \in Nat
  BY SessionWaits
<1> QED
  BY <1>1, ReadyAtIs

LEMMA FirstIsReady ==
  ASSUME NEW M, Timed(M), NEW queue \in Seq(M), NEW ready \in SUBSET SessionsIn(queue), ready # {}
  PROVE  FirstOf(queue, ready) \in ready
<1> DEFINE at(x) == ReadyAt(MessagesOf(queue, x))
           times == {at(s) : s \in ready}
<1>1. \A s \in ready : at(s) \in Nat /\ s \in Nat
  BY SessionReadyAtIs
<1>2. PICK k \in Nat : k \in times /\ \A y \in times : k <= y
  <2>1. times \in SUBSET Nat /\ times # {}
    BY <1>1
  <2> HIDE DEF times
  <2> QED
    BY <2>1, MinIsLeast
<1> DEFINE earliest == {s \in ready : at(s) = k}
<1>3. PICK s \in Nat : s \in earliest /\ \A y \in earliest : s <= y
  <2>1. earliest \in SUBSET Nat /\ earliest # {}
    BY <1>1, <1>2
  <2> HIDE DEF earliest
  <2> QED
    BY <2>1, MinIsLeast
<1>4. ASSUME NEW t \in ready \ {s} PROVE at(s) < at(t) \/ (at(s) = at(t) /\ s < t)
  <2>1. k <= at(t) /\ at(t) \in Nat /\ t \in Nat /\ at(s) = k /\ t # s
    BY <1>1, <1>2, <1>3
  <2>2. CASE at(t) = k
    <3>1. s <= t
      BY <1>3, <2>2
    <3> QED
      BY <2>1, <2>2, <3>1
  <2>3. CASE at(t) # k
    BY <2>1, <2>3
  <2> HIDE DEF at
  <2> QED
    BY <2>2, <2>3
<1>5. s \in ready
  BY <1>3
<1> QED
  BY <1>4, <1>5 DEF FirstOf

-----------------------------------------------------------------------------
(* Sequences around a separator.                                           *)

(* The sequence l is a, a separator, and x.                                *)
Joins(l, a, c, x) ==
  /\ Len(l) = Len(a) + 1 + Len(x)
  /\ \A i \in 1..Len(a) : l[i] = a[i]
  /\ l[Len(a) + 1] = c
  /\ \A i \in 1..Len(x) : l[Len(a) + 1 + i] = x[i]

LEMMA JoinsConcat ==
  ASSUME NEW c \in Int, NEW a \in Seq(Int), NEW x \in Seq(Int)
  PROVE  Joined(a, c, x) \in Seq(Int) /\ Joins(Joined(a, c, x), a, c, x)
<1> DEFINE u == <<c>> \o x
<1>1. /\ u \in Seq(Int) /\ Len(u) = Len(x) + 1 /\ u[1] = c
      /\ \A i \in 1..Len(x) : u[i + 1] = x[i]
  OBVIOUS
<1> HIDE DEF u
<1>2. /\ Len(a \o u) = Len(a) + Len(u)
      /\ \A i \in 1..(Len(a) + Len(u)) :
           (a \o u)[i] = IF i <= Len(a) THEN a[i] ELSE u[i - Len(a)]
  BY <1>1, ConcatProperties, Zenon
<1>3. Len(a) \in Nat /\ Len(u) \in Nat /\ Len(x) \in Nat
  BY <1>1, LenProperties
<1>4. \A i \in 1..Len(a) : (a \o u)[i] = a[i]
  BY <1>2, <1>3
<1>5. (a \o u)[Len(a) + 1] = c
  BY <1>1, <1>2, <1>3
<1>6. ASSUME NEW i \in 1..Len(x)
      PROVE  (a \o u)[Len(a) + 1 + i] = x[i]
  <2>1. /\ Len(a) + 1 + i \in 1..(Len(a) + Len(u))
        /\ ~(Len(a) + 1 + i <= Len(a))
        /\ Len(a) + 1 + i - Len(a) = i + 1
    BY <1>1, <1>3
  <2>2. (a \o u)[Len(a) + 1 + i] = u[i + 1]
    BY <1>2, <2>1
  <2> QED
    BY <1>1, <2>2
<1>7. Len(a \o u) = Len(a) + 1 + Len(x)
  BY <1>1, <1>2, <1>3
<1>8. Joins(a \o u, a, c, x)
  BY <1>4, <1>5, <1>6, <1>7 DEF Joins
<1>9. a \o u \in Seq(Int)
  BY <1>1, ConcatProperties, Zenon
<1> QED
  BY <1>8, <1>9, Zenon DEF u, Joined

Without(a, c) == \A i \in 1..Len(a) : a[i] # c

(* With the same first part there is the same rest.                        *)
LEMMA SameRest ==
  ASSUME NEW c, NEW l, NEW a \in Seq(Int), NEW b \in Seq(Int),
         NEW x \in Seq(Int), NEW y \in Seq(Int),
         Joins(l, a, c, x), Joins(l, b, c, y), Len(a) = Len(b)
  PROVE  a = b /\ x = y
<1>1. Len(x) = Len(y)
  BY LenProperties DEF Joins
<1>2. a = b
  BY SeqEqual DEF Joins
<1>3. \A i \in 1..Len(x) : x[i] = y[i]
  BY <1>1 DEF Joins
<1>4. x = y
  BY <1>1, <1>3, SeqEqual
<1> QED
  BY <1>2, <1>4

(* The first separator of a sequence tells where its first part ends.      *)
LEMMA SplitAtFirst ==
  ASSUME NEW c \in Int,
         NEW a \in Seq(Int), Without(a, c), NEW b \in Seq(Int), Without(b, c),
         NEW x \in Seq(Int), NEW y \in Seq(Int),
         NEW l, Joins(l, a, c, x), Joins(l, b, c, y)
  PROVE  a = b /\ x = y
<1>5. Len(a) \in Nat /\ Len(b) \in Nat
  BY LenProperties
<1>6. ~(Len(a) < Len(b))
  <2>1. SUFFICES ASSUME Len(a) + 1 \in 1..Len(b) PROVE FALSE
    BY <1>5
  <2> QED
    BY ONLY <2>1, Joins(l, a, c, x), Joins(l, b, c, y), Without(b, c) DEF Joins, Without
<1>7. ~(Len(b) < Len(a))
  <2>1. SUFFICES ASSUME Len(b) + 1 \in 1..Len(a) PROVE FALSE
    BY <1>5
  <2> QED
    BY ONLY <2>1, Joins(l, a, c, x), Joins(l, b, c, y), Without(a, c) DEF Joins, Without
<1>8. Len(a) = Len(b)
  BY <1>5, <1>6, <1>7
<1> QED
  BY <1>8, SameRest, Zenon

(* The last separator tells where the last part begins.                    *)
LEMMA SplitAtLast ==
  ASSUME NEW c \in Int,
         NEW a \in Seq(Int), NEW b \in Seq(Int),
         NEW x \in Seq(Int), Without(x, c), NEW y \in Seq(Int), Without(y, c),
         NEW l, Joins(l, a, c, x), Joins(l, b, c, y)
  PROVE  a = b /\ x = y
<1>5. Len(a) \in Nat /\ Len(b) \in Nat /\ Len(x) \in Nat /\ Len(y) \in Nat
  BY LenProperties
<1>6. Len(a) + 1 + Len(x) = Len(b) + 1 + Len(y)
  BY DEF Joins
<1>7. ~(Len(a) < Len(b))
  <2>1. SUFFICES ASSUME Len(a) < Len(b) PROVE FALSE
    OBVIOUS
  <2> DEFINE i == Len(b) - Len(a)
  <2>2. i \in 1..Len(x) /\ Len(a) + 1 + i = Len(b) + 1
    BY <2>1, <1>5, <1>6
  <2>3. l[Len(b) + 1] = x[i]
    BY <2>2 DEF Joins
  <2> QED
    BY <2>2, <2>3 DEF Joins, Without
<1>8. ~(Len(b) < Len(a))
  <2>1. SUFFICES ASSUME Len(b) < Len(a) PROVE FALSE
    OBVIOUS
  <2> DEFINE i == Len(a) - Len(b)
  <2>2. i \in 1..Len(y) /\ Len(b) + 1 + i = Len(a) + 1
    BY <2>1, <1>5, <1>6
  <2>3. l[Len(a) + 1] = y[i]
    BY <2>2 DEF Joins
  <2> QED
    BY <2>2, <2>3 DEF Joins, Without
<1>9. Len(a) = Len(b)
  BY <1>5, <1>7, <1>8
<1> QED
  BY <1>9, SameRest, Zenon

-----------------------------------------------------------------------------
(* Numbers and bytes as text.                                              *)

LEMMA HexCharType == HexChar \in [0..15 -> HexDigit]
  BY DEF HexChar, HexDigit

LEMMA HexCharInjective ==
  ASSUME NEW d \in 0..15, NEW e \in 0..15, HexChar[d] = HexChar[e]
  PROVE  d = e
  BY DEF HexChar

IsPowers(powers) == powers \in {Powers16, Powers10}

LEMMA PowersType ==
  ASSUME NEW powers, IsPowers(powers)
  PROVE  /\ \A j \in 1..8 : powers[j] \in Nat \ {0}
         /\ powers[1] = 1
         /\ powers[2] \in {10, 16}
         /\ \A j \in 1..7 : powers[j + 1] = powers[2] * powers[j]
  BY SMT DEF IsPowers, Powers16, Powers10

LEMMA WidthType ==
  ASSUME NEW powers, IsPowers(powers), NEW n \in Nat, n < powers[8]
  PROVE  /\ Width(n, powers) \in 1..7
         /\ n < powers[Width(n, powers) + 1]
         /\ Width(n, powers) > 1 => powers[Width(n, powers)] <= n
<1>1. \E k \in 1..7 : n < powers[k + 1] /\ (k > 1 => powers[k] <= n)
  <2>1. /\ powers[2] \in Nat /\ powers[3] \in Nat /\ powers[4] \in Nat
        /\ powers[5] \in Nat /\ powers[6] \in Nat /\ powers[7] \in Nat
        /\ powers[8] \in Nat
    BY PowersType
  <2>2. \/ n < powers[1 + 1]
        \/ powers[2] <= n /\ n < powers[2 + 1]
        \/ powers[3] <= n /\ n < powers[3 + 1]
        \/ powers[4] <= n /\ n < powers[4 + 1]
        \/ powers[5] <= n /\ n < powers[5 + 1]
        \/ powers[6] <= n /\ n < powers[6 + 1]
        \/ powers[7] <= n /\ n < powers[7 + 1]
    BY <2>1
  <2> QED
    BY <2>2
<1> QED
  BY <1>1 DEF Width

(* The text of a number is digits.                                         *)
LEMMA NumeralType ==
  ASSUME NEW powers, IsPowers(powers), NEW n \in Nat, n < powers[8]
  PROVE  Numeral(n, powers) \in Seq(HexDigit) \ {<<>>}
<1> DEFINE k == Width(n, powers)
<1>1. k \in 1..7
  BY WidthType
<1>2. ASSUME NEW i \in 1..k
      PROVE  HexChar[(n \div powers[k - i + 1]) % powers[2]] \in HexDigit
  <2>1. powers[k - i + 1] \in Nat \ {0}
    BY <1>1, PowersType
  <2>2. n \div powers[k - i + 1] \in Int
    BY <2>1
  <2>3. (n \div powers[k - i + 1]) % powers[2] \in 0..15
    BY <2>2, PowersType
  <2> QED
    BY <2>3, HexCharType
<1>3. Numeral(n, powers) \in [1..k -> HexDigit]
  BY <1>2 DEF Numeral
<1> QED
  BY <1>1, <1>3, LenProperties, IsASeq

DigitOf(n, j) == (n \div Powers10[j]) % 10

(* A number is the sum of its decimal digits.                              *)
LEMMA DigitSum ==
  ASSUME NEW n \in Nat, n < 10000000
  PROVE  n = DigitOf(n, 1) + 10 * DigitOf(n, 2) + 100 * DigitOf(n, 3)
             + 1000 * DigitOf(n, 4) + 10000 * DigitOf(n, 5)
             + 100000 * DigitOf(n, 6) + 1000000 * DigitOf(n, 7)
<1> DEFINE Quotient(j) == n \div Powers10[j]
<1>1. /\ n = 10 * Quotient(2) + DigitOf(n, 1) /\ DigitOf(n, 1) \in Nat
      /\ Quotient(2) = 10 * Quotient(3) + DigitOf(n, 2) /\ DigitOf(n, 2) \in Nat
      /\ Quotient(2) \in Nat
  BY SMT DEF DigitOf, Powers10
<1>2. /\ Quotient(3) = 10 * Quotient(4) + DigitOf(n, 3) /\ DigitOf(n, 3) \in Nat
      /\ Quotient(3) \in Nat
  BY SMT DEF DigitOf, Powers10
<1>3. /\ Quotient(4) = 10 * Quotient(5) + DigitOf(n, 4) /\ DigitOf(n, 4) \in Nat
      /\ Quotient(4) \in Nat
  BY SMT DEF DigitOf, Powers10
<1>4. /\ Quotient(5) = 10 * Quotient(6) + DigitOf(n, 5) /\ DigitOf(n, 5) \in Nat
      /\ Quotient(5) \in Nat
  BY SMT DEF DigitOf, Powers10
<1>5. /\ Quotient(6) = 10 * Quotient(7) + DigitOf(n, 6) /\ DigitOf(n, 6) \in Nat
      /\ Quotient(6) \in Nat
  BY SMT DEF DigitOf, Powers10
<1>6. Quotient(7) = DigitOf(n, 7) /\ DigitOf(n, 7) \in Nat
  BY SMT DEF DigitOf, Powers10
<1> HIDE DEF Quotient
<1> QED
  BY <1>1, <1>2, <1>3, <1>4, <1>5, <1>6, SMT

LEMMA LeadingZeros ==
  ASSUME NEW n \in Nat, NEW k \in 1..7, n < Powers10[k + 1], NEW j \in (k + 1)..7
  PROVE  DigitOf(n, j) = 0
<1>1. Powers10[k + 1] <= Powers10[j] /\ Powers10[j] \in Nat \ {0}
  BY SMT DEF Powers10
<1>2. ASSUME NEW p \in Nat \ {0}, n < p
      PROVE  n \div p = 0
  BY <1>2, SMT
<1>3. n \div Powers10[j] = 0
  <2>1. n < Powers10[j]
    BY <1>1, PowersType, SMT DEF IsPowers
  <2> QED
    BY <1>1, <1>2, <2>1, Zenon
<1> QED
  BY <1>3, SMT DEF DigitOf

(* Different numbers have different texts.                                 *)
LEMMA DecimalInjective ==
  ASSUME NEW n \in Nat, n < Powers10[8], NEW m \in Nat, m < Powers10[8],
         Decimal(n) = Decimal(m)
  PROVE  n = m
<1> DEFINE k == Width(n, Powers10)
<1>1. IsPowers(Powers10)
  BY DEF IsPowers
<1>2. /\ k \in 1..7 /\ n < Powers10[k + 1]
      /\ Width(m, Powers10) \in 1..7 /\ m < Powers10[Width(m, Powers10) + 1]
  BY <1>1, WidthType, SMT
<1>3. Width(m, Powers10) = k
  <2>1. /\ DOMAIN Decimal(n) = 1..k
        /\ DOMAIN Decimal(m) = 1..Width(m, Powers10)
    BY SMT DEF Decimal, Numeral
  <2> QED
    BY <1>2, <2>1, SMT
<1> HIDE DEF k
<1>4. ASSUME NEW j \in 1..k
      PROVE  DigitOf(n, j) = DigitOf(m, j)
  <2> DEFINE i == k - j + 1
  <2>1. i \in 1..k /\ k - i + 1 = j
    BY <1>2, SMT
  <2>2. /\ Decimal(n)[i] = HexChar[(n \div Powers10[k - i + 1]) % Powers10[2]]
        /\ Decimal(m)[i] = HexChar[(m \div Powers10[k - i + 1]) % Powers10[2]]
    BY <1>3, <2>1, SMT DEF Decimal, Numeral, k
  <2>3. HexChar[DigitOf(n, j)] = HexChar[DigitOf(m, j)]
    BY <2>1, <2>2, SMT DEF DigitOf, Powers10
  <2>4. Powers10[j] \in Nat \ {0}
    BY <1>1, <1>2, PowersType, SMT
  <2>5. DigitOf(n, j) \in 0..15 /\ DigitOf(m, j) \in 0..15
    BY <2>4, SMT DEF DigitOf
  <2> QED
    BY <2>3, <2>5, HexCharInjective, SMT
<1>5. ASSUME NEW j \in (k + 1)..7
      PROVE  DigitOf(n, j) = DigitOf(m, j)
  BY <1>2, <1>3, LeadingZeros, SMT
<1>6. \A j \in 1..7 : DigitOf(n, j) = DigitOf(m, j)
  BY <1>2, <1>4, <1>5, SMT
<1>7. n < 10000000 /\ m < 10000000
  BY SMT DEF Powers10
<1> QED
  BY <1>6, <1>7, DigitSum, SMT

LEMMA NibblesOfByte ==
  ASSUME NEW b \in Byte
  PROVE  b \div 16 \in 0..15 /\ b % 16 \in 0..15 /\ b = 16 * (b \div 16) + (b % 16)
  BY SMT DEF Byte

LEMMA HexBytesType ==
  ASSUME NEW v \in Seq(Byte)
  PROVE  HexBytes(v) \in Seq(HexDigit) /\ Len(HexBytes(v)) = 2 * Len(v)
<1>1. Len(v) \in Nat
  BY LenProperties
<1>2. ASSUME NEW i \in 1..(2 * Len(v))
      PROVE  HexBytes(v)[i] \in HexDigit
  <2>1. CASE i % 2 = 1
    <3>1. (i + 1) \div 2 \in 1..Len(v)
      BY <1>1, <2>1, SMT
    <3>2. v[(i + 1) \div 2] \in Byte
      BY <3>1, ElementOfSeq
    <3>3. v[(i + 1) \div 2] \div 16 \in 0..15
      BY <3>2, NibblesOfByte
    <3> QED
      BY <2>1, <3>3, HexCharType DEF HexBytes
  <2>2. CASE i % 2 # 1
    <3>1. i \div 2 \in 1..Len(v)
      BY <1>1, <2>2, SMT
    <3>2. v[i \div 2] \in Byte
      BY <3>1, ElementOfSeq
    <3>3. v[i \div 2] % 16 \in 0..15
      BY <3>2, NibblesOfByte
    <3> QED
      BY <2>2, <3>3, HexCharType DEF HexBytes
  <2> QED
    BY <2>1, <2>2
<1>3. HexBytes(v) \in [1..(2 * Len(v)) -> HexDigit]
  BY <1>2 DEF HexBytes
<1>4. 2 * Len(v) \in Nat
  BY <1>1
<1> QED
  BY <1>3, <1>4, IsASeq, LenProperties

(* Different texts have different digits.                                  *)
LEMMA HexBytesInjective ==
  ASSUME NEW v \in Seq(Byte), NEW w \in Seq(Byte), HexBytes(v) = HexBytes(w)
  PROVE  v = w
<1>1. Len(v) \in Nat /\ Len(w) \in Nat
  BY LenProperties
<1>2. Len(v) = Len(w)
  BY <1>1, HexBytesType
<1>3. ASSUME NEW i \in 1..Len(v)
      PROVE  v[i] = w[i]
  <2>1. v[i] \in Byte /\ w[i] \in Byte
    BY <1>2, ElementOfSeq
  <2>2. /\ 2 * i \in 1..(2 * Len(v)) /\ 2 * i - 1 \in 1..(2 * Len(v))
        /\ (2 * i) % 2 # 1 /\ (2 * i) \div 2 = i
        /\ (2 * i - 1) % 2 = 1 /\ (2 * i - 1 + 1) \div 2 = i
    BY <1>1, SMT
  <2>3. /\ HexBytes(v)[2 * i] = HexChar[v[i] % 16]
        /\ HexBytes(w)[2 * i] = HexChar[w[i] % 16]
    BY <1>2, <2>2 DEF HexBytes
  <2>4. /\ HexBytes(v)[2 * i - 1] = HexChar[v[i] \div 16]
        /\ HexBytes(w)[2 * i - 1] = HexChar[w[i] \div 16]
    BY <1>2, <2>2 DEF HexBytes
  <2>5. v[i] % 16 = w[i] % 16
    BY <2>1, <2>3, NibblesOfByte, HexCharInjective
  <2>6. v[i] \div 16 = w[i] \div 16
    BY <2>1, <2>4, NibblesOfByte, HexCharInjective
  <2> QED
    BY <2>1, <2>5, <2>6, NibblesOfByte, SMT
<1> QED
  BY <1>2, <1>3, SeqEqual

-----------------------------------------------------------------------------
(* Encoded texts.                                                          *)

(* What was joined to the left part may be joined to its last part first.  *)
LEMMA RejoinedParts ==
  ASSUME NEW c, NEW d, NEW a \in Seq(Int), NEW b \in Seq(Int), NEW r \in Seq(Int),
         NEW m \in Seq(Int), NEW l \in Seq(Int), NEW n \in Seq(Int),
         Joins(m, a, c, b), Joins(l, m, d, r), Joins(n, b, d, r)
  PROVE  Joins(l, a, c, n)
<1>1. /\ Len(a) \in Nat /\ Len(b) \in Nat /\ Len(r) \in Nat
      /\ Len(m) \in Nat /\ Len(n) \in Nat
  BY LenProperties
<1>2. /\ Len(m) = Len(a) + 1 + Len(b)
      /\ Len(l) = Len(m) + 1 + Len(r)
      /\ Len(n) = Len(b) + 1 + Len(r)
  BY DEF Joins
<1>3. \A i \in 1..Len(m) : l[i] = m[i]
  BY DEF Joins
<1>4. \A i \in 1..Len(a) : i \in 1..Len(m) /\ l[i] = a[i]
  BY <1>1, <1>2, <1>3 DEF Joins
<1>5. l[Len(a) + 1] = c
  <2>1. Len(m) >= Len(a) + 1
    BY <1>1, <1>2
  <2>2. l[Len(a) + 1] = m[Len(a) + 1]
    BY <1>1, <1>3, <2>1
  <2> QED
    BY <2>2 DEF Joins
<1>6. ASSUME NEW i \in 1..Len(n)
      PROVE  l[Len(a) + 1 + i] = n[i]
  <2>1. CASE i <= Len(b)
    <3>1. i \in 1..Len(b)
      BY <1>1, <2>1
    <3>2. Len(a) + 1 + i >= 1 /\ Len(a) + 1 + i <= Len(m)
      BY <1>1, <1>2, <2>1
    <3>3. l[Len(a) + 1 + i] = m[Len(a) + 1 + i]
      BY <1>1, <1>3, <3>2
    <3> QED
      BY <3>1, <3>3 DEF Joins
  <2>2. CASE i = Len(b) + 1
    <3>1. Len(a) + 1 + i = Len(m) + 1
      BY <1>1, <1>2, <2>2
    <3>2. l[Len(m) + 1] = d /\ n[Len(b) + 1] = d
      BY Zenon DEF Joins
    <3> QED
      BY ONLY <2>2, <3>1, <3>2, Zenon
  <2>3. CASE i > Len(b) + 1
    <3>1. PICK k \in 1..Len(r) : i = Len(b) + 1 + k
      <4>1. i - Len(b) - 1 \in 1..Len(r) /\ i = Len(b) + 1 + (i - Len(b) - 1)
        BY <1>1, <1>2, <2>3
      <4> QED
        BY <4>1, Zenon
    <3>2. Len(a) + 1 + i = Len(m) + 1 + k
      BY <1>1, <1>2, <3>1
    <3>3. l[Len(m) + 1 + k] = r[k] /\ n[Len(b) + 1 + k] = r[k]
      BY Zenon DEF Joins
    <3> QED
      BY ONLY <3>1, <3>2, <3>3, Zenon
  <2> QED
    BY <1>1, <2>1, <2>2, <2>3
<1>7. Len(l) = Len(a) + 1 + Len(n)
  BY <1>1, <1>2
<1> QED
  BY <1>4, <1>5, <1>6, <1>7 DEF Joins

LEMMA Digits ==
  ASSUME NEW s \in Seq(HexDigit)
  PROVE  s \in Seq(Int) /\ Without(s, Underscore) /\ Without(s, Colon)
<1>1. HexDigit \subseteq Int /\ Underscore \notin HexDigit /\ Colon \notin HexDigit
  BY DEF HexDigit, Underscore, Colon
<1>2. \A i \in 1..Len(s) : s[i] \in HexDigit
  BY ElementOfSeq
<1> QED
  BY <1>1, <1>2, SeqMonotonic DEF Without

LEMMA SeparatorType == Underscore \in Int /\ Colon \in Int
  BY DEF Underscore, Colon

LEMMA TextParts ==
  ASSUME NEW v \in Text
  PROVE  /\ v \in Seq(Byte)
         /\ Hex(Len(v)) \in Seq(HexDigit)
         /\ HexBytes(v) \in Seq(HexDigit)
<1>1. v \in Seq(Byte) /\ Len(v) \in Nat /\ Len(v) < Powers16[8]
  BY LenProperties DEF Text
<1>2. IsPowers(Powers16)
  BY DEF IsPowers
<1>3. Hex(Len(v)) \in Seq(HexDigit)
  BY <1>1, <1>2, NumeralType DEF Hex
<1> QED
  BY <1>1, <1>3, HexBytesType

LEMMA EncodeType ==
  ASSUME NEW v \in Text
  PROVE  EncodeComponent(v) \in Seq(Int)
<1>1. Hex(Len(v)) \in Seq(Int) /\ HexBytes(v) \in Seq(Int)
  BY TextParts, Digits, Zenon
<1> QED
  BY <1>1, SeparatorType, JoinsConcat, Zenon DEF EncodeComponent

(* What an encoded text is followed by follows its bytes.                  *)
LEMMA EncodeFollowed ==
  ASSUME NEW v \in Text, NEW x \in Seq(Int), NEW l \in Seq(Int),
         Joins(l, EncodeComponent(v), Underscore, x)
  PROVE  \E p \in Seq(Int) : /\ Joins(l, Hex(Len(v)), Underscore, p)
                            /\ Joins(p, HexBytes(v), Underscore, x)
<1>1. PICK h \in Seq(Int) : h = Hex(Len(v))
  BY TextParts, Digits, Zenon
<1>2. PICK b \in Seq(Int) : b = HexBytes(v)
  BY TextParts, Digits, Zenon
<1>3. PICK e \in Seq(Int) : e = EncodeComponent(v)
  BY EncodeType, Zenon
<1>4. Joins(e, h, Underscore, b)
  BY <1>1, <1>2, <1>3, SeparatorType, JoinsConcat, Zenon DEF EncodeComponent
<1>5. PICK p \in Seq(Int) : Joins(p, b, Underscore, x)
  BY SeparatorType, JoinsConcat, Zenon
<1>6. Joins(l, e, Underscore, x)
  BY <1>3, Zenon
<1>7. Joins(l, h, Underscore, p)
  BY ONLY <1>4, <1>5, <1>6, x \in Seq(Int), l \in Seq(Int), RejoinedParts, Zenon
<1> QED
  BY <1>1, <1>2, <1>5, <1>7, Zenon

(* An encoded text can be told from what follows it.                       *)
LEMMA EncodeThen ==
  ASSUME NEW v \in Text, NEW w \in Text, NEW x \in Seq(Int), NEW y \in Seq(Int),
         NEW l \in Seq(Int),
         Joins(l, EncodeComponent(v), Underscore, x), Joins(l, EncodeComponent(w), Underscore, y)
  PROVE  v = w /\ x = y
<1>1. PICK p \in Seq(Int) : /\ Joins(l, Hex(Len(v)), Underscore, p)
                           /\ Joins(p, HexBytes(v), Underscore, x)
  BY EncodeFollowed, Zenon
<1>2. PICK q \in Seq(Int) : /\ Joins(l, Hex(Len(w)), Underscore, q)
                           /\ Joins(q, HexBytes(w), Underscore, y)
  BY EncodeFollowed, Zenon
<1>3. /\ Hex(Len(v)) \in Seq(Int) /\ Without(Hex(Len(v)), Underscore)
      /\ Hex(Len(w)) \in Seq(Int) /\ Without(Hex(Len(w)), Underscore)
  BY TextParts, Digits, Zenon
<1>4. Hex(Len(v)) = Hex(Len(w)) /\ p = q
  <2>1. Joins(l, Hex(Len(v)), Underscore, p) /\ Joins(l, Hex(Len(w)), Underscore, q)
    BY <1>1, <1>2
  <2> QED
    BY ONLY <1>3, <2>1, p \in Seq(Int), q \in Seq(Int), SeparatorType, SplitAtFirst, Zenon
<1>5. /\ HexBytes(v) \in Seq(Int) /\ Without(HexBytes(v), Underscore)
      /\ HexBytes(w) \in Seq(Int) /\ Without(HexBytes(w), Underscore)
  BY TextParts, Digits, Zenon
<1>6. Joins(p, HexBytes(w), Underscore, y)
  BY <1>2, <1>4, Zenon
<1>7. HexBytes(v) = HexBytes(w) /\ x = y
  BY ONLY <1>1, <1>5, <1>6, x \in Seq(Int), y \in Seq(Int), SeparatorType,
          SplitAtFirst, Zenon
<1>8. v \in Seq(Byte) /\ w \in Seq(Byte)
  BY TextParts
<1> QED
  BY <1>7, <1>8, HexBytesInjective, Zenon

LEMMA EncodeInjective ==
  ASSUME NEW v \in Text, NEW w \in Text, EncodeComponent(v) = EncodeComponent(w)
  PROVE  v = w
<1> DEFINE l == Joined(EncodeComponent(v), Underscore, <<>>)
<1>1. EncodeComponent(v) \in Seq(Int) /\ <<>> \in Seq(Int)
  BY EncodeType
<1>2. l \in Seq(Int) /\ Joins(l, EncodeComponent(v), Underscore, <<>>)
  BY <1>1, SeparatorType, JoinsConcat, Zenon
<1>3. Joins(l, EncodeComponent(w), Underscore, <<>>)
  BY <1>2, Zenon
<1> HIDE DEF l
<1> QED
  BY <1>1, <1>2, <1>3, EncodeThen, Zenon

LEMMA SamePrefix ==
  ASSUME NEW p \in Seq(Int), NEW x \in Seq(Int), NEW y \in Seq(Int),
         p \o x = p \o y
  PROVE  x = y
  BY ConcatSimplifications, Zenon

-----------------------------------------------------------------------------
(* Different chats are different sessions: no name, whatever it holds,     *)
(* makes SessionId::for_scope give two chats one session.                  *)
THEOREM SessionIdsAreDistinct ==
  ASSUME NEW s \in Scope, NEW t \in Scope, ForScope(s) = ForScope(t)
  PROVE  s = t
<1>1. /\ s.platform \in Text /\ s.scope \in Text
      /\ t.platform \in Text /\ t.scope \in Text
      /\ s = [platform |-> s.platform, scope |-> s.scope]
      /\ t = [platform |-> t.platform, scope |-> t.scope]
  BY DEF Scope
<1>2. /\ EncodeComponent(s.platform) \in Seq(Int) /\ EncodeComponent(s.scope) \in Seq(Int)
      /\ EncodeComponent(t.platform) \in Seq(Int) /\ EncodeComponent(t.scope) \in Seq(Int)
  BY <1>1, EncodeType, Zenon
<1>3. SessionPrefix \in Seq(Int)
  BY DEF SessionPrefix
<1> DEFINE a == Joined(EncodeComponent(s.platform), Underscore, EncodeComponent(s.scope))
           b == Joined(EncodeComponent(t.platform), Underscore, EncodeComponent(t.scope))
<1>4. /\ a \in Seq(Int) /\ Joins(a, EncodeComponent(s.platform), Underscore, EncodeComponent(s.scope))
      /\ b \in Seq(Int) /\ Joins(b, EncodeComponent(t.platform), Underscore, EncodeComponent(t.scope))
  BY <1>2, SeparatorType, JoinsConcat, Zenon
<1>5. SessionPrefix \o a = SessionPrefix \o b
  BY Zenon DEF ForScope
<1> HIDE DEF a, b
<1>6. a = b
  BY <1>3, <1>4, <1>5, SamePrefix, Zenon
<1>7. s.platform = t.platform /\ EncodeComponent(s.scope) = EncodeComponent(t.scope)
  BY <1>1, <1>2, <1>4, <1>6, EncodeThen, Zenon
<1>8. s.scope = t.scope
  BY <1>1, <1>7, EncodeInjective, Zenon
<1> QED
  BY <1>1, <1>7, <1>8, Zenon

(* Different deliveries are different events: EventId::                    *)
(* for_platform_delivery makes a duplicate only of what the same platform  *)
(* delivers again, under the same number, in the same chat.                *)
THEOREM EventIdsAreDistinct ==
  ASSUME NEW d \in PlatformDelivery, NEW e \in PlatformDelivery,
         ForPlatformDelivery(d) = ForPlatformDelivery(e)
  PROVE  d = e
<1>1. /\ d.platform \in Text /\ d.scope \in Text /\ d.delivery \in Text
      /\ e.platform \in Text /\ e.scope \in Text /\ e.delivery \in Text
      /\ d = [platform |-> d.platform, scope |-> d.scope, delivery |-> d.delivery]
      /\ e = [platform |-> e.platform, scope |-> e.scope, delivery |-> e.delivery]
  BY DEF PlatformDelivery
<1>2. /\ EncodeComponent(d.platform) \in Seq(Int) /\ EncodeComponent(d.scope) \in Seq(Int)
      /\ EncodeComponent(d.delivery) \in Seq(Int)
      /\ EncodeComponent(e.platform) \in Seq(Int) /\ EncodeComponent(e.scope) \in Seq(Int)
      /\ EncodeComponent(e.delivery) \in Seq(Int)
  BY <1>1, EncodeType, Zenon
<1>3. EventPrefix \in Seq(Int)
  BY DEF EventPrefix
<1> DEFINE u == Joined(EncodeComponent(d.scope), Underscore, EncodeComponent(d.delivery))
           w == Joined(EncodeComponent(e.scope), Underscore, EncodeComponent(e.delivery))
           a == Joined(EncodeComponent(d.platform), Underscore, u)
           b == Joined(EncodeComponent(e.platform), Underscore, w)
<1>4. EventPrefix \o a = EventPrefix \o b
  BY Zenon DEF ForPlatformDelivery
<1>5. /\ u \in Seq(Int) /\ Joins(u, EncodeComponent(d.scope), Underscore, EncodeComponent(d.delivery))
      /\ w \in Seq(Int) /\ Joins(w, EncodeComponent(e.scope), Underscore, EncodeComponent(e.delivery))
  BY <1>2, SeparatorType, JoinsConcat, Zenon
<1> HIDE DEF u, w
<1>6. /\ a \in Seq(Int) /\ Joins(a, EncodeComponent(d.platform), Underscore, u)
      /\ b \in Seq(Int) /\ Joins(b, EncodeComponent(e.platform), Underscore, w)
  BY <1>2, <1>5, SeparatorType, JoinsConcat, Zenon
<1> HIDE DEF a, b
<1>7. a = b
  BY <1>3, <1>4, <1>6, SamePrefix, Zenon
<1>8. Joins(a, EncodeComponent(e.platform), Underscore, w)
  BY <1>6, <1>7, Zenon
<1>9. d.platform = e.platform /\ u = w
  BY ONLY <1>1, <1>5, <1>6, <1>8, EncodeThen, Zenon
<1>10. Joins(u, EncodeComponent(e.scope), Underscore, EncodeComponent(e.delivery))
  BY <1>5, <1>9, Zenon
<1>11. d.scope = e.scope /\ EncodeComponent(d.delivery) = EncodeComponent(e.delivery)
  BY ONLY <1>1, <1>2, <1>5, <1>10, EncodeThen, Zenon
<1>12. d.delivery = e.delivery
  BY <1>1, <1>11, EncodeInjective, Zenon
<1> QED
  BY <1>1, <1>9, <1>11, <1>12, Zenon

-----------------------------------------------------------------------------
LEMMA DecimalText ==
  ASSUME NEW n \in OutputIndex
  PROVE  Decimal(n) \in Seq(HexDigit) \ {<<>>}
  BY NumeralType DEF OutputIndex, Decimal, IsPowers

LEMMA RunIdType ==
  ASSUME NEW r \in RunId
  PROVE  r \in Seq(IdByte) /\ r \in Seq(Int) /\ Len(r) \in OutputIndex
<1>1. r \in Seq(IdByte) /\ Len(r) \in Nat /\ Len(r) < Powers10[8]
  BY LenProperties DEF RunId, ValidId
<1>2. IdByte \subseteq Int
  BY DEF IdByte, Hyphen, Dot, Colon, Underscore
<1> QED
  BY <1>1, <1>2, SeqMonotonic DEF OutputIndex

(* Different outputs have different idempotency keys: no run id, whatever  *)
(* separators it holds, makes output_delivery_id give two outputs one.     *)
THEOREM OutputIdsAreDistinct ==
  ASSUME NEW r \in RunId, NEW s \in RunId, NEW i \in OutputIndex, NEW j \in OutputIndex,
         OutputDeliveryId(r, i) = OutputDeliveryId(s, j)
  PROVE  r = s /\ i = j
<1>1. /\ Decimal(i) \in Seq(Int) /\ Without(Decimal(i), Colon)
      /\ Decimal(j) \in Seq(Int) /\ Without(Decimal(j), Colon)
  BY DecimalText, Digits, Zenon
<1>2. /\ r \in Seq(Int) /\ s \in Seq(Int)
      /\ Decimal(Len(r)) \in Seq(Int) /\ Without(Decimal(Len(r)), Colon)
      /\ Decimal(Len(s)) \in Seq(Int) /\ Without(Decimal(Len(s)), Colon)
  BY RunIdType, DecimalText, Digits, Zenon
<1>3. OutputPrefix \in Seq(Int)
  BY DEF OutputPrefix
<1> DEFINE u == Joined(Decimal(Len(r)), Colon, r)
           w == Joined(Decimal(Len(s)), Colon, s)
           a == OutputPrefix \o u
           b == OutputPrefix \o w
           l == Joined(a, Colon, Decimal(i))
<1>4. l = Joined(b, Colon, Decimal(j))
  BY Zenon DEF OutputDeliveryId
<1>5. /\ u \in Seq(Int) /\ Joins(u, Decimal(Len(r)), Colon, r)
      /\ w \in Seq(Int) /\ Joins(w, Decimal(Len(s)), Colon, s)
  BY <1>2, SeparatorType, JoinsConcat, Zenon
<1> HIDE DEF u, w
<1>6. a \in Seq(Int) /\ b \in Seq(Int)
  BY <1>3, <1>5, ConcatProperties, Zenon
<1>7. a = b => u = w
  BY <1>3, <1>5, SamePrefix, Zenon
<1> HIDE DEF a, b
<1>8. Joins(l, a, Colon, Decimal(i))
  BY <1>1, <1>6, SeparatorType, JoinsConcat, Zenon
<1>9. Joins(l, b, Colon, Decimal(j))
  BY <1>1, <1>4, <1>6, SeparatorType, JoinsConcat, Zenon
<1> HIDE DEF l
<1>10. a = b /\ Decimal(i) = Decimal(j)
  BY ONLY <1>1, <1>6, <1>8, <1>9, SeparatorType, SplitAtLast, Zenon
<1>11. Joins(u, Decimal(Len(s)), Colon, s)
  BY <1>5, <1>7, <1>10, Zenon
<1>12. Decimal(Len(r)) = Decimal(Len(s)) /\ r = s
  <2>1. Joins(u, Decimal(Len(r)), Colon, r)
    BY <1>5
  <2> QED
    BY ONLY <1>2, <1>11, <2>1, SeparatorType, SplitAtFirst, Zenon
<1>13. i = j
  BY <1>10, DecimalInjective, Zenon DEF OutputIndex
<1> QED
  BY <1>12, <1>13

-----------------------------------------------------------------------------
LEMMA JoinedIds ==
  ASSUME NEW c \in IdByte, NEW a \in Seq(IdByte), NEW x \in Seq(IdByte)
  PROVE  Joined(a, c, x) \in Seq(IdByte)
<1>1. PICK e \in Seq(IdByte) : e = <<c>>
  <2>1. <<c>> \in Seq(IdByte)
    OBVIOUS
  <2> QED
    BY <2>1, Zenon
<1>2. e \o x \in Seq(IdByte)
  BY ConcatProperties, Zenon
<1>3. a \o (e \o x) \in Seq(IdByte)
  BY <1>2, ConcatProperties, Zenon
<1> QED
  BY <1>1, <1>3, Zenon DEF Joined

LEMMA DigitsAreIdBytes ==
  ASSUME NEW s \in Seq(HexDigit)
  PROVE  s \in Seq(IdByte)
<1>1. HexDigit \subseteq IdByte
  BY DEF HexDigit, IdByte
<1> QED
  BY <1>1, SeqMonotonic

LEMMA PrefixedId ==
  ASSUME NEW p \in Seq(IdByte), p # <<>>, NEW x \in Seq(IdByte)
  PROVE  p \o x \in ValidId
<1>1. p \o x \in Seq(IdByte) /\ Len(p \o x) = Len(p) + Len(x)
  BY ConcatProperties, Zenon
<1>2. Len(p) \in Nat \ {0} /\ Len(x) \in Nat
  BY EmptySeq, LenProperties
<1>3. Len(p \o x) # 0
  BY <1>1, <1>2
<1> QED
  BY <1>1, <1>3, EmptySeq DEF ValidId

(* Every session id that for_scope makes, which it does not validate, and  *)
(* every delivery id of an output is one that SessionId::new and           *)
(* OutboundDeliveryId::new accept: what is written of a chat or an output, *)
(* whatever its names, is read back.                                       *)
THEOREM DerivedIdsAreValid ==
  /\ \A s \in Scope : ForScope(s) \in ValidId
  /\ \A r \in RunId : \A i \in OutputIndex : OutputDeliveryId(r, i) \in OutboundDeliveryId
<1>1. Underscore \in IdByte /\ Colon \in IdByte
  BY DEF IdByte, Underscore, Colon
<1>2. ASSUME NEW v \in Text
      PROVE  EncodeComponent(v) \in Seq(IdByte)
  BY <1>1, TextParts, DigitsAreIdBytes, JoinedIds, Zenon DEF EncodeComponent
<1>3. ASSUME NEW s \in Scope
      PROVE  ForScope(s) \in ValidId
  <2>1. s.platform \in Text /\ s.scope \in Text
    BY DEF Scope
  <2>2. Joined(EncodeComponent(s.platform), Underscore, EncodeComponent(s.scope)) \in Seq(IdByte)
    BY <1>1, <1>2, <2>1, JoinedIds, Zenon
  <2>3. SessionPrefix \in Seq(IdByte) /\ SessionPrefix # <<>>
    BY SMT DEF SessionPrefix, IdByte, Underscore
  <2> QED
    BY <2>2, <2>3, PrefixedId, Zenon DEF ForScope
<1>4. ASSUME NEW r \in RunId, NEW i \in OutputIndex
      PROVE  OutputDeliveryId(r, i) \in ValidId
  <2>1. /\ r \in Seq(IdByte)
        /\ Decimal(Len(r)) \in Seq(IdByte)
        /\ Decimal(i) \in Seq(IdByte)
    BY RunIdType, DecimalText, DigitsAreIdBytes, Zenon
  <2>2. Joined(Decimal(Len(r)), Colon, r) \in Seq(IdByte)
    BY <1>1, <2>1, JoinedIds, Zenon
  <2>3. OutputPrefix \in Seq(IdByte) /\ OutputPrefix # <<>>
    BY SMT DEF OutputPrefix, IdByte, Hyphen, Colon
  <2>4. OutputPrefix \o Joined(Decimal(Len(r)), Colon, r) \in Seq(IdByte)
    BY <2>2, <2>3, ConcatProperties, Zenon
  <2>5. OutputDeliveryId(r, i) \in Seq(IdByte)
    BY <1>1, <2>1, <2>4, JoinedIds, Zenon DEF OutputDeliveryId
  <2>6. OutputDeliveryId(r, i) # <<>>
    <3> DEFINE a == OutputPrefix \o Joined(Decimal(Len(r)), Colon, r)
    <3>1. a \in Seq(Int) /\ Decimal(i) \in Seq(Int)
      <4>1. IdByte \subseteq Int
        BY DEF IdByte, Hyphen, Dot, Colon, Underscore
      <4> QED
        BY <2>1, <2>4, <4>1, SeqMonotonic
    <3> HIDE DEF a
    <3>2. Joins(Joined(a, Colon, Decimal(i)), a, Colon, Decimal(i))
      BY <3>1, SeparatorType, JoinsConcat, Zenon
    <3>3. Len(Joined(a, Colon, Decimal(i))) # 0
      BY <3>1, <3>2, LenProperties DEF Joins
    <3> QED
      BY <3>3, EmptySeq, Zenon DEF a, OutputDeliveryId
  <2> QED
    BY <2>5, <2>6, Zenon DEF ValidId
<1> QED
  BY <1>3, <1>4 DEF OutboundDeliveryId

-----------------------------------------------------------------------------
(* An attempt names one chat, the one its delivery was queued for:         *)
(* OutboundDeliveryAttempt::from_record accepts no other, because no other *)
(* has that session.                                                       *)
THEOREM AttemptNamesOneChat ==
  ASSUME NEW s \in Scope
  PROVE  AttemptScopes(ForScope(s), Scope) = {s}
  BY SessionIdsAreDistinct, Zenon DEF AttemptScopes

(* AccessPolicy::evaluate admits exactly the listed principals, in exactly *)
(* the listed chats, and of them exactly the administrators administer.    *)
(* The policy compares session ids, not chats.                             *)
THEOREM AccessIsExact ==
  ASSUME NEW principals \in SUBSET Principal, NEW scopes \in SUBSET Scope,
         NEW administrators \in SUBSET Principal,
         IsPolicy(Policy(principals, scopes, administrators)),
         NEW principal \in Principal, NEW scope \in Scope, NEW action \in Actions
  PROVE  (Evaluate(Policy(principals, scopes, administrators), principal, scope, action)
            = "Allowed")
           <=> /\ scope \in scopes
               /\ action = "InvokeAgent" => principal \in principals
               /\ action = "AdministerBridge" => principal \in administrators
<1> DEFINE policy == Policy(principals, scopes, administrators)
<1>1. /\ policy.principals = principals
      /\ policy.administrators = administrators
      /\ policy.sessions = {ForScope(s) : s \in scopes}
  BY DEF Policy
<1>2. ForScope(scope) \in {ForScope(s) : s \in scopes} <=> scope \in scopes
  BY SessionIdsAreDistinct, Zenon
<1>3. administrators \subseteq principals
  BY <1>1 DEF IsPolicy
<1> HIDE DEF policy
<1>4. (action = "AdministerBridge") <=> ~(action = "InvokeAgent")
  BY DEF Actions
<1>5. (Evaluate(policy, principal, scope, action) = "Allowed")
        <=> /\ principal \in principals
            /\ ForScope(scope) \in {ForScope(s) : s \in scopes}
            /\ ~(action = "AdministerBridge" /\ principal \notin administrators)
  BY <1>1 DEF Evaluate
<1> QED
  BY <1>2, <1>3, <1>4, <1>5, Zenon DEF policy

(* An agent is run in the listed directories only, and each of them is     *)
(* below a filesystem root, with no way up in its path: a requested path   *)
(* is allowed exactly if it is spelled like a listed root.  (Paths with    *)
(* one spelling are one path.)                                             *)
THEOREM WorkspaceAccessIsExact ==
  ASSUME NEW allowed \in SUBSET WorkspaceRoot, NEW requested \in Path,
         \A root \in allowed : root.spelling = requested.spelling => root = requested
  PROVE  /\ (EvaluateRoot(allowed, requested) = "Allowed") <=> requested \in allowed
         /\ EvaluateRoot(allowed, requested) = "Allowed" =>
              \A i \in DOMAIN requested.components : requested.components[i] # "parent"
<1>1. (requested.spelling \in {root.spelling : root \in allowed}) <=> requested \in allowed
  OBVIOUS
<1>2. requested \in allowed => IsWorkspaceRoot(requested)
  BY DEF WorkspaceRoot
<1>3. (EvaluateRoot(allowed, requested) = "Allowed")
        <=> /\ IsWorkspaceRoot(requested)
            /\ requested.spelling \in {root.spelling : root \in allowed}
  BY DEF EvaluateRoot
<1>4. IsWorkspaceRoot(requested) =>
        \A i \in DOMAIN requested.components : requested.components[i] # "parent"
  BY Zenon DEF IsWorkspaceRoot
<1> QED
  BY <1>1, <1>2, <1>3, <1>4, Zenon

===============================================================================
