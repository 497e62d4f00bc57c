--------------------------- MODULE BaselineProofs ---------------------------
(***************************************************************************)
(* Proofs about Baseline, for every tree of paths: its type invariant and  *)
(* its three action properties.                                            *)
(*                                                                         *)
(* A commit, a restore and a lookup are folds over lists of any length.    *)
(* The library states a fold as a CHOOSE of a function on subsets of the   *)
(* positions; SeqFoldExists shows that there is one, by an induction that  *)
(* SetNatInduction states about a set of naturals instead of a predicate,  *)
(* and each lemma named ...Steps reads a fold of the module off it as a    *)
(* sequence of states h[0], h[1], ...  Invariants of those states then     *)
(* give what a whole commit, restore or lookup does.                       *)
(***************************************************************************)
EXTENDS Baseline, Integers, FiniteSetTheorems, SequenceTheorems, TLAPS

(* A set of naturals with 0 and the successors of its members has them all. *)
LEMMA SetNatInduction ==
  ASSUME NEW T, 0 \in T, \A n \in Nat : n \in T => n + 1 \in T
  PROVE  Nat \subseteq T
<1> SUFFICES ASSUME NEW m \in Nat, m \notin T PROVE FALSE
  OBVIOUS
<1> DEFINE Missing == {1..n : n \in Nat \ T}
           R == StrictSubsetOrdering(Nat)
<1>1. IsWellFoundedOn(R, FiniteSubsetsOf(Nat))
  BY FS_StrictSubsetOrderingWellFounded
<1>2. Missing \subseteq FiniteSubsetsOf(Nat)
  <2>1. \A n \in Nat : IsFiniteSet(1..n) /\ 1..n \in SUBSET Nat
    BY FS_Interval
  <2> QED BY <2>1 DEF FiniteSubsetsOf
<1>3. Missing # {}
  OBVIOUS
<1>4. PICK S \in Missing : \A U \in Missing : <<U, S>> \notin R
  <2> HIDE DEF Missing, R
  <2> QED BY <1>1, <1>2, <1>3, WFMin
<1>5. PICK n \in Nat \ T : S = 1..n
  OBVIOUS
<1>6. n # 0 /\ n - 1 \in Nat \ T
  BY <1>5
<1>7. 1..(n - 1) \in Missing
  BY <1>6
<1>8. <<1..(n - 1), S>> \in R
  BY <1>5, <1>6 DEF StrictSubsetOrdering
<1> QED BY <1>4, <1>7, <1>8

(* The functions that folds over finite sets are computed by. *)
Folding(g, S, base, G, pick) ==
  \A s \in SUBSET S :
    g[s] = IF s = {} THEN base ELSE G[<<g[s \ {pick[s]}], pick[s]>>]

LEMMA FoldExists ==
  ASSUME NEW S, IsFiniteSet(S), NEW T, NEW base \in T, NEW G \in [T \X S -> T],
         NEW pick \in [(SUBSET S) \ {{}} -> S],
         \A s \in SUBSET S : s # {} => pick[s] \in s
  PROVE  \E g \in [SUBSET S -> T] : Folding(g, S, base, G, pick)
<1> DEFINE Eq(g, s) == g[s] = IF s = {} THEN base ELSE G[<<g[s \ {pick[s]}], pick[s]>>]
           Sizes == {n \in Nat : \E g \in [SUBSET S -> T] :
                       \A s \in SUBSET S : Cardinality(s) <= n => Eq(g, s)}
<1>0. \A s \in SUBSET S : IsFiniteSet(s) /\ Cardinality(s) \in Nat /\ Cardinality(s) <= Cardinality(S)
  BY FS_Subset, FS_CardinalityType
<1>1. 0 \in Sizes
  <2>1. \A s \in SUBSET S : Cardinality(s) <= 0 => s = {}
    BY <1>0, FS_EmptySet
  <2>2. \A s \in SUBSET S : Cardinality(s) <= 0 => Eq([t \in SUBSET S |-> base], s)
    BY <2>1
  <2> QED BY <2>2
<1>2. ASSUME NEW n \in Nat, n \in Sizes PROVE n + 1 \in Sizes
  <2>1. PICK g \in [SUBSET S -> T] : \A s \in SUBSET S : Cardinality(s) <= n => Eq(g, s)
    BY <1>2
  <2> DEFINE h == [s \in SUBSET S |-> IF Cardinality(s) <= n THEN g[s]
                                      ELSE IF s = {} THEN base
                                      ELSE G[<<g[s \ {pick[s]}], pick[s]>>]]
  <2>2. h \in [SUBSET S -> T]
    OBVIOUS
  <2>3. ASSUME NEW s \in SUBSET S, Cardinality(s) <= n + 1 PROVE Eq(h, s)
    <3>1. CASE s = {}
      <4>1. Cardinality(s) = 0
        BY <3>1, FS_EmptySet
      <4> QED BY <3>1, <4>1, <2>1
    <3>2. CASE s # {}
      <4>1. Cardinality(s \ {pick[s]}) = Cardinality(s) - 1
        BY <3>2, <1>0, FS_RemoveElement
      <4>2. h[s \ {pick[s]}] = g[s \ {pick[s]}]
        BY <1>0, <2>3, <4>1
      <4>3. CASE Cardinality(s) <= n
        BY <4>2, <4>3, <2>1, <3>2
      <4>4. CASE ~ Cardinality(s) <= n
        BY <4>2, <4>4, <3>2
      <4> QED BY <4>3, <4>4
    <3> QED BY <3>1, <3>2
  <2> HIDE DEF h
  <2>4. \E g1 \in [SUBSET S -> T] : \A s \in SUBSET S : Cardinality(s) <= n + 1 => Eq(g1, s)
    <3> HIDE DEF Eq
    <3> QED BY <2>2, <2>3
  <2>5. n + 1 \in Nat
    OBVIOUS
  <2> HIDE DEF Eq
  <2> QED BY <2>4, <2>5
<1>3. Nat \subseteq Sizes
  <2> HIDE DEF Sizes
  <2> QED BY <1>1, <1>2, SetNatInduction
<1>4. Cardinality(S) \in Sizes
  BY <1>3, FS_CardinalityType
<1>5. PICK g \in [SUBSET S -> T] : \A s \in SUBSET S : Cardinality(s) <= Cardinality(S) => Eq(g, s)
  BY <1>4
<1> QED BY <1>5, <1>0 DEF Folding

(* A fold over a sequence takes out the last element first. *)
LEMMA MaxOfInterval ==
  ASSUME NEW k \in Nat, k # 0
  PROVE  Max(1..k) = k /\ (1..k) \ {Max(1..k)} = 1..(k - 1)
<1>1. \A x \in 1..k : (\A y \in 1..k : x >= y) <=> x = k
  OBVIOUS
<1>2. Max(1..k) = k
  BY <1>1 DEF Max
<1> QED BY <1>2

LEMMA MaxOfSet ==
  ASSUME NEW n \in Nat, NEW s \in SUBSET (1..n), s # {}
  PROVE  Max(s) \in s
<1> DEFINE Above == {m \in Nat : \E x \in s : x = n - m}
<1>0. PICK z \in s : TRUE
  OBVIOUS
<1>1. \E x \in s : \A y \in s : x >= y
  <2> SUFFICES ASSUME \A x \in s : \E y \in s : ~ (x >= y) PROVE FALSE
    OBVIOUS
  <2> DEFINE T == {m \in Nat : \E x \in s : x >= m}
  <2>1. 0 \in T
    BY <1>0
  <2>2. \A m \in Nat : m \in T => m + 1 \in T
    <3> SUFFICES ASSUME NEW m \in Nat, NEW x \in s, x >= m PROVE \E y \in s : y >= m + 1
      OBVIOUS
    <3>1. PICK y \in s : ~ (x >= y)
      OBVIOUS
    <3>2. x \in Int /\ y \in Int
      OBVIOUS
    <3> QED BY <3>1, <3>2
  <2>3. Nat \subseteq T
    <3> HIDE DEF T
    <3> QED BY <2>1, <2>2, SetNatInduction
  <2>4. n + 1 \in T
    <3> HIDE DEF T
    <3> QED BY <2>3
  <2> QED BY <2>4
<1> QED BY <1>1 DEF Max

(* The functions that folds over sequences are computed by. *)
SeqFolding(g, n, base, G) ==
  \A s \in SUBSET (1..n) :
    g[s] = IF s = {} THEN base ELSE G[<<g[s \ {Max(s)}], Max(s)>>]

LEMMA SeqFoldExists ==
  ASSUME NEW n \in Nat, NEW T, NEW base \in T, NEW G \in [T \X (1..n) -> T]
  PROVE  \E g \in [SUBSET (1..n) -> T] : SeqFolding(g, n, base, G)
<1> DEFINE S == 1..n
           pick == [s \in (SUBSET S) \ {{}} |-> Max(s)]
<1>1. IsFiniteSet(S)
  BY FS_Interval
<1>2. \A s \in SUBSET S : s # {} => Max(s) \in s
  BY MaxOfSet
<1>3. pick \in [(SUBSET S) \ {{}} -> S]
  <2> HIDE DEF S
  <2> QED BY <1>2
<1>4. \A s \in SUBSET S : s # {} => pick[s] = Max(s)
  <2> HIDE DEF S
  <2> QED OBVIOUS
<1>5. \A s \in SUBSET S : s # {} => pick[s] \in s
  <2> HIDE DEF S, pick
  <2> QED BY <1>2, <1>4
<1>6. G \in [T \X S -> T]
  OBVIOUS
<1>7. PICK g \in [SUBSET S -> T] : Folding(g, S, base, G, pick)
  <2> HIDE DEF S, pick
  <2> QED BY <1>1, <1>3, <1>5, <1>6, FoldExists
<1>8. SeqFolding(g, n, base, G)
  <2> HIDE DEF pick
  <2> QED BY <1>4, <1>7 DEF SeqFolding, Folding
<1> QED BY <1>8

(* The steps of a fold; "Keeping", "Searching" and the like below are the   *)
(* steps of the folds of the module.                                       *)
LEMMA Intervals ==
  ASSUME NEW n \in Nat
  PROVE  /\ 1..0 = {} /\ {} \in SUBSET (1..n)
         /\ \A k \in 1..n : /\ 1..k \in SUBSET (1..n) /\ 1..k # {}
                            /\ Max(1..k) = k /\ (1..k) \ {Max(1..k)} = 1..(k - 1)
<1> SUFFICES ASSUME NEW k \in 1..n
             PROVE  /\ 1..k \in SUBSET (1..n) /\ 1..k # {}
                    /\ Max(1..k) = k /\ (1..k) \ {Max(1..k)} = 1..(k - 1)
  OBVIOUS
<1>1. k \in Nat /\ k # 0 /\ k <= n
  OBVIOUS
<1>2. k \in 1..k /\ \A i \in 1..k : i \in 1..n
  BY <1>1
<1> QED BY <1>1, <1>2, MaxOfInterval

Keeping(h, s, P) ==
  /\ h[0] = <<>>
  /\ \A k \in 1..Len(s) : h[k] = IF s[k] \in P THEN Append(h[k - 1], s[k]) ELSE h[k - 1]

LEMMA KeepSteps ==
  ASSUME NEW X, NEW P, NEW s \in Seq(X)
  PROVE  \E h : Keep(s, P) = h[Len(s)] /\ Keeping(h, s, P)
<1> DEFINE n == Len(s)
           T == Seq(X)
           base == <<>>
           Op(t, x) == IF x \in P THEN Append(t, x) ELSE t
           G == [z \in T \X (1..n) |-> Op(z[1], s[z[2]])]
           Eq(f) == f = [d \in SUBSET (1..n) |-> IF d = {} THEN base
                                                 ELSE Op(f[d \ {Max(d)}], s[Max(d)])]
           f == CHOOSE f : Eq(f)
           h == [k \in 0..n |-> f[1..k]]
<1>1. n \in Nat /\ DOMAIN s = 1..n /\ \A i \in 1..n : s[i] \in X
  BY LenProperties, ElementOfSeq
<1>2. Keep(s, P) = f[1..n]
  BY <1>1 DEF Keep, FoldLeft, MapThenFoldSet
<1>3. base \in T /\ \A t \in T, x \in X : Op(t, x) \in T
  BY EmptySeq, AppendProperties
<1> HIDE DEF T, Op, base
<1>4. G \in [T \X (1..n) -> T]
  BY <1>1, <1>3
<1>5. PICK g \in [SUBSET (1..n) -> T] : SeqFolding(g, n, base, G)
  <2> HIDE DEF G, n
  <2> QED BY <1>1, <1>3, <1>4, SeqFoldExists
<1>6. Eq(g)
  <2>1. \A d \in SUBSET (1..n) : d # {} =>
          G[<<g[d \ {Max(d)}], Max(d)>>] = Op(g[d \ {Max(d)}], s[Max(d)])
    BY <1>1, MaxOfSet
  <2> HIDE DEF G
  <2> QED BY <1>5, <2>1 DEF SeqFolding
<1>7. Eq(f)
  <2> HIDE DEF Eq
  <2> QED BY <1>6
<1> HIDE DEF f
<1>8. f[1..0] = base /\ \A k \in 1..n : f[1..k] = Op(f[1..(k - 1)], s[k])
  <2>1. \A d \in SUBSET (1..n) :
          f[d] = IF d = {} THEN base ELSE Op(f[d \ {Max(d)}], s[Max(d)])
    BY <1>7
  <2> HIDE DEF n, Eq
  <2>2. f[1..0] = base
    BY <1>1, <2>1, Intervals
  <2>3. ASSUME NEW k \in 1..n PROVE f[1..k] = Op(f[1..(k - 1)], s[k])
    <3>1. /\ 1..k \in SUBSET (1..n) /\ 1..k # {}
          /\ Max(1..k) = k /\ (1..k) \ {Max(1..k)} = 1..(k - 1)
      BY <1>1, Intervals
    <3>2. f[1..k] = Op(f[(1..k) \ {Max(1..k)}], s[Max(1..k)])
      BY <2>1, <3>1
    <3> QED BY <3>1, <3>2
  <2> QED BY <2>2, <2>3
<1>9. h[0] = base /\ h[n] = f[1..n] /\ \A k \in 1..n : h[k] = Op(h[k - 1], s[k])
  BY <1>1, <1>8
<1> HIDE DEF h
<1> QED BY <1>2, <1>9 DEF Keeping, base, Op

-----------------------------------------------------------------------------
(* Paths. *)

LEMMA OrderFacts == Order \in Seq(Seq(Name)) /\ DOMAIN Order = 1..Len(Order) /\ Len(Order) \in Nat
BY PathsAssumption, LenProperties

LEMMA FirstElements ==
  ASSUME NEW X, NEW s \in Seq(X), NEW m \in 0..Len(s)
  PROVE  /\ SubSeq(s, 1, m) \in Seq(X) /\ Len(SubSeq(s, 1, m)) = m
         /\ \A i \in 1..m : SubSeq(s, 1, m)[i] = s[i]
<1> DEFINE t == SubSeq(s, 1, m)
<1>1. Len(s) \in Nat /\ m \in Int /\ 1 \in Int /\ m \in Nat
  BY LenProperties
<1>2. \A i \in 1..m : s[i] \in X
  BY <1>1, ElementOfSeq
<1>3. /\ t \in Seq(X) /\ Len(t) = IF 1 <= m THEN m - 1 + 1 ELSE 0
      /\ \A i \in 1..m - 1 + 1 : t[i] = s[1 + i - 1]
  BY <1>1, <1>2, SubSeqProperties
<1> HIDE DEF t
<1>4. Len(t) = m
  BY <1>1, <1>3
<1>5. ASSUME NEW i \in 1..m PROVE t[i] = s[i]
  <2>1. m - 1 + 1 = m /\ 1 + i - 1 = i
    BY <1>1
  <2> QED BY <1>3, <2>1
<1> QED BY <1>3, <1>4, <1>5 DEF t

LEMMA PathFacts ==
  ASSUME NEW p \in Path
  PROVE  /\ p \in Seq(Name) /\ Len(p) \in Nat \ {0}
         /\ Last(p) = p[Len(p)] /\ Last(p) \in Name
         /\ Front(p) \in Seq(Name) /\ Len(Front(p)) = Len(p) - 1
         /\ \A i \in 1..Len(p) - 1 : Front(p)[i] = p[i]
         /\ p = Append(Front(p), Last(p))
<1>1. p \in Seq(Name)
  BY OrderFacts DEF Path, Range
<1>2. Len(p) \in Nat \ {0}
  BY <1>1, PathsAssumption, EmptySeq DEF Root
<1>3. Last(p) = p[Len(p)] /\ Last(p) \in Name
  BY <1>1, <1>2, ElementOfSeq DEF Last
<1>4. /\ Front(p) \in Seq(Name) /\ Len(Front(p)) = Len(p) - 1
      /\ \A i \in 1..Len(p) - 1 : Front(p)[i] = p[i]
  <2> DEFINE m == Len(p) - 1
  <2>1. m \in 0..Len(p)
    BY <1>2
  <2> HIDE DEF m
  <2>2. /\ SubSeq(p, 1, m) \in Seq(Name) /\ Len(SubSeq(p, 1, m)) = m
        /\ \A i \in 1..m : SubSeq(p, 1, m)[i] = p[i]
    BY <1>1, <2>1, FirstElements
  <2> QED BY <2>2 DEF Front, m
<1>5. p = Append(Front(p), Last(p))
  <2> DEFINE f == Front(p)
             a == Append(Front(p), Last(p))
  <2> HIDE DEF f
  <2>1. /\ a \in Seq(Name) /\ Len(a) = Len(p)
        /\ \A i \in 1..Len(p) - 1 : a[i] = Front(p)[i] /\ a[Len(p)] = Last(p)
    BY <1>2, <1>3, <1>4, AppendProperties
  <2>2. \A i \in 1..Len(p) : p[i] = a[i]
    <3> SUFFICES ASSUME NEW i \in 1..Len(p) PROVE p[i] = a[i]
      OBVIOUS
    <3>1. CASE i = Len(p)
      <4>1. a[Len(p)] = Last(p)
        BY <1>2, <1>3, <1>4, AppendProperties
      <4> HIDE DEF a
      <4> QED BY <3>1, <4>1, <1>3
    <3>2. CASE i # Len(p)
      <4>1. i \in 1..Len(p) - 1
        BY <1>2, <3>2
      <4> HIDE DEF a
      <4> QED BY <2>1, <4>1, <1>4
    <3> QED BY <3>1, <3>2
  <2>3. a \in Seq(Name) /\ Len(p) = Len(a)
    BY <2>1
  <2> HIDE DEF a
  <2>4. p = a
    BY <1>1, <2>2, <2>3, SeqEqual
  <2> QED BY <2>4 DEF a, f
<1> QED BY <1>1, <1>2, <1>3, <1>4, <1>5

LEMMA ParentIsDir ==
  ASSUME NEW p \in Path, Len(p) > 1
  PROVE  Front(p) \in Path /\ IsDir(Front(p))
<1>1. PICK i \in DOMAIN Order : p = Order[i]
  BY DEF Path, Range
<1>2. PICK j \in 1..i-1 : Order[j] = Front(Order[i]) /\ IsDir(Order[j])
  BY <1>1, PathsAssumption
<1>3. j \in DOMAIN Order
  BY <1>1, <1>2, OrderFacts
<1> QED BY <1>1, <1>2, <1>3 DEF Path, Range

LEMMA PrefixElements ==
  ASSUME NEW p \in Seq(Name), NEW q \in Seq(Name)
  PROVE  IsPrefix(p, q) <=> Len(p) <= Len(q) /\ \A i \in 1..Len(p) : p[i] = q[i]
<1>1. Len(p) \in Nat /\ Len(q) \in Nat
  BY LenProperties
<1>2. CASE Len(p) <= Len(q)
  <2> DEFINE n == Len(p)
  <2>1. n \in 0..Len(p) /\ n \in 0..Len(q)
    BY <1>1, <1>2
  <2>2. /\ SubSeq(p, 1, n) \in Seq(Name) /\ Len(SubSeq(p, 1, n)) = n
        /\ \A i \in 1..n : SubSeq(p, 1, n)[i] = p[i]
    BY <2>1, FirstElements
  <2>3. /\ SubSeq(q, 1, n) \in Seq(Name) /\ Len(SubSeq(q, 1, n)) = n
        /\ \A i \in 1..n : SubSeq(q, 1, n)[i] = q[i]
    BY <2>1, FirstElements
  <2>4. SubSeq(p, 1, n) = SubSeq(q, 1, n) <=> \A i \in 1..n : p[i] = q[i]
    <3>1. ASSUME SubSeq(p, 1, n) = SubSeq(q, 1, n) PROVE \A i \in 1..n : p[i] = q[i]
      BY <2>2, <2>3, <3>1
    <3>2. ASSUME \A i \in 1..n : p[i] = q[i] PROVE SubSeq(p, 1, n) = SubSeq(q, 1, n)
      BY <2>2, <2>3, <3>2, SeqEqual
    <3> QED BY <3>1, <3>2
  <2> QED BY <1>2, <2>4 DEF IsPrefix
<1>3. CASE ~ Len(p) <= Len(q)
  BY <1>3 DEF IsPrefix
<1> QED BY <1>2, <1>3

LEMMA PrefixOrder ==
  ASSUME NEW p \in Path, NEW q \in Path
  PROVE  /\ IsPrefix(p, p)
         /\ \A r \in Path : IsPrefix(p, q) /\ IsPrefix(q, r) => IsPrefix(p, r)
         /\ IsPrefix(p, q) /\ IsPrefix(q, p) => p = q
         /\ IsPrefix(p, q) /\ p # q => /\ Len(q) > 1 /\ Len(p) < Len(q)
                                       /\ IsPrefix(p, Front(q))
         /\ Len(q) > 1 => IsPrefix(Front(q), q)
<1>1. \A r \in Path : r \in Seq(Name) /\ Len(r) \in Nat \ {0}
  BY PathFacts
<1>2. \A r, s \in Path :
        IsPrefix(r, s) <=> Len(r) <= Len(s) /\ \A i \in 1..Len(r) : r[i] = s[i]
  BY <1>1, PrefixElements
<1>3. IsPrefix(p, p)
  BY <1>1, <1>2
<1>4. ASSUME NEW r \in Path, IsPrefix(p, q), IsPrefix(q, r) PROVE IsPrefix(p, r)
  BY <1>1, <1>2, <1>4
<1>5. ASSUME IsPrefix(p, q), Len(p) = Len(q) PROVE p = q
  BY <1>1, <1>2, <1>5, SeqEqual
<1>6. ASSUME IsPrefix(p, q), p # q PROVE Len(q) > 1 /\ Len(p) < Len(q) /\ IsPrefix(p, Front(q))
  <2>1. Len(p) < Len(q) /\ Len(q) > 1
    BY <1>1, <1>2, <1>5, <1>6
  <2>2. Front(q) \in Path /\ Len(Front(q)) = Len(q) - 1 /\ \A i \in 1..Len(q) - 1 : Front(q)[i] = q[i]
    BY <2>1, ParentIsDir, PathFacts
  <2>3. /\ Len(p) <= Len(q) - 1
        /\ \A i \in 1..Len(p) : p[i] = q[i] /\ i \in 1..Len(q) - 1
    BY <1>1, <1>2, <1>6, <2>1
  <2>4. \A i \in 1..Len(p) : p[i] = Front(q)[i]
    BY <2>2, <2>3
  <2> QED BY <1>2, <2>1, <2>2, <2>3, <2>4
<1>7. ASSUME Len(q) > 1 PROVE IsPrefix(Front(q), q)
  <2>1. Front(q) \in Path /\ Len(Front(q)) = Len(q) - 1 /\ \A i \in 1..Len(q) - 1 : Front(q)[i] = q[i]
    BY <1>7, ParentIsDir, PathFacts
  <2> QED BY <1>1, <1>2, <2>1
<1>8. IsPrefix(p, q) /\ IsPrefix(q, p) => p = q
  BY <1>1, <1>2, <1>5
<1> QED BY <1>3, <1>4, <1>6, <1>7, <1>8

(* What has the parent of all it has, has every directory above as well,   *)
(* and only directories have something below them.                         *)
LEMMA Ancestors ==
  ASSUME NEW S \in SUBSET Path, \A n \in S : HasParent(S, n),
         NEW p \in Path, NEW q \in S, IsPrefix(p, q)
  PROVE  p \in S
<1> DEFINE T == {m \in Nat : \A r \in S : Len(r) = m /\ IsPrefix(p, r) => p \in S}
<1>1. 0 \in T
  BY PathFacts
<1>2. ASSUME NEW m \in Nat, m \in T PROVE m + 1 \in T
  <2> SUFFICES ASSUME NEW r \in S, Len(r) = m + 1, IsPrefix(p, r), p # r PROVE p \in S
    OBVIOUS
  <2>1. Len(r) > 1 /\ IsPrefix(p, Front(r))
    BY PrefixOrder
  <2>2. Front(r) \in S
    <3>1. HasParent(S, r) /\ Len(r) # 1
      BY <2>1, PathFacts
    <3> QED BY <3>1 DEF HasParent
  <2>3. Len(Front(r)) = m
    BY PathFacts
  <2> QED BY <1>2, <2>1, <2>2, <2>3
<1>3. Nat \subseteq T
  <2> HIDE DEF T
  <2> QED BY <1>1, <1>2, SetNatInduction
<1>4. Len(q) \in T
  <2> HIDE DEF T
  <2> QED BY <1>3, PathFacts
<1> QED BY <1>4

LEMMA OnlyDirsHaveBelow ==
  ASSUME NEW p \in Path, NEW q \in Path, IsPrefix(p, q), p # q
  PROVE  IsDir(p)
<1> DEFINE Dirs == {r \in Path : IsDir(r)}
           T == {m \in Nat : \A r \in Path : Len(r) = m /\ IsPrefix(p, r) /\ p # r => IsDir(p)}
<1>1. 0 \in T
  BY PathFacts
<1>2. ASSUME NEW m \in Nat, m \in T PROVE m + 1 \in T
  <2> SUFFICES ASSUME NEW r \in Path, Len(r) = m + 1, IsPrefix(p, r), p # r PROVE IsDir(p)
    OBVIOUS
  <2>1. Len(r) > 1 /\ IsPrefix(p, Front(r))
    BY PrefixOrder
  <2>2. Front(r) \in Path /\ IsDir(Front(r)) /\ Len(Front(r)) = m
    BY <2>1, ParentIsDir, PathFacts
  <2> QED BY <1>2, <2>1, <2>2
<1>3. Nat \subseteq T
  <2> HIDE DEF T
  <2> QED BY <1>1, <1>2, SetNatInduction
<1>4. Len(q) \in T
  <2> HIDE DEF T
  <2> QED BY <1>3, PathFacts
<1> QED BY <1>4
-----------------------------------------------------------------------------
(* Lists of records. *)

LEMMA AppendFacts ==
  ASSUME NEW X, NEW t \in Seq(X), NEW x \in X
  PROVE  /\ Append(t, x) \in Seq(X) /\ Range(Append(t, x)) = Range(t) \cup {x}
         /\ IsInjective(t) /\ x \notin Range(t) => IsInjective(Append(t, x))
<1> DEFINE a == Append(t, x)
           n == Len(t)
<1>1. n \in Nat /\ DOMAIN t = 1..n
  BY LenProperties
<1>2. /\ a \in Seq(X) /\ Len(a) = n + 1 /\ \A i \in 1..n : a[i] = t[i]
      /\ a[n + 1] = x
  BY AppendProperties
<1>3. DOMAIN a = 1..(n + 1)
  BY <1>2, LenProperties
<1> HIDE DEF a
<1>4. 1..(n + 1) = 1..n \cup {n + 1} /\ n + 1 \notin 1..n
  BY <1>1
<1>5. Range(a) = Range(t) \cup {x}
  BY <1>1, <1>2, <1>3, <1>4 DEF Range
<1>6. ASSUME IsInjective(t), x \notin Range(t) PROVE IsInjective(a)
  <2> SUFFICES ASSUME NEW i \in 1..n \cup {n + 1}, NEW j \in 1..n \cup {n + 1}, a[i] = a[j]
               PROVE  i = j
    BY <1>3, <1>4 DEF IsInjective
  <2>1. \A k \in 1..n : a[k] = t[k] /\ t[k] # x
    BY <1>1, <1>2, <1>6 DEF Range
  <2>2. \A k, l \in 1..n : t[k] = t[l] => k = l
    BY <1>1, <1>6 DEF IsInjective
  <2> QED BY <1>2, <2>1, <2>2
<1> QED BY <1>2, <1>5, <1>6 DEF a

LEMMA ConcatFacts ==
  ASSUME NEW X, NEW s \in Seq(X), NEW t \in Seq(X)
  PROVE  /\ s \o t \in Seq(X) /\ Range(s \o t) = Range(s) \cup Range(t)
         /\ IsInjective(s \o t) <=>
              IsInjective(s) /\ IsInjective(t) /\ Range(s) \cap Range(t) = {}
<1> DEFINE c == s \o t
           n == Len(s)
           m == Len(t)
<1>1. n \in Nat /\ m \in Nat /\ DOMAIN s = 1..n /\ DOMAIN t = 1..m
  BY LenProperties
<1>2. c \in Seq(X) /\ DOMAIN c = 1..(n + m)
  BY ConcatProperties, LenProperties
<1>3. \A i \in 1..(n + m) : c[i] = IF i <= n THEN s[i] ELSE t[i - n]
  BY ConcatProperties
<1> HIDE DEF c
<1>4. \A i \in 1..n : i \in 1..(n + m) /\ c[i] = s[i]
  <2> SUFFICES ASSUME NEW i \in 1..n PROVE i \in 1..(n + m) /\ c[i] = s[i]
    OBVIOUS
  <2>1. i \in 1..(n + m) /\ i <= n
    BY <1>1
  <2> QED BY <1>3, <2>1
<1>5. \A j \in 1..m : n + j \in 1..(n + m) /\ c[n + j] = t[j]
  <2> SUFFICES ASSUME NEW j \in 1..m PROVE n + j \in 1..(n + m) /\ c[n + j] = t[j]
    OBVIOUS
  <2>1. n + j \in 1..(n + m) /\ ~ (n + j <= n) /\ n + j - n = j
    BY <1>1
  <2> QED BY <1>3, <2>1
<1>6. \A i \in 1..(n + m) : i \in 1..n \/ \E j \in 1..m : i = n + j
  <2> SUFFICES ASSUME NEW i \in 1..(n + m), i \notin 1..n PROVE \E j \in 1..m : i = n + j
    OBVIOUS
  <2>1. i - n \in 1..m /\ i = n + (i - n)
    BY <1>1
  <2> QED BY <2>1
<1>7. Range(c) = Range(s) \cup Range(t)
  <2>1. ASSUME NEW x \in Range(c) PROVE x \in Range(s) \cup Range(t)
    <3>1. PICK i \in 1..(n + m) : x = c[i]
      BY <1>2 DEF Range
    <3> QED BY <3>1, <1>1, <1>4, <1>5, <1>6 DEF Range
  <2>2. ASSUME NEW x \in Range(s) \cup Range(t) PROVE x \in Range(c)
    <3>1. (\E i \in 1..n : x = s[i]) \/ \E j \in 1..m : x = t[j]
      BY <1>1 DEF Range
    <3> QED BY <3>1, <1>2, <1>4, <1>5 DEF Range
  <2> QED BY <2>1, <2>2
<1>8. ASSUME IsInjective(c)
      PROVE  IsInjective(s) /\ IsInjective(t) /\ Range(s) \cap Range(t) = {}
  <2>1. \A i, j \in 1..(n + m) : c[i] = c[j] => i = j
    BY <1>2, <1>8 DEF IsInjective
  <2>2. IsInjective(s)
    BY <1>1, <1>4, <2>1 DEF IsInjective
  <2>3. IsInjective(t)
    <3> SUFFICES ASSUME NEW i \in 1..m, NEW j \in 1..m, t[i] = t[j] PROVE i = j
      BY <1>1 DEF IsInjective
    <3>1. n + i = n + j
      BY <1>5, <2>1
    <3> QED BY <1>1, <3>1
  <2>4. \A x \in Range(s), y \in Range(t) : x # y
    <3> SUFFICES ASSUME NEW i \in 1..n, NEW j \in 1..m PROVE s[i] # t[j]
      BY <1>1 DEF Range
    <3>1. i # n + j
      BY <1>1
    <3> QED BY <3>1, <1>4, <1>5, <2>1
  <2> QED BY <2>2, <2>3, <2>4
<1>9. ASSUME IsInjective(s), IsInjective(t), Range(s) \cap Range(t) = {} PROVE IsInjective(c)
  <2>1. \A i \in 1..n, j \in 1..m : s[i] # t[j]
    BY <1>1, <1>9 DEF Range
  <2>2. /\ \A i, j \in 1..n : s[i] = s[j] => i = j
        /\ \A i, j \in 1..m : t[i] = t[j] => i = j
    BY <1>1, <1>9 DEF IsInjective
  <2> SUFFICES ASSUME NEW i \in 1..(n + m), NEW j \in 1..(n + m), c[i] = c[j] PROVE i = j
    BY <1>2 DEF IsInjective
  <2>3. ASSUME NEW k \in 1..n, NEW l \in 1..(n + m), c[k] = c[l] PROVE k = l
    <3>1. CASE l \in 1..n
      BY <1>4, <2>2, <2>3, <3>1
    <3>2. CASE l \notin 1..n
      <4>1. PICK j1 \in 1..m : l = n + j1
        BY <1>6, <3>2
      <4> QED BY <1>4, <1>5, <2>1, <2>3, <4>1
    <3> QED BY <3>1, <3>2
  <2>4. CASE i \in 1..n
    BY <2>3, <2>4
  <2>5. CASE j \in 1..n
    BY <2>3, <2>5
  <2>6. CASE i \notin 1..n /\ j \notin 1..n
    <3>1. PICK k \in 1..m : i = n + k
      BY <1>6, <2>6
    <3>2. PICK l \in 1..m : j = n + l
      BY <1>6, <2>6
    <3>3. t[k] = t[l]
      BY <1>5, <3>1, <3>2
    <3> QED BY <2>2, <3>1, <3>2, <3>3
  <2> QED BY <2>4, <2>5, <2>6
<1> QED BY <1>2, <1>7, <1>8, <1>9 DEF c

(* Keep takes the members of a set out of a list, in their order. *)
LEMMA KeepFacts ==
  ASSUME NEW X, NEW s \in Seq(X), NEW P
  PROVE  /\ Keep(s, P) \in Seq(X) /\ Range(Keep(s, P)) = Range(s) \cap P
         /\ IsInjective(s) => IsInjective(Keep(s, P))
<1> DEFINE n == Len(s)
           First(k) == {s[i] : i \in 1..k}
           Good(t, k) == /\ t \in Seq(X) /\ Range(t) = First(k) \cap P
                         /\ IsInjective(s) => IsInjective(t)
<1>1. n \in Nat /\ DOMAIN s = 1..n /\ \A i \in 1..n : s[i] \in X
  BY LenProperties, ElementOfSeq
<1>2. PICK h : Keep(s, P) = h[n] /\ Keeping(h, s, P)
  BY KeepSteps
<1> DEFINE T == {k \in Nat : k <= n => Good(h[k], k)}
<1>3. 0 \in T
  <2>1. <<>> \in Seq(X) /\ DOMAIN <<>> = {}
    BY EmptySeq
  <2>2. Good(<<>>, 0)
    BY <2>1 DEF Range, IsInjective
  <2> QED BY <1>2, <2>2 DEF Keeping
<1>4. ASSUME NEW k \in Nat, k \in T PROVE k + 1 \in T
  <2> SUFFICES ASSUME k + 1 <= n PROVE Good(h[k + 1], k + 1)
    OBVIOUS
  <2>1. k + 1 \in 1..n /\ (k + 1) - 1 = k /\ 1..(k + 1) = 1..k \cup {k + 1} /\ k <= n
    BY <1>1
  <2>2. First(k + 1) = First(k) \cup {s[k + 1]} /\ s[k + 1] \in X
    BY <1>1, <2>1
  <2>3. h[k + 1] = IF s[k + 1] \in P THEN Append(h[k], s[k + 1]) ELSE h[k]
    BY <1>2, <2>1 DEF Keeping
  <2>4. IsInjective(s) => s[k + 1] \notin First(k)
    BY <1>1, <2>1 DEF IsInjective
  <2>5. Good(h[k], k)
    BY <1>4, <2>1
  <2> HIDE DEF First
  <2>6. CASE s[k + 1] \in P
    BY <2>2, <2>3, <2>4, <2>5, <2>6, AppendFacts
  <2>7. CASE s[k + 1] \notin P
    BY <2>2, <2>3, <2>5, <2>7
  <2> QED BY <2>6, <2>7
<1>5. n \in T
  <2>1. Nat \subseteq T
    <3> HIDE DEF T
    <3> QED BY <1>3, <1>4, SetNatInduction
  <2> QED BY <1>1, <2>1
<1>6. First(n) = Range(s)
  BY <1>1 DEF Range
<1> QED BY <1>1, <1>2, <1>5, <1>6
-----------------------------------------------------------------------------
(* The lookup. *)

SearchStates == [head : Seq(Name), tmp : SUBSET Seq(Name), done : BOOLEAN]

Searched(b, s) ==
  FoldLeft(LAMBDA t, x : Search(b, t, x), [head |-> Root, tmp |-> {}, done |-> FALSE], s)

Searching(h, b, s) ==
  /\ h[0] = [head |-> Root, tmp |-> {}, done |-> FALSE]
  /\ \A k \in 1..Len(s) : h[k] = Search(b, h[k - 1], s[k])

LEMMA SearchTyped ==
  ASSUME NEW b, NEW st \in SearchStates, NEW name \in Name
  PROVE  Search(b, st, name) \in SearchStates
<1>1. Append(st.head, name) \in Seq(Name)
  BY AppendProperties DEF SearchStates
<1> QED BY <1>1 DEF Search, SearchStates

LEMMA SearchSteps ==
  ASSUME NEW b, NEW s \in Seq(Name)
  PROVE  \E h : Searched(b, s) = h[Len(s)] /\ Searching(h, b, s)
<1> DEFINE n == Len(s)
           T == SearchStates
           base == [head |-> Root, tmp |-> {}, done |-> FALSE]
           Op(t, x) == Search(b, t, x)
           G == [z \in T \X (1..n) |-> Op(z[1], s[z[2]])]
           Eq(f) == f = [d \in SUBSET (1..n) |-> IF d = {} THEN base
                                                 ELSE Op(f[d \ {Max(d)}], s[Max(d)])]
           f == CHOOSE f : Eq(f)
           h == [k \in 0..n |-> f[1..k]]
<1>1. n \in Nat /\ DOMAIN s = 1..n /\ \A i \in 1..n : s[i] \in Name
  BY LenProperties, ElementOfSeq
<1>2. Searched(b, s) = f[1..n]
  BY <1>1 DEF Searched, FoldLeft, MapThenFoldSet
<1>3. base \in T /\ \A t \in T, x \in Name : Op(t, x) \in T
  BY SearchTyped, EmptySeq DEF SearchStates, Root
<1> HIDE DEF T, Op, base
<1>4. G \in [T \X (1..n) -> T]
  BY <1>1, <1>3
<1>5. PICK g \in [SUBSET (1..n) -> T] : SeqFolding(g, n, base, G)
  <2> HIDE DEF G, n
  <2> QED BY <1>1, <1>3, <1>4, SeqFoldExists
<1>6. Eq(g)
  <2>1. \A d \in SUBSET (1..n) : d # {} =>
          G[<<g[d \ {Max(d)}], Max(d)>>] = Op(g[d \ {Max(d)}], s[Max(d)])
    BY <1>1, MaxOfSet
  <2> HIDE DEF G
  <2> QED BY <1>5, <2>1 DEF SeqFolding
<1>7. Eq(f)
  <2> HIDE DEF Eq
  <2> QED BY <1>6
<1> HIDE DEF f
<1>8. f[1..0] = base /\ \A k \in 1..n : f[1..k] = Op(f[1..(k - 1)], s[k])
  <2>1. \A d \in SUBSET (1..n) :
          f[d] = IF d = {} THEN base ELSE Op(f[d \ {Max(d)}], s[Max(d)])
    BY <1>7
  <2> HIDE DEF n, Eq
  <2>2. f[1..0] = base
    BY <1>1, <2>1, Intervals
  <2>3. ASSUME NEW k \in 1..n PROVE f[1..k] = Op(f[1..(k - 1)], s[k])
    <3>1. /\ 1..k \in SUBSET (1..n) /\ 1..k # {}
          /\ Max(1..k) = k /\ (1..k) \ {Max(1..k)} = 1..(k - 1)
      BY <1>1, Intervals
    <3>2. f[1..k] = Op(f[(1..k) \ {Max(1..k)}], s[Max(1..k)])
      BY <2>1, <3>1
    <3> QED BY <3>1, <3>2
  <2> QED BY <2>2, <2>3
<1>9. h[0] = base /\ h[n] = f[1..n] /\ \A k \in 1..n : h[k] = Op(h[k - 1], s[k])
  BY <1>1, <1>8
<1> HIDE DEF h
<1> QED BY <1>2, <1>9 DEF Searching, base, Op

(* What is found is a node, and the loop goes on below it. *)
LEMMA SearchFinds ==
  ASSUME NEW b, NEW s \in Seq(Name), NEW h, Searching(h, b, s)
  PROVE  \A k \in 0..Len(s) :
           /\ h[k] \in SearchStates /\ h[k].tmp \subseteq b.nodes \cap {h[k].head}
           /\ h[k].head = Root => h[k].tmp = {} /\ ~h[k].done
<1> DEFINE n == Len(s)
           Good(st) == /\ st \in SearchStates /\ st.tmp \subseteq b.nodes \cap {st.head}
                       /\ st.head = Root => st.tmp = {} /\ ~st.done
           T == {k \in Nat : k <= n => Good(h[k])}
<1>1. n \in Nat /\ \A i \in 1..n : s[i] \in Name
  BY LenProperties, ElementOfSeq
<1>2. 0 \in T
  <2>1. Good([head |-> Root, tmp |-> {}, done |-> FALSE])
    BY EmptySeq DEF SearchStates, Root
  <2> QED BY <2>1 DEF Searching
<1>3. ASSUME NEW k \in Nat, k \in T PROVE k + 1 \in T
  <2> SUFFICES ASSUME k + 1 <= n PROVE Good(h[k + 1])
    OBVIOUS
  <2>1. k + 1 \in 1..n /\ k + 1 - 1 = k /\ k <= n
    BY <1>1
  <2>2. h[k + 1] = Search(b, h[k], s[k + 1]) /\ s[k + 1] \in Name /\ Good(h[k])
    BY <1>1, <1>3, <2>1 DEF Searching
  <2>3. ASSUME NEW st, Good(st), NEW name \in Name PROVE Good(Search(b, st, name))
    <3>1. Append(st.head, name) # Root /\ Append(st.head, name) \in Seq(Name)
      BY <2>3, AppendProperties DEF SearchStates, Root
    <3>2. Search(b, st, name) \in SearchStates
      BY <2>3, SearchTyped
    <3> QED BY <2>3, <3>1, <3>2 DEF Search, SearchStates
  <2> HIDE DEF Good
  <2> QED BY <2>2, <2>3
<1>4. Nat \subseteq T
  <2> HIDE DEF T
  <2> QED BY <1>2, <1>3, SetNatInduction
<1> QED BY <1>1, <1>4

(* The directory the loop has reached and the names it has still to look   *)
(* for: a name that is found moves over, one that is not drops out.        *)
Rest(d, p, k) == d \o SubSeq(p, k + 1, Len(p))

LEMMA RestElements ==
  ASSUME NEW d \in Seq(Name), NEW p \in Seq(Name), NEW k \in 0..Len(p)
  PROVE  /\ Rest(d, p, k) \in Seq(Name) /\ Len(Rest(d, p, k)) = Len(d) + Len(p) - k
         /\ \A i \in 1..Len(d) : Rest(d, p, k)[i] = d[i]
         /\ \A i \in 1..Len(p) - k : Rest(d, p, k)[Len(d) + i] = p[k + i]
<1> DEFINE t == SubSeq(p, k + 1, Len(p))
           n == Len(p)
           m == Len(d)
<1>1. n \in Nat /\ m \in Nat /\ k \in Nat /\ \A i \in 1..n : p[i] \in Name
  BY LenProperties, ElementOfSeq
<1>2. \A i \in (k + 1)..n : p[i] \in Name
  BY <1>1
<1>3. /\ t \in Seq(Name) /\ Len(t) = IF k + 1 <= n THEN n - (k + 1) + 1 ELSE 0
      /\ \A i \in 1..n - (k + 1) + 1 : t[i] = p[k + 1 + i - 1]
  <2> k + 1 \in Int /\ n \in Int
    BY <1>1
  <2> QED BY <1>2, SubSeqProperties
<1> HIDE DEF t
<1>4. Len(t) = n - k /\ \A i \in 1..n - k : t[i] = p[k + i]
  <2>1. Len(t) = n - k
    <3>1. CASE k = n
      BY <1>1, <1>3, <3>1
    <3>2. CASE k # n
      BY <1>1, <1>3, <3>2
    <3> QED BY <3>1, <3>2
  <2>2. ASSUME NEW i \in 1..n - k PROVE t[i] = p[k + i]
    <3>1. n - (k + 1) + 1 = n - k /\ k + 1 + i - 1 = k + i
      BY <1>1
    <3> QED BY <1>3, <3>1
  <2> QED BY <2>1, <2>2
<1>5. /\ d \o t \in Seq(Name) /\ Len(d \o t) = m + Len(t)
      /\ \A i \in 1..m + Len(t) : (d \o t)[i] = IF i <= m THEN d[i] ELSE t[i - m]
  BY <1>3, ConcatProperties
<1>6. ASSUME NEW i \in 1..m PROVE (d \o t)[i] = d[i]
  <2>1. i \in 1..m + Len(t) /\ i <= m
    BY <1>1, <1>4
  <2> QED BY <1>5, <2>1
<1>7. ASSUME NEW i \in 1..n - k PROVE (d \o t)[m + i] = p[k + i]
  <2>1. m + i \in 1..m + Len(t) /\ ~ (m + i <= m) /\ m + i - m = i
    BY <1>1, <1>4
  <2> QED BY <1>4, <1>5, <2>1
<1>8. m + Len(t) = m + n - k
  BY <1>1, <1>4
<1> QED BY <1>5, <1>6, <1>7, <1>8 DEF Rest, t

LEMMA RestSteps ==
  ASSUME NEW d \in Seq(Name), NEW p \in Seq(Name), NEW k \in Nat, k < Len(p)
  PROVE  /\ Rest(Append(d, p[k + 1]), p, k + 1) = Rest(d, p, k)
         /\ RemoveAt(Rest(d, p, k), Len(d) + 1) = Rest(d, p, k + 1)
<1> DEFINE n == Len(p)
           m == Len(d)
           r == Rest(d, p, k)
           q == Rest(d, p, k + 1)
           a == Append(d, p[k + 1])
           u == Rest(a, p, k + 1)
<1>1. n \in Nat /\ m \in Nat /\ k \in 0..n /\ k + 1 \in 0..n /\ p[k + 1] \in Name
  BY LenProperties, ElementOfSeq
<1>2. a \in Seq(Name) /\ Len(a) = m + 1 /\ (\A i \in 1..m : a[i] = d[i]) /\ a[m + 1] = p[k + 1]
  BY <1>1, AppendProperties
<1>3. /\ r \in Seq(Name) /\ Len(r) = m + n - k
      /\ \A i \in 1..m : r[i] = d[i]
      /\ \A i \in 1..n - k : r[m + i] = p[k + i]
  BY <1>1, RestElements
<1>4. /\ q \in Seq(Name) /\ Len(q) = m + n - (k + 1)
      /\ \A i \in 1..m : q[i] = d[i]
      /\ \A i \in 1..n - (k + 1) : q[m + i] = p[k + 1 + i]
  BY <1>1, RestElements
<1>5. /\ u \in Seq(Name) /\ Len(u) = m + 1 + n - (k + 1)
      /\ \A i \in 1..m + 1 : u[i] = a[i]
      /\ \A i \in 1..n - (k + 1) : u[m + 1 + i] = p[k + 1 + i]
  <2> HIDE DEF a
  <2> DEFINE l == k + 1
  <2>1. l \in 0..Len(p)
    BY <1>1
  <2> HIDE DEF l
  <2>2. /\ Rest(a, p, l) \in Seq(Name) /\ Len(Rest(a, p, l)) = Len(a) + Len(p) - l
        /\ \A i \in 1..Len(a) : Rest(a, p, l)[i] = a[i]
        /\ \A i \in 1..Len(p) - l : Rest(a, p, l)[Len(a) + i] = p[l + i]
    BY <1>2, <2>1, RestElements
  <2> QED BY <1>2, <2>2 DEF l
<1> HIDE DEF a, r, q, u
<1>6. u = r
  <2>1. Len(u) = Len(r)
    BY <1>1, <1>3, <1>5
  <2>2. ASSUME NEW i \in 1..Len(u) PROVE u[i] = r[i]
    <3>1. CASE i <= m
      <4>1. i \in 1..m /\ i \in 1..m + 1
        BY <1>1, <1>5, <3>1
      <4> QED BY <1>2, <1>3, <1>5, <4>1
    <3>2. CASE i = m + 1
      <4>1. m + 1 \in 1..m + 1 /\ 1 \in 1..n - k
        BY <1>1
      <4> QED BY <1>2, <1>3, <1>5, <3>2, <4>1
    <3>3. CASE i > m + 1
      <4> DEFINE j == i - (m + 1)
      <4>1. /\ j \in 1..n - (k + 1) /\ i = m + 1 + j /\ j + 1 \in 1..n - k
            /\ m + (j + 1) = i /\ k + (j + 1) = k + 1 + j
        BY <1>1, <1>5, <3>3
      <4> HIDE DEF j
      <4> QED BY <1>3, <1>5, <4>1
    <3> QED BY <1>1, <1>5, <3>1, <3>2, <3>3
  <2> QED BY <1>3, <1>5, <2>1, <2>2, SeqEqual
<1>7. RemoveAt(r, m + 1) = q
  <2> DEFINE s1 == SubSeq(r, 1, m)
             s2 == SubSeq(r, m + 2, Len(r))
  <2>1. \A i \in 1..Len(r) : r[i] \in Name
    BY <1>3, ElementOfSeq
  <2>2. Len(r) \in Nat /\ Len(r) >= m + 1 /\ m + 1 - 1 = m /\ m + 1 + 1 = m + 2
    BY <1>1, <1>3
  <2>3. /\ s1 \in Seq(Name) /\ Len(s1) = IF 1 <= m THEN m - 1 + 1 ELSE 0
        /\ \A i \in 1..m - 1 + 1 : s1[i] = r[1 + i - 1]
    <3>1. \A i \in 1..m : r[i] \in Name
      BY <1>1, <2>1, <2>2
    <3>2. 1 \in Int /\ m \in Int
      BY <1>1
    <3> QED BY <3>1, <3>2, SubSeqProperties
  <2>4. /\ s2 \in Seq(Name)
        /\ Len(s2) = IF m + 2 <= Len(r) THEN Len(r) - (m + 2) + 1 ELSE 0
        /\ \A i \in 1..Len(r) - (m + 2) + 1 : s2[i] = r[m + 2 + i - 1]
    <3>1. \A i \in m + 2 .. Len(r) : r[i] \in Name
      BY <1>1, <2>1, <2>2
    <3>2. m + 2 \in Int /\ Len(r) \in Int
      BY <1>1, <2>2
    <3> QED BY <3>1, <3>2, SubSeqProperties
  <2>5. RemoveAt(r, m + 1) = s1 \o s2
    <3>1. ASSUME NEW v, v - 1 = m, v + 1 = m + 2 PROVE RemoveAt(r, v) = s1 \o s2
      BY <3>1 DEF RemoveAt
    <3> DEFINE w == m + 1
    <3>2. w - 1 = m /\ w + 1 = m + 2
      BY <2>2
    <3> HIDE DEF s1, s2, w
    <3>3. RemoveAt(r, w) = s1 \o s2
      BY <3>1, <3>2
    <3> QED BY <3>3 DEF w
  <2> HIDE DEF s1, s2
  <2>6. Len(s1) = m /\ \A i \in 1..m : s1[i] = d[i]
    <3>1. Len(s1) = m
      BY <1>1, <2>3
    <3>2. ASSUME NEW i \in 1..m PROVE s1[i] = d[i]
      <4>1. m - 1 + 1 = m /\ 1 + i - 1 = i
        BY <1>1
      <4> QED BY <1>3, <2>3, <4>1
    <3> QED BY <3>1, <3>2
  <2>7. Len(s2) = n - (k + 1) /\ \A i \in 1..n - (k + 1) : s2[i] = p[k + 1 + i]
    <3>1. Len(s2) = n - (k + 1)
      BY <1>1, <1>3, <2>4
    <3>2. ASSUME NEW i \in 1..n - (k + 1) PROVE s2[i] = p[k + 1 + i]
      <4>1. /\ i \in 1..Len(r) - (m + 2) + 1 /\ m + 2 + i - 1 = m + (i + 1)
            /\ i + 1 \in 1..n - k /\ k + (i + 1) = k + 1 + i
        BY <1>1, <1>3
      <4> QED BY <1>3, <2>4, <4>1
    <3> QED BY <3>1, <3>2
  <2>8. /\ s1 \o s2 \in Seq(Name) /\ Len(s1 \o s2) = m + Len(s2)
        /\ \A i \in 1..m + Len(s2) : (s1 \o s2)[i] = IF i <= m THEN s1[i] ELSE s2[i - m]
    <3>1. /\ s1 \o s2 \in Seq(Name) /\ Len(s1 \o s2) = Len(s1) + Len(s2)
          /\ \A i \in 1..Len(s1) + Len(s2) :
               (s1 \o s2)[i] = IF i <= Len(s1) THEN s1[i] ELSE s2[i - Len(s1)]
      BY <2>3, <2>4, ConcatProperties
    <3> QED BY <2>6, <3>1
  <2>9. ASSUME NEW i \in 1..Len(q) PROVE q[i] = (s1 \o s2)[i]
    <3>0. i \in 1..m + Len(s2)
      BY <1>1, <1>4, <2>7
    <3>1. CASE i <= m
      <4>1. i \in 1..m
        BY <1>1, <3>1
      <4> QED BY <1>4, <2>6, <2>8, <3>0, <3>1, <4>1
    <3>2. CASE ~ i <= m
      <4> DEFINE j == i - m
      <4>1. j \in 1..n - (k + 1) /\ i = m + j
        BY <1>1, <1>4, <3>2
      <4>2. (s1 \o s2)[i] = s2[j]
        BY <2>8, <3>0, <3>2
      <4> HIDE DEF j
      <4> QED BY <1>4, <2>7, <4>1, <4>2
    <3> QED BY <3>1, <3>2
  <2>10. Len(q) = Len(s1 \o s2)
    BY <1>1, <1>4, <2>7, <2>8
  <2> QED BY <1>4, <2>5, <2>8, <2>9, <2>10, SeqEqual
<1> QED BY <1>6, <1>7 DEF u, r, q, a

(* What the lookup answers, from what its loop has come to. *)
Dirs(p) == IF IsDir(p) THEN p ELSE Front(p)
Answer(b, p, st) ==
  LET file == Append(st.head, Last(p))
  IN IF Root \notin b.opened THEN {}
     ELSE IF IsDir(p) \/ st.done \/ (Dirs(p) # Root /\ st.tmp = {}) THEN st.tmp
     ELSE IF file \in b.nodes THEN {file}
     ELSE IF Children(b, st.head) = {} THEN st.tmp ELSE {}

LEMMA SelfNodeSearches ==
  ASSUME NEW b, NEW p \in Path
  PROVE  \E h : /\ Dirs(p) \in Seq(Name) /\ Searching(h, b, Dirs(p))
                /\ SelfNode(b, p) = Answer(b, p, h[Len(Dirs(p))])
<1>1. Dirs(p) \in Seq(Name)
  BY PathFacts DEF Dirs
<1>2. PICK h : Searched(b, Dirs(p)) = h[Len(Dirs(p))] /\ Searching(h, b, Dirs(p))
  BY <1>1, SearchSteps
<1>3. SelfNode(b, p) = Answer(b, p, Searched(b, Dirs(p)))
  BY DEF SelfNode, Answer, Dirs, Searched
<1> QED BY <1>1, <1>2, <1>3

LEMMA SelfNodeIsNode ==
  ASSUME NEW b, NEW p \in Path
  PROVE  SelfNode(b, p) \subseteq b.nodes
<1>1. PICK h : /\ Dirs(p) \in Seq(Name) /\ Searching(h, b, Dirs(p))
               /\ SelfNode(b, p) = Answer(b, p, h[Len(Dirs(p))])
  BY SelfNodeSearches
<1>2. Len(Dirs(p)) \in 0..Len(Dirs(p))
  BY <1>1, LenProperties
<1>3. h[Len(Dirs(p))].tmp \subseteq b.nodes
  BY <1>1, <1>2, SearchFinds
<1> QED BY <1>1, <1>3 DEF Answer

LEMMA RestIsNone ==
  ASSUME NEW d \in Seq(Name), NEW p \in Seq(Name)
  PROVE  Rest(d, p, Len(p)) = d
<1>1. Len(p) \in Int /\ Len(p) + 1 \in Int /\ Len(p) < Len(p) + 1
  BY LenProperties
<1>2. SubSeq(p, Len(p) + 1, Len(p)) = <<>>
  BY <1>1, SubSeqEmpty
<1> QED BY <1>2, ConcatEmptySeq DEF Rest

(* The node found for the parent of a path may be another directory than   *)
(* the parent; a path of the name below it is one that there can be.       *)
LEMMA ParentTyped ==
  ASSUME NEW b, b.nodes \subseteq Path, NEW p \in Path, NEW d \in ParentNode(b, p)
  PROVE  d \in b.nodes \cup {Root} /\ Append(d, Last(p)) \in Path
<1> DEFINE n == Len(p)
<1>0. p \in Seq(Name) /\ n \in Nat \ {0} /\ Last(p) = p[n] /\ Last(p) \in Name
  BY PathFacts
<1>a. ASSUME NEW e \in Seq(Name) PROVE Rest(e, p, n - 1) = Append(e, Last(p))
  <2>1. n - 1 \in Nat /\ n - 1 < n /\ (n - 1) + 1 = n
    BY <1>0
  <2>2. Rest(Append(e, p[n]), p, n) = Rest(e, p, n - 1)
    <3> DEFINE k == n - 1
    <3> HIDE DEF k
    <3>1. k \in Nat /\ k < n /\ k + 1 = n
      BY <2>1 DEF k
    <3>2. Rest(Append(e, p[k + 1]), p, k + 1) = Rest(e, p, k)
      BY <1>0, <3>1, RestSteps
    <3> QED BY <3>1, <3>2 DEF k
  <2>3. Append(e, p[n]) \in Seq(Name)
    BY <1>0, AppendProperties
  <2> QED BY <1>0, <2>2, <2>3, RestIsNone
<1>1. CASE n = 1
  <2>1. d = Root
    BY <1>1 DEF ParentNode
  <2>2. Root \in Seq(Name)
    BY EmptySeq DEF Root
  <2>3. Rest(Root, p, 0) = Append(Root, Last(p))
    BY <1>a, <1>1, <2>2
  <2>4. Rest(Root, p, 0) = p
    <3>1. p = SubSeq(p, 1, Len(p))
      BY <1>0, SubSeqFull
    <3> QED BY <1>0, <3>1, ConcatEmptySeq DEF Rest, Root
  <2> QED BY <2>1, <2>3, <2>4
<1>2. CASE n # 1
  <2> DEFINE q == Front(p)
  <2>1. /\ q \in Path /\ IsDir(q) /\ q \in Seq(Name) /\ Len(q) = n - 1
        /\ \A i \in 1..n - 1 : q[i] = p[i]
    <3>1. Len(p) > 1
      <4>1. \A m \in Nat \ {0} : m # 1 => m > 1
        OBVIOUS
      <4> QED BY <1>0, <1>2, <4>1
    <3> QED BY <3>1, ParentIsDir, PathFacts
  <2>2. d \in SelfNode(b, q)
    BY <1>2 DEF ParentNode
  <2> HIDE DEF q
  <2>3. PICK h : Searching(h, b, q) /\ SelfNode(b, q) = Answer(b, q, h[n - 1])
    BY <2>1, SelfNodeSearches DEF Dirs
  <2>4. \A k \in 0..n - 1 : /\ h[k] \in SearchStates
                            /\ h[k].tmp \subseteq b.nodes \cap {h[k].head}
                            /\ h[k].head = Root => h[k].tmp = {} /\ ~h[k].done
    <3>1. \A k \in 0..Len(q) : /\ h[k] \in SearchStates
                               /\ h[k].tmp \subseteq b.nodes \cap {h[k].head}
                               /\ h[k].head = Root => h[k].tmp = {} /\ ~h[k].done
      BY <2>1, <2>3, SearchFinds
    <3> QED BY <2>1, <3>1
  <2> DEFINE Good(st, k) == Rest(st.head, p, k) \in Path \/ (st.head = Root /\ k = n - 1)
             T == {k \in Nat : k <= n - 1 => Good(h[k], k)}
  <2>5. 0 \in T
    <3>1. h[0].head = Root
      BY <2>3 DEF Searching
    <3>2. Rest(Root, p, 0) = p
      <4>1. p = SubSeq(p, 1, Len(p))
        BY <1>0, SubSeqFull
      <4> QED BY <1>0, <4>1, ConcatEmptySeq DEF Rest, Root
    <3> QED BY <3>1, <3>2
  <2>6. ASSUME NEW k \in Nat, k \in T PROVE k + 1 \in T
    <3> SUFFICES ASSUME k + 1 <= n - 1 PROVE Good(h[k + 1], k + 1)
      OBVIOUS
    <3> DEFINE st == h[k]
    <3>1. /\ k + 1 \in 1..n - 1 /\ k + 1 - 1 = k /\ k \in 0..n - 1 /\ k < n /\ k # n - 1
          /\ k + 1 \in 0..n - 1 /\ k + 1 \in 1..Len(q)
      BY <1>0, <2>1
    <3>2. h[k + 1] = Search(b, st, p[k + 1])
      BY <2>1, <2>3, <3>1 DEF Searching
    <3>3. st.head \in Seq(Name) /\ (st.head = Root => ~st.done)
      BY <2>4, <3>1 DEF SearchStates
    <3>4. Rest(st.head, p, k) \in Path
      BY <2>6, <3>1
    <3> HIDE DEF st
    <3>5. /\ Rest(Append(st.head, p[k + 1]), p, k + 1) = Rest(st.head, p, k)
          /\ RemoveAt(Rest(st.head, p, k), Len(st.head) + 1) = Rest(st.head, p, k + 1)
      BY <1>0, <3>1, <3>3, RestSteps
    <3>6. CASE h[k + 1].head = Append(st.head, p[k + 1])
      BY <3>4, <3>5, <3>6
    <3>7. CASE h[k + 1].head = st.head
      <4>1. Len(st.head) \in Nat /\ (Len(st.head) = 0 => st.head = Root)
        BY <3>3, LenProperties, EmptySeq DEF Root
      <4>2. CASE k + 1 = n - 1 /\ st.head = Root
        BY <3>7, <4>2
      <4>3. CASE k + 1 # n - 1 \/ st.head # Root
        <5>1. Len(Rest(st.head, p, k)) = Len(st.head) + n - k
          <6> k \in 0..n
            BY <1>0, <3>1
          <6> QED BY <1>0, <3>3, RestElements
        <5> DEFINE l == Len(Rest(st.head, p, k))
                   i == Len(st.head) + 1
        <5>2. l > 2 /\ i \in 1..l - 1
          BY <1>0, <3>1, <4>1, <4>3, <5>1
        <5>3. RemoveAt(Rest(st.head, p, k), i) \in Path
          <6> HIDE DEF i
          <6> QED BY <3>4, <5>2, PathsAssumption
        <5> QED BY <3>5, <3>7, <5>3
      <4> QED BY <4>2, <4>3
    <3> QED BY <3>2, <3>6, <3>7 DEF Search
  <2>7. n - 1 \in T
    <3>1. Nat \subseteq T
      <4> HIDE DEF T
      <4> QED BY <2>5, <2>6, SetNatInduction
    <3> QED BY <1>0, <3>1
  <2>8. n - 1 \in 0..n - 1
    BY <1>0
  <2>9. d \in h[n - 1].tmp
    BY <2>1, <2>2, <2>3 DEF Answer
  <2>10. d \in b.nodes /\ d = h[n - 1].head /\ d # Root /\ d \in Seq(Name)
    BY <2>4, <2>8, <2>9 DEF SearchStates
  <2>11. Rest(d, p, n - 1) \in Path
    BY <1>0, <2>7, <2>10
  <2> QED BY <1>a, <2>10, <2>11
<1> QED BY <1>1, <1>2
-----------------------------------------------------------------------------
(* Commits and restores, record by record. *)

(* The types of what a commit works on. *)
BackupSet == [nodes : SUBSET Path, opened : SUBSET (Path \cup {Root}),
              hash : SUBSET (Path \X Path), disk : SUBSET Path]

LEMMA AddNodeTyped ==
  ASSUME NEW b \in BackupSet, NEW p \in Path
  PROVE  AddNode(b, p) \in BackupSet
<1>1. /\ b.nodes \subseteq Path /\ b.opened \subseteq Path \cup {Root}
      /\ b.hash \subseteq Path \X Path /\ b.disk \subseteq Path
  BY DEF BackupSet
<1>2. \A d \in ParentNode(b, p) : d \in Path \cup {Root} /\ Append(d, Last(p)) \in Path
  BY <1>1, ParentTyped
<1> DEFINE parent == ParentNode(b, p)
           node == {Append(d, Last(p)) : d \in parent}
<1>3. node \subseteq Path /\ parent \subseteq Path \cup {Root}
  <2> HIDE DEF parent
  <2> QED BY <1>2 DEF parent
<1>4. AddNode(b, p) = [nodes  |-> b.nodes \cup node, opened |-> b.opened \cup parent,
                       hash   |-> HashSet(b.hash, p, node),
                       disk   |-> IF HasParent(b.disk, p) THEN b.disk \cup {p} ELSE b.disk]
  BY DEF AddNode
<1> HIDE DEF parent, node
<1>5. HashSet(b.hash, p, node) \subseteq Path \X Path
  BY <1>1, <1>3 DEF HashSet
<1> HIDE DEF BackupSet
<1> QED BY <1>1, <1>3, <1>4, <1>5 DEF BackupSet

LEMMA DropTyped ==
  ASSUME NEW b \in BackupSet, NEW p \in Path
  PROVE  DropEntries(b, p) \in BackupSet
BY DEF BackupSet, DropEntries, HashDelete

LEMMA FreeTyped ==
  ASSUME NEW b \in BackupSet, NEW p \in Path
  PROVE  FreeNode(b, p) \in BackupSet
BY DEF BackupSet, FreeNode

AllAdded(b, s) == FoldLeft(AddNode, b, s)
Adding(h, b, s) ==
  h[0] = b /\ \A k \in 1..Len(s) : h[k] = AddNode(h[k - 1], s[k])

LEMMA AddSteps ==
  ASSUME NEW b \in BackupSet, NEW s \in Seq(Path)
  PROVE  \E h : AllAdded(b, s) = h[Len(s)] /\ Adding(h, b, s)
<1> DEFINE n == Len(s)
           T == BackupSet
           base == b
           Op(t, x) == AddNode(t, x)
           G == [z \in T \X (1..n) |-> Op(z[1], s[z[2]])]
           Eq(f) == f = [d \in SUBSET (1..n) |-> IF d = {} THEN base
                                                 ELSE Op(f[d \ {Max(d)}], s[Max(d)])]
           f == CHOOSE f : Eq(f)
           h == [k \in 0..n |-> f[1..k]]
<1>1. n \in Nat /\ DOMAIN s = 1..n /\ \A i \in 1..n : s[i] \in Path
  BY LenProperties, ElementOfSeq
<1>2. AllAdded(b, s) = f[1..n]
  BY <1>1 DEF AllAdded, FoldLeft, MapThenFoldSet
<1>3. base \in T /\ \A t \in T, x \in Path : Op(t, x) \in T
  BY AddNodeTyped
<1> HIDE DEF T, Op, base
<1>4. G \in [T \X (1..n) -> T]
  BY <1>1, <1>3
<1>5. PICK g \in [SUBSET (1..n) -> T] : SeqFolding(g, n, base, G)
  <2> HIDE DEF G, n
  <2> QED BY <1>1, <1>3, <1>4, SeqFoldExists
<1>6. Eq(g)
  <2>1. \A d \in SUBSET (1..n) : d # {} =>
          G[<<g[d \ {Max(d)}], Max(d)>>] = Op(g[d \ {Max(d)}], s[Max(d)])
    BY <1>1, MaxOfSet
  <2> HIDE DEF G
  <2> QED BY <1>5, <2>1 DEF SeqFolding
<1>7. Eq(f)
  <2> HIDE DEF Eq
  <2> QED BY <1>6
<1> HIDE DEF f
<1>8. f[1..0] = base /\ \A k \in 1..n : f[1..k] = Op(f[1..(k - 1)], s[k])
  <2>1. \A d \in SUBSET (1..n) :
          f[d] = IF d = {} THEN base ELSE Op(f[d \ {Max(d)}], s[Max(d)])
    BY <1>7
  <2> HIDE DEF n, Eq
  <2>2. f[1..0] = base
    BY <1>1, <2>1, Intervals
  <2>3. ASSUME NEW k \in 1..n PROVE f[1..k] = Op(f[1..(k - 1)], s[k])
    <3>1. /\ 1..k \in SUBSET (1..n) /\ 1..k # {}
          /\ Max(1..k) = k /\ (1..k) \ {Max(1..k)} = 1..(k - 1)
      BY <1>1, Intervals
    <3>2. f[1..k] = Op(f[(1..k) \ {Max(1..k)}], s[Max(1..k)])
      BY <2>1, <3>1
    <3> QED BY <3>1, <3>2
  <2> QED BY <2>2, <2>3
<1>9. h[0] = base /\ h[n] = f[1..n] /\ \A k \in 1..n : h[k] = Op(h[k - 1], s[k])
  BY <1>1, <1>8
<1> HIDE DEF h
<1> QED BY <1>2, <1>9 DEF Adding, base, Op

AllDropped(b, s) == FoldLeft(DropEntries, b, s)
Dropping(h, b, s) ==
  h[0] = b /\ \A k \in 1..Len(s) : h[k] = DropEntries(h[k - 1], s[k])

LEMMA DropSteps ==
  ASSUME NEW b \in BackupSet, NEW s \in Seq(Path)
  PROVE  \E h : AllDropped(b, s) = h[Len(s)] /\ Dropping(h, b, s)
<1> DEFINE n == Len(s)
           T == BackupSet
           base == b
           Op(t, x) == DropEntries(t, x)
           G == [z \in T \X (1..n) |-> Op(z[1], s[z[2]])]
           Eq(f) == f = [d \in SUBSET (1..n) |-> IF d = {} THEN base
                                                 ELSE Op(f[d \ {Max(d)}], s[Max(d)])]
           f == CHOOSE f : Eq(f)
           h == [k \in 0..n |-> f[1..k]]
<1>1. n \in Nat /\ DOMAIN s = 1..n /\ \A i \in 1..n : s[i] \in Path
  BY LenProperties, ElementOfSeq
<1>2. AllDropped(b, s) = f[1..n]
  BY <1>1 DEF AllDropped, FoldLeft, MapThenFoldSet
<1>3. base \in T /\ \A t \in T, x \in Path : Op(t, x) \in T
  BY DropTyped
<1> HIDE DEF T, Op, base
<1>4. G \in [T \X (1..n) -> T]
  BY <1>1, <1>3
<1>5. PICK g \in [SUBSET (1..n) -> T] : SeqFolding(g, n, base, G)
  <2> HIDE DEF G, n
  <2> QED BY <1>1, <1>3, <1>4, SeqFoldExists
<1>6. Eq(g)
  <2>1. \A d \in SUBSET (1..n) : d # {} =>
          G[<<g[d \ {Max(d)}], Max(d)>>] = Op(g[d \ {Max(d)}], s[Max(d)])
    BY <1>1, MaxOfSet
  <2> HIDE DEF G
  <2> QED BY <1>5, <2>1 DEF SeqFolding
<1>7. Eq(f)
  <2> HIDE DEF Eq
  <2> QED BY <1>6
<1> HIDE DEF f
<1>8. f[1..0] = base /\ \A k \in 1..n : f[1..k] = Op(f[1..(k - 1)], s[k])
  <2>1. \A d \in SUBSET (1..n) :
          f[d] = IF d = {} THEN base ELSE Op(f[d \ {Max(d)}], s[Max(d)])
    BY <1>7
  <2> HIDE DEF n, Eq
  <2>2. f[1..0] = base
    BY <1>1, <2>1, Intervals
  <2>3. ASSUME NEW k \in 1..n PROVE f[1..k] = Op(f[1..(k - 1)], s[k])
    <3>1. /\ 1..k \in SUBSET (1..n) /\ 1..k # {}
          /\ Max(1..k) = k /\ (1..k) \ {Max(1..k)} = 1..(k - 1)
      BY <1>1, Intervals
    <3>2. f[1..k] = Op(f[(1..k) \ {Max(1..k)}], s[Max(1..k)])
      BY <2>1, <3>1
    <3> QED BY <3>1, <3>2
  <2> QED BY <2>2, <2>3
<1>9. h[0] = base /\ h[n] = f[1..n] /\ \A k \in 1..n : h[k] = Op(h[k - 1], s[k])
  BY <1>1, <1>8
<1> HIDE DEF h
<1> QED BY <1>2, <1>9 DEF Dropping, base, Op

AllFreed(b, s) == FoldLeft(FreeNode, b, s)
Freeing(h, b, s) ==
  h[0] = b /\ \A k \in 1..Len(s) : h[k] = FreeNode(h[k - 1], s[k])

LEMMA FreeSteps ==
  ASSUME NEW b \in BackupSet, NEW s \in Seq(Path)
  PROVE  \E h : AllFreed(b, s) = h[Len(s)] /\ Freeing(h, b, s)
<1> DEFINE n == Len(s)
           T == BackupSet
           base == b
           Op(t, x) == FreeNode(t, x)
           G == [z \in T \X (1..n) |-> Op(z[1], s[z[2]])]
           Eq(f) == f = [d \in SUBSET (1..n) |-> IF d = {} THEN base
                                                 ELSE Op(f[d \ {Max(d)}], s[Max(d)])]
           f == CHOOSE f : Eq(f)
           h == [k \in 0..n |-> f[1..k]]
<1>1. n \in Nat /\ DOMAIN s = 1..n /\ \A i \in 1..n : s[i] \in Path
  BY LenProperties, ElementOfSeq
<1>2. AllFreed(b, s) = f[1..n]
  BY <1>1 DEF AllFreed, FoldLeft, MapThenFoldSet
<1>3. base \in T /\ \A t \in T, x \in Path : Op(t, x) \in T
  BY FreeTyped
<1> HIDE DEF T, Op, base
<1>4. G \in [T \X (1..n) -> T]
  BY <1>1, <1>3
<1>5. PICK g \in [SUBSET (1..n) -> T] : SeqFolding(g, n, base, G)
  <2> HIDE DEF G, n
  <2> QED BY <1>1, <1>3, <1>4, SeqFoldExists
<1>6. Eq(g)
  <2>1. \A d \in SUBSET (1..n) : d # {} =>
          G[<<g[d \ {Max(d)}], Max(d)>>] = Op(g[d \ {Max(d)}], s[Max(d)])
    BY <1>1, MaxOfSet
  <2> HIDE DEF G
  <2> QED BY <1>5, <2>1 DEF SeqFolding
<1>7. Eq(f)
  <2> HIDE DEF Eq
  <2> QED BY <1>6
<1> HIDE DEF f
<1>8. f[1..0] = base /\ \A k \in 1..n : f[1..k] = Op(f[1..(k - 1)], s[k])
  <2>1. \A d \in SUBSET (1..n) :
          f[d] = IF d = {} THEN base ELSE Op(f[d \ {Max(d)}], s[Max(d)])
    BY <1>7
  <2> HIDE DEF n, Eq
  <2>2. f[1..0] = base
    BY <1>1, <2>1, Intervals
  <2>3. ASSUME NEW k \in 1..n PROVE f[1..k] = Op(f[1..(k - 1)], s[k])
    <3>1. /\ 1..k \in SUBSET (1..n) /\ 1..k # {}
          /\ Max(1..k) = k /\ (1..k) \ {Max(1..k)} = 1..(k - 1)
      BY <1>1, Intervals
    <3>2. f[1..k] = Op(f[(1..k) \ {Max(1..k)}], s[Max(1..k)])
      BY <2>1, <3>1
    <3> QED BY <3>1, <3>2
  <2> QED BY <2>2, <2>3
<1>9. h[0] = base /\ h[n] = f[1..n] /\ \A k \in 1..n : h[k] = Op(h[k - 1], s[k])
  BY <1>1, <1>8
<1> HIDE DEF h
<1> QED BY <1>2, <1>9 DEF Freeing, base, Op

AllPutBack(S, s) == FoldLeft(PutBack, S, s)
Putting(h, S, s) ==
  h[0] = S /\ \A k \in 1..Len(s) : h[k] = PutBack(h[k - 1], s[k])

LEMMA PutSteps ==
  ASSUME NEW S \in SUBSET Path, NEW s \in Seq(Path)
  PROVE  \E h : AllPutBack(S, s) = h[Len(s)] /\ Putting(h, S, s)
<1> DEFINE n == Len(s)
           T == SUBSET Path
           base == S
           Op(t, x) == PutBack(t, x)
           G == [z \in T \X (1..n) |-> Op(z[1], s[z[2]])]
           Eq(f) == f = [d \in SUBSET (1..n) |-> IF d = {} THEN base
                                                 ELSE Op(f[d \ {Max(d)}], s[Max(d)])]
           f == CHOOSE f : Eq(f)
           h == [k \in 0..n |-> f[1..k]]
<1>1. n \in Nat /\ DOMAIN s = 1..n /\ \A i \in 1..n : s[i] \in Path
  BY LenProperties, ElementOfSeq
<1>2. AllPutBack(S, s) = f[1..n]
  BY <1>1 DEF AllPutBack, FoldLeft, MapThenFoldSet
<1>3. base \in T /\ \A t \in T, x \in Path : Op(t, x) \in T
  BY DEF PutBack
<1> HIDE DEF T, Op, base
<1>4. G \in [T \X (1..n) -> T]
  BY <1>1, <1>3
<1>5. PICK g \in [SUBSET (1..n) -> T] : SeqFolding(g, n, base, G)
  <2> HIDE DEF G, n
  <2> QED BY <1>1, <1>3, <1>4, SeqFoldExists
<1>6. Eq(g)
  <2>1. \A d \in SUBSET (1..n) : d # {} =>
          G[<<g[d \ {Max(d)}], Max(d)>>] = Op(g[d \ {Max(d)}], s[Max(d)])
    BY <1>1, MaxOfSet
  <2> HIDE DEF G
  <2> QED BY <1>5, <2>1 DEF SeqFolding
<1>7. Eq(f)
  <2> HIDE DEF Eq
  <2> QED BY <1>6
<1> HIDE DEF f
<1>8. f[1..0] = base /\ \A k \in 1..n : f[1..k] = Op(f[1..(k - 1)], s[k])
  <2>1. \A d \in SUBSET (1..n) :
          f[d] = IF d = {} THEN base ELSE Op(f[d \ {Max(d)}], s[Max(d)])
    BY <1>7
  <2> HIDE DEF n, Eq
  <2>2. f[1..0] = base
    BY <1>1, <2>1, Intervals
  <2>3. ASSUME NEW k \in 1..n PROVE f[1..k] = Op(f[1..(k - 1)], s[k])
    <3>1. /\ 1..k \in SUBSET (1..n) /\ 1..k # {}
          /\ Max(1..k) = k /\ (1..k) \ {Max(1..k)} = 1..(k - 1)
      BY <1>1, Intervals
    <3>2. f[1..k] = Op(f[(1..k) \ {Max(1..k)}], s[Max(1..k)])
      BY <2>1, <3>1
    <3> QED BY <3>1, <3>2
  <2> QED BY <2>2, <2>3
<1>9. h[0] = base /\ h[n] = f[1..n] /\ \A k \in 1..n : h[k] = Op(h[k - 1], s[k])
  BY <1>1, <1>8
<1> HIDE DEF h
<1> QED BY <1>2, <1>9 DEF Putting, base, Op

-----------------------------------------------------------------------------
(* What every commit keeps: the types, and that a node's directory has its *)
(* list of children.                                                       *)

LEMMA StepInduction ==
  ASSUME NEW n \in Nat, NEW T, 0 \in T, \A k \in 1..n : k - 1 \in T => k \in T
  PROVE  n \in T /\ \A k \in 0..n : k \in T
<1> DEFINE U == {k \in Nat : k <= n => k \in T}
<1>1. 0 \in U
  OBVIOUS
<1>2. ASSUME NEW k \in Nat, k \in U PROVE k + 1 \in U
  <2> SUFFICES ASSUME k + 1 <= n PROVE k + 1 \in T
    OBVIOUS
  <2>1. k + 1 \in 1..n /\ k + 1 - 1 = k /\ k \in T
    BY <1>2
  <2> QED BY <2>1
<1>3. Nat \subseteq U
  <2> HIDE DEF U
  <2> QED BY <1>1, <1>2, SetNatInduction
<1> QED BY <1>3

(* The directory of a node has its list of children. *)
Opened(b) == \A n \in b.nodes : Front(n) \in b.opened
Shaped(b) == b \in BackupSet /\ Opened(b)

LEMMA FrontOfAppend ==
  ASSUME NEW d \in Seq(Name), NEW x \in Name, Append(d, x) \in Path
  PROVE  Front(Append(d, x)) = d
<1> DEFINE a == Append(d, x)
<1>1. Len(a) = Len(d) + 1 /\ (\A i \in 1..Len(d) : a[i] = d[i]) /\ Len(d) \in Nat
  BY AppendProperties, LenProperties
<1> HIDE DEF a
<1>2. /\ Front(a) \in Seq(Name) /\ Len(Front(a)) = Len(a) - 1
      /\ \A i \in 1..Len(a) - 1 : Front(a)[i] = a[i]
  BY PathFacts DEF a
<1>3. Len(Front(a)) = Len(d) /\ \A i \in 1..Len(d) : Front(a)[i] = d[i]
  BY <1>1, <1>2
<1> QED BY <1>2, <1>3, SeqEqual DEF a

LEMMA AddNodeShaped ==
  ASSUME NEW b, Shaped(b), NEW p \in Path
  PROVE  /\ Shaped(AddNode(b, p))
         /\ b.disk \subseteq AddNode(b, p).disk /\ AddNode(b, p).disk \subseteq b.disk \cup {p}
<1> DEFINE c == AddNode(b, p)
<1>1. b \in BackupSet /\ c \in BackupSet /\ b.nodes \subseteq Path
  BY AddNodeTyped DEF Shaped, BackupSet
<1>2. b.disk \subseteq c.disk /\ c.disk \subseteq b.disk \cup {p}
  BY DEF AddNode
<1>3. ASSUME NEW n \in c.nodes PROVE Front(n) \in c.opened
  <2>1. CASE n \in b.nodes
    BY <2>1 DEF AddNode, Shaped, Opened
  <2>2. CASE n \notin b.nodes
    <3>1. PICK d \in ParentNode(b, p) : n = Append(d, Last(p))
      BY <2>2 DEF AddNode
    <3>2. d \in Path \cup {Root} /\ n \in Path
      BY <1>1, <3>1, ParentTyped
    <3>3. d \in Seq(Name) /\ Last(p) \in Name
      BY <3>2, PathFacts, EmptySeq DEF Root
    <3>4. Front(n) = d
      BY <3>1, <3>2, <3>3, FrontOfAppend
    <3> QED BY <3>1, <3>4 DEF AddNode
  <2> QED BY <2>1, <2>2
<1> QED BY <1>1, <1>2, <1>3 DEF Shaped, Opened

LEMMA DropShaped ==
  ASSUME NEW b, Shaped(b), NEW p \in Path
  PROVE  /\ Shaped(DropEntries(b, p))
         /\ DropEntries(b, p).disk \subseteq b.disk
         /\ \A q \in b.disk : IsPrefix(p, q) \/ q \in DropEntries(b, p).disk
<1>1. b \in BackupSet /\ DropEntries(b, p) \in BackupSet
  BY DropTyped DEF Shaped
<1>2. DropEntries(b, p).nodes = b.nodes /\ DropEntries(b, p).opened = b.opened
  BY <1>1 DEF DropEntries, BackupSet
<1>3. /\ DropEntries(b, p).disk \subseteq b.disk
      /\ \A q \in b.disk : q \in Below(p) \/ q = p \/ q \in DropEntries(b, p).disk
  BY <1>1 DEF DropEntries, BackupSet
<1>4. IsPrefix(p, p)
  BY PrefixOrder
<1> QED BY <1>1, <1>2, <1>3, <1>4 DEF Shaped, Opened, Below

LEMMA FreeShaped ==
  ASSUME NEW b, Shaped(b), NEW p \in Path
  PROVE  Shaped(FreeNode(b, p)) /\ FreeNode(b, p).disk = b.disk
<1> DEFINE freed == {n \in b.nodes : \E m \in SelfNode(b, p) : IsPrefix(m, n)}
           c == FreeNode(b, p)
<1>1. b \in BackupSet /\ c \in BackupSet /\ b.nodes \subseteq Path
  BY FreeTyped DEF Shaped, BackupSet
<1>2. c.nodes = b.nodes \ freed /\ c.opened = b.opened \ freed /\ c.disk = b.disk
  BY <1>1 DEF FreeNode, BackupSet
<1>3. ASSUME NEW n \in b.nodes \ freed PROVE Front(n) \notin freed
  <2> SUFFICES ASSUME NEW m \in SelfNode(b, p), IsPrefix(m, Front(n)), Front(n) \in b.nodes
               PROVE  FALSE
    OBVIOUS
  <2>1. m \in Path /\ Front(n) \in Path /\ n \in Path
    BY <1>1, SelfNodeIsNode
  <2>2. Len(n) > 1
    <3>1. Len(Front(n)) \in Nat \ {0} /\ Len(Front(n)) = Len(n) - 1 /\ Len(n) \in Nat
      BY <2>1, PathFacts
    <3> QED BY <3>1
  <2>3. IsPrefix(Front(n), n)
    BY <2>1, <2>2, PrefixOrder
  <2>4. IsPrefix(m, n)
    BY <2>1, <2>3, PrefixOrder
  <2> QED BY <2>4
<1> HIDE DEF freed, c
<1>4. Opened(c)
  BY <1>2, <1>3 DEF Opened, Shaped
<1> QED BY <1>1, <1>2, <1>4 DEF Shaped, c

(* A commit takes only what is chosen to the disk, and leaves there what is *)
(* not below anything chosen.                                               *)
LEMMA DownloadedShaped ==
  ASSUME NEW b, Shaped(b), NEW a \in Seq(Path), NEW d \in Seq(Path)
  PROVE  LET c == Downloaded(b, a, d) IN
         /\ Shaped(c) /\ c.disk \subseteq b.disk \cup Range(a)
         /\ \A q \in b.disk : (\A p \in Range(d) : ~IsPrefix(p, q)) => q \in c.disk
<1>0. /\ Len(a) \in Nat /\ \A i \in 1..Len(a) : a[i] \in Path /\ a[i] \in Range(a)
      /\ Len(d) \in Nat /\ \A i \in 1..Len(d) : d[i] \in Path /\ d[i] \in Range(d)
  BY LenProperties, ElementOfSeq DEF Range
<1> DEFINE c1 == AllAdded(b, a)
           c2 == AllDropped(c1, d)
           c3 == AllFreed(c2, d)
<1>1. Downloaded(b, a, d) = c3
  BY DEF Downloaded, AllAdded, AllDropped, AllFreed
<1>2. Shaped(c1) /\ b.disk \subseteq c1.disk /\ c1.disk \subseteq b.disk \cup Range(a)
  <2>1. b \in BackupSet
    BY DEF Shaped
  <2>2. PICK h : c1 = h[Len(a)] /\ Adding(h, b, a)
    BY <2>1, AddSteps
  <2> DEFINE Good(c) == Shaped(c) /\ b.disk \subseteq c.disk /\ c.disk \subseteq b.disk \cup Range(a)
             T == {k \in 0..Len(a) : Good(h[k])}
  <2>3. 0 \in T
    BY <1>0, <2>2 DEF Adding
  <2>4. ASSUME NEW k \in 1..Len(a), k - 1 \in T PROVE k \in T
    <3>1. h[k] = AddNode(h[k - 1], a[k]) /\ a[k] \in Path /\ a[k] \in Range(a) /\ k \in 0..Len(a)
      BY <1>0, <2>2 DEF Adding
    <3>2. Good(h[k - 1])
      BY <2>4
    <3>3. Good(AddNode(h[k - 1], a[k]))
      BY <3>1, <3>2, AddNodeShaped
    <3> QED BY <3>1, <3>3
  <2>5. Len(a) \in T
    <3> HIDE DEF T
    <3> QED BY <1>0, <2>3, <2>4, StepInduction
  <2> HIDE DEF c1
  <2> QED BY <2>2, <2>5
<1>3. /\ Shaped(c2) /\ c2.disk \subseteq c1.disk
      /\ \A q \in c1.disk : (\A p \in Range(d) : ~IsPrefix(p, q)) => q \in c2.disk
  <2> HIDE DEF c1
  <2>1. c1 \in BackupSet
    BY <1>2 DEF Shaped
  <2>2. PICK h : c2 = h[Len(d)] /\ Dropping(h, c1, d)
    BY <2>1, DropSteps
  <2> DEFINE Good(c) == /\ Shaped(c) /\ c.disk \subseteq c1.disk
                        /\ \A q \in c1.disk : (\A p \in Range(d) : ~IsPrefix(p, q)) => q \in c.disk
             T == {k \in 0..Len(d) : Good(h[k])}
  <2>3. 0 \in T
    BY <1>0, <1>2, <2>2 DEF Dropping
  <2>4. ASSUME NEW k \in 1..Len(d), k - 1 \in T PROVE k \in T
    <3>1. h[k] = DropEntries(h[k - 1], d[k]) /\ d[k] \in Path /\ d[k] \in Range(d) /\ k \in 0..Len(d)
      BY <1>0, <2>2 DEF Dropping
    <3>2. Good(h[k - 1])
      BY <2>4
    <3>3. Good(DropEntries(h[k - 1], d[k]))
      BY <3>1, <3>2, DropShaped
    <3> QED BY <3>1, <3>3
  <2>5. Len(d) \in T
    <3> HIDE DEF T
    <3> QED BY <1>0, <2>3, <2>4, StepInduction
  <2> HIDE DEF c2
  <2> QED BY <2>2, <2>5
<1>4. Shaped(c3) /\ c3.disk = c2.disk
  <2> HIDE DEF c2
  <2>1. c2 \in BackupSet
    BY <1>3 DEF Shaped
  <2>2. PICK h : c3 = h[Len(d)] /\ Freeing(h, c2, d)
    BY <2>1, FreeSteps
  <2> DEFINE Good(c) == Shaped(c) /\ c.disk = c2.disk
             T == {k \in 0..Len(d) : Good(h[k])}
  <2>3. 0 \in T
    BY <1>0, <1>3, <2>2 DEF Freeing
  <2>4. ASSUME NEW k \in 1..Len(d), k - 1 \in T PROVE k \in T
    <3>1. h[k] = FreeNode(h[k - 1], d[k]) /\ d[k] \in Path /\ k \in 0..Len(d)
      BY <1>0, <2>2 DEF Freeing
    <3>2. Good(h[k - 1])
      BY <2>4
    <3>3. Good(FreeNode(h[k - 1], d[k]))
      BY <3>1, <3>2, FreeShaped
    <3> QED BY <3>1, <3>3
  <2>5. Len(d) \in T
    <3> HIDE DEF T
    <3> QED BY <1>0, <2>3, <2>4, StepInduction
  <2> HIDE DEF c3
  <2> QED BY <2>2, <2>5
<1> HIDE DEF c1, c2, c3
<1> QED BY <1>1, <1>2, <1>3, <1>4

LEMMA PutBackBounds ==
  ASSUME NEW S \in SUBSET Path, NEW d \in Seq(Path)
  PROVE  S \subseteq AllPutBack(S, d) /\ AllPutBack(S, d) \subseteq S \cup Range(d)
<1>0. Len(d) \in Nat /\ \A i \in 1..Len(d) : d[i] \in Path /\ d[i] \in Range(d)
  BY LenProperties, ElementOfSeq DEF Range
<1>1. PICK h : AllPutBack(S, d) = h[Len(d)] /\ Putting(h, S, d)
  BY PutSteps
<1> DEFINE Good(s) == S \subseteq s /\ s \subseteq S \cup Range(d)
           T == {k \in 0..Len(d) : Good(h[k])}
<1>2. 0 \in T
  BY <1>0, <1>1 DEF Putting
<1>3. ASSUME NEW k \in 1..Len(d), k - 1 \in T PROVE k \in T
  <2>1. h[k] = PutBack(h[k - 1], d[k]) /\ d[k] \in Range(d) /\ k \in 0..Len(d)
    BY <1>0, <1>1 DEF Putting
  <2>2. Good(h[k - 1])
    BY <1>3
  <2>3. Good(PutBack(h[k - 1], d[k]))
    BY <2>1, <2>2 DEF PutBack
  <2> QED BY <2>1, <2>3
<1>4. Len(d) \in T
  <2> HIDE DEF T
  <2> QED BY <1>0, <1>2, <1>3, StepInduction
<1> QED BY <1>1, <1>4
-----------------------------------------------------------------------------
(* The invariant. *)

LEMMA BackupShaped == TypeOK => Shaped(Backup)
BY DEF TypeOK, Shaped, Opened, Backup, BackupSet

LEMMA ListsTyped ==
  ASSUME TypeOK
  PROVE  /\ added \in Seq(Path) /\ deleted \in Seq(Path)
         /\ IsInjective(added) /\ IsInjective(deleted) /\ Range(added) \cap Range(deleted) = {}
         /\ Range(added) \subseteq Path /\ Range(deleted) \subseteq Path
<1>1. added \in Seq(Path) /\ deleted \in Seq(Path) /\ IsInjective(added \o deleted)
  BY DEF TypeOK
<1>2. \A s \in Seq(Path) : Range(s) \subseteq Path
  <2> SUFFICES ASSUME NEW s \in Seq(Path), NEW i \in DOMAIN s PROVE s[i] \in Path
    BY DEF Range
  <2> QED BY LenProperties, ElementOfSeq
<1> QED BY <1>1, <1>2, ConcatFacts

LEMMA ParentTyping ==
  ASSUME NEW p \in Path
  PROVE  Front(p) \in Path \cup {Root}
<1>1. CASE Len(p) > 1
  BY <1>1, ParentIsDir
<1>2. CASE ~ Len(p) > 1
  <2>1. Front(p) \in Seq(Name) /\ Len(Front(p)) = Len(p) - 1 /\ Len(p) \in Nat \ {0}
    BY PathFacts
  <2>2. \A m \in Nat \ {0} : ~ (m > 1) => m - 1 = 0
    OBVIOUS
  <2>3. Len(Front(p)) = 0
    BY <1>2, <2>1, <2>2
  <2> QED BY <2>1, <2>3, EmptySeq DEF Root
<1> QED BY <1>1, <1>2

(* The lists after a pass. *)
LEMMA PassLists ==
  ASSUME TypeOK, NEW levels, Pass(levels)
  PROVE  /\ added' \in Seq(Path) /\ deleted' \in Seq(Path)
         /\ Range(added') \subseteq Range(added) \cup (Unknown(levels) \ Recorded)
         /\ Range(deleted') \subseteq Range(deleted) \cup (Untouched(levels) \ (Recorded \cup Unknown(levels)))
         /\ Range(deleted) \subseteq Range(deleted')
         /\ IsInjective(added' \o deleted')
<1> DEFINE U == Unknown(levels) \ Recorded
           V == Untouched(levels) \ (Recorded \cup Unknown(levels))
           a == Keep(Order, U)
           d == Keep(Order, V)
<1>1. Order \in Seq(Path) /\ Range(Order) = Path /\ IsInjective(Order)
  <2>1. \A i \in 1..Len(Order) : Order[i] \in Path
    BY OrderFacts DEF Path, Range
  <2>2. Order \in Seq(Path)
    BY <2>1, OrderFacts, SeqDef, IsASeq
  <2> QED BY <2>2, PathsAssumption DEF Path
<1>2. added' = added \o a /\ deleted' = deleted \o d
  BY DEF Pass, NewAdded, NewDeleted
<1>3. /\ a \in Seq(Path) /\ Range(a) = Path \cap U /\ IsInjective(a)
      /\ d \in Seq(Path) /\ Range(d) = Path \cap V /\ IsInjective(d)
  <2> HIDE DEF U, V
  <2> QED BY <1>1, KeepFacts
<1>4. /\ added \in Seq(Path) /\ deleted \in Seq(Path)
      /\ IsInjective(added) /\ IsInjective(deleted) /\ Range(added) \cap Range(deleted) = {}
  BY ListsTyped
<1>5. U \cap V = {} /\ U \cap Recorded = {} /\ V \cap Recorded = {}
  OBVIOUS
<1> HIDE DEF a, d, U, V
<1>6. /\ added \o a \in Seq(Path) /\ Range(added \o a) = Range(added) \cup Range(a)
      /\ deleted \o d \in Seq(Path) /\ Range(deleted \o d) = Range(deleted) \cup Range(d)
  BY <1>3, <1>4, ConcatFacts
<1>7. IsInjective(added \o a) /\ IsInjective(deleted \o d)
  BY <1>3, <1>4, <1>5, ConcatFacts DEF Recorded
<1>8. Range(added \o a) \cap Range(deleted \o d) = {}
  BY <1>3, <1>4, <1>5, <1>6 DEF Recorded
<1>9. IsInjective((added \o a) \o (deleted \o d))
  BY <1>6, <1>7, <1>8, ConcatFacts
<1> QED BY <1>2, <1>3, <1>6, <1>9 DEF U, V

LEMMA TakesLists ==
  ASSUME TypeOK, NEW A, NEW D, Takes(A, D)
  PROVE  /\ added' \in Seq(Path) /\ Range(added') = Range(added) \ A
         /\ deleted' \in Seq(Path) /\ Range(deleted') = Range(deleted) \ D
         /\ IsInjective(added' \o deleted')
         /\ Keep(added, A) \in Seq(Path) /\ Range(Keep(added, A)) = A
         /\ Keep(deleted, D) \in Seq(Path) /\ Range(Keep(deleted, D)) = D
         /\ IsInjective(Keep(deleted, D))
<1>1. /\ added' = Keep(added, Range(added) \ A) /\ deleted' = Keep(deleted, Range(deleted) \ D)
      /\ A \subseteq Range(added) /\ D \subseteq Range(deleted)
  BY DEF Takes, Drop
<1>2. /\ added \in Seq(Path) /\ deleted \in Seq(Path)
      /\ IsInjective(added) /\ IsInjective(deleted) /\ Range(added) \cap Range(deleted) = {}
  BY ListsTyped
<1>3. /\ added' \in Seq(Path) /\ Range(added') = Range(added) \ A /\ IsInjective(added')
      /\ deleted' \in Seq(Path) /\ Range(deleted') = Range(deleted) \ D /\ IsInjective(deleted')
  <2>1. \A s \in Seq(Path) : \A P :
          /\ Keep(s, P) \in Seq(Path) /\ Range(Keep(s, P)) = Range(s) \cap P
          /\ IsInjective(s) => IsInjective(Keep(s, P))
    BY KeepFacts
  <2> QED BY <1>1, <1>2, <2>1
<1>4. /\ Keep(added, A) \in Seq(Path) /\ Range(Keep(added, A)) = A
      /\ Keep(deleted, D) \in Seq(Path) /\ Range(Keep(deleted, D)) = D
      /\ IsInjective(Keep(deleted, D))
  <2>1. Range(added) \cap A = A /\ Range(deleted) \cap D = D
    BY <1>1
  <2>2. \A s \in Seq(Path) : \A P :
          /\ Keep(s, P) \in Seq(Path) /\ Range(Keep(s, P)) = Range(s) \cap P
          /\ IsInjective(s) => IsInjective(Keep(s, P))
    BY KeepFacts
  <2> QED BY <1>2, <2>1, <2>2
<1>5. IsInjective(added' \o deleted')
  <2>1. Range(added') \cap Range(deleted') = {}
    BY <1>2, <1>3
  <2> QED BY <1>3, <2>1, ConcatFacts
<1> QED BY <1>3, <1>4, <1>5

LEMMA RestoredBounds ==
  ASSUME site \subseteq Path, NEW a, NEW d \in Seq(Path)
  PROVE  /\ RestoredSite(a, d) \subseteq site \cup Range(d)
         /\ \A p \in site : (\A q \in Range(a) : p \notin Removal(q)) => p \in RestoredSite(a, d)
<1> DEFINE S == site \ UNION {Removal(p) : p \in Range(a)}
<1>1. RestoredSite(a, d) = AllPutBack(S, d)
  BY DEF RestoredSite, AllPutBack
<1>2. S \in SUBSET Path
  OBVIOUS
<1>3. \A p \in site : (\A q \in Range(a) : p \notin Removal(q)) => p \in S
  OBVIOUS
<1>4. S \subseteq site
  OBVIOUS
<1> HIDE DEF S
<1> QED BY <1>1, <1>2, <1>3, <1>4, PutBackBounds

LEMMA SeqRange ==
  ASSUME NEW s \in Seq(Path)
  PROVE  Range(s) \subseteq Path
BY LenProperties, ElementOfSeq DEF Range

LEMMA FullBackupShaped ==
  ASSUME site \subseteq Path
  PROVE  Shaped(FullBackup)
BY ParentTyping DEF Shaped, Opened, FullBackup, BackupSet

LEMMA EmptyLists == <<>> \in Seq(Path) /\ Range(<<>>) = {} /\ IsInjective(<<>> \o <<>>)
<1>1. <<>> \in Seq(Path) /\ DOMAIN <<>> = {}
  BY EmptySeq
<1> QED BY <1>1, ConcatEmptySeq DEF IsInjective, Range

LEMMA InitTypeOK == Init => TypeOK
<1> SUFFICES ASSUME Init PROVE TypeOK
  OBVIOUS
<1>1. Shaped(FullBackup) /\ site \subseteq Path
  BY FullBackupShaped DEF Init
<1>2. added = <<>> /\ deleted = <<>>
  BY DEF Init
<1>3. 0 \in 0..MaxMoves
  BY PathsAssumption
<1>4. /\ nodes \subseteq Path /\ disk \subseteq Path /\ hash \subseteq Path \X Path
      /\ opened \subseteq Path \cup {Root} /\ \A n \in nodes : Front(n) \in opened
  BY <1>1 DEF Init, Shaped, Opened, FullBackup, BackupSet
<1> QED BY <1>1, <1>2, <1>3, <1>4, EmptyLists DEF Init, TypeOK

LEMMA BackupTyped ==
  ASSUME NEW b, Shaped(b), BecomesBackup(b)
  PROVE  /\ nodes' \subseteq Path /\ disk' \subseteq Path /\ hash' \subseteq Path \X Path
         /\ opened' \subseteq Path \cup {Root} /\ \A n \in nodes' : Front(n) \in opened'
BY DEF Shaped, Opened, BecomesBackup, BackupSet

LEMMA NextTypeOK == TypeOK /\ [Next]_vars => TypeOK'
<1> SUFFICES ASSUME TypeOK, [Next]_vars PROVE TypeOK'
  OBVIOUS
<1>1. ASSUME NEW p \in Path, SiteAdds(p) PROVE TypeOK'
  BY <1>1, PathsAssumption DEF SiteAdds, TypeOK
<1>2. ASSUME NEW p \in Path, SiteRemoves(p) PROVE TypeOK'
  BY <1>2, PathsAssumption DEF SiteRemoves, TypeOK
<1>3. ASSUME NEW levels \in PassLevels, Pass(levels) PROVE TypeOK'
  <2>1. added' \in Seq(Path) /\ deleted' \in Seq(Path) /\ IsInjective(added' \o deleted')
    BY <1>3, PassLists
  <2> QED BY <1>3, <2>1 DEF Pass, TypeOK
<1>4. ASSUME AutoRestore PROVE TypeOK'
  <2>1. site' \subseteq Path
    <3>1. site \subseteq Path /\ deleted \in Seq(Path) /\ Range(deleted) \subseteq Path
      BY ListsTyped DEF TypeOK
    <3>2. site' = RestoredSite(added, deleted)
      BY <1>4 DEF AutoRestore
    <3> QED BY <3>1, <3>2, RestoredBounds
  <2> QED BY <1>4, <2>1, EmptyLists DEF AutoRestore, TypeOK
<1>5. ASSUME NEW A, NEW D, ManRestore(A, D) PROVE TypeOK'
  <2>1. /\ added' \in Seq(Path) /\ deleted' \in Seq(Path) /\ IsInjective(added' \o deleted')
        /\ Keep(deleted, D) \in Seq(Path)
    BY <1>5, TakesLists DEF ManRestore
  <2>2. site' \subseteq Path
    <3>1. site \subseteq Path /\ Range(Keep(deleted, D)) \subseteq Path
      BY <2>1, SeqRange DEF TypeOK
    <3>2. site' = RestoredSite(Keep(added, A), Keep(deleted, D))
      BY <1>5 DEF ManRestore
    <3> QED BY <2>1, <3>1, <3>2, RestoredBounds
  <2> QED BY <1>5, <2>1, <2>2 DEF ManRestore, TypeOK
<1>6. ASSUME NEW A, NEW D, ManCommit(A, D) PROVE TypeOK'
  <2>1. /\ added' \in Seq(Path) /\ deleted' \in Seq(Path) /\ IsInjective(added' \o deleted')
        /\ Keep(added, A) \in Seq(Path) /\ Keep(deleted, D) \in Seq(Path)
    BY <1>6, TakesLists DEF ManCommit
  <2>2. Shaped(Downloaded(Backup, Keep(added, A), Keep(deleted, D)))
    BY <2>1, BackupShaped, DownloadedShaped
  <2>3. BecomesBackup(Downloaded(Backup, Keep(added, A), Keep(deleted, D)))
    BY <1>6 DEF ManCommit
  <2>4. /\ nodes' \subseteq Path /\ disk' \subseteq Path /\ hash' \subseteq Path \X Path
        /\ opened' \subseteq Path \cup {Root} /\ \A n \in nodes' : Front(n) \in opened'
    BY <2>2, <2>3, BackupTyped
  <2> QED BY <1>6, <2>1, <2>4 DEF ManCommit, TypeOK
<1>7. ASSUME Rebackup PROVE TypeOK'
  <2>1. Shaped(FullBackup) /\ BecomesBackup(FullBackup)
    BY <1>7, FullBackupShaped DEF Rebackup, TypeOK
  <2>2. /\ nodes' \subseteq Path /\ disk' \subseteq Path /\ hash' \subseteq Path \X Path
        /\ opened' \subseteq Path \cup {Root} /\ \A n \in nodes' : Front(n) \in opened'
    BY <2>1, BackupTyped
  <2> QED BY <1>7, <2>2, EmptyLists DEF Rebackup, TypeOK
<1>8. ASSUME RestoreMode PROVE TypeOK'
  BY <1>8 DEF RestoreMode, TypeOK
<1>9. CASE UNCHANGED vars
  BY <1>9 DEF vars, TypeOK
<1> QED BY <1>1, <1>2, <1>3, <1>4, <1>5, <1>6, <1>7, <1>8, <1>9 DEF Next

(* Over any tree of paths and any number of passes, restores, commits and  *)
(* backups made anew the variables keep their types, no path is recorded   *)
(* twice, and the directory of a node has its list of children (core.c     *)
(* 803-876, tree.c).                                                       *)
THEOREM TypeCorrect == Spec => []TypeOK
<1>1. Init => TypeOK
  BY InitTypeOK
<1>2. TypeOK /\ [Next]_vars => TypeOK'
  BY NextTypeOK
<1> QED BY <1>1, <1>2, PTL DEF Spec

-----------------------------------------------------------------------------
(* Records keep fitting. *)

LEMMA SoundHash ==
  ASSUME Sound
  PROVE  \A p : HashGet(hash, p) <=> p \in nodes
BY DEF Sound, HashGet

LEMMA StepRecordsFit ==
  ASSUME TypeOK, Next, Sound, RecordsFit, Sound',
         \A p \in Range(deleted) \ Range(deleted'), q \in Range(deleted') : ~IsPrefix(p, q)
  PROVE  RecordsFit'
<1>0. Range(deleted) \subseteq nodes /\ Range(added) \cap nodes = {} /\ disk = nodes /\ disk' = nodes'
  BY DEF RecordsFit, Sound
<1>1. ASSUME NEW p \in Path, SiteAdds(p) PROVE RecordsFit'
  BY <1>0, <1>1 DEF SiteAdds, RecordsFit
<1>2. ASSUME NEW p \in Path, SiteRemoves(p) PROVE RecordsFit'
  BY <1>0, <1>2 DEF SiteRemoves, RecordsFit
<1>3. ASSUME NEW levels \in PassLevels, Pass(levels) PROVE RecordsFit'
  <2>1. Unknown(levels) \cap nodes = {} /\ Untouched(levels) \subseteq nodes
    BY SoundHash DEF Unknown, Untouched
  <2>2. /\ Range(added') \subseteq Range(added) \cup Unknown(levels)
        /\ Range(deleted') \subseteq Range(deleted) \cup Untouched(levels)
    BY <1>3, PassLists
  <2>3. nodes' = nodes
    BY <1>3 DEF Pass
  <2> QED BY <1>0, <2>1, <2>2, <2>3 DEF RecordsFit
<1>4. ASSUME AutoRestore PROVE RecordsFit'
  BY <1>4, EmptyLists DEF AutoRestore, RecordsFit
<1>5. ASSUME NEW A, NEW D, ManRestore(A, D) PROVE RecordsFit'
  <2>1. /\ Range(added') = Range(added) \ A /\ Range(deleted') = Range(deleted) \ D
        /\ nodes' = nodes
    BY <1>5, TakesLists DEF ManRestore
  <2> QED BY <1>0, <2>1 DEF RecordsFit
<1>6. ASSUME NEW A, NEW D, ManCommit(A, D) PROVE RecordsFit'
  <2> DEFINE a == Keep(added, A)
             d == Keep(deleted, D)
             c == Downloaded(Backup, a, d)
  <2>1. /\ Range(added') = Range(added) \ A /\ Range(deleted') = Range(deleted) \ D
        /\ a \in Seq(Path) /\ Range(a) = A /\ d \in Seq(Path) /\ Range(d) = D
    BY <1>6, TakesLists DEF ManCommit
  <2>2. D \subseteq Range(deleted) /\ disk' = c.disk /\ Backup.disk = disk
    BY <1>6 DEF ManCommit, Takes, BecomesBackup, Backup
  <2>3. Shaped(Backup)
    BY BackupShaped
  <2> HIDE DEF a, d
  <2>4. /\ c.disk \subseteq disk \cup A
        /\ \A q \in disk : (\A p \in D : ~IsPrefix(p, q)) => q \in c.disk
    BY <2>1, <2>2, <2>3, DownloadedShaped
  <2> HIDE DEF c
  <2>5. Range(added') \cap disk' = {}
    BY <1>0, <2>1, <2>2, <2>4
  <2>6. Range(deleted') \subseteq disk'
    <3> SUFFICES ASSUME NEW q \in Range(deleted') PROVE q \in disk'
      OBVIOUS
    <3>1. D \subseteq Range(deleted) \ Range(deleted')
      BY <2>1, <2>2
    <3>2. \A p \in D : ~IsPrefix(p, q)
      BY <3>1
    <3> QED BY <1>0, <2>1, <2>2, <2>4, <3>2
  <2> QED BY <1>0, <2>5, <2>6 DEF RecordsFit
<1>7. ASSUME Rebackup PROVE RecordsFit'
  BY <1>7, EmptyLists DEF Rebackup, RecordsFit
<1>8. ASSUME RestoreMode PROVE RecordsFit'
  BY <1>0, <1>8 DEF RestoreMode, RecordsFit
<1> QED BY <1>1, <1>2, <1>3, <1>4, <1>5, <1>6, <1>7, <1>8 DEF Next

(* Records keep fitting the backup, over any tree of paths and any number  *)
(* of passes, restores and commits (core.c 654-669, 866-876, 1101-1106).   *)
THEOREM RecordsKeepFitting == Spec => RecordsStayFit
<1>1. TypeOK /\ [Next]_vars
        => [LET gone == Range(deleted) \ Range(deleted') IN
             /\ Sound /\ RecordsFit /\ Sound'
             /\ \A p \in gone, q \in Range(deleted') : ~IsPrefix(p, q)
             => RecordsFit']_vars
  BY StepRecordsFit
<1> QED BY <1>1, TypeCorrect, PTL DEF Spec, RecordsStayFit
-----------------------------------------------------------------------------
(* A restore helps. *)

LEMMA RestoredSiteHelps ==
  ASSUME TypeOK, Sound, RecordsFit, NEW a, Range(a) \subseteq Range(added),
         NEW d \in Seq(Path), Range(d) \subseteq Range(deleted),
         NEW p \in Path, p \in site <=> p \in nodes
  PROVE  p \in RestoredSite(a, d) <=> p \in nodes
<1>0. /\ site \subseteq Path /\ nodes \subseteq Path /\ Range(added) \subseteq Path
      /\ Range(deleted) \subseteq nodes /\ Range(added) \cap nodes = {}
      /\ \A n \in nodes : HasParent(nodes, n)
  BY ListsTyped DEF TypeOK, RecordsFit, Sound
<1>1. /\ RestoredSite(a, d) \subseteq site \cup Range(d)
      /\ \A r \in site : (\A q \in Range(a) : r \notin Removal(q)) => r \in RestoredSite(a, d)
  BY <1>0, RestoredBounds
<1>2. ASSUME p \in nodes, NEW q \in Range(a) PROVE p \notin Removal(q)
  <2>1. q \in Path /\ q \notin nodes
    BY <1>0
  <2>2. p \in Removal(q) => IsPrefix(q, p)
    BY <2>1, PrefixOrder DEF Removal, Below
  <2> QED BY <1>0, <1>2, <2>1, <2>2, Ancestors
<1> QED BY <1>0, <1>1, <1>2

LEMMA StepRestoreHelps ==
  ASSUME TypeOK, Next, Restores, Sound, RecordsFit,
         NEW p \in Path, p \in site <=> p \in nodes
  PROVE  p \in site' <=> p \in nodes
<1>1. ASSUME NEW q \in Path, SiteAdds(q) \/ SiteRemoves(q) PROVE FALSE
  BY <1>1 DEF SiteAdds, SiteRemoves, Restores, TypeOK
<1>2. ASSUME AutoRestore PROVE p \in site' <=> p \in nodes
  <2>1. site' = RestoredSite(added, deleted)
    BY <1>2 DEF AutoRestore
  <2> QED BY <2>1, ListsTyped, RestoredSiteHelps
<1>3. ASSUME NEW A, NEW D, ManRestore(A, D) PROVE p \in site' <=> p \in nodes
  <2> DEFINE a == Keep(added, A)
             d == Keep(deleted, D)
  <2>1. site' = RestoredSite(a, d) /\ A \subseteq Range(added) /\ D \subseteq Range(deleted)
    BY <1>3 DEF ManRestore, Takes
  <2>2. Range(a) = A /\ d \in Seq(Path) /\ Range(d) = D
    BY <1>3, TakesLists DEF ManRestore
  <2> HIDE DEF a, d
  <2> QED BY <2>1, <2>2, RestoredSiteHelps
<1>4. ASSUME NEW A, NEW D, ManCommit(A, D) PROVE FALSE
  BY <1>4 DEF ManCommit, Restores
<1>5. ASSUME Rebackup \/ RestoreMode \/ \E levels \in PassLevels : Pass(levels) PROVE FALSE
  BY <1>5 DEF Rebackup, RestoreMode, Pass, Restores
<1> QED BY <1>1, <1>2, <1>3, <1>4, <1>5 DEF Next

(* No restore, automatic or chosen by the administrator, takes from the    *)
(* site what is as in the backup, over any tree of paths (core.c 803-864). *)
THEOREM RestoringHelps == Spec => RestoreHelps
<1>1. TypeOK /\ [Next]_vars
        => [Restores /\ Sound /\ RecordsFit =>
              \A p \in Path : (p \in site <=> p \in nodes) => (p \in site' <=> p \in nodes)]_vars
  BY StepRestoreHelps
<1> QED BY <1>1, TypeCorrect, PTL DEF Spec, RestoreHelps
-----------------------------------------------------------------------------
(* A commit adopts what was chosen. *)

LEMMA FirstNames ==
  ASSUME NEW p \in Path, NEW k \in 1..Len(p)
  PROVE  /\ SubSeq(p, 1, k) \in Seq(Name) /\ Len(SubSeq(p, 1, k)) = k
         /\ SubSeq(p, 1, k) = Append(SubSeq(p, 1, k - 1), p[k])
         /\ Front(SubSeq(p, 1, k)) = SubSeq(p, 1, k - 1)
<1> DEFINE q == SubSeq(p, 1, k)
           r == SubSeq(p, 1, k - 1)
           a == Append(r, p[k])
           f == SubSeq(q, 1, Len(q) - 1)
<1>1. p \in Seq(Name) /\ Len(p) \in Nat /\ k \in Nat \ {0} /\ \A i \in 1..Len(p) : p[i] \in Name
  BY PathFacts, ElementOfSeq
<1>3. q \in Seq(Name) /\ Len(q) = k /\ \A i \in 1..k : q[i] = p[i]
  <2>1. k \in 0..Len(p)
    BY <1>1
  <2> QED BY <1>1, <2>1, FirstElements
<1>4. r \in Seq(Name) /\ Len(r) = k - 1 /\ \A i \in 1..k - 1 : r[i] = p[i]
  <2> DEFINE m == k - 1
  <2>1. m \in 0..Len(p)
    BY <1>1
  <2> HIDE DEF m
  <2>2. /\ SubSeq(p, 1, m) \in Seq(Name) /\ Len(SubSeq(p, 1, m)) = m
        /\ \A i \in 1..m : SubSeq(p, 1, m)[i] = p[i]
    BY <1>1, <2>1, FirstElements
  <2> QED BY <2>2 DEF m
<1> HIDE DEF q, r
<1>5. /\ a \in Seq(Name) /\ Len(a) = k /\ (\A i \in 1..k - 1 : a[i] = r[i]) /\ a[k] = p[k]
  <2>1. /\ a \in Seq(Name) /\ Len(a) = Len(r) + 1 /\ (\A i \in 1..Len(r) : a[i] = r[i])
        /\ a[Len(r) + 1] = p[k]
    BY <1>1, <1>4, AppendProperties
  <2>2. Len(r) = k - 1 /\ k - 1 + 1 = k
    BY <1>1, <1>4
  <2> QED BY <2>1, <2>2
<1>6. f \in Seq(Name) /\ Len(f) = k - 1 /\ \A i \in 1..k - 1 : f[i] = q[i]
  <2> DEFINE m == Len(q) - 1
  <2>1. m \in 0..Len(q) /\ m = k - 1
    BY <1>1, <1>3
  <2> HIDE DEF m
  <2>2. /\ SubSeq(q, 1, m) \in Seq(Name) /\ Len(SubSeq(q, 1, m)) = m
        /\ \A i \in 1..m : SubSeq(q, 1, m)[i] = q[i]
    BY <1>3, <2>1, FirstElements
  <2>3. f = SubSeq(q, 1, m)
    BY DEF m
  <2> HIDE DEF f
  <2> QED BY <2>1, <2>2, <2>3
<1>7. Front(q) = f
  BY DEF Front
<1> HIDE DEF a, f
<1>8. q = a
  <2>1. ASSUME NEW i \in 1..k PROVE q[i] = a[i]
    <3>1. CASE i = k
      BY <1>3, <1>5, <3>1
    <3>2. CASE i # k
      <4>1. i \in 1..k - 1
        BY <1>1, <3>2
      <4> QED BY <1>3, <1>4, <1>5, <4>1
    <3> QED BY <3>1, <3>2
  <2> QED BY <1>3, <1>5, <2>1, SeqEqual
<1>9. f = r
  <2>1. ASSUME NEW i \in 1..k - 1 PROVE f[i] = r[i]
    <3>1. i \in 1..k
      BY <1>1
    <3> QED BY <1>3, <1>4, <1>6, <3>1
  <2> QED BY <1>4, <1>6, <2>1, SeqEqual
<1> QED BY <1>3, <1>4, <1>7, <1>8, <1>9 DEF q, r, a

(* The directory of each path of N is in N. *)
Closed(N) == \A n \in N : HasParent(N, n)

(* As long as every directory is there, the lookup finds the node of a     *)
(* path and no other.                                                      *)
LEMMA SelfNodeFinds ==
  ASSUME NEW b, Shaped(b), Closed(b.nodes), NEW p \in b.nodes
  PROVE  SelfNode(b, p) = {p}
<1> DEFINE n == Len(p)
           Prefix(k) == SubSeq(p, 1, k)
<1>1. p \in Path /\ b.nodes \subseteq Path
  BY DEF Shaped, BackupSet
<1>2. p \in Seq(Name) /\ n \in Nat \ {0} /\ Last(p) = p[n]
  BY <1>1, PathFacts
<1>3. /\ Prefix(0) = Root
      /\ \A k \in 1..n : /\ Len(Prefix(k)) = k /\ Prefix(k) = Append(Prefix(k - 1), p[k])
                         /\ Front(Prefix(k)) = Prefix(k - 1)
  <2>1. Prefix(0) = <<>>
    BY SubSeqEmpty
  <2>2. ASSUME NEW k \in 1..n
        PROVE  /\ Len(Prefix(k)) = k /\ Prefix(k) = Append(Prefix(k - 1), p[k])
               /\ Front(Prefix(k)) = Prefix(k - 1)
    BY <1>1, FirstNames
  <2> HIDE DEF Prefix
  <2> QED BY <2>1, <2>2 DEF Root
<1>4. Prefix(n) = p
  BY <1>2, SubSeqFull
<1> HIDE DEF Prefix
<1>5. \A k \in 1..n : Prefix(k) \in b.nodes
  <2> DEFINE T == {j \in 0..n - 1 : Prefix(n - j) \in b.nodes}
  <2>0. n - 1 \in Nat /\ n \in 1..n
    BY <1>2
  <2>1. 0 \in T
    <3>1. n - 0 = n /\ 0 \in 0..n - 1
      BY <1>2
    <3> QED BY <1>4, <3>1
  <2>2. ASSUME NEW j \in 1..n - 1, j - 1 \in T PROVE j \in T
    <3> DEFINE k == n - (j - 1)
    <3>1. k \in 1..n /\ k - 1 = n - j /\ k # 1 /\ j \in 0..n - 1
      BY <1>2
    <3>2. Prefix(k) \in b.nodes
      BY <2>2
    <3> HIDE DEF k
    <3>3. HasParent(b.nodes, Prefix(k)) /\ Len(Prefix(k)) # 1 /\ Front(Prefix(k)) = Prefix(k - 1)
      BY <1>3, <3>1, <3>2 DEF Closed
    <3>4. Prefix(k - 1) \in b.nodes
      BY <3>3 DEF HasParent
    <3> QED BY <3>1, <3>4
  <2>3. \A j \in 0..n - 1 : j \in T
    <3> HIDE DEF T
    <3> QED BY <2>0, <2>1, <2>2, StepInduction
  <2>4. ASSUME NEW k \in 1..n PROVE Prefix(k) \in b.nodes
    <3>1. n - k \in 0..n - 1 /\ n - (n - k) = k
      BY <1>2
    <3>2. Prefix(n - (n - k)) \in b.nodes
      BY <2>3, <3>1
    <3> QED BY <3>1, <3>2
  <2> QED BY <2>4
<1>6. \A k \in 0..n - 1 : Prefix(k) \in b.opened
  <2> SUFFICES ASSUME NEW k \in 0..n - 1 PROVE Prefix(k) \in b.opened
    OBVIOUS
  <2>1. k + 1 \in 1..n /\ k + 1 - 1 = k
    BY <1>2
  <2>2. Front(Prefix(k + 1)) = Prefix(k) /\ Prefix(k + 1) \in b.nodes
    BY <1>3, <1>5, <2>1
  <2> QED BY <2>2 DEF Shaped, Opened
<1> DEFINE d == Dirs(p)
<1>7. PICK h : d \in Seq(Name) /\ Searching(h, b, d) /\ SelfNode(b, p) = Answer(b, p, h[Len(d)])
  BY <1>1, SelfNodeSearches
<1>8. /\ Len(d) = IF IsDir(p) THEN n ELSE n - 1
      /\ \A i \in 1..Len(d) : d[i] = p[i]
  BY <1>1, PathFacts DEF Dirs
<1>9. Len(d) \in 0..n
  BY <1>2, <1>8
<1> HIDE DEF d
<1> DEFINE Good(st, k) == /\ st.head = Prefix(k)
                          /\ k < n => ~st.done
                          /\ st.tmp = IF k = 0 THEN {} ELSE {Prefix(k)}
           T == {k \in 0..Len(d) : Good(h[k], k)}
<1>10. 0 \in T
  BY <1>3, <1>7, <1>9 DEF Searching
<1>11. ASSUME NEW k \in 1..Len(d), k - 1 \in T PROVE k \in T
  <2>1. k \in 1..n /\ k - 1 < n /\ k # 0 /\ k \in 0..Len(d)
    BY <1>2, <1>9
  <2>2. h[k] = Search(b, h[k - 1], p[k])
    BY <1>7, <1>8 DEF Searching
  <2>3. h[k - 1].head = Prefix(k - 1) /\ ~h[k - 1].done
    BY <1>11, <2>1
  <2>4. Append(Prefix(k - 1), p[k]) = Prefix(k) /\ Prefix(k) \in b.nodes
    BY <1>3, <1>5, <2>1
  <2>5. h[k] = [head |-> Prefix(k), tmp |-> {Prefix(k)}, done |-> Prefix(k) \notin b.opened]
    BY <2>2, <2>3, <2>4 DEF Search
  <2>6. k < n => Prefix(k) \in b.opened
    BY <1>2, <1>6, <2>1
  <2>7. h[k].head = Prefix(k) /\ h[k].tmp = {Prefix(k)} /\ k # 0
    BY <2>1, <2>5
  <2>8. ASSUME k < n PROVE ~h[k].done
    <3>1. (Prefix(k) \notin b.opened) = FALSE
      BY <2>6, <2>8
    <3>2. h[k] = [head |-> Prefix(k), tmp |-> {Prefix(k)}, done |-> FALSE]
      BY <2>5, <3>1
    <3> QED BY <3>2
  <2>9. Good(h[k], k)
    BY <2>7, <2>8
  <2> HIDE DEF Good
  <2> QED BY <2>1, <2>9
<1>12. Good(h[Len(d)], Len(d))
  <2>1. Len(d) \in T
    <3> HIDE DEF T
    <3> QED BY <1>9, <1>10, <1>11, StepInduction
  <2> QED BY <2>1
<1>13. Root \in b.opened
  <2> 0 \in 0..n - 1
    BY <1>2
  <2> QED BY <1>3, <1>6
<1> DEFINE st == h[Len(d)]
<1>14. CASE IsDir(p)
  <2>1. Len(d) = n /\ n # 0
    BY <1>2, <1>8, <1>14
  <2>2. st.tmp = {p}
    BY <1>4, <1>12, <2>1
  <2> HIDE DEF st
  <2> QED BY <1>7, <1>13, <1>14, <2>2 DEF Answer, st
<1>15. CASE ~IsDir(p)
  <2>1. Len(d) = n - 1 /\ n - 1 < n /\ n \in 1..n
    BY <1>2, <1>8, <1>15
  <2>2. st.head = Prefix(n - 1) /\ ~st.done
    BY <1>12, <2>1
  <2>3. Append(st.head, Last(p)) = p
    BY <1>2, <1>3, <1>4, <2>1, <2>2
  <2>4. d # Root => st.tmp # {}
    <3>1. Len(d) = 0 => d = Root
      BY <1>7, EmptySeq DEF Root
    <3> QED BY <1>12, <3>1
  <2> HIDE DEF st
  <2> QED BY <1>7, <1>13, <1>15, <2>2, <2>3, <2>4 DEF Answer, st, d
<1> QED BY <1>14, <1>15

(* What agrees: the hash and the disk tell what the nodes tell. *)
(* Tree, hash and disk tell the same, and no directory is missing. *)
Agreeing(b) ==
  /\ b.hash = {<<n, n>> : n \in b.nodes} /\ b.disk = b.nodes
  /\ Closed(b.nodes)

LEMMA AddNodeAgrees ==
  ASSUME NEW b, Shaped(b), Agreeing(b), NEW p \in Path, HasParent(b.nodes, p)
  PROVE  Agreeing(AddNode(b, p)) /\ AddNode(b, p).nodes = b.nodes \cup {p}
<1> DEFINE c == AddNode(b, p)
<1>1. ParentNode(b, p) = {Front(p)}
  <2>1. CASE Len(p) = 1
    <3>1. Front(p) \in Seq(Name) /\ Len(Front(p)) = 0
      BY <2>1, PathFacts
    <3>2. Front(p) = Root
      BY <3>1, EmptySeq DEF Root
    <3> QED BY <2>1, <3>2 DEF ParentNode
  <2>2. CASE Len(p) # 1
    <3>1. Front(p) \in b.nodes
      BY <2>2 DEF HasParent
    <3>2. SelfNode(b, Front(p)) = {Front(p)}
      BY <3>1, SelfNodeFinds DEF Agreeing
    <3> QED BY <2>2, <3>2 DEF ParentNode
  <2> QED BY <2>1, <2>2
<1>2. {Append(e, Last(p)) : e \in ParentNode(b, p)} = {p}
  BY <1>1, PathFacts
<1>3. c.nodes = b.nodes \cup {p}
  BY <1>2 DEF AddNode
<1>4. c.hash = HashSet(b.hash, p, {p})
  BY <1>2 DEF AddNode
<1>5. c.disk = c.nodes
  BY <1>3 DEF AddNode, Agreeing
<1> HIDE DEF c
<1>6. c.hash = {<<n, n>> : n \in c.nodes}
  <2>1. HashSet(b.hash, p, {p}) = b.hash \cup {<<p, p>>}
    BY DEF HashSet, HashGet
  <2> QED BY <1>3, <1>4, <2>1 DEF Agreeing
<1>7. Closed(c.nodes)
  BY <1>3 DEF Closed, Agreeing, HasParent
<1> QED BY <1>3, <1>5, <1>6, <1>7 DEF Agreeing, c

(* For two paths there can be, the path of a node begins with another at   *)
(* least when it is below it.                                              *)
LEMMA BelowBegins ==
  ASSUME NEW p \in Path, NEW n \in Path, IsPrefix(p, n)
  PROVE  Begins(n, p)
<1>1. CASE IsDir(p)
  BY <1>1 DEF Begins
<1>2. CASE ~IsDir(p)
  <2>1. n = p
    BY <1>2, OnlyDirsHaveBelow
  <2>2. Len(p) \in Nat /\ Last(p) = p[Len(p)] /\ Len(p) <= Len(p)
    BY PathFacts
  <2> QED BY <1>2, <2>1, <2>2 DEF Begins, Front
<1> QED BY <1>1, <1>2

LEMMA RemovalIsBelow ==
  ASSUME NEW p \in Path
  PROVE  (IF IsDir(p) THEN Below(p) ELSE {p}) = Below(p)
BY PrefixOrder, OnlyDirsHaveBelow DEF Below

(* What is left of N when the first k paths of d and all below are gone. *)
Left(N, d, k) == {n \in N : \A j \in 1..k : ~IsPrefix(d[j], n)}

LEMMA LeftStart ==
  ASSUME NEW N, NEW d
  PROVE  Left(N, d, 0) = N
BY DEF Left

LEMMA LeftStep ==
  ASSUME NEW N, NEW d, NEW k \in Nat \ {0}
  PROVE  \A n : n \in Left(N, d, k) <=> n \in Left(N, d, k - 1) /\ ~IsPrefix(d[k], n)
<1>1. 1..k = 1..(k - 1) \cup {k}
  OBVIOUS
<1> QED BY <1>1 DEF Left

LEMMA LeftIsClosed ==
  ASSUME NEW N \in SUBSET Path, Closed(N), NEW d \in Seq(Path), NEW k \in 0..Len(d)
  PROVE  Closed(Left(N, d, k))
<1> SUFFICES ASSUME NEW n \in N, \A j \in 1..k : ~IsPrefix(d[j], n), Len(n) # 1
             PROVE  Front(n) \in N /\ \A j \in 1..k : ~IsPrefix(d[j], Front(n))
  BY DEF Closed, HasParent, Left
<1>1. Front(n) \in N /\ Len(n) > 1
  <2>1. \A m \in Nat \ {0} : m # 1 => m > 1
    OBVIOUS
  <2> QED BY <2>1, PathFacts DEF Closed, HasParent
<1>2. IsPrefix(Front(n), n)
  BY <1>1, PrefixOrder
<1>3. ASSUME NEW j \in 1..k, IsPrefix(d[j], Front(n)) PROVE FALSE
  <2>1. d[j] \in Path
    <3>1. j \in 1..Len(d)
      BY LenProperties
    <3> QED BY <3>1, ElementOfSeq
  <2>2. IsPrefix(d[j], n)
    BY <1>1, <1>2, <1>3, <2>1, PrefixOrder
  <2> QED BY <2>2
<1> QED BY <1>1, <1>3

(* First the added paths, ... *)
LEMMA AddsAgree ==
  ASSUME NEW b, Shaped(b), Agreeing(b), NEW a \in Seq(Path),
         \A i \in DOMAIN a : HasParent(b.nodes \cup {a[j] : j \in 1..i-1}, a[i])
  PROVE  LET c == AllAdded(b, a) IN
         Shaped(c) /\ Agreeing(c) /\ c.nodes = b.nodes \cup Range(a)
<1>0. Len(a) \in Nat /\ DOMAIN a = 1..Len(a) /\ \A i \in 1..Len(a) : a[i] \in Path
  BY LenProperties, ElementOfSeq
<1>1. b \in BackupSet
  BY DEF Shaped
<1>2. PICK h : AllAdded(b, a) = h[Len(a)] /\ Adding(h, b, a)
  BY <1>1, AddSteps
<1> DEFINE First(k) == {a[j] : j \in 1..k}
           Good(c, k) == Shaped(c) /\ Agreeing(c) /\ c.nodes = b.nodes \cup First(k)
           T == {k \in 0..Len(a) : Good(h[k], k)}
<1>3. 0 \in T
  BY <1>0, <1>2 DEF Adding
<1>4. ASSUME NEW k \in 1..Len(a), k - 1 \in T PROVE k \in T
  <2>1. h[k] = AddNode(h[k - 1], a[k]) /\ a[k] \in Path /\ k \in 0..Len(a)
    BY <1>0, <1>2 DEF Adding
  <2>2. Good(h[k - 1], k - 1)
    BY <1>4
  <2>3. HasParent(h[k - 1].nodes, a[k])
    BY <1>0, <2>2
  <2>4. First(k) = First(k - 1) \cup {a[k]}
    <3>1. 1..k = 1..(k - 1) \cup {k}
      BY <1>0
    <3> QED BY <3>1
  <2> HIDE DEF First
  <2>5. Good(AddNode(h[k - 1], a[k]), k)
    <3> DEFINE e == h[k - 1]
    <3>1. Shaped(e) /\ Agreeing(e) /\ HasParent(e.nodes, a[k]) /\ a[k] \in Path
      BY <2>1, <2>2, <2>3
    <3>2. e.nodes = b.nodes \cup First(k - 1)
      BY <2>2
    <3> HIDE DEF e
    <3>3. /\ Shaped(AddNode(e, a[k])) /\ Agreeing(AddNode(e, a[k]))
          /\ AddNode(e, a[k]).nodes = e.nodes \cup {a[k]}
      BY <3>1, AddNodeShaped, AddNodeAgrees
    <3> QED BY <2>4, <3>2, <3>3 DEF e
  <2> QED BY <2>1, <2>5
<1>5. Good(h[Len(a)], Len(a))
  <2>1. Len(a) \in T
    <3> HIDE DEF T
    <3> QED BY <1>0, <1>3, <1>4, StepInduction
  <2> QED BY <2>1
<1>6. First(Len(a)) = Range(a)
  BY <1>0 DEF Range
<1> QED BY <1>2, <1>5, <1>6

(* ... then the entries and the files of the deleted ones, ... *)
LEMMA DropsAgree ==
  ASSUME NEW b, Shaped(b), Agreeing(b), NEW d \in Seq(Path), Range(d) \subseteq b.nodes,
         \A p \in Range(d), n \in b.nodes : Begins(n, p) => IsPrefix(p, n)
  PROVE  LET c == AllDropped(b, d) IN
         /\ Shaped(c) /\ c.nodes = b.nodes /\ c.disk = Left(b.nodes, d, Len(d))
         /\ c.hash = {<<n, n>> : n \in c.disk}
<1>0. Len(d) \in Nat /\ DOMAIN d = 1..Len(d)
      /\ \A i \in 1..Len(d) : d[i] \in Path /\ d[i] \in b.nodes /\ d[i] \in Range(d)
  BY LenProperties, ElementOfSeq DEF Range
<1>1. b \in BackupSet /\ b.nodes \subseteq Path /\ Closed(b.nodes)
  BY DEF Shaped, BackupSet, Agreeing
<1>2. PICK h : AllDropped(b, d) = h[Len(d)] /\ Dropping(h, b, d)
  BY <1>1, DropSteps
<1>a. \A k \in Nat \ {0} : \A n :
        n \in Left(b.nodes, d, k) <=> n \in Left(b.nodes, d, k - 1) /\ ~IsPrefix(d[k], n)
  BY LeftStep
<1> DEFINE Good(c, k) == /\ Shaped(c) /\ c.nodes = b.nodes /\ c.disk = Left(b.nodes, d, k)
                         /\ c.hash = {<<n, n>> : n \in c.disk}
           T == {k \in 0..Len(d) : Good(h[k], k)}
<1>3. 0 \in T
  BY <1>0, <1>2, LeftStart DEF Dropping, Agreeing
<1>4. ASSUME NEW k \in 1..Len(d), k - 1 \in T PROVE k \in T
  <2> DEFINE p == d[k]
             c == h[k - 1]
             e == DropEntries(c, p)
             L == Left(b.nodes, d, k - 1)
  <2>1. h[k] = e /\ p \in Path /\ p \in b.nodes /\ p \in Range(d) /\ k \in 0..Len(d) /\ k \in Nat \ {0}
    BY <1>0, <1>2 DEF Dropping
  <2>2. Good(c, k - 1)
    BY <1>4
  <2>3. \A n : n \in Left(b.nodes, d, k) <=> n \in L /\ ~IsPrefix(p, n)
    BY <1>a, <2>1
  <2>4. L \subseteq b.nodes
    BY DEF Left
  <2> HIDE DEF c, p, L
  <2>5. SelfNode(c, p) = {p} /\ c \in BackupSet
    BY <1>1, <2>1, <2>2, SelfNodeFinds DEF Shaped
  <2>6. (CHOOSE m \in SelfNode(c, p) : TRUE) = p
    BY <2>5
  <2>7. /\ e.hash = HashDelete(c.hash, p) /\ e.nodes = c.nodes
        /\ e.disk = c.disk \ (IF IsDir(p) THEN Below(p) ELSE {p})
    BY <2>5, <2>6 DEF DropEntries, BackupSet
  <2>8. Shaped(e)
    BY <2>1, <2>2, DropShaped
  <2> HIDE DEF e
  <2>9. e.disk = Left(b.nodes, d, k)
    <3>1. e.disk = L \ Below(p)
      BY <2>1, <2>2, <2>7, RemovalIsBelow DEF L
    <3> QED BY <1>1, <2>3, <2>4, <3>1 DEF Below
  <2>10. \A n \in L : Begins(n, p) <=> IsPrefix(p, n)
    BY <1>1, <2>1, <2>4, BelowBegins
  <2>11. e.hash = {<<n, n>> : n \in e.disk}
    <3>1. e.hash = {x \in {<<n, n>> : n \in L} : ~Begins(x[2], p)}
      BY <2>2, <2>7 DEF HashDelete, L
    <3> QED BY <2>3, <2>9, <2>10, <3>1
  <2> QED BY <2>1, <2>2, <2>7, <2>8, <2>9, <2>11
<1>5. Good(h[Len(d)], Len(d))
  <2>1. Len(d) \in T
    <3> HIDE DEF T
    <3> QED BY <1>0, <1>3, <1>4, StepInduction
  <2> QED BY <2>1
<1> QED BY <1>2, <1>5

(* ... then their nodes. *)
LEMMA FreesAgree ==
  ASSUME NEW b, Shaped(b), Closed(b.nodes), NEW d \in Seq(Path), Range(d) \subseteq b.nodes,
         IsInjective(d), Flat(Range(d))
  PROVE  LET c == AllFreed(b, d) IN
         c.nodes = Left(b.nodes, d, Len(d)) /\ c.disk = b.disk /\ c.hash = b.hash
<1>0. Len(d) \in Nat /\ DOMAIN d = 1..Len(d)
      /\ \A i \in 1..Len(d) : d[i] \in Path /\ d[i] \in b.nodes /\ d[i] \in Range(d)
  BY LenProperties, ElementOfSeq DEF Range
<1>1. b \in BackupSet /\ b.nodes \subseteq Path
  BY DEF Shaped, BackupSet
<1>2. PICK h : AllFreed(b, d) = h[Len(d)] /\ Freeing(h, b, d)
  BY <1>1, FreeSteps
<1>a. \A k \in Nat \ {0} : \A n :
        n \in Left(b.nodes, d, k) <=> n \in Left(b.nodes, d, k - 1) /\ ~IsPrefix(d[k], n)
  BY LeftStep
<1> DEFINE Good(c, k) == /\ Shaped(c) /\ c.nodes = Left(b.nodes, d, k)
                         /\ c.disk = b.disk /\ c.hash = b.hash
           T == {k \in 0..Len(d) : Good(h[k], k)}
<1>3. 0 \in T
  BY <1>0, <1>2, LeftStart DEF Freeing
<1>4. ASSUME NEW k \in 1..Len(d), k - 1 \in T PROVE k \in T
  <2> DEFINE p == d[k]
             c == h[k - 1]
             e == FreeNode(c, p)
             L == Left(b.nodes, d, k - 1)
  <2>1. h[k] = e /\ p \in Path /\ p \in b.nodes /\ k \in 0..Len(d) /\ k \in Nat \ {0}
    BY <1>0, <1>2 DEF Freeing
  <2>2. Good(c, k - 1)
    BY <1>4
  <2>3. \A n : n \in Left(b.nodes, d, k) <=> n \in L /\ ~IsPrefix(p, n)
    BY <1>a, <2>1
  <2>4. p \in L
    <3>1. ASSUME NEW j \in 1..k - 1 PROVE ~IsPrefix(d[j], p)
      <4>1. j \in 1..Len(d) /\ j # k
        BY <1>0
      <4>2. d[j] # p
        BY <1>0, <4>1 DEF IsInjective
      <4>3. ~IsStrictPrefix(d[j], p)
        BY <1>0, <4>1 DEF Flat
      <4> QED BY <4>2, <4>3 DEF IsStrictPrefix
    <3> QED BY <2>1, <3>1 DEF Left
  <2>5. Closed(L)
    <3> DEFINE l == k - 1
    <3>1. l \in 0..Len(d)
      BY <1>0
    <3> HIDE DEF l
    <3>2. Closed(Left(b.nodes, d, l))
      BY <1>1, <3>1, LeftIsClosed
    <3> QED BY <3>2 DEF l
  <2>6. c.nodes = L
    BY <2>2
  <2>7. Shaped(e)
    BY <2>1, <2>2, FreeShaped
  <2> HIDE DEF c, p, L
  <2>8. SelfNode(c, p) = {p} /\ c \in BackupSet
    BY <2>2, <2>4, <2>5, <2>6, SelfNodeFinds DEF Shaped
  <2>9. /\ e.nodes = c.nodes \ {n \in c.nodes : IsPrefix(p, n)}
        /\ e.hash = c.hash /\ e.disk = c.disk
    BY <2>8 DEF FreeNode, BackupSet
  <2> HIDE DEF e
  <2>10. e.nodes = Left(b.nodes, d, k)
    BY <2>3, <2>6, <2>9
  <2> QED BY <2>1, <2>2, <2>7, <2>9, <2>10
<1>5. Good(h[Len(d)], Len(d))
  <2>1. Len(d) \in T
    <3> HIDE DEF T
    <3> QED BY <1>0, <1>3, <1>4, StepInduction
  <2> QED BY <2>1
<1> QED BY <1>2, <1>5

LEMMA StepCommitAdopts ==
  ASSUME TypeOK, NEW A, NEW D, ManCommit(A, D), Sound,
         ParentsFirst(Keep(added, A)), D \subseteq nodes, Flat(D), NoNamesake(D)
  PROVE  Sound' /\ nodes' = (nodes \cup A) \ UNION {Below(p) : p \in D}
<1> DEFINE a == Keep(added, A)
           d == Keep(deleted, D)
           b == Backup
           c1 == AllAdded(b, a)
           c2 == AllDropped(c1, d)
           c3 == AllFreed(c2, d)
           N == nodes \cup A
<1>1. /\ a \in Seq(Path) /\ Range(a) = A /\ d \in Seq(Path) /\ Range(d) = D /\ IsInjective(d)
      /\ A \subseteq Range(added)
  BY TakesLists DEF ManCommit, Takes
<1>2. Shaped(b) /\ Agreeing(b) /\ b.nodes = nodes
  BY BackupShaped DEF Sound, Agreeing, Closed, Backup
<1>3. BecomesBackup(c3)
  BY DEF ManCommit, Downloaded, AllAdded, AllDropped, AllFreed
<1>4. \A i \in DOMAIN a : HasParent(b.nodes \cup {a[j] : j \in 1..i-1}, a[i])
  BY <1>2 DEF ParentsFirst
<1>5. \A p \in Range(d), n \in N : Begins(n, p) => IsPrefix(p, n)
  BY <1>1 DEF NoNamesake, Recorded
<1> HIDE DEF a, d, b
<1>6. Shaped(c1) /\ Agreeing(c1) /\ c1.nodes = N
  BY <1>1, <1>2, <1>4, AddsAgree
<1> HIDE DEF c1
<1>7. /\ Shaped(c2) /\ c2.nodes = N /\ c2.disk = Left(N, d, Len(d))
      /\ c2.hash = {<<n, n>> : n \in c2.disk}
  BY <1>1, <1>5, <1>6, DropsAgree
<1> HIDE DEF c2
<1>8. Closed(N) /\ N \subseteq Path
  BY <1>6 DEF Agreeing, Shaped, BackupSet
<1>9. c3.nodes = Left(N, d, Len(d)) /\ c3.disk = c2.disk /\ c3.hash = c2.hash
  BY <1>1, <1>7, <1>8, FreesAgree
<1> HIDE DEF c3
<1>10. /\ nodes' = Left(N, d, Len(d)) /\ disk' = nodes'
       /\ hash' = {<<n, n>> : n \in nodes'}
  BY <1>3, <1>7, <1>9 DEF BecomesBackup
<1>11. Len(d) \in 0..Len(d) /\ DOMAIN d = 1..Len(d)
  BY <1>1, LenProperties
<1>12. Closed(nodes')
  BY <1>1, <1>8, <1>10, <1>11, LeftIsClosed
<1>13. Left(N, d, Len(d)) = N \ UNION {Below(p) : p \in D}
  <2>1. D = {d[j] : j \in 1..Len(d)}
    BY <1>1, <1>11 DEF Range
  <2> QED BY <1>8, <2>1 DEF Left, Below
<1> QED BY <1>10, <1>12, <1>13 DEF Sound, Closed

(* A commit takes over exactly what was chosen and leaves tree, hash and   *)
(* disk in agreement, over any tree of paths and any lists of records that *)
(* are in order, not below one another and without a namesake (core.c      *)
(* 671-801, tree.c 28-116).                                                *)
THEOREM CommitsAdopt == Spec => CommitAdopts
<1>1. TypeOK /\ [Next]_vars
        => [LET A == Range(added) \ Range(added')
                D == Range(deleted) \ Range(deleted')
            IN /\ ManCommit(A, D) /\ Sound
               /\ ParentsFirst(Keep(added, A))
               /\ D \subseteq nodes /\ Flat(D) /\ NoNamesake(D)
               => Sound' /\ nodes' = (nodes \cup A) \ UNION {Below(p) : p \in D}]_vars
  BY StepCommitAdopts
<1> QED BY <1>1, TypeCorrect, PTL DEF Spec, CommitAdopts
=============================================================================
