-------------------------- MODULE ServerConfigProofs --------------------------
(***************************************************************************)
(* Proofs about ServerConfig, for any number of servers, any sizes and     *)
(* any lists of suffixes: its types, the account of the disk space, and    *)
(* what a load and a start bring back.                                     *)
(*                                                                         *)
(* The first lemmas are those of BaselineProofs on folds: a fold is a      *)
(* sequence of states h[0], h[1], ... that a lemma named ...Steps reads    *)
(* off it.  Then come the space of a set of servers, a sum; the lines of a *)
(* saved configuration, a concatenation; the types; and the space.         *)
(*                                                                         *)
(* For a load of what is in force the invariant is Again: every line that  *)
(* is left says what is so.  For a start it is Returning: the lines that   *)
(* are left, executed from what is in force, lead to what was saved.       *)
(* Replays says that of a state, a list of lines and a state, without the  *)
(* threads, which only "monitor" depends on (View leaves it out).  That    *)
(* the whole file leads from an empty configuration to the saved one is    *)
(* EverythingReplays: server after server, and setting after setting, as   *)
(* far as the lines have come (Back, Stage).                               *)
(***************************************************************************)
EXTENDS ServerConfig, FiniteSetTheorems, SequenceTheorems, TLAPS

(* A set of naturals with 0 and the successors of its members has them all. *)
LEMMA SetNatInduction ==
  ASSUME NEW T, 0 \in T, \A n \in Nat : n \in T => n + 1 \in T
  PROVE  Nat \subseteq T
<1> SUFFICES ASSUME NEW m \in Nat, m \notin T PROVE FALSE
  OBVIOUS
<1> DEFINE Missing == {1..n : n \in Nat \ T}
           R == StrictSubsetOrdering(Nat)
<1>1. IsWellFoundedOn(R, FiniteSubsetsOf(Nat))
  BY FS_StrictSubsetOrderingWellFounded
<1>2. Missing \subseteq FiniteSubsetsOf(Nat)
  <2>1. \A n \in Nat : IsFiniteSet(1..n) /\ 1..n \in SUBSET Nat
    BY FS_Interval
  <2> QED BY <2>1 DEF FiniteSubsetsOf
<1>3. Missing # {}
  OBVIOUS
<1>4. PICK S \in Missing : \A U \in Missing : <<U, S>> \notin R
  <2> HIDE DEF Missing, R
  <2> QED BY <1>1, <1>2, <1>3, WFMin
<1>5. PICK n \in Nat \ T : S = 1..n
  OBVIOUS
<1>6. n # 0 /\ n - 1 \in Nat \ T
  BY <1>5
<1>7. 1..(n - 1) \in Missing
  BY <1>6
<1>8. <<1..(n - 1), S>> \in R
  BY <1>5, <1>6 DEF StrictSubsetOrdering
<1> QED BY <1>4, <1>7, <1>8

(* The functions that folds over finite sets are computed by. *)
Folding(g, S, base, G, pick) ==
  \A s \in SUBSET S :
    g[s] = IF s = {} THEN base ELSE G[<<g[s \ {pick[s]}], pick[s]>>]

LEMMA FoldExists ==
  ASSUME NEW S, IsFiniteSet(S), NEW T, NEW base \in T, NEW G \in [T \X S -> T],
         NEW pick \in [(SUBSET S) \ {{}} -> S],
         \A s \in SUBSET S : s # {} => pick[s] \in s
  PROVE  \E g \in [SUBSET S -> T] : Folding(g, S, base, G, pick)
<1> DEFINE Eq(g, s) == g[s] = IF s = {} THEN base ELSE G[<<g[s \ {pick[s]}], pick[s]>>]
           Done == {n \in Nat : \E g \in [SUBSET S -> T] :
                       \A s \in SUBSET S : Cardinality(s) <= n => Eq(g, s)}
<1>0. \A s \in SUBSET S : IsFiniteSet(s) /\ Cardinality(s) \in Nat /\ Cardinality(s) <= Cardinality(S)
  BY FS_Subset, FS_CardinalityType
<1>1. 0 \in Done
  <2>1. \A s \in SUBSET S : Cardinality(s) <= 0 => s = {}
    BY <1>0, FS_EmptySet
  <2>2. \A s \in SUBSET S : Cardinality(s) <= 0 => Eq([t \in SUBSET S |-> base], s)
    BY <2>1
  <2> QED BY <2>2
<1>2. ASSUME NEW n \in Nat, n \in Done PROVE n + 1 \in Done
  <2>1. PICK g \in [SUBSET S -> T] : \A s \in SUBSET S : Cardinality(s) <= n => Eq(g, s)
    BY <1>2
  <2> DEFINE h == [s \in SUBSET S |-> IF Cardinality(s) <= n THEN g[s]
                                      ELSE IF s = {} THEN base
                                      ELSE G[<<g[s \ {pick[s]}], pick[s]>>]]
  <2>2. h \in [SUBSET S -> T]
    OBVIOUS
  <2>3. ASSUME NEW s \in SUBSET S, Cardinality(s) <= n + 1 PROVE Eq(h, s)
    <3>1. CASE s = {}
      <4>1. Cardinality(s) = 0
        BY <3>1, FS_EmptySet
      <4> QED BY <3>1, <4>1, <2>1
    <3>2. CASE s # {}
      <4>1. Cardinality(s \ {pick[s]}) = Cardinality(s) - 1
        BY <3>2, <1>0, FS_RemoveElement
      <4>2. h[s \ {pick[s]}] = g[s \ {pick[s]}]
        BY <1>0, <2>3, <4>1
      <4>3. CASE Cardinality(s) <= n
        BY <4>2, <4>3, <2>1, <3>2
      <4>4. CASE ~ Cardinality(s) <= n
        BY <4>2, <4>4, <3>2
      <4> QED BY <4>3, <4>4
    <3> QED BY <3>1, <3>2
  <2> HIDE DEF h
  <2>4. \E g1 \in [SUBSET S -> T] : \A s \in SUBSET S : Cardinality(s) <= n + 1 => Eq(g1, s)
    <3> HIDE DEF Eq
    <3> QED BY <2>2, <2>3
  <2>5. n + 1 \in Nat
    OBVIOUS
  <2> HIDE DEF Eq
  <2> QED BY <2>4, <2>5
<1>3. Nat \subseteq Done
  <2> HIDE DEF Done
  <2> QED BY <1>1, <1>2, SetNatInduction
<1>4. Cardinality(S) \in Done
  BY <1>3, FS_CardinalityType
<1>5. PICK g \in [SUBSET S -> T] : \A s \in SUBSET S : Cardinality(s) <= Cardinality(S) => Eq(g, s)
  BY <1>4
<1> QED BY <1>5, <1>0 DEF Folding

(* A fold over a sequence takes out the last element first. *)
LEMMA MaxOfInterval ==
  ASSUME NEW k \in Nat, k # 0
  PROVE  Max(1..k) = k /\ (1..k) \ {Max(1..k)} = 1..(k - 1)
<1>1. \A x \in 1..k : (\A y \in 1..k : x >= y) <=> x = k
  OBVIOUS
<1>2. Max(1..k) = k
  BY <1>1 DEF Max
<1> QED BY <1>2

LEMMA MaxOfSet ==
  ASSUME NEW n \in Nat, NEW s \in SUBSET (1..n), s # {}
  PROVE  Max(s) \in s
<1> DEFINE Above == {m \in Nat : \E x \in s : x = n - m}
<1>0. PICK z \in s : TRUE
  OBVIOUS
<1>1. \E x \in s : \A y \in s : x >= y
  <2> SUFFICES ASSUME \A x \in s : \E y \in s : ~ (x >= y) PROVE FALSE
    OBVIOUS
  <2> DEFINE T == {m \in Nat : \E x \in s : x >= m}
  <2>1. 0 \in T
    BY <1>0
  <2>2. \A m \in Nat : m \in T => m + 1 \in T
    <3> SUFFICES ASSUME NEW m \in Nat, NEW x \in s, x >= m PROVE \E y \in s : y >= m + 1
      OBVIOUS
    <3>1. PICK y \in s : ~ (x >= y)
      OBVIOUS
    <3>2. x \in Int /\ y \in Int
      OBVIOUS
    <3> QED BY <3>1, <3>2
  <2>3. Nat \subseteq T
    <3> HIDE DEF T
    <3> QED BY <2>1, <2>2, SetNatInduction
  <2>4. n + 1 \in T
    <3> HIDE DEF T
    <3> QED BY <2>3
  <2> QED BY <2>4
<1> QED BY <1>1 DEF Max

(* The functions that folds over sequences are computed by. *)
SeqFolding(g, n, base, G) ==
  \A s \in SUBSET (1..n) :
    g[s] = IF s = {} THEN base ELSE G[<<g[s \ {Max(s)}], Max(s)>>]

LEMMA SeqFoldExists ==
  ASSUME NEW n \in Nat, NEW T, NEW base \in T, NEW G \in [T \X (1..n) -> T]
  PROVE  \E g \in [SUBSET (1..n) -> T] : SeqFolding(g, n, base, G)
<1> DEFINE S == 1..n
           pick == [s \in (SUBSET S) \ {{}} |-> Max(s)]
<1>1. IsFiniteSet(S)
  BY FS_Interval
<1>2. \A s \in SUBSET S : s # {} => Max(s) \in s
  BY MaxOfSet
<1>3. pick \in [(SUBSET S) \ {{}} -> S]
  <2> HIDE DEF S
  <2> QED BY <1>2
<1>4. \A s \in SUBSET S : s # {} => pick[s] = Max(s)
  <2> HIDE DEF S
  <2> QED OBVIOUS
<1>5. \A s \in SUBSET S : s # {} => pick[s] \in s
  <2> HIDE DEF S, pick
  <2> QED BY <1>2, <1>4
<1>6. G \in [T \X S -> T]
  OBVIOUS
<1>7. PICK g \in [SUBSET S -> T] : Folding(g, S, base, G, pick)
  <2> HIDE DEF S, pick
  <2> QED BY <1>1, <1>3, <1>5, <1>6, FoldExists
<1>8. SeqFolding(g, n, base, G)
  <2> HIDE DEF pick
  <2> QED BY <1>4, <1>7 DEF SeqFolding, Folding
<1> QED BY <1>8

(* The steps of a fold; "Keeping", "Searching" and the like below are the   *)
(* steps of the folds of the module.                                       *)
LEMMA Intervals ==
  ASSUME NEW n \in Nat
  PROVE  /\ 1..0 = {} /\ {} \in SUBSET (1..n)
         /\ \A k \in 1..n : /\ 1..k \in SUBSET (1..n) /\ 1..k # {}
                            /\ Max(1..k) = k /\ (1..k) \ {Max(1..k)} = 1..(k - 1)
<1> SUFFICES ASSUME NEW k \in 1..n
             PROVE  /\ 1..k \in SUBSET (1..n) /\ 1..k # {}
                    /\ Max(1..k) = k /\ (1..k) \ {Max(1..k)} = 1..(k - 1)
  OBVIOUS
<1>1. k \in Nat /\ k # 0 /\ k <= n
  OBVIOUS
<1>2. k \in 1..k /\ \A i \in 1..k : i \in 1..n
  BY <1>1
<1> QED BY <1>1, <1>2, MaxOfInterval

Keeping(h, s, P) ==
  /\ h[0] = <<>>
  /\ \A k \in 1..Len(s) : h[k] = IF s[k] \in P THEN Append(h[k - 1], s[k]) ELSE h[k - 1]

LEMMA KeepSteps ==
  ASSUME NEW X, NEW P, NEW s \in Seq(X)
  PROVE  \E h : Keep(s, P) = h[Len(s)] /\ Keeping(h, s, P)
<1> DEFINE n == Len(s)
           T == Seq(X)
           base == <<>>
           Op(t, x) == IF x \in P THEN Append(t, x) ELSE t
           G == [z \in T \X (1..n) |-> Op(z[1], s[z[2]])]
           Eq(f) == f = [d \in SUBSET (1..n) |-> IF d = {} THEN base
                                                 ELSE Op(f[d \ {Max(d)}], s[Max(d)])]
           f == CHOOSE f : Eq(f)
           h == [k \in 0..n |-> f[1..k]]
<1>1. n \in Nat /\ DOMAIN s = 1..n /\ \A i \in 1..n : s[i] \in X
  BY LenProperties, ElementOfSeq
<1>2. Keep(s, P) = f[1..n]
  BY <1>1 DEF Keep, FoldLeft, MapThenFoldSet
<1>3. base \in T /\ \A t \in T, x \in X : Op(t, x) \in T
  BY EmptySeq, AppendProperties
<1> HIDE DEF T, Op, base
<1>4. G \in [T \X (1..n) -> T]
  BY <1>1, <1>3
<1>5. PICK g \in [SUBSET (1..n) -> T] : SeqFolding(g, n, base, G)
  <2> HIDE DEF G, n
  <2> QED BY <1>1, <1>3, <1>4, SeqFoldExists
<1>6. Eq(g)
  <2>1. \A d \in SUBSET (1..n) : d # {} =>
          G[<<g[d \ {Max(d)}], Max(d)>>] = Op(g[d \ {Max(d)}], s[Max(d)])
    BY <1>1, MaxOfSet
  <2> HIDE DEF G
  <2> QED BY <1>5, <2>1 DEF SeqFolding
<1>7. Eq(f)
  <2> HIDE DEF Eq
  <2> QED BY <1>6
<1> HIDE DEF f
<1>8. f[1..0] = base /\ \A k \in 1..n : f[1..k] = Op(f[1..(k - 1)], s[k])
  <2>1. \A d \in SUBSET (1..n) :
          f[d] = IF d = {} THEN base ELSE Op(f[d \ {Max(d)}], s[Max(d)])
    BY <1>7
  <2> HIDE DEF n, Eq
  <2>2. f[1..0] = base
    BY <1>1, <2>1, Intervals
  <2>3. ASSUME NEW k \in 1..n PROVE f[1..k] = Op(f[1..(k - 1)], s[k])
    <3>1. /\ 1..k \in SUBSET (1..n) /\ 1..k # {}
          /\ Max(1..k) = k /\ (1..k) \ {Max(1..k)} = 1..(k - 1)
      BY <1>1, Intervals
    <3>2. f[1..k] = Op(f[(1..k) \ {Max(1..k)}], s[Max(1..k)])
      BY <2>1, <3>1
    <3> QED BY <3>1, <3>2
  <2> QED BY <2>2, <2>3
<1>9. h[0] = base /\ h[n] = f[1..n] /\ \A k \in 1..n : h[k] = Op(h[k - 1], s[k])
  BY <1>1, <1>8
<1> HIDE DEF h
<1> QED BY <1>2, <1>9 DEF Keeping, base, Op

LEMMA StepInduction ==
  ASSUME NEW n \in Nat, NEW T, 0 \in T, \A k \in 1..n : k - 1 \in T => k \in T
  PROVE  n \in T /\ \A k \in 0..n : k \in T
<1> DEFINE U == {k \in Nat : k <= n => k \in T}
<1>1. 0 \in U
  OBVIOUS
<1>2. ASSUME NEW k \in Nat, k \in U PROVE k + 1 \in U
  <2> SUFFICES ASSUME k + 1 <= n PROVE k + 1 \in T
    OBVIOUS
  <2>1. k + 1 \in 1..n /\ k + 1 - 1 = k /\ k \in T
    BY <1>2
  <2> QED BY <2>1
<1>3. Nat \subseteq U
  <2> HIDE DEF U
  <2> QED BY <1>1, <1>2, SetNatInduction
<1> QED BY <1>3

LEMMA AppendFacts ==
  ASSUME NEW X, NEW t \in Seq(X), NEW x \in X
  PROVE  /\ Append(t, x) \in Seq(X) /\ Range(Append(t, x)) = Range(t) \cup {x}
         /\ IsInjective(t) /\ x \notin Range(t) => IsInjective(Append(t, x))
<1> DEFINE a == Append(t, x)
           n == Len(t)
<1>1. n \in Nat /\ DOMAIN t = 1..n
  BY LenProperties
<1>2. /\ a \in Seq(X) /\ Len(a) = n + 1 /\ \A i \in 1..n : a[i] = t[i]
      /\ a[n + 1] = x
  BY AppendProperties
<1>3. DOMAIN a = 1..(n + 1)
  BY <1>2, LenProperties
<1> HIDE DEF a
<1>4. 1..(n + 1) = 1..n \cup {n + 1} /\ n + 1 \notin 1..n
  BY <1>1
<1>5. Range(a) = Range(t) \cup {x}
  BY <1>1, <1>2, <1>3, <1>4 DEF Range
<1>6. ASSUME IsInjective(t), x \notin Range(t) PROVE IsInjective(a)
  <2> SUFFICES ASSUME NEW i \in 1..n \cup {n + 1}, NEW j \in 1..n \cup {n + 1}, a[i] = a[j]
               PROVE  i = j
    BY <1>3, <1>4 DEF IsInjective
  <2>1. \A k \in 1..n : a[k] = t[k] /\ t[k] # x
    BY <1>1, <1>2, <1>6 DEF Range
  <2>2. \A k, l \in 1..n : t[k] = t[l] => k = l
    BY <1>1, <1>6 DEF IsInjective
  <2> QED BY <1>2, <2>1, <2>2
<1> QED BY <1>2, <1>5, <1>6 DEF a

LEMMA KeepFacts ==
  ASSUME NEW X, NEW s \in Seq(X), NEW P
  PROVE  /\ Keep(s, P) \in Seq(X) /\ Range(Keep(s, P)) = Range(s) \cap P
         /\ IsInjective(s) => IsInjective(Keep(s, P))
<1> DEFINE n == Len(s)
           First(k) == {s[i] : i \in 1..k}
           Good(t, k) == /\ t \in Seq(X) /\ Range(t) = First(k) \cap P
                         /\ IsInjective(s) => IsInjective(t)
<1>1. n \in Nat /\ DOMAIN s = 1..n /\ \A i \in 1..n : s[i] \in X
  BY LenProperties, ElementOfSeq
<1>2. PICK h : Keep(s, P) = h[n] /\ Keeping(h, s, P)
  BY KeepSteps
<1> DEFINE T == {k \in Nat : k <= n => Good(h[k], k)}
<1>3. 0 \in T
  <2>1. <<>> \in Seq(X) /\ DOMAIN <<>> = {}
    BY EmptySeq
  <2>2. Good(<<>>, 0)
    BY <2>1 DEF Range, IsInjective
  <2> QED BY <1>2, <2>2 DEF Keeping
<1>4. ASSUME NEW k \in Nat, k \in T PROVE k + 1 \in T
  <2> SUFFICES ASSUME k + 1 <= n PROVE Good(h[k + 1], k + 1)
    OBVIOUS
  <2>1. k + 1 \in 1..n /\ (k + 1) - 1 = k /\ 1..(k + 1) = 1..k \cup {k + 1} /\ k <= n
    BY <1>1
  <2>2. First(k + 1) = First(k) \cup {s[k + 1]} /\ s[k + 1] \in X
    BY <1>1, <2>1
  <2>3. h[k + 1] = IF s[k + 1] \in P THEN Append(h[k], s[k + 1]) ELSE h[k]
    BY <1>2, <2>1 DEF Keeping
  <2>4. IsInjective(s) => s[k + 1] \notin First(k)
    BY <1>1, <2>1 DEF IsInjective
  <2>5. Good(h[k], k)
    BY <1>4, <2>1
  <2> HIDE DEF First
  <2>6. CASE s[k + 1] \in P
    BY <2>2, <2>3, <2>4, <2>5, <2>6, AppendFacts
  <2>7. CASE s[k + 1] \notin P
    BY <2>2, <2>3, <2>5, <2>7
  <2> QED BY <2>6, <2>7
<1>5. n \in T
  <2>1. Nat \subseteq T
    <3> HIDE DEF T
    <3> QED BY <1>3, <1>4, SetNatInduction
  <2> QED BY <1>1, <2>1
<1>6. First(n) = Range(s)
  BY <1>1 DEF Range
<1> QED BY <1>1, <1>2, <1>5, <1>6

-----------------------------------------------------------------------------
(* The space of a set of servers. *)

Spacing(g, c, S) ==
  \A s \in SUBSET S :
    g[s] = IF s = {} THEN 0
           ELSE LET x == CHOOSE x \in s : TRUE IN c[x].disk_size + g[s \ {x}]

LEMMA SpacesAgree ==
  ASSUME NEW S, NEW U, IsFiniteSet(S), NEW c, NEW d, NEW g, NEW h,
         Spacing(g, c, S), Spacing(h, d, U), S \subseteq U,
         \A n \in S : c[n].disk_size = d[n].disk_size
  PROVE  g[S] = h[S]
<1> DEFINE T == {n \in Nat : \A s \in SUBSET S : Cardinality(s) = n => g[s] = h[s]}
<1>0. \A s \in SUBSET S : IsFiniteSet(s) /\ Cardinality(s) \in Nat
  BY FS_Subset, FS_CardinalityType
<1>1. 0 \in T
  <2>1. \A s \in SUBSET S : Cardinality(s) = 0 => s = {}
    BY <1>0, FS_EmptySet
  <2>2. g[{}] = h[{}]
    BY DEF Spacing
  <2> QED BY <2>1, <2>2
<1>2. ASSUME NEW n \in Nat, n \in T PROVE n + 1 \in T
  <2> SUFFICES ASSUME NEW s \in SUBSET S, Cardinality(s) = n + 1 PROVE g[s] = h[s]
    OBVIOUS
  <2>1. s # {}
    BY FS_EmptySet
  <2> DEFINE x == CHOOSE x \in s : TRUE
  <2>2. x \in s
    BY <2>1
  <2>3. g[s] = c[x].disk_size + g[s \ {x}] /\ h[s] = d[x].disk_size + h[s \ {x}]
    BY <2>1 DEF Spacing
  <2> HIDE DEF x
  <2>4. Cardinality(s \ {x}) = n
    <3>1. IsFiniteSet(s)
      BY <1>0
    <3>2. Cardinality(s \ {x}) = Cardinality(s) - 1
      BY <2>2, <3>1, FS_RemoveElement
    <3> QED BY <3>2
  <2> QED BY <1>2, <2>2, <2>3, <2>4
<1>3. Nat \subseteq T
  <2> HIDE DEF T
  <2> QED BY <1>1, <1>2, SetNatInduction
<1> QED BY <1>0, <1>3

LEMMA SpaceSteps ==
  ASSUME NEW S, IsFiniteSet(S), NEW c, \A n \in S : c[n].disk_size \in Nat
  PROVE  \E g \in [SUBSET S -> Nat] : Spacing(g, c, S) /\ Space(c, S) = g[S]
<1> DEFINE Op(x, t) == c[x].disk_size + t
           pick == [s \in (SUBSET S) \ {{}} |-> CHOOSE x \in s : TRUE]
           G == [z \in Nat \X S |-> Op(z[2], z[1])]
           Eq(f) == f = [s \in SUBSET S |->
                           IF s = {} THEN 0
                           ELSE LET x == CHOOSE x \in s : TRUE IN c[x].disk_size + f[s \ {x}]]
           f == CHOOSE f : Eq(f)
<1>1. Space(c, S) = f[S]
  BY DEF Space, MapThenSumSet, MapThenFoldSet
<1>2. \A s \in SUBSET S : s # {} => pick[s] = (CHOOSE x \in s : TRUE) /\ pick[s] \in s
  OBVIOUS
<1>3. pick \in [(SUBSET S) \ {{}} -> S]
  OBVIOUS
<1>4. G \in [Nat \X S -> Nat]
  OBVIOUS
<1>5. PICK g \in [SUBSET S -> Nat] : Folding(g, S, 0, G, pick)
  <2> HIDE DEF G, pick
  <2> QED BY <1>2, <1>3, <1>4, FoldExists
<1>6. \A s \in SUBSET S : s # {} => G[<<g[s \ {pick[s]}], pick[s]>>] = c[pick[s]].disk_size + g[s \ {pick[s]}]
  <2> HIDE DEF pick
  <2> QED BY <1>2
<1>7. Spacing(g, c, S)
  <2> HIDE DEF G, pick
  <2> QED BY <1>2, <1>5, <1>6 DEF Folding, Spacing
<1>8. Eq(g)
  BY <1>7 DEF Spacing
<1>9. Eq(f)
  <2> HIDE DEF Eq
  <2> QED BY <1>8
<1> HIDE DEF f
<1>10. ASSUME NEW s \in SUBSET S PROVE f[s] = IF s = {} THEN 0
           ELSE LET x == CHOOSE x \in s : TRUE IN c[x].disk_size + f[s \ {x}]
  BY <1>9
<1>11. Spacing(f, c, S)
  BY <1>10 DEF Spacing
<1>12. f[S] = g[S]
  BY <1>7, <1>11, SpacesAgree
<1> QED BY <1>1, <1>7, <1>12

(* What a server has adds to what the others have. *)
LEMMA SpaceFacts ==
  ASSUME NEW S, IsFiniteSet(S), NEW c, \A n \in S : c[n].disk_size \in Nat
  PROVE  /\ Space(c, S) \in Nat
         /\ S = {} => Space(c, S) = 0
         /\ \A x \in S : Space(c, S) = c[x].disk_size + Space(c, S \ {x})
<1>1. PICK g \in [SUBSET S -> Nat] : Spacing(g, c, S) /\ Space(c, S) = g[S]
  BY SpaceSteps
<1>2. S = {} => Space(c, S) = 0
  BY <1>1 DEF Spacing
<1>0. \A s \in SUBSET S : IsFiniteSet(s) /\ Cardinality(s) \in Nat
  BY FS_Subset, FS_CardinalityType
<1> DEFINE T == {n \in Nat : \A s \in SUBSET S : Cardinality(s) = n =>
                                 \A x \in s : g[s] = c[x].disk_size + g[s \ {x}]}
<1>3. 0 \in T
  BY <1>0, FS_EmptySet
<1>4. ASSUME NEW n \in Nat, n \in T PROVE n + 1 \in T
  <2> SUFFICES ASSUME NEW s \in SUBSET S, Cardinality(s) = n + 1, NEW x \in s
               PROVE  g[s] = c[x].disk_size + g[s \ {x}]
    OBVIOUS
  <2> DEFINE y == CHOOSE y \in s : TRUE
  <2>1. y \in s
    OBVIOUS
  <2>2. g[s] = c[y].disk_size + g[s \ {y}]
    BY <1>1 DEF Spacing
  <2> HIDE DEF y
  <2>3. CASE x = y
    BY <2>2, <2>3
  <2>4. CASE x # y
    <3>1. Cardinality(s \ {x}) = n /\ Cardinality(s \ {y}) = n
      <4>1. IsFiniteSet(s)
        BY <1>0
      <4>2. /\ Cardinality(s \ {x}) = Cardinality(s) - 1
            /\ Cardinality(s \ {y}) = Cardinality(s) - 1
        BY <2>1, <4>1, FS_RemoveElement
      <4> QED BY <4>2
    <3>2. g[s \ {y}] = c[x].disk_size + g[(s \ {y}) \ {x}]
      BY <1>4, <2>4, <3>1
    <3>3. g[s \ {x}] = c[y].disk_size + g[(s \ {x}) \ {y}]
      BY <1>4, <2>1, <2>4, <3>1
    <3>4. (s \ {y}) \ {x} = (s \ {x}) \ {y} /\ g[(s \ {x}) \ {y}] \in Nat
      BY <1>1
    <3>5. c[x].disk_size \in Nat /\ c[y].disk_size \in Nat
      BY <2>1
    <3>6. \A i, j, k \in Nat : i + (j + k) = j + (i + k)
      OBVIOUS
    <3>7. g[s] = c[y].disk_size + (c[x].disk_size + g[(s \ {x}) \ {y}])
      BY <2>2, <3>2, <3>4
    <3>8. g[s] = c[x].disk_size + (c[y].disk_size + g[(s \ {x}) \ {y}])
      BY <3>4, <3>5, <3>6, <3>7
    <3> QED BY <3>3, <3>8
  <2> QED BY <2>3, <2>4
<1>5. Nat \subseteq T
  <2> HIDE DEF T
  <2> QED BY <1>3, <1>4, SetNatInduction
<1>6. ASSUME NEW x \in S PROVE Space(c, S) = c[x].disk_size + Space(c, S \ {x})
  <2>1. g[S] = c[x].disk_size + g[S \ {x}]
    BY <1>0, <1>5, <1>6
  <2>2. IsFiniteSet(S \ {x})
    BY <1>0
  <2>3. PICK h \in [SUBSET (S \ {x}) -> Nat] :
          Spacing(h, c, S \ {x}) /\ Space(c, S \ {x}) = h[S \ {x}]
    BY <2>2, SpaceSteps
  <2>4. h[S \ {x}] = g[S \ {x}]
    BY <1>1, <2>2, <2>3, SpacesAgree
  <2> QED BY <1>1, <2>1, <2>3, <2>4
<1> QED BY <1>1, <1>2, <1>6

LEMMA SameSpace ==
  ASSUME NEW S, IsFiniteSet(S), NEW c, NEW d, \A n \in S : c[n].disk_size \in Nat,
         \A n \in S : c[n].disk_size = d[n].disk_size
  PROVE  Space(c, S) = Space(d, S)
<1>1. PICK g : Spacing(g, c, S) /\ Space(c, S) = g[S]
  BY SpaceSteps
<1>2. PICK h : Spacing(h, d, S) /\ Space(d, S) = h[S]
  BY SpaceSteps
<1> QED BY <1>1, <1>2, SpacesAgree

LEMMA SpaceOfMore ==
  ASSUME NEW S, IsFiniteSet(S), NEW c, NEW d, NEW x, x \notin S,
         \A n \in S \cup {x} : c[n].disk_size \in Nat,
         \A n \in S : c[n].disk_size = d[n].disk_size
  PROVE  Space(c, S \cup {x}) = c[x].disk_size + Space(d, S)
<1> DEFINE U == S \cup {x}
<1>1. IsFiniteSet(U) /\ x \in U /\ U \ {x} = S /\ \A n \in U : c[n].disk_size \in Nat
  BY FS_AddElement
<1>2. Space(c, U) = c[x].disk_size + Space(c, S)
  <2> HIDE DEF U
  <2>1. \A y \in U : Space(c, U) = c[y].disk_size + Space(c, U \ {y})
    BY <1>1, SpaceFacts
  <2> QED BY <1>1, <2>1
<1>3. Space(c, S) = Space(d, S)
  BY SameSpace
<1> QED BY <1>2, <1>3

-----------------------------------------------------------------------------
(* The lines that are saved. *)

(* The settings that are saved as they are: all but the list of suffixes,  *)
(* and an address without a protocol.                                      *)
Kept == {"document_root", "depth", "root_folder", "other_folder", "file_size",
         "restore_mode", "monitor", "disk_size"}

(* The lines that may be written for a server, in any order. *)
ServerLines(n, c) ==
  {l \in {Line("tamper", n, {}), Line("connect", n, IF c.connect = "ftp" THEN "blank" ELSE c.connect)}
         \cup {Line(s, n, c[s]) : s \in Kept}
         \cup {Line("exclude", n, e) : e \in Range(c.exclude)} :
     l.cmd \in {"connect", "document_root"} => l.arg # "none"}

LEMMA UnlessIn ==
  ASSUME NEW D, NEW v, NEW l, l.arg # v => l \in D
  PROVE  Unless(v, l) \in Seq(D)
BY EmptySeq DEF Unless

ConnectLines(n, c) ==
  Unless("none", Line("connect", n, IF c.connect = "ftp" THEN "blank" ELSE c.connect))
RootLines(n, c) == Unless("none", Line("document_root", n, c["document_root"]))
ChangedLines(n, c, s) == Unless(Defaults[s], Line(s, n, c[s]))
ExcludeLines(n, c) == [i \in 1..Len(c.exclude) |-> Line("exclude", n, c.exclude[i])]
SwitchLines(n, c) == <<Line("restore_mode", n, c["restore_mode"]), Line("monitor", n, c["monitor"])>>

LEMMA LinesParts ==
  ASSUME NEW n, NEW c
  PROVE  Lines(n, c) =
           <<Line("tamper", n, {})>> \o ConnectLines(n, c) \o RootLines(n, c)
           \o ChangedLines(n, c, "depth") \o ChangedLines(n, c, "root_folder")
           \o ChangedLines(n, c, "other_folder") \o ChangedLines(n, c, "file_size")
           \o ExcludeLines(n, c) \o SwitchLines(n, c) \o ChangedLines(n, c, "disk_size")
BY DEF Lines, AllLines, ConnectLines, RootLines, ChangedLines, ExcludeLines, SwitchLines

LEMMA PartsIn ==
  ASSUME NEW n, NEW c \in Config, NEW D, ServerLines(n, c) \subseteq D
  PROVE  /\ <<Line("tamper", n, {})>> \in Seq(D) /\ ConnectLines(n, c) \in Seq(D)
         /\ RootLines(n, c) \in Seq(D) /\ ExcludeLines(n, c) \in Seq(D)
         /\ SwitchLines(n, c) \in Seq(D)
         /\ \A s \in Kept : s # "document_root" => ChangedLines(n, c, s) \in Seq(D)
<1>1. Line("tamper", n, {}) \in D
  BY DEF ServerLines, Line
<1>2. \A s \in Kept : s # "document_root" => Line(s, n, c[s]) \in D
  BY DEF ServerLines, Line, Kept
<1>3. <<Line("tamper", n, {})>> \in Seq(D)
  BY <1>1
<1>4. ConnectLines(n, c) \in Seq(D)
  <2> DEFINE l == Line("connect", n, IF c.connect = "ftp" THEN "blank" ELSE c.connect)
  <2>1. l.arg # "none" => l \in D
    BY DEF ServerLines, Line
  <2> HIDE DEF l
  <2> QED BY <2>1, UnlessIn DEF l, ConnectLines
<1>5. RootLines(n, c) \in Seq(D)
  <2> DEFINE l == Line("document_root", n, c["document_root"])
  <2>1. l.arg # "none" => l \in D
    BY DEF ServerLines, Line, Kept
  <2> HIDE DEF l
  <2> QED BY <2>1, UnlessIn DEF l, RootLines
<1>6. \A s \in Kept : s # "document_root" => ChangedLines(n, c, s) \in Seq(D)
  BY <1>2, UnlessIn DEF ChangedLines
<1>7. ExcludeLines(n, c) \in Seq(D)
  <2>1. Len(c.exclude) \in Nat /\ DOMAIN c.exclude = 1..Len(c.exclude)
    <3>1. c.exclude \in Seq(Suffix)
      BY DEF Config
    <3> QED BY <3>1, LenProperties
  <2>2. \A i \in 1..Len(c.exclude) : Line("exclude", n, c.exclude[i]) \in D
    BY <2>1 DEF ServerLines, Line, Range
  <2> QED BY <2>1, <2>2, IsASeq DEF ExcludeLines
<1>8. SwitchLines(n, c) \in Seq(D)
  <2> DEFINE a == Line("restore_mode", n, c["restore_mode"])
             b == Line("monitor", n, c["monitor"])
  <2>1. a \in D /\ b \in D
    BY <1>2 DEF Kept
  <2> HIDE DEF a, b
  <2>2. <<a, b>> \in Seq(D)
    BY <2>1
  <2> QED BY <2>2 DEF SwitchLines, a, b
<1> QED BY <1>3, <1>4, <1>5, <1>6, <1>7, <1>8

LEMMA LinesIn ==
  ASSUME NEW n \in Name, NEW c \in Config, NEW D, ServerLines(n, c) \subseteq D
  PROVE  Lines(n, c) \in Seq(D)
<1>1. \A s, t \in Seq(D) : s \o t \in Seq(D)
  BY ConcatProperties
<1>2. {"depth", "root_folder", "other_folder", "file_size", "disk_size"} \subseteq Kept \ {"document_root"}
  BY DEF Kept
<1> QED BY <1>1, <1>2, LinesParts, PartsIn

(* Lists of lines, one after the other. *)
Flattening(h, q) == h[0] = <<>> /\ \A k \in 1..Len(q) : h[k] = h[k - 1] \o q[k]

LEMMA FlattenSteps ==
  ASSUME NEW D, NEW q \in Seq(Seq(D))
  PROVE  \E h : FlattenSeq(q) = h[Len(q)] /\ Flattening(h, q)
<1> DEFINE n == Len(q)
           T == Seq(D)
           G == [z \in T \X (1..n) |-> z[1] \o q[z[2]]]
           Eq(f) == f = [i \in 1..n |-> IF i = 1 THEN q[i] ELSE f[i - 1] \o q[i]]
           f == CHOOSE f : Eq(f)
           h == [k \in 0..n |-> IF k = 0 THEN <<>> ELSE f[k]]
<1>1. n \in Nat /\ \A i \in 1..n : q[i] \in T
  BY LenProperties, ElementOfSeq
<1>2. FlattenSeq(q) = IF n = 0 THEN q ELSE f[n]
  BY DEF FlattenSeq
<1>3. <<>> \in T /\ (\A s, t \in T : s \o t \in T) /\ \A s \in T : <<>> \o s = s
  BY EmptySeq, ConcatProperties, ConcatEmptySeq
<1> HIDE DEF T
<1>4. G \in [T \X (1..n) -> T]
  BY <1>1, <1>3
<1>5. PICK g \in [SUBSET (1..n) -> T] : SeqFolding(g, n, <<>>, G)
  <2> HIDE DEF G, n
  <2> QED BY <1>1, <1>3, <1>4, SeqFoldExists
<1> DEFINE e == [i \in 1..n |-> g[1..i]]
<1>6. ASSUME NEW k \in 1..n PROVE e[k] = IF k = 1 THEN q[k] ELSE e[k - 1] \o q[k]
  <2>1. /\ 1..0 = {} /\ {} \in SUBSET (1..n)
        /\ 1..k \in SUBSET (1..n) /\ 1..k # {} /\ Max(1..k) = k /\ (1..k) \ {Max(1..k)} = 1..(k - 1)
    <3> HIDE DEF n
    <3> QED BY <1>1, Intervals
  <2>2. k = 1 \/ k - 1 \in 1..n
    BY <1>1
  <2>3. g[1..(k - 1)] \in T
    <3>1. 1..(k - 1) \in SUBSET (1..n)
      BY <1>1
    <3> HIDE DEF n
    <3> QED BY <1>5, <3>1
  <2>4. g[{}] = <<>>
    <3> HIDE DEF n, G
    <3> QED BY <1>5, <2>1 DEF SeqFolding
  <2>5. g[1..k] = g[1..(k - 1)] \o q[k]
    <3>1. g[1..k] = G[<<g[1..(k - 1)], k>>]
      <4> HIDE DEF n, G
      <4> QED BY <1>5, <2>1 DEF SeqFolding
    <3> QED BY <2>3, <3>1
  <2>6. CASE k = 1
    <3>1. 1..(k - 1) = {}
      BY <2>6
    <3> QED BY <1>1, <1>3, <2>4, <2>5, <2>6, <3>1
  <2>7. CASE k # 1
    BY <2>2, <2>5, <2>7
  <2> QED BY <2>6, <2>7
<1>7. Eq(e)
  BY <1>6
<1>8. Eq(f)
  <2> HIDE DEF Eq, e
  <2> QED BY <1>7
<1> HIDE DEF f
<1>9. \A k \in 1..n : f[k] = IF k = 1 THEN q[k] ELSE f[k - 1] \o q[k]
  BY <1>8
<1>10. \A k \in 1..n : h[k] = h[k - 1] \o q[k]
  <2> SUFFICES ASSUME NEW k \in 1..n PROVE h[k] = h[k - 1] \o q[k]
    OBVIOUS
  <2>1. k \in 0..n /\ k # 0 /\ k - 1 \in 0..n /\ (k # 1 => k - 1 # 0)
    BY <1>1
  <2>2. h[k] = f[k] /\ h[k - 1] = IF k - 1 = 0 THEN <<>> ELSE f[k - 1]
    BY <2>1
  <2> HIDE DEF h
  <2>3. CASE k = 1
    BY <1>1, <1>3, <1>9, <2>2, <2>3
  <2>4. CASE k # 1
    BY <1>9, <2>1, <2>2, <2>4
  <2> QED BY <2>3, <2>4
<1>11. FlattenSeq(q) = h[n]
  <2>1. n = 0 => q = <<>>
    BY EmptySeq
  <2> QED BY <1>1, <1>2, <2>1
<1>12. h[0] = <<>>
  BY <1>1
<1> HIDE DEF h
<1> QED BY <1>10, <1>11, <1>12 DEF Flattening

(* Everything is the lines of the first server, then those of the next ... *)
Saving(h, s) ==
  /\ h[0] = <<>>
  /\ \A k \in 1..Len(s.servers) :
       h[k] = h[k - 1] \o Lines(s.servers[k], s.cfg[s.servers[k]])

LEMMA ServersTyped ==
  ASSUME NEW s \in Configuration
  PROVE  /\ s.servers \in Seq(Name) /\ Len(s.servers) \in Nat
         /\ DOMAIN s.servers = 1..Len(s.servers)
         /\ \A n \in Name : s.cfg[n] \in Config
         /\ \A i \in 1..Len(s.servers) : s.servers[i] \in Name /\ s.servers[i] \in Range(s.servers)
         /\ Range(s.servers) \subseteq Name
<1>1. s.servers \in Seq(Name) /\ s.cfg \in [Name -> Config]
  BY DEF Configuration
<1>2. /\ Len(s.servers) \in Nat /\ DOMAIN s.servers = 1..Len(s.servers)
      /\ \A i \in 1..Len(s.servers) : s.servers[i] \in Name
  BY <1>1, LenProperties, ElementOfSeq
<1> QED BY <1>1, <1>2 DEF Range

LEMMA EverythingIn ==
  ASSUME NEW s \in Configuration, NEW D,
         \A n \in Range(s.servers) : ServerLines(n, s.cfg[n]) \subseteq D
  PROVE  /\ Everything(s) \in Seq(D)
         /\ \E h : /\ Everything(s) = h[Len(s.servers)] /\ Saving(h, s)
                   /\ \A k \in 0..Len(s.servers) : h[k] \in Seq(D)
<1> DEFINE n == Len(s.servers)
           lines(i) == Lines(s.servers[i], s.cfg[s.servers[i]])
           q == [i \in 1..n |-> lines(i)]
<1>1. \A i \in 1..n : lines(i) \in Seq(D)
  BY ServersTyped, LinesIn
<1>2. n \in Nat
  BY ServersTyped
<1> HIDE DEF lines, n
<1>3. q \in Seq(Seq(D)) /\ Len(q) = n
  BY <1>1, <1>2, IsASeq
<1>4. \A i \in 1..n : q[i] = lines(i)
  OBVIOUS
<1>5. Everything(s) = FlattenSeq(q)
  BY DEF Everything, lines, n
<1> HIDE DEF q
<1>6. PICK h : FlattenSeq(q) = h[n] /\ Flattening(h, q)
  BY <1>3, FlattenSteps
<1>7. h[0] = <<>> /\ \A k \in 1..n : h[k] = h[k - 1] \o lines(k)
  BY <1>3, <1>4, <1>6 DEF Flattening
<1>8. n \in 0..n /\ \A k \in 0..n : h[k] \in Seq(D)
  <2> DEFINE T == {k \in 0..n : h[k] \in Seq(D)}
  <2>1. 0 \in T
    <3>1. <<>> \in Seq(D) /\ 0 \in 0..n
      BY <1>2, EmptySeq
    <3> QED BY <1>7, <3>1
  <2>2. ASSUME NEW k \in 1..n, k - 1 \in T PROVE k \in T
    <3>1. h[k] \in Seq(D)
      BY <1>1, <1>7, <2>2, ConcatProperties
    <3> QED BY <1>2, <3>1
  <2> HIDE DEF T
  <2>3. \A k \in 0..n : k \in T
    BY <1>2, <2>1, <2>2, StepInduction
  <2> QED BY <1>2, <2>3 DEF T
<1>9. Saving(h, s)
  BY <1>7 DEF Saving, lines, n
<1> QED BY <1>5, <1>6, <1>8, <1>9 DEF n

-----------------------------------------------------------------------------
(* The types. *)

LEMMA ListFinite ==
  ASSUME NEW X, NEW s \in Seq(X)
  PROVE  IsFiniteSet(Range(s)) /\ Range(s) \subseteq X
<1>1. Len(s) \in Nat /\ DOMAIN s = 1..Len(s) /\ s \in [1..Len(s) -> X]
  BY LenProperties
<1>2. s \in Surjection(1..Len(s), Range(s))
  BY <1>1 DEF Surjection, Range
<1>3. IsFiniteSet(1..Len(s))
  BY <1>1, FS_Interval
<1>4. IsFiniteSet(Range(s))
  BY <1>2, <1>3, FS_Surjection
<1> QED BY <1>1, <1>4 DEF Range

(* The commands that a file has or that can be typed. *)
Understood(l) ==
  /\ l.name \in Name
  /\ l.cmd # "tamper" =>
       /\ l.cmd \in DOMAIN Settings
       /\ l.arg \in Settings[l.cmd] \/ (l.cmd = "connect" /\ l.arg = "blank")

LEMMA LinesUnderstood ==
  ASSUME NEW l \in CommandLines
  PROVE  Understood(l)
<1>1. PICK s \in {"tamper"} \cup DOMAIN Settings : l \in [cmd : {s}, name : Name, arg : Arguments(s)]
  BY DEF CommandLines
<1>2. l.cmd = s /\ l.name \in Name /\ l.arg \in Arguments(s)
  BY <1>1
<1>3. CASE s = "tamper"
  BY <1>2, <1>3 DEF Understood
<1>4. CASE s # "tamper"
  <2>1. s = "connect" => l.arg \in Settings[s] \/ l.arg = "blank"
    BY <1>2 DEF Arguments, Settings
  <2>2. s # "connect" => l.arg \in Settings[s]
    BY <1>2, <1>4 DEF Arguments
  <2> QED BY <1>1, <1>2, <1>4, <2>1, <2>2 DEF Understood
<1> QED BY <1>3, <1>4

LEMMA DefaultsTyped == Defaults \in Config
<1>1. <<>> \in Seq(Suffix)
  BY EmptySeq
<1> QED BY <1>1, ServerConfigAssumption DEF Defaults, Config

LEMMA ConfigTyped ==
  ASSUME NEW c \in Config
  PROVE  /\ c.connect \in {"none", "sftp", "ftp"} /\ c.document_root \in {"none", "default", "given"}
         /\ c.depth \in {"default", "given"} /\ c.file_size \in {"default", "given"}
         /\ c.root_folder \in Seconds /\ c.other_folder \in Seconds
         /\ c.exclude \in Seq(Suffix) /\ c.restore_mode \in BOOLEAN
         /\ c.monitor \in BOOLEAN /\ c.disk_size \in Sizes
BY DEF Config

SameSize(c, d) == d \in Config /\ d.disk_size = c.disk_size

Updates(c) ==
  /\ \A v \in {"none", "sftp", "ftp"} : SameSize(c, [c EXCEPT !.connect = v])
  /\ \A v \in {"none", "default", "given"} : SameSize(c, [c EXCEPT !.document_root = v])
  /\ \A v \in {"default", "given"} : SameSize(c, [c EXCEPT !.depth = v])
  /\ \A v \in {"default", "given"} : SameSize(c, [c EXCEPT !.file_size = v])
  /\ \A v \in Seconds : SameSize(c, [c EXCEPT !.root_folder = v])
  /\ \A v \in Seconds : SameSize(c, [c EXCEPT !.other_folder = v])
  /\ \A v \in Seq(Suffix) : SameSize(c, [c EXCEPT !.exclude = v])
  /\ \A v \in BOOLEAN : SameSize(c, [c EXCEPT !.restore_mode = v])
  /\ \A v \in BOOLEAN : SameSize(c, [c EXCEPT !.monitor = v])
  /\ \A v \in Sizes : /\ [c EXCEPT !.disk_size = v] \in Config
                      /\ [c EXCEPT !.disk_size = v].disk_size = v

LEMMA ConfigUpdates ==
  ASSUME NEW c \in Config
  PROVE  Updates(c)
<1> DEFINE S == Seq(Suffix)
<1>1. Config = [connect : {"none", "sftp", "ftp"}, document_root : {"none", "default", "given"},
                depth : {"default", "given"}, file_size : {"default", "given"},
                root_folder : Seconds, other_folder : Seconds, exclude : S,
                restore_mode : BOOLEAN, monitor : BOOLEAN, disk_size : Sizes]
  BY DEF Config
<1> HIDE DEF S
<1>2. \A v \in {"none", "sftp", "ftp"} : SameSize(c, [c EXCEPT !.connect = v])
  BY <1>1 DEF SameSize
<1>3. \A v \in {"none", "default", "given"} : SameSize(c, [c EXCEPT !.document_root = v])
  BY <1>1 DEF SameSize
<1>4. \A v \in {"default", "given"} : SameSize(c, [c EXCEPT !.depth = v])
  BY <1>1 DEF SameSize
<1>5. \A v \in {"default", "given"} : SameSize(c, [c EXCEPT !.file_size = v])
  BY <1>1 DEF SameSize
<1>6. \A v \in Seconds : SameSize(c, [c EXCEPT !.root_folder = v])
  BY <1>1 DEF SameSize
<1>7. \A v \in Seconds : SameSize(c, [c EXCEPT !.other_folder = v])
  BY <1>1 DEF SameSize
<1>8. \A v \in S : SameSize(c, [c EXCEPT !.exclude = v])
  BY <1>1 DEF SameSize
<1>9. \A v \in BOOLEAN : SameSize(c, [c EXCEPT !.restore_mode = v])
  BY <1>1 DEF SameSize
<1>10. \A v \in BOOLEAN : SameSize(c, [c EXCEPT !.monitor = v])
  BY <1>1 DEF SameSize
<1>11. \A v \in Sizes : /\ [c EXCEPT !.disk_size = v] \in Config
                       /\ [c EXCEPT !.disk_size = v].disk_size = v
  BY <1>1
<1> QED BY <1>2, <1>3, <1>4, <1>5, <1>6, <1>7, <1>8, <1>9, <1>10, <1>11 DEF S, Updates

Changed(l) == [cfg[l.name] EXCEPT ![l.cmd] = NewValue(l)]

LEMMA StateTyped ==
  ASSUME TypeOK
  PROVE  /\ servers \in Seq(Name) /\ cfg \in [Name -> Config] /\ IsInjective(servers)
         /\ IsFiniteSet(Listed) /\ Listed \subseteq Name
         /\ \A n \in Name : cfg[n].disk_size \in Nat /\ cfg[n].exclude \in Seq(Suffix)
<1>1. servers \in Seq(Name) /\ cfg \in [Name -> Config] /\ IsInjective(servers)
  BY DEF TypeOK, Now, Configuration
<1>2. \A n \in Name : cfg[n].disk_size \in Nat /\ cfg[n].exclude \in Seq(Suffix)
  BY <1>1, ConfigTyped, ServerConfigAssumption
<1> QED BY <1>1, <1>2, ListFinite DEF Listed

LEMMA SetChanges ==
  ASSUME TypeOK, NEW l, Understood(l), Set(l)
  PROVE  /\ l.name \in Listed /\ cfg' = [cfg EXCEPT ![l.name] = Changed(l)]
         /\ Changed(l) \in Config
         /\ l.cmd # "disk_size" => /\ Changed(l).disk_size = cfg[l.name].disk_size
                                   /\ left_disksize' = left_disksize
         /\ l.cmd = "disk_size" =>
              /\ Changed(l).disk_size = l.arg
              /\ l.arg <= left_disksize + cfg[l.name].disk_size
              /\ left_disksize' = left_disksize + cfg[l.name].disk_size - l.arg
<1> DEFINE n == l.name
           c == cfg[n]
           v == NewValue(l)
<1>1. n \in Listed /\ n \in Name /\ l.cmd \in DOMAIN Settings /\ c \in Config
  BY StateTyped DEF Set, Understood
<1>2. l.arg \in Settings[l.cmd]
  BY <1>1 DEF Set, Understood, Refused
<1>3. cfg' = [cfg EXCEPT ![n] = Changed(l)]
  BY <1>1, StateTyped DEF Set, Changed
<1>4. DOMAIN Settings = {"connect", "document_root", "depth", "file_size", "root_folder",
                         "other_folder", "exclude", "restore_mode", "monitor", "disk_size"}
  BY DEF Settings
<1>0. Updates(c)
  BY <1>1, ConfigUpdates
<1>5. /\ l.cmd # "disk_size" => left_disksize' = left_disksize
      /\ l.cmd = "disk_size" => left_disksize' = left_disksize + c.disk_size - l.arg
  BY DEF Set
<1>6. CASE l.cmd = "connect"
  <2>1. v \in {"none", "sftp", "ftp"} /\ Changed(l) = [c EXCEPT !.connect = v]
    BY <1>1, <1>2, <1>6, ConfigTyped DEF NewValue, Connected, Settings, Changed
  <2>2. SameSize(c, Changed(l))
    <3> HIDE DEF c, v
    <3> QED BY <1>0, <2>1 DEF Updates
  <2> QED BY <1>1, <1>3, <1>5, <1>6, <2>2 DEF SameSize
<1>7. CASE l.cmd = "exclude"
  <2>1. v \in Seq(Suffix) /\ Changed(l) = [c EXCEPT !.exclude = v]
    BY <1>1, <1>2, <1>7, ConfigTyped, AppendProperties DEF NewValue, Excluded, Settings, Changed
  <2>2. SameSize(c, Changed(l))
    <3> HIDE DEF c, v
    <3> QED BY <1>0, <2>1 DEF Updates
  <2> QED BY <1>1, <1>3, <1>5, <1>7, <2>2 DEF SameSize
<1>8. CASE l.cmd = "monitor"
  <2>1. v \in BOOLEAN /\ Changed(l) = [c EXCEPT !.monitor = v]
    BY <1>1, <1>2, <1>8, ConfigTyped DEF NewValue, Monitored, Settings, Changed
  <2>2. SameSize(c, Changed(l))
    <3> HIDE DEF c, v
    <3> QED BY <1>0, <2>1 DEF Updates
  <2> QED BY <1>1, <1>3, <1>5, <1>8, <2>2 DEF SameSize
<1>9. CASE l.cmd = "document_root"
  <2>1. v \in {"none", "default", "given"} /\ Changed(l) = [c EXCEPT !.document_root = v]
    BY <1>1, <1>2, <1>9, ConfigTyped DEF NewValue, Settings, Changed
  <2>2. SameSize(c, Changed(l))
    <3> HIDE DEF c, v
    <3> QED BY <1>0, <2>1 DEF Updates
  <2> QED BY <1>1, <1>3, <1>5, <1>9, <2>2 DEF SameSize
<1>10. CASE l.cmd = "depth"
  <2>1. v \in {"default", "given"} /\ Changed(l) = [c EXCEPT !.depth = v]
    BY <1>1, <1>2, <1>10, ConfigTyped DEF NewValue, Settings, Changed
  <2>2. SameSize(c, Changed(l))
    <3> HIDE DEF c, v
    <3> QED BY <1>0, <2>1 DEF Updates
  <2> QED BY <1>1, <1>3, <1>5, <1>10, <2>2 DEF SameSize
<1>11. CASE l.cmd = "file_size"
  <2>1. v \in {"default", "given"} /\ Changed(l) = [c EXCEPT !.file_size = v]
    BY <1>1, <1>2, <1>11, ConfigTyped DEF NewValue, Settings, Changed
  <2>2. SameSize(c, Changed(l))
    <3> HIDE DEF c, v
    <3> QED BY <1>0, <2>1 DEF Updates
  <2> QED BY <1>1, <1>3, <1>5, <1>11, <2>2 DEF SameSize
<1>12. CASE l.cmd = "root_folder"
  <2>1. v \in Seconds /\ Changed(l) = [c EXCEPT !.root_folder = v]
    BY <1>1, <1>2, <1>12, ConfigTyped DEF NewValue, Settings, Changed
  <2>2. SameSize(c, Changed(l))
    <3> HIDE DEF c, v
    <3> QED BY <1>0, <2>1 DEF Updates
  <2> QED BY <1>1, <1>3, <1>5, <1>12, <2>2 DEF SameSize
<1>13. CASE l.cmd = "other_folder"
  <2>1. v \in Seconds /\ Changed(l) = [c EXCEPT !.other_folder = v]
    BY <1>1, <1>2, <1>13, ConfigTyped DEF NewValue, Settings, Changed
  <2>2. SameSize(c, Changed(l))
    <3> HIDE DEF c, v
    <3> QED BY <1>0, <2>1 DEF Updates
  <2> QED BY <1>1, <1>3, <1>5, <1>13, <2>2 DEF SameSize
<1>14. CASE l.cmd = "restore_mode"
  <2>1. v \in BOOLEAN /\ Changed(l) = [c EXCEPT !.restore_mode = v]
    BY <1>1, <1>2, <1>14, ConfigTyped DEF NewValue, Settings, Changed
  <2>2. SameSize(c, Changed(l))
    <3> HIDE DEF c, v
    <3> QED BY <1>0, <2>1 DEF Updates
  <2> QED BY <1>1, <1>3, <1>5, <1>14, <2>2 DEF SameSize
<1>15. CASE l.cmd = "disk_size"
  <2>1. v = l.arg /\ v \in Sizes /\ Changed(l) = [c EXCEPT !.disk_size = v]
    BY <1>1, <1>2, <1>15 DEF NewValue, Settings, Changed
  <2>2. ~ (l.arg > left_disksize + c.disk_size)
    BY <1>1, <1>15 DEF Set, Refused, TooLarge
  <2>3. Changed(l) \in Config /\ Changed(l).disk_size = l.arg
    <3> HIDE DEF c, v
    <3> QED BY <1>0, <2>1 DEF Updates
  <2>4. l.arg \in Int /\ left_disksize \in Int /\ c.disk_size \in Int
    BY <1>1, <2>1, StateTyped, ServerConfigAssumption DEF TypeOK
  <2>5. l.arg <= left_disksize + c.disk_size
    BY <2>2, <2>4
  <2> QED BY <1>1, <1>3, <1>5, <1>15, <2>3, <2>5
<1> QED BY <1>1, <1>4, <1>6, <1>7, <1>8, <1>9, <1>10, <1>11, <1>12, <1>13, <1>14, <1>15

(* What an accepted command does to the types and to the space. *)
LEMMA AcceptTyped ==
  ASSUME TypeOK, NEW l, Understood(l), Accept(l)
  PROVE  /\ Now' \in Configuration /\ IsInjective(servers') /\ left_disksize' \in Int
         /\ Listed \subseteq Listed'
<1>1. CASE Tamper(l)
  <2>1. /\ servers' = Append(servers, l.name) /\ cfg' = [cfg EXCEPT ![l.name] = Defaults]
        /\ left_disksize' = left_disksize - Default
        /\ l.name \in Name /\ l.name \notin Range(servers)
    BY <1>1 DEF Tamper, IsNew, Listed, Understood
  <2>2. /\ servers' \in Seq(Name) /\ IsInjective(servers')
        /\ Range(servers') = Range(servers) \cup {l.name}
    BY <2>1, StateTyped, AppendFacts
  <2>3. cfg' \in [Name -> Config]
    BY <2>1, StateTyped, DefaultsTyped
  <2>4. left_disksize' \in Int
    BY <2>1, ServerConfigAssumption DEF TypeOK
  <2> QED BY <2>2, <2>3, <2>4 DEF Configuration, Now, Listed
<1>2. CASE Set(l)
  <2>1. cfg' \in [Name -> Config] /\ servers' = servers
    BY <1>2, SetChanges, StateTyped DEF Set
  <2>2. left_disksize' \in Int
    <3>1. left_disksize \in Int /\ cfg[l.name].disk_size \in Nat
      BY <1>2, StateTyped DEF TypeOK, Understood
    <3>2. l.cmd = "disk_size" => l.arg \in Int
      <4>1. Changed(l).disk_size \in Sizes
        BY <1>2, SetChanges, ConfigTyped
      <4>2. l.cmd = "disk_size" => Changed(l).disk_size = l.arg
        BY <1>2, SetChanges
      <4>3. \A x \in Sizes : x \in Int
        BY ServerConfigAssumption
      <4> HIDE DEF Changed
      <4> QED BY <4>1, <4>2, <4>3
    <3> QED BY <1>2, <3>1, <3>2, SetChanges
  <2> QED BY <2>1, <2>2, StateTyped DEF Configuration, Now, Listed
<1>3. CASE WithoutEffect(l)
  BY <1>3 DEF WithoutEffect, state, TypeOK, Now, Listed
<1> QED BY <1>1, <1>2, <1>3 DEF Accept

LEMMA OneServer ==
  ASSUME TypeOK, NEW n \in Listed, NEW c \in Config
  PROVE  /\ Space([cfg EXCEPT ![n] = c], Listed) = c.disk_size + Space(cfg, Listed \ {n})
         /\ Space(cfg, Listed) = cfg[n].disk_size + Space(cfg, Listed \ {n})
         /\ Space(cfg, Listed \ {n}) \in Nat /\ c.disk_size \in Nat /\ cfg[n].disk_size \in Nat
<1> DEFINE d == [cfg EXCEPT ![n] = c]
           S == Listed \ {n}
<1>1. /\ IsFiniteSet(S) /\ n \notin S /\ S \cup {n} = Listed
      /\ \A m \in Listed : cfg[m].disk_size \in Nat
  BY StateTyped, FS_RemoveElement
<1>2. d[n] = c /\ \A m \in S : d[m] = cfg[m]
  BY StateTyped
<1>3. c.disk_size \in Nat
  BY ConfigTyped, ServerConfigAssumption
<1> HIDE DEF d, S
<1>4. Space(d, S \cup {n}) = d[n].disk_size + Space(cfg, S)
  <2>1. \A m \in S \cup {n} : d[m].disk_size \in Nat
    BY <1>1, <1>2, <1>3
  <2>2. \A m \in S : d[m].disk_size = cfg[m].disk_size
    BY <1>2
  <2> QED BY <1>1, <2>1, <2>2, SpaceOfMore
<1>5. Space(cfg, S \cup {n}) = cfg[n].disk_size + Space(cfg, S)
  BY <1>1, SpaceOfMore
<1>6. Space(cfg, S) \in Nat
  BY <1>1, SpaceFacts
<1> QED BY <1>1, <1>2, <1>3, <1>4, <1>5, <1>6 DEF d, S

LEMMA AcceptKeepsSpace ==
  ASSUME TypeOK, SpaceKept, NEW l, Understood(l), Accept(l)
  PROVE  SpaceKept'
<1>0. Total \in Nat /\ Default \in Nat /\ Default \in Sizes
  BY ServerConfigAssumption
<1>1. CASE Tamper(l)
  <2>1. /\ servers' = Append(servers, l.name) /\ cfg' = [cfg EXCEPT ![l.name] = Defaults]
        /\ left_disksize' = left_disksize - Default
        /\ l.name \in Name /\ l.name \notin Listed /\ ~ (left_disksize < Default)
    BY <1>1 DEF Tamper, IsNew, Refused, NoRoom, Understood
  <2>2. Listed' = Listed \cup {l.name}
    BY <2>1, StateTyped, AppendFacts DEF Listed
  <2>3. /\ \A m \in Listed \cup {l.name} : cfg'[m].disk_size \in Nat
        /\ \A m \in Listed : cfg'[m].disk_size = cfg[m].disk_size
        /\ cfg'[l.name].disk_size = Default
    BY <1>0, <2>1, StateTyped DEF Defaults
  <2>4. Space(cfg', Listed \cup {l.name}) = Default + Space(cfg, Listed)
    BY <2>1, <2>3, StateTyped, SpaceOfMore
  <2>5. Space(cfg, Listed) \in Nat
    BY StateTyped, SpaceFacts
  <2> QED BY <1>0, <2>1, <2>2, <2>4, <2>5 DEF SpaceKept
<1>2. CASE Set(l)
  <2>1. /\ l.name \in Listed /\ cfg' = [cfg EXCEPT ![l.name] = Changed(l)]
        /\ Changed(l) \in Config /\ Listed' = Listed
    BY <1>2, SetChanges DEF Set, Listed
  <2>2. /\ Space(cfg', Listed) = Changed(l).disk_size + Space(cfg, Listed \ {l.name})
        /\ Space(cfg, Listed) = cfg[l.name].disk_size + Space(cfg, Listed \ {l.name})
        /\ Space(cfg, Listed \ {l.name}) \in Nat /\ Changed(l).disk_size \in Nat
        /\ cfg[l.name].disk_size \in Nat
    BY <2>1, OneServer
  <2>3. CASE l.cmd = "disk_size"
    <3>1. /\ Changed(l).disk_size = l.arg
          /\ l.arg <= left_disksize + cfg[l.name].disk_size
          /\ left_disksize' = left_disksize + cfg[l.name].disk_size - l.arg
      BY <1>2, <2>3, SetChanges
    <3> DEFINE rest == Space(cfg, Listed \ {l.name})
               old == cfg[l.name].disk_size
    <3>2. /\ Space(cfg', Listed) = l.arg + rest /\ Space(cfg, Listed) = old + rest
          /\ rest \in Nat /\ l.arg \in Nat /\ old \in Nat
          /\ left_disksize \in 0..Total /\ left_disksize + Space(cfg, Listed) = Total
      BY <2>2, <3>1 DEF SpaceKept
    <3>3. left_disksize' \in 0..Total /\ left_disksize' + (l.arg + rest) = Total
      <4> HIDE DEF rest, old
      <4> QED BY <1>0, <3>1, <3>2 DEF old
    <3> QED BY <2>1, <3>2, <3>3 DEF SpaceKept
  <2>4. CASE l.cmd # "disk_size"
    BY <1>0, <1>2, <2>1, <2>2, <2>4, SetChanges DEF SpaceKept
  <2> QED BY <2>3, <2>4
<1>3. CASE WithoutEffect(l)
  BY <1>3 DEF WithoutEffect, state, SpaceKept, Listed
<1> QED BY <1>1, <1>2, <1>3 DEF Accept

LEMMA LineTyped ==
  ASSUME NEW s \in {"tamper"} \cup DOMAIN Settings, NEW n \in Name, NEW v \in Arguments(s)
  PROVE  Line(s, n, v) \in CommandLines
<1>1. Line(s, n, v) \in [cmd : {s}, name : Name, arg : Arguments(s)]
  BY DEF Line
<1> QED BY <1>1 DEF CommandLines

LEMMA ServerLinesTyped ==
  ASSUME NEW n \in Name, NEW c \in Config
  PROVE  ServerLines(n, c) \subseteq CommandLines
<1> SUFFICES ASSUME NEW l \in ServerLines(n, c) PROVE l \in CommandLines
  OBVIOUS
<1>1. l.cmd \in {"connect", "document_root"} => l.arg # "none"
  BY DEF ServerLines
<1>2. \/ l = Line("tamper", n, {})
      \/ l = Line("connect", n, IF c.connect = "ftp" THEN "blank" ELSE c.connect)
      \/ \E s \in Kept : l = Line(s, n, c[s])
      \/ \E e \in Range(c.exclude) : l = Line("exclude", n, e)
  BY DEF ServerLines
<1>3. \A s, v : Line(s, n, v).cmd = s /\ Line(s, n, v).arg = v
  BY DEF Line
<1>4. CASE l = Line("tamper", n, {})
  <2>1. {} \in Arguments("tamper")
    BY DEF Arguments
  <2> QED BY <1>4, <2>1, LineTyped
<1>5. CASE l = Line("connect", n, IF c.connect = "ftp" THEN "blank" ELSE c.connect)
  <2> DEFINE v == IF c.connect = "ftp" THEN "blank" ELSE c.connect
  <2>1. v \in Arguments("connect") /\ "connect" \in DOMAIN Settings
    BY <1>1, <1>3, <1>5, ConfigTyped DEF Arguments, Settings
  <2> HIDE DEF v
  <2>2. Line("connect", n, v) \in CommandLines
    BY <2>1, LineTyped
  <2> QED BY <1>5, <2>2 DEF v
<1>6. ASSUME NEW s \in Kept, l = Line(s, n, c[s]) PROVE l \in CommandLines
  <2> DEFINE v == c[s]
  <2>1. s \in DOMAIN Settings /\ s # "connect" /\ s # "tamper"
    BY DEF Kept, Settings
  <2>2. s = "document_root" => v # "none"
    BY <1>1, <1>3, <1>6
  <2>3. v \in Settings[s]
    BY <2>2, ConfigTyped DEF Kept, Settings
  <2>4. v \in Arguments(s)
    BY <2>1, <2>3 DEF Arguments
  <2> HIDE DEF v
  <2>5. Line(s, n, v) \in CommandLines
    BY <2>1, <2>4, LineTyped
  <2> QED BY <1>6, <2>5 DEF v
<1>7. ASSUME NEW e \in Range(c.exclude), l = Line("exclude", n, e) PROVE l \in CommandLines
  <2>1. e \in Suffix
    BY ConfigTyped, ListFinite
  <2>2. "exclude" \in DOMAIN Settings /\ e \in Arguments("exclude")
    BY <2>1 DEF Settings, Arguments
  <2> QED BY <1>7, <2>2, LineTyped
<1> QED BY <1>2, <1>4, <1>5, <1>6, <1>7

LEMMA EverythingTyped ==
  ASSUME NEW s \in Configuration
  PROVE  /\ Everything(s) \in Seq(CommandLines)
         /\ \A k \in 0..Len(Everything(s)) : SubSeq(Everything(s), 1, k) \in Seq(CommandLines)
<1>1. \A n \in Range(s.servers) : ServerLines(n, s.cfg[n]) \subseteq CommandLines
  BY ServersTyped, ServerLinesTyped
<1>2. Everything(s) \in Seq(CommandLines)
  BY <1>1, EverythingIn
<1> DEFINE e == Everything(s)
<1>3. ASSUME NEW k \in 0..Len(e) PROVE SubSeq(e, 1, k) \in Seq(CommandLines)
  <2> HIDE DEF e
  <2>1. e \in Seq(CommandLines) /\ Len(e) \in Nat
    BY <1>2, LenProperties DEF e
  <2>2. \A i \in 1..k : e[i] \in CommandLines
    BY <2>1, ElementOfSeq
  <2> QED BY <2>2, SubSeqProperties
<1> QED BY <1>2, <1>3

LEMMA EmptyConfiguration ==
  /\ <<>> \in Seq(Name) /\ IsInjective(<<>>) /\ Range(<<>>) = {}
  /\ [n \in Name |-> Defaults] \in [Name -> Config]
  /\ <<>> \in Seq(CommandLines)
<1>1. <<>> \in Seq(Name) /\ <<>> \in Seq(CommandLines) /\ DOMAIN <<>> = {}
  BY EmptySeq
<1>2. [n \in Name |-> Defaults] \in [Name -> Config]
  BY DefaultsTyped
<1> QED BY <1>1, <1>2 DEF Range, IsInjective

LEMMA UnsetSameSize ==
  ASSUME NEW b \in Config,
         NEW c \in UNION {NoConnect(b), NoDocumentRoot(b), NoDepth(b), NoFileSize(b),
                          NoInterval(b), NoExclude(b), NoRestoreMode(b), NoMonitor(b)}
  PROVE  SameSize(b, c)
<1>1. Updates(b)
  BY ConfigUpdates
<1>2. CASE c \in NoConnect(b) \cup NoDocumentRoot(b) \cup NoFileSize(b)
  BY <1>1, <1>2 DEF NoConnect, NoDocumentRoot, NoFileSize, Updates
<1>3. CASE c \in NoDepth(b)
  <2> DEFINE d == [b EXCEPT !.depth = "default"]
  <2>1. SameSize(b, d)
    BY <1>1 DEF Updates
  <2>2. Updates(d)
    BY <2>1, ConfigUpdates DEF SameSize
  <2>3. SameSize(d, [d EXCEPT !.document_root = "none"])
    BY <2>2 DEF Updates
  <2>4. c = [d EXCEPT !.document_root = "none"]
    BY <1>3 DEF NoDepth
  <2> QED BY <2>1, <2>3, <2>4 DEF SameSize
<1>4. CASE c \in NoInterval(b)
  BY <1>1, <1>4, ServerConfigAssumption DEF NoInterval, Updates
<1>5. CASE c \in NoExclude(b)
  <2>1. PICK e \in Suffix : c = [b EXCEPT !.exclude = Keep(b.exclude, Suffix \ {e})]
    BY <1>5 DEF NoExclude
  <2>2. Keep(b.exclude, Suffix \ {e}) \in Seq(Suffix)
    BY ConfigTyped, KeepFacts
  <2> QED BY <1>1, <2>1, <2>2 DEF Updates
<1>6. CASE c \in NoRestoreMode(b) \cup NoMonitor(b)
  BY <1>1, <1>6 DEF NoRestoreMode, NoMonitor, Updates
<1> QED BY <1>2, <1>3, <1>4, <1>5, <1>6

(* What the commands of the administrator, and those of a file, are.       *)
LEMMA Typed ==
  ASSUME TypeOK, NEW n \in Name
  PROVE  /\ TypeTamper(n) => \E l : Understood(l) /\ Accept(l) /\ Edits /\ UNCHANGED running
         /\ \A s \in DOMAIN Settings : TypeSet(n, s) =>
              \E l : Understood(l) /\ Accept(l) /\ Edits /\ UNCHANGED running
         /\ UnsetSize(n) => \E l : Understood(l) /\ Accept(l) /\ Edits /\ UNCHANGED running
<1>1. \A s, v : /\ Line(s, n, v).cmd = s /\ Line(s, n, v).arg = v /\ Line(s, n, v).name = n
  BY DEF Line
<1>2. ASSUME TypeTamper(n) PROVE \E l : Understood(l) /\ Accept(l) /\ Edits /\ UNCHANGED running
  <2> DEFINE l == Line("tamper", n, {})
  <2>1. Understood(l)
    BY <1>1 DEF Understood
  <2> QED BY <1>2, <2>1 DEF TypeTamper, Accept
<1>3. ASSUME NEW s \in DOMAIN Settings, TypeSet(n, s)
      PROVE  \E l : Understood(l) /\ Accept(l) /\ Edits /\ UNCHANGED running
  <2>1. PICK v \in Settings[s] : Set(Line(s, n, v))
    BY <1>3 DEF TypeSet
  <2>2. Understood(Line(s, n, v))
    BY <1>1 DEF Understood
  <2> QED BY <1>3, <2>1, <2>2 DEF TypeSet, Accept
<1>4. ASSUME UnsetSize(n) PROVE \E l : Understood(l) /\ Accept(l) /\ Edits /\ UNCHANGED running
  <2> DEFINE l == Line("disk_size", n, Default)
  <2>1. Understood(l)
    BY <1>1, ServerConfigAssumption DEF Understood, Settings
  <2> QED BY <1>4, <2>1 DEF UnsetSize, Accept
<1> QED BY <1>2, <1>3, <1>4

LEMMA NoTamperLeaves ==
  ASSUME TypeOK, NEW n \in Listed, NoTamper(n)
  PROVE  /\ servers' \in Seq(Name) /\ IsInjective(servers') /\ Listed' = Listed \ {n}
         /\ cfg' = [cfg EXCEPT ![n] = Defaults]
<1>1. /\ servers' = Keep(servers, Name \ {n})
      /\ Listed' = Listed \cap (Name \ {n})
  BY StateTyped, KeepFacts DEF NoTamper, Listed
<1> QED BY <1>1, StateTyped, KeepFacts DEF NoTamper

(* What the start of a process leaves. *)
Empty ==
  /\ servers' = <<>> /\ cfg' = [n \in Name |-> Defaults]
  /\ running' = {} /\ left_disksize' = Total

LEMMA InitTypeOK == Init => TypeOK
<1> SUFFICES ASSUME Init PROVE TypeOK
  OBVIOUS
<1>1. Now \in Configuration /\ saved \in Configuration
  BY EmptyConfiguration DEF Init, Now, Configuration
<1>2. IsInjective(servers) /\ IsInjective(saved.servers) /\ running \subseteq Listed
  BY EmptyConfiguration DEF Init, Now
<1>3. left_disksize \in Int /\ edits \in 0..MaxEdits
  BY ServerConfigAssumption DEF Init
<1> QED BY <1>1, <1>2, <1>3, EmptyConfiguration DEF Init, TypeOK

LEMMA NextTypeOK == TypeOK /\ [Next]_vars => TypeOK'
<1> SUFFICES ASSUME TypeOK, [Next]_vars PROVE TypeOK'
  OBVIOUS
<1> USE DEF TypeOK
<1>0. \A l : Understood(l) /\ Accept(l) =>
        /\ Now' \in Configuration /\ IsInjective(servers') /\ left_disksize' \in Int
        /\ Listed \subseteq Listed'
  BY AcceptTyped
<1>1. ASSUME NEW l, Understood(l), Accept(l), Edits, UNCHANGED running PROVE TypeOK'
  BY <1>0, <1>1, ServerConfigAssumption DEF Edits
<1>2. ASSUME NEW n \in Name, TypeTamper(n) \/ UnsetSize(n) \/ \E s \in DOMAIN Settings : TypeSet(n, s)
      PROVE  TypeOK'
  BY <1>1, <1>2, Typed
<1>3. ASSUME NEW n \in Name, NoTamper(n) PROVE TypeOK'
  <2>1. n \in Listed
    BY <1>3 DEF NoTamper
  <2>2. Now' \in Configuration /\ IsInjective(servers') /\ Listed' = Listed \ {n}
    <3>1. /\ servers' \in Seq(Name) /\ IsInjective(servers') /\ Listed' = Listed \ {n}
          /\ cfg' = [cfg EXCEPT ![n] = Defaults]
      BY <1>3, <2>1, NoTamperLeaves
    <3>2. cfg' \in [Name -> Config]
      BY <3>1, StateTyped, DefaultsTyped
    <3> QED BY <3>1, <3>2 DEF Now, Configuration
  <2>3. left_disksize' \in Int
    BY <1>3, StateTyped DEF NoTamper
  <2> QED BY <1>3, <2>2, <2>3, ServerConfigAssumption DEF NoTamper, Edits
<1>4. ASSUME NEW n \in Name, Unset(n) PROVE TypeOK'
  <2>1. PICK c : SameSize(cfg[n], c) /\ cfg' = [cfg EXCEPT ![n] = c]
    BY <1>4, StateTyped, UnsetSameSize DEF Unset
  <2>2. Now' \in Configuration /\ Listed' = Listed
    BY <1>4, <2>1, StateTyped DEF Unset, Now, Configuration, SameSize, Listed
  <2> QED BY <1>4, <2>2, ServerConfigAssumption DEF Unset, Edits
<1>5. ASSUME NEW n \in Name, StartThread(n) PROVE TypeOK'
  BY <1>5 DEF StartThread, state, history, Now, Listed
<1>6. ASSUME NEW n \in Name, Exceeded(n) PROVE TypeOK'
  <2>1. cfg' = [cfg EXCEPT ![n] = [cfg[n] EXCEPT !.monitor = FALSE]]
    BY <1>6, StateTyped DEF Exceeded
  <2>2. [cfg[n] EXCEPT !.monitor = FALSE] \in Config
    BY StateTyped, ConfigUpdates DEF Updates, SameSize
  <2>3. Now' \in Configuration /\ Listed' = Listed
    BY <1>6, <2>1, <2>2, StateTyped DEF Exceeded, Now, Configuration, Listed
  <2> QED BY <1>6, <2>3 DEF Exceeded
<1>7. CASE Write
  <2>1. file' \in Seq(CommandLines)
    BY <1>7, EverythingTyped DEF Write
  <2> QED BY <1>7, <2>1 DEF Write, state, Now, Listed
<1>8. ASSUME Empty, file' \in Seq(CommandLines), todo' = file', UNCHANGED <<saved, edits>>,
             torn' \in BOOLEAN, mark' = "boot"
      PROVE  TypeOK'
  <2>1. Now' \in Configuration /\ IsInjective(servers')
    BY <1>8, EmptyConfiguration DEF Empty, Now, Configuration
  <2> QED BY <1>8, <2>1, ServerConfigAssumption DEF Empty
<1>9. CASE Stop
  BY <1>8, <1>9 DEF Stop, Restart, Empty
<1>10. CASE StopInWrite
  <2>1. file' \in Seq(CommandLines)
    BY <1>10, EverythingTyped DEF StopInWrite
  <2> QED BY <1>8, <1>10, <2>1 DEF StopInWrite, Restart, Empty
<1>11. CASE Load
  BY <1>11 DEF Load, state, Now, Listed
<1>12. CASE LoadLine
  <2>1. Head(todo) \in CommandLines /\ Tail(todo) \in Seq(CommandLines)
    BY <1>12, HeadTailProperties DEF LoadLine
  <2>2. Understood(Head(todo))
    BY <2>1, LinesUnderstood
  <2> QED BY <1>0, <1>12, <2>1, <2>2 DEF LoadLine, history
<1>13. CASE LineRefused
  <2>1. Tail(todo) \in Seq(CommandLines)
    BY <1>13, HeadTailProperties DEF LineRefused
  <2> QED BY <1>13, <2>1, EmptyConfiguration DEF LineRefused, state, history, Now, Listed
<1>14. CASE UNCHANGED vars
  BY <1>14 DEF vars, state, history, Now, Listed
<1> QED BY <1>2, <1>3, <1>4, <1>5, <1>6, <1>7, <1>9, <1>10, <1>11, <1>12, <1>13, <1>14 DEF Next

(* The variables keep their types: the file and what is left to load are   *)
(* commands the parser understands, the settings of a server are settings, *)
(* no server is listed twice, and only listed servers have a thread.       *)
THEOREM TypeCorrect == Spec => []TypeOK
<1>1. Init => TypeOK
  BY InitTypeOK
<1>2. TypeOK /\ [Next]_vars => TypeOK'
  BY NextTypeOK
<1> QED BY <1>1, <1>2, PTL DEF Spec
-----------------------------------------------------------------------------
(* The space. *)

LEMMA EmptySpace ==
  ASSUME NEW c
  PROVE  Space(c, {}) = 0
BY FS_EmptySet, SpaceFacts

LEMMA StepKeepsSpace == TypeOK /\ SpaceKept /\ [Next]_vars => SpaceKept'
<1> SUFFICES ASSUME TypeOK, SpaceKept, [Next]_vars PROVE SpaceKept'
  OBVIOUS
<1>0. Total \in Nat /\ Default \in Nat
  BY ServerConfigAssumption
<1>1. ASSUME NEW n \in Name, TypeTamper(n) \/ UnsetSize(n) \/ \E s \in DOMAIN Settings : TypeSet(n, s)
      PROVE  SpaceKept'
  BY <1>1, Typed, AcceptKeepsSpace
<1>2. ASSUME NEW n \in Name, NoTamper(n) PROVE SpaceKept'
  <2>1. n \in Listed /\ left_disksize' = left_disksize + cfg[n].disk_size
    BY <1>2 DEF NoTamper
  <2>2. Listed' = Listed \ {n} /\ cfg' = [cfg EXCEPT ![n] = Defaults]
    BY <1>2, <2>1, NoTamperLeaves
  <2>3. /\ Space(cfg, Listed) = cfg[n].disk_size + Space(cfg, Listed \ {n})
        /\ Space(cfg, Listed \ {n}) \in Nat /\ cfg[n].disk_size \in Nat
    BY <2>1, OneServer, DefaultsTyped
  <2>4. Space(cfg', Listed \ {n}) = Space(cfg, Listed \ {n})
    <3> DEFINE S == Listed \ {n}
    <3>1. IsFiniteSet(S) /\ \A m \in S : cfg[m].disk_size \in Nat
      BY StateTyped, FS_RemoveElement
    <3>2. \A m \in S : cfg[m].disk_size = cfg'[m].disk_size
      BY <2>2, StateTyped
    <3> HIDE DEF S
    <3>3. Space(cfg, S) = Space(cfg', S)
      BY <3>1, <3>2, SameSpace
    <3> QED BY <3>3 DEF S
  <2> QED BY <1>0, <2>1, <2>2, <2>3, <2>4 DEF SpaceKept
<1>3. ASSUME NEW n \in Listed, NEW c, SameSize(cfg[n], c), cfg' = [cfg EXCEPT ![n] = c],
             UNCHANGED <<servers, left_disksize>>
      PROVE  SpaceKept'
  <2>1. /\ Space(cfg', Listed) = c.disk_size + Space(cfg, Listed \ {n})
        /\ Space(cfg, Listed) = cfg[n].disk_size + Space(cfg, Listed \ {n})
    BY <1>3, OneServer DEF SameSize
  <2>2. Space(cfg', Listed) = Space(cfg, Listed) /\ Listed' = Listed
    BY <1>3, <2>1 DEF SameSize, Listed
  <2> QED BY <1>3, <2>2 DEF SpaceKept
<1>4. ASSUME NEW n \in Name, Unset(n) PROVE SpaceKept'
  <2>1. PICK c : SameSize(cfg[n], c) /\ cfg' = [cfg EXCEPT ![n] = c]
    BY <1>4, StateTyped, UnsetSameSize DEF Unset
  <2> QED BY <1>3, <1>4, <2>1 DEF Unset
<1>5. ASSUME NEW n \in Name, Exceeded(n) PROVE SpaceKept'
  <2> DEFINE c == [cfg[n] EXCEPT !.monitor = FALSE]
  <2>1. cfg' = [cfg EXCEPT ![n] = c] /\ n \in Listed
    BY <1>5, StateTyped DEF Exceeded, TypeOK
  <2>2. SameSize(cfg[n], c)
    BY StateTyped, ConfigUpdates DEF Updates
  <2> QED BY <1>3, <1>5, <2>1, <2>2 DEF Exceeded
<1>6. CASE UNCHANGED state
  BY <1>6 DEF state, SpaceKept, Listed
<1>7. ASSUME Restart PROVE SpaceKept'
  <2>1. Listed' = {}
    BY <1>7, EmptyConfiguration DEF Restart, Listed
  <2>2. Space(cfg', {}) = 0
    BY EmptySpace
  <2> QED BY <1>0, <1>7, <2>1, <2>2 DEF Restart, SpaceKept
<1>8. CASE LoadLine
  <2>1. Head(todo) \in CommandLines
    BY <1>8, HeadTailProperties DEF LoadLine, TypeOK
  <2> QED BY <1>8, <2>1, LinesUnderstood, AcceptKeepsSpace DEF LoadLine
<1>9. (\E n \in Name : StartThread(n)) \/ Write \/ Load \/ LineRefused \/ UNCHANGED vars => UNCHANGED state
  BY DEF StartThread, Write, Load, LineRefused, vars
<1> QED BY <1>1, <1>2, <1>4, <1>5, <1>6, <1>7, <1>8, <1>9 DEF Next, Stop, StopInWrite

LEMMA InitSpaceKept == Init => SpaceKept
<1> SUFFICES ASSUME Init PROVE SpaceKept
  OBVIOUS
<1>1. Listed = {} /\ Space(cfg, {}) = 0
  BY EmptyConfiguration, EmptySpace DEF Init, Listed
<1> QED BY <1>1, ServerConfigAssumption DEF Init, SpaceKept

(* No command, typed or loaded, accepted or refused, creates or loses      *)
(* space: what the servers have and what is left make up the whole, and    *)
(* left_disksize never falls below zero.                                   *)
THEOREM SpaceIsKept == Spec => []SpaceKept
<1>1. Init => TypeOK /\ SpaceKept
  BY InitTypeOK, InitSpaceKept
<1>2. TypeOK /\ SpaceKept /\ [Next]_vars => (TypeOK /\ SpaceKept)'
  BY NextTypeOK, StepKeepsSpace
<1> QED BY <1>1, <1>2, PTL DEF Spec
-----------------------------------------------------------------------------
(* Loading what is in force. *)

(* The lines of all servers of a configuration. *)
Described(s) == UNION {ServerLines(n, s.cfg[n]) : n \in Range(s.servers)}

(* A file that was written to its end is what was saved. *)
FileIsSaved == ~torn => file = Everything(saved)

(* What a load may leave different: the order of suffixes, and how often   *)
(* each is listed.                                                         *)
Alike(c, d) ==
  /\ [c EXCEPT !.exclude = <<>>] = [d EXCEPT !.exclude = <<>>]
  /\ Range(c.exclude) = Range(d.exclude)

(* While a load of what is in force goes on, its lines describe what is so. *)
Again ==
  mark = "again" =>
    /\ todo \in Seq(Described(saved))
    /\ servers = saved.servers
    /\ \A n \in Listed : Alike(cfg[n], saved.cfg[n])

LEMMA DescribedBy ==
  ASSUME NEW s \in Configuration
  PROVE  Everything(s) \in Seq(Described(s))
<1>1. \A n \in Range(s.servers) : ServerLines(n, s.cfg[n]) \subseteq Described(s)
  BY DEF Described
<1> QED BY <1>1, EverythingIn

LEMMA AlikeFields ==
  ASSUME NEW c \in Config, NEW d \in Config, Alike(c, d), NEW s \in Kept \cup {"connect"}
  PROVE  c[s] = d[s]
<1>1. [c EXCEPT !.exclude = <<>>][s] = [d EXCEPT !.exclude = <<>>][s]
  BY DEF Alike
<1>2. s # "exclude" /\ s \in DOMAIN c /\ s \in DOMAIN d
  BY DEF Kept, Config
<1> QED BY <1>1, <1>2

LEMMA SavedTyped ==
  ASSUME TypeOK
  PROVE  /\ saved \in Configuration /\ IsInjective(saved.servers)
         /\ \A n \in Name : saved.cfg[n] \in Config /\ cfg[n] \in Config
BY StateTyped, ServersTyped DEF TypeOK

LEMMA LineOfSaved ==
  ASSUME NEW s \in Configuration, NEW l \in Described(s)
  PROVE  /\ l.name \in Range(s.servers) /\ l.name \in Name
         /\ \/ l.cmd = "tamper"
            \/ /\ l.cmd = "connect"
               /\ l.arg = IF s.cfg[l.name].connect = "ftp" THEN "blank" ELSE s.cfg[l.name].connect
            \/ l.cmd \in Kept /\ l.arg = s.cfg[l.name][l.cmd]
            \/ l.cmd = "exclude" /\ l.arg \in Range(s.cfg[l.name].exclude)
<1>1. PICK n \in Range(s.servers) : l \in ServerLines(n, s.cfg[n])
  BY DEF Described
<1> DEFINE c == s.cfg[n]
<1>2. \/ l = Line("tamper", n, {})
      \/ l = Line("connect", n, IF c.connect = "ftp" THEN "blank" ELSE c.connect)
      \/ \E k \in Kept : l = Line(k, n, c[k])
      \/ \E e \in Range(c.exclude) : l = Line("exclude", n, e)
  BY <1>1 DEF ServerLines
<1>3. \A k, v : Line(k, n, v).cmd = k /\ Line(k, n, v).name = n /\ Line(k, n, v).arg = v
  BY DEF Line
<1> HIDE DEF c
<1>4. l.name = n
  BY <1>2, <1>3
<1> QED BY <1>1, <1>2, <1>3, <1>4, ServersTyped DEF c

LEMMA SetAgain ==
  ASSUME TypeOK, servers = saved.servers, \A n \in Listed : Alike(cfg[n], saved.cfg[n]),
         NEW l \in Described(saved), Set(l)
  PROVE  \A n \in Listed : Alike(cfg'[n], saved.cfg[n])
<1> DEFINE n == l.name
           c == cfg[n]
           d == saved.cfg[n]
           v == NewValue(l)
<1>1. n \in Listed /\ n \in Name /\ c \in Config /\ d \in Config /\ Alike(c, d)
  BY LineOfSaved, SavedTyped DEF Listed
<1>2. cfg' = [cfg EXCEPT ![n] = Changed(l)] /\ cfg \in [Name -> Config]
  BY <1>1, StateTyped DEF Set, Changed
<1>3. \A m \in Listed \ {n} : cfg'[m] = cfg[m]
  BY <1>2, StateTyped
<1>4. cfg'[n] = Changed(l)
  BY <1>1, <1>2
<1>5. \/ l.cmd = "connect" /\ l.arg = (IF d.connect = "ftp" THEN "blank" ELSE d.connect)
      \/ l.cmd \in Kept /\ l.arg = d[l.cmd]
      \/ l.cmd = "exclude" /\ l.arg \in Range(d.exclude)
  BY LineOfSaved, SavedTyped DEF Set
<1>6. ASSUME l.cmd \in Kept \cup {"connect"}, v = c[l.cmd] PROVE Changed(l) = c
  <2>1. [c EXCEPT ![l.cmd] = c[l.cmd]] = c
    BY <1>1 DEF Config
  <2> QED BY <1>6, <2>1 DEF Changed
<1>7. CASE l.cmd = "connect"
  <2>1. l.arg = c.connect
    BY <1>1, <1>5, <1>7, AlikeFields DEF Set, Refused, Kept
  <2> QED BY <1>1, <1>3, <1>4, <1>6, <1>7, <2>1 DEF NewValue, Connected
<1>8. CASE l.cmd \in Kept
  <2>1. l.arg = c[l.cmd] /\ l.cmd # "connect" /\ l.cmd # "exclude"
    BY <1>1, <1>5, <1>8, AlikeFields DEF Kept
  <2>2. v = c[l.cmd]
    BY <2>1, <1>8 DEF NewValue, Monitored
  <2> QED BY <1>1, <1>3, <1>4, <1>6, <1>8, <2>2
<1>9. CASE l.cmd = "exclude"
  <2>1. v = Append(c.exclude, l.arg) /\ l.arg \in Range(c.exclude)
    BY <1>1, <1>5, <1>9 DEF NewValue, Excluded, Alike, Kept
  <2>2. c.exclude \in Seq(Suffix) /\ l.arg \in Suffix
    BY <1>1, <2>1, ConfigTyped, ListFinite
  <2>3. Range(v) = Range(c.exclude)
    <3>1. Range(Append(c.exclude, l.arg)) = Range(c.exclude) \cup {l.arg}
      BY <2>2, AppendFacts
    <3> HIDE DEF v
    <3> QED BY <2>1, <3>1
  <2>4. Changed(l) = [c EXCEPT !.exclude = v]
    BY <1>9 DEF Changed
  <2>5. Alike(Changed(l), d)
    <3>1. Changed(l).exclude = v /\ [Changed(l) EXCEPT !.exclude = <<>>] = [c EXCEPT !.exclude = <<>>]
      <4> HIDE DEF v
      <4> QED BY <1>1, <2>4 DEF Config
    <3> QED BY <1>1, <2>3, <3>1 DEF Alike
  <2> QED BY <1>1, <1>3, <1>4, <2>5
<1> QED BY <1>5, <1>7, <1>8, <1>9

LEMMA StepFileIsSaved == TypeOK /\ FileIsSaved /\ [Next]_vars => FileIsSaved'
<1> SUFFICES ASSUME TypeOK, FileIsSaved, [Next]_vars PROVE FileIsSaved'
  OBVIOUS
<1>1. CASE Write
  BY <1>1 DEF Write, FileIsSaved
<1>2. CASE StopInWrite
  BY <1>2 DEF StopInWrite, FileIsSaved
<1>3. CASE UNCHANGED <<file, saved, torn>>
  BY <1>3 DEF FileIsSaved
<1>4. Next /\ ~ Write /\ ~ StopInWrite => UNCHANGED <<file, saved, torn>>
  BY DEF Next, TypeTamper, NoTamper, UnsetSize, Unset, TypeSet, Edits, StartThread, Exceeded,
         Stop, Restart, Load, LoadLine, LineRefused, history
<1>5. UNCHANGED vars => UNCHANGED <<file, saved, torn>>
  BY DEF vars, history
<1> QED BY <1>1, <1>2, <1>3, <1>4, <1>5

LEMMA StepAgain == TypeOK /\ FileIsSaved /\ Again /\ [Next]_vars => Again'
<1> SUFFICES ASSUME TypeOK, FileIsSaved, Again, [Next]_vars, mark' = "again" PROVE Again'
  BY DEF Again
<1>1. CASE Load
  <2>1. saved = Now /\ ~torn
    BY <1>1 DEF Load
  <2>2. todo' \in Seq(Described(saved))
    BY <1>1, <2>1, DescribedBy DEF Load, FileIsSaved, TypeOK
  <2>3. /\ servers = saved.servers
        /\ \A n \in Listed : Alike(cfg[n], saved.cfg[n])
    BY <2>1 DEF Now, Alike
  <2> QED BY <1>1, <2>2, <2>3 DEF Load, state, Again, Listed
<1>2. CASE LoadLine
  <2> DEFINE l == Head(todo)
  <2>1. mark = "again" /\ saved' = saved
    BY <1>2 DEF LoadLine, history
  <2>2. l \in Described(saved) /\ todo' \in Seq(Described(saved))
    BY <1>2, <2>1, HeadTailProperties DEF LoadLine, Again
  <2>3. Accept(l)
    BY <1>2 DEF LoadLine
  <2> HIDE DEF l
  <2>4. l.name \in Listed
    BY <2>1, <2>2, LineOfSaved, SavedTyped DEF Again, Listed
  <2>5. CASE Tamper(l)
    BY <2>4, <2>5 DEF Tamper, IsNew
  <2>6. CASE Set(l)
    <3>1. \A n \in Listed : Alike(cfg'[n], saved.cfg[n])
      BY <2>1, <2>2, <2>6, SetAgain DEF Again
    <3> QED BY <2>1, <2>2, <2>6, <3>1 DEF Set, Again, Listed
  <2>7. CASE WithoutEffect(l)
    BY <2>1, <2>2, <2>7 DEF WithoutEffect, state, Again, Listed
  <2> QED BY <2>3, <2>5, <2>6, <2>7 DEF Accept
<1>3. CASE LineRefused
  <2>1. mark = "again" /\ saved' = saved
    BY <1>3 DEF LineRefused, history
  <2>2. todo' \in Seq(Described(saved))
    <3>1. Tail(todo) \in Seq(Described(saved)) /\ <<>> \in Seq(Described(saved))
      BY <1>3, <2>1, HeadTailProperties, EmptySeq DEF LineRefused, Again
    <3> QED BY <1>3, <3>1 DEF LineRefused
  <2> QED BY <1>3, <2>1, <2>2 DEF LineRefused, state, Again, Listed
<1>4. CASE UNCHANGED <<state, todo, history>>
  BY <1>4 DEF state, history, Again, Listed
<1>5. (\E n \in Name : StartThread(n)) \/ UNCHANGED vars => UNCHANGED <<state, todo, history>>
  BY DEF StartThread, vars
<1>6. Next => (\E n \in Name : StartThread(n)) \/ Load \/ LoadLine \/ LineRefused
  BY DEF Next, TypeTamper, NoTamper, UnsetSize, Unset, TypeSet, Edits, Exceeded, Write,
         Stop, StopInWrite, Restart
<1> QED BY <1>1, <1>2, <1>3, <1>4, <1>5, <1>6

LEMMA InitFileIsSaved == Init => FileIsSaved
<1> SUFFICES ASSUME Init PROVE Everything(saved) = <<>>
  BY DEF Init, FileIsSaved
<1>1. saved.servers = <<>> /\ Len(<<>>) = 0
  BY EmptySeq DEF Init, Now
<1>2. saved \in Configuration
  BY InitTypeOK DEF TypeOK
<1>3. \E h : Everything(saved) = h[Len(saved.servers)] /\ Saving(h, saved)
  <2>1. \A n \in Range(saved.servers) : ServerLines(n, saved.cfg[n]) \subseteq Described(saved)
    BY DEF Described
  <2> QED BY <1>2, <2>1, EverythingIn
<1> QED BY <1>1, <1>3 DEF Saving

(* "load" of what is in force changes no setting and no server, whatever   *)
(* lines it has and however often it is stopped by one that is refused; an *)
(* excluded suffix may be listed once more.                                *)
THEOREM LoadingKeeps == Spec => []LoadKeeps
<1>1. Init => TypeOK /\ FileIsSaved /\ Again
  BY InitTypeOK, InitFileIsSaved DEF Init, Again
<1>2. TypeOK /\ FileIsSaved /\ Again /\ [Next]_vars => (TypeOK /\ FileIsSaved /\ Again)'
  BY NextTypeOK, StepFileIsSaved, StepAgain
<1>3. Again => LoadKeeps
  BY DEF Again, LoadKeeps, Alike
<1> QED BY <1>1, <1>2, <1>3, PTL DEF Spec
-----------------------------------------------------------------------------
(* Executing the lines of a file one after the other, when none of them is *)
(* refused.  A state of that is what the commands change, but for          *)
(* "monitor", which is up to the threads.                                  *)

Masked(c) == [c EXCEPT !.monitor = TRUE]

View == [servers |-> servers, cfg |-> [n \in Name |-> Masked(cfg[n])], left |-> left_disksize]

(* What the settings c of a server are after the line l of that server. *)
Result(c, l) ==
  IF l.cmd = "monitor" THEN c
  ELSE IF l.cmd = "exclude" THEN [c EXCEPT !.exclude = Append(c.exclude, l.arg)]
  ELSE [c EXCEPT ![l.cmd] = l.arg]

(* Is setting s accepted with the value v, where c is what the server has  *)
(* and m what is left?                                                     *)
Granted(c, m, s, v) ==
  /\ s = "connect" => v = "sftp"
  /\ s = "root_folder" => v <= c.other_folder
  /\ s = "other_folder" => c.root_folder <= v
  /\ s = "disk_size" => v <= m + c.disk_size

TakesTamper(x, l, y) ==
  /\ l.cmd = "tamper" /\ l.name \notin Range(x.servers) /\ Default <= x.left
  /\ y = [servers |-> Append(x.servers, l.name),
          cfg |-> [x.cfg EXCEPT ![l.name] = Defaults], left |-> x.left - Default]

TakesSet(x, l, y) ==
  /\ l.cmd # "tamper" /\ l.name \in Range(x.servers)
  /\ Granted(x.cfg[l.name], x.left, l.cmd, l.arg)
  /\ y = [servers |-> x.servers,
          cfg |-> [x.cfg EXCEPT ![l.name] = Result(x.cfg[l.name], l)],
          left |-> IF l.cmd = "disk_size" THEN x.left + x.cfg[l.name].disk_size - l.arg ELSE x.left]

Takes(x, l, y) == TakesTamper(x, l, y) \/ TakesSet(x, l, y)

(* The lines s lead from the state x to the state y, each being accepted. *)
Replays(x, s, y) ==
  \E h : h[0] = x /\ h[Len(s)] = y /\ \A k \in 1..Len(s) : Takes(h[k - 1], s[k], h[k])

LEMMA ReplayNothing ==
  ASSUME NEW x, NEW y
  PROVE  Replays(x, <<>>, y) <=> x = y
<1>1. Len(<<>>) = 0
  BY EmptySeq
<1>2. Replays(x, <<>>, x)
  <2> DEFINE h == [k \in 0..0 |-> x]
  <2>1. h[0] = x
    OBVIOUS
  <2> HIDE DEF h
  <2> QED BY <1>1, <2>1 DEF Replays
<1>3. Replays(x, <<>>, y) => x = y
  BY <1>1 DEF Replays
<1> QED BY <1>2, <1>3

LEMMA ReplayLine ==
  ASSUME NEW x, NEW y, NEW l, Takes(x, l, y)
  PROVE  Replays(x, <<l>>, y)
<1> DEFINE h == [k \in 0..1 |-> IF k = 0 THEN x ELSE y]
<1>1. h[0] = x /\ h[1] = y /\ Len(<<l>>) = 1 /\ <<l>>[1] = l
  OBVIOUS
<1> HIDE DEF h
<1>2. \A k \in 1..1 : k = 1 /\ k - 1 = 0
  OBVIOUS
<1>3. \A k \in 1..Len(<<l>>) : Takes(h[k - 1], <<l>>[k], h[k])
  BY <1>1, <1>2
<1> QED BY <1>1, <1>3 DEF Replays

LEMMA ReplayBoth ==
  ASSUME NEW D, NEW s \in Seq(D), NEW t \in Seq(D), NEW x, NEW y, NEW z,
         Replays(x, s, y), Replays(y, t, z)
  PROVE  Replays(x, s \o t, z)
<1> DEFINE n == Len(s)
           m == Len(t)
           c == s \o t
<1>1. n \in Nat /\ m \in Nat
  BY LenProperties
<1>2. PICK g : g[0] = x /\ g[n] = y /\ \A k \in 1..n : Takes(g[k - 1], s[k], g[k])
  BY DEF Replays
<1>3. PICK h : h[0] = y /\ h[m] = z /\ \A k \in 1..m : Takes(h[k - 1], t[k], h[k])
  BY DEF Replays
<1> DEFINE f == [k \in 0..(n + m) |-> IF k <= n THEN g[k] ELSE h[k - n]]
<1>4. Len(c) = n + m /\ \A i \in 1..(n + m) : c[i] = IF i <= n THEN s[i] ELSE t[i - n]
  BY ConcatProperties
<1>5. \A k \in 0..(n + m) : f[k] = IF k <= n THEN g[k] ELSE h[k - n]
  OBVIOUS
<1> HIDE DEF f, c, n, m
<1>6. f[0] = x
  <2>1. 0 \in 0..(n + m) /\ 0 <= n
    BY <1>1
  <2> QED BY <1>2, <1>5, <2>1
<1>7. f[n + m] = z
  <2>1. n + m \in 0..(n + m) /\ (n + m <= n <=> m = 0) /\ n + m - n = m
    BY <1>1
  <2>2. CASE m = 0
    <3>1. n + m = n
      BY <1>1, <2>2
    <3> QED BY <1>2, <1>3, <1>5, <2>1, <2>2, <3>1
  <2>3. CASE m # 0
    <3> DEFINE k == n + m
    <3>1. k \in 0..(n + m) /\ ~ (k <= n) /\ k - n = m
      BY <1>1, <2>1, <2>3
    <3> HIDE DEF k
    <3>2. f[k] = h[k - n]
      BY <1>5, <3>1
    <3> QED BY <1>3, <3>1, <3>2 DEF k
  <2> QED BY <2>2, <2>3
<1>8. ASSUME NEW k \in 1..(n + m) PROVE Takes(f[k - 1], c[k], f[k])
  <2>1. k \in 0..(n + m) /\ k - 1 \in 0..(n + m)
    BY <1>1
  <2>2. CASE k <= n
    <3>1. k - 1 <= n /\ k \in 1..n
      BY <1>1, <2>2
    <3> QED BY <1>2, <1>4, <1>5, <2>1, <2>2, <3>1
  <2>3. CASE ~ (k <= n)
    <3> DEFINE i == k - n
    <3>1. i \in 1..m /\ k - 1 - n = i - 1
      BY <1>1, <2>3
    <3>2. f[k] = h[i] /\ c[k] = t[i]
      BY <1>4, <1>5, <2>1, <2>3
    <3>3. f[k - 1] = h[i - 1]
      <4>1. CASE k - 1 <= n
        <5>1. k - 1 = n /\ i - 1 = 0
          BY <1>1, <2>3, <4>1
        <5> QED BY <1>2, <1>3, <1>5, <2>1, <4>1, <5>1
      <4>2. CASE ~ (k - 1 <= n)
        BY <1>5, <2>1, <3>1, <4>2
      <4> QED BY <4>1, <4>2
    <3> HIDE DEF i
    <3> QED BY <1>3, <3>1, <3>2, <3>3
  <2> QED BY <2>2, <2>3
<1>9. f[Len(c)] = z /\ \A k \in 1..Len(c) : Takes(f[k - 1], c[k], f[k])
  BY <1>4, <1>7, <1>8
<1> QED BY <1>6, <1>9 DEF Replays, c

LEMMA ReplayFirst ==
  ASSUME NEW D, NEW s \in Seq(D), s # <<>>, NEW x, NEW z, Replays(x, s, z)
  PROVE  \E y : Takes(x, Head(s), y) /\ Replays(y, Tail(s), z)
<1> DEFINE n == Len(s)
           t == Tail(s)
<1>1. n \in Nat \ {0} /\ Head(s) = s[1] /\ Len(t) = n - 1 /\ \A i \in 1..Len(t) : t[i] = s[i + 1]
  BY EmptySeq, HeadTailProperties
<1>2. PICK h : h[0] = x /\ h[n] = z /\ \A k \in 1..n : Takes(h[k - 1], s[k], h[k])
  BY DEF Replays
<1> DEFINE f == [k \in 0..(n - 1) |-> h[k + 1]]
<1> HIDE DEF n, t
<1>3. Takes(x, Head(s), h[1])
  <2>1. 1 \in 1..n /\ 1 - 1 = 0
    BY <1>1
  <2> QED BY <1>1, <1>2, <2>1
<1>4. f[0] = h[1] /\ f[n - 1] = z
  <2>1. 0 \in 0..(n - 1) /\ n - 1 \in 0..(n - 1) /\ 0 + 1 = 1 /\ n - 1 + 1 = n
    BY <1>1
  <2> QED BY <1>2, <2>1
<1>5. ASSUME NEW k \in 1..(n - 1) PROVE Takes(f[k - 1], t[k], f[k])
  <2>1. k \in 0..(n - 1) /\ k - 1 \in 0..(n - 1) /\ k - 1 + 1 = k /\ k + 1 \in 1..n /\ k + 1 - 1 = k
    BY <1>1
  <2>2. f[k - 1] = h[k] /\ f[k] = h[k + 1] /\ t[k] = s[k + 1]
    BY <1>1, <2>1
  <2>3. Takes(h[k + 1 - 1], s[k + 1], h[k + 1])
    BY <1>2, <2>1
  <2> QED BY <2>1, <2>2, <2>3
<1> HIDE DEF f
<1>6. Replays(h[1], t, z)
  BY <1>1, <1>4, <1>5 DEF Replays
<1> QED BY <1>3, <1>6 DEF t

(* A line that is taken is not refused, and what it does is what is shown. *)
(* The provers see an EXCEPT under a quantifier by its name, With, only.   *)
With(c, a, v) == [c EXCEPT ![a] = v]

WithIn(X, c) ==
  /\ \A a \in X : With(c, a, c[a]) = c
  /\ \A a \in X : \A v : With(c, a, v)[a] = v
  /\ \A a \in X : \A v : \A b \in X \ {a} : With(c, a, v)[b] = c[b]
  /\ \A a \in X : \A v, w : With(With(c, a, v), a, w) = With(c, a, w)
  /\ \A a \in X : \A v, w : \A b \in X \ {a} : With(With(c, a, v), b, w) = With(With(c, b, w), a, v)

LEMMA WithFacts ==
  ASSUME NEW X, NEW Y, NEW c \in [X -> Y]
  PROVE  WithIn(X, c)
BY DEF With, WithIn

LEMMA ConfigFunction ==
  ASSUME NEW c \in Config
  PROVE  c \in [DOMAIN Settings -> {c[s] : s \in DOMAIN Settings}]
<1> DEFINE S == Seq(Suffix)
<1>1. c \in [connect : {"none", "sftp", "ftp"}, document_root : {"none", "default", "given"},
              depth : {"default", "given"}, file_size : {"default", "given"},
              root_folder : Seconds, other_folder : Seconds, exclude : S,
              restore_mode : BOOLEAN, monitor : BOOLEAN, disk_size : Sizes]
  BY DEF Config
<1>2. DOMAIN Settings = {"connect", "document_root", "depth", "file_size", "root_folder",
                         "other_folder", "exclude", "restore_mode", "monitor", "disk_size"}
  BY DEF Settings
<1> HIDE DEF S
<1> QED BY <1>1, <1>2

LEMMA ConfigWith ==
  ASSUME NEW c \in Config
  PROVE  WithIn(DOMAIN Settings, c)
<1> DEFINE X == DOMAIN Settings
           Y == {c[s] : s \in X}
<1>1. c \in [X -> Y]
  BY ConfigFunction
<1> HIDE DEF X, Y
<1>2. WithIn(X, c)
  BY <1>1, WithFacts
<1> QED BY <1>2 DEF X

LEMMA MaskedFields ==
  ASSUME NEW c \in Config
  PROVE  /\ Masked(c) \in Config /\ Masked(c).exclude = c.exclude /\ Masked(c).monitor = TRUE
         /\ \A s \in DOMAIN Settings \ {"monitor"} : Masked(c)[s] = c[s]
<1>1. "monitor" \in DOMAIN Settings /\ "exclude" \in DOMAIN Settings \ {"monitor"}
  BY DEF Settings
<1>2. Updates(c)
  BY ConfigUpdates
<1>3. Masked(c) \in Config
  BY <1>2 DEF Updates, SameSize, Masked
<1>4. Masked(c)["monitor"] = TRUE /\ \A s \in DOMAIN Settings \ {"monitor"} : Masked(c)[s] = c[s]
  <2>1. Masked(c) = With(c, "monitor", TRUE)
    BY DEF Masked, With
  <2>2. WithIn(DOMAIN Settings, c)
    BY ConfigWith
  <2>3. \A v : /\ With(c, "monitor", v)["monitor"] = v
               /\ \A s \in DOMAIN Settings \ {"monitor"} : With(c, "monitor", v)[s] = c[s]
    BY <1>1, <2>2 DEF WithIn
  <2> QED BY <2>1, <2>3, Zenon
<1> QED BY <1>1, <1>3, <1>4

LEMMA ViewFacts ==
  ASSUME TypeOK, NEW n \in Name
  PROVE  /\ Range(View.servers) = Listed /\ View.left = left_disksize
         /\ View.cfg[n] = Masked(cfg[n]) /\ cfg[n] \in Config
BY StateTyped DEF View, Listed

LEMMA TakenIsNotRefused ==
  ASSUME TypeOK, NEW l, Understood(l), NEW y, Takes(View, l, y)
  PROVE  ~ Refused(l)
<1> DEFINE n == l.name
<1>0. n \in Name
  BY DEF Understood
<1>1. CASE TakesTamper(View, l, y)
  <2>1. l.cmd = "tamper" /\ n \notin Listed /\ Default <= left_disksize
    BY <1>0, <1>1, ViewFacts DEF TakesTamper
  <2>2. left_disksize \in Int /\ Default \in Int
    BY ServerConfigAssumption DEF TypeOK
  <2> QED BY <2>1, <2>2 DEF Refused, NoRoom
<1>2. CASE TakesSet(View, l, y)
  <2>1. /\ l.cmd # "tamper" /\ n \in Listed
        /\ Granted(Masked(cfg[n]), left_disksize, l.cmd, l.arg)
    BY <1>0, <1>2, ViewFacts DEF TakesSet
  <2>2. /\ Masked(cfg[n]).other_folder = cfg[n].other_folder
        /\ Masked(cfg[n]).root_folder = cfg[n].root_folder
        /\ Masked(cfg[n]).disk_size = cfg[n].disk_size
        /\ cfg[n].other_folder \in Nat /\ cfg[n].root_folder \in Nat /\ cfg[n].disk_size \in Nat
    <3> DEFINE c == cfg[n]
    <3>1. c \in Config
      BY <1>0, ViewFacts
    <3> HIDE DEF c
    <3>2. {"other_folder", "root_folder", "disk_size"} \subseteq DOMAIN Settings \ {"monitor"}
      BY DEF Settings
    <3>3. c.other_folder \in Nat /\ c.root_folder \in Nat /\ c.disk_size \in Nat
      BY <3>1, ConfigTyped, ServerConfigAssumption
    <3>4. /\ Masked(c).other_folder = c.other_folder /\ Masked(c).root_folder = c.root_folder
          /\ Masked(c).disk_size = c.disk_size
      BY <3>1, <3>2, MaskedFields
    <3> QED BY <3>3, <3>4 DEF c
  <2>3. l.cmd \in {"root_folder", "other_folder", "disk_size"} => l.arg \in Nat
    BY <2>1, ServerConfigAssumption DEF Understood, Settings
  <2>4. left_disksize \in Int
    BY DEF TypeOK
  <2>5. ~ RootTooLong(l)
    BY <2>1, <2>2, <2>3 DEF Granted, RootTooLong
  <2>6. ~ OtherTooShort(l)
    BY <2>1, <2>2, <2>3 DEF Granted, OtherTooShort
  <2>7. ~ TooLarge(l)
    BY <2>1, <2>2, <2>3, <2>4 DEF Granted, TooLarge
  <2> QED BY <2>1, <2>5, <2>6, <2>7 DEF Refused, NoRoom, Granted
<1> QED BY <1>1, <1>2 DEF Takes

LEMMA MaskedResult ==
  ASSUME TypeOK, NEW l, Understood(l), l.name \in Listed, l.cmd # "tamper",
         l.cmd = "connect" => l.arg = "sftp"
  PROVE  Masked(Changed(l)) = Result(Masked(cfg[l.name]), l)
<1> DEFINE c == cfg[l.name]
           v == NewValue(l)
<1>1. c \in Config /\ l.cmd \in DOMAIN Settings /\ {"monitor", "exclude"} \subseteq DOMAIN Settings
  BY StateTyped DEF Understood, Settings
<1>2. Changed(l) = [c EXCEPT ![l.cmd] = v]
  BY DEF Changed
<1>6. WithIn(DOMAIN Settings, c)
  BY <1>1, ConfigWith
<1>3. CASE l.cmd = "monitor"
  <2>1. Changed(l) = [c EXCEPT !.monitor = v]
    BY <1>2, <1>3
  <2>2. Result(Masked(c), l) = Masked(c)
    BY <1>3 DEF Result
  <2>3. Masked(Changed(l)) = With(With(c, "monitor", v), "monitor", TRUE)
    BY <2>1 DEF Masked, With
  <2>4. Masked(c) = With(c, "monitor", TRUE)
    BY DEF Masked, With
  <2> HIDE DEF c, v
  <2>5. \A u, w : With(With(c, "monitor", u), "monitor", w) = With(c, "monitor", w)
    BY <1>1, <1>6 DEF WithIn
  <2>6. With(With(c, "monitor", v), "monitor", TRUE) = With(c, "monitor", TRUE)
    BY <2>5, Zenon
  <2> QED BY <2>2, <2>3, <2>4, <2>6 DEF c
<1>4. CASE l.cmd = "exclude"
  <2>1. v = Append(c.exclude, l.arg) /\ Changed(l) = [c EXCEPT !.exclude = v]
    BY <1>2, <1>4 DEF NewValue, Excluded
  <2> HIDE DEF c, v
  <2>2. Masked(c).exclude = c.exclude
    BY <1>1, MaskedFields
  <2>3. Result(Masked(c), l) = [Masked(c) EXCEPT !.exclude = v]
    BY <1>4, <2>1, <2>2 DEF Result
  <2>4. Masked(Changed(l)) = With(With(c, "exclude", v), "monitor", TRUE)
    BY <2>1 DEF Masked, With
  <2>5. Result(Masked(c), l) = With(With(c, "monitor", TRUE), "exclude", v)
    BY <2>3 DEF Masked, With
  <2>6. \A u, w : With(With(c, "exclude", u), "monitor", w) = With(With(c, "monitor", w), "exclude", u)
    BY <1>1, <1>6 DEF WithIn
  <2>7. With(With(c, "exclude", v), "monitor", TRUE) = With(With(c, "monitor", TRUE), "exclude", v)
    BY <2>6, Zenon
  <2> QED BY <2>4, <2>5, <2>7 DEF c
<1>5. CASE l.cmd \notin {"monitor", "exclude"}
  <2>1. v = l.arg
    BY <1>5 DEF NewValue, Connected
  <2>2. Result(Masked(c), l) = [Masked(c) EXCEPT ![l.cmd] = l.arg]
    BY <1>5 DEF Result
  <2> HIDE DEF c, v
  <2>3. Masked(Changed(l)) = With(With(c, l.cmd, v), "monitor", TRUE)
    BY <1>2 DEF Masked, With
  <2>4. Result(Masked(c), l) = With(With(c, "monitor", TRUE), l.cmd, v)
    BY <2>1, <2>2 DEF Masked, With
  <2>5. \A u, w : With(With(c, l.cmd, u), "monitor", w) = With(With(c, "monitor", w), l.cmd, u)
    BY <1>1, <1>5, <1>6 DEF WithIn
  <2>6. With(With(c, l.cmd, v), "monitor", TRUE) = With(With(c, "monitor", TRUE), l.cmd, v)
    BY <2>5, Zenon
  <2> QED BY <2>3, <2>4, <2>6 DEF c
<1> QED BY <1>3, <1>4, <1>5

LEMMA MaskedDefaults == Masked(Defaults) = Defaults
<1>1. Defaults["monitor"] = TRUE /\ "monitor" \in DOMAIN Settings
  BY DEF Defaults, Settings
<1>2. Masked(Defaults) = With(Defaults, "monitor", Defaults["monitor"])
  BY <1>1 DEF Masked, With
<1> QED BY <1>1, <1>2, DefaultsTyped, ConfigWith DEF WithIn

LEMMA TakenShows ==
  ASSUME TypeOK, NEW l, Understood(l), NEW y, Takes(View, l, y), Accept(l)
  PROVE  View' = y
<1> DEFINE n == l.name
<1>0. n \in Name /\ cfg \in [Name -> Config]
  BY StateTyped DEF Understood
<1>1. CASE TakesTamper(View, l, y)
  <2>1. l.cmd = "tamper" /\ n \notin Listed
    BY <1>0, <1>1, ViewFacts DEF TakesTamper
  <2>2. Tamper(l)
    BY <2>1 DEF Accept, Set, WithoutEffect, IsNew
  <2>3. /\ servers' = Append(servers, n) /\ cfg' = [cfg EXCEPT ![n] = Defaults]
        /\ left_disksize' = left_disksize - Default
    BY <2>2 DEF Tamper
  <2>4. Masked(Defaults) = Defaults
    BY MaskedDefaults
  <2>5. [m \in Name |-> Masked(cfg'[m])] = [[m \in Name |-> Masked(cfg[m])] EXCEPT ![n] = Defaults]
    <3>1. \A m \in Name : Masked(cfg'[m]) = IF m = n THEN Defaults ELSE Masked(cfg[m])
      BY <1>0, <2>3, <2>4
    <3> QED BY <3>1
  <2> QED BY <1>1, <2>3, <2>5 DEF TakesTamper, View
<1>2. CASE TakesSet(View, l, y)
  <2>1. l.cmd # "tamper" /\ n \in Listed /\ Granted(View.cfg[n], left_disksize, l.cmd, l.arg)
    BY <1>0, <1>2, ViewFacts DEF TakesSet
  <2>2. Set(l)
    BY <2>1 DEF Accept, Tamper, WithoutEffect
  <2>3. cfg' = [cfg EXCEPT ![n] = Changed(l)] /\ servers' = servers
    BY <2>2, SetChanges DEF Set
  <2>4. Masked(Changed(l)) = Result(Masked(cfg[n]), l)
    BY <2>1, MaskedResult DEF Granted
  <2>5. Masked(cfg[n]).disk_size = cfg[n].disk_size
    BY <1>0, MaskedFields DEF Settings
  <2>6. [m \in Name |-> Masked(cfg'[m])]
          = [[m \in Name |-> Masked(cfg[m])] EXCEPT ![n] = Result(Masked(cfg[n]), l)]
    <3>1. \A m \in Name : Masked(cfg'[m]) = IF m = n THEN Result(Masked(cfg[n]), l) ELSE Masked(cfg[m])
      BY <1>0, <2>3, <2>4
    <3> QED BY <3>1
  <2>7. left_disksize' = IF l.cmd = "disk_size" THEN left_disksize + Masked(cfg[n]).disk_size - l.arg
                         ELSE left_disksize
    BY <2>2, <2>5 DEF Set
  <2>8. View.cfg[n] = Masked(cfg[n]) /\ View.left = left_disksize /\ View.servers = servers
        /\ View.cfg = [m \in Name |-> Masked(cfg[m])]
    BY <1>0, ViewFacts DEF View
  <2>9. View' = [servers |-> servers', cfg |-> [m \in Name |-> Masked(cfg'[m])], left |-> left_disksize']
    BY DEF View
  <2> QED BY <1>2, <2>3, <2>6, <2>7, <2>8, <2>9 DEF TakesSet
<1> QED BY <1>1, <1>2 DEF Takes

-----------------------------------------------------------------------------
(* A saved configuration that can be loaded comes back: the lines of each  *)
(* server, executed where the servers before it have come back, bring back *)
(* that server, setting after setting.                                     *)

(* A server that is given the settings of c one after the other, when it   *)
(* has got those in S; and the state it is in, where q are the servers, f  *)
(* is what was before its first line, and m is left.                       *)
Stage(c, S) == [s \in DOMAIN Settings |-> IF s \in S THEN c[s] ELSE Defaults[s]]

At(q, f, n, c, m) == [servers |-> q, cfg |-> With(f, n, c), left |-> m]

(* What is left after setting s is taken over from c by a server with d. *)
Left(m, s, c, d) == IF s = "disk_size" THEN m + d.disk_size - c.disk_size ELSE m

LEMMA SetTakes ==
  ASSUME NEW q, NEW f, NEW n \in Range(q), WithIn({n}, f), NEW c, NEW m, NEW s, NEW v,
         s # "tamper", Granted(c, m, s, v)
  PROVE  Takes(At(q, f, n, c, m), Line(s, n, v),
               At(q, f, n, Result(c, Line(s, n, v)),
                  IF s = "disk_size" THEN m + c.disk_size - v ELSE m))
<1> DEFINE l == Line(s, n, v)
           x == At(q, f, n, c, m)
           d == Result(c, l)
<1>1. l.cmd = s /\ l.name = n /\ l.arg = v
  BY DEF Line
<1>2. x.servers = q /\ x.cfg = With(f, n, c) /\ x.left = m
  BY DEF At
<1>3. x.cfg[n] = c
  BY <1>2 DEF WithIn
<1>4. [x.cfg EXCEPT ![n] = d] = With(f, n, d)
  <2> HIDE DEF x, d
  <2>1. [x.cfg EXCEPT ![n] = d] = With(With(f, n, c), n, d)
    BY <1>2 DEF With
  <2>2. \A u, w : With(With(f, n, u), n, w) = With(f, n, w)
    BY DEF WithIn
  <2> QED BY <2>1, <2>2
<1> HIDE DEF l, x
<1>5. TakesSet(x, l, At(q, f, n, d, IF s = "disk_size" THEN m + c.disk_size - v ELSE m))
  <2> HIDE DEF d
  <2> QED BY <1>1, <1>2, <1>3, <1>4 DEF TakesSet, At, d
<1> QED BY <1>5 DEF Takes, l, x

LEMMA StageNext ==
  ASSUME NEW c, NEW S, NEW s \in DOMAIN Settings
  PROVE  With(Stage(c, S), s, c[s]) = Stage(c, S \cup {s})
BY DEF With, Stage

LEMMA ResultStage ==
  ASSUME NEW c, NEW S, NEW s \in DOMAIN Settings \ {"exclude", "monitor"}, NEW n
  PROVE  Result(Stage(c, S), Line(s, n, c[s])) = Stage(c, S \cup {s})
<1>1. Line(s, n, c[s]).cmd = s /\ Line(s, n, c[s]).arg = c[s]
  BY DEF Line
<1>2. Result(Stage(c, S), Line(s, n, c[s])) = With(Stage(c, S), s, c[s])
  BY <1>1 DEF Result, With
<1> QED BY <1>2, StageNext

LEMMA UnlessReplays ==
  ASSUME NEW q, NEW f, NEW n \in Range(q), WithIn({n}, f), NEW c, NEW m \in Int, NEW S,
         NEW s \in DOMAIN Settings \ {"exclude", "monitor"}, NEW u,
         s # "disk_size" \/ (s \notin S /\ c[s] \in Nat),
         c[s] = u => Defaults[s] = u,
         c[s] # u => Granted(Stage(c, S), m, s, c[s])
  PROVE  Replays(At(q, f, n, Stage(c, S), m), Unless(u, Line(s, n, c[s])),
                 At(q, f, n, Stage(c, S \cup {s}), Left(m, s, c, Defaults)))
<1> DEFINE l == Line(s, n, c[s])
<1>1. l.arg = c[s]
  BY DEF Line
<1>2. CASE c[s] = u
  <2>1. Stage(c, S \cup {s}) = Stage(c, S)
    BY <1>2 DEF Stage
  <2>2. Left(m, s, c, Defaults) = m
    <3>1. CASE s = "disk_size"
      <4>1. c.disk_size = Defaults.disk_size /\ c.disk_size \in Nat
        BY <1>2, <3>1
      <4> QED BY <3>1, <4>1 DEF Left
    <3>2. CASE s # "disk_size"
      BY <3>2 DEF Left
    <3> QED BY <3>1, <3>2
  <2>3. Unless(u, l) = <<>>
    BY <1>1, <1>2 DEF Unless
  <2> HIDE DEF l
  <2> QED BY <2>1, <2>2, <2>3, ReplayNothing DEF l
<1>3. CASE c[s] # u
  <2>1. s # "tamper"
    BY DEF Settings
  <2>2. Takes(At(q, f, n, Stage(c, S), m), l,
              At(q, f, n, Result(Stage(c, S), l),
                 IF s = "disk_size" THEN m + Stage(c, S).disk_size - c[s] ELSE m))
    BY <1>3, <2>1, SetTakes
  <2>3. Result(Stage(c, S), l) = Stage(c, S \cup {s})
    BY ResultStage
  <2>4. (IF s = "disk_size" THEN m + Stage(c, S).disk_size - c[s] ELSE m) = Left(m, s, c, Defaults)
    BY DEF Left, Stage, Settings
  <2>5. Takes(At(q, f, n, Stage(c, S), m), l,
              At(q, f, n, Stage(c, S \cup {s}), Left(m, s, c, Defaults)))
    BY <2>2, <2>3, <2>4
  <2>6. Unless(u, l) = <<l>>
    BY <1>1, <1>3 DEF Unless
  <2> HIDE DEF l
  <2>7. Replays(At(q, f, n, Stage(c, S), m), <<l>>,
                At(q, f, n, Stage(c, S \cup {s}), Left(m, s, c, Defaults)))
    BY <2>5, ReplayLine
  <2> QED BY <2>6, <2>7 DEF l
<1> QED BY <1>2, <1>3

LEMMA StageWith ==
  ASSUME NEW c, NEW S
  PROVE  WithIn(DOMAIN Settings, Stage(c, S))
<1> DEFINE X == DOMAIN Settings
           d == Stage(c, S)
           Y == {d[s] : s \in X}
<1>1. d \in [X -> Y]
  BY DEF Stage
<1> HIDE DEF X, Y, d
<1>2. WithIn(X, d)
  BY <1>1, WithFacts
<1> QED BY <1>2 DEF X, d

LEMMA SubSeqNext ==
  ASSUME NEW X, NEW e \in Seq(X), NEW k \in 1..Len(e)
  PROVE  /\ SubSeq(e, 1, k) = Append(SubSeq(e, 1, k - 1), e[k])
         /\ SubSeq(e, 1, k - 1) \in Seq(X)
         /\ Range(SubSeq(e, 1, k - 1)) = {e[i] : i \in 1..(k - 1)}
<1> DEFINE t == SubSeq(e, 1, k - 1)
<1>1. Len(e) \in Nat /\ 1 \in 1..Len(e) /\ k \in 1..Len(e) /\ e[k] \in X
  BY LenProperties, ElementOfSeq
<1>2. SubSeq(e, 1, k) = t \o <<e[k]>>
  BY <1>1, SubSeqRecursiveSecond
<1>3. \A i \in 1..(k - 1) : e[i] \in X
  BY <1>1, ElementOfSeq
<1>4. /\ t \in Seq(X) /\ Len(t) = k - 1 /\ \A i \in 1..(k - 1) : t[i] = e[i]
  <2>1. /\ t \in Seq(X) /\ Len(t) = IF 1 <= k - 1 THEN k - 1 - 1 + 1 ELSE 0
        /\ \A i \in 1..(k - 1 - 1 + 1) : t[i] = e[1 + i - 1]
    BY <1>1, <1>3, SubSeqProperties
  <2>2. k - 1 - 1 + 1 = k - 1 /\ (IF 1 <= k - 1 THEN k - 1 - 1 + 1 ELSE 0) = k - 1
        /\ \A i \in 1..(k - 1) : 1 + i - 1 = i
    BY <1>1
  <2> HIDE DEF t
  <2> QED BY <2>1, <2>2
<1> HIDE DEF t
<1>5. DOMAIN t = 1..(k - 1)
  BY <1>4, LenProperties
<1>6. Range(t) = {e[i] : i \in 1..(k - 1)}
  BY <1>4, <1>5 DEF Range
<1> QED BY <1>1, <1>2, <1>4, <1>6, AppendIsConcat DEF t

LEMMA ExcludeReplays ==
  ASSUME NEW q, NEW f, NEW n \in Range(q), WithIn({n}, f), NEW c \in Config, NEW m, NEW S,
         "exclude" \notin S
  PROVE  Replays(At(q, f, n, Stage(c, S), m), ExcludeLines(n, c),
                 At(q, f, n, Stage(c, S \cup {"exclude"}), m))
<1> DEFINE e == c["exclude"]
           N == Len(e)
           d == Stage(c, S)
           lines == [i \in 1..N |-> Line("exclude", n, e[i])]
           h == [k \in 0..N |-> At(q, f, n, With(d, "exclude", SubSeq(e, 1, k)), m)]
<1>1. e \in Seq(Suffix) /\ "exclude" \in DOMAIN Settings
  BY DEF Config, Settings
<1>2. N \in Nat /\ SubSeq(e, 1, 0) = <<>> /\ SubSeq(e, 1, N) = e
  BY <1>1, LenProperties, SubSeqEmpty, SubSeqFull
<1>3. \A k \in 1..N : SubSeq(e, 1, k) = Append(SubSeq(e, 1, k - 1), e[k])
  BY <1>1, SubSeqNext
<1>4. WithIn(DOMAIN Settings, d)
  BY StageWith
<1>5. With(d, "exclude", <<>>) = d
  <2>1. d["exclude"] = <<>>
    BY <1>1 DEF Stage, Defaults
  <2> HIDE DEF d
  <2> QED BY <1>1, <1>4, <2>1 DEF WithIn
<1>6. With(d, "exclude", e) = Stage(c, S \cup {"exclude"})
  BY <1>1, StageNext
<1>7. Len(lines) = N /\ \A k \in 1..N : lines[k] = Line("exclude", n, e[k])
  <2> HIDE DEF N, e
  <2> QED BY <1>2
<1>8. lines = ExcludeLines(n, c)
  BY DEF ExcludeLines
<1> HIDE DEF d, e, N, lines
<1>9. h[0] = At(q, f, n, d, m) /\ h[N] = At(q, f, n, With(d, "exclude", e), m)
  <2> DEFINE sub(k) == SubSeq(e, 1, k)
             at(k) == At(q, f, n, With(d, "exclude", sub(k)), m)
  <2>1. sub(0) = <<>> /\ sub(N) = e /\ 0 \in 0..N /\ N \in 0..N
    BY <1>2
  <2> HIDE DEF sub
  <2>2. at(0) = At(q, f, n, d, m) /\ at(N) = At(q, f, n, With(d, "exclude", e), m)
    BY <1>5, <2>1
  <2>3. h = [k \in 0..N |-> at(k)]
    BY DEF sub
  <2> HIDE DEF at, h
  <2> QED BY <2>1, <2>2, <2>3
<1>10. ASSUME NEW k \in 1..N PROVE Takes(h[k - 1], lines[k], h[k])
  <2> DEFINE a == With(d, "exclude", SubSeq(e, 1, k - 1))
             b == With(d, "exclude", SubSeq(e, 1, k))
             l == Line("exclude", n, e[k])
  <2>1. h[k - 1] = At(q, f, n, a, m) /\ h[k] = At(q, f, n, b, m)
    BY <1>2
  <2>2. l.cmd = "exclude" /\ l.arg = e[k]
    BY DEF Line
  <2>3. a.exclude = SubSeq(e, 1, k - 1)
    BY <1>1, <1>4 DEF WithIn
  <2>4. With(a, "exclude", SubSeq(e, 1, k)) = b
    BY <1>1, <1>4 DEF WithIn
  <2> HIDE DEF a, b
  <2>5. Result(a, l) = With(a, "exclude", SubSeq(e, 1, k))
    BY <1>3, <2>2, <2>3 DEF Result, With
  <2> HIDE DEF l
  <2>6. Granted(a, m, "exclude", e[k])
    BY DEF Granted
  <2>7. Takes(At(q, f, n, a, m), l,
              At(q, f, n, Result(a, l), IF "exclude" = "disk_size" THEN m + a.disk_size - e[k] ELSE m))
    BY <2>6, SetTakes DEF l
  <2> HIDE DEF h
  <2> QED BY <1>7, <2>1, <2>4, <2>5, <2>7 DEF l
<1> HIDE DEF h
<1>11. Replays(At(q, f, n, d, m), lines, At(q, f, n, With(d, "exclude", e), m))
  BY <1>7, <1>9, <1>10 DEF Replays
<1> QED BY <1>6, <1>8, <1>11 DEF d

LEMMA SwitchReplays ==
  ASSUME NEW q, NEW f, NEW n \in Range(q), WithIn({n}, f), NEW c, NEW m, NEW S
  PROVE  Replays(At(q, f, n, Stage(c, S), m), SwitchLines(n, c),
                 At(q, f, n, Stage(c, S \cup {"restore_mode"}), m))
<1> DEFINE a == Line("restore_mode", n, c["restore_mode"])
           b == Line("monitor", n, c["monitor"])
           x == At(q, f, n, Stage(c, S), m)
           d == Stage(c, S \cup {"restore_mode"})
           y == At(q, f, n, d, m)
           h == [k \in 0..2 |-> IF k = 0 THEN x ELSE y]
<1>1. Takes(x, a, y)
  <2>1. Granted(Stage(c, S), m, "restore_mode", c["restore_mode"])
    BY DEF Granted
  <2>2. Takes(x, a, At(q, f, n, Result(Stage(c, S), a),
                       IF "restore_mode" = "disk_size" THEN m + Stage(c, S).disk_size - c["restore_mode"] ELSE m))
    BY <2>1, SetTakes
  <2>3. "restore_mode" \in DOMAIN Settings \ {"exclude", "monitor"}
    BY DEF Settings
  <2>4. Result(Stage(c, S), a) = d
    BY <2>3, ResultStage
  <2> HIDE DEF a, d, x
  <2> QED BY <2>2, <2>4
<1>2. Takes(y, b, y)
  <2>1. Granted(d, m, "monitor", c["monitor"])
    BY DEF Granted
  <2>2. Takes(y, b, At(q, f, n, Result(d, b),
                       IF "monitor" = "disk_size" THEN m + d.disk_size - c["monitor"] ELSE m))
    <3> HIDE DEF d
    <3> QED BY <2>1, SetTakes
  <2>3. b.cmd = "monitor"
    BY DEF Line
  <2> HIDE DEF b, d
  <2>4. Result(d, b) = d
    BY <2>3 DEF Result
  <2> QED BY <2>2, <2>4
<1>3. h[0] = x /\ h[1] = y /\ h[2] = y /\ 1 - 1 = 0 /\ 2 - 1 = 1 /\ 1..2 = {1, 2}
  OBVIOUS
<1> HIDE DEF x, y, h
<1>4. Len(<<a, b>>) = 2 /\ <<a, b>>[1] = a /\ <<a, b>>[2] = b
  <2> HIDE DEF a, b
  <2> QED OBVIOUS
<1>5. SwitchLines(n, c) = <<a, b>>
  BY DEF SwitchLines
<1> HIDE DEF a, b
<1>6. \A k \in 1..Len(<<a, b>>) : Takes(h[k - 1], <<a, b>>[k], h[k])
  <2> DEFINE s == <<a, b>>
  <2>1. Len(s) = 2 /\ s[1] = a /\ s[2] = b
    BY <1>4
  <2> HIDE DEF s
  <2>2. Takes(h[1 - 1], s[1], h[1]) /\ Takes(h[2 - 1], s[2], h[2])
    BY <1>1, <1>2, <1>3, <2>1
  <2>3. \A k \in 1..Len(s) : k = 1 \/ k = 2
    BY <1>3, <2>1
  <2> QED BY <2>2, <2>3 DEF s
<1>7. Replays(x, <<a, b>>, y)
  BY <1>3, <1>4, <1>6 DEF Replays
<1> QED BY <1>5, <1>7 DEF x, y, d

(* The lines of a server, where it is not there and there is room for it. *)
LEMMA StageEnds ==
  ASSUME NEW c \in Config
  PROVE  /\ Stage(c, {}) = Defaults
         /\ Stage(c, DOMAIN Settings \ {"monitor"}) = Masked(c)
<1> DEFINE X == DOMAIN Settings
           a == Stage(c, {})
           b == Stage(c, X \ {"monitor"})
           d == Defaults
           e == Masked(c)
<1>1. (\A s \in X : a[s] = d[s]) /\ \A s \in X : b[s] = IF s # "monitor" THEN c[s] ELSE d[s]
  BY DEF Stage
<1>2. e \in Config /\ e.monitor = TRUE /\ \A s \in X \ {"monitor"} : e[s] = c[s]
  BY MaskedFields
<1>3. d.monitor = TRUE /\ d \in Config
  BY DefaultsTyped DEF Defaults
<1> DEFINE Y == {d[s] : s \in X}
           Z == {e[s] : s \in X}
<1>4. d \in [X -> Y] /\ e \in [X -> Z]
  <2> HIDE DEF d, e
  <2> QED BY <1>2, <1>3, ConfigFunction
<1>5. DOMAIN a = X /\ DOMAIN b = X /\ a = [s \in X |-> a[s]] /\ b = [s \in X |-> b[s]]
  BY DEF Stage
<1>6. "monitor" \in X
  BY DEF Settings
<1> HIDE DEF a, b, d, e, X, Y, Z
<1>7. d = [s \in X |-> d[s]] /\ e = [s \in X |-> e[s]]
  BY <1>4
<1>8. a = d
  BY <1>1, <1>5, <1>7
<1>9. \A s \in X : b[s] = e[s]
  BY <1>1, <1>2, <1>3
<1>10. b = e
  BY <1>5, <1>7, <1>9
<1> QED BY <1>8, <1>10 DEF a, b, d, e, X

LEMMA ServerReplays ==
  ASSUME NEW x, x.cfg \in [Name -> Config], x.left \in Int,
         NEW n \in Name, n \notin Range(x.servers), NEW c \in Config,
         n \in Range(Append(x.servers, n)),
         Default <= x.left, c.disk_size <= x.left,
         c.document_root # "none", c.connect # "ftp",
         c.root_folder <= DefaultOther, c.root_folder <= c.other_folder
  PROVE  Replays(x, Lines(n, c),
                 At(Append(x.servers, n), x.cfg, n, Masked(c), x.left - c.disk_size))
<1> DEFINE q == Append(x.servers, n)
           f == x.cfg
           m == x.left - Default
           D == CommandLines
           S1 == {} \cup {"connect"}
           S2 == S1 \cup {"document_root"}
           S3 == S2 \cup {"depth"}
           S4 == S3 \cup {"root_folder"}
           S5 == S4 \cup {"other_folder"}
           S6 == S5 \cup {"file_size"}
           S7 == S6 \cup {"exclude"}
           S8 == S7 \cup {"restore_mode"}
           S9 == S8 \cup {"disk_size"}
           L0 == <<Line("tamper", n, {})>>
           L1 == ConnectLines(n, c)
           L2 == RootLines(n, c)
           L3 == ChangedLines(n, c, "depth")
           L4 == ChangedLines(n, c, "root_folder")
           L5 == ChangedLines(n, c, "other_folder")
           L6 == ChangedLines(n, c, "file_size")
           L7 == ExcludeLines(n, c)
           L8 == SwitchLines(n, c)
           L9 == ChangedLines(n, c, "disk_size")
           y(S) == At(q, f, n, Stage(c, S), m)
<1>1. WithIn({n}, f)
  <2>1. WithIn(Name, f)
    BY WithFacts
  <2> HIDE DEF f
  <2> QED BY <2>1 DEF WithIn
<1>2. /\ c.disk_size \in Nat /\ Default \in Nat /\ m \in Int
      /\ c.connect \in {"none", "sftp"}
      /\ Defaults.connect = "none" /\ Defaults.other_folder = DefaultOther
      /\ Defaults.disk_size = Default
  <2>1. c.disk_size \in Nat /\ Default \in Nat
    BY ConfigTyped, ServerConfigAssumption
  <2>2. c.connect \in {"none", "sftp"}
    BY ConfigTyped
  <2>3. /\ Defaults.connect = "none" /\ Defaults.other_folder = DefaultOther
        /\ Defaults.disk_size = Default
    BY DEF Defaults
  <2> QED BY <2>1, <2>2, <2>3
<1>3. DOMAIN Settings = {"connect", "document_root", "depth", "file_size", "root_folder",
                         "other_folder", "exclude", "restore_mode", "monitor", "disk_size"}
  BY DEF Settings
<1>4. /\ L0 \in Seq(D) /\ L1 \in Seq(D) /\ L2 \in Seq(D) /\ L3 \in Seq(D) /\ L4 \in Seq(D)
      /\ L5 \in Seq(D) /\ L6 \in Seq(D) /\ L7 \in Seq(D) /\ L8 \in Seq(D) /\ L9 \in Seq(D)
  <2>1. ServerLines(n, c) \subseteq D
    BY ServerLinesTyped
  <2>2. {"depth", "root_folder", "other_folder", "file_size", "disk_size"}
          \subseteq Kept \ {"document_root"}
    BY DEF Kept
  <2> HIDE DEF D
  <2> QED BY <2>1, <2>2, PartsIn
<1>5. n \in Range(q)
  OBVIOUS
<1>6. Replays(x, L0, y({}))
  <2>1. Stage(c, {}) = Defaults
    BY StageEnds
  <2>2. [x.cfg EXCEPT ![n] = Defaults] = With(f, n, Defaults)
    BY DEF With
  <2>3. Takes(x, Line("tamper", n, {}), y({}))
    BY <2>1, <2>2 DEF Takes, TakesTamper, Line, At
  <2> HIDE DEF y
  <2> QED BY <2>3, ReplayLine
<1> HIDE DEF q, f
<1>u. ASSUME NEW S, NEW s \in DOMAIN Settings \ {"exclude", "monitor"}, NEW u,
             s # "disk_size", c[s] = u => Defaults[s] = u,
             c[s] # u => Granted(Stage(c, S), m, s, c[s])
      PROVE  Replays(y(S), Unless(u, Line(s, n, c[s])), y(S \cup {s}))
  <2>1. Left(m, s, c, Defaults) = m
    BY <1>u DEF Left
  <2> HIDE DEF m
  <2>2. Replays(At(q, f, n, Stage(c, S), m), Unless(u, Line(s, n, c[s])),
                At(q, f, n, Stage(c, S \cup {s}), Left(m, s, c, Defaults)))
    BY <1>1, <1>2, <1>5, <1>u, UnlessReplays
  <2> QED BY <2>1, <2>2
<1> HIDE DEF y
<1>7. Replays(y({}), L1, y(S1))
  <2>1. L1 = Unless("none", Line("connect", n, c["connect"]))
    BY DEF ConnectLines
  <2>2. c["connect"] # "none" => Granted(Stage(c, {}), m, "connect", c["connect"])
    BY <1>2 DEF Granted
  <2>3. "connect" \in DOMAIN Settings \ {"exclude", "monitor"} /\ "connect" # "disk_size"
    BY <1>3
  <2>4. c["connect"] = "none" => Defaults["connect"] = "none"
    BY <1>2
  <2> HIDE DEF L1, m
  <2> QED BY <1>u, <2>1, <2>2, <2>3, <2>4
<1>8. Replays(y(S1), L2, y(S2))
  <2>1. Granted(Stage(c, S1), m, "document_root", c["document_root"])
    BY DEF Granted
  <2>2. "document_root" \in DOMAIN Settings \ {"exclude", "monitor"} /\ "document_root" # "disk_size"
    BY <1>3
  <2> HIDE DEF S1, m
  <2> QED BY <1>u, <2>1, <2>2 DEF RootLines
<1>9. Replays(y(S2), L3, y(S3))
  <2>1. Granted(Stage(c, S2), m, "depth", c["depth"])
    BY DEF Granted
  <2>2. "depth" \in DOMAIN Settings \ {"exclude", "monitor"} /\ "depth" # "disk_size"
    BY <1>3
  <2> HIDE DEF S2, m
  <2> QED BY <1>u, <2>1, <2>2 DEF ChangedLines
<1>10. Replays(y(S3), L4, y(S4))
  <2>1. Stage(c, S3).other_folder = Defaults.other_folder
    BY <1>3 DEF Stage
  <2>2. Granted(Stage(c, S3), m, "root_folder", c["root_folder"])
    BY <1>2, <2>1 DEF Granted
  <2>3. "root_folder" \in DOMAIN Settings \ {"exclude", "monitor"} /\ "root_folder" # "disk_size"
    BY <1>3
  <2> HIDE DEF S3, m
  <2> QED BY <1>u, <2>2, <2>3 DEF ChangedLines
<1>11. Replays(y(S4), L5, y(S5))
  <2>1. Stage(c, S4).root_folder = c.root_folder
    BY <1>3 DEF Stage
  <2>2. Granted(Stage(c, S4), m, "other_folder", c["other_folder"])
    BY <1>2, <2>1 DEF Granted
  <2>3. "other_folder" \in DOMAIN Settings \ {"exclude", "monitor"} /\ "other_folder" # "disk_size"
    BY <1>3
  <2> HIDE DEF S4, m
  <2> QED BY <1>u, <2>2, <2>3 DEF ChangedLines
<1>12. Replays(y(S5), L6, y(S6))
  <2>1. Granted(Stage(c, S5), m, "file_size", c["file_size"])
    BY DEF Granted
  <2>2. "file_size" \in DOMAIN Settings \ {"exclude", "monitor"} /\ "file_size" # "disk_size"
    BY <1>3
  <2> HIDE DEF S5, m
  <2> QED BY <1>u, <2>1, <2>2 DEF ChangedLines
<1>13. Replays(y(S6), L7, y(S7))
  <2>1. "exclude" \notin S6
    OBVIOUS
  <2> HIDE DEF S6, m
  <2> QED BY <1>1, <1>5, <2>1, ExcludeReplays DEF y
<1>14. Replays(y(S7), L8, y(S8))
  <2> HIDE DEF S7, m
  <2> QED BY <1>1, <1>5, SwitchReplays DEF y
<1>15. Replays(y(S8), L9, At(q, f, n, Masked(c), x.left - c.disk_size))
  <2>1. Stage(c, S8).disk_size = Defaults.disk_size
    BY <1>3 DEF Stage
  <2>2. Granted(Stage(c, S8), m, "disk_size", c["disk_size"])
    BY <1>2, <2>1 DEF Granted
  <2>3. "disk_size" \in DOMAIN Settings \ {"exclude", "monitor"} /\ "disk_size" \notin S8
    BY <1>3
  <2>4. Left(m, "disk_size", c, Defaults) = x.left - c.disk_size
    BY <1>2 DEF Left
  <2>5. Stage(c, S9) = Masked(c)
    <3>1. S9 = DOMAIN Settings \ {"monitor"}
      BY <1>3
    <3> HIDE DEF S9
    <3> QED BY <3>1, StageEnds
  <2> HIDE DEF S8, m
  <2>6. Replays(At(q, f, n, Stage(c, S8), m), Unless(Defaults["disk_size"], Line("disk_size", n, c["disk_size"])),
                At(q, f, n, Stage(c, S9), Left(m, "disk_size", c, Defaults)))
    BY <1>1, <1>2, <1>5, <2>2, <2>3, UnlessReplays
  <2> QED BY <2>4, <2>5, <2>6 DEF y, ChangedLines
<1> DEFINE P1 == L0 \o L1
           P2 == P1 \o L2
           P3 == P2 \o L3
           P4 == P3 \o L4
           P5 == P4 \o L5
           P6 == P5 \o L6
           P7 == P6 \o L7
           P8 == P7 \o L8
           z == At(q, f, n, Masked(c), x.left - c.disk_size)
<1>16. Lines(n, c) = P8 \o L9
  BY LinesParts
<1> HIDE DEF D, L0, L1, L2, L3, L4, L5, L6, L7, L8, L9, S1, S2, S3, S4, S5, S6, S7, S8, z
<1>17. P1 \in Seq(D) /\ Replays(x, P1, y(S1))
  BY <1>4, <1>6, <1>7, ReplayBoth, ConcatProperties
<1> HIDE DEF P1
<1>18. P2 \in Seq(D) /\ Replays(x, P2, y(S2))
  BY <1>4, <1>8, <1>17, ReplayBoth, ConcatProperties
<1> HIDE DEF P2
<1>19. P3 \in Seq(D) /\ Replays(x, P3, y(S3))
  BY <1>4, <1>9, <1>18, ReplayBoth, ConcatProperties
<1> HIDE DEF P3
<1>20. P4 \in Seq(D) /\ Replays(x, P4, y(S4))
  BY <1>4, <1>10, <1>19, ReplayBoth, ConcatProperties
<1> HIDE DEF P4
<1>21. P5 \in Seq(D) /\ Replays(x, P5, y(S5))
  BY <1>4, <1>11, <1>20, ReplayBoth, ConcatProperties
<1> HIDE DEF P5
<1>22. P6 \in Seq(D) /\ Replays(x, P6, y(S6))
  BY <1>4, <1>12, <1>21, ReplayBoth, ConcatProperties
<1> HIDE DEF P6
<1>23. P7 \in Seq(D) /\ Replays(x, P7, y(S7))
  BY <1>4, <1>13, <1>22, ReplayBoth, ConcatProperties
<1> HIDE DEF P7
<1>24. P8 \in Seq(D) /\ Replays(x, P8, y(S8))
  BY <1>4, <1>14, <1>23, ReplayBoth, ConcatProperties
<1> HIDE DEF P8
<1>25. Replays(x, P8 \o L9, z)
  BY <1>4, <1>15, <1>24, ReplayBoth DEF z
<1> QED BY <1>16, <1>25 DEF z, q, f

LEMMA SpaceMonotone ==
  ASSUME NEW U, IsFiniteSet(U), NEW S \in SUBSET U, NEW c, \A n \in U : c[n].disk_size \in Nat
  PROVE  Space(c, S) <= Space(c, U)
<1> DEFINE T == {n \in Nat : \A s \in SUBSET U : Cardinality(U \ s) = n => Space(c, s) <= Space(c, U)}
<1>0. \A s \in SUBSET U : IsFiniteSet(s) /\ IsFiniteSet(U \ s) /\ Cardinality(U \ s) \in Nat
  <2>1. \A s \in SUBSET U : IsFiniteSet(s) /\ Cardinality(s) \in Nat /\ U \ s \in SUBSET U
    BY FS_Subset, FS_CardinalityType
  <2> QED BY <2>1
<1>1. \A s \in SUBSET U : Space(c, s) \in Nat
  <2> SUFFICES ASSUME NEW s \in SUBSET U PROVE Space(c, s) \in Nat
    OBVIOUS
  <2>1. IsFiniteSet(s) /\ \A n \in s : c[n].disk_size \in Nat
    BY <1>0
  <2> QED BY <2>1, SpaceFacts
<1>2. 0 \in T
  <2>1. \A s \in SUBSET U : Cardinality(U \ s) = 0 => U \ s = {}
    BY <1>0, FS_EmptySet
  <2>2. \A s \in SUBSET U : U \ s = {} => s = U
    OBVIOUS
  <2>3. Space(c, U) \in Nat
    BY <1>1
  <2> QED BY <2>1, <2>2, <2>3
<1>3. ASSUME NEW n \in Nat, n \in T PROVE n + 1 \in T
  <2> SUFFICES ASSUME NEW s \in SUBSET U, Cardinality(U \ s) = n + 1
               PROVE  Space(c, s) <= Space(c, U)
    OBVIOUS
  <2>1. U \ s # {}
    <3>1. Cardinality(U \ s) # 0
      OBVIOUS
    <3> QED BY <3>1, FS_EmptySet
  <2>2. PICK x \in U \ s : TRUE
    BY <2>1
  <2> DEFINE t == s \cup {x}
  <2>3. U \ t = (U \ s) \ {x} /\ t \in SUBSET U
    OBVIOUS
  <2>4. Cardinality((U \ s) \ {x}) = Cardinality(U \ s) - 1
    BY <1>0, FS_RemoveElement
  <2>5. Space(c, t) = c[x].disk_size + Space(c, s)
    <3>1. IsFiniteSet(s) /\ x \notin s /\ \A m \in s \cup {x} : c[m].disk_size \in Nat
      BY <1>0
    <3> QED BY <3>1, SpaceOfMore
  <2> HIDE DEF t
  <2>6. Cardinality(U \ t) = n
    <3>1. Cardinality(U \ t) = Cardinality(U \ s) - 1
      BY <2>3, <2>4
    <3> DEFINE a == Cardinality(U \ s)
    <3>2. a = n + 1
      OBVIOUS
    <3> HIDE DEF a
    <3>3. a - 1 = n
      BY <3>2
    <3> QED BY <3>1, <3>3 DEF a
  <2>7. Space(c, t) <= Space(c, U)
    BY <1>3, <2>3, <2>6
  <2>8. Space(c, t) \in Nat /\ Space(c, s) \in Nat /\ Space(c, U) \in Nat /\ c[x].disk_size \in Nat
    BY <1>1, <2>3
  <2> QED BY <2>5, <2>7, <2>8
<1>4. Nat \subseteq T
  <2> HIDE DEF T
  <2> QED BY <1>2, <1>3, SetNatInduction
<1> QED BY <1>0, <1>4

(* Before the first line of a file. *)
Start == [servers |-> <<>>, cfg |-> [n \in Name |-> Defaults], left |-> Total]

Returned(y, s) ==
  /\ y.servers = s.servers
  /\ \A n \in Range(s.servers) : y.cfg[n] = Masked(s.cfg[n])

Fits(s) == Space(s.cfg, Range(s.servers)) <= Total

(* After the lines of the first k servers. *)
Back(s, k) ==
  LET first == {s.servers[i] : i \in 1..k} IN
  [servers |-> SubSeq(s.servers, 1, k),
   cfg |-> [n \in Name |-> IF n \in first THEN Masked(s.cfg[n]) ELSE Defaults],
   left |-> Total - Space(s.cfg, first)]

LEMMA ServerIsBack ==
  ASSUME NEW s \in Configuration, IsInjective(s.servers), Fits(s), Loadable(s),
         NEW k \in 1..Len(s.servers)
  PROVE  Replays(Back(s, k - 1), Lines(s.servers[k], s.cfg[s.servers[k]]), Back(s, k))
<1> DEFINE v == s.servers
           n == v[k]
           c == s.cfg[n]
           A == {v[i] : i \in 1..(k - 1)}
           B == {v[i] : i \in 1..k}
           x == Back(s, k - 1)
           y == Back(s, k)
<1>1. /\ v \in Seq(Name) /\ Len(v) \in Nat /\ DOMAIN v = 1..Len(v) /\ n \in Name
      /\ (\A m \in Name : s.cfg[m] \in Config) /\ c \in Config
      /\ n \in Range(v) /\ A \subseteq Name /\ B \subseteq Range(v) /\ Range(v) \subseteq Name
  BY ServersTyped
<1>2. B = A \cup {n} /\ n \notin A
  <2>1. 1..k = 1..(k - 1) \cup {k} /\ k \notin 1..(k - 1) /\ \A i \in 1..(k - 1) : i \in DOMAIN v
    BY <1>1
  <2>2. \A i \in 1..(k - 1) : v[i] # v[k]
    BY <1>1, <2>1 DEF IsInjective
  <2> QED BY <2>1, <2>2
<1>3. \A m \in Name : s.cfg[m].disk_size \in Nat
  BY <1>1, ConfigTyped, ServerConfigAssumption
<1>4. IsFiniteSet(Range(v)) /\ IsFiniteSet(A) /\ IsFiniteSet(B)
  <2>1. IsFiniteSet(Range(v))
    BY <1>1, ListFinite
  <2>2. A \subseteq Range(v)
    BY <1>2, <1>1
  <2> HIDE DEF A, B, v
  <2> QED BY <1>1, <2>1, <2>2, FS_Subset
<1>5. /\ SubSeq(v, 1, k) = Append(SubSeq(v, 1, k - 1), n)
      /\ SubSeq(v, 1, k - 1) \in Seq(Name) /\ Range(SubSeq(v, 1, k - 1)) = A
  BY <1>1, SubSeqNext
<1>6. /\ x.servers = SubSeq(v, 1, k - 1) /\ x.left = Total - Space(s.cfg, A)
      /\ x.cfg = [m \in Name |-> IF m \in A THEN Masked(s.cfg[m]) ELSE Defaults]
  BY DEF Back
<1>7. y = [servers |-> SubSeq(v, 1, k),
           cfg |-> [m \in Name |-> IF m \in B THEN Masked(s.cfg[m]) ELSE Defaults],
           left |-> Total - Space(s.cfg, B)]
  BY DEF Back
<1>8. Default + Space(s.cfg, A) <= Total
  BY DEF Loadable, RoomInOrder
<1>9. /\ c.document_root # "none" /\ c.connect # "ftp"
      /\ c.root_folder <= DefaultOther /\ c.root_folder <= c.other_folder
  BY <1>1 DEF Loadable, SettingsLoad
<1>f. Space(s.cfg, Range(v)) <= Total
  BY DEF Fits
<1> HIDE DEF A, B, x, y, c, n, v
<1>10. Space(s.cfg, B) = c.disk_size + Space(s.cfg, A)
  <2>1. \A m \in A \cup {n} : s.cfg[m].disk_size \in Nat
    BY <1>1, <1>3
  <2>2. Space(s.cfg, A \cup {n}) = s.cfg[n].disk_size + Space(s.cfg, A)
    BY <1>2, <1>4, <2>1, SpaceOfMore
  <2> QED BY <1>2, <2>2 DEF c
<1>11. Space(s.cfg, B) <= Space(s.cfg, Range(v))
  <2>1. B \in SUBSET Range(v) /\ \A m \in Range(v) : s.cfg[m].disk_size \in Nat
    BY <1>1, <1>3
  <2> QED BY <1>4, <2>1, SpaceMonotone
<1>12. /\ Space(s.cfg, A) \in Nat /\ Space(s.cfg, B) \in Nat /\ Space(s.cfg, Range(v)) \in Nat
       /\ Default \in Nat /\ Total \in Nat /\ c.disk_size \in Nat
  <2>1. \A S \in {A, B, Range(v)} : IsFiniteSet(S) /\ \A m \in S : s.cfg[m].disk_size \in Nat
    BY <1>1, <1>3, <1>4
  <2>2. \A S \in {A, B, Range(v)} : Space(s.cfg, S) \in Nat
    BY <2>1, SpaceFacts
  <2> QED BY <1>1, <1>3, <2>2, ServerConfigAssumption DEF c
<1>13. /\ x.left \in Int /\ Default <= x.left /\ c.disk_size <= x.left
       /\ x.left - c.disk_size = Total - Space(s.cfg, B)
  <2> DEFINE a == Space(s.cfg, A)
             b == Space(s.cfg, B)
             r == Space(s.cfg, Range(v))
             z == c.disk_size
  <2>1. /\ a \in Nat /\ b \in Nat /\ r \in Nat /\ z \in Nat /\ Default \in Nat /\ Total \in Nat
        /\ b = z + a /\ b <= r /\ r <= Total /\ Default + a <= Total /\ x.left = Total - a
    BY <1>6, <1>8, <1>10, <1>11, <1>12, <1>f
  <2> HIDE DEF a, b, r, z
  <2>2. x.left \in Int /\ Default <= x.left /\ z <= x.left /\ x.left - z = Total - b
    BY <2>1
  <2> QED BY <2>2 DEF a, b, z
<1>14. x.cfg \in [Name -> Config]
  <2>1. \A m \in Name : Masked(s.cfg[m]) \in Config
    BY <1>1, MaskedFields
  <2> QED BY <1>6, <2>1, DefaultsTyped
<1>15. n \notin Range(x.servers) /\ n \in Range(Append(x.servers, n))
  <2>1. x.servers \in Seq(Name) /\ Range(x.servers) = A
    BY <1>5, <1>6
  <2>2. Range(Append(x.servers, n)) = Range(x.servers) \cup {n}
    BY <1>1, <2>1, AppendFacts
  <2> QED BY <1>2, <2>1, <2>2
<1>16. Replays(x, Lines(n, c), At(Append(x.servers, n), x.cfg, n, Masked(c), x.left - c.disk_size))
  BY <1>1, <1>9, <1>13, <1>14, <1>15, ServerReplays
<1>17. With(x.cfg, n, Masked(c)) = [m \in Name |-> IF m \in B THEN Masked(s.cfg[m]) ELSE Defaults]
  <2>1. \A m \in Name : With(x.cfg, n, Masked(c))[m] = IF m \in B THEN Masked(s.cfg[m]) ELSE Defaults
    BY <1>2, <1>6, <1>14 DEF With, c
  <2>2. With(x.cfg, n, Masked(c)) = [m \in Name |-> With(x.cfg, n, Masked(c))[m]]
    BY <1>14 DEF With
  <2> QED BY <2>1, <2>2
<1>18. At(Append(x.servers, n), x.cfg, n, Masked(c), x.left - c.disk_size) = y
  BY <1>5, <1>6, <1>7, <1>13, <1>17 DEF At
<1> QED BY <1>16, <1>18 DEF x, y, n, c, v

(* The whole file of a configuration that can be loaded. *)
LEMMA EverythingReplays ==
  ASSUME NEW s \in Configuration, IsInjective(s.servers), Fits(s), Loadable(s)
  PROVE  \E y : Replays(Start, Everything(s), y) /\ Returned(y, s)
<1> DEFINE N == Len(s.servers)
           D == CommandLines
           lines(k) == Lines(s.servers[k], s.cfg[s.servers[k]])
<1>1. /\ N \in Nat /\ s.servers \in Seq(Name) /\ DOMAIN s.servers = 1..N
      /\ \A k \in 1..N : s.servers[k] \in Name /\ s.cfg[s.servers[k]] \in Config
  BY ServersTyped
<1>2. \A n \in Range(s.servers) : ServerLines(n, s.cfg[n]) \subseteq D
  BY ServersTyped, ServerLinesTyped
<1> HIDE DEF D
<1>3. PICK h : /\ Everything(s) = h[N] /\ Saving(h, s) /\ \A k \in 0..N : h[k] \in Seq(D)
  BY <1>2, EverythingIn
<1>4. \A k \in 1..N : lines(k) \in Seq(D)
  <2> SUFFICES ASSUME NEW k \in 1..N PROVE lines(k) \in Seq(D)
    OBVIOUS
  <2>1. ServerLines(s.servers[k], s.cfg[s.servers[k]]) \subseteq D
    BY <1>1, ServerLinesTyped DEF D
  <2> QED BY <1>1, <2>1, LinesIn
<1>5. \A k \in 1..N : Replays(Back(s, k - 1), lines(k), Back(s, k))
  BY ServerIsBack
<1>6. h[0] = <<>> /\ \A k \in 1..N : h[k] = h[k - 1] \o lines(k)
  BY <1>3 DEF Saving
<1>7. Back(s, 0) = Start
  <2>1. SubSeq(s.servers, 1, 0) = <<>> /\ {s.servers[i] : i \in 1..0} = {}
    BY SubSeqEmpty
  <2>2. Total - Space(s.cfg, {}) = Total
    BY EmptySpace, ServerConfigAssumption
  <2> QED BY <2>1, <2>2 DEF Back, Start
<1> HIDE DEF lines, N
<1> DEFINE T == {k \in 0..N : Replays(Start, h[k], Back(s, k))}
<1>8. 0 \in T
  BY <1>1, <1>6, <1>7, ReplayNothing
<1>9. ASSUME NEW k \in 1..N, k - 1 \in T PROVE k \in T
  <2>1. k \in 0..N /\ k - 1 \in 0..N /\ h[k - 1] \in Seq(D) /\ lines(k) \in Seq(D)
    BY <1>1, <1>3, <1>4
  <2>2. Replays(Start, h[k - 1], Back(s, k - 1)) /\ Replays(Back(s, k - 1), lines(k), Back(s, k))
    BY <1>5, <1>9
  <2>3. Replays(Start, h[k - 1] \o lines(k), Back(s, k))
    BY <2>1, <2>2, ReplayBoth
  <2> QED BY <1>6, <2>1, <2>3
<1>10. N \in T
  <2> HIDE DEF T
  <2> QED BY <1>1, <1>8, <1>9, StepInduction
<1>11. Replays(Start, Everything(s), Back(s, N))
  BY <1>3, <1>10
<1>12. Returned(Back(s, N), s)
  <2>1. SubSeq(s.servers, 1, N) = s.servers
    BY <1>1, SubSeqFull DEF N
  <2>2. {s.servers[i] : i \in 1..N} = Range(s.servers) /\ Range(s.servers) \subseteq Name
    BY <1>1, ServersTyped DEF Range
  <2> QED BY <2>1, <2>2 DEF Back, Returned
<1> QED BY <1>11, <1>12

-----------------------------------------------------------------------------
(* The inductive invariant: what was saved fitted, as it was in force; and *)
(* after a start the lines that are still to be loaded lead from what is   *)
(* in force to what was saved.                                             *)
SavedFits == Fits(saved)

Returning ==
  mark = "boot" /\ ~torn /\ Loadable(saved) => \E y : Replays(View, todo, y) /\ Returned(y, saved)

Return == TypeOK /\ SpaceKept /\ FileIsSaved /\ SavedFits /\ Returning

LEMMA StepSavedFits == TypeOK /\ SpaceKept /\ SavedFits /\ [Next]_vars => SavedFits'
<1> SUFFICES ASSUME TypeOK, SpaceKept, SavedFits, [Next]_vars PROVE SavedFits'
  OBVIOUS
<1>1. CASE Write
  <2>1. Space(cfg, Listed) \in Nat
    BY StateTyped, SpaceFacts
  <2>2. Space(cfg, Listed) <= Total
    <3> DEFINE a == Space(cfg, Listed)
    <3>1. a \in Nat /\ left_disksize \in 0..Total /\ left_disksize + a = Total /\ Total \in Nat
      BY <2>1, ServerConfigAssumption DEF SpaceKept
    <3> HIDE DEF a
    <3>2. a <= Total
      BY <3>1
    <3> QED BY <3>2 DEF a
  <2>3. saved'.cfg = cfg /\ saved'.servers = servers
    BY <1>1 DEF Write, Now
  <2> QED BY <2>2, <2>3 DEF SavedFits, Fits, Listed
<1>2. Next /\ ~ Write => saved' = saved
  BY DEF Next, TypeTamper, NoTamper, UnsetSize, Unset, TypeSet, Edits, StartThread, Exceeded,
         Stop, StopInWrite, Restart, Load, LoadLine, LineRefused, history
<1>3. UNCHANGED vars => saved' = saved
  BY DEF vars, history
<1>4. CASE saved' = saved
  BY <1>4 DEF SavedFits, Fits
<1> QED BY <1>1, <1>2, <1>3, <1>4

LEMMA RestartShows ==
  ASSUME Restart
  PROVE  View' = Start
<1>1. servers' = <<>> /\ cfg' = [n \in Name |-> Defaults] /\ left_disksize' = Total
  BY DEF Restart
<1>2. \A n \in Name : Masked(cfg'[n]) = Defaults
  BY <1>1, MaskedDefaults
<1>3. [n \in Name |-> Masked(cfg'[n])] = [n \in Name |-> Defaults]
  BY <1>2
<1> QED BY <1>1, <1>3 DEF View, Start

LEMMA SameView ==
  ASSUME UNCHANGED state
  PROVE  View' = View
BY DEF state, View

LEMMA StepReturning ==
  TypeOK /\ FileIsSaved /\ SavedFits /\ Returning /\ [Next]_vars => Returning'
<1> SUFFICES ASSUME TypeOK, FileIsSaved, SavedFits, Returning, [Next]_vars,
                    mark' = "boot", ~torn', Loadable(saved)'
             PROVE  \E y : Replays(View', todo', y) /\ Returned(y, saved')
  BY DEF Returning
<1>1. CASE Stop
  <2>1. todo' = Everything(saved) /\ saved' = saved /\ Loadable(saved)
    BY <1>1 DEF Stop, Restart, FileIsSaved, Loadable, RoomInOrder, SettingsLoad
  <2>2. View' = Start
    BY <1>1, RestartShows DEF Stop
  <2>3. \E y : Replays(Start, Everything(saved), y) /\ Returned(y, saved)
    BY <2>1, EverythingReplays DEF TypeOK, SavedFits
  <2> QED BY <2>1, <2>2, <2>3
<1>2. ASSUME UNCHANGED history
      PROVE  /\ saved' = saved
             /\ \E y : Replays(View, todo, y) /\ Returned(y, saved)
  <2>1. saved' = saved /\ mark = "boot" /\ ~torn
    BY <1>2 DEF history
  <2>2. Loadable(saved)
    BY <2>1 DEF Loadable, RoomInOrder, SettingsLoad
  <2> QED BY <2>1, <2>2 DEF Returning
<1>3. ASSUME todo # <<>>, UNCHANGED history
      PROVE  \E y, z : /\ Takes(View, Head(todo), z) /\ Replays(z, Tail(todo), y)
                       /\ Returned(y, saved)
  <2>1. PICK y : Replays(View, todo, y) /\ Returned(y, saved)
    BY <1>2, <1>3
  <2>2. todo \in Seq(CommandLines)
    BY DEF TypeOK
  <2>3. \E z : Takes(View, Head(todo), z) /\ Replays(z, Tail(todo), y)
    BY <1>3, <2>1, <2>2, ReplayFirst
  <2> QED BY <2>1, <2>3
<1>4. todo # <<>> => Understood(Head(todo))
  BY HeadTailProperties, LinesUnderstood DEF TypeOK
<1>5. CASE LoadLine
  <2>1. todo # <<>> /\ Accept(Head(todo)) /\ todo' = Tail(todo) /\ UNCHANGED history
    BY <1>5 DEF LoadLine
  <2>2. PICK y, z : /\ Takes(View, Head(todo), z) /\ Replays(z, Tail(todo), y)
                    /\ Returned(y, saved)
    BY <1>3, <2>1
  <2>3. View' = z
    BY <1>4, <2>1, <2>2, TakenShows
  <2> QED BY <1>2, <2>1, <2>2, <2>3
<1>6. CASE LineRefused
  <2>1. todo # <<>> /\ Refused(Head(todo)) /\ UNCHANGED history
    BY <1>6 DEF LineRefused
  <2>2. PICK y, z : Takes(View, Head(todo), z)
    BY <1>3, <2>1
  <2> QED BY <1>4, <2>1, <2>2, TakenIsNotRefused
<1>7. CASE UNCHANGED <<state, todo, history>>
  <2>1. UNCHANGED history /\ todo' = todo /\ View' = View
    BY <1>7, SameView
  <2> QED BY <1>2, <2>1
<1>8. (\E n \in Name : StartThread(n)) \/ UNCHANGED vars => UNCHANGED <<state, todo, history>>
  BY DEF StartThread, vars
<1>9. Next => (\E n \in Name : StartThread(n)) \/ Stop \/ LoadLine \/ LineRefused
  BY DEF Next, TypeTamper, NoTamper, UnsetSize, Unset, TypeSet, Edits, Exceeded, Write,
         StopInWrite, Restart, Load
<1> QED BY <1>1, <1>5, <1>6, <1>7, <1>8, <1>9

LEMMA ReturningReturns == TypeOK /\ Returning => SavedReturns
<1> SUFFICES ASSUME TypeOK, Returning, mark = "boot", todo = <<>>, ~torn, Loadable(saved)
             PROVE  /\ servers = saved.servers
                    /\ \A n \in Listed : Masked(cfg[n]) = Masked(saved.cfg[n])
  BY DEF SavedReturns, Masked
<1>1. PICK y : Replays(View, todo, y) /\ Returned(y, saved)
  BY DEF Returning
<1>2. y = View
  BY <1>1, ReplayNothing
<1>3. View.servers = saved.servers /\ \A n \in Range(saved.servers) : View.cfg[n] = Masked(saved.cfg[n])
  BY <1>1, <1>2 DEF Returned
<1>4. View.servers = servers
  BY DEF View
<1>5. \A n \in Listed : View.cfg[n] = Masked(cfg[n])
  BY ViewFacts, StateTyped
<1> QED BY <1>3, <1>4, <1>5 DEF Listed

(* A configuration whose lines can all be accepted is back after the next  *)
(* start, server for server, in their order and setting for setting, when  *)
(* ever main.c starts threads in between and however many servers there    *)
(* are; "monitor" alone is up to that timing.                              *)
THEOREM ConfigurationReturns == Spec => []SavedReturns
<1>1. Init => Return
  <2> SUFFICES ASSUME Init PROVE Return
    OBVIOUS
  <2>1. TypeOK /\ SpaceKept /\ FileIsSaved
    BY InitTypeOK, InitSpaceKept, InitFileIsSaved
  <2>2. saved = Now /\ servers = <<>> /\ cfg = [n \in Name |-> Defaults] /\ left_disksize = Total
    BY DEF Init
  <2>3. SavedFits
    <3>1. Range(saved.servers) = {}
      BY <2>2, EmptyConfiguration DEF Now
    <3>2. Space(saved.cfg, {}) = 0 /\ Total \in Nat
      BY EmptySpace, ServerConfigAssumption
    <3> QED BY <3>1, <3>2 DEF SavedFits, Fits
  <2>4. Returning
    <3>1. Replays(View, todo, View)
      BY ReplayNothing DEF Init
    <3>2. Returned(View, saved)
      <4>1. View.servers = saved.servers /\ Range(saved.servers) = {}
        BY <2>2, EmptyConfiguration DEF View, Now
      <4> QED BY <4>1 DEF Returned
    <3> QED BY <3>1, <3>2 DEF Returning
  <2> QED BY <2>1, <2>3, <2>4 DEF Return
<1>2. Return /\ [Next]_vars => Return'
  BY NextTypeOK, StepKeepsSpace, StepFileIsSaved, StepSavedFits, StepReturning DEF Return
<1>3. Return => SavedReturns
  BY ReturningReturns DEF Return
<1> QED BY <1>1, <1>2, <1>3, PTL DEF Spec
=============================================================================
