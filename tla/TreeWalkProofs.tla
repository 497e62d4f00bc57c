--------------------------- MODULE TreeWalkProofs ---------------------------
(***************************************************************************)
(* Theorems about TreeWalk: a walk that comes to its end has met what was  *)
(* there all the time, so that nothing of it is taken for deleted; what a  *)
(* broken-off pass hides is reported in the end; what is stored fits.      *)
(***************************************************************************)
EXTENDS TreeWalk, FiniteSetTheorems, SequenceTheorems, TLAPS

(***************************************************************************)
(* What is still to be met is below a directory that waits on the stack.   *)
(***************************************************************************)
SiteTree ==
  /\ \A p, q \in Path : IsAbove(q, p) /\ site[p] # "absent" => site[q] # "absent"
  /\ \A d \in Dirs : site[d] # "large"

HistoryInv ==
  /\ at \in Walks => EntriesOf(site) \subseteq ever
  /\ at \notin Walks => stack = <<>> /\ lasting = {} /\ ever = {} /\ seen = {}

ScopeInv ==
  at \in Walks => /\ \A i \in 1 .. Len(stack) : Level(stack[i]) <= DepthOf(at)
                  /\ \A e \in seen : Len(e[1]) <= DepthOf(at)

Covered(e) == e \in seen \/ \E i \in 1 .. Len(stack) : IsAbove(stack[i], e[1])
CoverInv == at \in Walks => \A e \in lasting : InScope(at, e) => Covered(e)

NodesInv ==
  /\ \A p \in Path : nodes[p] # 0 <=> p \in hash
  /\ at \in Passes => \A e \in seen : e[1] \in hash => e[1] \in touched

MissedInv ==
  \A p \in missed : /\ p \in hash /\ p \notin touched
                    /\ Len(p) <= Depth /\ site[p] # "kept"

CountInv == Cardinality(Stored) <= backupsize

WalkInv == /\ TypeOK /\ SiteTree /\ HistoryInv /\ ScopeInv /\ CoverInv
           /\ NodesInv /\ MissedInv /\ CountInv

-----------------------------------------------------------------------------
(* Paths *)

LEMMA PathsAreSequences ==
  ASSUME NEW p \in Path
  PROVE  p \in Seq(STRING) /\ Len(p) \in Nat \ {0}
<1>1. p \in Seq(STRING) /\ p # <<>>
  BY TreeAssumption DEF Root
<1> QED BY <1>1, LenProperties, EmptySeq

(* Between a directory and what is below it, but not in it, there is one    *)
(* that is in it.                                                           *)
LEMMA OneLevelDown ==
  ASSUME NEW d \in Dirs \cup {Root}, NEW p \in Path, IsAbove(d, p), Parent(p) # d
  PROVE  \E q \in Dirs : Parent(q) = d /\ IsAbove(q, p) /\ Len(q) = Len(d) + 1
<1>1. d \in Seq(STRING) /\ Len(d) \in Nat
  BY PathsAreSequences, TreeAssumption, EmptySeq DEF Root
<1>2. p \in Seq(STRING) /\ Len(p) \in Nat \ {0}
  BY PathsAreSequences
<1>3. Len(d) < Len(p) /\ SubSeq(p, 1, Len(d)) = d
  BY DEF IsAbove
<1>4. Len(p) # Len(d) + 1
  BY <1>1, <1>3 DEF Parent
<1> DEFINE q == SubSeq(p, 1, Len(d) + 1)
<1>5. q \in Dirs
  BY <1>1, <1>2, <1>3, <1>4, TreeAssumption
<1>6. \A i \in 1 .. Len(d) + 1 : p[i] \in STRING
  BY <1>1, <1>2, <1>3, ElementOfSeq
<1>7. Len(q) = Len(d) + 1
  BY <1>1, <1>6, SubSeqProperties
<1>8. SubSeq(q, 1, Len(d)) = d
  <2>1. CASE Len(d) = 0
    <3>1. SubSeq(q, 1, Len(d)) = <<>> /\ SubSeq(p, 1, Len(d)) = <<>>
      BY <2>1, SubSeqEmpty
    <3> QED BY <3>1, <1>3
  <2>2. CASE Len(d) # 0
    <3>1. /\ 1 \in 1 .. Len(p) /\ Len(d) + 1 \in 1 .. Len(p)
          /\ 1 \in 1 .. (Len(d) + 1) - 1 + 1 /\ Len(d) \in 1 .. (Len(d) + 1) - 1 + 1
      BY <2>2, <1>1, <1>2, <1>3
    <3>2. SubSeq(q, 1, Len(d)) = SubSeq(p, 1 + 1 - 1, 1 + Len(d) - 1)
      BY <3>1, <1>2, SubSeqOfSubSeq
    <3> QED BY <3>2, <1>1, <1>3
  <2> QED BY <2>1, <2>2
<1>9. Parent(q) = d
  BY <1>1, <1>7, <1>8 DEF Parent
<1>10. IsAbove(q, p)
  BY <1>1, <1>2, <1>3, <1>4, <1>7 DEF IsAbove
<1> QED BY <1>5, <1>7, <1>9, <1>10

(* What is in a directory is one level below it. *)
LEMMA ChildLevel ==
  ASSUME NEW p \in Path
  PROVE  Len(p) = Len(Parent(p)) + 1
<1>1. p \in Seq(STRING) /\ Len(p) \in Nat \ {0}
  BY PathsAreSequences
<1>2. \A i \in 1 .. Len(p) - 1 : p[i] \in STRING
  BY <1>1, ElementOfSeq
<1> DEFINE n == Len(p) - 1
           l == Len(SubSeq(p, 1, n))
<1>3. 1 \in Int /\ n \in Nat /\ Len(p) = n + 1
  BY <1>1
<1>4. l = IF 1 <= n THEN n - 1 + 1 ELSE 0
  BY <1>2, <1>3, SubSeqProperties
<1>5. Len(Parent(p)) = l
  BY DEF Parent
<1> HIDE DEF n, l
<1> QED BY <1>3, <1>4, <1>5

-----------------------------------------------------------------------------
(* What the steps of a walk do *)

LEMMA Depths ==
  ASSUME NEW kind \in Walks
  PROVE  DepthOf(kind) \in Nat \ {0}
BY TreeAssumption DEF DepthOf, Walks, Passes

(* A listing has entries of the directory it is of. *)
LEMMA MetIsListed ==
  ASSUME TypeOK, NEW d, NEW e \in Met(d)
  PROVE  /\ e \in EntriesOf(site) /\ Parent(e[1]) = d
         /\ e[1] \in Path /\ site[e[1]] = e[2] /\ e[2] # "absent"
         /\ e[1] \in Dirs \/ at = "count" \/ e[2] = "kept"
         /\ e[1] \in MetPaths(d)
BY DEF Met, Listing, EntriesOf, MetPaths

LEMMA PathsMet ==
  ASSUME TypeOK, NEW d
  PROVE  /\ MetPaths(d) \subseteq Path /\ IsFiniteSet(MetPaths(d))
         /\ \A p \in MetPaths(d) : \E e \in Met(d) : p = e[1]
<1>1. MetPaths(d) \subseteq Path
  BY MetIsListed DEF MetPaths
<1>2. IsFiniteSet(MetPaths(d))
  BY <1>1, TreeAssumption, FS_Subset
<1> QED BY <1>1, <1>2 DEF MetPaths

(* The directories of a listing come before what was on the stack. *)
LEMMA StackAfter ==
  ASSUME TypeOK, ScopeInv, at \in Walks, NEW d, stack # <<>>, Pushes(d)
  PROVE  /\ stack' \in Seq(Dirs \cup {Root})
         /\ \A i \in 1 .. Len(stack') : Level(stack'[i]) <= DepthOf(at)
         /\ \A q \in Pushed(d) : \E i \in 1 .. Len(stack') : stack'[i] = q
         /\ \A i \in 2 .. Len(stack) : \E j \in 1 .. Len(stack') : stack'[j] = stack[i]
<1> DEFINE D == Dirs \cup {Root}
<1>1. PICK s \in Orders(Pushed(d)) : stack' = s \o Tail(stack)
  BY DEF Pushes
<1>2. Pushed(d) \subseteq Dirs /\ IsFiniteSet(Pushed(d))
  <2>1. IsFiniteSet(MetPaths(d)) /\ Pushed(d) \subseteq MetPaths(d)
    BY PathsMet DEF Pushed
  <2> QED BY <2>1, FS_Subset DEF Pushed
<1>3. Cardinality(Pushed(d)) \in Nat
  BY <1>2, FS_CardinalityType
<1> DEFINE n == Cardinality(Pushed(d))
<1> HIDE DEF n
<1>4. s \in [1 .. n -> Pushed(d)] /\ Range(s) = Pushed(d) /\ n \in Nat
  BY <1>3 DEF Orders, n
<1>5. s \in Seq(D) /\ Len(s) = n
  BY <1>2, <1>4
<1>6. /\ Tail(stack) \in Seq(D) /\ Len(Tail(stack)) = Len(stack) - 1
      /\ \A i \in 1 .. Len(Tail(stack)) : Tail(stack)[i] = stack[i + 1]
  BY HeadTailProperties DEF TypeOK
<1>7. Len(stack) \in Nat
  BY LenProperties DEF TypeOK
<1>8. /\ stack' \in Seq(D) /\ Len(stack') = Len(s) + Len(Tail(stack))
      /\ \A i \in 1 .. Len(s) + Len(Tail(stack)) :
           stack'[i] = IF i <= Len(s) THEN s[i] ELSE Tail(stack)[i - Len(s)]
  BY <1>1, <1>5, <1>6, ConcatProperties
<1>9. \A q \in Pushed(d) : \E i \in 1 .. Len(stack') : stack'[i] = q
  <2> TAKE q \in Pushed(d)
  <2>1. PICK i \in 1 .. n : s[i] = q
    BY <1>4 DEF Range
  <2>2. i \in 1 .. Len(stack') /\ stack'[i] = q
    BY <2>1, <1>4, <1>5, <1>6, <1>7, <1>8
  <2> QED BY <2>2
<1>10. \A i \in 2 .. Len(stack) : \E j \in 1 .. Len(stack') : stack'[j] = stack[i]
  <2> TAKE i \in 2 .. Len(stack)
  <2>1. n + i - 1 \in 1 .. Len(stack') /\ ~ (n + i - 1 <= Len(s))
    BY <1>4, <1>5, <1>6, <1>7, <1>8
  <2>2. stack'[n + i - 1] = Tail(stack)[i - 1]
    BY <2>1, <1>4, <1>5, <1>7, <1>8
  <2>3. Tail(stack)[i - 1] = stack[i]
    BY <1>6, <1>7
  <2> QED BY <2>1, <2>2, <2>3
<1>11. ASSUME NEW i \in 1 .. Len(stack') PROVE Level(stack'[i]) <= DepthOf(at)
  <2>1. CASE i <= n
    <3>1. stack'[i] \in Pushed(d)
      BY <2>1, <1>4, <1>5, <1>7, <1>6, <1>8
    <3> QED BY <3>1 DEF Pushed
  <2>2. CASE ~ (i <= n)
    <3>1. stack'[i] = Tail(stack)[i - n]
      BY <2>2, <1>4, <1>5, <1>8
    <3>2. i - n \in 1 .. Len(Tail(stack)) /\ (i - n) + 1 \in 1 .. Len(stack)
      BY <2>2, <1>4, <1>5, <1>6, <1>7, <1>8
    <3>3. stack'[i] = stack[(i - n) + 1]
      BY <3>1, <3>2, <1>6
    <3> QED BY <3>2, <3>3 DEF ScopeInv
  <2> QED BY <2>1, <2>2
<1> QED BY <1>8, <1>9, <1>10, <1>11

(* What is met is in scope; what was to be met below the directory is met   *)
(* or is below one of those that are pushed.                                *)
LEMMA ListingKeeps ==
  ASSUME WalkInv, at \in Walks, NEW d \in Dirs \cup {Root}, Lists(d), Pushes(d),
         at' = at, UNCHANGED <<site, lasting, ever>>
  PROVE  /\ ScopeInv' /\ CoverInv' /\ HistoryInv'
         /\ stack' \in Seq(Dirs \cup {Root}) /\ seen' \subseteq ever'
<1> USE DEF WalkInv
<1>1. stack # <<>> /\ d = Head(stack) /\ seen' = seen \cup Met(d)
  BY DEF Lists, Opens
<1>2. d = stack[1] /\ Len(stack) \in Nat \ {0}
  BY <1>1, LenProperties, EmptySeq DEF TypeOK
<1>3. /\ stack' \in Seq(Dirs \cup {Root})
      /\ \A i \in 1 .. Len(stack') : Level(stack'[i]) <= DepthOf(at)
      /\ \A q \in Pushed(d) : \E i \in 1 .. Len(stack') : stack'[i] = q
      /\ \A i \in 2 .. Len(stack) : \E j \in 1 .. Len(stack') : stack'[j] = stack[i]
  BY <1>1, StackAfter
<1>4. Len(d) \in Nat /\ Len(d) + 1 <= DepthOf(at) /\ DepthOf(at) \in Nat
  <2>1. Len(d) \in Nat
    BY PathsAreSequences, TreeAssumption, EmptySeq DEF Root
  <2>2. Level(stack[1]) <= DepthOf(at)
    BY <1>2 DEF ScopeInv
  <2> QED BY <2>1, <2>2, <1>2, Depths DEF Level
<1>5. ASSUME NEW e \in Met(d) PROVE Len(e[1]) <= DepthOf(at) /\ e \in ever
  BY <1>4, MetIsListed, ChildLevel DEF HistoryInv
<1>6. ScopeInv'
  BY <1>1, <1>3, <1>5 DEF ScopeInv, DepthOf, Level
<1>7. ASSUME NEW e \in lasting, InScope(at, e) PROVE Covered(e)'
  <2>1. e \in EntriesOf(site)
    BY DEF TypeOK
  <2>2. e[1] \in Path /\ site[e[1]] = e[2] /\ site[e[1]] # "absent" /\ Len(e[1]) <= DepthOf(at)
    BY <1>7, <2>1 DEF EntriesOf, InScope
  <2>3. CASE e \in seen
    BY <2>3, <1>1 DEF Covered
  <2>4. CASE \E i \in 2 .. Len(stack) : IsAbove(stack[i], e[1])
    BY <2>4, <1>3 DEF Covered
  <2>5. CASE IsAbove(d, e[1]) /\ Parent(e[1]) = d
    <3>1. e \in Met(d)
      BY <1>7, <2>1, <2>5 DEF Met, Listing, InScope
    <3> QED BY <3>1, <1>1 DEF Covered
  <2>6. CASE IsAbove(d, e[1]) /\ Parent(e[1]) # d
    <3>1. PICK q \in Dirs : Parent(q) = d /\ IsAbove(q, e[1]) /\ Len(q) = Len(d) + 1
      BY <2>2, <2>6, OneLevelDown
    <3>2. q \in Path /\ site[q] # "absent"
      BY <3>1, <2>2, TreeAssumption DEF SiteTree
    <3>3. <<q, site[q]>> \in Met(d)
      BY <3>1, <3>2 DEF Met, Listing, EntriesOf
    <3>4. q \in MetPaths(d)
      BY <3>3 DEF MetPaths
    <3>5. Level(q) <= DepthOf(at)
      <4>1. Len(q) < Len(e[1])
        BY <3>1 DEF IsAbove
      <4>2. Len(q) \in Nat /\ Len(e[1]) \in Nat
        BY <2>2, <3>2, PathsAreSequences
      <4> QED BY <4>1, <4>2, <2>2, <1>4 DEF Level
    <3>6. q \in Pushed(d)
      BY <3>1, <3>4, <3>5 DEF Pushed
    <3> QED BY <3>1, <3>6, <1>3 DEF Covered
  <2>7. Covered(e)
    BY <1>7 DEF CoverInv
  <2> QED BY <1>2, <2>3, <2>4, <2>5, <2>6, <2>7 DEF Covered
<1>8. CoverInv'
  BY <1>7 DEF CoverInv
<1>9. HistoryInv'
  BY DEF HistoryInv, EntriesOf
<1>10. seen' \subseteq ever'
  BY <1>1, <1>5 DEF TypeOK
<1> QED BY <1>3, <1>6, <1>8, <1>9, <1>10

(* A walk begins with the root, of which everything else is below. *)
LEMMA BeginKeeps ==
  ASSUME WalkInv, NEW kind \in Walks, BeginWalk(kind), UNCHANGED site
  PROVE  /\ ScopeInv' /\ CoverInv' /\ HistoryInv'
         /\ stack' \in Seq(Dirs \cup {Root}) /\ seen' \subseteq ever'
         /\ lasting' \subseteq EntriesOf(site)' /\ ever' \subseteq Path \X {"kept", "large"}
<1> USE DEF WalkInv, BeginWalk
<1>1. stack' \in Seq(Dirs \cup {Root}) /\ Len(stack') = 1 /\ stack'[1] = <<>>
  BY DEF Root
<1>2. Len(<<>>) = 0 /\ DepthOf(kind) \in Nat \ {0}
  BY EmptySeq, Depths
<1>3. ScopeInv'
  BY <1>1, <1>2 DEF ScopeInv, Level
<1>4. ASSUME NEW e \in EntriesOf(site) PROVE IsAbove(<<>>, e[1])
  <2>1. e[1] \in Path
    BY DEF EntriesOf
  <2>2. Len(e[1]) \in Nat \ {0}
    BY <2>1, PathsAreSequences
  <2>3. SubSeq(e[1], 1, 0) = <<>>
    BY SubSeqEmpty
  <2> QED BY <2>2, <2>3, <1>2 DEF IsAbove
<1>5. CoverInv'
  BY <1>1, <1>4 DEF CoverInv, Covered
<1>6. HistoryInv'
  BY DEF HistoryInv, EntriesOf
<1>7. EntriesOf(site) \subseteq Path \X {"kept", "large"}
  BY DEF EntriesOf, TypeOK, SiteState
<1> QED BY <1>1, <1>3, <1>5, <1>6, <1>7 DEF EntriesOf

(* A walk is over, or goes on as little as the site does. *)
LEMMA WalkStays ==
  ASSUME WalkInv, UNCHANGED <<site, stack, lasting, ever, seen>>,
         at' = at \/ (at \notin Walks /\ at' \notin Walks)
  PROVE  ScopeInv' /\ CoverInv' /\ HistoryInv'
BY DEF WalkInv, ScopeInv, CoverInv, Covered, HistoryInv, EntriesOf

LEMMA WalkLeft ==
  ASSUME WalkIsOver, stack' = <<>>, at' \notin Walks
  PROVE  ScopeInv' /\ CoverInv' /\ HistoryInv'
BY DEF WalkIsOver, ScopeInv, CoverInv, HistoryInv

-----------------------------------------------------------------------------
(* The site *)

LEMMA SiteKeeps ==
  ASSUME WalkInv, NEW s \in [Path -> SiteState], SiteBecomes(s),
         \A p, q \in Path : IsAbove(q, p) /\ s[p] # "absent" => s[q] # "absent",
         \A d \in Dirs : s[d] # "large"
  PROVE  WalkInv'
<1> USE DEF WalkInv, SiteBecomes, backup, records
<1>1. EntriesOf(s) \subseteq Path \X {"kept", "large"}
  BY DEF EntriesOf, SiteState
<1>2. TypeOK'
  <2>1. lasting' \subseteq EntriesOf(site)'
    BY DEF EntriesOf
  <2>2. ever' \subseteq Path \X {"kept", "large"} /\ seen' \subseteq ever'
    BY <1>1 DEF TypeOK, HistoryInv
  <2>3. moves' \in 0 .. MaxMoves
    BY TreeAssumption DEF TypeOK
  <2> QED BY <2>1, <2>2, <2>3 DEF TypeOK
<1>3. SiteTree'
  BY DEF SiteTree
<1>4. HistoryInv'
  BY DEF HistoryInv, EntriesOf
<1>5. ScopeInv' /\ CoverInv'
  BY DEF ScopeInv, CoverInv, Covered
<1>6. NodesInv' /\ MissedInv' /\ CountInv'
  BY DEF NodesInv, MissedInv, CountInv, Stored
<1> QED BY <1>2, <1>3, <1>4, <1>5, <1>6

(* Above a directory there are only directories. *)
LEMMA AboveIsTransitive ==
  ASSUME NEW p \in Path, NEW q \in Path, NEW r \in Path, IsAbove(p, q), IsAbove(q, r)
  PROVE  IsAbove(p, r)
<1>1. /\ p \in Seq(STRING) /\ Len(p) \in Nat \ {0}
      /\ q \in Seq(STRING) /\ Len(q) \in Nat \ {0}
      /\ r \in Seq(STRING) /\ Len(r) \in Nat \ {0}
  BY PathsAreSequences
<1>2. Len(p) < Len(q) /\ Len(q) < Len(r) /\ SubSeq(q, 1, Len(p)) = p /\ SubSeq(r, 1, Len(q)) = q
  BY DEF IsAbove
<1>3. /\ 1 \in 1 .. Len(r) /\ Len(q) \in 1 .. Len(r)
      /\ 1 \in 1 .. Len(q) - 1 + 1 /\ Len(p) \in 1 .. Len(q) - 1 + 1
  BY <1>1, <1>2
<1>4. SubSeq(SubSeq(r, 1, Len(q)), 1, Len(p)) = SubSeq(r, 1 + 1 - 1, 1 + Len(p) - 1)
  BY <1>1, <1>3, SubSeqOfSubSeq
<1>5. SubSeq(r, 1, Len(p)) = p
  BY <1>1, <1>2, <1>4
<1> QED BY <1>1, <1>2, <1>5 DEF IsAbove

LEMMA SiteStepKeeps ==
  ASSUME WalkInv, NEW p \in Path, Appears(p) \/ Goes(p) \/ ChangesSize(p)
  PROVE  WalkInv'
<1> USE DEF WalkInv, TypeOK, SiteTree, SiteState
<1>1. CASE Appears(p)
  <2> DEFINE s == [site EXCEPT ![p] = "kept"]
  <2>1. s \in [Path -> SiteState] /\ SiteBecomes(s)
    BY <1>1 DEF Appears
  <2>2. \A q, r \in Path : IsAbove(q, r) /\ s[r] # "absent" => s[q] # "absent"
    BY <1>1 DEF Appears
  <2>3. \A d \in Dirs : s[d] # "large"
    BY TreeAssumption
  <2> HIDE DEF s
  <2> QED BY <2>1, <2>2, <2>3, SiteKeeps
<1>2. CASE Goes(p)
  <2> DEFINE s == [q \in Path |-> IF q = p \/ IsAbove(p, q) THEN "absent" ELSE site[q]]
  <2>1. s \in [Path -> SiteState] /\ SiteBecomes(s)
    BY <1>2 DEF Goes
  <2>2. \A q, r \in Path : IsAbove(q, r) /\ s[r] # "absent" => s[q] # "absent"
    BY AboveIsTransitive
  <2>3. \A d \in Dirs : s[d] # "large"
    BY TreeAssumption
  <2> HIDE DEF s
  <2> QED BY <2>1, <2>2, <2>3, SiteKeeps
<1>3. CASE ChangesSize(p)
  <2> DEFINE s == [site EXCEPT ![p] = IF site[p] = "kept" THEN "large" ELSE "kept"]
  <2>1. s \in [Path -> SiteState] /\ SiteBecomes(s)
    BY <1>3 DEF ChangesSize
  <2>2. \A q, r \in Path : IsAbove(q, r) /\ s[r] # "absent" => s[q] # "absent"
    BY <1>3 DEF ChangesSize
  <2>3. \A d \in Dirs : s[d] # "large"
    BY <1>3, TreeAssumption DEF ChangesSize, Files
  <2> HIDE DEF s
  <2> QED BY <2>1, <2>2, <2>3, SiteKeeps
<1> QED BY <1>1, <1>2, <1>3

-----------------------------------------------------------------------------
(* What a download adds to the backup *)

LEMMA NodesGrow ==
  ASSUME TypeOK, NodesInv, CountInv, at \notin Passes, at' \notin Passes,
         NEW S \in SUBSET Path, GetsNodes(S)
  PROVE  /\ nodes' \in [Path -> Nat] /\ hash' \subseteq Path /\ hash \subseteq hash'
         /\ NodesInv'
         /\ Cardinality(Stored') <= backupsize + Cardinality(S \cap Files)
         /\ Cardinality(Stored') \in Nat /\ Cardinality(S \cap Files) \in Nat
         /\ S \cap Files = {} => Stored' = Stored
<1> USE DEF GetsNodes, Stored
<1>1. nodes' \in [Path -> Nat] /\ hash' \subseteq Path /\ hash \subseteq hash'
  BY DEF TypeOK
<1>2. NodesInv'
  BY <1>1 DEF TypeOK, NodesInv
<1>3. IsFiniteSet(S \cap Files) /\ IsFiniteSet(hash \cap Files) /\ IsFiniteSet(hash' \cap Files)
  BY <1>1, TreeAssumption, FS_Subset DEF TypeOK, Files
<1>4. /\ Cardinality(S \cap Files) \in Nat /\ Cardinality(hash \cap Files) \in Nat
      /\ Cardinality(hash' \cap Files) \in Nat
      /\ Cardinality((hash \cap Files) \cap (S \cap Files)) \in Nat
  <2>1. IsFiniteSet((hash \cap Files) \cap (S \cap Files))
    BY <1>3, FS_Subset
  <2> QED BY <1>3, <2>1, FS_CardinalityType
<1>5. hash' \cap Files = (hash \cap Files) \cup (S \cap Files)
  OBVIOUS
<1>6. Cardinality(hash' \cap Files) =
        Cardinality(hash \cap Files) + Cardinality(S \cap Files)
          - Cardinality((hash \cap Files) \cap (S \cap Files))
  BY <1>3, <1>5, FS_Union
<1>7. Cardinality(hash' \cap Files) <= backupsize + Cardinality(S \cap Files)
  BY <1>4, <1>6 DEF CountInv, TypeOK
<1>8. S \cap Files = {} => hash' \cap Files = hash \cap Files
  BY <1>5
<1> QED BY <1>1, <1>2, <1>4, <1>7, <1>8

-----------------------------------------------------------------------------
(* The steps of a walk *)

LEMMA CountsKeeps ==
  ASSUME WalkInv, NEW d \in Dirs \cup {Root}, CountsDir(d)
  PROVE  WalkInv'
<1> USE DEF WalkInv, owner, backup, records, Walks, Passes
<1>1. /\ at = "count" /\ at' = at /\ Lists(d) /\ Pushes(d)
      /\ totalnum' = (totalnum \/ MetPaths(d) \cap Files # {})
      /\ UNCHANGED <<owner, backup, touched, records, disksize, enable, lasting, ever, missed>>
  BY DEF CountsDir
<1>2. /\ ScopeInv' /\ CoverInv' /\ HistoryInv'
      /\ stack' \in Seq(Dirs \cup {Root}) /\ seen' \subseteq ever'
  BY <1>1, ListingKeeps
<1>3. TypeOK'
  BY <1>1, <1>2 DEF TypeOK, EntriesOf
<1>4. SiteTree' /\ MissedInv' /\ CountInv'
  BY <1>1 DEF SiteTree, MissedInv, CountInv, Stored
<1>5. NodesInv'
  BY <1>1 DEF NodesInv
<1> QED BY <1>2, <1>3, <1>4, <1>5

LEMMA DownloadsKeeps ==
  ASSUME WalkInv, NEW d \in Dirs \cup {Root}, DownloadsDir(d)
  PROVE  WalkInv'
<1> USE DEF WalkInv, owner, records, Walks, Passes
<1> DEFINE F == MetPaths(d) \cap Files
<1>1. /\ at = "download" /\ at' = at /\ Lists(d) /\ Pushes(d)
      /\ HasSpace(F) \/ F = {}
      /\ backupsize' = backupsize + Cardinality(F) /\ GetsNodes(MetPaths(d))
      /\ UNCHANGED <<owner, touched, records, disksize, totalnum, isbackuped, mark, enable,
                     lasting, ever, missed>>
  BY DEF DownloadsDir
<1>2. /\ ScopeInv' /\ CoverInv' /\ HistoryInv'
      /\ stack' \in Seq(Dirs \cup {Root}) /\ seen' \subseteq ever'
  BY <1>1, ListingKeeps
<1>3. /\ nodes' \in [Path -> Nat] /\ hash' \subseteq Path /\ hash \subseteq hash'
      /\ NodesInv'
      /\ Cardinality(Stored') <= backupsize + Cardinality(F)
      /\ Cardinality(Stored') \in Nat /\ Cardinality(F) \in Nat
  <2>1. MetPaths(d) \in SUBSET Path
    BY PathsMet
  <2> QED BY <2>1, <1>1, NodesGrow
<1>4. TypeOK'
  BY <1>1, <1>2, <1>3 DEF TypeOK, EntriesOf
<1>5. SiteTree' /\ MissedInv'
  BY <1>1, <1>3 DEF SiteTree, MissedInv
<1>6. CountInv'
  BY <1>1, <1>3 DEF CountInv
<1> QED BY <1>2, <1>3, <1>4, <1>5, <1>6

LEMMA ExceedsKeeps ==
  ASSUME WalkInv, NEW d \in Dirs \cup {Root}, DownloadExceeds(d)
  PROVE  WalkInv'
<1> USE DEF WalkInv, owner, records, Walks, Passes
<1>1. /\ at = "download" /\ at' = "top" /\ stack' = <<>> /\ enable' = FALSE /\ WalkIsOver
      /\ UNCHANGED <<owner, touched, records, totalnum, isbackuped, mark, missed>>
      /\ disksize' \in Disk
  BY DEF DownloadExceeds
<1>2. PICK S \in SUBSET MetPaths(d) :
        /\ HasSpace(S \cap Files) \/ S \cap Files = {}
        /\ backupsize' = backupsize + Cardinality(S \cap Files) + 1
        /\ GetsNodes(S)
  BY DEF DownloadExceeds
<1> DEFINE F == S \cap Files
<1>3. ScopeInv' /\ CoverInv' /\ HistoryInv'
  BY <1>1, WalkLeft
<1>4. /\ nodes' \in [Path -> Nat] /\ hash' \subseteq Path /\ hash \subseteq hash'
      /\ NodesInv'
      /\ Cardinality(Stored') <= backupsize + Cardinality(F)
      /\ Cardinality(Stored') \in Nat /\ Cardinality(F) \in Nat
  <2>1. S \in SUBSET Path
    BY <1>2, PathsMet
  <2> QED BY <2>1, <1>1, <1>2, NodesGrow
<1>5. TypeOK'
  <2>1. backupsize' \in Nat /\ touched' \subseteq hash'
    BY <1>1, <1>2, <1>4 DEF TypeOK
  <2>2. /\ lasting' \subseteq EntriesOf(site)' /\ ever' \subseteq Path \X {"kept", "large"}
        /\ seen' \subseteq ever' /\ stack' \in Seq(Dirs \cup {Root}) /\ at' \in Places
    BY <1>1 DEF WalkIsOver, Places
  <2> QED BY <2>1, <2>2, <1>1, <1>4 DEF TypeOK
<1>6. SiteTree' /\ MissedInv'
  BY <1>1, <1>4 DEF SiteTree, MissedInv
<1>7. CountInv'
  <2>1. backupsize \in Nat /\ backupsize' = backupsize + Cardinality(F) + 1
    BY <1>2 DEF TypeOK
  <2> HIDE DEF F
  <2> QED BY <2>1, <1>4 DEF CountInv
<1> QED BY <1>3, <1>4, <1>5, <1>6, <1>7

LEMMA ComparesKeeps ==
  ASSUME WalkInv, NEW d \in Dirs \cup {Root}, ComparesDir(d)
  PROVE  WalkInv'
<1> USE DEF WalkInv, owner, backup, Walks, Passes
<1>1. /\ at \in Passes /\ at' = at /\ Lists(d) /\ Pushes(d)
      /\ added' = added \cup (MetPaths(d) \ (hash \cup deleted))
      /\ touched' = touched \cup (MetPaths(d) \cap hash)
      /\ UNCHANGED <<owner, backup, deleted, disksize, totalnum, enable, lasting, ever, missed>>
  BY DEF ComparesDir
<1>2. /\ ScopeInv' /\ CoverInv' /\ HistoryInv'
      /\ stack' \in Seq(Dirs \cup {Root}) /\ seen' \subseteq ever'
  BY <1>1, ListingKeeps
<1>3. TypeOK'
  <2>1. MetPaths(d) \subseteq Path
    BY PathsMet
  <2> QED BY <2>1, <1>1, <1>2 DEF TypeOK, EntriesOf
<1>4. SiteTree' /\ CountInv'
  BY <1>1 DEF SiteTree, CountInv, Stored
<1>5. NodesInv'
  <2>1. \A e \in Met(d) : e[1] \in MetPaths(d)
    BY MetIsListed
  <2>2. seen' = seen \cup Met(d)
    BY <1>1 DEF Lists
  <2> QED BY <1>1, <2>1, <2>2 DEF NodesInv
<1>6. MissedInv'
  <2>1. ASSUME NEW p \in missed PROVE p \notin MetPaths(d)
    <3>1. SUFFICES ASSUME p \in MetPaths(d) PROVE FALSE
      OBVIOUS
    <3>2. PICK e \in Met(d) : p = e[1]
      BY <3>1, PathsMet
    <3>3. site[p] # "kept" /\ site[p] # "absent" /\ (p \in Dirs \/ site[p] = "kept")
      BY <3>2, <1>1, MetIsListed DEF MissedInv
    <3>4. site[p] = "large"
      BY <3>2, <3>3, MetIsListed DEF TypeOK, SiteState
    <3> QED BY <3>3, <3>4 DEF SiteTree
  <2> QED BY <2>1, <1>1 DEF MissedInv
<1> QED BY <1>2, <1>3, <1>4, <1>5, <1>6

LEMMA PassEndKeeps == ASSUME WalkInv, PassEnds PROVE WalkInv'
<1> USE DEF WalkInv, owner, backup, Walks, Passes
<1>1. /\ at \in Passes /\ stack = <<>> /\ WalkIsOver
      /\ deleted' = deleted \cup ((Untouched \cap Walked(at)) \ added)
      /\ touched' = touched \ Walked(at)
      /\ at' = IF at = "root" THEN "restore" ELSE "last"
      /\ missed' = IF at = "root" THEN missed
                   ELSE {p \in hash \cap Walked(at) :
                           p \notin added \cup deleted' /\ site[p] # "kept"}
      /\ UNCHANGED <<stack, owner, backup, added, disksize, totalnum, enable>>
  BY DEF PassEnds, MarksLeft, AfterPass
<1>2. ScopeInv' /\ CoverInv' /\ HistoryInv'
  BY <1>1, WalkLeft
<1>3. TypeOK'
  BY <1>1 DEF TypeOK, WalkIsOver, Untouched, EntriesOf, Places
<1>4. SiteTree' /\ CountInv' /\ NodesInv'
  BY <1>1 DEF SiteTree, CountInv, Stored, NodesInv
<1>5. MissedInv'
  <2>1. CASE at = "root"
    BY <2>1, <1>1 DEF MissedInv
  <2>2. CASE at = "full"
    <3>1. DepthOf(at) = Depth
      BY <2>2 DEF DepthOf
    <3> QED BY <2>2, <3>1, <1>1 DEF MissedInv, Walked
  <2> QED BY <1>1, <2>1, <2>2
<1> QED BY <1>2, <1>3, <1>4, <1>5

(* Steps that leave the tree of the backup and its marks as they are. *)
LEMMA OthersKeep ==
  ASSUME WalkInv, UNCHANGED <<site, moves, nodes, hash, touched, backupsize, missed>>,
         at' \in Places, stack' \in Seq(Dirs \cup {Root}),
         added' \subseteq Path, deleted' \subseteq Path,
         disksize' \in Disk,
         totalnum' \in BOOLEAN, isbackuped' \in BOOLEAN, mark' \in {"0", "1"},
         enable' \in BOOLEAN, seen' \subseteq ever', ever' \subseteq Path \X {"kept", "large"},
         lasting' \subseteq EntriesOf(site)', seen' = {},
         ScopeInv', CoverInv', HistoryInv'
  PROVE  WalkInv'
<1> USE DEF WalkInv
<1>1. TypeOK'
  BY DEF TypeOK
<1>2. SiteTree' /\ MissedInv' /\ NodesInv'
  BY DEF SiteTree, MissedInv, NodesInv
<1>3. CountInv'
  BY DEF CountInv, Stored
<1> QED BY <1>1, <1>2, <1>3

LEMMA WalkEndKeeps ==
  ASSUME WalkInv, BreaksOff \/ CountEnds \/ DownloadEnds
  PROVE  WalkInv'
<1> USE DEF WalkInv, owner, backup, records, Walks, Passes
<1>1. /\ WalkIsOver /\ stack' = <<>> /\ at' \in {"branch", "poll", "restore", "last"}
      /\ UNCHANGED <<site, moves, nodes, hash, touched, backupsize, missed,
                     added, deleted, disksize, enable>>
      /\ totalnum' \in {FALSE, totalnum} /\ isbackuped' \in {TRUE, isbackuped}
      /\ mark' \in {"1", mark}
  <2>1. CASE BreaksOff
    <3>1. CASE CountBreaksOff
      BY <2>1, <3>1 DEF BreaksOff, CountBreaksOff
    <3>2. CASE DownloadBreaksOff
      BY <2>1, <3>2 DEF BreaksOff, DownloadBreaksOff
    <3>3. CASE PassBreaksOff
      BY <2>1, <3>3 DEF BreaksOff, PassBreaksOff, AfterPass
    <3> QED BY <2>1, <3>1, <3>2, <3>3 DEF BreaksOff
  <2>2. CASE CountEnds
    BY <2>2 DEF CountEnds
  <2>3. CASE DownloadEnds
    BY <2>3 DEF DownloadEnds
  <2> QED BY <2>1, <2>2, <2>3
<1>2. ScopeInv' /\ CoverInv' /\ HistoryInv'
  BY <1>1, WalkLeft
<1>4. /\ at' \in Places /\ seen' = {} /\ seen' \subseteq ever' /\ lasting' \subseteq EntriesOf(site)'
      /\ ever' \subseteq Path \X {"kept", "large"} /\ stack' \in Seq(Dirs \cup {Root})
  BY <1>1, EmptySeq DEF WalkIsOver, Places
<1>5. /\ added' \subseteq Path /\ deleted' \subseteq Path /\ disksize' \in Disk
      /\ totalnum' \in BOOLEAN /\ isbackuped' \in BOOLEAN
      /\ mark' \in {"0", "1"} /\ enable' \in BOOLEAN
  <2>1. totalnum' \in BOOLEAN
    BY <1>1 DEF TypeOK
  <2>2. isbackuped' \in BOOLEAN
    BY <1>1 DEF TypeOK
  <2>3. mark' \in {"0", "1"}
    BY <1>1 DEF TypeOK
  <2> QED BY <2>1, <2>2, <2>3, <1>1 DEF TypeOK
<1> QED BY <1>1, <1>2, <1>4, <1>5, OthersKeep

-----------------------------------------------------------------------------
(* The loop *)

LEMMA LoopBeginsWalk ==
  ASSUME WalkInv, Connects \/ BranchDownloads \/ \E kind \in Passes : PollsOn(kind)
  PROVE  WalkInv'
<1> USE DEF WalkInv, owner, backup, records, Walks, Passes
<1>1. /\ UNCHANGED <<site, moves, nodes, hash, touched, backupsize, missed, isbackuped,
                     added, deleted, disksize, totalnum, enable>>
      /\ mark' \in {"0", mark} /\ at \notin Walks
  BY DEF Connects, BranchDownloads, PollsOn
<1>3. ASSUME NEW kind \in Walks, BeginWalk(kind) PROVE WalkInv'
  <2>1. /\ ScopeInv' /\ CoverInv' /\ HistoryInv'
        /\ stack' \in Seq(Dirs \cup {Root}) /\ seen' \subseteq ever'
        /\ lasting' \subseteq EntriesOf(site)' /\ ever' \subseteq Path \X {"kept", "large"}
    BY <1>1, <1>3, BeginKeeps
  <2>2. at' \in Places /\ seen' = {}
    BY <1>3 DEF BeginWalk, Places
  <2> QED BY <1>1, <2>1, <2>2, OthersKeep DEF TypeOK
<1>4. CASE UNCHANGED <<stack, lasting, ever, seen>> /\ at' = "branch"
  <2>1. ScopeInv' /\ CoverInv' /\ HistoryInv'
    BY <1>1, <1>4, WalkStays
  <2>2. seen' = {} /\ at' \in Places /\ lasting' = {} /\ ever' = {} /\ stack' = <<>>
    BY <1>1, <1>4 DEF HistoryInv, Places
  <2> QED BY <1>1, <2>1, <2>2, OthersKeep DEF TypeOK
<1> QED BY <1>3, <1>4 DEF Connects, BranchDownloads, PollsOn

LEMMA LoopKeeps ==
  ASSUME WalkInv, BranchPauses \/ BranchPolls \/ Resumes \/ PollStops \/ Settle
  PROVE  WalkInv'
<1> USE DEF WalkInv, owner, backup, records, Walks, Passes
<1>1. /\ UNCHANGED <<site, moves, stack, nodes, hash, touched, backupsize, history, isbackuped,
                     mark, totalnum>>
      /\ at \notin Walks /\ at' \in Places \ Walks /\ enable' \in BOOLEAN
      /\ disksize' \in Disk /\ added' \subseteq Path /\ deleted' \subseteq Path
  <2>1. disksize \in Disk
    BY DEF TypeOK
  <2>2. CASE BranchPauses
    BY <2>1, <2>2 DEF BranchPauses, Places, TypeOK
  <2>3. CASE BranchPolls
    BY <2>1, <2>3 DEF BranchPolls, Places, TypeOK
  <2>4. CASE Resumes
    BY <2>1, <2>4 DEF Resumes, Places, TypeOK
  <2>5. CASE PollStops
    BY <2>1, <2>5 DEF PollStops, Places, TypeOK
  <2>6. CASE Settle
    BY <2>1, <2>6 DEF Settle, Places, TypeOK
  <2> QED BY <2>2, <2>3, <2>4, <2>5, <2>6
<1>2. ScopeInv' /\ CoverInv' /\ HistoryInv'
  BY <1>1, WalkStays DEF history
<1>3. seen' = {} /\ lasting' = {} /\ ever' = {} /\ stack' = <<>> /\ missed' = missed
  BY <1>1 DEF HistoryInv, history
<1> QED BY <1>1, <1>2, <1>3, OthersKeep DEF TypeOK, history

LEMMA SizeKeeps == ASSUME WalkInv, SetDiskSize PROVE WalkInv'
<1> USE DEF WalkInv, SetDiskSize, owner, backup, records, history
<1>1. TypeOK'
  BY DEF TypeOK, EntriesOf
<1>2. SiteTree' /\ MissedInv' /\ NodesInv' /\ CountInv'
  BY DEF SiteTree, MissedInv, NodesInv, CountInv, Stored
<1>3. ScopeInv' /\ CoverInv' /\ HistoryInv'
  BY WalkStays
<1> QED BY <1>1, <1>2, <1>3

LEMMA CleanKeeps == ASSUME WalkInv, Clean PROVE WalkInv'
<1> USE DEF WalkInv, owner, Walks, Passes
<1>1. /\ at \notin Walks /\ at' = "top" /\ enable' = (enable \/ at = "paused")
      /\ nodes' = [p \in Path |-> 0] /\ hash' = {} /\ touched' = {}
      /\ added' = {} /\ deleted' = {} /\ missed' = {} /\ backupsize' = 0 /\ isbackuped' = FALSE
      /\ UNCHANGED <<stack, owner, disksize, totalnum, mark, lasting, ever, seen>>
  BY DEF Clean
<1>2. ScopeInv' /\ CoverInv' /\ HistoryInv'
  BY <1>1, WalkStays
<1>3. seen = {} /\ lasting = {} /\ ever = {} /\ stack = <<>>
  BY <1>1 DEF HistoryInv
<1>4. TypeOK'
  BY <1>1, <1>3 DEF TypeOK, Places
<1>5. SiteTree' /\ MissedInv' /\ NodesInv'
  BY <1>1 DEF SiteTree, MissedInv, NodesInv
<1>6. CountInv'
  BY <1>1, FS_EmptySet DEF CountInv, Stored
<1> QED BY <1>2, <1>4, <1>5, <1>6

-----------------------------------------------------------------------------
(* The theorems *)

LEMMA InitKeeps == Init => WalkInv
<1> SUFFICES ASSUME Init PROVE WalkInv
  OBVIOUS
<1> USE DEF Init, Walks, Passes
<1>1. TypeOK
  <2>1. site \in [Path -> SiteState] /\ stack \in Seq(Dirs \cup {Root}) /\ 0 \in 0 .. MaxMoves
    BY TreeAssumption, EmptySeq DEF SiteState
  <2>2. nodes \in [Path -> Nat] /\ at \in Places
    BY DEF Places
  <2> QED BY <2>1, <2>2 DEF TypeOK
<1>2. SiteTree
  BY TreeAssumption DEF SiteTree
<1>3. HistoryInv /\ ScopeInv /\ CoverInv /\ NodesInv /\ MissedInv
  BY DEF HistoryInv, ScopeInv, CoverInv, NodesInv, MissedInv
<1>4. CountInv
  BY FS_EmptySet DEF CountInv, Stored
<1> QED BY <1>1, <1>2, <1>3, <1>4 DEF WalkInv

LEMMA NextKeeps == WalkInv /\ [Next]_vars => WalkInv'
<1> SUFFICES ASSUME WalkInv, [Next]_vars PROVE WalkInv'
  OBVIOUS
<1>1. CASE UNCHANGED vars
  BY <1>1 DEF vars, history, WalkInv, TypeOK, SiteTree, HistoryInv, ScopeInv, CoverInv, Covered,
              NodesInv, MissedInv, CountInv, Stored, EntriesOf, InScope
<1>2. CASE \E p \in Path : Appears(p) \/ Goes(p) \/ ChangesSize(p)
  BY <1>2, SiteStepKeeps
<1>3. CASE WalkProceeds \/ BreaksOff
  BY <1>3, CountsKeeps, DownloadsKeeps, ExceedsKeeps, ComparesKeeps, PassEndKeeps, WalkEndKeeps
     DEF WalkProceeds
<1>4. CASE Clean \/ Connects \/ BranchPauses \/ BranchDownloads \/ BranchPolls \/ Resumes \/ SetDiskSize
           \/ (\E kind \in Passes : PollsOn(kind)) \/ PollStops \/ Settle
  BY <1>4, CleanKeeps, LoopBeginsWalk, LoopKeeps, SizeKeeps
<1> QED BY <1>1, <1>2, <1>3, <1>4 DEF Next

(* In every state the variables have their types, the unmet part of the    *)
(* site is below the directories that wait on the stack, and broken-off    *)
(* passes leave no mark on what was missed.                                *)
THEOREM WalkInvariant == Spec => []WalkInv
BY InitKeeps, NextKeeps, PTL DEF Spec

(* A walk that comes to its end has met all that was there all the time in *)
(* its scope, whatever the site and the depths (core.c 514-630).           *)
THEOREM WalksMeetAll == Spec => []WalkMeets
<1>1. WalkInv => WalkMeets
  <2> SUFFICES ASSUME WalkInv, at \in Walks, stack = <<>>
               PROVE  /\ {e \in lasting : InScope(at, e)} \subseteq seen
                      /\ \A e \in seen : Len(e[1]) <= DepthOf(at) /\ e \in ever
    BY DEF WalkMeets
  <2>1. Len(stack) = 0
    BY EmptySeq
  <2> QED BY <2>1 DEF WalkInv, CoverInv, Covered, ScopeInv, TypeOK
<1> QED BY <1>1, WalkInvariant, PTL

(* What is stored was looked at: a step that changes the hash is a download, *)
(* or empties it.                                                          *)
LEMMA StoredByDownload ==
  ASSUME WalkInv, [Next]_vars, ~(Stored' \subseteq Stored)
  PROVE  \E d \in Dirs \cup {Root} : DownloadsDir(d) \/ DownloadExceeds(d)
<1> USE DEF owner, backup, records, Stored
<1>1. CASE UNCHANGED vars
  BY <1>1 DEF vars
<1>2. CASE \E q \in Path : Appears(q) \/ Goes(q) \/ ChangesSize(q)
  BY <1>2 DEF Appears, Goes, ChangesSize, SiteBecomes
<1>3. CASE WalkProceeds \/ BreaksOff
  BY <1>3 DEF WalkProceeds, CountsDir, ComparesDir, CountEnds, DownloadEnds, PassEnds,
              BreaksOff, CountBreaksOff, DownloadBreaksOff, PassBreaksOff
<1>4. CASE Clean \/ Connects \/ BranchPauses \/ BranchDownloads \/ BranchPolls \/ Resumes
           \/ SetDiskSize \/ (\E kind \in Passes : PollsOn(kind)) \/ PollStops \/ Settle
  BY <1>4 DEF Clean, Connects, BranchPauses, BranchDownloads, BranchPolls, Resumes, PollsOn,
              PollStops, Settle, SetDiskSize
<1> QED BY <1>1, <1>2, <1>3, <1>4 DEF Next

(* A file is stored only if it fits the disk size of that moment with all  *)
(* that is stored, and all of it is counted, although the size may be set  *)
(* to anything at any time (core.c 583-589, cli_unix.c 1603-1608).         *)
THEOREM BackupsFit == Spec => BackupFits
<1> DEFINE Fits == /\ ~(Stored' \subseteq Stored) => Cardinality(Stored') < disksize
                   /\ Cardinality(Stored') <= backupsize'
<1>1. WalkInv /\ [Next]_vars => Fits
  <2> SUFFICES ASSUME WalkInv, [Next]_vars PROVE Fits
    OBVIOUS
  <2>1. Cardinality(Stored') <= backupsize'
    BY NextKeeps DEF WalkInv, CountInv
  <2>2. ASSUME ~(Stored' \subseteq Stored) PROVE Cardinality(Stored') < disksize
    <3>1. PICK d \in Dirs \cup {Root} : DownloadsDir(d) \/ DownloadExceeds(d)
      BY <2>2, StoredByDownload
    <3>2. backupsize \in Nat /\ disksize \in Nat
      BY TreeAssumption DEF WalkInv, TypeOK
    <3>3. PICK S \in SUBSET MetPaths(d) :
             GetsNodes(S) /\ (HasSpace(S \cap Files) \/ S \cap Files = {})
      BY <3>1 DEF DownloadsDir, DownloadExceeds
    <3>4. at \notin Passes /\ at' \notin Passes
      BY <3>1 DEF DownloadsDir, DownloadExceeds, Passes
    <3>5. S \in SUBSET Path
      BY <3>3, PathsMet DEF WalkInv
    <3>6. /\ Cardinality(Stored') <= backupsize + Cardinality(S \cap Files)
          /\ Cardinality(Stored') \in Nat /\ Cardinality(S \cap Files) \in Nat
          /\ S \cap Files = {} => Stored' = Stored
      BY <3>3, <3>4, <3>5, NodesGrow DEF WalkInv
    <3>7. backupsize + Cardinality(S \cap Files) < disksize
      BY <2>2, <3>3, <3>6 DEF HasSpace
    <3> QED BY <3>2, <3>6, <3>7
  <2> QED BY <2>1, <2>2
<1> QED BY <1>1, WalkInvariant, PTL DEF Spec, BackupFits

(* Only walk_dirtree records what is deleted. *)
LEMMA DeletedByPassEnds ==
  ASSUME WalkInv, [Next]_vars, NEW p \in deleted' \ deleted
  PROVE  PassEnds
<1> USE DEF owner, backup, records
<1>1. CASE UNCHANGED vars
  BY <1>1 DEF vars
<1>2. CASE \E q \in Path : Appears(q) \/ Goes(q) \/ ChangesSize(q)
  BY <1>2 DEF Appears, Goes, ChangesSize, SiteBecomes
<1>3. CASE WalkProceeds \/ BreaksOff
  BY <1>3 DEF WalkProceeds, CountsDir, DownloadsDir, DownloadExceeds, ComparesDir,
              CountEnds, DownloadEnds, BreaksOff, CountBreaksOff, DownloadBreaksOff, PassBreaksOff
<1>4. CASE Clean \/ Connects \/ BranchPauses \/ BranchDownloads \/ BranchPolls \/ Resumes \/ SetDiskSize
           \/ (\E kind \in Passes : PollsOn(kind)) \/ PollStops \/ Settle
  BY <1>4 DEF Clean, Connects, BranchPauses, BranchDownloads, BranchPolls, Resumes, PollsOn,
              PollStops, Settle, SetDiskSize
<1> QED BY <1>1, <1>2, <1>3, <1>4 DEF Next

(* What was there all the time is reported as deleted only if it has a     *)
(* second node (core.c 387-417, 661-667).                                  *)
THEOREM DeletedWasNotLasting == Spec => NoFalseDelete
<1> DEFINE Kept == \A p \in deleted' \ deleted : nodes[p] = 1 => <<p, "kept">> \notin lasting
<1>1. WalkInv /\ [Next]_vars => Kept
  <2> SUFFICES ASSUME WalkInv, [Next]_vars, NEW p \in deleted' \ deleted, nodes[p] = 1,
                      <<p, "kept">> \in lasting
               PROVE  FALSE
    OBVIOUS
  <2>1. PassEnds
    BY DeletedByPassEnds
  <2>2. at \in Passes /\ stack = <<>> /\ p \in Untouched \cap Walked(at)
    BY <2>1 DEF PassEnds
  <2>3. p \in Path /\ p \notin touched /\ Len(p) <= DepthOf(at)
    BY <2>2 DEF Untouched, Walked
  <2>4. <<p, "kept">> \in seen
    <3>1. InScope(at, <<p, "kept">>)
      BY <2>3 DEF InScope
    <3>2. Len(stack) = 0 /\ at \in Walks
      BY <2>2, EmptySeq DEF Walks, Passes
    <3> QED BY <3>1, <3>2 DEF WalkInv, CoverInv, Covered
  <2> QED BY <2>2, <2>3, <2>4 DEF WalkInv, NodesInv
<1> QED BY <1>1, WalkInvariant, PTL DEF Spec, NoFalseDelete

(* What a whole full pass did not report although it was away is reported  *)
(* by the next one (core.c 390-414).                                       *)
THEOREM MissedIsReported == Spec => ReportedAtLast
<1> DEFINE Reported == at = "full" /\ PassEnds => missed \subseteq added \cup deleted'
<1>1. WalkInv /\ [Next]_vars => Reported
  <2> SUFFICES ASSUME WalkInv, at = "full", PassEnds, NEW p \in missed
               PROVE  p \in added \cup deleted'
    OBVIOUS
  <2>1. p \in Path /\ p \in hash /\ p \notin touched /\ Len(p) <= Depth
    BY DEF WalkInv, MissedInv, TypeOK
  <2>2. nodes[p] \in Nat /\ nodes[p] # 0
    BY <2>1 DEF WalkInv, NodesInv, TypeOK
  <2>3. p \in Untouched \cap Walked(at)
    BY <2>1, <2>2 DEF Untouched, Walked, DepthOf
  <2> QED BY <2>3 DEF PassEnds
<1> QED BY <1>1, WalkInvariant, PTL DEF Spec, ReportedAtLast
=============================================================================
