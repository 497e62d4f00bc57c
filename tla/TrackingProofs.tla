--------------------------- MODULE TrackingProofs ---------------------------
(***************************************************************************)
(* Theorems about the tamper records, for any set of files, any subset of  *)
(* the faults and of the commands, and any width of changednum, in three   *)
(* parts: what the operations of RecordStores return; Tracking, one of     *)
(* whose theorems is that it implements TamperPolicy; and Reporting, that  *)
(* it is Tracking seen more closely, so that what is proved of the records *)
(* holds there as well, and that the rows of a record come once and go     *)
(* together.                                                               *)
(***************************************************************************)
EXTENDS Reporting, FiniteSetTheorems, TLAPS
-----------------------------------------------------------------------------
(* RecordStores: what the operations of svn.c return. *)

(* svn_init and svn_del_all_record leave a store whose halves agree. *)
LEMMA EmptyStoreAgrees ==
  EmptyStore \in Store /\ Agrees(EmptyStore) /\ EmptyStore.hash = {} /\ Listed(EmptyStore) = {}
BY DEF EmptyStore, Store, Agrees, Listed

(* svn_add_record on many paths gives a store again. *)
LEMMA AddRecordsType ==
  ASSUME NEW s \in Store, NEW known, NEW P \in SUBSET Path, NEW a \in Action
  PROVE  AddRecords(s, known, P, a) \in Store
BY DEF AddRecords, NewRecords, Store, Action

(* Exactly the names nobody knows come in. *)
LEMMA AddRecordsHash ==
  ASSUME NEW s, NEW known, NEW P, NEW a
  PROVE  AddRecords(s, known, P, a).hash = s.hash \cup (P \ (s.hash \cup known))
BY DEF AddRecords, NewRecords

(* They come in on the one list asked for. *)
LEMMA AddRecordsLists ==
  ASSUME NEW s \in Store, NEW known, NEW P, NEW a \in Action, NEW b \in Action
  PROVE  AddRecords(s, known, P, a).list[b]
           = s.list[b] \cup (IF b = a THEN P \ (s.hash \cup known) ELSE {})
BY DEF AddRecords, NewRecords, Store

(* The two halves of a store still agree after svn_add_record. *)
LEMMA AddRecordsAgrees ==
  ASSUME NEW s \in Store, NEW known, NEW P \in SUBSET Path, NEW a \in Action, Agrees(s)
  PROVE  Agrees(AddRecords(s, known, P, a))
<1> DEFINE t == AddRecords(s, known, P, a)
<1>1. /\ t.hash = s.hash \cup (P \ (s.hash \cup known))
      /\ \A b \in Action : b # a => t.list[b] = s.list[b]
      /\ t.list[a] = s.list[a] \cup (P \ (s.hash \cup known))
  BY DEF AddRecords, NewRecords, Store, Action
<1>2. t.hash = Listed(t)
  BY <1>1 DEF Agrees, Listed
<1>3. ASSUME NEW b \in Action, NEW c \in Action, b # c
      PROVE  t.list[b] \cap t.list[c] = {}
  <2>1. s.list[b] \cap s.list[c] = {} /\ s.list[b] \subseteq s.hash /\ s.list[c] \subseteq s.hash
    BY <1>3 DEF Agrees, Listed
  <2> QED BY <1>1, <1>3, <2>1
<1> HIDE DEF t
<1>4. Agrees(t)
  BY <1>2, <1>3 DEF Agrees
<1> QED BY <1>4 DEF t

(* svn_del_node takes a name off the lists and out of the hash. *)
LEMMA DelNodesResult ==
  ASSUME NEW s \in Store, NEW P
  PROVE  /\ DelNodes(s, P) \in Store
         /\ DelNodes(s, P).hash = s.hash \ P
         /\ \A a \in Action : DelNodes(s, P).list[a] = s.list[a] \ P
         /\ Agrees(s) => Agrees(DelNodes(s, P))
<1>1. /\ DelNodes(s, P) \in Store
      /\ DelNodes(s, P).hash = s.hash \ P
      /\ \A a \in Action : DelNodes(s, P).list[a] = s.list[a] \ P
  BY DEF DelNodes, Store
<1>2. Agrees(s) => Agrees(DelNodes(s, P))
  BY <1>1 DEF Agrees, Listed
<1> QED BY <1>1, <1>2

(* svn_add_node gives a store again. *)
LEMMA AddNodesType ==
  ASSUME NEW s \in Store, NEW from \in Store, NEW P
  PROVE  AddNodes(s, from, P) \in Store
BY DEF AddNodes, Store, Listed, Action

(* svn_add_node keeps the action of a node and the agreement of the halves, *)
(* even where the target has the name already.                              *)
LEMMA AddNodesResult ==
  ASSUME NEW s \in Store, NEW from \in Store, NEW P, Agrees(s), Agrees(from)
  PROVE  /\ AddNodes(s, from, P) \in Store
         /\ AddNodes(s, from, P).hash = s.hash \cup (from.hash \cap P)
         /\ \A a \in Action : AddNodes(s, from, P).list[a]
                               = s.list[a] \cup ((from.list[a] \cap P) \ s.hash)
         /\ Agrees(AddNodes(s, from, P))
<1> DEFINE t == AddNodes(s, from, P)
<1>1. /\ t \in Store
      /\ t.hash = s.hash \cup (from.hash \cap P)
      /\ \A a \in Action : t.list[a] = s.list[a] \cup ((from.list[a] \cap P) \ s.hash)
  <2>1. Listed(from) \subseteq Path /\ Listed(from) = from.hash
    BY DEF Store, Listed, Agrees
  <2> QED BY <2>1 DEF AddNodes, Store
<1>2. t.hash = Listed(t)
  BY <1>1 DEF Agrees, Listed
<1>3. ASSUME NEW b \in Action, NEW c \in Action, b # c
      PROVE  t.list[b] \cap t.list[c] = {}
  <2>1. s.list[b] \cap s.list[c] = {} /\ s.list[b] \subseteq s.hash /\ s.list[c] \subseteq s.hash
    BY <1>3 DEF Agrees, Listed
  <2>2. from.list[b] \cap from.list[c] = {}
    BY <1>3 DEF Agrees
  <2> QED BY <1>1, <1>3, <2>1, <2>2
<1> HIDE DEF t
<1>4. Agrees(t)
  BY <1>2, <1>3 DEF Agrees
<1> QED BY <1>1, <1>4 DEF t
-----------------------------------------------------------------------------
(* Tracking *)

USE TrackingAssumption

LEMMA FinitePart == ASSUME NEW S \in SUBSET Path
                    PROVE  Cardinality(S) \in Nat
BY FS_Subset, FS_CardinalityType DEF TrackingAssumption

LEMMA UnsignedPlus ==
  ASSUME NEW n \in Int PROVE n % Modulus \in 0 .. Modulus - 1
BY DEF TrackingAssumption

LEMMA InitType == Init => TypeOK
<1> SUFFICES ASSUME Init PROVE TypeOK
  OBVIOUS
<1>1. EmptyStore \in Store
  BY EmptyStoreAgrees
<1>2. 0 \in 0 .. Modulus - 1 /\ 0 \in 0 .. MaxPosts
  BY DEF TrackingAssumption
<1> QED BY <1>1, <1>2 DEF Init, TypeOK, SiteState, NodeState, Config, WorkerConfig,
                              WorkerState, WorkerAt, Cleaning, CliState, Idle, Moves

(* What a pass adds to svn is a store again, and its halves agree. *)
LEMMA PassType ==
  ASSUME TypeOK, NEW scope \in SUBSET Path, NEW S \in SUBSET scope, NEW whole \in BOOLEAN,
         ComparePass(scope, S, whole)
  PROVE  /\ svn' \in Store /\ changednum' \in 0 .. Modulus - 1
         /\ node' \in [Path -> NodeState]
         /\ Agrees(svn) => Agrees(svn')
<1> DEFINE known == man_restore.hash \cup man_reserve.hash
           s1 == AddRecords(svn, known, Added(S), "add")
           s2 == AddRecords(s1, known, Updated(S), "update")
           s3 == AddRecords(s2, known, Deleted(S, scope), "delete")
<1>1. /\ Added(S) \in SUBSET Path /\ Updated(S) \in SUBSET Path
      /\ Deleted(S, scope) \in SUBSET Path
  BY DEF Added, Updated, Deleted
<1>2. "add" \in Action /\ "update" \in Action /\ "delete" \in Action
  BY DEF Action
<1>3. svn \in Store
  BY DEF TypeOK
<1>4. s1 \in Store /\ (Agrees(svn) => Agrees(s1))
  BY <1>1, <1>2, <1>3, AddRecordsType, AddRecordsAgrees
<1>5. s2 \in Store /\ (Agrees(s1) => Agrees(s2))
  <2> HIDE DEF s1
  <2> QED BY <1>1, <1>2, <1>4, AddRecordsType, AddRecordsAgrees
<1>6. s3 \in Store /\ (Agrees(s2) => Agrees(s3))
  <2> HIDE DEF s2
  <2> QED BY <1>1, <1>2, <1>5, AddRecordsType, AddRecordsAgrees
<1>7. svn' = s2 \/ svn' = s3
  BY DEF ComparePass
<1>8. changednum' \in 0 .. Modulus - 1
  <2>1. Detected(S, scope, whole) \ Known \in SUBSET Path
    BY <1>1 DEF Detected
  <2>2. changednum + Cardinality(Detected(S, scope, whole) \ Known) \in Int
    BY <2>1, FinitePart DEF TypeOK
  <2> QED BY <2>2, UnsignedPlus DEF ComparePass
<1>9. node' \in [Path -> NodeState]
  BY DEF ComparePass, NodesAfter, TypeOK, NodeState
<1> HIDE DEF s1, s2, s3
<1> QED BY <1>4, <1>5, <1>6, <1>7, <1>8, <1>9

LEMMA WorkerUpdates ==
  ASSUME NEW w \in WorkerState, NEW place \in WorkerAt
  PROVE  /\ [w EXCEPT !.at = place] \in WorkerState
         /\ [w EXCEPT !.at = place, !.fulbak = TRUE] \in WorkerState
         /\ [w EXCEPT !.at = place, !.incbak = TRUE] \in WorkerState
BY DEF WorkerState

(* Every step keeps the types. *)
LEMMA NextType == TypeOK /\ [Next]_vars => TypeOK'
<1> SUFFICES ASSUME TypeOK, [Next]_vars PROVE TypeOK'
  OBVIOUS
<1> USE DEF TypeOK
<1>1. CASE UNCHANGED vars
  BY <1>1 DEF vars, backup, records
<1>2. CASE SiteChange
  BY <1>2 DEF SiteChange, backup, records
<1>3. CASE WorkerStep
  <2> USE DEF Go, backup, records
  <2>0. /\ \A place \in WorkerAt : [worker EXCEPT !.at = place] \in WorkerState
        /\ \A place \in WorkerAt : [worker EXCEPT !.at = place, !.fulbak = TRUE] \in WorkerState
        /\ \A place \in WorkerAt : [worker EXCEPT !.at = place, !.incbak = TRUE] \in WorkerState
        /\ \A P : AfterFree(P) \in CliState
    BY WorkerUpdates DEF AfterFree, CliState
  <2>1. CASE UpdateCfg
    <3>1. cfg' \in Config /\ wscfg' \in WorkerConfig
      BY <2>1 DEF UpdateCfg, Config, WorkerConfig
    <3> QED BY <2>0, <2>1, <3>1 DEF UpdateCfg, WorkerAt
  <2>2. CASE CleanTree \/ CleanSvn \/ CleanRestore \/ CleanReserve
    <3>1. worker' \in WorkerState
      <4>1. /\ "clean svn" \in WorkerAt /\ "clean restore" \in WorkerAt
            /\ "clean reserve" \in WorkerAt /\ "connect" \in WorkerAt
        BY DEF WorkerAt, Cleaning
      <4> QED BY <2>0, <2>2, <4>1 DEF CleanTree, CleanSvn, CleanRestore, CleanReserve
    <3>2. stray' \subseteq Path
      <4>1. hand.hash \subseteq Path
        BY DEF Store
      <4> QED BY <2>2, <4>1 DEF CleanTree, CleanSvn, CleanRestore, CleanReserve
    <3>3. CASE CleanTree
      <4>1. site' \in [Path -> SiteState] /\ node' \in [Path -> NodeState]
        BY <3>3 DEF CleanTree, SiteState, NodeState
      <4> QED BY <3>1, <3>2, <3>3, <4>1 DEF CleanTree
    <3>4. CASE CleanSvn \/ CleanRestore
      <4>1. cli' \in CliState /\ EmptyStore \in Store
        BY <2>0, <3>4, EmptyStoreAgrees DEF CleanSvn, CleanRestore
      <4>2. UNCHANGED <<site, backup, man_reserve, hand, changednum, cfg, wscfg, monitor_wait>>
        BY <3>4 DEF CleanSvn, CleanRestore
      <4>3. svn' \in {svn, EmptyStore} /\ man_restore' \in {man_restore, EmptyStore}
        BY <3>4 DEF CleanSvn, CleanRestore
      <4> QED BY <3>1, <3>2, <4>1, <4>2, <4>3
    <3>5. CASE CleanReserve
      <4>1. 0 \in 0 .. Modulus - 1
        BY DEF TrackingAssumption
      <4> QED BY <2>0, <3>1, <3>2, <3>5, <4>1, EmptyStoreAgrees DEF CleanReserve
    <3> QED BY <2>2, <3>3, <3>4, <3>5
  <2>3. CASE ConnectFails
    BY <2>0, <2>3 DEF ConnectFails, WorkerAt
  <2>4. CASE Connect
    BY <2>0, <2>4 DEF Connect, WorkerAt
  <2>5. CASE Resume
    <3>1. worker' \in WorkerState
      BY <2>0, <2>5 DEF Resume, WorkerAt
    <3>2. monitor_wait' \in 0 .. MaxPosts
      <4>1. monitor_wait \in 0 .. MaxPosts /\ MaxPosts \in Nat
        BY DEF TrackingAssumption
      <4>2. monitor_wait > 0 /\ monitor_wait' = monitor_wait - 1
        BY <2>5 DEF Resume
      <4> HIDE DEF TypeOK
      <4> QED BY <4>1, <4>2
    <3> QED BY <2>5, <3>1, <3>2 DEF Resume
  <2>6. ASSUME NEW S \in SUBSET Path, Fetch(S)
        PROVE  /\ site' \in [Path -> SiteState] /\ node' \in [Path -> NodeState]
               /\ vague' \subseteq Path /\ second' \subseteq Path
    BY <2>6 DEF Fetch, Copied, SiteState, NodeState
  <2>7. CASE Download \/ DownloadExceeds
    <3>1. \E S \in SUBSET Path : Fetch(S)
      BY <2>7 DEF Download, DownloadExceeds, Present, CutListings
    <3>2. CASE Download
      BY <2>0, <2>6, <3>1, <3>2 DEF Download, WorkerAt
    <3>3. CASE DownloadExceeds
      BY <2>0, <2>6, <3>1, <3>3 DEF DownloadExceeds, Config, WorkerAt
    <3> QED BY <2>7, <3>2, <3>3
  <2>8. CASE PollStops
    BY <2>0, <2>8 DEF PollStops, WorkerAt
  <2>9. CASE PollSeesKeyChange
    BY <2>0, <2>9 DEF PollSeesKeyChange, WorkerAt
  <2>10. ASSUME NEW due \in {"restore", "root", "full"}, PollTick(due) PROVE TypeOK'
    BY <2>0, <2>10 DEF PollTick, WorkerAt
  <2>11. ASSUME NEW scope \in SUBSET Path, NEW S \in SUBSET scope, NEW whole \in BOOLEAN,
                ComparePass(scope, S, whole), NEW place \in WorkerAt, Go(place)
         PROVE  TypeOK'
    <3>1. /\ svn' \in Store /\ changednum' \in 0 .. Modulus - 1
          /\ node' \in [Path -> NodeState]
      BY <2>11, PassType
    <3> QED BY <2>0, <2>11, <3>1 DEF ComparePass
  <2>12. /\ \A scope : Present(scope) \in SUBSET scope
         /\ \A scope, S : S \in CutListings(scope) => S \in SUBSET scope
    BY DEF Present, CutListings
  <2>13. ASSUME NEW scope \in SUBSET Path, WholePass(scope) \/ CutPass(scope),
                NEW place \in WorkerAt, Go(place)
         PROVE  TypeOK'
    <3> HIDE DEF TypeOK, Go, backup, records
    <3>1. CASE WholePass(scope)
      BY <2>11, <2>12, <2>13, <3>1 DEF WholePass
    <3>2. CASE CutPass(scope)
      <4>1. PICK S \in CutListings(scope) : ComparePass(scope, S, FALSE)
        BY <3>2 DEF CutPass
      <4> QED BY <2>11, <2>12, <2>13, <4>1
    <3> QED BY <2>13, <3>1, <3>2
  <2>14. CASE RootPass \/ FullPass \/ FullPassCut
    <3>1. "restore" \in WorkerAt /\ "last" \in WorkerAt /\ Top \in SUBSET Path
      BY DEF WorkerAt, TrackingAssumption
    <3>2. CASE RootPass
      BY <2>13, <3>1, <3>2 DEF RootPass
    <3>3. CASE FullPass \/ FullPassCut
      BY <2>13, <3>1, <3>3 DEF FullPass, FullPassCut
    <3> QED BY <2>14, <3>2, <3>3
  <2>15. CASE RestorePass
    <3>0. stray' \subseteq Path
      BY <2>15 DEF RestorePass
    <3>1. \A s : \A new \in RestoredSites(s) : new \in [Path -> SiteState]
      BY DEF RestoredSites
    <3>2. 0 \in 0 .. Modulus - 1
      BY DEF TrackingAssumption
    <3>3. CASE AutoRestore
      BY <2>0, <2>15, <3>0, <3>1, <3>2, <3>3, EmptyStoreAgrees DEF RestorePass, AutoRestore, WorkerAt
    <3>4. CASE ManRestore
      <4>1. Listed(man_restore) \in SUBSET Path
        BY DEF Listed, Store
      <4>2. changednum - Cardinality(Listed(man_restore)) \in Int
        BY <4>1, FinitePart
      <4>3. changednum' \in 0 .. Modulus - 1
        BY <3>4, <4>2, UnsignedPlus DEF ManRestore
      <4> QED BY <2>0, <2>15, <3>0, <3>1, <3>4, <4>3, EmptyStoreAgrees DEF RestorePass, ManRestore, WorkerAt
    <3>5. CASE ManRestoreAndCommit
      <4> PICK fixed \in RestoredSites(man_restore), D \in Taken : Commit(D, fixed)
        BY <3>5 DEF ManRestoreAndCommit
      <4>1. fixed \in [Path -> SiteState]
        BY <3>1
      <4>2. D \in SUBSET Path
        BY DEF Taken, Listed, Store, Action
      <4>3. /\ node' \in [Path -> NodeState] /\ site' \in [Path -> SiteState]
            /\ vague' \subseteq Path /\ second' \subseteq Path
        BY <4>1, <4>2 DEF Commit, Copied, SiteState, NodeState
      <4> QED BY <2>0, <2>15, <3>0, <3>2, <3>5, <4>3, EmptyStoreAgrees
             DEF RestorePass, ManRestoreAndCommit, Config, WorkerAt
    <3> QED BY <2>15, <3>3, <3>4, <3>5 DEF RestorePass
  <2> QED BY <1>3, <2>1, <2>2, <2>3, <2>4, <2>5, <2>7, <2>8, <2>9, <2>10, <2>14, <2>15
       DEF WorkerStep
<1>4. CASE CliStep
  <2> USE DEF CliOnly, backup, records
  <2>1. /\ \A b \in BOOLEAN : /\ [cfg EXCEPT !.auto = b] \in Config
                              /\ [cfg EXCEPT !.iscomit = b] \in Config
                              /\ [cfg EXCEPT !.enable = b] \in Config
                              /\ [cfg EXCEPT !.keychg = b] \in Config
        /\ \A move \in Moves, P \in SUBSET Path : Wait(move, P) \in CliState
        /\ Idle \in CliState
    BY DEF Config, Wait, Idle, CliState, Moves
  <2>2. CASE \E auto \in BOOLEAN : RestoreMode(auto)
    <3> PICK auto \in BOOLEAN : RestoreMode(auto)
      BY <2>2
    <3>1. (IF auto THEN "to_svn" ELSE "to_restore") \in Moves
      BY DEF Moves
    <3>2. cfg' \in Config /\ cli' \in CliState
      BY <2>1, <3>1 DEF RestoreMode
    <3> QED BY <3>2 DEF RestoreMode
  <2>3. CASE NoRestoreMode \/ RestoreTamperAll \/ ClearTamperAll \/ ViewTamperFilename
    BY <2>1, <2>3 DEF NoRestoreMode, RestoreTamperAll, ClearTamperAll, ViewTamperFilename, Moves
  <2>4. CASE RestoreTamperFile \/ ClearTamperFile
    <3>1. svn.hash \in SUBSET Path
      BY DEF Store
    <3> QED BY <2>1, <2>4, <3>1 DEF RestoreTamperFile, ClearTamperFile, Moves
  <2>5. CASE MonitorOn
    <3>1. cfg' \in Config
      BY <2>1, <2>5 DEF MonitorOn
    <3>2. monitor_wait' \in 0 .. MaxPosts
      <4>1. monitor_wait \in 0 .. MaxPosts /\ MaxPosts \in Nat
        BY DEF TrackingAssumption
      <4>2. monitor_wait < MaxPosts /\ monitor_wait' = monitor_wait + 1
        BY <2>5 DEF MonitorOn
      <4> HIDE DEF TypeOK
      <4> QED BY <4>1, <4>2
    <3> QED BY <2>5, <3>1, <3>2 DEF MonitorOn
  <2>6. CASE MonitorOff \/ KeyChange
    BY <2>1, <2>6 DEF MonitorOff, KeyChange
  <2>7. CASE Lock \/ Unlock \/ ClearTamperFileCommits \/ MoveFreedRecord \/ MoveRaces
    <3>1. cli' \in CliState
      <4>1. /\ [cli EXCEPT !.at = "locked"] \in CliState
            /\ [cli EXCEPT !.at = "undefined"] \in CliState
            /\ [Idle EXCEPT !.at = "committing"] \in CliState
        BY <2>1 DEF CliState
      <4> QED BY <2>1, <2>7, <4>1 DEF Lock, Unlock, ClearTamperFileCommits, MoveFreedRecord, MoveRaces
    <3>2. cfg' \in Config /\ UNCHANGED monitor_wait
      BY <2>1, <2>7 DEF Lock, Unlock, ClearTamperFileCommits, MoveFreedRecord, MoveRaces
    <3>3. UNCHANGED <<site, backup, records, changednum, wscfg, worker>>
      BY <2>7 DEF Lock, Unlock, ClearTamperFileCommits, MoveFreedRecord, MoveRaces
    <3> QED BY <3>1, <3>2, <3>3
  <2>8. CASE TakeRecord
    <3>1. PICK a \in Action : \E p \in NextRecords \cap Source.list[a] :
            LET rest == IF cli.move \in FileMoves THEN {} ELSE Source.list[a] \ {p}
            IN /\ hand' = AddNodes(EmptyStore, Source, {p})
               /\ IF cli.move = "to_svn"
                  THEN man_restore' = DelNodes(man_restore, {p}) /\ UNCHANGED svn
                  ELSE svn' = DelNodes(svn, {p}) /\ UNCHANGED man_restore
               /\ stray' = IF worker.at \in Cleaning THEN stray \cup {p} ELSE stray
               /\ \E next \in IF rest = {} THEN {{}} ELSE {{q} : q \in rest} :
                    cli' = [cli EXCEPT !.aim = next, !.live = next # {}]
      BY <2>8 DEF TakeRecord
    <3>2. Source \in Store /\ Source.list[a] \subseteq Path
      BY DEF Source, Store
    <3>3. svn' \in Store /\ man_restore' \in Store /\ stray' \subseteq Path
      BY <3>1, <3>2 DEF DelNodes, Store
    <3>4. hand' \in Store
      <4>1. \A P : AddNodes(EmptyStore, Source, P) \in Store
        BY <3>2, EmptyStoreAgrees, AddNodesType
      <4> QED BY <3>1, <4>1
    <3>5. cli' \in CliState
      <4>1. \A p \in Path, rest \in SUBSET Path :
              \A next \in IF rest = {} THEN {{}} ELSE {{q} : q \in rest} : next \in SUBSET Path
        OBVIOUS
      <4>2. PICK next \in SUBSET Path : cli' = [cli EXCEPT !.aim = next, !.live = next # {}]
        <5> DEFINE Rest(p) == IF cli.move \in FileMoves THEN {} ELSE Source.list[a] \ {p}
        <5>1. PICK p \in Source.list[a] :
                \E next \in IF Rest(p) = {} THEN {{}} ELSE {{q} : q \in Rest(p)} :
                  cli' = [cli EXCEPT !.aim = next, !.live = next # {}]
          BY <3>1
        <5>2. p \in Path /\ Rest(p) \in SUBSET Path
          BY <3>2
        <5> HIDE DEF Rest, TypeOK
        <5> QED BY <4>1, <5>1, <5>2
      <4> QED BY <4>2 DEF CliState
    <3> QED BY <2>8, <3>3, <3>4, <3>5 DEF TakeRecord
  <2>9. CASE PutRecord
    BY <2>9, EmptyStoreAgrees, AddNodesType DEF PutRecord
  <2> QED BY <1>4, <2>2, <2>3, <2>4, <2>5, <2>6, <2>7, <2>8, <2>9 DEF CliStep
<1>5. CASE Undefined
  BY <1>1, <1>5 DEF Undefined
<1> QED BY <1>1, <1>2, <1>3, <1>4, <1>5 DEF Next

(***************************************************************************)
(* Type correctness, for every value of the constants: among others,       *)
(* changednum stays an unsigned number and monitor_wait is never taken     *)
(* below zero.                                                             *)
(***************************************************************************)
THEOREM TypeCorrect == Spec => []TypeOK
BY InitType, NextType, PTL DEF Spec

-----------------------------------------------------------------------------
(* The steps that touch the records or the backup. *)

(* Every other step leaves the records, the nodes, and what the worker and *)
(* the CLI are doing with them as they are.                                *)
Quiet ==
  /\ UNCHANGED <<records, backup>>
  /\ worker' = worker \/ (worker.at \notin Cleaning /\ worker'.at \notin Cleaning)
  /\ hand = EmptyStore \/ (cli'.move = cli.move /\ cli'.at \in {cli.at, "undefined"})

(* The record in the hand of the CLI is there only while it has the mutex, *)
(* or has it for ever because the process is beyond description.           *)
HandInv == cli.at \notin {"locked", "undefined"} => hand = EmptyStore

LEMMA WorkerGoes ==
  ASSUME TypeOK, NEW place, Go(place)
  PROVE  worker'.at = place /\ worker'.fulbak = worker.fulbak
BY DEF TypeOK, WorkerState, Go

LEMMA NextCases ==
  ASSUME TypeOK, HandInv, [Next]_vars
  PROVE  \/ Quiet
         \/ CleanTree \/ CleanSvn \/ CleanRestore \/ CleanReserve
         \/ Download \/ DownloadExceeds \/ RestorePass \/ TakeRecord \/ PutRecord
         \/ \E scope \in {Top, Path} : \E S \in SUBSET scope, whole \in BOOLEAN :
              /\ ComparePass(scope, S, whole)
              /\ worker.at \in {"root", "full"} /\ worker'.at \in {"restore", "last"}
              /\ hand = EmptyStore /\ worker'.fulbak = worker.fulbak
<1> USE DEF Quiet, records, backup
<1>1. CASE UNCHANGED vars \/ Undefined
  BY <1>1 DEF vars, Undefined
<1>2. CASE SiteChange
  BY <1>2 DEF SiteChange
<1>3. CASE WorkerStep
  <2>1. ASSUME NEW scope \in {Top, Path}, WholePass(scope) \/ CutPass(scope)
        PROVE  \E S \in SUBSET scope, whole \in BOOLEAN : ComparePass(scope, S, whole)
    BY <2>1 DEF WholePass, CutPass, Present, CutListings
  <2>2. CASE RootPass \/ FullPass \/ FullPassCut
    <3>1. /\ worker.at \in {"root", "full"} /\ worker'.at \in {"restore", "last"}
          /\ worker'.fulbak = worker.fulbak
      BY <2>2, WorkerGoes DEF RootPass, FullPass, FullPassCut, At
    <3>2. hand = EmptyStore
      BY <2>2 DEF RootPass, FullPass, FullPassCut, WholePass, CutPass, ComparePass, MutexFree, At,
                  HandInv
    <3> QED BY <2>1, <2>2, <3>1, <3>2 DEF RootPass, FullPass, FullPassCut
  <2>3. CASE UpdateCfg \/ ConnectFails \/ Connect
    <3>1. worker'.at \in {"top", "clean", "connect", "paused", "increment", "download", "poll"}
      BY <2>3, WorkerGoes DEF UpdateCfg, ConnectFails, Connect
    <3>2. worker.at \in {"top", "connect"}
      BY <2>3 DEF UpdateCfg, ConnectFails, Connect, At
    <3> QED BY <2>3, <3>1, <3>2 DEF UpdateCfg, ConnectFails, Connect, Cleaning
  <2>4. CASE Resume
    <3>1. worker.at = "paused" /\ worker'.at = "top"
      BY <2>4 DEF Resume, At, TypeOK, WorkerState
    <3> QED BY <2>4, <3>1 DEF Resume, Cleaning
  <2>5. CASE PollStops \/ PollSeesKeyChange \/ \E due \in {"restore", "root", "full"} : PollTick(due)
    <3>1. worker.at = "poll" /\ worker'.at \in {"last", "top", "restore", "root", "full"}
      BY <2>5, WorkerGoes DEF PollStops, PollSeesKeyChange, PollTick, At
    <3> QED BY <2>5, <3>1 DEF PollStops, PollSeesKeyChange, PollTick, Cleaning
  <2> QED BY <1>3, <2>2, <2>3, <2>4, <2>5 DEF WorkerStep
<1>4. CASE CliStep
  <2> USE DEF CliOnly, Begin, HandInv
  <2>1. CASE \E auto \in BOOLEAN : RestoreMode(auto)
    BY <2>1 DEF RestoreMode
  <2>2. CASE NoRestoreMode \/ RestoreTamperAll \/ RestoreTamperFile \/ ClearTamperAll
              \/ ClearTamperFile \/ ClearTamperFileCommits
    BY <2>2 DEF NoRestoreMode, RestoreTamperAll, RestoreTamperFile, ClearTamperAll,
                ClearTamperFile, ClearTamperFileCommits
  <2>3. CASE ViewTamperFilename \/ MonitorOn \/ MonitorOff \/ KeyChange
    BY <2>3 DEF ViewTamperFilename, MonitorOn, MonitorOff, KeyChange
  <2>4. CASE Lock \/ Unlock \/ MoveFreedRecord
    BY <2>4 DEF Lock, Unlock, MoveFreedRecord
  <2>5. CASE MoveRaces
    <3>1. cli'.move = cli.move /\ cli'.at = "undefined"
      BY <2>5 DEF MoveRaces, TypeOK, CliState
    <3> QED BY <2>5, <3>1 DEF MoveRaces
  <2> QED BY <1>4, <2>1, <2>2, <2>3, <2>4, <2>5 DEF CliStep
<1> QED BY <1>1, <1>2, <1>3, <1>4 DEF Next

LEMMA NextHand == TypeOK /\ HandInv /\ [Next]_vars => HandInv'
<1> SUFFICES ASSUME TypeOK, HandInv, [Next]_vars PROVE HandInv'
  OBVIOUS
<1> USE DEF HandInv
<1>0. \A P : AfterFree(P).at = cli.at
  BY DEF AfterFree, TypeOK, CliState
<1>1. CASE UNCHANGED <<hand, cli>>
  BY <1>1
<1>2. CASE WorkerStep
  <2>1. CASE CleanTree \/ CleanSvn \/ CleanRestore \/ CleanReserve
    BY <1>0, <2>1 DEF CleanTree, CleanSvn, CleanRestore, CleanReserve
  <2>2. CASE RestorePass
    BY <1>0, <2>2 DEF RestorePass, AutoRestore, ManRestore, ManRestoreAndCommit
  <2>3. CASE RootPass \/ FullPass \/ FullPassCut
    BY <1>1, <2>3 DEF RootPass, FullPass, FullPassCut, WholePass, CutPass, ComparePass
  <2>4. CASE UpdateCfg \/ ConnectFails \/ Connect \/ Resume \/ Download \/ DownloadExceeds
               \/ PollStops \/ PollSeesKeyChange \/ \E due \in {"restore", "root", "full"} : PollTick(due)
    BY <1>1, <2>4 DEF UpdateCfg, ConnectFails, Connect, Resume, Download, DownloadExceeds,
                      PollStops, PollSeesKeyChange, PollTick, records
  <2> QED BY <1>2, <2>1, <2>2, <2>3, <2>4 DEF WorkerStep
<1>3. CASE CliStep
  <2> USE DEF CliOnly, Begin, records
  <2>1. CASE \E auto \in BOOLEAN : RestoreMode(auto)
    BY <2>1 DEF RestoreMode
  <2>2. CASE NoRestoreMode \/ RestoreTamperAll \/ RestoreTamperFile \/ ClearTamperAll
              \/ ClearTamperFile \/ ClearTamperFileCommits
    BY <2>2 DEF NoRestoreMode, RestoreTamperAll, RestoreTamperFile, ClearTamperAll,
                ClearTamperFile, ClearTamperFileCommits
  <2>3. CASE ViewTamperFilename \/ MonitorOn \/ MonitorOff \/ KeyChange
    BY <2>3 DEF ViewTamperFilename, MonitorOn, MonitorOff, KeyChange
  <2>4. CASE Lock \/ Unlock
    BY <2>4 DEF Lock, Unlock
  <2>5. CASE MoveFreedRecord \/ MoveRaces
    <3>1. cli'.at = "undefined"
      BY <2>5 DEF MoveFreedRecord, MoveRaces, TypeOK, CliState
    <3> QED BY <3>1
  <2>6. CASE TakeRecord
    <3>1. cli'.at = "locked"
      BY <2>6 DEF TakeRecord, TypeOK, CliState
    <3> QED BY <3>1
  <2>7. CASE PutRecord
    BY <2>7 DEF PutRecord
  <2> QED BY <1>3, <2>1, <2>2, <2>3, <2>4, <2>5, <2>6, <2>7 DEF CliStep
<1>4. CASE UNCHANGED vars \/ SiteChange \/ Undefined
  BY <1>1, <1>4 DEF vars, SiteChange, Undefined, records
<1> QED BY <1>2, <1>3, <1>4 DEF Next

LEMMA HandIsEmpty == Spec => []HandInv
<1>1. Init => HandInv
  BY DEF Init, HandInv
<1> QED BY <1>1, NextHand, TypeCorrect, PTL DEF Spec
(* The names a pass brings into svn are in none of the other stores, and *)
(* each is on the list that fits its node.                               *)
LEMMA PassRecords ==
  ASSUME TypeOK, NEW scope \in SUBSET Path, NEW S \in SUBSET scope, NEW whole \in BOOLEAN,
         ComparePass(scope, S, whole)
  PROVE  /\ \A p \in svn'.hash :
              p \in svn.hash \/ p \notin man_restore.hash \cup man_reserve.hash
         /\ \A p \in svn'.list["add"] : p \in svn.list["add"] \/ node[p] = "none"
         /\ \A p \in svn'.list["update"] : p \in svn.list["update"] \/ node[p] # "none"
         /\ \A p \in svn'.list["delete"] :
              p \in svn.list["delete"] \/ node[p] # "none" \/ p \in second
         /\ svn.hash \subseteq svn'.hash
<1> DEFINE known == man_restore.hash \cup man_reserve.hash
           s1 == AddRecords(svn, known, Added(S), "add")
           s2 == AddRecords(s1, known, Updated(S), "update")
           s3 == AddRecords(s2, known, Deleted(S, scope), "delete")
<1>1. svn' = s2 \/ svn' = s3
  BY DEF ComparePass
<1>2. \A s, P, a : \A p \in AddRecords(s, known, P, a).hash : p \in s.hash \/ p \notin known
  BY DEF AddRecords, NewRecords
<1>3. ASSUME NEW s \in Store, NEW P, NEW a \in Action, NEW b \in Action
      PROVE  \A p \in AddRecords(s, known, P, a).list[b] : p \in s.list[b] \/ (b = a /\ p \in P)
  BY DEF AddRecords, NewRecords, Store
<1>4. svn \in Store /\ s1 \in Store /\ s2 \in Store /\ s3 \in Store
  <2>1. /\ Added(S) \in SUBSET Path /\ Updated(S) \in SUBSET Path
        /\ Deleted(S, scope) \in SUBSET Path
    BY DEF Added, Updated, Deleted
  <2>2. svn \in Store
    BY DEF TypeOK
  <2> QED BY <2>1, <2>2, AddRecordsType DEF Action
<1>5. ASSUME NEW b \in Action
      PROVE  \A p \in s3.list[b] : \/ p \in svn.list[b] \/ (b = "add" /\ p \in Added(S))
                                   \/ (b = "update" /\ p \in Updated(S))
                                   \/ (b = "delete" /\ p \in Deleted(S, scope))
  <2>1. "add" \in Action /\ "update" \in Action /\ "delete" \in Action
    BY DEF Action
  <2>2. \A p \in s1.list[b] : p \in svn.list[b] \/ (b = "add" /\ p \in Added(S))
    BY <1>3, <1>4, <2>1
  <2>3. \A p \in s2.list[b] : p \in s1.list[b] \/ (b = "update" /\ p \in Updated(S))
    <3> HIDE DEF s1
    <3> QED BY <1>3, <1>4, <2>1
  <2>4. \A p \in s3.list[b] : p \in s2.list[b] \/ (b = "delete" /\ p \in Deleted(S, scope))
    <3> HIDE DEF s2
    <3> QED BY <1>3, <1>4, <2>1
  <2> HIDE DEF s1, s2, s3
  <2> QED BY <2>2, <2>3, <2>4
<1>6. ASSUME NEW b \in Action
      PROVE  s2.list[b] \subseteq s3.list[b]
  BY <1>4 DEF AddRecords, Store
<1>7. \A p \in svn'.hash : p \in svn.hash \/ p \notin known
  <2>1. \A p \in s1.hash : p \in svn.hash \/ p \notin known
    BY <1>2
  <2>2. \A p \in s2.hash : p \in s1.hash \/ p \notin known
    BY <1>2
  <2>3. \A p \in s3.hash : p \in s2.hash \/ p \notin known
    BY <1>2
  <2> HIDE DEF s1, s2, s3
  <2> QED BY <1>1, <2>1, <2>2, <2>3
<1>8. ASSUME NEW b \in Action
      PROVE  \A p \in svn'.list[b] : \/ p \in svn.list[b] \/ (b = "add" /\ p \in Added(S))
                                     \/ (b = "update" /\ p \in Updated(S))
                                     \/ (b = "delete" /\ p \in Deleted(S, scope))
  <2> HIDE DEF s1, s2, s3
  <2> QED BY <1>1, <1>5, <1>6
<1>9. svn.hash \subseteq svn'.hash
  <2>1. \A s, P, a : s.hash \subseteq AddRecords(s, known, P, a).hash
    BY DEF AddRecords
  <2>2. svn.hash \subseteq s1.hash /\ s1.hash \subseteq s2.hash /\ s2.hash \subseteq s3.hash
    BY <2>1
  <2> HIDE DEF s1, s2, s3
  <2> QED BY <1>1, <2>2
<1> HIDE DEF s1, s2, s3
<1> QED BY <1>7, <1>8, <1>9 DEF Action, Added, Updated, Deleted

(* svn_del_node: the record leaves its store for the hand of the CLI. *)
LEMMA TakeResult ==
  ASSUME TypeOK, OneStore, TakeRecord
  PROVE  \E p \in Path :
           /\ hand = EmptyStore /\ cli.at = "locked" /\ cli'.move = cli.move
           /\ hand' \in Store /\ Agrees(hand') /\ hand'.hash = {p}
           /\ \A a \in Action : hand'.list[a] = Source.list[a] \cap {p}
           /\ p \in Source.hash
           /\ IF cli.move = "to_svn"
              THEN man_restore' = DelNodes(man_restore, {p}) /\ UNCHANGED svn
              ELSE svn' = DelNodes(svn, {p}) /\ UNCHANGED man_restore
           /\ UNCHANGED man_reserve
           /\ stray' = IF worker.at \in Cleaning THEN stray \cup {p} ELSE stray
<1>0. Source \in Store /\ Agrees(Source)
  BY DEF TypeOK, OneStore, Stores, Source
<1>1. PICK a \in Action : \E p \in Source.list[a] :
        /\ hand' = AddNodes(EmptyStore, Source, {p})
        /\ IF cli.move = "to_svn"
           THEN man_restore' = DelNodes(man_restore, {p}) /\ UNCHANGED svn
           ELSE svn' = DelNodes(svn, {p}) /\ UNCHANGED man_restore
        /\ stray' = IF worker.at \in Cleaning THEN stray \cup {p} ELSE stray
        /\ \E next : cli' = [cli EXCEPT !.aim = next, !.live = next # {}]
  BY DEF TakeRecord
<1> PICK p \in Source.list[a] :
        /\ hand' = AddNodes(EmptyStore, Source, {p})
        /\ IF cli.move = "to_svn"
           THEN man_restore' = DelNodes(man_restore, {p}) /\ UNCHANGED svn
           ELSE svn' = DelNodes(svn, {p}) /\ UNCHANGED man_restore
        /\ stray' = IF worker.at \in Cleaning THEN stray \cup {p} ELSE stray
        /\ \E next : cli' = [cli EXCEPT !.aim = next, !.live = next # {}]
  BY <1>1
<1>2. p \in Source.hash /\ p \in Path
  BY <1>0 DEF Agrees, Listed, Store
<1>3. /\ hand' \in Store /\ Agrees(hand') /\ hand'.hash = {p}
      /\ \A b \in Action : hand'.list[b] = Source.list[b] \cap {p}
  <2>1. /\ EmptyStore \in Store /\ Agrees(EmptyStore) /\ EmptyStore.hash = {}
        /\ \A b \in Action : EmptyStore.list[b] = {}
    BY EmptyStoreAgrees DEF EmptyStore
  <2>2. /\ hand' \in Store /\ Agrees(hand')
        /\ hand'.hash = EmptyStore.hash \cup (Source.hash \cap {p})
        /\ \A b \in Action : hand'.list[b]
                = EmptyStore.list[b] \cup ((Source.list[b] \cap {p}) \ EmptyStore.hash)
    BY <1>0, <1>1, <2>1, AddNodesResult
  <2> QED BY <1>2, <2>1, <2>2
<1>4. cli'.move = cli.move
  BY <1>1 DEF TypeOK, CliState
<1> QED BY <1>1, <1>2, <1>3, <1>4 DEF TakeRecord

(* svn_add_node: the record in the hand gets into one of the stores, on the *)
(* list it came from.                                                       *)
LEMMA PutResult ==
  ASSUME TypeOK, OneStore, PutRecord
  PROVE  /\ hand' = EmptyStore /\ cli.at = "locked" /\ UNCHANGED <<stray, cli>>
         /\ \/ /\ cli.move = "to_svn" /\ UNCHANGED <<man_restore, man_reserve>>
               /\ svn' \in Store /\ Agrees(svn') /\ svn'.hash = svn.hash \cup hand.hash
               /\ \A a \in Action : svn'.list[a] = svn.list[a] \cup hand.list[a]
            \/ /\ cli.move # "to_svn" /\ UNCHANGED <<svn, man_reserve>>
               /\ man_restore' \in Store /\ Agrees(man_restore')
               /\ man_restore'.hash = man_restore.hash \cup hand.hash
               /\ \A a \in Action : man_restore'.list[a] = man_restore.list[a] \cup hand.list[a]
            \/ /\ cli.move # "to_svn" /\ UNCHANGED <<svn, man_restore>>
               /\ man_reserve' \in Store /\ Agrees(man_reserve')
               /\ man_reserve'.hash = man_reserve.hash \cup hand.hash
               /\ \A a \in Action : man_reserve'.list[a] = man_reserve.list[a] \cup hand.list[a]
<1>0. /\ hand \in Store /\ Agrees(hand) /\ \A a \in Action : hand.list[a] \subseteq hand.hash
      /\ \A s \in {svn, man_restore, man_reserve} :
           s \in Store /\ Agrees(s) /\ s.hash \cap hand.hash = {}
  BY DEF TypeOK, OneStore, Stores, Known, Agrees, Listed
<1>1. ASSUME NEW s \in {svn, man_restore, man_reserve}, NEW t, t = AddNodes(s, hand, hand.hash)
      PROVE  /\ t \in Store /\ Agrees(t) /\ t.hash = s.hash \cup hand.hash
             /\ \A a \in Action : t.list[a] = s.list[a] \cup hand.list[a]
  <2>1. s \in Store /\ Agrees(s) /\ s.hash \cap hand.hash = {}
    BY <1>0
  <2>2. /\ t \in Store /\ Agrees(t) /\ t.hash = s.hash \cup (hand.hash \cap hand.hash)
        /\ \A a \in Action : t.list[a] = s.list[a] \cup ((hand.list[a] \cap hand.hash) \ s.hash)
    BY <1>0, <1>1, <2>1, AddNodesResult
  <2> QED BY <1>0, <2>1, <2>2
<1>2. /\ hand' = EmptyStore /\ cli.at = "locked" /\ UNCHANGED <<stray, cli>>
  BY DEF PutRecord
<1>3. \/ /\ cli.move = "to_svn" /\ UNCHANGED <<man_restore, man_reserve>>
         /\ svn' = AddNodes(svn, hand, hand.hash)
      \/ /\ cli.move # "to_svn" /\ UNCHANGED <<svn, man_reserve>>
         /\ man_restore' = AddNodes(man_restore, hand, hand.hash)
      \/ /\ cli.move # "to_svn" /\ UNCHANGED <<svn, man_restore>>
         /\ man_reserve' = AddNodes(man_reserve, hand, hand.hash)
  BY DEF PutRecord
<1> HIDE DEF AddNodes
<1> QED BY <1>1, <1>2, <1>3

LEMMA NextOneStore == TypeOK /\ HandInv /\ OneStore /\ [Next]_vars => OneStore'
<1> SUFFICES ASSUME TypeOK, HandInv, OneStore, [Next]_vars PROVE OneStore'
  OBVIOUS
<1> USE DEF OneStore, Stores, Known
<1>0. svn \in Store /\ man_restore \in Store /\ man_reserve \in Store /\ hand \in Store
  BY DEF TypeOK
<1>1. CASE UNCHANGED records
  BY <1>1 DEF records
<1>2. CASE CleanTree \/ CleanSvn \/ CleanRestore \/ CleanReserve
  <2>1. /\ svn' \in {svn, EmptyStore} /\ man_restore' \in {man_restore, EmptyStore}
        /\ man_reserve' \in {man_reserve, EmptyStore} /\ hand' = hand
    BY <1>2 DEF CleanTree, CleanSvn, CleanRestore, CleanReserve
  <2> QED BY <2>1, EmptyStoreAgrees
<1>3. CASE RestorePass
  <2>1. /\ svn' \in {svn, EmptyStore} /\ man_restore' \in {man_restore, EmptyStore}
        /\ man_reserve' \in {man_reserve, EmptyStore} /\ hand' = hand
    BY <1>3 DEF RestorePass, AutoRestore, ManRestore, ManRestoreAndCommit
  <2> QED BY <2>1, EmptyStoreAgrees
<1>4. CASE TakeRecord
  <2>1. PICK p \in Path :
          /\ hand = EmptyStore /\ hand' \in Store /\ Agrees(hand') /\ hand'.hash = {p}
          /\ p \in Source.hash
          /\ IF cli.move = "to_svn"
             THEN man_restore' = DelNodes(man_restore, {p}) /\ UNCHANGED svn
             ELSE svn' = DelNodes(svn, {p}) /\ UNCHANGED man_restore
          /\ UNCHANGED man_reserve
    BY <1>4, TakeResult
  <2>2. \A s \in {svn, man_restore} : /\ DelNodes(s, {p}).hash = s.hash \ {p}
                                      /\ Agrees(DelNodes(s, {p}))
    BY <1>0, DelNodesResult
  <2>3. CASE cli.move = "to_svn"
    <3>1. /\ man_restore'.hash = man_restore.hash \ {p} /\ Agrees(man_restore')
          /\ UNCHANGED <<svn, man_reserve>> /\ p \in man_restore.hash
          /\ hand'.hash = {p} /\ Agrees(hand')
      BY <2>1, <2>2, <2>3 DEF Source
    <3> QED BY <3>1
  <2>4. CASE cli.move # "to_svn"
    BY <2>1, <2>2, <2>4 DEF Source
  <2> QED BY <2>3, <2>4
<1>5. CASE PutRecord
  BY <1>5, PutResult, EmptyStoreAgrees
<1>6. ASSUME NEW scope \in {Top, Path}, NEW S \in SUBSET scope, NEW whole \in BOOLEAN,
             ComparePass(scope, S, whole), hand = EmptyStore
      PROVE  OneStore'
  <2>1. scope \in SUBSET Path
    BY DEF TrackingAssumption
  <2>2. Agrees(svn') /\ UNCHANGED <<man_restore, man_reserve, hand>>
    BY <1>6, <2>1, PassType DEF ComparePass
  <2>3. \A p \in svn'.hash : p \in svn.hash \/ p \notin man_restore.hash \cup man_reserve.hash
    BY <1>6, <2>1, PassRecords
  <2> QED BY <1>6, <2>2, <2>3, EmptyStoreAgrees
<1> QED BY <1>1, <1>2, <1>3, <1>4, <1>5, <1>6, NextCases DEF Quiet, Download, DownloadExceeds

(***************************************************************************)
(* A file is never in two stores, on two lists of one, or in a hash and on *)
(* no list, nor in a store while the CLI holds its record: whichever steps *)
(* of the worker, of the CLI, and of clean_webserver beside a move         *)
(* interleave.                                                             *)
(***************************************************************************)
THEOREM RecordsInOneStore == Spec => []OneStore
<1>1. Init => OneStore
  BY EmptyStoreAgrees DEF Init, OneStore, Stores, Known
<1>2. TypeOK /\ HandInv /\ OneStore /\ [Next]_vars => OneStore'
  BY NextOneStore
<1> QED BY <1>1, <1>2, TypeCorrect, HandIsEmpty, PTL DEF Spec

-----------------------------------------------------------------------------
(* The backup *)

(***************************************************************************)
(* While clean_webserver runs, what it has emptied fills again with such   *)
(* records only as the CLI held or took since it began.                    *)
(***************************************************************************)
CleanInv ==
  /\ worker.at \in Cleaning => hand.hash \subseteq stray
  /\ worker.at \in {"clean restore", "clean reserve"} => svn.hash \subseteq stray
  /\ worker.at = "clean reserve" => man_restore.hash \subseteq stray

(* The records stay among those of before, and those of them that the CLI   *)
(* had meanwhile stay so: what the steps of the worker keep to.             *)
Fewer ==
  /\ \A a \in Action : /\ svn'.list[a] \subseteq svn.list[a]
                       /\ man_restore'.list[a] \subseteq man_restore.list[a]
                       /\ man_reserve'.list[a] \subseteq man_reserve.list[a]
  /\ svn'.hash \subseteq svn.hash /\ man_restore'.hash \subseteq man_restore.hash
  /\ man_reserve'.hash \subseteq man_reserve.hash
  /\ hand' = hand
  /\ stray' = stray \cap Tracked'

LEMMA CleaningIsFewer ==
  ASSUME TypeOK, CleanSvn \/ CleanRestore \/ CleanReserve
  PROVE  /\ Fewer
         /\ CleanSvn => (svn'.hash = {} /\ worker'.at = "clean restore")
         /\ CleanRestore => (man_restore'.hash = {} /\ svn' = svn /\ worker'.at = "clean reserve")
         /\ CleanReserve => (/\ man_reserve'.hash = {} /\ UNCHANGED <<svn, man_restore>>
                             /\ worker'.at = "connect")
<1>1. EmptyStore.hash = {} /\ \A a \in Action : EmptyStore.list[a] = {}
  BY DEF EmptyStore
<1>2. CASE CleanSvn
  BY <1>1, <1>2, WorkerGoes DEF CleanSvn, Fewer, CleanRestore, CleanReserve, At
<1>3. CASE CleanRestore
  BY <1>1, <1>3, WorkerGoes DEF CleanRestore, Fewer, CleanSvn, CleanReserve, At
<1>4. CASE CleanReserve
  <2>1. worker'.at = "connect"
    BY <1>4 DEF CleanReserve, TypeOK, WorkerState
  <2> QED BY <1>1, <1>4, <2>1 DEF CleanReserve, Fewer, CleanRestore, CleanSvn, At
<1> QED BY <1>2, <1>3, <1>4

LEMMA RestoringIsFewer ==
  ASSUME TypeOK, HandInv, RestorePass
  PROVE  Fewer /\ hand = EmptyStore /\ worker.at \in {"restore", "last"} /\ worker'.at \in {"poll", "top"}
<1>1. EmptyStore.hash = {} /\ \A a \in Action : EmptyStore.list[a] = {}
  BY DEF EmptyStore
<1>2. worker.at \in {"restore", "last"} /\ worker'.at \in {"poll", "top"}
  BY WorkerGoes DEF RestorePass, At
<1>3. hand = EmptyStore
  BY DEF RestorePass, At, MutexFree, HandInv
<1> QED BY <1>1, <1>2, <1>3 DEF RestorePass, AutoRestore, ManRestore, ManRestoreAndCommit, Fewer

LEMMA NextClean == TypeOK /\ HandInv /\ OneStore /\ CleanInv /\ [Next]_vars => CleanInv'
<1> SUFFICES ASSUME TypeOK, HandInv, OneStore, CleanInv, [Next]_vars PROVE CleanInv'
  OBVIOUS
<1> USE DEF CleanInv
<1>0. EmptyStore.hash = {}
  BY EmptyStoreAgrees
<1>1. CASE Quiet
  BY <1>1 DEF Quiet, records, Cleaning
<1>2. CASE CleanTree
  <2>1. worker'.at = "clean svn"
    BY <1>2, WorkerGoes DEF CleanTree
  <2> QED BY <1>2, <2>1 DEF CleanTree
<1>3. CASE CleanSvn
  <2>1. /\ Fewer /\ svn'.hash = {} /\ worker'.at = "clean restore" /\ worker.at \in Cleaning
    BY <1>3, CleaningIsFewer DEF CleanSvn, At, Cleaning
  <2> QED BY <2>1 DEF Fewer, Tracked
<1>4. CASE CleanRestore
  <2>1. /\ Fewer /\ man_restore'.hash = {} /\ svn' = svn /\ worker'.at = "clean reserve"
        /\ worker.at = "clean restore" /\ worker.at \in Cleaning
    BY <1>4, CleaningIsFewer DEF CleanRestore, At, Cleaning
  <2> QED BY <2>1 DEF Fewer, Tracked, Known
<1>5. CASE CleanReserve
  <2>1. worker'.at = "connect"
    BY <1>5, CleaningIsFewer
  <2> QED BY <2>1 DEF Cleaning
<1>6. CASE RestorePass
  <2>1. worker'.at \in {"poll", "top"}
    BY <1>6, RestoringIsFewer
  <2> QED BY <2>1 DEF Cleaning
<1>7. CASE Download \/ DownloadExceeds
  <2>1. worker'.at \in {"poll", "top"}
    BY <1>7, WorkerGoes DEF Download, DownloadExceeds
  <2> QED BY <2>1 DEF Cleaning
<1>8. CASE TakeRecord
  <2>1. PICK p \in Path : /\ hand'.hash = {p}
                          /\ stray' = IF worker.at \in Cleaning THEN stray \cup {p} ELSE stray
                          /\ IF cli.move = "to_svn"
                             THEN man_restore' = DelNodes(man_restore, {p}) /\ UNCHANGED svn
                             ELSE svn' = DelNodes(svn, {p}) /\ UNCHANGED man_restore
    BY <1>8, TakeResult
  <2>2. svn'.hash \subseteq svn.hash /\ man_restore'.hash \subseteq man_restore.hash
    <3>1. svn \in Store /\ man_restore \in Store
      BY DEF TypeOK
    <3>2. \A s \in {svn, man_restore} : DelNodes(s, {p}).hash = s.hash \ {p}
      BY <3>1, DelNodesResult
    <3> QED BY <2>1, <3>2
  <2>3. worker' = worker
    BY <1>8 DEF TakeRecord
  <2>4. {"clean restore", "clean reserve"} \subseteq Cleaning
    BY DEF Cleaning
  <2> QED BY <2>1, <2>2, <2>3, <2>4
<1>9. CASE PutRecord
  <2>1. /\ hand'.hash = {} /\ stray' = stray /\ worker' = worker
        /\ svn'.hash \subseteq svn.hash \cup hand.hash
        /\ man_restore'.hash \subseteq man_restore.hash \cup hand.hash
    BY <1>0, <1>9, PutResult DEF PutRecord
  <2>2. {"clean restore", "clean reserve"} \subseteq Cleaning
    BY DEF Cleaning
  <2> QED BY <2>1, <2>2
<1>10. ASSUME worker'.at \in {"restore", "last"} PROVE CleanInv'
  BY <1>10 DEF Cleaning
<1> QED BY <1>1, <1>2, <1>3, <1>4, <1>5, <1>6, <1>7, <1>8, <1>9, <1>10, NextCases

LEMMA CleanLeavesStray == Spec => []CleanInv
<1>1. Init => CleanInv
  BY DEF Init, CleanInv, Cleaning
<1> QED BY <1>1, NextClean, TypeCorrect, HandIsEmpty, RecordsInOneStore, PTL DEF Spec

(* Where the worker goes in a step that leaves the records alone. *)
LEMMA QuietBackupFirst ==
  ASSUME TypeOK, HandInv, BackupFirst, [Next]_vars, Quiet
  PROVE  BackupFirst'
<1> USE DEF BackupFirst
<1>0. UNCHANGED <<isbackuped, stray, svn, man_restore, man_reserve, hand>>
  BY DEF Quiet, records, backup
<1>1. Tracked' = Tracked /\ stray' = stray
  BY <1>0 DEF Tracked, Known
<1>2. CASE worker' = worker
  BY <1>0, <1>1, <1>2
<1>3. CASE worker' # worker
  <2>0. worker.at \notin Cleaning /\ worker'.at \notin Cleaning
    BY <1>3 DEF Quiet
  <2>1. WorkerStep
    <3>1. ~CliStep
      BY <1>3 DEF CliStep, CliOnly, RestoreMode, NoRestoreMode, RestoreTamperAll,
         RestoreTamperFile, ClearTamperAll, ClearTamperFile, ClearTamperFileCommits,
         ViewTamperFilename, MonitorOn, MonitorOff, KeyChange, Lock, TakeRecord, PutRecord,
         Unlock, MoveFreedRecord, MoveRaces
    <3> QED BY <1>3, <3>1 DEF Next, SiteChange, Undefined, vars
  <2>2. CASE UpdateCfg \/ ConnectFails
    <3>1. worker'.at \in {"clean", "connect", "top"} /\ worker'.fulbak = worker.fulbak
      BY <2>2, WorkerGoes DEF UpdateCfg, ConnectFails
    <3> QED BY <1>0, <1>1, <2>0, <3>1
  <2>3. CASE Connect
    <3>1. PICK place \in {"paused", "increment", "download", "poll"} :
            /\ Go(place) /\ place # "increment"
            /\ place = "download" => ~isbackuped
            /\ place = "poll" => isbackuped
      BY <2>3 DEF Connect
    <3>2. worker'.at = place /\ worker'.fulbak = worker.fulbak
      BY <3>1, WorkerGoes
    <3> QED BY <1>0, <1>1, <2>0, <3>1, <3>2
  <2>4. CASE Resume
    <3>1. worker'.at = "top" /\ worker'.fulbak = worker.fulbak
      BY <2>4 DEF Resume, TypeOK, WorkerState
    <3> QED BY <1>0, <1>1, <2>0, <3>1
  <2>5. CASE PollStops \/ PollSeesKeyChange \/ \E due \in {"restore", "root", "full"} : PollTick(due)
    <3>1. worker'.at \in {"last", "top", "restore", "root", "full"} /\ worker'.fulbak = worker.fulbak
      BY <2>5, WorkerGoes DEF PollStops, PollSeesKeyChange, PollTick
    <3>2. worker.at = "poll"
      BY <2>5 DEF PollStops, PollSeesKeyChange, PollTick, At
    <3> QED BY <1>0, <1>1, <2>0, <3>1, <3>2
  <2>6. CASE CleanTree \/ CleanSvn \/ CleanRestore \/ CleanReserve
    <3>1. worker.at \in Cleaning \/ worker'.at \in Cleaning
      BY <2>6, WorkerGoes DEF CleanTree, CleanSvn, CleanRestore, CleanReserve, Cleaning, At
    <3> QED BY <2>0, <3>1
  <2>7. CASE Download \/ DownloadExceeds
    <3>1. worker'.at \in {"poll", "top"} /\ worker'.fulbak = worker.fulbak
      BY <2>7, WorkerGoes DEF Download, DownloadExceeds
    <3>2. Download => isbackuped' /\ ~isbackuped
      BY <2>7 DEF Download, At
    <3>3. DownloadExceeds => worker'.at = "top"
      BY <2>7, WorkerGoes DEF DownloadExceeds
    <3> QED BY <1>0, <1>1, <2>0, <2>7, <3>1, <3>2, <3>3
  <2>8. CASE RootPass \/ FullPass \/ FullPassCut
    <3>1. worker'.at \in {"restore", "last"} /\ worker'.fulbak = worker.fulbak
      BY <2>8, WorkerGoes DEF RootPass, FullPass, FullPassCut
    <3>2. worker.at \in {"root", "full"}
      BY <2>8 DEF RootPass, FullPass, FullPassCut, At
    <3> QED BY <1>0, <1>1, <2>0, <3>1, <3>2
  <2>9. CASE RestorePass
    <3>1. worker'.at \in {"poll", "top"} /\ worker'.fulbak = worker.fulbak
      BY <2>9, WorkerGoes DEF RestorePass
    <3>2. worker.at \in {"restore", "last"}
      BY <2>9 DEF RestorePass, At
    <3> QED BY <1>0, <1>1, <2>0, <3>1, <3>2
  <2> QED BY <2>1, <2>2, <2>3, <2>4, <2>5, <2>6, <2>7, <2>8, <2>9 DEF WorkerStep
<1> QED BY <1>2, <1>3

LEMMA NextBackupFirst ==
  TypeOK /\ HandInv /\ OneStore /\ CleanInv /\ BackupFirst /\ [Next]_vars => BackupFirst'
<1> SUFFICES ASSUME TypeOK, HandInv, OneStore, CleanInv, BackupFirst, [Next]_vars
             PROVE  BackupFirst'
  OBVIOUS
<1> USE DEF BackupFirst
<1>1. CASE Quiet
  BY <1>1, QuietBackupFirst
<1>2. CASE CleanTree \/ CleanSvn \/ CleanRestore
  <2>1. worker'.at \in Cleaning /\ worker'.fulbak = worker.fulbak
    BY <1>2, WorkerGoes DEF CleanTree, CleanSvn, CleanRestore, Cleaning
  <2> QED BY <2>1 DEF Cleaning
<1>3. CASE CleanReserve
  <2>1. /\ Fewer /\ man_reserve'.hash = {} /\ UNCHANGED <<svn, man_restore>>
        /\ worker'.at = "connect"
    BY <1>3, CleaningIsFewer
  <2>2. worker'.fulbak
    BY <1>3 DEF CleanReserve, TypeOK, WorkerState
  <2>3. worker.at = "clean reserve" /\ worker.at \in Cleaning
    BY <1>3 DEF CleanReserve, At, Cleaning
  <2>4. Tracked' \subseteq stray'
    BY <2>1, <2>3 DEF CleanInv, Fewer, Tracked, Known
  <2> QED BY <2>1, <2>2, <2>4
<1>4. CASE Download \/ DownloadExceeds
  <2>1. worker'.at \in {"poll", "top"} /\ worker'.fulbak = worker.fulbak
    BY <1>4, WorkerGoes DEF Download, DownloadExceeds
  <2>2. Tracked' = Tracked /\ stray' = stray
    BY <1>4 DEF Download, DownloadExceeds, records, Tracked, Known
  <2>3. worker.at = "download" /\ worker.at \notin Cleaning
    BY <1>4 DEF Download, DownloadExceeds, At, Cleaning
  <2>4. Download => isbackuped'
    BY DEF Download
  <2>5. DownloadExceeds => worker'.at = "top"
    BY WorkerGoes DEF DownloadExceeds
  <2> QED BY <1>4, <2>1, <2>2, <2>3, <2>4, <2>5
<1>5. CASE RestorePass
  <2>1. worker'.at \in {"poll", "top"} /\ worker'.fulbak = worker.fulbak
    BY <1>5, WorkerGoes DEF RestorePass
  <2>2. isbackuped /\ isbackuped' = isbackuped
    BY <1>5 DEF RestorePass, At
  <2> QED BY <2>1, <2>2
<1>6. CASE TakeRecord
  <2>1. PICK p \in Path : /\ hand'.hash = {p} /\ p \in Source.hash
                          /\ stray' = IF worker.at \in Cleaning THEN stray \cup {p} ELSE stray
                          /\ IF cli.move = "to_svn"
                             THEN man_restore' = DelNodes(man_restore, {p}) /\ UNCHANGED svn
                             ELSE svn' = DelNodes(svn, {p}) /\ UNCHANGED man_restore
                          /\ UNCHANGED man_reserve
    BY <1>6, TakeResult
  <2>2. svn \in Store /\ man_restore \in Store
    BY DEF TypeOK
  <2>3. Tracked' \subseteq Tracked
    BY <2>1, <2>2, DelNodesResult DEF Tracked, Known, Source
  <2>4. UNCHANGED <<worker, isbackuped>>
    BY <1>6 DEF TakeRecord, backup
  <2> QED BY <2>1, <2>3, <2>4
<1>7. CASE PutRecord
  <2>1. Tracked' \subseteq Tracked /\ stray' = stray
    BY <1>7, PutResult, EmptyStoreAgrees DEF Tracked, Known
  <2>2. UNCHANGED <<worker, isbackuped>>
    BY <1>7 DEF PutRecord, backup
  <2> QED BY <2>1, <2>2
<1>8. ASSUME NEW scope, NEW S, NEW whole, ComparePass(scope, S, whole),
             worker.at \in {"root", "full"}, worker'.at \in {"restore", "last"},
             worker'.fulbak = worker.fulbak
      PROVE  BackupFirst'
  <2>1. isbackuped /\ isbackuped' = isbackuped
    BY <1>8 DEF ComparePass
  <2> QED BY <1>8, <2>1
<1> QED BY <1>1, <1>2, <1>3, <1>4, <1>5, <1>6, <1>7, <1>8, NextCases

(***************************************************************************)
(* No pass runs without a backup and none is made over another.  What      *)
(* clean_webserver, which takes no lock, leaves in the stores are records  *)
(* that the CLI held or moved while it ran, and nothing else (util.c       *)
(* 257-277, svn.c 127-160 and 209-253).                                    *)
(***************************************************************************)
THEOREM BackupComesFirst == Spec => []BackupFirst
<1>1. Init => BackupFirst
  BY EmptyStoreAgrees DEF Init, BackupFirst, Tracked, Known
<1>2. TypeOK /\ HandInv /\ OneStore /\ CleanInv /\ BackupFirst /\ [Next]_vars => BackupFirst'
  BY NextBackupFirst
<1> QED BY <1>1, <1>2, TypeCorrect, HandIsEmpty, RecordsInOneStore, CleanLeavesStray, PTL DEF Spec

LEMMA NextRecordsFit ==
  ASSUME TypeOK, HandInv, OneStore, CleanInv, BackupFirst, BackupFirst', RecordsFitBackup, [Next]_vars
  PROVE  RecordsFitBackup'
<1> USE DEF RecordsFitBackup, Stores
<1>0. /\ svn \in Store /\ man_restore \in Store /\ man_reserve \in Store /\ hand \in Store
      /\ "add" \in Action /\ "update" \in Action /\ "delete" \in Action
  BY DEF TypeOK, Action
<1> DEFINE Same == /\ UNCHANGED <<node, second, stray>> /\ worker.at \notin Cleaning
           From == \A s \in Stores' : \A a \in Action :
                     s.list[a] \subseteq svn.list[a] \cup man_restore.list[a]
                                           \cup man_reserve.list[a] \cup hand.list[a]
(* Records that are of before, with the nodes of before. *)
<1>a. ASSUME From, Same PROVE RecordsFitBackup'
  BY <1>a, <1>0
(* Records that clean_webserver left. *)
<1>b. ASSUME Tracked' \subseteq stray', OneStore' PROVE RecordsFitBackup'
  <2>1. \A s \in Stores' : s.hash \subseteq Tracked' /\ \A a \in Action : s.list[a] \subseteq s.hash
    BY <1>b DEF Tracked, Known, OneStore, Agrees, Listed
  <2> QED BY <1>0, <1>b, <2>1
<1>c. OneStore'
  BY NextOneStore
<1>1. CASE Quiet
  <2>1. UNCHANGED <<svn, man_restore, man_reserve, hand, stray, node, second>>
    BY <1>1 DEF Quiet, records, backup
  <2> QED BY <1>1, <2>1 DEF Quiet
<1>2. CASE CleanTree \/ CleanSvn \/ CleanRestore
  <2>1. worker'.at \in Cleaning
    BY <1>2, WorkerGoes DEF CleanTree, CleanSvn, CleanRestore, Cleaning
  <2> QED BY <2>1
<1>3. CASE CleanReserve
  <2>1. worker'.at = "connect" /\ ~isbackuped'
    BY <1>3, CleaningIsFewer DEF CleanReserve
  <2>2. Tracked' \subseteq stray'
    BY <2>1 DEF BackupFirst, Cleaning
  <2> QED BY <1>b, <1>c, <2>2
<1>4. CASE Download \/ DownloadExceeds
  <2>1. UNCHANGED records /\ worker.at = "download"
    BY <1>4 DEF Download, DownloadExceeds, At
  <2>2. Tracked \subseteq stray
    BY <2>1 DEF BackupFirst, Cleaning
  <2>3. Tracked' \subseteq stray'
    BY <2>1, <2>2 DEF Tracked, Known, records
  <2> QED BY <1>b, <1>c, <2>3
<1>5. CASE RestorePass
  <2>1. /\ Fewer /\ hand = EmptyStore /\ worker.at \notin Cleaning
    BY <1>5, RestoringIsFewer DEF Cleaning
  <2>2. \A s \in Stores' : s.hash \subseteq Tracked' /\ \A a \in Action : s.list[a] \subseteq s.hash
    BY <1>c DEF Tracked, Known, OneStore, Agrees, Listed
  <2>3. From
    BY <2>1 DEF Fewer
  <2>4. \A s \in Stores', a \in Action : s.list[a] \ stray' = s.list[a] \ stray
    BY <2>1, <2>2 DEF Fewer
  <2>5. ASSUME UNCHANGED <<node, second>> PROVE RecordsFitBackup'
    BY <1>0, <2>1, <2>3, <2>4, <2>5
  <2>6. CASE AutoRestore \/ ManRestore
    BY <2>5, <2>6 DEF AutoRestore, ManRestore
  <2>7. CASE ManRestoreAndCommit
    <3>1. UNCHANGED svn /\ man_restore' = EmptyStore /\ man_reserve' = EmptyStore /\ hand' = hand
      BY <2>7, <1>5 DEF ManRestoreAndCommit, RestorePass
    <3>2. \A a \in Action : EmptyStore.list[a] = {}
      BY DEF EmptyStore
    <3>3. ASSUME NEW p \in Path, p \in svn.hash
          PROVE  node'[p] = node[p] /\ (p \in second' <=> p \in second)
      <4>1. p \notin Listed(man_reserve)
        BY <3>3 DEF OneStore, Agrees
      <4>2. \A a \in Action : p \notin man_reserve.list[a]
        BY <4>1 DEF Listed
      <4> QED BY <2>7, <4>2 DEF ManRestoreAndCommit, Commit, Action
    <3>4. \A a \in Action : svn.list[a] \subseteq svn.hash /\ svn.hash \subseteq Path
      BY <1>0 DEF OneStore, Agrees, Listed, Store
    <3>5. \A a \in Action : svn'.list[a] \ stray' = svn.list[a] \ stray
      BY <2>4, <3>1
    <3>6. \A s \in Stores' : s = svn \/ \A a \in Action : s.list[a] = {}
      BY <2>1, <3>1, <3>2
    <3> QED BY <1>0, <2>1, <3>1, <3>3, <3>4, <3>5, <3>6
  <2> QED BY <1>5, <2>6, <2>7 DEF RestorePass
<1>6. CASE TakeRecord \/ PutRecord
  <2>1. UNCHANGED <<node, second, worker>>
    BY <1>6 DEF TakeRecord, PutRecord, backup
  <2>2. CASE TakeRecord /\ worker.at \notin Cleaning
    <3>1. PICK p \in Path :
            /\ \A a \in Action : hand'.list[a] = Source.list[a] \cap {p}
            /\ IF cli.move = "to_svn"
               THEN man_restore' = DelNodes(man_restore, {p}) /\ UNCHANGED svn
               ELSE svn' = DelNodes(svn, {p}) /\ UNCHANGED man_restore
            /\ UNCHANGED man_reserve
            /\ stray' = IF worker.at \in Cleaning THEN stray \cup {p} ELSE stray
      BY <2>2, TakeResult
    <3>2. \A s \in {svn, man_restore}, a \in Action : DelNodes(s, {p}).list[a] \subseteq s.list[a]
      BY <1>0, DelNodesResult
    <3>3. From
      <4>1. \A a \in Action : /\ svn'.list[a] \subseteq svn.list[a]
                             /\ man_restore'.list[a] \subseteq man_restore.list[a]
                             /\ man_reserve'.list[a] \subseteq man_reserve.list[a]
                             /\ hand'.list[a] \subseteq svn.list[a] \cup man_restore.list[a]
        BY <3>1, <3>2 DEF Source
      <4> QED BY <4>1
    <3> QED BY <1>a, <2>1, <2>2, <3>1, <3>3
  <2>3. CASE PutRecord /\ worker.at \notin Cleaning
    <3>1. \A a \in Action : EmptyStore.list[a] = {}
      BY DEF EmptyStore
    <3>2. From
      BY <2>3, <3>1, PutResult
    <3>3. stray' = stray
      BY <2>3, PutResult
    <3> QED BY <1>a, <2>1, <2>3, <3>2, <3>3
  <2> QED BY <1>6, <2>1, <2>2, <2>3
<1>7. ASSUME NEW scope \in {Top, Path}, NEW S \in SUBSET scope, NEW whole \in BOOLEAN,
             ComparePass(scope, S, whole), worker.at \in {"root", "full"}
      PROVE  RecordsFitBackup'
  <2>1. scope \in SUBSET Path
    BY DEF TrackingAssumption
  <2>2. UNCHANGED <<man_restore, man_reserve, hand, stray, second>>
    BY <1>7 DEF ComparePass
  <2>3. \A p \in Path : node'[p] = "none" <=> node[p] = "none"
    BY <1>7 DEF ComparePass, NodesAfter
  <2>4. /\ \A p \in svn'.list["add"] : p \in svn.list["add"] \/ node[p] = "none"
        /\ \A p \in svn'.list["update"] : p \in svn.list["update"] \/ node[p] # "none"
        /\ \A p \in svn'.list["delete"] :
             p \in svn.list["delete"] \/ node[p] # "none" \/ p \in second
    <3> HIDE DEF RecordsFitBackup, Stores, Same, From
    <3> QED BY <1>7, <2>1, PassRecords
  <2>5. \A s \in Stores \cup Stores', a \in Action : s.list[a] \subseteq Path
    <3>1. svn' \in Store
      BY <1>7, <2>1, PassType
    <3> QED BY <1>0, <2>2, <3>1 DEF Store
  <2>6. worker.at \notin Cleaning
    BY <1>7 DEF Cleaning
  <2> QED BY <1>0, <2>2, <2>3, <2>4, <2>5, <2>6
<1> QED BY <1>1, <1>2, <1>3, <1>4, <1>5, <1>6, <1>7, NextCases

(***************************************************************************)
(* Whatever the CLI moves and the worker commits in between, restoring or  *)
(* accepting a record never asks for a backup that is not there, nor       *)
(* deletes a file that has one; the records that escaped clean_webserver,  *)
(* for which that is not so, are left out.                                 *)
(***************************************************************************)
THEOREM RecordsFit == Spec => []RecordsFitBackup
<1>1. Init => RecordsFitBackup
  BY DEF Init, RecordsFitBackup, Stores, EmptyStore, Action
<1>2. TypeOK /\ HandInv /\ OneStore /\ CleanInv /\ BackupFirst /\ BackupFirst' /\ RecordsFitBackup
        /\ [Next]_vars => RecordsFitBackup'
  BY NextRecordsFit
<1> QED BY <1>1, <1>2, TypeCorrect, HandIsEmpty, RecordsInOneStore, CleanLeavesStray,
           BackupComesFirst, PTL DEF Spec
-----------------------------------------------------------------------------
(***************************************************************************)
(* Tracking implements TamperPolicy: every step of the worker, of the CLI  *)
(* and of the site is a step of the policy or changes nothing it speaks    *)
(* of.                                                                     *)
(***************************************************************************)
Backed == {p \in Path : node[p] # "none"}

(* The phases of the files are the stores, and the hand of the CLI. *)
PhaseInv ==
  /\ Policy!In("reported") = svn.hash
  /\ Policy!In("restoring") = man_restore.hash
  /\ Policy!In("accepted") = man_reserve.hash
  /\ Policy!In("deciding") = (IF cli.move = "to_svn" THEN {} ELSE hand.hash)
  /\ Policy!In("returning") = (IF cli.move = "to_svn" THEN hand.hash ELSE {})
  /\ Policy!Tracked = Tracked
  /\ Policy!InHand = hand.hash
  /\ \A s \in Stores : s.hash \subseteq Path
  /\ \A s \in {svn, man_restore, man_reserve} : s.hash \cap hand.hash = {}

LEMMA PhaseSets == TypeOK /\ OneStore => PhaseInv
<1> SUFFICES ASSUME TypeOK, OneStore PROVE PhaseInv
  OBVIOUS
<1>1. \A s \in Stores : s.hash \subseteq Path
  BY DEF TypeOK, Store, Stores
<1>2. \A s \in {svn, man_restore, man_reserve} : s.hash \cap hand.hash = {}
  BY DEF OneStore, Known
<1>3. \A p \in Path : /\ Phase[p] = "reported" <=> p \in svn.hash
                      /\ Phase[p] = "restoring" <=> p \in man_restore.hash
                      /\ Phase[p] = "accepted" <=> p \in man_reserve.hash
                      /\ Phase[p] = "deciding" <=> (p \in hand.hash /\ cli.move # "to_svn")
                      /\ Phase[p] = "returning" <=> (p \in hand.hash /\ cli.move = "to_svn")
                      /\ Phase[p] = "untracked" <=> p \notin Tracked
  BY DEF Phase, OneStore, Known, Tracked
<1>4. /\ Policy!In("reported") = svn.hash
      /\ Policy!In("restoring") = man_restore.hash
      /\ Policy!In("accepted") = man_reserve.hash
  BY <1>1, <1>3 DEF Policy!In, Stores
<1>5. /\ Policy!In("deciding") = (IF cli.move = "to_svn" THEN {} ELSE hand.hash)
      /\ Policy!In("returning") = (IF cli.move = "to_svn" THEN hand.hash ELSE {})
  BY <1>1, <1>3 DEF Policy!In, Stores
<1>6. Tracked \subseteq Path
  BY <1>1 DEF Tracked, Known, Stores
<1>7. Policy!Tracked = Tracked
  BY <1>3, <1>6 DEF Policy!In, Policy!Tracked
<1>8. Policy!InHand = hand.hash
  BY <1>5 DEF Policy!InHand
<1> QED BY <1>1, <1>2, <1>4, <1>5, <1>7, <1>8 DEF PhaseInv

PolicyInv == TypeOK /\ HandInv /\ OneStore /\ BackupFirst /\ PhaseInv

(* A step that moves the names of P to another store, or to none. *)
LEMMA PhaseStep ==
  ASSUME NEW P, NEW ph,
         \A p \in Path : Phase'[p] = IF p \in P THEN ph ELSE Phase[p]
  PROVE  Policy!SetPhase(P, ph)
BY DEF Policy!SetPhase, Phase

(* The worker takes records out of one store, or of two. *)
LEMMA PhaseFewer ==
  ASSUME TypeOK, OneStore, OneStore', hand' = hand, cli'.move = cli.move, NEW P,
         svn'.hash = svn.hash \ P, man_restore'.hash = man_restore.hash \ P,
         man_reserve'.hash = man_reserve.hash \ P, P \cap hand.hash = {}
  PROVE  Policy!SetPhase(P, "untracked")
<1>1. \A p \in Path : Phase'[p] = IF p \in P THEN "untracked" ELSE Phase[p]
  BY DEF Phase, OneStore, Known
<1> QED BY <1>1, PhaseStep

LEMMA PolicyStep ==
  ASSUME PolicyInv, PolicyInv', [Next]_vars
  PROVE  [Policy!Next]_<<Phase, Stage, Backed, stray>>
<1> USE DEF PolicyInv
<1>0. /\ svn \in Store /\ man_restore \in Store /\ man_reserve \in Store /\ hand \in Store
      /\ EmptyStore.hash = {}
  BY EmptyStoreAgrees DEF TypeOK
<1>d. /\ svn.hash \cap man_restore.hash = {} /\ svn.hash \cap man_reserve.hash = {}
      /\ man_restore.hash \cap man_reserve.hash = {} /\ hand.hash \cap Known = {}
  BY DEF OneStore
<1>m. \A P : AfterFree(P).move = cli.move
  BY DEF AfterFree, TypeOK, CliState
<1>1. CASE Quiet
  <2>1. UNCHANGED <<svn, man_restore, man_reserve, hand, stray, node, isbackuped>>
    BY <1>1 DEF Quiet, records, backup
  <2>2. Stage' = Stage /\ Backed' = Backed
    BY <1>1, <2>1 DEF Quiet, Stage, Backed
  <2>3. Phase' = Phase
    <3>1. CASE hand = EmptyStore
      BY <1>0, <2>1, <3>1 DEF Phase
    <3>2. CASE cli'.move = cli.move
      BY <2>1, <3>2 DEF Phase
    <3> QED BY <1>1, <3>1, <3>2 DEF Quiet
  <2> QED BY <2>1, <2>2, <2>3
<1>2. CASE CleanTree
  <2>1. worker.at \notin Cleaning /\ worker'.at = "clean svn"
    BY <1>2, WorkerGoes DEF CleanTree, At, Cleaning
  <2>2. Stage # "discarding" /\ Stage' = "discarding"
    BY <2>1 DEF Stage, Cleaning
  <2>3. Backed' = {} /\ stray' = hand.hash /\ Phase' = Phase
    <3>1. UNCHANGED <<svn, man_restore, man_reserve, hand, cli>>
      BY <1>2 DEF CleanTree
    <3>2. Phase' = Phase
      BY <3>1 DEF Phase
    <3>3. Backed' = {} /\ stray' = hand.hash
      BY <1>2 DEF CleanTree, Backed
    <3> QED BY <3>2, <3>3
  <2> QED BY <2>2, <2>3 DEF Policy!Next, Policy!Discard, Backed, PhaseInv
<1>3. CASE CleanSvn \/ CleanRestore \/ CleanReserve
  <2>1. /\ Fewer /\ worker.at \in Cleaning
    BY <1>3, CleaningIsFewer DEF CleanSvn, CleanRestore, CleanReserve, At, Cleaning
  <2>2. Stage = "discarding" /\ Backed' = Backed /\ cli'.move = cli.move
    BY <1>3, <1>m, <2>1 DEF CleanSvn, CleanRestore, CleanReserve, Stage, Backed, backup
  <2>3. stray' = stray \cap Policy!Tracked'
    BY <2>1 DEF Fewer, PhaseInv
  <2>4. Stage' = "discarding" \/ (Stage' = "making" /\ Policy!Tracked' \subseteq stray')
    <3>1. CASE CleanSvn \/ CleanRestore
      BY <3>1, CleaningIsFewer DEF Stage, Cleaning
    <3>2. CASE CleanReserve
      <4>1. worker'.at = "connect" /\ isbackuped' = FALSE
        BY <3>2, CleaningIsFewer DEF CleanReserve
      <4> QED BY <4>1 DEF Stage, Cleaning, BackupFirst, PhaseInv
    <3> QED BY <1>3, <3>1, <3>2
  <2>5. \E ph \in {"reported", "restoring", "accepted"} :
          Policy!SetPhase(Policy!In(ph), "untracked")
    <3> USE DEF PhaseInv
    <3>1. CASE CleanSvn
      <4>1. /\ svn'.hash = svn.hash \ svn.hash /\ man_restore'.hash = man_restore.hash \ svn.hash
            /\ man_reserve'.hash = man_reserve.hash \ svn.hash /\ hand' = hand
            /\ svn.hash \cap hand.hash = {}
        BY <1>0, <1>d, <3>1 DEF CleanSvn, Known
      <4> QED BY <2>2, <4>1, PhaseFewer
    <3>2. CASE CleanRestore
      <4>1. /\ svn'.hash = svn.hash \ man_restore.hash
            /\ man_restore'.hash = man_restore.hash \ man_restore.hash
            /\ man_reserve'.hash = man_reserve.hash \ man_restore.hash /\ hand' = hand
            /\ man_restore.hash \cap hand.hash = {}
        BY <1>0, <1>d, <3>2 DEF CleanRestore, Known
      <4> QED BY <2>2, <4>1, PhaseFewer
    <3>3. CASE CleanReserve
      <4>1. /\ svn'.hash = svn.hash \ man_reserve.hash
            /\ man_restore'.hash = man_restore.hash \ man_reserve.hash
            /\ man_reserve'.hash = man_reserve.hash \ man_reserve.hash /\ hand' = hand
            /\ man_reserve.hash \cap hand.hash = {}
        BY <1>0, <1>d, <3>3 DEF CleanReserve, Known
      <4> QED BY <2>2, <4>1, PhaseFewer
    <3> QED BY <1>3, <3>1, <3>2, <3>3
  <2> QED BY <2>2, <2>3, <2>4, <2>5 DEF Policy!Next, Policy!Forget, Backed
<1>4. CASE Download \/ DownloadExceeds
  <2>1. UNCHANGED records /\ worker.at = "download" /\ cli' = cli
    BY <1>4 DEF Download, DownloadExceeds, At
  <2>2. Stage = "making" /\ Tracked \subseteq stray
    BY <2>1 DEF BackupFirst, Cleaning, Stage
  <2>3. worker'.at \notin Cleaning
    <3>1. worker'.at \in {"poll", "top"}
      BY <1>4, WorkerGoes DEF Download, DownloadExceeds
    <3> QED BY <3>1 DEF Cleaning
  <2>4. Stage' \in {"making", "made"}
    BY <2>3 DEF Stage
  <2>5. Phase' = Phase /\ stray' = stray
    BY <2>1 DEF records, Phase
  <2>6. Backed \subseteq Backed' /\ Backed' \subseteq Path
    BY <1>4 DEF Download, DownloadExceeds, Fetch, Backed
  <2> QED BY <2>2, <2>4, <2>5, <2>6 DEF Policy!Next, Policy!BackUp, Backed, PhaseInv
<1>5. CASE RestorePass
  <2>1. /\ Fewer /\ hand = EmptyStore /\ worker.at \in {"restore", "last"}
        /\ worker'.at \in {"poll", "top"}
    BY <1>5, RestoringIsFewer
  <2>2. Stage = "made" /\ Stage' = "made"
    BY <1>5, <2>1 DEF BackupFirst, Cleaning, Stage, RestorePass
  <2>3. stray' = stray \cap Policy!Tracked' /\ Policy!InHand = {} /\ hand' = hand
    BY <1>0, <2>1 DEF Fewer, PhaseInv
  <2>4. cli'.move = cli.move
    BY <1>5, <1>m DEF RestorePass, AutoRestore, ManRestore, ManRestoreAndCommit
  <2>5. CASE AutoRestore
    <3>1. /\ svn'.hash = svn.hash \ svn.hash /\ man_restore'.hash = man_restore.hash \ svn.hash
          /\ man_reserve'.hash = man_reserve.hash \ svn.hash /\ svn.hash \cap hand.hash = {}
      BY <1>0, <1>d, <2>5 DEF AutoRestore, Known
    <3>2. Policy!SetPhase(Policy!In("reported"), "untracked")
      BY <2>3, <2>4, <3>1, PhaseFewer DEF PhaseInv
    <3>3. Backed' = Backed
      BY <2>5 DEF AutoRestore, Backed
    <3> QED BY <2>2, <2>3, <3>2, <3>3 DEF Policy!Next, Policy!Undo, Backed
  <2>6. CASE ManRestore
    <3>1. /\ svn'.hash = svn.hash \ man_restore.hash
          /\ man_restore'.hash = man_restore.hash \ man_restore.hash
          /\ man_reserve'.hash = man_reserve.hash \ man_restore.hash
          /\ man_restore.hash \cap hand.hash = {}
      BY <1>0, <1>d, <2>6 DEF ManRestore, Known
    <3>2. Policy!SetPhase(Policy!In("restoring"), "untracked")
      BY <2>3, <2>4, <3>1, PhaseFewer DEF PhaseInv
    <3>3. Backed' = Backed
      BY <2>6 DEF ManRestore, Backed
    <3> QED BY <2>2, <2>3, <3>2, <3>3 DEF Policy!Next, Policy!Undo, Backed
  <2>7. CASE ManRestoreAndCommit
    <3> PICK fixed \in RestoredSites(man_restore), D \in Taken : Commit(D, fixed)
      BY <2>7 DEF ManRestoreAndCommit
    <3> DEFINE P == man_restore.hash \cup man_reserve.hash
    <3>1. /\ svn'.hash = svn.hash \ P /\ man_restore'.hash = man_restore.hash \ P
          /\ man_reserve'.hash = man_reserve.hash \ P /\ P \cap hand.hash = {}
      BY <1>0, <1>d, <2>7 DEF ManRestoreAndCommit, Known
    <3>2. Policy!SetPhase(Policy!In("restoring") \cup Policy!In("accepted"), "untracked")
      BY <2>3, <2>4, <3>1, PhaseFewer DEF PhaseInv
    <3> DEFINE In == (D \cap man_reserve.list["add"]) \ man_reserve.list["delete"]
               Out == D \cap man_reserve.list["delete"]
    <3>3. In \subseteq man_reserve.hash /\ Out \subseteq man_reserve.hash
      BY DEF OneStore, Stores, Agrees, Listed, Action
    <3>4. Backed' = (Backed \cup In) \ Out
      BY <1>0, <3>3 DEF Commit, Backed, Store
    <3>5. In \in SUBSET Policy!In("accepted") /\ Out \in SUBSET Policy!In("accepted")
      BY <3>3 DEF PhaseInv
    <3> HIDE DEF In, Out
    <3> QED BY <2>2, <2>3, <3>2, <3>4, <3>5 DEF Policy!Next, Policy!TakeIn, Backed
  <2> QED BY <1>5, <2>5, <2>6, <2>7 DEF RestorePass
<1>6. CASE TakeRecord
  <2>1. PICK p \in Path :
          /\ hand = EmptyStore /\ cli'.move = cli.move /\ hand'.hash = {p} /\ p \in Source.hash
          /\ IF cli.move = "to_svn"
             THEN man_restore' = DelNodes(man_restore, {p}) /\ UNCHANGED svn
             ELSE svn' = DelNodes(svn, {p}) /\ UNCHANGED man_restore
          /\ UNCHANGED man_reserve
          /\ stray' = IF worker.at \in Cleaning THEN stray \cup {p} ELSE stray
    BY <1>6, TakeResult
  <2>2. UNCHANGED <<worker, isbackuped, node>>
    BY <1>6 DEF TakeRecord, backup
  <2>3. Stage' = Stage /\ Backed' = Backed /\ (Stage = "discarding" <=> worker.at \in Cleaning)
    BY <2>2 DEF Stage, Backed
  <2>4. \A s \in {svn, man_restore} : DelNodes(s, {p}).hash = s.hash \ {p}
    BY <1>0, DelNodesResult
  <2>5. \/ Phase[p] = "reported" /\ Policy!SetPhase({p}, "deciding")
        \/ Phase[p] = "restoring" /\ Policy!SetPhase({p}, "returning")
    <3>1. CASE cli.move = "to_svn"
      <4>1. /\ man_restore'.hash = man_restore.hash \ {p} /\ p \in man_restore.hash
            /\ UNCHANGED <<svn, man_reserve>>
        BY <2>1, <2>4, <3>1 DEF Source
      <4>2. \A q \in Path : Phase'[q] = IF q \in {p} THEN "returning" ELSE Phase[q]
        BY <1>0, <1>d, <2>1, <3>1, <4>1 DEF Phase
      <4>3. Phase[p] = "restoring"
        BY <4>1 DEF PhaseInv, Policy!In
      <4> QED BY <4>2, <4>3, PhaseStep
    <3>2. CASE cli.move # "to_svn"
      <4>1. svn'.hash = svn.hash \ {p} /\ p \in svn.hash /\ UNCHANGED <<man_restore, man_reserve>>
        BY <2>1, <2>4, <3>2 DEF Source
      <4>2. \A q \in Path : Phase'[q] = IF q \in {p} THEN "deciding" ELSE Phase[q]
        BY <1>0, <1>d, <2>1, <3>2, <4>1 DEF Phase
      <4>3. Phase[p] = "reported"
        BY <4>1 DEF PhaseInv, Policy!In
      <4> QED BY <4>2, <4>3, PhaseStep
    <3> QED BY <3>1, <3>2
  <2>6. Policy!InHand = {}
    BY <1>0, <2>1 DEF PhaseInv
  <2>7. stray' = IF Stage = "discarding" THEN stray \cup {p} ELSE stray
    BY <2>1, <2>3
  <2> QED BY <2>3, <2>5, <2>6, <2>7 DEF Policy!Next, Policy!Decide, Backed
<1>7. CASE PutRecord
  <2>1. UNCHANGED <<worker, isbackuped, node>> /\ hand'.hash = {} /\ stray' = stray /\ cli' = cli
    BY <1>0, <1>7, PutResult DEF PutRecord, backup
  <2>2. Stage' = Stage /\ Backed' = Backed
    BY <2>1 DEF Stage, Backed
  <2>3. \/ /\ cli.move = "to_svn" /\ UNCHANGED <<man_restore, man_reserve>>
           /\ svn'.hash = svn.hash \cup hand.hash
        \/ /\ cli.move # "to_svn" /\ UNCHANGED <<svn, man_reserve>>
           /\ man_restore'.hash = man_restore.hash \cup hand.hash
        \/ /\ cli.move # "to_svn" /\ UNCHANGED <<svn, man_restore>>
           /\ man_reserve'.hash = man_reserve.hash \cup hand.hash
    BY <1>7, PutResult
  <2> DEFINE To(ph) == \A q \in Path : Phase'[q] = IF q \in hand.hash THEN ph ELSE Phase[q]
  <2>4. \/ cli.move = "to_svn" /\ To("reported")
        \/ cli.move # "to_svn" /\ (To("restoring") \/ To("accepted"))
    <3>1. CASE cli.move = "to_svn" /\ UNCHANGED <<man_restore, man_reserve>>
               /\ svn'.hash = svn.hash \cup hand.hash
      BY <1>d, <2>1, <3>1 DEF Phase, Known
    <3>2. CASE cli.move # "to_svn" /\ UNCHANGED <<svn, man_reserve>>
               /\ man_restore'.hash = man_restore.hash \cup hand.hash
      <4>1. To("restoring")
        BY <1>d, <2>1, <3>2 DEF Phase, Known
      <4> QED BY <3>2, <4>1
    <3>3. CASE cli.move # "to_svn" /\ UNCHANGED <<svn, man_restore>>
               /\ man_reserve'.hash = man_reserve.hash \cup hand.hash
      <4>1. To("accepted")
        BY <1>d, <2>1, <3>3 DEF Phase, Known
      <4> QED BY <3>3, <4>1
    <3> QED BY <2>3, <3>1, <3>2, <3>3
  <2>5. CASE hand.hash = {}
    <3>1. Phase' = Phase
      BY <2>4, <2>5 DEF Phase
    <3> QED BY <2>1, <2>2, <3>1
  <2>6. CASE hand.hash # {}
    <3>1. \A ph : To(ph) => Policy!SetPhase(hand.hash, ph)
      BY PhaseStep
    <3> HIDE DEF To
    <3>2. CASE cli.move = "to_svn"
      BY <2>1, <2>2, <2>4, <2>6, <3>1, <3>2 DEF Policy!Next, Policy!Decided, Backed, PhaseInv
    <3>3. CASE cli.move # "to_svn"
      BY <2>1, <2>2, <2>4, <2>6, <3>1, <3>3 DEF Policy!Next, Policy!Decided, Backed, PhaseInv
    <3> QED BY <3>2, <3>3
  <2> QED BY <2>5, <2>6
<1>8. ASSUME NEW scope \in {Top, Path}, NEW S \in SUBSET scope, NEW whole \in BOOLEAN,
             ComparePass(scope, S, whole), worker.at \in {"root", "full"},
             worker'.at \in {"restore", "last"}, hand = EmptyStore
      PROVE  Policy!Report
  <2>1. scope \in SUBSET Path
    BY TrackingAssumption DEF TrackingAssumption
  <2>2. UNCHANGED <<man_restore, man_reserve, hand, stray, cli, isbackuped>>
    BY <1>8 DEF ComparePass
  <2>3. /\ \A p \in svn'.hash : p \in svn.hash \/ p \notin man_restore.hash \cup man_reserve.hash
        /\ svn.hash \subseteq svn'.hash
    BY <1>8, <2>1, PassRecords
  <2>4. Stage = "made" /\ Stage' = "made"
    BY <1>8, <2>2 DEF BackupFirst, Stage, Cleaning
  <2>5. Backed' = Backed
    BY <1>8 DEF ComparePass, NodesAfter, Backed
  <2>6. \A p \in Path : Phase'[p] = IF p \in svn'.hash \ svn.hash THEN "reported" ELSE Phase[p]
    <3>1. /\ svn'.hash \cap man_restore.hash = {} /\ svn'.hash \cap man_reserve.hash = {}
          /\ hand.hash = {}
      BY <1>0, <1>8, <1>d, <2>3
    <3> QED BY <1>d, <2>2, <2>3, <3>1 DEF Phase
  <2>7. Policy!SetPhase(svn'.hash \ svn.hash, "reported")
    BY <2>6, PhaseStep
  <2>8. svn'.hash \ svn.hash \in SUBSET Policy!In("untracked")
    <3>1. \A p \in Path : p \notin Tracked => Phase[p] = "untracked"
      BY DEF Phase, Tracked, Known
    <3>2. svn'.hash \subseteq Path
      BY DEF PhaseInv, Stores
    <3> QED BY <1>0, <1>8, <2>3, <3>1, <3>2 DEF Policy!In, Tracked, Known
  <2>9. Policy!InHand = {}
    BY <1>0, <1>8 DEF PhaseInv
  <2> QED BY <2>2, <2>4, <2>5, <2>7, <2>8, <2>9 DEF Policy!Report, Backed
<1> QED BY <1>1, <1>2, <1>3, <1>4, <1>5, <1>6, <1>7, <1>8, NextCases DEF Policy!Next

(***************************************************************************)
(* The program keeps to the policy for any set of files: a file is undone  *)
(* or accepted only as the administrator decided, the backup changes only  *)
(* by accepted records, or anew when nothing is reported but what escaped  *)
(* clean_webserver in the hands of the administrator.                      *)
(***************************************************************************)
THEOREM ImplementsPolicy == Spec => KeepsPolicy
<1>1. Init => Policy!Init
  BY EmptyStoreAgrees DEF Init, Policy!Init, Phase, Stage, Cleaning
<1>2. PolicyInv /\ PolicyInv' /\ [Next]_vars => [Policy!Next]_<<Phase, Stage, Backed, stray>>
  BY PolicyStep
<1>3. Spec => []PolicyInv
  BY TypeCorrect, HandIsEmpty, RecordsInOneStore, BackupComesFirst, PhaseSets, PTL DEF PolicyInv
<1> QED BY <1>1, <1>2, <1>3, PTL DEF Spec, KeepsPolicy, Policy!Spec, Backed
-----------------------------------------------------------------------------
(* What a record goes through *)

LEMMA MovesKeepTracked ==
  ASSUME TypeOK, OneStore, TakeRecord \/ PutRecord
  PROVE  Tracked' = Tracked
<1>1. CASE TakeRecord
  <2>1. PICK p \in Path :
          /\ hand = EmptyStore /\ hand'.hash = {p} /\ p \in Source.hash
          /\ IF cli.move = "to_svn"
             THEN man_restore' = DelNodes(man_restore, {p}) /\ UNCHANGED svn
             ELSE svn' = DelNodes(svn, {p}) /\ UNCHANGED man_restore
          /\ UNCHANGED man_reserve
    BY <1>1, TakeResult
  <2>2. \A s \in {svn, man_restore} : DelNodes(s, {p}).hash = s.hash \ {p}
    BY DelNodesResult DEF TypeOK
  <2> QED BY <2>1, <2>2, EmptyStoreAgrees DEF Tracked, Known, Source
<1>2. CASE PutRecord
  BY <1>2, PutResult, EmptyStoreAgrees DEF Tracked, Known
<1> QED BY <1>1, <1>2

(***************************************************************************)
(* No command loses a record, wherever between its steps the worker        *)
(* compares, restores, commits or empties the stores (cli_unix.c 1471-1697 *)
(* and 1893-1966, svn.c 127-207).                                          *)
(***************************************************************************)
THEOREM MovesLoseNothing == Spec => CliKeepsRecords
<1>1. ASSUME TypeOK, HandInv, OneStore, [Next]_vars, worker' = worker
      PROVE  Tracked' = Tracked
  <2>1. CASE Quiet \/ Download \/ DownloadExceeds
    BY <2>1 DEF Quiet, Download, DownloadExceeds, records, Tracked, Known
  <2>2. CASE CleanTree \/ CleanSvn \/ CleanRestore \/ CleanReserve
    <3>1. CASE CleanTree
      BY <3>1 DEF CleanTree, Tracked, Known
    <3>2. CASE CleanSvn \/ CleanRestore \/ CleanReserve
      BY <1>1, <3>2, CleaningIsFewer DEF CleanSvn, CleanRestore, CleanReserve, At
    <3> QED BY <2>2, <3>1, <3>2
  <2>3. CASE RestorePass
    BY <1>1, <2>3, RestoringIsFewer
  <2>4. CASE TakeRecord \/ PutRecord
    BY <1>1, <2>4, MovesKeepTracked
  <2> QED BY <1>1, <2>1, <2>2, <2>3, <2>4, NextCases
<1>2. TypeOK /\ HandInv /\ OneStore /\ [Next]_vars => (worker' = worker => Tracked' = Tracked)
  BY <1>1
<1> QED BY <1>2, TypeCorrect, HandIsEmpty, RecordsInOneStore, PTL DEF Spec, CliKeepsRecords

(* A restore whose writes succeed brings the file of a record back. *)
LEMMA RestoredIsInSync ==
  ASSUME TypeOK, OneStore, RecordsFitBackup, worker.at \notin Cleaning, "write" \notin Faults,
         NEW s \in Stores, NEW new \in RestoredSites(s), NEW p \in s.hash, p \notin stray
  PROVE  /\ p \in Path
         /\ \/ new[p] = "absent" /\ node[p] = "none"
            \/ new[p] = "same" /\ node[p] # "none"
            \/ p \in vague \cup second
<1>1. s \in Store /\ Agrees(s)
  BY DEF TypeOK, OneStore, Stores
<1>2. p \in Path /\ p \in Listed(s)
  BY <1>1 DEF Store, Agrees
<1>3. CASE p \in s.list["add"]
  <2>1. node[p] = "none"
    BY <1>3 DEF RecordsFitBackup
  <2>2. new[p] = "absent"
    BY <1>2, <1>3 DEF RestoredSites
  <2> QED BY <1>2, <2>1, <2>2
<1>4. CASE p \notin s.list["add"]
  <2>1. p \in s.list["update"] \cup s.list["delete"]
    BY <1>2, <1>4 DEF Listed, Action
  <2>2. node[p] # "none" \/ p \in second
    BY <2>1 DEF RecordsFitBackup
  <2>3. node[p] # "none" => (new[p] = "same" \/ p \in vague)
    BY <1>2, <1>4 DEF RestoredSites
  <2> QED BY <1>2, <2>2, <2>3
<1> QED BY <1>3, <1>4

(* A commit takes in the change a record is about, if it is still there. *)
LEMMA CommittedIsInSync ==
  ASSUME TypeOK, OneStore, RecordsFitBackup, worker.at \notin Cleaning,
         NEW fixed \in RestoredSites(man_restore), Commit(Listed(man_reserve), fixed),
         NEW p \in man_reserve.hash, p \notin stray \cup second
  PROVE  InSync(p)' \/ Outdated(p)
<1>1. /\ man_reserve \in Store /\ man_restore \in Store
      /\ Agrees(man_reserve) /\ Agrees(man_restore) /\ man_restore.hash \cap man_reserve.hash = {}
  BY DEF TypeOK, OneStore, Stores
<1>2. p \in Path /\ p \in Listed(man_reserve) /\ p \notin Listed(man_restore)
  BY <1>1 DEF Store, Agrees
<1>3. fixed[p] = site[p]
  <2>1. p \notin man_restore.list["add"]
    BY <1>2 DEF Listed, Action
  <2> QED BY <1>2, <2>1 DEF RestoredSites
<1>n. /\ p \in man_reserve.list["add"] => node[p] = "none"
      /\ p \in man_reserve.list["update"] => node[p] # "none"
  BY DEF RecordsFitBackup, Stores
<1>4. /\ node'[p] = IF p \in man_reserve.list["delete"] THEN "none"
                    ELSE IF p \in man_reserve.list["add"] THEN "untouched" ELSE node[p]
      /\ site'[p] = IF site[p] = "absent" THEN "absent"
                    ELSE IF p \in man_reserve.list["delete"] THEN "edited" ELSE "same"
  <2>1. PICK others \in SUBSET second :
          /\ node' = [q \in Path |->
                        IF q \in Listed(man_reserve) \cap man_reserve.list["delete"] THEN "none"
                        ELSE IF q \in Listed(man_reserve) \cap man_reserve.list["add"] /\ node[q] = "none"
                        THEN "untouched" ELSE node[q]]
          /\ site' = [q \in Path |->
                        IF q \notin Listed(man_reserve) \/ fixed[q] = "absent" THEN fixed[q]
                        ELSE IF q \in Listed(man_reserve) \cap man_reserve.list["delete"] THEN "edited"
                        ELSE IF \/ q \in Listed(man_reserve) \cap man_reserve.list["add"] /\ node[q] = "none"
                                \/ /\ q \in (Listed(man_reserve) \cap man_reserve.list["update"]) \ others
                                   /\ node[q] # "none"
                        THEN "same" ELSE fixed[q]]
    BY DEF Commit
  <2>2. p \in man_reserve.list["add"] \/ p \in man_reserve.list["update"]
          \/ p \in man_reserve.list["delete"]
    BY <1>2 DEF Listed, Action
  <2> QED BY <1>2, <1>3, <1>n, <2>1, <2>2
<1>5. CASE p \in man_reserve.list["delete"]
  BY <1>4, <1>5 DEF InSync, Outdated
<1>6. CASE p \notin man_reserve.list["delete"]
  <2>1. p \in man_reserve.list["add"] \/ node[p] # "none"
    BY <1>2, <1>6, <1>n DEF Listed, Action
  <2> QED BY <1>4, <1>6, <2>1 DEF InSync, Outdated
<1> QED BY <1>5, <1>6

LEMMA SettledIsInSync ==
  ASSUME TypeOK, HandInv, OneStore, RecordsFitBackup, Faults \cap {"write", "exceed"} = {},
         RestorePass, NEW p \in Tracked \ (Tracked' \cup stray)
  PROVE  InSync(p)' \/ p \in vague \cup second \/ (p \in man_reserve.hash /\ Outdated(p))
<1> USE DEF Stores
<1>0. hand' = hand /\ worker.at \notin Cleaning
  BY RestoringIsFewer DEF Fewer, Cleaning
<1>k. p \in Known \ Known'
  BY <1>0 DEF Tracked
<1>1. CASE AutoRestore
  <2>1. p \in svn.hash /\ site' \in RestoredSites(svn) /\ UNCHANGED node
    BY <1>1, <1>k DEF AutoRestore, Known
  <2> QED BY <1>0, <2>1, RestoredIsInSync DEF InSync
<1>2. CASE ManRestore
  <2>1. p \in man_restore.hash /\ site' \in RestoredSites(man_restore) /\ UNCHANGED node
    BY <1>2, <1>k DEF ManRestore, Known
  <2> QED BY <1>0, <2>1, RestoredIsInSync DEF InSync
<1>3. CASE ManRestoreAndCommit
  <2>1. PICK fixed \in RestoredSites(man_restore) : Commit(Listed(man_reserve), fixed)
    BY <1>3 DEF ManRestoreAndCommit, Taken
  <2>2. p \in man_restore.hash \/ p \in man_reserve.hash
    BY <1>3, <1>k DEF ManRestoreAndCommit, Known
  <2>3. CASE p \in man_restore.hash
    <3>1. p \notin Listed(man_reserve)
      BY <2>3 DEF OneStore, Agrees
    <3>2. \A a \in Action : p \notin man_reserve.list[a]
      BY <3>1 DEF Listed
    <3>3. p \in Path /\ (\/ fixed[p] = "absent" /\ node[p] = "none"
                         \/ fixed[p] = "same" /\ node[p] # "none"
                         \/ p \in vague \cup second)
      BY <1>0, <2>1, <2>3, RestoredIsInSync
    <3>4. node'[p] = node[p] /\ site'[p] = fixed[p]
      BY <2>1, <3>1, <3>2, <3>3 DEF Commit, Action
    <3> QED BY <3>3, <3>4 DEF InSync
  <2> QED BY <1>0, <2>1, <2>2, <2>3, CommittedIsInSync
<1> QED BY <1>1, <1>2, <1>3 DEF RestorePass

(***************************************************************************)
(* Where writes succeed and the disk is not full, a record goes only when  *)
(* its file is as in the backup again or its change has been taken in,     *)
(* whichever copy of the mode the worker went by (core.c 803-877); unless  *)
(* the backup goes with it, or went before it.                             *)
(***************************************************************************)
THEOREM ForgottenWhenSettled ==
  ASSUME Faults \cap {"write", "exceed"} = {}
  PROVE  Spec => ForgottenOnlyInSync
<1>1. ASSUME TypeOK, HandInv, OneStore, RecordsFitBackup, [Next]_vars, worker.at \notin Cleaning,
             NEW p \in Tracked \ (Tracked' \cup stray)
      PROVE  InSync(p)' \/ p \in vague \cup second \/ (p \in man_reserve.hash /\ Outdated(p))
  <2>1. CASE Quiet \/ Download \/ DownloadExceeds
    BY <2>1 DEF Quiet, Download, DownloadExceeds, records, Tracked, Known
  <2>2. CASE CleanTree
    BY <2>2 DEF CleanTree, Tracked, Known
  <2>3. CASE CleanSvn \/ CleanRestore \/ CleanReserve
    BY <1>1, <2>3 DEF CleanSvn, CleanRestore, CleanReserve, At, Cleaning
  <2>4. CASE RestorePass
    BY <1>1, <2>4, SettledIsInSync
  <2>5. CASE TakeRecord \/ PutRecord
    BY <1>1, <2>5, MovesKeepTracked
  <2>6. ASSUME NEW scope, NEW S, NEW whole, ComparePass(scope, S, whole)
        PROVE  FALSE
    <3>1. svn.hash \subseteq svn'.hash
      BY <2>6, AddRecordsHash DEF ComparePass
    <3> QED BY <2>6, <3>1 DEF ComparePass, Tracked, Known
  <2> QED BY <1>1, <2>1, <2>2, <2>3, <2>4, <2>5, <2>6, NextCases
<1>2. TypeOK /\ HandInv /\ OneStore /\ RecordsFitBackup /\ [Next]_vars =>
        (worker.at \notin Cleaning =>
           \A p \in Tracked \ (Tracked' \cup stray) :
             \/ InSync(p)'
             \/ p \in vague \cup second
             \/ p \in man_reserve.hash /\ Outdated(p))
  BY <1>1
<1> QED BY <1>2, TypeCorrect, HandIsEmpty, RecordsInOneStore, RecordsFit, PTL
        DEF Spec, ForgottenOnlyInSync

-----------------------------------------------------------------------------
(* What a pass reports *)

(* No mark of a listing that broke off is left. *)
NoMarks == \A p \in Path : node[p] # "touched"

LEMMA NextNoMarks ==
  ASSUME "list" \notin Faults, TypeOK, NoMarks, [Next]_vars
  PROVE  NoMarks'
<1> USE DEF NoMarks
<1>1. CASE Quiet \/ CleanSvn \/ CleanRestore \/ CleanReserve \/ TakeRecord \/ PutRecord
  BY <1>1 DEF Quiet, CleanSvn, CleanRestore, CleanReserve, TakeRecord, PutRecord, backup
<1>2. CASE CleanTree \/ Download \/ DownloadExceeds
  BY <1>2 DEF CleanTree, Download, DownloadExceeds, Fetch
<1>3. CASE RestorePass
  BY <1>3 DEF RestorePass, AutoRestore, ManRestore, ManRestoreAndCommit, Commit
<1>4. ASSUME ~(RootPass \/ FullPass \/ FullPassCut) PROVE NoMarks'
  <2>1. CASE WorkerStep
    <3>1. CASE UNCHANGED node
      BY <3>1
    <3>2. CASE UpdateCfg \/ ConnectFails \/ Connect \/ Resume \/ PollStops \/ PollSeesKeyChange
                 \/ \E due \in {"restore", "root", "full"} : PollTick(due)
      BY <3>1, <3>2 DEF UpdateCfg, ConnectFails, Connect, Resume, PollStops, PollSeesKeyChange,
                        PollTick, backup
    <3> QED BY <1>1, <1>2, <1>3, <1>4, <2>1, <3>2 DEF WorkerStep
  <2>2. CASE ~WorkerStep
    <3>1. UNCHANGED node
      BY <2>2 DEF Next, SiteChange, Undefined, vars, CliStep, CliOnly, RestoreMode, NoRestoreMode,
         RestoreTamperAll, RestoreTamperFile, ClearTamperAll, ClearTamperFile,
         ClearTamperFileCommits, ViewTamperFilename, MonitorOn, MonitorOff, KeyChange, Lock,
         TakeRecord, PutRecord, Unlock, MoveFreedRecord, MoveRaces, backup
    <3> QED BY <3>1
  <2> QED BY <2>1, <2>2
<1>5. CASE RootPass \/ FullPass \/ FullPassCut
  <2>1. PICK scope : WholePass(scope)
    BY <1>5 DEF RootPass, FullPass, FullPassCut, CutPass, CutListings
  <2>2. node' = NodesAfter(Present(scope), scope, TRUE)
    BY <2>1 DEF WholePass, ComparePass
  <2> QED BY <2>2 DEF NodesAfter
<1> QED BY <1>4, <1>5

(***************************************************************************)
(* Where listings do not break off, every file that is not as in the       *)
(* backup has a record after a full pass, whatever was moved, restored or  *)
(* committed before (core.c 470-669).                                      *)
(***************************************************************************)
THEOREM WholePassReports == ASSUME "list" \notin Faults PROVE Spec => FullPassReports
<1>1. ASSUME TypeOK, NoMarks, [Next]_vars, worker.at = "full", worker'.at = "last",
             NEW p \in Path, ~InSync(p)
      PROVE  p \in Known'
  <2>1. WholePass(Path)
    <3>1. CASE WorkerStep
      <4>1. FullPass \/ FullPassCut
        BY <1>1, <3>1 DEF WorkerStep, At, UpdateCfg, CleanTree, CleanSvn, CleanRestore,
           CleanReserve, ConnectFails, Connect, Resume, Download, DownloadExceeds, PollStops,
           PollSeesKeyChange, PollTick, RootPass, RestorePass
      <4> QED BY <1>1, <4>1 DEF FullPass, FullPassCut, CutPass, CutListings
    <3>2. CASE ~WorkerStep
      BY <1>1, <3>2 DEF Next, SiteChange, Undefined, vars, CliStep, CliOnly, RestoreMode,
         NoRestoreMode, RestoreTamperAll, RestoreTamperFile, ClearTamperAll, ClearTamperFile,
         ClearTamperFileCommits, ViewTamperFilename, MonitorOn, MonitorOff, KeyChange, Lock,
         TakeRecord, PutRecord, Unlock, MoveFreedRecord, MoveRaces
    <3> QED BY <3>1, <3>2
  <2>2. p \in Added(Present(Path)) \cup Updated(Present(Path)) \cup Deleted(Present(Path), Path)
    <3>1. site[p] \in SiteState /\ node[p] \in {"none", "untouched"}
      BY <1>1 DEF TypeOK, NodeState, NoMarks
    <3> QED BY <1>1, <3>1 DEF InSync, Added, Updated, Deleted, Present, SiteState
  <2>3. p \in svn'.hash \cup man_restore'.hash \cup man_reserve'.hash
    <3> DEFINE known == man_restore.hash \cup man_reserve.hash
               s1 == AddRecords(svn, known, Added(Present(Path)), "add")
               s2 == AddRecords(s1, known, Updated(Present(Path)), "update")
               s3 == AddRecords(s2, known, Deleted(Present(Path), Path), "delete")
    <3>1. svn' = s3 /\ UNCHANGED <<man_restore, man_reserve>>
      BY <2>1 DEF WholePass, ComparePass
    <3>2. s1.hash = svn.hash \cup (Added(Present(Path)) \ (svn.hash \cup known))
      BY AddRecordsHash
    <3>3. s2.hash = s1.hash \cup (Updated(Present(Path)) \ (s1.hash \cup known))
      BY AddRecordsHash
    <3>4. s3.hash = s2.hash \cup (Deleted(Present(Path), Path) \ (s2.hash \cup known))
      BY AddRecordsHash
    <3> HIDE DEF s1, s2, s3
    <3> QED BY <2>2, <3>1, <3>2, <3>3, <3>4
  <2> QED BY <2>3 DEF Known
<1>2. TypeOK /\ NoMarks /\ [Next]_vars =>
        (worker.at = "full" /\ worker'.at = "last" => \A p \in Path : ~InSync(p) => p \in Known')
  BY <1>1
<1>3. Init => NoMarks
  BY DEF Init, NoMarks
<1>4. TypeOK /\ NoMarks /\ [Next]_vars => NoMarks'
  BY NextNoMarks
<1> QED BY <1>2, <1>3, <1>4, TypeCorrect, PTL DEF Spec, FullPassReports
-----------------------------------------------------------------------------
(* Reporting *)

(***************************************************************************)
(* A section keeps the CLI out, so that the records it began with are the  *)
(* ones it ends with.  A record has a check row exactly when isstored is   *)
(* set or it is waiting for its last row; outside of svn it has been moved.*)
(***************************************************************************)
Reported(p) == p \in stored \/ (section = "restored" /\ p \in todo)

SectionInv ==
  /\ section # "none" => cli.at # "locked"
  /\ section = "none" => todo = {}
  /\ section = "check" => /\ svn.hash \subseteq stored \cup todo
                          /\ todo \subseteq svn.hash /\ todo \cap stored = {}
  /\ section = "restored" => /\ todo \cap (stored \cup Tracked) = {}
                             /\ wscfg.auto => svn.hash = {}

RowInv ==
  /\ \A p \in Path : said[p] # "nothing" => Reported(p)
  /\ \A p \in Path : Reported(p) /\ p \notin moved => said[p] \in {"check", "lost"}
  /\ man_restore.hash \cup man_reserve.hash \cup hand.hash \subseteq moved
  /\ stored \subseteq moved \cup svn.hash

ReportingInv == ReportingType /\ SectionInv /\ RowInv

-----------------------------------------------------------------------------
(* Reporting is Tracking *)

LEMMA StepsAreTracking == ASSUME [ReportingNext]_rvars PROVE [Next]_vars
<1>1. CASE UNCHANGED rvars
  BY <1>1 DEF rvars
<1>2. CASE ReportingWorker
  <2>1. CASE ReportingRootPass
    BY <2>1 DEF ReportingRootPass, PassOver, Next, WorkerStep, RootPass, WholePass, CutPass
  <2>2. CASE ReportingFullPass
    BY <2>2 DEF ReportingFullPass, PassOver, Next, WorkerStep, FullPass, WholePass
  <2>3. CASE ReportingFullPassCut
    BY <2>3 DEF ReportingFullPassCut, PassOver, Next, WorkerStep, FullPassCut, CutPass
  <2>4. CASE ReportingOther
    BY <2>4 DEF ReportingOther, Next
  <2>5. CASE Restore
    BY <2>5 DEF Restore, Next, WorkerStep
  <2>6. CASE BeginSection \/ EndSection \/ \E p \in Path : CheckRow(p) \/ RestoreRow(p)
    BY <2>6 DEF BeginSection, EndSection, CheckRow, RestoreRow
  <2> QED BY <1>2, <2>1, <2>2, <2>3, <2>4, <2>5, <2>6 DEF ReportingWorker
<1>3. CASE ReportingSite \/ ReportingCli \/ (Undefined /\ UNCHANGED reports)
  BY <1>3 DEF ReportingSite, ReportingCli, Next
<1> QED BY <1>1, <1>2, <1>3 DEF ReportingNext

(* Each behaviour with the rows is one of Tracking: what is proved of its   *)
(* records is true here too (core.c 1231-1260).                             *)
THEOREM ImplementsTracking == ReportingSpec => Spec
<1>1. ReportingInit => Init
  BY DEF ReportingInit
<1>2. [ReportingNext]_rvars => [Next]_vars
  BY StepsAreTracking
<1> QED BY <1>1, <1>2, PTL DEF ReportingSpec, Spec

-----------------------------------------------------------------------------
(* What a step does to the records, by where the worker and the CLI are *)

(* Stores that are of one mind have what their lists have. *)
LEMMA HashIsListed ==
  ASSUME TypeOK, OneStore
  PROVE  /\ Listed(svn) = svn.hash /\ Listed(man_restore) = man_restore.hash
         /\ Listed(man_reserve) = man_reserve.hash
         /\ svn.hash \subseteq Path /\ man_restore.hash \subseteq Path
         /\ man_reserve.hash \subseteq Path /\ hand.hash \subseteq Path
BY DEF TypeOK, OneStore, Stores, Agrees, Store

(* The CLI moves records only once it has the mutex, and takes it only when *)
(* it waits for it.                                                         *)
LEMMA CliCases ==
  ASSUME CliStep
  PROVE  /\ UNCHANGED wscfg
         /\ TakeRecord \/ PutRecord \/ UNCHANGED records
         /\ cli'.at = "locked" => cli.at \in {"waiting", "locked"}
<1> USE DEF CliOnly, Idle, Wait
<1>1. CASE \E auto \in BOOLEAN : RestoreMode(auto)
  BY <1>1 DEF RestoreMode
<1>2. CASE NoRestoreMode
  BY <1>2 DEF NoRestoreMode, Begin
<1>3. CASE RestoreTamperAll
  BY <1>3 DEF RestoreTamperAll, Begin
<1>4. CASE RestoreTamperFile
  <2>1. PICK p \in svn.hash : CliOnly(cfg, Wait("restore_file", {p}))
    BY <1>4 DEF RestoreTamperFile
  <2> QED BY <2>1
<1>5. CASE ClearTamperAll
  BY <1>5 DEF ClearTamperAll, Begin
<1>6. CASE ClearTamperFile
  <2>1. PICK p \in svn.hash : CliOnly(cfg, Wait("reserve_file", {p}))
    BY <1>6 DEF ClearTamperFile
  <2> QED BY <2>1
<1>7. CASE ClearTamperFileCommits
  BY <1>7 DEF ClearTamperFileCommits, Begin
<1>8. CASE ViewTamperFilename
  BY <1>8 DEF ViewTamperFilename, Begin
<1>9. CASE MonitorOn
  BY <1>9 DEF MonitorOn, Begin
<1>10. CASE MonitorOff
  BY <1>10 DEF MonitorOff, Begin
<1>11. CASE KeyChange
  BY <1>11 DEF KeyChange, Begin
<1>12. CASE Lock
  BY <1>12 DEF Lock
<1>13. CASE MoveFreedRecord
  <2>1. cli' = [cli EXCEPT !.at = "undefined"] /\ UNCHANGED <<records, wscfg>>
    BY <1>13 DEF MoveFreedRecord
  <2> QED BY <1>13, <2>1 DEF MoveFreedRecord
<1>14. CASE TakeRecord \/ PutRecord
  BY <1>14 DEF TakeRecord, PutRecord
<1>15. CASE Unlock
  BY <1>15 DEF Unlock
<1>16. CASE MoveRaces
  <2>1. cli.at \in {"waiting", "locked"} /\ UNCHANGED <<records, wscfg>>
    BY <1>16 DEF MoveRaces
  <2> QED BY <1>16, <2>1
<1> QED BY <1>1, <1>2, <1>3, <1>4, <1>5, <1>6, <1>7, <1>8, <1>9, <1>10, <1>11, <1>12, <1>13,
           <1>14, <1>15, <1>16 DEF CliStep

(* Inside a section the CLI leaves the records alone. *)
LEMMA CliInSection ==
  ASSUME SectionInv, ReportingCli, section # "none"
  PROVE  /\ UNCHANGED <<records, wscfg, section, todo, stored, said>>
         /\ cli'.at # "locked" /\ moved' = moved
<1>1. cli.at # "locked" /\ cli.at # "waiting"
  BY DEF SectionInv, ReportingCli
<1>2. UNCHANGED records /\ UNCHANGED wscfg /\ cli'.at # "locked"
  BY <1>1, CliCases DEF ReportingCli, TakeRecord, PutRecord
<1> QED BY <1>2 DEF ReportingCli, records

(* Outside of it the CLI moves what it likes, and that is noted. *)
LEMMA CliMoves ==
  ASSUME TypeOK, OneStore, RowInv, ReportingCli
  PROVE  /\ man_restore'.hash \cup man_reserve'.hash \cup hand'.hash \subseteq moved'
         /\ svn.hash \subseteq moved' \cup svn'.hash
         /\ moved \subseteq moved'
<1>1. svn.hash \subseteq moved' \cup svn'.hash /\ moved \subseteq moved'
  BY DEF ReportingCli
<1>2. CASE UNCHANGED records
  BY <1>1, <1>2 DEF records, RowInv
<1>3. CASE TakeRecord
  <2>1. PICK p \in Path :
          /\ hand'.hash = {p} /\ p \in Source.hash
          /\ IF cli.move = "to_svn"
             THEN man_restore' = DelNodes(man_restore, {p}) /\ UNCHANGED svn
             ELSE svn' = DelNodes(svn, {p}) /\ UNCHANGED man_restore
          /\ UNCHANGED man_reserve
    BY <1>3, TakeResult
  <2>2. \A s \in {svn, man_restore} : DelNodes(s, {p}).hash = s.hash \ {p}
    BY DelNodesResult DEF TypeOK
  <2>3. CASE cli.move = "to_svn"
    <3>1. man_restore'.hash \subseteq man_restore.hash /\ p \in man_restore.hash
      BY <2>1, <2>2, <2>3 DEF Source
    <3> QED BY <1>1, <2>1, <3>1 DEF RowInv
  <2>4. CASE cli.move # "to_svn"
    <3>1. svn'.hash = svn.hash \ {p} /\ p \in svn.hash /\ UNCHANGED man_restore
      BY <2>1, <2>2, <2>4 DEF Source
    <3>2. p \in moved'
      BY <1>1, <3>1
    <3> QED BY <1>1, <2>1, <3>1, <3>2 DEF RowInv
  <2> QED BY <1>1, <2>3, <2>4
<1>4. CASE PutRecord
  <2>1. /\ hand'.hash = {}
        /\ man_restore'.hash \subseteq man_restore.hash \cup hand.hash
        /\ man_reserve'.hash \subseteq man_reserve.hash \cup hand.hash
    BY <1>4, PutResult, EmptyStoreAgrees
  <2> QED BY <1>1, <2>1 DEF RowInv
<1> QED BY <1>2, <1>3, <1>4, CliCases DEF ReportingCli

(* What a restore pass takes away is what its rows are about. *)
LEMMA RestoreResult ==
  ASSUME TypeOK, HandInv, OneStore, RestorePass
  PROVE  /\ Settled \subseteq Path /\ Tracked' = Tracked \ Settled
         /\ svn'.hash = svn.hash \ Settled /\ UNCHANGED <<wscfg>>
         /\ wscfg.auto => Settled = svn.hash
         /\ ~wscfg.auto => Settled \subseteq man_restore.hash \cup man_reserve.hash
         /\ man_restore'.hash \subseteq man_restore.hash
         /\ man_reserve'.hash \subseteq man_reserve.hash
         /\ cli'.at = cli.at /\ hand' = hand /\ hand.hash = {}
<1>0. /\ Listed(svn) = svn.hash /\ Listed(man_restore) = man_restore.hash
      /\ Listed(man_reserve) = man_reserve.hash
      /\ svn.hash \subseteq Path /\ man_restore.hash \subseteq Path
      /\ man_reserve.hash \subseteq Path
  BY HashIsListed
<1>1. EmptyStore.hash = {}
  BY EmptyStoreAgrees
<1>h. hand' = hand /\ hand.hash = {}
  BY <1>1, RestoringIsFewer DEF Fewer
<1>2. CASE AutoRestore
  <2>1. cli'.at = cli.at
    BY <1>2 DEF AutoRestore, AfterFree, TypeOK, CliState
  <2> QED BY <1>0, <1>1, <1>h, <1>2, <2>1
         DEF AutoRestore, RestorePass, Settled, Tracked, Known, OneStore
<1>3. CASE ManRestore
  BY <1>0, <1>1, <1>h, <1>3 DEF ManRestore, RestorePass, Settled, Tracked, Known, OneStore
<1>4. CASE ManRestoreAndCommit
  BY <1>0, <1>1, <1>h, <1>4
     DEF ManRestoreAndCommit, RestorePass, Settled, Tracked, Known, OneStore
<1> QED BY <1>2, <1>3, <1>4 DEF RestorePass
-----------------------------------------------------------------------------
(* The rows *)

LEMMA ReportingInitInv == ReportingInit => ReportingInv
BY EmptyStoreAgrees DEF ReportingInit, Init, ReportingInv, ReportingType, SectionInv, RowInv,
                        Reported, Idle, Saying

LEMMA SayingIsFunction ==
  ASSUME ReportingType, NEW p \in Path, NEW s \in Saying
  PROVE  [said EXCEPT ![p] = s] \in [Path -> Saying]
BY DEF ReportingType

(* A pass adds records of which nothing has been said. *)
LEMMA PassKeepsRows ==
  ASSUME TypeOK, OneStore, ReportingInv, NEW scope \in SUBSET Path, NEW S \in SUBSET scope,
         NEW whole \in BOOLEAN, PassOver(scope, S, whole)
  PROVE  ReportingInv'
<1>1. /\ svn.hash \subseteq svn'.hash /\ UNCHANGED <<man_restore, man_reserve, hand, cli, wscfg>>
  <2>1. \A s, known, P, a : s.hash \subseteq AddRecords(s, known, P, a).hash
    BY DEF AddRecords
  <2> QED BY <2>1 DEF PassOver, ComparePass
<1>2. ReportingType'
  BY DEF PassOver, ReportingInv, ReportingType
<1>3. SectionInv' /\ RowInv'
  BY <1>1 DEF PassOver, ReportingInv, SectionInv, RowInv, Reported
<1> QED BY <1>2, <1>3 DEF ReportingInv

(* The other steps outside of a section: records stay, or go. *)
LEMMA OtherKeepsRows ==
  ASSUME TypeOK, HandInv, OneStore, ReportingInv, ReportingOther
  PROVE  ReportingInv'
<1>1. /\ svn'.hash \subseteq svn.hash /\ man_restore'.hash \subseteq man_restore.hash
      /\ man_reserve'.hash \subseteq man_reserve.hash /\ hand' = hand
  <2>1. CASE CleanSvn \/ CleanRestore \/ CleanReserve
    BY <2>1, CleaningIsFewer DEF Fewer
  <2>2. CASE CleanTree
    BY <2>2 DEF CleanTree
  <2>3. CASE RestorePass \/ RootPass \/ FullPass \/ FullPassCut
    BY <2>3 DEF ReportingOther, RestorePass, RootPass, FullPass, FullPassCut, At
  <2>4. CASE UpdateCfg \/ ConnectFails \/ Connect \/ Resume \/ Download \/ DownloadExceeds
    BY <2>4 DEF UpdateCfg, ConnectFails, Connect, Resume, Download, DownloadExceeds, records
  <2>5. CASE PollStops \/ PollSeesKeyChange \/ \E due \in {"restore", "root", "full"} : PollTick(due)
    BY <2>5 DEF PollStops, PollSeesKeyChange, PollTick, records
  <2> QED BY <2>1, <2>2, <2>3, <2>4, <2>5 DEF ReportingOther, WorkerStep
<1>2. ReportingType'
  BY DEF ReportingOther, ReportingInv, ReportingType, Saying
<1>3. SectionInv'
  BY DEF ReportingOther, ReportingInv, SectionInv
<1>4. RowInv'
  <2>1. /\ stored' = stored \cap Tracked' /\ moved' = moved \cap Tracked'
        /\ section = "none" /\ section' = section /\ todo' = todo
        /\ \A p \in Path : said'[p] = IF p \in Tracked' THEN said[p] ELSE "nothing"
    BY DEF ReportingOther
  <2>2. \A p \in Tracked' : p \in svn'.hash \/ p \in moved
    BY <1>1 DEF Tracked, Known, ReportingInv, RowInv
  <2>3. man_restore'.hash \cup man_reserve'.hash \cup hand'.hash \subseteq moved'
    BY <1>1, <2>1 DEF Tracked, Known, ReportingInv, RowInv
  <2>4. /\ \A p \in Path : said'[p] # "nothing" => Reported(p)'
        /\ \A p \in Path : Reported(p)' /\ p \notin moved' => said'[p] \in {"check", "lost"}
    BY <2>1 DEF ReportingInv, RowInv, Reported
  <2>5. stored' \subseteq moved' \cup svn'.hash
    BY <2>1, <2>2
  <2> QED BY <2>3, <2>4, <2>5 DEF RowInv
<1> QED BY <1>2, <1>3, <1>4 DEF ReportingInv

LEMMA CliKeepsRows ==
  ASSUME TypeOK, OneStore, ReportingInv, ReportingCli
  PROVE  ReportingInv'
<1>1. CASE section # "none"
  <2>1. /\ UNCHANGED <<records, wscfg, section, todo, stored, said>>
        /\ cli'.at # "locked" /\ moved' = moved
    BY <1>1, CliInSection DEF ReportingInv
  <2>2. changed' = changed /\ UNCHANGED <<svn, man_restore, man_reserve, hand>>
    BY <2>1 DEF ReportingCli, records
  <2>3. Tracked' = Tracked
    BY <2>2 DEF Tracked, Known
  <2> QED BY <2>1, <2>2, <2>3 DEF ReportingInv, ReportingType, SectionInv, RowInv, Reported
<1>2. CASE section = "none"
  <2>1. /\ man_restore'.hash \cup man_reserve'.hash \cup hand'.hash \subseteq moved'
        /\ svn.hash \subseteq moved' \cup svn'.hash /\ moved \subseteq moved'
    BY CliMoves DEF ReportingInv
  <2>2. UNCHANGED <<section, todo, stored, changed, said>>
    BY DEF ReportingCli
  <2>3. moved' \subseteq Path
    BY HashIsListed DEF ReportingCli, ReportingInv, ReportingType
  <2>4. ReportingType'
    BY <2>2, <2>3 DEF ReportingInv, ReportingType
  <2>5. SectionInv'
    BY <1>2, <2>2 DEF ReportingInv, SectionInv
  <2>6. RowInv'
    BY <1>2, <2>1, <2>2 DEF ReportingInv, RowInv, Reported
  <2> QED BY <2>4, <2>5, <2>6 DEF ReportingInv
<1> QED BY <1>1, <1>2

LEMMA SectionKeepsRows ==
  ASSUME TypeOK, HandInv, OneStore, ReportingInv,
         BeginSection \/ Restore \/ EndSection \/ \E p \in Path : CheckRow(p) \/ RestoreRow(p)
  PROVE  ReportingInv'
<1>0. /\ Listed(svn) = svn.hash /\ svn.hash \subseteq Path
      /\ svn.hash \cap (man_restore.hash \cup man_reserve.hash \cup hand.hash) = {}
  BY HashIsListed DEF OneStore, Known
<1>1. CASE BeginSection
  <2>1. UNCHANGED <<svn, man_restore, man_reserve, hand, wscfg, cli>>
    BY <1>1 DEF BeginSection, vars, records
  <2>2. ReportingType'
    BY <1>0, <1>1 DEF BeginSection, ToCheck, ReportingInv, ReportingType
  <2>3. SectionInv'
    BY <1>0, <1>1, <2>1 DEF BeginSection, ToCheck, ReportingInv, SectionInv, MutexFree
  <2>4. RowInv'
    BY <1>1, <2>1 DEF BeginSection, ReportingInv, RowInv, Reported
  <2> QED BY <2>2, <2>3, <2>4 DEF ReportingInv
<1>2. CASE Restore
  <2>1. /\ Settled \subseteq Path /\ Tracked' = Tracked \ Settled
        /\ svn'.hash = svn.hash \ Settled /\ UNCHANGED wscfg
        /\ wscfg.auto => Settled = svn.hash
        /\ ~wscfg.auto => Settled \subseteq man_restore.hash \cup man_reserve.hash
        /\ man_restore'.hash \subseteq man_restore.hash
        /\ man_reserve'.hash \subseteq man_reserve.hash
        /\ cli'.at = cli.at /\ hand' = hand /\ hand.hash = {}
    BY <1>2, RestoreResult DEF Restore
  <2>2. /\ section = "check" /\ todo = {} /\ section' = "restored" /\ todo' = Settled
        /\ stored' = stored \ Settled /\ UNCHANGED <<changed, said, moved>>
    BY <1>2 DEF Restore
  <2> HIDE DEF Settled
  <2>3. ReportingType'
    BY <2>1, <2>2 DEF ReportingInv, ReportingType
  <2>4. SectionInv'
    BY <2>1, <2>2 DEF ReportingInv, SectionInv
  <2>5. svn.hash \subseteq stored
    BY <2>2 DEF ReportingInv, SectionInv
  <2>6. RowInv'
    BY <1>0, <2>1, <2>2, <2>5 DEF ReportingInv, RowInv, Reported
  <2> QED BY <2>3, <2>4, <2>6 DEF ReportingInv
<1>3. CASE EndSection
  <2>1. UNCHANGED <<svn, man_restore, man_reserve, hand, wscfg, cli>>
    BY <1>3 DEF EndSection, vars, records
  <2>2. /\ section = "restored" /\ todo = {} /\ section' = "none" /\ said' = Grown
        /\ UNCHANGED <<todo, stored, moved>> /\ changed' \in BOOLEAN
    BY <1>3 DEF EndSection
  <2>3. Grown \in [Path -> Saying] /\ \A p \in Path : Grown[p] # "nothing" => said[p] # "nothing"
    BY DEF Grown, ReportingInv, ReportingType, Saying
  <2>4. ReportingType' /\ SectionInv'
    BY <2>1, <2>2, <2>3 DEF ReportingInv, ReportingType, SectionInv
  <2>5. wscfg.auto => stored \subseteq moved
    BY <2>2 DEF ReportingInv, SectionInv, RowInv
  <2>6. ~wscfg.auto => Grown = said
    BY DEF Grown
  <2>7. RowInv'
    BY <2>1, <2>2, <2>3, <2>5, <2>6 DEF ReportingInv, RowInv, Reported
  <2> QED BY <2>4, <2>7 DEF ReportingInv
<1>4. ASSUME NEW p \in Path, CheckRow(p) PROVE ReportingInv'
  <2>1. UNCHANGED <<svn, man_restore, man_reserve, hand, wscfg, cli>>
    BY <1>4 DEF CheckRow, vars, records
  <2>2. PICK s \in {"check", "lost"} : said' = [said EXCEPT ![p] = s]
    <3>1. AfterCheckRow \subseteq {"check", "lost"}
      BY DEF AfterCheckRow
    <3> HIDE DEF AfterCheckRow
    <3> QED BY <1>4, <3>1 DEF CheckRow
  <2>3. said' \in [Path -> Saying]
    BY <2>2, SayingIsFunction DEF ReportingInv, Saying
  <2>4. /\ section = "check" /\ section' = section /\ p \in todo /\ todo' = todo \ {p}
        /\ moved' = moved \ {p} /\ stored' = stored \cup {p} /\ changed' = changed
    BY <1>4 DEF CheckRow
  <2>5. ReportingType' /\ SectionInv'
    BY <2>1, <2>3, <2>4 DEF ReportingInv, ReportingType, SectionInv
  <2>6. p \in svn.hash
    BY <2>4 DEF ReportingInv, SectionInv
  <2>7. RowInv'
    BY <1>0, <2>1, <2>2, <2>4, <2>6 DEF ReportingInv, ReportingType, RowInv, Reported
  <2> QED BY <2>5, <2>7 DEF ReportingInv
<1>5. ASSUME NEW p \in Path, RestoreRow(p) PROVE ReportingInv'
  <2>1. UNCHANGED <<svn, man_restore, man_reserve, hand, wscfg, cli>>
    BY <1>5 DEF RestoreRow, vars, records
  <2>2. /\ section = "restored" /\ section' = section /\ p \in todo /\ todo' = todo \ {p}
        /\ moved' = moved \ {p} /\ UNCHANGED <<stored, changed>>
        /\ said' = [said EXCEPT ![p] = "nothing"]
    BY <1>5 DEF RestoreRow
  <2>3. said' \in [Path -> Saying]
    BY <2>2, SayingIsFunction DEF ReportingInv, Saying
  <2>4. Tracked' = Tracked
    BY <2>1 DEF Tracked, Known
  <2>5. ReportingType' /\ SectionInv'
    BY <2>1, <2>2, <2>3, <2>4 DEF ReportingInv, ReportingType, SectionInv
  <2>6. p \notin stored /\ p \notin man_restore.hash \cup man_reserve.hash \cup hand.hash
    BY <2>2 DEF ReportingInv, SectionInv, Tracked, Known
  <2>7. RowInv'
    BY <2>1, <2>2, <2>6 DEF ReportingInv, ReportingType, RowInv, Reported
  <2> QED BY <2>5, <2>7 DEF ReportingInv
<1> QED BY <1>1, <1>2, <1>3, <1>4, <1>5

LEMMA NextReportingInv ==
  ASSUME TypeOK, HandInv, OneStore, ReportingInv, [ReportingNext]_rvars
  PROVE  ReportingInv'
<1>1. CASE UNCHANGED <<vars, reports>>
  <2>1. UNCHANGED <<svn, man_restore, man_reserve, hand, wscfg, cli, section, todo, stored,
                    changed, said, moved>>
    BY <1>1 DEF vars, records, reports
  <2> QED BY <2>1 DEF ReportingInv, ReportingType, SectionInv, RowInv, Reported,
                   Tracked, Known
<1>2. CASE ReportingRootPass \/ ReportingFullPass \/ ReportingFullPassCut
  <2>1. \A scope : /\ Present(scope) \in SUBSET scope
                   /\ \A S \in CutListings(scope) : S \in SUBSET scope
    BY DEF Present, CutListings
  <2>2. Top \in SUBSET Path /\ Path \in SUBSET Path
    BY TrackingAssumption DEF TrackingAssumption
  <2>3. ASSUME NEW scope \in SUBSET Path,
               PassOver(scope, Present(scope), TRUE)
                 \/ \E S \in CutListings(scope) : PassOver(scope, S, FALSE)
        PROVE  ReportingInv'
    <3>1. CASE PassOver(scope, Present(scope), TRUE)
      BY <2>1, <3>1, PassKeepsRows
    <3>2. ASSUME NEW S \in CutListings(scope), PassOver(scope, S, FALSE) PROVE ReportingInv'
      BY <2>1, <3>2, PassKeepsRows
    <3> QED BY <2>3, <3>1, <3>2
  <2> QED BY <1>2, <2>2, <2>3 DEF ReportingRootPass, ReportingFullPass, ReportingFullPassCut
<1>3. CASE ReportingSite
  <2>1. UNCHANGED <<svn, man_restore, man_reserve, hand, wscfg, cli, section, todo, stored,
                    changed, said, moved>>
    BY <1>3 DEF ReportingSite, SiteChange, records, reports
  <2> QED BY <2>1 DEF ReportingInv, ReportingType, SectionInv, RowInv, Reported,
                   Tracked, Known
<1>4. CASE Undefined /\ UNCHANGED reports
  BY <1>1, <1>4 DEF Undefined
<1> QED BY <1>1, <1>2, <1>3, <1>4, OtherKeepsRows, CliKeepsRows, SectionKeepsRows
        DEF ReportingNext, ReportingWorker, rvars

(* What holds of the records in each state of Tracking holds here. *)
THEOREM RowsInvariant == ReportingSpec => [](TypeOK /\ HandInv /\ OneStore /\ ReportingInv)
<1>1. Spec => [](TypeOK /\ HandInv /\ OneStore)
  BY TypeCorrect, HandIsEmpty, RecordsInOneStore, PTL
<1>2. ReportingInit => ReportingInv
  BY ReportingInitInv
<1>3. TypeOK /\ HandInv /\ OneStore /\ ReportingInv /\ [ReportingNext]_rvars => ReportingInv'
  BY NextReportingInv
<1> QED BY <1>1, <1>2, <1>3, ImplementsTracking, PTL DEF ReportingSpec

(***************************************************************************)
(* No record has a second check row: isstored is carried along from store  *)
(* to store (util.c 672-680, svn.c 181-207).                               *)
(***************************************************************************)
THEOREM RowsComeOnce == ReportingSpec => ReportedOnce
<1>1. ASSUME ReportingInv, NEW p \in Path, CheckRow(p) PROVE said[p] = "nothing"
  BY <1>1 DEF CheckRow, ReportingInv, SectionInv, RowInv, Reported
<1>2. ReportingInv => [\A p \in Path : CheckRow(p) => said[p] = "nothing"]_rvars
  BY <1>1
<1> QED BY <1>2, RowsInvariant, PTL DEF ReportingSpec, ReportedOnce

(***************************************************************************)
(* The row of a restored record goes with its check row and has the same   *)
(* version, unless the administrator moved the record: svn_commit comes    *)
(* after the rows, and before it there is nothing left in svn that has     *)
(* been reported (core.c 847-856, svn.c 255-265).                          *)
(***************************************************************************)
THEOREM RowsGoTogether == ReportingSpec => RowsPair
<1>1. ASSUME ReportingInv, NEW p \in Path \ moved, RestoreRow(p)
      PROVE  said[p] \in {"check", "lost"}
  BY <1>1 DEF RestoreRow, ReportingInv, RowInv, Reported
<1>2. ReportingInv => [\A p \in Path \ moved : RestoreRow(p) => said[p] \in {"check", "lost"}]_rvars
  BY <1>1
<1> QED BY <1>2, RowsInvariant, PTL DEF ReportingSpec, RowsPair
=============================================================================
