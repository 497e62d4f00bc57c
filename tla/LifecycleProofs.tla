-------------------------- MODULE LifecycleProofs --------------------------
(***************************************************************************)
(* Theorems about Lifecycle, for any number of servers, names and sizes.   *)
(* Each invariant has its own strengthening, and the strengthenings that   *)
(* need others assume them.                                                *)
(***************************************************************************)
EXTENDS Lifecycle, TLAPS

USE LifecycleAssumption DEF LifecycleAssumption

(* The space on its way back fits: NoTamper looked before.                 *)
CreditFits == cli.at = "credit" => \A s \in Sizes : left_disksize + s <= MaxLeft

(* A server that is being added is known to the CLI alone.                 *)
AddingIsCli == \A o \in Object : life[o] = "adding" <=> cli = [at |-> "adding", wb |-> o]

(* A thread is only created for a server that was on the list.             *)
ThreadsListed == \A o \in Object : worker[o] # "none" => life[o] \notin {"unborn", "adding"}

TypeInv == TypeOK /\ CreditFits

BirthInv == AddingIsCli /\ ThreadsListed

(* The name of a server that is about to be added is not on the list.      *)
NamesInv ==
  \A o, p \in Object :
    life[o] \in {"listed", "adding"} /\ life[p] \in {"listed", "adding"} /\ name[o] = name[p]
      => o = p

(* The worker posts destroy_wait when it has freed the server.             *)
PostInv == PostedWhenGone /\ \A o \in Object : worker[o] = "post" => life[o] = "freed"

(* Already the worker that is about to sleep has a post waiting for it.    *)
ResumeInv ==
  \A o \in Object :
    /\ worker[o] = "paused" \/ (worker[o] = "connect" /\ ~wenable[o])
    /\ enable[o] /\ life[o] # "freed"
    => monitor_wait[o] > 0 \/ cli = [at |-> "posting", wb |-> o]

LEMMA InitInv == Init => TypeInv /\ BirthInv /\ NamesInv /\ PostInv /\ ResumeInv /\ NothingLeftBehind
<1> SUFFICES ASSUME Init
             PROVE  TypeInv /\ BirthInv /\ NamesInv /\ PostInv /\ ResumeInv /\ NothingLeftBehind
  OBVIOUS
<1> USE DEF Init, Idle
<1>1. TypeInv
  <2>1. name \in [Object -> Name]
    OBVIOUS
  <2>2. left_disksize \in Quota
    BY DEF Quota
  <2>3. 0 \in 0 .. MaxPosts /\ 0 \in 0 .. 1
    OBVIOUS
  <2>4. disksize \in [Object -> Sizes]
    OBVIOUS
  <2>5. CreditFits
    BY DEF CreditFits
  <2>6. "unborn" \in {"unborn", "adding", "listed", "unlisted", "freed"}
    OBVIOUS
  <2>7. life \in [Object -> {"unborn", "adding", "listed", "unlisted", "freed"}]
    BY <2>6
  <2>8. monitor_wait \in [Object -> 0 .. MaxPosts] /\ destroy_wait \in [Object -> 0 .. 1]
    BY <2>3
  <2>9. worker \in [Object -> WorkerAt] /\ cli \in [at : CliAt, wb : Object \cup {NoObject}]
    BY DEF WorkerAt, CliAt
  <2>10. /\ ready \in [Object -> BOOLEAN] /\ enable \in [Object -> BOOLEAN]
         /\ destroywb \in [Object -> BOOLEAN] /\ running \in [Object -> BOOLEAN]
         /\ wenable \in [Object -> BOOLEAN]
    OBVIOUS
  <2> HIDE DEF Init
  <2>11. Init => /\ dir \subseteq Name /\ main \in Object \cup {NoObject}
                 /\ stale \in BOOLEAN /\ aborted \in BOOLEAN
    BY DEF Init
  <2> QED BY <2>1, <2>2, <2>4, <2>5, <2>7, <2>8, <2>9, <2>10, <2>11 DEF TypeInv, TypeOK
<1>2. BirthInv
  BY DEF BirthInv, AddingIsCli, ThreadsListed
<1>3. NamesInv
  BY DEF NamesInv
<1>4. PostInv
  BY DEF PostInv, PostedWhenGone
<1>5. ResumeInv
  BY DEF ResumeInv
<1>6. NothingLeftBehind
  BY DEF NothingLeftBehind
<1> QED BY <1>1, <1>2, <1>3, <1>4, <1>5, <1>6

(* Every step keeps the types: left_disksize never goes below zero. *)
LEMMA TypeStep == TypeInv /\ [Next]_vars => TypeInv'
<1> SUFFICES ASSUME TypeInv, [Next]_vars PROVE TypeInv'
  OBVIOUS
<1> USE DEF TypeInv, TypeOK, CreditFits, Quota, CliAt, WorkerAt, Idle, cfg, sems
<1>0. CASE UNCHANGED vars
  BY <1>0 DEF vars
<1>1. ASSUME NEW o \in Object, StartThread(o) PROVE TypeInv'
  BY <1>1 DEF StartThread, WorkerMoves
<1>2. CASE MarkRunning
  BY <1>2 DEF MarkRunning
<1>3. ASSUME NEW o \in Object, Prepare(o) PROVE TypeInv'
  BY <1>3 DEF Prepare, WorkerMoves
<1>4. ASSUME NEW o \in Object, UpdateCfg(o) PROVE TypeInv'
  BY <1>4 DEF UpdateCfg, WorkerMoves, Read
<1>5. ASSUME NEW o \in Object, Connect(o) PROVE TypeInv'
  BY <1>5 DEF Connect, WorkerMoves
<1>6. ASSUME NEW o \in Object, Resume(o) PROVE TypeInv'
  BY <1>6 DEF Resume, WorkerMoves
<1>7. ASSUME NEW o \in Object, Work(o) PROVE TypeInv'
  BY <1>7 DEF Work, WorkerMoves
<1>8. ASSUME NEW o \in Object, DestroyUnlists(o) PROVE TypeInv'
  BY <1>8 DEF DestroyUnlists, WorkerMoves, Unlist
<1>9. ASSUME NEW o \in Object, DestroyRemoves(o) PROVE TypeInv'
  BY <1>9 DEF DestroyRemoves, WorkerMoves, Remove
<1>10. ASSUME NEW o \in Object, PostDestroyed(o) PROVE TypeInv'
  BY <1>10 DEF PostDestroyed, WorkerMoves
<1>11. ASSUME NEW o \in Object, (\E n \in Name : Tamper(o, n)) PROVE TypeInv'
  BY <1>11 DEF Tamper, NameIsFree
<1>12. ASSUME NEW o \in Object, NoTamper(o) PROVE TypeInv'
  BY <1>12 DEF NoTamper
<1>13. ASSUME NEW o \in Object, Lookup(o) PROVE TypeInv'
  BY <1>13 DEF Lookup
<1>14. ASSUME NEW o \in Object, AddToList(o) PROVE TypeInv'
  BY <1>14 DEF AddToList, CliMoves
<1>15. ASSUME NEW o \in Object, Credit(o) PROVE TypeInv'
  BY <1>15 DEF Credit, CliMoves, Read
<1>16. ASSUME NEW o \in Object, Branch(o) PROVE TypeInv'
  BY <1>16 DEF Branch, CliMoves, Read
<1>17. ASSUME NEW o \in Object, UninitUnlists(o) PROVE TypeInv'
  BY <1>17 DEF UninitUnlists, CliMoves, Unlist
<1>18. ASSUME NEW o \in Object, UninitRemoves(o) PROVE TypeInv'
  BY <1>18 DEF UninitRemoves, CliMoves, Remove
<1>19. ASSUME NEW o \in Object, WaitEnds(o) PROVE TypeInv'
  BY <1>19 DEF WaitEnds, CliMoves
<1>20. ASSUME NEW o \in Object, WaitTimesOut(o) PROVE TypeInv'
  BY <1>20 DEF WaitTimesOut, CliMoves
<1>21. ASSUME NEW o \in Object, SetConnect(o) PROVE TypeInv'
  BY <1>21 DEF SetConnect, Uses, CliMoves
<1>22. ASSUME NEW o \in Object, NoMonitor(o) PROVE TypeInv'
  BY <1>22 DEF NoMonitor, Uses, CliMoves
<1>23. ASSUME NEW o \in Object, MonitorEnable(o) PROVE TypeInv'
  BY <1>23 DEF MonitorEnable, CliMoves
<1>24. ASSUME NEW o \in Object, PostMonitor(o) PROVE TypeInv'
  <2>1. monitor_wait' \in [Object -> 0 .. MaxPosts]
    <3>1. monitor_wait[o] \in 0 .. MaxPosts
      OBVIOUS
    <3>2. (IF monitor_wait[o] < MaxPosts THEN monitor_wait[o] + 1 ELSE monitor_wait[o])
            \in 0 .. MaxPosts
      BY <3>1
    <3>3. \/ UNCHANGED monitor_wait
          \/ monitor_wait' = [monitor_wait EXCEPT ![o] =
               IF monitor_wait[o] < MaxPosts THEN monitor_wait[o] + 1 ELSE monitor_wait[o]]
      BY <1>24 DEF PostMonitor
    <3> QED BY <3>2, <3>3
  <2>2. cli' = [at |-> "idle", wb |-> NoObject]
    BY <1>24 DEF PostMonitor, CliMoves
  <2>3. destroy_wait' = destroy_wait /\ stale' \in BOOLEAN
    BY <1>24 DEF PostMonitor
  <2> QED BY <1>24, <2>1, <2>2, <2>3 DEF PostMonitor
<1>25. ASSUME NEW o \in Object, MonitorDisable(o) PROVE TypeInv'
  BY <1>25 DEF MonitorDisable, Uses, CliMoves
<1>26. ASSUME NEW o \in Object, DiskSize(o) PROVE TypeInv'
  <2>1. PICK s \in Sizes : /\ s <= left_disksize + disksize[o]
                            /\ left_disksize + disksize[o] - s <= MaxLeft
                            /\ left_disksize' = left_disksize + disksize[o] - s
                            /\ disksize' = [disksize EXCEPT ![o] = s]
    BY <1>26 DEF DiskSize
  <2>2. disksize[o] \in Nat /\ s \in Nat /\ left_disksize \in Nat
    <3>1. disksize[o] \in Sizes /\ Sizes \subseteq Nat
      OBVIOUS
    <3>2. left_disksize \in 0 .. MaxLeft /\ MaxLeft \in Nat
      OBVIOUS
    <3> HIDE DEF TypeInv, TypeOK
    <3>3. left_disksize \in Nat
      BY <3>2
    <3>4. disksize[o] \in Nat
      BY <3>1
    <3>5. s \in Nat
      BY <3>1
    <3> QED BY <3>3, <3>4, <3>5
  <2>3. left_disksize' \in Quota
    BY <2>1, <2>2
  <2>4. disksize' \in [Object -> Sizes]
    BY <2>1
  <2>5. cli' = [at |-> "idle", wb |-> NoObject]
    BY <1>26 DEF DiskSize, Uses, CliMoves
  <2> QED BY <1>26, <2>3, <2>4, <2>5 DEF DiskSize
<1>27. ASSUME NEW o \in Object, UseFreed(o) PROVE TypeInv'
  BY <1>27 DEF UseFreed, CliMoves
<1> QED
  BY <1>0, <1>1, <1>2, <1>3, <1>4, <1>5, <1>6, <1>7, <1>8, <1>9,
     <1>10, <1>11, <1>12, <1>13, <1>14, <1>15, <1>16, <1>17, <1>18, <1>19,
     <1>20, <1>21, <1>22, <1>23, <1>24, <1>25, <1>26, <1>27
     DEF Next, MainStep, WorkerStep, Command, CliStep

(* Every step keeps new servers with the CLI. *)
LEMMA BirthStep == TypeInv /\ BirthInv /\ [Next]_vars => BirthInv'
<1> SUFFICES ASSUME TypeInv /\ BirthInv, [Next]_vars PROVE BirthInv'
  OBVIOUS
<1> USE DEF BirthInv, AddingIsCli, ThreadsListed, TypeInv, TypeOK, CliAt, WorkerAt, Idle, cfg, sems
<1>0. CASE UNCHANGED vars
  BY <1>0 DEF vars
<1>1. ASSUME NEW o \in Object, StartThread(o) PROVE BirthInv'
  BY <1>1 DEF StartThread, WorkerMoves
<1>2. CASE MarkRunning
  BY <1>2 DEF MarkRunning
<1>3. ASSUME NEW o \in Object, Prepare(o) PROVE BirthInv'
  BY <1>3 DEF Prepare, WorkerMoves
<1>4. ASSUME NEW o \in Object, UpdateCfg(o) PROVE BirthInv'
  BY <1>4 DEF UpdateCfg, WorkerMoves, Read
<1>5. ASSUME NEW o \in Object, Connect(o) PROVE BirthInv'
  BY <1>5 DEF Connect, WorkerMoves
<1>6. ASSUME NEW o \in Object, Resume(o) PROVE BirthInv'
  BY <1>6 DEF Resume, WorkerMoves
<1>7. ASSUME NEW o \in Object, Work(o) PROVE BirthInv'
  BY <1>7 DEF Work, WorkerMoves
<1>8. ASSUME NEW o \in Object, DestroyUnlists(o) PROVE BirthInv'
  BY <1>8 DEF DestroyUnlists, WorkerMoves, Unlist
<1>9. ASSUME NEW o \in Object, DestroyRemoves(o) PROVE BirthInv'
  BY <1>9 DEF DestroyRemoves, WorkerMoves, Remove
<1>10. ASSUME NEW o \in Object, PostDestroyed(o) PROVE BirthInv'
  BY <1>10 DEF PostDestroyed, WorkerMoves
<1>11. ASSUME NEW o \in Object, (\E n \in Name : Tamper(o, n)) PROVE BirthInv'
  BY <1>11 DEF Tamper, NameIsFree
<1>12. ASSUME NEW o \in Object, NoTamper(o) PROVE BirthInv'
  BY <1>12 DEF NoTamper
<1>13. ASSUME NEW o \in Object, Lookup(o) PROVE BirthInv'
  BY <1>13 DEF Lookup
<1>14. ASSUME NEW o \in Object, AddToList(o) PROVE BirthInv'
  BY <1>14 DEF AddToList, CliMoves
<1>15. ASSUME NEW o \in Object, Credit(o) PROVE BirthInv'
  BY <1>15 DEF Credit, CliMoves, Read
<1>16. ASSUME NEW o \in Object, Branch(o) PROVE BirthInv'
  BY <1>16 DEF Branch, CliMoves, Read
<1>17. ASSUME NEW o \in Object, UninitUnlists(o) PROVE BirthInv'
  BY <1>17 DEF UninitUnlists, CliMoves, Unlist
<1>18. ASSUME NEW o \in Object, UninitRemoves(o) PROVE BirthInv'
  BY <1>18 DEF UninitRemoves, CliMoves, Remove
<1>19. ASSUME NEW o \in Object, WaitEnds(o) PROVE BirthInv'
  BY <1>19 DEF WaitEnds, CliMoves
<1>20. ASSUME NEW o \in Object, WaitTimesOut(o) PROVE BirthInv'
  BY <1>20 DEF WaitTimesOut, CliMoves
<1>21. ASSUME NEW o \in Object, SetConnect(o) PROVE BirthInv'
  BY <1>21 DEF SetConnect, Uses, CliMoves
<1>22. ASSUME NEW o \in Object, NoMonitor(o) PROVE BirthInv'
  BY <1>22 DEF NoMonitor, Uses, CliMoves
<1>23. ASSUME NEW o \in Object, MonitorEnable(o) PROVE BirthInv'
  BY <1>23 DEF MonitorEnable, CliMoves
<1>24. ASSUME NEW o \in Object, PostMonitor(o) PROVE BirthInv'
  BY <1>24 DEF PostMonitor, CliMoves
<1>25. ASSUME NEW o \in Object, MonitorDisable(o) PROVE BirthInv'
  BY <1>25 DEF MonitorDisable, Uses, CliMoves
<1>26. ASSUME NEW o \in Object, DiskSize(o) PROVE BirthInv'
  BY <1>26 DEF DiskSize, Uses, CliMoves
<1>27. ASSUME NEW o \in Object, UseFreed(o) PROVE BirthInv'
  BY <1>27 DEF UseFreed, CliMoves
<1> QED
  BY <1>0, <1>1, <1>2, <1>3, <1>4, <1>5, <1>6, <1>7, <1>8, <1>9,
     <1>10, <1>11, <1>12, <1>13, <1>14, <1>15, <1>16, <1>17, <1>18, <1>19,
     <1>20, <1>21, <1>22, <1>23, <1>24, <1>25, <1>26, <1>27
     DEF Next, MainStep, WorkerStep, Command, CliStep

(* Every step keeps the names apart. *)
LEMMA NamesStep == TypeInv /\ BirthInv /\ NamesInv /\ [Next]_vars => NamesInv'
<1> SUFFICES ASSUME TypeInv /\ BirthInv /\ NamesInv, [Next]_vars PROVE NamesInv'
  OBVIOUS
<1> USE DEF NamesInv, BirthInv, AddingIsCli, TypeInv, TypeOK, Idle, cfg, sems
<1>0. CASE UNCHANGED vars
  BY <1>0 DEF vars
<1>1. ASSUME NEW o \in Object, StartThread(o) PROVE NamesInv'
  BY <1>1 DEF StartThread, WorkerMoves
<1>2. CASE MarkRunning
  BY <1>2 DEF MarkRunning
<1>3. ASSUME NEW o \in Object, Prepare(o) PROVE NamesInv'
  BY <1>3 DEF Prepare, WorkerMoves
<1>4. ASSUME NEW o \in Object, UpdateCfg(o) PROVE NamesInv'
  BY <1>4 DEF UpdateCfg, WorkerMoves, Read
<1>5. ASSUME NEW o \in Object, Connect(o) PROVE NamesInv'
  BY <1>5 DEF Connect, WorkerMoves
<1>6. ASSUME NEW o \in Object, Resume(o) PROVE NamesInv'
  BY <1>6 DEF Resume, WorkerMoves
<1>7. ASSUME NEW o \in Object, Work(o) PROVE NamesInv'
  BY <1>7 DEF Work, WorkerMoves
<1>8. ASSUME NEW o \in Object, DestroyUnlists(o) PROVE NamesInv'
  BY <1>8 DEF DestroyUnlists, WorkerMoves, Unlist
<1>9. ASSUME NEW o \in Object, DestroyRemoves(o) PROVE NamesInv'
  BY <1>9 DEF DestroyRemoves, WorkerMoves, Remove
<1>10. ASSUME NEW o \in Object, PostDestroyed(o) PROVE NamesInv'
  BY <1>10 DEF PostDestroyed, WorkerMoves
<1>11. ASSUME NEW o \in Object, (\E n \in Name : Tamper(o, n)) PROVE NamesInv'
  <2>1. PICK n \in Name : Tamper(o, n)
    BY <1>11
  <2>2. life' = [life EXCEPT ![o] = "adding"] /\ name' = [name EXCEPT ![o] = n]
    BY <2>1 DEF Tamper
  <2>3. \A p \in Object : life[p] # "adding" /\ (life[p] = "listed" => name[p] # n)
    BY <2>1 DEF Tamper, NameIsFree
  <2> QED BY <2>2, <2>3
<1>12. ASSUME NEW o \in Object, NoTamper(o) PROVE NamesInv'
  BY <1>12 DEF NoTamper
<1>13. ASSUME NEW o \in Object, Lookup(o) PROVE NamesInv'
  BY <1>13 DEF Lookup
<1>14. ASSUME NEW o \in Object, AddToList(o) PROVE NamesInv'
  BY <1>14 DEF AddToList, CliMoves
<1>15. ASSUME NEW o \in Object, Credit(o) PROVE NamesInv'
  BY <1>15 DEF Credit, CliMoves, Read
<1>16. ASSUME NEW o \in Object, Branch(o) PROVE NamesInv'
  BY <1>16 DEF Branch, CliMoves, Read
<1>17. ASSUME NEW o \in Object, UninitUnlists(o) PROVE NamesInv'
  BY <1>17 DEF UninitUnlists, CliMoves, Unlist
<1>18. ASSUME NEW o \in Object, UninitRemoves(o) PROVE NamesInv'
  BY <1>18 DEF UninitRemoves, CliMoves, Remove
<1>19. ASSUME NEW o \in Object, WaitEnds(o) PROVE NamesInv'
  BY <1>19 DEF WaitEnds, CliMoves
<1>20. ASSUME NEW o \in Object, WaitTimesOut(o) PROVE NamesInv'
  BY <1>20 DEF WaitTimesOut, CliMoves
<1>21. ASSUME NEW o \in Object, SetConnect(o) PROVE NamesInv'
  BY <1>21 DEF SetConnect, Uses, CliMoves
<1>22. ASSUME NEW o \in Object, NoMonitor(o) PROVE NamesInv'
  BY <1>22 DEF NoMonitor, Uses, CliMoves
<1>23. ASSUME NEW o \in Object, MonitorEnable(o) PROVE NamesInv'
  BY <1>23 DEF MonitorEnable, CliMoves
<1>24. ASSUME NEW o \in Object, PostMonitor(o) PROVE NamesInv'
  BY <1>24 DEF PostMonitor, CliMoves
<1>25. ASSUME NEW o \in Object, MonitorDisable(o) PROVE NamesInv'
  BY <1>25 DEF MonitorDisable, Uses, CliMoves
<1>26. ASSUME NEW o \in Object, DiskSize(o) PROVE NamesInv'
  BY <1>26 DEF DiskSize, Uses, CliMoves
<1>27. ASSUME NEW o \in Object, UseFreed(o) PROVE NamesInv'
  BY <1>27 DEF UseFreed, CliMoves
<1> QED
  BY <1>0, <1>1, <1>2, <1>3, <1>4, <1>5, <1>6, <1>7, <1>8, <1>9,
     <1>10, <1>11, <1>12, <1>13, <1>14, <1>15, <1>16, <1>17, <1>18, <1>19,
     <1>20, <1>21, <1>22, <1>23, <1>24, <1>25, <1>26, <1>27
     DEF Next, MainStep, WorkerStep, Command, CliStep

(* Every step keeps destroy_wait for servers that are gone. *)
LEMMA PostStep == TypeInv /\ BirthInv /\ PostInv /\ [Next]_vars => PostInv'
<1> SUFFICES ASSUME TypeInv /\ BirthInv /\ PostInv, [Next]_vars PROVE PostInv'
  OBVIOUS
<1> USE DEF PostInv, PostedWhenGone, BirthInv, AddingIsCli, ThreadsListed, TypeInv, TypeOK, Idle, cfg, sems
<1>0. CASE UNCHANGED vars
  BY <1>0 DEF vars
<1>1. ASSUME NEW o \in Object, StartThread(o) PROVE PostInv'
  BY <1>1 DEF StartThread, WorkerMoves
<1>2. CASE MarkRunning
  BY <1>2 DEF MarkRunning
<1>3. ASSUME NEW o \in Object, Prepare(o) PROVE PostInv'
  BY <1>3 DEF Prepare, WorkerMoves
<1>4. ASSUME NEW o \in Object, UpdateCfg(o) PROVE PostInv'
  BY <1>4 DEF UpdateCfg, WorkerMoves, Read
<1>5. ASSUME NEW o \in Object, Connect(o) PROVE PostInv'
  BY <1>5 DEF Connect, WorkerMoves
<1>6. ASSUME NEW o \in Object, Resume(o) PROVE PostInv'
  BY <1>6 DEF Resume, WorkerMoves
<1>7. ASSUME NEW o \in Object, Work(o) PROVE PostInv'
  BY <1>7 DEF Work, WorkerMoves
<1>8. ASSUME NEW o \in Object, DestroyUnlists(o) PROVE PostInv'
  BY <1>8 DEF DestroyUnlists, WorkerMoves, Unlist
<1>9. ASSUME NEW o \in Object, DestroyRemoves(o) PROVE PostInv'
  BY <1>9 DEF DestroyRemoves, WorkerMoves, Remove
<1>10. ASSUME NEW o \in Object, PostDestroyed(o) PROVE PostInv'
  BY <1>10 DEF PostDestroyed, WorkerMoves
<1>11. ASSUME NEW o \in Object, (\E n \in Name : Tamper(o, n)) PROVE PostInv'
  BY <1>11 DEF Tamper, NameIsFree
<1>12. ASSUME NEW o \in Object, NoTamper(o) PROVE PostInv'
  BY <1>12 DEF NoTamper
<1>13. ASSUME NEW o \in Object, Lookup(o) PROVE PostInv'
  BY <1>13 DEF Lookup
<1>14. ASSUME NEW o \in Object, AddToList(o) PROVE PostInv'
  BY <1>14 DEF AddToList, CliMoves
<1>15. ASSUME NEW o \in Object, Credit(o) PROVE PostInv'
  BY <1>15 DEF Credit, CliMoves, Read
<1>16. ASSUME NEW o \in Object, Branch(o) PROVE PostInv'
  BY <1>16 DEF Branch, CliMoves, Read
<1>17. ASSUME NEW o \in Object, UninitUnlists(o) PROVE PostInv'
  BY <1>17 DEF UninitUnlists, CliMoves, Unlist
<1>18. ASSUME NEW o \in Object, UninitRemoves(o) PROVE PostInv'
  BY <1>18 DEF UninitRemoves, CliMoves, Remove
<1>19. ASSUME NEW o \in Object, WaitEnds(o) PROVE PostInv'
  BY <1>19 DEF WaitEnds, CliMoves
<1>20. ASSUME NEW o \in Object, WaitTimesOut(o) PROVE PostInv'
  BY <1>20 DEF WaitTimesOut, CliMoves
<1>21. ASSUME NEW o \in Object, SetConnect(o) PROVE PostInv'
  BY <1>21 DEF SetConnect, Uses, CliMoves
<1>22. ASSUME NEW o \in Object, NoMonitor(o) PROVE PostInv'
  BY <1>22 DEF NoMonitor, Uses, CliMoves
<1>23. ASSUME NEW o \in Object, MonitorEnable(o) PROVE PostInv'
  BY <1>23 DEF MonitorEnable, CliMoves
<1>24. ASSUME NEW o \in Object, PostMonitor(o) PROVE PostInv'
  BY <1>24 DEF PostMonitor, CliMoves
<1>25. ASSUME NEW o \in Object, MonitorDisable(o) PROVE PostInv'
  BY <1>25 DEF MonitorDisable, Uses, CliMoves
<1>26. ASSUME NEW o \in Object, DiskSize(o) PROVE PostInv'
  BY <1>26 DEF DiskSize, Uses, CliMoves
<1>27. ASSUME NEW o \in Object, UseFreed(o) PROVE PostInv'
  BY <1>27 DEF UseFreed, CliMoves
<1> QED
  BY <1>0, <1>1, <1>2, <1>3, <1>4, <1>5, <1>6, <1>7, <1>8, <1>9,
     <1>10, <1>11, <1>12, <1>13, <1>14, <1>15, <1>16, <1>17, <1>18, <1>19,
     <1>20, <1>21, <1>22, <1>23, <1>24, <1>25, <1>26, <1>27
     DEF Next, MainStep, WorkerStep, Command, CliStep

(* Every step keeps the wake-ups. *)
LEMMA ResumeStep == TypeInv /\ BirthInv /\ ResumeInv /\ [Next]_vars => ResumeInv'
<1> SUFFICES ASSUME TypeInv /\ BirthInv /\ ResumeInv, [Next]_vars PROVE ResumeInv'
  OBVIOUS
<1> USE DEF ResumeInv, BirthInv, AddingIsCli, ThreadsListed, TypeInv, TypeOK, Idle, cfg, sems
<1>0. CASE UNCHANGED vars
  BY <1>0 DEF vars
<1>1. ASSUME NEW o \in Object, StartThread(o) PROVE ResumeInv'
  BY <1>1 DEF StartThread, WorkerMoves
<1>2. CASE MarkRunning
  BY <1>2 DEF MarkRunning
<1>3. ASSUME NEW o \in Object, Prepare(o) PROVE ResumeInv'
  BY <1>3 DEF Prepare, WorkerMoves
<1>4. ASSUME NEW o \in Object, UpdateCfg(o) PROVE ResumeInv'
  BY <1>4 DEF UpdateCfg, WorkerMoves, Read
<1>5. ASSUME NEW o \in Object, Connect(o) PROVE ResumeInv'
  BY <1>5 DEF Connect, WorkerMoves
<1>6. ASSUME NEW o \in Object, Resume(o) PROVE ResumeInv'
  BY <1>6 DEF Resume, WorkerMoves
<1>7. ASSUME NEW o \in Object, Work(o) PROVE ResumeInv'
  BY <1>7 DEF Work, WorkerMoves
<1>8. ASSUME NEW o \in Object, DestroyUnlists(o) PROVE ResumeInv'
  BY <1>8 DEF DestroyUnlists, WorkerMoves, Unlist
<1>9. ASSUME NEW o \in Object, DestroyRemoves(o) PROVE ResumeInv'
  BY <1>9 DEF DestroyRemoves, WorkerMoves, Remove
<1>10. ASSUME NEW o \in Object, PostDestroyed(o) PROVE ResumeInv'
  BY <1>10 DEF PostDestroyed, WorkerMoves
<1>11. ASSUME NEW o \in Object, (\E n \in Name : Tamper(o, n)) PROVE ResumeInv'
  BY <1>11 DEF Tamper, NameIsFree
<1>12. ASSUME NEW o \in Object, NoTamper(o) PROVE ResumeInv'
  BY <1>12 DEF NoTamper
<1>13. ASSUME NEW o \in Object, Lookup(o) PROVE ResumeInv'
  BY <1>13 DEF Lookup
<1>14. ASSUME NEW o \in Object, AddToList(o) PROVE ResumeInv'
  BY <1>14 DEF AddToList, CliMoves
<1>15. ASSUME NEW o \in Object, Credit(o) PROVE ResumeInv'
  BY <1>15 DEF Credit, CliMoves, Read
<1>16. ASSUME NEW o \in Object, Branch(o) PROVE ResumeInv'
  BY <1>16 DEF Branch, CliMoves, Read
<1>17. ASSUME NEW o \in Object, UninitUnlists(o) PROVE ResumeInv'
  BY <1>17 DEF UninitUnlists, CliMoves, Unlist
<1>18. ASSUME NEW o \in Object, UninitRemoves(o) PROVE ResumeInv'
  BY <1>18 DEF UninitRemoves, CliMoves, Remove
<1>19. ASSUME NEW o \in Object, WaitEnds(o) PROVE ResumeInv'
  BY <1>19 DEF WaitEnds, CliMoves
<1>20. ASSUME NEW o \in Object, WaitTimesOut(o) PROVE ResumeInv'
  BY <1>20 DEF WaitTimesOut, CliMoves
<1>21. ASSUME NEW o \in Object, SetConnect(o) PROVE ResumeInv'
  BY <1>21 DEF SetConnect, Uses, CliMoves
<1>22. ASSUME NEW o \in Object, NoMonitor(o) PROVE ResumeInv'
  BY <1>22 DEF NoMonitor, Uses, CliMoves
<1>23. ASSUME NEW o \in Object, MonitorEnable(o) PROVE ResumeInv'
  BY <1>23 DEF MonitorEnable, CliMoves
<1>24. ASSUME NEW o \in Object, PostMonitor(o) PROVE ResumeInv'
  BY <1>24 DEF PostMonitor, CliMoves
<1>25. ASSUME NEW o \in Object, MonitorDisable(o) PROVE ResumeInv'
  BY <1>25 DEF MonitorDisable, Uses, CliMoves
<1>26. ASSUME NEW o \in Object, DiskSize(o) PROVE ResumeInv'
  BY <1>26 DEF DiskSize, Uses, CliMoves
<1>27. ASSUME NEW o \in Object, UseFreed(o) PROVE ResumeInv'
  BY <1>27 DEF UseFreed, CliMoves
<1> QED
  BY <1>0, <1>1, <1>2, <1>3, <1>4, <1>5, <1>6, <1>7, <1>8, <1>9,
     <1>10, <1>11, <1>12, <1>13, <1>14, <1>15, <1>16, <1>17, <1>18, <1>19,
     <1>20, <1>21, <1>22, <1>23, <1>24, <1>25, <1>26, <1>27
     DEF Next, MainStep, WorkerStep, Command, CliStep

(* Every step keeps the directories with their servers. *)
LEMMA DirStep == TypeInv /\ BirthInv /\ NothingLeftBehind /\ [Next]_vars => NothingLeftBehind'
<1> SUFFICES ASSUME TypeInv /\ BirthInv /\ NothingLeftBehind, [Next]_vars PROVE NothingLeftBehind'
  OBVIOUS
<1> USE DEF NothingLeftBehind, Alive, BirthInv, AddingIsCli, TypeInv, TypeOK, Idle, cfg, sems
<1>0. CASE UNCHANGED vars
  BY <1>0 DEF vars
<1>1. ASSUME NEW o \in Object, StartThread(o) PROVE NothingLeftBehind'
  BY <1>1 DEF StartThread, WorkerMoves
<1>2. CASE MarkRunning
  BY <1>2 DEF MarkRunning
<1>3. ASSUME NEW o \in Object, Prepare(o) PROVE NothingLeftBehind'
  BY <1>3 DEF Prepare, WorkerMoves
<1>4. ASSUME NEW o \in Object, UpdateCfg(o) PROVE NothingLeftBehind'
  BY <1>4 DEF UpdateCfg, WorkerMoves, Read
<1>5. ASSUME NEW o \in Object, Connect(o) PROVE NothingLeftBehind'
  BY <1>5 DEF Connect, WorkerMoves
<1>6. ASSUME NEW o \in Object, Resume(o) PROVE NothingLeftBehind'
  BY <1>6 DEF Resume, WorkerMoves
<1>7. ASSUME NEW o \in Object, Work(o) PROVE NothingLeftBehind'
  BY <1>7 DEF Work, WorkerMoves
<1>8. ASSUME NEW o \in Object, DestroyUnlists(o) PROVE NothingLeftBehind'
  BY <1>8 DEF DestroyUnlists, WorkerMoves, Unlist
<1>9. ASSUME NEW o \in Object, DestroyRemoves(o) PROVE NothingLeftBehind'
  BY <1>9 DEF DestroyRemoves, WorkerMoves, Remove
<1>10. ASSUME NEW o \in Object, PostDestroyed(o) PROVE NothingLeftBehind'
  BY <1>10 DEF PostDestroyed, WorkerMoves
<1>11. ASSUME NEW o \in Object, (\E n \in Name : Tamper(o, n)) PROVE NothingLeftBehind'
  BY <1>11 DEF Tamper, NameIsFree
<1>12. ASSUME NEW o \in Object, NoTamper(o) PROVE NothingLeftBehind'
  BY <1>12 DEF NoTamper
<1>13. ASSUME NEW o \in Object, Lookup(o) PROVE NothingLeftBehind'
  BY <1>13 DEF Lookup
<1>14. ASSUME NEW o \in Object, AddToList(o) PROVE NothingLeftBehind'
  BY <1>14 DEF AddToList, CliMoves
<1>15. ASSUME NEW o \in Object, Credit(o) PROVE NothingLeftBehind'
  BY <1>15 DEF Credit, CliMoves, Read
<1>16. ASSUME NEW o \in Object, Branch(o) PROVE NothingLeftBehind'
  BY <1>16 DEF Branch, CliMoves, Read
<1>17. ASSUME NEW o \in Object, UninitUnlists(o) PROVE NothingLeftBehind'
  BY <1>17 DEF UninitUnlists, CliMoves, Unlist
<1>18. ASSUME NEW o \in Object, UninitRemoves(o) PROVE NothingLeftBehind'
  BY <1>18 DEF UninitRemoves, CliMoves, Remove
<1>19. ASSUME NEW o \in Object, WaitEnds(o) PROVE NothingLeftBehind'
  BY <1>19 DEF WaitEnds, CliMoves
<1>20. ASSUME NEW o \in Object, WaitTimesOut(o) PROVE NothingLeftBehind'
  BY <1>20 DEF WaitTimesOut, CliMoves
<1>21. ASSUME NEW o \in Object, SetConnect(o) PROVE NothingLeftBehind'
  BY <1>21 DEF SetConnect, Uses, CliMoves
<1>22. ASSUME NEW o \in Object, NoMonitor(o) PROVE NothingLeftBehind'
  BY <1>22 DEF NoMonitor, Uses, CliMoves
<1>23. ASSUME NEW o \in Object, MonitorEnable(o) PROVE NothingLeftBehind'
  BY <1>23 DEF MonitorEnable, CliMoves
<1>24. ASSUME NEW o \in Object, PostMonitor(o) PROVE NothingLeftBehind'
  BY <1>24 DEF PostMonitor, CliMoves
<1>25. ASSUME NEW o \in Object, MonitorDisable(o) PROVE NothingLeftBehind'
  BY <1>25 DEF MonitorDisable, Uses, CliMoves
<1>26. ASSUME NEW o \in Object, DiskSize(o) PROVE NothingLeftBehind'
  BY <1>26 DEF DiskSize, Uses, CliMoves
<1>27. ASSUME NEW o \in Object, UseFreed(o) PROVE NothingLeftBehind'
  BY <1>27 DEF UseFreed, CliMoves
<1> QED
  BY <1>0, <1>1, <1>2, <1>3, <1>4, <1>5, <1>6, <1>7, <1>8, <1>9,
     <1>10, <1>11, <1>12, <1>13, <1>14, <1>15, <1>16, <1>17, <1>18, <1>19,
     <1>20, <1>21, <1>22, <1>23, <1>24, <1>25, <1>26, <1>27
     DEF Next, MainStep, WorkerStep, Command, CliStep

LEMMA Invariants ==
  Spec => [](TypeInv /\ BirthInv /\ NamesInv /\ PostInv /\ ResumeInv /\ NothingLeftBehind)
BY InitInv, TypeStep, BirthStep, NamesStep, PostStep, ResumeStep, DirStep, PTL DEF Spec

(* Every variable of Lifecycle keeps its type; with it left_disksize, an   *)
(* unsigned long long (main.c:47), never wraps below zero.                 *)
THEOREM LifecycleTypes == Spec => []TypeOK
<1>1. TypeInv => TypeOK
  BY DEF TypeInv
<1> QED BY <1>1, Invariants, PTL

(* No two servers on the list have the same name (cli_unix.c:477-511).     *)
THEOREM NamesAreUnique == Spec => []UniqueNames
<1>1. NamesInv => UniqueNames
  BY DEF NamesInv, UniqueNames
<1> QED BY <1>1, Invariants, PTL

(* destroy_wait is posted for servers that are gone (core.c:1078-1080).    *)
THEOREM PostsComeLast == Spec => []PostedWhenGone
<1>1. PostInv => PostedWhenGone
  BY DEF PostInv
<1> QED BY <1>1, Invariants, PTL

(* No worker sleeps on with monitoring switched on again and no post on    *)
(* its way (cli_unix.c:1551-1554, core.c:1133).                            *)
THEOREM ResumesAreKept == Spec => []NoLostResume
<1>1. ResumeInv => NoLostResume
  BY DEF ResumeInv, NoLostResume
<1> QED BY <1>1, Invariants, PTL

(* Directories below BACKUP_ROOT belong to a server (util.c:304).          *)
THEOREM DirsHaveServers == Spec => []NothingLeftBehind
BY Invariants, PTL
=============================================================================
