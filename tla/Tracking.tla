------------------------------ MODULE Tracking ------------------------------
(***************************************************************************)
(* One protected web server: its worker thread (core.c), the commands of   *)
(* the CLI thread that touch its tamper records (cli_unix.c), and the site *)
(* itself, which anybody may change at any moment.                         *)
(*                                                                         *)
(* The worker takes a copy of the configuration, backs the site up, then   *)
(* polls: a pass compares the site with the backup and records what        *)
(* differs; a restore pass undoes the recorded changes, or takes those the *)
(* administrator accepted into the backup.  The administrator moves        *)
(* records between the three stores, one after the other.  wbmutex is held *)
(* by the worker during a pass and by the CLI while it moves records, but  *)
(* not by clean_webserver, which empties one store after the other, nor by *)
(* the CLI while it looks a record up.                                     *)
(*                                                                         *)
(* Paths are regular files of which none has a name that extends another's *)
(* name.  A pass, once it has the mutex, is one step, and so is a download.*)
(***************************************************************************)
EXTENDS RecordStores, Integers, FiniteSets

CONSTANTS
  Top,           \* the files directly in the server root: what a root pass sees
  Faults,        \* which of "list", "write", "exceed" may happen
  Commands,      \* bound: the commands the administrator gives
  Modulus,       \* changednum is an unsigned int: arithmetic is modulo this
  MaxPosts       \* bound: monitor_wait is posted at most this far ahead

AllCommands == {"restore-mode", "no restore-mode", "restore-tamper all",
                "restore-tamper file", "clear-tamper all", "clear-tamper file",
                "view tamper-filename", "monitor enable", "monitor disable", "key change"}

ASSUME TrackingAssumption ==
  /\ IsFiniteSet(Path)
  /\ Top \subseteq Path
  /\ Faults \subseteq {"list", "write", "exceed"}
  /\ Commands \subseteq AllCommands
  /\ Modulus \in Nat \ {0}
  /\ MaxPosts \in Nat

VARIABLES
  site,          \* each file on the server, as a comparison with its node sees it
  node,          \* the directory tree and dirhash: is there a node, is it touched
  vague,         \* nodes that do not describe the copy the backup has
  second,        \* files with a further node in the tree, that the hash does not find
  svn, man_restore, man_reserve,
  hand,          \* the record svn_del_node took out and svn_add_node is yet to put in
  changednum,
  isbackuped,
  cfg,           \* wb->cfg, written by the CLI
  wscfg,         \* the worker's copy of it
  worker,        \* where the worker is, with its fulbak and incbak
  monitor_wait,  \* the semaphore a disabled worker sleeps on
  cli,           \* where the CLI thread is in its current command
  (* What the properties look back to. *)
  stray          \* records the CLI held, or took, while clean_webserver ran

records == <<svn, man_restore, man_reserve, hand, stray>>
backup  == <<node, vague, second, isbackuped>>
vars == <<site, backup, records, changednum, cfg, wscfg, worker, monitor_wait, cli>>

(* "same": a comparison finds the size of the node, and its time or else its
   digest; "edited": it does not, or there is no node.  What of the content
   such a comparison can miss is FileSync's. *)
SiteState == {"absent", "same", "edited"}

NodeState == {"none", "untouched", "touched"}

(* clean_webserver has destroyed the tree, and the stores are to follow. *)
Cleaning == {"clean svn", "clean restore", "clean reserve"}

WorkerAt == Cleaning \cup
            {"top", "clean", "connect", "paused", "increment", "download",
             "poll", "root", "full", "restore", "last"}

(* The commands that hold wbmutex.  The last two first look a record up. *)
Moves == {"view", "to_svn", "to_restore", "to_reserve", "restore_file", "reserve_file"}
FileMoves == {"restore_file", "reserve_file"}

Config == [auto : BOOLEAN, iscomit : BOOLEAN, enable : BOOLEAN, keychg : BOOLEAN]
WorkerConfig == [auto : BOOLEAN, iscomit : BOOLEAN, enable : BOOLEAN]
WorkerState == [at : WorkerAt, fulbak : BOOLEAN, incbak : BOOLEAN]

(* "aim" is the record a command has looked up, or the one that the loop of  *)
(* svn_copy_record keeps for its next turn; it is live until it is freed.   *)
CliState == [at : {"idle", "waiting", "locked", "committing", "undefined"},
             move : Moves, aim : SUBSET Path, live : BOOLEAN]

TypeOK ==
  /\ site \in [Path -> SiteState]
  /\ node \in [Path -> NodeState]
  /\ vague \subseteq Path /\ second \subseteq Path /\ stray \subseteq Path
  /\ svn \in Store /\ man_restore \in Store /\ man_reserve \in Store
  /\ hand \in Store
  /\ changednum \in 0 .. Modulus - 1
  /\ isbackuped \in BOOLEAN
  /\ cfg \in Config /\ wscfg \in WorkerConfig
  /\ worker \in WorkerState
  /\ monitor_wait \in 0 .. MaxPosts
  /\ cli \in CliState

(* The CLI thread between two commands. *)
Idle == [at |-> "idle", move |-> "view", aim |-> {}, live |-> FALSE]

Init ==
  /\ site \in [Path -> {"absent", "edited"}]
  /\ node = [p \in Path |-> "none"]
  /\ vague = {} /\ second = {}
  /\ svn = EmptyStore /\ man_restore = EmptyStore /\ man_reserve = EmptyStore
  /\ hand = EmptyStore /\ stray = {}
  /\ changednum = 0
  /\ isbackuped = FALSE
  /\ cfg \in [auto : BOOLEAN, iscomit : {FALSE}, enable : {TRUE}, keychg : {FALSE}]
  /\ wscfg = [auto |-> cfg.auto, iscomit |-> FALSE, enable |-> TRUE]
  /\ worker = [at |-> "top", fulbak |-> TRUE, incbak |-> FALSE]
  /\ monitor_wait = 0
  /\ cli = Idle
-----------------------------------------------------------------------------
(* Helpers *)

MutexFree == cli.at # "locked"

(* What svn_add_record finds in one of the three hashes. *)
Known == svn.hash \cup man_restore.hash \cup man_reserve.hash

(* The files with a record, wherever it is. *)
Tracked == Known \cup hand.hash

(* The CLI's pointer dangles once the record it points to is freed. *)
AfterFree(P) == [cli EXCEPT !.live = @ /\ cli.aim \cap P = {}]

(* The worker is at one of these places, in a process that still runs. *)
At(places) == worker.at \in places /\ cli.at # "undefined"

Go(place) == worker' = [worker EXCEPT !.at = place]

(***************************************************************************)
(* What list_files lets a pass over "scope" see.  A directory that cannot  *)
(* be opened or listed ends the listing: with the root nothing is seen,    *)
(* with another directory at least the files of the root are.              *)
(***************************************************************************)
Present(scope) == {p \in scope : site[p] # "absent"}

CutListings(scope) ==
  IF "list" \notin Faults THEN {}
  ELSE {{}} \cup {S \in SUBSET Present(scope) :
                   scope # Top /\ Present(scope) \cap Top \subseteq S}
-----------------------------------------------------------------------------
(* The site *)

(* Somebody creates, edits or removes a file on the server.  Putting back  *)
(* the content and time of the node is one of the edits.                   *)
SiteChange ==
  \E p \in Path, v \in SiteState :
    /\ v # site[p] /\ cli.at # "undefined"
    /\ node[p] = "none" => v # "same"
    /\ site' = [site EXCEPT ![p] = v]
    /\ UNCHANGED <<backup, records, changednum, cfg, wscfg, worker, monitor_wait, cli>>
-----------------------------------------------------------------------------
(* The worker *)

(* Faulty: the copy of the mode stays as it was. *)
UpdateCfgKeepsMode ==
  /\ At({"top"})
  /\ wscfg' = [wscfg EXCEPT !.iscomit = cfg.iscomit, !.enable = cfg.enable]
  /\ cfg' = [cfg EXCEPT !.keychg = FALSE]
  /\ Go(IF cfg.keychg THEN "clean" ELSE "connect")
  /\ UNCHANGED <<site, backup, records, changednum, monitor_wait, cli>>

(* update_cfg, under list_mutex. *)
UpdateCfg ==
  /\ At({"top"})
  /\ wscfg' = [auto |-> cfg.auto, iscomit |-> cfg.iscomit, enable |-> cfg.enable]
  /\ cfg' = [cfg EXCEPT !.keychg = FALSE]
  /\ Go(IF cfg.keychg THEN "clean" ELSE "connect")
  /\ UNCHANGED <<site, backup, records, changednum, monitor_wait, cli>>

(* clean_webserver, which takes no lock: the files of the backup, its tree  *)
(* and its hash ...                                                         *)
CleanTree ==
  /\ At({"clean"})
  /\ site' = [p \in Path |-> IF site[p] = "absent" THEN "absent" ELSE "edited"]
  /\ node' = [p \in Path |-> "none"]
  /\ vague' = {} /\ second' = {}
  /\ stray' = hand.hash
  /\ Go("clean svn")
  /\ UNCHANGED <<svn, man_restore, man_reserve, hand, changednum, isbackuped, cfg,
                 wscfg, monitor_wait, cli>>

(* ... and the records, store by store (svn_del_all_record). *)
CleanSvn ==
  /\ At({"clean svn"})
  /\ svn' = EmptyStore
  /\ cli' = AfterFree(Listed(svn))
  /\ Go("clean restore")
  /\ UNCHANGED <<site, backup, man_restore, man_reserve, hand, changednum, cfg, wscfg,
                 monitor_wait>>
  /\ stray' = stray \cap Tracked'

CleanRestore ==
  /\ At({"clean restore"})
  /\ man_restore' = EmptyStore
  /\ cli' = AfterFree(Listed(man_restore))
  /\ Go("clean reserve")
  /\ UNCHANGED <<site, backup, svn, man_reserve, hand, changednum, cfg, wscfg,
                 monitor_wait>>
  /\ stray' = stray \cap Tracked'

(* Faulty: the accepted records are forgotten about. *)
CleanReserveNot ==
  /\ At({"clean reserve"})
  /\ changednum' = 0 /\ isbackuped' = FALSE
  /\ worker' = [worker EXCEPT !.at = "connect", !.fulbak = TRUE]
  /\ UNCHANGED <<site, node, vague, second, svn, man_restore, man_reserve, hand, cfg,
                 wscfg, monitor_wait, cli>>
  /\ stray' = stray \cap Tracked'

CleanReserve ==
  /\ At({"clean reserve"})
  /\ man_reserve' = EmptyStore
  /\ cli' = AfterFree(Listed(man_reserve))
  /\ changednum' = 0 /\ isbackuped' = FALSE
  /\ worker' = [worker EXCEPT !.at = "connect", !.fulbak = TRUE]
  /\ UNCHANGED <<site, node, vague, second, svn, man_restore, hand, cfg, wscfg,
                 monitor_wait>>
  /\ stray' = stray \cap Tracked'

ConnectFails ==
  /\ At({"connect"})
  /\ Go("top")
  /\ UNCHANGED <<site, backup, records, changednum, cfg, wscfg, monitor_wait, cli>>

(* The branches after a successful protocol_connect. *)
Connect ==
  /\ At({"connect"})
  /\ Go(CASE ~wscfg.enable -> "paused"
          [] wscfg.enable /\ worker.incbak /\ ~worker.fulbak -> "increment"
          [] wscfg.enable /\ worker.fulbak /\ ~isbackuped -> "download"
          [] OTHER -> "poll")
  /\ UNCHANGED <<site, backup, records, changednum, cfg, wscfg, monitor_wait, cli>>

Resume ==
  /\ At({"paused"})
  /\ monitor_wait > 0
  /\ monitor_wait' = monitor_wait - 1
  /\ worker' = [worker EXCEPT !.at = "top", !.incbak = TRUE]
  /\ UNCHANGED <<site, backup, records, changednum, cfg, wscfg, cli>>

(* The copies of S are new: a node that a comparison does not find equal to *)
(* its file does not describe its copy any more.                            *)
Copied(S) ==
  vague' = (vague \ S) \cup {p \in S : node'[p] # "none" /\ site'[p] # "same"}

(* The files S are downloaded.  Each gets a node of its own (add_dir_node), *)
(* but hash_set keeps the node it has already for the name.                 *)
Fetch(S) ==
  /\ node' = [p \in Path |-> IF p \in S /\ node[p] = "none" THEN "untouched" ELSE node[p]]
  /\ site' = [p \in Path |-> IF p \in S /\ node[p] = "none" THEN "same" ELSE site[p]]
  /\ second' = second \cup {p \in S : node[p] # "none"}
  /\ Copied(S)

(* ful_download_file.  Only a full disk is taken for a failure: after *)
(* a listing that broke off the backup counts as made.                      *)
Download ==
  /\ At({"download"})
  /\ \E S \in {Present(Path)} \cup CutListings(Path) : Fetch(S)
  /\ isbackuped' = TRUE
  /\ Go("poll")
  /\ UNCHANGED <<records, changednum, cfg, wscfg, monitor_wait, cli>>

(* Some file exceeds the disk size: those before it stay in the backup, the *)
(* worker turns itself off.                                                 *)
DownloadExceeds ==
  /\ At({"download"})
  /\ "exceed" \in Faults /\ MutexFree
  /\ \E S \in SUBSET Present(Path) : S # Present(Path) /\ Fetch(S)
  /\ cfg' = [cfg EXCEPT !.enable = FALSE]
  /\ Go("top")
  /\ UNCHANGED <<isbackuped, records, changednum, wscfg, monitor_wait, cli>>

(* while (wb->cfg.enable), which reads the shared flag without a lock. *)
PollStops ==
  /\ At({"poll"}) /\ ~cfg.enable
  /\ Go("last")
  /\ UNCHANGED <<site, backup, records, changednum, cfg, wscfg, monitor_wait, cli>>

PollSeesKeyChange ==
  /\ At({"poll"}) /\ cfg.enable /\ cfg.keychg
  /\ Go("top")
  /\ UNCHANGED <<site, backup, records, changednum, cfg, wscfg, monitor_wait, cli>>

(* One second of the loop; the interval counters choose what is due. *)
PollTick(due) ==
  /\ At({"poll"}) /\ cfg.enable
  /\ Go(due)
  /\ UNCHANGED <<site, backup, records, changednum, cfg, wscfg, monitor_wait, cli>>

(***************************************************************************)
(* compare_file over "scope": compare for each listed file, then, if the   *)
(* listing was whole, walk_dirtree.  A node left touched by a listing that *)
(* broke off is not compared in the next pass; one that the hash does not  *)
(* find is never touched.                                                  *)
(***************************************************************************)
Added(S)   == {p \in S : node[p] = "none"}
Updated(S) == {p \in S : node[p] = "untouched" /\ site[p] = "edited"}
Deleted(S, scope) == {p \in scope \ S : node[p] = "untouched"} \cup (second \cap scope)

Detected(S, scope, whole) ==
  Added(S) \cup Updated(S) \cup (IF whole THEN Deleted(S, scope) ELSE {})

(* Faulty: walk_dirtree does not clear the marks of the listed files. *)
NodesStayTouched(S, scope, whole) ==
  [p \in Path |->
     IF node[p] = "none" \/ p \notin scope THEN node[p]
     ELSE IF p \in S THEN "touched"
     ELSE IF whole THEN "untouched" ELSE node[p]]

NodesAfter(S, scope, whole) ==
  [p \in Path |->
     IF node[p] = "none" \/ p \notin scope THEN node[p]
     ELSE IF whole THEN "untouched"
     ELSE IF p \in S THEN "touched" ELSE node[p]]

ComparePass(scope, S, whole) ==
  LET known == man_restore.hash \cup man_reserve.hash
      s1 == AddRecords(svn, known, Added(S), "add")
      s2 == AddRecords(s1, known, Updated(S), "update")
  IN /\ MutexFree
     /\ svn' = IF whole THEN AddRecords(s2, known, Deleted(S, scope), "delete") ELSE s2
     /\ changednum' =
          (changednum + Cardinality(Detected(S, scope, whole) \ Known)) % Modulus
     /\ node' = NodesAfter(S, scope, whole)
     /\ UNCHANGED <<site, vague, second, isbackuped, man_restore, man_reserve, hand, stray,
                    cfg, wscfg, monitor_wait, cli>>

WholePass(scope) == ComparePass(scope, Present(scope), TRUE)
CutPass(scope) == \E S \in CutListings(scope) : ComparePass(scope, S, FALSE)

RootPass == At({"root"}) /\ (WholePass(Top) \/ CutPass(Top)) /\ Go("restore")
FullPass == At({"full"}) /\ WholePass(Path) /\ Go("last")
FullPassCut == At({"full"}) /\ CutPass(Path) /\ Go("last")

(***************************************************************************)
(* restore_file over the records of store s: the site afterwards.  What a  *)
(* protocol call returns is not looked at, so a write may have failed.  A  *)
(* file to be written back that the backup has not gets empty.             *)
(***************************************************************************)
RestoredSites(s) ==
  {new \in [Path -> SiteState] :
     \A p \in Path :
       IF p \in s.list["add"]
       THEN new[p] \in {"absent"} \cup (IF "write" \in Faults THEN {site[p]} ELSE {})
       ELSE IF p \in Listed(s)
       THEN new[p] \in {IF node[p] = "none" THEN "edited" ELSE "same"}
                               \cup (IF p \in vague THEN {"edited"} ELSE {})
                               \cup (IF "write" \in Faults THEN {site[p]} ELSE {})
       ELSE new[p] = site[p]}

(***************************************************************************)
(* inc_download_file over man_reserve: which records it takes into the     *)
(* backup before a full disk makes it return.                              *)
(***************************************************************************)
Taken ==
  {Listed(man_reserve)} \cup
  (IF "exceed" \notin Faults THEN {}
   ELSE {D \in SUBSET man_reserve.list["add"] : D # man_reserve.list["add"]}
        \cup {man_reserve.list["add"] \cup U :
                U \in {V \in SUBSET man_reserve.list["update"] :
                         \E p \in V : node[p] # "none" \/ p \in second}})

(* Faulty: an accepted deletion keeps its node. *)
CommitKeepsDeleted(D, fixed) ==
  /\ node' = [p \in Path |->
                IF p \in D \cap man_reserve.list["add"] THEN "untouched" ELSE node[p]]
  /\ site' = [p \in Path |->
                IF p \notin D \/ fixed[p] = "absent" THEN fixed[p] ELSE "same"]
  /\ second' = second
  /\ Copied(D)

(* The files D as they are after the restore are taken in.  For "others"   *)
(* dir_get_self_node finds a node that the hash does not.                  *)
Commit(D, fixed) ==
  LET add == D \cap man_reserve.list["add"]
      update == D \cap man_reserve.list["update"]
      delete == D \cap man_reserve.list["delete"]
  IN \E others \in SUBSET second :
       /\ node' = [p \in Path |->
                     IF p \in delete THEN "none"
                     ELSE IF p \in add /\ node[p] = "none" THEN "untouched"
                     ELSE node[p]]
       /\ site' = [p \in Path |->
                     IF p \notin D \/ fixed[p] = "absent" THEN fixed[p]
                     ELSE IF p \in delete THEN "edited"
                     ELSE IF \/ p \in add /\ node[p] = "none"
                             \/ p \in update \ others /\ node[p] # "none"
                     THEN "same" ELSE fixed[p]]
       /\ second' = (second \cup {p \in add : node[p] # "none"})
                      \ {p \in delete \cap others : node[p] = "none"}
       /\ Copied(D)

(* auto_restore_file *)
AutoRestore ==
  /\ wscfg.auto
  /\ site' \in RestoredSites(svn)
  /\ svn' = EmptyStore
  /\ changednum' = 0
  /\ cli' = AfterFree(Listed(svn))
  /\ UNCHANGED <<node, vague, second, man_restore, man_reserve, cfg>>

(* man_restore_file without and with accepted changes to take in. *)
ManRestore ==
  /\ ~wscfg.auto /\ ~wscfg.iscomit
  /\ site' \in RestoredSites(man_restore)
  /\ man_restore' = EmptyStore
  /\ changednum' = (changednum - Cardinality(Listed(man_restore))) % Modulus
  /\ UNCHANGED <<node, vague, second, svn, man_reserve, cfg, cli>>

(* Faulty: the committed records stay in man_reserve. *)
CommitKeepsRecords ==
  /\ ~wscfg.auto /\ wscfg.iscomit
  /\ \E fixed \in RestoredSites(man_restore), D \in Taken : Commit(D, fixed)
  /\ man_restore' = EmptyStore
  /\ cfg' = [cfg EXCEPT !.iscomit = FALSE]
  /\ changednum' = 0
  /\ UNCHANGED <<svn, man_reserve, cli>>

ManRestoreAndCommit ==
  /\ ~wscfg.auto /\ wscfg.iscomit
  /\ \E fixed \in RestoredSites(man_restore), D \in Taken : Commit(D, fixed)
  /\ man_restore' = EmptyStore /\ man_reserve' = EmptyStore
  /\ cfg' = [cfg EXCEPT !.iscomit = FALSE]
  /\ changednum' = 0
  /\ UNCHANGED <<svn, cli>>

(* The restore pass of the loop, and the one after it. *)
RestorePass ==
  /\ At({"restore", "last"}) /\ MutexFree
  /\ AutoRestore \/ ManRestore \/ ManRestoreAndCommit
  /\ Go(IF worker.at = "restore" THEN "poll" ELSE "top")
  /\ UNCHANGED <<hand, isbackuped, wscfg, monitor_wait>>
  /\ stray' = stray \cap Tracked'
-----------------------------------------------------------------------------
(* The CLI *)

Begin(command) == cli.at = "idle" /\ command \in Commands

CliOnly(newcfg, newcli) ==
  /\ cfg' = newcfg
  /\ cli' = newcli
  /\ UNCHANGED <<site, backup, records, changednum, wscfg, worker>>

Wait(move, P) == [at |-> "waiting", move |-> move, aim |-> P, live |-> P # {}]

(* restore-mode: the flag first, the records under the mutex after. *)
RestoreMode(auto) ==
  /\ Begin("restore-mode")
  /\ CliOnly([cfg EXCEPT !.auto = auto], Wait(IF auto THEN "to_svn" ELSE "to_restore", {}))
  /\ UNCHANGED monitor_wait

NoRestoreMode ==
  /\ Begin("no restore-mode") /\ cfg.auto
  /\ CliOnly([cfg EXCEPT !.auto = FALSE], cli)
  /\ UNCHANGED monitor_wait

RestoreTamperAll ==
  /\ Begin("restore-tamper all")
  /\ CliOnly(cfg, Wait("to_restore", {}))
  /\ UNCHANGED monitor_wait

(* The record is looked up without the mutex. *)
RestoreTamperFile ==
  /\ Begin("restore-tamper file")
  /\ \E p \in svn.hash : CliOnly(cfg, Wait("restore_file", {p}))
  /\ UNCHANGED monitor_wait

(* iscomit is set before the records are moved ... *)
ClearTamperAll ==
  /\ Begin("clear-tamper all")
  /\ CliOnly([cfg EXCEPT !.iscomit = TRUE], Wait("to_reserve", {}))
  /\ UNCHANGED monitor_wait

(* ... and here after, by ClearTamperFileCommits. *)
ClearTamperFile ==
  /\ Begin("clear-tamper file")
  /\ \E p \in svn.hash : CliOnly(cfg, Wait("reserve_file", {p}))
  /\ UNCHANGED monitor_wait

ViewTamperFilename ==
  /\ Begin("view tamper-filename")
  /\ CliOnly(cfg, Wait("view", {}))
  /\ UNCHANGED monitor_wait

MonitorOn ==
  /\ Begin("monitor enable") /\ monitor_wait < MaxPosts
  /\ CliOnly([cfg EXCEPT !.enable = TRUE], cli)
  /\ monitor_wait' = monitor_wait + 1

(* monitor disable and no monitor *)
MonitorOff ==
  /\ Begin("monitor disable") /\ cfg.enable
  /\ CliOnly([cfg EXCEPT !.enable = FALSE], cli)
  /\ UNCHANGED monitor_wait

(* A command changes a parameter that asks for a new backup. *)
KeyChange ==
  /\ Begin("key change") /\ ~cfg.keychg
  /\ CliOnly([cfg EXCEPT !.keychg = TRUE], cli)
  /\ UNCHANGED monitor_wait

Lock ==
  /\ cli.at = "waiting"
  /\ CliOnly(cfg, [cli EXCEPT !.at = "locked"])
  /\ UNCHANGED monitor_wait

(* The store a move takes records from, and the records it may take next:  *)
(* the one it looked up or kept, or else any of the first list that has    *)
(* one.                                                                    *)
Source == IF cli.move = "to_svn" THEN man_restore ELSE svn

FirstList(s) ==
  IF s.list["add"] # {} THEN s.list["add"]
  ELSE IF s.list["update"] # {} THEN s.list["update"] ELSE s.list["delete"]

NextRecords ==
  IF cli.aim # {} THEN cli.aim
  ELSE IF cli.move \in FileMoves \cup {"view"} THEN {} ELSE FirstList(Source)

(* svn_del_node *)
TakeRecord ==
  /\ cli.at = "locked" /\ hand = EmptyStore
  /\ cli.aim # {} => cli.live
  /\ \E a \in Action : \E p \in NextRecords \cap Source.list[a] :
       LET rest == IF cli.move \in FileMoves THEN {} ELSE Source.list[a] \ {p}
       IN /\ hand' = AddNodes(EmptyStore, Source, {p})
          /\ IF cli.move = "to_svn"
             THEN man_restore' = DelNodes(man_restore, {p}) /\ UNCHANGED svn
             ELSE svn' = DelNodes(svn, {p}) /\ UNCHANGED man_restore
          /\ stray' = IF worker.at \in Cleaning THEN stray \cup {p} ELSE stray
          /\ \E next \in IF rest = {} THEN {{}} ELSE {{q} : q \in rest} :
               cli' = [cli EXCEPT !.aim = next, !.live = next # {}]
  /\ UNCHANGED <<site, backup, man_reserve, changednum, cfg, wscfg, worker, monitor_wait>>

(* svn_add_node *)
PutRecord ==
  /\ cli.at = "locked" /\ hand # EmptyStore
  /\ CASE cli.move = "to_svn" ->
            svn' = AddNodes(svn, hand, hand.hash) /\ UNCHANGED <<man_restore, man_reserve>>
       [] cli.move \in {"to_restore", "restore_file"} ->
            /\ man_restore' = AddNodes(man_restore, hand, hand.hash)
            /\ UNCHANGED <<svn, man_reserve>>
       [] OTHER ->
            /\ man_reserve' = AddNodes(man_reserve, hand, hand.hash)
            /\ UNCHANGED <<svn, man_restore>>
  /\ hand' = EmptyStore
  /\ UNCHANGED <<site, backup, changednum, cfg, wscfg, worker, monitor_wait, cli, stray>>

Unlock ==
  /\ cli.at = "locked" /\ hand = EmptyStore /\ NextRecords = {}
  /\ CliOnly(cfg, IF cli.move = "reserve_file"
                  THEN [Idle EXCEPT !.at = "committing"] ELSE Idle)
  /\ UNCHANGED monitor_wait

ClearTamperFileCommits ==
  /\ cli.at = "committing"
  /\ CliOnly([cfg EXCEPT !.iscomit = TRUE], Idle)
  /\ UNCHANGED monitor_wait

(* The record was freed since it was looked up, or kept.  What the process *)
(* does from here on is undefined and is not followed.                     *)
MoveFreedRecord ==
  /\ cli.at = "locked" /\ hand = EmptyStore /\ cli.aim # {} /\ ~cli.live
  /\ CliOnly(cfg, [cli EXCEPT !.at = "undefined"])
  /\ UNCHANGED monitor_wait

(* clean_webserver empties a store that the CLI reads or changes: this may *)
(* go well, as in the other actions, or not.                               *)
MoveRaces ==
  /\ \/ /\ cli.at = "waiting" /\ cli.move \in FileMoves
        /\ worker.at = "clean svn"
     \/ /\ cli.at = "locked"
        /\ worker.at \in CASE cli.move = "view" -> {"clean svn"}
                           [] cli.move \in {"to_reserve", "reserve_file"} ->
                                {"clean svn", "clean reserve"}
                           [] OTHER -> {"clean svn", "clean restore"}
  /\ CliOnly(cfg, [cli EXCEPT !.at = "undefined"])
  /\ UNCHANGED monitor_wait
-----------------------------------------------------------------------------
WorkerStep ==
  \/ UpdateCfg \/ CleanTree \/ CleanSvn \/ CleanRestore \/ CleanReserve
  \/ ConnectFails \/ Connect \/ Resume
  \/ Download \/ DownloadExceeds
  \/ PollStops \/ PollSeesKeyChange
  \/ \E due \in {"restore", "root", "full"} : PollTick(due)
  \/ RootPass \/ FullPass \/ FullPassCut \/ RestorePass

CliStep ==
  \/ \E auto \in BOOLEAN : RestoreMode(auto)
  \/ NoRestoreMode \/ RestoreTamperAll \/ RestoreTamperFile
  \/ ClearTamperAll \/ ClearTamperFile \/ ClearTamperFileCommits
  \/ ViewTamperFilename \/ MonitorOn \/ MonitorOff \/ KeyChange
  \/ Lock \/ TakeRecord \/ PutRecord \/ Unlock \/ MoveFreedRecord \/ MoveRaces

(* Where nothing more is said about the process. *)
Undefined == cli.at = "undefined" /\ UNCHANGED vars

Next == SiteChange \/ WorkerStep \/ CliStep \/ Undefined

Spec == Init /\ [][Next]_vars

(***************************************************************************)
(* The worker never stops by itself, the CLI finishes a command it began.  *)
(* The CLI thread waits for its user between two commands, so a worker     *)
(* that waits for wbmutex gets it at last.  A server that can be reached   *)
(* and listed infinitely often is reached and listed infinitely often.     *)
(* That the interval counters come to a full pass is not assumed here: the *)
(* properties say so where they need it.                                   *)
(***************************************************************************)
Fairness ==
  /\ WF_vars(WorkerStep)
  /\ WF_vars(Lock) /\ WF_vars(TakeRecord) /\ WF_vars(PutRecord) /\ WF_vars(Unlock)
  /\ WF_vars(MoveFreedRecord) /\ WF_vars(ClearTamperFileCommits)
  /\ SF_vars(Connect)
  /\ SF_vars(FullPass) /\ SF_vars(RootPass) /\ SF_vars(RestorePass)

FairSpec == Spec /\ Fairness
-----------------------------------------------------------------------------
(* Safety *)

(* The three stores, and the record on its way between two of them. *)
Stores == {svn, man_restore, man_reserve, hand}

(* A path is in at most one of the three stores or in the hand of the CLI, *)
(* and in a store on one list and in the hash: two threads that move       *)
(* records never copy one, never leave half of one behind.                 *)
OneStore ==
  /\ \A s \in Stores : Agrees(s)
  /\ svn.hash \cap man_restore.hash = {}
  /\ svn.hash \cap man_reserve.hash = {}
  /\ man_restore.hash \cap man_reserve.hash = {}
  /\ hand.hash \cap Known = {}

(* However long a record waits, and wherever it is moved, its action still *)
(* fits the backup: what is to be removed from the server is not in the    *)
(* backup, what is to be written back is.  Left out: clean_webserver while *)
(* it runs, and the records it misses because the CLI moves them then.     *)
RecordsFitBackup ==
  worker.at \notin Cleaning =>
    \A s \in Stores :
      /\ \A p \in s.list["add"] \ stray : node[p] = "none"
      /\ \A p \in s.list["update"] \ stray : node[p] # "none"
      /\ \A p \in s.list["delete"] \ stray : node[p] # "none" \/ p \in second

(* The worker compares and restores only with a backup to go by, it makes  *)
(* one only when it has none, and until it has one there are no records    *)
(* but those the CLI moved while clean_webserver, which takes no lock,     *)
(* emptied the stores.                                                     *)
BackupFirst ==
  /\ worker.fulbak
  /\ worker.at \in {"poll", "root", "full", "restore", "last"} => isbackuped
  /\ worker.at = "download" => ~isbackuped
  /\ ~isbackuped /\ worker.at \notin Cleaning => Tracked \subseteq stray

(* No step but the worker's loses a record: neither between svn_del_node   *)
(* and svn_add_node, nor because svn_add_node finds the name in the target *)
(* store, where it would silently drop the node.                           *)
CliKeepsRecords == [][worker' = worker => Tracked' = Tracked]_vars

InSync(p) == \/ site[p] = "absent" /\ node[p] = "none"
             \/ site[p] = "same" /\ node[p] # "none"

(* The change a record of the man_reserve store is about is not there any  *)
(* more.                                                                   *)
Outdated(p) == (site[p] = "absent") # (p \in man_reserve.list["delete"])

(* A record is forgotten only when the file is as in the backup again, or  *)
(* when the backup has taken the accepted change in.  Left out: a backup   *)
(* to be made anew and the records it leaves behind, files of which the    *)
(* tree has two nodes, and accepted changes that had gone in the meantime. *)
ForgottenOnlyInSync ==
  [][worker.at \notin Cleaning =>
       \A p \in Tracked \ (Tracked' \cup stray) :
         \/ InSync(p)'
         \/ p \in vague \cup second
         \/ p \in man_reserve.hash /\ Outdated(p)]_vars

(* After a full pass whose listing was whole, with no listing broken off   *)
(* before it, every file that is not as in the backup has a record.        *)
FullPassReports ==
  [][worker.at = "full" /\ worker'.at = "last"
       => \A p \in Path : ~InSync(p) => p \in Known']_vars

(* Where a file is in its life: seen from outside, a record is nothing but *)
(* the store it is in, or on its way to.                                   *)
Phase ==
  [p \in Path |-> CASE p \in svn.hash -> "reported"
                   [] p \in man_restore.hash -> "restoring"
                   [] p \in man_reserve.hash -> "accepted"
                   [] p \in hand.hash ->
                        IF cli.move = "to_svn" THEN "returning" ELSE "deciding"
                   [] OTHER -> "untracked"]

Stage == IF worker.at \in Cleaning THEN "discarding"
         ELSE IF isbackuped THEN "made" ELSE "making"

Policy == INSTANCE TamperPolicy
            WITH phase <- Phase, stage <- Stage, kept <- stray,
                 backed <- {p \in Path : node[p] # "none"}

(* The threads of the program keep to the policy: with a backup that is    *)
(* not whole nothing is reported or restored, only a record in man_reserve *)
(* changes which files a whole backup has, and no interleaving takes a     *)
(* record along a way the administrator did not choose.                    *)
KeepsPolicy == Policy!Spec
-----------------------------------------------------------------------------
(* What comments and help texts of the program say, and it does not do. *)

(* core.h: changednum is the number of tampered files. *)
ChangednumCounts == changednum = Cardinality(Known) % Modulus

(* A record the CLI holds is not freed before it is moved. *)
NoFreedRecord == cli.at # "undefined"

(* util.c: clean_webserver clears the content of the server, and so every  *)
(* record.  But one that the CLI has in hand meanwhile is put back.        *)
CleanLeavesNothing == ~isbackuped /\ worker.at \notin Cleaning => Tracked = {}

(* core.c: after a pause the worker takes an incremental backup, so that   *)
(* what was changed during the pause is not held for tampering.            *)
IncrementAfterPause ==
  [][worker.at = "connect" /\ wscfg.enable /\ worker.incbak /\ isbackuped
       => worker'.at \in {"increment", "top"} \/ worker' = worker]_vars
-----------------------------------------------------------------------------
(* Liveness *)

Stopped == ~cfg.enable \/ cli.at = "undefined"

(* A file that stays different from the backup is recorded, although       *)
(* listings may break off any number of times, if only full passes come    *)
(* again and again.                                                        *)
DetectedEventually ==
  []<>(worker.at = "full") =>
    \A p \in Path : ~InSync(p) ~> (InSync(p) \/ p \in Known \/ Stopped)

(* In automatic mode a record does not stay in svn, in manual mode it does *)
(* not stay in man_restore, unless the mode is changed or the monitor is   *)
(* turned off: the worker's copy of the mode catches up, if only the       *)
(* worker leaves its loop again and again.                                 *)
RestoredEventually ==
  []<>(worker.at = "top") =>
    \A p \in Path :
      /\ (p \in svn.hash /\ cfg.auto) ~> (p \notin svn.hash \/ ~cfg.auto \/ Stopped)
      /\ (p \in man_restore.hash /\ ~cfg.auto)
           ~> (p \notin man_restore.hash \/ cfg.auto \/ Stopped)

(* swebtamper.cli: "clear-tamper all" deletes all the tampered files'      *)
(* records.                                                                *)
ClearedEventually ==
  []<>(worker.at = "full") =>
    \A p \in Path : p \in man_reserve.hash ~> (p \notin man_reserve.hash \/ Stopped)

(* swebtamper.cli: "restore-tamper all" restores all tampered files. *)
AskedRestoreHappens ==
  []<>(worker.at = "full") =>
    \A p \in Path : p \in man_restore.hash ~> (p \notin man_restore.hash \/ Stopped)
=============================================================================
