------------------------------ MODULE TreeWalk ------------------------------
(***************************************************************************)
(* The walk over a site that list_files makes for each of its three uses:  *)
(* to count the files, to download them into a new backup, and to compare  *)
(* them with it.  Directories still to be listed wait on a stack           *)
(* (stack.c); each is opened and listed when its turn comes, while the     *)
(* site goes on changing: a directory may have gone by then, which ends    *)
(* the walk.  After a comparison that was whole walk_dirtree takes the     *)
(* nodes that were not met for deleted.                                    *)
(*                                                                         *)
(* Tracking and Baseline take a pass and a download as one step.  This     *)
(* module has what is inside that step, and what happens when it is left   *)
(* half way.  The contents of files are FileSync's; what a restore or a    *)
(* commit does to site and backup are Baseline's, here the records just go.*)
(***************************************************************************)
EXTENDS Naturals, Sequences, FiniteSets, Functions

CONSTANTS Path,        \* the paths there can be, sequences of names
          Dirs,        \* those of directories; all others are files
          Depth,       \* wscfg.depth
          CountDepth,  \* DEFAULT_DEPTH, to which files are counted
          Disk,        \* bound: the values wb->cfg.disksize takes
          MaxBackup,   \* bound: the backupsize up to which a server is switched on again
          MaxMoves     \* bound: how often the site changes

Root == <<>>
Files == Path \ Dirs
IsAbove(d, p) == Len(d) < Len(p) /\ SubSeq(p, 1, Len(d)) = d
Parent(p) == SubSeq(p, 1, Len(p) - 1)

ASSUME TreeAssumption ==
  /\ IsFiniteSet(Path) /\ Dirs \subseteq Path
  /\ \A p \in Path : /\ p \in Seq(STRING) /\ p # Root
                     /\ \A n \in 1 .. Len(p) - 1 : SubSeq(p, 1, n) \in Dirs
  /\ Depth \in Nat \ {0} /\ CountDepth \in Nat \ {0}
  /\ Disk \subseteq Nat \ {0} /\ Disk # {} /\ MaxBackup \in Nat /\ MaxMoves \in Nat

VARIABLES
  site,          \* each path on the server: how a listing shows it
  at,            \* where worker_thread is
  stack,         \* list_files: the directories to be listed, the top first
  nodes,         \* wb->dirtree: how many nodes a path has
  hash,          \* wb->dirhash: the paths it finds a node for, the first one made
  touched,       \* those of them whose node is touched
  added, deleted,             \* the records in the stores
  backupsize, disksize,       \* with files of size 1
  totalnum,      \* wb->totalnum: whether it is not 0
  isbackuped, mark, enable,
  moves,         \* how often the site has changed
  (* What the properties look back to. *)
  lasting,       \* entries that have been on the site since the walk began
  ever,          \* entries that were there at some time since
  seen,          \* entries the walk has met
  missed         \* nodes a whole full pass did not record, away then and since

owner   == <<site, moves>>
backup  == <<nodes, hash, backupsize, isbackuped, mark>>
records == <<added, deleted>>
history == <<lasting, ever, seen, missed>>
vars == <<site, at, stack, nodes, hash, touched, added, deleted, backupsize,
          disksize, totalnum, isbackuped, mark, enable, moves, history>>

(* A file that reaches maxfilesize is "large", as is one with a suffix that *)
(* is left out; only counting meets it.                                     *)
SiteState == {"absent", "kept", "large"}
Walks == {"count", "download", "root", "full"}
Passes == {"root", "full"}
Places == Walks \cup {"top", "branch", "paused", "poll", "restore", "last"}

(* What a listing of everything would show: <<path, state>>. *)
EntriesOf(s) == {<<p, s[p]>> : p \in {q \in Path : s[q] # "absent"}}

(* get_level counts the slashes after the root, which the path of a         *)
(* directory ends with, and begins with 1.                                  *)
Level(d) == Len(d) + 1
DepthOf(kind) == CASE kind = "count" -> CountDepth [] kind = "root" -> 1 [] OTHER -> Depth

(* What a walk is there to meet. *)
InScope(kind, e) == Len(e[1]) <= DepthOf(kind) /\ (kind = "count" \/ e[2] = "kept")

Init ==
  /\ site \in {s \in [Path -> {"absent", "kept"}] :
                 \A p, q \in Path : IsAbove(p, q) /\ s[p] = "absent" => s[q] = "absent"}
  /\ at = "top" /\ stack = <<>>
  /\ nodes = [p \in Path |-> 0] /\ hash = {} /\ touched = {}
  /\ added = {} /\ deleted = {}
  /\ backupsize = 0 /\ disksize \in Disk
  /\ totalnum = FALSE /\ isbackuped = FALSE /\ mark = "0" /\ enable = TRUE
  /\ moves = 0
  /\ lasting = {} /\ ever = {} /\ seen = {} /\ missed = {}
-----------------------------------------------------------------------------
(* The site: anybody, at any moment. *)

SiteBecomes(s) ==
  /\ moves < MaxMoves /\ moves' = moves + 1
  /\ site' = s
  /\ lasting' = lasting \cap EntriesOf(s)
  /\ ever' = IF at \in Walks THEN ever \cup EntriesOf(s) ELSE {}
  /\ missed' = {p \in missed : s[p] # "kept"}
  /\ UNCHANGED <<at, stack, backup, touched, records, disksize, totalnum, enable, seen>>

Appears(p) ==
  /\ site[p] = "absent"
  /\ \A q \in Path : IsAbove(q, p) => site[q] # "absent"
  /\ SiteBecomes([site EXCEPT ![p] = "kept"])

Goes(p) ==
  /\ site[p] # "absent"
  /\ SiteBecomes([q \in Path |-> IF q = p \/ IsAbove(p, q) THEN "absent" ELSE site[q]])

ChangesSize(p) ==
  /\ p \in Files /\ site[p] # "absent"
  /\ SiteBecomes([site EXCEPT ![p] = IF @ = "kept" THEN "large" ELSE "kept"])
-----------------------------------------------------------------------------
(* list_files *)

BeginWalk(kind) ==
  /\ at' = kind /\ stack' = <<Root>>
  /\ lasting' = EntriesOf(site) /\ ever' = EntriesOf(site) /\ seen' = {}

WalkIsOver == lasting' = {} /\ ever' = {} /\ seen' = {}

(* The listing of directory d, and what of it the walk looks at. *)
Listing(d) == {e \in EntriesOf(site) : Parent(e[1]) = d}
Met(d) == {e \in Listing(d) : e[1] \in Dirs \/ at = "count" \/ e[2] = "kept"}
MetPaths(d) == {e[1] : e \in Met(d)}

(* The orders the entries of a set may be listed in. *)
Orders(S) == {s \in [1 .. Cardinality(S) -> S] : Range(s) = S}

(* Faulty: off by one level. *)
PushedBelowDepth(d) == {p \in MetPaths(d) \cap Dirs : Level(p) < DepthOf(at)}
Pushed(d) == {p \in MetPaths(d) \cap Dirs : Level(p) <= DepthOf(at)}

(* Faulty: a directory without directories stays on the stack, or pushing   *)
(* forgets what was there.                                                  *)
PushesOnly(d) ==
  \E s \in Orders(Pushed(d)) : stack' = IF s = <<>> THEN stack ELSE s \o Tail(stack)
Pushes(d) == \E s \in Orders(Pushed(d)) : stack' = s \o Tail(stack)

(* The next directory can be opened. *)
Opens(d) ==
  /\ stack # <<>> /\ d = Head(stack)
  /\ d # Root => site[d] # "absent"

(* It is listed to its end. *)
Lists(d) == Opens(d) /\ seen' = seen \cup Met(d)

CountsDir(d) ==
  /\ at = "count" /\ Lists(d) /\ Pushes(d)
  /\ totalnum' = (totalnum \/ MetPaths(d) \cap Files # {})
  /\ UNCHANGED <<at, owner, backup, touched, records, disksize, enable, lasting, ever, missed>>

(* A node for each path and an entry in the hash unless it has one: *)
(* hash_set leaves the older node.                                  *)
GetsNodes(S) ==
  /\ nodes' = [p \in Path |-> IF p \in S THEN nodes[p] + 1 ELSE nodes[p]]
  /\ hash' = hash \cup S

(* Faulty: what is downloaded is not counted. *)
HasSpaceNow(F) == backupsize < disksize
HasSpace(F) == backupsize + Cardinality(F) < disksize

DownloadsDir(d) ==
  /\ at = "download" /\ Lists(d) /\ Pushes(d)
  /\ HasSpace(MetPaths(d) \cap Files) \/ MetPaths(d) \cap Files = {}
  /\ backupsize' = backupsize + Cardinality(MetPaths(d) \cap Files)
  /\ GetsNodes(MetPaths(d))
  /\ UNCHANGED <<at, owner, touched, records, disksize, totalnum, isbackuped, mark, enable,
                 lasting, ever, missed>>

(* The file that reaches the disk size ends the walk; files and directories *)
(* before it in the listing have their nodes, and it is counted itself.     *)
(* The size is read for each file, and may be another for this one.         *)
DownloadExceeds(d) ==
  /\ at = "download" /\ Opens(d)
  /\ disksize' \in Disk
  /\ \E S \in SUBSET MetPaths(d) :
       /\ (MetPaths(d) \cap Files) \ S # {}
       /\ HasSpace(S \cap Files) \/ S \cap Files = {}
       /\ backupsize + Cardinality(S \cap Files) + 1 >= disksize'
       /\ backupsize' = backupsize + Cardinality(S \cap Files) + 1
       /\ GetsNodes(S)
  /\ enable' = FALSE /\ at' = "top" /\ stack' = <<>>
  /\ WalkIsOver
  /\ UNCHANGED <<owner, touched, records, totalnum, isbackuped, mark, missed>>

(* compare for each entry.  svn_add_record leaves recorded paths alone. *)
ComparesDir(d) ==
  /\ at \in Passes /\ Lists(d) /\ Pushes(d)
  /\ added' = added \cup (MetPaths(d) \ (hash \cup deleted))
  /\ touched' = touched \cup (MetPaths(d) \cap hash)
  /\ UNCHANGED <<at, owner, backup, deleted, disksize, totalnum, enable,
                 lasting, ever, missed>>
-----------------------------------------------------------------------------
(* How a walk ends *)

AfterPass == at' = IF at = "root" THEN "restore" ELSE "last"

(* What the caller does when list_files returns -1: a count is forgotten,   *)
(* walk_dirtree is left out; ful_download_file's callers only know of one   *)
(* failure, a full disk.                                                    *)
CountBreaksOff ==
  /\ at = "count" /\ totalnum' = FALSE /\ at' = "branch"
  /\ UNCHANGED <<backup, touched, records>>

DownloadBreaksOff ==
  /\ at = "download" /\ isbackuped' = TRUE /\ mark' = "1" /\ at' = "poll"
  /\ UNCHANGED <<nodes, hash, backupsize, touched, records, totalnum>>

PassBreaksOff ==
  /\ at \in Passes /\ AfterPass
  /\ UNCHANGED <<backup, touched, records, totalnum>>

(* The directory cannot be opened. *)
Gone == stack # <<>> /\ Head(stack) # Root /\ site[Head(stack)] = "absent"

(* It cannot, or another call to the server fails. *)
BreaksOff ==
  /\ at \in Walks /\ stack # <<>>
  /\ stack' = <<>>
  /\ CountBreaksOff \/ DownloadBreaksOff \/ PassBreaksOff
  /\ WalkIsOver
  /\ UNCHANGED <<owner, disksize, enable, missed>>

CountEnds ==
  /\ at = "count" /\ stack = <<>>
  /\ at' = "branch" /\ WalkIsOver
  /\ UNCHANGED <<stack, owner, backup, touched, records, disksize, totalnum, enable, missed>>

DownloadEnds ==
  /\ at = "download" /\ stack = <<>>
  /\ isbackuped' = TRUE /\ mark' = "1" /\ at' = "poll" /\ WalkIsOver
  /\ UNCHANGED <<stack, owner, nodes, hash, backupsize, touched, records, disksize, totalnum,
                 enable, missed>>

(* walk_dirtree: nodes that are not touched are recorded, also a second     *)
(* node of a path, which is never touched; the others lose their mark.      *)
Untouched == {p \in Path : nodes[p] > (IF p \in touched THEN 1 ELSE 0)}
WalkedDeep(kind) == {p \in Path : Len(p) <= Depth}       \* faulty: always the whole tree
Walked(kind) == {p \in Path : Len(p) <= DepthOf(kind)}

SeenPaths == {e[1] : e \in seen}
Marks == touched                                          \* faulty: they are kept
MarksLeft == touched \ Walked(at)

PassEnds ==
  /\ at \in Passes /\ stack = <<>>
  /\ deleted' = deleted \cup ((Untouched \cap Walked(at)) \ added)
  /\ touched' = MarksLeft
  /\ AfterPass /\ WalkIsOver
  /\ missed' = IF at = "root" THEN missed
               ELSE {p \in hash \cap Walked(at) :
                       p \notin added \cup deleted' /\ site[p] # "kept"}
  /\ UNCHANGED <<stack, owner, backup, added, disksize, totalnum, enable>>
-----------------------------------------------------------------------------
(* The rest of worker_thread's loop *)

(* The top of the loop with its connection.  After a change of a key        *)
(* setting, perhaps while the server was off, clean_webserver comes first;  *)
(* it leaves totalnum as it is.                                             *)
Clean ==
  /\ at \in {"top", "paused"} /\ at' = "top" /\ enable' = (enable \/ at = "paused")
  /\ nodes' = [p \in Path |-> 0] /\ hash' = {} /\ touched' = {}
  /\ added' = {} /\ deleted' = {} /\ missed' = {}
  /\ backupsize' = 0 /\ isbackuped' = FALSE
  /\ UNCHANGED <<stack, owner, disksize, totalnum, mark, lasting, ever, seen>>

Connects ==
  /\ at = "top"
  /\ IF ~totalnum THEN BeginWalk("count")
     ELSE at' = "branch" /\ UNCHANGED <<stack, lasting, ever, seen>>
  /\ UNCHANGED <<owner, backup, touched, records, disksize, totalnum, enable, missed>>

BranchPauses ==
  /\ at = "branch" /\ ~enable /\ at' = "paused"
  /\ UNCHANGED <<stack, owner, backup, touched, records, disksize, totalnum, enable, history>>

BranchDownloads ==
  /\ at = "branch" /\ enable /\ ~isbackuped
  /\ mark' = "0" /\ BeginWalk("download")
  /\ UNCHANGED <<owner, nodes, hash, backupsize, isbackuped, touched, records, disksize,
                 totalnum, enable, missed>>

BranchPolls ==
  /\ at = "branch" /\ enable /\ isbackuped /\ at' = "poll"
  /\ UNCHANGED <<stack, owner, backup, touched, records, disksize, totalnum, enable, history>>

(* The administrator switches it on again... *)
Resumes ==
  /\ at = "paused" /\ at' = "top" /\ enable' = TRUE
  /\ backupsize <= MaxBackup
  /\ UNCHANGED <<stack, owner, backup, touched, records, disksize, totalnum, history>>

(* ... and gives it more or less space at any time, whatever it has stored  *)
(* and wherever the worker is.                                              *)
SetDiskSize ==
  /\ disksize' \in Disk
  /\ UNCHANGED <<at, stack, owner, backup, touched, records, totalnum, enable, history>>

(* An interval is over. *)
PollsOn(kind) ==
  /\ at = "poll" /\ BeginWalk(kind)
  /\ UNCHANGED <<owner, backup, touched, records, disksize, totalnum, enable, missed>>

(* A setting has changed, or the administrator has switched it off. *)
PollStops ==
  /\ at = "poll"
  /\ enable' \in BOOLEAN
  /\ at' \in IF enable' THEN {"top"} ELSE {"top", "last"}
  /\ UNCHANGED <<stack, owner, backup, touched, records, disksize, totalnum, history>>

(* Records that are restored go, all of them or none. *)
Settle ==
  /\ at \in {"restore", "last"}
  /\ \/ UNCHANGED records
     \/ added' = {} /\ deleted' = {}
  /\ at' = IF at = "restore" THEN "poll" ELSE "top"
  /\ UNCHANGED <<stack, owner, backup, touched, disksize, totalnum, enable, history>>

WalkProceeds ==
  \/ \E d \in Dirs \cup {Root} :
       CountsDir(d) \/ DownloadsDir(d) \/ DownloadExceeds(d) \/ ComparesDir(d)
  \/ CountEnds \/ DownloadEnds \/ PassEnds
  \/ Gone /\ BreaksOff

Next ==
  \/ \E p \in Path : Appears(p) \/ Goes(p) \/ ChangesSize(p)
  \/ WalkProceeds \/ BreaksOff
  \/ Clean \/ Connects \/ BranchPauses \/ BranchDownloads \/ BranchPolls
  \/ Resumes \/ SetDiskSize
  \/ \E kind \in Passes : PollsOn(kind)
  \/ PollStops \/ Settle

Spec == Init /\ [][Next]_vars

(* Each call to the server comes back, not necessarily with an answer. *)
FairSpec == Spec /\ WF_vars(WalkProceeds)
-----------------------------------------------------------------------------
(* Properties *)

TypeOK ==
  /\ site \in [Path -> SiteState] /\ moves \in 0 .. MaxMoves
  /\ at \in Places /\ stack \in Seq(Dirs \cup {Root})
  /\ nodes \in [Path -> Nat] /\ hash \subseteq Path /\ touched \subseteq hash
  /\ added \subseteq Path /\ deleted \subseteq Path
  /\ backupsize \in Nat /\ disksize \in Disk /\ totalnum \in BOOLEAN
  /\ isbackuped \in BOOLEAN /\ mark \in {"0", "1"} /\ enable \in BOOLEAN
  /\ lasting \subseteq EntriesOf(site) /\ ever \subseteq Path \X {"kept", "large"}
  /\ seen \subseteq ever /\ missed \subseteq Path

(* A walk that comes to its end has met everything in its scope that was   *)
(* on the site all the time, and nothing that never was, whatever came and *)
(* went meanwhile, in whichever order the directories were taken from the  *)
(* stack (core.c 514-630, stack.c).                                        *)
WalkMeets ==
  at \in Walks /\ stack = <<>> =>
    /\ {e \in lasting : InScope(at, e)} \subseteq seen
    /\ \A e \in seen : Len(e[1]) <= DepthOf(at) /\ e \in ever

(* A pass reports as deleted what has been on the site all the time only if *)
(* the tree has two nodes for it (walk_dirtree, core.c 387-417).            *)
NoFalseDelete ==
  [][\A p \in deleted' \ deleted : nodes[p] = 1 => <<p, "kept">> \notin lasting]_vars

(* What a whole full pass failed to report, because a pass that broke off   *)
(* had left its mark, the next whole full pass reports unless it was back   *)
(* in between (core.c 390-414, 661-667).                                    *)
ReportedAtLast ==
  [][at = "full" /\ PassEnds => missed \subseteq added \cup deleted']_vars

(* A file is stored only if all that is stored then fits the disk size of  *)
(* that moment, and all of it has been counted, also when a download was   *)
(* given up for want of space and begun again with more or with less       *)
(* (core.c 583-589, 1174-1189, cli_unix.c 1603-1608).                      *)
Stored == hash \cap Files
BackupFits ==
  [][/\ ~(Stored' \subseteq Stored) => Cardinality(Stored') < disksize
     /\ Cardinality(Stored') <= backupsize']_vars

(* Each call of list_files comes to an end (core.c 516).                    *)
WalkEnds == at \in Walks ~> at \notin Walks

-----------------------------------------------------------------------------
(* What does not hold *)

(* The backup is smaller than the disk size: the commands that set it do   *)
(* not look at what is stored.                                             *)
BackupBelowDisk == Cardinality(Stored) < disksize

(* The mark file says "1" when the backup has all that was there during the *)
(* download.                                                                *)
MarkIsTrue ==
  [][(mark = "0" /\ mark' = "1") =>
       \A e \in lasting : InScope("download", e) => e[1] \in hash]_vars

(* What was there all the time is never reported as deleted. *)
NeverFalseDelete == [][\A p \in deleted' \ deleted : <<p, "kept">> \notin lasting]_vars

(* What is reported as deleted was away when it was looked for. *)
DeletedWasAway == [][\A p \in deleted' \ deleted : site[p] = "absent" \/ p \in SeenPaths]_vars
=============================================================================
