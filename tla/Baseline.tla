------------------------------ MODULE Baseline ------------------------------
(***************************************************************************)
(* The backup of one web server with its directories: the tree of nodes    *)
(* (tree.c), the hash that finds a node by its path (hash.c), the files on *)
(* the local disk, and the three ways they meet the site (core.c): a pass  *)
(* records the difference, a restore pushes the backup to the site, a      *)
(* commit pulls the site into the backup.                                  *)
(*                                                                         *)
(* Module Tracking has the threads, the failures and the contents of the   *)
(* files, over paths that do not lie below each other.  This module has    *)
(* what Tracking leaves out, the shape: a path is a sequence of names, a   *)
(* record may be about a directory, and one record may be about something  *)
(* below another.  A pass, a restore and a commit are one step each, as    *)
(* they run under wbmutex, and the connection holds.                       *)
(***************************************************************************)
EXTENDS Naturals, Sequences, SequencesExt, FiniteSets

CONSTANTS Order,     \* the paths there can be, parents first, as a pass meets them
          DirName,   \* the names that are directories' names
          Longer,    \* pairs <<n, m>>: the file name n is the beginning of m
          MaxMoves   \* bound: how often the site changes

Path == Range(Order)
Root == <<>>
IsDir(p) == Last(p) \in DirName
Below(p) == {q \in Path : IsPrefix(p, q)}          \* p itself included
HasParent(S, p) == Len(p) = 1 \/ Front(p) \in S

Name == UNION {Range(p) : p \in Path}

(* The last but one: a node may get under a directory further up than the  *)
(* one its path names, and the pass that meets it there must know the path.*)
ASSUME PathsAssumption ==
  /\ Order \in Seq(Seq(Name)) /\ IsInjective(Order) /\ Root \notin Path
  /\ \A i \in DOMAIN Order : Len(Order[i]) > 1 =>
       \E j \in 1..i-1 : Order[j] = Front(Order[i]) /\ IsDir(Order[j])
  /\ \A p \in Path : Len(p) > 2 => \A i \in 1..Len(p)-1 : RemoveAt(p, i) \in Path
  /\ MaxMoves \in Nat

VARIABLES site,      \* the protected paths on the web server
          nodes,     \* wb->dirtree: the paths of the nodes; two nodes of one path count as one
          opened,    \* the nodes whose firstchild is allocated, the root included
          hash,      \* wb->dirhash: <<the path it was entered under, the path of its node>>
          disk,      \* the files and directories below wb->local_root
          added, deleted,    \* wb->svn: two of its lists, in order
          isautorestore,     \* wscfg.isautorestore
          moves              \* how often the site has changed

vars == <<site, nodes, opened, hash, disk, added, deleted, isautorestore, moves>>

Recorded == Range(added) \cup Range(deleted)
Keep(s, P) == FoldLeft(LAMBDA t, p : IF p \in P THEN Append(t, p) ELSE t, <<>>, s)
Drop(s, P) == Keep(s, Range(s) \ P)

(* No entry of the hash points to a node that has been freed.  From then   *)
(* on the next look into the hash reads freed memory, and the program is   *)
(* not followed any further.                                               *)
Intact == \A e \in hash : e[2] \in nodes

(***************************************************************************)
(* Looking up a node.                                                      *)
(***************************************************************************)
(* What the lookups and the commit work on. *)
Backup == [nodes |-> nodes, opened |-> opened, hash |-> hash, disk |-> disk]

Children(b, d) == {n \in b.nodes : Front(n) = d}

(* One round of dir_get_self_node's loop over the names of a path: "head"  *)
(* is the directory whose children are searched, "tmp" the node found last *)
(* (a set with at most one path), "done" that the function returned.  A    *)
(* name that is not there leaves head where it is; with no children to     *)
(* search tmp stays too.                                                   *)
Search(b, st, name) ==
  LET child == Append(st.head, name) IN
  IF st.done THEN st
  ELSE IF child \in b.nodes
       THEN [head |-> child, tmp |-> {child}, done |-> child \notin b.opened]
       ELSE [st EXCEPT !.tmp = IF Children(b, st.head) = {} THEN @ ELSE {}]

(* dir_get_self_node: the node of path p, as a set with at most one path.  *)
SelfNode(b, p) ==
  LET dirs == IF IsDir(p) THEN p ELSE Front(p)
      st   == FoldLeft(LAMBDA s, n : Search(b, s, n),
                       [head |-> Root, tmp |-> {}, done |-> FALSE], dirs)
      file == Append(st.head, Last(p))
  IN IF Root \notin b.opened THEN {}
     ELSE IF IsDir(p) \/ st.done \/ (dirs # Root /\ st.tmp = {}) THEN st.tmp
     ELSE IF file \in b.nodes THEN {file}
     ELSE IF Children(b, st.head) = {} THEN st.tmp ELSE {}

(* dir_get_parent_node *)
ParentNode(b, p) == IF Len(p) = 1 THEN {Root} ELSE SelfNode(b, Front(p))

(* hash_get with dir_cmp_fun1: the entry made under p, if its node is p's. *)
HashGet(h, p) == <<p, p>> \in h

(* hash_set: nothing is entered under p if hash_get would find it. *)
HashSet(h, p, node) == IF HashGet(h, p) THEN h ELSE h \cup {<<p, n>> : n \in node}

(* dir_cmp_fun2: the path of a node begins with the path q. *)
BeginsExact(p, q) == p = q                          \* faulty: children are kept
Begins(p, q) ==
  IF IsDir(q) THEN IsPrefix(q, p)
  ELSE /\ Len(q) <= Len(p)
       /\ Front(q) = SubSeq(p, 1, Len(q) - 1)
       /\ p[Len(q)] = Last(q) \/ <<Last(q), p[Len(q)]>> \in Longer

(* hash_delete_node with dir_cmp_fun2: out of every bucket. *)
HashDelete(h, n) == {e \in h : ~Begins(e[2], n)}

(***************************************************************************)
(* inc_download_file, record by record.                                    *)
(***************************************************************************)
(* An added path: it is fetched, and gets a node below the node found for  *)
(* its parent and an entry in the hash unless it has one.                  *)
AddNode(b, p) ==
  LET parent == ParentNode(b, p)
      node   == {Append(d, Last(p)) : d \in parent}
  IN [nodes  |-> b.nodes \cup node,
      opened |-> b.opened \cup parent,
      hash   |-> HashSet(b.hash, p, node),
      disk   |-> IF HasParent(b.disk, p) THEN b.disk \cup {p} ELSE b.disk]

(* A deleted path, first round: off the disk and out of the hash. *)
DropEntries(b, p) ==
  IF SelfNode(b, p) = {} THEN b
  ELSE [b EXCEPT !.hash = HashDelete(@, CHOOSE n \in SelfNode(b, p) : TRUE),
                 !.disk = @ \ (IF IsDir(p) THEN Below(p) ELSE {p})]

(* A deleted path, second round: dir_del_node frees the node found and all *)
(* that is below it.                                                       *)
FreeNode(b, p) ==
  LET freed == {n \in b.nodes : \E m \in SelfNode(b, p) : IsPrefix(m, n)}
  IN [b EXCEPT !.nodes = @ \ freed, !.opened = @ \ freed]

(* inc_download_file for the lists a and d. *)
Downloaded(b, a, d) ==
  FoldLeft(FreeNode, FoldLeft(DropEntries, FoldLeft(AddNode, b, a), d), d)

BecomesBackup(b) ==
  /\ nodes' = b.nodes /\ opened' = b.opened
  /\ hash' = b.hash /\ disk' = b.disk

(***************************************************************************)
(* The site: anybody adds a path, or removes one with all that is below.   *)
(***************************************************************************)
SiteAdds(p) ==
  /\ moves < MaxMoves /\ p \notin site /\ HasParent(site, p)
  /\ site' = site \cup {p} /\ moves' = moves + 1
  /\ UNCHANGED <<nodes, opened, hash, disk, added, deleted, isautorestore>>

SiteRemoves(p) ==
  /\ moves < MaxMoves /\ p \in site
  /\ site' = site \ Below(p) /\ moves' = moves + 1
  /\ UNCHANGED <<nodes, opened, hash, disk, added, deleted, isautorestore>>

(***************************************************************************)
(* list_files with FILE_DOWNLOAD and the state it starts from: an empty    *)
(* tree, hash and directory.  Every path on the site gets a node below its *)
(* parent's, an entry in the hash and a copy on the disk.                  *)
(***************************************************************************)
FullBackup ==
  [nodes  |-> site,
   opened |-> {Front(p) : p \in site},
   hash   |-> {<<p, p>> : p \in site},
   disk   |-> site]

Init ==
  /\ site \in {S \in SUBSET Path : \A p \in S : HasParent(S, p)}
  /\ nodes = site /\ opened = {Front(p) : p \in site}
  /\ hash = {<<p, p>> : p \in site} /\ disk = site
  /\ added = <<>> /\ deleted = <<>> /\ moves = 0
  /\ isautorestore \in BOOLEAN

RebackupKeepsRecords ==              \* faulty: the records stay
  /\ Intact
  /\ BecomesBackup(FullBackup)
  /\ UNCHANGED <<site, added, deleted, isautorestore, moves>>

(* A key setting has changed: clean_webserver and a new full backup. *)
Rebackup ==
  /\ Intact
  /\ BecomesBackup(FullBackup)
  /\ added' = <<>> /\ deleted' = <<>>
  /\ UNCHANGED <<site, isautorestore, moves>>

(***************************************************************************)
(* compare_file over the first "depth" levels: list_files meets the paths  *)
(* on the site and asks the hash; then walk_dirtree records every node     *)
(* that was not met.  svn_add_record leaves a recorded path alone.         *)
(***************************************************************************)
AllLevels == {Len(p) : p \in Path}
PassLevels == {{1}, AllLevels}       \* root_interval's pass and other_interval's pass

Unknown(levels) == {p \in site : Len(p) \in levels /\ ~HashGet(hash, p)}
Untouched(levels) ==
  {n \in nodes : Len(n) \in levels /\ ~(n \in site /\ HashGet(hash, n))}

NewAddedAgain(levels, known) == Keep(Order, Unknown(levels))   \* faulty: recorded again
NewAdded(levels, known) == Keep(Order, Unknown(levels) \ known)
NewDeleted(levels, known) ==
  Keep(Order, Untouched(levels) \ (known \cup Unknown(levels)))

Pass(levels) ==
  /\ Intact
  /\ added' = added \o NewAdded(levels, Recorded)
  /\ deleted' = deleted \o NewDeleted(levels, Recorded)
  /\ UNCHANGED <<site, nodes, opened, hash, disk, isautorestore, moves>>

(***************************************************************************)
(* restore_file for the lists a and d: an added file is removed, an added  *)
(* directory with all that is below it; a deleted directory is made if the *)
(* backup has it, a deleted file is written, empty if the backup does not  *)
(* have it; both need their parent on the site.                            *)
(***************************************************************************)
Removal(p) == IF IsDir(p) THEN Below(p) ELSE {p}
PutBackFiles(S, p) ==                \* faulty: directories are not made
  IF HasParent(S, p) /\ ~IsDir(p) THEN S \cup {p} ELSE S
PutBack(S, p) ==
  IF HasParent(S, p) /\ (IsDir(p) => p \in disk) THEN S \cup {p} ELSE S
RestoredSiteSwapped(a, d) ==         \* faulty: the lists are taken for each other
  FoldLeft(PutBack, site \ UNION {Removal(p) : p \in Range(d)}, a)
RestoredSite(a, d) ==
  FoldLeft(PutBack, site \ UNION {Removal(p) : p \in Range(a)}, d)

(* auto_restore_file: everything recorded. *)
AutoRestore ==
  /\ Intact /\ isautorestore
  /\ site' = RestoredSite(added, deleted)
  /\ added' = <<>> /\ deleted' = <<>>
  /\ UNCHANGED <<nodes, opened, hash, disk, isautorestore, moves>>

(* man_restore_file: the records the administrator chose, A of the added   *)
(* paths and D of the deleted ones, are restored...                        *)
Takes(A, D) ==
  /\ Intact /\ ~isautorestore
  /\ A \subseteq Range(added) /\ D \subseteq Range(deleted) /\ A \cup D # {}
  /\ added' = Drop(added, A) /\ deleted' = Drop(deleted, D)

ManRestore(A, D) ==
  /\ Takes(A, D)
  /\ site' = RestoredSite(Keep(added, A), Keep(deleted, D))
  /\ UNCHANGED <<nodes, opened, hash, disk, isautorestore, moves>>

(* ... or taken over into the backup. *)
ManCommit(A, D) ==
  /\ Takes(A, D)
  /\ BecomesBackup(Downloaded(Backup, Keep(added, A), Keep(deleted, D)))
  /\ UNCHANGED <<site, isautorestore, moves>>

(* restore-mode and no restore-mode.  The records chosen for a restore, of *)
(* which the mode moves some, are restored at once here.                   *)
RestoreMode ==
  /\ Intact
  /\ isautorestore' = ~isautorestore
  /\ UNCHANGED <<site, nodes, opened, hash, disk, added, deleted, moves>>

Next ==
  \/ \E p \in Path : SiteAdds(p) \/ SiteRemoves(p)
  \/ \E levels \in PassLevels : Pass(levels)
  \/ AutoRestore
  \/ \E A \in SUBSET Range(added), D \in SUBSET Range(deleted) :
       ManRestore(A, D) \/ ManCommit(A, D)
  \/ Rebackup
  \/ RestoreMode

Spec == Init /\ [][Next]_vars

(* The worker restores on each turn of its loop.  That a full pass comes   *)
(* too is promised only to a quick host (PollClock): the property that     *)
(* needs it says so.                                                       *)
FairSpec == Spec /\ WF_vars(AutoRestore)

(***************************************************************************)
(* Properties.                                                             *)
(***************************************************************************)
(* The types of the variables, no path is recorded twice, and the directory *)
(* of a node has its list of children.                                     *)
TypeOK ==
  /\ site \subseteq Path /\ nodes \subseteq Path /\ disk \subseteq Path
  /\ opened \subseteq Path \cup {Root} /\ \A n \in nodes : Front(n) \in opened
  /\ hash \subseteq Path \X Path
  /\ added \in Seq(Path) /\ deleted \in Seq(Path)
  /\ IsInjective(added \o deleted)
  /\ isautorestore \in BOOLEAN /\ moves \in 0..MaxMoves

(* The tree, the hash and the disk tell the same. *)
Sound ==
  /\ hash = {<<n, n>> : n \in nodes}
  /\ disk = nodes
  /\ \A n \in nodes : HasParent(nodes, n)

(* No name of a file that goes is the beginning of another name next to it, *)
(* be that on the site or gone from there since it was recorded.            *)
NoNamesake(D) ==
  \A p \in D, n \in nodes \cup Recorded : Begins(n, p) => IsPrefix(p, n)

Flat(D) == \A p, q \in D : ~IsStrictPrefix(p, q)

(* Every path of the list comes after its parent, or has it in the tree. *)
ParentsFirst(s) ==
  \A i \in DOMAIN s : HasParent(nodes \cup {s[j] : j \in 1..i-1}, s[i])

(* No record has outlived its reason. *)
RecordsFit == Range(deleted) \subseteq nodes /\ Range(added) \cap nodes = {}

(* Records keep fitting the backup, over any number of passes, commits and *)
(* backups made anew, unless a commit takes a directory away and leaves    *)
(* the record of a path below it (core.c 654-669, 866-876, 1101-1106).     *)
RecordsStayFit ==
  [][LET gone == Range(deleted) \ Range(deleted') IN
     /\ Sound /\ RecordsFit /\ Sound'
     /\ \A p \in gone, q \in Range(deleted') : ~IsPrefix(p, q)
     => RecordsFit']_vars

(* A restore never makes the site worse: as long as the three copies of    *)
(* the backup agree and the records fit, a path that is on the site and in *)
(* the backup, or in neither, is so afterwards, whatever was recorded, in  *)
(* which passes, and however the site changed since (core.c 803-864).      *)
Restores == site' # site /\ moves' = moves
RestoreHelps ==
  [][Restores /\ Sound /\ RecordsFit =>
       \A p \in Path : (p \in site <=> p \in nodes) => (p \in site' <=> p \in nodes)]_vars

(* The administrator's commit takes over what was chosen and nothing else, *)
(* and leaves tree, hash and disk in agreement: for added paths in order   *)
(* and deleted ones that are still in the tree, not below one another and  *)
(* without a namesake (core.c 671-801).                                    *)
CommitAdopts ==
  [][LET A == Range(added) \ Range(added')
         D == Range(deleted) \ Range(deleted')
     IN /\ ManCommit(A, D) /\ Sound
        /\ ParentsFirst(Keep(added, A))
        /\ D \subseteq nodes /\ Flat(D) /\ NoNamesake(D)
        => Sound' /\ nodes' = (nodes \cup A) \ UNION {Below(p) : p \in D}]_vars

(* As long as full passes go on, the site in the automatic mode is the     *)
(* backup again at some point after it was last changed, although a        *)
(* restore drops the records of what it could not put back, and there are  *)
(* records from before the mode was set (core.c 803-856).                  *)
AutoReturns ==
  WF_vars(Pass(AllLevels)) => (<>[](isautorestore /\ Sound) => <>[](site = nodes))

(* What tree.c says of its lookup, for those of a commit: the node of the  *)
(* path or none (tree.c 28-38).  It does not hold: a directory and a path  *)
(* below it went, and the path is looked up when the directory is off the  *)
(* tree already.                                                           *)
LookupAnswers ==
  [][\A A \in SUBSET Range(added), D \in SUBSET Range(deleted) : ManCommit(A, D) =>
       LET d == Keep(deleted, D)
           b == FoldLeft(DropEntries, FoldLeft(AddNode, Backup, Keep(added, A)), d)
       IN \A i \in DOMAIN d :
            SelfNode(FoldLeft(FreeNode, b, SubSeq(d, 1, i - 1)), d[i]) \subseteq {d[i]}]_vars

(* RestoreHelps without the agreement.  It does not hold: when a file goes *)
(* and that is committed, the hash loses every name that begins with its   *)
(* name.                                                                   *)
RestoreNeverHarms ==
  [][AutoRestore =>
       \A p \in Path : (p \in site <=> p \in disk) => (p \in site' <=> p \in disk)]_vars
=============================================================================
