---------------------------- MODULE RecordStores ----------------------------
(***************************************************************************)
(* The stores of tamper records of one web server (svn.c).                 *)
(*                                                                         *)
(* A store (svn_t) keeps every record twice: in one of three linked lists, *)
(* one per action, and in a hash keyed by the file name.  The model keeps  *)
(* both, so that a step that updates one and not the other shows.  A       *)
(* record is the path it is about; list order, time stamps and the version *)
(* that labels log rows are left out.                                      *)
(***************************************************************************)
CONSTANT Path                    \* the protected file names

(* The kind of a record: ACTION_ADD, ACTION_UPDATE, ACTION_DELETE. *)
Action == {"add", "update", "delete"}

(* svn_t: the three lists and the hash. *)
Store == [list : [Action -> SUBSET Path], hash : SUBSET Path]

(* svn_init; also what svn_del_all_record leaves. *)
EmptyStore == [list |-> [a \in Action |-> {}], hash |-> {}]

(* The paths on some list of the store. *)
Listed(s) == UNION {s.list[a] : a \in Action}

(***************************************************************************)
(* svn_add_record for every path of P: a path that one of the three hashes *)
(* already holds is left alone.                                            *)
(***************************************************************************)
NewToStore(s, known, P) == P \ s.hash            \* faulty: the other two are not asked
NewRecords(s, known, P) == P \ (s.hash \cup known)

AddRecords(s, known, P, a) ==
  [list |-> [s.list EXCEPT ![a] = @ \cup NewRecords(s, known, P)],
   hash |-> s.hash \cup NewRecords(s, known, P)]

(* svn_del_node: off its list and out of the hash. *)
DelNodes(s, P) ==
  [list |-> [a \in Action |-> s.list[a] \ P], hash |-> s.hash \ P]

(***************************************************************************)
(* svn_add_node for nodes that come from the lists of store "from": a node *)
(* goes to the list of its own action, unless the hash of the target has   *)
(* its name already, in which case it is in no store any more.             *)
(***************************************************************************)
AddNodesNotDeleted(s, from, P) ==           \* faulty: no case for ACTION_DELETE
  LET Q == P \ from.list["delete"]
  IN [list |-> [a \in Action |-> s.list[a] \cup ((from.list[a] \cap Q) \ s.hash)],
      hash |-> s.hash \cup (Listed(from) \cap Q)]

AddNodes(s, from, P) ==
  [list |-> [a \in Action |-> s.list[a] \cup ((from.list[a] \cap P) \ s.hash)],
   hash |-> s.hash \cup (Listed(from) \cap P)]

(* What is true of a store whose two halves agree. *)
Agrees(s) ==
  /\ s.hash = Listed(s)
  /\ \A a, b \in Action : a # b => s.list[a] \cap s.list[b] = {}
=============================================================================
