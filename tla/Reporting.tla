----------------------------- MODULE Reporting -----------------------------
(***************************************************************************)
(* What the log server is told of the records of one web server: a row     *)
(* when a record is first seen by a restore pass ("check"), and one when   *)
(* it has been restored ("arestore", "mrestore"), which tamper_log_table   *)
(* brings together by file and version (webtamper_log and log_send in      *)
(* util.c, log_write in tamperlog.c, svn_commit in svn.c).                 *)
(*                                                                         *)
(* The module adds to Tracking what the worker does inside the section of  *)
(* a restore pass, with wbmutex held: one row after the other, while the   *)
(* site goes on changing and the CLI sets its flags.  The restore itself   *)
(* is Tracking's; that it takes the records out of their stores before     *)
(* their rows are written, and not after, nobody sees who needs the mutex. *)
(***************************************************************************)
EXTENDS Tracking

VARIABLES
  section,   \* where in its section the worker is
  todo,      \* the records whose rows are still to be written there
  stored,    \* the records with isstored set
  changed,   \* svn.changed
  (* What the properties look back to. *)
  said,      \* what a record's check row was
  moved      \* records the CLI has taken out of svn since their check row, or before it

reports == <<section, todo, stored, changed, said, moved>>
rvars == <<vars, reports>>

(* "check": written with the version svn has now; "earlier": with one before *)
(* it; "lost": not written, which is only logged.                            *)
Saying == {"nothing", "check", "earlier", "lost"}

ReportingType ==
  /\ section \in {"none", "check", "restored"}
  /\ todo \subseteq Path /\ stored \subseteq Path /\ moved \subseteq Path
  /\ changed \in BOOLEAN /\ said \in [Path -> Saying]

ReportingInit ==
  /\ Init
  /\ section = "none" /\ todo = {} /\ stored = {} /\ changed = FALSE
  /\ said = [p \in Path |-> "nothing"] /\ moved = {}
-----------------------------------------------------------------------------
(* log_send *)

RECONNECT_NUM == 3

(* Whether a row gets to the log server, by the answers of its client: to   *)
(* the first write; to each attempt at a connection, one that is still open *)
(* counting as made; to the write after it.                                 *)
Delivered(write, connects, again) ==
  write \/ ((\E i \in 1 .. RECONNECT_NUM : connects[i]) /\ again)

(* Whatever came of it, isstored is set. *)
AfterCheckRow ==
  {IF Delivered(write, connects, again) THEN "check" ELSE "lost" :
     write \in BOOLEAN, connects \in [1 .. RECONNECT_NUM -> BOOLEAN], again \in BOOLEAN}
-----------------------------------------------------------------------------
(* The worker outside of a section.  A pass calls svn_add_record for all it *)
(* finds, which sets svn.changed also where there is a record.              *)

PassOver(scope, S, whole) ==
  /\ section = "none" /\ ComparePass(scope, S, whole)
  /\ changed' = (changed \/ Detected(S, scope, whole) # {})
  /\ UNCHANGED <<section, todo, stored, said, moved>>

ReportingRootPass ==
  /\ At({"root"}) /\ Go("restore")
  /\ \/ PassOver(Top, Present(Top), TRUE)
     \/ \E S \in CutListings(Top) : PassOver(Top, S, FALSE)

ReportingFullPass == At({"full"}) /\ Go("last") /\ PassOver(Path, Present(Path), TRUE)

ReportingFullPassCut ==
  /\ At({"full"}) /\ Go("last")
  /\ \E S \in CutListings(Path) : PassOver(Path, S, FALSE)

(* The steps that neither compare nor restore.  With the records that       *)
(* clean_webserver frees go their isstored and what was said of them; one    *)
(* that the CLI holds meanwhile keeps them.                                 *)
ReportingOther ==
  /\ section = "none" /\ WorkerStep
  /\ worker.at \notin {"root", "full", "restore", "last"}
  /\ stored' = stored \cap Tracked' /\ moved' = moved \cap Tracked'
  /\ said' = [p \in Path |-> IF p \in Tracked' THEN said[p] ELSE "nothing"]
  /\ UNCHANGED <<section, todo, changed>>
-----------------------------------------------------------------------------
(* The section of a restore pass *)

ToCheckInAuto == IF wscfg.auto THEN Listed(svn) \ stored ELSE {}   \* faulty
ToCheck == Listed(svn) \ stored

(* wbmutex is taken, webtamper_log(.., "check", ..) begins. *)
BeginSection ==
  /\ At({"restore", "last"}) /\ MutexFree /\ section = "none"
  /\ section' = "check" /\ todo' = ToCheck
  /\ UNCHANGED <<vars, stored, changed, said, moved>>

(* Faulty: isstored stays as it was. *)
CheckRowAgain(p) ==
  /\ section = "check" /\ p \in todo /\ cli.at # "undefined"
  /\ todo' = todo \ {p} /\ moved' = moved \ {p}
  /\ \E s \in AfterCheckRow : said' = [said EXCEPT ![p] = s]
  /\ UNCHANGED <<vars, section, stored, changed>>

CheckRow(p) ==
  /\ section = "check" /\ p \in todo /\ cli.at # "undefined"
  /\ todo' = todo \ {p} /\ moved' = moved \ {p} /\ stored' = stored \cup {p}
  /\ \E s \in AfterCheckRow : said' = [said EXCEPT ![p] = s]
  /\ UNCHANGED <<vars, section, changed>>

(* The records that are restored, or taken into the backup. *)
Settled ==
  IF wscfg.auto THEN Listed(svn)
  ELSE Listed(man_restore) \cup IF wscfg.iscomit THEN Listed(man_reserve) ELSE {}

Grown == IF wscfg.auto /\ changed
         THEN [p \in Path |-> IF said[p] = "check" THEN "earlier" ELSE said[p]]
         ELSE said

(* Faulty: svn_commit comes before the rows. *)
RestoreCommits ==
  /\ section = "check" /\ todo = {} /\ RestorePass
  /\ section' = "restored" /\ todo' = Settled
  /\ stored' = stored \ Settled /\ said' = Grown
  /\ UNCHANGED <<changed, moved>>

Restore ==
  /\ section = "check" /\ todo = {} /\ RestorePass
  /\ section' = "restored" /\ todo' = Settled
  /\ stored' = stored \ Settled
  /\ UNCHANGED <<changed, said, moved>>

(* A row "arestore" or "mrestore". *)
RestoreRow(p) ==
  /\ section = "restored" /\ p \in todo /\ cli.at # "undefined"
  /\ todo' = todo \ {p}
  /\ said' = [said EXCEPT ![p] = "nothing"] /\ moved' = moved \ {p}
  /\ UNCHANGED <<vars, section, stored, changed>>

(* svn_commit of svn after an automatic restore, then wbmutex is released. *)
(* That of man_reserve, whose changed is never set, does nothing.          *)
EndSection ==
  /\ section = "restored" /\ todo = {} /\ cli.at # "undefined"
  /\ section' = "none" /\ said' = Grown
  /\ changed' = (changed /\ ~wscfg.auto)
  /\ UNCHANGED <<vars, todo, stored, moved>>
-----------------------------------------------------------------------------
(* The site and the CLI *)

ReportingSite == SiteChange /\ UNCHANGED reports

ReportingCli ==
  /\ CliStep
  /\ cli.at = "waiting" => section = "none"
  /\ moved' = moved \cup (svn.hash \ svn'.hash)
  /\ UNCHANGED <<section, todo, stored, changed, said>>

ReportingWorker ==
  \/ ReportingRootPass \/ ReportingFullPass \/ ReportingFullPassCut
  \/ ReportingOther \/ BeginSection \/ Restore \/ EndSection
  \/ \E p \in Path : CheckRow(p) \/ RestoreRow(p)

ReportingNext ==
  \/ ReportingWorker
  \/ ReportingSite \/ ReportingCli
  \/ Undefined /\ UNCHANGED reports

ReportingSpec == ReportingInit /\ [][ReportingNext]_rvars

(* As in Tracking; each call of the log client comes back. *)
ReportingFairSpec ==
  /\ ReportingSpec
  /\ WF_rvars(ReportingWorker)
  /\ WF_rvars(ReportingCli /\ cli.at # "idle")
  /\ SF_rvars(Connect /\ UNCHANGED reports)
  /\ SF_rvars(ReportingFullPass) /\ SF_rvars(ReportingRootPass) /\ SF_rvars(BeginSection)
-----------------------------------------------------------------------------
(* Properties *)

(* A record has one check row, wherever the administrator moves it and      *)
(* however many passes find it again (util.c 672-680).                      *)
ReportedOnce == [][\A p \in Path : CheckRow(p) => said[p] = "nothing"]_rvars

(* A row that says that a record was restored goes with the check row of    *)
(* the record, with the same version, unless the administrator moved it     *)
(* (core.c 1231-1244 and 847-856, svn.c 255-265).                           *)
RowsPair ==
  [][\A p \in Path \ moved : RestoreRow(p) => said[p] \in {"check", "lost"}]_rvars

(* Each record that stays in svn is reported at last, although listings     *)
(* break off and the CLI takes the mutex again and again (core.c 1231-1260).*)
ReportedEventually ==
  \A p \in Path : p \in svn.hash ~> (said[p] # "nothing" \/ p \notin svn.hash \/ Stopped)
-----------------------------------------------------------------------------
(* What does not hold *)

(* A record that is restored has been reported. *)
NoneUnreported == [][\A p \in Path : RestoreRow(p) => said[p] # "nothing"]_rvars

(* The rows of a record that come from svn have one version. *)
OneVersion == [][\A p \in Path : RestoreRow(p) => said[p] # "earlier"]_rvars

(* A check row that was lost is written again. *)
LostAgain ==
  \A p \in Path : said[p] = "lost" ~> (said[p] # "lost" \/ p \notin svn.hash \/ Stopped)
=============================================================================
