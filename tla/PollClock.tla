------------------------------ MODULE PollClock ------------------------------
(***************************************************************************)
(* The clock of the polling loop in worker_thread (core.c:1192-1245).  The *)
(* worker sleeps a second at a time and counts: every root_interval it     *)
(* compares the files of the server root, every other_interval all files,  *)
(* and in between it looks whether its configuration has changed.  The     *)
(* administrator sets the intervals (cli_unix.c).                          *)
(*                                                                         *)
(* The counters also take in the seconds a root pass needed, and they are  *)
(* compared with the intervals by ==.                                      *)
(***************************************************************************)
EXTENDS Integers

CONSTANTS
  Seconds,       \* bound: the intervals the administrator sets
  DefaultRoot,   \* DEFAULT_ROOT_INTERVAL
  DefaultOther,  \* DEFAULT_OTHER_INTERVAL
  PassTime,      \* bound: a root pass takes at most so many seconds
  Tick           \* 1 if a second may end while nothing is compared, else 0

ASSUME PollClockAssumption ==
  /\ Seconds \subseteq Nat \ {0}
  /\ DefaultRoot \in Seconds /\ DefaultOther \in Seconds /\ DefaultRoot <= DefaultOther
  /\ PassTime \in Nat /\ Tick \in 0 .. 1

VARIABLES
  root_interval, other_interval,  \* wb->cfg
  wroot, wother,                  \* the worker's copy of them
  root_count, other_count,
  polling,                        \* is the worker in the loop, or before it
  pass,                           \* what the last turn of the loop compared
  changed,                        \* does wb->cfg differ where cheak_cfg looks
  waited,                         \* turns since the files of the root were compared
  quick                           \* do passes and turns of the loop take no second

cfg == <<root_interval, other_interval>>
vars == <<cfg, wroot, wother, root_count, other_count, polling, pass, changed, waited, quick>>

(***************************************************************************)
(* A counter that has gone past its interval never meets it again, but     *)
(* root_count still counts modulo 5.  These bounds keep just that.         *)
(***************************************************************************)
RootCount(n) == IF n > wroot + 5 THEN wroot + 1 + ((n - wroot - 1) % 5) ELSE n
OtherCount(n) == IF n > wother + 1 THEN wother + 1 ELSE n
Waited(n) == IF n > wother + 1 THEN wother + 1 ELSE n

TypeOK ==
  /\ root_interval \in Seconds /\ other_interval \in Seconds
  /\ wroot \in Seconds /\ wother \in Seconds
  /\ root_count \in 0 .. wroot + 5
  /\ other_count \in 0 .. wother + 1
  /\ polling \in BOOLEAN /\ changed \in BOOLEAN
  /\ pass \in {"none", "root", "full"}
  /\ waited \in 0 .. wother + 1
  /\ quick \in BOOLEAN

(* The seconds that may pass beside the sleep of a turn. *)
Delays(most) == IF quick THEN {0} ELSE 0 .. most

Init ==
  /\ root_interval = DefaultRoot /\ other_interval = DefaultOther
  /\ wroot = DefaultRoot /\ wother = DefaultOther
  /\ root_count = 0 /\ other_count = 0
  /\ polling = FALSE
  /\ pass = "none"
  /\ changed = FALSE
  /\ waited = 0
  /\ quick \in BOOLEAN
-----------------------------------------------------------------------------
(* The administrator *)

(* monitor-folder root-folder, refused above the other interval. *)
SetRoot(s) ==
  /\ s <= other_interval
  /\ root_interval' = s
  /\ UNCHANGED <<other_interval, wroot, wother, root_count, other_count, polling, pass,
                 changed, waited>>

(* monitor-folder other-folder, refused below the root interval. *)
SetOther(s) ==
  /\ s >= root_interval
  /\ other_interval' = s
  /\ UNCHANGED <<root_interval, wroot, wother, root_count, other_count, polling, pass,
                 changed, waited>>

(* no monitor-folder root-folder, never refused. *)
NoRoot ==
  /\ root_interval' = DefaultRoot
  /\ UNCHANGED <<other_interval, wroot, wother, root_count, other_count, polling, pass,
                 changed, waited>>

(* no monitor-folder other-folder, never refused. *)
NoOther ==
  /\ other_interval' = DefaultOther
  /\ UNCHANGED <<root_interval, wroot, wother, root_count, other_count, polling, pass,
                 changed, waited>>

(* A key of the configuration changes, or the server is to be destroyed. *)
ChangeKey ==
  /\ changed' = TRUE
  /\ UNCHANGED <<cfg, wroot, wother, root_count, other_count, polling, pass, waited>>
-----------------------------------------------------------------------------
(* The worker *)

(* update_cfg, connect, and a backup if it is due; then the loop begins.   *)
(* Only here new intervals are taken over.                                 *)
Begin ==
  /\ ~polling
  /\ polling' = TRUE
  /\ wroot' = root_interval /\ wother' = other_interval
  /\ root_count' = 0 /\ other_count' = 0
  /\ pass' = "none"
  /\ changed' = FALSE
  /\ waited' = 0
  /\ UNCHANGED cfg

CheckOnFifth == root_count % 5 = 5
Checks == root_count % 5 # 0

(* cheak_cfg has found a change: the worker leaves the loop. *)
Leave ==
  /\ polling /\ Checks /\ changed
  /\ polling' = FALSE
  /\ pass' = "none"
  /\ UNCHANGED <<cfg, wroot, wother, root_count, other_count, changed, waited>>

Stays == polling /\ ~(Checks /\ changed)

(* All files are compared, and the loop is left. *)
FullPass ==
  /\ Stays
  /\ other_count + 1 = wother
  /\ polling' = FALSE
  /\ pass' = "full"
  /\ waited' = 0
  /\ UNCHANGED <<cfg, wroot, wother, root_count, other_count, changed>>

(* The files of the root are compared.  The seconds that takes count. *)
RootPassResetsBoth ==
  /\ Stays
  /\ other_count + 1 # wother
  /\ root_count + 1 = wroot
  /\ \E delta \in Delays(PassTime) :
       root_count' = RootCount(delta) /\ other_count' = OtherCount(delta)
  /\ pass' = "root"
  /\ waited' = 0
  /\ UNCHANGED <<cfg, wroot, wother, polling, changed>>
RootPassKeepsCount ==
  /\ Stays
  /\ other_count + 1 # wother
  /\ root_count + 1 = wroot
  /\ \E delta \in Delays(PassTime) :
       /\ root_count' = RootCount(root_count + 1 + delta)
       /\ other_count' = OtherCount(other_count + 1 + delta)
  /\ pass' = "root"
  /\ waited' = 0
  /\ UNCHANGED <<cfg, wroot, wother, polling, changed>>
RootPass ==
  /\ Stays
  /\ other_count + 1 # wother
  /\ root_count + 1 = wroot
  /\ \E delta \in Delays(PassTime) :
       /\ root_count' = RootCount(delta)
       /\ other_count' = OtherCount(other_count + 1 + delta)
  /\ pass' = "root"
  /\ waited' = 0
  /\ UNCHANGED <<cfg, wroot, wother, polling, changed>>

(* Nothing is due.  A second may still end between the two readings of the *)
(* clock.                                                                  *)
NoPass ==
  /\ Stays
  /\ other_count + 1 # wother
  /\ root_count + 1 # wroot
  /\ \E delta \in Delays(Tick) :
       /\ root_count' = RootCount(root_count + 1 + delta)
       /\ other_count' = OtherCount(other_count + 1 + delta)
  /\ pass' = "none"
  /\ waited' = Waited(waited + 1)
  /\ UNCHANGED <<cfg, wroot, wother, polling, changed>>
-----------------------------------------------------------------------------
Admin ==
  \/ \E s \in Seconds : SetRoot(s) \/ SetOther(s)
  \/ NoRoot \/ NoOther \/ ChangeKey

Turn == Leave \/ FullPass \/ RootPass \/ NoPass

(* How fast the host is does not change. *)
Next == (Admin \/ Begin \/ Turn) /\ UNCHANGED quick

Spec == Init /\ [][Next]_vars

(* A sleep of one second ends, and the server can be reached. *)
FairSpec ==
  /\ Spec
  /\ WF_vars(Begin /\ UNCHANGED quick)
  /\ WF_vars(Turn /\ UNCHANGED quick)
-----------------------------------------------------------------------------
(* Properties *)

(* The worker notices a key change or a deletion, however long its passes  *)
(* take and however its counters jump: cheak_cfg is only called while      *)
(* root_count is no multiple of 5, and with a root interval of one second  *)
(* it is back at 0 on every turn (core.c:1199-1206, 1224).                 *)
ChangeNoticed == (changed /\ polling) ~> ~polling

(* On a quick host all files are compared again and again                 *)
(* (core.c:1211-1217, core.h:106), unless the worker keeps leaving the     *)
(* loop because of changes.                                                *)
FullPassComes == []<>(~quick \/ pass = "full" \/ changed)

(* The same on any host. *)
FullPassAlwaysComes == []<>(pass = "full" \/ changed)

(* On a quick host the files of the root are compared at least every       *)
(* root_interval turns, by a root pass or by a full one                    *)
(* (core.c:1211-1225, core.h:105).                                         *)
RootPassOnTime == quick => waited <= wroot

(* The root is checked at least as often as the rest: the commands refuse  *)
(* anything else (cli_unix.c:1123, 1169), but going back to a default is   *)
(* not checked.                                                            *)
IntervalOrder == root_interval <= other_interval
=============================================================================
