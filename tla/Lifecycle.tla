------------------------------ MODULE Lifecycle ------------------------------
(***************************************************************************)
(* How protected servers come and go: the commands "tamper NAME" and "no   *)
(* tamper NAME" of the CLI thread (cli_unix.c), the loop of main.c that    *)
(* starts a worker thread for each server that is configured, and the      *)
(* worker's own way through its loop (core.c), which ends in               *)
(* destroy_webserver (util.c).                                             *)
(*                                                                         *)
(* The threads share the list of servers and left_disksize, both under     *)
(* list_mutex, and the webserver_t of each server.  A CLI command looks a  *)
(* server up, lets the mutex go, and works on through the pointer.         *)
(*                                                                         *)
(* What the worker does between two looks at its configuration is Tracking.*)
(***************************************************************************)
EXTENDS Integers, FiniteSets, FiniteSetsExt

CONSTANTS
  Object,        \* bound: the webserver_t that malloc can return, each used once
  NoObject,      \* the null pointer
  Name,          \* the names of servers
  Sizes,         \* the sizes "disk-size" is given
  Default,       \* DEFAULT_DISKSIZE
  Total,         \* total_disksize, what BACKUP_ROOT has to give
  MaxLeft,       \* bound: "no tamper" is not given where it could credit more
  MaxPosts,      \* SEM_VALUE_MAX: sem_post on monitor_wait fails beyond it
  PrepareFails   \* may prepare_webserver fail?

ASSUME LifecycleAssumption ==
  /\ IsFiniteSet(Object) /\ NoObject \notin Object
  /\ Sizes \subseteq Nat
  /\ Default \in Sizes
  /\ Total \in Nat /\ MaxLeft \in Nat /\ Total <= MaxLeft
  /\ MaxPosts \in Nat \ {0}
  /\ PrepareFails \in BOOLEAN

VARIABLES
  life,          \* of each webserver_t: from malloc over the list to free
  name, ready, enable, disksize, destroywb, running,    \* its fields
  monitor_wait, destroy_wait,                           \* its semaphores
  left_disksize,
  dir,           \* the names whose directories exist below BACKUP_ROOT
  main,          \* the server main.c is starting a thread for, holding list_mutex
  worker,        \* where the worker thread of each server is
  wenable,       \* wscfg.enable, the worker's copy
  cli,           \* where the CLI thread is in its current command
  stale,         \* has the CLI used a server that was already freed?
  aborted        \* free() was called twice and has ended the process

cfg == <<name, ready, enable, disksize, destroywb>>
sems == <<monitor_wait, destroy_wait>>
vars == <<life, cfg, running, sems, left_disksize, dir, main, worker, wenable, cli,
          stale, aborted>>

Alive == {o \in Object : life[o] \in {"adding", "listed", "unlisted"}}

Quota == 0 .. MaxLeft

CliAt == {"idle", "adding", "using", "posting", "credit", "branch", "unlist",
          "remove", "waiting"}

WorkerAt == {"none", "born", "top", "destroy", "connect", "paused", "work",
             "remove", "post", "gone", "failed"}

TypeOK ==
  /\ life \in [Object -> {"unborn", "adding", "listed", "unlisted", "freed"}]
  /\ name \in [Object -> Name]
  /\ ready \in [Object -> BOOLEAN] /\ enable \in [Object -> BOOLEAN]
  /\ disksize \in [Object -> Sizes]
  /\ destroywb \in [Object -> BOOLEAN] /\ running \in [Object -> BOOLEAN]
  /\ monitor_wait \in [Object -> 0 .. MaxPosts]
  /\ destroy_wait \in [Object -> 0 .. 1]
  /\ left_disksize \in Quota
  /\ dir \subseteq Name
  /\ main \in Object \cup {NoObject}
  /\ worker \in [Object -> WorkerAt] /\ wenable \in [Object -> BOOLEAN]
  /\ cli \in [at : CliAt, wb : Object \cup {NoObject}]
  /\ stale \in BOOLEAN /\ aborted \in BOOLEAN

Idle == [at |-> "idle", wb |-> NoObject]

(* A fresh process with an empty list. *)
Init ==
  /\ life = [o \in Object |-> "unborn"]
  /\ name \in {[o \in Object |-> n] : n \in Name}
  /\ ready = [o \in Object |-> FALSE]
  /\ enable = [o \in Object |-> TRUE]
  /\ disksize = [o \in Object |-> Default]
  /\ destroywb = [o \in Object |-> FALSE]
  /\ running = [o \in Object |-> FALSE]
  /\ monitor_wait = [o \in Object |-> 0]
  /\ destroy_wait = [o \in Object |-> 0]
  /\ left_disksize = Total
  /\ dir = {}
  /\ main = NoObject
  /\ worker = [o \in Object |-> "none"]
  /\ wenable = [o \in Object |-> FALSE]
  /\ cli = Idle
  /\ stale = FALSE /\ aborted = FALSE
-----------------------------------------------------------------------------
(* Helpers *)

ListMutexFree == main = NoObject

(* The CLI's next step is "place", on the server it is at work on. *)
CliMoves(o, from, to) ==
  /\ cli = [at |-> from, wb |-> o]
  /\ cli' = IF to = "idle" THEN Idle ELSE [at |-> to, wb |-> o]

WorkerMoves(o, from, to) ==
  /\ worker[o] = from
  /\ worker' = [worker EXCEPT ![o] = to]

(* The directories and the memory of a server go.  A second free() of the  *)
(* same memory ends the process.  (In the first form, faulty, directories  *)
(* stay.)                                                                  *)
RemoveMemoryOnly(o) ==
  IF life[o] = "freed"
  THEN aborted' = TRUE /\ UNCHANGED <<life, dir>>
  ELSE /\ life' = [life EXCEPT ![o] = "freed"]
       /\ UNCHANGED <<dir, aborted>>
Remove(o) ==
  IF life[o] = "freed"
  THEN aborted' = TRUE /\ UNCHANGED <<life, dir>>
  ELSE /\ life' = [life EXCEPT ![o] = "freed"]
       /\ dir' = dir \ {name[o]}
       /\ UNCHANGED aborted

(* list_del leaves the entry's own pointers as they are: a second one is   *)
(* without effect, on freed memory it is a use of it.                      *)
Unlist(o) ==
  /\ ListMutexFree
  /\ life' = IF life[o] = "listed" THEN [life EXCEPT ![o] = "unlisted"] ELSE life
  /\ stale' = (stale \/ life[o] = "freed")

(* A field of a freed server may hold anything by now. *)
Read(o, field, values) == IF life[o] = "freed" THEN values ELSE {field[o]}
-----------------------------------------------------------------------------
(* main.c *)

(* pthread_create comes before running = 1, both under list_mutex. *)
StartThread(o) ==
  /\ ListMutexFree
  /\ life[o] = "listed" /\ ready[o] /\ ~running[o]
  /\ WorkerMoves(o, "none", "born")
  /\ main' = o
  /\ UNCHANGED <<life, cfg, running, sems, left_disksize, dir, wenable, cli, stale, aborted>>

MarkRunning ==
  /\ main # NoObject
  /\ running' = [running EXCEPT ![main] = TRUE]
  /\ main' = NoObject
  /\ UNCHANGED <<life, cfg, sems, left_disksize, dir, worker, wenable, cli, stale, aborted>>
-----------------------------------------------------------------------------
(* The worker thread *)

(* prepare_webserver sets the mutex and both semaphores up, whoever waits  *)
(* on them already.  If it fails the thread ends, and running stays set.   *)
Prepare(o) ==
  /\ ListMutexFree
  /\ \/ /\ WorkerMoves(o, "born", "top")
        /\ monitor_wait' = [monitor_wait EXCEPT ![o] = 0]
        /\ destroy_wait' = [destroy_wait EXCEPT ![o] = 0]
     \/ /\ PrepareFails
        /\ WorkerMoves(o, "born", "failed")
        /\ UNCHANGED sems
  /\ UNCHANGED <<life, cfg, running, left_disksize, dir, main, wenable, cli, stale, aborted>>

(* The top of the loop: update_cfg under list_mutex. *)
UpdateCfgIfEnabled(o) ==
  /\ ListMutexFree
  /\ \E d \in Read(o, destroywb, BOOLEAN), e \in Read(o, enable, BOOLEAN) :
       /\ WorkerMoves(o, "top", IF d /\ e THEN "destroy" ELSE "connect")
       /\ wenable' = [wenable EXCEPT ![o] = IF d THEN @ ELSE e]
  /\ UNCHANGED <<life, cfg, running, sems, left_disksize, dir, main, cli, stale, aborted>>
UpdateCfg(o) ==
  /\ ListMutexFree
  /\ \E d \in Read(o, destroywb, BOOLEAN), e \in Read(o, enable, BOOLEAN) :
       /\ WorkerMoves(o, "top", IF d THEN "destroy" ELSE "connect")
       /\ wenable' = [wenable EXCEPT ![o] = IF d THEN @ ELSE e]
  /\ UNCHANGED <<life, cfg, running, sems, left_disksize, dir, main, cli, stale, aborted>>

(* protocol_connect fails and is tried again, or the loop goes on. *)
Connect(o) ==
  /\ \/ WorkerMoves(o, "connect", "top")
     \/ WorkerMoves(o, "connect", IF wenable[o] THEN "work" ELSE "paused")
  /\ UNCHANGED <<life, cfg, running, sems, left_disksize, dir, main, wenable, cli, stale, aborted>>

(* sem_wait(&wb->monitor_wait) of a worker that is switched off. *)
Resume(o) ==
  /\ WorkerMoves(o, "paused", "top")
  /\ monitor_wait[o] > 0
  /\ monitor_wait' = [monitor_wait EXCEPT ![o] = @ - 1]
  /\ UNCHANGED <<life, cfg, running, destroy_wait, left_disksize, dir, main, wenable, cli,
                 stale, aborted>>

(* Backup, polling and restore; a backup that is larger than disksize      *)
(* switches the server off.                                                *)
Work(o) ==
  /\ WorkerMoves(o, "work", "top")
  /\ enable' \in {enable, [enable EXCEPT ![o] = FALSE]}
  /\ UNCHANGED <<life, name, ready, disksize, destroywb, running, sems, left_disksize, dir,
                 main, wenable, cli, stale, aborted>>

DestroyUnlistsAndPosts(o) ==
  /\ WorkerMoves(o, "destroy", "remove")
  /\ Unlist(o)
  /\ destroy_wait' = [destroy_wait EXCEPT ![o] = 1]
  /\ UNCHANGED <<cfg, running, monitor_wait, left_disksize, dir, main, wenable, cli, aborted>>
DestroyUnlists(o) ==
  /\ WorkerMoves(o, "destroy", "remove")
  /\ Unlist(o)
  /\ UNCHANGED <<cfg, running, sems, left_disksize, dir, main, wenable, cli, aborted>>

DestroyRemoves(o) ==
  /\ WorkerMoves(o, "remove", "post")
  /\ Remove(o)
  /\ UNCHANGED <<cfg, running, sems, left_disksize, main, wenable, cli, stale>>

(* sem_post comes after free(wb): it still reaches the one who waits       *)
(* there, or it is lost.                                                   *)
PostDestroyed(o) ==
  /\ WorkerMoves(o, "post", "gone")
  /\ destroy_wait' \in {destroy_wait, [destroy_wait EXCEPT ![o] = 1]}
  /\ UNCHANGED <<life, cfg, running, monitor_wait, left_disksize, dir, main, wenable, cli,
                 stale, aborted>>
-----------------------------------------------------------------------------
(* The CLI thread: tamper NAME *)

NameNotAsked(n) == TRUE
NameIsFree(n) == \A o \in Object : life[o] = "listed" => name[o] # n

(* A server of that name is not there and the space is enough: its memory, *)
(* its defaults and its directories are made, and its space is taken.      *)
Tamper(o, n) ==
  /\ cli = Idle /\ ListMutexFree
  /\ life[o] = "unborn" /\ NameIsFree(n)
  /\ left_disksize >= Default
  /\ life' = [life EXCEPT ![o] = "adding"]
  /\ name' = [name EXCEPT ![o] = n]
  /\ left_disksize' = left_disksize - Default
  /\ dir' = dir \cup {n}
  /\ cli' = [at |-> "adding", wb |-> o]
  /\ UNCHANGED <<ready, enable, disksize, destroywb, running, sems, main, worker, wenable,
                 stale, aborted>>

AddToList(o) ==
  /\ CliMoves(o, "adding", "idle") /\ ListMutexFree
  /\ life' = [life EXCEPT ![o] = "listed"]
  /\ UNCHANGED <<cfg, running, sems, left_disksize, dir, main, worker, wenable, stale, aborted>>
-----------------------------------------------------------------------------
(* The CLI thread: no tamper NAME *)

(* The server is looked up and marked without list_mutex. *)
NoTamper(o) ==
  /\ cli = Idle /\ life[o] = "listed"
  /\ \A s \in Sizes : left_disksize + s <= MaxLeft
  /\ destroywb' = [destroywb EXCEPT ![o] = TRUE]
  /\ cli' = [at |-> "credit", wb |-> o]
  /\ UNCHANGED <<life, name, ready, enable, disksize, running, sems, left_disksize, dir, main,
                 worker, wenable, stale, aborted>>

(* Its space is given back, whoever gave it back before. *)
Credit(o) ==
  /\ CliMoves(o, "credit", "branch") /\ ListMutexFree
  /\ \E s \in Read(o, disksize, Sizes) : left_disksize' = left_disksize + s
  /\ stale' = (stale \/ life[o] = "freed")
  /\ UNCHANGED <<life, cfg, running, sems, dir, main, worker, wenable, aborted>>

(* running is read without list_mutex: main.c may be about to set it. *)
Branch(o) ==
  /\ \E r \in Read(o, running, BOOLEAN) : CliMoves(o, "branch", IF r THEN "waiting" ELSE "unlist")
  /\ stale' = (stale \/ life[o] = "freed")
  /\ UNCHANGED <<life, cfg, running, sems, left_disksize, dir, main, worker, wenable, aborted>>

(* uninit_webserver_cfg *)
UninitUnlists(o) ==
  /\ CliMoves(o, "unlist", "remove")
  /\ Unlist(o)
  /\ UNCHANGED <<cfg, running, sems, left_disksize, dir, main, worker, wenable, aborted>>

UninitRemoves(o) ==
  /\ CliMoves(o, "remove", "idle")
  /\ Remove(o)
  /\ UNCHANGED <<cfg, running, sems, left_disksize, main, worker, wenable, stale>>

WaitEnds(o) ==
  /\ CliMoves(o, "waiting", "idle")
  /\ destroy_wait[o] > 0
  /\ destroy_wait' = [destroy_wait EXCEPT ![o] = @ - 1]
  /\ UNCHANGED <<life, cfg, running, monitor_wait, left_disksize, dir, main, worker, wenable,
                 stale, aborted>>

(* sem_timedwait gives up after 120 seconds; the command is over. *)
WaitForever(o) == FALSE /\ UNCHANGED vars
WaitTimesOut(o) ==
  /\ CliMoves(o, "waiting", "idle")
  /\ UNCHANGED <<life, cfg, running, sems, left_disksize, dir, main, worker, wenable,
                 stale, aborted>>
-----------------------------------------------------------------------------
(* The CLI thread: the commands of a server's own mode.  Each looks its    *)
(* server up under list_mutex and works on it without.                     *)
Lookup(o) ==
  /\ cli = Idle /\ ListMutexFree /\ life[o] = "listed"
  /\ cli' = [at |-> "using", wb |-> o]
  /\ UNCHANGED <<life, cfg, running, sems, left_disksize, dir, main, worker, wenable, stale,
                 aborted>>

Uses(o) == CliMoves(o, "using", "idle") /\ life[o] # "freed"

(* "connect ..." gives should_webserver_run all it asks for, "no connect"  *)
(* takes it away.                                                          *)
SetConnect(o) ==
  /\ Uses(o)
  /\ ready' = [ready EXCEPT ![o] = ~@]
  /\ UNCHANGED <<life, name, enable, disksize, destroywb, running, sems, left_disksize, dir,
                 main, worker, wenable, stale, aborted>>

NoMonitor(o) ==
  /\ Uses(o)
  /\ enable' = [enable EXCEPT ![o] = FALSE]
  /\ UNCHANGED <<life, name, ready, disksize, destroywb, running, sems, left_disksize, dir,
                 main, worker, wenable, stale, aborted>>

(* "monitor enable" and "monitor disable" do nothing to a server that has  *)
(* no worker thread yet.                                                   *)
MonitorEnableOnly(o) ==
  /\ running[o] /\ Uses(o)
  /\ enable' = [enable EXCEPT ![o] = TRUE]
  /\ UNCHANGED <<life, name, ready, disksize, destroywb, running, sems, left_disksize, dir,
                 main, worker, wenable, stale, aborted>>
MonitorEnable(o) ==
  /\ life[o] # "freed" /\ running[o]
  /\ CliMoves(o, "using", "posting")
  /\ enable' = [enable EXCEPT ![o] = TRUE]
  /\ UNCHANGED <<life, name, ready, disksize, destroywb, running, sems, left_disksize, dir,
                 main, worker, wenable, stale, aborted>>

PostMonitor(o) ==
  /\ CliMoves(o, "posting", "idle")
  /\ IF life[o] = "freed" THEN stale' = TRUE /\ UNCHANGED sems
     ELSE /\ monitor_wait' = [monitor_wait EXCEPT ![o] = IF @ < MaxPosts THEN @ + 1 ELSE @]
          /\ UNCHANGED <<destroy_wait, stale>>
  /\ UNCHANGED <<life, cfg, running, left_disksize, dir, main, worker, wenable, aborted>>

MonitorDisable(o) ==
  /\ Uses(o)
  /\ enable' = [enable EXCEPT ![o] = @ /\ ~running[o]]
  /\ UNCHANGED <<life, name, ready, disksize, destroywb, running, sems, left_disksize, dir,
                 main, worker, wenable, stale, aborted>>

(* "disk-size" and "no disk-size": the old size is given back, the new one *)
(* taken, if both together are enough.                                     *)
DiskSize(o) ==
  /\ Uses(o)
  /\ \E s \in Sizes :
       /\ s <= left_disksize + disksize[o]
       /\ left_disksize + disksize[o] - s <= MaxLeft
       /\ left_disksize' = left_disksize + disksize[o] - s
       /\ disksize' = [disksize EXCEPT ![o] = s]
  /\ UNCHANGED <<life, name, ready, enable, destroywb, running, sems, dir, main, worker,
                 wenable, stale, aborted>>

(* Any of these commands on a server that is gone by now: it reads and     *)
(* writes freed memory, "disk-size" with it left_disksize.                 *)
UseFreed(o) ==
  /\ CliMoves(o, "using", "idle") /\ life[o] = "freed"
  /\ stale' = TRUE
  /\ \E old, new \in Sizes :
       /\ new <= left_disksize + old /\ left_disksize + old - new <= MaxLeft
       /\ left_disksize' = left_disksize + old - new
  /\ UNCHANGED <<life, cfg, running, sems, dir, main, worker, wenable, aborted>>
-----------------------------------------------------------------------------
MainStep == MarkRunning \/ \E o \in Object : StartThread(o)

WorkerStep(o) ==
  \/ Prepare(o) \/ UpdateCfg(o) \/ Connect(o) \/ Resume(o) \/ Work(o)
  \/ DestroyUnlists(o) \/ DestroyRemoves(o) \/ PostDestroyed(o)

(* A new command, which the administrator may give or not. *)
Command(o) == (\E n \in Name : Tamper(o, n)) \/ NoTamper(o) \/ Lookup(o)

(* The rest of a command. *)
CliStep(o) ==
  \/ AddToList(o)
  \/ Credit(o) \/ Branch(o) \/ UninitUnlists(o) \/ UninitRemoves(o)
  \/ WaitEnds(o) \/ WaitTimesOut(o)
  \/ SetConnect(o) \/ NoMonitor(o) \/ MonitorEnable(o) \/ PostMonitor(o)
  \/ MonitorDisable(o) \/ DiskSize(o) \/ UseFreed(o)

Next ==
  /\ ~aborted
  /\ \/ MainStep
     \/ \E o \in Object : WorkerStep(o) \/ Command(o) \/ CliStep(o)

Spec == Init /\ [][Next]_vars

(***************************************************************************)
(* Every thread that can run does: main.c sleeps a second at a time, the   *)
(* worker's calls return, and so do the CLI's.  A worker polls only until  *)
(* it takes its configuration again.  No command has to be given.          *)
(***************************************************************************)
FairSpec ==
  /\ Spec
  /\ WF_vars(~aborted /\ MainStep)
  /\ \A o \in Object :
       WF_vars(~aborted /\ WorkerStep(o)) /\ WF_vars(~aborted /\ CliStep(o))
-----------------------------------------------------------------------------
(* Properties *)

(* No two servers on the list have the same name (cli_unix.c:477-511):     *)
(* every command would only ever find the first.                           *)
UniqueNames ==
  \A o, p \in Object :
    life[o] = "listed" /\ life[p] = "listed" /\ name[o] = name[p] => o = p

(* Directories below BACKUP_ROOT belong to a server that still exists:     *)
(* both ways to delete a server take them along (util.c:304,               *)
(* cli_unix.c:77).                                                         *)
NothingLeftBehind == dir \subseteq {name[o] : o \in Alive}

(* The command "no tamper" is told that a server is gone only when it is:  *)
(* destroy_wait is posted after destroy_webserver (core.c:1078-1080),      *)
(* whatever prepare_webserver did to the semaphore in between.             *)
PostedWhenGone == \A o \in Object : destroy_wait[o] > 0 => life[o] = "freed"

(* No wake-up is lost: a worker that sleeps although monitoring is on      *)
(* again has a post of monitor_wait waiting for it, or on its way          *)
(* (cli_unix.c:1551-1554, core.c:1129-1133, util.c:245).                   *)
NoLostResume ==
  \A o \in Object :
    worker[o] = "paused" /\ enable[o] /\ life[o] # "freed" =>
      monitor_wait[o] > 0 \/ cli = [at |-> "posting", wb |-> o]

(* "no tamper" always comes back to the prompt, whatever the worker does   *)
(* or does not do (cli_unix.c:417-423).                                    *)
CommandsEnd == (cli.at # "idle") ~> (cli.at = "idle" \/ aborted)

(* A server marked for deletion goes, unless its worker is switched off or *)
(* has failed to prepare (core.c:1075-1081, cli_unix.c:412).               *)
DeletedUnlessPaused ==
  \A o \in Object :
    destroywb[o] ~> (life[o] = "freed" \/ worker[o] \in {"paused", "failed"} \/ aborted)

(* webtamper.cli says of "no tamper" that it deletes a tamper server: one  *)
(* that is marked goes (cli_unix.c:415).  A worker that is switched off    *)
(* sleeps on monitor_wait, which "no tamper" does not post.                *)
NoTamperDeletes == \A o \in Object : destroywb[o] ~> (life[o] = "freed" \/ aborted)

(* left_disksize is what is left of total_disksize (main.c:46-47): with    *)
(* the space of the servers it never makes more than the whole.  "no       *)
(* tamper" gives the space back each time it is given for a server that    *)
(* does not go.                                                            *)
QuotaKept == left_disksize <= Total

(* Nor less: what is left and what the servers have make up the whole      *)
(* (main.c:46-47), as long as no command has read the size of a freed      *)
(* server.  Between the two halves of "no tamper" the space of the server  *)
(* is on its way back.  A server that was given up by "no tamper" but did  *)
(* not go yet can be made larger, and that space is never given back.      *)
Returning == {o \in Object : cli = [at |-> "credit", wb |-> o]}
SpaceNotLost ==
  ~stale => left_disksize + MapThenSumSet(LAMBDA o : disksize[o], Alive \cup Returning) >= Total

(* destroy_wait is a field of the server that says it is destroyed         *)
(* (core.h:145); the server it is posted on still has its memory.          *)
PostedOnLiveServer == \A o \in Object : worker[o] = "post" => life[o] # "freed"

(* running says whether the thread of a server has been created            *)
(* (core.h:122); a server that is freed because it has none has none.      *)
NoThreadOnFreed ==
  \A o \in Object :
    life[o] = "freed" => worker[o] \in {"none", "post", "gone", "failed"}

(* A server on the list has its directories, until it is destroyed itself  *)
(* (util.c:280 destroys "the tamper server", cli_unix.c:136-154 makes      *)
(* them).  The old worker of a server of the same name removes them.       *)
ServerHasDir == \A o \in Object : life[o] = "listed" => name[o] \in dir

(* "monitor disable" switches monitoring off (swebtamper.cli:64-65), also  *)
(* for a server that is being configured and has no thread yet.            *)
DisableObeyed == [][\A o \in Object : ~aborted /\ MonitorDisable(o) => ~enable'[o]]_vars
=============================================================================
