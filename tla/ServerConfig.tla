---------------------------- MODULE ServerConfig ----------------------------
(***************************************************************************)
(* The configuration of the protected servers, as the commands of          *)
(* cli_unix.c change it, "write" saves it as a file of commands, and       *)
(* "load" or the next start of the process executes that file.             *)
(*                                                                         *)
(* The commands of a file are the commands an administrator types: each is *)
(* accepted or refused by what has been loaded so far, not by what was     *)
(* true when the file was written.  Between two lines main.c may start the *)
(* thread of a server.  How a thread and its memory end is Lifecycle; here *)
(* "no tamper" is one step.                                                *)
(***************************************************************************)
EXTENDS Integers, Sequences, FiniteSets, FiniteSetsExt, SequencesExt

CONSTANTS
  Name,          \* the names of servers
  Seconds,       \* the intervals that are asked for
  DefaultRoot, DefaultOther,   \* DEFAULT_ROOT_INTERVAL, DEFAULT_OTHER_INTERVAL
  Sizes,         \* the sizes "disk-size" is given
  Default,       \* DEFAULT_DISKSIZE
  Total,         \* total_disksize
  Suffix,        \* the extensions that are excluded
  MaxExcluded,   \* bound: the entries of an exclude list
  MaxEdits       \* bound: the commands that are typed

ASSUME ServerConfigAssumption ==
  /\ Seconds \subseteq Nat /\ {DefaultRoot, DefaultOther} \subseteq Seconds
  /\ DefaultRoot <= DefaultOther
  /\ Sizes \subseteq Nat /\ Default \in Sizes /\ Total \in Nat
  /\ MaxExcluded \in Nat /\ MaxEdits \in Nat

VARIABLES
  servers,       \* webserver_listhead, in its order
  cfg,           \* the cfg of each server
  running,       \* the servers main.c has started a thread for
  left_disksize,
  file,          \* conf/cli.conf, a sequence of command lines
  todo,          \* the lines that are still to be loaded
  saved, torn,   \* history: what the last whole write saved, and is the file less?
  mark,          \* history: "boot" or "again" while nothing but that load has acted
  edits

state == <<servers, cfg, left_disksize>>
history == <<saved, torn, mark>>
vars == <<state, running, file, todo, history, edits>>

Config ==
  [connect : {"none", "sftp", "ftp"},       \* "ftp": an address without prtcl_name
   document_root : {"none", "default", "given"},
   depth : {"default", "given"}, file_size : {"default", "given"},
   root_folder : Seconds, other_folder : Seconds,
   exclude : Seq(Suffix),
   restore_mode : BOOLEAN, monitor : BOOLEAN, disk_size : Sizes]

Defaults ==
  [connect |-> "none", document_root |-> "default", depth |-> "default",
   file_size |-> "default", root_folder |-> DefaultRoot, other_folder |-> DefaultOther,
   exclude |-> <<>>, restore_mode |-> FALSE, monitor |-> TRUE, disk_size |-> Default]

Listed == Range(servers)

(* The elements of a list that are in P, in their order. *)
Keep(s, P) == FoldLeft(LAMBDA t, x : IF x \in P THEN Append(t, x) ELSE t, <<>>, s)

Now == [servers |-> servers, cfg |-> cfg]

Init ==
  /\ servers = <<>> /\ cfg = [n \in Name |-> Defaults]
  /\ running = {} /\ left_disksize = Total
  /\ file = <<>> /\ todo = <<>>
  /\ saved = Now /\ torn = FALSE /\ mark = "boot"
  /\ edits = 0
-----------------------------------------------------------------------------
(* Command lines *)

Line(c, n, v) == [cmd |-> c, name |-> n, arg |-> v]

(* Does "tamper n" make a new server? *)
AlwaysNew(n) == n \in Name                     \* faulty: nobody looks for the name
IsNew(n) == n \notin Listed

(* The commands that are answered with an error and change nothing.  A     *)
(* line for a server that is not there is no error, and the parser itself  *)
(* refuses a blank where a name is asked for.                              *)
NoRoom(l) == l.cmd = "tamper" /\ IsNew(l.name) /\ left_disksize < Default
RootTooLong(l) == l.cmd = "root_folder" /\ l.arg > cfg[l.name].other_folder
OtherTooShort(l) == l.cmd = "other_folder" /\ l.arg < cfg[l.name].root_folder
AnySizeGranted(l) == l.cmd = "disk_size" /\ FALSE         \* faulty: nobody compares
TooLarge(l) == l.cmd = "disk_size" /\ l.arg > left_disksize + cfg[l.name].disk_size

Refused(l) ==
  \/ NoRoom(l)
  \/ l.name \in Listed /\ (RootTooLong(l) \/ OtherTooShort(l) \/ TooLarge(l))
  \/ l.cmd = "connect" /\ l.arg = "blank"

(* What a setting is after the command: a suffix joins the list, "monitor" *)
(* is obeyed by a server with a thread only, and "ftp" is not copied to    *)
(* prtcl_name; a depth, a file size, a document root, an address, an       *)
(* interval or the restore mode is what was given.                         *)
Excluded(old, e) == Append(old, e)
Monitored(n, old, option) == IF n \in running THEN option ELSE old
Connected(old, protocol) == IF protocol = "ftp" /\ old = "sftp" THEN old ELSE protocol

NewValue(l) ==
  LET old == cfg[l.name][l.cmd] IN
  CASE l.cmd = "exclude" -> Excluded(old, l.arg)
    [] l.cmd = "monitor" -> Monitored(l.name, old, l.arg)
    [] l.cmd = "connect" -> Connected(old, l.arg)
    [] OTHER -> l.arg

Tamper(l) ==
  /\ l.cmd = "tamper" /\ ~Refused(l) /\ IsNew(l.name)
  /\ servers' = Append(servers, l.name)
  /\ cfg' = [cfg EXCEPT ![l.name] = Defaults]
  /\ left_disksize' = left_disksize - Default

Set(l) ==
  /\ l.cmd # "tamper" /\ ~Refused(l) /\ l.name \in Listed
  /\ cfg' = [cfg EXCEPT ![l.name][l.cmd] = NewValue(l)]
  /\ left_disksize' = IF l.cmd = "disk_size"
                      THEN left_disksize + cfg[l.name].disk_size - l.arg ELSE left_disksize
  /\ UNCHANGED servers

(* "tamper" of a server that is there enters its mode, and nothing else. *)
WithoutEffect(l) ==
  /\ IF l.cmd = "tamper" THEN ~IsNew(l.name) ELSE l.name \notin Listed
  /\ UNCHANGED state

Accept(l) == Tamper(l) \/ Set(l) \/ (~Refused(l) /\ WithoutEffect(l))
-----------------------------------------------------------------------------
(* The administrator's commands.  The CLI thread takes the next one when a *)
(* load is over.                                                           *)
Edits ==
  /\ todo = <<>> /\ edits < MaxEdits
  /\ edits' = edits + 1
  /\ mark' = "none"
  /\ UNCHANGED <<file, todo, saved, torn>>

Settings ==
  [connect |-> {"sftp", "ftp"}, document_root |-> {"default", "given"},
   depth |-> {"default", "given"}, file_size |-> {"default", "given"},
   root_folder |-> Seconds, other_folder |-> Seconds, exclude |-> Suffix,
   restore_mode |-> BOOLEAN, monitor |-> BOOLEAN, disk_size |-> Sizes]

TypeTamper(n) == Edits /\ Tamper(Line("tamper", n, {})) /\ UNCHANGED running

TypeSet(n, s) ==
  /\ Edits
  /\ s = "exclude" => Len(cfg[n].exclude) < MaxExcluded
  /\ \E v \in Settings[s] : Set(Line(s, n, v))
  /\ UNCHANGED running

(* The commands that begin with "no".  That of depth clears the document   *)
(* root too, those of the intervals do not compare them, that of a suffix  *)
(* takes every entry of it.                                                *)
NoConnect(c) == {[c EXCEPT !.connect = "none"]}
NoDocumentRoot(c) == {[c EXCEPT !.document_root = "none"]}
NoDepth(c) == {[c EXCEPT !.depth = "default", !.document_root = "none"]}
NoFileSize(c) == {[c EXCEPT !.file_size = "default"]}
NoInterval(c) ==
  {[c EXCEPT !.root_folder = DefaultRoot], [c EXCEPT !.other_folder = DefaultOther]}
NoExclude(c) == {[c EXCEPT !.exclude = Keep(@, Suffix \ {e})] : e \in Suffix}
NoRestoreMode(c) == {[c EXCEPT !.restore_mode = FALSE]}
NoMonitor(c) == {[c EXCEPT !.monitor = FALSE]}

Unset(n) ==
  /\ Edits /\ n \in Listed
  /\ \E c \in UNION {NoConnect(cfg[n]), NoDocumentRoot(cfg[n]), NoDepth(cfg[n]),
                     NoFileSize(cfg[n]), NoInterval(cfg[n]), NoExclude(cfg[n]),
                     NoRestoreMode(cfg[n]), NoMonitor(cfg[n])} :
       cfg' = [cfg EXCEPT ![n] = c]
  /\ UNCHANGED <<servers, left_disksize, running>>

(* "no disk-size" asks for the default, as "disk-size" would. *)
UnsetSize(n) ==
  /\ Edits /\ Set(Line("disk_size", n, Default))
  /\ UNCHANGED running

NoTamper(n) ==
  /\ Edits /\ n \in Listed
  /\ servers' = Keep(servers, Name \ {n})
  /\ cfg' = [cfg EXCEPT ![n] = Defaults]
  /\ running' = running \ {n}
  /\ left_disksize' = left_disksize + cfg[n].disk_size
-----------------------------------------------------------------------------
(* The other threads *)

(* should_webserver_run *)
ShouldRun(n) == cfg[n].connect = "sftp" /\ cfg[n].document_root # "none"

(* main.c starts the thread of such a server. *)
StartThread(n) ==
  /\ n \in Listed \ running /\ ShouldRun(n)
  /\ running' = running \cup {n}
  /\ UNCHANGED <<state, file, todo, history, edits>>

(* A backup larger than disk_size switches the server off. *)
Exceeded(n) ==
  /\ n \in running /\ cfg[n].monitor
  /\ cfg' = [cfg EXCEPT ![n].monitor = FALSE]
  /\ mark' = "none"
  /\ UNCHANGED <<servers, left_disksize, running, file, todo, saved, torn, edits>>
-----------------------------------------------------------------------------
(* Saving and loading *)

(* The lines of a server in the order of the command tree: what is as by   *)
(* default is left out, but for restore-mode and monitor.  The document    *)
(* root is left out when there is none.                                    *)
Unless(value, l) == IF l.arg = value THEN <<>> ELSE <<l>>

AllLines(n, c, before, after) ==
  LET line(s) == Line(s, n, c[s])
      changed(s) == Unless(Defaults[s], line(s)) IN
  <<Line("tamper", n, {})>>
  \o Unless("none", Line("connect", n, IF c.connect = "ftp" THEN "blank" ELSE c.connect))
  \o Unless("none", line("document_root"))
  \o changed("depth") \o changed(before) \o changed(after) \o changed("file_size")
  \o [i \in 1..Len(c.exclude) |-> Line("exclude", n, c.exclude[i])]
  \o <<line("restore_mode"), line("monitor")>> \o changed("disk_size")

LinesOtherFirst(n, c) == AllLines(n, c, "other_folder", "root_folder")  \* faulty
Lines(n, c) == AllLines(n, c, "root_folder", "other_folder")

Everything(s) ==
  FlattenSeq([i \in 1..Len(s.servers) |-> Lines(s.servers[i], s.cfg[s.servers[i]])])

Write ==
  /\ todo = <<>>
  /\ file' = Everything(Now)
  /\ saved' = Now /\ torn' = FALSE /\ mark' = "none"
  /\ UNCHANGED <<state, running, todo, edits>>

Restart ==
  /\ servers' = <<>> /\ cfg' = [n \in Name |-> Defaults]
  /\ running' = {} /\ left_disksize' = Total
  /\ todo' = file' /\ mark' = "boot"
  /\ UNCHANGED <<saved, edits>>

Stop == UNCHANGED <<file, torn>> /\ Restart

(* "write" empties the file first, and the process may end in the middle. *)
StopInWrite ==
  /\ todo = <<>>
  /\ \E k \in 0..Len(Everything(Now)) : file' = SubSeq(Everything(Now), 1, k)
  /\ torn' = TRUE
  /\ Restart

Lengths(n) == Len(cfg[n].exclude) + Len(SelectSeq(file, LAMBDA l : l.cmd = "exclude" /\ l.name = n))

Load ==
  /\ todo = <<>> /\ file # <<>> /\ \A n \in Name : Lengths(n) <= MaxExcluded
  /\ todo' = file
  /\ mark' = IF saved = Now /\ ~torn THEN "again" ELSE "none"
  /\ UNCHANGED <<state, running, file, saved, torn, edits>>

LoadLine ==
  /\ todo # <<>> /\ Accept(Head(todo))
  /\ todo' = Tail(todo)
  /\ UNCHANGED <<running, file, history, edits>>

(* Whether the parser library goes on after an error, the code does not    *)
(* tell.                                                                   *)
LineRefused ==
  /\ todo # <<>> /\ Refused(Head(todo))
  /\ todo' \in {Tail(todo), <<>>}
  /\ UNCHANGED <<state, running, file, history, edits>>
-----------------------------------------------------------------------------
Next ==
  \/ \E n \in Name :
       \/ TypeTamper(n) \/ NoTamper(n) \/ UnsetSize(n)
       \/ Unset(n) \/ \E s \in DOMAIN Settings : TypeSet(n, s)
       \/ StartThread(n) \/ Exceeded(n)
  \/ Write \/ Stop \/ StopInWrite \/ Load \/ LoadLine \/ LineRefused

Spec == Init /\ [][Next]_vars
-----------------------------------------------------------------------------
(* The lines a file has. *)
Arguments(s) ==
  CASE s = "tamper" -> {{}}
    [] s = "connect" -> {"sftp", "blank"}
    [] OTHER -> Settings[s]

CommandLines ==
  UNION {[cmd : {s}, name : Name, arg : Arguments(s)] : s \in {"tamper"} \cup DOMAIN Settings}

Configuration == [servers : Seq(Name), cfg : [Name -> Config]]

(* The types of the variables; no name is listed twice. *)
TypeOK ==
  /\ Now \in Configuration /\ saved \in Configuration
  /\ IsInjective(servers) /\ IsInjective(saved.servers)
  /\ running \subseteq Listed
  /\ left_disksize \in Int
  /\ file \in Seq(CommandLines) /\ todo \in Seq(CommandLines)
  /\ torn \in BOOLEAN /\ mark \in {"none", "boot", "again"} /\ edits \in 0..MaxEdits

(* What a set of servers has of the disk. *)
Space(c, S) == MapThenSumSet(LAMBDA n : c[n].disk_size, S)

(* No command, refused or not, typed or loaded, creates or loses space, or *)
(* grants more than there is: what the servers have and what is left, an   *)
(* unsigned number, are the whole (cli_unix.c 128-133, 409, 928-933,       *)
(* 1603-1608).                                                             *)
SpaceKept ==
  /\ left_disksize \in 0..Total
  /\ left_disksize + Space(cfg, Listed) = Total

(* Could each line of the saved configuration be accepted at its place?    *)
(* The first servers must leave the default for the next, a root interval  *)
(* must not exceed the default of the others, and nothing may have been    *)
(* cleared that is not cleared by default.                                 *)
RoomInOrder(s) ==
  \A i \in 1..Len(s.servers) :
    Default + Space(s.cfg, {s.servers[j] : j \in 1..(i - 1)}) <= Total

SettingsLoad(s) ==
  \A n \in Range(s.servers) :
    LET c == s.cfg[n] IN
    /\ c.document_root # "none" /\ c.connect # "ftp"
    /\ c.root_folder <= DefaultOther /\ c.root_folder <= c.other_folder

Loadable(s) == RoomInOrder(s) /\ SettingsLoad(s)

(* A configuration whose lines can all be accepted is back after the next  *)
(* start, server for server and in their order, whenever threads are       *)
(* started in between; "monitor disable" alone is up to their timing       *)
(* (cli_unix.c 299-326, 2756-2758).                                        *)
SavedReturns ==
  mark = "boot" /\ todo = <<>> /\ ~torn /\ Loadable(saved) =>
    /\ servers = saved.servers
    /\ \A n \in Listed : [cfg[n] EXCEPT !.monitor = TRUE] = [saved.cfg[n] EXCEPT !.monitor = TRUE]

(* "load" of what is in force changes nothing, but for suffixes that are   *)
(* listed once more (cli_unix.c 328-343).                                  *)
LoadKeeps ==
  mark = "again" =>
    /\ servers = saved.servers
    /\ \A n \in Listed :
         /\ [cfg[n] EXCEPT !.exclude = <<>>] = [saved.cfg[n] EXCEPT !.exclude = <<>>]
         /\ Range(cfg[n].exclude) = Range(saved.cfg[n].exclude)

(* "write" saves the configuration (config.cli 5): every server is back    *)
(* after the next start.  It does not hold: where a server took more than  *)
(* the default from one further down the list, that one finds too little   *)
(* left at its line (cli_unix.c 484).                                      *)
ServersReturn ==
  mark = "boot" /\ todo = <<>> /\ ~torn /\ SettingsLoad(saved) => servers = saved.servers

(* ... and every server that is back is as it was.  It does not hold: a    *)
(* cleared document root comes back as "/", a root interval above the      *)
(* default of the others is refused at its line (1123), "monitor disable"  *)
(* comes before the thread that would obey it (1550).                      *)
SettingsReturn ==
  mark = "boot" /\ todo = <<>> /\ ~torn /\ RoomInOrder(saved) =>
    \A n \in Listed : saved.cfg[n].connect # "ftp" => cfg[n] = saved.cfg[n]

(* A "write" that does not come to its end leaves the servers of the last  *)
(* one.  It does not hold: the file is emptied first (312).                *)
SurvivesWrite ==
  mark = "boot" /\ todo = <<>> /\ torn => Range(saved.servers) \subseteq Listed
=============================================================================
