# Verification of the web anti-tamper daemon

The daemon protects web sites on remote servers. For each configured web
server a worker thread takes a backup of the site over a protocol plug-in
(SFTP), compares the site with the backup again and again, records every
difference, and restores the site or takes the accepted changes into the
backup. An administrator configures it, and decides about the differences, in a
command line interface (CLI) that runs in a thread of the same process.

This directory holds TLA+ modules that model the daemon, TLC configurations
that check them on small instances, and proofs of the most important facts for
every instance. `PROJECT.json` lists the runs, the theorems, a mutant of the
code for each property, the hazards, and for each definition the lines it
models. Paths below are relative to `src/`.

Contents: 1 the system · 2 the modules and the plan · 3 how the models
correspond to the code · 4 the runs · 5 fairness · 6 the proofs · 7 where the
program does not do what it says · 8 what is not modelled.

## 1. The system

| part | source | state | operations |
|---|---|---|---|
| worker | `core.c`, `util.c` | its place, `fulbak`, `incbak`, a copy of the configuration (`wscfg`), the directory tree and the hash of nodes, `backupsize`, `changednum`, `isbackuped` | `update_cfg`, connect, pause, full download, root pass, full pass, restore, commit, clean, destroy |
| tamper records | `svn.c` | three stores (`svn`, `man_restore`, `man_reserve`), each three lists and a hash | add, copy, get, delete, move, empty |
| backup tree | `tree.c`, `hash.c` | nodes with size, time, md5, `touched`; hash entries that point to nodes | add, update, delete, look up |
| walks | `list_files`, `walk_dirtree`, `stack.c` | a stack of directories still to be listed, `backupsize`, `totalnum` | count, download, compare |
| CLI | `cli/linux/cli_unix.c` | the list of web servers, their configuration, `left_disksize`, `conf/cli.conf` | one handler per command; `write`, `load` |
| main | `main.c` | `running` of every server | starts workers, loads the configuration |
| log | `log.c` | log file, its semaphore | write, rotate |
| reports | `tamperlog.c`, `util.c` | `isstored` of each record, `changed` and `last_version` of each store, one client of the log server | write a row, reconnect |
| SFTP plug-in | `protocol_sftp.c` | a libssh2 session | connect, open, read, write, list, set attributes, remove |
| digests | `md5.c`, `3des.c` | none | md5 of a file, encryption of the password |

**How they interact.** The CLI and the workers share the list of servers under
`list_mutex` (not everywhere), and the stores of a server under its `wbmutex`
(not everywhere: emptying them takes no lock). `monitor_wait` wakes a paused worker, `destroy_wait` tells the
CLI that a worker has gone. The CLI writes the configuration without a lock; a
worker copies it under `list_mutex` at the top of its loop and reads some flags
of the shared one in between. All threads log through one semaphore. The
configuration file is a list of CLI commands, executed at the next start while
`main.c` already starts threads.

**What is hard.** Commands and passes interleave at every lock. The mode, the
acceptance flag and the configuration a worker goes by are copies. Listings,
reads, writes and downloads fail half way, and most results are not looked at.
Intervals are counted, not timed. Records live through mode changes, pauses and
re-configuration. Servers are freed while another thread holds a pointer to
them. A record may be about a directory, and another about something below it.
The site changes while it is walked over, and what a walk that was given up has
left behind is there when the next one begins. Modification times are whole
seconds, which many writes share. The stores are emptied while a command moves
records between them. A report is sent by one step and
noted by another, and what it is about moves on between the two.

**What makes each part correct**, in short (section 4 has the properties):

- records: a difference is recorded once, is in one store, and leaves it only
  when it was undone or accepted; its action fits the backup as long as it waits;
- worker: compares and restores only with a backup to go by; finds and undoes
  lasting changes; the decision of the administrator is the only way into the
  backup;
- backup: tree, hash and disk tell the same; a restore never makes the site
  worse; a commit takes over what was chosen and nothing else;
- walks: meet what is there all the time, in any order, and end; nothing a
  broken-off walk leaves is taken for tampering, or hides it for good; nothing is
  stored that does not fit the space there is;
- reports: a record is reported once, and its restore under the same version;
- transfers: no transfer leaves other content under the backup's size and time,
  unless somebody wrote it with just these;
- clock: both intervals are kept, changes of the configuration are noticed;
- servers: one per name, nothing left behind, no lost wake-up, every command
  comes back;
- configuration: space is accounted for, what is saved comes back;
- log: stays below its limit, never blocks a thread for good.

`PROJECT.json` has, under `hazards`, each place in the code where one of these
could go wrong without a test noticing, with the properties that are about it.

## 2. The modules and the plan

| module | models | kind |
|---|---|---|
| `RecordStores` | the operations on the stores (`svn.c`) | operators |
| `Tracking` | one worker, the CLI's tamper commands and the site | state machine; EXTENDS `RecordStores` |
| `TamperPolicy` | what `Tracking` promises about a file | abstract specification, instantiated by `Tracking` |
| `Reporting` | `Tracking` with the rows sent to the log server | composition; EXTENDS `Tracking`, shown to implement it |
| `TreeWalk` | `list_files`, its stack, `walk_dirtree`, walks that break off | state machine |
| `Baseline` | tree, hash and disk of a backup with directories | state machine |
| `FileSync` | one file's content, block by block | state machine |
| `PollClock` | the counters of the polling loop | state machine |
| `Lifecycle` | servers and their threads, from `tamper` to `no tamper` | state machine |
| `ServerConfig` | settings, `write`, `load`, restart | state machine |
| `LogFile` | the log file with rotation | state machine |
| `MC*` | values for model checking, one per state machine | |
| `TrackingProofs` (with `RecordStores` and `Reporting`), `TreeWalkProofs`, `BaselineProofs`, `FileSyncProofs`, `PollClockProofs`, `LifecycleProofs`, `ServerConfigProofs`, `LogFileProofs` | theorems | one per state machine |

`Tracking` is the core: it has the threads, their locks and the life of the
records, over files of which only "same as the backup or not" is known.
Around it, each of the other modules opens what `Tracking` takes as one step or
one value: `TreeWalk` a pass and a download, `Reporting` the section of a
restore, `Baseline` the shape of the tree, `FileSync` a transfer, `PollClock`
the choice of the next pass, `Lifecycle` the beginning and end of the worker,
`ServerConfig` the configuration it copies. Each assumes no more of the others
than what they are checked for; where one is a simplification of another's
subject, section 3 says which.

The order of the plan, most important first, and where it stands:

1. records and worker: `RecordStores`, `Tracking`, `TamperPolicy` - done, with
   refinement, proofs of the type invariant, of all state invariants and of the
   refinement;
2. servers: `Lifecycle` - done, with proofs of all its invariants;
3. clock and log: `PollClock`, `LogFile` - done, with proofs of their invariants;
4. walks and reports: `TreeWalk`, `Reporting` - done, with proofs of all their
   properties but liveness, and of `Reporting` implementing `Tracking`;
5. backup and transfers: `Baseline`, `FileSync` - done, with proofs of all their
   properties but liveness;
6. configuration: `ServerConfig` - done, with proofs of all its properties;
7. to come, model: a `FileSync` of which a transfer of `Tracking` is the abstract
   step, stated as a refinement, so that "same" and "edited" are defined by
   content, size and time in one place; two servers that share `left_disksize`
   and the log; the session of the plug-in with directories and removal;
8. to come, proofs: that refinement, step by step; what is left of the space with
   two servers and their threads (`ServerConfig` and `Lifecycle` each have a part).

## 3. How the models correspond to the code

### RecordStores and Tracking

A store is the pair of an `svn_t`'s three lists and its hash. `AddRecords`,
`DelNodes` and `AddNodes` are `svn_add_record`, `svn_del_node` and
`svn_add_node` over a set of paths; both halves are updated each by itself, as
in the code, and that they agree is a property (`Agrees`). Order of the lists,
times and version numbers of log rows are left out.

`Tracking` has two threads and the site. `worker.at` is the place in
`worker_thread` (core.c 1019-1266): `top` (`UpdateCfg`), `clean` and the three
places inside `clean_webserver` after it (`Cleaning`), `connect`,
`paused` (the `sem_wait` of 1133), `download`, `poll`, `root`, `full`,
`restore` (the restore inside the loop) and `last` (the one after it).
`increment` stands for the branch of 1139; no action leads there, see section 7.
`cli.at` is the place of the CLI in a command: `waiting` for `wbmutex`, `locked`
inside, `committing` between the move and the setting of `iscomit`, `undefined`
after it has used a freed record or raced with `clean_webserver` for a list.

| action | code |
|---|---|
| `UpdateCfg`, `Connect`, `ConnectFails`, `Resume` | core.c 1066-1137 |
| `CleanTree`, `CleanSvn`, `CleanRestore`, `CleanReserve` | `clean_webserver` (util.c 257-277), one store after the other, without a lock |
| `Download`, `DownloadExceeds` | core.c 582-594, 1174-1190; `Fetch` is what either has stored when it ends |
| `PollTick`, `PollStops`, `PollSeesKeyChange` | core.c 1195-1245 without the passes |
| `RootPass`, `FullPass`, `FullPassCut` | `compare_file` under `wbmutex`, whole or with a listing that broke off |
| `RestorePass` = `AutoRestore`, `ManRestore` or `ManRestoreAndCommit` | core.c 847-877 |
| `RestoreMode`, `NoRestoreMode`, `RestoreTamper...`, `ClearTamper...`, `ViewTamperFilename`, `Monitor...`, `KeyChange`, `ClearTamperFileCommits`, `Lock`, `Unlock` | the handlers of cli_unix.c, cut where they take or let go the mutex |
| `TakeRecord`, `PutRecord` | `svn_del_node`, `svn_add_node`, record by record (svn.c 127-207) |
| `MoveFreedRecord`, `MoveRaces` | a pointer to a freed record is used; the CLI and `clean_webserver` change the same list at once |
| `SiteChange` | anybody on the web server |

**The clean beside a move.** `clean_webserver` takes no lock, so that it may fall
anywhere into a command. What a command has in `hand`, between `TakeRecord` and
`PutRecord`, is in no store and survives it; so does what a command moves from a
store not yet emptied to one that is. `stray` is history: the records the CLI
held or took while the stores were emptied, as long as they are there. Properties
that such records break say so by leaving `stray` out, which bounds what can be
left behind; that nothing is left (`CleanLeavesNothing`) is false, section 7.
`aim` is the record a command has looked up, or the next one that the loop of
`svn_copy_record` has read before it moves the present one; when it is freed the
command goes on with a dangling pointer, and from there on nothing is followed.
Where the two threads really change one list at the same time the code has a data
race: each such step may go well, as in the other actions, or lead to `undefined`
(`MoveRaces`).

**A download that exceeds the disk size** stops at any file. The files before it
stay on the disk, in the tree and in the hash, with `isbackuped` 0, and the next
download adds to them: a file that has a node already gets another one, which the
hash does not find. `second` holds these; what they do to later passes
(each of which takes them for deleted) is in the model.

A file on the site is `absent`, `same` or `edited`. The model assumes: paths are
regular files of which no name begins another's (directories and names are
`Baseline`'s); a pass under `wbmutex` is one step, and so is a download (nobody
else may look, and the site changes that fall into a transfer are `FileSync`'s,
those that fall into a walk `TreeWalk`'s); malloc succeeds. `vague` holds nodes
that do not describe the copy in the backup: those filled from a file that had
already gone, where `protocol_get_stat` fails, its result is not looked at, and
size and time of the node are arbitrary, and those of files of which a second
download brought a newer copy. Faults are chosen by the constant `Faults`:
listings that break off, writes that fail, a disk that is full.

`TamperPolicy` is what remains of this for somebody who only sees records and
backup. Each file is untracked, reported, restoring, accepted, or in the hand of
the administrator on the way to one of these (deciding, returning). The backup is
being made (in several goes, if need be), made, or being discarded, when records
are forgotten kind by kind but for those in `kept`. The refinement maps a store,
or the hand, to a phase, the places of `clean_webserver` to the stage, `stray` to
`kept`, and the existing nodes to the files backed up.

### Reporting

`Reporting` adds to `Tracking` what happens inside the section of a restore pass
(core.c 1231-1260), which `Tracking` takes as one step. `section` is the place in
it: `BeginSection` takes `wbmutex`, `CheckRow` is a turn of `webtamper_log` with
`"check"`, `Restore` is `Tracking`'s `RestorePass`, `RestoreRow` a turn with
`"arestore"` or `"mrestore"`, `EndSection` is `svn_commit` and the unlock. The CLI
may set its flags in between, and moves records when the mutex is free. `stored`
holds the records with `isstored` set, `changed` is `svn.changed`; of
`last_version` only is known whether a row that was written has the present one
(`said`). `Delivered` is `log_send` with its first write, its attempts at a
connection and its second write; the log server, and the client's library, are
known by their answers only. `moved` is history: records that were taken out of
`svn` by the CLI.

### TreeWalk

A path is a sequence of names, a listing a set of entries. `at` is the place of
the worker, `count`, `download`, `root` and `full` being the four calls of
`list_files`; one action opens and lists one directory (`CountsDir`,
`DownloadsDir`, `ComparesDir`), pushing the directories it finds in any order,
because a listing has none. The site changes between two of them. `Gone` is a
directory that cannot be opened any more, `BreaksOff` this or any other failure,
with what each caller makes of it; `DownloadExceeds` is the one failure that the
caller of a download knows. `nodes` counts the nodes a path has, since a second
download adds a second one while the hash keeps the first. `PassEnds` is
`walk_dirtree`. `SetDiskSize` is `disk-size` and `no disk-size`, which set
`cfg.disksize` to anything at any time, also below `backupsize`; `HasSpace` reads
it at each file. Sizes are 1 for each file, and 0 for a directory: `large` stands
for a file over `maxfilesize` or with a suffix that is left out. Restores and
commits just drop records here. A call of `list_files` that breaks off leaks its
stack (core.c 528, 536); memory is not modelled.

### Baseline

A path is a sequence of names. `nodes`, `opened` and `hash` are `wb->dirtree`
(a node for each path; a directory is in `opened` once its list of children is
allocated) and `wb->dirhash` (for each entry the path it was made under and the
path of the node it points to); `disk` is what is below `local_root`.
`SelfNode` is `dir_get_self_node` with each of its early returns, `Begins` is the
prefix comparison of `dir_cmp_fun2`, and `Downloaded` goes through the records of
a commit as `inc_download_file` does: all additions, then all deletions in the
hash and on the disk, then all deletions in the tree. `Pass`, `AutoRestore`,
`ManRestore`, `ManCommit`, `Rebackup` and `RestoreMode` are one step each:
passes are whole, the contents of files and failures are left to the other
modules, two nodes of one path count as one, and the records that are accepted
together are taken in the order of their list. `Intact` guards every action:
once a hash entry points to a freed node, what the program does is undefined
and not followed.

### FileSync

The data of the file, of the backup below `local_root` and of the copy below
`change_root` are sequences of blocks; a modification time is a whole second, of
which only equality matters. The owner's `Edit` leaves any content under any time:
that of another write in the same second, or an older one that was set. `hidden`
is history: whether the last write left the size and time that the worker goes by
(`Unnoticed`: those of the node or, while it reads, of the listing), so that no
comparison can tell. The properties about differences leave such a write out; without
that they are false (`AlwaysVisible`, section 7). `stat` is the listing
the worker goes by and `offset` the blocks transferred, so that a download is
`ListForBackup`, `BackupBlock`..., `BackupEnds`, and `Edit` may fall
in between, wherever the constant `EditsAt` allows. `copy` and its end are
`compare` (core.c 279-367), `restore`, `upload` and `setstat` are
`restore_file`, `adopt` is `inc_download_file`. A read that fails looks like the
end of the file, an open for writing that fails is not noticed, and
`sftp_set_stat` sets the size with the time. Digests are taken as equal when
contents are. In the passing run the owner does not write during an upload or
before its `setstat`: section 7 shows what happens otherwise. `WritesArrive` in
`FileSyncProofs` is that condition for every value of the constants.

### PollClock

`root_count` and `other_count` with the constants of the loop, core.c 1192-1245.
A turn is one sleep; a root pass takes up to `PassTime` seconds and any turn may
lose `Tick` seconds between the two readings of the clock. The model is finite
because a counter that has passed its interval is capped, keeping its value
modulo 5, which is all the code still looks at. `quick` is a host whose passes
take no second; it is chosen once.

### Lifecycle

A `webserver_t` goes from `unborn` over `adding`, `listed` and `unlisted` to
`freed`; each is used once, so that a pointer to a freed one can be told from a
new server. The CLI is one thread and `cli.at` is its place between two accesses
to shared state; `main` is the server for which `main.c` holds `list_mutex`
between `pthread_create` and `running = 1`. What a thread reads of freed memory
may be anything (`Read`), what it writes there is lost, and `stale` remembers
that it happened; a second `free()` ends the process (`aborted`). A worker whose
server is freed goes on with the fields as they were. `Work` stands for the
whole loop of `Tracking`. `sem_post` on `monitor_wait` has no effect beyond
`MaxPosts`, which is `SEM_VALUE_MAX`.

### ServerConfig

A setting is a field of `Config`; those that have no condition are represented
by `file_size` (description, mail address and the like). `Refused` is what a
handler answers with an error, `NewValue` what it stores, `Unset` the commands
beginning with `no`. `Lines` are the lines `write` prints for a server, in the
order of the command tree and leaving defaults out, each setting a list of one
line or none (`Unless`); `Restart` begins with an
empty list and executes them one by one (`LoadLine`, `LineRefused`), while
`StartThread` may fall between two lines. An address without a protocol
name (`connect ftp ...`) is printed with a blank in its place. Whether the
parser, a library, goes on after a line that was refused is left open: both are
allowed. A saved password is taken to decrypt to what it was, deletions come to
their end at once (they are `Lifecycle`'s), and `monitor-file-size` is taken as a
number (the code multiplies by 1024 into an `int`, which overflows from
2097152 KB on).

### LogFile

A file is its length. A writer holds the semaphore from `Enter` on and goes
through the rotation step by step: `CopyTail`, `Truncate`, `CopyBack`,
`RemoveTmp`, `Append`; each call may fail, and `Restart` may fall anywhere. A
line is written whole or not at all, `remove()` succeeds. Nothing ever comes
back of the temporary file, because its position is at its end (`Quiet` in
`LogFileProofs`); so the write of line 275 never happens and has no failure.

## 4. The runs

`tlc -config MCx_run.cfg MCx`, with two workers, takes from seconds to about
three minutes each. Eleven runs pass; one shows a disagreement (section 7).

**moves** (`MCTracking`; two files, one in the root, the commands that move
records, show them or set the mode, no faults; 3.2 million states). `CliKeepsRecords`: no step of a command loses
a record, neither between `svn_del_node` and `svn_add_node` nor because the target
store knows the path. `ForgottenOnlyInSync`: a record goes only when its file is as
in the backup again, or its change was accepted and is in the backup.
`FullPassReports`: after a whole pass each difference has a record. Two files
suffice for everything that relates two records (one moved, one not; one in a root
pass, one not): the operators treat paths pointwise.

**faults** (one file; every command but `restore-mode` and `view`, so moves of one
record and of a whole store, pauses, key changes at any moment of a move, listings
that break off, failing writes, a disk that is full at any file; 1.4 million states). `OneStore`: a record is in one store or in the hand, there on one list and
in the hash. `BackupFirst`: no pass without a backup, no backup over a whole one, and
`clean_webserver`, which takes no lock, leaves no record but those the CLI held or
took while it ran. `RecordsFitBackup`: what is to be removed is not in the backup,
what is to be written is, these records excepted. `KeepsPolicy`: `Tracking`
implements `TamperPolicy`.

**reports** (`MCReporting`; one file, mode commands, rows that get lost, listings
that break off any number of times; 95 000 states). `ReportedOnce`: a record has
one check row, wherever it is moved and however often it is found again.
`RowsPair`: the row that says it was restored has the version of that row, unless
the administrator moved the record. `ReportedEventually`: a record that stays in
`svn` is reported. `DetectedEventually`: a lasting difference is recorded, if full
passes come again and again. `RestoredEventually`: a record is restored in the mode
that is set, although the worker goes by a copy of it, if it leaves its loop again
and again. Both conditions are part of the properties, because the counters do not
guarantee them (**jumped**). The last two are `Tracking`'s, checked where a
section takes many steps. Pausing is left out, as the worker then rightly does
nothing. One file is enough: rows of different records share only the version,
which `changed` stands for.

**walk** (`MCTreeWalk`; two directories, a file in one and one in the root, two
changes of the site, two disk sizes, set at any time; 730 000 states). `WalkMeets`: a walk that ends has met what was there all the time, and
nothing that never was. `NoFalseDelete`: no pass reports what was there all the
time as deleted unless it has two nodes. `ReportedAtLast`: what the mark of a
broken-off pass hid from a whole full pass is reported by the next.
`BackupFits`: a file is stored only if all that is stored with it is below the disk
size of that moment, and all of it is counted, also when a download was given up
and begun again and whatever the size was set to in between. `WalkEnds`: each walk ends. Two
directories are what the order of a stack needs, depth 2 is the least at which a
root pass and a full pass differ; two changes are one during a walk and one
between two, or a directory that goes and comes back.

**backup** (`MCBaseline`; six paths: two directories `d` and `e`, a directory `e`
in `d`, and a file in `d`, in `d/e` and in `e`; two changes of the site, any
number of passes, restores, commits and mode changes). The names are chosen so
that a lookup that goes wrong finds another node of the same name. `TypeOK` (no
path is recorded twice). `RecordsStayFit`, `RestoreHelps`: records fit the backup
until a commit takes a directory from above one, and a restore of fitting records
leaves alone what is right already, also when the site changed after the pass.
`CommitAdopts`: a commit of paths that are not below one another takes over
exactly these and keeps tree, hash and disk in agreement; its conditions are
those without which section 7 has counterexamples. `NoNamesake` looks at the
recorded paths too: one that the same commit adds loses its hash entry like any
other when its name begins with that of a deleted one. Within the bounds of the
run the shorter condition, on the nodes alone, would do; the proof shows it is
too weak. `AutoReturns`: as long as full passes go on, which is the premise of the
property and no fairness of the specification, the site becomes the backup again
in the automatic mode although a child may be put back before its directory. Two changes let one fall between two passes and one
between a pass and the restore; the run was also done with three (231 000 states).

**copies** (`MCFileSync`; two blocks of two values, two writes of the owner, one
failing read or attribute call, three times; 1.4 million states). `Visible`: between two passes a
difference is recorded or looks suspicious to the next pass, unless it was written
with the size and second the worker goes by. `PassesJudge`:
what a pass decides, that a file has changed or that it has not, is right as long
as its listing is still true when it decides and nobody wrote around it.
`SiteReturns`: automatic restore brings the content back for good, as long as passes
over the file go on. Two writes are
one before and one within a transfer; three blocks give nothing new, as a
transfer treats each block alike. Three times let one be that of the node, one
that of a listing and one neither.

**clock** (`MCPollClock`; intervals of 1 to 12 seconds around the 5 the code
checks by, passes of up to 7 seconds). `RootPassOnTime`, `FullPassComes`: on a
quick host both intervals are kept. `ChangeNoticed`: on any host a change of the
configuration is noticed, although it is only looked for when `root_count` is no
multiple of 5 and `root_count` starts again at every root pass.

**lifecycle** (`MCLifecycle`; two servers of one name, one size, every command,
`prepare_webserver` may fail). `UniqueNames`, `NothingLeftBehind` (each directory
belongs to a server that exists), `PostedWhenGone`, `NoLostResume`. Two servers
of one name are what a late deletion can confuse. The two are interchangeable,
hence the symmetry; no liveness is checked under it.

**endings** (one server, two sizes). `CommandsEnd`: every command comes back to
the prompt. `DeletedUnlessPaused`: a server marked for deletion goes, unless its
worker sleeps or has never been prepared. Deadlock is not checked in runs of
`MCLifecycle`: an aborted process, and one that has used all its servers, stop.

**config** (`MCServerConfig`; two servers, three typed commands, sizes of a half,
one and one and a half defaults in a space of two). `SpaceKept`: what is left and
what the servers have make up the whole, after any command, typed or loaded,
refused or accepted. `SavedReturns`: a configuration of which each line can be
accepted at its place is back after the next start, whenever threads start in
between. `LoadKeeps`: loading what is in force changes nothing but the number of
times a suffix is listed. Three commands reach a setting on each of two servers;
the run was also done with four (4.3 million states).

**rotation** (`MCLogFile`; two threads, lines of 1 and 3 bytes, a limit of 8, a
restart at any step while the temporary file has at most 8 bytes).
`NotUnderestimated`: `cur_fsize` is never below the size of the file.
`LogBounded`: the file stays below its limit. `WritersReturn`: a thread that logs
comes back unless a write has failed. Deadlock is not checked, because after a
failed write all threads do wait for good.

**jumped** is the run that ends with a violation. Type invariants that are proved
(section 6) are not checked by the runs as well; `Baseline`'s, which says that no
path is recorded twice, is.

Bounds: `MaxMoves`, `MaxEdits`, `MaxFaults`, `MaxExcluded`, `MaxPosts`, `MaxTmp`,
`MaxLeft`, `Commands`, `Lengths`, `Seconds` and `Object` are named where they are
declared. `Modulus` 1 or 2 keeps `changednum` out of runs that are not about it.

## 5. Fairness

- `Tracking`: the worker's steps are weakly fair: it never stops by itself, and
  its calls return. The CLI finishes a command it began, but need not begin one.
  Strong fairness where the worker waits for `wbmutex`: the CLI thread waits for
  its user between two commands, so the mutex is free for long. `Connect` and a
  whole `FullPass` are strongly fair: a server that can be reached and listed
  again and again is reached and listed at last.
- **Full passes are not assumed to recur**, in any module: the counters guarantee
  them to a quick host only, and **jumped** shows a host that has none any more
  (core.c:1211, :1229). A property that needs them says so as its premise:
  `[]<>(worker.at = "full")` in `DetectedEventually`, `[]<>(worker.at = "top")` in
  `RestoredEventually` (`Tracking`, `Reporting`), `WF_vars(Pass(AllLevels))` in
  `AutoReturns` (`Baseline`), `[]<>(at # "poll")` in `SiteReturns` (`FileSync`).
  `FullPassComes` of `PollClock` says for which hosts the premise is met.
- `PollClock`: a sleep of a second ends, and the server can be reached.
- `Lifecycle`: every thread that can run does; no command has to be given.
- `LogFile`: a writer whose calls succeed goes on; a waiting thread is not passed
  over for ever at the semaphore, because threads sleep or wait for the network
  between two lines.
- `Reporting`: as `Tracking`, with the steps inside a section among the worker's
  and `BeginSection` among those that wait for `wbmutex`; a call of the log client
  comes back, with or without success.
- `TreeWalk`: a walk goes on (`WalkProceeds`): a call to the server comes back,
  with or without an answer. Nothing makes the site keep still: a walk ends
  because its depth is bounded.
- `Baseline`: an automatic restore that is due is made. `FileSync`: a transfer that
  was begun goes on. Nothing is asked of the site or of its owner.

## 6. The proofs

TLAPS checks these for every value of the constants: any set of files, servers,
threads or intervals, any order of steps. The assumptions are the named `ASSUME`s
of the modules; TLC evaluates them in the runs.

| theorem | says | argument |
|---|---|---|
| `AddRecordsAgrees`, `AddNodesResult` | the operators of `RecordStores` keep lists and hash in agreement | expansion of the operators, list by list |
| `TypeCorrect` | `TypeOK` of `Tracking` | inductive by itself |
| `RecordsInOneStore` | `OneStore` | inductive with `TypeOK` and `HandInv` (the CLI has a record in hand only while it holds the mutex, or is undefined): a pass runs when the hand is empty and adds only what no store knows; a move takes out before it puts in, and what is in the hand is in no store; the clean only empties |
| `BackupComesFirst` | `BackupFirst` | inductive with `OneStore` and `CleanInv`: while the stores are emptied one by one, what is in the hand and in those already empty is in `stray`. `worker.fulbak` is what keeps the increment out |
| `RecordsFit` | `RecordsFitBackup` | inductive with all of the above: a pass makes fitting records, a commit changes nodes only of paths in `man_reserve`, which by `OneStore` have no other record, and empties it; a download, whole or not, runs when there are only records in `stray` |
| `MovesLoseNothing` | `CliKeepsRecords` | a step of a move puts each record it takes out of a store into the hand, and from there into another; by `OneStore` it adds to a store that does not know the path. It holds beside `clean_webserver` too, whose steps are the worker's |
| `ForgottenWhenSettled` | `ForgottenOnlyInSync`, if no write fails and the disk is not full | what `restoreTamper` or `commitTamper` drops, it has written: the restored file is as in the backup, the accepted one is in the backup by `RecordsFitBackup` |
| `WholePassReports` | `FullPassReports`, if every listing is whole | no node has a mark when a pass begins (`NoMarks`), so that the pass judges each file by what it met |
| `ImplementsPolicy` | `Tracking` implements `TamperPolicy` | `PolicyInv` is the conjunction of these with what the phases are in terms of the stores (`PhaseInv`); each action of `Tracking` maps to an action of the policy or to a stutter, the four steps of the clean to `Discard` and `Forget` |
| `ImplementsTracking` | `Reporting` implements `Tracking` | each step is one of `Tracking` or leaves its variables alone, so that the theorems about `Tracking` hold of `Reporting` |
| `RowsInvariant`, `RowsComeOnce`, `RowsGoTogether` | `ReportedOnce`, `RowsPair` | with `TypeOK`, `HandInv` and `OneStore` of `Tracking`, `ReportingInv`: a record has a check row exactly when `isstored` is set or its restore row is still to come, every record outside of `svn` has been moved (`RowInv`); a section keeps the CLI from moving any, so that it ends with the records it began with (`SectionInv`) |
| `WalkInvariant`, `WalksMeetAll`, `DeletedWasNotLasting` | `TypeOK`, `WalkMeets`, `NoFalseDelete` of `TreeWalk` | `WalkInv`: each entry that has been there since the walk began was met or is below a directory on the stack (`CoverInv`); what is on the stack is within the depth (`ScopeInv`); what a pass has met and the hash has is touched (`NodesInv`). When the stack is empty only "was met" remains |
| `MissedIsReported` | `ReportedAtLast` | `MissedInv`: what a whole full pass did not report has no mark any more |
| `BackupsFit` | `BackupFits` | `CountInv`, inductive with `WalkInv`: what is stored is counted, as a download stores only what it has counted and a cleaned backup has nothing; a file is stored only by `DownloadsDir` and `DownloadExceeds` (`StoredByDownload`), which have compared the count with the size of that step |
| `TypeCorrect` of `BaselineProofs` | `TypeOK` of `Baseline` | `Shaped` is kept by each record of a commit: a node gets under a directory that is a path, which has its list of children from then on |
| `RecordsKeepFitting` | `RecordsStayFit` | a pass records what is not in the backup as added and what is as deleted, each once; a commit takes nodes away only below a deleted path |
| `RestoringHelps` | `RestoreHelps` | what a restore removes is at or below an added record or above nothing that fits, what it puts back is a deleted one's |
| `CommitsAdopt` | `CommitAdopts` | `Agreeing`: tree, hash and disk stay in agreement through the three rounds of a commit, record by record; as long as every directory is there, the lookup finds the node of the path and no other (`SelfNodeFinds`) |
| `FileTypes` | `TypeOK` of `FileSync` | inductive; a transfer stops at the length of what it reads |
| `PassesAreRight` | `PassesJudge` | `CopyInv`: what is downloaded is what the file has up to `offset`, unless the file has another size or time than the listing, or its last write was `hidden`. Nothing is assumed of times but that there are some |
| `DifferencesStayVisible` | `Visible`, if `WritesArrive` | `VisibleInv`: a difference shows unless the last write was `hidden`; while a restore uploads, the site has what was uploaded so far and nothing else; before its `setstat` the whole file. Without `WritesArrive` it is false, section 7 |
| `TypeCorrect` of `ServerConfigProofs` | `TypeOK` of `ServerConfig`: what is saved and what is still to be loaded are commands with arguments the parser takes | inductive; the lines of a server are such commands (`ServerLinesTyped`) |
| `SpaceIsKept` | `SpaceKept` | inductive with `TypeOK`: the space of a set of servers is that of one and that of the others (`SpaceFacts`), and each command changes one |
| `LoadingKeeps` | `LoadKeeps` | `FileIsSaved`: a file that was written to its end is what was saved; `Again`: while a load of what is in force goes on, each line that is left says what is so |
| `ConfigurationReturns` | `SavedReturns` | `SavedFits`: what was saved needs no more than the whole space, by `SpaceKept` when it was written; `Returning`: after a start the lines that are left lead from what is in force to what was saved. It holds at a start because the whole file leads there from nothing (`EverythingReplays`): in the order of the list and of the command tree each line is accepted at its place, which is what `Loadable` says of the first servers' space and of the intervals |
| `LifecycleTypes` | `TypeOK` of `Lifecycle`, `left_disksize` above zero with it | `TypeInv` adds that a pending credit fits |
| `NamesAreUnique` | `UniqueNames` | `NamesInv` includes the server about to be added, whose name no one else can take, the CLI being one thread |
| `PostsComeLast` | `PostedWhenGone` | `PostInv` adds that a worker about to post has freed its server |
| `ResumesAreKept` | `NoLostResume` | `ResumeInv` extends it to the worker that has read `enable` and not yet gone to sleep |
| `DirsHaveServers` | `NothingLeftBehind` | inductive with `BirthInv` (a server being added is the CLI's, threads exist for listed servers only) |
| `ClockTypes`, `RootOnTime` | `TypeOK`, `RootPassOnTime` of `PollClock` | `RootInv`: while a quick host polls, `root_count` is below its interval and no less than the turns waited |
| `LogTypes`, `SizeCounted`, `LogStaysBounded` | `TypeOK`, `NotUnderestimated`, `LogBounded` | `LogInv`: one thread is inside (`Guarded`), the temporary file has nothing left to read (`Quiet`), the count is no less than the file and fits, at most half of the limit after a cut (`Counted`) |

Each proof has the form Init => Inv, Inv /\ [Next]_vars => Inv', Inv => property,
with a step for each action.

**Lists of any length.** A commit, a restore and a lookup in `Baseline`, and the
file of `ServerConfig`, are folds over lists. An induction theorem that takes a
predicate is of no use to the prover, but one about a set is: `SetNatInduction`
(a set of naturals with 0 and the successors of its members has them all) follows
from the library's theorem that strict inclusion of finite sets is well-founded.
With it `FoldExists` and `SeqFoldExists` show that the functions exist which
the community modules' folds choose, and a lemma for each fold (`KeepSteps`,
`SearchSteps`, `FlattenSteps`, `SpaceSteps` ...) reads it as a sequence of states
`h[0]`, `h[1]`, ..., about which `StepInduction` proves what each step keeps. The
lines of a file are executed by actions, not by a fold; `Replays` says that a list
of lines leads from one state to another by such a sequence too, and is put
together for one line, a setting, a server and a file.

**What the proofs found.** Three definitions were changed where a proof could not be
had. `CommitAdopts` was false beyond the bounds of its run: a commit that adds
`ab` and deletes the file `a`, while the site has already lost `ab`, takes the
entry of `ab` out of the hash again; `NoNamesake` now looks at what is recorded as
well. `PathsAssumption` says that a path stays one when a name in its middle is
left out, because a lookup that goes on past a name it did not find
(tree.c 76-92) puts a node where that path is. And `TypeOK` of `Baseline` needs
its last conjunct on `opened` to be inductive. In `ServerConfig` the lists of
suffixes are bounded where they are typed, no longer in the types.

**Only model-checked** are the liveness properties, which, like `ENABLED`, the
prover does not do: `AutoReturns`, `SiteReturns`, `WalkEnds`, the `...Eventually`
of `reports`, `FullPassComes`, `ChangeNoticed`, `CommandsEnd`,
`DeletedUnlessPaused`, `WritersReturn`. Every other property of a passing run has
its theorem, `ForgottenOnlyInSync`, `FullPassReports` and `Visible` under the
conditions named in the table, which their runs have as well.

## 7. Where the program does not do what it says

One run is listed as a finding.

- **jumped** (core.c:1211). `other_interval` is the polling time of the other
  directories (include/core.h:106). `other_count` is compared with it by `==`,
  and the seconds of a root pass are added to it at core.c:1229, so it may jump
  over the interval. Then no full pass comes, until a change of the configuration
  makes the worker leave the loop.

The following properties are defined with the others and do not hold either; each
configuration gives a trace (where several share one, they are to be checked one
at a time; those of `MCReporting_reports` and `MCTracking_faults` in place of the
properties of the run).

| property, configuration | code | what is said | what happens |
|---|---|---|---|
| `ChangednumCounts`, `MCTracking_changednum` | core.c:859, :817 | core.h:133 `changednum`, number of files tampered with | a manual restore lowers it by the records it restored, a commit sets it to 0 while other records remain, and it is unsigned |
| `NoFreedRecord`, `MCTracking_freed` | cli_unix.c:1684 | the record that was looked up is the one that is moved | it is looked up without `wbmutex`; a restore frees it before the CLI has the mutex |
| `CleanLeavesNothing`, `MCTracking_faults` | util.c:257 | `clean_webserver` clears the content of a server (util.c:252) | it takes no lock: a record the CLI has taken out of `svn` (svn.c:140, cli_unix.c:1687) is put back after the stores were emptied, and is about a backup that is gone |
| `IncrementAfterPause`, `MCTracking_increment` | core.c:1139 | the comment: incremental backup after a pause | `fulbak` starts at 1 and is never reset (`//fulbak = 0`, core.c:1072): the branch is never taken, and what changed during the pause counts as tampering |
| `ClearedEventually`, `MCTracking_cleared` | cli_unix.c:1912 | `clear-tamper all` takes all records away | `iscomit` is set before the records are moved: a pass in between uses the flag up, and the records wait for the next command |
| `AskedRestoreHappens`, `MCTracking_asked` | core.c:847 | `restore-tamper all` restores | in automatic mode the records go to `man_restore`, which that mode never looks at |
| `ForgottenOnlyInSync`, `MCTracking_writefail` | core.c:803 | as in section 4 | with failing writes a record goes although nothing was written |
| `NoTamperDeletes`, `MCLifecycle_pauseddelete` | cli_unix.c:415 | webtamper.cli:5 "delete a tamper" | a worker that is switched off sleeps on `monitor_wait`, which `no tamper` does not post |
| `QuotaKept`, `MCLifecycle_counterexamples` | cli_unix.c:409 | main.c:47 `left_disksize`, the space that is left | `no tamper` gives the space back each time it is given for a server that has not gone yet |
| `SpaceNotLost`, same | cli_unix.c:1606 | same | a server that was given up and has not gone can be made larger; that space is never given back |
| `PostedOnLiveServer`, same | core.c:1080 | core.h:145 | the semaphore is posted after its memory was freed |
| `NoThreadOnFreed`, same | main.c:341 | core.h:122 `running`, whether the thread was created | it is set after the thread was created: `no tamper` in between frees the server of a running thread |
| `ServerHasDir`, same | util.c:304 | util.c:280 destroys the server | directories are removed by name after the server left the list: a new server of that name loses its own |
| `DisableObeyed`, same | cli_unix.c:1550 | swebtamper.cli:64 | `monitor disable` does nothing to a server without a thread, so not to one that is being loaded |
| `IntervalOrder`, `MCPollClock_order` | cli_unix.c:708 | the commands refuse a root interval above the other (:1123, :1169) | going back to a default is not checked |
| `RotationKeepsHalf`, `MCLogFile_halflost` | log.c:273 | log.c:270: what the temporary file has is written back to the log | it is read from its end: nothing comes back, the rotated half is lost |
| `LookupAnswers`, `MCBaseline_lookup` | tree.c:76 | tree.c:36-38: the node of the path, or NULL | a name that is not found does not end the lookup: below another directory of the same name another node is returned |
| `Intact`, `MCBaseline_dangling` | core.c:783 | a hash entry points to a node | as a consequence a commit frees a node whose entry stays in the hash |
| `RestoreNeverHarms`, `MCBaseline_namesake` | tree.c:339 | as `RestoreHelps` | the hash loses all paths that begin with the path that went: the next pass takes a neighbour for new, and a restore removes it from the site |
| `MarkIsTrue`, `MCTreeWalk_counterexamples` | core.c:1188 | the mark file is "1" when the backup is done | a download that breaks off counts as a whole one: its result is only compared with `ERROR_EXCEED_TOTALDISKSIZE`. What was not downloaded is then reported as added, and an automatic restore removes it |
| `NeverFalseDelete`, same | core.c:1184 | `walk_dirtree` records what has gone | a download that exceeds the disk size leaves its nodes; the next one adds second nodes, which the hash does not find and no pass touches: each is reported as deleted |
| `DeletedWasAway`, same | core.c:554 | same | a file that grows to `maxfilesize` is skipped by the comparison and reported as deleted |
| `BackupBelowDisk`, same | cli_unix.c:1603 | include/core.h:108 `disksize`, the disk size of the server | `disk-size` and `no disk-size` are accepted whatever is stored already, also below it |
| `NoneUnreported`, `MCReporting_reports` | core.c:1241 | what is restored was reported | only `svn` is reported: a record the CLI moves before the next section gets its "mrestore" row without a "check" row |
| `OneVersion`, same | svn.c:261 | rows of a record have one version | the version is that of the store when the row is written: a record that was moved out of `svn`, over an automatic restore, and back again has its rows under two versions, as has one restored from `man_restore`, whose version never grows |
| `LostAgain`, same | util.c:679 | a row is written when the server is there again | `isstored` is set whatever came of the row |
| `RestoredAsLogged`, `MCFileSync_unnoticed` | core.c:828 | util.c:708 "File [%s] has been %s successfully" | the size and time of the backup are set on the server whatever became of the write (protocol_sftp.c:449 sends the size with the time): a file that could not be opened for writing keeps its content, its record goes, and `compare` never looks at it again |
| `Visible` with `EditsAt <- Places`, `MCFileSync_masked` | core.c:828 | as in section 4 | a write of the owner during an upload is hidden by the attributes set after it |
| `NoticesAfterCommit`, `MCFileSync_counterexamples` | tree.c:244 | as `PassesJudge` | a commit renews size and time of a node and not its digest: the content from before the commit passes as unchanged |
| `AlwaysVisible`, same | core.c:591, :322 | as `Visible` | a write between listing and reading that leaves the size and the second of the listing, or one that sets them, is what the node says already: no pass looks at it |
| `RestoreSettles`, same | core.c:591 | once nobody writes there is nothing to restore | a write between listing and reading leaves node and file at different sizes: each pass restores what the next finds changed |
| `ServersReturn`, `MCServerConfig_counterexamples` | cli_unix.c:484 | config.cli:5 "save config" | a server that took more than the default leaves too little for the line of the next |
| `SettingsReturn`, same | cli_unix.c:1123, :681, :1550 | same | a root interval above the default of the others is refused at its line, a cleared document root comes back as `/`, `monitor disable` comes before the thread |
| `SurvivesWrite`, same | cli_unix.c:312 | same | the file is emptied before it is written |

Met on the way, without a property: the help of `no disk-size` (swebtamper.cli:73)
says 50M where `DEFAULT_DISKSIZE` is 200; `sftp_open_dir`
(protocol_sftp.c:204) returns before it opens anything, so that with the plug-in as
it stands no listing succeeds; `sftp_rm_dir` (protocol_sftp.c:400) goes on for
ever when a directory cannot be read; `dir_update_node` comes before the old size is
subtracted (core.c:747-749), so that `backupsize` does not change with an update.
The modules model core.c against the interface of protocol.h.

## 8. What is not modelled, and why

- **Show and view commands** change nothing. That they read records without the
  mutex is the hazard of `NoFreedRecord`.
- **`send_detect_log` and syslog**: the rows of `tamper_log_temp_table` only say
  that something was found, and when; syslog repeats the rows of `Reporting`.
- **The number of files** (`totalnum`, `backupnum`) is printed only; `TreeWalk`
  knows whether it is 0, which is when the count is made again.
- **`md5.c`, `3des.c`**: functions of one argument; digests are equal when contents
  are, passwords decrypt to what they were.
- **`main.c` before its loop**: a sequence of steps each of which ends the process
  when it fails.
- **Connecting, removal and directories of the SFTP plug-in**: one call each to a
  library; a call fails or succeeds in `Tracking`, succeeds in `Baseline`.
- **A download that is given up and begun again** is `Tracking`'s (`second`) and
  `TreeWalk`'s; `Baseline` starts from a whole one, and has one node for each path.
- **Data races** are a choice between the outcomes of the steps one after the other
  and `undefined`, after which nothing is said of the process (`Tracking`).
- **`backupsize`** is in `TreeWalk` for a full download; that a commit exceeds
  `disksize` is left open in `Tracking` and `Lifecycle`.
- **Memory**: every `malloc` succeeds, what is leaked is not counted.
- **Generated parser tables and the build.** Their order is the order of the lines
  in `ServerConfig`.
