------------------------------ MODULE FileSync ------------------------------
(***************************************************************************)
(* How the content of one protected file travels between the web server    *)
(* and the backup, block by block: the download and the upload of core.c   *)
(* over the calls of protocol_sftp.c, the comparison by size, time and     *)
(* digest, and the restore.                                                *)
(*                                                                         *)
(* Module Tracking takes a transfer as one step and says of a file only    *)
(* how it looks to a comparison.  This module opens these steps: a listing *)
(* is older than the blocks that are read after it, a call may fail in the *)
(* middle, and the owner of the site may write in between.                 *)
(***************************************************************************)
EXTENDS Integers, Sequences

CONSTANTS
  Block,       \* what a block of 1024 bytes can hold
  Zero,        \* the block a file is filled with when its size is raised
  NoCopy,      \* not data: there is no copy below change_root
  MaxBlocks,   \* bound: the blocks of a file
  Time,        \* modification times, in whole seconds; only whether two are equal matters
  MaxEdits,    \* bound: how often the owner writes
  MaxFaults,   \* bound: how many calls fail
  Faults,      \* which of "open", "read", "write", "setstat", "stat" may fail
  EditsAt      \* where the worker may be when the owner writes

Data == UNION {[1..n -> Block] : n \in 0..MaxBlocks}
Stat == [filesize : 0..MaxBlocks, mtime : Time]
Places == {"empty", "backup", "poll", "copy", "restore", "upload", "setstat", "adopt"}

ASSUME FileSyncAssumption ==
  /\ Zero \in Block /\ NoCopy \notin Data
  /\ MaxBlocks \in Nat /\ MaxEdits \in Nat /\ MaxFaults \in Nat
  /\ Time # {}
  /\ Faults \subseteq {"open", "read", "write", "setstat", "stat"}
  /\ EditsAt \subseteq Places

VARIABLES
  site,        \* the file on the server: its data and mtime
  local,       \* the file below local_root
  changed,     \* the copy of a tampered file below change_root
  node,        \* the file's node: filesize, mtime and what md5_value was taken of
  recorded,    \* is there an update record of the file
  auto,        \* wscfg.isautorestore
  at,          \* where the worker is
  stat,        \* the listing or the attributes the worker goes by
  offset,      \* the blocks transferred so far
  edits, faults,
  hidden       \* history: the owner's last write looks like what the worker goes by

worker == <<at, stat, offset>>
vars == <<site, local, changed, node, recorded, auto, worker, edits, faults, hidden>>

AttributesOf(file) == [filesize |-> Len(file.data), mtime |-> file.mtime]
Attributes == AttributesOf(site)

Fails(call) == call \in Faults /\ faults < MaxFaults /\ faults' = faults + 1

Go(place) == at' = place /\ offset' = 0

Init ==
  /\ site \in [data : Data, mtime : Time]
  /\ local = [data |-> <<>>, mtime |-> site.mtime]
  /\ changed = NoCopy
  /\ node = [filesize |-> 0, mtime |-> site.mtime, md5 |-> <<>>]
  /\ recorded = FALSE
  /\ auto \in BOOLEAN
  /\ at = "empty" /\ stat = [filesize |-> 0, mtime |-> site.mtime] /\ offset = 0
  /\ edits = 0 /\ faults = 0 /\ hidden = FALSE
-----------------------------------------------------------------------------
(* compare() looks at the size, then at the time. *)
Suspect(s) == s.filesize # node.filesize \/ s.mtime # node.mtime

(* A write with these attributes goes unnoticed: they are those of the      *)
(* listing whose blocks are being read, or of the node.                     *)
Unnoticed(s) ==
  \/ at \in {"backup", "copy", "adopt"} /\ s = stat
  \/ at \notin {"backup", "adopt"} /\ ~Suspect(s)

(* The owner of the site, or anybody else, writes the file, or only touches *)
(* it.  The time is that of the clock, which another write of the same      *)
(* second has too, or any that the owner sets.                              *)
Edit(d, t) ==
  /\ edits < MaxEdits /\ at \in EditsAt
  /\ site' = [data |-> d, mtime |-> t]
  /\ edits' = edits + 1
  /\ hidden' = Unnoticed(AttributesOf(site'))
  /\ UNCHANGED <<local, changed, node, recorded, auto, worker, faults>>
-----------------------------------------------------------------------------
(* write_file_to_local: blocks are read where the file has them by now,    *)
(* until there are no more or a call fails; neither is told from the       *)
(* other.  "file" is the copy so far.                                      *)
ReadBlock(file, new) ==
  /\ offset < Len(site.data)
  /\ new = Append(file, site.data[offset + 1])
  /\ offset' = offset + 1
  /\ UNCHANGED <<at, faults>>

ReadEnds ==
  \/ offset >= Len(site.data) /\ UNCHANGED faults
  \/ Fails("read")
-----------------------------------------------------------------------------
(* The full backup: list_files meets the file, and downloads it.           *)
ListForBackup ==
  /\ at = "empty"
  /\ stat' = Attributes
  /\ local' = [local EXCEPT !.data = <<>>]
  /\ hidden' = FALSE
  /\ Go("backup")
  /\ UNCHANGED <<site, changed, node, recorded, auto, edits, faults>>

BackupBlock ==
  /\ at = "backup"
  /\ \E new \in Data : ReadBlock(local.data, new) /\ local' = [local EXCEPT !.data = new]
  /\ UNCHANGED <<site, changed, node, recorded, auto, stat, edits, hidden>>

(* Size and time of the node and the time of the local file are those of   *)
(* before the reading, the digest is taken of what was read.               *)
SeenLate == Attributes                      \* faulty: those of after the reading
Seen == stat
BackupEnds ==
  /\ at = "backup" /\ ReadEnds
  /\ local' = [local EXCEPT !.mtime = Seen.mtime]
  /\ node' = [filesize |-> Seen.filesize, mtime |-> Seen.mtime, md5 |-> local.data]
  /\ Go("poll")
  /\ UNCHANGED <<site, changed, recorded, auto, stat, edits, hidden>>
-----------------------------------------------------------------------------
(* A pass.  A recorded file is neither copied nor recorded again.          *)
LooksSame ==
  /\ at = "poll" /\ (recorded \/ ~Suspect(Attributes))
  /\ stat' = Attributes
  /\ Go("restore")
  /\ UNCHANGED <<site, local, changed, node, recorded, auto, edits, faults, hidden>>

LooksChanged ==
  /\ at = "poll" /\ ~recorded /\ Suspect(Attributes)
  /\ stat' = Attributes
  /\ changed' = <<>>
  /\ hidden' = FALSE
  /\ Go("copy")
  /\ UNCHANGED <<site, local, node, recorded, auto, edits, faults>>

CopyBlock ==
  /\ at = "copy"
  /\ \E new \in Data : ReadBlock(changed, new) /\ changed' = new
  /\ UNCHANGED <<site, local, node, recorded, auto, stat, edits, hidden>>

(* Another size is a change; another time is one if the digest differs.    *)
JudgedBySize(copy) == stat.filesize # node.filesize   \* faulty: the digest is not looked at
Judged(copy) == stat.filesize # node.filesize \/ copy # node.md5

CopyEnds ==
  /\ at = "copy" /\ ReadEnds
  /\ recorded' = Judged(changed)
  /\ Go("restore")
  /\ UNCHANGED <<site, local, changed, node, auto, stat, edits, hidden>>
-----------------------------------------------------------------------------
(* restore_file, which the worker comes to after every pass.  The file is  *)
(* opened, which empties it, and written from the backup; a call that      *)
(* fails ends the writing, and an open that fails is not told of: then     *)
(* nothing is written.                                                     *)
NothingToRestore ==
  /\ at = "restore" /\ (recorded => ~auto)
  /\ Go("poll")
  /\ UNCHANGED <<site, local, changed, node, recorded, auto, stat, edits, faults, hidden>>

OpenForWrite ==
  /\ at = "restore" /\ recorded
  /\ \/ /\ \E t \in Time : site' = [data |-> <<>>, mtime |-> t]
        /\ hidden' = FALSE
        /\ Go("upload") /\ UNCHANGED faults
     \/ /\ Fails("open")
        /\ Go("setstat") /\ UNCHANGED <<site, hidden>>
  /\ UNCHANGED <<local, changed, node, recorded, auto, stat, edits>>

(* The file with block b at place i, and zeros before it where it was shorter. *)
WrittenAt(data, i, b) ==
  [k \in 1..(IF i > Len(data) THEN i ELSE Len(data)) |->
     IF k = i THEN b ELSE IF k <= Len(data) THEN data[k] ELSE Zero]

UploadBlock ==
  /\ at = "upload" /\ offset < Len(local.data)
  /\ \E t \in Time :
       site' = [data |-> WrittenAt(site.data, offset + 1, local.data[offset + 1]), mtime |-> t]
  /\ offset' = offset + 1
  /\ UNCHANGED <<local, changed, node, recorded, auto, at, stat, edits, faults, hidden>>

UploadEnds ==
  /\ at = "upload"
  /\ \/ offset = Len(local.data) /\ UNCHANGED faults
     \/ Fails("write")
  /\ Go("setstat")
  /\ UNCHANGED <<site, local, changed, node, recorded, auto, stat, edits, hidden>>

(* A file of the given size: cut off, or filled up with zeros. *)
Resized(data, size) == [k \in 1..size |-> IF k <= Len(data) THEN data[k] ELSE Zero]

(* set_fileinfo_server gives the file the size and the time of the local   *)
(* one, whatever was written; then the record goes.                        *)
SetStatKeepsRecord ==                        \* faulty: the record stays
  /\ at = "setstat"
  /\ site' = [data |-> Resized(site.data, Len(local.data)), mtime |-> local.mtime]
  /\ changed' = NoCopy
  /\ Go("poll")
  /\ UNCHANGED <<local, node, recorded, auto, stat, edits, faults, hidden>>
SetStat ==
  /\ at = "setstat"
  /\ \/ /\ site' = [data |-> Resized(site.data, Len(local.data)), mtime |-> local.mtime]
        /\ UNCHANGED faults
     \/ Fails("setstat") /\ UNCHANGED site
  /\ recorded' = FALSE /\ changed' = NoCopy
  /\ Go("poll")
  /\ UNCHANGED <<local, node, auto, stat, edits, hidden>>
-----------------------------------------------------------------------------
(* inc_download_file for a change the administrator accepted: the          *)
(* attributes are asked for anew; if that fails they are whatever the      *)
(* memory held.                                                            *)
Accept ==
  /\ at = "restore" /\ recorded /\ ~auto
  /\ \/ stat' = Attributes /\ UNCHANGED faults
     \/ Fails("stat") /\ stat' \in Stat
  /\ local' = [local EXCEPT !.data = <<>>]
  /\ hidden' = FALSE
  /\ Go("adopt")
  /\ UNCHANGED <<site, changed, node, recorded, auto, edits>>

AdoptBlock ==
  /\ at = "adopt"
  /\ \E new \in Data : ReadBlock(local.data, new) /\ local' = [local EXCEPT !.data = new]
  /\ UNCHANGED <<site, changed, node, recorded, auto, stat, edits, hidden>>

(* dir_update_node takes size and time over, and leaves md5_value alone. *)
Updated(n) == [n EXCEPT !.filesize = Seen.filesize, !.mtime = Seen.mtime]

AdoptEnds ==
  /\ at = "adopt" /\ ReadEnds
  /\ local' = [local EXCEPT !.mtime = Seen.mtime]
  /\ node' = Updated(node)
  /\ recorded' = FALSE /\ changed' = NoCopy
  /\ Go("poll")
  /\ UNCHANGED <<site, auto, stat, edits, hidden>>
-----------------------------------------------------------------------------
Worker ==
  \/ ListForBackup \/ BackupBlock \/ BackupEnds
  \/ LooksSame \/ LooksChanged \/ CopyBlock \/ CopyEnds
  \/ NothingToRestore \/ OpenForWrite \/ UploadBlock \/ UploadEnds \/ SetStat
  \/ Accept \/ AdoptBlock \/ AdoptEnds

Next == Worker \/ \E d \in Data, t \in Time : Edit(d, t)

Spec == Init /\ [][Next]_vars

(* The worker ends the pass, the restore and the transfer it has begun.    *)
(* That it begins another pass over the file is not assumed: PollClock     *)
(* shows that full passes may be jumped.                                   *)
FairSpec == Spec /\ WF_vars(Worker /\ at # "poll")
-----------------------------------------------------------------------------
(* The types of the variables. *)
TypeOK ==
  /\ site \in [data : Data, mtime : Time] /\ local \in [data : Data, mtime : Time]
  /\ changed \in Data \cup {NoCopy}
  /\ node \in [filesize : 0..MaxBlocks, mtime : Time, md5 : Data]
  /\ recorded \in BOOLEAN /\ auto \in BOOLEAN
  /\ at \in Places /\ stat \in Stat /\ offset \in 0..MaxBlocks
  /\ edits \in 0..MaxEdits /\ faults \in 0..MaxFaults /\ hidden \in BOOLEAN

(* The node and the local file were made of one state of the site. *)
Sound == node.filesize = Len(local.data) /\ node.mtime = local.mtime
DigestTrue == node.md5 = local.data

(* Between two passes, a file that is not what the backup holds is         *)
(* recorded, or looks suspicious to the next pass: no transfer leaves      *)
(* another content under the size and the time of the node, unless the     *)
(* writer has given it these (core.c 118-137, 322-341).                    *)
Visible ==
  at = "poll" /\ Sound /\ ~hidden /\ site.data # local.data =>
    recorded \/ Suspect(Attributes)

(* A pass whose listing is still true when it ends, and was not written     *)
(* around, judges right, however many passes, edits, failed calls and      *)
(* restores came before: content that is not the backup's, under another   *)
(* size or time, is recorded, if no commit has left an old digest in the   *)
(* node; the backup's, touched or not, is not, if no read fails (core.c    *)
(* 279-367).                                                               *)
PassesJudge ==
  [][/\ at \in {"poll", "copy"} /\ at' = "restore"
     /\ stat' = Attributes /\ ~hidden /\ Sound /\ DigestTrue
     => /\ site.data # local.data /\ Suspect(stat') => recorded'
        /\ site.data = local.data /\ faults' = faults => recorded' = recorded]_vars

(* With automatic restore the site has the content of the backup again for *)
(* good once nobody writes any more, although attributes could not be set  *)
(* and reads broke off on the way: as long as passes over the file go on,  *)
(* node and backup agree, and the last write does not look like the backup *)
(* (core.c 803-856).                                                       *)
SiteReturns ==
  []<>(at # "poll") /\ <>[](Sound /\ DigestTrue /\ ~hidden) /\ auto =>
    <>[](site.data = local.data)

(* A restored file is what the log says, restored successfully (util.c     *)
(* 682-688), and if not, the next pass looks at it again.  It does not     *)
(* hold where a write fails: the attributes hide what is missing.          *)
RestoredAsLogged == Visible

(* Visible, whoever wrote with whatever time.  It does not hold: a time is *)
(* a whole second, and another write within it, of the same size, looks    *)
(* like the one that was listed.                                           *)
AlwaysVisible ==
  at = "poll" /\ Sound /\ site.data # local.data => recorded \/ Suspect(Attributes)

(* PassesJudge, whatever was committed before.  It does not hold: the      *)
(* digest of the content before a commit stays in the node (tree.c         *)
(* 244-258), and that content comes back unnoticed.                        *)
NoticesAfterCommit ==
  [][/\ at \in {"poll", "copy"} /\ at' = "restore"
     /\ stat' = Attributes /\ ~hidden /\ Sound
     /\ site.data # local.data /\ Suspect(stat')
     => recorded']_vars

(* Once nobody writes any more the worker finds nothing to restore.  It    *)
(* does not hold: after a write between listing and reading the node has   *)
(* the size of the one and the file that of the other, and every pass      *)
(* restores a file that every next pass finds changed (core.c 591-594).    *)
RestoreSettles == []<>(at # "poll") /\ auto => <>[]~recorded
=============================================================================
