--------------------------- MODULE FileSyncProofs ---------------------------
(***************************************************************************)
(* Theorems about FileSync, for any blocks, lengths, times, numbers of     *)
(* edits and of failed calls: what a pass judges right, and that no        *)
(* transfer hides a difference as long as writes do not fail, nobody else  *)
(* writes during an upload, and no write looks like what the worker goes by. *)
(***************************************************************************)
EXTENDS FileSync, SequenceTheorems, TLAPS

USE FileSyncAssumption

(***************************************************************************)
(* A copy is what the file has up to offset, if it still looks as it was   *)
(* listed and has not been written to look so.                             *)
(***************************************************************************)
Copied(file) == \A k \in 1 .. offset : file[k] = site.data[k]

CopyInv ==
  /\ at \in {"backup", "adopt"} =>
       /\ Len(local.data) = offset
       /\ ~hidden /\ stat = Attributes => offset <= Len(site.data) /\ Copied(local.data)
  /\ at = "copy" =>
       /\ ~recorded /\ changed \in Data /\ Len(changed) = offset
       /\ ~hidden /\ stat = Attributes => offset <= Len(site.data) /\ Copied(changed)

(* Writes do not fail, and nobody else writes between them. *)
WritesArrive == Faults \cap {"open", "write"} = {} /\ EditsAt \cap {"upload", "setstat"} = {}

VisibleInv ==
  /\ at = "upload" => /\ Len(site.data) = offset /\ offset <= Len(local.data)
                      /\ \A k \in 1 .. offset : site.data[k] = local.data[k]
  /\ at = "setstat" => site.data = local.data
  /\ at \in {"poll", "copy", "restore"} /\ Sound /\ ~hidden /\ ~Suspect(Attributes) /\ ~recorded =>
       site.data = local.data

-----------------------------------------------------------------------------
(* Data and times *)

LEMMA DataIsSequences ==
  /\ \A d \in Data : d \in Seq(Block) /\ Len(d) \in 0 .. MaxBlocks
  /\ \A d \in Seq(Block) : Len(d) <= MaxBlocks => d \in Data
<1>1. ASSUME NEW d \in Data PROVE d \in Seq(Block) /\ Len(d) \in 0 .. MaxBlocks
  <2>1. PICK n \in 0 .. MaxBlocks : d \in [1 .. n -> Block]
    BY DEF Data
  <2>2. n \in Nat
    BY <2>1
  <2>3. d \in Seq(Block)
    BY <2>1, <2>2, SeqDef
  <2>4. Len(d) = n
    BY <2>1, <2>2, <2>3
  <2> QED BY <2>1, <2>3, <2>4
<1>2. ASSUME NEW d \in Seq(Block), Len(d) <= MaxBlocks PROVE d \in Data
  <2>1. Len(d) \in 0 .. MaxBlocks /\ d \in [1 .. Len(d) -> Block]
    BY <1>2, LenProperties
  <2> QED BY <2>1 DEF Data
<1> QED BY <1>1, <1>2

LEMMA EmptyData == <<>> \in Data /\ Len(<<>>) = 0
<1>1. <<>> \in Seq(Block) /\ Len(<<>>) = 0 /\ 0 <= MaxBlocks
  BY EmptySeq DEF FileSyncAssumption
<1> QED BY <1>1, DataIsSequences

LEMMA AttributesType == ASSUME TypeOK PROVE Attributes \in Stat
BY DataIsSequences DEF TypeOK, Attributes, AttributesOf, Stat

(* A block read comes behind those before it. *)
LEMMA BlockRead ==
  ASSUME TypeOK, NEW file \in Data, NEW new \in Data, ReadBlock(file, new)
  PROVE  /\ offset < Len(site.data) /\ offset' = offset + 1 /\ offset' \in 0 .. MaxBlocks
         /\ at' = at /\ faults' = faults
         /\ Len(new) = Len(file) + 1 /\ new[Len(file) + 1] = site.data[offset + 1]
         /\ \A k \in 1 .. Len(file) : new[k] = file[k]
<1>1. site.data \in Seq(Block) /\ Len(site.data) \in 0 .. MaxBlocks /\ file \in Seq(Block)
  BY DataIsSequences DEF TypeOK
<1>2. offset < Len(site.data) /\ offset \in Nat
  BY DEF ReadBlock, TypeOK
<1>3. offset + 1 \in 1 .. Len(site.data)
  BY <1>1, <1>2
<1>4. site.data[offset + 1] \in Block
  BY <1>1, <1>3, ElementOfSeq
<1>5. new = Append(file, site.data[offset + 1])
  BY DEF ReadBlock
<1>6. Len(file) \in Nat
  BY <1>1, LenProperties
<1>7. /\ Len(new) = Len(file) + 1 /\ new[Len(file) + 1] = site.data[offset + 1]
      /\ \A k \in 1 .. Len(file) : new[k] = file[k]
  BY <1>1, <1>4, <1>5, <1>6, AppendProperties
<1>8. offset' = offset + 1 /\ at' = at /\ faults' = faults
  BY DEF ReadBlock
<1>9. offset' \in 0 .. MaxBlocks
  BY <1>1, <1>2, <1>8
<1> QED BY <1>2, <1>7, <1>8, <1>9

(* A block written is the next of the backup. *)
LEMMA BlockWritten ==
  ASSUME TypeOK, at = "upload", offset < Len(local.data),
         NEW data, data = WrittenAt(site.data, offset + 1, local.data[offset + 1])
  PROVE  /\ data \in Data
         /\ Len(site.data) = offset => /\ Len(data) = offset + 1
                                       /\ data[offset + 1] = local.data[offset + 1]
                                       /\ \A k \in 1 .. offset : data[k] = site.data[k]
<1> DEFINE l == Len(site.data)
           n == IF offset + 1 > l THEN offset + 1 ELSE l
           i == offset + 1
           b == local.data[i]
<1>1. /\ site.data \in Seq(Block) /\ l \in 0 .. MaxBlocks
      /\ local.data \in Seq(Block) /\ Len(local.data) \in 0 .. MaxBlocks
  BY DataIsSequences DEF TypeOK
<1>2. offset \in Nat /\ i \in 1 .. Len(local.data)
  BY <1>1 DEF TypeOK
<1>3. b \in Block
  BY <1>1, <1>2, ElementOfSeq
<1>4. data = [k \in 1 .. n |-> IF k = i THEN b ELSE IF k <= l THEN site.data[k] ELSE Zero]
  BY DEF WrittenAt
<1>5. n \in Nat /\ n <= MaxBlocks
  BY <1>1, <1>2
<1>6. ASSUME NEW k \in 1 .. n
      PROVE  (IF k = i THEN b ELSE IF k <= l THEN site.data[k] ELSE Zero) \in Block
  <2>1. k <= l => site.data[k] \in Block
    BY <1>1, <1>5, ElementOfSeq
  <2> QED BY <2>1, <1>3 DEF FileSyncAssumption
<1>7. data \in [1 .. n -> Block]
  <2> HIDE DEF n, l, i, b
  <2> QED BY <1>4, <1>6
<1>8. data \in Data
  <2>1. n \in 0 .. MaxBlocks
    BY <1>5
  <2> QED BY <1>7, <2>1 DEF Data
<1>9. ASSUME l = offset
      PROVE  /\ Len(data) = offset + 1 /\ data[i] = b
             /\ \A k \in 1 .. offset : data[k] = site.data[k]
  <2>1. n = offset + 1
    BY <1>2, <1>9
  <2>2. data \in Seq(Block) /\ Len(data) = n
    <3> HIDE DEF n
    <3>1. data \in Seq(Block)
      BY <1>8, DataIsSequences
    <3> QED BY <3>1, <1>5, <1>7
  <2>3. i \in 1 .. n
    BY <2>1, <1>2
  <2>4. data[i] = b
    BY <2>3, <1>4
  <2>5. ASSUME NEW k \in 1 .. offset PROVE data[k] = site.data[k]
    <3>1. k \in 1 .. n /\ k # i /\ k <= l
      BY <2>1, <1>2, <1>9
    <3> QED BY <3>1, <1>4
  <2> QED BY <2>1, <2>2, <2>4, <2>5
<1> QED BY <1>8, <1>9

(* A file that is as long as the backup is not changed by the setting of   *)
(* its size.                                                               *)
LEMMA SizeSet ==
  ASSUME TypeOK, NEW data, data = Resized(site.data, Len(local.data))
  PROVE  data \in Data /\ (site.data = local.data => data = local.data)
<1> DEFINE l == Len(local.data)
<1>1. /\ site.data \in Seq(Block) /\ Len(site.data) \in 0 .. MaxBlocks
      /\ local.data \in Seq(Block) /\ l \in 0 .. MaxBlocks
  BY DataIsSequences DEF TypeOK
<1>2. data = [k \in 1 .. l |-> IF k <= Len(site.data) THEN site.data[k] ELSE Zero]
  BY DEF Resized
<1>3. ASSUME NEW k \in 1 .. l
      PROVE  (IF k <= Len(site.data) THEN site.data[k] ELSE Zero) \in Block
  <2>1. k <= Len(site.data) => site.data[k] \in Block
    BY <1>1, ElementOfSeq
  <2> QED BY <2>1 DEF FileSyncAssumption
<1>4. data \in Data
  <2> HIDE DEF l
  <2> QED BY <1>1, <1>2, <1>3 DEF Data
<1>5. ASSUME site.data = local.data PROVE data = local.data
  <2>1. data \in Seq(Block)
    BY <1>4, DataIsSequences
  <2>2. Len(data) = l
    <3> HIDE DEF l
    <3> QED BY <1>1, <1>2, <2>1
  <2>3. \A k \in 1 .. Len(data) : data[k] = local.data[k]
    BY <1>2, <1>5, <2>2, <1>1
  <2> QED BY <2>1, <2>2, <2>3, <1>1, SeqEqual
<1> QED BY <1>4, <1>5

-----------------------------------------------------------------------------
(* Types *)

LEMMA InitType == Init => TypeOK
<1> SUFFICES ASSUME Init PROVE TypeOK
  OBVIOUS
<1>1. local \in [data : Data, mtime : Time] /\ site.mtime \in Time
  BY EmptyData DEF Init
<1>2. node \in [filesize : 0..MaxBlocks, mtime : Time, md5 : Data] /\ stat \in Stat
  BY <1>1, EmptyData DEF Init, Stat, FileSyncAssumption
<1>3. 0 \in 0 .. MaxBlocks /\ 0 \in 0 .. MaxEdits /\ 0 \in 0 .. MaxFaults /\ at \in Places
  BY DEF Init, Places, FileSyncAssumption
<1>4. recorded \in BOOLEAN /\ changed \in Data \cup {NoCopy} /\ site \in [data : Data, mtime : Time]
  BY DEF Init
<1> QED BY <1>1, <1>2, <1>3, <1>4 DEF Init, TypeOK

LEMMA FaultsType ==
  ASSUME TypeOK, NEW call, Fails(call) \/ UNCHANGED faults
  PROVE  faults' \in 0 .. MaxFaults
BY DEF Fails, TypeOK, FileSyncAssumption

LEMMA NextType == TypeOK /\ [Next]_vars => TypeOK'
<1> SUFFICES ASSUME TypeOK, [Next]_vars PROVE TypeOK'
  OBVIOUS
<1> USE DEF worker, Places, Go
<1>0. 0 \in 0 .. MaxBlocks
  BY DEF FileSyncAssumption
<1>1. CASE UNCHANGED vars
  BY <1>1 DEF vars, TypeOK
<1>2. ASSUME NEW d \in Data, NEW t \in Time, Edit(d, t) PROVE TypeOK'
  <2>1. edits' \in 0 .. MaxEdits
    BY <1>2 DEF Edit, TypeOK, FileSyncAssumption
  <2>2. hidden' \in BOOLEAN
    BY <1>2 DEF Edit, Unnoticed
  <2> QED BY <2>1, <2>2, <1>2 DEF Edit, TypeOK
<1>3. CASE ListForBackup
  BY <1>0, <1>3, EmptyData, AttributesType DEF ListForBackup, TypeOK
<1>4. CASE BackupBlock
  <2>1. PICK new \in Data : ReadBlock(local.data, new) /\ local' = [local EXCEPT !.data = new]
    BY <1>4 DEF BackupBlock
  <2>2. offset' \in 0 .. MaxBlocks /\ at' = at /\ faults' = faults
    BY <2>1, BlockRead DEF TypeOK
  <2> QED BY <2>1, <2>2, <1>4 DEF BackupBlock, TypeOK
<1>5. CASE BackupEnds
  <2>1. faults' \in 0 .. MaxFaults
    BY <1>5, FaultsType DEF BackupEnds, ReadEnds
  <2> QED BY <1>0, <2>1, <1>5 DEF BackupEnds, Seen, Stat, TypeOK
<1>6. CASE LooksSame
  BY <1>0, <1>6, AttributesType DEF LooksSame, TypeOK
<1>7. CASE LooksChanged
  BY <1>0, <1>7, EmptyData, AttributesType DEF LooksChanged, TypeOK
<1>8. CASE CopyBlock
  <2>1. PICK new \in Data : ReadBlock(changed, new) /\ changed' = new
    BY <1>8 DEF CopyBlock
  <2>2. offset' \in 0 .. MaxBlocks /\ at' = at /\ faults' = faults
    <3>1. site.data \in Seq(Block) /\ Len(site.data) \in 0 .. MaxBlocks
      BY DataIsSequences DEF TypeOK
    <3> QED BY <2>1, <3>1 DEF ReadBlock, TypeOK
  <2> QED BY <2>1, <2>2, <1>8 DEF CopyBlock, TypeOK
<1>9. CASE CopyEnds
  <2>1. faults' \in 0 .. MaxFaults
    BY <1>9, FaultsType DEF CopyEnds, ReadEnds
  <2>2. recorded' \in BOOLEAN
    BY <1>9 DEF CopyEnds, Judged
  <2> QED BY <1>0, <2>1, <2>2, <1>9 DEF CopyEnds, TypeOK
<1>10. CASE NothingToRestore
  BY <1>0, <1>10 DEF NothingToRestore, TypeOK
<1>11. CASE OpenForWrite
  <2>1. faults' \in 0 .. MaxFaults
    BY <1>11, FaultsType DEF OpenForWrite
  <2>2. site' \in [data : Data, mtime : Time]
    BY <1>11, EmptyData DEF OpenForWrite, TypeOK
  <2> QED BY <1>0, <2>1, <2>2, <1>11 DEF OpenForWrite, TypeOK
<1>12. CASE UploadBlock
  <2>1. site' \in [data : Data, mtime : Time]
    BY <1>12, BlockWritten DEF UploadBlock, TypeOK
  <2>2. offset' \in 0 .. MaxBlocks
    <3>1. Len(local.data) \in 0 .. MaxBlocks
      BY DataIsSequences DEF TypeOK
    <3> QED BY <3>1, <1>12 DEF UploadBlock, TypeOK
  <2> QED BY <2>1, <2>2, <1>12 DEF UploadBlock, TypeOK
<1>13. CASE UploadEnds
  <2>1. faults' \in 0 .. MaxFaults
    BY <1>13, FaultsType DEF UploadEnds
  <2> QED BY <1>0, <2>1, <1>13 DEF UploadEnds, TypeOK
<1>14. CASE SetStat
  <2>1. faults' \in 0 .. MaxFaults
    BY <1>14, FaultsType DEF SetStat
  <2>2. site' \in [data : Data, mtime : Time]
    BY <1>14, SizeSet DEF SetStat, TypeOK
  <2> QED BY <1>0, <2>1, <2>2, <1>14 DEF SetStat, TypeOK
<1>15. CASE Accept
  <2>1. faults' \in 0 .. MaxFaults
    BY <1>15, FaultsType DEF Accept
  <2>2. stat' \in Stat
    BY <1>15, AttributesType DEF Accept
  <2> QED BY <1>0, <2>1, <2>2, <1>15, EmptyData DEF Accept, TypeOK
<1>16. CASE AdoptBlock
  <2>1. PICK new \in Data : ReadBlock(local.data, new) /\ local' = [local EXCEPT !.data = new]
    BY <1>16 DEF AdoptBlock
  <2>2. offset' \in 0 .. MaxBlocks /\ at' = at /\ faults' = faults
    BY <2>1, BlockRead DEF TypeOK
  <2> QED BY <2>1, <2>2, <1>16 DEF AdoptBlock, TypeOK
<1>17. CASE AdoptEnds
  <2>1. faults' \in 0 .. MaxFaults
    BY <1>17, FaultsType DEF AdoptEnds, ReadEnds
  <2>2. node' \in [filesize : 0..MaxBlocks, mtime : Time, md5 : Data]
    BY <1>17 DEF AdoptEnds, Updated, Seen, Stat, TypeOK
  <2> QED BY <1>0, <2>1, <2>2, <1>17 DEF AdoptEnds, Seen, Stat, TypeOK
<1> QED BY <1>1, <1>2, <1>3, <1>4, <1>5, <1>6, <1>7, <1>8, <1>9, <1>10, <1>11, <1>12, <1>13,
           <1>14, <1>15, <1>16, <1>17 DEF Next, Worker

(* Every variable keeps its type, whatever is written and whatever fails. *)
THEOREM FileTypes == Spec => []TypeOK
BY InitType, NextType, PTL DEF Spec

-----------------------------------------------------------------------------
(* Copies *)

LEMMA NextCopy == TypeOK /\ TypeOK' /\ CopyInv /\ [Next]_vars => CopyInv'
<1> SUFFICES ASSUME TypeOK, TypeOK', CopyInv, [Next]_vars PROVE CopyInv'
  OBVIOUS
<1> USE DEF worker, Go
<1>0. site.data \in Seq(Block) /\ Len(site.data) \in Nat
  BY DataIsSequences DEF TypeOK
<1>1. CASE UNCHANGED vars
  BY <1>1 DEF vars, CopyInv, Copied, Attributes
<1>2. ASSUME NEW d \in Data, NEW t \in Time, Edit(d, t) PROVE CopyInv'
  <2>1. /\ hidden' = Unnoticed(Attributes') /\ UNCHANGED <<at, stat, offset, local, changed, recorded>>
    BY <1>2 DEF Edit, Attributes
  <2>2. at \in {"backup", "adopt", "copy"} => (stat' = Attributes' => hidden')
    BY <2>1 DEF Unnoticed
  <2> QED BY <2>1, <2>2 DEF CopyInv
<1>3. CASE ListForBackup \/ Accept
  <2>1. /\ at' \in {"backup", "adopt"} /\ offset' = 0 /\ UNCHANGED site
        /\ local' = [local EXCEPT !.data = <<>>]
    BY <1>3 DEF ListForBackup, Accept
  <2>2. local'.data = <<>> /\ Len(local'.data) = 0
    BY <2>1, EmptyData DEF TypeOK
  <2> QED BY <2>1, <2>2, <1>0 DEF CopyInv, Copied
<1>4. CASE BackupBlock \/ AdoptBlock
  <2>1. PICK new \in Data : ReadBlock(local.data, new) /\ local' = [local EXCEPT !.data = new]
    BY <1>4 DEF BackupBlock, AdoptBlock
  <2>2. at \in {"backup", "adopt"} /\ UNCHANGED <<site, stat, hidden>>
    BY <1>4 DEF BackupBlock, AdoptBlock
  <2>3. local.data \in Data /\ local'.data = new /\ offset \in Nat
    BY <2>1 DEF TypeOK
  <2>4. /\ offset < Len(site.data) /\ offset' = offset + 1 /\ at' = at
        /\ Len(new) = Len(local.data) + 1 /\ new[Len(local.data) + 1] = site.data[offset + 1]
        /\ \A k \in 1 .. Len(local.data) : new[k] = local.data[k]
    BY <2>1, <2>3, BlockRead
  <2>5. Len(local.data) = offset
    BY <2>2 DEF CopyInv
  <2>6. ASSUME ~hidden, stat = Attributes, NEW k \in 1 .. offset + 1 PROVE new[k] = site.data[k]
    <3>1. k \in 1 .. offset \/ k = offset + 1
      BY <2>3
    <3>2. k \in 1 .. offset => local.data[k] = site.data[k]
      BY <2>2, <2>6 DEF CopyInv, Copied
    <3> QED BY <3>1, <3>2, <2>4, <2>5
  <2> QED BY <2>2, <2>3, <2>4, <2>5, <2>6, <1>0 DEF CopyInv, Copied, Attributes, AttributesOf
<1>5. CASE LooksChanged
  <2>1. /\ at' = "copy" /\ offset' = 0 /\ UNCHANGED site /\ changed' = <<>>
        /\ ~recorded' /\ stat' = Attributes
    BY <1>5 DEF LooksChanged
  <2> QED BY <2>1, <1>0, EmptyData DEF CopyInv, Copied, Attributes, AttributesOf
<1>6. CASE CopyBlock
  <2>1. PICK new \in Data : ReadBlock(changed, new) /\ changed' = new
    BY <1>6 DEF CopyBlock
  <2>2. at = "copy" /\ UNCHANGED <<site, stat, recorded, hidden>>
    BY <1>6 DEF CopyBlock
  <2>3. changed \in Data /\ Len(changed) = offset /\ ~recorded /\ offset \in Nat
    BY <2>2 DEF CopyInv, TypeOK
  <2>4. /\ offset < Len(site.data) /\ offset' = offset + 1 /\ at' = at
        /\ Len(new) = Len(changed) + 1 /\ new[Len(changed) + 1] = site.data[offset + 1]
        /\ \A k \in 1 .. Len(changed) : new[k] = changed[k]
    BY <2>1, <2>3, BlockRead
  <2>5. ASSUME ~hidden, stat = Attributes, NEW k \in 1 .. offset + 1 PROVE new[k] = site.data[k]
    <3>1. k \in 1 .. offset \/ k = offset + 1
      BY <2>3
    <3>2. k \in 1 .. offset => changed[k] = site.data[k]
      BY <2>2, <2>5 DEF CopyInv, Copied
    <3> QED BY <3>1, <3>2, <2>3, <2>4
  <2> QED BY <2>1, <2>2, <2>3, <2>4, <2>5, <1>0 DEF CopyInv, Copied, Attributes, AttributesOf
<1>7. CASE at' \notin {"backup", "adopt", "copy"}
  BY <1>7 DEF CopyInv
<1>8. CASE BackupEnds \/ LooksSame \/ CopyEnds \/ NothingToRestore \/ OpenForWrite
           \/ UploadBlock \/ UploadEnds \/ SetStat \/ AdoptEnds
  <2>1. at' \notin {"backup", "adopt", "copy"}
    BY <1>8 DEF BackupEnds, LooksSame, CopyEnds, NothingToRestore, OpenForWrite, UploadBlock,
                UploadEnds, SetStat, AdoptEnds
  <2> QED BY <2>1, <1>7
<1> QED BY <1>1, <1>2, <1>3, <1>4, <1>5, <1>6, <1>8 DEF Next, Worker

LEMMA CopiesAreTrue == Spec => [](TypeOK /\ CopyInv)
<1>1. Init => TypeOK /\ CopyInv
  BY InitType DEF Init, CopyInv
<1>2. TypeOK /\ CopyInv /\ [Next]_vars => TypeOK' /\ CopyInv'
  BY NextType, NextCopy
<1> QED BY <1>1, <1>2, PTL DEF Spec

(* A file that was copied to its end under the time it has now. *)
LEMMA WholeCopy ==
  ASSUME TypeOK, NEW file \in Data, Len(file) = offset, offset = Len(site.data), Copied(file)
  PROVE  file = site.data
<1>1. file \in Seq(Block) /\ site.data \in Seq(Block)
  BY DataIsSequences DEF TypeOK
<1> QED BY <1>1, SeqEqual DEF Copied

-----------------------------------------------------------------------------
(* What the passes judge *)

(* A pass whose listing is still true when it ends judges right, for files *)
(* of any length and any history of edits and failed calls (core.c         *)
(* 279-367).                                                               *)
THEOREM PassesAreRight == Spec => PassesJudge
<1> DEFINE Judges ==
      /\ at \in {"poll", "copy"} /\ at' = "restore"
      /\ stat' = Attributes /\ ~hidden /\ Sound /\ DigestTrue
      => /\ site.data # local.data /\ Suspect(stat') => recorded'
         /\ site.data = local.data /\ faults' = faults => recorded' = recorded
<1>1. TypeOK /\ CopyInv /\ [Next]_vars => Judges
  <2> SUFFICES ASSUME TypeOK, CopyInv, [Next]_vars,
                      at \in {"poll", "copy"}, at' = "restore",
                      stat' = Attributes, ~hidden, Sound, DigestTrue
               PROVE  /\ site.data # local.data /\ Suspect(stat') => recorded'
                      /\ site.data = local.data /\ faults' = faults => recorded' = recorded
    OBVIOUS
  <2> USE DEF worker, Go
  <2>1. LooksSame \/ CopyEnds
    <3>1. ~ UNCHANGED vars
      BY DEF vars
    <3>2. \A d \in Data, t \in Time : ~Edit(d, t)
      BY DEF Edit
    <3>3. ~CopyBlock
      BY DEF CopyBlock, ReadBlock
    <3>4. ~ (ListForBackup \/ BackupBlock \/ BackupEnds \/ LooksChanged \/ NothingToRestore
             \/ OpenForWrite \/ UploadBlock \/ UploadEnds \/ SetStat
             \/ Accept \/ AdoptBlock \/ AdoptEnds)
      BY DEF ListForBackup, BackupBlock, BackupEnds, LooksChanged, NothingToRestore,
             OpenForWrite, UploadBlock, UploadEnds, SetStat, Accept, AdoptBlock, AdoptEnds
    <3> QED BY <3>1, <3>2, <3>3, <3>4 DEF Next, Worker
  <2>2. CASE LooksSame
    BY <2>2 DEF LooksSame, Suspect
  <2>3. CASE CopyEnds
    <3>1. /\ at = "copy" /\ recorded' = Judged(changed) /\ ReadEnds /\ stat = Attributes
      BY <2>3 DEF CopyEnds
    <3>2. stat.filesize = Len(site.data)
      BY <3>1 DEF Attributes, AttributesOf
    <3>3. /\ ~recorded /\ changed \in Data /\ Len(changed) = offset
          /\ offset <= Len(site.data) /\ Copied(changed)
      BY <3>1, <3>2 DEF CopyInv
    <3>4. Len(site.data) \in Nat /\ offset \in Nat
      BY DataIsSequences DEF TypeOK
    <3>5. offset = Len(site.data) => changed = site.data
      BY <3>3, WholeCopy
    <3>6. ASSUME site.data # local.data PROVE recorded'
      <4>1. SUFFICES ASSUME stat.filesize = node.filesize, changed = node.md5 PROVE FALSE
        BY <3>1 DEF Judged
      <4>2. changed = local.data /\ Len(local.data) = Len(site.data)
        BY <4>1, <3>2 DEF Sound, DigestTrue
      <4> QED BY <4>2, <3>3, <3>5, <3>6
    <3>7. ASSUME site.data = local.data, faults' = faults PROVE recorded' = recorded
      <4>1. offset >= Len(site.data)
        <5>1. ~Fails("read")
          BY <3>7 DEF Fails, TypeOK
        <5> QED BY <5>1, <3>1 DEF ReadEnds
      <4>2. changed = local.data
        BY <4>1, <3>3, <3>4, <3>5, <3>7
      <4>3. ~Judged(changed)
        BY <4>2, <3>2, <3>7 DEF Judged, Sound, DigestTrue
      <4>4. recorded' = FALSE /\ recorded = FALSE
        BY <4>3, <3>1, <3>3 DEF TypeOK, Judged
      <4> QED BY <4>4
    <3> QED BY <3>6, <3>7
  <2> QED BY <2>1, <2>2, <2>3
<1> QED BY <1>1, CopiesAreTrue, PTL DEF Spec, PassesJudge

-----------------------------------------------------------------------------
(* What a transfer can hide *)

LEMMA NextVisible ==
  ASSUME WritesArrive, TypeOK, CopyInv, VisibleInv, [Next]_vars
  PROVE  VisibleInv'
<1> USE DEF worker, Go
<1>0. /\ site.data \in Seq(Block) /\ Len(site.data) \in Nat /\ offset \in Nat
      /\ local.data \in Seq(Block) /\ Len(local.data) \in Nat
  BY DataIsSequences DEF TypeOK
<1>1. CASE UNCHANGED vars
  BY <1>1 DEF vars, VisibleInv, Sound, Suspect, Attributes, AttributesOf
<1>2. ASSUME NEW d \in Data, NEW t \in Time, Edit(d, t) PROVE VisibleInv'
  <2>1. /\ hidden' = Unnoticed(Attributes') /\ at \in EditsAt
        /\ UNCHANGED <<at, local, node, recorded, offset>>
    BY <1>2 DEF Edit, Attributes
  <2>2. at \notin {"upload", "setstat"}
    BY <2>1 DEF WritesArrive
  <2>3. at \in {"poll", "copy", "restore"} => (hidden' \/ Suspect(Attributes)')
    BY <2>1 DEF Unnoticed, Suspect
  <2> QED BY <2>1, <2>2, <2>3 DEF VisibleInv
<1>3. CASE BackupEnds \/ AdoptEnds
  <2>1. /\ at \in {"backup", "adopt"} /\ at' = "poll" /\ UNCHANGED <<site, hidden>>
        /\ local' = [local EXCEPT !.mtime = stat.mtime]
        /\ node'.filesize = stat.filesize /\ node'.mtime = stat.mtime
    <3>1. CASE BackupEnds
      BY <3>1 DEF BackupEnds, Seen
    <3>2. CASE AdoptEnds
      <4>1. node' = [node EXCEPT !.filesize = stat.filesize, !.mtime = stat.mtime]
        BY <3>2 DEF AdoptEnds, Updated, Seen
      <4>2. node'.filesize = stat.filesize /\ node'.mtime = stat.mtime
        BY <4>1 DEF TypeOK
      <4> QED BY <3>2, <4>2 DEF AdoptEnds, Seen
    <3> QED BY <1>3, <3>1, <3>2
  <2>2. local'.data = local.data
    BY <2>1 DEF TypeOK
  <2>3. ASSUME Sound', ~hidden', ~Suspect(Attributes)' PROVE site'.data = local'.data
    <3>1. /\ ~hidden /\ stat = Attributes /\ Len(site.data) = stat.filesize
          /\ stat.filesize = Len(local.data)
      BY <2>1, <2>2, <2>3 DEF Sound, Suspect, Attributes, AttributesOf, TypeOK, Stat
    <3>2. Len(local.data) = offset /\ Copied(local.data)
      BY <2>1, <3>1 DEF CopyInv
    <3> QED BY <3>1, <3>2, <2>1, <2>2, WholeCopy DEF TypeOK
  <2> QED BY <2>1, <2>3 DEF VisibleInv
<1>4. CASE LooksSame \/ LooksChanged \/ CopyBlock \/ CopyEnds \/ NothingToRestore
  <2>1. /\ at \in {"poll", "copy", "restore"} /\ at' \in {"poll", "copy", "restore"}
        /\ UNCHANGED <<site, local, node>> /\ (recorded => recorded' \/ at = "copy")
        /\ hidden' = hidden \/ Suspect(Attributes)
    BY <1>4 DEF LooksSame, LooksChanged, CopyBlock, ReadBlock, CopyEnds, NothingToRestore
  <2>2. at = "copy" => ~recorded
    BY DEF CopyInv
  <2> QED BY <2>1, <2>2 DEF VisibleInv, Sound, Suspect, Attributes, AttributesOf
<1>5. CASE OpenForWrite
  <2>1. /\ \E t \in Time : site' = [data |-> <<>>, mtime |-> t]
        /\ at' = "upload" /\ offset' = 0 /\ UNCHANGED local
    BY <1>5 DEF OpenForWrite, Fails, WritesArrive
  <2>2. site'.data = <<>>
    BY <2>1
  <2>3. Len(site'.data) = 0 /\ \A k \in 1 .. 0 : site'.data[k] = local'.data[k]
    BY <2>2, EmptyData
  <2> QED BY <2>1, <2>3, <1>0 DEF VisibleInv
<1>6. CASE UploadBlock
  <2>1. /\ at = "upload" /\ at' = "upload" /\ offset < Len(local.data) /\ offset' = offset + 1
        /\ site'.data = WrittenAt(site.data, offset + 1, local.data[offset + 1])
        /\ UNCHANGED local
    BY <1>6 DEF UploadBlock
  <2>2. Len(site.data) = offset /\ \A k \in 1 .. offset : site.data[k] = local.data[k]
    BY <2>1 DEF VisibleInv
  <2>3. /\ Len(site'.data) = offset + 1 /\ site'.data[offset + 1] = local.data[offset + 1]
        /\ \A k \in 1 .. offset : site'.data[k] = site.data[k]
    BY <2>1, <2>2, BlockWritten
  <2>4. \A k \in 1 .. offset + 1 : site'.data[k] = local.data[k]
    <3> TAKE k \in 1 .. offset + 1
    <3>1. k \in 1 .. offset \/ k = offset + 1
      BY <1>0
    <3> QED BY <3>1, <2>2, <2>3
  <2> QED BY <2>1, <2>3, <2>4, <1>0 DEF VisibleInv
<1>7. CASE UploadEnds
  <2>1. at = "upload" /\ at' = "setstat" /\ offset = Len(local.data) /\ UNCHANGED <<site, local>>
    BY <1>7 DEF UploadEnds, Fails, WritesArrive
  <2>2. Len(site.data) = Len(local.data) /\ \A k \in 1 .. Len(site.data) : site.data[k] = local.data[k]
    BY <2>1 DEF VisibleInv
  <2>3. site.data = local.data
    BY <2>2, <1>0, SeqEqual
  <2> QED BY <2>1, <2>3 DEF VisibleInv
<1>8. CASE SetStat
  <2>1. /\ at = "setstat" /\ at' = "poll" /\ UNCHANGED local
        /\ site'.data = Resized(site.data, Len(local.data)) \/ UNCHANGED site
    BY <1>8 DEF SetStat
  <2>2. site.data = local.data
    BY <2>1 DEF VisibleInv
  <2>3. site'.data = local.data
    BY <2>1, <2>2, SizeSet
  <2> QED BY <2>1, <2>3 DEF VisibleInv
<1>9. CASE ListForBackup \/ BackupBlock \/ Accept \/ AdoptBlock
  <2>1. at' \in {"backup", "adopt"}
    BY <1>9 DEF ListForBackup, BackupBlock, ReadBlock, Accept, AdoptBlock
  <2> QED BY <2>1 DEF VisibleInv
<1> QED BY <1>1, <1>2, <1>3, <1>4, <1>5, <1>6, <1>7, <1>8, <1>9 DEF Next, Worker

(* Where writes arrive and nobody else writes during an upload, a file     *)
(* that differs from the backup is recorded or looks suspicious to the     *)
(* next pass, unless its writer left it with size and time of the node or  *)
(* of the listing in hand: although times are whole seconds that many      *)
(* writes share, and reads, attributes and setstat fail in any order       *)
(* (core.c 81-183, 322-341, 803-844).                                      *)
THEOREM DifferencesStayVisible == ASSUME WritesArrive PROVE Spec => []Visible
<1>1. Init => VisibleInv
  BY DEF Init, VisibleInv
<1>2. VisibleInv /\ (TypeOK /\ CopyInv) /\ [Next]_vars => VisibleInv'
  BY NextVisible
<1>3. VisibleInv => Visible
  BY DEF VisibleInv, Visible
<1> QED BY <1>1, <1>2, <1>3, CopiesAreTrue, PTL DEF Spec
=============================================================================
