------------------------------ MODULE LogFile ------------------------------
(***************************************************************************)
(* The log file every thread of the daemon writes to (log.c).  One         *)
(* semaphore guards the file and cur_fsize, the size the program thinks    *)
(* the file has.  A line that does not fit makes the writer rotate the     *)
(* file first: the newer half goes to a temporary file, the log is cut to  *)
(* nothing, and the half is meant to come back.  Any call may fail, and    *)
(* the daemon may be restarted at any moment.                              *)
(*                                                                         *)
(* A file is its number of bytes.  A line is written whole or not at all.  *)
(***************************************************************************)
EXTENDS Integers, FiniteSets

CONSTANTS
  Thread,    \* the threads of the daemon
  Lengths,   \* bound: the lengths a line may have
  MaxSize,   \* max_fsize
  MaxTmp     \* bound: no restart once the temporary file is longer

ASSUME LogFileAssumption ==
  /\ MaxSize \in Nat \ {0} /\ MaxTmp \in Nat
  /\ Lengths \subseteq Nat \ {0}
  /\ \A n \in Lengths : 2 * n < MaxSize

VARIABLES
  pc,         \* where a thread is in pe_log_write
  log_len,    \* the length of the line it writes
  mtx_op,     \* the semaphore
  cur_fsize,
  file,       \* the bytes in the log
  tmp,        \* the bytes in the temporary file, 0 if there is none
  unread,     \* the bytes of the temporary file behind the position in it
  half,       \* the bytes the rotation took out of the log
  failed      \* has a write failed since the daemon was started

vars == <<pc, log_len, mtx_op, cur_fsize, file, tmp, unread, half, failed>>

Inside == {t \in Thread : pc[t] \in {"holds", "copied", "cut", "back", "rotated"}}

TypeOK ==
  /\ pc \in [Thread -> {"idle", "waits", "holds", "copied", "cut", "back", "rotated"}]
  /\ log_len \in [Thread -> Nat]
  /\ \A t \in Thread : pc[t] # "idle" => log_len[t] \in Lengths
  /\ mtx_op \in {0, 1}
  /\ cur_fsize \in Nat /\ file \in Nat /\ tmp \in Nat /\ unread \in Nat /\ half \in Nat
  /\ failed \in BOOLEAN

(* pe_log_initialize on a log that does not exist yet. *)
Init ==
  /\ pc = [t \in Thread |-> "idle"]
  /\ log_len = [t \in Thread |-> 0]
  /\ mtx_op = 1
  /\ cur_fsize = 0 /\ file = 0 /\ tmp = 0 /\ unread = 0 /\ half = 0
  /\ failed = FALSE

Moves(t, from, to) == pc[t] = from /\ pc' = [pc EXCEPT ![t] = to]

(* The line does not fit. *)
DueIgnoresLine(t) == cur_fsize >= MaxSize
Due(t) == cur_fsize + log_len[t] >= MaxSize
-----------------------------------------------------------------------------
(* The line is put together, outside the semaphore. *)
Call(t) ==
  /\ Moves(t, "idle", "waits")
  /\ \E n \in Lengths : log_len' = [log_len EXCEPT ![t] = n]
  /\ UNCHANGED <<mtx_op, cur_fsize, file, tmp, unread, half, failed>>

Enter(t) ==
  /\ Moves(t, "waits", "holds")
  /\ mtx_op > 0 /\ mtx_op' = mtx_op - 1
  /\ UNCHANGED <<log_len, cur_fsize, file, tmp, unread, half, failed>>

(* The temporary file cannot be opened: the line is dropped. *)
TmpFails(t) ==
  /\ Moves(t, "holds", "idle")
  /\ Due(t)
  /\ mtx_op' = mtx_op + 1
  /\ UNCHANGED <<log_len, cur_fsize, file, tmp, unread, half, failed>>

Tail == IF file > cur_fsize \div 2 THEN file - cur_fsize \div 2 ELSE 0

(* The newer half goes to the end of the temporary file.  A write leaves   *)
(* the position behind what it wrote.                                      *)
CopyTail(t) ==
  /\ Moves(t, "holds", "copied")
  /\ Due(t)
  /\ tmp' = tmp + Tail
  /\ unread' = IF Tail > 0 THEN 0 ELSE tmp
  /\ half' = Tail
  /\ UNCHANGED <<log_len, mtx_op, cur_fsize, file, failed>>

(* A write fails after some of it: pe_log_write returns. *)
CopyTailFails(t) ==
  /\ Moves(t, "holds", "idle")
  /\ Due(t)
  /\ \E n \in 0 .. Tail - 1 : tmp' = tmp + n
  /\ failed' = TRUE
  /\ UNCHANGED <<log_len, mtx_op, cur_fsize, file, unread, half>>

Truncate(t) ==
  /\ Moves(t, "copied", "cut")
  /\ file' = 0
  /\ cur_fsize' = cur_fsize \div 2
  /\ UNCHANGED <<log_len, mtx_op, tmp, unread, half, failed>>

TruncateFails(t) ==
  /\ Moves(t, "copied", "idle")
  /\ failed' = TRUE
  /\ UNCHANGED <<log_len, mtx_op, cur_fsize, file, tmp, unread, half>>

(* What is behind the position of the temporary file comes back.  There is *)
(* nothing there (Quiet in LogFileProofs), so the write of log.c:275 never *)
(* happens and cannot fail.                                                *)
CopyBack(t) ==
  /\ Moves(t, "cut", "back")
  /\ file' = file + unread
  /\ unread' = 0
  /\ UNCHANGED <<log_len, mtx_op, cur_fsize, tmp, half, failed>>

RemoveTmp(t) ==
  /\ Moves(t, "back", "rotated")
  /\ tmp' = 0
  /\ UNCHANGED <<log_len, mtx_op, cur_fsize, file, unread, half, failed>>

Ready(t) == pc[t] = "rotated" \/ (pc[t] = "holds" /\ ~Due(t))

AppendUnposted(t) ==
  /\ Ready(t)
  /\ pc' = [pc EXCEPT ![t] = "idle"]
  /\ file' = file + log_len[t]
  /\ cur_fsize' = cur_fsize + log_len[t]
  /\ UNCHANGED <<log_len, mtx_op, tmp, unread, half, failed>>
Append(t) ==
  /\ Ready(t)
  /\ pc' = [pc EXCEPT ![t] = "idle"]
  /\ file' = file + log_len[t]
  /\ cur_fsize' = cur_fsize + log_len[t]
  /\ mtx_op' = mtx_op + 1
  /\ UNCHANGED <<log_len, tmp, unread, half, failed>>

AppendFails(t) ==
  /\ Ready(t)
  /\ pc' = [pc EXCEPT ![t] = "idle"]
  /\ failed' = TRUE
  /\ UNCHANGED <<log_len, mtx_op, cur_fsize, file, tmp, unread, half>>

(* The daemon ends and is started again: pe_log_create and                 *)
(* pe_log_initialize.  The files stay as they are.                         *)
RestartFromNothing ==
  /\ tmp <= MaxTmp
  /\ pc' = [t \in Thread |-> "idle"]
  /\ mtx_op' = 1
  /\ cur_fsize' = 0
  /\ unread' = 0
  /\ failed' = FALSE
  /\ UNCHANGED <<log_len, file, tmp, half>>
Restart ==
  /\ tmp <= MaxTmp
  /\ pc' = [t \in Thread |-> "idle"]
  /\ mtx_op' = 1
  /\ cur_fsize' = file
  /\ unread' = 0
  /\ failed' = FALSE
  /\ UNCHANGED <<log_len, file, tmp, half>>
-----------------------------------------------------------------------------
(* The step a writer that is inside takes when the calls it makes succeed. *)
Writes(t) ==
  CopyTail(t) \/ Truncate(t) \/ CopyBack(t) \/ RemoveTmp(t) \/ Append(t)

Fails(t) ==
  TmpFails(t) \/ CopyTailFails(t) \/ TruncateFails(t) \/ AppendFails(t)

Next ==
  \/ \E t \in Thread : Call(t) \/ Enter(t) \/ Writes(t) \/ Fails(t)
  \/ Restart

Spec == Init /\ [][Next]_vars

(* Threads are scheduled, and none is passed over forever at the           *)
(* semaphore: between two lines a thread sleeps or waits for the network.  *)
FairSpec ==
  /\ Spec
  /\ \A t \in Thread : WF_vars(Writes(t)) /\ SF_vars(Enter(t))
-----------------------------------------------------------------------------
(* Properties *)

(* cur_fsize is never below the size of the file, whatever fails and       *)
(* whenever the daemon is restarted, a temporary file left by an earlier   *)
(* run included (log.c:63, 233-295): else the limit would not hold.        *)
NotUnderestimated == file <= cur_fsize

(* The log stays below max_fsize (log.c:60, 233).                          *)
LogBounded == file < MaxSize

(* A thread that logs comes back, unless a write has failed: pe_log_write  *)
(* returns without sem_post then (log.c:254, 263, 276, 290), and all       *)
(* threads that log wait forever.                                          *)
WritersReturn == \A t \in Thread : pc[t] = "waits" ~> (pc[t] = "idle" \/ failed)

(* The half that a rotation has taken out is in the log again once it is   *)
(* done (log.c:270).                                                       *)
RotationKeepsHalf == \A t \in Thread : pc[t] = "rotated" => file = half
=============================================================================
