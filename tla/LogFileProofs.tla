--------------------------- MODULE LogFileProofs ---------------------------
(***************************************************************************)
(* Theorems about LogFile, for any number of threads and any sizes.        *)
(***************************************************************************)
EXTENDS LogFile, TLAPS

USE LogFileAssumption DEF LogFileAssumption

LEMMA Halves ==
  ASSUME NEW n \in Nat
  PROVE  n \div 2 \in Nat /\ 2 * (n \div 2) <= n /\ n <= 2 * (n \div 2) + 1
OBVIOUS

(* At most one thread is inside, and the semaphore is down while one is.   *)
Guarded ==
  /\ \A t \in Inside : mtx_op = 0
  /\ \A t, u \in Inside : t = u

(* Nothing of the temporary file is ever read back.  One that is left by a *)
(* run that ended in a rotation would be, if the log had no newer half     *)
(* when the next rotation comes; but until then cur_fsize is exact.        *)
Quiet ==
  /\ unread = 0
  /\ (mtx_op = 1 /\ tmp > 0) => file = cur_fsize
  /\ \A t \in Thread : (pc[t] = "holds" /\ tmp > 0) => file = cur_fsize
  /\ \A t \in Thread : pc[t] = "rotated" => tmp = 0

(* What the program counts is no less than what is there, and fits.        *)
Counted ==
  /\ file <= cur_fsize
  /\ cur_fsize < MaxSize
  /\ \A t \in Thread : pc[t] \in {"cut", "back", "rotated"} => 2 * cur_fsize < MaxSize

LogInv == TypeOK /\ Guarded /\ Quiet /\ Counted

LEMMA LogInit == Init => LogInv
<1> SUFFICES ASSUME Init PROVE LogInv
  OBVIOUS
<1>1. \A t \in Thread : pc[t] = "idle"
  BY DEF Init
<1>2. TypeOK
  BY <1>1 DEF Init, TypeOK
<1>3. Guarded
  BY <1>1 DEF Guarded, Inside
<1>4. Quiet /\ Counted
  BY <1>1 DEF Init, Quiet, Counted
<1> QED BY <1>2, <1>3, <1>4 DEF LogInv

LEMMA LogNext == LogInv /\ [Next]_vars => LogInv'
<1> SUFFICES ASSUME LogInv, [Next]_vars PROVE LogInv'
  OBVIOUS
<1> USE DEF LogInv, TypeOK, Guarded, Quiet, Counted, Inside, Moves
<1>0. CASE UNCHANGED vars
  BY <1>0 DEF vars
<1>1. ASSUME NEW t \in Thread, Call(t) PROVE LogInv'
  BY <1>1 DEF Call
<1>2. ASSUME NEW t \in Thread, Enter(t) PROVE LogInv'
  BY <1>2 DEF Enter
<1>3. ASSUME NEW t \in Thread, TmpFails(t) PROVE LogInv'
  BY <1>3 DEF TmpFails
<1>4. ASSUME NEW t \in Thread, CopyTail(t) PROVE LogInv'
  <2>1. Tail \in Nat
    BY Halves DEF Tail
  <2>2. tmp > 0 => Tail > 0
    <3> SUFFICES ASSUME tmp > 0 PROVE Tail > 0
      OBVIOUS
    <3>1. file = cur_fsize /\ log_len[t] \in Nat /\ 2 * log_len[t] < MaxSize
      BY <1>4 DEF CopyTail
    <3>2. cur_fsize > 0
      BY <1>4, <3>1 DEF CopyTail, Due
    <3> QED BY <3>1, <3>2, Halves DEF Tail
  <2>3. unread' = 0
    BY <1>4, <2>1, <2>2 DEF CopyTail
  <2>4. tmp' \in Nat /\ half' \in Nat
    BY <1>4, <2>1 DEF CopyTail
  <2> QED BY <1>4, <2>3, <2>4 DEF CopyTail
<1>5. ASSUME NEW t \in Thread, CopyTailFails(t) PROVE LogInv'
  <2>1. Tail \in Nat
    BY Halves DEF Tail
  <2>2. tmp' \in Nat
    BY <1>5, <2>1 DEF CopyTailFails
  <2> QED BY <1>5, <2>2 DEF CopyTailFails
<1>6. ASSUME NEW t \in Thread, Truncate(t) PROVE LogInv'
  <2>1. cur_fsize' \in Nat /\ 2 * cur_fsize' < MaxSize /\ cur_fsize' < MaxSize
    BY <1>6, Halves DEF Truncate
  <2> QED BY <1>6, <2>1 DEF Truncate
<1>7. ASSUME NEW t \in Thread, TruncateFails(t) PROVE LogInv'
  BY <1>7 DEF TruncateFails
<1>8. ASSUME NEW t \in Thread, CopyBack(t) PROVE LogInv'
  BY <1>8 DEF CopyBack
<1>9. ASSUME NEW t \in Thread, RemoveTmp(t) PROVE LogInv'
  BY <1>9 DEF RemoveTmp
<1>10. ASSUME NEW t \in Thread, Append(t) PROVE LogInv'
  <2>1. log_len[t] \in Nat /\ 2 * log_len[t] < MaxSize
    BY <1>10 DEF Append, Ready
  <2>2. cur_fsize' = cur_fsize + log_len[t] /\ cur_fsize' < MaxSize
    BY <1>10, <2>1 DEF Append, Ready, Due
  <2>3. file' <= cur_fsize' /\ file' \in Nat /\ cur_fsize' \in Nat
    <3>1. file' = file + log_len[t]
      BY <1>10 DEF Append
    <3> HIDE DEF Guarded, Quiet, Inside, Moves
    <3> QED BY <3>1, <2>1, <2>2
  <2>4. tmp' > 0 => file' = cur_fsize'
    BY <1>10, <2>1 DEF Append, Ready
  <2> QED BY <1>10, <2>2, <2>3, <2>4 DEF Append, Ready
<1>11. ASSUME NEW t \in Thread, AppendFails(t) PROVE LogInv'
  BY <1>11 DEF AppendFails, Ready
<1>12. CASE Restart
  <2>1. \A t \in Thread : pc'[t] = "idle"
    BY <1>12 DEF Restart
  <2>2. pc' \in [Thread -> {"idle", "waits", "holds", "copied", "cut", "back", "rotated"}]
    BY <1>12 DEF Restart
  <2>3. Inside' = {}
    BY <2>1
  <2>4. TypeOK'
    BY <1>12, <2>1, <2>2 DEF Restart
  <2>5. Counted'
    BY <1>12, <2>1 DEF Restart
  <2>6. Quiet'
    BY <1>12, <2>1 DEF Restart
  <2> HIDE DEF TypeOK, Counted, Quiet, Inside
  <2> QED BY <2>3, <2>4, <2>5, <2>6
<1> QED BY <1>0, <1>1, <1>2, <1>3, <1>4, <1>5, <1>6, <1>7, <1>8, <1>9, <1>10, <1>11, <1>12
        DEF Next, Writes, Fails

LEMMA LogInvariant == Spec => []LogInv
BY LogInit, LogNext, PTL DEF Spec

(* Every variable of LogFile keeps its type: the semaphore of log.c:58     *)
(* stays at 0 or 1.                                                        *)
THEOREM LogTypes == Spec => []TypeOK
BY LogInvariant, PTL DEF LogInv

(* cur_fsize never underestimates the log (log.c:63).                      *)
THEOREM SizeCounted == Spec => []NotUnderestimated
<1>1. LogInv => NotUnderestimated
  BY DEF LogInv, Counted, NotUnderestimated
<1> QED BY <1>1, LogInvariant, PTL

(* The log stays below max_fsize (log.c:60).                               *)
THEOREM LogStaysBounded == Spec => []LogBounded
<1>1. LogInv => LogBounded
  BY DEF LogInv, TypeOK, Counted, LogBounded
<1> QED BY <1>1, LogInvariant, PTL
=============================================================================
