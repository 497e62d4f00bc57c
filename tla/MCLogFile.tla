----------------------------- MODULE MCLogFile -----------------------------
(* Two threads, and lines of which a log takes a few.                      *)
EXTENDS LogFile
CONSTANTS t1, t2
TwoThreads == {t1, t2}
TwoLengths == {1, 3}
=============================================================================
