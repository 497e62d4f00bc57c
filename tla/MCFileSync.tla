----------------------------- MODULE MCFileSync -----------------------------
(* Values for checking FileSync. *)
EXTENDS FileSync

MCBlock == {0, 1}
MCTime == 0..2
NoFaults == {}
QuietFaults == {"read", "setstat", "stat"}
WriteFaults == {"write", "open"}
Outside == {"empty", "backup", "poll", "copy", "restore", "adopt"}
=============================================================================
