----------------------------- MODULE MCTracking -----------------------------
(* Model checking of Tracking: two files, one in the server root and one in *)
(* a directory below it.                                                    *)
EXTENDS Tracking

CONSTANTS index, page

TwoFiles == {index, page}
RootFile == {index}
NoFaults == {}
ListFaults == {"list"}
WriteFaults == {"write"}
MoveCommands == {"restore-mode", "restore-tamper file", "clear-tamper all",
                 "clear-tamper file", "view tamper-filename"}
ModeCommands == {"restore-mode", "restore-tamper all", "restore-tamper file"}
PauseCommands == {"monitor enable", "monitor disable"}
ClearCommands == {"clear-tamper all"}
FaultCommands == AllCommands \ {"restore-mode", "view tamper-filename"}
OneFile == {page}
NoFile == {}
AllFaults == {"list", "write", "exceed"}
=============================================================================
