---------------------------- MODULE MCReporting ----------------------------
(* One file in a directory below the server root. *)
EXTENDS Reporting

CONSTANTS page

OneFile == {page}
NoFile == {}
ListFaults == {"list"}
ModeCommands == {"restore-mode", "restore-tamper file", "monitor disable"}
=============================================================================
