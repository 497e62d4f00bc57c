--------------------------- MODULE MCServerConfig ---------------------------
(* Values for checking ServerConfig: a unit of disk space is half the      *)
(* default, and BACKUP_ROOT has two defaults to give.                      *)
EXTENDS ServerConfig

MCSeconds == {5, 10, 60, 90}
MCSizes == {1, 2, 3}
=============================================================================
