----------------------------- MODULE MCTreeWalk -----------------------------
(* Small sites for TLC. *)
EXTENDS TreeWalk

SmallDirs == {<<"d">>, <<"e">>}
SmallPath == SmallDirs \cup {<<"d", "x">>, <<"r">>}
=============================================================================
