----------------------------- MODULE MCBaseline -----------------------------
(* Two directories, one of which may hold another of the second's name;    *)
(* the same names two levels deep only; and files side by side whose names *)
(* begin alike.                                                            *)
EXTENDS Baseline

MCDirName == {"d", "e"}
MCDeep == << <<"d">>, <<"e">>, <<"d", "e">>, <<"d", "x">>, <<"d", "e", "x">>, <<"e", "x">> >>
MCNone == {}

MCFlat == << <<"a">>, <<"ab">>, <<"d">>, <<"d", "a">> >>
MCLonger == {<<"a", "ab">>}
=============================================================================
