---------------------------- MODULE MCLifecycle ----------------------------
(* Model checking of Lifecycle: two webserver_t one after the other or side *)
(* by side, with one name or two.                                           *)
EXTENDS Lifecycle, TLC

CONSTANTS o1, o2, a, b

TwoObjects == {o1, o2}
OneObject == {o1}
OneName == {a}
TwoNames == {a, b}
TwoSizes == {1, 2}
OneSize == {1}
Symmetric == Permutations(TwoObjects)
=============================================================================
