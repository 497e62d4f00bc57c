-------------------------- MODULE PollClockProofs --------------------------
(***************************************************************************)
(* Theorems about PollClock, for intervals of any length.                  *)
(***************************************************************************)
EXTENDS PollClock, TLAPS

USE PollClockAssumption DEF PollClockAssumption

LEMMA CountBounds ==
  ASSUME NEW n \in Nat, wroot \in Nat \ {0}, wother \in Nat \ {0}
  PROVE  RootCount(n) \in 0 .. wroot + 5 /\ OtherCount(n) \in 0 .. wother + 1
         /\ Waited(n) \in 0 .. wother + 1
<1>1. CASE n > wroot + 5
  <2>1. n - wroot - 1 \in Nat
    BY <1>1
  <2>2. (n - wroot - 1) % 5 \in 0 .. 4
    BY <2>1
  <2>3. wroot + 1 + ((n - wroot - 1) % 5) \in 0 .. wroot + 5
    BY <2>2
  <2> QED BY <1>1, <2>3 DEF RootCount, OtherCount, Waited
<1>2. CASE ~(n > wroot + 5)
  BY <1>2 DEF RootCount, OtherCount, Waited
<1> QED BY <1>1, <1>2

LEMMA ZeroFits == \A n \in Nat : 0 \in 0 .. n + 5 /\ 0 \in 0 .. n + 1
OBVIOUS

LEMMA Defaults == DefaultRoot \in Nat \ {0} /\ DefaultOther \in Nat \ {0}
OBVIOUS

LEMMA ClockInit == Init => TypeOK
<1> SUFFICES ASSUME Init PROVE TypeOK
  OBVIOUS
<1>1. 0 \in 0 .. wroot + 5 /\ 0 \in 0 .. wother + 1
  BY Defaults DEF Init
<1> QED BY <1>1 DEF Init, TypeOK

LEMMA ClockNext == TypeOK /\ [Next]_vars => TypeOK'
<1> SUFFICES ASSUME TypeOK, [Next]_vars PROVE TypeOK'
  OBVIOUS
<1> USE DEF TypeOK
<1>a. wroot \in Nat \ {0} /\ wother \in Nat \ {0} /\ root_count \in Nat /\ other_count \in Nat
      /\ waited \in Nat /\ root_interval \in Nat \ {0} /\ other_interval \in Nat \ {0}
  OBVIOUS
<1>b. 0 \in 0 .. wroot' + 5 /\ 0 \in 0 .. wother' + 1
  <2>1. wroot' \in {wroot, root_interval} /\ wother' \in {wother, other_interval}
    BY DEF Next, vars, cfg, Admin, SetRoot, SetOther, NoRoot, NoOther, ChangeKey, Begin, Turn,
           Leave, FullPass, RootPass, NoPass
  <2> HIDE DEF TypeOK
  <2>2. wroot' \in Nat /\ wother' \in Nat
    BY <2>1, <1>a
  <2> QED BY <2>2, ZeroFits
<1>c. quick' \in BOOLEAN
  BY DEF Next, vars
<1>0. CASE UNCHANGED vars
  BY <1>0 DEF vars, cfg
<1>1. CASE Admin
  <2>1. root_interval' \in Seconds /\ other_interval' \in Seconds /\ changed' \in BOOLEAN
    BY <1>1 DEF Admin, SetRoot, SetOther, NoRoot, NoOther, ChangeKey, cfg
  <2>2. UNCHANGED <<wroot, wother, root_count, other_count, polling, pass, waited>>
    BY <1>1 DEF Admin, SetRoot, SetOther, NoRoot, NoOther, ChangeKey, cfg
  <2> QED BY <1>c, <2>1, <2>2
<1>2. CASE Begin
  BY <1>c, <1>2, <1>b DEF Begin, cfg
<1>3. CASE Leave
  BY <1>c, <1>3 DEF Leave, cfg
<1>4. CASE FullPass
  BY <1>c, <1>4, <1>b DEF FullPass, cfg
<1>5. CASE RootPass
  <2>1. PICK delta \in Delays(PassTime) :
          /\ root_count' = RootCount(delta)
          /\ other_count' = OtherCount(other_count + 1 + delta)
    BY <1>5 DEF RootPass
  <2>2. delta \in Nat /\ other_count + 1 + delta \in Nat
    BY <1>a DEF Delays
  <2>3. root_count' \in 0 .. wroot + 5 /\ other_count' \in 0 .. wother + 1
    BY <1>a, <2>1, <2>2, CountBounds
  <2> QED BY <1>c, <1>5, <1>a, <2>3 DEF RootPass, cfg
<1>6. CASE NoPass
  <2>1. PICK delta \in Delays(Tick) :
          /\ root_count' = RootCount(root_count + 1 + delta)
          /\ other_count' = OtherCount(other_count + 1 + delta)
    BY <1>6 DEF NoPass
  <2>2. root_count + 1 + delta \in Nat /\ other_count + 1 + delta \in Nat /\ waited + 1 \in Nat
    BY <1>a DEF Delays
  <2>3. root_count' \in 0 .. wroot + 5 /\ other_count' \in 0 .. wother + 1
    BY <1>a, <2>1, <2>2, CountBounds
  <2>4. Waited(waited + 1) \in 0 .. wother + 1
    BY <1>a, <2>2, CountBounds
  <2> QED BY <1>c, <1>6, <2>3, <2>4 DEF NoPass, cfg
<1> QED BY <1>0, <1>1, <1>2, <1>3, <1>4, <1>5, <1>6 DEF Next, Turn

(* Every variable of PollClock keeps its type, with the bounds that stand  *)
(* for counters of core.c:1193-1194 which have passed their interval.      *)
THEOREM ClockTypes == Spec => []TypeOK
BY ClockInit, ClockNext, PTL DEF Spec

(* On a quick host, while the worker polls, root_count has not reached its interval, and it *)
(* has counted every turn since the files of the root were compared.       *)
RootInv == quick =>
  /\ waited <= wroot
  /\ polling => root_count < wroot /\ waited <= root_count

(* On a quick host the files of the root are compared at least every       *)
(* root_interval (core.c:1211-1225), whatever the intervals are and        *)
(* however they change.                                                    *)
THEOREM RootOnTime == Spec => []RootPassOnTime
<1>1. Init => RootInv
  BY DEF Init, RootInv
<1>2. TypeOK /\ RootInv /\ [Next]_vars => RootInv'
  <2> SUFFICES ASSUME TypeOK, RootInv, [Next]_vars, quick, quick' = quick PROVE RootInv'
    BY DEF RootInv, Next, vars
  <2> USE DEF RootInv
  <2>a. wroot \in Nat \ {0} /\ wother \in Nat \ {0} /\ root_count \in Nat /\ waited \in Nat
        /\ root_interval \in Nat \ {0}
    BY DEF TypeOK
  <2>0. CASE UNCHANGED vars
    BY <2>0 DEF vars, cfg
  <2>1. CASE Admin
    BY <2>1 DEF Admin, SetRoot, SetOther, NoRoot, NoOther, ChangeKey
  <2>2. CASE Begin
    BY <2>2, <2>a DEF Begin, cfg
  <2>3. CASE Leave \/ FullPass
    BY <2>3, <2>a DEF Leave, FullPass, Stays
  <2>4. CASE RootPass
    <3>1. Delays(PassTime) = {0}
      BY DEF Delays
    <3>2. root_count' = 0
      BY <2>4, <2>a, <3>1 DEF RootPass, RootCount
    <3> QED BY <2>4, <2>a, <3>2 DEF RootPass
  <2>5. CASE NoPass
    <3>1. Delays(Tick) = {0}
      BY DEF Delays
    <3>2. polling /\ root_count + 1 < wroot
      BY <2>5, <2>a DEF NoPass, Stays
    <3>3. root_count' = root_count + 1
      BY <2>5, <2>a, <3>1, <3>2 DEF NoPass, RootCount
    <3>4. waited' <= waited + 1
      BY <2>5, <2>a DEF NoPass, Waited
    <3>5. waited' \in Int /\ wroot' = wroot /\ waited + 1 <= root_count + 1
      BY <2>5, <2>a, <3>2 DEF NoPass, Waited
    <3> QED BY <2>a, <3>2, <3>3, <3>4, <3>5
  <2> QED BY <2>0, <2>1, <2>2, <2>3, <2>4, <2>5 DEF Next, Turn
<1>3. RootInv => RootPassOnTime
  BY DEF RootInv, RootPassOnTime
<1> QED BY <1>1, <1>2, <1>3, ClockTypes, PTL DEF Spec
=============================================================================
