---------------------------- MODULE MCPollClock ----------------------------
(* Model checking of PollClock with intervals of a few seconds.             *)
EXTENDS PollClock

Intervals == {1, 2, 3, 4, 6, 7, 12}
=============================================================================
