---------------------------- MODULE MCCheckQueue ----------------------------
(***************************************************************************)
(* A check queue small enough for TLC, with one check that fails.          *)
(***************************************************************************)
EXTENDS CheckQueue, TLC

CONSTANTS m1, m2, w1, w2, c1, c2, c3, c4

TwoMasters == {m1, m2}
TwoWorkers == {w1, w2}
FourChecks == {c1, c2, c3, c4}
AllButOne == {c1, c2, c3}
=============================================================================
