---------------------------- MODULE MCScheduler ----------------------------
(***************************************************************************)
(* Two servicing threads, two threads that add callbacks, one of which     *)
(* loads blocks.                                                           *)
(***************************************************************************)
EXTENDS Scheduler, TLC

CONSTANTS s1, s2, p1

TwoServers == {s1, s2}
TwoProducers == {p1, Loader}
=============================================================================
