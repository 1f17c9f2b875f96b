---------------------------- MODULE SerialQueue ----------------------------
(***************************************************************************)
(* What SingleThreadedSchedulerClient promises: callbacks are run one at a *)
(* time, in the order in which they were added, as by a single thread.     *)
(***************************************************************************)
EXTENDS Sequences

CONSTANTS Callbacks, NoCallback

VARIABLES pending,   \* added and not started, oldest first
          current    \* the callback being run, or NoCallback

queueVars == <<pending, current>>

Init == pending = <<>> /\ current = NoCallback

Add(c) == pending' = Append(pending, c) /\ UNCHANGED current

Start ==
    /\ current = NoCallback /\ pending # <<>>
    /\ current' = Head(pending) /\ pending' = Tail(pending)

Finish == current # NoCallback /\ current' = NoCallback /\ UNCHANGED pending

Next == (\E c \in Callbacks : Add(c)) \/ Start \/ Finish

Spec == Init /\ [][Next]_queueVars
=============================================================================
