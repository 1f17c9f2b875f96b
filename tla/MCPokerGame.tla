---------------------------- MODULE MCPokerGame ----------------------------
(***************************************************************************)
(* Small tables for TLC: PokerGame with blinds of 1 and 2 and stacks of a  *)
(* few chips, so that short blinds, all-ins, odd pots and busted players   *)
(* all happen within a few actions.                                        *)
(***************************************************************************)
EXTENDS PokerGame, TLC

CONSTANTS a, b, c

Three == {a, b, c}
Two == {a, b}

\* The players are interchangeable until they sit down.
Symmetry == Permutations(Players)
============================================================================
