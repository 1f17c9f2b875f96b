--------------------------- MODULE MCChainstateDB ---------------------------
(***************************************************************************)
(* A fork: after a comes b, or c and then d.  Block a pays outpoint 1.     *)
(* The transaction from 1 to 3 is in b, where 3 is spent at once, and in   *)
(* d, where it makes a coin of another height.                             *)
(***************************************************************************)
EXTENDS ChainstateDB

CONSTANTS g, a, b, c, d

FiveBlocks == {g, a, b, c, d}

Fork == [x \in {a, b, c, d} |-> CASE x = a -> g [] x = b -> a [] x = c -> a [] x = d -> c]

ForkPaths ==
    [x \in FiveBlocks |-> CASE x = g -> {g} [] x = a -> {g, a} [] x = b -> {g, a, b}
                             [] x = c -> {g, a, c} [] x = d -> {g, a, c, d}]

ForkHeights == [x \in FiveBlocks |-> CASE x = g -> 0 [] x = a -> 1 [] x \in {b, c} -> 2 [] x = d -> 3]

Coinbase(o) == [spends |-> {}, creates |-> {o}]
Moves(from, to) == [spends |-> {from}, creates |-> {to}]

ForkTxs ==
    [x \in FiveBlocks |->
        CASE x = g -> <<>>
          [] x = a -> <<Coinbase(1)>>
          [] x = b -> <<Coinbase(2), Moves(1, 3), Moves(3, 4)>>
          [] x = c -> <<Coinbase(5)>>
          [] x = d -> <<Coinbase(2), Moves(1, 3), Moves(5, 4)>>]
=============================================================================
