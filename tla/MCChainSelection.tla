-------------------------- MODULE MCChainSelection --------------------------
(* One heavy block against a branch of three: on the way from a1 to b3     *)
(* the chain has less, as much and then more work than before.             *)
EXTENDS ChainSelection, TLC

CONSTANTS g, a1, b1, b2, b3, c2, t1, t2

Tree == {g, a1, b1, b2, b3}
Parents == a1 :> g @@ b1 :> g @@ b2 :> b1 @@ b3 :> b2
Paths == g :> {g} @@ a1 :> {g, a1} @@ b1 :> {g, b1} @@ b2 :> {g, b1, b2} @@ b3 :> {g, b1, b2, b3}
Heights == g :> 0 @@ a1 :> 1 @@ b1 :> 1 @@ b2 :> 2 @@ b3 :> 3
Work == g :> 1 @@ a1 :> 3 @@ b1 :> 2 @@ b2 :> 3 @@ b3 :> 4
Addresses == g :> 0 @@ a1 :> 2 @@ b1 :> 3 @@ b2 :> 1 @@ b3 :> 4

(* Two blocks on one parent.                                               *)
Fork == {g, b1, b2, c2}
ForkParents == b1 :> g @@ b2 :> b1 @@ c2 :> b1
ForkPaths == g :> {g} @@ b1 :> {g, b1} @@ b2 :> {g, b1, b2} @@ c2 :> {g, b1, c2}
ForkHeights == g :> 0 @@ b1 :> 1 @@ b2 :> 2 @@ c2 :> 2
ForkWork == g :> 1 @@ b1 :> 2 @@ b2 :> 3 @@ c2 :> 3
ForkAddresses == g :> 0 @@ b1 :> 2 @@ b2 :> 1 @@ c2 :> 3

LeastId == -2
TwoThreads == {t1, t2}
Symmetric == Permutations(TwoThreads)
=============================================================================
