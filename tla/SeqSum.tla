------------------------------- MODULE SeqSum -------------------------------
(***************************************************************************)
(* Loops of the form                                                       *)
(*     for (const auto& x : s) total += f(x);                              *)
(* over a vector s: PrefixSum(f, s)[i] is the total after i elements.      *)
(***************************************************************************)
EXTENDS Integers, Sequences

PrefixSum(f, s) ==
  LET S[i \in 0..Len(s)] == IF i = 0 THEN 0 ELSE S[i - 1] + f[s[i]]
  IN  S

\* c for every element of W.
Share(P, W, c) == [x \in P |-> IF x \in W THEN c ELSE 0]

SumOver(f, s) == PrefixSum(f, s)[Len(s)]
=============================================================================
