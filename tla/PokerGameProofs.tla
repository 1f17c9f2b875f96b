-------------------------- MODULE PokerGameProofs --------------------------
(***************************************************************************)
(* Proofs about the poker table of PokerGame, for any number of players,   *)
(* blinds, stacks and hands.                                               *)
(***************************************************************************)
EXTENDS PokerGame, TLAPS, WellFoundedInduction, NaturalsInduction

----------------------------------------------------------------------------
(* What the loops of SeqSum compute.  Induction is over the number of      *)
(* elements summed and rests on IntervalInduction, which speaks of a set   *)
(* of naturals and not of a predicate.                                     *)

\* The element by element sum of f and g.
PointSum(P, f, g) == [x \in P |-> f[x] + g[x]]

\* f changed at x.
Updated(f, x, v) == [f EXCEPT ![x] = v]

\* A non-empty set of naturals has a least element.
LEMMA LeastNatural ==
  ASSUME NEW T \in SUBSET Nat, NEW x \in T
  PROVE  \E m \in T : \A k \in T : m <= k
<1>1. IsWellFoundedOn(OpToRel(<, Nat), Nat)
  BY Zenon, NatLessThanWellFounded
<1>2. PICK m \in T : \A y \in Nat : <<y, m>> \in OpToRel(<, Nat) => ~(y \in T)
  BY Zenon, <1>1, WFMin
<1>3. m \in Nat /\ T \subseteq Nat
  BY Zenon, <1>2
<1>4. ASSUME NEW k \in T PROVE m <= k
  <2>1. ~(k < m)
    BY Zenon, <1>2, <1>3 DEF OpToRel
  <2> QED BY <2>1, <1>3
<1> QED BY <1>4

\* A set that holds 0 and the successor of each of its elements below n holds
\* 0, ..., n.
LEMMA IntervalInduction ==
  ASSUME NEW n \in Nat, NEW A, 0 \in A,
         \A i \in 1..n : i - 1 \in A => i \in A
  PROVE  0..n \subseteq A
<1> DEFINE T == {k \in 0..n : k \notin A}
<1>1. SUFFICES ASSUME NEW x \in T PROVE FALSE
  OBVIOUS
<1>2. PICK m \in T : \A k \in T : m <= k
  <2>1. T \in SUBSET Nat
    OBVIOUS
  <2> HIDE DEF T
  <2> QED BY <2>1, <1>1, LeastNatural
<1>3. m \in 1..n /\ m - 1 \in 0..n /\ ~(m <= m - 1)
  BY <1>2
<1>4. m - 1 \in A
  BY <1>2, <1>3
<1> QED BY <1>2, <1>3, <1>4

\* The recursive definition of PrefixSum has a solution, so PrefixSum is it.
LEMMA PrefixSumDef ==
  ASSUME NEW P, NEW s \in Seq(P), NEW f \in [P -> Int]
  PROVE  /\ PrefixSum(f, s) \in [0..Len(s) -> Int]
         /\ PrefixSum(f, s)[0] = 0
         /\ \A i \in 1..Len(s) : PrefixSum(f, s)[i] = PrefixSum(f, s)[i - 1] + f[s[i]]
<1> DEFINE n == Len(s)
           IsSum(k, g) == /\ g \in [0..k -> Int]
                          /\ g[0] = 0
                          /\ \A i \in 1..k : g[i] = g[i - 1] + f[s[i]]
           A == {k \in 0..n : \E g : IsSum(k, g)}
<1>0. n \in Nat /\ \A i \in 1..n : f[s[i]] \in Int
  OBVIOUS
<1>1. 0..n \subseteq A
  <2>1. 0 \in A
    <3>1. IsSum(0, [i \in 0..0 |-> 0])
      OBVIOUS
    <3>2. 0 \in 0..n
      BY <1>0
    <3> HIDE DEF IsSum
    <3> QED BY <3>1, <3>2
  <2>2. ASSUME NEW m \in 1..n, m - 1 \in A PROVE m \in A
    <3>1. PICK g : IsSum(m - 1, g)
      BY Zenon, <2>2
    <3>2. IsSum(m, [i \in 0..m |-> IF i = m THEN g[m - 1] + f[s[m]] ELSE g[i]])
      BY SMTT(40), <3>1, <1>0
    <3>3. m \in 0..n
      BY <1>0
    <3> QED BY Zenon, <3>2, <3>3
  <2> HIDE DEF A, n
  <2> QED BY Zenon, <2>1, <2>2, <1>0, IntervalInduction
<1>2. PICK g : IsSum(n, g)
  <2>1. n \in 0..n
    BY <1>0
  <2> HIDE DEF IsSum, n
  <2> QED BY <1>1, <2>1
<1>3. g = [i \in 0..n |-> IF i = 0 THEN 0 ELSE g[i - 1] + f[s[i]]]
  BY <1>2, <1>0
<1>4. PrefixSum(f, s) = [i \in 0..n |-> IF i = 0 THEN 0 ELSE PrefixSum(f, s)[i - 1] + f[s[i]]]
  BY Zenon, <1>3 DEF PrefixSum
<1> DEFINE S == PrefixSum(f, s)
           B == {k \in 0..n : S[k] \in Int}
<1>5. /\ S[0] = 0
      /\ \A i \in 1..n : S[i] = S[i - 1] + f[s[i]]
  <2> DEFINE E(i) == S[i - 1] + f[s[i]]
  <2>1. S = [i \in 0..n |-> IF i = 0 THEN 0 ELSE E(i)]
    BY Zenon, <1>4
  <2> HIDE DEF E, S
  <2>2. S[0] = 0 /\ \A i \in 1..n : S[i] = E(i)
    BY <2>1, <1>0
  <2> QED BY <2>2 DEF E
<1>6. 0..n \subseteq B
  <2>1. 0 \in B
    BY <1>5, <1>0
  <2>2. ASSUME NEW i \in 1..n, i - 1 \in B PROVE i \in B
    <3>1. S[i - 1] \in Int /\ f[s[i]] \in Int /\ S[i] = S[i - 1] + f[s[i]] /\ i \in 0..n
      BY <2>2, <1>5, <1>0
    <3> QED BY <3>1
  <2> HIDE DEF B, n
  <2> QED BY Zenon, <2>1, <2>2, <1>0, IntervalInduction
<1>7. S \in [0..n -> Int]
  <2> HIDE DEF S
  <2>1. S = [i \in 0..n |-> S[i]]
    BY <1>4 DEF S
  <2> QED BY <2>1, <1>6
<1> QED BY <1>5, <1>7

\* The total of integers is an integer.
LEMMA SumIsInt ==
  ASSUME NEW P, NEW s \in Seq(P), NEW f \in [P -> Int]
  PROVE  SumOver(f, s) \in Int
<1>1. PrefixSum(f, s) \in [0..Len(s) -> Int]
  BY PrefixSumDef
<1>2. Len(s) \in 0..Len(s)
  OBVIOUS
<1> QED BY <1>1, <1>2 DEF SumOver

\* Summing naturals: every partial total is a natural and none is larger
\* than the next.
LEMMA SumOfNaturals ==
  ASSUME NEW P, NEW s \in Seq(P), NEW f \in [P -> Nat]
  PROVE  /\ PrefixSum(f, s) \in [0..Len(s) -> Nat]
         /\ \A i \in 1..Len(s) : PrefixSum(f, s)[i - 1] <= PrefixSum(f, s)[i]
         /\ SumOver(f, s) \in Nat
<1> DEFINE n == Len(s)
           S == PrefixSum(f, s)
           A == {k \in 0..n : S[k] \in Nat}
<1>0. n \in Nat /\ (\A i \in 1..n : f[s[i]] \in Nat) /\ f \in [P -> Int]
  OBVIOUS
<1>1. /\ S \in [0..n -> Int]
      /\ S[0] = 0
      /\ \A i \in 1..n : S[i] = S[i - 1] + f[s[i]]
  BY <1>0, PrefixSumDef
<1> HIDE DEF S, n
<1>2. 0 \in A
  BY <1>0, <1>1
<1>a. ASSUME NEW i \in 1..n
      PROVE  /\ i - 1 \in 0..n /\ i \in 0..n
             /\ f[s[i]] \in Nat
             /\ S[i - 1] \in Int /\ S[i] = S[i - 1] + f[s[i]]
  BY <1>0, <1>1
<1>3. 0..n \subseteq A
  <2>1. ASSUME NEW i \in 1..n, i - 1 \in A PROVE i \in A
    BY SMTT(40), <2>1, <1>a
  <2> HIDE DEF A
  <2> QED BY Zenon, <1>0, <1>2, <2>1, IntervalInduction
<1>4. S \in [0..n -> Nat]
  BY <1>1, <1>3
<1>5. \A i \in 1..n : S[i - 1] <= S[i]
  BY <1>a
<1> QED BY SMTT(40), <1>0, <1>4, <1>5 DEF S, n, SumOver

\* A loop with one summand that counts is positive.
LEMMA SumPositive ==
  ASSUME NEW P, NEW s \in Seq(P), NEW f \in [P -> Nat],
         NEW k \in 1..Len(s), f[s[k]] > 0
  PROVE  SumOver(f, s) > 0
<1> DEFINE n == Len(s)
           S == PrefixSum(f, s)
           A == {i \in 0..n : i >= k => S[i] > 0}
<1>0. n \in Nat /\ (\A i \in 1..n : f[s[i]] \in Nat) /\ f \in [P -> Int] /\ k \in 1..n
  OBVIOUS
<1>1. /\ S \in [0..n -> Nat]
      /\ \A i \in 1..n : S[i] = S[i - 1] + f[s[i]]
  BY Zenon, <1>0, PrefixSumDef, SumOfNaturals
<1> HIDE DEF S, n
<1>2. 0 \in A
  BY <1>0
<1>3. ASSUME NEW i \in 1..n, i - 1 \in A PROVE i \in A
  <2>1. /\ i - 1 \in 0..n /\ i \in 0..n /\ f[s[i]] \in Nat
        /\ S[i - 1] \in Nat /\ S[i] = S[i - 1] + f[s[i]]
    BY SMTT(40), <1>0, <1>1
  <2>2. CASE i = k
    BY <2>1, <2>2
  <2>3. CASE i # k
    BY SMTT(40), <1>0, <1>3, <2>1, <2>3
  <2> QED BY <2>2, <2>3
<1>4. 0..n \subseteq A
  <2> HIDE DEF A
  <2> QED BY Zenon, <1>0, <1>2, <1>3, IntervalInduction
<1> QED BY <1>0, <1>4 DEF S, n, SumOver

\* Adding element by element adds the totals.
LEMMA SumOfSums ==
  ASSUME NEW P, NEW s \in Seq(P),
         NEW f \in [P -> Int], NEW g \in [P -> Int]
  PROVE  SumOver(PointSum(P, f, g), s) = SumOver(f, s) + SumOver(g, s)
<1> DEFINE n == Len(s)
           h == PointSum(P, f, g)
           F == PrefixSum(f, s)
           G == PrefixSum(g, s)
           H == PrefixSum(h, s)
           A == {i \in 0..n : H[i] = F[i] + G[i]}
<1>0. n \in Nat /\ \A i \in 1..n : f[s[i]] \in Int /\ g[s[i]] \in Int /\ h[s[i]] = f[s[i]] + g[s[i]]
  BY DEF PointSum
<1>1. h \in [P -> Int]
  BY DEF PointSum
<1> HIDE DEF h
<1>f. F \in [0..n -> Int] /\ F[0] = 0 /\ \A i \in 1..n : F[i] = F[i - 1] + f[s[i]]
  BY PrefixSumDef
<1>g. G \in [0..n -> Int] /\ G[0] = 0 /\ \A i \in 1..n : G[i] = G[i - 1] + g[s[i]]
  BY SMTT(40), PrefixSumDef
<1>h. H \in [0..n -> Int] /\ H[0] = 0 /\ \A i \in 1..n : H[i] = H[i - 1] + h[s[i]]
  BY SMTT(40), <1>1, PrefixSumDef
<1> HIDE DEF F, G, H, n
<1>2. 0 \in A
  <2>1. 0 \in 0..n /\ H[0] = F[0] + G[0]
    BY <1>0, <1>f, <1>g, <1>h
  <2> QED BY <2>1
<1>3. ASSUME NEW i \in 1..n, i - 1 \in A PROVE i \in A
  <2>1. i - 1 \in 0..n /\ i \in 0..n
    BY <1>0
  <2>2. F[i - 1] \in Int /\ F[i] = F[i - 1] + f[s[i]]
    BY Zenon, <2>1, <1>f
  <2>3. G[i - 1] \in Int /\ G[i] = G[i - 1] + g[s[i]]
    BY Zenon, <2>1, <1>g
  <2>4. H[i] = H[i - 1] + h[s[i]] /\ H[i - 1] = F[i - 1] + G[i - 1]
    BY <1>3, <1>h
  <2>5. f[s[i]] \in Int /\ g[s[i]] \in Int /\ h[s[i]] = f[s[i]] + g[s[i]]
    BY Zenon, <1>0
  <2>6. H[i] = (F[i - 1] + G[i - 1]) + (f[s[i]] + g[s[i]])
    BY <2>4, <2>5
  <2>7. F[i] + G[i] = (F[i - 1] + G[i - 1]) + (f[s[i]] + g[s[i]])
    <3> DEFINE x == F[i - 1]
               y == G[i - 1]
               z == f[s[i]]
               w == g[s[i]]
    <3>1. x \in Int /\ y \in Int /\ z \in Int /\ w \in Int /\ F[i] = x + z /\ G[i] = y + w
      BY <2>2, <2>3, <2>5
    <3> HIDE DEF x, y, z, w
    <3>2. F[i] + G[i] = (x + y) + (z + w)
      BY <3>1
    <3> QED BY <3>2 DEF x, y, z, w
  <2> QED BY <2>1, <2>6, <2>7
<1>4. 0..n \subseteq A
  <2> HIDE DEF A
  <2> QED BY Zenon, <1>0, <1>2, <1>3, IntervalInduction
<1> QED BY <1>0, <1>4 DEF F, G, H, n, h, SumOver

\* Counting c for every element of W is c times the number of them.
LEMMA SumOfShares ==
  ASSUME NEW P, NEW s \in Seq(P), NEW W, NEW c \in Int
  PROVE  SumOver(Share(P, W, c), s) = c * SumOver(Share(P, W, 1), s)
<1> DEFINE n == Len(s)
           f == Share(P, W, c)
           g == Share(P, W, 1)
           F == PrefixSum(f, s)
           G == PrefixSum(g, s)
           A == {i \in 0..n : F[i] = c * G[i]}
<1>0. /\ n \in Nat
      /\ f \in [P -> Int] /\ g \in [P -> Int]
      /\ \A i \in 1..n : (f[s[i]] = c /\ g[s[i]] = 1) \/ (f[s[i]] = 0 /\ g[s[i]] = 0)
  BY DEF Share
<1> HIDE DEF f, g
<1>1. /\ F \in [0..n -> Int] /\ G \in [0..n -> Int]
      /\ F[0] = 0 /\ G[0] = 0
      /\ \A i \in 1..n : F[i] = F[i - 1] + f[s[i]]
      /\ \A i \in 1..n : G[i] = G[i - 1] + g[s[i]]
  BY SMTT(40), <1>0, PrefixSumDef
<1> HIDE DEF F, G, n
<1>2. 0 \in A
  BY <1>0, <1>1
<1>3. ASSUME NEW i \in 1..n, i - 1 \in A PROVE i \in A
  <2>1. /\ i - 1 \in 0..n /\ i \in 0..n
        /\ F[i - 1] \in Int /\ G[i - 1] \in Int
        /\ (f[s[i]] = c /\ g[s[i]] = 1) \/ (f[s[i]] = 0 /\ g[s[i]] = 0)
        /\ F[i] = F[i - 1] + f[s[i]]
        /\ G[i] = G[i - 1] + g[s[i]]
    BY <1>0, <1>1
  <2>2. c * (G[i - 1] + 1) = c * G[i - 1] + c
    BY <2>1
  <2> QED BY SMTT(40), <1>3, <2>1, <2>2
<1>4. 0..n \subseteq A
  <2> HIDE DEF A
  <2> QED BY Zenon, <1>0, <1>2, <1>3, IntervalInduction
<1>5. F[n] = c * G[n]
  <2>1. n \in 0..n
    BY <1>0
  <2> QED BY <2>1, <1>4
<1> QED BY <1>5 DEF F, G, n, f, g, SumOver

\* When no element occurs twice, changing f at one of them by d changes the
\* total by d.
LEMMA SumOfUpdate ==
  ASSUME NEW P, NEW s \in Seq(P), NEW f \in [P -> Int],
         \A i, j \in 1..Len(s) : s[i] = s[j] => i = j,
         NEW k \in 1..Len(s), NEW v \in Int
  PROVE  SumOver(Updated(f, s[k], v), s) = SumOver(f, s) + v - f[s[k]]
<1> DEFINE n == Len(s)
           d == v - f[s[k]]
           g == [x \in P |-> IF x = s[k] THEN d ELSE 0]
           h == [f EXCEPT ![s[k]] = v]
           G == PrefixSum(g, s)
           A == {i \in 0..n : G[i] = IF i < k THEN 0 ELSE d}
<1>0. n \in Nat /\ k \in 1..n /\ d \in Int /\ f[s[k]] \in Int
  OBVIOUS
<1>g. g \in [P -> Int]
  BY <1>0
<1>h. h \in [P -> Int]
  OBVIOUS
<1>1. \A i \in 1..n : g[s[i]] = IF i = k THEN d ELSE 0
  OBVIOUS
<1>2. h = [x \in P |-> f[x] + g[x]]
  <2>1. ASSUME NEW x \in P PROVE h[x] = f[x] + g[x]
    <3>1. f[x] \in Int /\ g[x] = IF x = s[k] THEN v - f[s[k]] ELSE 0
      OBVIOUS
    <3>2. h[x] = IF x = s[k] THEN v ELSE f[x]
      OBVIOUS
    <3> HIDE DEF h, g
    <3> QED BY <3>1, <3>2
  <2>2. h = [x \in P |-> h[x]]
    BY Zenon
  <2> HIDE DEF h, g
  <2> QED BY <2>1, <2>2
<1> HIDE DEF g, h
<1>3. G \in [0..n -> Int] /\ G[0] = 0 /\ \A i \in 1..n : G[i] = G[i - 1] + g[s[i]]
  BY SMTT(40), <1>g, PrefixSumDef
<1>4. SumOver(h, s) = SumOver(f, s) + SumOver(g, s)
  <2>1. SumOver(PointSum(P, f, g), s) = SumOver(f, s) + SumOver(g, s)
    BY Zenon, <1>g, SumOfSums
  <2> QED BY <2>1, <1>2 DEF PointSum
<1>5. SumOver(f, s) \in Int
  BY SumIsInt
<1> HIDE DEF G, n, d
<1>6. 0 \in A
  BY <1>0, <1>3
<1>7. ASSUME NEW i \in 1..n, i - 1 \in A PROVE i \in A
  <2>1. i - 1 \in 0..n /\ i \in 0..n /\ G[i - 1] \in Int
    BY <1>0, <1>3
  <2>2. G[i] = G[i - 1] + (IF i = k THEN d ELSE 0)
    BY <1>1, <1>3
  <2> QED BY <1>0, <1>7, <2>1, <2>2
<1>8. 0..n \subseteq A
  <2> HIDE DEF A
  <2> QED BY Zenon, <1>0, <1>6, <1>7, IntervalInduction
<1>9. SumOver(g, s) = d
  <2>1. n \in 0..n /\ ~(n < k)
    BY <1>0
  <2> QED BY <2>1, <1>8 DEF SumOver, G, n
<1> QED BY <1>0, <1>4, <1>5, <1>9 DEF d, h, Updated

\* The number of elements in W is at most the number of elements.
LEMMA SumOfOnes ==
  ASSUME NEW P, NEW s \in Seq(P), NEW W
  PROVE  SumOver(Share(P, W, 1), s) \in Nat /\ SumOver(Share(P, W, 1), s) <= Len(s)
<1> DEFINE n == Len(s)
           f == Share(P, W, 1)
           F == PrefixSum(f, s)
           A == {i \in 0..n : F[i] <= i}
<1>0. n \in Nat /\ f \in [P -> Nat] /\ f \in [P -> Int] /\ \A i \in 1..n : f[s[i]] \in {0, 1}
  BY DEF Share
<1> HIDE DEF f
<1>1. /\ F \in [0..n -> Nat] /\ F[0] = 0
      /\ \A i \in 1..n : F[i] = F[i - 1] + f[s[i]]
  BY ZenonT(40), <1>0, PrefixSumDef, SumOfNaturals
<1> HIDE DEF F, n
<1>2. 0 \in A
  BY <1>0, <1>1
<1>3. ASSUME NEW i \in 1..n, i - 1 \in A PROVE i \in A
  <2>1. /\ i - 1 \in 0..n /\ i \in 0..n /\ f[s[i]] \in {0, 1}
        /\ F[i - 1] \in Nat /\ F[i] = F[i - 1] + f[s[i]] /\ F[i - 1] <= i - 1
    BY <1>0, <1>1, <1>3
  <2> QED BY <2>1
<1>4. 0..n \subseteq A
  <2> HIDE DEF A
  <2> QED BY Zenon, <1>0, <1>2, <1>3, IntervalInduction
<1>5. n \in 0..n
  BY <1>0
<1> QED BY <1>1, <1>4, <1>5 DEF F, f, n, SumOver

\* A loop over nothing but zeros.
LEMMA SumOfZeros ==
  ASSUME NEW P, NEW s \in Seq(P)
  PROVE  SumOver([x \in P |-> 0], s) = 0
<1>1. Share(P, {}, 0) = [x \in P |-> 0] /\ Share(P, {}, 1) = [x \in P |-> 0]
  BY DEF Share
<1>2. SumOver(Share(P, {}, 0), s) = 0 * SumOver(Share(P, {}, 1), s)
  BY SumOfShares
<1>3. SumOver(Share(P, {}, 1), s) \in Nat
  BY SumOfOnes
<1> QED BY <1>1, <1>2, <1>3

----------------------------------------------------------------------------
(* Seats modulo the number of seats.                                       *)

\* The remainder of n * q + j is j.
LEMMA ModUnique ==
  ASSUME NEW n \in Nat \ {0}, NEW q \in Nat, NEW j \in 0..(n - 1)
  PROVE  (n * q + j) % n = j
<1> DEFINE x == n * q + j
           y == x \div n
<1>1. x \in Nat
  OBVIOUS
<1>2. x = n * y + (x % n) /\ y \in Nat /\ x % n \in 0..(n - 1)
  BY <1>1
<1>3. x = n * q + j
  OBVIOUS
<1> HIDE DEF x, y
<1>4. ~(y < q)
  <2>1. SUFFICES ASSUME y < q PROVE FALSE
    OBVIOUS
  <2> DEFINE d == q - y - 1
  <2>2. d \in Nat /\ q = y + 1 + d
    BY <2>1, <1>2
  <2> HIDE DEF d
  <2>3. n * q = n * y + n + n * d /\ n * d \in Nat
    BY <2>2, <1>2
  <2> QED BY <2>3, <1>2, <1>3
<1>5. ~(q < y)
  <2>1. SUFFICES ASSUME q < y PROVE FALSE
    OBVIOUS
  <2> DEFINE d == y - q - 1
  <2>2. d \in Nat /\ y = q + 1 + d
    BY <2>1, <1>2
  <2> HIDE DEF d
  <2>3. n * y = n * q + n + n * d /\ n * d \in Nat
    BY <2>2, <1>2
  <2> QED BY <2>3, <1>2, <1>3
<1>6. y = q
  BY <1>2, <1>4, <1>5
<1> QED BY <1>2, <1>3, <1>6 DEF x

\* Going round the table from any seat number reaches every seat within n steps.
LEMMA SeatReached ==
  ASSUME NEW n \in Nat \ {0}, NEW from \in Nat, NEW j \in 0..(n - 1)
  PROVE  \E k \in 1..n : (from + k) % n = j
<1> DEFINE q == from \div n
           r == from % n
<1>1. from = n * q + r /\ q \in Nat /\ r \in 0..(n - 1)
  OBVIOUS
<1> HIDE DEF q, r
<1>2. CASE r < j
  <2>1. j - r \in 1..n /\ from + (j - r) = n * q + j
    BY <1>1, <1>2
  <2> QED BY Zenon, <2>1, <1>1, ModUnique
<1>3. CASE ~(r < j)
  <2>1. n * (q + 1) = n * q + n /\ q + 1 \in Nat
    BY <1>1
  <2>2. j - r + n \in 1..n /\ from + (j - r + n) = n * (q + 1) + j
    BY <1>1, <1>3, <2>1
  <2> QED BY Zenon, <2>1, <2>2, ModUnique
<1> QED BY <1>2, <1>3

\* The seat after a seat is another one.
LEMMA NextSeatDiffers ==
  ASSUME NEW n \in Nat \ {0, 1}, NEW x \in Nat
  PROVE  (x + 1) % n # x % n
<1> DEFINE q == x \div n
           r == x % n
<1>1. x = n * q + r /\ q \in Nat /\ r \in 0..(n - 1)
  OBVIOUS
<1> HIDE DEF q
<1>2. CASE r + 1 < n
  <2>1. x + 1 = n * q + (r + 1) /\ r + 1 \in 0..(n - 1)
    BY <1>1, <1>2
  <2>2. (x + 1) % n = r + 1
    BY Zenon, <2>1, <1>1, ModUnique
  <2> QED BY <2>2, <1>1
<1>3. CASE ~(r + 1 < n)
  <2>1. n * (q + 1) = n * q + n /\ q + 1 \in Nat /\ 0 \in 0..(n - 1)
    BY <1>1
  <2>2. x + 1 = n * (q + 1) + 0 /\ r # 0
    BY <1>1, <1>3, <2>1
  <2>3. (x + 1) % n = 0
    BY Zenon, <2>1, <2>2, ModUnique
  <2> QED BY <2>2, <2>3
<1> QED BY <1>2, <1>3

\* Who sits at the table is a player.
LEMMA SeatedArePlayers ==
  ASSUME seats \in Seq(Players)
  PROVE  Seated \subseteq Players
BY DEF Seated, NumSeats

\* Changing the amount of one player changes the total of the table by as much.
LEMMA SeatUpdate ==
  ASSUME TypeOK, NEW f \in [Players -> Int], NEW p \in Seated, NEW v \in Int
  PROVE  SumOver(Updated(f, p, v), seats) = SumOver(f, seats) + v - f[p]
<1>1. seats \in Seq(Players) /\ \A k, l \in 1..Len(seats) : seats[k] = seats[l] => k = l
  BY DEF TypeOK, NumSeats
<1>2. PICK k \in 1..Len(seats) : seats[k] = p
  BY DEF Seated, NumSeats
<1>3. SumOver(Updated(f, seats[k], v), seats) = SumOver(f, seats) + v - f[seats[k]]
  BY SMTT(40), <1>1, SumOfUpdate
<1> QED BY <1>2, <1>3

\* GetNextActivePlayer returns a seat number, and the seat of an ACTIVE player
\* whenever there is one.
LEMMA NextActive ==
  ASSUME seats \in Seq(Players), NumSeats # 0, NEW ps, NEW from \in Nat
  PROVE  /\ GetNextActivePlayer(ps, from) \in Nat
         /\ (\E p \in Seated : ps[p] = "ACTIVE") =>
               /\ GetNextActivePlayer(ps, from) < NumSeats
               /\ ps[At(GetNextActivePlayer(ps, from))] = "ACTIVE"
<1> DEFINE n == NumSeats
           ks == ActiveAfter(ps, from)
           k == CHOOSE i \in ks : \A j \in ks : i <= j
<1>0. n \in Nat \ {0}
  BY DEF NumSeats
<1>1. ASSUME ks # {}
      PROVE  k \in 1..n /\ ps[At((from + k) % n)] = "ACTIVE"
  <2>1. ks \in SUBSET Nat
    BY <1>0 DEF ActiveAfter
  <2>2. \E i \in ks : \A j \in ks : i <= j
    <3> HIDE DEF ks
    <3> QED BY Zenon, <1>1, <2>1, LeastNatural
  <2>3. k \in ks
    BY <2>2
  <2> HIDE DEF k
  <2> QED BY <2>3 DEF ActiveAfter
<1>2. ASSUME NEW p \in Seated, ps[p] = "ACTIVE"
      PROVE  ks # {}
  <2>1. PICK i \in 1..n : seats[i] = p
    BY DEF Seated
  <2>2. i - 1 \in 0..(n - 1) /\ (i - 1) + 1 = i
    BY <1>0
  <2>3. PICK m \in 1..n : (from + m) % n = i - 1
    BY Zenon, <1>0, <2>2, SeatReached
  <2>4. ps[At((from + m) % n)] = "ACTIVE"
    BY <1>2, <2>1, <2>2, <2>3 DEF At
  <2> QED BY <2>3, <2>4 DEF ActiveAfter
<1>3. CASE ks = {}
  BY <1>2, <1>3 DEF GetNextActivePlayer
<1>4. CASE ks # {}
  <2>1. GetNextActivePlayer(ps, from) = (from + k) % n
    BY <1>4 DEF GetNextActivePlayer
  <2>2. k \in 1..n /\ ps[At((from + k) % n)] = "ACTIVE"
    BY <1>4, <1>1
  <2> HIDE DEF k, n
  <2>3. (from + k) % n \in 0..(n - 1)
    BY <1>0, <2>2
  <2> QED BY <2>1, <2>2, <2>3, <1>0 DEF n
<1> QED BY <1>3, <1>4

----------------------------------------------------------------------------
(* The inductive invariant.                                                *)

\* A game that has started has at least two seats.
EnoughSeats == phase # "WAITING" => NumSeats >= 2

\* A live hand has a betting round.
RoundIsOpen == Live => round.open

\* No chips lie in front of the players between hands, nor when nobody can
\* act any more: the last round has been collected.
BetsCollected == ~Live \/ NobodyActive => bet = [p \in Players |-> 0]

IInv ==
  /\ TypeOK
  /\ EnoughSeats
  /\ RoundIsOpen
  /\ BetsCollected
  /\ ToCallNonNegative
  /\ TurnIsActive

----------------------------------------------------------------------------
(* The end of a hand.                                                      *)

\* A winner set that is not empty has between one winner and one per seat.
LEMMA WinnersCounted ==
  ASSUME seats \in Seq(Players), NEW W \in SUBSET Seated, W # {}
  PROVE  NumWinners(W) \in Nat /\ NumWinners(W) > 0 /\ NumWinners(W) <= NumSeats
<1> DEFINE f == Share(Players, W, 1)
<1>1. PICK k \in 1..Len(seats) : seats[k] \in W
  BY DEF Seated, NumSeats
<1>2. f \in [Players -> Nat] /\ f[seats[k]] > 0
  BY <1>1 DEF Share
<1> HIDE DEF f
<1>3. SumOver(f, seats) > 0
  BY <1>2, SumPositive
<1>4. SumOver(f, seats) \in Nat /\ SumOver(f, seats) <= Len(seats)
  BY SumOfOnes DEF f
<1> QED BY <1>3, <1>4 DEF NumWinners, NumSeats, f

\* EndHand pays natural amounts, never more than the pot, and keeps back less
\* than one chip per seat when somebody is left to be paid.
LEMMA EndHandPays ==
  ASSUME seats \in Seq(Players), NEW st \in [Players -> Nat], NEW ps, NEW total \in Nat,
         EndHand(st, ps, total)
  PROVE  /\ phase' = "COMPLETE"
         /\ stack' \in [Players -> Nat]
         /\ SumOver(stack', seats) <= SumOver(st, seats) + total
         /\ PlayersInHand(ps) # {} =>
              SumOver(st, seats) + total - SumOver(stack', seats) < NumSeats
<1>1. PICK W \in WinnerSets(ps) :
        stack' = [p \in Players |-> IF p \in W THEN st[p] + PotPerWinner(W, total) ELSE st[p]]
  BY DEF EndHand
<1>2. W \in SUBSET Seated /\ (PlayersInHand(ps) # {} => W # {})
  BY DEF WinnerSets, PlayersInHand
<1>3. SumOver(st, seats) \in Nat
  BY SumOfNaturals
<1>4. CASE W = {}
  <2>1. stack' = st
    BY <1>1, <1>4
  <2> QED BY <2>1, <1>2, <1>3, <1>4 DEF EndHand
<1>5. CASE W # {}
  <2> DEFINE n == NumWinners(W)
             c == PotPerWinner(W, total)
             g == Share(Players, W, c)
  <2>1. n \in Nat /\ n > 0 /\ n <= NumSeats /\ NumSeats \in Nat
    BY <1>2, <1>5, WinnersCounted DEF NumSeats
  <2>2. c = total \div n
    BY DEF PotPerWinner
  <2> HIDE DEF n, c
  <2>3. c \in Nat /\ total = n * c + (total % n) /\ total % n \in 0..(n - 1)
    BY <2>1, <2>2
  <2>4. stack' \in [Players -> Nat]
    BY <1>1, <2>3 DEF c
  <2>5. stack' = PointSum(Players, st, g)
    <3>1. \A p \in Players : g[p] = IF p \in W THEN c ELSE 0
      BY DEF Share
    <3> HIDE DEF g
    <3>2. \A p \in Players : st[p] \in Nat /\ stack'[p] = st[p] + g[p]
      BY <1>1, <3>1, <2>3 DEF c
    <3> QED BY <2>4, <3>2 DEF PointSum
  <2>6. g \in [Players -> Int] /\ st \in [Players -> Int]
    BY <2>3 DEF Share
  <2>7. SumOver(PointSum(Players, st, g), seats) = SumOver(st, seats) + SumOver(g, seats)
    <3> HIDE DEF g
    <3> QED BY <2>6, SumOfSums
  <2>8. SumOver(g, seats) = c * n
    BY <2>3, SumOfShares DEF n, NumWinners
  <2>9. c * n = n * c /\ c * n \in Nat
    BY <2>1, <2>3
  <2>10. SumOver(stack', seats) = SumOver(st, seats) + total - (total % n)
    BY <2>5, <2>7, <2>8, <2>9, <2>3, <1>3
  <2> QED BY SMTT(40), <2>1, <2>3, <2>4, <2>10, <1>3 DEF EndHand
<1> QED BY <1>4, <1>5

----------------------------------------------------------------------------
(* A step that moves the turn or the phase keeps the invariant.            *)

\* Taking cards leaves a deck.
LEMMA DeckTyped ==
  ASSUME TypeOK, NEW n \in Nat
  PROVE  Dealt(n) \in Nat /\ Dealt(n) <= n /\ deck + Dealt(n) \in 0..DeckSize
BY ConfigAssumption DEF TypeOK, Dealt

\* The turn after GetNextActivePlayer, in a state with the same seats.
LEMMA TurnMoves ==
  ASSUME TypeOK, EnoughSeats, phase # "WAITING", NEW from \in Nat,
         seats' = seats, cur' = GetNextActivePlayer(pstate', from)
  PROVE  cur' \in Nat /\ TurnIsActive'
<1>1. seats \in Seq(Players) /\ NumSeats # 0
  BY DEF TypeOK, EnoughSeats, NumSeats
<1>2. /\ cur' \in Nat
      /\ (\E p \in Seated : pstate'[p] = "ACTIVE") =>
           cur' < NumSeats /\ pstate'[At(cur')] = "ACTIVE"
  BY <1>1, NextActive
<1> QED BY <1>2 DEF TurnIsActive, NobodyActive, Seated, NumSeats, At

\* AdvancePhase after the bets have been collected.
LEMMA AdvanceKeepsIInv ==
  ASSUME TypeOK, EnoughSeats, Live,
         NEW st \in [Players -> Nat], NEW ps \in [Players -> PlayerStates],
         NEW rd \in Rounds, NEW total \in Nat, NEW c \in Nat,
         AdvancePhase(st, ps, rd, total, c),
         seats' = seats, dealer' = dealer, hands' = hands,
         bet' = [p \in Players |-> 0], hole' \in [Players -> Nat]
  PROVE  IInv'
<1>1. phase \in LivePhases /\ phase # "WAITING" /\ phase \in Phases /\ pstate' = ps /\ pot' = total
  BY DEF Live, LivePhases, AdvancePhase, TypeOK
<1>2. CASE AtMostOne(PlayersInHand(ps)) \/ phase = "RIVER"
  <2>1. /\ EndHand(st, ps, total)
        /\ round' = rd /\ cur' = c
        /\ UNCHANGED <<deck, community>>
    BY <1>2 DEF AdvancePhase
  <2>2. phase' = "COMPLETE" /\ stack' \in [Players -> Nat]
    BY Zenon, <2>1, EndHandPays DEF TypeOK
  <2>3. TypeOK'
    BY <1>1, <2>1, <2>2 DEF TypeOK, Phases, NumSeats
  <2>4. ~Live'
    BY <2>2 DEF Live, LivePhases
  <2> QED BY <1>1, <2>3, <2>4
          DEF IInv, EnoughSeats, NumSeats, RoundIsOpen, BetsCollected, ToCallNonNegative, TurnIsActive
<1>3. CASE ~(AtMostOne(PlayersInHand(ps)) \/ phase = "RIVER")
  <2> DEFINE taken == Dealt(BurntCards(phase) + BoardCards(phase))
  <2>1. /\ phase' = NextPhase(phase)
        /\ deck' = deck + taken
        /\ community' = IF taken = 0 THEN community ELSE community + taken - BurntCards(phase)
        /\ round' = EmptyRound(0)
        /\ cur' = GetNextActivePlayer(ps, dealer)
        /\ stack' = st
    BY <1>3 DEF AdvancePhase
  <2>2. phase' \in {"FLOP", "TURN", "RIVER"} /\ BurntCards(phase) = 1 /\ BoardCards(phase) \in Nat
    BY <1>1, <1>3, <2>1 DEF LivePhases, NextPhase, BurntCards, BoardCards
  <2>3. taken \in Nat /\ deck' \in 0..DeckSize
    BY <2>1, <2>2, DeckTyped
  <2>4. community' \in Nat
    <3>1. community \in Nat
      BY Zenon DEF TypeOK
    <3> HIDE DEF taken
    <3> QED BY <2>1, <2>2, <2>3, <3>1
  <2>5. cur' \in Nat /\ TurnIsActive'
    BY Zenon, <1>1, <2>1, TurnMoves DEF TypeOK
  <2>6. round' \in Rounds /\ round'.open /\ round'.currentBet = 0
    <3>1. round' = EmptyRound(0)
      BY Zenon, <2>1
    <3> HIDE DEF taken
    <3> QED BY SMTT(40), <3>1 DEF EmptyRound, Rounds
  <2>7. TypeOK'
    BY Zenon, <1>1, <2>1, <2>2, <2>3, <2>4, <2>5, <2>6 DEF TypeOK, Phases, NumSeats
  <2>8. ToCallNonNegative'
    <3>1. \A p \in Seated' : p \in Players
      <4>1. seats \in Seq(Players) /\ Seated' = Seated
        BY DEF TypeOK, Seated, NumSeats
      <4> QED BY Zenon, <4>1, SeatedArePlayers
    <3> QED BY <2>6, <3>1 DEF ToCallNonNegative
  <2>9. EnoughSeats' /\ RoundIsOpen' /\ BetsCollected'
    BY Zenon, <1>1, <2>6 DEF EnoughSeats, NumSeats, RoundIsOpen, BetsCollected
  <2> QED BY Zenon, <2>5, <2>7, <2>8, <2>9 DEF IInv
<1> QED BY <1>2, <1>3

\* The tail of ProcessAction, for an action that leaves natural amounts, an
\* open round with an action in it, and no ACTIVE player above the bet.
LEMMA ProceedKeepsIInv ==
  ASSUME IInv, Live,
         NEW st \in [Players -> Nat], NEW bt \in [Players -> Nat],
         NEW ps \in [Players -> PlayerStates], NEW rd \in Rounds,
         rd.open, rd.acted # {},
         \A p \in Seated : ps[p] = "ACTIVE" => bt[p] <= rd.currentBet,
         hole' \in [Players -> Nat],
         Proceed(st, bt, ps, rd)
  PROVE  IInv'
<1> DEFINE nx == GetNextActivePlayer(ps, cur)
<1>0. TypeOK /\ EnoughSeats /\ phase # "WAITING"
  BY DEF IInv, Live, LivePhases
<1>1. TypeOK /\ EnoughSeats /\ phase # "WAITING" /\ cur \in Nat /\ seats \in Seq(Players)
      /\ NumSeats # 0
  <2>1. cur \in Nat /\ seats \in Seq(Players)
    BY <1>0 DEF TypeOK
  <2>2. NumSeats # 0
    BY <1>0, <2>1 DEF EnoughSeats, NumSeats
  <2> QED BY Zenon, <1>0, <2>1, <2>2
<1>2. seats' = seats /\ dealer' = dealer /\ hands' = hands
  BY DEF Proceed
<1>3. nx \in Nat
  BY <1>1, NextActive
<1>4. CASE IsRoundComplete(ps, bt, rd)
  <2>1. bet' = [p \in Players |-> 0] /\ AdvancePhase(st, ps, rd, pot + SumOver(bt, seats), nx)
    BY SMTT(40), <1>4 DEF Proceed
  <2>2. pot + SumOver(bt, seats) \in Nat
    <3>1. SumOver(bt, seats) \in Nat
      BY Zenon, <1>1, SumOfNaturals
    <3>2. pot \in Nat
      BY <1>1 DEF TypeOK
    <3> QED BY <3>1, <3>2
  <2> HIDE DEF nx
  <2> QED BY Zenon, <1>1, <1>2, <1>3, <2>1, <2>2, AdvanceKeepsIInv
<1>5. CASE ~IsRoundComplete(ps, bt, rd)
  <2>1. /\ stack' = st /\ bet' = bt /\ pstate' = ps /\ round' = rd /\ cur' = nx
        /\ UNCHANGED <<phase, pot, deck, community>>
    BY <1>5 DEF Proceed
  <2>2. cur' \in Nat /\ TurnIsActive'
    BY Zenon, <1>1, <1>2, <2>1, TurnMoves
  <2>3. TypeOK'
    BY Zenon, <1>1, <1>2, <2>1, <2>2 DEF TypeOK, NumSeats
  <2>4. ToCallNonNegative'
    BY Zenon, <1>2, <2>1 DEF ToCallNonNegative, Seated, NumSeats
  <2>5. Live' /\ ~NobodyActive'
    BY Zenon, <1>2, <1>5, <2>1 DEF Live, NobodyActive, IsRoundComplete, Seated, NumSeats
  <2>6. EnoughSeats' /\ RoundIsOpen' /\ BetsCollected'
    BY <1>1, <1>2, <2>1, <2>5 DEF EnoughSeats, NumSeats, RoundIsOpen, BetsCollected
  <2> QED BY Zenon, <2>2, <2>3, <2>4, <2>6 DEF IInv
<1> QED BY <1>4, <1>5

----------------------------------------------------------------------------
(* The six player actions.                                                 *)

\* What an action may assume of the player on turn.
LEMMA OnTurn ==
  ASSUME IInv, Live, NEW p \in Players, IsTurn(p)
  PROVE  /\ TypeOK /\ p \in Seated /\ pstate[p] = "ACTIVE"
         /\ stack[p] \in Nat /\ bet[p] \in Nat
         /\ round \in Rounds /\ round.open /\ round.currentBet \in Nat
         /\ bet[p] <= round.currentBet
         /\ \A q \in Seated : q \in Players /\ bet[q] \in Nat
         /\ \A q \in Seated : pstate[q] = "ACTIVE" => bet[q] <= round.currentBet
<1>1. TypeOK /\ RoundIsOpen /\ ToCallNonNegative
  BY DEF IInv
<1>2. p \in Seated /\ pstate[p] = "ACTIVE"
  BY SMTT(40) DEF IsTurn
<1>3. stack \in [Players -> Nat] /\ bet \in [Players -> Nat] /\ round \in Rounds /\ seats \in Seq(Players)
  BY <1>1 DEF TypeOK
<1>4. Seated \subseteq Players
  BY <1>3, SeatedArePlayers
<1>5. round.currentBet \in Nat
  BY <1>3 DEF Rounds
<1>6. \A q \in Seated : pstate[q] = "ACTIVE" => bet[q] <= round.currentBet
  BY <1>1 DEF ToCallNonNegative
<1>7. round.open
  BY Zenon, <1>1 DEF RoundIsOpen
<1> QED BY <1>1, <1>2, <1>3, <1>4, <1>5, <1>6, <1>7

\* The round after an action is a round with an action in it.
LEMMA ActionRecorded ==
  ASSUME round \in Rounds, round.open, NEW p \in Players
  PROVE  /\ WithAction(p) \in Rounds /\ WithAction(p).open /\ WithAction(p).acted # {}
         /\ WithAction(p).currentBet = round.currentBet
         /\ \A b, x \in Nat :
              /\ WithRaise(p, b, x) \in Rounds /\ WithRaise(p, b, x).open
              /\ WithRaise(p, b, x).acted # {} /\ WithRaise(p, b, x).currentBet = b
<1>1. /\ WithAction(p) \in Rounds /\ WithAction(p).open /\ WithAction(p).acted # {}
      /\ WithAction(p).currentBet = round.currentBet
  BY DEF WithAction, Rounds
<1>2. ASSUME NEW b \in Nat, NEW x \in Nat
      PROVE  /\ WithRaise(p, b, x) \in Rounds /\ WithRaise(p, b, x).open
             /\ WithRaise(p, b, x).acted # {} /\ WithRaise(p, b, x).currentBet = b
  BY Zenon, <1>1 DEF WithRaise, Rounds
<1> QED BY <1>1, <1>2

\* An action that moves x chips of p in front of p.
LEMMA BetKeepsIInv ==
  ASSUME IInv, Live, NEW p \in Players, IsTurn(p),
         NEW x \in Nat, x <= stack[p],
         NEW ps \in [Players -> PlayerStates], NEW rd \in Rounds,
         rd.open, rd.acted # {}, rd.currentBet >= round.currentBet,
         \A q \in Seated : ps[q] = "ACTIVE" => pstate[q] = "ACTIVE",
         ps[p] = "ACTIVE" => bet[p] + x <= rd.currentBet,
         BetAndProceed(p, x, ps, rd)
  PROVE  IInv'
<1> DEFINE st == [stack EXCEPT ![p] = @ - x]
           bt == [bet EXCEPT ![p] = @ + x]
<1>1. stack \in [Players -> Nat] /\ bet \in [Players -> Nat] /\ hole \in [Players -> Nat]
  BY Zenon DEF IInv, TypeOK
<1>2. st \in [Players -> Nat] /\ bt \in [Players -> Nat]
  BY SMTT(40), <1>1
<1>3. hole' \in [Players -> Nat] /\ Proceed(st, bt, ps, rd)
  BY <1>1 DEF BetAndProceed
<1>4. ASSUME NEW q \in Seated, ps[q] = "ACTIVE" PROVE bt[q] <= rd.currentBet
  <2>1. q \in Players /\ bet[q] \in Nat /\ bet[q] <= round.currentBet /\ round.currentBet \in Nat
    BY Zenon, <1>4, OnTurn
  <2>2. rd.currentBet \in Nat
    BY Zenon DEF Rounds
  <2>3. CASE q = p
    BY Zenon, <2>3, <1>1, <1>4
  <2>4. CASE q # p
    BY <2>1, <2>2, <2>4, <1>1
  <2> QED BY Zenon, <2>3, <2>4
<1> HIDE DEF st, bt
<1> QED BY Zenon, <1>2, <1>3, <1>4, ProceedKeepsIInv

\* Folding keeps the invariant.
LEMMA FoldKeepsIInv ==
  ASSUME IInv, Live, NEW p \in Players, Fold(p)
  PROVE  IInv'
<1> DEFINE ps == [pstate EXCEPT ![p] = "FOLDED"]
<1>1. IsTurn(p) /\ Proceed(stack, bet, ps, WithAction(p)) /\ hole' = [hole EXCEPT ![p] = 0]
  BY DEF Fold
<1>2. /\ stack \in [Players -> Nat] /\ bet \in [Players -> Nat]
      /\ pstate \in [Players -> PlayerStates] /\ hole \in [Players -> Nat]
  BY DEF IInv, TypeOK
<1>3. ps \in [Players -> PlayerStates] /\ hole' \in [Players -> Nat]
  BY Zenon, <1>1, <1>2 DEF PlayerStates
<1>4. /\ WithAction(p) \in Rounds /\ WithAction(p).open /\ WithAction(p).acted # {}
      /\ WithAction(p).currentBet = round.currentBet
  BY Zenon, <1>1, OnTurn, ActionRecorded
<1>5. \A q \in Seated : ps[q] = "ACTIVE" => bet[q] <= WithAction(p).currentBet
  BY Zenon, <1>1, <1>2, <1>4, OnTurn
<1> HIDE DEF ps
<1> QED BY Zenon, <1>1, <1>2, <1>3, <1>4, <1>5, ProceedKeepsIInv

\* Checking keeps the invariant.
LEMMA CheckKeepsIInv ==
  ASSUME IInv, Live, NEW p \in Players, Check(p)
  PROVE  IInv'
<1>1. IsTurn(p) /\ Proceed(stack, bet, pstate, WithAction(p)) /\ hole' = hole
  BY DEF Check
<1>2. /\ stack \in [Players -> Nat] /\ bet \in [Players -> Nat]
      /\ pstate \in [Players -> PlayerStates] /\ hole' \in [Players -> Nat]
  BY Zenon, <1>1 DEF IInv, TypeOK
<1>3. /\ WithAction(p) \in Rounds /\ WithAction(p).open /\ WithAction(p).acted # {}
      /\ WithAction(p).currentBet = round.currentBet
  BY Zenon, <1>1, OnTurn, ActionRecorded
<1>4. \A q \in Seated : pstate[q] = "ACTIVE" => bet[q] <= WithAction(p).currentBet
  BY <1>1, <1>3, OnTurn
<1> QED BY SMTT(40), <1>1, <1>2, <1>3, <1>4, ProceedKeepsIInv

\* Calling, betting, raising and going all in keep the invariant.
LEMMA ChipActionsKeepIInv ==
  ASSUME IInv, Live, NEW p \in Players,
         \/ Call(p)
         \/ \E amount \in Amounts : Bet(p, amount) \/ Raise(p, amount)
         \/ AllIn(p)
  PROVE  IInv'
<1>1. IsTurn(p)
  BY Zenon DEF Call, Bet, Raise, AllIn
<1>2. /\ stack[p] \in Nat /\ bet[p] \in Nat /\ round.currentBet \in Nat
      /\ bet[p] <= round.currentBet /\ pstate \in [Players -> PlayerStates]
      /\ round \in Rounds /\ round.open
  BY <1>1, OnTurn DEF IInv, TypeOK
<1>3. /\ WithAction(p) \in Rounds /\ WithAction(p).open /\ WithAction(p).acted # {}
      /\ WithAction(p).currentBet = round.currentBet
      /\ \A b, x \in Nat :
           /\ WithRaise(p, b, x) \in Rounds /\ WithRaise(p, b, x).open
           /\ WithRaise(p, b, x).acted # {} /\ WithRaise(p, b, x).currentBet = b
  BY ZenonT(40), <1>2, ActionRecorded
<1>4. ToCall(p) \in Nat /\ bet[p] + ToCall(p) = round.currentBet
  BY <1>2 DEF ToCall
<1>5. CASE Call(p)
  <2>1. ToCall(p) <= stack[p] /\ BetAndProceed(p, ToCall(p), pstate, WithAction(p))
    BY ZenonT(40), <1>2, <1>4, <1>5 DEF Call
  <2>2. WithAction(p).currentBet >= round.currentBet /\ bet[p] + ToCall(p) <= WithAction(p).currentBet
    BY SMTT(40), <1>2, <1>3, <1>4
  <2> QED BY Zenon, <1>1, <1>2, <1>3, <1>4, <2>1, <2>2, BetKeepsIInv
<1>6. ASSUME NEW amount \in Amounts, Bet(p, amount) PROVE IInv'
  <2>0. amount \in Nat
    BY Zenon, ConfigAssumption
  <2>1. amount \in Nat /\ bet[p] + amount \in Nat
    BY <1>2, <2>0
  <2> DEFINE rd == WithRaise(p, bet[p] + amount, amount)
  <2>2. /\ round.currentBet = 0 /\ amount <= stack[p]
        /\ BetAndProceed(p, amount, pstate, rd)
    BY Zenon, <1>2, <1>6, <2>1 DEF Bet
  <2>3. rd \in Rounds /\ rd.open /\ rd.acted # {} /\ rd.currentBet = bet[p] + amount
    BY Zenon, <1>3, <2>1
  <2>4. rd.currentBet >= round.currentBet /\ bet[p] + amount <= rd.currentBet
    BY SMTT(40), <2>1, <2>2, <2>3
  <2> HIDE DEF rd
  <2> QED BY Zenon, <1>1, <1>2, <2>1, <2>2, <2>3, <2>4, BetKeepsIInv
<1>7. ASSUME NEW amount \in Amounts, Raise(p, amount) PROVE IInv'
  <2> DEFINE total == ToCall(p) + amount
             rd == WithRaise(p, bet[p] + total, total)
  <2>0. amount \in Nat
    BY Zenon, ConfigAssumption
  <2>1. amount \in Nat /\ total \in Nat /\ bet[p] + total \in Nat
    BY <1>2, <1>4, <2>0
  <2>2. total <= stack[p] /\ BetAndProceed(p, total, pstate, rd)
    BY Zenon, <1>2, <1>7, <2>1 DEF Raise
  <2>3. rd \in Rounds /\ rd.open /\ rd.acted # {} /\ rd.currentBet = bet[p] + total
    BY Zenon, <1>3, <2>1
  <2>4. bet[p] + total >= round.currentBet
    BY <1>2, <1>4, <2>1
  <2> HIDE DEF rd, total
  <2>5. rd.currentBet >= round.currentBet /\ bet[p] + total <= rd.currentBet
    BY <2>1, <2>3, <2>4
  <2> QED BY Zenon, <1>1, <1>2, <2>1, <2>2, <2>3, <2>5, BetKeepsIInv
<1>8. CASE AllIn(p)
  <2> DEFINE ps == [pstate EXCEPT ![p] = "ALL_IN"]
  <2>1. BetAndProceed(p, stack[p], ps, WithAction(p))
    BY <1>8 DEF AllIn
  <2>2. ps \in [Players -> PlayerStates] /\ ps[p] # "ACTIVE"
    BY Zenon, <1>2 DEF PlayerStates
  <2>3. \A q \in Seated : ps[q] = "ACTIVE" => pstate[q] = "ACTIVE"
    BY Zenon, <1>1, <1>2, OnTurn
  <2>4. WithAction(p).currentBet >= round.currentBet /\ stack[p] <= stack[p]
    BY <1>2, <1>3
  <2> HIDE DEF ps
  <2> QED BY ZenonT(40), <1>1, <1>2, <1>3, <2>1, <2>2, <2>3, <2>4, BetKeepsIInv
<1> QED BY Zenon, <1>5, <1>6, <1>7, <1>8

----------------------------------------------------------------------------
(* Starting a hand.                                                        *)

\* The two blinds are posted by two seats.
LEMMA BlindSeats ==
  ASSUME seats \in Seq(Players), NumSeats >= 2, NEW d \in 0..(NumSeats - 1)
  PROVE  /\ SmallBlindSeat(d) \in 0..(NumSeats - 1)
         /\ BigBlindSeat(d) \in 0..(NumSeats - 1)
         /\ SmallBlindSeat(d) # BigBlindSeat(d)
<1> DEFINE n == NumSeats
<1>0. n \in Nat
  BY DEF NumSeats
<1>1. n \in Nat \ {0, 1} /\ d \in Nat /\ d + 1 \in Nat /\ (d + 1) + 1 = d + 2
  BY <1>0
<1>2. CASE n = 2
  <2>1. d % n = d
    BY <1>1, <1>2
  <2>2. (d + 1) % n # d % n
    BY Zenon, <1>1, NextSeatDiffers
  <2> QED BY <1>1, <1>2, <2>1, <2>2 DEF SmallBlindSeat, BigBlindSeat
<1>3. CASE n # 2
  <2>1. ((d + 1) + 1) % n # (d + 1) % n
    BY Zenon, <1>1, NextSeatDiffers
  <2>2. (d + 1) % n \in 0..(n - 1) /\ (d + 2) % n \in 0..(n - 1)
    BY <1>1
  <2> QED BY <1>1, <1>3, <2>1, <2>2 DEF SmallBlindSeat, BigBlindSeat
<1> QED BY <1>2, <1>3

\* PostBlinds moves at most a big blind in front of anyone, and only moves it.
LEMMA BlindsPosted ==
  ASSUME TypeOK, NumSeats >= 2, NEW d \in 0..(NumSeats - 1), PostBlinds(d)
  PROVE  /\ stack' \in [Players -> Nat] /\ bet' \in [Players -> Nat]
         /\ \A p \in Players : bet'[p] <= BigBlind
         /\ SumOver(stack', seats) + SumOver(bet', seats) = SumOver(stack, seats)
         /\ (\A p \in Seated : stack[p] = 0) => bet' = [p \in Players |-> 0]
<1> DEFINE i == SmallBlindSeat(d) + 1
           j == BigBlindSeat(d) + 1
           sb == seats[i]
           bb == seats[j]
           x == Blind(stack, sb, SmallBlind)
           st == [stack EXCEPT ![sb] = @ - x]
           y == Blind(st, bb, BigBlind)
           zero == [p \in Players |-> 0]
           b1 == [zero EXCEPT ![sb] = x]
<1>1. seats \in Seq(Players) /\ stack \in [Players -> Nat] /\ NumSeats = Len(seats)
  BY DEF TypeOK, NumSeats
<1>2. i \in 1..Len(seats) /\ j \in 1..Len(seats) /\ i # j
  <2>1. /\ SmallBlindSeat(d) \in 0..(NumSeats - 1) /\ BigBlindSeat(d) \in 0..(NumSeats - 1)
        /\ SmallBlindSeat(d) # BigBlindSeat(d)
    BY <1>1, BlindSeats
  <2>2. NumSeats \in Nat
    BY <1>1
  <2>3. ASSUME NEW n \in Nat, NEW k \in 0..(n - 1) PROVE k + 1 \in 1..n
    OBVIOUS
  <2>4. i \in 1..NumSeats /\ j \in 1..NumSeats
    BY <2>1, <2>2, <2>3
  <2>5. ASSUME NEW k \in Int, NEW l \in Int, k # l PROVE k + 1 # l + 1
    BY <2>5
  <2>6. i # j
    BY <2>1, <2>5
  <2> QED BY <2>4, <2>6, <1>1
<1>3. \A k, l \in 1..Len(seats) : seats[k] = seats[l] => k = l
  BY DEF TypeOK, NumSeats
<1> HIDE DEF i, j
<1>4. sb \in Players /\ bb \in Players /\ sb # bb /\ sb \in Seated /\ bb \in Seated
  BY SMTT(40), <1>1, <1>2, <1>3 DEF Seated
<1>5. stack' = [st EXCEPT ![bb] = @ - y] /\ bet' = [b1 EXCEPT ![bb] = @ + y]
  BY Zenon DEF PostBlinds, At, i, j
<1> HIDE DEF sb, bb
<1>6. x \in Nat /\ x <= stack[sb] /\ x <= SmallBlind /\ (stack[sb] = 0 => x = 0)
  BY SMTT(40), <1>1, <1>4, ConfigAssumption DEF Blind
<1> HIDE DEF x
<1>7. st \in [Players -> Nat] /\ st[bb] = stack[bb] /\ st[sb] = stack[sb] - x
  BY <1>1, <1>4, <1>6
<1>8. y \in Nat /\ y <= st[bb] /\ y <= BigBlind /\ (stack[bb] = 0 => y = 0)
  BY <1>4, <1>7, ConfigAssumption DEF Blind
<1> HIDE DEF y
<1>9. b1 \in [Players -> Nat] /\ b1[bb] = 0 /\ zero \in [Players -> Nat]
  BY Zenon, <1>4, <1>6
<1>10. stack' \in [Players -> Nat] /\ bet' \in [Players -> Nat]
  BY <1>4, <1>5, <1>7, <1>8, <1>9
<1>11. \A p \in Players : bet'[p] <= BigBlind
  <2>1. SmallBlind \in Nat /\ BigBlind \in Nat /\ SmallBlind <= BigBlind
    BY ConfigAssumption
  <2>2. \A p \in Players : bet'[p] = IF p = bb THEN y ELSE IF p = sb THEN x ELSE 0
    BY <1>4, <1>5, <1>6, <1>8, <1>9
  <2> QED BY <2>1, <2>2, <1>6, <1>8
<1>12. SumOver(stack', seats) + SumOver(bet', seats) = SumOver(stack, seats)
  <2>0. /\ stack \in [Players -> Int] /\ st \in [Players -> Int]
        /\ zero \in [Players -> Int] /\ b1 \in [Players -> Int]
        /\ stack[sb] \in Int /\ st[bb] \in Int
    BY SMTT(40), <1>1, <1>4, <1>7, <1>9
  <2>1. SumOver(Updated(stack, sb, stack[sb] - x), seats) = SumOver(stack, seats) + (stack[sb] - x) - stack[sb]
    BY <2>0, <1>4, <1>6, SeatUpdate
  <2>2. SumOver(Updated(st, bb, st[bb] - y), seats) = SumOver(st, seats) + (st[bb] - y) - st[bb]
    <3> HIDE DEF st
    <3> QED BY <2>0, <1>4, <1>8, SeatUpdate
  <2>3. SumOver(Updated(zero, sb, x), seats) = SumOver(zero, seats) + x - zero[sb]
    <3> HIDE DEF zero
    <3> QED BY Zenon, <2>0, <1>4, <1>6, SeatUpdate
  <2>4. SumOver(Updated(b1, bb, b1[bb] + y), seats) = SumOver(b1, seats) + (b1[bb] + y) - b1[bb]
    <3>1. b1[bb] + y \in Int
      BY <1>8, <1>9
    <3> HIDE DEF b1
    <3> QED BY <2>0, <3>1, <1>4, SeatUpdate
  <2>5. SumOver(zero, seats) = 0 /\ zero[sb] = 0
    BY Zenon, <1>1, <1>4, SumOfZeros
  <2>6. SumOver(stack, seats) \in Nat
    BY <1>1, SumOfNaturals
  <2>7. stack[sb] \in Nat /\ st[bb] \in Nat
    BY Zenon, <1>1, <1>4, <1>7
  <2>8. /\ st = Updated(stack, sb, stack[sb] - x) /\ stack' = Updated(st, bb, st[bb] - y)
        /\ b1 = Updated(zero, sb, x) /\ bet' = Updated(b1, bb, b1[bb] + y)
    BY Zenon, <1>5 DEF Updated
  <2> HIDE DEF st, b1, zero
  <2>10. SumOver(st, seats) = SumOver(stack, seats) - x /\ SumOver(b1, seats) = x
    BY <2>1, <2>3, <2>5, <2>6, <2>7, <2>8, <1>6
  <2>11. SumOver(stack', seats) = SumOver(stack, seats) - x - y
    BY <2>2, <2>6, <2>7, <2>8, <2>10, <1>6, <1>8
  <2>12. SumOver(bet', seats) = x + y
    BY <2>4, <2>8, <2>10, <1>6, <1>8, <1>9
  <2> QED BY <2>6, <2>11, <2>12, <1>6, <1>8
<1>13. ASSUME \A p \in Seated : stack[p] = 0 PROVE bet' = [p \in Players |-> 0]
  <2>1. x = 0 /\ y = 0
    BY <1>13, <1>4, <1>6, <1>8
  <2> QED BY <2>1, <1>4, <1>5, <1>9
<1> QED BY <1>10, <1>11, <1>12, <1>13

\* Starting a hand between hands keeps the invariant.
LEMMA BeginHandKeepsIInv ==
  ASSUME IInv, BeginHand
  PROVE  IInv'
<1> DEFINE d == (dealer + 1) % NumSeats
<1>1. TypeOK /\ EnoughSeats /\ phase # "WAITING" /\ NumSeats >= 2
  BY DEF IInv, BeginHand, StartNewHand, EnoughSeats
<1>2. /\ seats \in Seq(Players) /\ NumSeats \in Nat /\ dealer \in Nat /\ hands \in Nat
      /\ stack \in [Players -> Nat] /\ pstate \in [Players -> PlayerStates]
  BY <1>1 DEF TypeOK, NumSeats
<1>3. d \in 0..(NumSeats - 1) /\ d \in Nat
  BY <1>1, <1>2
<1>4. /\ deck' = 0 /\ community' = 0 /\ pot' = 0
      /\ hole' = [p \in Players |-> 0]
      /\ pstate' = ResetStates
      /\ dealer' = d /\ PostBlinds(d)
      /\ phase' = "PREFLOP" /\ hands' = hands + 1 /\ seats' = seats
  BY Zenon DEF BeginHand, StartNewHand
<1> HIDE DEF d
<1>5. /\ stack' \in [Players -> Nat] /\ bet' \in [Players -> Nat]
      /\ \A p \in Players : bet'[p] <= BigBlind
      /\ (\A p \in Seated : stack[p] = 0) => bet' = [p \in Players |-> 0]
  BY Zenon, <1>1, <1>3, <1>4, BlindsPosted
<1>6. round' = EmptyRound(BigBlind) /\ cur' = GetNextActivePlayer(ResetStates, BigBlindSeat(d))
  BY Zenon, <1>4 DEF PostBlinds
<1>7. round' \in Rounds /\ round'.open /\ round'.currentBet = BigBlind
  BY <1>6, ConfigAssumption DEF EmptyRound, Rounds
<1>8. pstate' \in [Players -> PlayerStates]
  BY Zenon, <1>2, <1>4 DEF ResetStates, PlayerStates
<1>9. cur' \in Nat /\ TurnIsActive'
  <2>1. BigBlindSeat(d) \in Nat
    <3>1. BigBlindSeat(d) \in 0..(NumSeats - 1)
      BY Zenon, <1>1, <1>2, <1>3, BlindSeats
    <3> QED BY <3>1
  <2> QED BY Zenon, <1>1, <1>4, <1>6, <2>1, TurnMoves
<1>10. TypeOK'
  <2>1. 0 \in 0..DeckSize
    BY ConfigAssumption
  <2>2. hole' \in [Players -> Nat]
    BY Zenon, <1>4
  <2> QED BY SMTT(40), <1>1, <1>2, <1>3, <1>4, <1>5, <1>7, <1>8, <1>9, <2>1, <2>2 DEF TypeOK, NumSeats, Phases
<1>11. Seated' = Seated /\ Seated \subseteq Players
  BY Zenon, <1>2, <1>4, SeatedArePlayers DEF Seated, NumSeats
<1>12. ToCallNonNegative'
  BY <1>5, <1>7, <1>11 DEF ToCallNonNegative
<1>13. BetsCollected'
  <2>1. Live'
    BY <1>4 DEF Live, LivePhases
  <2>2. NobodyActive' => \A p \in Seated : stack[p] = 0
    <3>1. SUFFICES ASSUME NobodyActive', NEW p \in Seated PROVE stack[p] = 0
      OBVIOUS
    <3>2. p \in Players /\ stack[p] \in Nat /\ pstate'[p] # "ACTIVE"
      BY Zenon, <1>2, <1>11, <3>1 DEF NobodyActive
    <3>3. stack[p] > 0 => pstate'[p] = "ACTIVE"
      BY Zenon, <1>4, <3>1, <3>2 DEF ResetStates
    <3> QED BY <3>2, <3>3
  <2> QED BY <2>1, <2>2, <1>5 DEF BetsCollected
<1>14. EnoughSeats' /\ RoundIsOpen'
  BY Zenon, <1>1, <1>4, <1>7 DEF EnoughSeats, RoundIsOpen, NumSeats
<1> QED BY Zenon, <1>9, <1>10, <1>12, <1>13, <1>14 DEF IInv

\* Dealing keeps the invariant.
LEMMA DealKeepsIInv ==
  ASSUME IInv, DealCards
  PROVE  IInv'
<1> DEFINE f == Share(Players, {p \in Players : pstate[p] = "ACTIVE"}, HoleCards)
           S == PrefixSum(f, seats)
<1>1. TypeOK /\ seats \in Seq(Players) /\ NumSeats = Len(seats) /\ NumSeats \in Nat
  BY DEF IInv, TypeOK, NumSeats
<1>2. f \in [Players -> Nat]
  BY ConfigAssumption DEF Share
<1> HIDE DEF f
<1>3. S \in [0..NumSeats -> Nat] /\ \A i \in 1..NumSeats : S[i - 1] <= S[i]
  BY <1>1, <1>2, SumOfNaturals
<1>4. \A i : DealtBefore(i) = Dealt(S[i])
  BY DEF DealtBefore, f
<1> HIDE DEF S
<1>5. ASSUME NEW p \in Seated
      PROVE  DealtBefore(SeatOf(p) + 1) - DealtBefore(SeatOf(p)) \in Nat
  <2> DEFINE i == CHOOSE k \in 1..NumSeats : seats[k] = p
  <2>1. i \in 1..NumSeats
    BY DEF Seated
  <2>2. SeatOf(p) = i - 1
    BY DEF SeatOf
  <2> HIDE DEF i
  <2>3. (i - 1) + 1 = i /\ S[i] \in Nat /\ S[i - 1] \in Nat /\ S[i - 1] <= S[i]
    <3>1. i \in 0..NumSeats /\ i - 1 \in 0..NumSeats
      BY <1>1, <2>1
    <3> QED BY SMTT(40), <1>1, <1>3, <2>1, <3>1
  <2>4. Dealt(S[i]) - Dealt(S[i - 1]) \in Nat
    BY SMTT(40), <1>1, <2>3, ConfigAssumption DEF Dealt, TypeOK
  <2> QED BY <1>4, <2>2, <2>3, <2>4
<1>6. deck' \in 0..DeckSize
  <2>1. S[NumSeats] \in Nat
    BY <1>1, <1>3
  <2> QED BY Zenon, <1>1, <1>4, <2>1, DeckTyped DEF DealCards
<1>7. hole' \in [Players -> Nat]
  <2>1. hole \in [Players -> Nat]
    BY Zenon, <1>1 DEF TypeOK
  <2> QED BY <1>5, <2>1 DEF DealCards
<1>8. UNCHANGED <<phase, seats, stack, bet, pstate, dealer, cur, round, pot, community, hands>>
  BY Zenon DEF DealCards
<1>9. TypeOK'
  BY Zenon, <1>1, <1>6, <1>7, <1>8 DEF TypeOK, NumSeats
<1> QED BY <1>8, <1>9 DEF IInv, EnoughSeats, RoundIsOpen, BetsCollected, ToCallNonNegative,
          TurnIsActive, Live, NobodyActive, Seated, NumSeats, At

\* Turning the board when nobody can act keeps the invariant.
LEMMA RunOutKeepsIInv ==
  ASSUME IInv, RunOut
  PROVE  IInv'
<1>1. Live /\ NobodyActive /\ AdvancePhase(stack, pstate, round, pot, cur)
  BY DEF RunOut, DealBoard
<1>2. UNCHANGED <<seats, bet, hole, dealer, hands>>
  BY DEF RunOut, DealBoard
<1>3. TypeOK /\ EnoughSeats /\ bet = [p \in Players |-> 0]
  BY <1>1 DEF IInv, BetsCollected
<1>4. /\ stack \in [Players -> Nat] /\ pstate \in [Players -> PlayerStates] /\ round \in Rounds
      /\ pot \in Nat /\ cur \in Nat /\ hole \in [Players -> Nat]
  BY <1>3 DEF TypeOK
<1> QED BY <1>1, <1>2, <1>3, <1>4, AdvanceKeepsIInv

\* Before the game starts, sitting down and starting keep the invariant.
LEMMA LobbyKeepsIInv ==
  ASSUME IInv, SitDown \/ BeginGame
  PROVE  IInv'
<1>1. TypeOK /\ phase = "WAITING" /\ ~Live /\ bet = [p \in Players |-> 0]
  BY Zenon DEF IInv, SitDown, BeginGame, BetsCollected, Live, LivePhases
<1>2. CASE SitDown
  <2>1. PICK p \in Players, chips \in BuyIns : AddPlayer(p, chips)
    BY <1>2 DEF SitDown
  <2>2. p \notin Seated /\ seats' = Append(seats, p) /\ stack' = [stack EXCEPT ![p] = chips]
        /\ UNCHANGED <<phase, bet, pstate, hole, dealer, cur, round, pot, deck, community, hands>>
    BY <2>1 DEF AddPlayer
  <2>3. /\ seats' \in Seq(Players)
        /\ \A i, j \in 1..Len(seats') : seats'[i] = seats'[j] => i = j
    <3>1. /\ seats \in Seq(Players) /\ \A i \in 1..Len(seats) : seats[i] # p
          /\ \A i, j \in 1..Len(seats) : seats[i] = seats[j] => i = j
      BY Zenon, <1>1, <2>2 DEF TypeOK, Seated, NumSeats
    <3> QED BY <3>1, <2>2
  <2>4. stack' \in [Players -> Nat]
    BY Zenon, <1>1, <2>2, ConfigAssumption DEF TypeOK
  <2>5. TypeOK'
    BY Zenon, <1>1, <2>2, <2>3, <2>4 DEF TypeOK, NumSeats
  <2> QED BY <1>1, <2>2, <2>5
          DEF IInv, EnoughSeats, RoundIsOpen, BetsCollected, ToCallNonNegative, TurnIsActive, Live
<1>3. CASE BeginGame
  <2>1. NumSeats >= 2 /\ phase' = "ESCROW"
        /\ UNCHANGED <<seats, stack, bet, pstate, hole, dealer, cur, round, pot, deck, community, hands>>
    BY Zenon, <1>3 DEF BeginGame, StartGame
  <2>2. TypeOK'
    BY Zenon, <1>1, <2>1 DEF TypeOK, NumSeats, Phases
  <2> QED BY Zenon, <1>1, <2>1, <2>2 DEF IInv, EnoughSeats, NumSeats, RoundIsOpen, BetsCollected,
          ToCallNonNegative, TurnIsActive, Live, LivePhases
<1> QED BY <1>2, <1>3

----------------------------------------------------------------------------
(* The invariant.                                                          *)

\* The invariant holds of a new table.
LEMMA InitIInv == Init => IInv
<1> SUFFICES ASSUME Init PROVE IInv
  OBVIOUS
<1>1. <<>> \in Seq(Players) /\ Len(<<>>) = 0 /\ 0 \in 0..DeckSize
  BY SMTT(40), ConfigAssumption
<1>2. TypeOK
  BY SMTT(40), <1>1 DEF Init, TypeOK, Phases, PlayerStates, NoRound, Rounds, NumSeats
<1> QED BY <1>2 DEF Init, IInv, EnoughSeats, RoundIsOpen, BetsCollected, ToCallNonNegative,
          TurnIsActive, Live, LivePhases

\* Every step of the table keeps the invariant.
LEMMA NextIInv == IInv /\ [Next]_vars => IInv'
<1> SUFFICES ASSUME IInv, [Next]_vars PROVE IInv'
  OBVIOUS
<1>1. CASE SitDown \/ BeginGame
  BY <1>1, LobbyKeepsIInv
<1>2. CASE BeginHand
  BY <1>2, BeginHandKeepsIInv
<1>3. CASE Deal
  BY <1>3, DealKeepsIInv DEF Deal
<1>4. CASE Act
  <2>1. PICK p \in Players : Live /\ ProcessAction(p)
    BY <1>4 DEF Act
  <2>2. CASE Fold(p)
    BY <2>1, <2>2, FoldKeepsIInv
  <2>3. CASE Check(p)
    BY <2>1, <2>3, CheckKeepsIInv
  <2>4. CASE \/ Call(p)
             \/ \E amount \in Amounts : Bet(p, amount) \/ Raise(p, amount)
             \/ AllIn(p)
    BY Zenon, <2>1, <2>4, ChipActionsKeepIInv
  <2> QED BY <2>1, <2>2, <2>3, <2>4 DEF ProcessAction
<1>5. CASE RunOut
  BY <1>5, RunOutKeepsIInv
<1>6. CASE UNCHANGED vars
  BY SMTT(40), <1>6 DEF vars, IInv, TypeOK, EnoughSeats, RoundIsOpen, BetsCollected, ToCallNonNegative,
          TurnIsActive, Live, NobodyActive, Seated, NumSeats, At
<1> QED BY <1>1, <1>2, <1>3, <1>4, <1>5, <1>6 DEF Next

\* The inductive invariant holds in every reachable state of the table.
THEOREM TableInvariant == Spec => []IInv
BY InitIInv, NextIInv, PTL DEF Spec

\* Stacks, bets and the pot are never negative, no one sits twice and the deck
\* is never overdrawn, whatever the blinds, stacks and choices.
THEOREM TypeCorrect == Spec => []TypeOK
<1>1. IInv => TypeOK
  BY DEF IInv
<1> QED BY <1>1, TableInvariant, PTL

\* The turn is always with a player who can act while there is one: the walk
\* of GetNextActivePlayer round the table never stops at the wrong seat.
THEOREM TurnCorrect == Spec => []TurnIsActive
<1>1. IInv => TurnIsActive
  BY DEF IInv
<1> QED BY <1>1, TableInvariant, PTL

\* The signed subtraction in IsValidAction never goes below zero for a player
\* who may act.
THEOREM ToCallCorrect == Spec => []ToCallNonNegative
<1>1. IInv => ToCallNonNegative
  BY Zenon DEF IInv
<1> QED BY <1>1, TableInvariant, PTL

----------------------------------------------------------------------------
(* The order of the turns in a round of betting.                           *)

\* The players who can act, and those of them who have acted in the round and
\* matched its bet.
ActiveOf(ps) == {p \in Seated : ps[p] = "ACTIVE"}
SettledOf(ps, bt, rd) == {p \in ActiveOf(ps) : p \in rd.acted /\ bt[p] >= rd.currentBet}

\* Going once round the table from seat i, those of A who come after somebody
\* of S are in S.
InOrder(i, A, S) ==
  \A j, k \in 0..(NumSeats - 1) :
    j < k /\ At((i + j) % NumSeats) \in S /\ At((i + k) % NumSeats) \in A
      => At((i + k) % NumSeats) \in S

\* From the player on turn, all who still owe an action come before all who
\* do not.
TurnOrder == Live => InOrder(cur, ActiveOf(pstate), SettledOf(pstate, bet, round))

\* Seats are counted modulo n at every step of a walk or at its end.
LEMMA ModAdd ==
  ASSUME NEW n \in Nat \ {0}, NEW x \in Nat, NEW j \in Nat
  PROVE  ((x % n) + j) % n = (x + j) % n
<1> DEFINE q == x \div n
           r == x % n
           u == (r + j) \div n
           v == (r + j) % n
<1>1. x = n * q + r /\ q \in Nat /\ r \in Nat
  OBVIOUS
<1> HIDE DEF q, r
<1>2. r + j = n * u + v /\ u \in Nat /\ v \in 0..(n - 1)
  BY <1>1
<1> HIDE DEF u
<1>3. n * (q + u) = n * q + n * u /\ q + u \in Nat /\ n * q \in Nat /\ n * u \in Nat
  BY <1>1, <1>2
<1>4. x + j = n * (q + u) + v
  BY <1>1, <1>2, <1>3
<1>5. (n * (q + u) + v) % n = v
  BY Zenon, <1>2, <1>3, ModUnique
<1> QED BY <1>4, <1>5 DEF v, r

\* Where a walk of m steps from seat i ends.
LEMMA WalkEnds ==
  ASSUME NEW n \in Nat \ {0}, NEW i \in 0..(n - 1), NEW m \in Nat
  PROVE  /\ m \in 1..(n - 1) => (i + m) % n # i
         /\ m = n => (i + m) % n = i
         /\ m > n => (i + m) % n = (i + (m - n)) % n
<1>1. ASSUME NEW j \in 0..(n - 1) PROVE j % n = j /\ (n + j) % n = j
  <2>1. (n * 0 + j) % n = j /\ (n * 1 + j) % n = j
    BY Zenon, ModUnique, 0 \in Nat, 1 \in Nat
  <2>2. n * 0 + j = j /\ n * 1 + j = n + j
    OBVIOUS
  <2> QED BY <2>1, <2>2
<1>2. ASSUME m \in 1..(n - 1) PROVE (i + m) % n # i
  <2>1. CASE i + m < n
    <3>1. i + m \in 0..(n - 1) /\ i + m # i
      BY <1>2, <2>1
    <3> QED BY Zenon, <3>1, <1>1
  <2>2. CASE ~(i + m < n)
    <3> DEFINE j == i + m - n
    <3>1. j \in 0..(n - 1) /\ i + m = n + j /\ j # i
      BY <1>2, <2>2
    <3> HIDE DEF j
    <3> QED BY Zenon, <3>1, <1>1
  <2> QED BY <2>1, <2>2
<1>3. ASSUME m = n PROVE (i + m) % n = i
  <2>1. i + m = n + i
    BY <1>3
  <2> QED BY Zenon, <2>1, <1>1
<1>4. ASSUME m > n PROVE (i + m) % n = (i + (m - n)) % n
  <2> DEFINE d == m - n
             w == n + i
  <2>1. d \in Nat /\ w \in Nat /\ i + m = w + d /\ w % n = i
    <3>1. w % n = i
      BY Zenon, <1>1
    <3> QED BY <3>1, <1>4
  <2> HIDE DEF d, w
  <2>2. ((w % n) + d) % n = (w + d) % n
    BY Zenon, <2>1, ModAdd
  <2> QED BY <2>1, <2>2 DEF d
<1> QED BY <1>2, <1>3, <1>4

\* A walk round the table comes to everyone.
LEMMA SeatFound ==
  ASSUME NumSeats \in Nat \ {0}, NEW from \in Nat, NEW q \in Seated
  PROVE  \E k \in 1..NumSeats : At((from + k) % NumSeats) = q
<1> DEFINE n == NumSeats
<1>1. PICK i \in 1..n : seats[i] = q
  BY Zenon DEF Seated
<1>2. i - 1 \in 0..(n - 1) /\ (i - 1) + 1 = i
  OBVIOUS
<1>3. PICK k \in 1..n : (from + k) % n = i - 1
  BY Zenon, <1>2, SeatReached
<1> QED BY Zenon, <1>1, <1>2, <1>3 DEF At

\* The turn passes on from the player at seat cur: the order is kept when the
\* others stay as they were and that player, if still able to act, has
\* settled; and when nobody else is settled any more.
LEMMA TurnPasses ==
  ASSUME seats \in Seq(Players),
         \A i, j \in 1..NumSeats : seats[i] = seats[j] => i = j,
         cur \in Nat, cur < NumSeats, NEW ps, NEW A, NEW S, NEW S2,
         InOrder(cur, A, S),
         \/ /\ At(cur) \in ActiveOf(ps) => At(cur) \in S2
            /\ \A q \in Seated \ {At(cur)} :
                 (q \in ActiveOf(ps) => q \in A) /\ (q \in S2 => q \in S)
                 /\ (q \in S /\ q \in ActiveOf(ps) => q \in S2)
         \/ S2 \subseteq {At(cur)}
  PROVE  InOrder(GetNextActivePlayer(ps, cur), ActiveOf(ps), S2)
<1> DEFINE n == NumSeats
           A2 == ActiveOf(ps)
           ks == ActiveAfter(ps, cur)
           k0 == CHOOSE i \in ks : \A j \in ks : i <= j
           nx == GetNextActivePlayer(ps, cur)
<1>0. n \in Nat \ {0} /\ cur \in 0..(n - 1)
  BY DEF NumSeats
<1>1. SUFFICES ASSUME NEW j \in 0..(n - 1), NEW k \in 0..(n - 1), j < k,
                      At((nx + j) % n) \in S2, At((nx + k) % n) \in A2
               PROVE  At((nx + k) % n) \in S2
  BY DEF InOrder
<1>2. \A m \in Nat : (cur + m) % n \in 0..(n - 1) /\ At((cur + m) % n) \in Seated
  <2>1. ASSUME NEW m \in Nat PROVE (cur + m) % n \in 0..(n - 1)
    BY <1>0
  <2>2. ASSUME NEW i \in 0..(n - 1) PROVE At(i) \in Seated
    <3>1. i + 1 \in 1..NumSeats
      BY <1>0
    <3> QED BY <3>1 DEF At, Seated
  <2> QED BY <2>1, <2>2
<1>3. \A m \in 1..(n - 1) : At((cur + m) % n) # At(cur)
  <2>1. SUFFICES ASSUME NEW m \in 1..(n - 1), At((cur + m) % n) = At(cur) PROVE FALSE
    OBVIOUS
  <2> DEFINE s == (cur + m) % n
  <2>2. m \in Nat
    OBVIOUS
  <2>3. s \in 0..(n - 1) /\ s # cur
    BY Zenon, <1>0, <1>2, <2>2, WalkEnds
  <2> HIDE DEF s
  <2>4. s + 1 \in 1..NumSeats /\ cur + 1 \in 1..NumSeats /\ s + 1 # cur + 1
    BY <1>0, <2>3
  <2> QED BY <2>1, <2>4 DEF At, s
<1>4. ks # {}
  <2>1. At((nx + k) % n) \in Seated /\ ps[At((nx + k) % n)] = "ACTIVE"
    BY <1>1 DEF ActiveOf
  <2> HIDE DEF nx
  <2>2. PICK m \in 1..n : At((cur + m) % n) = At((nx + k) % n)
    BY Zenon, <1>0, <2>1, SeatFound
  <2> QED BY Zenon, <2>1, <2>2 DEF ActiveAfter
<1>5. k0 \in ks /\ \A i \in ks : k0 <= i
  <2>1. ks \in SUBSET Nat
    BY <1>0 DEF ActiveAfter
  <2>2. \E i \in ks : \A l \in ks : i <= l
    <3> HIDE DEF ks
    <3> QED BY Zenon, <1>4, <2>1, LeastNatural
  <2> QED BY <2>2
<1>6. nx = (cur + k0) % n
  BY <1>4 DEF GetNextActivePlayer
<1> HIDE DEF nx, k0
<1>7. k0 \in 1..n /\ k0 \in Nat
  BY <1>5, <1>0 DEF ActiveAfter
<1>8. \A m \in Nat : (nx + m) % n = (cur + (k0 + m)) % n
  <2>1. SUFFICES ASSUME NEW m \in Nat PROVE (nx + m) % n = (cur + (k0 + m)) % n
    OBVIOUS
  <2>2. cur + k0 \in Nat /\ (cur + k0) + m = cur + (k0 + m)
    BY <1>7
  <2>3. (((cur + k0) % n) + m) % n = ((cur + k0) + m) % n
    BY Zenon, <1>0, <2>2, ModAdd
  <2> QED BY Zenon, <1>6, <2>2, <2>3
\* Beyond a full round the walk is among those k0 has passed over.
<1>9. \A m \in Nat : m > n /\ m - n < k0 => At((cur + m) % n) \notin A2
  <2>1. SUFFICES ASSUME NEW m \in Nat, m > n, m - n < k0, At((cur + m) % n) \in A2
                 PROVE  FALSE
    OBVIOUS
  <2>2. (cur + m) % n = (cur + (m - n)) % n
    BY Zenon, <1>0, <2>1, WalkEnds
  <2>3. m - n \in 1..n /\ ~(k0 <= m - n)
    BY <1>0, <1>7, <2>1
  <2>4. m - n \in ks
    BY Zenon, <2>1, <2>2, <2>3 DEF ActiveOf, ActiveAfter
  <2> QED BY Zenon, <1>5, <2>3, <2>4
<1>10. j \in Nat /\ k \in Nat /\ k0 + j \in Nat /\ k0 + k \in Nat /\ k0 + j < k0 + k
       /\ k0 + j > 0 /\ (k0 + k) - n < k0 /\ (k0 + j) - n < k0
  BY <1>0, <1>1, <1>7
<1> DEFINE u == k0 + j
           w == k0 + k
           pu == At((cur + u) % n)
           pw == At((cur + w) % n)
<1>11. pu \in S2 /\ pw \in A2 /\ pu \in Seated /\ pw \in Seated
  BY Zenon, <1>1, <1>2, <1>8, <1>10
<1>12. ~(w > n)
  BY Zenon, <1>9, <1>10, <1>11
<1>13. SUFFICES pw \in S2
  BY Zenon, <1>8, <1>10
<1>14. CASE S2 \subseteq {At(cur)}
  <2>1. u \in 1..(n - 1)
    BY <1>0, <1>10, <1>12
  <2> QED BY Zenon, <1>3, <1>11, <1>14, <2>1
<1>15. CASE /\ At(cur) \in A2 => At(cur) \in S2
            /\ \A q \in Seated \ {At(cur)} :
                 (q \in A2 => q \in A) /\ (q \in S2 => q \in S)
                 /\ (q \in S /\ q \in A2 => q \in S2)
  <2>1. CASE w = n
    <3>1. (cur + w) % n = cur
      BY Zenon, <1>0, <1>10, <2>1, WalkEnds
    <3> QED BY Zenon, <1>11, <1>15, <3>1
  <2>2. CASE w # n
    <3>1. u \in 1..(n - 1) /\ w \in 1..(n - 1) /\ u \in 0..(n - 1) /\ w \in 0..(n - 1) /\ u < w
      BY <1>0, <1>10, <1>12, <2>2
    <3>2. pu # At(cur) /\ pw # At(cur)
      BY Zenon, <1>3, <3>1
    <3>3. pu \in S /\ pw \in A
      BY Zenon, <1>11, <1>15, <3>2
    <3> HIDE DEF u, w
    <3>4. pw \in S
      BY Zenon, <3>1, <3>3 DEF InOrder
    <3> QED BY Zenon, <1>11, <1>15, <3>2, <3>4
  <2> QED BY Zenon, <2>1, <2>2
<1> QED BY Zenon, <1>14, <1>15

\* AdvancePhase always leaves the phase, and opens an empty round unless the
\* hand is over.
LEMMA AdvanceLeaves ==
  ASSUME Live, NEW st, NEW ps, NEW rd, NEW total, NEW i, AdvancePhase(st, ps, rd, total, i)
  PROVE  phase' # phase /\ (Live' => round'.acted = {})
<1>1. CASE AtMostOne(PlayersInHand(ps)) \/ phase = "RIVER"
  BY <1>1 DEF AdvancePhase, EndHand, Live, LivePhases
<1>2. CASE ~(AtMostOne(PlayersInHand(ps)) \/ phase = "RIVER")
  <2>1. phase' = NextPhase(phase) /\ round' = EmptyRound(0)
    BY Zenon, <1>2 DEF AdvancePhase
  <2>2. phase' # phase
    BY <1>2, <2>1 DEF Live, LivePhases, NextPhase
  <2> QED BY <2>1, <2>2 DEF EmptyRound
<1> QED BY <1>1, <1>2

\* In a round nobody has acted in, and between hands, the order holds.
LEMMA FreshRound ==
  ASSUME Live' => round'.acted = {}
  PROVE  TurnOrder'
BY Zenon DEF TurnOrder, InOrder, SettledOf

\* Whose turn it is.
LEMMA SeatOnTurn ==
  ASSUME IInv, Live, NEW p \in Players, IsTurn(p)
  PROVE  /\ seats \in Seq(Players) /\ cur \in Nat /\ cur < NumSeats /\ At(cur) = p
         /\ \A i, j \in 1..NumSeats : seats[i] = seats[j] => i = j
<1>1. p \in Seated /\ pstate[p] = "ACTIVE" /\ TypeOK /\ TurnIsActive
  BY Zenon, OnTurn DEF IInv
<1>2. cur < NumSeats
  BY Zenon, <1>1 DEF TurnIsActive, NobodyActive
<1>3. seats \in Seq(Players) /\ cur \in Nat /\ \A i, j \in 1..NumSeats : seats[i] = seats[j] => i = j
  BY Zenon, <1>1 DEF TypeOK
<1>4. At(cur) = p
  BY Zenon, <1>2 DEF IsTurn
<1> QED BY Zenon, <1>2, <1>3, <1>4

\* The tail of ProcessAction keeps the order, after an action by which the
\* player settles or leaves the betting and after one that unsettles the others.
LEMMA ProceedKeepsOrder ==
  ASSUME IInv, TurnOrder, Live, NEW p \in Players, IsTurn(p),
         NEW st, NEW bt, NEW ps, NEW rd, Proceed(st, bt, ps, rd),
         \/ /\ rd.acted = round.acted \cup {p} /\ rd.currentBet = round.currentBet
            /\ ps[p] = "ACTIVE" => bt[p] >= rd.currentBet
            /\ \A q \in Seated \ {p} : ps[q] = pstate[q] /\ bt[q] = bet[q]
         \/ \A q \in Seated \ {p} : ps[q] = "ACTIVE" => ~(bt[q] >= rd.currentBet)
  PROVE  TurnOrder'
<1>1. CASE IsRoundComplete(ps, bt, rd)
  <2>1. PICK total, i : AdvancePhase(st, ps, rd, total, i)
    BY Zenon, <1>1 DEF Proceed
  <2>2. Live' => round'.acted = {}
    BY Zenon, <2>1, AdvanceLeaves
  <2> QED BY Zenon, <2>2, FreshRound
<1>2. CASE ~IsRoundComplete(ps, bt, rd)
  <2> DEFINE nx == GetNextActivePlayer(ps, cur)
             A == ActiveOf(pstate)
             S == SettledOf(pstate, bet, round)
             A2 == ActiveOf(ps)
             S2 == SettledOf(ps, bt, rd)
  <2>1. seats' = seats /\ bet' = bt /\ pstate' = ps /\ round' = rd /\ cur' = nx
    BY Zenon, <1>2 DEF Proceed
  <2>2. /\ seats \in Seq(Players) /\ cur \in Nat /\ cur < NumSeats /\ At(cur) = p
        /\ \A i, j \in 1..NumSeats : seats[i] = seats[j] => i = j
    BY Zenon, SeatOnTurn
  <2>3. InOrder(cur, A, S)
    BY Zenon DEF TurnOrder
  <2>4. \/ /\ p \in A2 => p \in S2
           /\ \A q \in Seated \ {p} :
                (q \in A2 => q \in A) /\ (q \in S2 => q \in S) /\ (q \in S /\ q \in A2 => q \in S2)
        \/ S2 \subseteq {p}
    <3>1. CASE /\ rd.acted = round.acted \cup {p} /\ rd.currentBet = round.currentBet
               /\ ps[p] = "ACTIVE" => bt[p] >= rd.currentBet
               /\ \A q \in Seated \ {p} : ps[q] = pstate[q] /\ bt[q] = bet[q]
      <4>1. p \in A2 => p \in S2
        BY Zenon, <3>1 DEF ActiveOf, SettledOf
      <4>2. ASSUME NEW q \in Seated \ {p}
            PROVE  (q \in A2 => q \in A) /\ (q \in S2 => q \in S) /\ (q \in S /\ q \in A2 => q \in S2)
        BY Zenon, <3>1, <4>2 DEF ActiveOf, SettledOf
      <4> QED BY Zenon, <4>1, <4>2
    <3>2. CASE \A q \in Seated \ {p} : ps[q] = "ACTIVE" => ~(bt[q] >= rd.currentBet)
      BY Zenon, <3>2 DEF ActiveOf, SettledOf
    <3> QED BY Zenon, <3>1, <3>2
  <2> HIDE DEF A, S, S2
  <2>5. InOrder(nx, A2, S2)
    BY Zenon, <2>2, <2>3, <2>4, TurnPasses
  <2>6. Seated' = Seated /\ NumSeats' = NumSeats
    BY Zenon, <2>1 DEF Seated, NumSeats
  <2>7. ActiveOf(pstate)' = A2 /\ SettledOf(pstate, bet, round)' = S2
    BY Zenon, <2>1, <2>6 DEF ActiveOf, SettledOf, S2
  <2> HIDE DEF nx, A2
  <2>8. InOrder(cur, ActiveOf(pstate), SettledOf(pstate, bet, round))'
    BY Zenon, <2>1, <2>5, <2>6, <2>7 DEF InOrder, At
  <2> QED BY Zenon, <2>8 DEF TurnOrder
<1> QED BY Zenon, <1>1, <1>2

\* Every action a player may take keeps the order.
LEMMA ActionKeepsOrder ==
  ASSUME IInv, TurnOrder, Live, NEW p \in Players, ProcessAction(p)
  PROVE  TurnOrder'
<1>0. IsTurn(p)
  BY Zenon DEF ProcessAction, Fold, Check, Call, AllIn, Bet, Raise
<1>1. /\ stack[p] \in Nat /\ bet[p] \in Nat /\ round \in Rounds /\ round.open /\ round.currentBet \in Nat
      /\ bet[p] <= round.currentBet
      /\ \A q \in Seated : q \in Players /\ bet[q] \in Nat
      /\ \A q \in Seated : pstate[q] = "ACTIVE" => bet[q] <= round.currentBet
  BY Zenon, <1>0, OnTurn
<1>2. /\ bet \in [Players -> Nat] /\ pstate \in [Players -> PlayerStates]
  BY Zenon DEF IInv, TypeOK
<1>3. WithAction(p).acted = round.acted \cup {p} /\ WithAction(p).currentBet = round.currentBet
  BY <1>1 DEF WithAction, Rounds
<1>4. \A b \in Nat, x \in Nat : WithRaise(p, b, x).currentBet = b
  BY Zenon, <1>1, ActionRecorded
<1>5. CASE Fold(p)
  <2> DEFINE ps == [pstate EXCEPT ![p] = "FOLDED"]
  <2>1. Proceed(stack, bet, ps, WithAction(p))
    BY Zenon, <1>5 DEF Fold
  <2>2. ps[p] # "ACTIVE" /\ \A q \in Seated \ {p} : ps[q] = pstate[q]
    BY <1>1, <1>2
  <2> HIDE DEF ps
  <2> QED BY Zenon, <1>0, <1>3, <2>1, <2>2, ProceedKeepsOrder
<1>6. CASE Check(p)
  <2>1. Proceed(stack, bet, pstate, WithAction(p)) /\ ToCall(p) = 0
    BY Zenon, <1>6 DEF Check
  <2>2. bet[p] >= WithAction(p).currentBet
    BY <1>1, <1>3, <2>1 DEF ToCall
  <2> QED BY Zenon, <1>0, <1>3, <2>1, <2>2, ProceedKeepsOrder
<1>7. CASE Call(p)
  <2> DEFINE st == [stack EXCEPT ![p] = @ - ToCall(p)]
             bt == [bet EXCEPT ![p] = @ + ToCall(p)]
  <2>1. Proceed(st, bt, pstate, WithAction(p))
    BY Zenon, <1>7 DEF Call, BetAndProceed
  <2>2. bt[p] = bet[p] + ToCall(p) /\ \A q \in Seated \ {p} : bt[q] = bet[q]
    BY Zenon, <1>1, <1>2
  <2>3. bet[p] + ToCall(p) >= WithAction(p).currentBet
    BY <1>1, <1>3 DEF ToCall
  <2> HIDE DEF st, bt
  <2> QED BY Zenon, <1>0, <1>3, <2>1, <2>2, <2>3, ProceedKeepsOrder
<1>8. CASE AllIn(p)
  <2> DEFINE st == [stack EXCEPT ![p] = @ - stack[p]]
             bt == [bet EXCEPT ![p] = @ + stack[p]]
             ps == [pstate EXCEPT ![p] = "ALL_IN"]
  <2>1. Proceed(st, bt, ps, WithAction(p))
    BY Zenon, <1>8 DEF AllIn, BetAndProceed
  <2>2. ps[p] # "ACTIVE" /\ \A q \in Seated \ {p} : ps[q] = pstate[q] /\ bt[q] = bet[q]
    BY Zenon, <1>1, <1>2
  <2> HIDE DEF st, bt, ps
  <2> QED BY Zenon, <1>0, <1>3, <2>1, <2>2, ProceedKeepsOrder
\* A bet or a raise, of x chips to more than the bet that was to match.
<1>9. ASSUME NEW x \in Nat, bet[p] + x > round.currentBet,
             BetAndProceed(p, x, pstate, WithRaise(p, bet[p] + x, x))
      PROVE  TurnOrder'
  <2> DEFINE st == [stack EXCEPT ![p] = @ - x]
             bt == [bet EXCEPT ![p] = @ + x]
             rd == WithRaise(p, bet[p] + x, x)
  <2>1. Proceed(st, bt, pstate, rd)
    BY Zenon, <1>9 DEF BetAndProceed
  <2>2. bet[p] + x \in Nat
    BY <1>1
  <2>3. rd.currentBet = bet[p] + x
    BY Zenon, <1>4, <2>2
  <2> HIDE DEF rd
  <2>4. ASSUME NEW q \in Seated \ {p}, pstate[q] = "ACTIVE" PROVE ~(bt[q] >= rd.currentBet)
    <3>1. bt[q] = bet[q]
      BY Zenon, <1>1, <1>2
    <3> HIDE DEF bt
    <3> QED BY <1>1, <1>9, <2>3, <2>4, <3>1
  <2> HIDE DEF st, bt
  <2> QED BY Zenon, <1>0, <2>1, <2>4, ProceedKeepsOrder
<1>10. ASSUME NEW amount \in Amounts, Bet(p, amount) PROVE TurnOrder'
  <2>1. amount \in Nat /\ BigBlind > 0 /\ BigBlind \in Nat
    BY ConfigAssumption
  <2>2. round.currentBet = 0 /\ amount >= BigBlind
        /\ BetAndProceed(p, amount, pstate, WithRaise(p, bet[p] + amount, amount))
    BY Zenon, <1>10 DEF Bet
  <2>3. bet[p] + amount > round.currentBet
    BY <1>1, <2>1, <2>2
  <2> QED BY Zenon, <1>9, <2>1, <2>2, <2>3
<1>11. ASSUME NEW amount \in Amounts, Raise(p, amount) PROVE TurnOrder'
  <2> DEFINE total == ToCall(p) + amount
  <2>1. amount \in Nat /\ BigBlind > 0 /\ BigBlind \in Nat
    BY ConfigAssumption
  <2>2. amount >= GetMinRaise /\ BetAndProceed(p, total, pstate, WithRaise(p, bet[p] + total, total))
    BY Zenon, <1>11 DEF Raise
  <2>3. GetMinRaise \in Nat /\ GetMinRaise > 0
    BY <1>1, <2>1 DEF GetMinRaise, Rounds
  <2>4. total \in Nat /\ bet[p] + total > round.currentBet
    BY <1>1, <2>1, <2>2, <2>3 DEF ToCall
  <2> HIDE DEF total
  <2> QED BY Zenon, <1>9, <2>2, <2>4
<1> QED BY Zenon, <1>5, <1>6, <1>7, <1>8, <1>10, <1>11 DEF ProcessAction

\* Every step of the table keeps the order.
LEMMA NextTurnOrder == IInv /\ TurnOrder /\ [Next]_vars => TurnOrder'
<1> SUFFICES ASSUME IInv, TurnOrder, [Next]_vars PROVE TurnOrder'
  OBVIOUS
<1>1. CASE SitDown \/ BeginGame
  <2>1. ~Live'
    BY <1>1 DEF SitDown, AddPlayer, BeginGame, StartGame, Live, LivePhases
  <2> QED BY Zenon, <2>1, FreshRound
<1>2. CASE BeginHand
  <2>1. round' = EmptyRound(BigBlind)
    BY Zenon, <1>2 DEF BeginHand, StartNewHand, PostBlinds
  <2>2. round'.acted = {}
    BY <2>1 DEF EmptyRound
  <2> QED BY Zenon, <2>2, FreshRound
<1>3. CASE Act
  BY Zenon, <1>3, ActionKeepsOrder DEF Act
<1>4. CASE RunOut
  <2>1. Live' => round'.acted = {}
    BY Zenon, <1>4, AdvanceLeaves DEF RunOut, DealBoard
  <2> QED BY Zenon, <2>1, FreshRound
<1>5. CASE Deal \/ UNCHANGED vars
  <2>1. UNCHANGED <<phase, seats, bet, pstate, cur, round>>
    BY Zenon, <1>5 DEF Deal, DealCards, vars
  <2>2. Seated' = Seated /\ NumSeats' = NumSeats /\ Live' = Live
    BY Zenon, <2>1 DEF Seated, NumSeats, Live
  <2>3. /\ ActiveOf(pstate)' = ActiveOf(pstate)
        /\ SettledOf(pstate, bet, round)' = SettledOf(pstate, bet, round)
    BY Zenon, <2>1, <2>2 DEF ActiveOf, SettledOf
  <2>4. ASSUME Live' PROVE InOrder(cur, ActiveOf(pstate), SettledOf(pstate, bet, round))'
    <3> DEFINE A == ActiveOf(pstate)
               S == SettledOf(pstate, bet, round)
    <3>1. InOrder(cur, A, S)
      BY Zenon, <2>2, <2>4 DEF TurnOrder
    <3>2. A' = A /\ S' = S
      BY Zenon, <2>3
    <3> HIDE DEF A, S
    <3>3. InOrder(cur, A, S)'
      BY Zenon, <2>1, <2>2, <3>1, <3>2 DEF InOrder, At
    <3> QED BY Zenon, <3>3 DEF A, S
  <2> QED BY Zenon, <2>4 DEF TurnOrder
<1> QED BY Zenon, <1>1, <1>2, <1>3, <1>4, <1>5 DEF Next

\* A player on turn who has acted and owes nothing is the last to do so: the
\* round is complete.
LEMMA SettledTurnCloses ==
  ASSUME IInv, TurnOrder, Live, NEW p \in Players, IsTurn(p), p \in round.acted, ToCall(p) = 0
  PROVE  IsRoundComplete(pstate, bet, WithAction(p))
<1> DEFINE n == NumSeats
<1>1. cur \in Nat /\ At(cur) = p /\ n \in Nat \ {0} /\ cur \in 0..(n - 1)
  <2>1. seats \in Seq(Players) /\ cur \in Nat /\ cur < NumSeats /\ At(cur) = p
    BY Zenon, SeatOnTurn
  <2> QED BY <2>1 DEF NumSeats
<1>2. /\ p \in Seated /\ pstate[p] = "ACTIVE" /\ bet[p] \in Nat /\ round.currentBet \in Nat
      /\ round \in Rounds /\ round.open
  BY Zenon, OnTurn
<1>3. bet[p] >= round.currentBet
  BY <1>2 DEF ToCall
<1>4. p \in SettledOf(pstate, bet, round)
  BY Zenon, <1>2, <1>3 DEF ActiveOf, SettledOf
<1>5. ASSUME NEW q \in Seated, pstate[q] = "ACTIVE" PROVE bet[q] >= round.currentBet
  <2>1. PICK k \in 1..n : At((cur + k) % n) = q
    BY Zenon, <1>1, SeatFound
  <2>2. CASE k = n
    <3>1. (cur + k) % n = cur
      BY Zenon, <1>1, <2>2, WalkEnds
    <3> QED BY Zenon, <1>1, <1>3, <2>1, <3>1
  <2>3. CASE k # n
    <3>1. k \in 0..(n - 1) /\ 0 \in 0..(n - 1) /\ 0 < k /\ cur + 0 = cur /\ cur % n = cur
      BY <1>1, <2>3
    <3>2. At((cur + 0) % n) \in SettledOf(pstate, bet, round)
      BY Zenon, <1>1, <1>4, <3>1
    <3>3. At((cur + k) % n) \in ActiveOf(pstate)
      BY Zenon, <1>5, <2>1 DEF ActiveOf
    <3>4. q \in SettledOf(pstate, bet, round)
      BY Zenon, <2>1, <3>1, <3>2, <3>3 DEF TurnOrder, InOrder
    <3> QED BY Zenon, <3>4 DEF SettledOf
  <2> QED BY Zenon, <2>2, <2>3
<1>6. WithAction(p).open /\ WithAction(p).acted # {} /\ WithAction(p).currentBet = round.currentBet
  BY Zenon, <1>2, ActionRecorded
<1> QED BY Zenon, <1>5, <1>6 DEF IsRoundComplete

\* What EveryActionCounts says of a step.
Counts ==
  Live /\ CardsDealt /\ phase' = phase /\ seats' = seats =>
    \/ round'.acted # round.acted
    \/ \E p \in Seated : stack'[p] < stack[p]
    \/ \E p \in Seated : pstate[p] = "ACTIVE" /\ pstate'[p] # "ACTIVE"

\* Every action of a player counts.
LEMMA ActionCounts ==
  ASSUME IInv, TurnOrder, Live, NEW p \in Players, ProcessAction(p)
  PROVE  Counts
<1>0. IsTurn(p)
  BY Zenon DEF ProcessAction, Fold, Check, Call, AllIn, Bet, Raise
<1>1. /\ p \in Seated /\ pstate[p] = "ACTIVE" /\ stack[p] \in Nat /\ bet[p] \in Nat
      /\ round \in Rounds /\ round.open /\ round.currentBet \in Nat /\ bet[p] <= round.currentBet
      /\ stack \in [Players -> Nat] /\ pstate \in [Players -> PlayerStates]
  BY Zenon, <1>0, OnTurn DEF TypeOK
<1> SUFFICES ASSUME phase' = phase PROVE Counts
  BY Zenon DEF Counts
\* The round goes on, or the phase would change.
<1>2. ASSUME NEW st, NEW bt, NEW ps, NEW rd, Proceed(st, bt, ps, rd)
      PROVE  ~IsRoundComplete(ps, bt, rd) /\ stack' = st /\ pstate' = ps /\ round' = rd
  <2>1. ~IsRoundComplete(ps, bt, rd)
    BY Zenon, <1>2, AdvanceLeaves DEF Proceed
  <2> QED BY Zenon, <1>2, <2>1 DEF Proceed
\* Chips put in are chips less.
<1>3. ASSUME NEW x \in Nat, x > 0, NEW ps, NEW rd, BetAndProceed(p, x, ps, rd) PROVE Counts
  <2>1. stack' = [stack EXCEPT ![p] = @ - x]
    BY Zenon, <1>2, <1>3 DEF BetAndProceed
  <2>2. stack'[p] = stack[p] - x
    BY Zenon, <1>1, <2>1
  <2>3. stack'[p] < stack[p]
    BY <1>1, <1>3, <2>2
  <2> QED BY Zenon, <1>1, <2>3 DEF Counts
<1>4. CASE Fold(p)
  <2>1. pstate' = [pstate EXCEPT ![p] = "FOLDED"]
    BY Zenon, <1>2, <1>4 DEF Fold
  <2>2. pstate'[p] # "ACTIVE"
    BY <1>1, <2>1
  <2> QED BY Zenon, <1>1, <2>2 DEF Counts
<1>5. CASE Check(p)
  <2>1. Proceed(stack, bet, pstate, WithAction(p)) /\ ToCall(p) = 0
    BY Zenon, <1>5 DEF Check
  <2>2. ~IsRoundComplete(pstate, bet, WithAction(p)) /\ round' = WithAction(p)
    BY Zenon, <1>2, <2>1
  <2>3. p \notin round.acted
    BY Zenon, <1>0, <2>1, <2>2, SettledTurnCloses
  <2>4. p \in WithAction(p).acted
    BY <1>1 DEF WithAction, Rounds
  <2> QED BY Zenon, <2>2, <2>3, <2>4 DEF Counts
<1>6. CASE Call(p)
  <2>1. ToCall(p) \in Nat /\ ToCall(p) > 0
    BY <1>1, <1>6 DEF Call, ToCall
  <2> QED BY Zenon, <1>3, <1>6, <2>1 DEF Call
<1>7. CASE AllIn(p)
  BY Zenon, <1>1, <1>3, <1>7 DEF AllIn
<1>8. ASSUME NEW amount \in Amounts, Bet(p, amount) PROVE Counts
  <2>1. amount \in Nat /\ BigBlind > 0 /\ BigBlind \in Nat /\ amount >= BigBlind
    BY <1>8, ConfigAssumption DEF Bet
  <2>2. amount > 0
    BY <2>1
  <2> QED BY Zenon, <1>3, <1>8, <2>1, <2>2 DEF Bet
<1>9. ASSUME NEW amount \in Amounts, Raise(p, amount) PROVE Counts
  <2>1. amount \in Nat /\ BigBlind > 0 /\ BigBlind \in Nat
    BY ConfigAssumption
  <2>2. amount >= GetMinRaise
    BY Zenon, <1>9 DEF Raise
  <2>3. GetMinRaise \in Nat /\ GetMinRaise > 0
    BY <1>1, <2>1 DEF GetMinRaise, Rounds
  <2>4. ToCall(p) + amount \in Nat /\ ToCall(p) + amount > 0
    BY <1>1, <2>1, <2>2, <2>3 DEF ToCall
  <2> QED BY Zenon, <1>3, <1>9, <2>4 DEF Raise
<1> QED BY Zenon, <1>4, <1>5, <1>6, <1>7, <1>8, <1>9 DEF ProcessAction

\* No action that ProcessAction accepts leaves the betting where it was, so no
\* round of betting goes on for ever: IsRoundComplete, which asks only for one
\* action and matched bets, closes every round before somebody comes to act
\* in it with nothing to do.
THEOREM ActionsCount == Spec => EveryActionCounts
<1>1. Init => TurnOrder
  BY DEF Init, TurnOrder, Live, LivePhases
<1>2. IInv /\ TurnOrder /\ [Next]_vars =>
        [Live /\ CardsDealt /\ phase' = phase /\ seats' = seats =>
           \/ round'.acted # round.acted
           \/ \E p \in Seated : stack'[p] < stack[p]
           \/ \E p \in Seated : pstate[p] = "ACTIVE" /\ pstate'[p] # "ACTIVE"]_vars
  <2> SUFFICES ASSUME IInv, TurnOrder, Next PROVE Counts
    BY Zenon DEF Counts
  <2>1. CASE SitDown \/ BeginGame \/ BeginHand
    BY <2>1 DEF SitDown, BeginGame, BeginHand, Counts, Live, LivePhases
  <2>2. CASE Deal
    BY Zenon, <2>2 DEF Deal, Counts
  <2>3. CASE Act
    BY Zenon, <2>3, ActionCounts DEF Act
  <2>4. CASE RunOut
    BY Zenon, <2>4, AdvanceLeaves DEF RunOut, DealBoard, Counts
  <2> QED BY Zenon, <2>1, <2>2, <2>3, <2>4 DEF Next
<1> QED BY <1>1, <1>2, InitIInv, NextIInv, NextTurnOrder, PTL DEF Spec, EveryActionCounts

----------------------------------------------------------------------------
(* The chips of the table.                                                 *)

\* What a step may do to a table that holds t chips.
ChipsFrom(t) ==
  /\ Chips' <= t
  /\ phase' # "COMPLETE" => Chips' = t
  /\ InHand' # {} => t - Chips' < NumSeats

\* AdvancePhase after the bets have been collected pays out at most the pot.
LEMMA AdvanceMovesChips ==
  ASSUME TypeOK, EnoughSeats, Live,
         NEW st \in [Players -> Nat], NEW ps, NEW rd, NEW total \in Nat, NEW c,
         AdvancePhase(st, ps, rd, total, c),
         seats' = seats, bet' = [p \in Players |-> 0]
  PROVE  ChipsFrom(SumOver(st, seats) + total)
<1>1. phase \in LivePhases /\ phase # "WAITING" /\ seats \in Seq(Players) /\ pstate' = ps /\ pot' = total
  BY DEF Live, LivePhases, AdvancePhase, TypeOK
<1>2. NumSeats \in Nat /\ NumSeats >= 2 /\ NumSeats' = NumSeats
  BY <1>1 DEF EnoughSeats, NumSeats
<1>3. SumOver(bet', seats') = 0 /\ SumOver(st, seats) \in Nat
  BY Zenon, <1>1, SumOfZeros, SumOfNaturals
<1>4. CASE AtMostOne(PlayersInHand(ps)) \/ phase = "RIVER"
  <2>1. EndHand(st, ps, total)
    BY <1>4 DEF AdvancePhase
  <2>2. /\ phase' = "COMPLETE" /\ stack' \in [Players -> Nat]
        /\ SumOver(stack', seats) <= SumOver(st, seats) + total
        /\ PlayersInHand(ps) # {} =>
             SumOver(st, seats) + total - SumOver(stack', seats) < NumSeats
    BY Zenon, <1>1, <2>1, EndHandPays
  <2>3. SumOver(stack', seats) \in Nat
    BY Zenon, <1>1, <2>2, SumOfNaturals
  <2>4. Chips' = SumOver(stack', seats)
    BY <1>3, <2>2, <2>3 DEF Chips, Live, LivePhases
  <2>5. InHand' = PlayersInHand(ps)
    BY Zenon, <1>1 DEF InHand, PlayersInHand, Seated, NumSeats
  <2>6. Chips' <= SumOver(st, seats) + total /\ phase' = "COMPLETE"
    BY Zenon, <2>2, <2>4
  <2>7. InHand' # {} => SumOver(st, seats) + total - Chips' < NumSeats
    BY Zenon, <2>2, <2>4, <2>5
  <2> QED BY <2>3, <2>4, <2>6, <2>7, <1>2, <1>3 DEF ChipsFrom
<1>5. CASE ~(AtMostOne(PlayersInHand(ps)) \/ phase = "RIVER")
  <2>1. phase' = NextPhase(phase) /\ stack' = st
    BY <1>5 DEF AdvancePhase
  <2>2. phase' \in LivePhases /\ phase' # "COMPLETE"
    BY Zenon, <1>1, <1>5, <2>1 DEF LivePhases, NextPhase
  <2>3. Chips' = SumOver(st, seats) + total
    BY <1>1, <1>3, <2>1, <2>2 DEF Chips, Live
  <2> QED BY <1>2, <1>3, <2>3 DEF ChipsFrom
<1> QED BY Zenon, <1>4, <1>5

\* The tail of ProcessAction moves chips and makes none.
LEMMA ProceedMovesChips ==
  ASSUME IInv, Live,
         NEW st \in [Players -> Nat], NEW bt \in [Players -> Nat], NEW ps, NEW rd,
         SumOver(st, seats) + SumOver(bt, seats) = SumOver(stack, seats) + SumOver(bet, seats),
         Proceed(st, bt, ps, rd)
  PROVE  ChipsFrom(Chips)
<1>0. TypeOK /\ EnoughSeats /\ phase # "WAITING"
  BY Zenon DEF IInv, Live, LivePhases
<1>1. seats \in Seq(Players) /\ pot \in Nat /\ stack \in [Players -> Nat] /\ bet \in [Players -> Nat]
  BY Zenon, <1>0 DEF TypeOK
<1>2. NumSeats \in Nat /\ NumSeats >= 2 /\ seats' = seats
  BY <1>0, <1>1 DEF EnoughSeats, NumSeats, Proceed
<1>3. /\ SumOver(st, seats) \in Nat /\ SumOver(bt, seats) \in Nat
      /\ SumOver(stack, seats) \in Nat /\ SumOver(bet, seats) \in Nat
  BY Zenon, <1>1, SumOfNaturals
<1>4. Chips = SumOver(stack, seats) + SumOver(bet, seats) + pot
  BY Zenon DEF Chips
<1>5. Chips = SumOver(st, seats) + SumOver(bt, seats) + pot
  BY Zenon, <1>1, <1>3, <1>4
<1>6. CASE IsRoundComplete(ps, bt, rd)
  <2> DEFINE nx == GetNextActivePlayer(ps, cur)
             total == pot + SumOver(bt, seats)
  <2>1. bet' = [p \in Players |-> 0] /\ AdvancePhase(st, ps, rd, total, nx)
    BY Zenon, <1>6 DEF Proceed
  <2>2. total \in Nat /\ SumOver(st, seats) + total = Chips
    BY <1>1, <1>3, <1>5
  <2> HIDE DEF nx, total
  <2>3. ChipsFrom(SumOver(st, seats) + total)
    BY Zenon, <1>0, <1>2, <2>1, <2>2, AdvanceMovesChips
  <2> QED BY Zenon, <2>2, <2>3
<1>7. CASE ~IsRoundComplete(ps, bt, rd)
  <2>1. stack' = st /\ bet' = bt /\ phase' = phase /\ pot' = pot
    BY Zenon, <1>7 DEF Proceed
  <2>2. Chips' = Chips
    BY Zenon, <1>2, <1>5, <2>1 DEF Chips, Live
  <2>3. Chips \in Nat
    BY <1>1, <1>3, <1>4
  <2> QED BY <1>2, <2>2, <2>3 DEF ChipsFrom
<1> QED BY <1>6, <1>7

\* Player::Bet followed by the tail.
LEMMA BetMovesChips ==
  ASSUME IInv, Live, NEW p \in Players, IsTurn(p), NEW x \in Nat, x <= stack[p],
         NEW ps, NEW rd, BetAndProceed(p, x, ps, rd)
  PROVE  ChipsFrom(Chips)
<1> DEFINE st == [stack EXCEPT ![p] = @ - x]
           bt == [bet EXCEPT ![p] = @ + x]
<1>1. /\ TypeOK /\ stack \in [Players -> Nat] /\ bet \in [Players -> Nat]
      /\ seats \in Seq(Players) /\ p \in Seated
  BY Zenon DEF IInv, TypeOK, IsTurn
<1>2. st \in [Players -> Nat] /\ bt \in [Players -> Nat]
  BY <1>1
<1>3. Proceed(st, bt, ps, rd)
  BY DEF BetAndProceed
<1>4. /\ stack[p] \in Int /\ bet[p] \in Int /\ stack[p] - x \in Int /\ bet[p] + x \in Int
      /\ stack \in [Players -> Int] /\ bet \in [Players -> Int]
  BY <1>1
<1>5. SumOver(Updated(stack, p, stack[p] - x), seats) = SumOver(stack, seats) + (stack[p] - x) - stack[p]
  BY Zenon, <1>1, <1>4, SeatUpdate
<1>6. SumOver(Updated(bet, p, bet[p] + x), seats) = SumOver(bet, seats) + (bet[p] + x) - bet[p]
  BY Zenon, <1>1, <1>4, SeatUpdate
<1>7. SumOver(stack, seats) \in Nat /\ SumOver(bet, seats) \in Nat
  BY Zenon, <1>1, SumOfNaturals
<1>8. st = Updated(stack, p, stack[p] - x) /\ bt = Updated(bet, p, bet[p] + x)
  BY Zenon DEF Updated
<1> HIDE DEF st, bt
<1>9. SumOver(st, seats) + SumOver(bt, seats) = SumOver(stack, seats) + SumOver(bet, seats)
  BY <1>4, <1>5, <1>6, <1>7, <1>8
<1> QED BY Zenon, <1>2, <1>3, <1>9, ProceedMovesChips

\* Every player action moves chips and makes none.
LEMMA ActionMovesChips ==
  ASSUME IInv, Live, NEW p \in Players, ProcessAction(p)
  PROVE  ChipsFrom(Chips)
<1>1. IsTurn(p)
  BY Zenon DEF ProcessAction, Fold, Check, Call, Bet, Raise, AllIn
<1>2. /\ stack[p] \in Nat /\ bet[p] \in Nat /\ round.currentBet \in Nat
      /\ bet[p] <= round.currentBet
      /\ stack \in [Players -> Nat] /\ bet \in [Players -> Nat]
  BY Zenon, <1>1, OnTurn DEF IInv, TypeOK
<1>3. ToCall(p) \in Nat
  BY <1>2 DEF ToCall
<1>4. ASSUME NEW ps, NEW rd, Proceed(stack, bet, ps, rd) PROVE ChipsFrom(Chips)
  BY Zenon, <1>2, <1>4, ProceedMovesChips
<1>5. CASE Fold(p)
  BY <1>4, <1>5 DEF Fold
<1>6. CASE Check(p)
  BY Zenon, <1>4, <1>6 DEF Check
<1>7. CASE Call(p)
  <2>1. ToCall(p) <= stack[p] /\ BetAndProceed(p, ToCall(p), pstate, WithAction(p))
    BY Zenon, <1>2, <1>3, <1>7 DEF Call
  <2> QED BY Zenon, <1>1, <1>3, <2>1, BetMovesChips
<1>8. ASSUME NEW amount \in Amounts, Bet(p, amount) PROVE ChipsFrom(Chips)
  <2>1. amount \in Nat
    BY Zenon, ConfigAssumption
  <2>2. amount <= stack[p] /\ BetAndProceed(p, amount, pstate, WithRaise(p, bet[p] + amount, amount))
    BY Zenon, <1>2, <1>8, <2>1 DEF Bet
  <2> QED BY Zenon, <1>1, <2>1, <2>2, BetMovesChips
<1>9. ASSUME NEW amount \in Amounts, Raise(p, amount) PROVE ChipsFrom(Chips)
  <2> DEFINE total == ToCall(p) + amount
  <2>1. total \in Nat
    BY <1>3, ConfigAssumption
  <2>2. total <= stack[p] /\ BetAndProceed(p, total, pstate, WithRaise(p, bet[p] + total, total))
    BY Zenon, <1>2, <1>9, <2>1 DEF Raise
  <2> HIDE DEF total
  <2> QED BY Zenon, <1>1, <2>1, <2>2, BetMovesChips
<1>10. CASE AllIn(p)
  <2>1. stack[p] <= stack[p]
        /\ BetAndProceed(p, stack[p], [pstate EXCEPT ![p] = "ALL_IN"], WithAction(p))
    BY <1>2, <1>10 DEF AllIn
  <2> QED BY Zenon, <1>1, <1>2, <2>1, BetMovesChips
<1> QED BY <1>5, <1>6, <1>7, <1>8, <1>9, <1>10 DEF ProcessAction

\* A step after which the same chips lie on the table.
LEMMA SameChips ==
  ASSUME IInv, phase # "WAITING", Chips' = Chips
  PROVE  ChipsFrom(Chips)
<1>1. /\ stack \in [Players -> Nat] /\ bet \in [Players -> Nat] /\ pot \in Nat
      /\ seats \in Seq(Players)
  BY DEF IInv, TypeOK
<1>2. SumOver(stack, seats) \in Nat /\ SumOver(bet, seats) \in Nat
  BY Zenon, <1>1, SumOfNaturals
<1>3. Chips \in Nat
  BY <1>1, <1>2 DEF Chips
<1>4. NumSeats \in Nat /\ NumSeats >= 2
  BY <1>1 DEF IInv, EnoughSeats, NumSeats
<1> QED BY <1>3, <1>4 DEF ChipsFrom

\* Every step of a started game accounts for its chips.
LEMMA NextMovesChips ==
  ASSUME IInv, [Next]_vars, phase # "WAITING"
  PROVE  ChipsFrom(Chips)
<1>0. TypeOK /\ EnoughSeats
  BY DEF IInv
<1>1. CASE SitDown \/ BeginGame
  BY <1>1 DEF SitDown, BeginGame
<1>2. CASE BeginHand
  <2> DEFINE d == (dealer + 1) % NumSeats
  <2>1. PostBlinds(d) /\ pot' = 0 /\ phase' = "PREFLOP" /\ seats' = seats /\ ~Live
    BY <1>2 DEF BeginHand, StartNewHand, Live, LivePhases
  <2>2. NumSeats \in Nat /\ NumSeats >= 2 /\ dealer \in Nat /\ seats \in Seq(Players)
        /\ stack \in [Players -> Nat]
    BY <1>0 DEF TypeOK, EnoughSeats, NumSeats
  <2>3. d \in 0..(NumSeats - 1)
    BY <2>2
  <2> HIDE DEF d
  <2>4. SumOver(stack', seats) + SumOver(bet', seats) = SumOver(stack, seats)
    BY Zenon, <1>0, <2>1, <2>2, <2>3, BlindsPosted
  <2>5. bet = [p \in Players |-> 0]
    BY <2>1 DEF IInv, BetsCollected
  <2>6. SumOver(bet, seats) = 0 /\ SumOver(stack, seats) \in Nat
    BY Zenon, <2>2, <2>5, SumOfZeros, SumOfNaturals
  <2>7. Chips = SumOver(stack, seats)
    BY <2>1, <2>6 DEF Chips
  <2>8. Chips' = SumOver(stack, seats)
    <3>1. Chips' = SumOver(stack', seats) + SumOver(bet', seats) + 0
      BY <2>1 DEF Chips, Live, LivePhases
    <3> QED BY <3>1, <2>4, <2>6
  <2> QED BY Zenon, <2>7, <2>8, SameChips
<1>3. CASE Deal
  <2>1. Chips' = Chips
    BY <1>3 DEF Deal, DealCards, Chips, Live
  <2> QED BY Zenon, <2>1, SameChips
<1>4. CASE Act
  BY <1>4, ActionMovesChips DEF Act
<1>5. CASE RunOut
  <2>1. Live /\ NobodyActive /\ AdvancePhase(stack, pstate, round, pot, cur) /\ bet' = bet /\ seats' = seats
    BY Zenon, <1>5 DEF RunOut, DealBoard
  <2>2. /\ bet = [p \in Players |-> 0] /\ pot \in Nat /\ seats \in Seq(Players)
        /\ stack \in [Players -> Nat]
    BY SMTT(40), <1>0, <2>1 DEF IInv, BetsCollected, TypeOK
  <2>3. ChipsFrom(SumOver(stack, seats) + pot)
    BY Zenon, <1>0, <2>1, <2>2, AdvanceMovesChips
  <2>4. SumOver(bet, seats) = 0 /\ SumOver(stack, seats) \in Nat
    BY Zenon, <2>2, SumOfZeros, SumOfNaturals
  <2>5. Chips = SumOver(stack, seats) + pot
    BY SMTT(40), <2>1, <2>2, <2>4 DEF Chips
  <2> QED BY <2>3, <2>5
<1>6. CASE UNCHANGED vars
  <2>1. Chips' = Chips
    BY SMTT(40), <1>6 DEF vars, Chips, Live
  <2> QED BY <2>1, SameChips
<1> QED BY Zenon, <1>1, <1>2, <1>3, <1>4, <1>5, <1>6 DEF Next

\* No step of a started game makes chips, none loses any before the hand ends,
\* and the end of a hand loses less than one chip per seat while somebody is
\* left to be paid: whatever the number of players, the blinds and the stacks.
THEOREM ChipsAreConserved == Spec => ChipsConserved
<1>1. IInv /\ [Next]_vars =>
        [phase # "WAITING" =>
           /\ Chips' <= Chips
           /\ phase' # "COMPLETE" => Chips' = Chips
           /\ InHand' # {} => Chips - Chips' < NumSeats]_vars
  BY Zenon, NextMovesChips DEF ChipsFrom
<1> QED BY <1>1, TableInvariant, PTL DEF Spec, ChipsConserved

----------------------------------------------------------------------------
(* The open table, where players come, leave, start hands and act at any   *)
(* moment.  The seat indices may point past the vector and one player may  *)
(* post both blinds, so that ToCall and the last raise may be negative;    *)
(* what stays true of the types is enough for both properties.             *)

OpenRounds == [open : BOOLEAN, currentBet : Nat, acted : SUBSET Players, lastRaise : Int]

OpenTypes ==
  /\ seats \in Seq(Players)
  /\ \A i, j \in 1..NumSeats : seats[i] = seats[j] => i = j
  /\ stack \in [Players -> Nat]
  /\ bet \in [Players -> Nat]
  /\ pstate \in [Players -> PlayerStates]
  /\ dealer \in Nat
  /\ round \in OpenRounds
  /\ pot \in Nat
  /\ hands \in Nat

\* The two properties, as what one step does.
NoChipsMade == Live /\ Seated' \subseteq Seated => Chips' <= Chips
FoldedOut ==
  \A p \in Seated \cap Seated' :
    pstate[p] = "FOLDED" /\ hands' = hands =>
      pstate'[p] = "FOLDED" /\ stack'[p] = stack[p] /\ bet'[p] <= bet[p]

OpenStep == OpenTypes' /\ NoChipsMade /\ FoldedOut

\* s without its k-th element.
Without(s, k) == [i \in 1..(Len(s) - 1) |-> IF i < k THEN s[i] ELSE s[i + 1]]

\* Leaving out one element leaves out its part of the total.
LEMMA SumOfRemoval ==
  ASSUME NEW P, NEW s \in Seq(P), NEW f \in [P -> Int], NEW k \in 1..Len(s)
  PROVE  Without(s, k) \in Seq(P) /\ SumOver(f, Without(s, k)) = SumOver(f, s) - f[s[k]]
<1> DEFINE r == Without(s, k)
           n == Len(s)
           m == n - 1
           F == PrefixSum(f, s)
           G == PrefixSum(f, r)
           A == {i \in 0..m : G[i] = IF i < k THEN F[i] ELSE F[i + 1] - f[s[k]]}
<1>0. n \in Nat /\ m \in Nat /\ k \in 1..n /\ f[s[k]] \in Int
  OBVIOUS
<1>r. r = [i \in 1..m |-> IF i < k THEN s[i] ELSE s[i + 1]]
  BY DEF Without
<1> HIDE DEF r
<1>1. r \in Seq(P) /\ Len(r) = m
  <2>1. \A i \in 1..m : i \in 1..n /\ i + 1 \in 1..n
    BY <1>0
  <2>2. \A i \in 1..n : s[i] \in P
    OBVIOUS
  <2>3. r \in [1..m -> P]
    BY Zenon, <1>r, <2>1, <2>2
  <2> QED BY <2>3, <1>0
<1>2. F \in [0..n -> Int] /\ F[0] = 0 /\ \A i \in 1..n : F[i] = F[i - 1] + f[s[i]]
  BY SMTT(40), PrefixSumDef
<1>3. G \in [0..m -> Int] /\ G[0] = 0 /\ \A i \in 1..m : G[i] = G[i - 1] + f[r[i]]
  <2>1. /\ G \in [0..Len(r) -> Int] /\ G[0] = 0
        /\ \A i \in 1..Len(r) : G[i] = G[i - 1] + f[r[i]]
    BY Zenon, <1>1, PrefixSumDef
  <2> HIDE DEF G, m
  <2> QED BY Zenon, <1>1, <2>1
<1>4. \A i \in 1..m : r[i] = IF i < k THEN s[i] ELSE s[i + 1]
  BY <1>r
<1>5. \A i \in 1..n : f[s[i]] \in Int
  OBVIOUS
<1> HIDE DEF F, G, n, m
<1>6. 0 \in A
  <2>1. 0 < k /\ 0 \in 0..m
    BY <1>0
  <2> QED BY Zenon, <2>1, <1>2, <1>3
<1>7. ASSUME NEW i \in 1..m, i - 1 \in A PROVE i \in A
  <2>1. /\ i \in 0..m /\ i - 1 \in 0..m /\ i \in 1..n /\ i + 1 \in 1..n /\ (i + 1) - 1 = i
        /\ (i - 1) + 1 = i /\ i - 1 \in 0..n /\ i \in 0..n
    BY <1>0 DEF m
  <2>2. /\ G[i - 1] = IF i - 1 < k THEN F[i - 1] ELSE F[i] - f[s[k]]
        /\ G[i] = G[i - 1] + f[IF i < k THEN s[i] ELSE s[i + 1]]
        /\ F[i] = F[i - 1] + f[s[i]] /\ F[i + 1] = F[i] + f[s[i + 1]]
    <3>1. G[i - 1] = IF i - 1 < k THEN F[i - 1] ELSE F[(i - 1) + 1] - f[s[k]]
      BY Zenon, <1>7
    <3>2. G[i] = G[i - 1] + f[r[i]] /\ r[i] = IF i < k THEN s[i] ELSE s[i + 1]
      BY Zenon, <1>3, <1>4
    <3>3. F[i] = F[i - 1] + f[s[i]] /\ F[i + 1] = F[(i + 1) - 1] + f[s[i + 1]]
      BY Zenon, <1>2, <2>1
    <3> HIDE DEF A
    <3> QED BY Zenon, <3>1, <3>2, <3>3, <2>1
  <2>3. F[i - 1] \in Int /\ F[i] \in Int /\ f[s[i]] \in Int /\ f[s[i + 1]] \in Int
    BY Zenon, <1>2, <1>5, <2>1
  <2>4. CASE i < k
    BY <2>1, <2>2, <2>3, <2>4, <1>0
  <2>5. CASE i = k
    BY <2>1, <2>2, <2>3, <2>5, <1>0
  <2>6. CASE i > k
    BY <2>1, <2>2, <2>3, <2>6, <1>0
  <2> QED BY <2>4, <2>5, <2>6, <1>0
<1>8. 0..m \subseteq A
  <2> HIDE DEF A
  <2> QED BY Zenon, <1>0, <1>6, <1>7, IntervalInduction
<1>9. G[m] = F[n] - f[s[k]]
  <2>1. m \in 0..m /\ m + 1 = n
    BY <1>0 DEF m
  <2>2. m \in A
    BY Zenon, <1>8, <2>1
  <2>3. CASE m < k
    <3>1. k = n /\ n \in 1..n /\ n - 1 = m
      BY <1>0, <2>1, <2>3 DEF m
    <3>2. F[n] = F[m] + f[s[k]] /\ F[m] \in Int
      BY <1>2, <3>1, <1>0, <2>1
    <3> QED BY <2>2, <2>3, <3>2, <1>0
  <2>4. CASE ~(m < k)
    BY Zenon, <2>1, <2>2, <2>4
  <2> QED BY <2>3, <2>4
<1> QED BY <1>1, <1>9 DEF SumOver, F, G, n, m, r

\* SeatUpdate at an open table.
LEMMA OpenSeatUpdate ==
  ASSUME OpenTypes, NEW f \in [Players -> Int], NEW p \in Seated, NEW v \in Int
  PROVE  SumOver(Updated(f, p, v), seats) = SumOver(f, seats) + v - f[p]
<1>1. seats \in Seq(Players) /\ \A k, l \in 1..Len(seats) : seats[k] = seats[l] => k = l
  BY Zenon DEF OpenTypes, NumSeats
<1>2. PICK k \in 1..Len(seats) : seats[k] = p
  BY DEF Seated, NumSeats
<1>3. SumOver(Updated(f, seats[k], v), seats) = SumOver(f, seats) + v - f[seats[k]]
  BY ZenonT(40), <1>1, <1>2, SumOfUpdate
<1> QED BY Zenon, <1>2, <1>3

\* The chips of the players, at an open table.
LEMMA OpenChips ==
  ASSUME OpenTypes
  PROVE  /\ SumOver(stack, seats) \in Nat /\ SumOver(bet, seats) \in Nat /\ pot \in Nat
         /\ Live => Chips = SumOver(stack, seats) + SumOver(bet, seats) + pot
<1>1. seats \in Seq(Players) /\ stack \in [Players -> Nat] /\ bet \in [Players -> Nat] /\ pot \in Nat
  BY DEF OpenTypes
<1>2. SumOver(stack, seats) \in Nat /\ SumOver(bet, seats) \in Nat
  BY <1>1, SumOfNaturals
<1> QED BY <1>1, <1>2 DEF Chips

\* AdvancePhase pays out at most the pot, and nothing to who has folded.
LEMMA OpenAdvance ==
  ASSUME seats \in Seq(Players), NEW st \in [Players -> Nat], NEW ps, NEW rd \in OpenRounds,
         NEW total \in Nat, NEW c, AdvancePhase(st, ps, rd, total, c)
  PROVE  /\ pstate' = ps /\ pot' = total
         /\ stack' \in [Players -> Nat] /\ round' \in OpenRounds
         /\ SumOver(stack', seats) + (IF Live' THEN total ELSE 0) <= SumOver(st, seats) + total
         /\ \A p \in Players : ps[p] = "FOLDED" => stack'[p] = st[p]
<1>1. pstate' = ps /\ pot' = total
  BY DEF AdvancePhase
<1>2. SumOver(st, seats) \in Nat
  BY SumOfNaturals
<1>3. CASE AtMostOne(PlayersInHand(ps)) \/ phase = "RIVER"
  <2>1. EndHand(st, ps, total) /\ round' = rd
    BY <1>3 DEF AdvancePhase
  <2>2. /\ phase' = "COMPLETE" /\ stack' \in [Players -> Nat]
        /\ SumOver(stack', seats) <= SumOver(st, seats) + total
    BY SMTT(40), <2>1, EndHandPays
  <2>3. \A p \in Players : ps[p] = "FOLDED" => stack'[p] = st[p]
    BY <2>1 DEF EndHand, WinnerSets, PlayersInHand
  <2>4. SumOver(stack', seats) \in Nat /\ ~Live'
    BY <2>2, SumOfNaturals DEF Live, LivePhases
  <2> QED BY <1>1, <1>2, <2>1, <2>2, <2>3, <2>4
<1>4. CASE ~(AtMostOne(PlayersInHand(ps)) \/ phase = "RIVER")
  <2>1. stack' = st /\ round' = EmptyRound(0)
    BY <1>4 DEF AdvancePhase
  <2>2. round' \in OpenRounds
    BY <2>1 DEF EmptyRound, OpenRounds
  <2> QED BY <1>1, <1>2, <2>1, <2>2
<1> QED BY <1>3, <1>4

\* The tail of ProcessAction, after an action that moved chips between a stack
\* and a bet and left those who have folded alone.
LEMMA OpenProceed ==
  ASSUME OpenTypes,
         NEW st \in [Players -> Nat], NEW bt \in [Players -> Nat],
         NEW ps \in [Players -> PlayerStates], NEW rd \in OpenRounds,
         SumOver(st, seats) + SumOver(bt, seats) = SumOver(stack, seats) + SumOver(bet, seats),
         \A q \in Players : pstate[q] = "FOLDED" =>
            ps[q] = "FOLDED" /\ st[q] = stack[q] /\ bt[q] = bet[q],
         Proceed(st, bt, ps, rd)
  PROVE  OpenStep
<1>1. /\ seats \in Seq(Players) /\ pot \in Nat /\ bet \in [Players -> Nat]
      /\ \A i, j \in 1..NumSeats : seats[i] = seats[j] => i = j
      /\ dealer \in Nat /\ hands \in Nat
  BY ZenonT(40) DEF OpenTypes
<1>2. seats' = seats /\ dealer' = dealer /\ hands' = hands
  BY DEF Proceed
<1>3. SumOver(st, seats) \in Nat /\ SumOver(bt, seats) \in Nat
  BY <1>1, SumOfNaturals
<1>4. /\ SumOver(stack, seats) \in Nat /\ SumOver(bet, seats) \in Nat
      /\ Live => Chips = SumOver(stack, seats) + SumOver(bet, seats) + pot
  BY Zenon, OpenChips
<1>5. Live => Chips = SumOver(st, seats) + SumOver(bt, seats) + pot
  BY Zenon, <1>4
<1>6. Seated \subseteq Players
  BY Zenon, <1>1, SeatedArePlayers
<1>7. CASE IsRoundComplete(ps, bt, rd)
  <2> DEFINE nx == GetNextActivePlayer(ps, cur)
             total == pot + SumOver(bt, seats)
  <2>1. bet' = [p \in Players |-> 0] /\ AdvancePhase(st, ps, rd, total, nx)
    BY <1>7 DEF Proceed
  <2>2. total \in Nat /\ (Live => SumOver(st, seats) + total = Chips)
    BY <1>1, <1>3, <1>5
  <2> HIDE DEF nx, total
  <2>3. /\ pstate' = ps /\ pot' = total
        /\ stack' \in [Players -> Nat] /\ round' \in OpenRounds
        /\ SumOver(stack', seats) + (IF Live' THEN total ELSE 0) <= SumOver(st, seats) + total
        /\ \A p \in Players : ps[p] = "FOLDED" => stack'[p] = st[p]
    BY ZenonT(40), <1>1, <2>1, <2>2, OpenAdvance
  <2>4. OpenTypes'
    BY <1>1, <1>2, <2>1, <2>2, <2>3 DEF OpenTypes, NumSeats
  <2>5. SumOver(bet', seats) = 0 /\ SumOver(stack', seats) \in Nat
    <3>1. SumOver([p \in Players |-> 0], seats) = 0
      BY Zenon, <1>1, SumOfZeros
    <3>2. SumOver(stack', seats) \in Nat
      BY Zenon, <1>1, <2>3, SumOfNaturals
    <3> QED BY Zenon, <3>1, <3>2, <2>1
  <2>6. Chips' = SumOver(stack', seats) + (IF Live' THEN total ELSE 0)
    <3>1. Chips' = SumOver(stack', seats) + SumOver(bet', seats) + (IF Live' THEN total ELSE 0)
      BY Zenon, <1>2, <2>3 DEF Chips
    <3>2. ASSUME NEW a \in Nat, NEW b, b = 0, NEW c \in Nat PROVE a + b + c = a + c
      BY <3>2
    <3>3. (IF Live' THEN total ELSE 0) \in Nat
      BY Zenon, <2>2
    <3> QED BY ZenonT(40), <3>1, <3>2, <3>3, <2>5
  <2>7. NoChipsMade
    BY Zenon, <2>2, <2>3, <2>6 DEF NoChipsMade
  <2>8. FoldedOut
    <3> SUFFICES ASSUME NEW p \in Players, pstate[p] = "FOLDED"
                 PROVE  pstate'[p] = "FOLDED" /\ stack'[p] = stack[p] /\ bet'[p] <= bet[p]
      BY Zenon, <1>6 DEF FoldedOut
    <3>1. bet[p] \in Nat /\ bet'[p] = 0
      BY ZenonT(40), <1>1, <2>1
    <3> QED BY <3>1, <2>3
  <2> QED BY Zenon, <2>4, <2>7, <2>8 DEF OpenStep
<1>8. CASE ~IsRoundComplete(ps, bt, rd)
  <2>1. stack' = st /\ bet' = bt /\ pstate' = ps /\ round' = rd /\ phase' = phase /\ pot' = pot
    BY ZenonT(40), <1>8 DEF Proceed
  <2>2. OpenTypes'
    BY ZenonT(40), <1>1, <1>2, <2>1 DEF OpenTypes, NumSeats
  <2>3. Live => Chips' = Chips /\ Chips \in Nat
    <3>1. Live => Live' /\ Chips' = SumOver(st, seats) + SumOver(bt, seats) + pot
      BY Zenon, <1>2, <2>1 DEF Chips, Live
    <3>2. SumOver(st, seats) + SumOver(bt, seats) + pot \in Nat
      BY <1>1, <1>3
    <3> QED BY Zenon, <1>5, <3>1, <3>2
  <2>4. NoChipsMade
    BY <2>3 DEF NoChipsMade
  <2>5. FoldedOut
    <3> SUFFICES ASSUME NEW p \in Players, pstate[p] = "FOLDED"
                 PROVE  pstate'[p] = "FOLDED" /\ stack'[p] = stack[p] /\ bet'[p] <= bet[p]
      BY <1>6 DEF FoldedOut
    <3>1. bet[p] \in Nat
      BY Zenon, <1>1
    <3> QED BY <3>1, <2>1
  <2> QED BY ZenonT(40), <2>2, <2>4, <2>5 DEF OpenStep
<1> QED BY <1>7, <1>8

\* Player::Bet with an amount that may be negative, followed by the tail.
LEMMA OpenBet ==
  ASSUME OpenTypes, NEW p \in Players, IsTurn(p),
         NEW x \in Int, x <= stack[p], bet[p] + x >= 0,
         NEW ps \in [Players -> PlayerStates], NEW rd \in OpenRounds,
         \A q \in Players : q # p => ps[q] = pstate[q],
         BetAndProceed(p, x, ps, rd)
  PROVE  OpenStep
<1> DEFINE st == [stack EXCEPT ![p] = @ - x]
           bt == [bet EXCEPT ![p] = @ + x]
<1>1. /\ stack \in [Players -> Nat] /\ bet \in [Players -> Nat]
      /\ p \in Seated /\ pstate[p] = "ACTIVE"
  BY Zenon DEF OpenTypes, IsTurn
<1>2. st \in [Players -> Nat] /\ bt \in [Players -> Nat]
  BY <1>1
<1>3. Proceed(st, bt, ps, rd)
  BY Zenon DEF BetAndProceed
<1>4. /\ stack[p] \in Int /\ bet[p] \in Int /\ stack[p] - x \in Int /\ bet[p] + x \in Int
      /\ stack \in [Players -> Int] /\ bet \in [Players -> Int]
  BY <1>1
<1>5. SumOver(Updated(stack, p, stack[p] - x), seats) = SumOver(stack, seats) + (stack[p] - x) - stack[p]
  BY Zenon, <1>1, <1>4, OpenSeatUpdate
<1>6. SumOver(Updated(bet, p, bet[p] + x), seats) = SumOver(bet, seats) + (bet[p] + x) - bet[p]
  BY Zenon, <1>1, <1>4, OpenSeatUpdate
<1>7. SumOver(stack, seats) \in Nat /\ SumOver(bet, seats) \in Nat
  BY Zenon, OpenChips
<1>8. st = Updated(stack, p, stack[p] - x) /\ bt = Updated(bet, p, bet[p] + x)
  BY Zenon DEF Updated
<1>9. \A q \in Players : pstate[q] = "FOLDED" =>
         ps[q] = "FOLDED" /\ st[q] = stack[q] /\ bt[q] = bet[q]
  BY Zenon, <1>1
<1> HIDE DEF st, bt
<1>10. SumOver(st, seats) + SumOver(bt, seats) = SumOver(stack, seats) + SumOver(bet, seats)
  BY <1>4, <1>5, <1>6, <1>7, <1>8
<1> QED BY Zenon, <1>2, <1>3, <1>9, <1>10, OpenProceed

\* AddAction and SetCurrentBet leave a betting round.
LEMMA OpenRecorded ==
  ASSUME OpenTypes, NEW p \in Players
  PROVE  /\ WithAction(p) \in OpenRounds
         /\ \A b \in Nat, a \in Int : WithRaise(p, b, a) \in OpenRounds
BY Zenon DEF OpenTypes, OpenRounds, WithAction, WithRaise

\* Every player action.
LEMMA OpenAction ==
  ASSUME OpenTypes, NEW p \in Players, ProcessAction(p)
  PROVE  OpenStep
<1>1. /\ stack \in [Players -> Nat] /\ bet \in [Players -> Nat]
      /\ pstate \in [Players -> PlayerStates]
      /\ stack[p] \in Nat /\ bet[p] \in Nat /\ round.currentBet \in Nat
  BY DEF OpenTypes, OpenRounds
<1>2. /\ WithAction(p) \in OpenRounds
      /\ \A b \in Nat, a \in Int : WithRaise(p, b, a) \in OpenRounds
  BY ZenonT(40), OpenRecorded
<1>3. IsTurn(p) /\ pstate[p] = "ACTIVE"
  BY ZenonT(40) DEF ProcessAction, Fold, Check, Call, Bet, Raise, AllIn, IsTurn
<1>4. \A q \in Players : q # p => pstate[q] = pstate[q]
  BY Zenon
<1>5. CASE Fold(p)
  <2> DEFINE ps == [pstate EXCEPT ![p] = "FOLDED"]
  <2>1. ps \in [Players -> PlayerStates] /\ Proceed(stack, bet, ps, WithAction(p))
    BY Zenon, <1>1, <1>5 DEF Fold, PlayerStates
  <2>2. \A q \in Players : pstate[q] = "FOLDED" =>
           ps[q] = "FOLDED" /\ stack[q] = stack[q] /\ bet[q] = bet[q]
    BY Zenon, <1>1
  <2> HIDE DEF ps
  <2> QED BY Zenon, <1>1, <1>2, <2>1, <2>2, OpenProceed
<1>6. CASE Check(p)
  <2>1. Proceed(stack, bet, pstate, WithAction(p))
    BY Zenon, <1>6 DEF Check
  <2> QED BY Zenon, <1>1, <1>2, <2>1, OpenProceed
<1>7. CASE Call(p)
  <2> DEFINE x == ToCall(p)
  <2>1. x \in Int /\ x <= stack[p] /\ bet[p] + x >= 0
    BY <1>1, <1>7 DEF Call, ToCall
  <2>2. BetAndProceed(p, x, pstate, WithAction(p))
    BY Zenon, <1>7 DEF Call
  <2> HIDE DEF x
  <2> QED BY Zenon, <1>1, <1>2, <1>3, <1>4, <2>1, <2>2, OpenBet
<1>8. CASE AllIn(p)
  <2> DEFINE ps == [pstate EXCEPT ![p] = "ALL_IN"]
             x == stack[p]
  <2>1. x \in Int /\ x <= stack[p] /\ bet[p] + x >= 0
    BY <1>1
  <2>2. BetAndProceed(p, x, ps, WithAction(p))
    BY Zenon, <1>8 DEF AllIn
  <2>3. ps \in [Players -> PlayerStates] /\ \A q \in Players : q # p => ps[q] = pstate[q]
    BY Zenon, <1>1 DEF PlayerStates
  <2> HIDE DEF x, ps
  <2> QED BY Zenon, <1>1, <1>2, <1>3, <2>1, <2>2, <2>3, OpenBet
<1>9. ASSUME NEW a \in Amounts, Bet(p, a) PROVE OpenStep
  <2>1. a \in Int /\ a <= stack[p] /\ bet[p] + a >= 0 /\ bet[p] + a \in Nat
    BY <1>1, <1>9, ConfigAssumption DEF Bet
  <2>2. BetAndProceed(p, a, pstate, WithRaise(p, bet[p] + a, a))
    BY Zenon, <1>9 DEF Bet
  <2>3. WithRaise(p, bet[p] + a, a) \in OpenRounds
    BY Zenon, <1>2, <2>1
  <2> QED BY ZenonT(40), <1>1, <1>3, <1>4, <2>1, <2>2, <2>3, OpenBet
<1>10. ASSUME NEW a \in Amounts, Raise(p, a) PROVE OpenStep
  <2> DEFINE x == ToCall(p) + a
  <2>0. a \in Nat
    BY Zenon, ConfigAssumption
  <2>1. x \in Int /\ x <= stack[p] /\ bet[p] + x >= 0 /\ bet[p] + x \in Nat
    BY <1>1, <1>10, <2>0 DEF Raise, ToCall
  <2>2. BetAndProceed(p, x, pstate, WithRaise(p, bet[p] + x, x))
    BY Zenon, <1>10 DEF Raise
  <2> HIDE DEF x
  <2>3. WithRaise(p, bet[p] + x, x) \in OpenRounds
    BY Zenon, <1>2, <2>1
  <2> QED BY Zenon, <1>1, <1>3, <1>4, <2>1, <2>2, <2>3, OpenBet
<1> QED BY Zenon, <1>5, <1>6, <1>7, <1>8, <1>9, <1>10 DEF ProcessAction

\* PostBlinds with one seat or more only moves chips.
LEMMA OpenBlinds ==
  ASSUME OpenTypes, NumSeats # 0, NEW d \in 0..(NumSeats - 1), PostBlinds(d)
  PROVE  /\ stack' \in [Players -> Nat] /\ bet' \in [Players -> Nat]
         /\ SumOver(stack', seats) + SumOver(bet', seats) = SumOver(stack, seats)
<1> DEFINE i == SmallBlindSeat(d) + 1
           j == BigBlindSeat(d) + 1
           sb == seats[i]
           bb == seats[j]
           x == Blind(stack, sb, SmallBlind)
           st == [stack EXCEPT ![sb] = @ - x]
           y == Blind(st, bb, BigBlind)
           zero == [p \in Players |-> 0]
           b1 == [zero EXCEPT ![sb] = x]
<1>1. seats \in Seq(Players) /\ stack \in [Players -> Nat] /\ NumSeats = Len(seats)
  BY DEF OpenTypes, NumSeats
<1>2. i \in 1..Len(seats) /\ j \in 1..Len(seats)
  <2>1. NumSeats \in Nat \ {0}
    BY <1>1
  <2>2. SmallBlindSeat(d) \in 0..(NumSeats - 1) /\ BigBlindSeat(d) \in 0..(NumSeats - 1)
    BY <2>1 DEF SmallBlindSeat, BigBlindSeat
  <2>3. ASSUME NEW n \in Nat, NEW k \in 0..(n - 1) PROVE k + 1 \in 1..n
    OBVIOUS
  <2> QED BY Zenon, <1>1, <2>1, <2>2, <2>3
<1> HIDE DEF i, j
<1>4. sb \in Players /\ bb \in Players /\ sb \in Seated /\ bb \in Seated
  BY SMTT(40), <1>1, <1>2 DEF Seated
<1>5. stack' = [st EXCEPT ![bb] = @ - y] /\ bet' = [b1 EXCEPT ![bb] = @ + y]
  BY Zenon DEF PostBlinds, At, i, j
<1> HIDE DEF sb, bb
<1>6. x \in Nat /\ x <= stack[sb]
  BY SMTT(40), <1>1, <1>4, ConfigAssumption DEF Blind
<1> HIDE DEF x
<1>7. st \in [Players -> Nat]
  BY <1>1, <1>4, <1>6
<1>8. y \in Nat /\ y <= st[bb]
  BY <1>4, <1>7, ConfigAssumption DEF Blind
<1> HIDE DEF y
<1>9. b1 \in [Players -> Nat] /\ zero \in [Players -> Nat] /\ zero[sb] = 0
  BY Zenon, <1>4, <1>6
<1>10. stack' \in [Players -> Nat] /\ bet' \in [Players -> Nat]
  BY <1>4, <1>5, <1>7, <1>8, <1>9
<1>11. /\ st = Updated(stack, sb, stack[sb] - x) /\ stack' = Updated(st, bb, st[bb] - y)
       /\ b1 = Updated(zero, sb, x) /\ bet' = Updated(b1, bb, b1[bb] + y)
  BY <1>5 DEF Updated
<1>12. SumOver(zero, seats) = 0
  BY Zenon, <1>1, SumOfZeros
<1> HIDE DEF st, b1, zero
<1>13. /\ stack \in [Players -> Int] /\ st \in [Players -> Int]
       /\ zero \in [Players -> Int] /\ b1 \in [Players -> Int]
       /\ stack[sb] \in Int /\ st[bb] \in Int /\ b1[bb] \in Int
       /\ stack[sb] - x \in Int /\ st[bb] - y \in Int /\ b1[bb] + y \in Int /\ x \in Int
  <2>1. stack[sb] \in Nat /\ st[bb] \in Nat /\ b1[bb] \in Nat
    BY Zenon, <1>1, <1>4, <1>7, <1>9
  <2>2. \A f \in [Players -> Nat] : f \in [Players -> Int]
    OBVIOUS
  <2>3. ASSUME NEW a \in Nat, NEW c \in Nat PROVE a \in Int /\ a - c \in Int /\ a + c \in Int
    OBVIOUS
  <2> QED BY Zenon, <1>1, <1>6, <1>7, <1>8, <1>9, <2>1, <2>2, <2>3
<1>14. SumOver(st, seats) = SumOver(stack, seats) + (stack[sb] - x) - stack[sb]
  BY Zenon, <1>4, <1>11, <1>13, OpenSeatUpdate
<1>15. SumOver(stack', seats) = SumOver(st, seats) + (st[bb] - y) - st[bb]
  BY Zenon, <1>4, <1>11, <1>13, OpenSeatUpdate
<1>16. SumOver(b1, seats) = SumOver(zero, seats) + x - zero[sb]
  BY Zenon, <1>4, <1>11, <1>13, OpenSeatUpdate
<1>17. SumOver(bet', seats) = SumOver(b1, seats) + (b1[bb] + y) - b1[bb]
  BY Zenon, <1>4, <1>11, <1>13, OpenSeatUpdate
<1>18. SumOver(stack, seats) \in Nat
  BY <1>1, SumOfNaturals
<1>19. SumOver(st, seats) = SumOver(stack, seats) - x /\ SumOver(b1, seats) = x
  BY <1>6, <1>9, <1>12, <1>13, <1>14, <1>16, <1>18
<1>20. SumOver(stack', seats) + SumOver(bet', seats) = SumOver(stack, seats)
  BY <1>6, <1>8, <1>13, <1>15, <1>17, <1>18, <1>19
<1> QED BY <1>10, <1>20

\* Starting a hand, at any moment and with any number of seats.
LEMMA OpenHand ==
  ASSUME OpenTypes, StartNewHand
  PROVE  OpenStep
<1> DEFINE d == (dealer + 1) % NumSeats
<1>1. /\ PostBlinds(d) /\ pot' = 0 /\ seats' = seats /\ NumSeats # 0
      /\ dealer' = d /\ hands' = hands + 1 /\ pstate' = ResetStates
  BY DEF StartNewHand
<1>2. /\ NumSeats \in Nat /\ dealer \in Nat /\ seats \in Seq(Players) /\ hands \in Nat
      /\ pstate \in [Players -> PlayerStates] /\ bet \in [Players -> Nat]
  BY DEF OpenTypes, NumSeats
<1>3. d \in 0..(NumSeats - 1) /\ d \in Nat
  BY <1>1, <1>2
<1>4. round' \in OpenRounds
  <2>1. round' = EmptyRound(BigBlind)
    BY Zenon, <1>1 DEF PostBlinds
  <2>2. BigBlind \in Nat
    BY Zenon, ConfigAssumption
  <2> QED BY <2>1, <2>2 DEF EmptyRound, OpenRounds
<1> HIDE DEF d
<1>5. /\ stack' \in [Players -> Nat] /\ bet' \in [Players -> Nat]
      /\ SumOver(stack', seats) + SumOver(bet', seats) = SumOver(stack, seats)
  BY Zenon, <1>1, <1>3, OpenBlinds
<1>6. pstate' \in [Players -> PlayerStates]
  BY Zenon, <1>1, <1>2 DEF ResetStates, PlayerStates
<1>7. OpenTypes'
  BY <1>1, <1>2, <1>3, <1>4, <1>5, <1>6 DEF OpenTypes, NumSeats
<1>8. /\ SumOver(stack, seats) \in Nat /\ SumOver(bet, seats) \in Nat /\ pot \in Nat
      /\ Live => Chips = SumOver(stack, seats) + SumOver(bet, seats) + pot
  BY OpenChips
<1>9. Chips' = SumOver(stack, seats)
  <2>1. Chips' = SumOver(stack', seats) + SumOver(bet', seats) + 0
    BY Zenon, <1>1 DEF Chips
  <2> QED BY <2>1, <1>5, <1>8
<1>10. NoChipsMade
  BY <1>8, <1>9 DEF NoChipsMade
<1>11. FoldedOut
  BY <1>1, <1>2 DEF FoldedOut
<1> QED BY <1>7, <1>10, <1>11 DEF OpenStep

\* The dealer turns the board.
LEMMA OpenRunOut ==
  ASSUME OpenTypes, RunOut
  PROVE  OpenStep
<1>1. /\ AdvancePhase(stack, pstate, round, pot, cur)
      /\ seats' = seats /\ bet' = bet /\ dealer' = dealer /\ hands' = hands
  BY Zenon DEF RunOut, DealBoard
<1>2. /\ seats \in Seq(Players) /\ stack \in [Players -> Nat] /\ bet \in [Players -> Nat]
      /\ round \in OpenRounds /\ pot \in Nat
  BY Zenon DEF OpenTypes
<1>3. /\ pstate' = pstate /\ pot' = pot
      /\ stack' \in [Players -> Nat] /\ round' \in OpenRounds
      /\ SumOver(stack', seats) + (IF Live' THEN pot ELSE 0) <= SumOver(stack, seats) + pot
      /\ \A p \in Players : pstate[p] = "FOLDED" => stack'[p] = stack[p]
  BY Zenon, <1>1, <1>2, OpenAdvance
<1>4. OpenTypes'
  BY <1>1, <1>2, <1>3 DEF OpenTypes, NumSeats
<1>5. /\ SumOver(stack, seats) \in Nat /\ SumOver(bet, seats) \in Nat
      /\ Live => Chips = SumOver(stack, seats) + SumOver(bet, seats) + pot
      /\ SumOver(stack', seats) \in Nat
  BY <1>2, <1>3, OpenChips, SumOfNaturals
<1>6. Chips' = SumOver(stack', seats) + SumOver(bet, seats) + (IF Live' THEN pot ELSE 0)
  BY Zenon, <1>1, <1>3 DEF Chips
<1>7. NoChipsMade
  BY <1>2, <1>3, <1>5, <1>6 DEF NoChipsMade
<1>8. FoldedOut
  <2>1. Seated \subseteq Players
    BY <1>2, SeatedArePlayers
  <2> QED BY <2>1, <1>1, <1>2, <1>3 DEF FoldedOut
<1> QED BY <1>4, <1>7, <1>8 DEF OpenStep

\* A player who leaves takes the seat and the chips along.
LEMMA OpenLeave ==
  ASSUME OpenTypes, NEW p \in Players, RemovePlayer(p)
  PROVE  OpenStep
<1> DEFINE n == Len(seats)
           k == CHOOSE i \in 1..n : seats[i] = p
<1>1. /\ seats \in Seq(Players) /\ n \in Nat
      /\ stack \in [Players -> Nat] /\ bet \in [Players -> Nat]
      /\ pstate \in [Players -> PlayerStates]
      /\ \A i, j \in 1..n : seats[i] = seats[j] => i = j
  BY DEF OpenTypes, NumSeats
<1>2. /\ p \in Seated
      /\ stack' = [stack EXCEPT ![p] = 0] /\ bet' = [bet EXCEPT ![p] = 0]
      /\ pstate' = [pstate EXCEPT ![p] = "WAITING"]
      /\ phase' = phase /\ dealer' = dealer /\ round' = round /\ pot' = pot /\ hands' = hands
  BY Zenon DEF RemovePlayer
<1>3. k \in 1..n /\ seats[k] = p
  BY Zenon, <1>2 DEF Seated, NumSeats
<1>4. seats' = [i \in 1..(n - 1) |-> IF i <= k - 1 THEN seats[i] ELSE seats[i + 1]]
  BY Zenon DEF RemovePlayer, SeatOf, NumSeats
<1> HIDE DEF k
<1>5. seats' = [i \in 1..(n - 1) |-> IF i < k THEN seats[i] ELSE seats[i + 1]]
  <2>1. \A i \in 1..(n - 1) : i <= k - 1 <=> i < k
    BY <1>1, <1>3
  <2> QED BY Zenon, <1>4, <2>1
<1>6. stack' \in [Players -> Nat] /\ bet' \in [Players -> Nat] /\ pstate' \in [Players -> PlayerStates]
  BY Zenon, <1>1, <1>2 DEF PlayerStates
<1>7. /\ stack \in [Players -> Int] /\ bet \in [Players -> Int]
      /\ stack' \in [Players -> Int] /\ bet' \in [Players -> Int]
  BY <1>1, <1>6
<1>8. /\ seats' \in Seq(Players)
      /\ SumOver(stack', seats') = SumOver(stack', seats) - stack'[p]
      /\ SumOver(bet', seats') = SumOver(bet', seats) - bet'[p]
  <2>1. ASSUME NEW f \in [Players -> Int]
        PROVE  seats' \in Seq(Players) /\ SumOver(f, seats') = SumOver(f, seats) - f[seats[k]]
    <3>1. k \in 1..Len(seats)
      BY Zenon, <1>3
    <3>2. seats' = Without(seats, k)
      BY Zenon, <1>5 DEF Without
    <3>3. seats \in Seq(Players)
      BY Zenon, <1>1
    <3>4. /\ Without(seats, k) \in Seq(Players)
          /\ SumOver(f, Without(seats, k)) = SumOver(f, seats) - f[seats[k]]
      BY Zenon, <3>1, <3>3, SumOfRemoval
    <3> QED BY Zenon, <3>2, <3>4
  <2> QED BY Zenon, <1>3, <1>7, <2>1
<1>9. Len(seats') = n - 1
  BY <1>1, <1>3, <1>5, <1>8
<1>10. \A i \in 1..(n - 1) : \E l \in 1..n : l # k /\ seats'[i] = seats[l] /\ l = IF i < k THEN i ELSE i + 1
  <2> SUFFICES ASSUME NEW i \in 1..(n - 1)
               PROVE  \E l \in 1..n : l # k /\ seats'[i] = seats[l] /\ l = IF i < k THEN i ELSE i + 1
    BY Zenon
  <2> DEFINE l == IF i < k THEN i ELSE i + 1
  <2>1. l \in 1..n /\ l # k
    BY <1>1, <1>3
  <2>2. seats'[i] = seats[l]
    BY <1>5
  <2> QED BY Zenon, <2>1, <2>2
<1>11. \A i, j \in 1..(n - 1) : seats'[i] = seats'[j] => i = j
  <2> SUFFICES ASSUME NEW i \in 1..(n - 1), NEW j \in 1..(n - 1), seats'[i] = seats'[j] PROVE i = j
    BY Zenon
  <2>1. PICK a \in 1..n : a # k /\ seats'[i] = seats[a] /\ a = IF i < k THEN i ELSE i + 1
    BY Zenon, <1>10
  <2>2. PICK b \in 1..n : b # k /\ seats'[j] = seats[b] /\ b = IF j < k THEN j ELSE j + 1
    BY ZenonT(40), <1>10
  <2>3. a = b
    BY Zenon, <1>1, <2>1, <2>2
  <2> HIDE DEF n
  <2>4. n \in Nat /\ k \in 1..n /\ i \in Int /\ j \in Int /\ k \in Int
    BY <1>1, <1>3
  <2>5. (IF i < k THEN i ELSE i + 1) = (IF j < k THEN j ELSE j + 1)
    BY Zenon, <2>1, <2>2, <2>3
  <2> QED BY <2>4, <2>5
<1>12. Seated' \subseteq Seated \ {p}
  <2> SUFFICES ASSUME NEW i \in 1..(n - 1) PROVE seats'[i] \in Seated \ {p}
    BY Zenon, <1>9 DEF Seated, NumSeats
  <2>1. PICK a \in 1..n : a # k /\ seats'[i] = seats[a]
    BY Zenon, <1>10
  <2> QED BY Zenon, <2>1, <1>1, <1>3 DEF Seated, NumSeats
<1>13. OpenTypes'
  BY Zenon, <1>2, <1>6, <1>8, <1>9, <1>11 DEF OpenTypes, NumSeats
<1>14. /\ stack'[p] = 0 /\ bet'[p] = 0 /\ stack[p] \in Nat /\ bet[p] \in Nat
       /\ stack' = Updated(stack, p, 0) /\ bet' = Updated(bet, p, 0)
  BY Zenon, <1>1, <1>2 DEF Updated
<1>15. /\ SumOver(stack', seats) = SumOver(stack, seats) + 0 - stack[p]
       /\ SumOver(bet', seats) = SumOver(bet, seats) + 0 - bet[p]
  <2>1. 0 \in Int
    OBVIOUS
  <2>2. SumOver(Updated(stack, p, 0), seats) = SumOver(stack, seats) + 0 - stack[p]
    BY Zenon, <2>1, <1>2, <1>7, OpenSeatUpdate
  <2>3. SumOver(Updated(bet, p, 0), seats) = SumOver(bet, seats) + 0 - bet[p]
    BY Zenon, <2>1, <1>2, <1>7, OpenSeatUpdate
  <2> QED BY Zenon, <1>14, <2>2, <2>3
<1>16. /\ SumOver(stack, seats) \in Nat /\ SumOver(bet, seats) \in Nat /\ pot \in Nat
       /\ Live => Chips = SumOver(stack, seats) + SumOver(bet, seats) + pot
  BY Zenon, OpenChips
<1>17. Chips' = SumOver(stack', seats') + SumOver(bet', seats') + (IF Live THEN pot ELSE 0)
  BY <1>2 DEF Chips, Live
<1>18. NoChipsMade
  <2> DEFINE S == SumOver(stack, seats)
             B == SumOver(bet, seats)
  <2>1. SumOver(stack', seats') = (S + 0 - stack[p]) - 0 /\ SumOver(bet', seats') = (B + 0 - bet[p]) - 0
    BY Zenon, <1>8, <1>14, <1>15
  <2>2. Live => Chips' = ((S + 0 - stack[p]) - 0) + ((B + 0 - bet[p]) - 0) + pot
    BY Zenon, <1>17, <2>1
  <2>3. S \in Nat /\ B \in Nat /\ pot \in Nat /\ (Live => Chips = S + B + pot)
    BY Zenon, <1>16
  <2> HIDE DEF S, B
  <2> QED BY <1>14, <2>2, <2>3 DEF NoChipsMade
<1>19. FoldedOut
  <2>1. Seated \subseteq Players
    BY <1>1, SeatedArePlayers
  <2> QED BY <2>1, <1>1, <1>2, <1>12 DEF FoldedOut
<1> QED BY Zenon, <1>13, <1>18, <1>19 DEF OpenStep

\* A player who sits down.
LEMMA OpenArrive ==
  ASSUME OpenTypes, NEW p \in Players, NEW chips \in BuyIns, AddPlayer(p, chips)
  PROVE  OpenStep
<1> DEFINE n == Len(seats)
<1>1. /\ seats \in Seq(Players) /\ n \in Nat
      /\ stack \in [Players -> Nat] /\ bet \in [Players -> Nat] /\ chips \in Nat
      /\ \A i, j \in 1..n : seats[i] = seats[j] => i = j
  BY ConfigAssumption DEF OpenTypes, NumSeats
<1>2. /\ p \notin Seated /\ seats' = Append(seats, p)
      /\ stack' = [stack EXCEPT ![p] = chips]
      /\ UNCHANGED <<phase, bet, pstate, dealer, round, pot, hands>>
  BY Zenon DEF AddPlayer
<1>3. /\ seats' \in Seq(Players) /\ Len(seats') = n + 1
      /\ \A i \in 1..n : seats'[i] = seats[i]
      /\ seats'[n + 1] = p
  BY <1>1, <1>2
<1>4. \A i \in 1..n : seats[i] # p
  BY Zenon, <1>2 DEF Seated, NumSeats
<1>5. \A i, j \in 1..(n + 1) : seats'[i] = seats'[j] => i = j
  <2>1. \A i \in 1..(n + 1) : i \in 1..n \/ i = n + 1
    BY <1>1
  <2> QED BY Zenon, <2>1, <1>1, <1>3, <1>4
<1>6. OpenTypes'
  BY <1>1, <1>2, <1>3, <1>5 DEF OpenTypes, NumSeats
<1>7. p \in Seated'
  BY <1>1, <1>3 DEF Seated, NumSeats
<1>8. NoChipsMade
  BY <1>2, <1>7 DEF NoChipsMade
<1>9. FoldedOut
  <2>1. Seated \subseteq Players
    BY <1>1, SeatedArePlayers
  <2> QED BY <2>1, <1>1, <1>2 DEF FoldedOut
<1> QED BY Zenon, <1>6, <1>8, <1>9 DEF OpenStep

\* The steps that move no chips.
LEMMA OpenQuiet ==
  ASSUME OpenTypes, StartGame \/ Deal \/ UNCHANGED vars
  PROVE  OpenStep
<1>1. /\ UNCHANGED <<seats, stack, bet, pstate, dealer, round, pot, hands>>
      /\ Live' => Live
  BY Zenon DEF StartGame, Deal, DealCards, vars, Live, LivePhases
<1>2. OpenTypes'
  BY Zenon, <1>1 DEF OpenTypes, NumSeats
<1>3. /\ SumOver(stack, seats) \in Nat /\ SumOver(bet, seats) \in Nat /\ pot \in Nat
      /\ Live => Chips = SumOver(stack, seats) + SumOver(bet, seats) + pot
  BY Zenon, OpenChips
<1>4. Chips' = SumOver(stack, seats) + SumOver(bet, seats) + (IF Live' THEN pot ELSE 0)
  BY Zenon, <1>1 DEF Chips
<1>5. NoChipsMade
  BY <1>3, <1>4 DEF NoChipsMade
<1>6. FoldedOut
  <2>1. seats \in Seq(Players) /\ bet \in [Players -> Nat]
    BY DEF OpenTypes
  <2>2. Seated \subseteq Players
    BY ZenonT(40), <2>1, SeatedArePlayers
  <2> QED BY <1>1, <2>1, <2>2 DEF FoldedOut
<1> QED BY Zenon, <1>2, <1>5, <1>6 DEF OpenStep

\* The types of an open table hold at the start.
LEMMA OpenInit == Init => OpenTypes
BY DEF Init, OpenTypes, OpenRounds, NoRound, NumSeats, PlayerStates

\* Every step of an open table keeps the types and makes no chips, and leaves
\* those who have folded alone.
LEMMA OpenNextStep == OpenTypes /\ [OpenNext]_vars => OpenStep
<1> SUFFICES ASSUME OpenTypes, [OpenNext]_vars PROVE OpenStep
  OBVIOUS
<1>1. CASE Arrive
  BY <1>1, OpenArrive DEF Arrive
<1>2. CASE Leave
  BY <1>2, OpenLeave DEF Leave
<1>3. CASE ActAnytime
  BY <1>3, OpenAction DEF ActAnytime
<1> QED BY Zenon, <1>1, <1>2, <1>3, OpenHand, OpenRunOut, OpenQuiet DEF OpenNext

\* Whoever comes, leaves, starts a hand or acts, and whenever, no step makes
\* chips while a hand is being played.
THEOREM OpenTableMakesNoChips == OpenSpec => NoChipsMadeInHand
<1>1. OpenTypes /\ [OpenNext]_vars => OpenTypes'
  BY OpenNextStep DEF OpenStep
<1>2. OpenTypes /\ [OpenNext]_vars => [Live /\ Seated' \subseteq Seated => Chips' <= Chips]_vars
  BY OpenNextStep DEF OpenStep, NoChipsMade
<1> QED BY <1>1, <1>2, OpenInit, PTL DEF OpenSpec, NoChipsMadeInHand

\* At the same table a player who folded is neither paid nor charged, nor back
\* in play, before the next hand.
THEOREM OpenTableKeepsFolded == OpenSpec => FoldedStaysOut
<1>1. OpenTypes /\ [OpenNext]_vars => OpenTypes'
  BY OpenNextStep DEF OpenStep
<1>2. OpenTypes /\ [OpenNext]_vars =>
        [\A p \in Seated \cap Seated' :
           pstate[p] = "FOLDED" /\ hands' = hands =>
             pstate'[p] = "FOLDED" /\ stack'[p] = stack[p] /\ bet'[p] <= bet[p]]_vars
  BY OpenNextStep DEF OpenStep, FoldedOut
<1> QED BY <1>1, <1>2, OpenInit, PTL DEF OpenSpec, FoldedStaysOut
============================================================================
