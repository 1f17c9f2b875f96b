------------------------ MODULE ChainstateDBProofs -------------------------
(***************************************************************************)
(* Proofs about ChainstateDB, for any tree of blocks, any transactions and *)
(* any number of flushes, crashes and replays.                             *)
(***************************************************************************)
EXTENDS ChainstateDB, TLAPS, WellFoundedInduction, NaturalsInduction

----------------------------------------------------------------------------
(* Induction over numbers, as a statement about sets.                      *)

\* A non-empty set of naturals has a least element.
LEMMA LeastNatural ==
  ASSUME NEW T \in SUBSET Nat, NEW x \in T
  PROVE  \E m \in T : \A k \in T : m <= k
<1>1. IsWellFoundedOn(OpToRel(<, Nat), Nat)
  BY Zenon, NatLessThanWellFounded
<1>2. PICK m \in T : \A y \in Nat : <<y, m>> \in OpToRel(<, Nat) => ~(y \in T)
  BY Zenon, <1>1, WFMin
<1>3. m \in Nat /\ T \subseteq Nat
  BY Zenon, <1>2
<1>4. ASSUME NEW k \in T PROVE m <= k
  <2>1. ~(k < m)
    BY Zenon, <1>2, <1>3 DEF OpToRel
  <2> QED BY <2>1, <1>3
<1> QED BY <1>4

\* A set that holds 0 and the successor of each of its elements below n holds
\* 0, ..., n.
LEMMA IntervalInduction ==
  ASSUME NEW n \in Nat, NEW A, 0 \in A,
         \A i \in 1..n : i - 1 \in A => i \in A
  PROVE  0..n \subseteq A
<1> DEFINE T == {k \in 0..n : k \notin A}
<1>1. SUFFICES ASSUME NEW x \in T PROVE FALSE
  OBVIOUS
<1>2. PICK m \in T : \A k \in T : m <= k
  <2>1. T \in SUBSET Nat
    OBVIOUS
  <2> HIDE DEF T
  <2> QED BY <2>1, <1>1, LeastNatural
<1>3. m \in 1..n /\ m - 1 \in 0..n /\ ~(m <= m - 1)
  BY <1>2
<1>4. m - 1 \in A
  BY <1>2, <1>3
<1> QED BY <1>2, <1>3, <1>4

----------------------------------------------------------------------------
(* What the loops over the transactions of a block compute.                *)

\* g[0], ..., g[k] are start and what the steps F[1], ..., F[k] make of it.
Iterates(F, start, k, g) ==
    /\ g \in [0..k -> Coins]
    /\ g[0] = start
    /\ \A i \in 1..k : g[i] = F[i][g[i - 1]]

\* A loop of n steps has its sequence of intermediate results.
LEMMA IterationExists ==
  ASSUME NEW n \in Nat, NEW F \in [1..n -> [Coins -> Coins]], NEW start \in Coins
  PROVE  \E g : Iterates(F, start, n, g)
<1> DEFINE A == {k \in 0..n : \E g : Iterates(F, start, k, g)}
<1>1. 0 \in A
  <2>1. Iterates(F, start, 0, [i \in 0..0 |-> start])
    BY DEF Iterates
  <2> QED BY <2>1
<1>2. ASSUME NEW m \in 1..n, m - 1 \in A PROVE m \in A
  <2>1. PICK g : Iterates(F, start, m - 1, g)
    BY Zenon, <1>2
  <2> DEFINE h == [i \in 0..m |-> IF i = m THEN F[m][g[m - 1]] ELSE g[i]]
  <2>2. g[m - 1] \in Coins
    BY <2>1 DEF Iterates
  <2>3. F[m] \in [Coins -> Coins]
    OBVIOUS
  <2>4. F[m][g[m - 1]] \in Coins
    BY <2>2, <2>3
  <2>5. h \in [0..m -> Coins]
    BY <2>1, <2>4 DEF Iterates
  <2>6. h[0] = start
    BY <2>1 DEF Iterates
  <2>7. ASSUME NEW i \in 1..m PROVE h[i] = F[i][h[i - 1]]
    BY <2>1 DEF Iterates
  <2>8. Iterates(F, start, m, h)
    <3> HIDE DEF h
    <3> QED BY <2>5, <2>6, <2>7 DEF Iterates
  <2>9. m \in 0..n
    OBVIOUS
  <2> QED BY Zenon, <2>8, <2>9
<1>3. 0..n \subseteq A
  <2> HIDE DEF A
  <2> QED BY Zenon, <1>1, <1>2, IntervalInduction
<1>4. n \in 0..n
  OBVIOUS
<1> QED BY Zenon, <1>3, <1>4

\* The transactions of a block that is not the first.
LEMMA TxsType ==
  ASSUME NEW b \in Blocks \ {Genesis}
  PROVE  /\ Txs[b] \in Seq(Tx) /\ Len(Txs[b]) \in Nat /\ Len(Txs[b]) > 0
         /\ DOMAIN Txs[b] = 1..Len(Txs[b])
         /\ \A i \in 1..Len(Txs[b]) : /\ Txs[b][i] \in Tx
                                      /\ Txs[b][i].spends \subseteq Outpoints
                                      /\ Txs[b][i].creates \subseteq Outpoints
         /\ Height[b] \in Nat
         /\ \A i, j \in 1..Len(Txs[b]) : i # j => Txs[b][i].creates \cap Txs[b][j].creates = {}
<1>1. Txs[b] \in Seq(Tx) /\ Txs[b] # <<>> /\ Height[b] \in Nat
  BY BlocksAssumption
<1>2. Len(Txs[b]) \in Nat /\ Len(Txs[b]) > 0 /\ DOMAIN Txs[b] = 1..Len(Txs[b])
  BY <1>1
<1>3. \A i \in 1..Len(Txs[b]) : Txs[b][i] \in Tx
  BY <1>1
<1>4. \A t \in Tx : t.spends \subseteq Outpoints /\ t.creates \subseteq Outpoints
  BY DEF Tx
<1>5. \A i, j \in 1..Len(Txs[b]) : i # j => Txs[b][i].creates \cap Txs[b][j].creates = {}
  BY Zenon, <1>2, BlocksAssumption
<1> QED BY Zenon, <1>1, <1>2, <1>3, <1>4, <1>5

\* AfterTxs is the loop of UpdateCoins over the transactions.
LEMMA AfterTxsDef ==
  ASSUME NEW c \in Coins, NEW b \in Blocks \ {Genesis}
  PROVE  /\ AfterTxs(c, b) \in [0..Len(Txs[b]) -> Coins]
         /\ AfterTxs(c, b)[0] = c
         /\ \A i \in 1..Len(Txs[b]) :
               AfterTxs(c, b)[i] = UpdateCoins(AfterTxs(c, b)[i - 1], Txs[b][i], Height[b])
<1> DEFINE n == Len(Txs[b])
           F == [i \in 1..n |-> [d \in Coins |-> UpdateCoins(d, Txs[b][i], Height[b])]]
           E(g, i) == UpdateCoins(g[i - 1], Txs[b][i], Height[b])
<1>1. n \in Nat /\ Height[b] \in Nat
  BY Zenon, TxsType
<1>2. \A i \in 1..n, d \in Coins : UpdateCoins(d, Txs[b][i], Height[b]) \in Coins
  BY <1>1 DEF UpdateCoins, Coins, Spent
<1>3. F \in [1..n -> [Coins -> Coins]]
  BY Zenon, <1>2
<1>4. PICK g : Iterates(F, c, n, g)
  <2> HIDE DEF F, n
  <2> QED BY Zenon, <1>1, <1>3, IterationExists
<1>5. /\ g \in [0..n -> Coins] /\ g[0] = c
      /\ \A i \in 1..n : g[i] = E(g, i)
  <2>1. g \in [0..n -> Coins] /\ g[0] = c /\ \A i \in 1..n : g[i] = F[i][g[i - 1]]
    <3> HIDE DEF F, n
    <3> QED BY Zenon, <1>4 DEF Iterates
  <2>2. \A i \in 1..n : i - 1 \in 0..n
    BY <1>1
  <2> HIDE DEF n
  <2> QED BY Zenon, <2>1, <2>2
<1>6. g = [i \in 0..n |-> IF i = 0 THEN c ELSE E(g, i)]
  <2> HIDE DEF E, n
  <2> QED BY <1>1, <1>5
<1>7. AfterTxs(c, b) = [i \in 0..n |-> IF i = 0 THEN c ELSE E(AfterTxs(c, b), i)]
  BY Zenon, <1>6 DEF AfterTxs
<1> DEFINE S == AfterTxs(c, b)
           B == {k \in 0..n : S[k] \in Coins}
<1>8. S[0] = c /\ \A i \in 1..n : S[i] = E(S, i)
  <2>1. S = [i \in 0..n |-> IF i = 0 THEN c ELSE E(S, i)]
    BY Zenon, <1>7
  <2> HIDE DEF E, S, n
  <2> QED BY <2>1, <1>1
<1>9. 0..n \subseteq B
  <2>1. 0 \in B
    BY <1>8, <1>1
  <2>2. ASSUME NEW i \in 1..n, i - 1 \in B PROVE i \in B
    <3>1. S[i] = E(S, i) /\ i \in 0..n
      BY <1>8, <1>1
    <3>2. S[i] \in Coins
      <4> HIDE DEF S
      <4> QED BY Zenon, <1>2, <2>2, <3>1
    <3> QED BY Zenon, <3>1, <3>2
  <2> HIDE DEF B, n
  <2> QED BY Zenon, <2>1, <2>2, <1>1, IntervalInduction
<1>10. S \in [0..n -> Coins]
  <2>1. S = [i \in 0..n |-> S[i]]
    <3> HIDE DEF E
    <3> QED BY Zenon, <1>7
  <2> HIDE DEF S, n
  <2> QED BY Zenon, <2>1, <1>9
<1> QED BY Zenon, <1>8, <1>10

\* BeforeTxs is the loop of UndoTx over the transactions, from the last one.
LEMMA BeforeTxsDef ==
  ASSUME NEW c \in Coins, NEW b \in Blocks \ {Genesis}, NEW u,
         \A i \in 1..Len(Txs[b]) : \A o \in Txs[b][i].spends : u[i][o] \in Nat
  PROVE  /\ BeforeTxs(c, b, u) \in [0..Len(Txs[b]) -> Coins]
         /\ BeforeTxs(c, b, u)[0] = c
         /\ \A i \in 1..Len(Txs[b]) :
               BeforeTxs(c, b, u)[i] = UndoTx(BeforeTxs(c, b, u)[i - 1],
                                              Txs[b][Len(Txs[b]) + 1 - i], u[Len(Txs[b]) + 1 - i])
<1> DEFINE n == Len(Txs[b])
           F == [i \in 1..n |-> [d \in Coins |-> UndoTx(d, Txs[b][n + 1 - i], u[n + 1 - i])]]
           E(g, i) == UndoTx(g[i - 1], Txs[b][n + 1 - i], u[n + 1 - i])
<1>1. n \in Nat /\ \A i \in 1..n : n + 1 - i \in 1..n
  <2>1. n \in Nat
    BY Zenon, TxsType
  <2> HIDE DEF n
  <2> QED BY <2>1
<1>2. \A i \in 1..n, d \in Coins : UndoTx(d, Txs[b][n + 1 - i], u[n + 1 - i]) \in Coins
  <2>1. \A i \in 1..n, d \in Coins : UndoTx(d, Txs[b][i], u[i]) \in Coins
    BY DEF UndoTx, Coins, Spent
  <2> HIDE DEF n
  <2> QED BY Zenon, <2>1, <1>1
<1>3. F \in [1..n -> [Coins -> Coins]]
  BY Zenon, <1>2
<1>4. PICK g : Iterates(F, c, n, g)
  <2> HIDE DEF F, n
  <2> QED BY Zenon, <1>1, <1>3, IterationExists
<1>5. /\ g \in [0..n -> Coins] /\ g[0] = c
      /\ \A i \in 1..n : g[i] = E(g, i)
  <2>1. g \in [0..n -> Coins] /\ g[0] = c /\ \A i \in 1..n : g[i] = F[i][g[i - 1]]
    <3> HIDE DEF F, n
    <3> QED BY Zenon, <1>4 DEF Iterates
  <2>2. \A i \in 1..n : i - 1 \in 0..n
    BY <1>1
  <2> HIDE DEF n
  <2> QED BY Zenon, <2>1, <2>2
<1>6. g = [i \in 0..n |-> IF i = 0 THEN c ELSE E(g, i)]
  <2> HIDE DEF E, n
  <2> QED BY <1>1, <1>5
<1>7. BeforeTxs(c, b, u) = [i \in 0..n |-> IF i = 0 THEN c ELSE E(BeforeTxs(c, b, u), i)]
  BY Zenon, <1>6 DEF BeforeTxs
<1> DEFINE S == BeforeTxs(c, b, u)
           B == {k \in 0..n : S[k] \in Coins}
<1>8. S[0] = c /\ \A i \in 1..n : S[i] = E(S, i)
  <2>1. S = [i \in 0..n |-> IF i = 0 THEN c ELSE E(S, i)]
    BY Zenon, <1>7
  <2> HIDE DEF E, S, n
  <2> QED BY <2>1, <1>1
<1>9. 0..n \subseteq B
  <2>1. 0 \in B
    BY <1>8, <1>1
  <2>2. ASSUME NEW i \in 1..n, i - 1 \in B PROVE i \in B
    <3>1. S[i] = E(S, i) /\ i \in 0..n
      BY <1>8, <1>1
    <3>2. S[i] \in Coins
      <4> HIDE DEF S, n
      <4> QED BY Zenon, <1>2, <2>2, <3>1
    <3> QED BY Zenon, <3>1, <3>2
  <2> HIDE DEF B, n
  <2> QED BY Zenon, <2>1, <2>2, <1>1, IntervalInduction
<1>10. S \in [0..n -> Coins]
  <2>1. S = [i \in 0..n |-> S[i]]
    <3> HIDE DEF E
    <3> QED BY Zenon, <1>7
  <2> HIDE DEF S, n
  <2> QED BY Zenon, <2>1, <1>9
<1> QED BY Zenon, <1>8, <1>10

\* The outpoints that a transaction, and that a block, creates or spends.
TouchedBy(tx) == tx.spends \cup tx.creates
Touched(b) == UNION {TouchedBy(Txs[b][i]) : i \in 1..Len(Txs[b])}

\* What a block makes of an outpoint does not depend on the coins it is
\* applied to, if it touches the outpoint, and is nothing otherwise.
LEMMA ConnectEachOutpoint ==
  ASSUME NEW c \in Coins, NEW d \in Coins, NEW b \in Blocks \ {Genesis}
  PROVE  /\ ConnectCoins(c, b) \in Coins
         /\ \A o \in Touched(b) : ConnectCoins(c, b)[o] = ConnectCoins(d, b)[o]
         /\ \A o \in Outpoints \ Touched(b) : ConnectCoins(c, b)[o] = c[o]
<1> DEFINE n == Len(Txs[b])
           C == AfterTxs(c, b)
           D == AfterTxs(d, b)
           By(o, k) == \E j \in 1..k : o \in TouchedBy(Txs[b][j])
           A == {k \in 0..n : \A o \in Outpoints : /\ By(o, k) => C[k][o] = D[k][o]
                                                   /\ ~By(o, k) => C[k][o] = c[o]}
<1>1. n \in Nat
  BY Zenon, TxsType
<1>2. /\ C \in [0..n -> Coins] /\ C[0] = c
      /\ \A i \in 1..n : C[i] = UpdateCoins(C[i - 1], Txs[b][i], Height[b])
  BY Zenon, AfterTxsDef
<1>3. /\ D \in [0..n -> Coins] /\ D[0] = d
      /\ \A i \in 1..n : D[i] = UpdateCoins(D[i - 1], Txs[b][i], Height[b])
  BY Zenon, AfterTxsDef
<1> HIDE DEF C, D, n
<1>4. 0 \in A
  <2>1. \A o \in Outpoints : ~By(o, 0) /\ C[0][o] = c[o]
    BY <1>2
  <2>2. 0 \in 0..n
    BY <1>1
  <2> HIDE DEF By
  <2> QED BY Zenon, <2>1, <2>2
<1>5. ASSUME NEW i \in 1..n, i - 1 \in A PROVE i \in A
  <2>1. i \in 0..n /\ i - 1 \in 0..n
    BY <1>1
  <2>2. ASSUME NEW o \in Outpoints
        PROVE  /\ By(o, i) => C[i][o] = D[i][o]
               /\ ~By(o, i) => C[i][o] = c[o]
    <3>1. By(o, i) <=> By(o, i - 1) \/ o \in TouchedBy(Txs[b][i])
      BY <1>1
    <3>2. /\ By(o, i - 1) => C[i - 1][o] = D[i - 1][o]
          /\ ~By(o, i - 1) => C[i - 1][o] = c[o]
      BY Zenon, <1>5
    <3> HIDE DEF By
    <3>3. /\ C[i][o] = UpdateCoins(C[i - 1], Txs[b][i], Height[b])[o]
          /\ D[i][o] = UpdateCoins(D[i - 1], Txs[b][i], Height[b])[o]
      BY Zenon, <1>2, <1>3
    <3>4. CASE o \in TouchedBy(Txs[b][i])
      BY Zenon, <3>1, <3>3, <3>4 DEF UpdateCoins, TouchedBy
    <3>5. CASE o \notin TouchedBy(Txs[b][i])
      <4>1. C[i][o] = C[i - 1][o] /\ D[i][o] = D[i - 1][o]
        BY Zenon, <3>3, <3>5 DEF UpdateCoins, TouchedBy
      <4> QED BY Zenon, <4>1, <3>1, <3>2, <3>5
    <3> QED BY Zenon, <3>4, <3>5
  <2> HIDE DEF By
  <2> QED BY Zenon, <2>1, <2>2
<1>6. 0..n \subseteq A
  <2> HIDE DEF A
  <2> QED BY Zenon, <1>1, <1>4, <1>5, IntervalInduction
<1>7. n \in 0..n
  BY <1>1
<1>8. \A o : o \in Touched(b) <=> By(o, n)
  BY Zenon DEF Touched, n
<1>9. \A o \in Touched(b) : o \in Outpoints
  BY Zenon, TxsType DEF Touched, TouchedBy
<1>10. ConnectCoins(c, b) = C[n] /\ ConnectCoins(d, b) = D[n]
  BY Zenon DEF ConnectCoins, C, D, n
<1>11. C[n] \in Coins
  BY Zenon, <1>2, <1>7
<1> HIDE DEF By
<1> QED BY Zenon, <1>6, <1>7, <1>8, <1>9, <1>10, <1>11

\* BlockUndo has for each transaction the coins it spends.
LEMMA BlockUndoIs ==
  ASSUME NEW c \in Coins, NEW b \in Blocks \ {Genesis}
  PROVE  /\ BlockUndo(c, b) # NoUndo
         /\ \A i \in 1..Len(Txs[b]) : \A o \in Txs[b][i].spends :
               /\ BlockUndo(c, b)[i][o] = AfterTxs(c, b)[i - 1][o]
               /\ BlockUndo(c, b)[i][o] \in Nat
<1> DEFINE n == Len(Txs[b])
           C == AfterTxs(c, b)
<1>1. n \in Nat /\ n > 0 /\ DOMAIN Txs[b] = 1..n /\ \A i \in 1..n : Txs[b][i].spends \subseteq Outpoints
  BY Zenon, TxsType
<1>2. C \in [0..n -> Coins]
  BY Zenon, AfterTxsDef
<1>3. BlockUndo(c, b) = [i \in 1..n |-> [o \in Txs[b][i].spends |-> C[i - 1][o]]]
  BY Zenon, <1>1 DEF BlockUndo
<1> HIDE DEF C, n
<1>4. BlockUndo(c, b) # NoUndo
  <2>1. 1 \in DOMAIN BlockUndo(c, b)
    BY <1>1, <1>3
  <2>2. DOMAIN NoUndo = {}
    BY DEF NoUndo
  <2> QED BY Zenon, <2>1, <2>2
<1>5. ASSUME NEW i \in 1..n, NEW o \in Txs[b][i].spends
      PROVE  BlockUndo(c, b)[i][o] = C[i - 1][o] /\ C[i - 1][o] \in Nat
  <2>1. i - 1 \in 0..n /\ o \in Outpoints
    BY <1>1
  <2>2. C[i - 1] \in [Outpoints -> Nat]
    BY Zenon, <1>2, <2>1 DEF Coins
  <2> QED BY Zenon, <1>3, <2>1, <2>2
<1> QED BY Zenon, <1>4, <1>5 DEF C, n

\* In a block that ConnectBlock accepts, an outpoint is spent until the
\* transaction that creates it.
LEMMA SpentUntilCreated ==
  ASSUME NEW c \in Coins, NEW b \in Blocks \ {Genesis}, CheckInputs(c, b),
         NEW i \in 1..Len(Txs[b]), NEW o \in Txs[b][i].creates
  PROVE  AfterTxs(c, b)[i - 1][o] = Spent
<1> DEFINE n == Len(Txs[b])
           C == AfterTxs(c, b)
           A == {k \in 0..n : k < i => C[k][o] = Spent}
<1>1. /\ n \in Nat /\ DOMAIN Txs[b] = 1..n /\ Txs[b][i].creates \subseteq Outpoints
      /\ \A j \in 1..n : j # i => Txs[b][j].creates \cap Txs[b][i].creates = {}
  BY Zenon, TxsType
<1>2. /\ C[0] = c
      /\ \A j \in 1..n : C[j] = UpdateCoins(C[j - 1], Txs[b][j], Height[b])
  BY Zenon, AfterTxsDef
<1>3. c[o] = Spent /\ o \in Outpoints
  BY Zenon, <1>1 DEF CheckInputs
<1>4. i \in 1..n
  OBVIOUS
<1> HIDE DEF C, n
<1>5. 0 \in A
  <2>1. 0 \in 0..n
    BY <1>1
  <2> QED BY Zenon, <2>1, <1>2, <1>3
<1>6. ASSUME NEW j \in 1..n, j - 1 \in A PROVE j \in A
  <2>1. j \in 0..n
    BY <1>1
  <2>2. SUFFICES ASSUME j < i PROVE C[j][o] = Spent
    BY Zenon, <2>1
  <2>3. j - 1 < i /\ j # i
    BY <1>1, <1>4, <2>2
  <2>4. C[j - 1][o] = Spent
    BY Zenon, <1>6, <2>3
  <2>5. o \notin Txs[b][j].creates
    BY Zenon, <1>1, <2>3
  <2> QED BY Zenon, <1>2, <1>3, <2>4, <2>5 DEF UpdateCoins
<1>7. 0..n \subseteq A
  <2> HIDE DEF A
  <2> QED BY Zenon, <1>1, <1>5, <1>6, IntervalInduction
<1>8. i - 1 \in 0..n /\ i - 1 < i
  BY <1>1, <1>4
<1> QED BY Zenon, <1>7, <1>8 DEF C

\* Undoing a block restores every outpoint it touches, whatever the coins it
\* is undone from, and leaves the others alone.
LEMMA DisconnectEachOutpoint ==
  ASSUME NEW c \in Coins, NEW d \in Coins, NEW b \in Blocks \ {Genesis}, CheckInputs(d, b)
  PROVE  /\ DisconnectCoins(c, b, BlockUndo(d, b)) \in Coins
         /\ \A o \in Touched(b) : DisconnectCoins(c, b, BlockUndo(d, b))[o] = d[o]
         /\ \A o \in Outpoints \ Touched(b) : DisconnectCoins(c, b, BlockUndo(d, b))[o] = c[o]
<1> DEFINE n == Len(Txs[b])
           u == BlockUndo(d, b)
           C == BeforeTxs(c, b, u)
           D == AfterTxs(d, b)
           By(o, k) == \E j \in 1..n : n - k < j /\ o \in TouchedBy(Txs[b][j])
           A == {k \in 0..n : \A o \in Outpoints : /\ By(o, k) => C[k][o] = D[n - k][o]
                                                   /\ ~By(o, k) => C[k][o] = c[o]}
<1>1. n \in Nat
  BY Zenon, TxsType
<1>2. \A i \in 1..n : \A o \in Txs[b][i].spends : u[i][o] = D[i - 1][o] /\ u[i][o] \in Nat
  BY Zenon, BlockUndoIs
<1>3. /\ C \in [0..n -> Coins] /\ C[0] = c
      /\ \A i \in 1..n : C[i] = UndoTx(C[i - 1], Txs[b][n + 1 - i], u[n + 1 - i])
  <2>1. \A i \in 1..Len(Txs[b]) : \A o \in Txs[b][i].spends : u[i][o] \in Nat
    BY Zenon, <1>2
  <2> HIDE DEF u
  <2> QED BY <2>1, BeforeTxsDef
<1>4. /\ D \in [0..n -> Coins] /\ D[0] = d
      /\ \A i \in 1..n : D[i] = UpdateCoins(D[i - 1], Txs[b][i], Height[b])
  BY Zenon, AfterTxsDef
<1>5. \A i \in 1..n : \A o \in Txs[b][i].creates : D[i - 1][o] = Spent
  BY Zenon, SpentUntilCreated
<1> HIDE DEF C, D, n, u
<1>6. 0 \in A
  <2>1. \A o \in Outpoints : ~By(o, 0) /\ C[0][o] = c[o]
    BY <1>1, <1>3
  <2>2. 0 \in 0..n
    BY <1>1
  <2> HIDE DEF By
  <2> QED BY Zenon, <2>1, <2>2
<1>7. ASSUME NEW k \in 1..n, k - 1 \in A PROVE k \in A
  <2> DEFINE i == n + 1 - k
  <2>1. k \in 0..n /\ k - 1 \in 0..n /\ i \in 1..n /\ i - 1 = n - k /\ n - (k - 1) = i
    BY <1>1
  <2>2. ASSUME NEW o \in Outpoints
        PROVE  /\ By(o, k) => C[k][o] = D[n - k][o]
               /\ ~By(o, k) => C[k][o] = c[o]
    <3>1. By(o, k) <=> By(o, k - 1) \/ o \in TouchedBy(Txs[b][i])
      BY <1>1
    <3>2. /\ By(o, k - 1) => C[k - 1][o] = D[i][o]
          /\ ~By(o, k - 1) => C[k - 1][o] = c[o]
      BY Zenon, <1>7, <2>1
    <3> HIDE DEF By, i
    <3>3. /\ C[k][o] = UndoTx(C[k - 1], Txs[b][i], u[i])[o]
          /\ D[i][o] = UpdateCoins(D[i - 1], Txs[b][i], Height[b])[o]
      BY Zenon, <1>3, <1>4, <2>1 DEF i
    <3>4. CASE o \in Txs[b][i].spends
      <4>1. C[k][o] = D[i - 1][o]
        BY Zenon, <3>3, <3>4, <1>2, <2>1 DEF UndoTx
      <4> QED BY Zenon, <4>1, <3>1, <3>4, <2>1 DEF TouchedBy
    <3>5. CASE o \in Txs[b][i].creates /\ o \notin Txs[b][i].spends
      <4>1. C[k][o] = D[i - 1][o]
        BY Zenon, <3>3, <3>5, <1>5, <2>1 DEF UndoTx
      <4> QED BY Zenon, <4>1, <3>1, <3>5, <2>1 DEF TouchedBy
    <3>6. CASE o \notin TouchedBy(Txs[b][i])
      <4>1. C[k][o] = C[k - 1][o] /\ D[i][o] = D[i - 1][o]
        BY Zenon, <3>3, <3>6 DEF UpdateCoins, UndoTx, TouchedBy
      <4> QED BY Zenon, <4>1, <3>1, <3>2, <3>6, <2>1
    <3> QED BY Zenon, <3>4, <3>5, <3>6 DEF TouchedBy
  <2> HIDE DEF By
  <2> QED BY Zenon, <2>1, <2>2
<1>8. 0..n \subseteq A
  <2> HIDE DEF A
  <2> QED BY Zenon, <1>1, <1>6, <1>7, IntervalInduction
<1>9. n \in 0..n /\ n - n = 0
  BY <1>1
<1>10. \A o : o \in Touched(b) <=> By(o, n)
  <2>1. \A j \in 1..n : n - n < j
    BY <1>1
  <2> QED BY Zenon, <2>1 DEF Touched, n
<1>11. \A o \in Touched(b) : o \in Outpoints
  BY Zenon, TxsType DEF Touched, TouchedBy
<1>12. DisconnectCoins(c, b, u) = C[n]
  BY Zenon DEF DisconnectCoins, C, n
<1>13. C[n] \in Coins
  BY Zenon, <1>3, <1>9
<1> HIDE DEF By
<1>14. \A o \in Outpoints : /\ By(o, n) => C[n][o] = D[0][o]
                            /\ ~By(o, n) => C[n][o] = c[o]
  BY Zenon, <1>8, <1>9
<1>15. \A o \in Outpoints : /\ o \in Touched(b) => C[n][o] = d[o]
                            /\ o \notin Touched(b) => C[n][o] = c[o]
  BY Zenon, <1>4, <1>10, <1>14
<1>16. DisconnectCoins(c, b, BlockUndo(d, b)) = C[n]
  BY Zenon, <1>12 DEF u
<1> QED BY Zenon, <1>11, <1>13, <1>15, <1>16

----------------------------------------------------------------------------
(* The recursive definition of Utxo has a solution, by induction over the  *)
(* height of the blocks.                                                   *)

UpTo(k) == {b \in Blocks : Height[b] <= k}

\* g solves the equation of Utxo up to height k.
Solves(g, k) ==
    /\ g \in [UpTo(k) -> Coins]
    /\ \A b \in UpTo(k) : g[b] = IF b = Genesis THEN AllSpent ELSE ConnectCoins(g[Parent[b]], b)

\* The parent of a block is one lower.
LEMMA ParentIsLower ==
  ASSUME NEW b \in Blocks \ {Genesis}
  PROVE  /\ Parent[b] \in Blocks /\ Height[b] \in Nat /\ Height[Parent[b]] \in Nat
         /\ Height[b] = Height[Parent[b]] + 1
BY BlocksAssumption

\* There is a solution up to every height.
LEMMA SolutionExists ==
  ASSUME NEW n \in Nat
  PROVE  \E g : Solves(g, n)
<1> DEFINE A == {k \in 0..n : \E g : Solves(g, k)}
<1>0. AllSpent \in Coins
  BY DEF AllSpent, Coins, Spent
<1>1. 0 \in A
  <2>1. \A b \in UpTo(0) : b = Genesis
    BY ParentIsLower DEF UpTo
  <2>2. Solves([b \in UpTo(0) |-> AllSpent], 0)
    BY Zenon, <2>1, <1>0 DEF Solves
  <2>3. 0 \in 0..n
    OBVIOUS
  <2> QED BY Zenon, <2>2, <2>3
<1>2. ASSUME NEW m \in 1..n, m - 1 \in A PROVE m \in A
  <2>1. PICK g : Solves(g, m - 1)
    BY Zenon, <1>2
  <2> DEFINE h == [b \in UpTo(m) |-> IF b = Genesis THEN AllSpent ELSE ConnectCoins(g[Parent[b]], b)]
  <2>2. \A b \in UpTo(m) \ {Genesis} : Parent[b] \in UpTo(m - 1)
    BY ParentIsLower DEF UpTo
  <2>3. UpTo(m - 1) \subseteq UpTo(m)
    BY BlocksAssumption DEF UpTo
  <2>4. \A b \in UpTo(m - 1) : h[b] = g[b]
    BY Zenon, <2>1, <2>3 DEF Solves
  <2>5. \A b \in UpTo(m) \ {Genesis} : ConnectCoins(g[Parent[b]], b) \in Coins
    <3>1. \A b \in UpTo(m) \ {Genesis} : g[Parent[b]] \in Coins /\ b \in Blocks \ {Genesis}
      BY Zenon, <2>1, <2>2 DEF Solves, UpTo
    <3> QED BY Zenon, <3>1, ConnectEachOutpoint
  <2>6. h \in [UpTo(m) -> Coins]
    BY Zenon, <2>5, <1>0
  <2>7. Solves(h, m)
    <3>1. ASSUME NEW b \in UpTo(m)
          PROVE  h[b] = IF b = Genesis THEN AllSpent ELSE ConnectCoins(h[Parent[b]], b)
      <4>1. h[b] = IF b = Genesis THEN AllSpent ELSE ConnectCoins(g[Parent[b]], b)
        BY Zenon
      <4>2. b # Genesis => h[Parent[b]] = g[Parent[b]]
        BY Zenon, <2>2, <2>4
      <4> HIDE DEF h
      <4> QED BY Zenon, <4>1, <4>2
    <3> HIDE DEF h
    <3> QED BY Zenon, <2>6, <3>1 DEF Solves
  <2>8. m \in 0..n
    OBVIOUS
  <2> QED BY Zenon, <2>7, <2>8
<1>3. 0..n \subseteq A
  <2> HIDE DEF A
  <2> QED BY Zenon, <1>1, <1>2, IntervalInduction
<1>4. n \in 0..n
  OBVIOUS
<1> QED BY Zenon, <1>3, <1>4

\* Two solutions agree where both are defined.
LEMMA SolutionIsUnique ==
  ASSUME NEW k \in Nat, NEW l \in Nat, NEW g, NEW h, Solves(g, k), Solves(h, l), k <= l,
         NEW b \in UpTo(k)
  PROVE  g[b] = h[b]
<1> DEFINE T == {Height[x] : x \in {y \in UpTo(k) : g[y] # h[y]}}
<1>1. SUFFICES ASSUME g[b] # h[b] PROVE FALSE
  BY Zenon
<1>2. T \in SUBSET Nat /\ Height[b] \in T
  <2>1. \A x \in UpTo(k) : Height[x] \in Nat
    BY Zenon, BlocksAssumption DEF UpTo
  <2> QED BY Zenon, <1>1, <2>1
<1>3. PICK m \in T : \A x \in T : m <= x
  <2> HIDE DEF T
  <2> QED BY Zenon, <1>2, LeastNatural
<1>4. PICK x \in UpTo(k) : g[x] # h[x] /\ Height[x] = m
  BY Zenon, <1>3
<1>5. x \in UpTo(l)
  BY BlocksAssumption DEF UpTo
<1>6. x # Genesis
  BY Zenon, <1>4, <1>5 DEF Solves
<1>7. Parent[x] \in UpTo(k) /\ Height[Parent[x]] < m
  BY <1>4, <1>6, ParentIsLower DEF UpTo
<1>8. g[Parent[x]] # h[Parent[x]]
  BY Zenon, <1>4, <1>5, <1>6 DEF Solves
<1>9. Height[Parent[x]] \in T /\ m \in Nat /\ Height[Parent[x]] \in Nat
  <2>1. Height[Parent[x]] \in T
    BY Zenon, <1>7, <1>8
  <2> HIDE DEF T
  <2> QED BY Zenon, <2>1, <1>2, <1>3
<1> HIDE DEF T
<1> QED BY <1>3, <1>7, <1>9

\* Utxo: nothing at the genesis block, and each block applied to its parent.
LEMMA UtxoDef ==
  /\ Utxo \in [Blocks -> Coins]
  /\ Utxo[Genesis] = AllSpent
  /\ \A b \in Blocks \ {Genesis} : Utxo[b] = ConnectCoins(Utxo[Parent[b]], b)
<1> DEFINE G(k) == CHOOSE g : Solves(g, k)
           U == [b \in Blocks |-> G(Height[b])[b]]
<1>1. \A k \in Nat : Solves(G(k), k)
  BY Zenon, SolutionExists
<1>2. \A b \in Blocks : Height[b] \in Nat /\ b \in UpTo(Height[b])
  BY BlocksAssumption DEF UpTo
<1>3. U \in [Blocks -> Coins]
  BY Zenon, <1>1, <1>2 DEF Solves
<1>4. ASSUME NEW b \in Blocks
      PROVE  U[b] = IF b = Genesis THEN AllSpent ELSE ConnectCoins(U[Parent[b]], b)
  <2>1. U[b] = IF b = Genesis THEN AllSpent ELSE ConnectCoins(G(Height[b])[Parent[b]], b)
    BY Zenon, <1>1, <1>2 DEF Solves
  <2>2. ASSUME b # Genesis PROVE G(Height[b])[Parent[b]] = U[Parent[b]]
    <3>1. /\ Parent[b] \in Blocks /\ Height[b] \in Nat /\ Height[Parent[b]] \in Nat
          /\ Height[b] = Height[Parent[b]] + 1
      BY Zenon, <2>2, ParentIsLower
    <3>2. Height[Parent[b]] <= Height[b]
      BY <3>1
    <3>3. U[Parent[b]] = G(Height[Parent[b]])[Parent[b]]
      BY Zenon, <3>1
    <3>4. Solves(G(Height[Parent[b]]), Height[Parent[b]]) /\ Solves(G(Height[b]), Height[b])
      BY Zenon, <1>1, <3>1
    <3>5. Parent[b] \in UpTo(Height[Parent[b]])
      BY Zenon, <1>2, <3>1
    <3> HIDE DEF G, U
    <3>6. G(Height[Parent[b]])[Parent[b]] = G(Height[b])[Parent[b]]
      BY <3>1, <3>2, <3>4, <3>5, SolutionIsUnique
    <3> QED BY Zenon, <3>3, <3>6
  <2> HIDE DEF G, U
  <2> QED BY Zenon, <2>1, <2>2
<1>5. U = [b \in Blocks |-> IF b = Genesis THEN AllSpent ELSE ConnectCoins(U[Parent[b]], b)]
  <2>1. U = [b \in Blocks |-> U[b]]
    <3> HIDE DEF U
    <3> QED BY Zenon, <1>3
  <2> HIDE DEF U
  <2> QED BY Zenon, <2>1, <1>4
<1>6. Utxo = [b \in Blocks |-> IF b = Genesis THEN AllSpent ELSE ConnectCoins(Utxo[Parent[b]], b)]
  <2> HIDE DEF U
  <2> QED BY Zenon, <1>5 DEF Utxo
<1>7. Utxo[Genesis] = AllSpent /\ \A b \in Blocks \ {Genesis} : Utxo[b] = ConnectCoins(Utxo[Parent[b]], b)
  <2> DEFINE E(b) == ConnectCoins(Utxo[Parent[b]], b)
  <2>1. Utxo = [b \in Blocks |-> IF b = Genesis THEN AllSpent ELSE E(b)]
    BY Zenon, <1>6
  <2>2. Genesis \in Blocks
    BY BlocksAssumption
  <2> HIDE DEF E
  <2>3. Utxo[Genesis] = AllSpent /\ \A b \in Blocks \ {Genesis} : Utxo[b] = E(b)
    BY Zenon, <2>1, <2>2
  <2> QED BY Zenon, <2>3 DEF E
<1> DEFINE T == {Height[x] : x \in {y \in Blocks : Utxo[y] \notin Coins}}
<1>8. ASSUME NEW b \in Blocks, Utxo[b] \notin Coins PROVE FALSE
  <2>1. T \in SUBSET Nat /\ Height[b] \in T
    BY Zenon, <1>2, <1>8
  <2>2. PICK m \in T : \A x \in T : m <= x
    <3> HIDE DEF T
    <3> QED BY Zenon, <2>1, LeastNatural
  <2>3. PICK x \in Blocks : Utxo[x] \notin Coins /\ Height[x] = m
    BY Zenon, <2>2
  <2>4. AllSpent \in Coins
    BY DEF AllSpent, Coins, Spent
  <2>5. x # Genesis /\ Utxo[Parent[x]] \notin Coins
    <3>1. x # Genesis
      BY Zenon, <1>7, <2>3, <2>4
    <3>2. ConnectCoins(Utxo[Parent[x]], x) \notin Coins
      BY Zenon, <1>7, <2>3, <3>1
    <3> QED BY Zenon, <3>1, <3>2, ConnectEachOutpoint
  <2>6. /\ Parent[x] \in Blocks /\ Height[x] \in Nat /\ Height[Parent[x]] \in Nat
        /\ Height[x] = Height[Parent[x]] + 1
    BY Zenon, <2>5, ParentIsLower
  <2>7. m <= Height[Parent[x]]
    BY Zenon, <2>2, <2>5, <2>6
  <2> QED BY <2>3, <2>6, <2>7
<1>9. Utxo \in [Blocks -> Coins]
  <2> DEFINE E(b) == IF b = Genesis THEN AllSpent ELSE ConnectCoins(Utxo[Parent[b]], b)
  <2>1. Utxo = [b \in Blocks |-> E(b)]
    BY Zenon, <1>6
  <2> HIDE DEF E
  <2>2. Utxo = [b \in Blocks |-> Utxo[b]]
    BY Zenon, <2>1
  <2> QED BY Zenon, <2>2, <1>8
<1> QED BY Zenon, <1>7, <1>9

\* Applying a block to coins of which an unknown part has its effect already
\* gives its coins where it touches them.
LEMMA ConnectIsUtxo ==
  ASSUME NEW c \in Coins, NEW b \in Blocks \ {Genesis}
  PROVE  /\ ConnectCoins(c, b) \in Coins
         /\ \A o \in Touched(b) : ConnectCoins(c, b)[o] = Utxo[b][o]
         /\ \A o \in Outpoints \ Touched(b) : /\ ConnectCoins(c, b)[o] = c[o]
                                              /\ Utxo[b][o] = Utxo[Parent[b]][o]
<1>1. Utxo[Parent[b]] \in Coins /\ Utxo[b] = ConnectCoins(Utxo[Parent[b]], b)
  BY Zenon, UtxoDef, ParentIsLower
<1>2. /\ ConnectCoins(c, b) \in Coins
      /\ \A o \in Touched(b) : ConnectCoins(c, b)[o] = ConnectCoins(Utxo[Parent[b]], b)[o]
      /\ \A o \in Outpoints \ Touched(b) : ConnectCoins(c, b)[o] = c[o]
  BY ZenonT(40), <1>1, ConnectEachOutpoint
<1>3. \A o \in Outpoints \ Touched(b) : ConnectCoins(Utxo[Parent[b]], b)[o] = Utxo[Parent[b]][o]
  BY Zenon, <1>1, ConnectEachOutpoint
<1> QED BY Zenon, <1>1, <1>2, <1>3

\* Two assignments of coins that agree on every outpoint are the same.
LEMMA SameCoins ==
  ASSUME NEW c \in Coins, NEW d \in Coins, \A o \in Outpoints : c[o] = d[o]
  PROVE  c = d
BY DEF Coins

----------------------------------------------------------------------------
(* The inductive invariant.                                                *)

TypeOK ==
    /\ phase \in {"run", "index", "flush", "down", "roll", "replay", "failed"}
    /\ tip \in Blocks /\ coins \in Coins /\ disk \in Coins
    /\ undo = [b \in Blocks |-> undo[b]]
    /\ saved \subseteq Blocks
    /\ best \in Blocks \cup {NoBlock}
    /\ heads # <<>> => heads = <<heads[1], heads[2]>>

\* An undo record is that of its block on the coins of the parent.
RecordsAreExact ==
    \A b \in Blocks : undo[b] # NoUndo =>
        /\ b # Genesis
        /\ undo[b] = BlockUndo(Utxo[Parent[b]], b)
        /\ CheckInputs(Utxo[Parent[b]], b)

\* What is on disk was connected, and with a block all its ancestors are;
\* what is in the block index is in the block files.
BranchesAreWhole ==
    /\ saved \subseteq Connected
    /\ saved \subseteq files
    /\ phase = "index" => Connected \subseteq files
    /\ \A b \in Connected : Path[b] \subseteq Connected
    /\ \A b \in saved : Path[b] \subseteq saved
    /\ phase \in {"run", "index"} => tip \in Connected
    /\ phase \in {"flush", "roll", "replay"} => tip \in saved
    /\ best \in saved \cup {NoBlock}

\* The heads are on disk and stand for an unfinished write to the tip.
HeadsMarkTheWrite ==
    /\ heads # <<>> => /\ heads[1] \in saved /\ heads[2] \in saved \cup {NoBlock}
                       /\ best = NoBlock /\ phase \notin {"run", "index"}
                       /\ phase \in {"flush", "replay"} => heads[1] = tip
    /\ phase \in {"roll", "replay"} => heads # <<>>

\* In a replay the coins are, outpoint by outpoint, those of the block that
\* it has come to or those of the block it goes to.
RollIsMixed ==
    phase = "roll" => \A o \in Outpoints : coins[o] \in {Utxo[tip][o], Utxo[heads[1]][o]}

IInv ==
    /\ TypeOK
    /\ RecordsAreExact
    /\ BranchesAreWhole
    /\ HeadsMarkTheWrite
    /\ RollIsMixed
    /\ CoinsAreTheTips
    /\ DatabaseIsExact
    /\ MixtureOfTwo
    /\ CanRestart

\* The initial state has no coins and no blocks.
LEMMA InitIInv == Init => IInv
<1> SUFFICES ASSUME Init PROVE IInv
  OBVIOUS
<1> USE DEF Init
<1>1. Genesis \in Blocks /\ Utxo[Genesis] = AllSpent /\ AllSpent \in Coins
  <2>1. Genesis \in Blocks
    BY BlocksAssumption
  <2> QED BY Zenon, <2>1, UtxoDef
<1>2. TypeOK
  BY Zenon, <1>1 DEF TypeOK
<1>3. RecordsAreExact
  BY Zenon DEF RecordsAreExact
<1>4. BranchesAreWhole
  <2>1. Path[Genesis] = {Genesis}
    BY BlocksAssumption
  <2>2. Connected = {Genesis}
    BY Zenon DEF Connected
  <2> QED BY <2>1, <2>2 DEF BranchesAreWhole
<1>5. HeadsMarkTheWrite /\ RollIsMixed /\ CanRestart /\ MixtureOfTwo
  BY DEF HeadsMarkTheWrite, RollIsMixed, CanRestart, MixtureOfTwo
<1>6. CoinsAreTheTips
  BY Zenon, <1>1 DEF CoinsAreTheTips
<1>7. DatabaseIsExact
  BY Zenon, <1>1 DEF DatabaseIsExact, UtxoAt
<1> QED BY Zenon, <1>2, <1>3, <1>4, <1>5, <1>6, <1>7 DEF IInv

\* The coins of a database are coins.
LEMMA UtxoAtType ==
  ASSUME NEW b \in Blocks \cup {NoBlock}
  PROVE  UtxoAt(b) \in Coins
<1>1. AllSpent \in Coins
  BY DEF AllSpent, Coins, Spent
<1> QED BY Zenon, <1>1, UtxoDef DEF UtxoAt

\* A connected block is the genesis block or has its record, on its parent.
LEMMA ConnectedBlock ==
  ASSUME IInv, NEW b \in Connected, b # Genesis
  PROVE  /\ b \in Blocks \ {Genesis} /\ Parent[b] \in Blocks /\ Parent[b] \in Path[b]
         /\ undo[b] # NoUndo
         /\ undo[b] = BlockUndo(Utxo[Parent[b]], b) /\ CheckInputs(Utxo[Parent[b]], b)
         /\ Utxo[Parent[b]] \in Coins /\ Utxo[b] \in Coins
<1>1. b \in Blocks /\ undo[b] # NoUndo
  BY Zenon DEF Connected
<1>2. Parent[b] \in Blocks /\ Path[b] = {b} \cup Path[Parent[b]]
  BY Zenon, <1>1, BlocksAssumption
<1>3. \A x \in Blocks : x \in Path[x]
  <2>1. \A x \in Blocks \ {Genesis} : x \in Path[x]
    BY BlocksAssumption
  <2>2. Genesis \in Path[Genesis]
    BY BlocksAssumption
  <2> QED BY Zenon, <2>1, <2>2
<1> QED BY Zenon, <1>1, <1>2, <1>3, UtxoDef DEF IInv, RecordsAreExact

\* ConnectTip: the coins become those of the block, and its record is exact.
LEMMA ConnectTipIInv ==
  ASSUME IInv, NEW b \in Blocks, ConnectTip(b)
  PROVE  IInv'
<1> USE DEF ConnectTip
<1>1. /\ b \in Blocks \ {Genesis} /\ Parent[b] = tip /\ coins = Utxo[tip] /\ phase = "run"
      /\ tip \in Connected /\ heads = <<>>
  BY Zenon DEF IInv, CoinsAreTheTips, BranchesAreWhole, HeadsMarkTheWrite
<1>2. coins \in Coins /\ coins' = Utxo[b] /\ coins' \in Coins
  BY Zenon, <1>1, UtxoDef, ConnectEachOutpoint DEF IInv, TypeOK
<1>3. Path[b] = {b} \cup Path[tip]
  BY Zenon, <1>1, BlocksAssumption
<1>4. BlockUndo(coins, b) # NoUndo
  BY Zenon, <1>1, <1>2, BlockUndoIs
<1>5. undo = [x \in Blocks |-> undo[x]]
  BY Zenon DEF IInv, TypeOK
<1>6. /\ undo' = [x \in Blocks |-> undo'[x]]
      /\ \A x \in Blocks : x # b => undo'[x] = undo[x]
      /\ undo[b] # NoUndo => undo'[b] = undo[b]
      /\ undo[b] = NoUndo => undo'[b] = BlockUndo(coins, b)
  <2>1. CASE undo[b] = NoUndo
    BY Zenon, <1>5, <2>1
  <2>2. CASE undo[b] # NoUndo
    BY Zenon, <1>5, <2>2
  <2> QED BY Zenon, <2>1, <2>2
<1>7. TypeOK'
  BY Zenon, <1>1, <1>2, <1>6 DEF IInv, TypeOK
<1>8. RecordsAreExact'
  <2> SUFFICES ASSUME NEW x \in Blocks, undo'[x] # NoUndo
               PROVE  /\ x # Genesis
                      /\ undo'[x] = BlockUndo(Utxo[Parent[x]], x)
                      /\ CheckInputs(Utxo[Parent[x]], x)
    BY Zenon DEF RecordsAreExact
  <2>1. CASE undo[x] # NoUndo
    BY Zenon, <2>1, <1>6 DEF IInv, RecordsAreExact
  <2>2. CASE undo[x] = NoUndo
    <3>1. x = b
      BY Zenon, <2>2, <1>6
    <3> QED BY Zenon, <3>1, <2>2, <1>1, <1>6
  <2> QED BY Zenon, <2>1, <2>2
<1>9. BranchesAreWhole'
  <2>1. Connected' = Connected \cup {b}
    BY Zenon, <1>1, <1>4, <1>6 DEF Connected
  <2>2. Path[b] \subseteq Connected'
    BY Zenon, <1>1, <1>3, <2>1 DEF IInv, BranchesAreWhole
  <2>3. \A x \in Connected' : Path[x] \subseteq Connected'
    BY Zenon, <2>1, <2>2 DEF IInv, BranchesAreWhole
  <2>4. saved' \subseteq Connected' /\ tip' \in Connected'
    BY Zenon, <2>1 DEF IInv, BranchesAreWhole
  <2> QED BY Zenon, <1>1, <2>3, <2>4 DEF IInv, BranchesAreWhole
<1>10. HeadsMarkTheWrite' /\ RollIsMixed' /\ CanRestart' /\ MixtureOfTwo' /\ DatabaseIsExact'
  BY <1>1 DEF IInv, HeadsMarkTheWrite, RollIsMixed, CanRestart, MixtureOfTwo, DatabaseIsExact, UtxoAt
<1>11. CoinsAreTheTips'
  BY Zenon, <1>2 DEF CoinsAreTheTips
<1> QED BY Zenon, <1>7, <1>8, <1>9, <1>10, <1>11 DEF IInv

\* Undoing a connected block gives the coins of its parent, outpoint by
\* outpoint, from its own coins or from a mixture.
LEMMA UndoConnected ==
  ASSUME IInv, NEW b \in Connected, b # Genesis, NEW c \in Coins
  PROVE  /\ DisconnectCoins(c, b, undo[b]) \in Coins
         /\ \A o \in Outpoints : \/ DisconnectCoins(c, b, undo[b])[o] = Utxo[Parent[b]][o]
                                 \/ /\ DisconnectCoins(c, b, undo[b])[o] = c[o]
                                    /\ Utxo[b][o] = Utxo[Parent[b]][o]
<1>1. /\ b \in Blocks \ {Genesis} /\ undo[b] = BlockUndo(Utxo[Parent[b]], b)
      /\ CheckInputs(Utxo[Parent[b]], b) /\ Utxo[Parent[b]] \in Coins
  BY Zenon, ConnectedBlock
<1>2. /\ DisconnectCoins(c, b, undo[b]) \in Coins
      /\ \A o \in Touched(b) : DisconnectCoins(c, b, undo[b])[o] = Utxo[Parent[b]][o]
      /\ \A o \in Outpoints \ Touched(b) : DisconnectCoins(c, b, undo[b])[o] = c[o]
  <2> DEFINE d == Utxo[Parent[b]]
  <2> HIDE DEF d
  <2>1. d \in Coins /\ CheckInputs(d, b) /\ undo[b] = BlockUndo(d, b)
    BY Zenon, <1>1 DEF d
  <2>2. /\ DisconnectCoins(c, b, BlockUndo(d, b)) \in Coins
        /\ \A o \in Touched(b) : DisconnectCoins(c, b, BlockUndo(d, b))[o] = d[o]
        /\ \A o \in Outpoints \ Touched(b) : DisconnectCoins(c, b, BlockUndo(d, b))[o] = c[o]
    BY Zenon, <1>1, <2>1, DisconnectEachOutpoint
  <2> QED BY Zenon, <2>1, <2>2 DEF d
<1>3. \A o \in Outpoints \ Touched(b) : Utxo[b][o] = Utxo[Parent[b]][o]
  BY <1>1, ConnectIsUtxo
<1> QED BY Zenon, <1>2, <1>3

\* DisconnectTip: the undo record of the tip restores its parent's coins.
LEMMA DisconnectTipIInv ==
  ASSUME IInv, DisconnectTip
  PROVE  IInv'
<1> USE DEF DisconnectTip
<1>1. /\ phase = "run" /\ coins = Utxo[tip] /\ tip \in Connected /\ tip # Genesis /\ heads = <<>>
      /\ coins \in Coins
  BY Zenon DEF IInv, TypeOK, CoinsAreTheTips, BranchesAreWhole, HeadsMarkTheWrite
<1>2. Parent[tip] \in Blocks /\ Parent[tip] \in Path[tip] /\ Utxo[Parent[tip]] \in Coins
  BY Zenon, <1>1, ConnectedBlock
<1>3. /\ coins' \in Coins
      /\ \A o \in Outpoints : coins'[o] = Utxo[Parent[tip]][o]
  <2>1. /\ coins' = DisconnectCoins(coins, tip, undo[tip])
        /\ DisconnectCoins(coins, tip, undo[tip]) \in Coins
        /\ \A o \in Outpoints : \/ DisconnectCoins(coins, tip, undo[tip])[o] = Utxo[Parent[tip]][o]
                                \/ /\ DisconnectCoins(coins, tip, undo[tip])[o] = coins[o]
                                   /\ Utxo[tip][o] = Utxo[Parent[tip]][o]
    BY <1>1, UndoConnected
  <2> QED BY Zenon, <1>1, <2>1
<1>4. coins' = Utxo[tip']
  BY Zenon, <1>2, <1>3, SameCoins
<1>5. TypeOK'
  BY Zenon, <1>2, <1>3 DEF IInv, TypeOK
<1>6. RecordsAreExact' /\ Connected' = Connected
  BY Zenon DEF IInv, RecordsAreExact, Connected
<1>7. BranchesAreWhole'
  BY Zenon, <1>1, <1>2, <1>6 DEF IInv, BranchesAreWhole
<1>8. HeadsMarkTheWrite' /\ RollIsMixed' /\ CanRestart' /\ MixtureOfTwo' /\ DatabaseIsExact'
  BY <1>1 DEF IInv, HeadsMarkTheWrite, RollIsMixed, CanRestart, MixtureOfTwo, DatabaseIsExact, UtxoAt
<1> QED BY Zenon, <1>4, <1>5, <1>6, <1>7, <1>8 DEF IInv, CoinsAreTheTips

\* FlushBlockFile: every connected block is in the files before the index
\* says so.
LEMMA FlushBlockFileIInv ==
  ASSUME IInv, FlushBlockFile
  PROVE  IInv'
<1> USE DEF FlushBlockFile
<1>1. phase = "run" /\ heads = <<>> /\ coins = Utxo[tip] /\ tip \in Connected /\ phase' = "index"
  BY DEF IInv, CoinsAreTheTips, BranchesAreWhole, HeadsMarkTheWrite
<1>2. Connected' = Connected /\ files' = files \cup Connected
  BY Zenon DEF Connected
<1>3. TypeOK'
  <2>1. phase' \in {"run", "index", "flush", "down", "roll", "replay", "failed"}
    BY Zenon
  <2> QED BY Zenon, <2>1 DEF IInv, TypeOK
<1>4. RecordsAreExact'
  BY Zenon DEF IInv, RecordsAreExact
<1>5. BranchesAreWhole'
  BY <1>1, <1>2 DEF IInv, BranchesAreWhole
<1>6. HeadsMarkTheWrite' /\ RollIsMixed' /\ CanRestart' /\ MixtureOfTwo' /\ DatabaseIsExact'
  BY <1>1 DEF IInv, HeadsMarkTheWrite, RollIsMixed, CanRestart, MixtureOfTwo, DatabaseIsExact, UtxoAt
<1> QED BY Zenon, <1>1, <1>3, <1>4, <1>5, <1>6 DEF IInv, CoinsAreTheTips

\* WriteBlockIndexDB: every connected block is in the index before the coins
\* are written.
LEMMA WriteIndexIInv ==
  ASSUME IInv, NEW full \in BOOLEAN, WriteBlockIndexDB(full)
  PROVE  IInv'
<1> USE DEF WriteBlockIndexDB
<1>1. phase = "index" /\ heads = <<>> /\ coins = Utxo[tip] /\ tip \in Connected
  BY DEF IInv, CoinsAreTheTips, BranchesAreWhole, HeadsMarkTheWrite
<1>2. phase' \in {"run", "flush"}
  BY Zenon
<1>3. Connected' = Connected /\ saved' = saved \cup Connected
  BY DEF Connected
<1>4. Connected \subseteq Blocks
  BY BlocksAssumption DEF Connected
<1>5. TypeOK'
  <2>1. saved' \subseteq Blocks
    BY Zenon, <1>3, <1>4 DEF IInv, TypeOK
  <2>2. phase' \in {"run", "index", "flush", "down", "roll", "replay", "failed"}
    BY <1>2
  <2> QED BY Zenon, <2>1, <2>2 DEF IInv, TypeOK
<1>6. RecordsAreExact'
  BY Zenon DEF IInv, RecordsAreExact
<1>7. BranchesAreWhole'
  <2>1. saved' = Connected
    BY Zenon, <1>3 DEF IInv, BranchesAreWhole
  <2>2. best' \in saved' \cup {NoBlock} /\ Connected \subseteq files /\ files' = files
    BY Zenon, <1>1, <1>3 DEF IInv, BranchesAreWhole
  <2>3. tip' \in Connected' /\ tip' \in saved'
    BY Zenon, <1>1, <1>3, <2>1
  <2>4. \A b \in Connected : Path[b] \subseteq Connected
    BY Zenon DEF IInv, BranchesAreWhole
  <2> QED BY Zenon, <1>3, <2>1, <2>2, <2>3, <2>4 DEF BranchesAreWhole
<1>8. HeadsMarkTheWrite' /\ RollIsMixed' /\ CanRestart' /\ MixtureOfTwo' /\ DatabaseIsExact'
  BY <1>1, <1>2 DEF IInv, HeadsMarkTheWrite, RollIsMixed, CanRestart, MixtureOfTwo, DatabaseIsExact, UtxoAt
<1> QED BY Zenon, <1>1, <1>5, <1>6, <1>7, <1>8 DEF IInv, CoinsAreTheTips

\* PartialBatch: the database becomes a mixture of where it was and the tip.
LEMMA PartialBatchIInv ==
  ASSUME IInv, NEW S \in SUBSET Outpoints, PartialBatch(S)
  PROVE  IInv'
<1> USE DEF PartialBatch
<1>1. /\ phase \in {"flush", "replay"} /\ coins = Utxo[tip] /\ tip \in saved /\ tip \in Blocks
      /\ coins \in Coins /\ disk \in Coins
  BY DEF IInv, TypeOK, CoinsAreTheTips, BranchesAreWhole
<1>2. /\ tip # NoBlock /\ UtxoAt(tip) = coins
  BY Zenon, <1>1, BlocksAssumption DEF UtxoAt
<1>3. heads # <<>> => heads[1] = tip /\ OldTip = heads[2]
  BY Zenon, <1>1 DEF IInv, HeadsMarkTheWrite, OldTip
<1>4. heads = <<>> => OldTip = best
  BY Zenon DEF OldTip
<1>5. OldTip \in saved \cup {NoBlock}
  BY Zenon, <1>3, <1>4 DEF IInv, HeadsMarkTheWrite, BranchesAreWhole
<1>6. \A o \in Outpoints : disk[o] \in {coins[o], UtxoAt(OldTip)[o]}
  <2>1. CASE heads = <<>>
    BY Zenon, <2>1, <1>4 DEF IInv, DatabaseIsExact
  <2>2. CASE heads # <<>>
    BY Zenon, <2>2, <1>2, <1>3 DEF IInv, MixtureOfTwo
  <2> QED BY Zenon, <2>1, <2>2
<1>7. /\ disk' \in Coins
      /\ \A o \in Outpoints : disk'[o] \in {coins[o], disk[o]}
  BY Zenon, <1>1 DEF Written, Coins
<1>8. /\ heads' # <<>> /\ heads'[1] = tip /\ heads'[2] = OldTip /\ heads' = <<heads'[1], heads'[2]>>
      /\ best' = NoBlock /\ phase' = phase /\ tip' = tip /\ coins' = coins /\ undo' = undo
      /\ saved' = saved /\ files' = files
  BY DEF PartialBatch
<1>9. TypeOK'
  BY Zenon, <1>7, <1>8 DEF IInv, TypeOK
<1>10. RecordsAreExact' /\ Connected' = Connected
  BY Zenon, <1>8 DEF IInv, RecordsAreExact, Connected
<1>11. BranchesAreWhole'
  BY Zenon, <1>8, <1>10 DEF IInv, BranchesAreWhole
<1>12. HeadsMarkTheWrite'
  BY <1>1, <1>5, <1>8 DEF HeadsMarkTheWrite
<1>13. RollIsMixed' /\ CoinsAreTheTips' /\ CanRestart' /\ DatabaseIsExact'
  BY <1>1, <1>8 DEF IInv, RollIsMixed, CoinsAreTheTips, CanRestart, DatabaseIsExact
<1>14. MixtureOfTwo'
  <2>1. \A o \in Outpoints : disk'[o] \in {UtxoAt(heads'[1])[o], UtxoAt(heads'[2])[o]}
    BY Zenon, <1>2, <1>6, <1>7, <1>8
  <2>2. heads'[1] = tip'
    BY Zenon, <1>8
  <2> QED BY Zenon, <2>1, <2>2 DEF MixtureOfTwo, UtxoAt
<1> QED BY Zenon, <1>9, <1>10, <1>11, <1>12, <1>13, <1>14 DEF IInv

\* FinalBatch: the database holds the coins of the tip.
LEMMA FinalBatchIInv ==
  ASSUME IInv, FinalBatch
  PROVE  IInv'
<1> USE DEF FinalBatch
<1>1. /\ phase \in {"flush", "replay"} /\ coins = Utxo[tip] /\ tip \in saved /\ tip \in Blocks
      /\ coins \in Coins
  BY DEF IInv, TypeOK, CoinsAreTheTips, BranchesAreWhole
<1>2. tip # NoBlock /\ UtxoAt(tip) = coins
  BY Zenon, <1>1, BlocksAssumption DEF UtxoAt
<1>3. TypeOK'
  <2>1. phase' \in {"run", "index", "flush", "down", "roll", "replay", "failed"}
    BY Zenon
  <2> QED BY Zenon, <2>1, <1>1 DEF IInv, TypeOK
<1>4. RecordsAreExact' /\ Connected' = Connected
  BY Zenon DEF IInv, RecordsAreExact, Connected
<1>5. BranchesAreWhole'
  BY <1>1, <1>4 DEF IInv, BranchesAreWhole
<1>6. HeadsMarkTheWrite' /\ RollIsMixed' /\ CanRestart' /\ MixtureOfTwo'
  BY DEF HeadsMarkTheWrite, RollIsMixed, CanRestart, MixtureOfTwo
<1>7. CoinsAreTheTips' /\ DatabaseIsExact'
  BY Zenon, <1>1, <1>2 DEF CoinsAreTheTips, DatabaseIsExact, UtxoAt
<1> QED BY Zenon, <1>3, <1>4, <1>5, <1>6, <1>7 DEF IInv

\* Crash: what is left is on disk, and enough of it.
LEMMA CrashIInv ==
  ASSUME IInv, Crash
  PROVE  IInv'
<1> USE DEF Crash
<1>1. Genesis \in Blocks /\ AllSpent \in Coins /\ Path[Genesis] = {Genesis}
  BY BlocksAssumption DEF AllSpent, Coins, Spent
<1>2. undo' = [b \in Blocks |-> undo'[b]] /\ \A b \in Blocks : undo'[b] = IF b \in saved THEN undo[b] ELSE NoUndo
  BY Zenon DEF IInv, BranchesAreWhole
<1>3. TypeOK'
  <2>1. phase' \in {"run", "index", "flush", "down", "roll", "replay", "failed"}
    BY Zenon
  <2> QED BY Zenon, <2>1, <1>1, <1>2 DEF IInv, TypeOK
<1>4. RecordsAreExact'
  BY Zenon, <1>2 DEF IInv, RecordsAreExact
<1>5. saved \subseteq Connected' /\ \A b \in Connected' : b \in saved \/ b = Genesis
  BY Zenon, <1>2 DEF IInv, TypeOK, BranchesAreWhole, Connected
<1>6. BranchesAreWhole'
  <2>1. ASSUME NEW b \in Connected' PROVE Path[b] \subseteq Connected'
    <3>1. CASE b \in saved
      BY Zenon, <3>1, <1>5 DEF IInv, BranchesAreWhole
    <3>2. CASE b = Genesis
      BY Zenon, <3>2, <1>1 DEF Connected
    <3> QED BY Zenon, <3>1, <3>2, <1>5
  <2>2. phase' = "down" /\ saved' = saved /\ best' = best /\ saved \subseteq files'
    BY Zenon DEF IInv, BranchesAreWhole
  <2> QED BY <1>5, <2>1, <2>2 DEF IInv, BranchesAreWhole
<1>7. HeadsMarkTheWrite' /\ RollIsMixed' /\ CanRestart' /\ CoinsAreTheTips'
  BY DEF IInv, HeadsMarkTheWrite, RollIsMixed, CanRestart, CoinsAreTheTips
<1>8. MixtureOfTwo' /\ DatabaseIsExact'
  BY DEF IInv, MixtureOfTwo, DatabaseIsExact, UtxoAt
<1> QED BY Zenon, <1>3, <1>4, <1>6, <1>7, <1>8 DEF IInv

\* LoadChainTip: the database is exact, and its best block is in the index.
LEMMA LoadChainTipIInv ==
  ASSUME IInv, LoadChainTip
  PROVE  IInv'
<1> USE DEF LoadChainTip
<1>1. best \in saved \cup {NoBlock} /\ heads = <<>> /\ disk = UtxoAt(best) /\ saved \subseteq Blocks
  BY Zenon DEF IInv, TypeOK, BranchesAreWhole, DatabaseIsExact
<1>2. /\ tip' = (IF best = NoBlock THEN Genesis ELSE best) /\ coins' = disk /\ phase' = "run"
      /\ UNCHANGED <<undo, files, saved, disk, best, heads>>
  BY Zenon, <1>1
<1>3. Genesis \in Blocks /\ Utxo[Genesis] = AllSpent
  <2>1. Genesis \in Blocks
    BY BlocksAssumption
  <2> QED BY Zenon, <2>1, UtxoDef
<1>4. coins' = Utxo[tip'] /\ tip' \in Blocks
  BY Zenon, <1>1, <1>2, <1>3 DEF UtxoAt
<1>5. tip' \in Connected
  BY Zenon, <1>1, <1>2 DEF IInv, BranchesAreWhole, Connected
<1>6. TypeOK'
  <2>1. phase' \in {"run", "index", "flush", "down", "roll", "replay", "failed"}
    BY Zenon, <1>2
  <2> QED BY Zenon, <2>1, <1>2, <1>4 DEF IInv, TypeOK
<1>7. RecordsAreExact' /\ Connected' = Connected
  BY Zenon, <1>2 DEF IInv, RecordsAreExact, Connected
<1>8. BranchesAreWhole'
  BY <1>2, <1>5, <1>7 DEF IInv, BranchesAreWhole
<1>9. HeadsMarkTheWrite' /\ RollIsMixed' /\ CanRestart' /\ MixtureOfTwo'
  BY <1>1, <1>2 DEF HeadsMarkTheWrite, RollIsMixed, CanRestart, MixtureOfTwo
<1>10. CoinsAreTheTips' /\ DatabaseIsExact'
  BY Zenon, <1>1, <1>2, <1>4 DEF CoinsAreTheTips, DatabaseIsExact, UtxoAt
<1> QED BY Zenon, <1>6, <1>7, <1>8, <1>9, <1>10 DEF IInv

\* ReplayBlocks starts from the old block with coins of the two heads.
LEMMA ReplayBlocksIInv ==
  ASSUME IInv, ReplayBlocks
  PROVE  IInv'
<1> USE DEF ReplayBlocks
<1>1. /\ heads # <<>> /\ heads[1] \in saved /\ heads[2] \in saved \cup {NoBlock} /\ best = NoBlock
      /\ saved \subseteq Blocks /\ disk \in Coins
      /\ \A o \in Outpoints : disk[o] \in {UtxoAt(heads[1])[o], UtxoAt(heads[2])[o]}
  BY Zenon DEF IInv, TypeOK, HeadsMarkTheWrite, MixtureOfTwo
<1>2. /\ tip' = (IF heads[2] = NoBlock THEN Genesis ELSE heads[2]) /\ coins' = disk /\ phase' = "roll"
      /\ UNCHANGED <<undo, files, saved, disk, best, heads>>
  BY Zenon, <1>1
<1>3. Genesis \in Blocks /\ Utxo[Genesis] = AllSpent /\ NoBlock \notin Blocks
  <2>1. Genesis \in Blocks /\ NoBlock \notin Blocks
    BY BlocksAssumption
  <2> QED BY Zenon, <2>1, UtxoDef
<1>4. Genesis \in saved
  <2>1. Genesis \in Path[heads[1]]
    BY Zenon, <1>1, BlocksAssumption
  <2> QED BY Zenon, <2>1, <1>1 DEF IInv, BranchesAreWhole
<1>5. /\ UtxoAt(heads[1]) = Utxo[heads[1]] /\ UtxoAt(heads[2]) = Utxo[tip']
      /\ tip' \in saved
  BY Zenon, <1>1, <1>2, <1>3, <1>4 DEF UtxoAt
<1>6. TypeOK'
  <2>1. phase' \in {"run", "index", "flush", "down", "roll", "replay", "failed"}
    BY Zenon, <1>2
  <2> QED BY Zenon, <2>1, <1>1, <1>2, <1>5 DEF IInv, TypeOK
<1>7. RecordsAreExact' /\ Connected' = Connected
  BY Zenon, <1>2 DEF IInv, RecordsAreExact, Connected
<1>8. BranchesAreWhole'
  BY <1>2, <1>5, <1>7 DEF IInv, BranchesAreWhole
<1>9. HeadsMarkTheWrite' /\ CanRestart' /\ CoinsAreTheTips'
  BY <1>1, <1>2 DEF HeadsMarkTheWrite, CanRestart, CoinsAreTheTips
<1>10. RollIsMixed'
  BY Zenon, <1>1, <1>2, <1>5 DEF RollIsMixed
<1>11. MixtureOfTwo' /\ DatabaseIsExact'
  BY <1>1, <1>2 DEF IInv, MixtureOfTwo, DatabaseIsExact, UtxoAt
<1> QED BY Zenon, <1>6, <1>7, <1>8, <1>9, <1>10, <1>11 DEF IInv

\* What a step of the replay leaves alone stays true.
LEMMA RollStep ==
  ASSUME IInv, phase = "roll", phase' = "roll", tip' \in saved, coins' \in Coins,
         UNCHANGED <<undo, files, saved, disk, best, heads>>,
         \A o \in Outpoints : coins'[o] \in {Utxo[tip'][o], Utxo[heads[1]][o]}
  PROVE  IInv'
<1>1. heads # <<>> /\ saved \subseteq Blocks
  BY Zenon DEF IInv, TypeOK, HeadsMarkTheWrite
<1>2. TypeOK'
  BY Zenon, <1>1 DEF IInv, TypeOK
<1>3. RecordsAreExact' /\ Connected' = Connected
  BY Zenon DEF IInv, RecordsAreExact, Connected
<1>4. BranchesAreWhole'
  BY <1>3 DEF IInv, BranchesAreWhole
<1>5. HeadsMarkTheWrite' /\ CanRestart' /\ CoinsAreTheTips'
  BY <1>1 DEF IInv, HeadsMarkTheWrite, CanRestart, CoinsAreTheTips
<1>6. RollIsMixed'
  BY Zenon DEF RollIsMixed
<1>7. MixtureOfTwo' /\ DatabaseIsExact'
  BY <1>1 DEF IInv, MixtureOfTwo, DatabaseIsExact, UtxoAt
<1> QED BY Zenon, <1>2, <1>3, <1>4, <1>5, <1>6, <1>7 DEF IInv

\* RollbackBlock: the block undone was connected, and its record is there.
LEMMA RollbackIInv ==
  ASSUME IInv, RollbackBlock
  PROVE  IInv'
<1> USE DEF RollbackBlock
<1>1. /\ phase = "roll" /\ tip \in saved /\ tip \in files /\ tip \in Connected /\ heads[1] \in Blocks /\ coins \in Coins
      /\ \A o \in Outpoints : coins[o] \in {Utxo[tip][o], Utxo[heads[1]][o]}
  BY DEF IInv, TypeOK, BranchesAreWhole, HeadsMarkTheWrite, RollIsMixed
<1>2. tip # Genesis
  <2>1. \A x \in Blocks : Genesis \in Path[x]
    <3>1. Genesis \in Path[Genesis]
      BY BlocksAssumption
    <3> QED BY Zenon, <3>1, BlocksAssumption
  <2>2. tip \notin Path[heads[1]]
    BY Zenon DEF LastCommonAncestor
  <2> QED BY Zenon, <1>1, <2>1, <2>2
<1>3. undo[tip] # NoUndo /\ Parent[tip] \in Path[tip]
  BY Zenon, <1>1, <1>2, ConnectedBlock
<1>4. /\ coins' = DisconnectCoins(coins, tip, undo[tip]) /\ tip' = Parent[tip] /\ phase' = "roll"
      /\ UNCHANGED <<undo, files, saved, disk, best, heads>>
  BY Zenon, <1>1, <1>3
<1>5. /\ DisconnectCoins(coins, tip, undo[tip]) \in Coins
      /\ \A o \in Outpoints : \/ DisconnectCoins(coins, tip, undo[tip])[o] = Utxo[Parent[tip]][o]
                              \/ /\ DisconnectCoins(coins, tip, undo[tip])[o] = coins[o]
                                 /\ Utxo[tip][o] = Utxo[Parent[tip]][o]
  BY <1>1, <1>2, UndoConnected
<1>6. \A o \in Outpoints : coins'[o] \in {Utxo[tip'][o], Utxo[heads[1]][o]}
  BY Zenon, <1>1, <1>4, <1>5
<1>7. tip' \in saved /\ coins' \in Coins
  BY Zenon, <1>1, <1>3, <1>4, <1>5 DEF IInv, BranchesAreWhole
<1> QED BY Zenon, <1>1, <1>4, <1>6, <1>7, RollStep

\* RollforwardBlock: the block applied is on disk.
LEMMA RollforwardIInv ==
  ASSUME IInv, NEW b \in Blocks, RollforwardBlock(b)
  PROVE  IInv'
<1> USE DEF RollforwardBlock
<1>1. /\ phase = "roll" /\ heads[1] \in saved /\ coins \in Coins /\ b \in Blocks \ {Genesis}
      /\ Parent[b] = tip
      /\ \A o \in Outpoints : coins[o] \in {Utxo[tip][o], Utxo[heads[1]][o]}
  BY DEF IInv, TypeOK, HeadsMarkTheWrite, RollIsMixed
<1>2. b \in saved /\ b \in files
  BY Zenon, <1>1 DEF IInv, BranchesAreWhole
<1>3. /\ coins' = ConnectCoins(coins, b) /\ tip' = b /\ phase' = "roll"
      /\ UNCHANGED <<undo, files, saved, disk, best, heads>>
  BY Zenon, <1>1, <1>2
<1>4. /\ ConnectCoins(coins, b) \in Coins
      /\ \A o \in Touched(b) : ConnectCoins(coins, b)[o] = Utxo[b][o]
      /\ \A o \in Outpoints \ Touched(b) : /\ ConnectCoins(coins, b)[o] = coins[o]
                                           /\ Utxo[b][o] = Utxo[Parent[b]][o]
  BY <1>1, ConnectIsUtxo
<1>5. \A o \in Outpoints : coins'[o] \in {Utxo[tip'][o], Utxo[heads[1]][o]}
  BY Zenon, <1>1, <1>3, <1>4
<1> QED BY Zenon, <1>1, <1>2, <1>3, <1>4, <1>5, RollStep

\* FlushReplay: at the new head the mixture is its coins.
LEMMA FlushReplayIInv ==
  ASSUME IInv, FlushReplay
  PROVE  IInv'
<1> USE DEF FlushReplay
<1>1. /\ phase = "roll" /\ tip = heads[1] /\ coins \in Coins /\ tip \in Blocks /\ heads # <<>>
      /\ \A o \in Outpoints : coins[o] \in {Utxo[tip][o], Utxo[heads[1]][o]}
  BY Zenon DEF IInv, TypeOK, HeadsMarkTheWrite, RollIsMixed
<1>2. \A o \in Outpoints : coins[o] = Utxo[tip][o]
  BY Zenon, <1>1
<1>3. coins = Utxo[tip]
  BY Zenon, <1>1, <1>2, UtxoDef, SameCoins
<1>4. TypeOK'
  <2>1. phase' \in {"run", "index", "flush", "down", "roll", "replay", "failed"}
    BY Zenon
  <2> QED BY Zenon, <2>1 DEF IInv, TypeOK
<1>5. RecordsAreExact' /\ Connected' = Connected
  BY Zenon DEF IInv, RecordsAreExact, Connected
<1>6. BranchesAreWhole'
  BY <1>1, <1>5 DEF IInv, BranchesAreWhole
<1>7. HeadsMarkTheWrite' /\ CanRestart' /\ CoinsAreTheTips' /\ RollIsMixed'
  BY <1>1, <1>3 DEF IInv, HeadsMarkTheWrite, CanRestart, CoinsAreTheTips, RollIsMixed
<1>8. MixtureOfTwo' /\ DatabaseIsExact'
  BY <1>1 DEF IInv, MixtureOfTwo, DatabaseIsExact, UtxoAt
<1> QED BY Zenon, <1>4, <1>5, <1>6, <1>7, <1>8 DEF IInv

\* Every step keeps the invariant.
LEMMA NextIInv == IInv /\ [Next]_vars => IInv'
<1> SUFFICES ASSUME IInv, [Next]_vars PROVE IInv'
  OBVIOUS
<1>1. ASSUME NEW b \in Blocks, ConnectTip(b) PROVE IInv'
  BY Zenon, <1>1, ConnectTipIInv
<1>2. CASE DisconnectTip
  BY Zenon, <1>2, DisconnectTipIInv
<1>3. CASE FlushBlockFile
  BY Zenon, <1>3, FlushBlockFileIInv
<1>4. ASSUME NEW full \in BOOLEAN, WriteBlockIndexDB(full) PROVE IInv'
  BY Zenon, <1>4, WriteIndexIInv
<1>5. ASSUME NEW S \in SUBSET Outpoints, PartialBatch(S) PROVE IInv'
  BY ZenonT(40), <1>5, PartialBatchIInv
<1>6. CASE FinalBatch
  BY Zenon, <1>6, FinalBatchIInv
<1>7. CASE Crash
  BY Zenon, <1>7, CrashIInv
<1>8. CASE LoadChainTip
  BY Zenon, <1>8, LoadChainTipIInv
<1>9. CASE ReplayBlocks
  BY Zenon, <1>9, ReplayBlocksIInv
<1>10. CASE RollbackBlock
  BY Zenon, <1>10, RollbackIInv
<1>11. ASSUME NEW b \in Blocks, RollforwardBlock(b) PROVE IInv'
  BY Zenon, <1>11, RollforwardIInv
<1>12. CASE FlushReplay
  BY Zenon, <1>12, FlushReplayIInv
<1>13. CASE UNCHANGED vars
  <2>1. UNCHANGED <<phase, tip, coins, undo, files, saved, disk, best, heads>>
    BY Zenon, <1>13 DEF vars
  <2> QED BY ZenonT(40), <2>1 DEF IInv, TypeOK, RecordsAreExact, BranchesAreWhole, Connected, HeadsMarkTheWrite,
                      RollIsMixed, CoinsAreTheTips, DatabaseIsExact, MixtureOfTwo, CanRestart, UtxoAt
<1> QED BY Zenon, <1>1, <1>2, <1>3, <1>4, <1>5, <1>6, <1>7, <1>8, <1>9, <1>10, <1>11, <1>12, <1>13 DEF Next

\* The invariant holds of every behaviour.
LEMMA AlwaysIInv == Spec => []IInv
BY InitIInv, NextIInv, PTL DEF Spec

----------------------------------------------------------------------------
(* Crash consistency: whatever is connected, disconnected, flushed and     *)
(* interrupted, ConnectTip, DisconnectTip, LoadChainTip and ReplayBlocks   *)
(* leave in memory exactly the coins of the tip.                           *)
THEOREM CoinsCorrect == Spec => []CoinsAreTheTips
<1>1. IInv => CoinsAreTheTips
  BY Zenon DEF IInv
<1> QED BY <1>1, AlwaysIInv, PTL

(* A database with a best block, as BatchWrite's last batch leaves it,     *)
(* holds exactly the coins of that block.                                  *)
THEOREM DatabaseCorrect == Spec => []DatabaseIsExact
<1>1. IInv => DatabaseIsExact
  BY Zenon DEF IInv
<1> QED BY <1>1, AlwaysIInv, PTL

(* Between BatchWrite's first and last batch the database holds, outpoint  *)
(* by outpoint, the coins of one of the two heads it names, and a write    *)
(* that finds two heads leads to the first: the assertion of BatchWrite.   *)
THEOREM HeadsCorrect == Spec => []MixtureOfTwo
<1>1. IInv => MixtureOfTwo
  BY Zenon DEF IInv
<1> QED BY <1>1, AlwaysIInv, PTL

(* FlushStateToDisk saves blocks, then the block index, then coins, so     *)
(* that LoadChainTip and ReplayBlocks find every index entry, block and    *)
(* undo record they need.                                                  *)
THEOREM NeverStuck == Spec => []CanRestart
<1>1. IInv => CanRestart
  BY Zenon DEF IInv
<1> QED BY <1>1, AlwaysIInv, PTL
============================================================================
