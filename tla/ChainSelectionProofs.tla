------------------------ MODULE ChainSelectionProofs ------------------------
(***************************************************************************)
(* The active chain of ChainSelection is valid, for every tree of blocks,  *)
(* any number of threads and any number of commands, whatever block they   *)
(* are called for.  ChainInv is the inductive invariant.  After lemmas on  *)
(* trees, on the order of the blocks and on sequences there is a lemma for *)
(* each action.  ChainTipProofs goes on from here.                         *)
(***************************************************************************)
EXTENDS ChainSelection, TLAPS

-----------------------------------------------------------------------------
Owning == {"find", "connect", "release", "invalidate"}

HoldingCsMain == {"find", "connect", "link"}

TypeOK ==
    /\ m_block_index \subseteq Blocks /\ validity \in [Blocks -> 0..5]
    /\ haveData \subseteq m_block_index /\ haveTxsDownloaded \subseteq haveData
    /\ failedValid \subseteq m_block_index /\ failedChild \subseteq m_block_index
    /\ m_failed_blocks \subseteq failedValid
    /\ m_blocks_unlinked \in [Blocks -> Seq(Blocks \ {Genesis})] /\ queue \in Seq(Blocks \ {Genesis})
    /\ nSequenceId \in [Blocks -> Int]
    /\ setBlockIndexCandidates \subseteq haveTxsDownloaded
    /\ tip \in Blocks
    /\ nBlockReverseSequenceId \in Int /\ nLastPreciousChainwork \in Nat
    /\ pc \in [Threads -> {"idle", "link", "activate"} \cup Owning]
    /\ local \in [pindexMostWork : Blocks \cup {NoBlock}, pindexNewTip : Blocks \cup {NoBlock},
                  starting_tip : Blocks \cup {NoBlock}, pindexOldTip : Blocks \cup {NoBlock},
                  blocks_connected : BOOLEAN, pindex : Blocks \cup {NoBlock},
                  to_mark_failed : Blocks \cup {NoBlock}, candidate_blocks : SUBSET Blocks]
    /\ shutdown \in BOOLEAN

(* m_chainstate_mutex and cs_main have one owner each, the locals of the   *)
(* one are there only while it has it, and the queue of the other too.     *)
LocksExclude ==
    /\ \A t, u \in Threads : pc[t] \in Owning /\ pc[u] \in Owning => t = u
    /\ \A t, u \in Threads : pc[t] \in HoldingCsMain /\ pc[u] \in HoldingCsMain => t = u
    /\ (\A t \in Threads : pc[t] \notin Owning) => local = NoLocal
    /\ queue # <<>> <=> \E t \in Threads : pc[t] = "link"

(* What is known of the blocks comes in order: headers below headers, and  *)
(* linked blocks below linked ones.                                        *)
IndexIsATree ==
    /\ \A b \in m_block_index : Path[b] \subseteq m_block_index
    /\ \A b \in haveTxsDownloaded : Path[b] \subseteq haveTxsDownloaded
    /\ Genesis \in haveTxsDownloaded
    /\ \A b \in haveData : validity[b] >= VALID_TRANSACTIONS

Distinct(s) == \A i, j \in 1..Len(s) : s[i] = s[j] => i = j

(* A multimap whose keys are the parents of its values, each once.         *)
ByParent(m) ==
    \A p \in Blocks : Distinct(m[p]) /\ \A b \in Elements(m[p]) : pprev[b] = p

(* A block waits in m_blocks_unlinked while its parent is not linked, and  *)
(* in the queue once it is.                                                *)
WaitingIsExact ==
    /\ ByParent(m_blocks_unlinked) /\ Distinct(queue)
    /\ \A b \in Values(m_blocks_unlinked) :
          b \in haveData /\ b \notin haveTxsDownloaded /\ pprev[b] \notin haveTxsDownloaded
    /\ \A b \in Elements(queue) :
          /\ b \in haveData /\ b \notin haveTxsDownloaded /\ pprev[b] \in haveTxsDownloaded
          /\ b \notin Values(m_blocks_unlinked)

(* A chain that ActivateBestChain may go to.                               *)
Sound(b) == \A c \in Path[b] : ~IsFailed(c) /\ c \in haveTxsDownloaded

(* The target stays sound while cs_main is free, and the tip moves towards *)
(* it.                                                                     *)
TargetIsSound ==
    \A t \in Threads :
        /\ pc[t] \in {"find", "connect", "release"} /\ local.pindexMostWork # NoBlock =>
              Sound(local.pindexMostWork) /\ tip \in Path[local.pindexMostWork]
        /\ pc[t] = "connect" => local.pindexMostWork # NoBlock /\ tip # local.pindexMostWork

(* What invalidateblock marks is out of the chain, or it has not begun.    *)
InvalidationIsSound ==
    \A t \in Threads : pc[t] = "invalidate" =>
        /\ local.pindex \in Blocks \ {Genesis}
        /\ local.to_mark_failed \in m_block_index
        /\ local.to_mark_failed = local.pindex \/ ~InChain(local.to_mark_failed)
        /\ local.candidate_blocks \subseteq haveTxsDownloaded

CandidatesNotWorse ==
    \A b \in setBlockIndexCandidates : ~Worse(b, tip, nSequenceId)

(* The inductive invariant.                                                *)
ChainInv ==
    /\ TypeOK /\ LocksExclude /\ IndexIsATree /\ WaitingIsExact
    /\ ActiveChainIsValid /\ TargetIsSound /\ InvalidationIsSound /\ CandidatesNotWorse

-----------------------------------------------------------------------------
(* The tree of blocks.                                                     *)

\* What the assumption on the constants says of one block and its parent.
LEMMA ParentFacts ==
  ASSUME NEW b \in Blocks, b # Genesis
  PROVE  /\ pprev[b] \in Blocks /\ b \notin Path[pprev[b]]
         /\ Path[b] = {b} \cup Path[pprev[b]]
         /\ nHeight[b] = nHeight[pprev[b]] + 1
         /\ nChainWork[b] > nChainWork[pprev[b]]
BY TreeAssumption

\* A set that holds the genesis block, and each block whose parent it holds,
\* holds every block.
LEMMA TreeInduction ==
  ASSUME NEW A, Genesis \in A,
         \A b \in Blocks \ {Genesis} : pprev[b] \in A => b \in A
  PROVE  Blocks \subseteq A
<1>1. SUFFICES ASSUME Blocks \ A # {} PROVE FALSE
  OBVIOUS
<1>2. nHeight \in [Blocks -> Nat]
  BY TreeAssumption
<1>5. PICK b \in Blocks \ A : \A c \in Blocks \ A : nHeight[b] <= nHeight[c]
  BY Zenon, <1>1, FiniteAssumption
<1>6. b # Genesis /\ pprev[b] \in Blocks /\ nHeight[b] = nHeight[pprev[b]] + 1
  BY <1>5, ParentFacts
<1>7. pprev[b] \in A
  <2>1. nHeight[pprev[b]] \in Nat /\ nHeight[b] \in Nat
    BY <1>2, <1>5, <1>6
  <2>2. ~(nHeight[b] <= nHeight[pprev[b]])
    BY <1>6, <2>1
  <2> QED BY <1>5, <1>6, <2>2
<1> QED BY <1>5, <1>6, <1>7

\* A path has its end and the genesis block, and consists of blocks.
LEMMA PathType ==
  \A b \in Blocks : Path[b] \subseteq Blocks /\ b \in Path[b] /\ Genesis \in Path[b]
<1> DEFINE A == {b \in Blocks : Path[b] \subseteq Blocks /\ b \in Path[b] /\ Genesis \in Path[b]}
<1>1. Genesis \in A
  BY TreeAssumption
<1>2. ASSUME NEW b \in Blocks \ {Genesis}, pprev[b] \in A PROVE b \in A
  BY <1>2, ParentFacts
<1>3. Blocks \subseteq A
  <2> HIDE DEF A
  <2> QED BY <1>1, <1>2, TreeInduction
<1> QED BY <1>3

\* The path of an ancestor is part of the path.
LEMMA PathClosed ==
  \A b \in Blocks : \A c \in Path[b] : Path[c] \subseteq Path[b]
<1> DEFINE A == {b \in Blocks : \A c \in Path[b] : Path[c] \subseteq Path[b]}
<1>1. Genesis \in A
  BY TreeAssumption
<1>2. ASSUME NEW b \in Blocks \ {Genesis}, pprev[b] \in A PROVE b \in A
  BY <1>2, ParentFacts
<1>3. Blocks \subseteq A
  <2> HIDE DEF A
  <2> QED BY <1>1, <1>2, TreeInduction
<1> QED BY <1>3

\* Of two blocks of a path one is an ancestor of the other.
LEMMA PathLinear ==
  \A b \in Blocks : \A c, d \in Path[b] : c \in Path[d] \/ d \in Path[c]
<1> DEFINE A == {b \in Blocks : \A c, d \in Path[b] : c \in Path[d] \/ d \in Path[c]}
<1>1. Genesis \in A
  BY TreeAssumption
<1>2. ASSUME NEW b \in Blocks \ {Genesis}, pprev[b] \in A PROVE b \in A
  BY <1>2, ParentFacts
<1>3. Blocks \subseteq A
  <2> HIDE DEF A
  <2> QED BY <1>1, <1>2, TreeInduction
<1> QED BY <1>3

\* An ancestor has less work.
LEMMA PathWork ==
  \A b \in Blocks : \A c \in Path[b] : c # b => nChainWork[c] < nChainWork[b]
<1> DEFINE A == {b \in Blocks : \A c \in Path[b] : c # b => nChainWork[c] < nChainWork[b]}
<1> USE TreeAssumption
<1>1. Genesis \in A
  BY TreeAssumption
<1>2. ASSUME NEW b \in Blocks \ {Genesis}, pprev[b] \in A PROVE b \in A
  <2>1. ASSUME NEW c \in Path[b], c # b PROVE nChainWork[c] < nChainWork[b]
    <3>1. /\ pprev[b] \in Blocks /\ c \in Path[pprev[b]]
          /\ nChainWork[b] > nChainWork[pprev[b]]
      BY <2>1, <1>2, ParentFacts
    <3>2. c = pprev[b] \/ nChainWork[c] < nChainWork[pprev[b]]
      BY <1>2, <3>1
    <3>3. c \in Blocks
      BY <2>1, PathType
    <3>4. nChainWork[c] \in Nat /\ nChainWork[b] \in Nat /\ nChainWork[pprev[b]] \in Nat
      BY <3>1, <3>3
    <3> QED BY <3>1, <3>2, <3>4
  <2> QED BY <2>1
<1>3. Blocks \subseteq A
  <2> HIDE DEF A
  <2> QED BY <1>1, <1>2, TreeInduction
<1> QED BY <1>3

\* Between a block and one of its ancestors there is a child of the ancestor.
LEMMA NextExists ==
  \A m \in Blocks : \A t \in Path[m] : t # m =>
      \E b \in Path[m] : b # Genesis /\ pprev[b] = t
<1> DEFINE A == {m \in Blocks : \A t \in Path[m] : t # m =>
                    \E b \in Path[m] : b # Genesis /\ pprev[b] = t}
<1>1. Genesis \in A
  BY TreeAssumption
<1>2. ASSUME NEW b \in Blocks \ {Genesis}, pprev[b] \in A PROVE b \in A
  <2>1. ASSUME NEW t \in Path[b], t # b PROVE \E c \in Path[b] : c # Genesis /\ pprev[c] = t
    BY <2>1, <1>2, ParentFacts, PathType
  <2> QED BY <2>1
<1>3. Blocks \subseteq A
  <2> HIDE DEF A
  <2> QED BY <1>1, <1>2, TreeInduction
<1> QED BY <1>3

\* CChain::FindFork: two paths have a common part, which is a path.
LEMMA ForkFacts ==
  ASSUME NEW a \in Blocks, NEW b \in Blocks
  PROVE  /\ FindFork(a, b) \in Path[a] \cap Path[b]
         /\ Path[a] \cap Path[b] = Path[FindFork(a, b)]
<1> DEFINE A == {c \in Blocks : \E f \in Path[c] \cap Path[b] : Path[c] \cap Path[b] = Path[f]}
<1>1. Genesis \in A
  BY TreeAssumption, PathType
<1>2. ASSUME NEW c \in Blocks \ {Genesis}, pprev[c] \in A PROVE c \in A
  <2>1. CASE c \in Path[b]
    BY <2>1, PathClosed, PathType
  <2>2. CASE c \notin Path[b]
    <3>1. Path[c] \cap Path[b] = Path[pprev[c]] \cap Path[b]
      BY <2>2, ParentFacts
    <3>2. PICK f \in Path[pprev[c]] \cap Path[b] : Path[pprev[c]] \cap Path[b] = Path[f]
      BY <1>2
    <3> QED BY <3>1, <3>2
  <2> QED BY <2>1, <2>2
<1>3. Blocks \subseteq A
  <2> HIDE DEF A
  <2> QED BY <1>1, <1>2, TreeInduction
<1>4. \E f \in Path[a] \cap Path[b] : Path[a] \cap Path[b] = Path[f]
  BY <1>3
<1> QED BY Zenon, <1>4 DEF FindFork

-----------------------------------------------------------------------------
(* The order of the candidates.                                            *)

\* CBlockIndexWorkComparator is a strict total order.
LEMMA WorseIsAnOrder ==
  ASSUME NEW id \in [Blocks -> Int], NEW a \in Blocks, NEW b \in Blocks, NEW c \in Blocks
  PROVE  /\ ~Worse(a, a, id)
         /\ a # b => Worse(a, b, id) \/ Worse(b, a, id)
         /\ Worse(a, b, id) => ~Worse(b, a, id)
         /\ Worse(a, b, id) /\ Worse(b, c, id) => Worse(a, c, id)
         /\ ~Worse(a, b, id) /\ ~Worse(b, c, id) => ~Worse(a, c, id)
<1>1. /\ nChainWork[a] \in Nat /\ nChainWork[b] \in Nat /\ nChainWork[c] \in Nat
      /\ Address[a] \in Nat /\ Address[b] \in Nat /\ Address[c] \in Nat
      /\ id[a] \in Int /\ id[b] \in Int /\ id[c] \in Int
  BY TreeAssumption
<1>2. /\ Address[a] = Address[b] => a = b
      /\ Address[b] = Address[c] => b = c
      /\ Address[a] = Address[c] => a = c
  BY TreeAssumption
<1> QED BY <1>1, <1>2 DEF Worse

\* An ancestor sorts before the block.
LEMMA AncestorIsWorse ==
  ASSUME NEW id, NEW b \in Blocks, NEW c \in Path[b], c # b
  PROVE  Worse(c, b, id)
BY PathWork DEF Worse

\* A non-empty set of blocks has a best one: the least address up to which
\* there were none would come after one up to which there is one.
LEMMA BestExists ==
  ASSUME NEW id \in [Blocks -> Int], NEW S \in SUBSET Blocks, S # {}
  PROVE  \E b \in S : \A c \in S \ {b} : Worse(c, b, id)
<1> DEFINE Upto(x) == {b \in S : Address[b] <= Address[x]}
           Best(T) == \E b \in T : \A c \in T \ {b} : Worse(c, b, id)
<1>1. /\ \A b \in Blocks : Address[b] \in Nat
      /\ \A b, c \in Blocks : Address[b] = Address[c] => b = c
  BY TreeAssumption
<1>2. ASSUME NEW x \in S, \A y \in S : Address[y] < Address[x] => Best(Upto(y))
      PROVE  Best(Upto(x))
  <2> DEFINE P == Upto(x) \ {x}
  <2>1. x \in Upto(x) /\ Upto(x) = P \cup {x} /\ P \in SUBSET Blocks
    BY <1>1
  <2>2. CASE P = {}
    <3> HIDE DEF Upto
    <3> QED BY <2>1, <2>2
  <2>3. CASE P # {}
    <3>1. PICK y \in P : \A c \in P : Address[c] <= Address[y]
      BY Zenon, <2>1, <2>3, FiniteAssumption
    <3>2. y \in S /\ Address[y] < Address[x]
      BY <1>1, <3>1
    <3>3. Upto(y) = P
      BY <1>1, <3>1, <3>2
    <3>4. PICK b \in P : \A c \in P \ {b} : Worse(c, b, id)
      <4> HIDE DEF Upto, P
      <4> QED BY <1>2, <3>2, <3>3
    <3> HIDE DEF Upto, P
    <3>5. x \in Blocks /\ b \in Blocks
      BY <2>1, <3>4
    <3>6. CASE b = x \/ Worse(x, b, id)
      BY <2>1, <3>4, <3>6
    <3>7. CASE Worse(b, x, id)
      <4>1. ASSUME NEW c \in P, c # b PROVE Worse(c, x, id)
        <5>1. c \in Blocks /\ Worse(c, b, id)
          BY <2>1, <3>4, <4>1
        <5> QED BY <5>1, <3>5, <3>7, WorseIsAnOrder
      <4> QED BY Zenon, <4>1, <2>1, <3>7
    <3> QED BY <3>5, <3>6, <3>7, WorseIsAnOrder
  <2> HIDE DEF Best
  <2> QED BY <2>2, <2>3
<1>3. ASSUME NEW z \in S PROVE Best(Upto(z))
  <2> DEFINE T == {x \in S : ~Best(Upto(x))}
  <2>1. SUFFICES ASSUME T # {} PROVE FALSE
    BY Zenon
  <2>2. T \in SUBSET Blocks
    BY Zenon
  <2>3. PICK x \in T : \A c \in T : Address[x] <= Address[c]
    <3> HIDE DEF T
    <3> QED BY Zenon, <2>1, <2>2, FiniteAssumption
  <2>4. x \in S /\ ~Best(Upto(x))
    BY Zenon, <2>3
  <2> HIDE DEF Best, Upto
  <2>5. ASSUME NEW y \in S, Address[y] < Address[x] PROVE Best(Upto(y))
    <3>1. ~(Address[x] <= Address[y])
      BY <2>5, <2>4, <1>1
    <3> QED BY Zenon, <2>3, <3>1
  <2> QED BY Zenon, <1>2, <2>4, <2>5
<1>4. PICK z \in S : \A c \in S : Address[c] <= Address[z]
  BY Zenon, FiniteAssumption
<1>5. Upto(z) = S
  BY <1>4
<1>6. Best(Upto(z))
  BY Zenon, <1>3
<1> HIDE DEF Upto
<1> QED BY <1>5, <1>6

\* Among blocks with the same work one has the largest id: by the opposite
\* of the ids it is the best one.
LEMMA LastIdExists ==
  ASSUME NEW id \in [Blocks -> Int], NEW S \in SUBSET Blocks,
         \A b, c \in S : nChainWork[b] = nChainWork[c]
  PROVE  \E n \in {0} \cup {id[c] : c \in S} : \A m \in {0} \cup {id[c] : c \in S} : m <= n
<1> DEFINE opposite == [b \in Blocks |-> -id[b]]
<1>1. CASE S = {}
  BY <1>1
<1>2. CASE S # {}
  <2>1. opposite \in [Blocks -> Int] /\ \A b \in Blocks : opposite[b] = -id[b]
    OBVIOUS
  <2> HIDE DEF opposite
  <2>2. PICK b \in S : \A c \in S \ {b} : Worse(c, b, opposite)
    BY <1>2, <2>1, BestExists
  <2>3. ASSUME NEW c \in S PROVE id[c] <= id[b]
    <3>1. nChainWork[b] \in Nat /\ nChainWork[c] = nChainWork[b]
      BY TreeAssumption
    <3>2. c = b \/ opposite[c] >= opposite[b]
      BY <3>1, <2>2, <2>1 DEF Worse
    <3> QED BY <3>2, <2>1
  <2>4. id[b] \in Int
    OBVIOUS
  <2>5. CASE id[b] >= 0
    BY <2>3, <2>4, <2>5
  <2>6. CASE id[b] < 0
    BY <2>3, <2>4, <2>6
  <2>7. id[b] >= 0 \/ id[b] < 0
    BY <2>4
  <2> QED BY Zenon, <2>5, <2>6, <2>7
<1> QED BY Zenon, <1>1, <1>2

\* nBlockSequenceId++: a linked block gets an id, and no other changes.
LEMMA SequenceIdType ==
  ASSUME NEW id \in [Blocks -> Int], NEW b \in Blocks
  PROVE  /\ WithSequenceId(id, b) \in [Blocks -> Int]
         /\ \A c \in Blocks : c # b => WithSequenceId(id, b)[c] = id[c]
<1> DEFINE S == {c \in Blocks \ {b} : nChainWork[c] = nChainWork[b]}
           ids == {0} \cup {id[c] : c \in S}
           last == CHOOSE n \in ids : \A m \in ids : m <= n
<1>1. \E n \in ids : \A m \in ids : m <= n
  <2>1. S \in SUBSET Blocks /\ \A c, d \in S : nChainWork[c] = nChainWork[d]
    OBVIOUS
  <2> HIDE DEF S
  <2> QED BY <2>1, LastIdExists
<1>2. last \in ids
  <2> HIDE DEF ids
  <2> QED BY Zenon, <1>1
<1>3. ids \subseteq Int
  OBVIOUS
<1>4. last \in Int
  BY Zenon, <1>2, <1>3
<1>5. WithSequenceId(id, b) = [id EXCEPT ![b] = last + 1]
  BY Zenon DEF WithSequenceId
<1> HIDE DEF last
<1> QED BY <1>4, <1>5

-----------------------------------------------------------------------------
(* The blocks that wait.                                                   *)

\* What appending does to the elements and to their being distinct.
LEMMA AppendFacts ==
  ASSUME NEW X, NEW s \in Seq(X), NEW x \in X
  PROVE  /\ Append(s, x) \in Seq(X)
         /\ Elements(Append(s, x)) = Elements(s) \cup {x}
         /\ Distinct(s) /\ x \notin Elements(s) => Distinct(Append(s, x))
<1> DEFINE q == Append(s, x)
<1>1. /\ Len(q) = Len(s) + 1 /\ Len(s) \in Nat /\ q \in Seq(X)
      /\ \A i \in 1..Len(s) : q[i] = s[i]
      /\ q[Len(s) + 1] = x
  OBVIOUS
<1> HIDE DEF q
<1>2. \A i \in Int : i \in 1..Len(q) <=> i \in 1..Len(s) \/ i = Len(s) + 1
  BY <1>1
<1>3. DOMAIN q = 1..Len(q) /\ DOMAIN s = 1..Len(s)
  BY <1>1
<1>4. \A y : y \in Elements(q) <=> \E i \in 1..Len(q) : y = q[i]
  BY <1>3 DEF Elements
<1>5. \A y : y \in Elements(s) <=> \E i \in 1..Len(s) : y = s[i]
  BY <1>3 DEF Elements
<1>6. Elements(q) = Elements(s) \cup {x}
  BY <1>1, <1>2, <1>4, <1>5
<1>7. ASSUME Distinct(s), x \notin Elements(s) PROVE Distinct(q)
  BY <1>1, <1>2, <1>5, <1>7 DEF Distinct
<1> QED BY <1>1, <1>6, <1>7 DEF q

\* Insertion into m_blocks_unlinked, below the parent of the block.
LEMMA InsertFacts ==
  ASSUME NEW m \in [Blocks -> Seq(Blocks \ {Genesis})], ByParent(m),
         NEW b \in Blocks \ {Genesis}, b \notin Values(m)
  PROVE  /\ [m EXCEPT ![pprev[b]] = Append(@, b)] \in [Blocks -> Seq(Blocks \ {Genesis})]
         /\ ByParent([m EXCEPT ![pprev[b]] = Append(@, b)])
         /\ Values([m EXCEPT ![pprev[b]] = Append(@, b)]) = Values(m) \cup {b}
<1> DEFINE p == pprev[b]
           r == [m EXCEPT ![p] = Append(@, b)]
           X == Blocks \ {Genesis}
<1>1. p \in Blocks
  BY ParentFacts
<1>2. /\ Append(m[p], b) \in Seq(X)
      /\ Elements(Append(m[p], b)) = Elements(m[p]) \cup {b}
      /\ Distinct(Append(m[p], b))
  <2>1. m[p] \in Seq(X) /\ b \in X /\ Distinct(m[p]) /\ b \notin Elements(m[p])
    BY <1>1 DEF ByParent, Values
  <2> HIDE DEF X, p
  <2> QED BY <2>1, AppendFacts
<1>3. r \in [Blocks -> Seq(X)] /\ r[p] = Append(m[p], b) /\ \A q \in Blocks : q # p => r[q] = m[q]
  BY <1>1, <1>2
<1>4. pprev[b] = p
  OBVIOUS
<1> HIDE DEF p, r
<1>5. ByParent(r)
  BY Zenon, <1>1, <1>2, <1>3, <1>4 DEF ByParent
<1>6. Values(r) = Values(m) \cup {b}
  <2>1. \A q \in Blocks : Elements(r[q]) = IF q = p THEN Elements(m[q]) \cup {b} ELSE Elements(m[q])
    BY Zenon, <1>2, <1>3
  <2>2. ASSUME NEW c PROVE c \in Values(r) <=> c \in Values(m) \cup {b}
    <3>1. c \in Values(r) <=> \E q \in Blocks : c \in Elements(r[q])
      BY Zenon DEF Values
    <3>2. c \in Values(m) <=> \E q \in Blocks : c \in Elements(m[q])
      BY Zenon DEF Values
    <3> QED BY Zenon, <3>1, <3>2, <1>1, <2>1
  <2> QED BY <2>2
<1> QED BY Zenon, <1>3, <1>5, <1>6 DEF r, p

\* What m_blocks_unlinked has below a block, and what is left without it.
LEMMA EraseFacts ==
  ASSUME NEW m \in [Blocks -> Seq(Blocks \ {Genesis})], ByParent(m), NEW x \in Blocks
  PROVE  /\ m[x] \in Seq(Blocks \ {Genesis}) /\ Distinct(m[x])
         /\ Elements(m[x]) = Values(m) \cap {c \in Blocks \ {Genesis} : pprev[c] = x}
         /\ [m EXCEPT ![x] = <<>>] \in [Blocks -> Seq(Blocks \ {Genesis})]
         /\ ByParent([m EXCEPT ![x] = <<>>])
         /\ Values([m EXCEPT ![x] = <<>>]) = Values(m) \ {c \in Blocks \ {Genesis} : pprev[c] = x}
<1> DEFINE r == [m EXCEPT ![x] = <<>>]
           range == {c \in Blocks \ {Genesis} : pprev[c] = x}
<1>1. m[x] \in Seq(Blocks \ {Genesis}) /\ Distinct(m[x])
  BY DEF ByParent
<1>2. /\ r \in [Blocks -> Seq(Blocks \ {Genesis})] /\ r[x] = <<>>
      /\ \A q \in Blocks : q # x => r[q] = m[q]
  OBVIOUS
<1>3. Elements(<<>>) = {} /\ Distinct(<<>>)
  BY DEF Elements, Distinct
<1>4. \A q \in Blocks : Elements(m[q]) \subseteq Blocks \ {Genesis}
  BY DEF Elements
<1>5. \A q \in Blocks : \A c \in Elements(m[q]) : c \in range <=> q = x
  BY <1>4 DEF ByParent
<1> HIDE DEF r, range
<1>6. Elements(m[x]) = Values(m) \cap range
  BY <1>5 DEF Values
<1>7. ByParent(r)
  BY Zenon, <1>2, <1>3 DEF ByParent
<1>8. Values(r) = Values(m) \ range
  BY Zenon, <1>2, <1>3, <1>5 DEF Values
<1> QED BY Zenon, <1>1, <1>2, <1>6, <1>7, <1>8 DEF r, range

\* What m_blocks_unlinked holds are blocks.
LEMMA ValuesType ==
  ASSUME NEW m \in [Blocks -> Seq(Blocks \ {Genesis})]
  PROVE  Values(m) \subseteq Blocks \ {Genesis}
<1>1. \A p \in Blocks : Elements(m[p]) \subseteq Blocks \ {Genesis}
  BY DEF Elements
<1> QED BY Zenon, <1>1 DEF Values

\* An order of a set has each of its elements once.
LEMMA OrdersFacts ==
  ASSUME NEW X, NEW S \in SUBSET X, NEW s \in Orders(S)
  PROVE  s \in Seq(X) /\ Distinct(s) /\ Elements(s) = S
<1>1. PICK n \in 0..Cardinality(S) :
        s \in {r \in [1..n -> S] : Elements(r) = S /\ \A i, j \in 1..n : r[i] = r[j] => i = j}
  BY Zenon DEF Orders
<1>2. n \in Nat /\ s \in [1..n -> S] /\ Elements(s) = S /\ \A i, j \in 1..n : s[i] = s[j] => i = j
  BY <1>1
<1>3. s \in Seq(X) /\ Len(s) = n
  BY <1>2
<1> QED BY <1>2, <1>3 DEF Distinct

\* The queue after a round: the first block is gone, and others follow.
LEMMA QueueFacts ==
  ASSUME NEW X, NEW s \in Seq(X), s # <<>>, NEW r \in Seq(X), Distinct(s), Distinct(r),
         Elements(s) \cap Elements(r) = {}
  PROVE  /\ Tail(s) \o r \in Seq(X)
         /\ Head(s) \in Elements(s)
         /\ Elements(Tail(s) \o r) = (Elements(s) \ {Head(s)}) \cup Elements(r)
         /\ Distinct(Tail(s) \o r)
<1> DEFINE q == Tail(s) \o r
           n == Len(s) - 1
<1>1. /\ n \in Nat /\ Len(s) = n + 1 /\ Len(r) \in Nat /\ q \in Seq(X) /\ Len(q) = n + Len(r)
      /\ s[1] = Head(s) /\ Len(Tail(s)) = n
      /\ \A i \in 1..n : Tail(s)[i] = s[i + 1]
  OBVIOUS
<1>2. /\ \A i \in 1..n : q[i] = s[i + 1]
      /\ \A i \in 1..Len(r) : q[n + i] = r[i]
  BY <1>1
<1> HIDE DEF q, n
<1>3. DOMAIN q = 1..Len(q) /\ DOMAIN s = 1..Len(s) /\ DOMAIN r = 1..Len(r)
  BY <1>1
<1>4. /\ \A y : y \in Elements(q) <=> \E i \in 1..Len(q) : y = q[i]
      /\ \A y : y \in Elements(s) <=> \E i \in 1..Len(s) : y = s[i]
      /\ \A y : y \in Elements(r) <=> \E i \in 1..Len(r) : y = r[i]
  BY ZenonT(40), <1>3 DEF Elements
<1>5. \A i \in 1..Len(q) : i \in 1..n \/ \E j \in 1..Len(r) : i = n + j
  <2>1. ASSUME NEW i \in 1..Len(q), i \notin 1..n PROVE i - n \in 1..Len(r) /\ i = n + (i - n)
    BY <1>1, <2>1
  <2> QED BY <2>1
<1>6. \A i \in 1..Len(s) : i = 1 \/ (i - 1 \in 1..n /\ i = (i - 1) + 1)
  BY <1>1
<1>7. /\ \A i \in 1..n : i + 1 \in 1..Len(s) /\ i + 1 # 1 /\ i \in 1..Len(q)
      /\ \A i \in 1..Len(r) : n + i \in 1..Len(q)
      /\ 1 \in 1..Len(s)
  BY <1>1
<1>8. Head(s) \in Elements(s)
  BY Zenon, <1>1, <1>4, <1>7
<1>9. ASSUME NEW y PROVE y \in Elements(q) <=> y \in (Elements(s) \ {Head(s)}) \cup Elements(r)
  <2>1. ASSUME y \in Elements(q) PROVE y \in (Elements(s) \ {Head(s)}) \cup Elements(r)
    <3>1. PICK i \in 1..Len(q) : y = q[i]
      BY Zenon, <2>1, <1>4
    <3>2. CASE i \in 1..n
      <4>1. y = s[i + 1] /\ s[i + 1] # s[1]
        BY <3>1, <3>2, <1>2, <1>7 DEF Distinct
      <4> QED BY <4>1, <3>2, <1>1, <1>4, <1>7
    <3>3. CASE i \notin 1..n
      BY <3>1, <3>3, <1>2, <1>4, <1>5
    <3> QED BY <3>2, <3>3
  <2>2. ASSUME y \in Elements(s), y # Head(s) PROVE y \in Elements(q)
    <3>1. PICK i \in 1..Len(s) : y = s[i]
      BY <2>2, <1>4
    <3>2. i - 1 \in 1..n /\ i = (i - 1) + 1
      BY <2>2, <3>1, <1>1, <1>6
    <3>3. q[i - 1] = y /\ i - 1 \in 1..Len(q)
      BY Zenon, <3>1, <3>2, <1>2, <1>7
    <3> QED BY <3>3, <1>4
  <2>3. ASSUME y \in Elements(r) PROVE y \in Elements(q)
    BY <2>3, <1>2, <1>4, <1>7
  <2> QED BY <2>1, <2>2, <2>3
<1>10. ASSUME NEW i \in 1..Len(q), NEW j \in 1..Len(q), q[i] = q[j] PROVE i = j
  <2>1. CASE i \in 1..n /\ j \in 1..n
    <3>1. i + 1 = j + 1
      BY <1>10, <2>1, <1>2, <1>7 DEF Distinct
    <3> QED BY <3>1, <2>1
  <2>2. CASE i \in 1..n /\ j \notin 1..n
    <3>1. q[i] \in Elements(s)
      BY Zenon, <2>2, <1>2, <1>4, <1>7
    <3>2. PICK k \in 1..Len(r) : j = n + k
      BY <2>2, <1>5
    <3>3. q[j] \in Elements(r)
      BY <3>2, <1>2, <1>4
    <3> QED BY <3>1, <3>3, <1>10
  <2>3. CASE i \notin 1..n /\ j \in 1..n
    <3>1. q[j] \in Elements(s)
      BY ZenonT(40), <2>3, <1>2, <1>4, <1>7
    <3>2. PICK k \in 1..Len(r) : i = n + k
      BY Zenon, <2>3, <1>5
    <3>3. q[i] \in Elements(r)
      BY Zenon, <3>2, <1>2, <1>4
    <3> QED BY <3>1, <3>3, <1>10
  <2>4. CASE i \notin 1..n /\ j \notin 1..n
    BY <1>10, <2>4, <1>2, <1>5 DEF Distinct
  <2> QED BY <2>1, <2>2, <2>3, <2>4
<1>11. Distinct(q)
  BY <1>10 DEF Distinct
<1> QED BY <1>1, <1>8, <1>9, <1>11 DEF q

-----------------------------------------------------------------------------
(* What a step leaves alone.                                               *)

\* What is newly marked was not linked, or has a failed ancestor.
FailuresSpread == \A c \in haveTxsDownloaded : IsFailed(c)' => \E f \in Path[c] : IsFailed(f)

\* Only what was marked is marked.
LEMMA NoNewFailures ==
  ASSUME TypeOK, failedValid' \subseteq failedValid, failedChild' \subseteq failedChild
  PROVE  FailuresSpread
BY Zenon, PathType DEF FailuresSpread, IsFailed, TypeOK

\* A sound chain stays sound.
LEMMA SoundStays ==
  ASSUME FailuresSpread, haveTxsDownloaded \subseteq haveTxsDownloaded',
         NEW b \in Blocks, Sound(b)
  PROVE  Sound(b)'
<1>1. ASSUME NEW c \in Path[b] PROVE ~IsFailed(c)' /\ c \in haveTxsDownloaded'
  <2>1. c \in haveTxsDownloaded /\ Path[c] \subseteq Path[b]
    BY PathClosed DEF Sound
  <2>2. \A f \in Path[c] : ~IsFailed(f)
    BY <2>1 DEF Sound
  <2> QED BY <2>1, <2>2 DEF FailuresSpread
<1> QED BY <1>1 DEF Sound

\* The active chain is sound.
LEMMA TipIsSound ==
  ASSUME ActiveChainIsValid
  PROVE  Sound(tip)
BY DEF ActiveChainIsValid, Sound

\* The active chain stays valid while the tip stays.
LEMMA ChainStays ==
  ASSUME ActiveChainIsValid, TypeOK, FailuresSpread, haveTxsDownloaded \subseteq haveTxsDownloaded',
         tip' = tip, \A c \in haveTxsDownloaded : validity'[c] = validity[c]
  PROVE  ActiveChainIsValid'
<1>1. tip \in Blocks
  BY DEF TypeOK
<1>2. Sound(tip)'
  <2> DEFINE b == tip
  <2>1. Sound(b) /\ b \in Blocks
    BY Zenon, <1>1, TipIsSound
  <2> HIDE DEF b
  <2>2. \A c \in Path[b] : ~IsFailed(c)' /\ c \in haveTxsDownloaded'
    BY Zenon, <2>1, SoundStays DEF Sound
  <2>3. b = tip'
    BY DEF b
  <2> QED BY <2>2, <2>3 DEF Sound
<1>3. \A c \in Path[tip] : validity'[c] = VALID_SCRIPTS
  BY Zenon DEF ActiveChainIsValid
<1> QED BY Zenon, <1>2, <1>3 DEF ActiveChainIsValid, Sound

\* The target stays sound while no thread begins a section.
LEMMA TargetStays ==
  ASSUME TargetIsSound, TypeOK, FailuresSpread, haveTxsDownloaded \subseteq haveTxsDownloaded',
         tip' = tip, local'.pindexMostWork = local.pindexMostWork,
         \A t \in Threads :
            /\ pc'[t] \in {"find", "connect", "release"} => pc[t] \in {"find", "connect", "release"}
            /\ pc'[t] = "connect" => pc[t] = "connect"
  PROVE  TargetIsSound'
<1> DEFINE m == local.pindexMostWork
<1>1. m \in Blocks \cup {NoBlock}
  BY DEF TypeOK
<1> HIDE DEF m
<1>2. Sound(m) /\ m # NoBlock => \A c \in Path[m] : ~IsFailed(c)' /\ c \in haveTxsDownloaded'
  BY <1>1, SoundStays DEF Sound
<1>3. m = local.pindexMostWork /\ m = local'.pindexMostWork
  BY DEF m
<1> QED BY Zenon, <1>2, <1>3 DEF TargetIsSound, Sound

\* So does what invalidateblock works on.
LEMMA InvalidationStays ==
  ASSUME InvalidationIsSound, tip' = tip, m_block_index \subseteq m_block_index',
         haveTxsDownloaded \subseteq haveTxsDownloaded',
         \A t \in Threads : pc'[t] = "invalidate" =>
            /\ pc[t] = "invalidate" /\ local'.pindex = local.pindex
            /\ local'.to_mark_failed = local.to_mark_failed
            /\ local'.candidate_blocks = local.candidate_blocks
  PROVE  InvalidationIsSound'
BY DEF InvalidationIsSound, InChain

\* Candidates that are left stay as good as the tip.
LEMMA CandidatesStay ==
  ASSUME CandidatesNotWorse, setBlockIndexCandidates' \subseteq setBlockIndexCandidates,
         tip' = tip, nSequenceId' = nSequenceId
  PROVE  CandidatesNotWorse'
BY Zenon DEF CandidatesNotWorse, Worse

\* The order of arrival stays as it is when nothing arrives.
LEMMA IndexStays ==
  ASSUME IndexIsATree, WaitingIsExact, UNCHANGED index
  PROVE  IndexIsATree' /\ WaitingIsExact'
BY DEF IndexIsATree, WaitingIsExact, Distinct, Elements, index, VALID_TRANSACTIONS

-----------------------------------------------------------------------------
(* Headers and blocks.                                                     *)

\* A header whose parent is known keeps the index a tree.
LEMMA HeaderKeepsTree ==
  ASSUME TypeOK, IndexIsATree, NEW b \in Blocks \ {Genesis}, HeaderAccepted(b)
  PROVE  /\ \A c \in m_block_index \cup {b} : Path[c] \subseteq m_block_index \cup {b}
         /\ WithHeader(b) \in [Blocks -> 0..5]
         /\ \A c \in m_block_index : WithHeader(b)[c] = validity[c]
<1>1. b \notin m_block_index => pprev[b] \in m_block_index
  BY DEF HeaderAccepted, IsNewHeader
<1>2. Path[b] = {b} \cup Path[pprev[b]]
  BY ParentFacts
<1>3. validity \in [Blocks -> 0..5]
  BY DEF TypeOK
<1> QED BY <1>1, <1>2, <1>3 DEF IndexIsATree, WithHeader, VALID_TREE

\* AcceptBlockHeader keeps the invariant.
LEMMA AcceptBlockHeaderChain ==
  ASSUME ChainInv, NEW b \in Blocks \ {Genesis}, AcceptBlockHeader(b)
  PROVE  ChainInv'
<1> USE DEF ChainInv
<1>1. /\ m_block_index' = m_block_index \cup {b} /\ validity' = WithHeader(b)
      /\ HeaderAccepted(b) /\ b \notin m_block_index
      /\ UNCHANGED <<haveData, haveTxsDownloaded, m_blocks_unlinked, queue, flags, nSequenceId,
                     setBlockIndexCandidates, tip, precious, pc, local, commands, shutdown>>
  BY DEF AcceptBlockHeader
<1>2. /\ \A c \in m_block_index' : Path[c] \subseteq m_block_index'
      /\ validity' \in [Blocks -> 0..5]
      /\ \A c \in m_block_index : validity'[c] = validity[c]
  BY <1>1, HeaderKeepsTree
<1>3. TypeOK'
  BY Zenon, <1>1, <1>2 DEF TypeOK, flags, precious
<1>4. LocksExclude'
  BY <1>1 DEF LocksExclude
<1>5. IndexIsATree'
  BY Zenon, <1>1, <1>2 DEF IndexIsATree, TypeOK, VALID_TRANSACTIONS
<1>6. WaitingIsExact'
  BY <1>1 DEF WaitingIsExact
<1>7. FailuresSpread
  BY Zenon, <1>1, NoNewFailures DEF flags
<1>8. ActiveChainIsValid'
  BY <1>1, <1>2, <1>7, ChainStays DEF TypeOK
<1>9. TargetIsSound'
  BY Zenon, <1>1, <1>7, TargetStays
<1>10. InvalidationIsSound'
  BY Zenon, <1>1, InvalidationStays
<1>11. CandidatesNotWorse'
  BY <1>1, CandidatesStay
<1> QED BY Zenon, <1>3, <1>4, <1>5, <1>6, <1>8, <1>9, <1>10, <1>11

-----------------------------------------------------------------------------
\* RefuseBlockHeader keeps the invariant.
LEMMA RefuseBlockHeaderChain ==
  ASSUME ChainInv, NEW b \in Blocks \ {Genesis}, RefuseBlockHeader(b)
  PROVE  ChainInv' /\ FailuresSpread
<1> USE DEF ChainInv
<1>1. PICK f \in FailedAbove(b) : failedChild' = failedChild \cup (Path[pprev[b]] \ Path[f])
  BY DEF RefuseBlockHeader
<1>2. UNCHANGED <<index, failedValid, m_failed_blocks, nSequenceId,
                  setBlockIndexCandidates, tip, precious, pc, local, commands, shutdown>>
  BY Zenon DEF RefuseBlockHeader
<1>3. /\ pprev[b] \in m_block_index /\ pprev[b] \in Blocks
      /\ f \in failedValid /\ f \in Path[pprev[b]]
  BY <1>1, ParentFacts DEF RefuseBlockHeader, IsNewHeader, FailedAbove, TypeOK
<1>4. UNCHANGED <<m_block_index, validity, haveData, haveTxsDownloaded, m_blocks_unlinked, queue>>
  BY Zenon, <1>2 DEF index
<1>5. failedChild' \subseteq m_block_index
  BY <1>1, <1>3 DEF TypeOK, IndexIsATree
<1>6. TypeOK'
  BY Zenon, <1>2, <1>4, <1>5 DEF TypeOK, precious
<1>7. LocksExclude'
  BY <1>2, <1>4 DEF LocksExclude
<1>8. IndexIsATree' /\ WaitingIsExact'
  BY <1>2, IndexStays
<1>9. FailuresSpread
  <2>1. ASSUME NEW c \in haveTxsDownloaded, IsFailed(c)', ~IsFailed(c)
        PROVE  f \in Path[c]
    <3>1. c \in Path[pprev[b]] /\ c \notin Path[f]
      BY <1>1, <1>2, <2>1 DEF IsFailed
    <3> QED BY <3>1, <1>3, PathLinear
  <2>2. ASSUME NEW c \in haveTxsDownloaded PROVE c \in Path[c]
    BY Zenon, PathType DEF TypeOK
  <2>3. IsFailed(f)
    BY <1>3 DEF IsFailed
  <2> QED BY Zenon, <2>1, <2>2, <2>3 DEF FailuresSpread
<1>10. ActiveChainIsValid'
  BY <1>2, <1>4, <1>9, ChainStays
<1>11. TargetIsSound'
  BY Zenon, <1>2, <1>4, <1>9, TargetStays
<1>12. InvalidationIsSound'
  BY <1>2, <1>4, InvalidationStays
<1>13. CandidatesNotWorse'
  BY <1>2, CandidatesStay
<1> QED BY <1>6, <1>7, <1>8, <1>9, <1>10, <1>11, <1>12, <1>13

\* ProcessInvalidBlock keeps the invariant.
LEMMA ProcessInvalidBlockChain ==
  ASSUME ChainInv, NEW b \in Blocks \ {Genesis}, ProcessInvalidBlock(b)
  PROVE  ChainInv' /\ FailuresSpread
<1> USE DEF ChainInv
<1>1. /\ m_block_index' = m_block_index \cup {b} /\ validity' = WithHeader(b)
      /\ HeaderAccepted(b) /\ b \notin haveData
      /\ failedValid' = failedValid \cup {b}
      /\ UNCHANGED <<haveData, haveTxsDownloaded, m_blocks_unlinked, queue, failedChild,
                     m_failed_blocks, nSequenceId, setBlockIndexCandidates, tip, precious, pc, local,
                     commands, shutdown>>
  BY DEF ProcessInvalidBlock, Wanted
<1>2. /\ \A c \in m_block_index' : Path[c] \subseteq m_block_index'
      /\ validity' \in [Blocks -> 0..5]
      /\ \A c \in m_block_index : validity'[c] = validity[c]
  BY Zenon, <1>1, HeaderKeepsTree
<1>3. TypeOK'
  BY ZenonT(40), <1>1, <1>2 DEF TypeOK, precious
<1>4. LocksExclude'
  BY <1>1 DEF LocksExclude
<1>5. IndexIsATree'
  BY Zenon, <1>1, <1>2 DEF IndexIsATree, TypeOK, VALID_TRANSACTIONS
<1>6. WaitingIsExact'
  BY Zenon, <1>1 DEF WaitingIsExact
<1>7. FailuresSpread
  <2>1. ASSUME NEW c \in haveTxsDownloaded, IsFailed(c)' PROVE IsFailed(c) /\ c \in Path[c]
    BY Zenon, <1>1, <2>1, PathType DEF IsFailed, TypeOK
  <2> QED BY SMTT(40), <2>1 DEF FailuresSpread
<1>8. ActiveChainIsValid'
  BY Zenon, <1>1, <1>2, <1>7, ChainStays DEF TypeOK
<1>9. TargetIsSound'
  BY Zenon, <1>1, <1>7, TargetStays
<1>10. InvalidationIsSound'
  BY <1>1, InvalidationStays
<1>11. CandidatesNotWorse'
  BY <1>1, CandidatesStay
<1> QED BY <1>3, <1>4, <1>5, <1>6, <1>7, <1>8, <1>9, <1>10, <1>11

\* ProcessOldBlock keeps the invariant.
LEMMA ProcessOldBlockChain ==
  ASSUME ChainInv, NEW t \in Threads, NEW b \in Blocks \ {Genesis}, ProcessOldBlock(t, b)
  PROVE  ChainInv'
<1> USE DEF ChainInv
<1>1. /\ m_block_index' = m_block_index \cup {b} /\ validity' = WithHeader(b)
      /\ HeaderAccepted(b) /\ pc[t] = "idle" /\ pc' = [pc EXCEPT ![t] = "activate"]
      /\ UNCHANGED <<haveData, haveTxsDownloaded, m_blocks_unlinked, queue, flags, nSequenceId,
                     setBlockIndexCandidates, tip, precious, local, commands, shutdown>>
  BY DEF ProcessOldBlock, Step
<1>2. /\ \A c \in m_block_index' : Path[c] \subseteq m_block_index'
      /\ validity' \in [Blocks -> 0..5]
      /\ \A c \in m_block_index : validity'[c] = validity[c]
  BY Zenon, <1>1, HeaderKeepsTree
<1>3. TypeOK'
  BY Zenon, <1>1, <1>2 DEF TypeOK, flags, precious
<1>4. \A u \in Threads : pc'[u] = IF u = t THEN "activate" ELSE pc[u]
  BY <1>1 DEF TypeOK
<1>5. LocksExclude'
  BY <1>1, <1>4 DEF LocksExclude, Owning, HoldingCsMain
<1>6. IndexIsATree'
  BY ZenonT(40), <1>1, <1>2 DEF IndexIsATree, TypeOK, VALID_TRANSACTIONS
<1>7. WaitingIsExact'
  BY ZenonT(40), <1>1 DEF WaitingIsExact
<1>8. FailuresSpread
  BY Zenon, <1>1, NoNewFailures DEF flags
<1>9. ActiveChainIsValid'
  BY Zenon, <1>1, <1>2, <1>8, ChainStays DEF TypeOK
<1>10. TargetIsSound'
  BY <1>1, <1>4, <1>8, TargetStays
<1>11. InvalidationIsSound'
  BY <1>1, <1>4, InvalidationStays
<1>12. CandidatesNotWorse'
  BY <1>1, CandidatesStay
<1> QED BY <1>3, <1>5, <1>6, <1>7, <1>9, <1>10, <1>11, <1>12

\* ProcessNewBlock keeps the invariant.
LEMMA ProcessNewBlockChain ==
  ASSUME ChainInv, CsMainFree, NEW t \in Threads, NEW b \in Blocks \ {Genesis}, ProcessNewBlock(t, b)
  PROVE  ChainInv'
<1> USE DEF ChainInv
<1> DEFINE next == IF pprev[b] \in haveTxsDownloaded THEN "link" ELSE "activate"
<1>1. /\ m_block_index' = m_block_index \cup {b} /\ HeaderAccepted(b) /\ b \notin haveData
      /\ haveData' = haveData \cup {b}
      /\ validity' = [validity EXCEPT ![b] = VALID_TRANSACTIONS]
      /\ pc[t] = "idle" /\ pc' = [pc EXCEPT ![t] = next]
      /\ UNCHANGED <<haveTxsDownloaded, flags, nSequenceId, setBlockIndexCandidates, tip, precious,
                     local, commands, shutdown>>
  BY DEF ProcessNewBlock, Step, ReceivedBlockTransactions, Wanted
<1>2. IF pprev[b] \in haveTxsDownloaded
      THEN queue' = <<b>> /\ UNCHANGED m_blocks_unlinked
      ELSE /\ m_blocks_unlinked' \in
                 {m_blocks_unlinked, [m_blocks_unlinked EXCEPT ![pprev[b]] = Append(@, b)]}
           /\ UNCHANGED queue
  BY Zenon DEF ProcessNewBlock, ReceivedBlockTransactions
<1>3. /\ \A c \in m_block_index' : Path[c] \subseteq m_block_index'
      /\ validity' \in [Blocks -> 0..5] /\ validity'[b] = VALID_TRANSACTIONS
      /\ \A c \in haveData : validity'[c] = validity[c]
  <2>1. \A c \in m_block_index' : Path[c] \subseteq m_block_index'
    BY Zenon, <1>1, HeaderKeepsTree
  <2>2. /\ validity' = [validity EXCEPT ![b] = VALID_TRANSACTIONS] /\ b \notin haveData
        /\ validity \in [Blocks -> 0..5] /\ haveData \subseteq Blocks
    BY Zenon, <1>1 DEF TypeOK
  <2>3. /\ validity' \in [Blocks -> 0..5] /\ validity'[b] = VALID_TRANSACTIONS
        /\ \A c \in haveData : validity'[c] = validity[c]
    BY <2>2 DEF VALID_TRANSACTIONS
  <2> QED BY Zenon, <2>1, <2>3
<1>4. m_blocks_unlinked' \in [Blocks -> Seq(Blocks \ {Genesis})] /\ queue' \in Seq(Blocks \ {Genesis})
  <2>1. <<b>> \in Seq(Blocks \ {Genesis})
    OBVIOUS
  <2>2. m_blocks_unlinked \in [Blocks -> Seq(Blocks \ {Genesis})] /\ queue \in Seq(Blocks \ {Genesis})
    BY Zenon DEF TypeOK
  <2>3. [m_blocks_unlinked EXCEPT ![pprev[b]] = Append(@, b)] \in [Blocks -> Seq(Blocks \ {Genesis})]
    <3>1. ByParent(m_blocks_unlinked) /\ b \notin Values(m_blocks_unlinked)
      BY <1>1 DEF WaitingIsExact
    <3> QED BY ZenonT(40), <2>2, <3>1, InsertFacts
  <2> QED BY Zenon, <1>2, <2>1, <2>2, <2>3
<1>5. TypeOK'
  BY ZenonT(40), <1>1, <1>3, <1>4 DEF TypeOK, flags, precious
<1>6. \A u \in Threads : pc'[u] = IF u = t THEN next ELSE pc[u]
  BY <1>1 DEF TypeOK
<1>7. queue = <<>> /\ \A u \in Threads : pc[u] \notin HoldingCsMain
  BY Zenon DEF LocksExclude, CsMainFree, HoldingCsMain
<1>8. queue' # <<>> <=> pprev[b] \in haveTxsDownloaded
  BY <1>2, <1>7
<1>9. LocksExclude'
  BY <1>1, <1>6, <1>7, <1>8 DEF LocksExclude, Owning, HoldingCsMain
<1>10. IndexIsATree'
  <2>1. \A c \in haveData' : validity'[c] >= VALID_TRANSACTIONS
    <3>1. haveData' = haveData \cup {b}
      BY Zenon, <1>1
    <3>2. \A c \in haveData : validity[c] >= VALID_TRANSACTIONS
      BY Zenon DEF IndexIsATree
    <3>3. validity'[b] = VALID_TRANSACTIONS /\ \A c \in haveData : validity'[c] = validity[c]
      BY Zenon, <1>3
    <3> QED BY <3>1, <3>2, <3>3 DEF VALID_TRANSACTIONS
  <2> QED BY ZenonT(40), <1>1, <1>3, <2>1 DEF IndexIsATree
<1>11. WaitingIsExact'
  <2>1. b \notin Values(m_blocks_unlinked) /\ b \notin haveTxsDownloaded
    BY ZenonT(40), <1>1 DEF WaitingIsExact, TypeOK
  <2>2. CASE pprev[b] \in haveTxsDownloaded
    <3>1. Elements(queue') = {b} /\ Distinct(queue')
      <4>1. queue' = <<b>>
        BY <1>2, <2>2
      <4>2. Len(queue') = 1 /\ DOMAIN queue' = 1..1 /\ queue'[1] = b
        BY <4>1
      <4> QED BY <4>2 DEF Elements, Distinct
    <3>2. UNCHANGED <<m_blocks_unlinked, haveTxsDownloaded>> /\ haveData' = haveData \cup {b}
      BY SMTT(40), <1>1, <1>2, <2>2
    <3>3. Values(m_blocks_unlinked') = Values(m_blocks_unlinked) /\ ByParent(m_blocks_unlinked')
      BY ZenonT(40), <3>2 DEF WaitingIsExact
    <3>4. ASSUME NEW c \in Values(m_blocks_unlinked)
          PROVE  c \in haveData' /\ c \notin haveTxsDownloaded' /\ pprev[c] \notin haveTxsDownloaded'
      BY Zenon, <3>2 DEF WaitingIsExact
    <3>5. /\ b \in haveData' /\ b \notin haveTxsDownloaded' /\ pprev[b] \in haveTxsDownloaded'
          /\ b \notin Values(m_blocks_unlinked')
      BY Zenon, <2>1, <2>2, <3>2, <3>3
    <3> QED BY Zenon, <3>1, <3>3, <3>4, <3>5 DEF WaitingIsExact
  <2>3. CASE pprev[b] \notin haveTxsDownloaded
    <3>1. Elements(queue') = {} /\ Distinct(queue')
      BY <1>2, <1>7, <2>3 DEF Elements, Distinct
    <3>2. /\ Values(m_blocks_unlinked') \subseteq Values(m_blocks_unlinked) \cup {b}
          /\ ByParent(m_blocks_unlinked')
      <4>1. CASE m_blocks_unlinked' = m_blocks_unlinked
        BY SMTT(40), <4>1 DEF WaitingIsExact
      <4>2. CASE m_blocks_unlinked' = [m_blocks_unlinked EXCEPT ![pprev[b]] = Append(@, b)]
        BY Zenon, <4>2, <2>1, InsertFacts DEF WaitingIsExact, TypeOK
      <4> QED BY ZenonT(40), <1>2, <2>3, <4>1, <4>2
    <3> QED BY ZenonT(40), <1>1, <2>1, <2>3, <3>1, <3>2 DEF WaitingIsExact
  <2> QED BY <2>2, <2>3
<1>12. FailuresSpread
  BY SMTT(40), <1>1, NoNewFailures DEF flags
<1>13. ActiveChainIsValid'
  BY Zenon, <1>1, <1>3, <1>12, ChainStays DEF TypeOK
<1>14. TargetIsSound'
  BY <1>1, <1>6, <1>12, TargetStays
<1>15. InvalidationIsSound'
  BY <1>1, <1>6, InvalidationStays
<1>16. CandidatesNotWorse'
  BY <1>1, CandidatesStay
<1> QED BY Zenon, <1>5, <1>9, <1>10, <1>11, <1>13, <1>14, <1>15, <1>16

\* A round of the loop of ReceivedBlockTransactions for the block x, below
\* which the blocks of range are.
LinkEffect(t, x, range) ==
    /\ range = {c \in Blocks \ {Genesis} : pprev[c] = x}
    /\ pc[t] = "link" /\ queue # <<>>
    /\ x \in Elements(queue) /\ x \in Blocks \ {Genesis} /\ x \in haveData
    /\ x \notin haveTxsDownloaded /\ pprev[x] \in haveTxsDownloaded
    /\ haveTxsDownloaded' = haveTxsDownloaded \cup {x}
    /\ nSequenceId' \in [Blocks -> Int]
    /\ \A c \in Blocks : c # x => nSequenceId'[c] = nSequenceId[c]
    /\ setBlockIndexCandidates' = setBlockIndexCandidates \cup {c \in {x} : ~Worse(c, tip, nSequenceId')}
    /\ queue' \in Seq(Blocks \ {Genesis}) /\ Distinct(queue')
    /\ Elements(queue') = (Elements(queue) \ {x}) \cup (Values(m_blocks_unlinked) \cap range)
    /\ m_blocks_unlinked' \in [Blocks -> Seq(Blocks \ {Genesis})] /\ ByParent(m_blocks_unlinked')
    /\ Values(m_blocks_unlinked') = Values(m_blocks_unlinked) \ range
    /\ pc' = [pc EXCEPT ![t] = IF queue' = <<>> THEN "activate" ELSE "link"]
    /\ UNCHANGED <<m_block_index, validity, haveData, flags, tip, precious, local, commands, shutdown>>

\* LinkBlock is such a round.
LEMMA LinkBlockFacts ==
  ASSUME ChainInv, NEW t \in Threads, LinkBlock(t)
  PROVE  \E x, range : LinkEffect(t, x, range)
<1> DEFINE x == Head(queue)
           range == {c \in Blocks \ {Genesis} : pprev[c] = x}
           waiting == m_blocks_unlinked[x]
           rest == [m_blocks_unlinked EXCEPT ![x] = <<>>]
<1>1. /\ pc[t] = "link" /\ haveTxsDownloaded' = haveTxsDownloaded \cup {x}
      /\ nSequenceId' = WithSequenceId(nSequenceId, x)
      /\ setBlockIndexCandidates' = setBlockIndexCandidates \cup {c \in {x} : ~Worse(c, tip, nSequenceId')}
      /\ queue' = Tail(queue) \o waiting /\ m_blocks_unlinked' = rest
      /\ pc' = [pc EXCEPT ![t] = IF queue' = <<>> THEN "activate" ELSE "link"]
      /\ UNCHANGED <<m_block_index, validity, haveData, flags, tip, precious, local, commands, shutdown>>
  BY DEF LinkBlock
<1>2. queue # <<>>
  BY Zenon, <1>1 DEF ChainInv, LocksExclude
<1>3. /\ queue \in Seq(Blocks \ {Genesis}) /\ m_blocks_unlinked \in [Blocks -> Seq(Blocks \ {Genesis})]
      /\ Distinct(queue) /\ ByParent(m_blocks_unlinked)
      /\ Elements(queue) \cap Values(m_blocks_unlinked) = {}
  BY Zenon DEF ChainInv, TypeOK, WaitingIsExact
<1>9. x \in Blocks \ {Genesis}
  BY <1>2, <1>3
<1>r. range = {c \in Blocks \ {Genesis} : pprev[c] = x} /\ x = Head(queue)
  OBVIOUS
<1>4. /\ waiting \in Seq(Blocks \ {Genesis}) /\ Distinct(waiting)
      /\ Elements(waiting) = Values(m_blocks_unlinked) \cap range
      /\ rest \in [Blocks -> Seq(Blocks \ {Genesis})] /\ ByParent(rest)
      /\ Values(rest) = Values(m_blocks_unlinked) \ range
  BY ZenonT(40), <1>3, <1>9, EraseFacts
<1> HIDE DEF waiting, rest, x, range
<1>7. Elements(queue) \cap Elements(waiting) = {}
  BY <1>3, <1>4
<1>8. /\ queue' \in Seq(Blocks \ {Genesis}) /\ Distinct(queue') /\ x \in Elements(queue)
      /\ Elements(queue') = (Elements(queue) \ {x}) \cup Elements(waiting)
  BY ZenonT(40), <1>1, <1>2, <1>3, <1>4, <1>7, <1>r, QueueFacts
<1>10. x \in haveData /\ x \notin haveTxsDownloaded /\ pprev[x] \in haveTxsDownloaded
  BY Zenon, <1>8 DEF ChainInv, WaitingIsExact
<1>11. /\ nSequenceId' \in [Blocks -> Int]
       /\ \A c \in Blocks : c # x => nSequenceId'[c] = nSequenceId[c]
  <2>1. nSequenceId \in [Blocks -> Int]
    BY SMTT(40) DEF ChainInv, TypeOK
  <2> QED BY <2>1, <1>1, <1>9, SequenceIdType
<1>12. LinkEffect(t, x, range)
  BY Zenon, <1>1, <1>2, <1>4, <1>8, <1>9, <1>10, <1>11, <1>r DEF LinkEffect
<1> QED BY Zenon, <1>12

\* LinkBlock keeps the invariant.
LEMMA LinkBlockChain ==
  ASSUME ChainInv, NEW t \in Threads, LinkBlock(t)
  PROVE  ChainInv'
<1> USE DEF ChainInv
<1>0. PICK x, range : LinkEffect(t, x, range)
  BY Zenon, LinkBlockFacts
<1>1. /\ pc[t] = "link" /\ queue # <<>>
      /\ x \in Elements(queue) /\ x \in Blocks \ {Genesis} /\ x \in haveData
      /\ x \notin haveTxsDownloaded /\ pprev[x] \in haveTxsDownloaded
      /\ haveTxsDownloaded' = haveTxsDownloaded \cup {x}
      /\ nSequenceId' \in [Blocks -> Int]
      /\ \A c \in Blocks : c # x => nSequenceId'[c] = nSequenceId[c]
      /\ setBlockIndexCandidates' = setBlockIndexCandidates \cup {c \in {x} : ~Worse(c, tip, nSequenceId')}
      /\ queue' \in Seq(Blocks \ {Genesis}) /\ Distinct(queue')
      /\ Elements(queue') = (Elements(queue) \ {x}) \cup (Values(m_blocks_unlinked) \cap range)
      /\ m_blocks_unlinked' \in [Blocks -> Seq(Blocks \ {Genesis})] /\ ByParent(m_blocks_unlinked')
      /\ Values(m_blocks_unlinked') = Values(m_blocks_unlinked) \ range
      /\ pc' = [pc EXCEPT ![t] = IF queue' = <<>> THEN "activate" ELSE "link"]
      /\ UNCHANGED <<m_block_index, validity, haveData, flags, tip, precious, local, commands, shutdown>>
  BY ZenonT(40), <1>0 DEF LinkEffect
<1>2. \A c \in Blocks \ {Genesis} : c \in range <=> pprev[c] = x
  BY ZenonT(40), <1>0 DEF LinkEffect
<1>3. TypeOK'
  BY ZenonT(40), <1>1 DEF TypeOK, flags, precious
<1>4. \A u \in Threads : pc'[u] = IF u = t THEN (IF queue' = <<>> THEN "activate" ELSE "link") ELSE pc[u]
  BY ZenonT(40), <1>1 DEF TypeOK
<1>5. LocksExclude'
  BY SMTT(40), <1>1, <1>4 DEF LocksExclude, Owning, HoldingCsMain
<1>6. IndexIsATree'
  <2>1. Path[x] \subseteq haveTxsDownloaded'
    <3>1. x \in Blocks /\ x # Genesis /\ Path[pprev[x]] \subseteq haveTxsDownloaded
      BY ZenonT(40), <1>1 DEF IndexIsATree
    <3>2. Path[x] = {x} \cup Path[pprev[x]]
      BY SMTT(40), <3>1, ParentFacts
    <3> QED BY Zenon, <1>1, <3>1, <3>2
  <2> QED BY Zenon, <1>1, <2>1 DEF IndexIsATree, TypeOK, VALID_TRANSACTIONS
<1>7. WaitingIsExact'
  <2>1. Values(m_blocks_unlinked) \subseteq Blocks \ {Genesis}
    BY Zenon, ValuesType DEF TypeOK
  <2>2. ASSUME NEW c \in Values(m_blocks_unlinked')
        PROVE  c \in haveData' /\ c \notin haveTxsDownloaded' /\ pprev[c] \notin haveTxsDownloaded'
    <3>1. c \in Values(m_blocks_unlinked) /\ pprev[c] # x /\ c # x
      BY Zenon, <1>1, <1>2, <2>1 DEF WaitingIsExact
    <3> QED BY Zenon, <3>1, <1>1 DEF WaitingIsExact
  <2>3. ASSUME NEW c \in Elements(queue')
        PROVE  /\ c \in haveData' /\ c \notin haveTxsDownloaded' /\ pprev[c] \in haveTxsDownloaded'
               /\ c \notin Values(m_blocks_unlinked')
    <3>1. CASE c \in Elements(queue) /\ c # x
      BY Zenon, <3>1, <1>1 DEF WaitingIsExact
    <3>2. CASE c \in Values(m_blocks_unlinked) /\ c \in range
      BY Zenon, <3>2, <1>1, <1>2, <2>1 DEF WaitingIsExact
    <3> QED BY Zenon, <1>1, <3>1, <3>2
  <2> QED BY Zenon, <1>1, <2>2, <2>3 DEF WaitingIsExact
<1>8. FailuresSpread
  BY Zenon, <1>1, NoNewFailures DEF flags
<1>9. ActiveChainIsValid'
  BY Zenon, <1>1, <1>8, ChainStays
<1>10. TargetIsSound'
  BY SMTT(40), <1>1, <1>4, <1>8, TargetStays
<1>11. InvalidationIsSound'
  BY SMTT(40), <1>1, <1>4, InvalidationStays
<1>12. CandidatesNotWorse'
  <2>1. tip \in haveTxsDownloaded /\ tip # x
    BY ZenonT(40), <1>1, PathType DEF ActiveChainIsValid, TypeOK
  <2>2. ASSUME NEW c \in setBlockIndexCandidates PROVE ~Worse(c, tip, nSequenceId')
    <3>1. c \in Blocks /\ c # x /\ tip \in Blocks
      BY ZenonT(40), <1>1 DEF TypeOK
    <3> QED BY ZenonT(40), <3>1, <2>1, <1>1 DEF CandidatesNotWorse, Worse
  <2> QED BY ZenonT(40), <1>1, <2>2 DEF CandidatesNotWorse
<1> QED BY <1>3, <1>5, <1>6, <1>7, <1>9, <1>10, <1>11, <1>12

-----------------------------------------------------------------------------
(* ActivateBestChain.                                                      *)

\* A step of one thread keeps the locks, if it takes only free ones.
LEMMA LocksStay ==
  ASSUME TypeOK, LocksExclude, NEW t \in Threads, NEW to, pc' = [pc EXCEPT ![t] = to],
         UNCHANGED queue, pc[t] # "link", to # "link",
         to \in Owning => \A u \in Threads : u # t => pc[u] \notin Owning,
         to \in HoldingCsMain => \A u \in Threads : u # t => pc[u] \notin HoldingCsMain,
         to \in Owning \/ pc[t] \notin Owning \/ local' = NoLocal,
         pc[t] \in Owning \/ to \in Owning \/ UNCHANGED local
  PROVE  LocksExclude'
<1>1. \A u \in Threads : pc'[u] = IF u = t THEN to ELSE pc[u]
  BY Zenon DEF TypeOK
<1> QED BY <1>1 DEF LocksExclude

\* There is one owner of m_chainstate_mutex.
LEMMA OneOwner ==
  ASSUME TypeOK, LocksExclude, NEW t \in Threads, pc[t] \in Owning, NEW to, pc' = [pc EXCEPT ![t] = to]
  PROVE  /\ \A u \in Threads : u # t => pc[u] \notin Owning /\ pc'[u] \notin Owning
         /\ pc'[t] = to
BY DEF TypeOK, LocksExclude

\* There is one owner of cs_main.
LEMMA OneHolder ==
  ASSUME LocksExclude, NEW t \in Threads, pc[t] \in {"find", "connect"}
  PROVE  /\ \A u \in Threads : u # t => pc[u] \notin HoldingCsMain
         /\ pc[t] \in Owning /\ pc[t] # "link" /\ queue = <<>>
BY Zenon DEF LocksExclude, HoldingCsMain, Owning

\* What may be the target of a thread in ActivateBestChain.
TargetFits(m, to) ==
    /\ m # NoBlock => Sound(m) /\ tip \in Path[m]
    /\ to = "connect" => m # NoBlock /\ tip # m

\* The target of the only owner decides.
LEMMA TargetOfOwner ==
  ASSUME NEW t \in Threads, \A u \in Threads : u # t => pc'[u] \notin Owning,
         pc'[t] \in {"find", "connect", "release"} => TargetFits(local.pindexMostWork, pc[t])'
  PROVE  TargetIsSound'
BY Zenon DEF TargetIsSound, TargetFits, Owning

\* No other thread is in invalidateblock.
LEMMA NoInvalidation ==
  ASSUME NEW t \in Threads, \A u \in Threads : u # t => pc'[u] \notin Owning, pc'[t] # "invalidate"
  PROVE  InvalidationIsSound'
BY DEF InvalidationIsSound, Owning

\* The end of a section: the thread releases cs_main or returns.
LEMMA EndSectionFacts ==
  ASSUME TypeOK, NEW t \in Threads, NEW l, NEW newTip, EndSection(t, l, newTip)
  PROVE  \/ /\ pc' = [pc EXCEPT ![t] = "idle"] /\ local' = NoLocal
            /\ ~l.blocks_connected \/ shutdown \/ newTip = l.pindexMostWork
         \/ /\ pc' = [pc EXCEPT ![t] = "release"] /\ local' = [l EXCEPT !.blocks_connected = FALSE]
            /\ l.blocks_connected /\ ~shutdown /\ newTip # l.pindexMostWork
BY Zenon DEF EndSection

\* What is in the locals is of its type.
LocalType ==
    [pindexMostWork : Blocks \cup {NoBlock}, pindexNewTip : Blocks \cup {NoBlock},
     starting_tip : Blocks \cup {NoBlock}, pindexOldTip : Blocks \cup {NoBlock},
     blocks_connected : BOOLEAN, pindex : Blocks \cup {NoBlock},
     to_mark_failed : Blocks \cup {NoBlock}, candidate_blocks : SUBSET Blocks]

\* Empty locals are of it.
LEMMA NoLocalType == NoLocal \in LocalType
BY Zenon DEF NoLocal, LocalType

\* ActivateBestChain takes both locks and begins with no target.
LEMMA ActivateBestChainChain ==
  ASSUME ChainInv, NEW t \in Threads, ActivateBestChain(t)
  PROVE  ChainInv' /\ FailuresSpread
<1> USE DEF ChainInv
<1>1. /\ MutexFree /\ CsMainFree /\ pc[t] = "activate" /\ pc' = [pc EXCEPT ![t] = "find"]
      /\ local' = [local EXCEPT !.starting_tip = tip]
      /\ UNCHANGED <<index, flags, nSequenceId, setBlockIndexCandidates, tip, precious, commands, shutdown>>
  BY DEF ActivateBestChain, Step
<1>2. UNCHANGED <<m_block_index, validity, haveData, haveTxsDownloaded, m_blocks_unlinked, queue>>
  BY <1>1 DEF index
<1>3. /\ \A u \in Threads : pc[u] \notin Owning /\ pc[u] \notin HoldingCsMain
      /\ \A u \in Threads : pc'[u] = IF u = t THEN "find" ELSE pc[u]
  BY Zenon, <1>1 DEF MutexFree, CsMainFree, Owning, HoldingCsMain, TypeOK
<1>4. TypeOK'
  BY Zenon, <1>1, <1>2 DEF TypeOK, flags, precious, Owning
<1>5. LocksExclude'
  <2>1. pc[t] # "link" /\ "find" # "link" /\ "find" \in Owning
    BY <1>1 DEF Owning
  <2> QED BY ZenonT(40), <1>1, <1>2, <1>3, <2>1, LocksStay
<1>6. IndexIsATree' /\ WaitingIsExact'
  BY <1>1, IndexStays
<1>7. FailuresSpread
  BY <1>1, NoNewFailures DEF flags
<1>8. ActiveChainIsValid'
  BY <1>1, <1>2, <1>7, ChainStays
<1>9. local' .pindexMostWork = NoBlock
  <2>1. local = NoLocal
    BY <1>3 DEF LocksExclude
  <2> QED BY Zenon, <1>1, <2>1 DEF NoLocal
<1>10. TargetIsSound'
  BY <1>3, <1>9, TargetOfOwner DEF TargetFits
<1>11. InvalidationIsSound'
  BY <1>3, NoInvalidation
<1>12. CandidatesNotWorse'
  BY <1>1, CandidatesStay
<1> QED BY <1>4, <1>5, <1>6, <1>7, <1>8, <1>10, <1>11, <1>12

\* The next section goes on with the target it has.
LEMMA NextSectionChain ==
  ASSUME ChainInv, NEW t \in Threads, NextSection(t)
  PROVE  ChainInv' /\ FailuresSpread
<1> USE DEF ChainInv
<1>1. /\ CsMainFree /\ pc[t] = "release" /\ pc' = [pc EXCEPT ![t] = "find"]
      /\ local' = [local EXCEPT !.starting_tip = tip]
      /\ UNCHANGED <<index, flags, nSequenceId, setBlockIndexCandidates, tip, precious, commands, shutdown>>
  BY DEF NextSection, Step
<1>2. UNCHANGED <<m_block_index, validity, haveData, haveTxsDownloaded, m_blocks_unlinked, queue>>
  BY <1>1 DEF index
<1>3. /\ \A u \in Threads : pc[u] \notin HoldingCsMain
      /\ \A u \in Threads : u # t => pc[u] \notin Owning
      /\ \A u \in Threads : pc'[u] = IF u = t THEN "find" ELSE pc[u]
  BY <1>1 DEF CsMainFree, Owning, HoldingCsMain, TypeOK, LocksExclude
<1>4. TypeOK'
  BY Zenon, <1>1, <1>2 DEF TypeOK, flags, precious, Owning
<1>5. LocksExclude'
  <2>1. pc[t] # "link" /\ "find" # "link" /\ "find" \in Owning
    BY <1>1 DEF Owning
  <2> QED BY Zenon, <1>1, <1>2, <1>3, <2>1, LocksStay
<1>6. IndexIsATree' /\ WaitingIsExact'
  BY <1>1, IndexStays
<1>7. FailuresSpread
  BY <1>1, NoNewFailures DEF flags
<1>8. ActiveChainIsValid'
  BY Zenon, <1>1, <1>2, <1>7, ChainStays
<1>9. local'.pindexMostWork = local.pindexMostWork
  BY <1>1 DEF TypeOK
<1>10. TargetIsSound'
  BY <1>1, <1>2, <1>3, <1>7, <1>9, TargetStays
<1>11. InvalidationIsSound'
  BY <1>3, NoInvalidation
<1>12. CandidatesNotWorse'
  BY <1>1, CandidatesStay
<1> QED BY <1>4, <1>5, <1>6, <1>7, <1>8, <1>10, <1>11, <1>12

\* FindMostWorkChain begins with the best candidate.
LEMMA BestCandidateFacts ==
  ASSUME TypeOK, setBlockIndexCandidates # {}
  PROVE  /\ BestCandidate \in setBlockIndexCandidates
         /\ \A c \in setBlockIndexCandidates \ {BestCandidate} : Worse(c, BestCandidate, nSequenceId)
<1>1. nSequenceId \in [Blocks -> Int] /\ setBlockIndexCandidates \in SUBSET Blocks
  BY Zenon DEF TypeOK
<1>2. \E b \in setBlockIndexCandidates :
         \A c \in setBlockIndexCandidates \ {b} : Worse(c, b, nSequenceId)
  BY <1>1, BestExists
<1> QED BY Zenon, <1>2 DEF BestCandidate

\* A chain is discarded: what is marked has a failed ancestor.
LEMMA DiscardFailedChainChain ==
  ASSUME ChainInv, NEW t \in Threads, DiscardFailedChain(t)
  PROVE  /\ ChainInv' /\ FailuresSpread
         /\ \A c \in setBlockIndexCandidates \ setBlockIndexCandidates' : IsFailed(c)'
<1> USE DEF ChainInv
<1> DEFINE best == BestCandidate
<1>1. /\ pc[t] = "find" /\ setBlockIndexCandidates # {}
      /\ UNCHANGED <<index, failedValid, m_failed_blocks, nSequenceId, tip, precious, pc, local, commands, shutdown>>
  BY SMTT(40) DEF DiscardFailedChain
<1>2. PICK f \in FailedOn(best) :
         /\ failedChild' = failedChild \cup (Path[best] \ Path[f])
         /\ setBlockIndexCandidates' = setBlockIndexCandidates \ ((Path[best] \ Path[f]) \cup {f})
  BY SMTT(40) DEF DiscardFailedChain
<1>3. best \in Blocks /\ best \in haveTxsDownloaded /\ Path[best] \subseteq haveTxsDownloaded
  BY Zenon, <1>1, BestCandidateFacts DEF TypeOK, IndexIsATree
<1> HIDE DEF best
<1>4. f \in Path[best] /\ IsFailed(f)
  BY Zenon, <1>2 DEF FailedOn
<1>5. UNCHANGED <<m_block_index, validity, haveData, haveTxsDownloaded, m_blocks_unlinked, queue>>
  BY SMTT(40), <1>1 DEF index
<1>6. TypeOK'
  BY ZenonT(40), <1>1, <1>2, <1>3, <1>5 DEF TypeOK, precious
<1>7. LocksExclude'
  BY Zenon, <1>1, <1>5 DEF LocksExclude
<1>8. IndexIsATree' /\ WaitingIsExact'
  BY ZenonT(40), <1>1, IndexStays
<1>9. FailuresSpread
  <2>1. ASSUME NEW c \in haveTxsDownloaded, IsFailed(c)', ~IsFailed(c) PROVE f \in Path[c]
    <3>1. c \in Path[best] /\ c \notin Path[f]
      BY Zenon, <1>1, <1>2, <2>1 DEF IsFailed
    <3> QED BY Zenon, <3>1, <1>3, <1>4, PathLinear
  <2>2. ASSUME NEW c \in haveTxsDownloaded PROVE c \in Path[c]
    BY Zenon, PathType DEF TypeOK
  <2> QED BY <2>1, <2>2, <1>4 DEF FailuresSpread
<1>10. ActiveChainIsValid'
  BY Zenon, <1>1, <1>5, <1>9, ChainStays
<1>11. TargetIsSound'
  BY <1>1, <1>5, <1>9, TargetStays
<1>12. InvalidationIsSound'
  BY Zenon, <1>1, <1>5, InvalidationStays
<1>13. CandidatesNotWorse'
  BY Zenon, <1>1, <1>2, CandidatesStay
<1>14. ASSUME NEW c \in setBlockIndexCandidates \ setBlockIndexCandidates' PROVE IsFailed(c)'
  BY Zenon, <1>1, <1>2, <1>4 DEF IsFailed
<1> QED BY ZenonT(40), <1>6, <1>7, <1>8, <1>9, <1>10, <1>11, <1>12, <1>13, <1>14

\* Where FindMostWorkChain leads is sound.
LEMMA MostWorkIsSound ==
  ASSUME ChainInv, NEW t \in Threads, FindMostWorkChain(t), MostWork # NoBlock
  PROVE  MostWork \in Blocks /\ Sound(MostWork)
<1> USE DEF ChainInv
<1>1. pc[t] = "find" /\ (local.pindexMostWork = NoBlock => FailedOn(MostWork) = {})
  BY SMTT(40) DEF FindMostWorkChain
<1>2. CASE local.pindexMostWork # NoBlock
  BY Zenon, <1>1, <1>2 DEF MostWork, TypeOK, TargetIsSound
<1>3. CASE local.pindexMostWork = NoBlock
  <2>1. MostWork = BestCandidate /\ setBlockIndexCandidates # {}
    BY SMTT(40), <1>3 DEF MostWork
  <2>2. MostWork \in haveTxsDownloaded /\ MostWork \in Blocks
    BY Zenon, <2>1, BestCandidateFacts DEF TypeOK
  <2>3. Path[MostWork] \subseteq haveTxsDownloaded
    BY <2>2 DEF IndexIsATree
  <2>4. \A c \in Path[MostWork] : ~IsFailed(c)
    BY <1>1, <1>3 DEF FailedOn, ActiveChainIsValid
  <2> QED BY <2>2, <2>3, <2>4 DEF Sound
<1> QED BY <1>2, <1>3

\* LeaveLoop keeps the invariant.
LEMMA LeaveLoopChain ==
  ASSUME ChainInv, NEW t \in Threads, LeaveLoop(t)
  PROVE  ChainInv' /\ FailuresSpread
<1> USE DEF ChainInv
<1> DEFINE l == [local EXCEPT !.pindexMostWork = MostWork]
<1>1. /\ FindMostWorkChain(t) /\ MostWork \in {NoBlock, tip} /\ pc[t] = "find"
      /\ EndSection(t, l, local.pindexNewTip)
      /\ UNCHANGED <<index, flags, nSequenceId, setBlockIndexCandidates, tip, precious, commands, shutdown>>
  BY DEF LeaveLoop, FindMostWorkChain
<1>2. UNCHANGED <<m_block_index, validity, haveData, haveTxsDownloaded, m_blocks_unlinked, queue>>
  BY ZenonT(40), <1>1 DEF index
<1>3. tip \in Blocks /\ local \in LocalType
  BY DEF TypeOK, LocalType
<1>4. l \in LocalType /\ l.pindexMostWork = MostWork
  BY <1>1, <1>3 DEF LocalType
<1> HIDE DEF l
<1>5. PICK to \in {"idle", "release"} :
        /\ pc' = [pc EXCEPT ![t] = to]
        /\ to = "idle" => local' = NoLocal
        /\ to = "release" => local' = [l EXCEPT !.blocks_connected = FALSE]
  BY <1>1, EndSectionFacts
<1>6. local' \in LocalType
  BY Zenon, <1>4, <1>5, NoLocalType DEF LocalType
<1>7. TypeOK'
  BY Zenon, <1>1, <1>2, <1>5, <1>6 DEF TypeOK, LocalType, flags, precious, Owning
<1>8. /\ pc[t] \in Owning /\ pc[t] # "link" /\ to # "link" /\ to \notin HoldingCsMain
      /\ to \in Owning \/ local' = NoLocal
  BY <1>1, <1>5 DEF Owning, HoldingCsMain
<1>9. /\ \A u \in Threads : u # t => pc[u] \notin Owning /\ pc'[u] \notin Owning
      /\ pc'[t] = to
  BY Zenon, <1>5, <1>8, OneOwner
<1>10. LocksExclude'
  BY Zenon, <1>2, <1>5, <1>8, <1>9, LocksStay
<1>11. IndexIsATree' /\ WaitingIsExact'
  BY Zenon, <1>1, IndexStays
<1>12. FailuresSpread
  BY Zenon, <1>1, NoNewFailures DEF flags
<1>13. ActiveChainIsValid'
  BY ZenonT(40), <1>1, <1>2, <1>12, ChainStays
<1>14. TargetIsSound'
  <2>1. ASSUME pc'[t] \in {"find", "connect", "release"} PROVE TargetFits(local.pindexMostWork, pc[t])'
    <3>1. local'.pindexMostWork = MostWork /\ to = "release"
      BY ZenonT(40), <2>1, <1>4, <1>5, <1>9 DEF LocalType
    <3>2. MostWork # NoBlock => MostWork = tip' /\ tip' \in Path[tip'] /\ Sound(tip)'
      BY <1>1, <1>3, <1>13, PathType DEF Sound, ActiveChainIsValid
    <3> QED BY Zenon, <3>1, <3>2, <1>9 DEF TargetFits, Sound
  <2> QED BY Zenon, <2>1, <1>9, TargetOfOwner
<1>15. InvalidationIsSound'
  BY Zenon, <1>5, <1>9, NoInvalidation
<1>16. CandidatesNotWorse'
  BY <1>1, CandidatesStay
<1> QED BY <1>7, <1>10, <1>11, <1>12, <1>13, <1>14, <1>15, <1>16

\* Down to the fork: a part of a valid chain.
LEMMA ActivateBestChainStepChain ==
  ASSUME ChainInv, NEW t \in Threads, ActivateBestChainStep(t)
  PROVE  ChainInv' /\ FailuresSpread
<1> USE DEF ChainInv
<1> DEFINE m == MostWork
<1>1. /\ FindMostWorkChain(t) /\ m # NoBlock /\ m # tip /\ pc[t] = "find"
      /\ pc' = [pc EXCEPT ![t] = "connect"] /\ tip' = FindFork(tip, m)
      /\ local' = [local EXCEPT !.pindexMostWork = m, !.pindexOldTip = tip]
      /\ UNCHANGED <<index, flags, nSequenceId, setBlockIndexCandidates, precious, commands, shutdown>>
  BY DEF ActivateBestChainStep, FindMostWorkChain
<1>2. UNCHANGED <<m_block_index, validity, haveData, haveTxsDownloaded, m_blocks_unlinked, queue>>
  BY <1>1 DEF index
<1>3. tip \in Blocks /\ m \in Blocks /\ Sound(m) /\ local \in LocalType
  BY <1>1, MostWorkIsSound DEF TypeOK, LocalType
<1>4. tip' \in Path[tip] /\ tip' \in Path[m] /\ tip' \in Blocks /\ Path[tip] \cap Path[m] = Path[tip']
  BY Zenon, <1>1, <1>3, ForkFacts, PathType
<1>5. tip' # m
  <2>1. SUFFICES ASSUME tip' = m PROVE FALSE
    OBVIOUS
  <2>2. m \in Path[tip] /\ Worse(m, tip, nSequenceId)
    BY <1>1, <1>3, <1>4, <2>1, AncestorIsWorse
  <2>3. CASE local.pindexMostWork = NoBlock
    <3>1. m \in setBlockIndexCandidates
      BY <1>1, <2>3, BestCandidateFacts DEF MostWork
    <3> QED BY <3>1, <2>2 DEF CandidatesNotWorse
  <2>4. CASE local.pindexMostWork # NoBlock
    <3>1. tip \in Path[m]
      BY <1>1, <2>4 DEF MostWork, TargetIsSound
    <3>2. nChainWork[tip] < nChainWork[m] /\ nChainWork[m] < nChainWork[tip]
      BY ZenonT(40), <3>1, <1>1, <1>3, <2>2, PathWork
    <3>3. nChainWork[tip] \in Nat /\ nChainWork[m] \in Nat
      BY <1>3, TreeAssumption
    <3> QED BY <3>2, <3>3
  <2> QED BY <2>3, <2>4
<1> HIDE DEF m
<1>6. local' \in LocalType /\ local'.pindexMostWork = m
  BY Zenon, <1>1, <1>3 DEF LocalType
<1>7. TypeOK'
  BY Zenon, <1>1, <1>2, <1>4, <1>6 DEF TypeOK, LocalType, flags, precious, Owning
<1>8. /\ pc[t] \in Owning /\ pc[t] # "link" /\ "connect" # "link" /\ "connect" \in Owning
      /\ \A u \in Threads : u # t => pc[u] \notin HoldingCsMain
  BY <1>1, OneHolder DEF Owning
<1>9. /\ \A u \in Threads : u # t => pc[u] \notin Owning /\ pc'[u] \notin Owning
      /\ pc'[t] = "connect"
  BY Zenon, <1>1, <1>8, OneOwner
<1>10. LocksExclude'
  BY Zenon, <1>1, <1>2, <1>8, <1>9, LocksStay
<1>11. IndexIsATree' /\ WaitingIsExact'
  BY <1>1, IndexStays
<1>12. FailuresSpread
  BY <1>1, NoNewFailures DEF flags
<1>13. ActiveChainIsValid'
  <2>1. Path[tip'] \subseteq Path[tip]
    BY Zenon, <1>4
  <2> QED BY <2>1, <1>1, <1>2 DEF ActiveChainIsValid, IsFailed, flags
<1>14. TargetIsSound'
  <2>1. \A c \in Path[m] : ~IsFailed(c)' /\ c \in haveTxsDownloaded'
    BY Zenon, <1>2, <1>3, <1>12, SoundStays DEF Sound
  <2>2. TargetFits(local.pindexMostWork, pc[t])'
    BY Zenon, <2>1, <1>1, <1>4, <1>5, <1>6 DEF TargetFits, Sound
  <2> QED BY Zenon, <2>2, <1>9, TargetOfOwner
<1>15. InvalidationIsSound'
  BY <1>9, NoInvalidation
<1>16. CandidatesNotWorse'
  <2>1. ASSUME NEW c \in setBlockIndexCandidates PROVE ~Worse(c, tip', nSequenceId)
    <3>1. c \in Blocks /\ nSequenceId \in [Blocks -> Int] /\ ~Worse(c, tip, nSequenceId)
      BY Zenon DEF TypeOK, CandidatesNotWorse
    <3>2. tip' = tip \/ Worse(tip', tip, nSequenceId)
      BY ZenonT(40), <1>3, <1>4, AncestorIsWorse
    <3>3. ~Worse(tip, tip', nSequenceId)
      BY SMTT(40), <3>1, <3>2, <1>3, <1>4, WorseIsAnOrder
    <3> QED BY Zenon, <3>1, <3>3, <1>3, <1>4, WorseIsAnOrder
  <2> QED BY Zenon, <2>1, <1>1 DEF CandidatesNotWorse, Worse
<1> QED BY <1>7, <1>10, <1>11, <1>12, <1>13, <1>14, <1>15, <1>16

-----------------------------------------------------------------------------
\* The next block on the way to the target.
LEMMA NextToConnectFacts ==
  ASSUME ChainInv, NEW t \in Threads, pc[t] = "connect"
  PROVE  /\ local.pindexMostWork \in Blocks /\ Sound(local.pindexMostWork)
         /\ tip \in Path[local.pindexMostWork]
         /\ NextToConnect \in Path[local.pindexMostWork] /\ NextToConnect \in Blocks \ {Genesis}
         /\ pprev[NextToConnect] = tip /\ Path[NextToConnect] = {NextToConnect} \cup Path[tip]
         /\ NextToConnect \notin Path[tip]
         /\ ~IsFailed(NextToConnect) /\ NextToConnect \in haveTxsDownloaded
<1> USE DEF ChainInv
<1>1. /\ local.pindexMostWork # NoBlock /\ tip # local.pindexMostWork
      /\ Sound(local.pindexMostWork) /\ tip \in Path[local.pindexMostWork]
  BY ZenonT(40) DEF TargetIsSound
<1>2. local.pindexMostWork \in Blocks
  BY Zenon, <1>1 DEF TypeOK
<1>3. \E b \in Path[local.pindexMostWork] : b # Genesis /\ pprev[b] = tip
  BY <1>1, <1>2, NextExists
<1>4. /\ NextToConnect \in Path[local.pindexMostWork]
      /\ NextToConnect # Genesis /\ pprev[NextToConnect] = tip
  BY Zenon, <1>3 DEF NextToConnect
<1>5. NextToConnect \in Blocks
  BY ZenonT(40), <1>2, <1>4, PathType
<1>6. Path[NextToConnect] = {NextToConnect} \cup Path[tip] /\ NextToConnect \notin Path[tip]
  BY SMTT(40), <1>4, <1>5, ParentFacts
<1> QED BY ZenonT(40), <1>1, <1>2, <1>4, <1>5, <1>6 DEF Sound

\* After a step the thread stays in its section, or ends it.
LEMMA AfterStepFacts ==
  ASSUME TypeOK, NEW t \in Threads, NEW newTip \in Blocks, NEW mostWork \in Blocks \cup {NoBlock},
         AfterStep(t, newTip, mostWork)
  PROVE  \E to \in {"find", "release", "idle"} :
            /\ pc' = [pc EXCEPT ![t] = to] /\ local' \in LocalType
            /\ to = "find" <=> Worse(newTip, local.starting_tip, nSequenceId)
            /\ to = "idle" => local' = NoLocal /\ (shutdown \/ newTip = mostWork)
            /\ to # "idle" => /\ local'.pindexMostWork = mostWork
                              /\ local'.starting_tip = local.starting_tip
                              /\ local'.pindexNewTip = newTip
            /\ to = "release" => ~local'.blocks_connected /\ ~shutdown /\ newTip # mostWork
<1> DEFINE l == [local EXCEPT !.pindexNewTip = newTip, !.blocks_connected = TRUE,
                              !.pindexMostWork = mostWork, !.pindexOldTip = NoBlock]
<1>1. local \in LocalType
  BY DEF TypeOK, LocalType
<1>2. /\ l \in LocalType /\ l.pindexMostWork = mostWork /\ l.starting_tip = local.starting_tip
      /\ l.pindexNewTip = newTip /\ l.blocks_connected
  BY Zenon, <1>1 DEF LocalType
<1>3. IF Worse(newTip, local.starting_tip, nSequenceId)
      THEN pc' = [pc EXCEPT ![t] = "find"] /\ local' = l
      ELSE EndSection(t, l, newTip)
  BY Zenon DEF AfterStep
<1> HIDE DEF l
<1>4. CASE Worse(newTip, local.starting_tip, nSequenceId)
  BY <1>2, <1>3, <1>4
<1>5. CASE ~Worse(newTip, local.starting_tip, nSequenceId)
  <2>1. EndSection(t, l, newTip)
    BY ZenonT(40), <1>3, <1>5
  <2>2. CASE /\ pc' = [pc EXCEPT ![t] = "idle"] /\ local' = NoLocal
             /\ ~l.blocks_connected \/ shutdown \/ newTip = l.pindexMostWork
    BY <1>2, <1>5, <2>2, NoLocalType
  <2>3. CASE /\ pc' = [pc EXCEPT ![t] = "release"] /\ local' = [l EXCEPT !.blocks_connected = FALSE]
             /\ l.blocks_connected /\ ~shutdown /\ newTip # l.pindexMostWork
    <3>1. /\ local' \in LocalType /\ local'.pindexMostWork = mostWork
          /\ local'.starting_tip = local.starting_tip /\ local'.pindexNewTip = newTip
          /\ ~local'.blocks_connected
      BY ZenonT(40), <1>2, <2>3 DEF LocalType
    <3> QED BY <3>1, <1>2, <1>5, <2>3
  <2> QED BY <2>1, <2>2, <2>3, EndSectionFacts
<1> QED BY Zenon, <1>4, <1>5

\* A step up: where the thread is after ConnectTip.
ConnectEffect(t, to) ==
    /\ pc' = [pc EXCEPT ![t] = to] /\ local' \in LocalType
    /\ to = "connect" => UNCHANGED local /\ tip' # local.pindexMostWork
    /\ to = "find" => Worse(tip', local.starting_tip, nSequenceId)
    /\ to \in {"release", "idle"} => ~Worse(tip', local.starting_tip, nSequenceId)
    /\ to = "idle" => local' = NoLocal /\ (shutdown \/ tip' = local.pindexMostWork)
    /\ to # "idle" => /\ local'.pindexMostWork = local.pindexMostWork
                      /\ local'.starting_tip = local.starting_tip
    /\ to = "find" => local'.pindexNewTip = tip'
    /\ to = "release" => ~local'.blocks_connected /\ ~shutdown /\ tip' # local.pindexMostWork

\* ConnectTip has one of these effects.
LEMMA ConnectTipFacts ==
  ASSUME ChainInv, NEW t \in Threads, ConnectTip(t)
  PROVE  \E to \in {"connect", "find", "release", "idle"} : ConnectEffect(t, to)
<1> USE DEF ChainInv
<1>1. pc[t] = "connect" /\ tip' = NextToConnect
  BY Zenon DEF ConnectTip
<1>2. tip' \in Blocks /\ local.pindexMostWork \in Blocks /\ local \in LocalType
  BY Zenon, <1>1, NextToConnectFacts DEF TypeOK, LocalType
<1>3. CASE tip' = local.pindexMostWork \/ nChainWork[tip'] > nChainWork[local.pindexOldTip]
  <2>1. AfterStep(t, tip', local.pindexMostWork)
    BY Zenon, <1>3 DEF ConnectTip
  <2> DEFINE n == tip'
             m == local.pindexMostWork
  <2>2. n \in Blocks /\ m \in Blocks \cup {NoBlock} /\ AfterStep(t, n, m)
    BY SMTT(40), <1>2, <2>1
  <2> HIDE DEF n, m
  <2>3. PICK to \in {"find", "release", "idle"} :
            /\ pc' = [pc EXCEPT ![t] = to] /\ local' \in LocalType
            /\ to = "find" <=> Worse(n, local.starting_tip, nSequenceId)
            /\ to = "idle" => local' = NoLocal /\ (shutdown \/ n = m)
            /\ to # "idle" => /\ local'.pindexMostWork = m
                              /\ local'.starting_tip = local.starting_tip
                              /\ local'.pindexNewTip = n
            /\ to = "release" => ~local'.blocks_connected /\ ~shutdown /\ n # m
    BY ZenonT(40), <2>2, AfterStepFacts
  <2>4. ConnectEffect(t, to)
    BY <2>3 DEF ConnectEffect, n, m
  <2> QED BY SMTT(40), <2>4
<1>4. CASE ~(tip' = local.pindexMostWork \/ nChainWork[tip'] > nChainWork[local.pindexOldTip])
  <2>1. UNCHANGED <<pc, local>>
    BY Zenon, <1>4 DEF ConnectTip
  <2>2. pc' = [pc EXCEPT ![t] = "connect"]
    BY SMTT(40), <1>1, <2>1 DEF TypeOK
  <2>3. ConnectEffect(t, "connect")
    BY ZenonT(40), <1>2, <1>4, <2>1, <2>2 DEF ConnectEffect
  <2> QED BY SMTT(40), <2>3
<1> QED BY <1>3, <1>4

\* ConnectTip keeps the invariant.
LEMMA ConnectTipChain ==
  ASSUME ChainInv, NEW t \in Threads, ConnectTip(t)
  PROVE  ChainInv' /\ FailuresSpread
<1> USE DEF ChainInv
<1> DEFINE n == NextToConnect
           m == local.pindexMostWork
<1>1. /\ pc[t] = "connect" /\ tip' = n
      /\ validity' = IF IsFailed(n) THEN validity ELSE [validity EXCEPT ![n] = VALID_SCRIPTS]
      /\ setBlockIndexCandidates' = {b \in setBlockIndexCandidates : ~Worse(b, n, nSequenceId)}
      /\ UNCHANGED <<m_block_index, haveData, haveTxsDownloaded, m_blocks_unlinked, queue, flags,
                     nSequenceId, precious, commands, shutdown>>
  BY Zenon DEF ConnectTip, PruneBlockIndexCandidates
<1>2. /\ m \in Blocks /\ Sound(m) /\ n \in Path[m] /\ n \in Blocks
      /\ Path[n] = {n} \cup Path[tip] /\ ~IsFailed(n) /\ n \in haveTxsDownloaded
  BY Zenon, <1>1, NextToConnectFacts
<1>3. PICK to \in {"connect", "find", "release", "idle"} : ConnectEffect(t, to)
  BY Zenon, ConnectTipFacts
<1> HIDE DEF n, m
<1>4. /\ validity' \in [Blocks -> 0..5] /\ validity'[n] = VALID_SCRIPTS
      /\ \A c \in Blocks : c # n => validity'[c] = validity[c]
  <2>1. validity \in [Blocks -> 0..5] /\ n \in Blocks
    BY Zenon, <1>2 DEF TypeOK
  <2>2. validity' = [validity EXCEPT ![n] = VALID_SCRIPTS]
    BY Zenon, <1>1, <1>2
  <2> QED BY <2>1, <2>2 DEF VALID_SCRIPTS
<1>5. local' \in LocalType /\ pc' = [pc EXCEPT ![t] = to]
  BY <1>3 DEF ConnectEffect
<1>6. TypeOK'
  BY ZenonT(40), <1>1, <1>2, <1>4, <1>5 DEF TypeOK, LocalType, flags, precious, Owning
<1>7. /\ pc[t] \in Owning /\ pc[t] # "link" /\ to # "link"
      /\ \A u \in Threads : u # t => pc[u] \notin HoldingCsMain
      /\ to \in Owning \/ local' = NoLocal
  BY Zenon, <1>1, <1>3, OneHolder DEF Owning, ConnectEffect
<1>8. /\ \A u \in Threads : u # t => pc[u] \notin Owning /\ pc'[u] \notin Owning
      /\ pc'[t] = to
  BY Zenon, <1>5, <1>7, OneOwner
<1>9. LocksExclude'
  BY Zenon, <1>1, <1>5, <1>7, <1>8, LocksStay
<1>10. IndexIsATree'
  <2>1. ASSUME NEW c \in haveData PROVE validity'[c] >= VALID_TRANSACTIONS
    <3>1. c \in Blocks
      BY SMTT(40) DEF TypeOK
    <3> QED BY <1>4, <3>1 DEF IndexIsATree, VALID_TRANSACTIONS, VALID_SCRIPTS
  <2> QED BY Zenon, <1>1, <2>1 DEF IndexIsATree
<1>11. WaitingIsExact'
  BY Zenon, <1>1 DEF WaitingIsExact
<1>12. FailuresSpread
  BY Zenon, <1>1, NoNewFailures DEF flags
<1>13. ActiveChainIsValid'
  <2>1. ASSUME NEW c \in Path[n] PROVE ~IsFailed(c)' /\ validity'[c] = VALID_SCRIPTS /\ c \in haveTxsDownloaded'
    <3>1. ~IsFailed(c)' <=> ~IsFailed(c)
      BY Zenon, <1>1 DEF IsFailed, flags
    <3>2. c \in Blocks
      BY ZenonT(40), <1>2, PathType
    <3> QED BY ZenonT(40), <3>1, <3>2, <1>1, <1>2, <1>4 DEF ActiveChainIsValid
  <2> QED BY SMTT(40), <2>1, <1>1 DEF ActiveChainIsValid
<1>14. TargetIsSound'
  <2>1. \A c \in Path[m] : ~IsFailed(c)' /\ c \in haveTxsDownloaded'
    BY ZenonT(40), <1>1, <1>2, <1>12, SoundStays DEF Sound
  <2>2. ASSUME pc'[t] \in {"find", "connect", "release"} PROVE TargetFits(local.pindexMostWork, pc[t])'
    <3>1. local'.pindexMostWork = m /\ (to = "connect" => tip' # m)
      BY ZenonT(40), <1>3, <1>8, <2>2 DEF ConnectEffect, m
    <3>2. m # NoBlock
      BY Zenon, <1>2, TreeAssumption
    <3> QED BY ZenonT(40), <2>1, <3>1, <3>2, <1>1, <1>2, <1>8 DEF TargetFits, Sound
  <2> QED BY SMTT(40), <2>2, <1>8, TargetOfOwner
<1>15. InvalidationIsSound'
  BY SMTT(40), <1>3, <1>8, NoInvalidation
<1>16. CandidatesNotWorse'
  BY Zenon, <1>1 DEF CandidatesNotWorse, Worse
<1> QED BY <1>6, <1>9, <1>10, <1>11, <1>12, <1>13, <1>14, <1>15, <1>16

\* The choice starts again: where the thread is after InvalidBlockFound.
FailEffect(t, to) ==
    /\ pc' = [pc EXCEPT ![t] = to] /\ local' \in LocalType
    /\ to = "find" <=> Worse(tip, local.starting_tip, nSequenceId)
    /\ to = "idle" => local' = NoLocal /\ shutdown
    /\ to # "idle" => /\ local'.pindexMostWork = NoBlock
                      /\ local'.starting_tip = local.starting_tip
                      /\ local'.pindexNewTip = tip
    /\ to = "release" => ~local'.blocks_connected

\* InvalidBlockFound has one of these effects.
LEMMA InvalidBlockFoundFacts ==
  ASSUME ChainInv, NEW t \in Threads, InvalidBlockFound(t)
  PROVE  \E to \in {"find", "release", "idle"} : FailEffect(t, to)
<1>1. AfterStep(t, tip, NoBlock) /\ tip \in Blocks /\ TypeOK /\ NoBlock \notin Blocks
  BY ZenonT(40), TreeAssumption DEF InvalidBlockFound, ChainInv, TypeOK
<1>2. PICK to \in {"find", "release", "idle"} :
          /\ pc' = [pc EXCEPT ![t] = to] /\ local' \in LocalType
          /\ to = "find" <=> Worse(tip, local.starting_tip, nSequenceId)
          /\ to = "idle" => local' = NoLocal /\ (shutdown \/ tip = NoBlock)
          /\ to # "idle" => /\ local'.pindexMostWork = NoBlock
                            /\ local'.starting_tip = local.starting_tip
                            /\ local'.pindexNewTip = tip
          /\ to = "release" => ~local'.blocks_connected /\ ~shutdown /\ tip # NoBlock
  BY ZenonT(40), <1>1, AfterStepFacts
<1>3. FailEffect(t, to)
  BY ZenonT(40), <1>1, <1>2 DEF FailEffect
<1> QED BY Zenon, <1>3

\* InvalidBlockFound keeps the invariant.
LEMMA InvalidBlockFoundChain ==
  ASSUME ChainInv, NEW t \in Threads, InvalidBlockFound(t)
  PROVE  ChainInv'
<1> USE DEF ChainInv
<1> DEFINE n == NextToConnect
<1>1. /\ pc[t] = "connect"
      /\ failedValid' = failedValid \cup {n} /\ m_failed_blocks' = m_failed_blocks \cup {n}
      /\ setBlockIndexCandidates' = setBlockIndexCandidates \ {n}
      /\ UNCHANGED <<index, failedChild, nSequenceId, tip, precious, commands, shutdown>>
  BY SMTT(40) DEF InvalidBlockFound
<1>2. n \in Blocks /\ n \notin Path[tip] /\ n \in haveTxsDownloaded
  BY Zenon, <1>1, NextToConnectFacts
<1>3. PICK to \in {"find", "release", "idle"} : FailEffect(t, to)
  BY Zenon, InvalidBlockFoundFacts
<1> HIDE DEF n
<1>4. UNCHANGED <<m_block_index, validity, haveData, haveTxsDownloaded, m_blocks_unlinked, queue>>
  BY SMTT(40), <1>1 DEF index
<1>5. local' \in LocalType /\ pc' = [pc EXCEPT ![t] = to]
  BY ZenonT(40), <1>3 DEF FailEffect
<1>6. TypeOK'
  BY ZenonT(40), <1>1, <1>2, <1>4, <1>5 DEF TypeOK, LocalType, precious, Owning
<1>7. /\ pc[t] \in Owning /\ pc[t] # "link" /\ to # "link"
      /\ \A u \in Threads : u # t => pc[u] \notin HoldingCsMain
      /\ to \in Owning \/ local' = NoLocal
  BY <1>1, <1>3, OneHolder DEF Owning, FailEffect
<1>8. /\ \A u \in Threads : u # t => pc[u] \notin Owning /\ pc'[u] \notin Owning
      /\ pc'[t] = to
  BY Zenon, <1>5, <1>7, OneOwner
<1>9. LocksExclude'
  BY ZenonT(40), <1>4, <1>5, <1>7, <1>8, LocksStay
<1>10. IndexIsATree' /\ WaitingIsExact'
  BY <1>1, IndexStays
<1>11. ActiveChainIsValid'
  BY Zenon, <1>1, <1>2, <1>4 DEF ActiveChainIsValid, IsFailed
<1>12. TargetIsSound'
  <2>1. ASSUME pc'[t] \in {"find", "connect", "release"} PROVE TargetFits(local.pindexMostWork, pc[t])'
    BY ZenonT(40), <2>1, <1>3, <1>8 DEF FailEffect, TargetFits
  <2> QED BY SMTT(40), <2>1, <1>8, TargetOfOwner
<1>13. InvalidationIsSound'
  BY Zenon, <1>3, <1>8, NoInvalidation
<1>14. CandidatesNotWorse'
  BY <1>1, CandidatesStay
<1> QED BY ZenonT(40), <1>6, <1>9, <1>10, <1>11, <1>12, <1>13, <1>14

-----------------------------------------------------------------------------
(* The commands and a restart.                                             *)

\* StartShutdown keeps the invariant.
LEMMA StartShutdownChain ==
  ASSUME ChainInv, StartShutdown
  PROVE  ChainInv' /\ FailuresSpread
<1> USE DEF ChainInv
<1>1. /\ shutdown' = TRUE
      /\ UNCHANGED <<index, flags, nSequenceId, setBlockIndexCandidates, tip, precious, pc, local>>
  BY DEF StartShutdown
<1>2. UNCHANGED <<m_block_index, validity, haveData, haveTxsDownloaded, m_blocks_unlinked, queue>>
  BY Zenon, <1>1 DEF index
<1>3. TypeOK'
  BY ZenonT(40), <1>1, <1>2 DEF TypeOK, flags, precious
<1>4. LocksExclude'
  BY Zenon, <1>1, <1>2 DEF LocksExclude
<1>5. IndexIsATree' /\ WaitingIsExact'
  BY <1>1, IndexStays
<1>6. FailuresSpread
  BY <1>1, NoNewFailures DEF flags
<1>7. ActiveChainIsValid'
  BY Zenon, <1>1, <1>2, <1>6, ChainStays
<1>8. TargetIsSound'
  BY <1>1, <1>2, <1>6, TargetStays
<1>9. InvalidationIsSound'
  BY <1>1, <1>2, InvalidationStays
<1>10. CandidatesNotWorse'
  BY ZenonT(40), <1>1, CandidatesStay
<1> QED BY ZenonT(40), <1>3, <1>4, <1>5, <1>6, <1>7, <1>8, <1>9, <1>10

\* A thread that is idle will call ActivateBestChain.
LEMMA WakesUp ==
  ASSUME TypeOK, LocksExclude, NEW t \in Threads, pc[t] = "idle", pc' = [pc EXCEPT ![t] = "activate"],
         UNCHANGED <<queue, local>>
  PROVE  /\ LocksExclude'
         /\ \A u \in Threads : pc'[u] = IF u = t THEN "activate" ELSE pc[u]
<1>1. /\ pc[t] # "link" /\ "activate" # "link" /\ "activate" \notin Owning
      /\ "activate" \notin HoldingCsMain /\ pc[t] \notin Owning
  BY DEF Owning, HoldingCsMain
<1>2. LocksExclude'
  BY ZenonT(40), <1>1, LocksStay
<1> QED BY <1>2 DEF TypeOK

\* PreciousBlock keeps the invariant.
LEMMA PreciousBlockChain ==
  ASSUME ChainInv, NEW t \in Threads, NEW b \in m_block_index, PreciousBlock(t, b)
  PROVE  ChainInv' /\ FailuresSpread
<1> USE DEF ChainInv
<1> DEFINE id == IF nChainWork[tip] > nLastPreciousChainwork THEN -1 ELSE nBlockReverseSequenceId
           good == IsValid(b, VALID_TRANSACTIONS) /\ b \in haveTxsDownloaded
<1>1. /\ pc[t] = "idle" /\ pc' = [pc EXCEPT ![t] = "activate"]
      /\ nLastPreciousChainwork' = nChainWork[tip]
      /\ nSequenceId' = [nSequenceId EXCEPT ![b] = id]
      /\ nBlockReverseSequenceId' = IF id > MinSequenceId THEN id - 1 ELSE id
      /\ setBlockIndexCandidates' =
             IF good THEN {c \in setBlockIndexCandidates \cup {b} : ~Worse(c, tip, nSequenceId')}
             ELSE setBlockIndexCandidates \ {b}
      /\ UNCHANGED <<index, flags, tip, local, shutdown>>
  BY Zenon DEF PreciousBlock, Step, PruneBlockIndexCandidates
<1>2. UNCHANGED <<m_block_index, validity, haveData, haveTxsDownloaded, m_blocks_unlinked, queue>>
  BY Zenon, <1>1 DEF index
<1>3. /\ b \in Blocks /\ id \in Int /\ nSequenceId' \in [Blocks -> Int] /\ tip \in Blocks
      /\ \A c \in Blocks : c # b => nSequenceId'[c] = nSequenceId[c]
      /\ nBlockReverseSequenceId' \in Int /\ nLastPreciousChainwork' \in Nat
  <2>1. b \in Blocks /\ id \in Int /\ tip \in Blocks
    <3>1. b \in Blocks /\ tip \in Blocks /\ nBlockReverseSequenceId \in Int
      BY Zenon DEF TypeOK
    <3> QED BY <3>1
  <2> HIDE DEF id
  <2>2. nSequenceId' \in [Blocks -> Int] /\ \A c \in Blocks : c # b => nSequenceId'[c] = nSequenceId[c]
    BY Zenon, <1>1, <2>1 DEF TypeOK
  <2>3. nBlockReverseSequenceId' \in Int /\ nLastPreciousChainwork' \in Nat
    <3>1. /\ nLastPreciousChainwork' = nChainWork[tip]
          /\ nBlockReverseSequenceId' = IF id > MinSequenceId THEN id - 1 ELSE id
      BY Zenon, <1>1
    <3>2. nChainWork[tip] \in Nat /\ MinSequenceId \in Int
      BY Zenon, <2>1, TreeAssumption
    <3> QED BY <2>1, <3>1, <3>2
  <2> QED BY <2>1, <2>2, <2>3
<1>4. setBlockIndexCandidates' \subseteq haveTxsDownloaded
  BY <1>1 DEF TypeOK
<1> HIDE DEF id
<1>5. TypeOK'
  BY Zenon, <1>1, <1>2, <1>3, <1>4 DEF TypeOK, flags
<1>6. /\ LocksExclude'
      /\ \A u \in Threads : pc'[u] = IF u = t THEN "activate" ELSE pc[u]
  BY ZenonT(40), <1>1, <1>2, WakesUp
<1>7. IndexIsATree' /\ WaitingIsExact'
  BY <1>1, IndexStays
<1>8. FailuresSpread
  BY <1>1, NoNewFailures DEF flags
<1>9. ActiveChainIsValid'
  BY Zenon, <1>1, <1>2, <1>8, ChainStays
<1>10. TargetIsSound'
  BY SMTT(40), <1>1, <1>2, <1>6, <1>8, TargetStays
<1>11. InvalidationIsSound'
  BY <1>1, <1>2, <1>6, InvalidationStays
<1>12. CandidatesNotWorse'
  <2>1. CASE good
    BY Zenon, <1>1, <2>1 DEF CandidatesNotWorse, Worse
  <2>2. CASE ~good
    <3>1. b # tip
      <4>1. ~IsFailed(tip) /\ validity[tip] = VALID_SCRIPTS /\ tip \in haveTxsDownloaded
        BY Zenon, <1>3, PathType DEF ActiveChainIsValid
      <4>2. IsValid(tip, VALID_TRANSACTIONS)
        BY <4>1 DEF IsValid, VALID_SCRIPTS, VALID_TRANSACTIONS
      <4> QED BY Zenon, <2>2, <4>1, <4>2
    <3>2. ASSUME NEW c \in setBlockIndexCandidates' PROVE ~Worse(c, tip, nSequenceId')
      <4>1. c \in setBlockIndexCandidates /\ c # b /\ c \in Blocks
        BY Zenon, <1>1, <2>2 DEF TypeOK
      <4>2. ~Worse(c, tip, nSequenceId)
        BY Zenon, <4>1 DEF CandidatesNotWorse
      <4>3. nSequenceId'[c] = nSequenceId[c] /\ nSequenceId'[tip] = nSequenceId[tip]
        BY Zenon, <4>1, <3>1, <1>3
      <4> QED BY Zenon, <4>2, <4>3 DEF Worse
    <3> QED BY ZenonT(40), <3>2, <1>1 DEF CandidatesNotWorse
  <2> QED BY Zenon, <2>1, <2>2
<1> QED BY ZenonT(40), <1>5, <1>6, <1>7, <1>8, <1>9, <1>10, <1>11, <1>12

\* ResetBlockFailureFlags keeps the invariant, for whatever block.
LEMMA ReconsiderBlockChain ==
  ASSUME ChainInv, NEW t \in Threads, NEW b \in m_block_index, ReconsiderBlock(t, b)
  PROVE  ChainInv' /\ FailuresSpread
<1> USE DEF ChainInv
<1> DEFINE below == Descendants(b)
           cleared == below \cup Path[b]
           found == {c \in below : /\ ~IsValid(c, VALID_TRANSACTIONS)
                                   /\ validity[c] >= VALID_TRANSACTIONS /\ c \in haveTxsDownloaded
                                   /\ Worse(tip, c, nSequenceId)}
<1>1. /\ pc[t] = "idle" /\ pc' = [pc EXCEPT ![t] = "activate"]
      /\ failedValid' = failedValid \ cleared /\ failedChild' = failedChild \ cleared
      /\ m_failed_blocks' = m_failed_blocks \ cleared
      /\ setBlockIndexCandidates' = setBlockIndexCandidates \cup found
      /\ UNCHANGED <<index, nSequenceId, tip, precious, local, shutdown>>
  BY ZenonT(40) DEF ReconsiderBlock, Step
<1>2. UNCHANGED <<m_block_index, validity, haveData, haveTxsDownloaded, m_blocks_unlinked, queue>>
  BY Zenon, <1>1 DEF index
<1>3. \A c \in found : c \in haveTxsDownloaded /\ Worse(tip, c, nSequenceId)
  OBVIOUS
<1> HIDE DEF below, cleared, found
<1>4. TypeOK'
  BY Zenon, <1>1, <1>2, <1>3 DEF TypeOK, precious
<1>5. /\ LocksExclude'
      /\ \A u \in Threads : pc'[u] = IF u = t THEN "activate" ELSE pc[u]
  BY Zenon, <1>1, <1>2, WakesUp
<1>6. IndexIsATree' /\ WaitingIsExact'
  BY <1>1, IndexStays
<1>7. FailuresSpread
  BY <1>1, NoNewFailures
<1>8. ActiveChainIsValid'
  BY Zenon, <1>1, <1>2, <1>7, ChainStays
<1>9. TargetIsSound'
  BY SMTT(40), <1>1, <1>2, <1>5, <1>7, TargetStays
<1>10. InvalidationIsSound'
  <2>1. UNCHANGED <<tip, local, m_block_index, haveTxsDownloaded>>
    BY Zenon, <1>1, <1>2
  <2>2. \A u \in Threads : pc'[u] = "invalidate" => pc[u] = "invalidate"
    BY Zenon, <1>5
  <2> QED BY Zenon, <2>1, <2>2, InvalidationStays
<1>11. CandidatesNotWorse'
  <2>1. ASSUME NEW c \in found PROVE ~Worse(c, tip, nSequenceId)
    <3>1. c \in Blocks /\ tip \in Blocks /\ nSequenceId \in [Blocks -> Int] /\ Worse(tip, c, nSequenceId)
      BY <1>3 DEF TypeOK
    <3> QED BY ZenonT(40), <3>1, WorseIsAnOrder
  <2> QED BY Zenon, <2>1, <1>1 DEF CandidatesNotWorse, Worse
<1> QED BY <1>4, <1>5, <1>6, <1>7, <1>8, <1>9, <1>10, <1>11

\* InvalidateBlock begins.
LEMMA InvalidateBlockChain ==
  ASSUME ChainInv, NEW t \in Threads, NEW b \in m_block_index, InvalidateBlock(t, b)
  PROVE  ChainInv' /\ FailuresSpread
<1> USE DEF ChainInv
<1> DEFINE found == {c \in m_block_index \ Path[tip] : CouldReplace(c, pprev[b])}
<1>1. /\ MutexFree /\ b # Genesis /\ pc[t] = "idle" /\ pc' = [pc EXCEPT ![t] = "invalidate"]
      /\ local' = [local EXCEPT !.pindex = b, !.to_mark_failed = b, !.candidate_blocks = found]
      /\ UNCHANGED <<index, flags, nSequenceId, setBlockIndexCandidates, tip, precious, shutdown>>
  BY Zenon DEF InvalidateBlock, Step
<1>2. UNCHANGED <<m_block_index, validity, haveData, haveTxsDownloaded, m_blocks_unlinked, queue>>
  BY SMTT(40), <1>1 DEF index
<1>3. found \subseteq haveTxsDownloaded /\ found \subseteq Blocks /\ b \in Blocks
  BY Zenon DEF CouldReplace, TypeOK
<1> HIDE DEF found
<1>4. /\ local' \in LocalType /\ local'.pindex = b /\ local'.to_mark_failed = b
      /\ local'.candidate_blocks = found
  <2>1. local \in LocalType
    BY DEF TypeOK, LocalType
  <2> QED BY Zenon, <1>1, <1>3, <2>1 DEF LocalType
<1>5. /\ \A u \in Threads : pc[u] \notin Owning
      /\ \A u \in Threads : pc'[u] = IF u = t THEN "invalidate" ELSE pc[u]
  BY Zenon, <1>1 DEF MutexFree, Owning, TypeOK
<1>6. TypeOK'
  BY Zenon, <1>1, <1>2, <1>4 DEF TypeOK, LocalType, flags, precious, Owning
<1>7. LocksExclude'
  <2>1. /\ pc[t] # "link" /\ "invalidate" # "link" /\ "invalidate" \in Owning
        /\ "invalidate" \notin HoldingCsMain
    BY <1>1 DEF Owning, HoldingCsMain
  <2> QED BY Zenon, <1>1, <1>2, <1>5, <2>1, LocksStay
<1>8. IndexIsATree' /\ WaitingIsExact'
  BY <1>1, IndexStays
<1>9. FailuresSpread
  BY <1>1, NoNewFailures DEF flags
<1>10. ActiveChainIsValid'
  BY Zenon, <1>1, <1>2, <1>9, ChainStays
<1>11. TargetIsSound'
  BY <1>5, TargetOfOwner
<1>12. InvalidationIsSound'
  BY <1>1, <1>2, <1>3, <1>4, <1>5 DEF InvalidationIsSound, Owning
<1>13. CandidatesNotWorse'
  BY Zenon, <1>1, CandidatesStay
<1> QED BY Zenon, <1>6, <1>7, <1>8, <1>9, <1>10, <1>11, <1>12, <1>13

\* One round of invalidateblock, in plain terms: the old tip is marked, and no
\* mark is taken away, since the new tip is not marked.
InvalidateEffect(t, new, found) ==
    /\ pc[t] = "invalidate" /\ ~shutdown /\ tip # Genesis /\ new \in Blocks /\ tip \in Blocks
    /\ Path[tip] = {tip} \cup Path[new] /\ tip \notin Path[new]
    /\ tip' = new
    /\ failedValid' = failedValid \cup {tip} /\ failedChild' = failedChild
    /\ found = {c \in local.candidate_blocks : ~Worse(c, new, nSequenceId)}
    /\ setBlockIndexCandidates' = (setBlockIndexCandidates \ {tip}) \cup {new} \cup found
    /\ local' = [local EXCEPT !.to_mark_failed = tip, !.candidate_blocks = local.candidate_blocks \ found]
    /\ UNCHANGED <<index, m_failed_blocks, nSequenceId, precious, pc, commands, shutdown>>

\* InvalidateTip is such a round.
LEMMA InvalidateTipFacts ==
  ASSUME ChainInv, NEW t \in Threads, InvalidateTip(t)
  PROVE  \E new, found : InvalidateEffect(t, new, found)
<1> USE DEF ChainInv
<1> DEFINE new == pprev[tip]
           child == local.to_mark_failed
           marked == new = child /\ child \in failedValid
           found == {c \in local.candidate_blocks : ~Worse(c, new, nSequenceId)}
<1>1. /\ pc[t] = "invalidate" /\ ~shutdown /\ local.pindex \in Path[tip] /\ tip' = new
      /\ failedValid' = (failedValid \cup {tip}) \ (IF marked THEN {child} ELSE {})
      /\ failedChild' = failedChild \cup (IF marked THEN {child} ELSE {})
      /\ setBlockIndexCandidates' = (setBlockIndexCandidates \ {tip}) \cup {new} \cup found
      /\ local' = [local EXCEPT !.to_mark_failed = tip, !.candidate_blocks = local.candidate_blocks \ found]
      /\ UNCHANGED <<index, m_failed_blocks, nSequenceId, precious, pc, commands, shutdown>>
  BY DEF InvalidateTip, InChain
<1>2. local.pindex # Genesis
  BY <1>1 DEF InvalidationIsSound
<1>3. tip \in Blocks /\ tip # Genesis
  BY Zenon, <1>1, <1>2, TreeAssumption DEF TypeOK
<1>4. /\ new \in Blocks /\ Path[tip] = {tip} \cup Path[new] /\ tip \notin Path[new]
  BY Zenon, <1>3, ParentFacts
<1>5. new \notin failedValid
  BY Zenon, <1>4, PathType DEF ActiveChainIsValid, IsFailed
<1>6. ~marked
  BY <1>5
<1>7. failedValid' = failedValid \cup {tip} /\ failedChild' = failedChild
  BY Zenon, <1>1, <1>6
<1>8. found = {c \in local.candidate_blocks : ~Worse(c, new, nSequenceId)}
  OBVIOUS
<1> HIDE DEF new, found
<1>9. InvalidateEffect(t, new, found)
  BY Zenon, <1>1, <1>3, <1>4, <1>7, <1>8 DEF InvalidateEffect
<1> QED BY <1>9

\* InvalidateTip keeps the invariant.
LEMMA InvalidateTipChain ==
  ASSUME ChainInv, NEW t \in Threads, InvalidateTip(t)
  PROVE  ChainInv'
<1> USE DEF ChainInv
<1>0. PICK new, found : InvalidateEffect(t, new, found)
  BY InvalidateTipFacts
<1>1. /\ pc[t] = "invalidate" /\ tip # Genesis /\ new \in Blocks /\ tip \in Blocks
      /\ Path[tip] = {tip} \cup Path[new] /\ tip \notin Path[new]
      /\ tip' = new
      /\ failedValid' = failedValid \cup {tip} /\ failedChild' = failedChild
      /\ found = {c \in local.candidate_blocks : ~Worse(c, new, nSequenceId)}
      /\ setBlockIndexCandidates' = (setBlockIndexCandidates \ {tip}) \cup {new} \cup found
      /\ local' = [local EXCEPT !.to_mark_failed = tip, !.candidate_blocks = local.candidate_blocks \ found]
      /\ UNCHANGED <<index, m_failed_blocks, nSequenceId, precious, pc, commands, shutdown>>
  BY Zenon, <1>0 DEF InvalidateEffect
<1>2. UNCHANGED <<m_block_index, validity, haveData, haveTxsDownloaded, m_blocks_unlinked, queue>>
  BY Zenon, <1>1 DEF index
<1>3. /\ tip \in haveTxsDownloaded /\ new \in haveTxsDownloaded
      /\ local.candidate_blocks \subseteq haveTxsDownloaded
      /\ local.pindex \in Blocks \ {Genesis}
  BY SMTT(40), <1>1, PathType DEF ActiveChainIsValid, InvalidationIsSound
<1>4. /\ local' \in LocalType /\ local'.pindex = local.pindex /\ local'.to_mark_failed = tip
      /\ local'.candidate_blocks = local.candidate_blocks \ found
  <2>1. local \in LocalType
    BY DEF TypeOK, LocalType
  <2> QED BY ZenonT(40), <1>1, <2>1 DEF LocalType
<1>5. TypeOK'
  <2>1. /\ failedValid' \subseteq m_block_index /\ failedChild' \subseteq m_block_index
        /\ m_failed_blocks' \subseteq failedValid'
    BY Zenon, <1>1, <1>3 DEF TypeOK
  <2>2. setBlockIndexCandidates' \subseteq haveTxsDownloaded
    BY Zenon, <1>1, <1>3 DEF TypeOK
  <2> QED BY <1>1, <1>2, <2>1, <2>2, <1>4, Zenon DEF TypeOK, LocalType, precious
<1>6. \A u \in Threads : u # t => pc[u] \notin Owning
  BY <1>1 DEF LocksExclude, Owning
<1>7. LocksExclude'
  BY <1>1, <1>2 DEF LocksExclude, Owning
<1>8. IndexIsATree' /\ WaitingIsExact'
  BY Zenon, <1>1, IndexStays
<1>9. ActiveChainIsValid'
  BY <1>1, <1>2 DEF ActiveChainIsValid, IsFailed
<1>10. TargetIsSound'
  BY Zenon, <1>1, <1>6, TargetOfOwner
<1>11. InvalidationIsSound'
  <2>1. /\ local'.pindex \in Blocks \ {Genesis} /\ local'.to_mark_failed \in m_block_index'
        /\ local'.candidate_blocks \subseteq haveTxsDownloaded'
    BY <1>2, <1>3, <1>4 DEF TypeOK
  <2>2. local'.to_mark_failed \notin Path[tip']
    BY <1>1, <1>4
  <2> QED BY ZenonT(40), <2>1, <2>2 DEF InvalidationIsSound, InChain
<1>12. CandidatesNotWorse'
  <2>1. nSequenceId \in [Blocks -> Int]
    BY DEF TypeOK
  <2>2. ~Worse(tip, new, nSequenceId) /\ ~Worse(new, new, nSequenceId)
    <3>1. new \in Path[tip] /\ new # tip
      BY <1>1, PathType
    <3>2. Worse(new, tip, nSequenceId)
      BY <3>1, <1>1, AncestorIsWorse
    <3> QED BY <3>2, <2>1, <1>1, WorseIsAnOrder
  <2>3. ASSUME NEW c \in setBlockIndexCandidates PROVE ~Worse(c, new, nSequenceId)
    <3>1. c \in Blocks /\ ~Worse(c, tip, nSequenceId)
      BY ZenonT(40) DEF TypeOK, CandidatesNotWorse
    <3> QED BY ZenonT(40), <3>1, <2>1, <2>2, <1>1, WorseIsAnOrder
  <2> QED BY Zenon, <2>2, <2>3, <1>1 DEF CandidatesNotWorse, Worse
<1> QED BY <1>5, <1>7, <1>8, <1>9, <1>10, <1>11, <1>12

\* InvalidateEnd keeps the invariant.
LEMMA InvalidateEndChain ==
  ASSUME ChainInv, NEW t \in Threads, InvalidateEnd(t)
  PROVE  ChainInv'
<1> USE DEF ChainInv
<1> DEFINE b == local.to_mark_failed
           found == {c \in m_block_index \ {b} : CouldReplace(c, tip)}
<1>1. /\ pc[t] = "invalidate" /\ pc' = [pc EXCEPT ![t] = "activate"] /\ local' = NoLocal
      /\ UNCHANGED <<index, nSequenceId, tip, precious, commands, shutdown>>
  BY Zenon DEF InvalidateEnd, Step
<1>2. \/ UNCHANGED <<flags, setBlockIndexCandidates>>
      \/ /\ b \notin Path[tip]
         /\ failedValid' = failedValid \cup {b} /\ m_failed_blocks' = m_failed_blocks \cup {b}
         /\ setBlockIndexCandidates' = (setBlockIndexCandidates \ {b}) \cup found
         /\ UNCHANGED failedChild
  BY Zenon DEF InvalidateEnd, InChain
<1>3. UNCHANGED <<m_block_index, validity, haveData, haveTxsDownloaded, m_blocks_unlinked, queue>>
  BY Zenon, <1>1 DEF index
<1>4. b \in m_block_index /\ b \in Blocks
  BY <1>1 DEF InvalidationIsSound, TypeOK
<1>5. \A c \in found : c \in haveTxsDownloaded /\ ~Worse(c, tip, nSequenceId)
  BY SMTT(40) DEF CouldReplace
<1> HIDE DEF b, found
<1>6. TypeOK'
  <2>1. NoLocal \in LocalType
    BY NoLocalType
  <2> QED BY ZenonT(40), <1>1, <1>2, <1>3, <1>4, <1>5, <2>1 DEF TypeOK, LocalType, flags, precious
<1>7. pc[t] \in Owning /\ pc[t] # "link" /\ "activate" # "link" /\ "activate" \notin Owning
      /\ "activate" \notin HoldingCsMain
  BY <1>1 DEF Owning, HoldingCsMain
<1>8. /\ \A u \in Threads : u # t => pc[u] \notin Owning /\ pc'[u] \notin Owning
      /\ pc'[t] = "activate"
  BY Zenon, <1>1, <1>7, OneOwner
<1>9. LocksExclude'
  BY ZenonT(40), <1>1, <1>3, <1>7, LocksStay
<1>10. IndexIsATree' /\ WaitingIsExact'
  BY ZenonT(40), <1>1, IndexStays
<1>11. ActiveChainIsValid'
  BY ZenonT(40), <1>1, <1>2, <1>3 DEF ActiveChainIsValid, IsFailed, flags
<1>12. TargetIsSound'
  BY <1>8, TargetOfOwner
<1>13. InvalidationIsSound'
  BY ZenonT(40), <1>8, NoInvalidation
<1>14. CandidatesNotWorse'
  BY SMTT(40), <1>1, <1>2, <1>5 DEF CandidatesNotWorse, Worse
<1> QED BY <1>6, <1>9, <1>10, <1>11, <1>12, <1>13, <1>14

\* What Restart finds in the block files.
LEMMA RestartFacts ==
  ASSUME ChainInv, NEW t \in Threads, Restart(t)
  PROVE  /\ shutdown /\ ~shutdown' /\ (\A u \in Threads : pc[u] = "idle")
         /\ pc' = [pc EXCEPT ![t] = "activate"] /\ local = NoLocal /\ queue = <<>>
         /\ nSequenceId' = [b \in Blocks |-> 0]
         /\ failedChild' = failedChild \cup {b \in m_block_index : ~IsFailed(b) /\ \E c \in Path[b] : IsFailed(c)}
         /\ m_failed_blocks' = {}
         /\ haveTxsDownloaded' = {b \in haveData : Path[b] \subseteq haveData}
         /\ haveTxsDownloaded \subseteq haveTxsDownloaded'
         /\ m_blocks_unlinked' \in [Blocks -> Seq(Blocks \ {Genesis})] /\ ByParent(m_blocks_unlinked')
         /\ Values(m_blocks_unlinked') = haveData \ haveTxsDownloaded'
         /\ setBlockIndexCandidates' = {b \in haveTxsDownloaded' :
               b \notin failedValid \cup failedChild' /\ ~Worse(b, tip, nSequenceId')}
         /\ nBlockReverseSequenceId' = -1 /\ nLastPreciousChainwork' = 0
         /\ UNCHANGED <<m_block_index, validity, haveData, queue, failedValid, tip, local, commands>>
<1> USE DEF ChainInv
<1>1. /\ shutdown /\ ~shutdown' /\ (\A u \in Threads : pc[u] = "idle")
      /\ pc' = [pc EXCEPT ![t] = "activate"]
      /\ nSequenceId' = [b \in Blocks |-> 0]
      /\ failedChild' = failedChild \cup {b \in m_block_index : ~IsFailed(b) /\ \E c \in Path[b] : IsFailed(c)}
      /\ m_failed_blocks' = {}
      /\ haveTxsDownloaded' = {b \in haveData : Path[b] \subseteq haveData}
      /\ nBlockReverseSequenceId' = -1 /\ nLastPreciousChainwork' = 0
      /\ UNCHANGED <<m_block_index, validity, haveData, queue, failedValid, tip, local, commands>>
  BY DEF Restart, Step
<1>2. setBlockIndexCandidates' = {b \in haveTxsDownloaded' :
               b \notin failedValid \cup failedChild' /\ ~Worse(b, tip, nSequenceId')}
  BY DEF Restart, PruneBlockIndexCandidates
<1> DEFINE waiting(p) == {b \in haveData \ haveTxsDownloaded' : pprev[b] = p}
<1>3. /\ m_blocks_unlinked' \in [Blocks -> UNION {Orders(waiting(p)) : p \in Blocks}]
      /\ \A p \in Blocks : m_blocks_unlinked'[p] \in Orders(waiting(p))
  BY Zenon DEF Restart
<1>4. haveTxsDownloaded \subseteq haveTxsDownloaded' /\ Genesis \in haveTxsDownloaded'
  BY ZenonT(40), <1>1 DEF IndexIsATree, TypeOK
<1>5. haveData \ haveTxsDownloaded' \subseteq Blocks \ {Genesis}
  BY <1>4 DEF TypeOK
<1>6. \A p \in Blocks : /\ m_blocks_unlinked'[p] \in Seq(Blocks \ {Genesis})
                        /\ Distinct(m_blocks_unlinked'[p])
                        /\ Elements(m_blocks_unlinked'[p]) = waiting(p)
  <2>1. ASSUME NEW p \in Blocks PROVE waiting(p) \in SUBSET (Blocks \ {Genesis})
    BY <1>5
  <2> HIDE DEF waiting
  <2> QED BY Zenon, <1>3, <2>1, OrdersFacts
<1>7. m_blocks_unlinked' \in [Blocks -> Seq(Blocks \ {Genesis})] /\ ByParent(m_blocks_unlinked')
  <2>1. \A p \in Blocks : \A b \in waiting(p) : pprev[b] = p
    BY Zenon
  <2> HIDE DEF waiting
  <2> QED BY Zenon, <1>3, <1>6, <2>1 DEF ByParent
<1>8. Values(m_blocks_unlinked') = haveData \ haveTxsDownloaded'
  <2>1. \A b \in haveData \ haveTxsDownloaded' : pprev[b] \in Blocks
    BY Zenon, <1>5, ParentFacts
  <2>2. ASSUME NEW c PROVE c \in Values(m_blocks_unlinked') <=> c \in haveData \ haveTxsDownloaded'
    <3>1. c \in Values(m_blocks_unlinked') <=> \E p \in Blocks : c \in Elements(m_blocks_unlinked'[p])
      BY ZenonT(40) DEF Values
    <3> QED BY <3>1, <1>6, <2>1
  <2> QED BY ZenonT(40), <2>2
<1>9. local = NoLocal /\ queue = <<>>
  BY SMTT(40), <1>1 DEF LocksExclude, Owning
<1> QED BY ZenonT(40), <1>1, <1>2, <1>4, <1>7, <1>8, <1>9

\* Restart keeps the invariant.
LEMMA RestartChain ==
  ASSUME ChainInv, NEW t \in Threads, Restart(t)
  PROVE  ChainInv' /\ FailuresSpread
<1> USE DEF ChainInv
<1>1. /\ shutdown /\ ~shutdown' /\ (\A u \in Threads : pc[u] = "idle")
      /\ pc' = [pc EXCEPT ![t] = "activate"] /\ local = NoLocal /\ queue = <<>>
      /\ nSequenceId' = [b \in Blocks |-> 0]
      /\ failedChild' = failedChild \cup {b \in m_block_index : ~IsFailed(b) /\ \E c \in Path[b] : IsFailed(c)}
      /\ m_failed_blocks' = {}
      /\ haveTxsDownloaded' = {b \in haveData : Path[b] \subseteq haveData}
      /\ haveTxsDownloaded \subseteq haveTxsDownloaded'
      /\ m_blocks_unlinked' \in [Blocks -> Seq(Blocks \ {Genesis})] /\ ByParent(m_blocks_unlinked')
      /\ Values(m_blocks_unlinked') = haveData \ haveTxsDownloaded'
      /\ setBlockIndexCandidates' = {b \in haveTxsDownloaded' :
            b \notin failedValid \cup failedChild' /\ ~Worse(b, tip, nSequenceId')}
      /\ nBlockReverseSequenceId' = -1 /\ nLastPreciousChainwork' = 0
      /\ UNCHANGED <<m_block_index, validity, haveData, queue, failedValid, tip, local, commands>>
  BY Zenon, RestartFacts
<1>2. shutdown' \in BOOLEAN
  BY Zenon DEF Restart
<1>3. TypeOK'
  <2>1. haveTxsDownloaded' \subseteq haveData
    BY ZenonT(40), <1>1
  <2>2. failedChild' \subseteq m_block_index /\ setBlockIndexCandidates' \subseteq haveTxsDownloaded'
    BY <1>1, ZenonT(40) DEF TypeOK
  <2>3. nSequenceId' \in [Blocks -> Int]
    <3>1. nSequenceId' = [b \in Blocks |-> 0]
      BY Zenon, <1>1
    <3> QED BY <3>1
  <2>4. nBlockReverseSequenceId' \in Int /\ nLastPreciousChainwork' \in Nat
    <3>1. nBlockReverseSequenceId' = -1 /\ nLastPreciousChainwork' = 0
      BY Zenon, <1>1
    <3> QED BY <3>1
  <2>5. pc' \in [Threads -> {"idle", "link", "activate"} \cup Owning]
    BY ZenonT(40), <1>1 DEF TypeOK
  <2>6. m_failed_blocks' \subseteq failedValid
    BY ZenonT(40), <1>1
  <2> QED BY <1>1, <1>2, <2>1, <2>2, <2>3, <2>4, <2>5, <2>6, ZenonT(40) DEF TypeOK
<1>4. /\ LocksExclude'
      /\ \A u \in Threads : pc'[u] = IF u = t THEN "activate" ELSE pc[u]
  BY ZenonT(40), <1>1, WakesUp
<1>5. IndexIsATree'
  <2>1. ASSUME NEW b \in haveTxsDownloaded' PROVE Path[b] \subseteq haveTxsDownloaded'
    <3>1. b \in Blocks /\ Path[b] \subseteq haveData
      BY Zenon, <1>1 DEF TypeOK
    <3>2. \A c \in Path[b] : Path[c] \subseteq haveData
      BY SMTT(40), <3>1, PathClosed
    <3> QED BY ZenonT(40), <3>1, <3>2, <1>1
  <2> QED BY ZenonT(40), <2>1, <1>1 DEF IndexIsATree
<1>6. WaitingIsExact'
  <2>1. ASSUME NEW b \in haveData, b \notin haveTxsDownloaded' PROVE pprev[b] \notin haveTxsDownloaded'
    <3>1. b \in Blocks \ {Genesis}
      BY ZenonT(40), <1>1, <2>1 DEF TypeOK, IndexIsATree
    <3>2. Path[b] = {b} \cup Path[pprev[b]]
      BY Zenon, <3>1, ParentFacts
    <3> QED BY ZenonT(40), <3>2, <2>1, <1>1
  <2>2. Elements(queue') = {} /\ Distinct(queue')
    <3>1. queue' = <<>>
      BY Zenon, <1>1
    <3> QED BY <3>1 DEF Elements, Distinct
  <2> QED BY ZenonT(40), <2>1, <2>2, <1>1 DEF WaitingIsExact
<1>7. FailuresSpread
  <2>1. ASSUME NEW c \in haveTxsDownloaded, IsFailed(c)' PROVE \E f \in Path[c] : IsFailed(f)
    BY ZenonT(40), <1>1, <2>1, PathType DEF IsFailed, TypeOK
  <2> QED BY Zenon, <2>1 DEF FailuresSpread
<1>8. ActiveChainIsValid'
  BY ZenonT(40), <1>1, <1>7, ChainStays
<1>9. TargetIsSound'
  <2>1. \A u \in Threads : pc[u] = "idle"
    BY ZenonT(40), <1>1
  <2> QED BY <2>1, <1>4 DEF TargetIsSound
<1>10. InvalidationIsSound'
  <2>1. \A u \in Threads : pc[u] = "idle"
    BY Zenon, <1>1
  <2> QED BY <2>1, <1>4 DEF InvalidationIsSound
<1>11. CandidatesNotWorse'
  BY Zenon, <1>1 DEF CandidatesNotWorse, Worse
<1> QED BY ZenonT(40), <1>3, <1>4, <1>5, <1>6, <1>7, <1>8, <1>9, <1>10, <1>11

-----------------------------------------------------------------------------
(* The active chain is valid.                                              *)

\* The first state.
LEMMA ChainInit ==
  ASSUME Init
  PROVE  ChainInv
<1> USE DEF Init
<1>1. Genesis \in Blocks /\ Path[Genesis] = {Genesis}
  BY Zenon, TreeAssumption
<1>2. TypeOK
  <2>1. validity \in [Blocks -> 0..5] /\ nSequenceId \in [Blocks -> Int]
    BY DEF VALID_SCRIPTS, VALID_NONE
  <2>2. local \in LocalType
    BY Zenon, NoLocalType
  <2>3. m_blocks_unlinked \in [Blocks -> Seq(Blocks \ {Genesis})] /\ queue \in Seq(Blocks \ {Genesis})
    OBVIOUS
  <2>4. pc \in [Threads -> {"idle", "link", "activate"} \cup Owning]
    OBVIOUS
  <2>5. nBlockReverseSequenceId \in Int /\ nLastPreciousChainwork \in Nat
    OBVIOUS
  <2>6. shutdown \in BOOLEAN
    BY Zenon
  <2> QED BY <1>1, <2>1, <2>2, <2>3, <2>4, <2>5, <2>6, ZenonT(40) DEF TypeOK, LocalType
<1>3. LocksExclude
  BY Zenon DEF LocksExclude, Owning, HoldingCsMain
<1>4. IndexIsATree
  BY SMTT(40), <1>1 DEF IndexIsATree, VALID_SCRIPTS, VALID_TRANSACTIONS
<1>5. WaitingIsExact
  <2>1. Elements(<<>>) = {} /\ Distinct(<<>>)
    BY DEF Elements, Distinct
  <2>2. \A p \in Blocks : m_blocks_unlinked[p] = <<>>
    BY Zenon
  <2>3. ByParent(m_blocks_unlinked) /\ Values(m_blocks_unlinked) = {}
    BY Zenon, <2>1, <2>2 DEF ByParent, Values
  <2> QED BY ZenonT(40), <2>1, <2>3 DEF WaitingIsExact
<1>6. ActiveChainIsValid
  BY SMTT(40), <1>1 DEF ActiveChainIsValid, IsFailed
<1>7. TargetIsSound /\ InvalidationIsSound
  BY Zenon DEF TargetIsSound, InvalidationIsSound
<1>8. CandidatesNotWorse
  <2>1. nSequenceId \in [Blocks -> Int]
    BY SMTT(40), <1>2 DEF TypeOK
  <2>2. ~Worse(Genesis, Genesis, nSequenceId)
    BY Zenon, <1>1, <2>1, WorseIsAnOrder
  <2> QED BY <2>2, ZenonT(40) DEF CandidatesNotWorse
<1> QED BY Zenon, <1>2, <1>3, <1>4, <1>5, <1>6, <1>7, <1>8 DEF ChainInv

\* Headers and blocks keep the invariant.
LEMMA ArrivalChain ==
  ASSUME ChainInv, Arrival
  PROVE  ChainInv'
<1>1. CsMainFree
  BY DEF Arrival
<1>2. PICK b \in Blocks \ {Genesis} :
        \/ AcceptBlockHeader(b) \/ RefuseBlockHeader(b) \/ ProcessInvalidBlock(b)
        \/ \E t \in Threads : ProcessNewBlock(t, b) \/ ProcessOldBlock(t, b)
  BY DEF Arrival
<1> QED BY Zenon, <1>1, <1>2, AcceptBlockHeaderChain, RefuseBlockHeaderChain, ProcessInvalidBlockChain,
           ProcessNewBlockChain, ProcessOldBlockChain

\* Commands keep the invariant.
LEMMA CommandsChain ==
  ASSUME ChainInv, Commands
  PROVE  ChainInv'
<1>1. \/ StartShutdown
      \/ \E t \in Threads, b \in m_block_index :
            PreciousBlock(t, b) \/ InvalidateBlock(t, b) \/ ReconsiderBlock(t, b)
  BY Zenon DEF Commands
<1> QED BY Zenon, <1>1, StartShutdownChain, PreciousBlockChain, InvalidateBlockChain, ReconsiderBlockChain

\* The steps of a thread keep the invariant.
LEMMA ThreadChain ==
  ASSUME ChainInv, NEW t \in Threads, LinkBlock(t) \/ Activation(t) \/ Invalidation(t) \/ Restart(t)
  PROVE  ChainInv'
<1>1. CASE LinkBlock(t) \/ Restart(t) \/ Invalidation(t)
  BY Zenon, <1>1, LinkBlockChain, RestartChain, InvalidateTipChain, InvalidateEndChain DEF Invalidation
<1>2. CASE Activation(t)
  BY ZenonT(40), <1>2, ActivateBestChainChain, NextSectionChain, DiscardFailedChainChain, LeaveLoopChain,
     ActivateBestChainStepChain, ConnectTipChain, InvalidBlockFoundChain DEF Activation
<1> QED BY <1>1, <1>2

\* A step that changes nothing.
LEMMA ChainStutter ==
  ASSUME ChainInv, UNCHANGED vars
  PROVE  ChainInv'
<1>1. UNCHANGED <<m_block_index, validity, haveData, haveTxsDownloaded, m_blocks_unlinked, queue,
                  failedValid, failedChild, m_failed_blocks, nSequenceId, setBlockIndexCandidates, tip,
                  nBlockReverseSequenceId, nLastPreciousChainwork, pc, local, shutdown>>
  BY DEF vars, index, flags, precious
<1> USE DEF ChainInv
<1>2. TypeOK'
  BY <1>1, ZenonT(40) DEF TypeOK
<1>3. LocksExclude'
  BY <1>1, Zenon DEF LocksExclude
<1>4. IndexIsATree' /\ WaitingIsExact'
  BY Zenon, <1>1, IndexStays DEF index
<1>5. ActiveChainIsValid'
  BY <1>1, Zenon DEF ActiveChainIsValid, IsFailed
<1>6. TargetIsSound'
  BY <1>1, Zenon DEF TargetIsSound, Sound, IsFailed
<1>7. InvalidationIsSound'
  BY <1>1, Zenon DEF InvalidationIsSound, InChain
<1>8. CandidatesNotWorse'
  BY <1>1, CandidatesStay
<1> QED BY Zenon, <1>2, <1>3, <1>4, <1>5, <1>6, <1>7, <1>8

\* Every step keeps the invariant.
LEMMA ChainNext ==
  ASSUME ChainInv, [Next]_vars
  PROVE  ChainInv'
<1>1. CASE Arrival
  BY Zenon, <1>1, ArrivalChain
<1>2. CASE Commands
  BY <1>2, CommandsChain
<1>3. CASE \E t \in Threads : LinkBlock(t) \/ Activation(t) \/ Invalidation(t) \/ Restart(t)
  BY <1>3, ThreadChain
<1>4. CASE UNCHANGED vars
  BY <1>4, ChainStutter
<1> QED BY <1>1, <1>2, <1>3, <1>4 DEF Next

\* ConnectTip, DisconnectTip, InvalidateBlock, InvalidBlockFound and
\* ResetBlockFailureFlags: no block of the active chain is marked as failed,
\* and all of it passed ConnectBlock, for every tree of blocks, any number of
\* threads and whatever block reconsiderblock is called for.
THEOREM ChainIsValid == Spec => []ActiveChainIsValid
<1>1. Init => ChainInv
  BY ChainInit
<1>2. ChainInv /\ [Next]_vars => ChainInv'
  BY ChainNext
<1>3. ChainInv => ActiveChainIsValid
  BY DEF ChainInv
<1> QED BY <1>1, <1>2, <1>3, PTL DEF Spec
=============================================================================
