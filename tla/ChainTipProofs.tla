--------------------------- MODULE ChainTipProofs ---------------------------
(***************************************************************************)
(* The tip of ChainSelection is the best there is: two layers on top of    *)
(* ChainInv of ChainSelectionProofs.                                       *)
(*                                                                         *)
(*   StoredInv adds that no stored block is forgotten but the strays, and  *)
(*             gives UnlinkedIsExact;                                      *)
(*   IInv      adds Progress as long as no block was overlooked: the       *)
(*             candidates are complete and a section of ActivateBestChain  *)
(*             goes to the best of them.  It gives NoStepBack,             *)
(*             CandidatesAreExact and TipIsBest.                           *)
(***************************************************************************)
EXTENDS ChainSelectionProofs

(* No stored block is forgotten, but the strays.                           *)
NoneForgotten ==
    \A b \in haveData \ strays :
        b \in haveTxsDownloaded \cup Values(m_blocks_unlinked) \cup Elements(queue)

(* invalidateblock has not moved the tip.                                  *)
TipUntouched == \A t \in Threads : pc[t] = "invalidate" => InChain(local.to_mark_failed)

NotWorseThanTips(b) ==
    /\ ~Worse(b, tip, nSequenceId)
    /\ \A t \in Threads : pc[t] \in {"find", "connect"} => ~Worse(b, local.starting_tip, nSequenceId)

(* Every linked block that is not marked, and not worse than the tip and   *)
(* the tip at the start of the section, is a candidate.                    *)
CandidatesKept ==
    TipUntouched => \A b \in haveTxsDownloaded :
        ~IsFailed(b) /\ NotWorseThanTips(b) => b \in setBlockIndexCandidates

(* In a section the tip it began with stays good, the target is not worse, *)
(* and the loop goes on only below it.                                     *)
SectionProgress ==
    \A t \in Threads :
        /\ pc[t] \in {"find", "connect"} =>
              /\ local.starting_tip \in Blocks /\ Sound(local.starting_tip)
              /\ \A c \in Path[local.starting_tip] : validity[c] = VALID_SCRIPTS
              /\ local.pindexMostWork # NoBlock =>
                    ~Worse(local.pindexMostWork, local.starting_tip, nSequenceId)
        /\ pc[t] = "find" =>
              /\ ~Worse(local.starting_tip, tip, nSequenceId)
              /\ local.pindexMostWork # tip
              /\ local.blocks_connected => local.pindexNewTip = tip
        /\ pc[t] = "release" =>
              /\ local.starting_tip \in Blocks
              /\ nChainWork[tip] >= nChainWork[local.starting_tip]
              /\ local.pindexMostWork # tip /\ ~local.blocks_connected

(* The target is the best sound chain, and so is the tip when there is     *)
(* none, unless a call of ActivateBestChain is still to come.              *)
TargetIsBest ==
    ~shutdown /\ (\A t \in Threads : pc[t] \notin {"link", "activate", "invalidate"}) =>
        /\ local.pindexMostWork # NoBlock =>
              \A b \in Blocks : Sound(b) => ~Worse(local.pindexMostWork, b, nSequenceId)
        /\ (\A t \in Threads : pc[t] = "idle") =>
              \A b \in Blocks : Sound(b) => ~Worse(tip, b, nSequenceId)

Progress == CandidatesKept /\ SectionProgress /\ TargetIsBest

StoredInv == ChainInv /\ NoneForgotten

(* The inductive invariant.                                                *)
IInv == StoredInv /\ (overlooked = {} => Progress)

-----------------------------------------------------------------------------
(* No stored block is forgotten.                                           *)

\* A step that stores nothing.
LEMMA WaitingStays ==
  ASSUME NoneForgotten, UNCHANGED <<haveData, haveTxsDownloaded, m_blocks_unlinked, queue, strays>>
  PROVE  NoneForgotten'
BY DEF NoneForgotten

\* Headers, blocks that are not stored, and commands change neither the
\* blocks stored nor the strays.
LEMMA ArrivalStores ==
  ASSUME NEW t, NEW b,
         \/ AcceptBlockHeader(b) \/ RefuseBlockHeader(b) \/ ProcessInvalidBlock(b)
         \/ ProcessOldBlock(t, b) \/ PreciousBlock(t, b) \/ InvalidateBlock(t, b) \/ ReconsiderBlock(t, b)
         \/ StartShutdown
  PROVE  UNCHANGED <<haveData, haveTxsDownloaded, m_blocks_unlinked, queue, strays>>
<1>1. CASE AcceptBlockHeader(b) \/ RefuseBlockHeader(b) \/ ProcessInvalidBlock(b) \/ ProcessOldBlock(t, b)
  BY <1>1 DEF AcceptBlockHeader, RefuseBlockHeader, ProcessInvalidBlock, ProcessOldBlock, index, history
<1>2. CASE PreciousBlock(t, b) \/ ReconsiderBlock(t, b)
  <2>1. UNCHANGED index /\ UNCHANGED strays
    BY Zenon, <1>2 DEF PreciousBlock, ReconsiderBlock
  <2> QED BY <2>1 DEF index
<1>3. CASE InvalidateBlock(t, b) \/ StartShutdown
  <2>1. UNCHANGED index /\ UNCHANGED history
    BY Zenon, <1>3 DEF InvalidateBlock, StartShutdown
  <2> QED BY <2>1 DEF index, history
<1> QED BY Zenon, <1>1, <1>2, <1>3

\* Nor do the steps of ActivateBestChain and InvalidateBlock.
LEMMA ThreadStores ==
  ASSUME NEW t \in Threads, Activation(t) \/ Invalidation(t)
  PROVE  UNCHANGED <<haveData, haveTxsDownloaded, m_blocks_unlinked, queue, history>>
<1>1. CASE ConnectTip(t)
  BY <1>1 DEF ConnectTip
<1>2. CASE ActivateBestChain(t) \/ NextSection(t) \/ LeaveLoop(t) \/ ActivateBestChainStep(t) \/ DiscardFailedChain(t)
  <2>1. UNCHANGED index /\ UNCHANGED history
    BY Zenon, <1>2 DEF ActivateBestChain, NextSection, LeaveLoop, ActivateBestChainStep, DiscardFailedChain
  <2> QED BY <2>1 DEF index
<1>3. CASE InvalidBlockFound(t) \/ InvalidateTip(t) \/ InvalidateEnd(t)
  <2>1. UNCHANGED index /\ UNCHANGED history
    BY Zenon, <1>3 DEF InvalidBlockFound, InvalidateTip, InvalidateEnd
  <2> QED BY <2>1 DEF index
<1> QED BY Zenon, <1>1, <1>2, <1>3 DEF Activation, Invalidation

\* A block is stored: it is linked, or waits, or is a stray.
LEMMA StoreKeeps ==
  ASSUME ChainInv, NoneForgotten, CsMainFree, NEW t \in Threads, NEW b \in Blocks \ {Genesis},
         ProcessNewBlock(t, b)
  PROVE  NoneForgotten'
<1>1. /\ haveData' = haveData \cup {b}
      /\ \/ queue' = <<b>> /\ UNCHANGED <<m_blocks_unlinked, strays>>
         \/ strays' = strays \cup {b} /\ UNCHANGED <<m_blocks_unlinked, queue>>
         \/ /\ m_blocks_unlinked' = [m_blocks_unlinked EXCEPT ![pprev[b]] = Append(@, b)]
            /\ UNCHANGED <<queue, strays>>
      /\ UNCHANGED haveTxsDownloaded
  BY DEF ProcessNewBlock, ReceivedBlockTransactions
<1>2. Elements(queue) = {} /\ Elements(<<b>>) = {b}
  <2>1. queue = <<>>
    BY DEF ChainInv, LocksExclude, CsMainFree
  <2> QED BY <2>1 DEF Elements
<1>3. Values([m_blocks_unlinked EXCEPT ![pprev[b]] = Append(@, b)]) = Values(m_blocks_unlinked) \cup {b}
  <2>1. m_blocks_unlinked \in [Blocks -> Seq(Blocks \ {Genesis})]
    BY DEF ChainInv, TypeOK
  <2>2. b \notin haveData
    BY DEF ProcessNewBlock, Wanted
  <2>3. ByParent(m_blocks_unlinked) /\ b \notin Values(m_blocks_unlinked)
    BY <2>2 DEF ChainInv, WaitingIsExact
  <2>4. pprev[b] \in Blocks
    BY ParentFacts
  <2> QED BY Zenon, <2>1, <2>3, <2>4, InsertFacts
<1>4. CASE queue' = <<b>> /\ UNCHANGED <<m_blocks_unlinked, strays>>
  BY <1>1, <1>2, <1>4 DEF NoneForgotten
<1>5. CASE strays' = strays \cup {b} /\ UNCHANGED <<m_blocks_unlinked, queue>>
  BY <1>1, <1>5 DEF NoneForgotten
<1>6. CASE /\ m_blocks_unlinked' = [m_blocks_unlinked EXCEPT ![pprev[b]] = Append(@, b)]
           /\ UNCHANGED <<queue, strays>>
  <2>1. Values(m_blocks_unlinked') = Values(m_blocks_unlinked) \cup {b}
    BY Zenon, <1>3, <1>6
  <2> QED BY <1>1, <1>6, <2>1 DEF NoneForgotten
<1> QED BY Zenon, <1>1, <1>4, <1>5, <1>6

\* A block is linked, and those that waited for it move to the queue.
LEMMA LinkKeeps ==
  ASSUME ChainInv, NoneForgotten, NEW t \in Threads, LinkBlock(t)
  PROVE  NoneForgotten'
<1>1. PICK x, range : LinkEffect(t, x, range)
  BY LinkBlockFacts
<1>2. /\ haveTxsDownloaded' = haveTxsDownloaded \cup {x}
      /\ Elements(queue') = (Elements(queue) \ {x}) \cup (Values(m_blocks_unlinked) \cap range)
      /\ Values(m_blocks_unlinked') = Values(m_blocks_unlinked) \ range
      /\ UNCHANGED haveData
  BY Zenon, <1>1 DEF LinkEffect
<1>3. UNCHANGED strays
  BY Zenon DEF LinkBlock, history
<1> QED BY <1>2, <1>3 DEF NoneForgotten

\* A restart links all it can, and lets the others wait.
LEMMA RestartKeeps ==
  ASSUME ChainInv, NEW t \in Threads, Restart(t)
  PROVE  NoneForgotten'
<1>1. Values(m_blocks_unlinked') = haveData \ haveTxsDownloaded' /\ UNCHANGED haveData
  BY RestartFacts
<1> QED BY <1>1 DEF NoneForgotten

\* Every step keeps the invariant.
LEMMA StoredNext ==
  ASSUME StoredInv, [Next]_vars
  PROVE  StoredInv'
<1>1. ChainInv /\ NoneForgotten /\ ChainInv'
  BY ChainNext DEF StoredInv
<1>2. CASE Arrival
  <2>1. PICK b \in Blocks \ {Genesis} :
          \/ AcceptBlockHeader(b) \/ RefuseBlockHeader(b) \/ ProcessInvalidBlock(b)
          \/ \E t \in Threads : ProcessNewBlock(t, b) \/ ProcessOldBlock(t, b)
    BY Zenon, <1>2 DEF Arrival
  <2>2. CASE \E t \in Threads : ProcessNewBlock(t, b)
    BY Zenon, <1>1, <1>2, <2>2, StoreKeeps DEF Arrival, StoredInv
  <2>3. CASE \/ AcceptBlockHeader(b) \/ RefuseBlockHeader(b) \/ ProcessInvalidBlock(b)
             \/ \E t \in Threads : ProcessOldBlock(t, b)
    <3>1. UNCHANGED <<haveData, haveTxsDownloaded, m_blocks_unlinked, queue, strays>>
      BY Zenon, <2>3, ArrivalStores
    <3> QED BY Zenon, <1>1, <3>1, WaitingStays DEF StoredInv
  <2> QED BY Zenon, <2>1, <2>2, <2>3
<1>3. CASE Commands
  <2>1. UNCHANGED <<haveData, haveTxsDownloaded, m_blocks_unlinked, queue, strays>>
    BY Zenon, <1>3, ArrivalStores DEF Commands
  <2> QED BY Zenon, <1>1, <2>1, WaitingStays DEF StoredInv
<1>4. CASE \E t \in Threads : LinkBlock(t) \/ Activation(t) \/ Invalidation(t) \/ Restart(t)
  <2>1. PICK t \in Threads : LinkBlock(t) \/ Activation(t) \/ Invalidation(t) \/ Restart(t)
    BY <1>4
  <2>2. CASE Activation(t) \/ Invalidation(t)
    BY <1>1, <2>2, ThreadStores, WaitingStays DEF StoredInv, history
  <2> QED BY Zenon, <1>1, <2>1, <2>2, LinkKeeps, RestartKeeps DEF StoredInv
<1>5. CASE UNCHANGED vars
  <2>1. UNCHANGED <<haveData, haveTxsDownloaded, m_blocks_unlinked, queue, strays>>
    BY <1>5 DEF vars, index, history
  <2> QED BY <2>1, <1>1, WaitingStays DEF StoredInv
<1> QED BY <1>2, <1>3, <1>4, <1>5 DEF Next

\* The first state.
LEMMA StoredInit ==
  ASSUME Init
  PROVE  StoredInv
BY Zenon, ChainInit DEF Init, StoredInv, NoneForgotten

\* When the whole chain of a block is stored and none of it is a stray, it is
\* linked: going up the chain, no block of it can be the first that waits.
LEMMA StoredIsLinked ==
  ASSUME ChainInv, NoneForgotten, queue = <<>>, NEW b \in Blocks,
         Path[b] \subseteq haveData, ~BelowAStray(b)
  PROVE  Path[b] \subseteq haveTxsDownloaded
<1> DEFINE A == {c \in Blocks : c \in Path[b] => c \in haveTxsDownloaded}
<1>1. Genesis \in A
  BY TreeAssumption DEF ChainInv, IndexIsATree
<1>2. ASSUME NEW c \in Blocks \ {Genesis}, pprev[c] \in A PROVE c \in A
  <2>1. SUFFICES ASSUME c \in Path[b] PROVE c \in haveTxsDownloaded
    OBVIOUS
  <2>2. Path[c] \subseteq Path[b] /\ Path[c] = {c} \cup Path[pprev[c]] /\ pprev[c] \in Path[pprev[c]]
    BY <2>1, PathClosed, PathType, ParentFacts
  <2>3. pprev[c] \in haveTxsDownloaded
    BY Zenon, <1>2, <2>2
  <2>4. c \in haveTxsDownloaded \cup Values(m_blocks_unlinked) \cup Elements(queue)
    BY <2>1, <2>2 DEF NoneForgotten, BelowAStray
  <2>5. Elements(queue) = {}
    BY DEF Elements
  <2>6. c \notin Values(m_blocks_unlinked)
    BY Zenon, <2>3 DEF ChainInv, WaitingIsExact
  <2> QED BY Zenon, <2>4, <2>5, <2>6
<1>3. Blocks \subseteq A
  <2> HIDE DEF A
  <2> QED BY Zenon, <1>1, <1>2, TreeInduction
<1> QED BY <1>3, PathType

\* The invariant says what CheckBlockIndex asserts of the waiting blocks.
LEMMA UnlinkedFollows ==
  ASSUME StoredInv
  PROVE  UnlinkedIsExact
<1> USE DEF StoredInv
<1>1. SUFFICES ASSUME queue = <<>>, NEW b \in haveData \cup haveTxsDownloaded
      PROVE  /\ b \in haveTxsDownloaded => Path[b] \subseteq haveData
             /\ ~BelowAStray(b) =>
                  /\ b \in haveTxsDownloaded <=> Path[b] \subseteq haveData
                  /\ b \in Values(m_blocks_unlinked) <=> b \notin haveTxsDownloaded
  BY DEF UnlinkedIsExact
<1>2. b \in haveData /\ b \in Blocks /\ b \in Path[b] /\ haveTxsDownloaded \subseteq haveData
  BY Zenon, PathType DEF ChainInv, TypeOK
<1>3. b \in haveTxsDownloaded => Path[b] \subseteq haveData
  BY <1>2 DEF ChainInv, IndexIsATree
<1>4. ASSUME ~BelowAStray(b), Path[b] \subseteq haveData PROVE b \in haveTxsDownloaded
  BY ZenonT(40), <1>1, <1>2, <1>4, StoredIsLinked
<1>5. b \in Values(m_blocks_unlinked) => b \notin haveTxsDownloaded
  BY DEF ChainInv, WaitingIsExact
<1>6. ASSUME ~BelowAStray(b), b \notin haveTxsDownloaded PROVE b \in Values(m_blocks_unlinked)
  <2>1. Elements(queue) = {}
    BY <1>1 DEF Elements
  <2> QED BY Zenon, <1>2, <1>6, <2>1 DEF NoneForgotten, BelowAStray
<1> QED BY Zenon, <1>3, <1>4, <1>5, <1>6

\* ReceivedBlockTransactions: a block is linked only when its whole chain was
\* stored; if no block of it came while its parent was marked as failed, it is
\* linked exactly then, and waits in m_blocks_unlinked exactly when not.  For
\* every tree of blocks, whatever the order in which they come and whatever
\* the commands.
THEOREM UnlinkedCorrect == Spec => []UnlinkedIsExact
<1>1. Init => StoredInv
  BY StoredInit
<1>2. StoredInv /\ [Next]_vars => StoredInv'
  BY Zenon, StoredNext
<1>3. StoredInv => UnlinkedIsExact
  BY Zenon, UnlinkedFollows
<1> QED BY <1>1, <1>2, <1>3, PTL DEF Spec

-----------------------------------------------------------------------------
(* The candidates are complete, a section makes progress, and its target   *)
(* is the best.                                                            *)

FailuresStay == \A c \in haveTxsDownloaded : IsFailed(c) => IsFailed(c)'

\* A step that removes failed candidates only.
LEMMA KeptStays ==
  ASSUME CandidatesKept, FailuresStay, UNCHANGED <<tip, nSequenceId, haveTxsDownloaded>>,
         \A c \in setBlockIndexCandidates \ setBlockIndexCandidates' : IsFailed(c)',
         \A t \in Threads : pc[t] = "invalidate" =>
             pc'[t] = "invalidate" /\ local'.to_mark_failed = local.to_mark_failed,
         \A t \in Threads : pc[t] \in {"find", "connect"} =>
             pc'[t] \in {"find", "connect"} /\ local'.starting_tip = local.starting_tip
  PROVE  CandidatesKept'
<1>1. SUFFICES ASSUME TipUntouched', NEW b \in haveTxsDownloaded', ~IsFailed(b)', NotWorseThanTips(b)'
               PROVE  b \in setBlockIndexCandidates'
  BY Zenon DEF CandidatesKept
<1>2. TipUntouched
  BY <1>1 DEF TipUntouched, InChain
<1>3. NotWorseThanTips(b)
  BY Zenon, <1>1 DEF NotWorseThanTips, Worse
<1>4. b \in setBlockIndexCandidates
  BY Zenon, <1>1, <1>2, <1>3 DEF CandidatesKept, FailuresStay
<1> QED BY <1>1, <1>4

\* A step outside the sections.
LEMMA SectionStays ==
  ASSUME SectionProgress, \A t \in Threads : pc'[t] \notin {"find", "connect"},
         \A t \in Threads : pc'[t] = "release" => pc[t] = "release" /\ tip' = tip /\ local' = local
  PROVE  SectionProgress'
BY DEF SectionProgress

\* A thread that has still to call ActivateBestChain.
LEMMA StillToCome ==
  ASSUME NEW t \in Threads, pc'[t] \in {"link", "activate", "invalidate"}
  PROVE  TargetIsBest'
BY Zenon DEF TargetIsBest

\* What is sound after a step that only adds failures was sound before.
LEMMA SoundBefore ==
  ASSUME FailuresStay, haveTxsDownloaded' = haveTxsDownloaded, NEW b, Sound(b)'
  PROVE  Sound(b)
BY Zenon DEF Sound, FailuresStay

\* A step that leaves the target and only adds failures.
LEMMA BestStays ==
  ASSUME TargetIsBest, FailuresStay,
         UNCHANGED <<haveTxsDownloaded, tip, nSequenceId, pc, local, shutdown>>
  PROVE  TargetIsBest'
<1>1. \A b \in Blocks : Sound(b)' => Sound(b)
  BY SoundBefore
<1> QED BY <1>1 DEF TargetIsBest, Worse

\* Headers, blocks and a shutdown do not disturb what is known.
LEMMA QuietProgress ==
  ASSUME ChainInv, Progress, CsMainFree, FailuresStay,
         UNCHANGED <<tip, nSequenceId, setBlockIndexCandidates, haveTxsDownloaded, local>>,
         \/ pc' = pc /\ (shutdown' = shutdown \/ shutdown' = TRUE)
         \/ \E t \in Threads, to \in {"link", "activate"} : pc[t] = "idle" /\ pc' = [pc EXCEPT ![t] = to]
  PROVE  Progress'
<1> USE DEF Progress
<1>1. \A u \in Threads : pc'[u] = pc[u] \/ (pc[u] = "idle" /\ pc'[u] \in {"link", "activate"})
  BY DEF ChainInv, TypeOK
<1>2. \A u \in Threads : pc[u] \notin {"find", "connect"} /\ pc'[u] \notin {"find", "connect"}
  BY <1>1 DEF CsMainFree
<1>3. CandidatesKept'
  BY Zenon, <1>1, <1>2, KeptStays
<1>4. SectionProgress'
  BY <1>1, <1>2, SectionStays
<1>5. TargetIsBest'
  <2>1. CASE pc' = pc /\ shutdown' = shutdown
    BY Zenon, <2>1, BestStays
  <2>2. CASE shutdown' = TRUE
    BY <2>2 DEF TargetIsBest
  <2>3. CASE \E t \in Threads, to \in {"link", "activate"} : pc[t] = "idle" /\ pc' = [pc EXCEPT ![t] = to]
    <3>1. PICK t \in Threads, to \in {"link", "activate"} : pc[t] = "idle" /\ pc' = [pc EXCEPT ![t] = to]
      BY ZenonT(40), <2>3
    <3>2. pc'[t] = to
      BY <3>1 DEF ChainInv, TypeOK
    <3> QED BY <3>2, StillToCome
  <2> QED BY Zenon, <2>1, <2>2, <2>3
<1> QED BY Zenon, <1>3, <1>4, <1>5

\* Headers and blocks.
LEMMA ArrivalProgress ==
  ASSUME ChainInv, Progress, Arrival
  PROVE  Progress'
<1>1. PICK b \in Blocks \ {Genesis} :
        \/ AcceptBlockHeader(b) \/ RefuseBlockHeader(b) \/ ProcessInvalidBlock(b)
        \/ \E t \in Threads : ProcessNewBlock(t, b) \/ ProcessOldBlock(t, b)
  BY DEF Arrival
<1>2. CsMainFree
  BY DEF Arrival
<1>3. CASE AcceptBlockHeader(b) \/ RefuseBlockHeader(b) \/ ProcessInvalidBlock(b)
  <2>1. UNCHANGED <<tip, nSequenceId, setBlockIndexCandidates, haveTxsDownloaded, local, pc, shutdown>>
    BY ZenonT(40), <1>3 DEF AcceptBlockHeader, RefuseBlockHeader, ProcessInvalidBlock, index
  <2>2. failedValid \subseteq failedValid' /\ failedChild \subseteq failedChild'
    BY <1>3 DEF AcceptBlockHeader, RefuseBlockHeader, ProcessInvalidBlock, flags
  <2>3. FailuresStay
    BY <2>2 DEF FailuresStay, IsFailed
  <2> QED BY Zenon, <1>2, <2>1, <2>3, QuietProgress
<1>4. ASSUME NEW t \in Threads, ProcessNewBlock(t, b) \/ ProcessOldBlock(t, b) PROVE Progress'
  <2>1. UNCHANGED <<tip, nSequenceId, setBlockIndexCandidates, haveTxsDownloaded, local, flags>>
    BY <1>4 DEF ProcessNewBlock, ProcessOldBlock
  <2>2. FailuresStay
    BY <2>1 DEF FailuresStay, IsFailed, flags
  <2>3. pc[t] = "idle" /\ (pc' = [pc EXCEPT ![t] = "link"] \/ pc' = [pc EXCEPT ![t] = "activate"])
    BY <1>4 DEF ProcessNewBlock, ProcessOldBlock, ReceivedBlockTransactions, Step
  <2> QED BY Zenon, <1>2, <2>1, <2>2, <2>3, QuietProgress
<1> QED BY <1>1, <1>3, <1>4

\* A linked block that is not worse than the tip becomes a candidate.
LEMMA LinkProgress ==
  ASSUME ChainInv, Progress, NEW t \in Threads, LinkBlock(t)
  PROVE  Progress'
<1> USE DEF Progress
<1>0. PICK x, range : LinkEffect(t, x, range)
  BY Zenon, LinkBlockFacts
<1>1. /\ pc[t] = "link" /\ x \notin haveTxsDownloaded /\ x \in Blocks
      /\ haveTxsDownloaded' = haveTxsDownloaded \cup {x}
      /\ \A c \in Blocks : c # x => nSequenceId'[c] = nSequenceId[c]
      /\ setBlockIndexCandidates' = setBlockIndexCandidates \cup {c \in {x} : ~Worse(c, tip, nSequenceId')}
      /\ pc' = [pc EXCEPT ![t] = IF queue' = <<>> THEN "activate" ELSE "link"]
      /\ UNCHANGED <<failedValid, failedChild, tip, local>>
  BY Zenon, <1>0 DEF LinkEffect, flags
<1>2. pc'[t] \in {"link", "activate"} /\ \A u \in Threads : u # t => pc'[u] = pc[u]
  BY <1>1 DEF ChainInv, TypeOK
<1>3. \A u \in Threads : pc[u] \notin {"find", "connect"} /\ pc'[u] \notin {"find", "connect"}
  BY SMTT(40), <1>1, <1>2 DEF ChainInv, LocksExclude, HoldingCsMain
<1>4. tip \in haveTxsDownloaded /\ tip \in Blocks /\ haveTxsDownloaded \subseteq Blocks
  BY ZenonT(40), PathType DEF ChainInv, TypeOK, ActiveChainIsValid
<1>5. CandidatesKept'
  <2>1. SUFFICES ASSUME TipUntouched', NEW b \in haveTxsDownloaded', ~IsFailed(b)', NotWorseThanTips(b)'
                 PROVE  b \in setBlockIndexCandidates'
    BY Zenon DEF CandidatesKept
  <2>2. ~Worse(b, tip, nSequenceId')
    BY Zenon, <1>1, <2>1 DEF NotWorseThanTips, Worse
  <2>3. CASE b = x
    BY Zenon, <1>1, <2>2, <2>3
  <2>4. CASE b # x
    <3>1. b \in haveTxsDownloaded /\ b \in Blocks /\ ~IsFailed(b)
      BY ZenonT(40), <1>1, <1>4, <2>1, <2>4 DEF IsFailed
    <3>2. ~Worse(b, tip, nSequenceId)
      <4>1. nSequenceId'[b] = nSequenceId[b] /\ nSequenceId'[tip] = nSequenceId[tip]
        BY ZenonT(40), <1>1, <1>4, <2>4, <3>1
      <4> QED BY <4>1, <2>2 DEF Worse
    <3>3. TipUntouched
      BY Zenon, <1>1, <1>2, <2>1 DEF TipUntouched, InChain
    <3>4. NotWorseThanTips(b)
      BY <1>3, <3>2 DEF NotWorseThanTips
    <3> QED BY Zenon, <1>1, <3>1, <3>3, <3>4 DEF CandidatesKept
  <2> QED BY <2>3, <2>4
<1>6. SectionProgress'
  BY <1>1, <1>2, <1>3, SectionStays
<1>7. TargetIsBest'
  BY Zenon, <1>2, StillToCome
<1> QED BY <1>5, <1>6, <1>7

-----------------------------------------------------------------------------
(* Sections.                                                               *)

\* Who is in a section is alone with its locals.
LEMMA OneSection ==
  ASSUME ChainInv, NEW t \in Threads, pc[t] \in {"find", "connect"}
  PROVE  /\ TipUntouched
         /\ \A u \in Threads : u # t => pc[u] \notin Owning /\ pc[u] # "link"
         /\ \A b : NotWorseThanTips(b) <=> /\ ~Worse(b, tip, nSequenceId)
                                           /\ ~Worse(b, local.starting_tip, nSequenceId)
<1>1. \A u \in Threads : u # t => pc[u] \notin Owning /\ pc[u] # "link"
  BY DEF ChainInv, LocksExclude, Owning, HoldingCsMain
<1>2. TipUntouched
  BY Zenon, <1>1 DEF TipUntouched, Owning
<1> QED BY <1>1, <1>2 DEF NotWorseThanTips, Owning

\* No other thread is in a section, or was.
LEMMA SectionOfOwner ==
  ASSUME NEW t \in Threads, \A u \in Threads : u # t => pc'[u] \notin Owning,
         pc'[t] = "idle"
  PROVE  SectionProgress'
BY DEF SectionProgress, Owning

\* While a thread looks for the best chain, the tip it began with is a candidate.
LEMMA StartingIsCandidate ==
  ASSUME ChainInv, Progress, NEW t \in Threads, pc[t] = "find"
  PROVE  /\ local.starting_tip \in setBlockIndexCandidates /\ local.starting_tip \in Blocks
         /\ ~Worse(local.starting_tip, tip, nSequenceId)
<1> DEFINE s == local.starting_tip
<1>1. s \in Blocks /\ Sound(s) /\ ~Worse(s, tip, nSequenceId)
  BY Zenon DEF Progress, SectionProgress
<1>2. s \in haveTxsDownloaded /\ ~IsFailed(s)
  BY SMTT(40), <1>1, PathType DEF Sound
<1>3. ~Worse(s, s, nSequenceId)
  BY Zenon, <1>1, WorseIsAnOrder DEF ChainInv, TypeOK
<1>4. TipUntouched /\ NotWorseThanTips(s)
  BY ZenonT(40), <1>1, <1>3, OneSection
<1> QED BY ZenonT(40), <1>1, <1>2, <1>4 DEF Progress, CandidatesKept

\* FindMostWorkChain returns the best chain there is, and it is not worse
\* than the one the section began with.
LEMMA MostWorkIsBest ==
  ASSUME ChainInv, Progress, NEW t \in Threads, FindMostWorkChain(t)
  PROVE  /\ MostWork # NoBlock /\ MostWork \in Blocks /\ Sound(MostWork)
         /\ ~Worse(MostWork, local.starting_tip, nSequenceId)
         /\ MostWork = tip => local.pindexMostWork = NoBlock /\ tip = local.starting_tip
         /\ local.pindexMostWork = NoBlock =>
               \A b \in Blocks : Sound(b) => ~Worse(MostWork, b, nSequenceId)
<1> DEFINE s == local.starting_tip
           m == MostWork
<1>1. pc[t] = "find"
  BY DEF FindMostWorkChain
<1>2. s \in setBlockIndexCandidates /\ s \in Blocks /\ ~Worse(s, tip, nSequenceId)
  BY Zenon, <1>1, StartingIsCandidate
<1>3. m # NoBlock
  <2>1. TypeOK /\ setBlockIndexCandidates # {} /\ NoBlock \notin Blocks
    BY ZenonT(40), <1>2, TreeAssumption DEF ChainInv
  <2>2. BestCandidate \in Blocks
    BY <2>1, BestCandidateFacts DEF TypeOK
  <2> QED BY Zenon, <2>1, <2>2 DEF MostWork
<1>4. m \in Blocks /\ Sound(m)
  BY <1>3, MostWorkIsSound
<1>5. nSequenceId \in [Blocks -> Int] /\ tip \in Blocks /\ setBlockIndexCandidates \subseteq Blocks
  BY ZenonT(40) DEF ChainInv, TypeOK
<1>6. CASE local.pindexMostWork # NoBlock
  <2>1. m = local.pindexMostWork
    BY Zenon, <1>6 DEF MostWork
  <2>2. ~Worse(m, s, nSequenceId) /\ m # tip
    BY Zenon, <1>1, <1>6, <2>1 DEF Progress, SectionProgress
  <2> QED BY Zenon, <1>3, <1>4, <1>6, <2>2
<1>7. CASE local.pindexMostWork = NoBlock
  <2>1. /\ m \in setBlockIndexCandidates
        /\ \A c \in setBlockIndexCandidates \ {m} : Worse(c, m, nSequenceId)
    BY ZenonT(40), <1>2, <1>7, BestCandidateFacts DEF MostWork, ChainInv
  <2> HIDE DEF m, s
  <2>2. ~Worse(m, s, nSequenceId)
    BY ZenonT(40), <1>2, <1>4, <1>5, <2>1, WorseIsAnOrder
  <2>3. ASSUME m = tip PROVE tip = s
    BY Zenon, <1>2, <2>1, <2>3
  <2>4. ASSUME NEW b \in Blocks, Sound(b), Worse(m, b, nSequenceId) PROVE FALSE
    <3>1. ~Worse(b, m, nSequenceId)
      BY Zenon, <1>4, <1>5, <2>4, WorseIsAnOrder
    <3>2. ~Worse(b, s, nSequenceId)
      BY Zenon, <1>2, <1>4, <1>5, <2>2, <3>1, WorseIsAnOrder
    <3>3. ~Worse(b, tip, nSequenceId)
      BY ZenonT(40), <1>2, <1>5, <3>2, WorseIsAnOrder
    <3>4. b \in haveTxsDownloaded /\ ~IsFailed(b)
      BY <2>4, PathType DEF Sound
    <3>5. b \in setBlockIndexCandidates
      <4>1. TipUntouched /\ NotWorseThanTips(b)
        BY <1>1, <3>2, <3>3, OneSection DEF s
      <4> QED BY Zenon, <3>4, <4>1 DEF Progress, CandidatesKept
    <3>6. b # m
      BY ZenonT(40), <1>4, <1>5, <2>4, WorseIsAnOrder
    <3> QED BY Zenon, <2>1, <3>1, <3>5, <3>6
  <2> QED BY Zenon, <1>3, <1>4, <1>7, <2>2, <2>3, <2>4 DEF m, s
<1> QED BY <1>6, <1>7

-----------------------------------------------------------------------------
\* A section begins with the tip, and with no target or the one before.
LEMMA BeginProgress ==
  ASSUME ChainInv, Progress, NEW t \in Threads, ActivateBestChain(t) \/ NextSection(t)
  PROVE  Progress'
<1> USE DEF Progress
<1>1. /\ CsMainFree /\ pc[t] \in {"activate", "release"} /\ pc' = [pc EXCEPT ![t] = "find"]
      /\ pc[t] = "activate" => MutexFree
      /\ local' = [local EXCEPT !.starting_tip = tip]
      /\ UNCHANGED <<index, flags, nSequenceId, setBlockIndexCandidates, tip, shutdown>>
  BY DEF ActivateBestChain, NextSection, Step
<1>2. /\ pc'[t] = "find" /\ \A u \in Threads : u # t => pc'[u] = pc[u] /\ pc[u] \notin Owning
      /\ \A u \in Threads : pc[u] \notin {"find", "connect", "invalidate", "link"}
  BY <1>1 DEF ChainInv, TypeOK, LocksExclude, CsMainFree, MutexFree, Owning
<1>3. /\ local'.starting_tip = tip /\ local'.pindexMostWork = local.pindexMostWork
      /\ local'.blocks_connected = local.blocks_connected
  BY Zenon, <1>1 DEF ChainInv, TypeOK
<1>4. UNCHANGED <<validity, haveTxsDownloaded, failedValid, failedChild>>
  BY <1>1 DEF index, flags
<1>5. pc[t] = "activate" => local = NoLocal
  BY <1>1, <1>2 DEF ChainInv, LocksExclude, Owning
<1>6. local.pindexMostWork # tip /\ ~local.blocks_connected
  <2>1. CASE pc[t] = "activate"
    <3>1. NoLocal.pindexMostWork = NoBlock /\ ~NoLocal.blocks_connected
      BY Zenon DEF NoLocal
    <3>2. tip # NoBlock
      BY Zenon, TreeAssumption DEF ChainInv, TypeOK
    <3> QED BY Zenon, <1>5, <2>1, <3>1, <3>2
  <2>2. CASE pc[t] = "release"
    BY Zenon, <2>2 DEF SectionProgress
  <2> QED BY Zenon, <1>1, <2>1, <2>2
<1>7. ASSUME local.pindexMostWork # NoBlock PROVE ~Worse(local.pindexMostWork, tip, nSequenceId)
  <2> DEFINE m == local.pindexMostWork
  <2>1. pc[t] = "release"
    <3>1. NoLocal.pindexMostWork = NoBlock
      BY Zenon DEF NoLocal
    <3> QED BY Zenon, <1>1, <1>5, <1>7, <3>1
  <2>2. m \in Blocks /\ tip \in Path[m] /\ tip \in Blocks /\ nSequenceId \in [Blocks -> Int]
    BY ZenonT(40), <1>7, <2>1 DEF ChainInv, TypeOK, TargetIsSound
  <2> HIDE DEF m
  <2>3. m # tip => Worse(tip, m, nSequenceId)
    BY <2>2, AncestorIsWorse
  <2>4. ~Worse(m, tip, nSequenceId)
    BY <2>2, <2>3, WorseIsAnOrder
  <2> QED BY <2>4 DEF m
<1>8. CandidatesKept'
  <2>1. SUFFICES ASSUME NEW b \in haveTxsDownloaded', ~IsFailed(b)', NotWorseThanTips(b)'
                 PROVE  b \in setBlockIndexCandidates'
    BY Zenon DEF CandidatesKept
  <2>2. TipUntouched
    BY Zenon, <1>2 DEF TipUntouched
  <2>3. NotWorseThanTips(b)
    BY <1>1, <1>2, <2>1 DEF NotWorseThanTips, Worse
  <2> QED BY ZenonT(40), <1>1, <1>4, <2>1, <2>2, <2>3 DEF CandidatesKept, IsFailed
<1>9. SectionProgress'
  <2>1. tip \in Blocks /\ Sound(tip)' /\ (\A c \in Path[tip] : validity'[c] = VALID_SCRIPTS)
    BY ZenonT(40), <1>1, <1>4 DEF ChainInv, TypeOK, ActiveChainIsValid, Sound, IsFailed
  <2>2. Sound(local.starting_tip)'
    BY Zenon, <1>1, <1>3, <2>1 DEF Sound
  <2>3. ~Worse(tip, tip, nSequenceId)
    BY Zenon, <2>1, WorseIsAnOrder DEF ChainInv, TypeOK
  <2> QED BY ZenonT(40), <1>1, <1>2, <1>3, <1>6, <1>7, <2>1, <2>2, <2>3 DEF SectionProgress, Owning, Worse
<1>10. TargetIsBest'
  <2>1. CASE pc[t] = "activate"
    <3>1. local'.pindexMostWork = NoBlock
      BY <1>3, <1>5, <2>1 DEF NoLocal
    <3> QED BY <1>2, <3>1 DEF TargetIsBest
  <2>2. CASE pc[t] = "release"
    <3>1. \A b \in Blocks : Sound(b)' => Sound(b)
      BY <1>4 DEF Sound, IsFailed
    <3>2. \A u \in Threads : pc[u] = pc'[u] \/ (u = t /\ pc[u] = "release")
      BY ZenonT(40), <1>2, <2>2
    <3> QED BY Zenon, <1>1, <1>2, <1>3, <3>1, <3>2 DEF TargetIsBest, Worse
  <2> QED BY ZenonT(40), <1>1, <2>1, <2>2
<1> QED BY Zenon, <1>8, <1>9, <1>10

\* FindMostWorkChain discards failed candidates only.
LEMMA DiscardProgress ==
  ASSUME ChainInv, Progress, NEW t \in Threads, DiscardFailedChain(t)
  PROVE  Progress'
<1> USE DEF Progress
<1>1. /\ pc[t] = "find" /\ local.pindexMostWork = NoBlock
      /\ UNCHANGED <<index, failedValid, nSequenceId, tip, pc, local, shutdown>>
  BY DEF DiscardFailedChain
<1>2. failedChild \subseteq failedChild'
  BY DEF DiscardFailedChain
<1>3. /\ FailuresSpread
      /\ \A c \in setBlockIndexCandidates \ setBlockIndexCandidates' : IsFailed(c)'
  BY DiscardFailedChainChain
<1>4. UNCHANGED <<validity, haveTxsDownloaded>>
  BY <1>1 DEF index
<1>5. FailuresStay
  BY <1>1, <1>2 DEF FailuresStay, IsFailed
<1>6. CandidatesKept'
  BY Zenon, <1>1, <1>3, <1>4, <1>5, KeptStays
<1>7. SectionProgress'
  <2>1. \A b \in Blocks : Sound(b) => Sound(b)'
    BY <1>3, <1>4, SoundStays
  <2>2. \A u \in Threads : pc[u] \in {"find", "connect"} => Sound(local.starting_tip)'
    <3> DEFINE s == local.starting_tip
    <3>1. ASSUME NEW u \in Threads, pc[u] \in {"find", "connect"} PROVE Sound(s)'
      <4>1. s \in Blocks /\ Sound(s)
        BY ZenonT(40), <3>1 DEF SectionProgress
      <4> HIDE DEF s
      <4>2. \A c \in Path[s] : ~IsFailed(c)' /\ c \in haveTxsDownloaded'
        BY Zenon, <4>1, <2>1 DEF Sound
      <4> QED BY SMTT(40), <4>2, <1>1 DEF Sound, s
    <3> QED BY Zenon, <3>1
  <2> QED BY Zenon, <1>1, <1>4, <2>2 DEF SectionProgress, Worse
<1>8. TargetIsBest'
  BY <1>1 DEF TargetIsBest
<1> QED BY <1>6, <1>7, <1>8

\* ActivateBestChain returns: the tip is the best candidate.
LEMMA LeaveProgress ==
  ASSUME ChainInv, Progress, NEW t \in Threads, LeaveLoop(t)
  PROVE  Progress'
<1> USE DEF Progress
<1> DEFINE l == [local EXCEPT !.pindexMostWork = MostWork]
<1>1. /\ FindMostWorkChain(t) /\ MostWork \in {NoBlock, tip} /\ pc[t] = "find"
      /\ EndSection(t, l, local.pindexNewTip)
      /\ UNCHANGED <<index, flags, nSequenceId, setBlockIndexCandidates, tip, shutdown>>
  BY DEF LeaveLoop, FindMostWorkChain
<1>2. /\ MostWork = tip /\ tip = local.starting_tip
      /\ \A b \in Blocks : Sound(b) => ~Worse(tip, b, nSequenceId)
  BY Zenon, <1>1, MostWorkIsBest
<1>3. l.blocks_connected = local.blocks_connected /\ l.pindexMostWork = tip
  BY <1>2 DEF ChainInv, TypeOK
<1>4. local.blocks_connected => local.pindexNewTip = tip
  BY <1>1 DEF SectionProgress
<1>5. pc' = [pc EXCEPT ![t] = "idle"] /\ local' = NoLocal
  <2>1. TypeOK
    BY DEF ChainInv
  <2> HIDE DEF l
  <2> QED BY Zenon, <1>1, <1>3, <1>4, <2>1, EndSectionFacts
<1>6. \A u \in Threads : u # t => pc[u] \notin Owning /\ pc[u] # "link"
  BY <1>1, OneSection
<1>7. pc'[t] = "idle" /\ \A u \in Threads : u # t => pc'[u] = pc[u]
  BY <1>5 DEF ChainInv, TypeOK
<1>8. UNCHANGED <<haveTxsDownloaded, failedValid, failedChild>>
  BY <1>1 DEF index, flags
<1>9. CandidatesKept'
  <2>1. SUFFICES ASSUME NEW b \in haveTxsDownloaded', ~IsFailed(b)', NotWorseThanTips(b)'
                 PROVE  b \in setBlockIndexCandidates'
    BY DEF CandidatesKept
  <2>2. ~Worse(b, tip, nSequenceId)
    BY <1>1, <2>1 DEF NotWorseThanTips, Worse
  <2>3. TipUntouched /\ NotWorseThanTips(b)
    BY ZenonT(40), <1>1, <1>2, <2>2, OneSection
  <2> QED BY <1>1, <1>8, <2>1, <2>3 DEF CandidatesKept, IsFailed
<1>10. SectionProgress'
  BY <1>6, <1>7, SectionOfOwner
<1>11. TargetIsBest'
  <2>1. local'.pindexMostWork = NoBlock
    BY <1>5 DEF NoLocal
  <2>2. \A b \in Blocks : Sound(b)' => Sound(b)
    BY <1>8 DEF Sound, IsFailed
  <2> QED BY Zenon, <1>1, <1>2, <2>1, <2>2 DEF TargetIsBest, Worse
<1> QED BY <1>9, <1>10, <1>11

\* The way to the target begins: down to the fork.
LEMMA StepProgress ==
  ASSUME ChainInv, Progress, NEW t \in Threads, ActivateBestChainStep(t)
  PROVE  Progress'
<1> USE DEF Progress
<1> DEFINE m == MostWork
<1>1. /\ FindMostWorkChain(t) /\ m # tip /\ pc[t] = "find"
      /\ pc' = [pc EXCEPT ![t] = "connect"]
      /\ local' = [local EXCEPT !.pindexMostWork = m, !.pindexOldTip = tip]
      /\ UNCHANGED <<index, flags, nSequenceId, setBlockIndexCandidates, shutdown>>
  BY DEF ActivateBestChainStep, FindMostWorkChain
<1>2. /\ m # NoBlock /\ ~Worse(m, local.starting_tip, nSequenceId)
      /\ local.pindexMostWork = NoBlock => \A b \in Blocks : Sound(b) => ~Worse(m, b, nSequenceId)
  BY <1>1, MostWorkIsBest
<1>3. local.pindexMostWork # NoBlock => m = local.pindexMostWork
  BY DEF MostWork
<1> HIDE DEF m
<1>4. local'.pindexMostWork = m /\ local'.starting_tip = local.starting_tip
  BY <1>1 DEF ChainInv, TypeOK
<1>5. \A u \in Threads : u # t => pc[u] \notin Owning /\ pc[u] # "link"
  BY Zenon, <1>1, OneSection
<1>6. pc'[t] = "connect" /\ \A u \in Threads : u # t => pc'[u] = pc[u]
  BY <1>1 DEF ChainInv, TypeOK
<1>7. UNCHANGED <<validity, haveTxsDownloaded, failedValid, failedChild>>
  BY <1>1 DEF index, flags
<1>8. CandidatesKept'
  <2>1. SUFFICES ASSUME NEW b \in haveTxsDownloaded', ~IsFailed(b)', NotWorseThanTips(b)'
                 PROVE  b \in setBlockIndexCandidates'
    BY DEF CandidatesKept
  <2>2. ~Worse(b, local.starting_tip, nSequenceId)
    BY ZenonT(40), <1>1, <1>4, <1>6, <2>1 DEF NotWorseThanTips, Worse
  <2>3. ~Worse(b, tip, nSequenceId)
    <3>1. local.starting_tip \in Blocks /\ ~Worse(local.starting_tip, tip, nSequenceId)
      BY Zenon, <1>1 DEF SectionProgress
    <3>2. b \in Blocks /\ tip \in Blocks /\ nSequenceId \in [Blocks -> Int]
      BY <1>7 DEF ChainInv, TypeOK
    <3> QED BY <2>2, <3>1, <3>2, WorseIsAnOrder
  <2>4. TipUntouched /\ NotWorseThanTips(b)
    BY Zenon, <1>1, <2>2, <2>3, OneSection
  <2> QED BY <1>1, <1>7, <2>1, <2>4 DEF CandidatesKept, IsFailed
<1>9. SectionProgress'
  <2>1. local.starting_tip \in Blocks /\ Sound(local.starting_tip)
        /\ \A c \in Path[local.starting_tip] : validity[c] = VALID_SCRIPTS
    BY <1>1 DEF SectionProgress
  <2>2. Sound(local.starting_tip)'
    BY <1>4, <1>7, <2>1 DEF Sound, IsFailed
  <2> QED BY ZenonT(40), <1>1, <1>2, <1>4, <1>5, <1>6, <1>7, <2>1, <2>2 DEF SectionProgress, Owning, Worse
<1>10. TargetIsBest'
  <2>1. \A b \in Blocks : Sound(b)' => Sound(b)
    BY SMTT(40), <1>7 DEF Sound, IsFailed
  <2>2. ASSUME ~shutdown, \A u \in Threads : pc'[u] \notin {"link", "activate", "invalidate"}
        PROVE  \A b \in Blocks : Sound(b) => ~Worse(m, b, nSequenceId)
    <3>1. \A u \in Threads : pc[u] \notin {"link", "activate", "invalidate"}
      BY <1>1, <1>6, <2>2
    <3> QED BY <1>2, <1>3, <2>2, <3>1 DEF TargetIsBest
  <2> QED BY Zenon, <1>1, <1>4, <1>6, <2>1, <2>2 DEF TargetIsBest, Worse
<1> QED BY <1>8, <1>9, <1>10

\* A block is connected on the way to the target.
LEMMA ConnectProgress ==
  ASSUME ChainInv, Progress, NEW t \in Threads, ConnectTip(t)
  PROVE  Progress'
<1> USE DEF Progress
<1> DEFINE n == NextToConnect
           m == local.pindexMostWork
           s == local.starting_tip
<1>1. /\ pc[t] = "connect" /\ tip' = n
      /\ validity' = IF IsFailed(n) THEN validity ELSE [validity EXCEPT ![n] = VALID_SCRIPTS]
      /\ setBlockIndexCandidates' = {b \in setBlockIndexCandidates : ~Worse(b, n, nSequenceId)}
      /\ UNCHANGED <<haveTxsDownloaded, failedValid, failedChild, nSequenceId, shutdown>>
  BY ZenonT(40) DEF ConnectTip, PruneBlockIndexCandidates, flags
<1>2. m \in Blocks /\ n \in Blocks /\ Path[n] = {n} \cup Path[tip] /\ n \notin Path[tip]
  BY <1>1, NextToConnectFacts
<1>3. PICK to \in {"connect", "find", "release", "idle"} : ConnectEffect(t, to)
  BY ConnectTipFacts
<1>4. \A u \in Threads : u # t => pc[u] \notin Owning /\ pc[u] # "link"
  BY ZenonT(40), <1>1, OneSection
<1>5. pc'[t] = to /\ \A u \in Threads : u # t => pc'[u] = pc[u]
  BY ZenonT(40), <1>3 DEF ConnectEffect, ChainInv, TypeOK
<1>6. /\ s \in Blocks /\ Sound(s) /\ (\A c \in Path[s] : validity[c] = VALID_SCRIPTS)
      /\ ~Worse(m, s, nSequenceId)
  BY ZenonT(40), <1>1, <1>2, TreeAssumption DEF SectionProgress
<1>7. /\ to = "connect" => tip' # m /\ local' = local
      /\ to = "find" => Worse(n, s, nSequenceId) /\ local'.pindexNewTip = n
      /\ to \in {"release", "idle"} => ~Worse(n, s, nSequenceId)
      /\ to = "idle" => local' = NoLocal /\ (shutdown \/ n = m)
      /\ to # "idle" => local'.pindexMostWork = m /\ local'.starting_tip = s
      /\ to = "release" => ~local'.blocks_connected /\ n # m
  BY ZenonT(40), <1>1, <1>3 DEF ConnectEffect
<1>8. nSequenceId \in [Blocks -> Int] /\ tip \in Blocks /\ haveTxsDownloaded \subseteq Blocks
  BY Zenon DEF ChainInv, TypeOK
<1> HIDE DEF n, m, s
<1>9. CandidatesKept'
  <2>1. SUFFICES ASSUME NEW b \in haveTxsDownloaded', ~IsFailed(b)', NotWorseThanTips(b)'
                 PROVE  b \in setBlockIndexCandidates'
    BY Zenon DEF CandidatesKept
  <2>2. b \in Blocks /\ ~Worse(b, n, nSequenceId)
    BY Zenon, <1>1, <1>8, <2>1 DEF NotWorseThanTips, Worse
  <2>3. ~Worse(b, tip, nSequenceId)
    <3>1. tip \in Path[n] /\ tip # n
      BY ZenonT(40), <1>2, <1>8, PathType
    <3>2. Worse(tip, n, nSequenceId)
      BY ZenonT(40), <1>2, <3>1, AncestorIsWorse
    <3> QED BY ZenonT(40), <1>2, <1>8, <2>2, <3>2, WorseIsAnOrder
  <2>4. ~Worse(b, s, nSequenceId)
    <3>1. CASE to \in {"connect", "find"}
      BY ZenonT(40), <1>1, <1>5, <1>7, <2>1, <3>1 DEF NotWorseThanTips, Worse
    <3>2. CASE to \in {"release", "idle"}
      BY ZenonT(40), <1>2, <1>6, <1>7, <1>8, <2>2, <3>2, WorseIsAnOrder
    <3> QED BY Zenon, <3>1, <3>2
  <2>5. TipUntouched /\ NotWorseThanTips(b)
    BY SMTT(40), <1>1, <2>3, <2>4, OneSection DEF s
  <2>6. b \in setBlockIndexCandidates
    BY Zenon, <1>1, <2>1, <2>5 DEF CandidatesKept, IsFailed
  <2> QED BY Zenon, <1>1, <2>2, <2>6
<1>10. ASSUME to = "find" PROVE ~Worse(s, n, nSequenceId) /\ n # m
  BY Zenon, <1>2, <1>6, <1>7, <1>8, <1>10, WorseIsAnOrder
<1>11. ASSUME to = "release" PROVE nChainWork[n] >= nChainWork[s]
  <2>1. ~Worse(n, s, nSequenceId) /\ n \in Blocks /\ s \in Blocks
    BY ZenonT(40), <1>2, <1>6, <1>7, <1>11
  <2>2. nChainWork[n] \in Nat /\ nChainWork[s] \in Nat
    BY Zenon, <2>1, TreeAssumption
  <2> QED BY <2>1, <2>2 DEF Worse
<1>12. SectionProgress'
  <2>1. \A c \in Path[s] : validity'[c] = VALID_SCRIPTS
    <3>1. s \in Blocks /\ Path[s] \subseteq Blocks /\ validity \in [Blocks -> 0..5]
      BY ZenonT(40), <1>6, PathType DEF ChainInv, TypeOK
    <3> QED BY ZenonT(40), <1>1, <1>2, <1>6, <3>1
  <2>2. \A c \in Path[s] : ~IsFailed(c)' /\ c \in haveTxsDownloaded'
    BY <1>1, <1>6 DEF Sound, IsFailed
  <2>3. CASE to \in {"connect", "find"}
    <3>1. local'.starting_tip = s /\ local'.pindexMostWork = m
      BY <1>7, <2>3
    <3>2. Sound(local.starting_tip)'
      BY SMTT(40), <2>2, <3>1 DEF Sound
    <3> QED BY ZenonT(40), <1>1, <1>4, <1>5, <1>6, <1>7, <1>10, <2>1, <2>3, <3>1, <3>2 DEF SectionProgress, Owning, Worse
  <2>4. CASE to = "release"
    BY ZenonT(40), <1>1, <1>4, <1>5, <1>6, <1>7, <1>11, <2>4 DEF SectionProgress, Owning
  <2>5. CASE to = "idle"
    BY <1>4, <1>5, <2>5, SectionOfOwner
  <2> QED BY ZenonT(40), <2>3, <2>4, <2>5
<1>13. TargetIsBest'
  <2>1. \A b \in Blocks : Sound(b)' => Sound(b)
    BY Zenon, <1>1 DEF Sound, IsFailed
  <2>2. ASSUME ~shutdown, \A u \in Threads : pc'[u] \notin {"link", "activate", "invalidate"}
        PROVE  \A b \in Blocks : Sound(b) => ~Worse(m, b, nSequenceId)
    <3>1. \A u \in Threads : pc[u] \notin {"link", "activate", "invalidate"}
      BY Zenon, <1>1, <1>5, <2>2
    <3>2. m # NoBlock
      BY SMTT(40), <1>2, TreeAssumption
    <3> QED BY Zenon, <2>2, <3>1, <3>2 DEF TargetIsBest, m
  <2>3. CASE to = "idle"
    <3>1. local'.pindexMostWork = NoBlock
      BY SMTT(40), <1>7, <2>3 DEF NoLocal
    <3> QED BY ZenonT(40), <1>1, <1>7, <2>1, <2>2, <2>3, <3>1 DEF TargetIsBest, Worse
  <2>4. CASE to # "idle"
    BY ZenonT(40), <1>1, <1>5, <1>7, <2>1, <2>2, <2>4 DEF TargetIsBest, Worse
  <2> QED BY Zenon, <2>3, <2>4
<1> QED BY Zenon, <1>9, <1>12, <1>13

\* A block of the target fails: it was not on the chain the section began
\* with, which passed ConnectBlock before.
LEMMA FailProgress ==
  ASSUME ChainInv, Progress, NEW t \in Threads, InvalidBlockFound(t)
  PROVE  Progress'
<1> USE DEF Progress
<1> DEFINE n == NextToConnect
           s == local.starting_tip
<1>1. /\ pc[t] = "connect" /\ validity[n] < VALID_SCRIPTS
      /\ failedValid' = failedValid \cup {n}
      /\ setBlockIndexCandidates' = setBlockIndexCandidates \ {n}
      /\ UNCHANGED <<index, failedChild, nSequenceId, tip, shutdown>>
  BY DEF InvalidBlockFound
<1>2. PICK to \in {"find", "release", "idle"} : FailEffect(t, to)
  BY InvalidBlockFoundFacts
<1>3. \A u \in Threads : u # t => pc[u] \notin Owning /\ pc[u] # "link"
  BY SMTT(40), <1>1, OneSection
<1>4. pc'[t] = to /\ \A u \in Threads : u # t => pc'[u] = pc[u]
  BY ZenonT(40), <1>2 DEF FailEffect, ChainInv, TypeOK
<1>5. s \in Blocks /\ Sound(s) /\ \A c \in Path[s] : validity[c] = VALID_SCRIPTS
  BY Zenon, <1>1 DEF SectionProgress
<1>6. n \notin Path[s]
  <2>1. validity[n] < VALID_SCRIPTS
    BY Zenon, <1>1
  <2>2. \A c \in Path[s] : validity[c] = VALID_SCRIPTS
    BY Zenon, <1>5
  <2> QED BY <2>1, <2>2 DEF VALID_SCRIPTS
<1>7. /\ to = "find" <=> Worse(tip, s, nSequenceId)
      /\ to = "idle" => local' = NoLocal /\ shutdown
      /\ to # "idle" => /\ local'.pindexMostWork = NoBlock /\ local'.starting_tip = s
                        /\ local'.pindexNewTip = tip
      /\ to = "release" => ~local'.blocks_connected
  BY Zenon, <1>2 DEF FailEffect
<1>8. /\ nSequenceId \in [Blocks -> Int] /\ tip \in Blocks /\ haveTxsDownloaded \subseteq Blocks
      /\ tip # NoBlock
  BY ZenonT(40), TreeAssumption DEF ChainInv, TypeOK
<1>9. UNCHANGED <<validity, haveTxsDownloaded>>
  BY <1>1 DEF index
<1> HIDE DEF n, s
<1>10. CandidatesKept'
  <2>1. SUFFICES ASSUME NEW b \in haveTxsDownloaded', ~IsFailed(b)', NotWorseThanTips(b)'
                 PROVE  b \in setBlockIndexCandidates'
    BY DEF CandidatesKept
  <2>2. b \in Blocks /\ ~Worse(b, tip, nSequenceId) /\ b # n /\ ~IsFailed(b)
    BY Zenon, <1>1, <1>8, <1>9, <2>1 DEF NotWorseThanTips, Worse, IsFailed
  <2>3. ~Worse(b, s, nSequenceId)
    <3>1. CASE to = "find"
      <4>1. pc'[t] = "find" /\ local'.starting_tip = s /\ UNCHANGED nSequenceId
        BY Zenon, <1>1, <1>4, <1>7, <3>1
      <4> QED BY Zenon, <4>1, <2>1 DEF NotWorseThanTips, Worse
    <3>2. CASE to # "find"
      BY Zenon, <1>5, <1>7, <1>8, <2>2, <3>2, WorseIsAnOrder
    <3> QED BY Zenon, <3>1, <3>2
  <2>4. TipUntouched /\ NotWorseThanTips(b)
    BY <1>1, <2>2, <2>3, OneSection DEF s
  <2>5. b \in setBlockIndexCandidates
    BY Zenon, <1>9, <2>1, <2>2, <2>4 DEF CandidatesKept
  <2> QED BY Zenon, <1>1, <2>2, <2>5
<1>11. SectionProgress'
  <2>1. \A c \in Path[s] : ~IsFailed(c)' /\ c \in haveTxsDownloaded'
    BY Zenon, <1>1, <1>5, <1>6, <1>9 DEF Sound, IsFailed
  <2>2. CASE to = "find"
    <3>1. Sound(local.starting_tip)' /\ local'.starting_tip = s
      BY ZenonT(40), <1>7, <2>1, <2>2 DEF Sound
    <3>2. ~Worse(s, tip, nSequenceId)
      BY Zenon, <1>5, <1>7, <1>8, <2>2, WorseIsAnOrder
    <3> QED BY ZenonT(40), <1>1, <1>3, <1>4, <1>5, <1>7, <1>8, <1>9, <2>2, <3>1, <3>2 DEF SectionProgress, Owning, Worse
  <2>3. CASE to = "release"
    <3>1. nChainWork[tip] >= nChainWork[s]
      <4>1. ~Worse(tip, s, nSequenceId) /\ tip \in Blocks /\ s \in Blocks
        BY Zenon, <1>5, <1>7, <1>8, <2>3
      <4>2. nChainWork[tip] \in Nat /\ nChainWork[s] \in Nat
        BY Zenon, <4>1, TreeAssumption
      <4> QED BY <4>1, <4>2 DEF Worse
    <3> QED BY Zenon, <1>1, <1>3, <1>4, <1>5, <1>7, <1>8, <2>3, <3>1 DEF SectionProgress, Owning
  <2>4. CASE to = "idle"
    BY <1>3, <1>4, <2>4, SectionOfOwner
  <2> QED BY Zenon, <2>2, <2>3, <2>4
<1>12. TargetIsBest'
  <2>1. CASE to = "idle"
    BY Zenon, <1>1, <1>7, <2>1 DEF TargetIsBest
  <2>2. CASE to # "idle"
    BY Zenon, <1>4, <1>7, <2>2 DEF TargetIsBest
  <2> QED BY ZenonT(40), <2>1, <2>2
<1> QED BY Zenon, <1>10, <1>11, <1>12

-----------------------------------------------------------------------------
(* Commands.                                                               *)

\* A thread will call ActivateBestChain, and nothing else is different.
LEMMA WakeProgress ==
  ASSUME ChainInv, Progress, CsMainFree, NEW t \in Threads, pc[t] = "idle",
         pc' = [pc EXCEPT ![t] = "activate"], UNCHANGED <<tip, local>>
  PROVE  /\ SectionProgress' /\ TargetIsBest'
         /\ TipUntouched' => TipUntouched
         /\ \A b : ~Worse(b, tip, nSequenceId) => NotWorseThanTips(b)
         /\ \A b : NotWorseThanTips(b)' => ~Worse(b, tip, nSequenceId')
<1>1. pc'[t] = "activate" /\ \A u \in Threads : u # t => pc'[u] = pc[u]
  BY DEF ChainInv, TypeOK
<1>2. \A u \in Threads : pc[u] \notin {"find", "connect"} /\ pc'[u] \notin {"find", "connect"}
  BY <1>1 DEF CsMainFree
<1>3. SectionProgress'
  BY Zenon, <1>1, <1>2, SectionStays DEF Progress
<1>4. TargetIsBest'
  BY <1>1, StillToCome
<1>5. TipUntouched' => TipUntouched
  BY <1>1 DEF TipUntouched, InChain
<1>6. \A b : ~Worse(b, tip, nSequenceId) => NotWorseThanTips(b)
  BY Zenon, <1>2 DEF NotWorseThanTips
<1>7. \A b : NotWorseThanTips(b)' => ~Worse(b, tip, nSequenceId')
  BY ZenonT(40) DEF NotWorseThanTips, Worse
<1> QED BY ZenonT(40), <1>3, <1>4, <1>5, <1>6, <1>7

\* A linked block that is not marked is valid enough to be a candidate.
LEMMA LinkedIsValid ==
  ASSUME ChainInv, NEW b \in haveTxsDownloaded
  PROVE  /\ b \in Blocks /\ b \in m_block_index /\ validity[b] >= VALID_TRANSACTIONS
         /\ ~IsFailed(b) <=> IsValid(b, VALID_TRANSACTIONS)
BY ZenonT(40) DEF ChainInv, TypeOK, IndexIsATree, IsValid

\* preciousblock removes no candidate that is as good as the tip, and if it
\* overlooks no block no other block gets as good.
LEMMA PreciousProgress ==
  ASSUME ChainInv, Progress, CsMainFree, overlooked' = {},
         NEW t \in Threads, NEW b \in m_block_index, PreciousBlock(t, b)
  PROVE  Progress'
<1> DEFINE good == IsValid(b, VALID_TRANSACTIONS) /\ b \in haveTxsDownloaded
<1>1. /\ pc[t] = "idle" /\ pc' = [pc EXCEPT ![t] = "activate"]
      /\ \E id : nSequenceId' = [nSequenceId EXCEPT ![b] = id]
      /\ setBlockIndexCandidates' =
             IF good THEN {c \in setBlockIndexCandidates \cup {b} : ~Worse(c, tip, nSequenceId')}
             ELSE setBlockIndexCandidates \ {b}
      /\ UNCHANGED <<index, flags, tip, local, shutdown>>
  BY Zenon DEF PreciousBlock, Step, PruneBlockIndexCandidates
<1>0. \A c \in haveTxsDownloaded \ {b} : ~Worse(c, tip, nSequenceId') => ~Worse(c, tip, nSequenceId)
  <2>1. {c \in haveTxsDownloaded \ {b} :
            Worse(c, tip, nSequenceId) /\ ~Worse(c, tip, nSequenceId')} = {}
    BY Zenon DEF PreciousBlock
  <2> QED BY Zenon, <2>1
<1>2. /\ SectionProgress' /\ TargetIsBest'
      /\ TipUntouched' => TipUntouched
      /\ \A c : ~Worse(c, tip, nSequenceId) => NotWorseThanTips(c)
      /\ \A c : NotWorseThanTips(c)' => ~Worse(c, tip, nSequenceId')
  BY ZenonT(40), <1>1, WakeProgress
<1>3. UNCHANGED <<haveTxsDownloaded, failedValid, failedChild>>
  BY <1>1 DEF index, flags
<1>5. SUFFICES ASSUME TipUntouched', NEW c \in haveTxsDownloaded', ~IsFailed(c)', NotWorseThanTips(c)'
               PROVE  c \in setBlockIndexCandidates'
  BY <1>2 DEF Progress, CandidatesKept
<1>6. /\ ~Worse(c, tip, nSequenceId') /\ TipUntouched /\ c \in haveTxsDownloaded /\ ~IsFailed(c)
  BY <1>2, <1>3, <1>5 DEF IsFailed
<1>7. c \in Blocks /\ IsValid(c, VALID_TRANSACTIONS)
  BY Zenon, <1>6, LinkedIsValid
<1>8. CASE c = b
  BY Zenon, <1>1, <1>6, <1>7, <1>8
<1>9. CASE c # b
  <2>1. ~Worse(c, tip, nSequenceId)
    BY Zenon, <1>0, <1>6, <1>9
  <2>2. c \in setBlockIndexCandidates
    BY Zenon, <1>2, <1>6, <2>1 DEF Progress, CandidatesKept
  <2> QED BY Zenon, <1>1, <1>6, <1>9, <2>2
<1> QED BY Zenon, <1>8, <1>9

\* reconsiderblock makes every block it unmarks a candidate, if it is better
\* than the tip, or overlooks it.
LEMMA ReconsiderProgress ==
  ASSUME ChainInv, Progress, CsMainFree, overlooked' = {},
         NEW t \in Threads, NEW b \in m_block_index, ReconsiderBlock(t, b)
  PROVE  Progress'
<1> DEFINE below == Descendants(b)
           cleared == below \cup Path[b]
           found == {c \in below : /\ ~IsValid(c, VALID_TRANSACTIONS)
                                   /\ validity[c] >= VALID_TRANSACTIONS /\ c \in haveTxsDownloaded
                                   /\ Worse(tip, c, nSequenceId)}
<1>1. /\ pc[t] = "idle" /\ pc' = [pc EXCEPT ![t] = "activate"]
      /\ overlooked' = overlooked \cup ClearedAbove(b)
      /\ failedValid' = failedValid \ cleared /\ failedChild' = failedChild \ cleared
      /\ setBlockIndexCandidates' = setBlockIndexCandidates \cup found
      /\ UNCHANGED <<index, nSequenceId, tip, local, shutdown>>
  BY ZenonT(40) DEF ReconsiderBlock, Step
<1>2. /\ SectionProgress' /\ TargetIsBest'
      /\ TipUntouched' => TipUntouched
      /\ \A c : ~Worse(c, tip, nSequenceId) => NotWorseThanTips(c)
      /\ \A c : NotWorseThanTips(c)' => ~Worse(c, tip, nSequenceId')
  BY ZenonT(40), <1>1, WakeProgress
<1>3. ASSUME NEW f \in cleared, IsFailed(f), f \in haveTxsDownloaded, Worse(tip, f, nSequenceId)
      PROVE  f \in below
  <2>1. f \notin ClearedAbove(b)
    BY Zenon, <1>1
  <2>2. b \in below
    <3>1. b \in Blocks
      BY DEF ChainInv, TypeOK
    <3> QED BY Zenon, <3>1, PathType DEF Descendants
  <2> QED BY ZenonT(40), <1>3, <2>1, <2>2 DEF ClearedAbove
<1>4. SUFFICES ASSUME TipUntouched', NEW c \in haveTxsDownloaded', ~IsFailed(c)', NotWorseThanTips(c)'
               PROVE  c \in setBlockIndexCandidates'
  BY SMTT(40), <1>2 DEF Progress, CandidatesKept
<1>5. ~Worse(c, tip, nSequenceId) /\ TipUntouched /\ c \in haveTxsDownloaded
  BY Zenon, <1>1, <1>2, <1>4 DEF index
<1>6. c \in Blocks /\ validity[c] >= VALID_TRANSACTIONS
  BY SMTT(40), <1>5, LinkedIsValid
<1>7. CASE ~IsFailed(c)
  BY ZenonT(40), <1>1, <1>2, <1>5, <1>7 DEF Progress, CandidatesKept
<1>8. CASE IsFailed(c)
  <2>0. c \in cleared
    BY ZenonT(40), <1>1, <1>4, <1>8 DEF IsFailed
  <2>2. c # tip
    BY ZenonT(40), <1>8, PathType DEF ChainInv, TypeOK, ActiveChainIsValid
  <2>3. Worse(tip, c, nSequenceId)
    BY ZenonT(40), <1>5, <1>6, <2>2, WorseIsAnOrder DEF ChainInv, TypeOK
  <2>1. c \in below
    BY Zenon, <1>3, <1>5, <1>8, <2>0, <2>3
  <2>4. c \in found
    BY <1>5, <1>6, <1>8, <2>1, <2>3 DEF IsValid
  <2> QED BY ZenonT(40), <1>1, <2>4
<1> QED BY <1>7, <1>8

\* invalidateblock begins: the tip is where it was.
LEMMA InvalidateProgress ==
  ASSUME ChainInv, Progress, CsMainFree, NEW t \in Threads, NEW b \in m_block_index, InvalidateBlock(t, b)
  PROVE  Progress'
<1>1. /\ MutexFree /\ pc[t] = "idle" /\ pc' = [pc EXCEPT ![t] = "invalidate"]
      /\ UNCHANGED <<index, flags, nSequenceId, setBlockIndexCandidates, tip, shutdown>>
  BY ZenonT(40) DEF InvalidateBlock, Step
<1>2. pc'[t] = "invalidate" /\ \A u \in Threads : u # t => pc'[u] = pc[u]
  BY ZenonT(40), <1>1 DEF ChainInv, TypeOK
<1>3. \A u \in Threads : pc[u] \notin Owning /\ pc'[u] \notin {"find", "connect", "release"}
  BY Zenon, <1>1, <1>2 DEF MutexFree, Owning
<1>4. FailuresStay /\ UNCHANGED haveTxsDownloaded
  BY SMTT(40), <1>1 DEF FailuresStay, IsFailed, flags, index
<1>5. CandidatesKept'
  BY ZenonT(40), <1>1, <1>3, <1>4, KeptStays DEF Progress, Owning
<1>6. SectionProgress'
  BY SMTT(40), <1>3, SectionStays DEF Progress
<1>7. TargetIsBest'
  BY <1>2, StillToCome
<1> QED BY Zenon, <1>5, <1>6, <1>7 DEF Progress

\* The tip is moved: the candidates need not be complete until the end.
LEMMA InvalidateTipProgress ==
  ASSUME ChainInv, Progress, NEW t \in Threads, InvalidateTip(t)
  PROVE  Progress'
<1>1. PICK new, found : InvalidateEffect(t, new, found)
  BY InvalidateTipFacts
<1>2. /\ pc[t] = "invalidate" /\ pc' = pc /\ tip' = new /\ tip \notin Path[new]
      /\ local' = [local EXCEPT !.to_mark_failed = tip, !.candidate_blocks = local.candidate_blocks \ found]
  BY <1>1, Zenon DEF InvalidateEffect
<1>3. local'.to_mark_failed = tip
  BY <1>2 DEF ChainInv, TypeOK
<1>4. ~TipUntouched'
  BY <1>2, <1>3 DEF TipUntouched, InChain
<1>5. \A u \in Threads : pc'[u] \notin {"find", "connect", "release"}
  BY Zenon, <1>2 DEF ChainInv, LocksExclude, Owning
<1>6. SectionProgress'
  BY Zenon, <1>5, SectionStays DEF Progress
<1>7. TargetIsBest'
  BY ZenonT(40), <1>2, StillToCome
<1> QED BY Zenon, <1>4, <1>6, <1>7 DEF Progress, CandidatesKept

\* The end of invalidateblock completes the candidates.
LEMMA InvalidateEndProgress ==
  ASSUME ChainInv, Progress, NEW t \in Threads, InvalidateEnd(t)
  PROVE  Progress'
<1> DEFINE b == local.to_mark_failed
           found == {c \in m_block_index \ {b} : CouldReplace(c, tip)}
<1>1. /\ CsMainFree /\ pc[t] = "invalidate" /\ pc' = [pc EXCEPT ![t] = "activate"]
      /\ UNCHANGED <<index, nSequenceId, tip>>
  BY DEF InvalidateEnd, Step
<1>2. \/ b \in Path[tip] /\ UNCHANGED <<flags, setBlockIndexCandidates>>
      \/ /\ b \notin Path[tip]
         /\ failedValid' = failedValid \cup {b}
         /\ setBlockIndexCandidates' = (setBlockIndexCandidates \ {b}) \cup found
         /\ UNCHANGED failedChild
  BY ZenonT(40) DEF InvalidateEnd, InChain
<1>3. pc'[t] = "activate" /\ \A u \in Threads : u # t => pc'[u] = pc[u] /\ pc[u] \notin Owning
  BY Zenon, <1>1 DEF ChainInv, TypeOK, LocksExclude, Owning
<1>4. \A u \in Threads : pc[u] \notin {"find", "connect"} /\ pc'[u] \notin {"find", "connect", "release"}
  BY <1>1, <1>3 DEF Owning
<1>5. UNCHANGED haveTxsDownloaded
  BY SMTT(40), <1>1 DEF index
<1>6. CandidatesKept'
  <2>1. SUFFICES ASSUME NEW c \in haveTxsDownloaded', ~IsFailed(c)', NotWorseThanTips(c)'
                 PROVE  c \in setBlockIndexCandidates'
    BY Zenon DEF CandidatesKept
  <2>2. ~Worse(c, tip, nSequenceId) /\ c \in haveTxsDownloaded
    BY Zenon, <1>1, <1>5, <2>1 DEF NotWorseThanTips, Worse
  <2>3. CASE b \in Path[tip] /\ UNCHANGED <<flags, setBlockIndexCandidates>>
    <3>1. TipUntouched
      <4>1. \A u \in Threads : pc[u] = "invalidate" => u = t
        BY ZenonT(40), <1>3 DEF Owning
      <4> QED BY Zenon, <4>1, <2>3 DEF TipUntouched, InChain
    <3>2. NotWorseThanTips(c)
      BY Zenon, <1>4, <2>2 DEF NotWorseThanTips
    <3> QED BY ZenonT(40), <2>1, <2>2, <2>3, <3>1, <3>2 DEF Progress, CandidatesKept, IsFailed, flags
  <2>4. CASE /\ failedValid' = failedValid \cup {b}
             /\ setBlockIndexCandidates' = (setBlockIndexCandidates \ {b}) \cup found
             /\ UNCHANGED failedChild
    <3>1. ~IsFailed(c) /\ c # b
      BY Zenon, <2>1, <2>4 DEF IsFailed
    <3>2. c \in m_block_index /\ IsValid(c, VALID_TRANSACTIONS)
      BY Zenon, <2>2, <3>1, LinkedIsValid
    <3>3. c \in found
      BY SMTT(40), <2>2, <3>1, <3>2 DEF CouldReplace
    <3> QED BY <2>4, <3>3
  <2> QED BY Zenon, <1>2, <2>3, <2>4
<1>7. SectionProgress'
  BY Zenon, <1>4, SectionStays DEF Progress
<1>8. TargetIsBest'
  BY SMTT(40), <1>3, StillToCome
<1> QED BY <1>6, <1>7, <1>8 DEF Progress

\* A restart collects the candidates afresh, whatever was overlooked before.
LEMMA RestartProgress ==
  ASSUME ChainInv, NEW t \in Threads, Restart(t)
  PROVE  Progress'
<1>1. /\ (\A u \in Threads : pc[u] = "idle") /\ pc' = [pc EXCEPT ![t] = "activate"]
      /\ setBlockIndexCandidates' = {b \in haveTxsDownloaded' :
            b \notin failedValid \cup failedChild' /\ ~Worse(b, tip, nSequenceId')}
      /\ UNCHANGED <<failedValid, tip>>
  BY ZenonT(40), RestartFacts
<1>2. pc'[t] = "activate" /\ \A u \in Threads : u # t => pc'[u] = "idle"
  BY ZenonT(40), <1>1 DEF ChainInv, TypeOK
<1>3. CandidatesKept'
  BY Zenon, <1>1 DEF CandidatesKept, NotWorseThanTips, IsFailed, Worse
<1>4. SectionProgress'
  BY Zenon, <1>2 DEF SectionProgress
<1>5. TargetIsBest'
  BY <1>2, StillToCome
<1> QED BY <1>3, <1>4, <1>5 DEF Progress

\* Commands.
LEMMA CommandsProgress ==
  ASSUME ChainInv, Progress, overlooked' = {}, Commands
  PROVE  Progress'
<1>1. CsMainFree
  BY DEF Commands
<1>2. CASE StartShutdown
  <2>1. /\ shutdown' = TRUE
        /\ UNCHANGED <<tip, nSequenceId, setBlockIndexCandidates, haveTxsDownloaded, local, pc, flags>>
    BY Zenon, <1>2 DEF StartShutdown, index
  <2>2. FailuresStay
    BY <2>1 DEF FailuresStay, IsFailed, flags
  <2> QED BY SMTT(40), <1>1, <2>1, <2>2, QuietProgress
<1>3. CASE \E t \in Threads, b \in m_block_index :
            PreciousBlock(t, b) \/ InvalidateBlock(t, b) \/ ReconsiderBlock(t, b)
  BY ZenonT(40), <1>1, <1>3, PreciousProgress, InvalidateProgress, ReconsiderProgress
<1> QED BY Zenon, <1>2, <1>3 DEF Commands

\* The steps of a thread.
LEMMA ThreadProgress ==
  ASSUME ChainInv, Progress, NEW t \in Threads,
         LinkBlock(t) \/ Activation(t) \/ Invalidation(t)
  PROVE  Progress'
<1>1. CASE LinkBlock(t) \/ Invalidation(t)
  BY Zenon, <1>1, LinkProgress, InvalidateTipProgress, InvalidateEndProgress DEF Invalidation
<1>2. CASE Activation(t)
  BY ZenonT(40), <1>2, BeginProgress, DiscardProgress, LeaveProgress, StepProgress, ConnectProgress,
     FailProgress DEF Activation
<1> QED BY Zenon, <1>1, <1>2

\* What was overlooked is forgotten at a restart only.
LEMMA OverlookedStays ==
  ASSUME [Next]_vars, overlooked' = {}, \A t \in Threads : ~Restart(t)
  PROVE  overlooked = {}
<1>1. CASE Arrival
  <2>1. PICK b \in Blocks \ {Genesis} :
          \/ AcceptBlockHeader(b) \/ RefuseBlockHeader(b) \/ ProcessInvalidBlock(b)
          \/ \E t \in Threads : ProcessNewBlock(t, b) \/ ProcessOldBlock(t, b)
    BY Zenon, <1>1 DEF Arrival
  <2>2. UNCHANGED overlooked
    BY <2>1 DEF AcceptBlockHeader, RefuseBlockHeader, ProcessInvalidBlock, ProcessNewBlock,
                ProcessOldBlock, history
  <2> QED BY <2>2
<1>2. CASE Commands
  <2>1. CASE StartShutdown
    BY <2>1 DEF StartShutdown, history
  <2>2. ASSUME NEW t \in Threads, NEW b \in m_block_index,
               PreciousBlock(t, b) \/ InvalidateBlock(t, b) \/ ReconsiderBlock(t, b)
        PROVE  overlooked \subseteq overlooked'
    BY Zenon, <2>2 DEF PreciousBlock, InvalidateBlock, ReconsiderBlock, history
  <2> QED BY <1>2, <2>1, <2>2 DEF Commands
<1>3. CASE \E t \in Threads : LinkBlock(t) \/ Activation(t) \/ Invalidation(t) \/ Restart(t)
  <2>1. PICK t \in Threads : LinkBlock(t) \/ Activation(t) \/ Invalidation(t)
    BY Zenon, <1>3
  <2>2. UNCHANGED history
    BY Zenon, <2>1, ThreadStores DEF LinkBlock
  <2> QED BY <2>2 DEF history
<1>4. CASE UNCHANGED vars
  BY <1>4 DEF vars, history
<1> QED BY Zenon, <1>1, <1>2, <1>3, <1>4 DEF Next

\* A step that changes nothing.
LEMMA ProgressStutter ==
  ASSUME Progress, UNCHANGED vars
  PROVE  Progress'
<1>1. UNCHANGED <<validity, haveTxsDownloaded, failedValid, failedChild, nSequenceId,
                  setBlockIndexCandidates, tip, pc, local, shutdown>>
  BY DEF vars, index, flags
<1>2. FailuresStay
  BY Zenon, <1>1 DEF FailuresStay, IsFailed
<1>3. CandidatesKept' /\ TargetIsBest'
  BY <1>1, <1>2, KeptStays, BestStays DEF Progress
<1>4. SectionProgress'
  BY <1>1, ZenonT(40) DEF Progress, SectionProgress, Sound, IsFailed, Worse
<1> QED BY <1>3, <1>4 DEF Progress

\* Every step keeps the invariant: as long as nothing is overlooked by it,
\* nothing was before, and Progress is kept.
LEMMA IndInvNext ==
  ASSUME IInv, [Next]_vars
  PROVE  IInv'
<1>1. StoredInv /\ ChainInv
  BY DEF IInv, StoredInv
<1>2. StoredInv'
  BY ZenonT(40), <1>1, StoredNext
<1>3. ASSUME overlooked' = {} PROVE Progress'
  <2>1. CASE \E t \in Threads : Restart(t)
    BY Zenon, <1>1, <2>1, RestartProgress
  <2>2. CASE \A t \in Threads : ~Restart(t)
    <3>1. Progress
      BY Zenon, <1>3, <2>2, OverlookedStays DEF IInv
    <3>2. CASE Arrival
      BY <1>1, <3>1, <3>2, ArrivalProgress
    <3>3. CASE Commands
      BY Zenon, <1>1, <1>3, <3>1, <3>3, CommandsProgress
    <3>4. CASE \E t \in Threads : LinkBlock(t) \/ Activation(t) \/ Invalidation(t)
      BY <1>1, <3>1, <3>4, ThreadProgress
    <3>5. CASE UNCHANGED vars
      BY <3>1, <3>5, ProgressStutter
    <3> QED BY Zenon, <2>2, <3>2, <3>3, <3>4, <3>5 DEF Next
  <2> QED BY Zenon, <2>1, <2>2
<1> QED BY Zenon, <1>2, <1>3 DEF IInv

\* The first state.
LEMMA IndInvInit ==
  ASSUME Init
  PROVE  IInv
<1>1. StoredInv
  BY StoredInit
<1>2. CandidatesKept
  BY SMTT(40) DEF Init, CandidatesKept
<1>3. SectionProgress
  BY Zenon DEF Init, SectionProgress
<1>4. TargetIsBest
  <2>1. local.pindexMostWork = NoBlock
    BY DEF Init, NoLocal
  <2>2. ASSUME NEW b \in Blocks, Sound(b) PROVE ~Worse(tip, b, nSequenceId)
    <3>1. b = tip /\ tip \in Blocks /\ nSequenceId \in [Blocks -> Int]
      BY ZenonT(40), <1>1, <2>2, PathType DEF Init, Sound, StoredInv, ChainInv, TypeOK
    <3> QED BY Zenon, <3>1, WorseIsAnOrder
  <2> QED BY Zenon, <2>1, <2>2 DEF TargetIsBest
<1> QED BY Zenon, <1>1, <1>2, <1>3, <1>4 DEF IInv, Progress

\* A chain that the node could be on is linked.
LEMMA UsableIsSound ==
  ASSUME ChainInv, NoneForgotten, queue = <<>>, NEW b \in Blocks, Usable(b), ~BelowAStray(b)
  PROVE  Sound(b)
<1>1. Path[b] \subseteq haveData
  BY Zenon DEF Usable
<1>2. Path[b] \subseteq haveTxsDownloaded
  BY <1>1, StoredIsLinked
<1> QED BY ZenonT(40), <1>2 DEF Usable, Sound

\* What the invariant says of the state between the sections.
LEMMA SelectionFollows ==
  ASSUME IInv
  PROVE  NoStepBack /\ CandidatesAreExact /\ TipIsBest
<1> USE DEF IInv, StoredInv, Progress
<1>1. NoStepBack
  BY DEF SectionProgress, NoStepBack
<1>2. ASSUME CsMainFree PROVE queue = <<>>
  BY <1>2 DEF ChainInv, LocksExclude, CsMainFree
<1>3. CandidatesAreExact
  <2>1. ASSUME CsMainFree, NEW b \in setBlockIndexCandidates
        PROVE  b \in haveTxsDownloaded /\ ~Worse(b, tip, nSequenceId)
    BY DEF ChainInv, TypeOK, CandidatesNotWorse
  <2>2. ASSUME CsMainFree, overlooked = {}, \A t \in Threads : pc[t] # "invalidate",
               NEW b \in Blocks, Usable(b), ~BelowAStray(b), ~Worse(b, tip, nSequenceId)
        PROVE  b \in setBlockIndexCandidates
    <3>1. Sound(b)
      BY ZenonT(40), <1>2, <2>2, UsableIsSound
    <3>2. b \in haveTxsDownloaded /\ ~IsFailed(b)
      BY ZenonT(40), <3>1, PathType DEF Sound
    <3>3. TipUntouched /\ NotWorseThanTips(b)
      BY Zenon, <2>2 DEF TipUntouched, NotWorseThanTips, CsMainFree
    <3> QED BY Zenon, <2>2, <3>2, <3>3 DEF CandidatesKept
  <2> QED BY Zenon, <2>1, <2>2 DEF CandidatesAreExact
<1>4. TipIsBest
  <2>1. SUFFICES ASSUME Quiet, ~shutdown, overlooked = {}, NEW b \in Blocks, Usable(b), ~BelowAStray(b)
                 PROVE  ~Worse(tip, b, nSequenceId)
    BY DEF TipIsBest
  <2>2. Sound(b)
    BY Zenon, <1>2, <2>1, UsableIsSound DEF Quiet, CsMainFree
  <2> QED BY <2>1, <2>2 DEF TargetIsBest, Quiet
<1> QED BY ZenonT(40), <1>1, <1>3, <1>4

\* ActivateBestChain: for every tree of blocks, any number of threads and
\* commands, when every call has returned no usable chain sorts before the
\* tip, but for the strays and until a command overlooks a block.
THEOREM TipCorrect == Spec => []TipIsBest
<1>1. Init => IInv
  BY IndInvInit
<1>2. IInv /\ [Next]_vars => IInv'
  BY Zenon, IndInvNext
<1>3. IInv => TipIsBest
  BY SMTT(40), SelectionFollows
<1> QED BY <1>1, <1>2, <1>3, PTL DEF Spec

\* CheckBlockIndex: setBlockIndexCandidates holds every usable block that is
\* as good as the tip, with the same exceptions, and never one that is worse.
THEOREM CandidatesCorrect == Spec => []CandidatesAreExact
<1>1. Init => IInv
  BY IndInvInit
<1>2. IInv /\ [Next]_vars => IInv'
  BY Zenon, IndInvNext
<1>3. IInv => CandidatesAreExact
  BY SelectionFollows
<1> QED BY <1>1, <1>2, <1>3, PTL DEF Spec

\* ActivateBestChain releases cs_main only with at least the work it found,
\* even when a reorganisation fails half way, until a command overlooks a
\* block.
THEOREM NoStepBackCorrect == Spec => []NoStepBack
<1>1. Init => IInv
  BY IndInvInit
<1>2. IInv /\ [Next]_vars => IInv'
  BY Zenon, IndInvNext
<1>3. IInv => NoStepBack
  BY SelectionFollows
<1> QED BY <1>1, <1>2, <1>3, PTL DEF Spec
=============================================================================
