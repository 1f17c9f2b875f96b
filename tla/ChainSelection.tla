--------------------------- MODULE ChainSelection ---------------------------
(***************************************************************************)
(* The block index and the choice of the active chain.  Headers and blocks *)
(* arrive, ActivateBestChain moves the tip to the best candidate, and the  *)
(* commands preciousblock, invalidateblock and reconsiderblock change what *)
(* is best.  All of this runs in several threads: cs_main covers one       *)
(* section at a time, and m_chainstate_mutex keeps two runs of             *)
(* ActivateBestChain and InvalidateBlock apart, but both release cs_main   *)
(* between their sections, and then the block index may change.            *)
(*                                                                         *)
(* What a block contains is left out: whether ConnectBlock and the checks  *)
(* of AcceptBlock like it is open until they run.  Left out as well:       *)
(* pruned blocks, snapshots, errors of the disk, after which the node      *)
(* stops, and m_best_header and m_best_invalid, which the choice of the    *)
(* chain does not read.                                                    *)
(***************************************************************************)
EXTENDS Integers, Sequences, FiniteSets

CONSTANTS Blocks, Genesis, NoBlock,
          pprev,     \* [Blocks \ {Genesis} -> Blocks]
          Path,      \* [Blocks -> SUBSET Blocks]: the block and its ancestors
          nHeight,   \* [Blocks -> Nat]
          nChainWork, \* [Blocks -> Nat]
          Address,   \* [Blocks -> Nat]: where the index entry is in memory
          Threads,
          Refusable, \* the blocks that ContextualCheckBlock may find invalid
          MIN_BLOCKS_TO_KEEP,
          MinSequenceId,   \* the least value of the type of nSequenceId
          MaxCommands      \* bound on commands and shutdowns

ASSUME TreeAssumption ==
    /\ Genesis \in Blocks /\ NoBlock \notin Blocks
    /\ nHeight \in [Blocks -> Nat] /\ nChainWork \in [Blocks -> Nat] /\ Address \in [Blocks -> Nat]
    /\ Path[Genesis] = {Genesis} /\ nHeight[Genesis] = 0 /\ nChainWork[Genesis] > 0
    /\ \A b \in Blocks \ {Genesis} :
          /\ pprev[b] \in Blocks
          /\ b \notin Path[pprev[b]] /\ Path[b] = {b} \cup Path[pprev[b]]
          /\ nHeight[b] = nHeight[pprev[b]] + 1
          /\ nChainWork[b] > nChainWork[pprev[b]]
    /\ \A b, c \in Blocks : Address[b] = Address[c] => b = c
    /\ MinSequenceId \in Int /\ MinSequenceId < 0

(* There are finitely many blocks, in the form the proofs use: some of     *)
(* them have a lowest one, and a first and a last one in memory.           *)
ASSUME FiniteAssumption ==
    \A S \in SUBSET Blocks : S # {} =>
        /\ \E b \in S : \A c \in S : nHeight[b] <= nHeight[c]
        /\ \E b \in S : \A c \in S : Address[b] <= Address[c]
        /\ \E b \in S : \A c \in S : Address[c] <= Address[b]

VARIABLES m_block_index,  \* the blocks whose header is known
          validity,       \* [Blocks -> nStatus & BLOCK_VALID_MASK]
          haveData,       \* BLOCK_HAVE_DATA, that is nTx > 0
          haveTxsDownloaded, \* nChainTx # 0: the block and all its ancestors came
          failedValid, failedChild, \* BLOCK_FAILED_VALID, BLOCK_FAILED_CHILD
          m_failed_blocks,
          m_blocks_unlinked, \* [Blocks -> the blocks that wait for it, as inserted]
          queue,          \* the local of ReceivedBlockTransactions
          nSequenceId,    \* [Blocks -> Int]
          setBlockIndexCandidates,
          tip,            \* m_chain.Tip()
          nBlockReverseSequenceId, nLastPreciousChainwork,
          pc,             \* [Threads -> what the thread does next]
          local,          \* the locals of the owner of m_chainstate_mutex
          commands,       \* how many commands there have been
          shutdown,       \* ShutdownRequested()
          strays,         \* history: the stored blocks that were put nowhere
          overlooked      \* history: the blocks that could be the tip and were
                          \* not made candidates

index == <<m_block_index, validity, haveData, haveTxsDownloaded, m_blocks_unlinked, queue>>
flags == <<failedValid, failedChild, m_failed_blocks>>
precious == <<nBlockReverseSequenceId, nLastPreciousChainwork>>
history == <<strays, overlooked>>
vars == <<index, flags, nSequenceId, setBlockIndexCandidates, tip, precious, pc, local, commands,
          shutdown, history>>

VALID_NONE == 0
VALID_TREE == 2
VALID_TRANSACTIONS == 3
VALID_SCRIPTS == 5

NoLocal ==
    [pindexMostWork |-> NoBlock, pindexNewTip |-> NoBlock, starting_tip |-> NoBlock,
     pindexOldTip |-> NoBlock, blocks_connected |-> FALSE,
     pindex |-> NoBlock, to_mark_failed |-> NoBlock, candidate_blocks |-> {}]

Init ==
    /\ m_block_index = {Genesis}
    /\ validity = [b \in Blocks |-> IF b = Genesis THEN VALID_SCRIPTS ELSE VALID_NONE]
    /\ haveData = {Genesis} /\ haveTxsDownloaded = {Genesis}
    /\ failedValid = {} /\ failedChild = {} /\ m_failed_blocks = {}
    /\ m_blocks_unlinked = [b \in Blocks |-> <<>>] /\ queue = <<>>
    /\ nSequenceId = [b \in Blocks |-> IF b = Genesis THEN 1 ELSE 0]
    /\ setBlockIndexCandidates = {Genesis}
    /\ tip = Genesis
    /\ nBlockReverseSequenceId = -1 /\ nLastPreciousChainwork = 0
    /\ pc = [t \in Threads |-> "idle"]
    /\ local = NoLocal
    /\ commands = 0
    /\ shutdown = FALSE
    /\ strays = {} /\ overlooked = {}

-----------------------------------------------------------------------------
(* CBlockIndexWorkComparator: a sorts before, that is worse than, b.       *)
Worse(a, b, id) ==
    \/ nChainWork[a] < nChainWork[b]
    \/ /\ nChainWork[a] = nChainWork[b]
       /\ \/ id[a] > id[b]
          \/ id[a] = id[b] /\ Address[a] > Address[b]

IsFailed(b) == b \in failedValid \cup failedChild

IsValid(b, nUpTo) == ~IsFailed(b) /\ validity[b] >= nUpTo

InChain(b) == b \in Path[tip]

FindFork(a, b) == CHOOSE f \in Path[a] \cap Path[b] : Path[a] \cap Path[b] = Path[f]

(* PruneBlockIndexCandidates for a set of candidates, a tip and the ids.   *)
PruneBlockIndexCandidates(S, newTip, id) == {b \in S : ~Worse(b, newTip, id)}

(* The sections that hold cs_main and take several steps: those of         *)
(* ActivateBestChain, and the loop of ReceivedBlockTransactions.           *)
CsMainFree == \A t \in Threads : pc[t] \notin {"find", "connect", "link"}

MutexFree == \A t \in Threads : pc[t] \in {"idle", "link", "activate"}

Step(t, from, to) == pc[t] = from /\ pc' = [pc EXCEPT ![t] = to]

-----------------------------------------------------------------------------
(* The failed blocks below which AcceptBlockHeader would put b: it only    *)
(* looks when the parent is not known to be valid.                         *)
FailedAbove(b) ==
    IF IsValid(pprev[b], VALID_SCRIPTS) THEN {} ELSE m_failed_blocks \cap Path[pprev[b]]

IsNewHeader(b) ==
    b \notin m_block_index /\ pprev[b] \in m_block_index /\ ~IsFailed(pprev[b])

HeaderAccepted(b) ==
    IF b \in m_block_index THEN ~IsFailed(b) ELSE IsNewHeader(b) /\ FailedAbove(b) = {}

(* AddToBlockIndex, a no-op for a header that is there already.            *)
WithHeader(b) ==
    IF b \in m_block_index THEN validity ELSE [validity EXCEPT ![b] = VALID_TREE]

(* A headers message, or a block refused after its header was accepted.    *)
AcceptBlockHeader(b) ==
    /\ b \notin m_block_index /\ HeaderAccepted(b)
    /\ m_block_index' = m_block_index \cup {b}
    /\ validity' = WithHeader(b)
    /\ UNCHANGED <<haveData, haveTxsDownloaded, m_blocks_unlinked, queue, flags, nSequenceId,
                   setBlockIndexCandidates, tip, precious, pc, local, commands, shutdown, history>>

(* AcceptBlockHeader refuses a header below a failed block, and marks the  *)
(* blocks in between.                                                      *)
RefuseBlockHeader(b) ==
    /\ IsNewHeader(b)
    /\ \E f \in FailedAbove(b) : failedChild' = failedChild \cup (Path[pprev[b]] \ Path[f])
    /\ UNCHANGED <<index, failedValid, m_failed_blocks, nSequenceId,
                   setBlockIndexCandidates, tip, precious, pc, local, commands, shutdown, history>>

(* nBlockSequenceId++, counted per amount of work, as only blocks with the *)
(* same work are compared by it.                                           *)
WithSequenceId(id, b) ==
    LET ids == {0} \cup {id[c] : c \in {c \in Blocks \ {b} : nChainWork[c] = nChainWork[b]}}
        last == CHOOSE n \in ids : \A m \in ids : m <= n
    IN  [id EXCEPT ![b] = last + 1]

Elements(s) == {s[i] : i \in DOMAIN s}

(* What a multimap from blocks holds.                                      *)
Values(m) == UNION {Elements(m[b]) : b \in Blocks}

(* ReceivedBlockTransactions: the block is stored.  When all its ancestors *)
(* came it is put into a queue of blocks to link; when not, it waits for   *)
(* its parent, unless that one failed.                                     *)
ReceivedBlockTransactions(t, b) ==
    /\ haveData' = haveData \cup {b}
    /\ validity' = [validity EXCEPT ![b] = VALID_TRANSACTIONS]
    /\ IF pprev[b] \in haveTxsDownloaded
       THEN queue' = <<b>> /\ Step(t, "idle", "link") /\ UNCHANGED <<m_blocks_unlinked, strays>>
       ELSE /\ IF IsFailed(pprev[b])
               THEN strays' = strays \cup {b} /\ UNCHANGED m_blocks_unlinked
               ELSE /\ m_blocks_unlinked' = [m_blocks_unlinked EXCEPT ![pprev[b]] = Append(@, b)]
                    /\ UNCHANGED strays
            /\ Step(t, "idle", "activate") /\ UNCHANGED queue

(* Mutant: the blocks that wait for the linked one are not looked for.     *)
LinkBlock_Alone(t) ==
    /\ pc[t] = "link"
    /\ LET pindex == Head(queue) IN
       /\ haveTxsDownloaded' = haveTxsDownloaded \cup {pindex}
       /\ nSequenceId' = WithSequenceId(nSequenceId, pindex)
       /\ setBlockIndexCandidates' = setBlockIndexCandidates
             \cup {c \in {pindex} : ~Worse(c, tip, nSequenceId')}
    /\ queue' = Tail(queue)
    /\ pc' = [pc EXCEPT ![t] = IF queue' = <<>> THEN "activate" ELSE "link"]
    /\ UNCHANGED <<m_block_index, validity, haveData, m_blocks_unlinked, flags, tip, precious, local, commands, shutdown, history>>

(* One round of its loop: the first block of the queue is linked, and      *)
(* becomes a candidate if it is not worse than the tip; the blocks that    *)
(* waited for it are put into the queue.                                   *)
LinkBlock(t) ==
    /\ pc[t] = "link"
    /\ LET pindex == Head(queue) IN
       /\ haveTxsDownloaded' = haveTxsDownloaded \cup {pindex}
       /\ nSequenceId' = WithSequenceId(nSequenceId, pindex)
       /\ setBlockIndexCandidates' = setBlockIndexCandidates
             \cup {c \in {pindex} : ~Worse(c, tip, nSequenceId')}
       /\ queue' = Tail(queue) \o m_blocks_unlinked[pindex]
       /\ m_blocks_unlinked' = [m_blocks_unlinked EXCEPT ![pindex] = <<>>]
    /\ pc' = [pc EXCEPT ![t] = IF queue' = <<>> THEN "activate" ELSE "link"]
    /\ UNCHANGED <<m_block_index, validity, haveData, flags, tip, precious, local, commands, shutdown, history>>

(* AcceptBlock takes every block that was asked for, and one that was not  *)
(* if it may advance the tip and is not too far ahead of it.               *)
Wanted(b, fRequested) ==
    /\ b \notin haveData
    /\ ~fRequested => /\ nChainWork[b] >= nChainWork[tip]
                      /\ nHeight[b] <= nHeight[tip] + MIN_BLOCKS_TO_KEEP

(* ProcessNewBlock stores a block, and will call ActivateBestChain.        *)
ProcessNewBlock(t, b) ==
    /\ HeaderAccepted(b)
    /\ \E fRequested \in BOOLEAN : Wanted(b, fRequested)
    /\ m_block_index' = m_block_index \cup {b}
    /\ ReceivedBlockTransactions(t, b)
    /\ UNCHANGED <<haveTxsDownloaded, flags, nSequenceId, setBlockIndexCandidates, tip, precious,
                   local, commands, shutdown, overlooked>>

(* ContextualCheckBlock finds the block invalid: it is marked, but not put *)
(* into m_failed_blocks, and ProcessNewBlock returns.                      *)
ProcessInvalidBlock(b) ==
    /\ b \in Refusable /\ HeaderAccepted(b)
    /\ \E fRequested \in BOOLEAN : Wanted(b, fRequested)
    /\ m_block_index' = m_block_index \cup {b}
    /\ validity' = WithHeader(b)
    /\ failedValid' = failedValid \cup {b}
    /\ UNCHANGED <<haveData, haveTxsDownloaded, m_blocks_unlinked, queue, failedChild,
                   m_failed_blocks, nSequenceId, setBlockIndexCandidates, tip, precious, pc, local,
                   commands, shutdown, history>>

(* A block that is there already, or not wanted: only its header stays,    *)
(* and ActivateBestChain is called all the same.                           *)
ProcessOldBlock(t, b) ==
    /\ HeaderAccepted(b)
    /\ \E fRequested \in BOOLEAN : ~Wanted(b, fRequested)
    /\ m_block_index' = m_block_index \cup {b}
    /\ validity' = WithHeader(b)
    /\ Step(t, "idle", "activate")
    /\ UNCHANGED <<haveData, haveTxsDownloaded, m_blocks_unlinked, queue, flags, nSequenceId,
                   setBlockIndexCandidates, tip, precious, local, commands, shutdown, history>>

-----------------------------------------------------------------------------
(* ActivateBestChain takes m_chainstate_mutex and starts a section.        *)
ActivateBestChain(t) ==
    /\ MutexFree /\ CsMainFree
    /\ Step(t, "activate", "find")
    /\ local' = [local EXCEPT !.starting_tip = tip]
    /\ UNCHANGED <<index, flags, nSequenceId, setBlockIndexCandidates, tip, precious, commands, shutdown, history>>

(* Another section, after cs_main was free for a while.                    *)
NextSection(t) ==
    /\ CsMainFree
    /\ Step(t, "release", "find")
    /\ local' = [local EXCEPT !.starting_tip = tip]
    /\ UNCHANGED <<index, flags, nSequenceId, setBlockIndexCandidates, tip, precious, commands, shutdown, history>>

BestCandidate ==
    CHOOSE b \in setBlockIndexCandidates :
        \A c \in setBlockIndexCandidates \ {b} : Worse(c, b, nSequenceId)

(* Mutant: only the candidate itself is looked at.                         *)
FailedOn_CandidateOnly(b) == {c \in {b} \ Path[tip] : IsFailed(c)}

(* The failed blocks between a candidate and the active chain.             *)
FailedOn(b) == {c \in Path[b] \ Path[tip] : IsFailed(c)}

(* FindMostWorkChain meets a chain with a failed block: the blocks above   *)
(* the highest failed one are marked, and all of them are candidates no    *)
(* more.                                                                   *)
DiscardFailedChain(t) ==
    /\ pc[t] = "find"
    /\ local.pindexMostWork = NoBlock /\ setBlockIndexCandidates # {}
    /\ \E f \in FailedOn(BestCandidate) :
          /\ \A c \in FailedOn(BestCandidate) : nHeight[c] <= nHeight[f]
          /\ LET above == Path[BestCandidate] \ Path[f] IN
             /\ failedChild' = failedChild \cup above
             /\ setBlockIndexCandidates' = setBlockIndexCandidates \ (above \cup {f})
    /\ UNCHANGED <<index, failedValid, m_failed_blocks, nSequenceId, tip, precious, pc, local, commands, shutdown, history>>

(* The block to go to: the one of the section before, or what              *)
(* FindMostWorkChain returns once it has discarded the failed chains.      *)
MostWork ==
    IF local.pindexMostWork # NoBlock THEN local.pindexMostWork
    ELSE IF setBlockIndexCandidates = {} THEN NoBlock ELSE BestCandidate

FindMostWorkChain(t) ==
    /\ pc[t] = "find"
    /\ local.pindexMostWork = NoBlock /\ MostWork # NoBlock => FailedOn(MostWork) = {}

(* Mutant: the function returns after its first section.                   *)
EndSection_OneSection(t, l, newTip) ==
    pc' = [pc EXCEPT ![t] = "idle"] /\ local' = NoLocal

(* The end of a section: the function returns when nothing was connected,  *)
(* when the tip is where it wanted to go, or when the node shuts down.     *)
EndSection(t, l, newTip) ==
    LET returns == ~l.blocks_connected \/ shutdown \/ newTip = l.pindexMostWork IN
    /\ pc' = [pc EXCEPT ![t] = IF returns THEN "idle" ELSE "release"]
    /\ local' = IF returns THEN NoLocal
                ELSE [l EXCEPT !.blocks_connected = FALSE]

(* Nothing to do: leave the inner loop.                                    *)
LeaveLoop(t) ==
    /\ FindMostWorkChain(t)
    /\ MostWork \in {NoBlock, tip}
    /\ EndSection(t, [local EXCEPT !.pindexMostWork = MostWork], local.pindexNewTip)
    /\ UNCHANGED <<index, flags, nSequenceId, setBlockIndexCandidates, tip, precious, commands, shutdown, history>>

(* ActivateBestChainStep first disconnects down to the fork.               *)
ActivateBestChainStep(t) ==
    /\ FindMostWorkChain(t)
    /\ MostWork \notin {NoBlock, tip}
    /\ pc' = [pc EXCEPT ![t] = "connect"]
    /\ tip' = FindFork(tip, MostWork)
    /\ local' = [local EXCEPT !.pindexMostWork = MostWork, !.pindexOldTip = tip]
    /\ UNCHANGED <<index, flags, nSequenceId, setBlockIndexCandidates, precious, commands, shutdown, history>>

NextToConnect ==
    CHOOSE b \in Path[local.pindexMostWork] : b # Genesis /\ pprev[b] = tip

(* Mutant: cs_main is released after every step.                           *)
AfterStep_Release(t, newTip, mostWork) ==
    EndSection(t, [local EXCEPT !.pindexNewTip = newTip, !.blocks_connected = TRUE,
                                !.pindexMostWork = mostWork, !.pindexOldTip = NoBlock], newTip)

(* What follows a step: the inner loop goes on while the tip is worse than *)
(* it was at the start of the section.                                     *)
AfterStep(t, newTip, mostWork) ==
    LET l == [local EXCEPT !.pindexNewTip = newTip, !.blocks_connected = TRUE,
                           !.pindexMostWork = mostWork, !.pindexOldTip = NoBlock] IN
    IF Worse(newTip, local.starting_tip, nSequenceId)
    THEN pc' = [pc EXCEPT ![t] = "find"] /\ local' = l
    ELSE EndSection(t, l, newTip)

(* ConnectTip succeeds.  The step is over at pindexMostWork, or as soon as *)
(* there is more work than before it.                                      *)
ConnectTip(t) ==
    /\ pc[t] = "connect"
    /\ tip' = NextToConnect
    /\ validity' = IF IsFailed(tip') THEN validity ELSE [validity EXCEPT ![tip'] = VALID_SCRIPTS]
    /\ setBlockIndexCandidates' =
          PruneBlockIndexCandidates(setBlockIndexCandidates, tip', nSequenceId)
    /\ IF tip' = local.pindexMostWork \/ nChainWork[tip'] > nChainWork[local.pindexOldTip]
       THEN AfterStep(t, tip', local.pindexMostWork)
       ELSE UNCHANGED <<pc, local>>
    /\ UNCHANGED <<m_block_index, haveData, haveTxsDownloaded, m_blocks_unlinked, queue, flags,
                   nSequenceId, precious, commands, shutdown, history>>

(* ConnectBlock finds the block invalid, which it cannot be when it was    *)
(* connected before: InvalidBlockFound, and the choice starts again.       *)
InvalidBlockFound(t) ==
    /\ pc[t] = "connect"
    /\ validity[NextToConnect] < VALID_SCRIPTS
    /\ failedValid' = failedValid \cup {NextToConnect}
    /\ m_failed_blocks' = m_failed_blocks \cup {NextToConnect}
    /\ setBlockIndexCandidates' = setBlockIndexCandidates \ {NextToConnect}
    /\ AfterStep(t, tip, NoBlock)
    /\ UNCHANGED <<index, failedChild, nSequenceId, tip, precious, commands, shutdown, history>>

-----------------------------------------------------------------------------
(* preciousblock: the block counts as received before those with the same  *)
(* work.  With less work than the tip it is left alone.                    *)
(* nBlockReverseSequenceId stays at the least value of its type.           *)
PreciousBlock(t, b) ==
    /\ Step(t, "idle", "activate")
    /\ nChainWork[b] >= nChainWork[tip]
    /\ LET id == IF nChainWork[tip] > nLastPreciousChainwork THEN -1
                 ELSE nBlockReverseSequenceId IN
       /\ nLastPreciousChainwork' = nChainWork[tip]
       /\ nSequenceId' = [nSequenceId EXCEPT ![b] = id]
       /\ nBlockReverseSequenceId' = IF id > MinSequenceId THEN id - 1 ELSE id
       /\ setBlockIndexCandidates' =
             IF IsValid(b, VALID_TRANSACTIONS) /\ b \in haveTxsDownloaded
             THEN PruneBlockIndexCandidates(setBlockIndexCandidates \cup {b}, tip, nSequenceId')
             ELSE setBlockIndexCandidates \ {b}
       /\ overlooked' = overlooked \cup
             {c \in haveTxsDownloaded \ {b} :
                 Worse(c, tip, nSequenceId) /\ ~Worse(c, tip, nSequenceId')}
    /\ UNCHANGED <<index, flags, tip, local, shutdown, strays>>

(* A valid and downloaded block that is not worse than c.                  *)
CouldReplace(b, c) ==
    /\ IsValid(b, VALID_TRANSACTIONS) /\ b \in haveTxsDownloaded
    /\ ~Worse(b, c, nSequenceId)

(* invalidateblock takes m_chainstate_mutex and collects the blocks that   *)
(* may become candidates.  The genesis block cannot be invalidated.        *)
InvalidateBlock(t, b) ==
    /\ MutexFree
    /\ b # Genesis
    /\ Step(t, "idle", "invalidate")
    /\ local' = [local EXCEPT !.pindex = b, !.to_mark_failed = b,
                    !.candidate_blocks = {c \in m_block_index \ Path[tip] : CouldReplace(c, pprev[b])}]
    /\ UNCHANGED <<index, flags, nSequenceId, setBlockIndexCandidates, tip, precious, shutdown, history>>

(* One round of its loop: the tip is disconnected and marked, and the      *)
(* collected blocks that are as good as the new tip become candidates.     *)
(* to_mark_failed would become the child of a failed block if it were the  *)
(* parent of the disconnected one; it is its child.                        *)
InvalidateTip(t) ==
    /\ pc[t] = "invalidate" /\ CsMainFree
    /\ ~shutdown /\ InChain(local.pindex)
    /\ tip' = pprev[tip]
    /\ LET child == local.to_mark_failed
           marked == tip' = child /\ child \in failedValid
           found == {c \in local.candidate_blocks : ~Worse(c, tip', nSequenceId)} IN
       /\ failedValid' = (failedValid \cup {tip}) \ (IF marked THEN {child} ELSE {})
       /\ failedChild' = failedChild \cup (IF marked THEN {child} ELSE {})
       /\ setBlockIndexCandidates' = (setBlockIndexCandidates \ {tip}) \cup {tip'} \cup found
       /\ local' = [local EXCEPT !.to_mark_failed = tip, !.candidate_blocks = @ \ found]
    /\ UNCHANGED <<index, m_failed_blocks, nSequenceId, precious, pc, commands, shutdown, history>>

(* Mutant: the blocks that came meanwhile are not looked for.              *)
InvalidateEnd_NoRescan(t) ==
    /\ CsMainFree
    /\ Step(t, "invalidate", "activate")
    /\ shutdown \/ ~InChain(local.pindex)
    /\ local' = NoLocal
    /\ IF InChain(local.to_mark_failed)
       THEN UNCHANGED <<flags, setBlockIndexCandidates>>
       ELSE LET b == local.to_mark_failed IN
            /\ failedValid' = failedValid \cup {b}
            /\ m_failed_blocks' = m_failed_blocks \cup {b}
            /\ setBlockIndexCandidates' = setBlockIndexCandidates \ {b}
            /\ UNCHANGED failedChild
    /\ UNCHANGED <<index, nSequenceId, tip, precious, commands, shutdown, history>>

(* After the loop: the last block is marked, and every block that is as    *)
(* good as the tip becomes a candidate, the ones that came meanwhile       *)
(* included.  invalidateblock then calls ActivateBestChain.                *)
InvalidateEnd(t) ==
    /\ CsMainFree
    /\ Step(t, "invalidate", "activate")
    /\ shutdown \/ ~InChain(local.pindex)
    /\ local' = NoLocal
    /\ IF InChain(local.to_mark_failed)
       THEN UNCHANGED <<flags, setBlockIndexCandidates>>
       ELSE LET b == local.to_mark_failed IN
            /\ failedValid' = failedValid \cup {b}
            /\ m_failed_blocks' = m_failed_blocks \cup {b}
            /\ setBlockIndexCandidates' = (setBlockIndexCandidates \ {b})
                  \cup {c \in m_block_index \ {b} : CouldReplace(c, tip)}
            /\ UNCHANGED failedChild
    /\ UNCHANGED <<index, nSequenceId, tip, precious, commands, shutdown, history>>

Descendants(b) == {c \in m_block_index : b \in Path[c]}

(* The ancestors of b whose marks reconsiderblock clears, and that could   *)
(* then be the tip.                                                        *)
ClearedAbove(b) ==
    {c \in Path[b] \ {b} :
        IsFailed(c) /\ c \in haveTxsDownloaded /\ Worse(tip, c, nSequenceId)}

(* reconsiderblock: ResetBlockFailureFlags clears the marks of the block,  *)
(* of its descendants and of its ancestors; of these only the descendants, *)
(* and the block itself, become candidates.                                *)
ReconsiderBlock(t, b) ==
    /\ Step(t, "idle", "activate")
    /\ LET below == Descendants(b)
           cleared == below \cup Path[b] IN
       /\ failedValid' = failedValid \ cleared
       /\ failedChild' = failedChild \ cleared
       /\ m_failed_blocks' = m_failed_blocks \ cleared
       /\ setBlockIndexCandidates' = setBlockIndexCandidates \cup
             {c \in below : /\ ~IsValid(c, VALID_TRANSACTIONS)
                            /\ validity[c] >= VALID_TRANSACTIONS /\ c \in haveTxsDownloaded
                            /\ Worse(tip, c, nSequenceId)}
       /\ overlooked' = overlooked \cup ClearedAbove(b)
    /\ UNCHANGED <<index, nSequenceId, tip, precious, local, shutdown, strays>>

StartShutdown ==
    /\ ~shutdown /\ shutdown' = TRUE
    /\ UNCHANGED <<index, flags, nSequenceId, setBlockIndexCandidates, tip, precious, pc, local, history>>

(* The sequences that hold each element of a set once.                     *)
Orders(S) ==
    UNION {{s \in [1..n -> S] : Elements(s) = S /\ \A i, j \in 1..n : s[i] = s[j] => i = j}
               : n \in 0..Cardinality(S)}

(* The next start, with LoadBlockIndex and LoadChainTip, which ends with   *)
(* ActivateBestChain.  What is only in memory is lost: the ids and         *)
(* m_failed_blocks.                                                        *)
Restart(t) ==
    /\ shutdown /\ shutdown' = FALSE
    /\ \A u \in Threads : pc[u] = "idle"
    /\ Step(t, "idle", "activate")
    /\ nSequenceId' = [b \in Blocks |-> 0]
    /\ nBlockReverseSequenceId' = -1 /\ nLastPreciousChainwork' = 0
    /\ failedChild' = failedChild \cup
          {b \in m_block_index : ~IsFailed(b) /\ \E c \in Path[b] : IsFailed(c)}
    /\ m_failed_blocks' = {}
    /\ haveTxsDownloaded' = {b \in haveData : Path[b] \subseteq haveData}
    /\ LET waiting(p) == {b \in haveData \ haveTxsDownloaded' : pprev[b] = p} IN
       /\ m_blocks_unlinked' \in [Blocks -> UNION {Orders(waiting(p)) : p \in Blocks}]
       /\ \A p \in Blocks : m_blocks_unlinked'[p] \in Orders(waiting(p))
    /\ setBlockIndexCandidates' =
          PruneBlockIndexCandidates(
              {b \in haveTxsDownloaded' : b \notin failedValid \cup failedChild'}, tip, nSequenceId')
    /\ strays' = {} /\ overlooked' = {}
    /\ UNCHANGED <<m_block_index, validity, haveData, queue, failedValid, tip, local, commands>>

-----------------------------------------------------------------------------
Activation(t) ==
    \/ ActivateBestChain(t) \/ NextSection(t)
    \/ DiscardFailedChain(t) \/ LeaveLoop(t)
    \/ ActivateBestChainStep(t) \/ ConnectTip(t) \/ InvalidBlockFound(t)

Invalidation(t) == InvalidateTip(t) \/ InvalidateEnd(t)

(* Headers and blocks from the network.                                    *)
Arrival ==
    CsMainFree /\ \E b \in Blocks \ {Genesis} :
        \/ AcceptBlockHeader(b) \/ RefuseBlockHeader(b) \/ ProcessInvalidBlock(b)
        \/ \E t \in Threads : ProcessNewBlock(t, b) \/ ProcessOldBlock(t, b)

(* Commands, each with its first section.                                  *)
Commands ==
    /\ CsMainFree
    /\ commands < MaxCommands /\ commands' = commands + 1
    /\ \/ StartShutdown
       \/ \E t \in Threads, b \in m_block_index :
             PreciousBlock(t, b) \/ InvalidateBlock(t, b) \/ ReconsiderBlock(t, b)

Next ==
    \/ Arrival \/ Commands
    \/ \E t \in Threads : LinkBlock(t) \/ Activation(t) \/ Invalidation(t) \/ Restart(t)

Spec == Init /\ [][Next]_vars

-----------------------------------------------------------------------------
Quiet == \A t \in Threads : pc[t] = "idle"

(* A chain the node could be on: all of it came, and none of it failed.    *)
Usable(b) == Path[b] \subseteq haveData /\ \A c \in Path[b] : ~IsFailed(c)

(* The blocks whose chain holds a stored block that was put nowhere.       *)
BelowAStray(b) == Path[b] \cap strays # {}

(* When every call has returned, the tip is the best chain there is: none  *)
(* that is downloaded and not known to be invalid sorts before it.  Two    *)
(* things the code does not look for are excepted, until the next start:   *)
(* blocks below a stray, and all blocks once one was overlooked.           *)
TipIsBest ==
    Quiet /\ ~shutdown /\ overlooked = {} =>
        \A b \in Blocks : Usable(b) /\ ~BelowAStray(b) => ~Worse(tip, b, nSequenceId)

(* What the help of reconsiderblock says: it "Removes invalidity status of *)
(* a block, its ancestors and its descendants, reconsider them for         *)
(* activation".  TipIsBest without its exceptions.                         *)
UndoneByReconsider ==
    Quiet /\ ~shutdown => \A b \in Blocks : Usable(b) => ~Worse(tip, b, nSequenceId)

(* No block of the active chain is marked as failed, and all of it passed  *)
(* ConnectBlock, also while blocks are being invalidated.                  *)
ActiveChainIsValid ==
    \A b \in Path[tip] : ~IsFailed(b) /\ validity[b] = VALID_SCRIPTS /\ b \in haveTxsDownloaded

(* CheckBlockIndex: a block that is not worse than the tip, and whose      *)
(* chain came and has no failed block, is a candidate, except while        *)
(* invalidateblock takes the tip back and after a block was overlooked;    *)
(* one that is worse, or whose chain did not come, is none.                *)
CandidatesAreExact ==
    CsMainFree =>
        /\ overlooked = {} /\ (\A t \in Threads : pc[t] # "invalidate") =>
              \A b \in Blocks :
                  Usable(b) /\ ~BelowAStray(b) /\ ~Worse(b, tip, nSequenceId) =>
                      b \in setBlockIndexCandidates
        /\ \A b \in setBlockIndexCandidates :
              b \in haveTxsDownloaded /\ ~Worse(b, tip, nSequenceId)

(* CheckBlockIndex: "The failed mask cannot be set for blocks without      *)
(* invalid parents".                                                       *)
FailuresHaveACause ==
    \A b \in Blocks : IsFailed(b) => Path[b] \cap failedValid # {}

(* CheckBlockIndex: a block counts as downloaded with all its ancestors    *)
(* only when it is; if none of them is a stray, exactly then, and it waits *)
(* in m_blocks_unlinked exactly when it does not.                          *)
UnlinkedIsExact ==
    queue = <<>> =>
        \A b \in haveData \cup haveTxsDownloaded :
            /\ b \in haveTxsDownloaded => Path[b] \subseteq haveData
            /\ ~BelowAStray(b) =>
                  /\ b \in haveTxsDownloaded <=> Path[b] \subseteq haveData
                  /\ b \in Values(m_blocks_unlinked) <=> b \notin haveTxsDownloaded

(* ActivateBestChain never releases cs_main with less work than it found,  *)
(* even when a reorganisation meets an invalid block half way, unless a    *)
(* block was overlooked.                                                   *)
NoStepBack ==
    overlooked = {} => \A t \in Threads :
        pc[t] = "release" => nChainWork[tip] >= nChainWork[local.starting_tip]
=============================================================================
