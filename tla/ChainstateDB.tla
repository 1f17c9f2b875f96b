---------------------------- MODULE ChainstateDB ----------------------------
(***************************************************************************)
(* The chainstate on disk and its recovery.  Connecting and disconnecting  *)
(* blocks changes the coins in memory.  A flush saves block and undo data, *)
(* then the block index, and then writes the changed coins to the coins    *)
(* database in several batches: the first erases DB_BEST_BLOCK and   *)
(* writes DB_HEAD_BLOCKS, the last does the opposite.  After a crash       *)
(* ReplayBlocks repairs a database that is in between two blocks, and may  *)
(* crash itself.                                                           *)
(*                                                                         *)
(* The caches above the database are those of CoinsCache; here they are    *)
(* one map of coins.  A coin is the height of the block that created it,   *)
(* so that the same transaction in two branches makes different coins.     *)
(***************************************************************************)
EXTENDS Naturals, Sequences

CONSTANTS Outpoints, Blocks, Genesis, NoBlock,
          Parent,   \* [Blocks \ {Genesis} -> Blocks]
          Path,     \* [Blocks -> SUBSET Blocks]: the block and its ancestors
          Height,   \* [Blocks -> Nat]
          Txs       \* [Blocks -> sequence of transactions]

Spent == 0

Coins == [Outpoints -> Nat]

AllSpent == [o \in Outpoints |-> Spent]

Tx == [spends : SUBSET Outpoints, creates : SUBSET Outpoints]

(* An outpoint is named by the hash of the transaction that creates it, so *)
(* the transactions of a block create different ones.                      *)
ASSUME BlocksAssumption ==
    /\ Genesis \in Blocks /\ NoBlock \notin Blocks
    /\ Height \in [Blocks -> Nat]
    /\ Path[Genesis] = {Genesis} /\ Height[Genesis] = 0
    /\ \A b \in Blocks \ {Genesis} :
          /\ Parent[b] \in Blocks /\ Height[b] = Height[Parent[b]] + 1
          /\ Path[b] = {b} \cup Path[Parent[b]] /\ Genesis \in Path[b]
          /\ Txs[b] \in Seq(Tx) /\ Txs[b] # <<>>
          /\ \A i, j \in DOMAIN Txs[b] : i # j => Txs[b][i].creates \cap Txs[b][j].creates = {}

(* UpdateCoins: a transaction spends its inputs and adds its outputs.      *)
UpdateCoins(coins, tx, height) ==
    [o \in Outpoints |->
        IF o \in tx.creates THEN height
        ELSE IF o \in tx.spends THEN Spent ELSE coins[o]]

(* AfterTxs(coins, b)[n]: the coins after n transactions of block b.       *)
AfterTxs(coins, b) ==
    LET after[n \in 0..Len(Txs[b])] ==
            IF n = 0 THEN coins ELSE UpdateCoins(after[n - 1], Txs[b][n], Height[b])
    IN  after

ConnectCoins(coins, b) == AfterTxs(coins, b)[Len(Txs[b])]

(* What ConnectBlock asks of a block: it creates no output that is there   *)
(* already (BIP 30, or implied by BIP 34 where the loop is skipped), and   *)
(* every input it spends is there when it does.                            *)
CheckInputs(coins, b) ==
    \A i \in DOMAIN Txs[b] :
        /\ \A o \in Txs[b][i].creates : coins[o] = Spent
        /\ \A o \in Txs[b][i].spends : AfterTxs(coins, b)[i - 1][o] # Spent

(* The undo record of a block: for each transaction the coins it spends.   *)
BlockUndo(coins, b) ==
    [i \in DOMAIN Txs[b] |-> [o \in Txs[b][i].spends |-> AfterTxs(coins, b)[i - 1][o]]]

(* Undoing a transaction: its outputs are spent and its inputs restored.   *)
UndoTx(coins, tx, txundo) ==
    [o \in Outpoints |->
        IF o \in tx.spends THEN txundo[o]
        ELSE IF o \in tx.creates THEN Spent ELSE coins[o]]

(* DisconnectBlock undoes the transactions in reverse order:               *)
(* BeforeTxs(coins, b, undo)[n] are the coins when the last n are undone.  *)
BeforeTxs(coins, b, undo) ==
    LET last == Len(Txs[b])
        before[n \in 0..last] ==
            IF n = 0 THEN coins
            ELSE UndoTx(before[n - 1], Txs[b][last + 1 - n], undo[last + 1 - n])
    IN  before

DisconnectCoins(coins, b, undo) == BeforeTxs(coins, b, undo)[Len(Txs[b])]

(* What the coins at b are: every block up to b applied to nothing.  The   *)
(* outputs of the genesis block are never added.                           *)
Utxo[b \in Blocks] ==
    IF b = Genesis THEN AllSpent ELSE ConnectCoins(Utxo[Parent[b]], b)

(* The coins a database with best block b should hold.                     *)
UtxoAt(b) == IF b = NoBlock THEN AllSpent ELSE Utxo[b]

VARIABLES phase,  \* "run", "index" and "flush" (FlushStateToDisk), "down", "roll"
                  \* and "replay" (ReplayBlocks and its flush), or "failed"
          tip,    \* the block whose coins are in memory
          coins,  \* the coins in memory
          undo,   \* [Blocks -> undo record or NoUndo]: written by ConnectBlock
          files,  \* blocks whose data and undo record are on disk
          saved,  \* blocks whose index entry, with their place in files, is on disk
          disk,   \* the coins database
          best,   \* its DB_BEST_BLOCK, or NoBlock
          heads   \* its DB_HEAD_BLOCKS: <<new, old>>, or <<>>

vars == <<phase, tip, coins, undo, files, saved, disk, best, heads>>

(* Every block but the genesis block has a coinbase, and so an entry.      *)
NoUndo == <<>>

Init ==
    /\ phase = "run" /\ tip = Genesis /\ coins = AllSpent
    /\ undo = [b \in Blocks |-> NoUndo]
    /\ files = {} /\ saved = {}
    /\ disk = AllSpent /\ best = NoBlock /\ heads = <<>>

-----------------------------------------------------------------------------
ConnectTip(b) ==
    /\ phase = "run"
    /\ b # Genesis /\ Parent[b] = tip
    /\ CheckInputs(coins, b)
    /\ coins' = ConnectCoins(coins, b)
    /\ undo' = IF undo[b] = NoUndo THEN [undo EXCEPT ![b] = BlockUndo(coins, b)] ELSE undo
    /\ tip' = b
    /\ UNCHANGED <<phase, files, saved, disk, best, heads>>

DisconnectTip ==
    /\ phase = "run"
    /\ tip # Genesis
    /\ coins' = DisconnectCoins(coins, tip, undo[tip])
    /\ tip' = Parent[tip]
    /\ UNCHANGED <<phase, undo, files, saved, disk, best, heads>>

(* What ConnectBlock and the genesis block have left to save.              *)
Connected == {Genesis} \cup {b \in Blocks : undo[b] # NoUndo}

(* Mutant: the block files are left to the operating system.               *)
FlushBlockFile_None ==
    /\ phase = "run"
    /\ phase' = "index"
    /\ UNCHANGED <<tip, coins, undo, files, saved, disk, best, heads>>

(* FlushStateToDisk first makes sure that block and undo data is on disk.  *)
FlushBlockFile ==
    /\ phase = "run"
    /\ files' = files \cup Connected
    /\ phase' = "index"
    /\ UNCHANGED <<tip, coins, undo, saved, disk, best, heads>>

(* Then it writes the block index, and then, unless it is only the         *)
(* periodic write, has BatchWrite save the coins.                          *)
WriteBlockIndexDB(fDoFullFlush) ==
    /\ phase = "index"
    /\ saved' = saved \cup Connected
    /\ phase' = IF fDoFullFlush THEN "flush" ELSE "run"
    /\ UNCHANGED <<tip, coins, undo, files, disk, best, heads>>

(* BatchWrite's old_tip; "we may be in the middle of replaying".           *)
OldTip == IF best = NoBlock /\ heads # <<>> THEN heads[2] ELSE best

ToWrite == {o \in Outpoints : coins[o] # disk[o]}

Written(S) == [o \in Outpoints |-> IF o \in S THEN coins[o] ELSE disk[o]]

(* Mutant: a batch that does not mark the transition.                      *)
PartialBatch_NoHeads(S) ==
    /\ phase \in {"flush", "replay"}
    /\ S \subseteq ToWrite
    /\ disk' = Written(S)
    /\ UNCHANGED <<phase, tip, coins, undo, files, saved, best, heads>>

(* Mutant: a replay marks the transition as one from nothing.              *)
PartialBatch_ForgetOld(S) ==
    /\ phase \in {"flush", "replay"}
    /\ S \subseteq ToWrite
    /\ disk' = Written(S)
    /\ best' = NoBlock /\ heads' = <<tip, best>>
    /\ UNCHANGED <<phase, tip, coins, undo, files, saved>>

PartialBatch(S) ==
    /\ phase \in {"flush", "replay"}
    /\ S \subseteq ToWrite
    /\ disk' = Written(S)
    /\ best' = NoBlock /\ heads' = <<tip, OldTip>>
    /\ UNCHANGED <<phase, tip, coins, undo, files, saved>>

(* The last batch has what is left.  After a replay LoadChainTip finds the *)
(* best block where the replay left it, and the node runs.                 *)
FinalBatch ==
    /\ phase \in {"flush", "replay"}
    /\ disk' = coins
    /\ best' = tip /\ heads' = <<>>
    /\ phase' = "run"
    /\ UNCHANGED <<tip, coins, undo, files, saved>>

(* The process ends.  Block and undo data that is not in the files, or     *)
(* that no index entry on disk leads to, is lost.                          *)
Crash ==
    /\ phase \notin {"down", "failed"}
    /\ phase' = "down"
    /\ tip' = Genesis /\ coins' = AllSpent
    /\ files' = files \cap saved
    /\ undo' = [b \in Blocks |-> IF b \in files \cap saved THEN undo[b] ELSE NoUndo]
    /\ UNCHANGED <<saved, disk, best, heads>>

(* LoadChainTip, when there is nothing to replay.                          *)
LoadChainTip ==
    /\ phase = "down"
    /\ heads = <<>>
    /\ IF best \in saved \cup {NoBlock}
       THEN /\ tip' = (IF best = NoBlock THEN Genesis ELSE best)
            /\ coins' = disk
            /\ phase' = "run"
       ELSE phase' = "failed" /\ UNCHANGED <<tip, coins>>
    /\ UNCHANGED <<undo, files, saved, disk, best, heads>>

(* ReplayBlocks, when DB_HEAD_BLOCKS says that a flush was cut short: the  *)
(* coins of the database are taken as those of the old block, or of the    *)
(* genesis block in the first flush, and both index entries must be there. *)
ReplayBlocks ==
    /\ phase = "down"
    /\ heads # <<>>
    /\ IF heads[1] \in saved /\ heads[2] \in saved \cup {NoBlock}
       THEN /\ coins' = disk
            /\ tip' = (IF heads[2] = NoBlock THEN Genesis ELSE heads[2])
            /\ phase' = "roll"
       ELSE phase' = "failed" /\ UNCHANGED <<tip, coins>>
    /\ UNCHANGED <<undo, files, saved, disk, best, heads>>

(* The fork is the first block on the way back from the old one that the   *)
(* new one descends from.                                                  *)
LastCommonAncestor == tip \in Path[heads[1]]

(* Mutant: the blocks of the old branch are not undone.                    *)
RollbackBlock_Skipped ==
    /\ phase = "roll" /\ ~LastCommonAncestor
    /\ tip' = Parent[tip]
    /\ UNCHANGED <<phase, coins, undo, files, saved, disk, best, heads>>

(* A block of the old branch is undone, for which it and its undo record   *)
(* are read.                                                               *)
RollbackBlock ==
    /\ phase = "roll" /\ ~LastCommonAncestor
    /\ IF tip \in files /\ undo[tip] # NoUndo
       THEN /\ coins' = DisconnectCoins(coins, tip, undo[tip])
            /\ tip' = Parent[tip]
            /\ UNCHANGED phase
       ELSE phase' = "failed" /\ UNCHANGED <<tip, coins>>
    /\ UNCHANGED <<undo, files, saved, disk, best, heads>>

(* The next block of the new branch is applied; this is ConnectBlock       *)
(* without the checks.                                                     *)
RollforwardBlock(b) ==
    /\ phase = "roll" /\ LastCommonAncestor
    /\ b \in Path[heads[1]] \ {Genesis} /\ Parent[b] = tip
    /\ IF b \in files
       THEN /\ coins' = ConnectCoins(coins, b)
            /\ tip' = b
            /\ UNCHANGED phase
       ELSE phase' = "failed" /\ UNCHANGED <<tip, coins>>
    /\ UNCHANGED <<undo, files, saved, disk, best, heads>>

(* At the new block, the result is flushed.                                *)
FlushReplay ==
    /\ phase = "roll" /\ tip = heads[1]
    /\ phase' = "replay"
    /\ UNCHANGED <<tip, coins, undo, files, saved, disk, best, heads>>

Next ==
    \/ \E b \in Blocks : ConnectTip(b)
    \/ DisconnectTip
    \/ FlushBlockFile
    \/ \E fDoFullFlush \in BOOLEAN : WriteBlockIndexDB(fDoFullFlush)
    \/ \E S \in SUBSET Outpoints : PartialBatch(S)
    \/ FinalBatch
    \/ Crash
    \/ LoadChainTip
    \/ ReplayBlocks
    \/ RollbackBlock
    \/ \E b \in Blocks : RollforwardBlock(b)
    \/ FlushReplay

Spec == Init /\ [][Next]_vars

-----------------------------------------------------------------------------
(* Whatever is flushed, crashes and is replayed, in whatever order: while  *)
(* the node runs, and while ReplayBlocks writes its result, the coins are  *)
(* exactly those of the tip.                                               *)
CoinsAreTheTips == phase \in {"run", "index", "flush", "replay"} => coins = Utxo[tip]

(* A database that names a best block holds exactly its coins: a mixture   *)
(* of two blocks is always marked by DB_HEAD_BLOCKS.                       *)
DatabaseIsExact == heads = <<>> => disk = UtxoAt(best)

(* A database that names two heads holds, outpoint by outpoint, the coins  *)
(* of one or of the other, also when the replay of an interrupted flush    *)
(* is interrupted; and a write that finds it so leads to the first of the  *)
(* two, as BatchWrite asserts (heads[0] == hashBlock).                     *)
MixtureOfTwo ==
    heads # <<>> =>
        /\ \A o \in Outpoints : disk[o] \in {UtxoAt(heads[1])[o], UtxoAt(heads[2])[o]}
        /\ phase \in {"flush", "replay"} /\ best = NoBlock => heads[1] = tip

(* The node can always start again: no crash leaves a database whose best  *)
(* block or heads are not in the block index, or whose branches cannot be  *)
(* read to be undone and applied.                                          *)
CanRestart == phase # "failed"

=============================================================================
