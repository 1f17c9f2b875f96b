# Formal models of Coral

Coral is a fork of Bitcoin Core 24.0.1. It keeps Core's node, wallet and
network and adds four parts of its own: poker tables, a marketplace, an
identity store, and desktop pages for them and for mining. RandomX is in the
sources, but a block is accepted by its SHA256d hash alone (`pow.cpp:277-287`).
This directory holds TLA+ models of parts of it, the
TLC configurations that check them on small instances, and theorems about them
whose proofs TLAPS checks for every value of the constants.

Paths below are relative to the repository's `src/`. `PROJECT.json` maps every
definition to the lines it models and lists the runs, the mutants that show
that each property can fail, the hazards and the theorems.

## 1. The system and what is modelled

| Part | Source | Modules | State of the work |
|---|---|---|---|
| Poker betting engine | `poker/poker.cpp` | `SeqSum`, `PokerGame`, `PokerGameProofs` | all but five-card draw |
| Identity store | `identity/` | `IdentityManager`, `StoreProofs` | all writers, lookup |
| Marketplace order store | `marketplace/orderstore.cpp` | `OrderStore`, `StoreProofs` | modelled |
| Marketplace listing store | `marketplace/listingstore.cpp` | `ListingStore`, `StoreProofs` | modelled |
| Coins caches | `coins.cpp` | `CoinsCache`, abstract `UtxoStack`, `StoreProofs` | modelled |
| Chainstate database and recovery | `validation.cpp`, `txdb.cpp` | `ChainstateDB`, `ChainstateDBProofs` | effect on the coins, flush, crash, replay |
| Script check queue | `checkqueue.h` | `CheckQueue`, abstract `CheckSession`, `CheckQueueProofs` | modelled |
| Scheduler and validation callbacks | `scheduler.cpp` | `Scheduler`, abstract `SerialQueue`, `SchedulerProofs` | all that the node calls |
| Transaction requests | `txrequest.cpp` | `TxRequest`, abstract `TxRequestRules`, `TxRequestProofs` | modelled |
| Block index and chain selection | `validation.cpp` | `ChainSelection`, `ChainSelectionProofs`, `ChainTipProofs` | the index, the choice of the tip, the commands |

The modules named `MC...` give the constants their values for TLC. What is
left out is listed in section 5.

How the parts interact. A table (`PokerGame`) is driven by `PokerNetManager`,
which applies the messages of other nodes and the actions of the local player;
the lobby and the table window call only it. Each marketplace or identity store
is one LevelDB database; the desktop pages that are to use them
(`qt/marketpage.cpp`, `qt/identitydialog.cpp`) do not call them yet. Blocks connected by validation change a view of the
coins, stacked on the tip cache, stacked on the coins database; flushes move
the changes down, and at start-up the database is repaired if a flush was cut
short. The scripts of a block are verified by the check queue; which block is
connected next is decided by the chain selection, which tells the listeners
through the scheduler's serial queue. Which peer is asked for a transaction is
decided by the request tracker, under `cs_main` like the rest of validation.

## 2. Modules

### PokerGame (with SeqSum)

`m_players` is the sequence `seats`; the fields of `Player` are functions of
the player (`stack`, `bet`, `pstate`, `hole`). `round` is
`m_bettingRounds.back()`: the bet to match, who acted, and the last bet or
raise, which is all of a round that is read again. Cards are counted, not
named, and the winners at a showdown are any non-empty set of the players who
did not fold, because the evaluation of hands is not part of this module.
`SeqSum` is the sum over the seats that `CollectBets` and `DetermineWinners`
compute with loops.

One action per operation: `AddPlayer`, `RemovePlayer`, `StartGame`,
`StartNewHand` (with `PostBlinds`), `DealCards`, `Fold`, `Check`, `Call`,
`Bet`, `Raise`, `AllIn`, `DealBoard` and, inside an action that closes a
round, `AdvancePhase` and `EndHand`.

There are two environments.

* `Spec` is a table driven as the engine expects: everybody sits down first,
  a hand is started and dealt before anyone acts, nobody acts between hands,
  and somebody turns the board when nobody can act. None of this is enforced
  by the engine; the theorems and `poker_table` hold for such a driver.
* `OpenSpec` lets players join, leave, start and act whenever a message or a
  local call arrives, which is what `PokerNetManager` really allows.
  `poker_open` checks what still holds then. Here `MaxChips` bounds the chips.

No fairness is assumed and no liveness stated. Nothing outside `poker.cpp`
calls `StartNewHand`, `DealHoleCards`, `DealFlop`, `DealTurn`, `DealRiver` or
`AdvancePhase`, and the engine has no timer (`timeoutSeconds` is never read):
with the code as it is, no hand starts, and one in which everybody left is all
in would hang. What is stated instead is that the betting cannot go on for
ever, whoever drives it (`EveryActionCounts`).

### IdentityManager

Two threads may call the manager, whose mutex is made for that; no code does
yet. The database is a record per address (`db`) and an index from a claim (service
and identifier) to an address (`index`). `SaveIdentity` erases the old index
entries one by one, writes the record and writes the new entries one by one,
and each of these writes is a step of its own under the mutex (`holder`).
`AddVerifiedProof` and `AddPGPKey` read under the mutex, release it, edit a
copy (`call[t].copy`) and take it again. `Crash` may come between any two
writes and loses every call under way.

### OrderStore and ListingStore

A record per id and the index entries by their keys. A write is one atomic
LevelDB batch; a deletion is two, the one that removes the index entries
(`RemoveOrderIndexes`, `RemoveListingIndexes`) being committed first;
`PruneExpired` is one per listing. `OrderCrash` and `ListingCrash` may come
between any two, and a history variable remembers which deletions were cut
short. Names that both stores have in the code carry the store's name here, so
that one module can prove facts about both. Ids
are hashes of fields that therefore never change under one id; the fields that
can change (status, escrow transaction, category, expiry) are in the records.
`BatchFunding` says whether one transaction may fund several orders. `OTHER`
stands for the four listing statuses that the store does not tell apart.

Nothing in the repository calls the stores yet, so that no two operations of
one store overlap is an assumption about the caller to come. `PruneExpired`
reads at most 10,000 listings in the order of their keys (`PruneLimit`). The
queries have a limit too (100 by default), which is a parameter of their
callers and is left out: what the properties say a query finds, it finds with
a limit that is large enough.

### CoinsCache and UtxoStack

`UtxoStack` is what the caches promise: three plain copies of the unspent
outputs, changed at the top, applied or dropped as a whole, and persisted as a
whole. `CoinsCache` is the code: two levels of entries with the flags DIRTY
and FRESH over the database, with `FetchCoin`, `AddCoin`, `SpendCoin`,
`SetBestBlock`, `BatchWrite`, `Flush`, `Uncache` and the lazily fetched best
block. `ImplementsUtxoStack` maps each level to what it answers.

Assumed of the callers, as in validation: `AddCoin` without
`possible_overwrite` is called only where the view has no unspent coin (it
throws otherwise), and only spendable outputs are added. Everything runs under
`cs_main`, so an operation is one step. Here a write of the database is one
step; the batches it is made of are the subject of the next module.

### ChainstateDB

A block tree with transactions that spend and create outpoints (`Path[b]` is b
and its ancestors). A coin is the height of the block that created it, so that
one transaction mined in two branches makes two different coins. `ConnectTip`
applies the transactions of a block in order (`AfterTxs`), provided that their
inputs are there and their outputs are new (`CheckInputs`), and writes an undo
record with an entry per transaction; `DisconnectTip` undoes them in reverse
order (`BeforeTxs`). `FlushStateToDisk` is three writes with a crash possible
between any two: `FlushBlockFile` puts block and undo data on the disk
(`files`), `WriteBlockIndexDB` saves the index entries that point to them
(`saved`), and unless this is the periodic write `PartialBatch` and
`FinalBatch` write the coins: any part of the changed coins may be in the
batches written before a crash. `DB_BEST_BLOCK` and `DB_HEAD_BLOCKS` are
`best` and `heads`. After `Crash`, `LoadChainTip` starts the node on a database
with a best block. With two heads, `ReplayBlocks` begins a replay (`"roll"`):
`RollbackBlock` undoes the blocks of the old branch one by one,
`RollforwardBlock` applies those of the new one, and the result is flushed
(`"replay"`) like any other. Whatever is not found on disk leaves the node in
`"failed"`.

The reference is `Utxo`, the coins after every block up to a given one. The
crash is that of the process: a batch that LevelDB returned from is kept. Block
validity, pruning, reindexing and snapshots are left out. The coins of the
first start, before the genesis block is connected, are those of the genesis
block, whose output is never added.

### CheckQueue and CheckSession

`CheckSession` is the promise: sessions follow one another, and each is
answered with the conjunction of the checks added to it. `CheckQueue` is the
code: every section under `m_mutex` is one step, and the sections of different
threads, the checks run outside the mutex and the notifications sent after it
is released interleave. The three ways into the loop of `CCheckQueue::Loop`
are `Enter`, `Account` and `Resume`, which all end in `Proceed`: return,
block, exit or take a batch. `Begin`, `Add`, `AddNotify`, `CallWait` and
`Leave` are `CCheckQueueControl`; `StartWorkerThreads`, `StopRequest`,
`StopNotify` and `StopJoin` are the pool. A wait may end by itself, and a
notification reaches only the threads that wait when it is sent. The order of
the queue is left open, because the code does not depend on it: a batch is any
part of the queue of the right size.

`FairSpec` assumes that a thread that can take the mutex or run its checks
does so in the end, and that a stop that was begun goes on. Nothing is assumed
of what the masters add.

Not covered: the comment at `validation.cpp:2176-2180` asks that `txsdata`, to
which the checks point, stay in scope as long as `control`. The code declares
`control` first (`:2181-2182`), so that on an early return `txsdata` is
destroyed before the destructor of `control` waits for the checks. Lifetimes
are not part of the model.

### Scheduler and SerialQueue

`SerialQueue` is the promise of `SingleThreadedSchedulerClient`: callbacks run
one at a time, in the order they were added. `Scheduler` is `serviceQueue` by
several threads, `schedule`, one periodic task, the client (whose decision
whether a `ProcessQueue` is needed, `MaybeScheduleProcessQueue`, is a section
of its own), the threads that add callbacks, and the shutdown. The queue is a
bag of tasks with times.

A thread that finds more than `QueueLimit` callbacks pending
(`LimitValidationInterfaceQueue`) adds one that fulfils a promise and waits for
it (`SyncWithValidationInterfaceQueue`, `SyncReturn`). `Shutdown` (`init.cpp`)
stops the scheduler when the threads of the network and of the servers are gone
(`StopRequest`, `StopNotify`, `StopJoin`). The thread that loads blocks
(`Loader`, `ThreadImport`) is joined only after that (`JoinLoader`) and may add
callbacks, and wait for one, until then. It follows the flush whose callback
`EmptyQueue` runs with the others, and `FinalFlush`, whose callback nobody runs.

`FairSpec` assumes that a thread inside an operation goes on: it gets its
mutex, its task or callback ends, its time-out is delivered, and `ThreadImport`
comes to its end once a shutdown is requested. The clock need not advance and
nobody need add anything.

### TxRequest and TxRequestRules

`TxRequestRules` puts the interface comment of `txrequest.h` in a
specification: announcements are candidates, requested or completed, and whom
to ask is decided from scratch when somebody wants to know. `TxRequest` is the
code: candidates are DELAYED, READY or BEST, and every operation moves the
mark BEST along. `st[t]` is the row of a transaction; the neighbours the code
finds in its sorted index are named by what they are. Each round of
`SetTimePoint` is a step of its own (`Promote`, `Expire`, `Demote`), during
which nothing else runs. The callers may call anything in any order with any
time, an earlier one than before included.

No liveness is stated: a transaction is requested only if `SendMessages` keeps
calling `GetRequestable`, which is not part of the module.

### ChainSelection

The block index with its flags (`validity`, `haveData`, `haveTxsDownloaded`,
`failedValid`, `failedChild`), the sets the choice is made from
(`setBlockIndexCandidates`, `m_blocks_unlinked`, `m_failed_blocks`) and the
tip. Headers and blocks arrive in any order, from any thread; whether a block
passes its checks is open until they run. `m_blocks_unlinked` is a multimap,
from a block to the sequence of those that wait for it, and each round of the
loop of `ReceivedBlockTransactions`, which links the first block of a queue
and appends the ones that waited for it, is a step (`LinkBlock`); a restart
refills the multimap in any order (`Orders`). `ActivateBestChain` holds
`m_chainstate_mutex` and takes `cs_main` section by section, keeping
`pindexMostWork` across them; `InvalidateBlock` does the same; in between the
index may change. `PreciousBlock`, `ReconsiderBlock` (for any block, as the
command allows) and `Restart` complete the commands.

Two history variables record what the code does not look for again before the
next start. `strays` are the blocks that came while their parent was marked as
failed: they are stored and put neither in `m_blocks_unlinked` nor in the
queue (`validation.cpp:3320-3322`). `overlooked` are the blocks that could be
the tip and are not made candidates: ancestors that `reconsiderblock` clears,
and blocks that `preciousblock`, called for the tip, makes as good as the tip
by raising its sequence number. The properties say where these are excepted.

Left out: pruning, snapshots and assumed-valid blocks, errors of the disk
(after which the node stops), `m_best_header`, `m_best_invalid`,
`nMinimumChainWork` and `min_pow_checked` (which decide whether a header is
taken at all), the limit of 32 blocks per step of `ActivateBestChainStep`,
BLOCK_MUTATED and the notifications.

## 3. Runs

| Run | Spec | Bounds | Result |
|---|---|---|---|
| `poker_table` | `Spec` | up to 3 players, buy-ins 1, 2 and 5, amounts 2–4, blinds 1/2, three hands | passes |
| `poker_open` | `OpenSpec` | up to 3 players, buy-ins 0 and 3, amount 2, two hands, at most 6 chips | passes |
| `stores` | `StoresSpec` | identities: 2 threads, 2 addresses, 2 services, 1 name; orders: 2, with 2 transactions and all nine statuses; listings: 2, one category or none, clock up to 2, `PruneLimit` 1; coins: 2 outpoints, 2 coins, 2 blocks | passes |
| `chainstate` | `Spec` | 5 blocks in 2 branches, 5 outpoints | passes |
| `check_queue` | `FairSpec` | 2 masters, 2 workers, 4 checks, one of them invalid, batches of at most 2 | passes |
| `tx_request` | `Spec` | 3 peers, 2 transactions, 2 times | passes |
| `scheduler` | `FairSpec` | 2 servicing threads, a producer and the loading thread, 2 callbacks, `QueueLimit` 0, one periodic task, clock 0–1 | passes |
| `chain_selection` | `Spec` | genesis, one heavy block against a branch of three, 2 threads, 2 commands or restarts | passes |
| `poker_round_closes` | `Spec` | stacks 4, one hand | violation |
| `scheduler_shutdown` | `FairSpec` | as `scheduler` | violation |
| `chain_reconsider` | `Spec` | as `chain_selection`, one command | violation |
| `chain_failed_mask` | `Spec` | two blocks on one parent, one command | violation |

What the passing runs show, and why the bounds are enough:

* `poker_table`: amounts stay non-negative (`TypeOK`, `ToCallNonNegative`),
  the turn is never with a player whose every action is refused
  (`TurnIsActive`), chips are neither made nor lost except for the odd chips
  of a split (`ChipsConserved`), and no action leaves the betting where it was
  (`EveryActionCounts`), so that a round ends although all-in players are left
  behind the bet. Buy-ins of 1, 2 and 5 make short blinds, short calls, all-ins
  of several sizes and odd pots; later hands start with the states the earlier
  ones left, busted players included. The players are interchangeable until
  they sit down, which is what the symmetry says.
* `poker_open`: with joins, leaves and actions at any time no chips are made
  in a hand (`NoChipsMadeInHand`) and folded players stay out
  (`FoldedStaysOut`).
* `stores`: the four stores share no state and the run moves one of them at a
  time.
  - Identities: an index entry always leads to an identity that holds the
    claim (`IndexSound`). Two addresses that claim one name are the interesting
    case.
  - Orders: no index entry dangles (`EntriesLeadToOrders`), a query misses only
    orders whose deletion is under way or was cut short
    (`OnlyDeletedAreMissed`), and the escrow transaction leads to its order
    (`EscrowTxLeadsToOrder`, for transactions that fund one order each).
  - Listings: no active listing is lost from view (`ActiveIsFound`), no entry
    by seller or of the active list dangles (`EntriesLeadToListings`), and a
    prune that returns leaves an expired listing active only beyond the limit
    of what it reads (`PruneMissesOnlyBeyondLimit`). With two listings a limit
    of 1 is passed.
  - Coins: the five valid combinations of flags (`EntriesAreValid`), no flush
    throws (`NeverMisapplied`), and refinement of `UtxoStack`
    (`ImplementsUtxoStack`). The flags of an outpoint never depend on another
    outpoint; two are there for flushes that carry several entries.
* `chainstate`: the coins are always those of the tip (`CoinsAreTheTips`); a
  database that names one block holds its coins (`DatabaseIsExact`), one that
  names two holds a mixture of just these two (`MixtureOfTwo`); every restart
  succeeds (`CanRestart`), wherever among block data, index and coins the crash
  fell. The tree has a reorganization of depth two, a transaction in both
  branches at different heights, and a coin created and spent in one block; any
  subset of the coins may have reached the disk, and a replay may be cut short
  any number of times.
* `check_queue`: the counters agree with the queue, the batches and the
  threads (`CountersExact`); every answer is the conjunction of the checks of
  its own session (`ImplementsCheckSession`); `Wait` and
  `StopWorkerThreads` return (`WaitReturns`, `StopReturns`), so no wake-up is
  lost. Two masters make one session follow another while workers still leave
  the first; four checks and batches of two leave work for a thread that comes
  back.
* `tx_request`: the code's own `SanityCheck`; no peer is asked again for what
  it was asked for or failed to deliver (`NotRequestedTwice`); refinement of
  `TxRequestRules` (`ImplementsRules`). Three peers are the least for which a
  candidate is overtaken while another request is in flight. Two times are
  enough for past, present and future relative to a clock that may go back.
* `scheduler`: pending callbacks always have a `ProcessQueue` under way
  (`PendingIsScheduled`), the last emptying runs alone (`AloneWhenEmptying`),
  callbacks run one at a time and in order (`ImplementsSerialQueue`). Every
  callback runs (`EveryCallbackRuns`) and the shutdown ends
  (`OnlyTheLoaderHangs`) unless the thread that loads blocks waits where nobody
  is left to answer (`LoaderStuck`; see below). Callbacks may add callbacks;
  two servers can both hold a `ProcessQueue`; with `QueueLimit` 0 a thread
  waits for its promise as soon as one callback is pending.
* `chain_selection`: when nothing runs, no usable block is better than the tip
  (`TipIsBest`); the active chain was connected and has no failed block
  (`ActiveChainIsValid`); the candidates are those they should be
  (`CandidatesAreExact`), as are the blocks waiting for a parent's data
  (`UnlinkedIsExact`); `ActivateBestChain` never releases `cs_main` with less
  work than it found (`NoStepBack`; this is about the place where a section
  that changed the tip gives up the lock, not about the return of the whole
  call). The work of the blocks (3 against 2, 3, 4) makes a tie, which arrival
  and address decide, and a reorganization of depth three whose middle may turn
  out invalid; one block may be refused on arrival.

Deadlock is checked except in the poker runs (the table stops at the bound on
hands), in those of the scheduler (which ends with the shutdown) and in those of
the chain selection (which stops at the bound on commands once every block has
arrived).

Fairness. Only `check_queue` and the two scheduler runs assume any: weak
fairness of each thread inside an operation, as described with the modules. The
locks are held for bounded sections.

### Where code and comments differ

Four runs end in a counterexample; the findings in `PROJECT.json` quote what
each contradicts.

* `poker_round_closes`: `IsRoundComplete` (`poker/poker.cpp:388`) closes a
  round before every active player has acted.
* `scheduler_shutdown`: `Shutdown` stops the scheduler (`init.cpp:250`) and then
  joins the thread that loads blocks (`:251`), which may be waiting for a
  callback that nobody is left to run; the shutdown hangs before the flush.
* `chain_reconsider`: `reconsiderblock` clears the marks of a block's ancestors
  and does not make them candidates (`validation.cpp:3270-3278`), so that a
  better chain may stay unused.
* `chain_failed_mask`: it clears a failed ancestor and leaves the other
  branches above that ancestor marked BLOCK_FAILED_CHILD, which `CheckBlockIndex`
  rejects (`validation.cpp:4566`).

The following came up while modelling and is not the subject of a run:

* After `EndHand` an active player may act, and the pot is paid again
  (`poker/poker.cpp:175`, `:181`; `poker/pokertypes.h:91` calls COMPLETE the
  end of the hand). `poker_table` lets no one act between hands;
  `poker_open` does, and compares chips within a hand.
* `Player::Reset` (`poker/poker.cpp:40`) keeps ALL_IN for a player without
  chips, who is then counted in the next hand.
* `AddPGPKey` (`identity/identitymanager.cpp:220`) saves at `:231` a copy it
  read before it released the mutex, and drops a proof saved in between.
* A crash in `SaveIdentity` between record and index
  (`identity/identitymanager.cpp:57`), or another address dropping the same
  claim, leaves a proof that `LookupByService` does not find.
* `GetAllIdentities` (`identity/identitymanager.cpp:96`) stops at the first
  key that is not an identity; keys are stored behind their length, so that is
  the database's 14-byte obfuscation key and the result is empty.
* A crash inside `DeleteOrder` (`marketplace/orderstore.cpp:81`, `:83`)
  leaves an order no query finds; `OnlyDeletedAreMissed` allows just this.
* The index by escrow transaction (`marketplace/orderstore.cpp:41`) has no
  output index, so two orders funded by one transaction share one entry.
* `CountActive` (`marketplace/listingstore.cpp:236`) still counts a listing
  that was sold, cancelled or pruned, and `GetByCategory` still returns one
  that was moved to another category: entries are never removed by a rewrite.
* `scheduler.h:48` says that a task is called at or after its time. With
  several servicing threads one may wait for the first task, find that
  another took it, and run the next one early. The node uses one thread.
* `validation.cpp:3188-3192` describes a case that the condition below it
  never meets.
* `CheckBlockIndex` (`validation.cpp:4555-4556`, `:4601-4603`) expects of
  `m_blocks_unlinked` what does not hold after a block arrived while its
  parent was marked failed (`:3320-3322`); `UnlinkedIsExact` says nothing of
  the blocks above such a stray.
* `preciousblock` may run out of sequence numbers and tie; after a restart
  they are all 0 and ties are decided by address.
* `CheckBlockIndex` (`validation.cpp:4606`) asserts that a block none of whose
  ancestors misses its data is not in `m_blocks_unlinked`. On a branch of four
  blocks it can be: the second and the fourth arrive and wait, the second is
  invalidated by command, the third arrives (its parent failed, so it is put
  nowhere), and the first links the second; the fourth goes on waiting for the
  third, which is a stray.
* `PreciousBlock` starts its counter again at -1 when the tip has more work
  than at the last call (`validation.cpp:3085-3087`). The block it is called
  for may have a lower number already. Let b and c have the same work, above a
  block r: `invalidateblock` r; `preciousblock` c (-1) and b (-2);
  `reconsiderblock` r makes b the tip and prunes c; `preciousblock` b then
  *raises* its number to -1, where the address decides. If it decides for c,
  a block better than the tip is no candidate. This takes five commands, and
  the run has two; c is then `overlooked`, and `TipIsBest`,
  `CandidatesAreExact` and `NoStepBack` say nothing more until the next start.

## 4. Theorems

All are proved for every value of the constants that satisfies the named
assumptions, which TLC evaluates on the instances above: `ConfigAssumption`,
`IdentityAssumption`, `NoIdentityAssumption`, `OrderAssumption`,
`ListingAssumption`, `CoinsAssumption`, `BlocksAssumption`, `QueueAssumption`,
`SchedulerAssumption`, `TrackerAssumption`, `TreeAssumption`,
`FiniteAssumption`. They say that bounds are natural numbers, that blinds are
those `GameConfig::IsValid` accepts, that null values are not ordinary ones and
that kinds of thread are disjoint. `BlocksAssumption` and `TreeAssumption` say
that blocks form a tree under the genesis block in which heights count the
ancestors, work grows from parent to child and no two index entries share an
address, and that the transactions of a block create different outputs;
`FiniteAssumption` that some of finitely many blocks are lowest, first and last
in memory; the tracker's, that the salted priorities of two peers differ and
that every non-empty set of peers has one of highest priority.

* `PokerGameProofs`: `TypeCorrect`, `TurnCorrect`, `ToCallCorrect`,
  `ChipsAreConserved` and `ActionsCount`. The invariants are not inductive one by
  one: the inductive invariant `IInv` joins them with three facts, that a game
  that has started has two seats (or the walk round the table has nowhere to
  go), that a live hand has a betting round, and that no chips lie in front of
  the players between hands or when nobody can act (or they would be lost by
  `StartNewHand`). The lemmas on arithmetic modulo the number of seats show
  that the walk round the table reaches every seat. Conservation rests on the
  lemmas at the head of the module: how a sum over the seats changes when one
  or several of its terms do, and how much the rounded shares of a split come
  to. `ActionsCount` needs one invariant more, `TurnOrder`: from the player on
  turn, those who still owe an action come before all those who do not. So a
  player who has acted and owes nothing comes to act only when the round is
  complete, and then it is closed. `OpenTableMakesNoChips` and `OpenTableKeepsFolded` are about `OpenSpec`.
  At an open table little of `IInv` is left: the seat indices may point past
  the last seat, one player may post both blinds, and the amount to call and
  the last raise may be negative. `OpenTypes` is what remains of the types, and
  with it every step is shown to make no chips and to leave those who folded
  alone; a player who leaves takes one term out of each sum.
* `StoreProofs`, identities: `IndexIsSound`, `StoreTypeCorrect`. `IndexSound` is
  not inductive: what keeps it true is that while a record is rewritten no
  entry names its address. The invariant states this for the middle of a save: the
  entries that still name the address are among those left to erase, there
  are none when the record is written, and the entries still to be written
  belong to the record. That needs the mutex, and a crash at any point keeps
  `IndexSound` itself.
* `StoreProofs`, orders: `NoDanglingEntries`, `QueriesMissOnlyDeleted`,
  `EscrowTxFindsOrder`. The invariant adds that the order being deleted has no
  entries any more, that torn orders are still stored and, for the last
  theorem, that no transaction funds two orders: it assumes that
  `BatchFunding` is FALSE, as the run does, for otherwise it is not true.
* `StoreProofs`, listings: `NoActiveListingLost`, `NoDanglingListingEntries`,
  `PruneIsComplete`. The invariant says of a deletion or a prune under way
  what it has done and what it still has to do (`UnderWay`), so that every
  expired listing is still on the prune's list, or no longer active, or behind
  the `PruneLimit` listings whose keys come first.
* `StoreProofs`, coins: `CachesTypeCorrect`, `EntriesStayValid`,
  `FlushNeverThrows` and `CachesAreInvisible`, the refinement of `UtxoStack`.
  The invariant gives the flags their meaning at each level: an entry that is
  not DIRTY equals what the level below answers, and below a FRESH entry there
  is no unspent coin. The proof is per outpoint: each operation on one entry
  has a lemma, and each action is shown to be a step of `UtxoStack` or a
  stutter.
* `ChainstateDBProofs`: `CoinsCorrect`, `DatabaseCorrect`, `HeadsCorrect` and
  `NeverStuck`, for any tree of blocks and any number of flushes, crashes and
  replays. The argument has two parts. The lemmas on coins show that undoing a
  block with its own record gives back the coins before it, and, outpoint by
  outpoint, that undoing and redoing blocks on a mixture of the coins of two
  blocks leaves a mixture of the block reached and the block aimed at
  (`RollIsMixed`), so that at the end nothing of the mixture is left. The
  inductions over transactions, blocks of a branch and heights are over sets of
  naturals (`IntervalInduction`), as the provers cannot instantiate an
  induction over predicates. The invariant then says that undo records are
  those of their blocks (`RecordsAreExact`), that what is saved is saved with
  its ancestors and that the index names only blocks whose data is in the files
  (`BranchesAreWhole`), and that two heads mark a write that was
  not finished (`HeadsMarkTheWrite`).
* `CheckQueueProofs`: `CheckQueueTypes`, `CountersAreExact` and
  `QueueAnswersSessions`, the refinement of `CheckSession`. The invariant says
  that every check that is not accounted for is in the queue or in exactly one
  batch, and that `fAllOk` and the threads' `fOk` together know of every
  check that was run. As `Enter`, `Account` and `Resume` all end in
  `Proceed`, each is shown to lead to one common situation from which
  `Proceed` keeps the invariant.
* `SchedulerProofs`: `SchedulerTypes`, `PendingStaysScheduled`,
  `EmptyingIsAlone` and `CallbacksAreSerial`, the refinement of `SerialQueue`.
  The invariant says where each thread may be at each stage of the shutdown
  (`PlacesOK`: while the queue is emptied the servers and the thread that loads
  blocks are off), ties the servers' places to the count of servicing threads
  (`Counted`), and says that a callback runs just when
  `m_are_callbacks_running` is set, in one thread (`CallbackOK`).
* `TxRequestProofs`: `SanityHolds`, `NobodyAskedTwice` and
  `TrackerFollowsRules`, the refinement of `TxRequestRules`. The invariant is
  a statement about one row (`RowOK`), kept by each way a row can change. The
  refinement then needs one more fact: when `SetTimePoint` is done, nothing is
  due and nothing ahead of its time, and so the marks that many operations
  moved along are what a choice from scratch would give. It rests on `Better`
  being a strict total order.

* `ChainSelectionProofs` and `ChainTipProofs`: the five invariants of the run,
  in three layers, without a hypothesis on the behaviour.
  - `ChainInv` holds of every behaviour and gives `ChainIsValid`: the two locks
    have one owner each, headers and linked blocks come below one another, a
    block waits under its parent or is in the queue, and the block that
    `ActivateBestChain` goes to has a chain that came and has no failed block,
    also after `cs_main` was released and taken again (`TargetIsSound`). The
    last is why `ActiveChainIsValid` holds: what may be marked while the lock
    is free is never on the way to the target.
  - `StoredInv` adds that no stored block is forgotten except strays: it is
    linked, waits under its parent, is in the queue, or came while its parent
    was marked as failed. It gives `UnlinkedCorrect`.
  - `IInv` adds `Progress`, for as long as no command has passed over a block
    (`overlooked` is empty): every linked block as good as the tip, and as the
    tip at the start of the section, is a candidate (`CandidatesKept`), a
    section goes on only below the tip it began with, which stays good
    (`SectionProgress`), and its target is the best sound chain unless a call of
    `ActivateBestChain` is still to come (`TargetIsBest`). It gives
    `TipCorrect`, `CandidatesCorrect` and `NoStepBackCorrect`. `NoStepBack`,
    too, needs the condition: a block that was passed over may become the tip
    on the way to a child that fails; it is no candidate then, and a section
    that leaves it for a chain that turns out invalid finds no way back.

Where no theorem is named for a type invariant, it is a conjunct of the
inductive invariant of the module.

Only model-checked: liveness (`WaitReturns`, `StopReturns`, `EveryCallbackRuns`,
`OnlyTheLoaderHangs`), which the prover does not do under
fairness. Every safety property of a passing run, and every refinement, has a
theorem.

## 5. Not modelled

Of the modelled parts:

* `PokerGame`: the discards and replacements of five-card draw, and which
  cards are dealt.
* `IdentityManager`: `GetAllIdentities` (see above) and the texts of claims.
* `Scheduler`: `StopWhenDrained` and `MockForward`, which serve tests; callbacks that
  throw; callers of `SyncWithValidationInterfaceQueue` other than
  `LimitValidationInterfaceQueue`; the list of registered listeners.
* `ChainstateDB`: the checks that make a block valid.
* `ChainSelection`: see its section.

The other parts of the repository, with the reason for each:

* Poker escrow and marketplace escrow: builders of transactions and
  collectors of signatures. `poker/pokernet.cpp:423-427` would pass settlement
  signatures to a game's escrow, but nothing calls `SetEscrow`, so that no game
  has one; nothing calls the marketplace escrow. The order in which their
  operations would be used is not in the code.
* Mental poker and the poker network protocol: nothing outside `mentalpoker`
  calls `GenerateKeysAndCommit`, `EncryptAndShuffle` or
  `ProvidePartialDecrypt`, and `ProcessState` is a stub. The effect of
  messages on a table is in `poker_open`; two copies of a table kept equal by
  messages would be a model of something not yet written.
* RandomX: `CheckRandomXProofOfWork` (`pow.cpp:277-287`) accepts a SHA256d hash
  and nothing else, so RandomX has no part in what is accepted. Only
  `ScanRandomXHash` in `node/miner.cpp` computes it, for a loop (`CoralMiner`,
  `:519-580`) that is compiled out.
* Card evaluation, the retarget, scripts, keys, cryptography and the
  consensus checks: computation on bytes or wide integers with no interleaving;
  the models take each verdict as open.
* The mining page's worker: its hazard is listed in `PROJECT.json` with a note.
  The poker pages call `PokerNetManager`, the marketplace and identity pages
  have TODOs where they would call the stores; the rest is layout.
* LAN discovery and HTTP seeds: sockets and two threads around a list of peers.
* Orphan transactions: three indexes over one map under one lock.
* Memory pool, peer-to-peer network, wallet, RPC and start-up: inherited;
  large, and of their state only what the modelled parts use is here.
* The Electron wallet (its handlers answer with constants) and the web
  dashboard: no state of their own.
* The translation catalogues in `qt/locale`: about a hundred files of texts,
  which are data and have no behaviour. By lines they are far larger than
  many of the modelled sources together.
* Support libraries: LevelDB enters through the atomicity of a batch.

## 6. Plan

1. The composition of `ChainSelection` with `ChainstateDB`, so that the tip
   that is flushed is the one that was chosen.
2. The other threads that wait for a callback, and what each of them meets
   when the scheduler stops.
3. The orphanage and its use by the request tracker.
4. The mining worker, with the stop that may be lost at its start.
5. The escrows and the poker protocol, once something in the repository uses
   them.
