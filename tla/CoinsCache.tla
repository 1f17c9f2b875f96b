----------------------------- MODULE CoinsCache -----------------------------
(***************************************************************************)
(* CCoinsViewCache, stacked twice on the coins database as validation      *)
(* stacks it: the tip cache on the database, and on the tip cache a view   *)
(* in which a block is connected or disconnected and which is then flushed *)
(* or thrown away.  Each cache entry carries the flags DIRTY and FRESH,    *)
(* which decide what a flush writes and what a spend may forget.           *)
(*                                                                         *)
(* There is always a view; one that is empty and has no best block is the  *)
(* state between two blocks, when the tip cache is used by itself.  All of *)
(* this runs under cs_main, so an operation is one step.                   *)
(***************************************************************************)
CONSTANTS Outpoints, Coins, Spent, Blocks, NullBlock, Absent

Entry == [coin : Coins \cup {Spent}, dirty : BOOLEAN, fresh : BOOLEAN]

ASSUME CoinsAssumption ==
    /\ Spent \notin Coins
    /\ NullBlock \notin Blocks
    /\ Absent \notin Entry

VARIABLES disk,     \* [Outpoints -> Coins \cup {Spent}]: CCoinsViewDB
          diskBest, \* its DB_BEST_BLOCK
          tip,      \* [Outpoints -> Entry \cup {Absent}]: cacheCoins of CoinsTip()
          tipBest,  \* its hashBlock, null until it is asked for or set
          view,     \* the same of the view on top
          viewBest

vars == <<disk, diskBest, tip, tipBest, view, viewBest>>

NoEntries == [o \in Outpoints |-> Absent]

Init ==
    /\ disk = [o \in Outpoints |-> Spent]
    /\ tip = NoEntries /\ view = NoEntries
    /\ diskBest = NullBlock /\ tipBest = NullBlock /\ viewBest = NullBlock

(* What a level answers: its entry, or else the level below.               *)
GetCoin(entry, below) == IF entry = Absent THEN below ELSE entry.coin

TipCoin(o) == GetCoin(tip[o], disk[o])

ViewCoin(o) == GetCoin(view[o], TipCoin(o))

(* The entry after a lookup: the level below answers only for an unspent   *)
(* coin, which is kept without flags.                                      *)
FetchCoin(entry, below) ==
    IF entry # Absent \/ below = Spent THEN entry
    ELSE [coin |-> below, dirty |-> FALSE, fresh |-> FALSE]

(* A lookup in the view goes to the tip cache only when the view has no    *)
(* entry, and leaves what it finds in both.                                *)
TipFetched(o) ==
    [tip EXCEPT ![o] = IF view[o] = Absent THEN FetchCoin(tip[o], disk[o]) ELSE tip[o]]

ViewFetched(o) == FetchCoin(view[o], TipCoin(o))

GetBestBlock(own, below) == IF own = NullBlock THEN below ELSE own

TipBestBlock == GetBestBlock(tipBest, diskBest)

ViewBestBlock == GetBestBlock(viewBest, TipBestBlock)

NoView == view = NoEntries /\ viewBest = NullBlock

-----------------------------------------------------------------------------
HaveCoin(o) ==
    /\ tip' = TipFetched(o)
    /\ view' = [view EXCEPT ![o] = ViewFetched(o)]
    /\ UNCHANGED <<disk, diskBest, tipBest, viewBest>>

(* Mutant: an entry whose spentness is not flushed yet is marked FRESH.    *)
AddedEntry_AlwaysFresh(entry, c, overwrite) ==
    LET was == IF entry = Absent THEN [coin |-> Spent, dirty |-> FALSE, fresh |-> FALSE]
               ELSE entry
    IN  [coin |-> c, dirty |-> TRUE, fresh |-> was.fresh \/ ~overwrite]

(* The entry after AddCoin on an entry or on none.                         *)
AddedEntry(entry, c, overwrite) ==
    LET was == IF entry = Absent THEN [coin |-> Spent, dirty |-> FALSE, fresh |-> FALSE]
               ELSE entry
    IN  [coin |-> c, dirty |-> TRUE, fresh |-> was.fresh \/ (~overwrite /\ ~was.dirty)]

(* possible_overwrite is false only when the caller knows that there is no *)
(* unspent coin (BIP30, or AddCoins has asked HaveCoin); otherwise AddCoin *)
(* throws or, worse, marks the entry FRESH.                                *)
AddCoin(o, c, overwrite) ==
    /\ overwrite \/ ViewCoin(o) = Spent
    /\ view' = [view EXCEPT ![o] = AddedEntry(view[o], c, overwrite)]
    /\ UNCHANGED <<disk, diskBest, tip, tipBest, viewBest>>

(* AddCoins with check_for_overwrite: HaveCoin, then AddCoin.              *)
AddCoinChecked(o, c) ==
    /\ tip' = TipFetched(o)
    /\ view' = [view EXCEPT ![o] = AddedEntry(ViewFetched(o), c, ViewCoin(o) # Spent)]
    /\ UNCHANGED <<disk, diskBest, tipBest, viewBest>>

(* Mutant: a FRESH entry is cleared like any other instead of erased.      *)
SpentEntry_KeepFresh(entry) ==
    IF entry = Absent THEN Absent ELSE [entry EXCEPT !.coin = Spent, !.dirty = TRUE]

SpentEntry(entry) ==
    IF entry = Absent \/ entry.fresh THEN Absent
    ELSE [entry EXCEPT !.coin = Spent, !.dirty = TRUE]

SpendCoin(o) ==
    /\ tip' = TipFetched(o)
    /\ view' = [view EXCEPT ![o] = SpentEntry(ViewFetched(o))]
    /\ UNCHANGED <<disk, diskBest, tipBest, viewBest>>

SetBestBlock(b) ==
    /\ viewBest' = b
    /\ UNCHANGED <<disk, diskBest, tip, tipBest, view>>

(* GetBestBlock of the view and of the tip: every level that had none      *)
(* remembers the answer.                                                   *)
AskBestBlock ==
    /\ viewBest' = ViewBestBlock /\ tipBest' = TipBestBlock
    /\ UNCHANGED <<disk, diskBest, tip, view>>

AskTipBestBlock ==
    /\ tipBest' = TipBestBlock
    /\ UNCHANGED <<disk, diskBest, tip, view, viewBest>>

(* Mutant: the parent's entry takes over the child's FRESH flag.           *)
MergedEntry_TakeFresh(ours, theirs) ==
    IF theirs = Absent \/ ~theirs.dirty THEN ours
    ELSE IF ours = Absent
         THEN IF theirs.fresh /\ theirs.coin = Spent THEN Absent ELSE theirs
         ELSE IF ours.fresh /\ theirs.coin = Spent THEN Absent
              ELSE [coin |-> theirs.coin, dirty |-> TRUE, fresh |-> ours.fresh \/ theirs.fresh]

(* One entry of BatchWrite into a cache.                                   *)
MergedEntry(ours, theirs) ==
    IF theirs = Absent \/ ~theirs.dirty THEN ours
    ELSE IF ours = Absent
         THEN IF theirs.fresh /\ theirs.coin = Spent THEN Absent ELSE theirs
         ELSE IF ours.fresh /\ theirs.coin = Spent THEN Absent
              ELSE [coin |-> theirs.coin, dirty |-> TRUE, fresh |-> ours.fresh]

(* When BatchWrite throws "FRESH flag misapplied".                         *)
Misapplied(ours, theirs) ==
    /\ theirs # Absent /\ theirs.dirty /\ theirs.fresh
    /\ ours # Absent /\ ours.coin # Spent

(* The callers have set or asked for the best block of a view they flush.  *)
FlushView ==
    /\ viewBest # NullBlock
    /\ \A o \in Outpoints : ~Misapplied(tip[o], view[o])
    /\ tip' = [o \in Outpoints |-> MergedEntry(tip[o], view[o])]
    /\ tipBest' = viewBest
    /\ view' = NoEntries
    /\ UNCHANGED <<disk, diskBest, viewBest>>

(* The view goes out of scope, flushed or not.                             *)
DropView ==
    /\ view' = NoEntries /\ viewBest' = NullBlock
    /\ UNCHANGED <<disk, diskBest, tip, tipBest>>

FetchTip(o) ==
    /\ NoView
    /\ tip' = [tip EXCEPT ![o] = FetchCoin(tip[o], disk[o])]
    /\ UNCHANGED <<disk, diskBest, tipBest, view, viewBest>>

Uncache(o) ==
    /\ NoView
    /\ tip[o] # Absent /\ ~tip[o].dirty /\ ~tip[o].fresh
    /\ tip' = [tip EXCEPT ![o] = Absent]
    /\ UNCHANGED <<disk, diskBest, tipBest, view, viewBest>>

(* FlushStateToDisk, which asks for the best block first.  BatchWrite into *)
(* the database erases spent coins and writes the others, if DIRTY.        *)
WrittenCoin(o) ==
    IF tip[o] # Absent /\ tip[o].dirty THEN tip[o].coin ELSE disk[o]

FlushTip ==
    /\ NoView
    /\ TipBestBlock # NullBlock
    /\ disk' = [o \in Outpoints |-> WrittenCoin(o)]
    /\ diskBest' = TipBestBlock /\ tipBest' = TipBestBlock
    /\ tip' = NoEntries
    /\ UNCHANGED <<view, viewBest>>

(* The process ends, flushed or not, and starts again on the database.     *)
Restart ==
    /\ tip' = NoEntries /\ view' = NoEntries
    /\ tipBest' = NullBlock /\ viewBest' = NullBlock
    /\ UNCHANGED <<disk, diskBest>>

Next ==
    \/ \E o \in Outpoints :
          HaveCoin(o) \/ SpendCoin(o) \/ FetchTip(o) \/ Uncache(o)
    \/ \E o \in Outpoints, c \in Coins :
          AddCoinChecked(o, c) \/ \E overwrite \in BOOLEAN : AddCoin(o, c, overwrite)
    \/ \E b \in Blocks : SetBestBlock(b)
    \/ AskBestBlock \/ AskTipBestBlock
    \/ FlushView
    \/ DropView
    \/ FlushTip
    \/ Restart

Spec == Init /\ [][Next]_vars

-----------------------------------------------------------------------------
TypeOK ==
    /\ disk \in [Outpoints -> Coins \cup {Spent}]
    /\ tip \in [Outpoints -> Entry \cup {Absent}]
    /\ view \in [Outpoints -> Entry \cup {Absent}]
    /\ diskBest \in Blocks \cup {NullBlock}
    /\ tipBest \in Blocks \cup {NullBlock}
    /\ viewBest \in Blocks \cup {NullBlock}

ValidEntry(entry) ==
    \/ entry.coin # Spent /\ entry.dirty
    \/ entry.coin # Spent /\ ~entry.fresh
    \/ entry.coin = Spent /\ entry.fresh /\ ~entry.dirty
    \/ entry.coin = Spent /\ ~entry.fresh /\ entry.dirty

(* Of the eight combinations of spent, DIRTY and FRESH only the five that  *)
(* CCoinsCacheEntry's comment calls valid occur, after any sequence of     *)
(* adds, spends, lookups and flushes through both caches.                  *)
EntriesAreValid ==
    \A o \in Outpoints :
        /\ tip[o] # Absent => ValidEntry(tip[o])
        /\ view[o] # Absent => ValidEntry(view[o])

(* BatchWrite never finds the FRESH flag misapplied: flushing the view     *)
(* would not throw in any reachable state.                                 *)
NeverMisapplied == \A o \in Outpoints : ~Misapplied(tip[o], view[o])

Utxo == INSTANCE UtxoStack WITH
            top <- [o \in Outpoints |-> ViewCoin(o)],
            mid <- [o \in Outpoints |-> TipCoin(o)],
            topBest <- ViewBestBlock,
            midBest <- TipBestBlock

(* The caches are invisible: what the view, the tip and the database       *)
(* answer changes exactly as if each were a full copy of the set of        *)
(* unspent outputs, flushed as a whole (the FRESH shortcut of SpendCoin    *)
(* never makes a spent coin reappear, and no DIRTY coin is left behind).   *)
ImplementsUtxoStack == Utxo!Spec
=============================================================================
