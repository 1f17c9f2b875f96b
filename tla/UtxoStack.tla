----------------------------- MODULE UtxoStack -----------------------------
(***************************************************************************)
(* What the coins caches promise: three copies of the set of unspent       *)
(* outputs, each with the block it belongs to.  Changes are made to the    *)
(* top copy, applied as a whole to the middle one or dropped as a whole,   *)
(* and the middle copy is persisted as a whole.  A restart falls back to   *)
(* what is persisted.  No cache, no flag.                                  *)
(***************************************************************************)
CONSTANTS Outpoints, Coins, Spent, Blocks, NullBlock

VARIABLES top, mid, disk,              \* [Outpoints -> Coins \cup {Spent}]
          topBest, midBest, diskBest   \* Blocks \cup {NullBlock}

utxo == <<top, mid, disk, topBest, midBest, diskBest>>

Init ==
    /\ top = [o \in Outpoints |-> Spent] /\ mid = top /\ disk = top
    /\ topBest = NullBlock /\ midBest = NullBlock /\ diskBest = NullBlock

Add(o, c) ==
    /\ top' = [top EXCEPT ![o] = c]
    /\ UNCHANGED <<mid, disk, topBest, midBest, diskBest>>

Spend(o) ==
    /\ top' = [top EXCEPT ![o] = Spent]
    /\ UNCHANGED <<mid, disk, topBest, midBest, diskBest>>

SetBest(b) ==
    /\ topBest' = b
    /\ UNCHANGED <<top, mid, disk, midBest, diskBest>>

Apply ==
    /\ mid' = top /\ midBest' = topBest
    /\ UNCHANGED <<top, disk, topBest, diskBest>>

Drop ==
    /\ top' = mid /\ topBest' = midBest
    /\ UNCHANGED <<mid, disk, midBest, diskBest>>

Persist ==
    /\ top = mid
    /\ disk' = mid /\ diskBest' = midBest
    /\ UNCHANGED <<top, mid, topBest, midBest>>

Restart ==
    /\ top' = disk /\ mid' = disk
    /\ topBest' = diskBest /\ midBest' = diskBest
    /\ UNCHANGED <<disk, diskBest>>

Next ==
    \/ \E o \in Outpoints, c \in Coins : Add(o, c)
    \/ \E o \in Outpoints : Spend(o)
    \/ \E b \in Blocks : SetBest(b)
    \/ Apply
    \/ Drop
    \/ Persist
    \/ Restart

Spec == Init /\ [][Next]_utxo
=============================================================================
