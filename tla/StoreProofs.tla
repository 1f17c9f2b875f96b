---------------------------- MODULE StoreProofs ----------------------------
(***************************************************************************)
(* Proofs about what is kept in LevelDB: the caches over the coins         *)
(* database, and the three stores of identities, listings and orders, in   *)
(* each of which a record and its index entries are written and erased in  *)
(* several database writes, between which the process may end.             *)
(***************************************************************************)
EXTENDS CoinsCache, IdentityManager, ListingStore, OrderStore, TLAPS

-----------------------------------------------------------------------------
(* The caches implement UtxoStack for any sets of outpoints, coins and     *)
(* blocks.  The inductive invariant gives the flags their meaning, level   *)
(* by level: an entry that is not DIRTY equals what the level below        *)
(* answers, and below a FRESH entry there is no unspent coin.              *)

Amounts == Coins \cup {Spent}

EntryOK(entry, below) ==
    entry # Absent =>
        /\ ValidEntry(entry)
        /\ ~entry.dirty => entry.coin = below
        /\ entry.fresh => below = Spent

FlagsMeanWhatTheySay ==
    \A o \in Outpoints : EntryOK(tip[o], disk[o]) /\ EntryOK(view[o], TipCoin(o))

IInv == TypeOK /\ FlagsMeanWhatTheySay

-----------------------------------------------------------------------------
(* A lookup answers with a coin or with Spent.                             *)
LEMMA GetCoinType ==
    ASSUME NEW e \in Entry \cup {Absent}, NEW b \in Amounts
    PROVE  GetCoin(e, b) \in Amounts
BY CoinsAssumption DEF GetCoin, Entry, Amounts

(* A lookup keeps the entry sound and changes no answer.                   *)
LEMMA FetchFacts ==
    ASSUME NEW e \in Entry \cup {Absent}, NEW b \in Amounts, EntryOK(e, b)
    PROVE  /\ FetchCoin(e, b) \in Entry \cup {Absent}
           /\ EntryOK(FetchCoin(e, b), b)
           /\ GetCoin(FetchCoin(e, b), b) = GetCoin(e, b)
           /\ FetchCoin(e, b) = Absent => b = Spent
<1>1. CASE e # Absent \/ b = Spent
  BY <1>1 DEF FetchCoin
<1>2. CASE e = Absent /\ b # Spent
  <2> DEFINE n == [coin |-> b, dirty |-> FALSE, fresh |-> FALSE]
  <2>1. FetchCoin(e, b) = n
    BY <1>2 DEF FetchCoin
  <2>2. n \in Entry /\ n # Absent /\ n.coin = b /\ n.dirty = FALSE /\ n.fresh = FALSE
    <3>1. n \in Entry
      BY DEF Entry, Amounts
    <3> QED
      BY Zenon, <3>1, CoinsAssumption
  <2> HIDE DEF n
  <2> QED
    BY <1>2, <2>1, <2>2 DEF EntryOK, ValidEntry, GetCoin
<1> QED
  BY <1>1, <1>2

(* Adding a coin that is not there, or with possible_overwrite.            *)
LEMMA AddFacts ==
    ASSUME NEW e \in Entry \cup {Absent}, NEW b \in Amounts, EntryOK(e, b),
           NEW c \in Coins, NEW w \in BOOLEAN, w \/ GetCoin(e, b) = Spent
    PROVE  /\ AddedEntry(e, c, w) \in Entry
           /\ AddedEntry(e, c, w) # Absent
           /\ EntryOK(AddedEntry(e, c, w), b)
           /\ AddedEntry(e, c, w).coin = c
<1> DEFINE was == IF e = Absent THEN [coin |-> Spent, dirty |-> FALSE, fresh |-> FALSE] ELSE e
           f == was.fresh \/ (~w /\ ~was.dirty)
           n == [coin |-> c, dirty |-> TRUE, fresh |-> f]
<1>1. AddedEntry(e, c, w) = n
  BY DEF AddedEntry
<1>2. was \in Entry
  BY DEF Entry
<1>3. f \in BOOLEAN
  BY <1>2 DEF Entry
<1>4. f => b = Spent
  <2>1. CASE e = Absent
    BY <2>1 DEF GetCoin
  <2>2. CASE e # Absent
    BY <2>2 DEF GetCoin, EntryOK
  <2> QED
    BY <2>1, <2>2
<1> HIDE DEF f
<1>5. n \in Entry /\ n # Absent /\ n.coin = c /\ n.dirty = TRUE /\ n.fresh = f
  <2>1. c \in Amounts
    BY DEF Amounts
  <2>2. n \in Entry
    BY <1>3, <2>1 DEF Entry, Amounts
  <2> QED
    BY Zenon, <2>2, CoinsAssumption
<1> HIDE DEF n
<1> QED
  BY <1>1, <1>4, <1>5, CoinsAssumption DEF EntryOK, ValidEntry

(* Spending: a FRESH entry is forgotten because there is nothing below it. *)
LEMMA SpendFacts ==
    ASSUME NEW e \in Entry \cup {Absent}, NEW b \in Amounts, EntryOK(e, b),
           e = Absent => b = Spent
    PROVE  /\ SpentEntry(e) \in Entry \cup {Absent}
           /\ EntryOK(SpentEntry(e), b)
           /\ GetCoin(SpentEntry(e), b) = Spent
<1>1. CASE e = Absent \/ e.fresh
  BY <1>1 DEF SpentEntry, EntryOK, GetCoin
<1>2. CASE e # Absent /\ ~e.fresh
  <2> DEFINE n == [e EXCEPT !.coin = Spent, !.dirty = TRUE]
  <2>1. SpentEntry(e) = n
    BY <1>2 DEF SpentEntry
  <2>2. n \in Entry /\ n # Absent /\ n.coin = Spent /\ n.dirty = TRUE /\ n.fresh = FALSE
    BY Zenon, <1>2, CoinsAssumption DEF Entry
  <2> HIDE DEF n
  <2> QED
    BY <2>1, <2>2 DEF EntryOK, ValidEntry, GetCoin
<1> QED
  BY <1>1, <1>2

(* Merging a child's entry: the parent answers what the child answered.    *)
LEMMA MergeFacts ==
    ASSUME NEW p \in Entry \cup {Absent}, NEW e \in Entry \cup {Absent},
           NEW b \in Amounts, EntryOK(p, b), EntryOK(e, GetCoin(p, b))
    PROVE  /\ MergedEntry(p, e) \in Entry \cup {Absent}
           /\ EntryOK(MergedEntry(p, e), b)
           /\ GetCoin(MergedEntry(p, e), b) = GetCoin(e, GetCoin(p, b))
           /\ ~Misapplied(p, e)
<1>1. ~Misapplied(p, e)
  BY DEF Misapplied, EntryOK, GetCoin
<1>2. CASE e = Absent \/ ~e.dirty
  <2>1. MergedEntry(p, e) = p
    BY <1>2 DEF MergedEntry
  <2>2. GetCoin(e, GetCoin(p, b)) = GetCoin(p, b)
    <3>1. CASE e = Absent
      BY <3>1 DEF GetCoin
    <3>2. CASE e # Absent
      <4>1. e.coin = GetCoin(p, b)
        BY <1>2, <3>2 DEF EntryOK
      <4> QED
        BY <3>2, <4>1 DEF GetCoin
    <3> QED
      BY <3>1, <3>2
  <2> QED
    BY <1>1, <2>1, <2>2
<1>3. CASE e # Absent /\ e.dirty /\ p = Absent
  <2>1. GetCoin(p, b) = b /\ GetCoin(e, b) = e.coin
    BY <1>3 DEF GetCoin
  <2>2. CASE e.fresh /\ e.coin = Spent
    <3>1. MergedEntry(p, e) = Absent /\ b = Spent
      BY <1>3, <2>1, <2>2 DEF MergedEntry, EntryOK
    <3> QED
      BY <1>1, <2>1, <2>2, <3>1 DEF EntryOK, GetCoin
  <2>3. CASE ~(e.fresh /\ e.coin = Spent)
    <3>1. MergedEntry(p, e) = e
      BY <1>3, <2>3 DEF MergedEntry
    <3> QED
      BY <1>1, <2>1, <3>1
  <2> QED
    BY <2>2, <2>3
<1>4. CASE e # Absent /\ e.dirty /\ p # Absent /\ p.fresh /\ e.coin = Spent
  <2>1. MergedEntry(p, e) = Absent /\ b = Spent
    BY <1>4 DEF MergedEntry, EntryOK
  <2> QED
    BY <1>1, <1>4, <2>1 DEF EntryOK, GetCoin
<1>5. CASE e # Absent /\ e.dirty /\ p # Absent /\ ~(p.fresh /\ e.coin = Spent)
  <2> DEFINE n == [coin |-> e.coin, dirty |-> TRUE, fresh |-> p.fresh]
  <2>1. MergedEntry(p, e) = n
    BY <1>5, Zenon DEF MergedEntry
  <2>2. n \in Entry /\ n # Absent /\ n.coin = e.coin /\ n.dirty = TRUE /\ n.fresh = p.fresh
    <3>1. e.coin \in Amounts /\ p.fresh \in BOOLEAN
      BY <1>5 DEF Entry, Amounts
    <3>2. n \in Entry
      BY <3>1 DEF Entry, Amounts
    <3> QED
      BY Zenon, <3>2, CoinsAssumption
  <2> HIDE DEF n
  <2>3. EntryOK(n, b)
    BY <1>5, <2>2 DEF EntryOK, ValidEntry
  <2> QED
    BY <1>1, <1>5, <2>1, <2>2, <2>3 DEF GetCoin
<1> QED
  BY <1>1, <1>2, <1>3, <1>4, <1>5

-----------------------------------------------------------------------------
(* What the invariant says of one outpoint.                                *)
LEMMA OneOutpoint ==
    ASSUME IInv, NEW o \in Outpoints
    PROVE  /\ disk[o] \in Amounts
           /\ tip[o] \in Entry \cup {Absent}
           /\ view[o] \in Entry \cup {Absent}
           /\ TipCoin(o) \in Amounts
           /\ ViewCoin(o) \in Amounts
           /\ EntryOK(tip[o], disk[o])
           /\ EntryOK(view[o], TipCoin(o))
<1>1. disk[o] \in Amounts /\ tip[o] \in Entry \cup {Absent} /\ view[o] \in Entry \cup {Absent}
  BY DEF IInv, TypeOK, Amounts
<1>2. TipCoin(o) \in Amounts
  BY <1>1, GetCoinType DEF TipCoin
<1>3. ViewCoin(o) \in Amounts
  BY <1>1, <1>2, GetCoinType DEF ViewCoin
<1> QED
  BY <1>1, <1>2, <1>3 DEF IInv, FlagsMeanWhatTheySay

(* A step that leaves the database alone and changes the entries of one    *)
(* outpoint keeps the invariant if the new entries are sound; and the      *)
(* answers of the tip do not change if that outpoint's answer does not.    *)
LEMMA OneOutpointStep ==
    ASSUME IInv, NEW o \in Outpoints,
           NEW t \in Entry \cup {Absent}, NEW e \in Entry \cup {Absent},
           tip' = [tip EXCEPT ![o] = t], view' = [view EXCEPT ![o] = e],
           disk' = disk, diskBest' = diskBest, tipBest' = tipBest, viewBest' = viewBest,
           EntryOK(t, disk[o]), GetCoin(t, disk[o]) = TipCoin(o),
           EntryOK(e, TipCoin(o))
    PROVE  /\ IInv'
           /\ \A x \in Outpoints : TipCoin(x)' = TipCoin(x)
           /\ \A x \in Outpoints \ {o} : ViewCoin(x)' = ViewCoin(x)
           /\ ViewCoin(o)' = GetCoin(e, TipCoin(o))
<1>1. /\ tip'[o] = t /\ view'[o] = e
      /\ \A x \in Outpoints \ {o} : tip'[x] = tip[x] /\ view'[x] = view[x]
  BY DEF IInv, TypeOK
<1>2. TypeOK'
  BY DEF IInv, TypeOK
<1>3. \A x \in Outpoints : TipCoin(x)' = TipCoin(x)
  <2> SUFFICES ASSUME NEW x \in Outpoints PROVE TipCoin(x)' = TipCoin(x)
    OBVIOUS
  <2>1. CASE x = o
    BY <1>1, <2>1 DEF TipCoin
  <2>2. CASE x # o
    BY <1>1, <2>2 DEF TipCoin
  <2> QED
    BY <2>1, <2>2
<1>4. \A x \in Outpoints \ {o} : ViewCoin(x)' = ViewCoin(x)
  BY <1>1, <1>3 DEF ViewCoin
<1>5. ViewCoin(o)' = GetCoin(e, TipCoin(o))
  BY <1>1, <1>3 DEF ViewCoin
<1>6. FlagsMeanWhatTheySay'
  <2> SUFFICES ASSUME NEW x \in Outpoints
               PROVE  EntryOK(tip'[x], disk'[x]) /\ EntryOK(view'[x], TipCoin(x)')
    BY DEF FlagsMeanWhatTheySay
  <2>1. CASE x = o
    BY <1>1, <1>3, <2>1
  <2>2. CASE x # o
    BY <1>1, <1>3, <2>2, OneOutpoint
  <2> QED
    BY <2>1, <2>2
<1> QED
  BY <1>2, <1>3, <1>4, <1>5, <1>6 DEF IInv

-----------------------------------------------------------------------------
(* The three answers, as UtxoStack sees them.                              *)
Top == [o \in Outpoints |-> ViewCoin(o)]
Mid == [o \in Outpoints |-> TipCoin(o)]

(* The tip cache's entry after a lookup in the view.                       *)
LEMMA TipFetchedFacts ==
    ASSUME IInv, NEW o \in Outpoints
    PROVE  \E t \in Entry \cup {Absent} :
              /\ TipFetched(o) = [tip EXCEPT ![o] = t]
              /\ EntryOK(t, disk[o])
              /\ GetCoin(t, disk[o]) = TipCoin(o)
<1> DEFINE t == IF view[o] = Absent THEN FetchCoin(tip[o], disk[o]) ELSE tip[o]
<1>1. TipFetched(o) = [tip EXCEPT ![o] = t]
  BY DEF TipFetched
<1>2. t \in Entry \cup {Absent} /\ EntryOK(t, disk[o]) /\ GetCoin(t, disk[o]) = TipCoin(o)
  BY Zenon, OneOutpoint, FetchFacts DEF TipCoin
<1> HIDE DEF t
<1> QED
  BY Zenon, <1>1, <1>2

(* The view's entry after a lookup.                                        *)
LEMMA ViewFetchedFacts ==
    ASSUME IInv, NEW o \in Outpoints
    PROVE  /\ ViewFetched(o) \in Entry \cup {Absent}
           /\ EntryOK(ViewFetched(o), TipCoin(o))
           /\ GetCoin(ViewFetched(o), TipCoin(o)) = ViewCoin(o)
           /\ ViewFetched(o) = Absent => TipCoin(o) = Spent
BY OneOutpoint, FetchFacts DEF ViewFetched, ViewCoin

(* HaveCoin changes entries and no answer.                                 *)
LEMMA HaveCoinStep ==
    ASSUME IInv, NEW o \in Outpoints, HaveCoin(o)
    PROVE  IInv' /\ Top' = Top /\ Mid' = Mid
<1>1. PICK t \in Entry \cup {Absent} :
              /\ TipFetched(o) = [tip EXCEPT ![o] = t]
              /\ EntryOK(t, disk[o])
              /\ GetCoin(t, disk[o]) = TipCoin(o)
  BY TipFetchedFacts
<1> DEFINE e == ViewFetched(o)
<1>2. /\ tip' = [tip EXCEPT ![o] = t] /\ view' = [view EXCEPT ![o] = e]
      /\ disk' = disk /\ diskBest' = diskBest /\ tipBest' = tipBest /\ viewBest' = viewBest
  BY <1>1 DEF HaveCoin
<1>3. e \in Entry \cup {Absent} /\ EntryOK(e, TipCoin(o)) /\ GetCoin(e, TipCoin(o)) = ViewCoin(o)
  BY ViewFetchedFacts
<1> HIDE DEF e
<1>4. /\ IInv'
      /\ \A x \in Outpoints : TipCoin(x)' = TipCoin(x)
      /\ \A x \in Outpoints \ {o} : ViewCoin(x)' = ViewCoin(x)
      /\ ViewCoin(o)' = GetCoin(e, TipCoin(o))
  BY Zenon, <1>1, <1>2, <1>3, OneOutpointStep
<1>5. \A x \in Outpoints : ViewCoin(x)' = ViewCoin(x)
  BY <1>3, <1>4
<1> QED
  BY <1>4, <1>5, Zenon DEF Top, Mid

(* AddCoin changes the view's answer for one outpoint.                     *)
LEMMA AddCoinStep ==
    ASSUME IInv, NEW o \in Outpoints, NEW c \in Coins, NEW w \in BOOLEAN, AddCoin(o, c, w)
    PROVE  IInv' /\ Top' = [Top EXCEPT ![o] = c] /\ Mid' = Mid
<1> DEFINE e == AddedEntry(view[o], c, w)
           t == tip[o]
<1>1. /\ tip' = [tip EXCEPT ![o] = t] /\ view' = [view EXCEPT ![o] = e]
      /\ disk' = disk /\ diskBest' = diskBest /\ tipBest' = tipBest /\ viewBest' = viewBest
  BY DEF AddCoin, IInv, TypeOK
<1>2. t \in Entry \cup {Absent} /\ EntryOK(t, disk[o]) /\ GetCoin(t, disk[o]) = TipCoin(o)
  BY OneOutpoint DEF TipCoin
<1>3. w \/ GetCoin(view[o], TipCoin(o)) = Spent
  BY DEF AddCoin, ViewCoin
<1>4. e \in Entry /\ e # Absent /\ EntryOK(e, TipCoin(o)) /\ e.coin = c
  BY <1>3, OneOutpoint, AddFacts
<1> HIDE DEF e, t
<1>5. /\ IInv'
      /\ \A x \in Outpoints : TipCoin(x)' = TipCoin(x)
      /\ \A x \in Outpoints \ {o} : ViewCoin(x)' = ViewCoin(x)
      /\ ViewCoin(o)' = GetCoin(e, TipCoin(o))
  BY Zenon, <1>1, <1>2, <1>4, OneOutpointStep
<1>6. ViewCoin(o)' = c
  BY <1>4, <1>5 DEF GetCoin
<1>7. Mid' = Mid
  BY <1>5, Zenon DEF Mid
<1>8. Top' = [Top EXCEPT ![o] = c]
  BY Zenon, <1>5, <1>6 DEF Top
<1> QED
  BY <1>5, <1>7, <1>8

(* AddCoins with check_for_overwrite looks the coin up and then adds it.   *)
LEMMA AddCoinCheckedStep ==
    ASSUME IInv, NEW o \in Outpoints, NEW c \in Coins, AddCoinChecked(o, c)
    PROVE  IInv' /\ Top' = [Top EXCEPT ![o] = c] /\ Mid' = Mid
<1>1. PICK t \in Entry \cup {Absent} :
              /\ TipFetched(o) = [tip EXCEPT ![o] = t]
              /\ EntryOK(t, disk[o])
              /\ GetCoin(t, disk[o]) = TipCoin(o)
  BY TipFetchedFacts
<1> DEFINE w == ViewCoin(o) # Spent
           e == AddedEntry(ViewFetched(o), c, w)
<1>2. /\ tip' = [tip EXCEPT ![o] = t] /\ view' = [view EXCEPT ![o] = e]
      /\ disk' = disk /\ diskBest' = diskBest /\ tipBest' = tipBest /\ viewBest' = viewBest
  BY <1>1 DEF AddCoinChecked
<1>3. w \in BOOLEAN /\ (w \/ GetCoin(ViewFetched(o), TipCoin(o)) = Spent)
  BY ViewFetchedFacts
<1> HIDE DEF w
<1>4. e \in Entry /\ e # Absent /\ EntryOK(e, TipCoin(o)) /\ e.coin = c
  BY <1>3, OneOutpoint, ViewFetchedFacts, AddFacts
<1> HIDE DEF e
<1>5. /\ IInv'
      /\ \A x \in Outpoints : TipCoin(x)' = TipCoin(x)
      /\ \A x \in Outpoints \ {o} : ViewCoin(x)' = ViewCoin(x)
      /\ ViewCoin(o)' = GetCoin(e, TipCoin(o))
  BY Zenon, <1>1, <1>2, <1>4, OneOutpointStep
<1>6. ViewCoin(o)' = c
  BY <1>4, <1>5 DEF GetCoin
<1>7. Mid' = Mid
  BY <1>5, Zenon DEF Mid
<1>8. Top' = [Top EXCEPT ![o] = c]
  BY Zenon, <1>5, <1>6 DEF Top
<1> QED
  BY <1>5, <1>7, <1>8

(* After SpendCoin the view answers Spent, whether the entry was cleared   *)
(* or forgotten.                                                           *)
LEMMA SpendCoinStep ==
    ASSUME IInv, NEW o \in Outpoints, SpendCoin(o)
    PROVE  IInv' /\ Top' = [Top EXCEPT ![o] = Spent] /\ Mid' = Mid
<1>1. PICK t \in Entry \cup {Absent} :
              /\ TipFetched(o) = [tip EXCEPT ![o] = t]
              /\ EntryOK(t, disk[o])
              /\ GetCoin(t, disk[o]) = TipCoin(o)
  BY TipFetchedFacts
<1> DEFINE e == SpentEntry(ViewFetched(o))
<1>2. /\ tip' = [tip EXCEPT ![o] = t] /\ view' = [view EXCEPT ![o] = e]
      /\ disk' = disk /\ diskBest' = diskBest /\ tipBest' = tipBest /\ viewBest' = viewBest
  BY Zenon, <1>1 DEF SpendCoin
<1>3. /\ e \in Entry \cup {Absent} /\ EntryOK(e, TipCoin(o))
      /\ GetCoin(e, TipCoin(o)) = Spent
  BY OneOutpoint, ViewFetchedFacts, SpendFacts
<1> HIDE DEF e
<1>4. /\ IInv'
      /\ \A x \in Outpoints : TipCoin(x)' = TipCoin(x)
      /\ \A x \in Outpoints \ {o} : ViewCoin(x)' = ViewCoin(x)
      /\ ViewCoin(o)' = GetCoin(e, TipCoin(o))
  BY Zenon, <1>1, <1>2, <1>3, OneOutpointStep
<1>5. Mid' = Mid
  BY <1>4, Zenon DEF Mid
<1>6. Top' = [Top EXCEPT ![o] = Spent]
  BY Zenon, <1>3, <1>4 DEF Top
<1> QED
  BY <1>4, <1>5, <1>6

(* FetchTip and Uncache change an entry of the tip cache and no answer.    *)
LEMMA TipEntryStep ==
    ASSUME IInv, NEW o \in Outpoints, FetchTip(o) \/ Uncache(o)
    PROVE  IInv' /\ Top' = Top /\ Mid' = Mid
<1> DEFINE t == IF FetchTip(o) THEN FetchCoin(tip[o], disk[o]) ELSE Absent
           e == view[o]
<1>1. /\ tip' = [tip EXCEPT ![o] = t] /\ view' = [view EXCEPT ![o] = e]
      /\ disk' = disk /\ diskBest' = diskBest /\ tipBest' = tipBest /\ viewBest' = viewBest
  BY Zenon DEF FetchTip, Uncache, IInv, TypeOK
<1>2. t \in Entry \cup {Absent} /\ EntryOK(t, disk[o]) /\ GetCoin(t, disk[o]) = TipCoin(o)
  <2>1. CASE FetchTip(o)
    BY Zenon, <2>1, OneOutpoint, FetchFacts DEF TipCoin
  <2>2. CASE ~FetchTip(o)
    <3>1. tip[o] # Absent /\ ~tip[o].dirty
      BY <2>2 DEF Uncache
    <3>2. tip[o].coin = disk[o]
      BY <3>1, OneOutpoint DEF EntryOK
    <3> QED
      BY <2>2, <3>1, <3>2 DEF TipCoin, GetCoin, EntryOK
  <2> QED
    BY Zenon, <2>1, <2>2
<1>3. e \in Entry \cup {Absent} /\ EntryOK(e, TipCoin(o)) /\ GetCoin(e, TipCoin(o)) = ViewCoin(o)
  BY OneOutpoint DEF ViewCoin
<1> HIDE DEF t, e
<1>4. /\ IInv'
      /\ \A x \in Outpoints : TipCoin(x)' = TipCoin(x)
      /\ \A x \in Outpoints \ {o} : ViewCoin(x)' = ViewCoin(x)
      /\ ViewCoin(o)' = GetCoin(e, TipCoin(o))
  BY Zenon, <1>1, <1>2, <1>3, OneOutpointStep
<1>5. \A x \in Outpoints : ViewCoin(x)' = ViewCoin(x)
  BY <1>3, <1>4
<1> QED
  BY <1>4, <1>5, Zenon DEF Top, Mid

(* An empty cache answers what the level below answers.                    *)
LEMMA EmptyFacts ==
    /\ NoEntries \in [Outpoints -> Entry \cup {Absent}]
    /\ \A o \in Outpoints : NoEntries[o] = Absent
    /\ \A b : GetCoin(Absent, b) = b /\ EntryOK(Absent, b)
BY DEF NoEntries, GetCoin, EntryOK

(* Flushing the view: the tip answers what the view answered.              *)
LEMMA FlushViewStep ==
    ASSUME IInv, FlushView
    PROVE  IInv' /\ Top' = Top /\ Mid' = Top
<1>1. /\ tip' = [o \in Outpoints |-> MergedEntry(tip[o], view[o])]
      /\ view' = NoEntries /\ disk' = disk /\ diskBest' = diskBest
      /\ viewBest' = viewBest /\ tipBest' = viewBest
  BY Zenon DEF FlushView
<1>2. \A o \in Outpoints :
         /\ tip'[o] \in Entry \cup {Absent}
         /\ EntryOK(tip'[o], disk'[o])
         /\ TipCoin(o)' = ViewCoin(o)
         /\ view'[o] = Absent
  <2> SUFFICES ASSUME NEW o \in Outpoints
               PROVE  /\ tip'[o] \in Entry \cup {Absent}
                      /\ EntryOK(tip'[o], disk'[o])
                      /\ TipCoin(o)' = ViewCoin(o)
                      /\ view'[o] = Absent
    BY Zenon
  <2>1. tip'[o] = MergedEntry(tip[o], view[o]) /\ view'[o] = Absent
    BY <1>1, EmptyFacts
  <2>2. EntryOK(view[o], GetCoin(tip[o], disk[o]))
    BY Zenon, OneOutpoint DEF TipCoin
  <2>3. /\ MergedEntry(tip[o], view[o]) \in Entry \cup {Absent}
        /\ EntryOK(MergedEntry(tip[o], view[o]), disk[o])
        /\ GetCoin(MergedEntry(tip[o], view[o]), disk[o]) = GetCoin(view[o], GetCoin(tip[o], disk[o]))
    BY ZenonT(40), <2>2, OneOutpoint, MergeFacts
  <2> QED
    BY <1>1, <2>1, <2>3 DEF TipCoin, ViewCoin
<1>3. \A o \in Outpoints : ViewCoin(o)' = ViewCoin(o) /\ EntryOK(view'[o], TipCoin(o)')
  BY <1>2, EmptyFacts DEF ViewCoin
<1>4. TypeOK'
  BY <1>1, <1>2, EmptyFacts DEF IInv, TypeOK
<1>5. FlagsMeanWhatTheySay'
  BY <1>2, <1>3 DEF FlagsMeanWhatTheySay
<1>6. Top' = Top /\ Mid' = Top
  BY <1>2, <1>3, Zenon DEF Top, Mid
<1> QED
  BY <1>4, <1>5, <1>6 DEF IInv

(* Dropping the view: it answers what the tip answers again.               *)
LEMMA DropViewStep ==
    ASSUME IInv, DropView
    PROVE  IInv' /\ Top' = Mid /\ Mid' = Mid
<1>1. /\ view' = NoEntries /\ viewBest' = NullBlock
      /\ disk' = disk /\ diskBest' = diskBest /\ tip' = tip /\ tipBest' = tipBest
  BY DEF DropView
<1>2. \A o \in Outpoints : TipCoin(o)' = TipCoin(o) /\ view'[o] = Absent
  BY <1>1, EmptyFacts DEF TipCoin
<1>3. \A o \in Outpoints : ViewCoin(o)' = TipCoin(o) /\ EntryOK(view'[o], TipCoin(o)')
  BY <1>2, EmptyFacts DEF ViewCoin
<1>4. TypeOK'
  BY <1>1, EmptyFacts DEF IInv, TypeOK
<1>5. FlagsMeanWhatTheySay'
  BY <1>1, <1>3, OneOutpoint DEF FlagsMeanWhatTheySay
<1>6. Top' = Mid /\ Mid' = Mid
  BY <1>2, <1>3, Zenon DEF Top, Mid
<1> QED
  BY <1>4, <1>5, <1>6 DEF IInv

(* Flushing the tip: the database answers what the tip answered.           *)
LEMMA FlushTipStep ==
    ASSUME IInv, FlushTip
    PROVE  IInv' /\ Top = Mid /\ Top' = Top /\ Mid' = Mid /\ disk' = Mid
<1>1. /\ view = NoEntries /\ view' = view /\ viewBest' = viewBest /\ tip' = NoEntries
      /\ disk' = [o \in Outpoints |-> WrittenCoin(o)]
      /\ diskBest' = TipBestBlock /\ tipBest' = TipBestBlock
  BY DEF FlushTip, NoView
<1>2. \A o \in Outpoints : WrittenCoin(o) = TipCoin(o)
  <2> SUFFICES ASSUME NEW o \in Outpoints PROVE WrittenCoin(o) = TipCoin(o)
    BY Zenon
  <2>1. CASE tip[o] = Absent
    BY <2>1 DEF WrittenCoin, TipCoin, GetCoin
  <2>2. CASE tip[o] # Absent /\ tip[o].dirty
    BY Zenon, <2>2 DEF WrittenCoin, TipCoin, GetCoin
  <2>3. CASE tip[o] # Absent /\ ~tip[o].dirty
    BY <2>3, OneOutpoint DEF WrittenCoin, TipCoin, GetCoin, EntryOK
  <2> QED
    BY <2>1, <2>2, <2>3
<1>3. \A o \in Outpoints :
         /\ view[o] = Absent /\ view'[o] = Absent /\ tip'[o] = Absent
         /\ disk'[o] = TipCoin(o)
  BY <1>1, <1>2, EmptyFacts
<1>4. \A o \in Outpoints :
         /\ ViewCoin(o) = TipCoin(o)
         /\ TipCoin(o)' = TipCoin(o)
         /\ ViewCoin(o)' = TipCoin(o)
  BY <1>3, EmptyFacts DEF ViewCoin, TipCoin
<1>5. TypeOK'
  <2>1. \A o \in Outpoints : disk'[o] \in Amounts
    BY <1>3, OneOutpoint
  <2>2. disk' \in [Outpoints -> Coins \cup {Spent}]
    BY <1>1, <2>1 DEF Amounts
  <2>3. TipBestBlock \in Blocks \cup {NullBlock}
    BY DEF IInv, TypeOK, TipBestBlock, GetBestBlock
  <2> QED
    BY <1>1, <2>2, <2>3, EmptyFacts DEF IInv, TypeOK
<1>6. FlagsMeanWhatTheySay'
  BY <1>3, EmptyFacts DEF FlagsMeanWhatTheySay
<1>7. Top = Mid /\ Top' = Top /\ Mid' = Mid
  BY <1>4, Zenon DEF Top, Mid
<1>8. disk' = Mid
  BY <1>1, <1>2, Zenon DEF Mid
<1> QED
  BY <1>5, <1>6, <1>7, <1>8 DEF IInv

-----------------------------------------------------------------------------
(* Every step keeps the invariant and is a step of UtxoStack or none.      *)
LEMMA StepRefines ==
    ASSUME IInv, [Next]_vars
    PROVE  IInv' /\ [Utxo!Next]_(Utxo!utxo)
<1> USE DEF Utxo!utxo
<1>1. ASSUME NEW o \in Outpoints, HaveCoin(o) \/ FetchTip(o) \/ Uncache(o)
      PROVE  IInv' /\ UNCHANGED Utxo!utxo
  <2>1. IInv' /\ Top' = Top /\ Mid' = Mid
    BY <1>1, HaveCoinStep, TipEntryStep
  <2>2. UNCHANGED <<disk, diskBest, tipBest, viewBest>>
    BY <1>1 DEF HaveCoin, FetchTip, Uncache
  <2> QED
    BY <2>1, <2>2 DEF Top, Mid, TipBestBlock, ViewBestBlock
<1>2. ASSUME NEW o \in Outpoints, NEW c \in Coins,
             AddCoinChecked(o, c) \/ \E overwrite \in BOOLEAN : AddCoin(o, c, overwrite)
      PROVE  IInv' /\ Utxo!Add(o, c)
  <2>1. IInv' /\ Top' = [Top EXCEPT ![o] = c] /\ Mid' = Mid
    BY <1>2, AddCoinStep, AddCoinCheckedStep
  <2>2. UNCHANGED <<disk, diskBest, tipBest, viewBest>>
    BY <1>2 DEF AddCoin, AddCoinChecked
  <2> QED
    BY <2>1, <2>2 DEF Top, Mid, TipBestBlock, ViewBestBlock, Utxo!Add
<1>3. ASSUME NEW o \in Outpoints, SpendCoin(o)
      PROVE  IInv' /\ Utxo!Spend(o)
  <2>1. IInv' /\ Top' = [Top EXCEPT ![o] = Spent] /\ Mid' = Mid
    BY <1>3, SpendCoinStep
  <2>2. UNCHANGED <<disk, diskBest, tipBest, viewBest>>
    BY <1>3 DEF SpendCoin
  <2> QED
    BY <2>1, <2>2 DEF Top, Mid, TipBestBlock, ViewBestBlock, Utxo!Spend
<1>4. ASSUME NEW b \in Blocks, SetBestBlock(b)
      PROVE  IInv' /\ Utxo!SetBest(b)
  <2>1. viewBest' = b /\ UNCHANGED <<disk, diskBest, tip, tipBest, view>>
    BY <1>4 DEF SetBestBlock
  <2>2. \A o \in Outpoints : TipCoin(o)' = TipCoin(o) /\ ViewCoin(o)' = ViewCoin(o)
    BY <2>1 DEF TipCoin, ViewCoin
  <2>3. Top' = Top /\ Mid' = Mid
    BY <2>2, Zenon DEF Top, Mid
  <2>4. IInv'
    BY <2>1, <2>2, OneOutpoint DEF IInv, TypeOK, FlagsMeanWhatTheySay
  <2>5. ViewBestBlock' = b /\ TipBestBlock' = TipBestBlock
    BY <2>1, CoinsAssumption DEF ViewBestBlock, TipBestBlock, GetBestBlock
  <2> QED
    BY <2>1, <2>3, <2>4, <2>5 DEF Top, Mid, Utxo!SetBest
<1>5. ASSUME FlushView
      PROVE  IInv' /\ Utxo!Apply
  <2>1. IInv' /\ Top' = Top /\ Mid' = Top
    BY <1>5, FlushViewStep
  <2>2. viewBest # NullBlock /\ tipBest' = viewBest /\ UNCHANGED <<disk, diskBest, viewBest>>
    BY <1>5 DEF FlushView
  <2>3. TipBestBlock' = ViewBestBlock /\ ViewBestBlock' = ViewBestBlock
    BY <2>2 DEF ViewBestBlock, TipBestBlock, GetBestBlock
  <2> QED
    BY <2>1, <2>2, <2>3 DEF Top, Mid, Utxo!Apply
<1>6. ASSUME DropView
      PROVE  IInv' /\ Utxo!Drop
  <2>1. IInv' /\ Top' = Mid /\ Mid' = Mid
    BY <1>6, DropViewStep
  <2>2. viewBest' = NullBlock /\ UNCHANGED <<disk, diskBest, tipBest>>
    BY <1>6 DEF DropView
  <2>3. TipBestBlock' = TipBestBlock /\ ViewBestBlock' = TipBestBlock
    BY <2>2 DEF ViewBestBlock, TipBestBlock, GetBestBlock
  <2> QED
    BY <2>1, <2>2, <2>3 DEF Top, Mid, Utxo!Drop
<1>7. ASSUME FlushTip
      PROVE  IInv' /\ Utxo!Persist
  <2>1. IInv' /\ Top = Mid /\ Top' = Top /\ Mid' = Mid /\ disk' = Mid
    BY <1>7, FlushTipStep
  <2>2. /\ diskBest' = TipBestBlock /\ tipBest' = TipBestBlock /\ TipBestBlock # NullBlock
        /\ viewBest' = viewBest
    BY <1>7 DEF FlushTip
  <2>3. TipBestBlock' = TipBestBlock /\ ViewBestBlock' = ViewBestBlock
    BY <2>2 DEF ViewBestBlock, TipBestBlock, GetBestBlock
  <2> QED
    BY <2>1, <2>2, <2>3 DEF Top, Mid, Utxo!Persist
<1>8. ASSUME UNCHANGED vars
      PROVE  IInv' /\ UNCHANGED Utxo!utxo
  <2>1. \A o \in Outpoints : TipCoin(o)' = TipCoin(o) /\ ViewCoin(o)' = ViewCoin(o)
    BY Zenon, <1>8 DEF vars, TipCoin, ViewCoin
  <2>2. IInv'
    BY <1>8, <2>1, OneOutpoint DEF vars, IInv, TypeOK, FlagsMeanWhatTheySay
  <2>3. Top' = Top /\ Mid' = Mid
    BY <2>1, Zenon DEF Top, Mid
  <2> QED
    BY <1>8, <2>2, <2>3 DEF Top, Mid, vars, TipBestBlock, ViewBestBlock
<1>9. ASSUME AskBestBlock \/ AskTipBestBlock
      PROVE  IInv' /\ UNCHANGED Utxo!utxo
  <2>1. UNCHANGED <<disk, diskBest, tip, view>>
    BY Zenon, <1>9 DEF AskBestBlock, AskTipBestBlock
  <2>2. \A o \in Outpoints : TipCoin(o)' = TipCoin(o) /\ ViewCoin(o)' = ViewCoin(o)
    BY <2>1 DEF TipCoin, ViewCoin
  <2>3. Top' = Top /\ Mid' = Mid
    BY <2>2, Zenon DEF Top, Mid
  <2>4. /\ tipBest' \in Blocks \cup {NullBlock} /\ viewBest' \in Blocks \cup {NullBlock}
        /\ TipBestBlock' = TipBestBlock /\ ViewBestBlock' = ViewBestBlock
    BY Zenon, <1>9 DEF AskBestBlock, AskTipBestBlock, IInv, TypeOK, TipBestBlock, ViewBestBlock, GetBestBlock
  <2>5. IInv'
    BY <2>1, <2>2, <2>4, OneOutpoint DEF IInv, TypeOK, FlagsMeanWhatTheySay
  <2> QED
    BY <2>1, <2>3, <2>4, <2>5 DEF Top, Mid
<1>10. ASSUME Restart
       PROVE  IInv' /\ Utxo!Restart
  <2>1. /\ tip' = NoEntries /\ view' = NoEntries /\ tipBest' = NullBlock /\ viewBest' = NullBlock
        /\ UNCHANGED <<disk, diskBest>>
    BY Zenon, <1>10 DEF Restart
  <2>2. \A o \in Outpoints :
           /\ tip'[o] = Absent /\ view'[o] = Absent
           /\ TipCoin(o)' = disk[o] /\ ViewCoin(o)' = disk[o]
    BY <2>1, EmptyFacts DEF TipCoin, ViewCoin
  <2>3. disk = [o \in Outpoints |-> disk[o]]
    BY Zenon DEF IInv, TypeOK
  <2>4. Top' = disk /\ Mid' = disk
    BY <2>2, <2>3, Zenon DEF Top, Mid
  <2>5. TipBestBlock' = diskBest /\ ViewBestBlock' = diskBest
    BY Zenon, <2>1 DEF TipBestBlock, ViewBestBlock, GetBestBlock
  <2>6. IInv'
    BY ZenonT(40), <2>1, <2>2, EmptyFacts DEF IInv, TypeOK, FlagsMeanWhatTheySay
  <2> QED
    BY <2>1, <2>4, <2>5, <2>6 DEF Top, Mid, Utxo!Restart
<1>11. CASE Next
  BY <1>1, <1>2, <1>3, <1>4, <1>5, <1>6, <1>7, <1>9, <1>10, <1>11 DEF Next, Utxo!Next
<1> QED
  BY <1>8, <1>11

(* The empty caches on the empty database satisfy the invariant and look   *)
(* like three empty copies.                                                *)
LEMMA InitRefines ==
    ASSUME Init
    PROVE  IInv /\ Utxo!Init
<1>1. \A o \in Outpoints : tip[o] = Absent /\ view[o] = Absent /\ disk[o] = Spent
  BY Zenon, EmptyFacts DEF Init
<1>2. \A o \in Outpoints : TipCoin(o) = Spent /\ ViewCoin(o) = Spent
  BY Zenon, <1>1, EmptyFacts DEF TipCoin, ViewCoin
<1>3. TypeOK
  BY EmptyFacts DEF Init, TypeOK
<1>4. FlagsMeanWhatTheySay
  BY Zenon, <1>1, EmptyFacts DEF FlagsMeanWhatTheySay
<1>5. Top = disk /\ Mid = disk
  BY <1>2, Zenon DEF Top, Mid, Init
<1>6. TipBestBlock = NullBlock /\ ViewBestBlock = NullBlock
  BY DEF Init, TipBestBlock, ViewBestBlock, GetBestBlock
<1> QED
  BY <1>3, <1>4, <1>5, <1>6 DEF IInv, Init, Utxo!Init, Top, Mid

(* In every reachable state of the two caches the flags mean what their    *)
(* comment says, whatever the outpoints, coins and blocks.                 *)
THEOREM FlagsInvariant == Spec => []IInv
<1>1. Init => IInv
  BY InitRefines
<1>2. IInv /\ [Next]_vars => IInv'
  BY StepRefines
<1> QED
  BY <1>1, <1>2, PTL DEF Spec

(* Caches, database and best blocks always have their types.               *)
THEOREM CachesTypeCorrect == Spec => []TypeOK
<1>1. IInv => TypeOK
  BY DEF IInv
<1> QED
  BY <1>1, FlagsInvariant, PTL

(* Only the five combinations of spent, DIRTY and FRESH that the comment   *)
(* of CCoinsCacheEntry calls valid are ever in a cache.                    *)
THEOREM EntriesStayValid == Spec => []EntriesAreValid
<1>1. IInv => EntriesAreValid
  BY Zenon DEF IInv, FlagsMeanWhatTheySay, EntryOK, EntriesAreValid
<1> QED
  BY <1>1, FlagsInvariant, PTL

(* BatchWrite never has to throw "FRESH flag misapplied".                  *)
THEOREM FlushNeverThrows == Spec => []NeverMisapplied
<1>1. IInv => NeverMisapplied
  <2> SUFFICES ASSUME IInv, NEW o \in Outpoints PROVE ~Misapplied(tip[o], view[o])
    BY Zenon DEF NeverMisapplied
  <2>1. EntryOK(view[o], GetCoin(tip[o], disk[o]))
    BY OneOutpoint DEF TipCoin
  <2> QED
    BY Zenon, <2>1, OneOutpoint, MergeFacts
<1> QED
  BY <1>1, FlagsInvariant, PTL

(* What view, tip and database answer changes exactly as three full        *)
(* copies of the set of unspent outputs would, flushed as a whole.         *)
THEOREM CachesAreInvisible == Spec => ImplementsUtxoStack
<1>1. Init => Utxo!Init
  BY InitRefines
<1>2. IInv /\ [Next]_vars => [Utxo!Next]_(Utxo!utxo)
  BY StepRefines
<1> QED
  BY <1>1, <1>2, FlagsInvariant, PTL DEF Spec, ImplementsUtxoStack, Utxo!Spec

-----------------------------------------------------------------------------
(* IndexSound for any number of threads, addresses, services and           *)
(* identifiers.  The inductive invariant says what a save relies on while  *)
(* it is under way: only the thread inside the mutex is past "edited"; the *)
(* entries that still name the address being rewritten are the ones left   *)
(* to erase; between the erasures and the write there are none; and the    *)
(* entries left to write belong to the record that was written.            *)

Inside == {"erase", "write", "index", "remove"}

MutexHeld == \A t \in Threads : call[t].pc \in Inside => holder = t

CallHasAddress == \A t \in Threads : call[t].pc # "idle" => call[t].addr \in Addresses

EraseCovers ==
    \A t \in Threads : call[t].pc = "erase" =>
        \A c \in Claims : index[c] = call[t].addr => c \in call[t].todo

NoEntryWhileRewriting ==
    \A t \in Threads : call[t].pc \in {"write", "remove"} =>
        \A c \in Claims : index[c] # call[t].addr

IndexingWritten ==
    \A t \in Threads : call[t].pc = "index" =>
        /\ db[call[t].addr] = call[t].copy
        /\ call[t].todo \subseteq IndexedClaims(call[t].copy)

IdentityIInv ==
    /\ IdentityTypeOK
    /\ MutexHeld
    /\ CallHasAddress
    /\ EraseCovers
    /\ NoEntryWhileRewriting
    /\ IndexingWritten
    /\ IndexSound

(* RemoveServiceIndex erases at least what UpdateServiceIndex has written. *)
LEMMA ErasedCoverIndexed ==
    ASSUME NEW u \in UserIdentity
    PROVE  /\ IndexedClaims(u) \subseteq ErasedClaims(u)
           /\ ErasedClaims(u) \subseteq Claims
BY DEF IndexedClaims, ErasedClaims, ProofClaims, PGPClaim, UserIdentity

(* The edits of UserIdentity (AddProof, RemoveProof, SetPGPKey,            *)
(* ClearPGPKey) and the fresh identity of GetIdentity are identities.      *)
LEMMA EditsAreIdentities ==
    ASSUME IdentityTypeOK, NEW a \in Addresses
    PROVE  /\ EmptyIdentity \in UserIdentity
           /\ GetIdentity(a) \in UserIdentity
           /\ \A s \in Services, i \in Identifiers, st \in {"verified", "unverified"} :
                 WithProof(GetIdentity(a), s, i, st) \in UserIdentity
           /\ \A s \in Services : WithoutProof(GetIdentity(a), s) \in UserIdentity
           /\ \A f \in Identifiers \cup {NoIdentifier} :
                 WithPGPKey(GetIdentity(a), f) \in UserIdentity
<1>1. EmptyIdentity \in UserIdentity
  BY DEF EmptyIdentity, UserIdentity
<1>2. GetIdentity(a) \in UserIdentity
  BY <1>1 DEF GetIdentity, IdentityTypeOK
<1>3. ASSUME NEW u \in UserIdentity,
             NEW s \in Services, NEW i \in Identifiers, NEW st \in {"verified", "unverified"}
      PROVE  WithProof(u, s, i, st) \in UserIdentity
  BY Zenon DEF WithProof, UserIdentity
<1>4. ASSUME NEW u \in UserIdentity, NEW s \in Services
      PROVE  WithoutProof(u, s) \in UserIdentity
  BY Zenon DEF WithoutProof, UserIdentity
<1>5. ASSUME NEW u \in UserIdentity, NEW f \in Identifiers \cup {NoIdentifier}
      PROVE  WithPGPKey(u, f) \in UserIdentity
  BY Zenon DEF WithPGPKey, UserIdentity
<1> QED
  BY Zenon, <1>1, <1>2, <1>3, <1>4, <1>5

(* A call record with typed fields is a Call.                              *)
LEMMA IdleIsCall == Idle \in Call
BY Zenon, EmptyIdentity \in UserIdentity DEF Idle, Call, Ops, EmptyIdentity, UserIdentity

-----------------------------------------------------------------------------
(* An empty database with no call under way.                               *)
LEMMA IdentityInitIInv == IdentityInit => IdentityIInv
<1> SUFFICES ASSUME IdentityInit PROVE IdentityIInv
  OBVIOUS
<1>1. /\ \A a \in Addresses : db[a] = NoIdentity
      /\ \A c \in Claims : index[c] = NoAddress
      /\ \A t \in Threads : call[t] = Idle /\ call[t].pc = "idle"
  BY Zenon DEF IdentityInit, Idle
<1>2. IdentityTypeOK
  BY Zenon, IdleIsCall DEF IdentityInit, IdentityTypeOK
<1>3. MutexHeld /\ CallHasAddress /\ EraseCovers /\ NoEntryWhileRewriting /\ IndexingWritten
  BY Zenon, <1>1 DEF IdentityInit, MutexHeld, CallHasAddress, EraseCovers,
       NoEntryWhileRewriting, IndexingWritten, Idle, Inside
<1>4. IndexSound
  BY Zenon, <1>1 DEF IndexSound, LookupByService
<1> QED BY Zenon, <1>2, <1>3, <1>4 DEF IdentityIInv

(* A call that has only read and edited its copy changes no shared state.  *)
LEMMA EditedKeepsIInv ==
    ASSUME IdentityIInv, NEW t \in Threads, NEW name \in Ops, NEW a \in Addresses,
           NEW u \in UserIdentity, Edited(t, name, a, u)
    PROVE  IdentityIInv'
<1> USE DEF IdentityIInv
<1>1. call' \in [Threads -> Call]
  BY Zenon DEF Edited, IdentityTypeOK, Call
<1>2. IdentityTypeOK'
  BY Zenon, <1>1 DEF Edited, IdentityTypeOK
<1>3. /\ call'[t].pc = "edited" /\ call'[t].addr = a
      /\ \A s \in Threads : s # t => call'[s] = call[s]
  BY Zenon DEF Edited, IdentityTypeOK
<1>4. MutexHeld' /\ CallHasAddress'
  BY Zenon, <1>3 DEF Edited, MutexHeld, CallHasAddress, Inside
<1>5. EraseCovers' /\ NoEntryWhileRewriting' /\ IndexingWritten' /\ IndexSound'
  BY ZenonT(40), <1>3 DEF Edited, EraseCovers, NoEntryWhileRewriting, IndexingWritten, IndexSound, LookupByService
<1> QED
  BY <1>2, <1>4, <1>5

(* Every claim that names an address is among the ones OldClaims erases.   *)
LEMMA OldClaimsCover ==
    ASSUME IdentityTypeOK, IndexSound, NEW a \in Addresses
    PROVE  /\ OldClaims(a) \subseteq Claims
           /\ \A c \in Claims : index[c] = a => c \in OldClaims(a)
<1>1. CASE db[a] = NoIdentity
  BY Zenon, <1>1, IdentityAssumption DEF OldClaims, IndexSound, LookupByService
<1>2. CASE db[a] # NoIdentity
  <2>1. db[a] \in UserIdentity
    BY <1>2 DEF IdentityTypeOK
  <2> QED
    BY <1>2, <2>1, ErasedCoverIndexed, IdentityAssumption DEF OldClaims, IndexSound, LookupByService
<1> QED
  BY Zenon, <1>1, <1>2

(* SaveIdentity takes the mutex and lists the entries of the old record.   *)
LEMMA BeginSaveKeepsIInv ==
    ASSUME IdentityIInv, NEW t \in Threads, BeginSave(t)
    PROVE  IdentityIInv'
<1> USE DEF IdentityIInv
<1>1. call[t].addr \in Addresses
  BY DEF BeginSave, CallHasAddress
<1>2. /\ call' \in [Threads -> Call]
      /\ call'[t].pc = "erase" /\ call'[t].addr = call[t].addr
      /\ call'[t].todo = OldClaims(call[t].addr)
      /\ \A s \in Threads : s # t => call'[s] = call[s]
  BY ZenonT(40), <1>1, OldClaimsCover DEF BeginSave, IdentityTypeOK, Call
<1>3. IdentityTypeOK'
  BY <1>2 DEF BeginSave, IdentityTypeOK
<1>4. MutexHeld' /\ CallHasAddress'
  BY <1>1, <1>2, IdentityAssumption DEF BeginSave, MutexHeld, CallHasAddress, Inside
<1>5. EraseCovers'
  BY <1>1, <1>2, OldClaimsCover DEF BeginSave, EraseCovers
<1>6. NoEntryWhileRewriting' /\ IndexingWritten' /\ IndexSound'
  BY <1>2 DEF BeginSave, NoEntryWhileRewriting, IndexingWritten, IndexSound, LookupByService
<1> QED
  BY <1>3, <1>4, <1>5, <1>6

(* DeleteIdentity takes the mutex and lists the entries of the old record. *)
LEMMA BeginDeleteKeepsIInv ==
    ASSUME IdentityIInv, NEW t \in Threads, NEW a \in Addresses, BeginDelete(t, a)
    PROVE  IdentityIInv'
<1> USE DEF IdentityIInv
<1>1. /\ call' \in [Threads -> Call]
      /\ call'[t].pc = "erase" /\ call'[t].addr = a
      /\ call'[t].todo = OldClaims(a)
      /\ \A s \in Threads : s # t => call'[s] = call[s]
  BY Zenon, OldClaimsCover, EditsAreIdentities DEF BeginDelete, IdentityTypeOK, Call, Ops
<1>2. IdentityTypeOK'
  BY Zenon, <1>1 DEF BeginDelete, IdentityTypeOK
<1>3. MutexHeld' /\ CallHasAddress'
  BY Zenon, <1>1, IdentityAssumption DEF BeginDelete, MutexHeld, CallHasAddress, Inside
<1>4. EraseCovers'
  BY Zenon, <1>1, OldClaimsCover DEF BeginDelete, EraseCovers
<1>5. NoEntryWhileRewriting' /\ IndexingWritten' /\ IndexSound'
  BY ZenonT(40), <1>1 DEF BeginDelete, NoEntryWhileRewriting, IndexingWritten, IndexSound, LookupByService
<1> QED
  BY <1>2, <1>3, <1>4, <1>5

(* Inside the mutex there is one thread: every other one is idle or holds  *)
(* only its copy.                                                          *)
LEMMA Alone ==
    ASSUME IdentityIInv, NEW t \in Threads, call[t].pc \in Inside
    PROVE  \A s \in Threads : s # t => call[s].pc \notin Inside
BY DEF IdentityIInv, MutexHeld

(* Erasing an entry of the old record, whomever it names.                  *)
LEMMA EraseClaimKeepsIInv ==
    ASSUME IdentityIInv, NEW t \in Threads, EraseClaim(t)
    PROVE  IdentityIInv'
<1> USE DEF IdentityIInv
<1>0. call[t].pc = "erase"
  BY DEF EraseClaim
<1>1. PICK c \in call[t].todo :
          /\ index' = [index EXCEPT ![c] = NoAddress]
          /\ call' = [call EXCEPT ![t].todo = @ \ {c}]
  BY Zenon DEF EraseClaim
<1>2. c \in Claims /\ call[t].addr \in Addresses
  BY <1>0 DEF IdentityTypeOK, Call, CallHasAddress
<1>3. /\ call' \in [Threads -> Call]
      /\ call'[t].pc = "erase" /\ call'[t].addr = call[t].addr
      /\ call'[t].todo = call[t].todo \ {c}
      /\ \A s \in Threads : s # t => call'[s] = call[s]
  BY <1>0, <1>1 DEF IdentityTypeOK, Call
<1>4. IdentityTypeOK'
  BY <1>1, <1>2, <1>3 DEF EraseClaim, IdentityTypeOK
<1>5. MutexHeld' /\ CallHasAddress'
  BY Zenon, <1>0, <1>2, <1>3 DEF EraseClaim, MutexHeld, CallHasAddress, Inside
<1>6. \A s \in Threads : s # t => call'[s].pc \notin Inside
  BY <1>0, <1>3, Alone DEF Inside
<1>7. EraseCovers' /\ NoEntryWhileRewriting' /\ IndexingWritten'
  BY <1>0, <1>1, <1>2, <1>3, <1>6, IdentityAssumption
     DEF EraseCovers, NoEntryWhileRewriting, IndexingWritten, Inside, IdentityTypeOK
<1>8. IndexSound'
  BY <1>1, <1>2 DEF EraseClaim, IndexSound, LookupByService, IdentityTypeOK
<1> QED
  BY Zenon, <1>4, <1>5, <1>7, <1>8

(* With nothing left to erase, no entry names the address.                 *)
LEMMA EndEraseKeepsIInv ==
    ASSUME IdentityIInv, NEW t \in Threads, EndErase(t)
    PROVE  IdentityIInv'
<1> USE DEF IdentityIInv
<1>0. call[t].pc = "erase" /\ call[t].todo = {}
  BY DEF EndErase
<1>1. AfterErase(t) \in {"write", "remove"}
  BY DEF AfterErase
<1>2. /\ call' \in [Threads -> Call]
      /\ call'[t].pc \in {"write", "remove"} /\ call'[t].addr = call[t].addr
      /\ \A s \in Threads : s # t => call'[s] = call[s]
  BY <1>1 DEF EndErase, IdentityTypeOK, Call
<1>3. IdentityTypeOK'
  BY <1>2 DEF EndErase, IdentityTypeOK
<1>4. MutexHeld' /\ CallHasAddress'
  BY <1>0, <1>2 DEF EndErase, MutexHeld, CallHasAddress, Inside
<1>5. EraseCovers' /\ NoEntryWhileRewriting' /\ IndexingWritten'
  BY <1>0, <1>2 DEF EndErase, EraseCovers, NoEntryWhileRewriting, IndexingWritten
<1>6. IndexSound'
  BY DEF EndErase, IndexSound, LookupByService
<1> QED
  BY <1>3, <1>4, <1>5, <1>6

(* The record is written when no entry names its address, so the entries   *)
(* of the other addresses are the only ones there are.                     *)
LEMMA WriteIdentityKeepsIInv ==
    ASSUME IdentityIInv, NEW t \in Threads, WriteIdentity(t)
    PROVE  IdentityIInv'
<1> USE DEF IdentityIInv
<1>0. call[t].pc = "write"
  BY DEF WriteIdentity
<1>1. call[t].addr \in Addresses /\ call[t].copy \in UserIdentity
  BY <1>0 DEF CallHasAddress, IdentityTypeOK, Call
<1>2. IndexedClaims(call[t].copy) \subseteq Claims
  BY <1>1, ErasedCoverIndexed
<1>3. /\ call' \in [Threads -> Call]
      /\ call'[t].pc = "index" /\ call'[t].addr = call[t].addr
      /\ call'[t].copy = call[t].copy
      /\ call'[t].todo = IndexedClaims(call[t].copy)
      /\ \A s \in Threads : s # t => call'[s] = call[s]
  BY ZenonT(40), <1>2 DEF WriteIdentity, IdentityTypeOK, Call
<1>4. IdentityTypeOK'
  BY <1>1, <1>3 DEF WriteIdentity, IdentityTypeOK
<1>5. MutexHeld' /\ CallHasAddress'
  BY <1>0, <1>1, <1>3 DEF WriteIdentity, MutexHeld, CallHasAddress, Inside
<1>6. \A s \in Threads : s # t => call'[s].pc \notin Inside
  BY <1>0, <1>3, Alone DEF Inside
<1>7. EraseCovers' /\ NoEntryWhileRewriting' /\ IndexingWritten'
  BY SMTT(40), <1>1, <1>3, <1>6
     DEF WriteIdentity, EraseCovers, NoEntryWhileRewriting, IndexingWritten, Inside, IdentityTypeOK
<1>8. IndexSound'
  BY Zenon, <1>0, <1>1 DEF WriteIdentity, IndexSound, LookupByService, NoEntryWhileRewriting, IdentityTypeOK
<1> QED
  BY <1>4, <1>5, <1>7, <1>8

(* Writing an entry for a claim of the record just written.                *)
LEMMA IndexClaimKeepsIInv ==
    ASSUME IdentityIInv, NEW t \in Threads, IndexClaim(t)
    PROVE  IdentityIInv'
<1> USE DEF IdentityIInv
<1>0. call[t].pc = "index"
  BY DEF IndexClaim
<1>1. PICK c \in call[t].todo :
          /\ index' = [index EXCEPT ![c] = call[t].addr]
          /\ call' = [call EXCEPT ![t].todo = @ \ {c}]
  BY Zenon DEF IndexClaim
<1>2. c \in Claims /\ call[t].addr \in Addresses /\ call[t].copy \in UserIdentity
  BY <1>0 DEF IdentityTypeOK, Call, CallHasAddress
<1>3. /\ call' \in [Threads -> Call]
      /\ call'[t].pc = "index" /\ call'[t].addr = call[t].addr
      /\ call'[t].copy = call[t].copy
      /\ call'[t].todo = call[t].todo \ {c}
      /\ \A s \in Threads : s # t => call'[s] = call[s]
  BY <1>0, <1>1 DEF IdentityTypeOK, Call
<1>4. IdentityTypeOK'
  BY <1>1, <1>2, <1>3 DEF IndexClaim, IdentityTypeOK
<1>5. MutexHeld' /\ CallHasAddress'
  BY Zenon, <1>0, <1>2, <1>3 DEF IndexClaim, MutexHeld, CallHasAddress, Inside
<1>6. \A s \in Threads : s # t => call'[s].pc \notin Inside
  BY <1>0, <1>3, Alone DEF Inside
<1>7. EraseCovers' /\ NoEntryWhileRewriting' /\ IndexingWritten'
  <2>1. \A s \in Threads : call'[s].pc \notin {"erase", "write", "remove"} /\ (call'[s].pc = "index" => s = t)
    BY <1>0, <1>3, <1>6 DEF Inside
  <2>2. EraseCovers' /\ NoEntryWhileRewriting'
    BY Zenon, <2>1 DEF EraseCovers, NoEntryWhileRewriting
  <2>3. call'[t].pc = "index" =>
          /\ db'[call'[t].addr] = call'[t].copy
          /\ call'[t].todo \subseteq IndexedClaims(call'[t].copy)
    BY <1>0, <1>3 DEF IndexClaim, IndexingWritten
  <2>4. IndexingWritten'
    BY Zenon, <2>1, <2>3 DEF IndexingWritten
  <2> QED BY Zenon, <2>2, <2>4
<1>8. IndexSound'
  <2>1. db[call[t].addr] # NoIdentity /\ c \in IndexedClaims(db[call[t].addr])
    BY <1>0, <1>1, <1>2, NoIdentityAssumption DEF IndexingWritten
  <2>2. db' = db /\ index'[c] = call[t].addr
        /\ \A d \in Claims : d # c => index'[d] = index[d]
    BY Zenon, <1>1, <1>2 DEF IndexClaim, IdentityTypeOK
  <2> QED
    BY <2>1, <2>2 DEF IndexSound, LookupByService
<1> QED
  BY <1>4, <1>5, <1>7, <1>8

(* SaveIdentity returns and releases the mutex.                            *)
LEMMA EndSaveKeepsIInv ==
    ASSUME IdentityIInv, NEW t \in Threads, EndSave(t)
    PROVE  IdentityIInv'
<1> USE DEF IdentityIInv
<1>1. /\ call' \in [Threads -> Call]
      /\ call'[t].pc = "idle"
      /\ \A s \in Threads : s # t => call'[s] = call[s]
  BY Zenon, IdleIsCall DEF EndSave, IdentityTypeOK, Idle
<1>2. IdentityTypeOK'
  BY Zenon, <1>1 DEF EndSave, IdentityTypeOK
<1>3. \A s \in Threads : call'[s].pc \notin Inside
  BY Zenon, <1>1, Alone DEF EndSave, Inside
<1>4. MutexHeld' /\ CallHasAddress'
  BY Zenon, <1>1, <1>3 DEF MutexHeld, CallHasAddress
<1>5. EraseCovers' /\ NoEntryWhileRewriting' /\ IndexingWritten'
  BY Zenon, <1>3 DEF EraseCovers, NoEntryWhileRewriting, IndexingWritten, Inside
<1>6. IndexSound'
  BY Zenon DEF EndSave, IndexSound, LookupByService
<1> QED
  BY <1>2, <1>4, <1>5, <1>6

(* DeleteIdentity erases a record that no entry names any more.            *)
LEMMA RemoveIdentityKeepsIInv ==
    ASSUME IdentityIInv, NEW t \in Threads, RemoveIdentity(t)
    PROVE  IdentityIInv'
<1> USE DEF IdentityIInv
<1>1. /\ call' \in [Threads -> Call]
      /\ call'[t].pc = "idle"
      /\ \A s \in Threads : s # t => call'[s] = call[s]
  BY IdleIsCall DEF RemoveIdentity, IdentityTypeOK, Idle
<1>2. call[t].pc = "remove" /\ call[t].addr \in Addresses
  BY DEF RemoveIdentity, CallHasAddress
<1>3. IdentityTypeOK'
  BY Zenon, <1>1 DEF RemoveIdentity, IdentityTypeOK
<1>4. \A s \in Threads : call'[s].pc \notin Inside
  BY Zenon, <1>1, <1>2, Alone DEF Inside
<1>5. MutexHeld' /\ CallHasAddress'
  <2>1. MutexHeld'
    BY Zenon, <1>4 DEF MutexHeld
  <2>2. ASSUME NEW s \in Threads, call'[s].pc # "idle" PROVE call'[s].addr \in Addresses
    BY Zenon, <1>1, <2>2 DEF CallHasAddress
  <2> QED BY Zenon, <2>1, <2>2 DEF CallHasAddress
<1>6. EraseCovers' /\ NoEntryWhileRewriting' /\ IndexingWritten'
  BY ZenonT(40), <1>4 DEF EraseCovers, NoEntryWhileRewriting, IndexingWritten, Inside
<1>7. IndexSound'
  BY Zenon, <1>2 DEF RemoveIdentity, IndexSound, LookupByService, NoEntryWhileRewriting, IdentityTypeOK
<1> QED
  BY <1>3, <1>5, <1>6, <1>7

(* A crash keeps the database and forgets the calls.                       *)
LEMMA CrashKeepsIInv ==
    ASSUME IdentityIInv, IdentityCrash
    PROVE  IdentityIInv'
BY ZenonT(40), IdleIsCall
   DEF IdentityIInv, IdentityCrash, IdentityTypeOK, MutexHeld, CallHasAddress, EraseCovers,
       NoEntryWhileRewriting, IndexingWritten, IndexSound, LookupByService, Idle, Inside

-----------------------------------------------------------------------------
(* Every step of every thread keeps the invariant.                         *)
LEMMA IdentityNextIInv == IdentityIInv /\ [IdentityNext]_identityVars => IdentityIInv'
<1> SUFFICES ASSUME IdentityIInv, [IdentityNext]_identityVars
             PROVE  IdentityIInv'
  BY ZenonT(40)
<1>1. CASE UNCHANGED identityVars
  BY ZenonT(40), <1>1 DEF IdentityIInv, IdentityTypeOK, MutexHeld, CallHasAddress, EraseCovers,
              NoEntryWhileRewriting, IndexingWritten, IndexSound, LookupByService, identityVars
<1>2. CASE IdentityCrash
  BY Zenon, <1>2, CrashKeepsIInv
<1>3. ASSUME NEW t \in Threads, Locked(t)
      PROVE  IdentityIInv'
  BY Zenon, <1>3, BeginSaveKeepsIInv, EraseClaimKeepsIInv, EndEraseKeepsIInv,
     WriteIdentityKeepsIInv, IndexClaimKeepsIInv, EndSaveKeepsIInv,
     RemoveIdentityKeepsIInv DEF Locked
<1>4. ASSUME NEW t \in Threads, Request(t)
      PROVE  IdentityIInv'
  <2> USE DEF Ops
  <2>0. IdentityTypeOK
    BY Zenon DEF IdentityIInv
  <2>1. ASSUME NEW a \in Addresses, NEW s \in Services, NEW i \in Identifiers,
               AddVerifiedProof(t, a, s, i)
        PROVE  IdentityIInv'
    BY Zenon, <2>0, <2>1, EditsAreIdentities, EditedKeepsIInv DEF AddVerifiedProof
  <2>2. ASSUME NEW a \in Addresses, NEW f \in Identifiers, AddPGPKey(t, a, f)
        PROVE  IdentityIInv'
    BY Zenon, <2>0, <2>2, EditsAreIdentities, EditedKeepsIInv DEF AddPGPKey
  <2>3. ASSUME NEW a \in Addresses, EditIdentity(t, a)
        PROVE  IdentityIInv'
    BY <2>0, <2>3, EditsAreIdentities, EditedKeepsIInv, IdentityAssumption DEF EditIdentity
  <2>4. ASSUME NEW a \in Addresses, BeginDelete(t, a)
        PROVE  IdentityIInv'
    BY <2>4, BeginDeleteKeepsIInv
  <2> QED
    BY <1>4, <2>1, <2>2, <2>3, <2>4 DEF Request
<1> QED
  BY <1>1, <1>2, <1>3, <1>4 DEF IdentityNext

(* The inductive invariant holds in every reachable state.                 *)
THEOREM StoreInvariant == IdentitySpec => []IdentityIInv
BY IdentityInitIInv, IdentityNextIInv, PTL DEF IdentitySpec

(* However many threads save and delete, and wherever a crash cuts one     *)
(* short, LookupByService never returns an identity without the claim.     *)
THEOREM IndexIsSound == IdentitySpec => []IndexSound
<1>1. IdentityIInv => IndexSound
  BY DEF IdentityIInv
<1> QED
  BY <1>1, StoreInvariant, PTL

(* The store and the threads' calls keep their types.                      *)
THEOREM StoreTypeCorrect == IdentitySpec => []IdentityTypeOK
<1>1. IdentityIInv => IdentityTypeOK
  BY Zenon DEF IdentityIInv
<1> QED
  BY <1>1, StoreInvariant, PTL

-----------------------------------------------------------------------------
(* Proofs about ListingStore, for any listings, categories and times.      *)
(*                                                                         *)
(* What the induction needs beyond the properties is what an operation     *)
(* under way has done and has still to do: the listing being deleted has   *)
(* no entry by seller or as active any more, and what a prune has still to *)
(* write contains every active listing it read that is past its time.      *)

UnderWay ==
    /\ op = "idle" => todo = {}
    /\ op = "delete" => todo \cap (active \cup bySeller) = {}
    /\ op = "prune" => /\ todo \subseteq StoredListings
                       /\ \A id \in GetAllListings(PruneLimit) :
                             IsActive(id) /\ IsExpired(listing[id], now) => id \in todo

ListingIInv == ListingTypeOK /\ UnderWay /\ ActiveIsFound /\ EntriesLeadToListings

(* What ActiveIsFound asks of one listing.                                 *)
Found(id) ==
    /\ id \in active /\ id \in bySeller
    /\ listing[id].category # NoCategory => <<listing[id].category, id>> \in byCategory

Exempt(id) == id \in tornListings \/ (op = "delete" /\ id \in todo)

-----------------------------------------------------------------------------
(* ActiveIsFound, said listing by listing in terms of the index entries.   *)
LEMMA FoundIsFound ==
    ActiveIsFound <=> \A id \in Listings : IsActive(id) /\ ~Exempt(id) => Found(id)
BY DEF ActiveIsFound, Found, Exempt, GetActive, GetBySeller, GetByCategory, IsActive

(* The fields of a listing have their types, and a listing is not a        *)
(* missing record.                                                         *)
LEMMA ListingFields ==
    ASSUME NEW l \in Listing
    PROVE  /\ l.status \in ListingStatuses /\ l.category \in Categories \cup {NoCategory}
           /\ l.expiresAt \in Times /\ l # NoListing
BY ListingAssumption DEF Listing

(* The category entry of a listing is the one of its category, if it has   *)
(* one.                                                                    *)
LEMMA EntriesOf ==
    ASSUME NEW id, NEW l \in Listing, NEW c, NEW other
    PROVE  /\ <<c, other>> \in Entries(id, l) <=> c = l.category /\ c # NoCategory /\ other = id
           /\ id \in Listings => Entries(id, l) \subseteq Categories \X Listings
BY ZenonT(40), ListingFields DEF Entries

(* What writing l under id does.                                           *)
LEMMA ListingWritten ==
    ASSUME ListingIInv, NEW id \in Listings, NEW l \in Listing, WriteListing(id, l)
    PROVE  /\ listing' \in [Listings -> Listing \cup {NoListing}]
           /\ listing'[id] = l /\ \A x \in Listings \ {id} : listing'[x] = listing[x]
           /\ StoredListings' = StoredListings \cup {id}
           /\ byCategory \subseteq byCategory' /\ byCategory' \subseteq Categories \X Listings
           /\ bySeller \subseteq bySeller' /\ bySeller' \subseteq bySeller \cup {id}
           /\ active \subseteq active' /\ active' \subseteq active \cup {id}
           /\ tornListings' \subseteq tornListings /\ tornListings \subseteq tornListings' \cup {id}
           /\ l.status = "ACTIVE" => Found(id)'
           /\ l.status # "ACTIVE" => bySeller' = bySeller /\ active' = active /\ tornListings' = tornListings
<1>0. /\ listing' = [listing EXCEPT ![id] = l]
      /\ tornListings' = IF l.status = "ACTIVE" THEN tornListings \ {id} ELSE tornListings
  BY Zenon DEF WriteListing
<1>1. /\ listing' \in [Listings -> Listing \cup {NoListing}]
      /\ listing'[id] = l /\ \A x \in Listings \ {id} : listing'[x] = listing[x]
  BY Zenon, <1>0 DEF ListingIInv, ListingTypeOK
<1>2. StoredListings' = StoredListings \cup {id}
  BY Zenon, <1>1, ListingFields DEF StoredListings
<1>3. CASE l.status = "ACTIVE"
  <2>1. /\ byCategory' = byCategory \cup Entries(id, l)
        /\ bySeller' = bySeller \cup {id} /\ active' = active \cup {id}
    BY <1>3 DEF WriteListing
  <2>2. byCategory' \subseteq Categories \X Listings
    BY Zenon, <2>1, EntriesOf DEF ListingIInv, ListingTypeOK
  <2>3. Found(id)'
    <3>1. l.category # NoCategory => <<l.category, id>> \in Entries(id, l)
      BY Zenon, EntriesOf
    <3> QED
      BY Zenon, <1>1, <2>1, <3>1 DEF Found
  <2> QED
    BY Zenon, <1>0, <1>1, <1>2, <1>3, <2>1, <2>2, <2>3
<1>4. CASE l.status # "ACTIVE"
  <2>1. byCategory' = byCategory /\ bySeller' = bySeller /\ active' = active
    BY <1>4 DEF WriteListing
  <2> QED
    BY Zenon, <1>0, <1>1, <1>2, <1>4, <2>1 DEF ListingIInv, ListingTypeOK
<1> QED
  BY <1>3, <1>4

(* A write keeps every listing in view.                                    *)
LEMMA WriteKeepsFound ==
    ASSUME ListingIInv, NEW id \in Listings, NEW l \in Listing, WriteListing(id, l),
           op # "delete", op' = op
    PROVE  ActiveIsFound'
<1>1. /\ listing'[id] = l /\ \A x \in Listings \ {id} : listing'[x] = listing[x]
      /\ StoredListings' = StoredListings \cup {id}
      /\ byCategory \subseteq byCategory' /\ bySeller \subseteq bySeller'
      /\ active \subseteq active' /\ tornListings \subseteq tornListings' \cup {id}
      /\ l.status = "ACTIVE" => Found(id)'
  BY ListingWritten
<1>2. ASSUME NEW x \in Listings, IsActive(x)', ~Exempt(x)'
      PROVE  Found(x)'
  <2>1. CASE x = id
    BY Zenon, <1>1, <1>2, <2>1 DEF IsActive
  <2>2. CASE x # id
    <3>1. IsActive(x) /\ ~Exempt(x) /\ listing'[x] = listing[x]
      BY ZenonT(40), <1>1, <1>2, <2>2 DEF IsActive, Exempt
    <3>2. Found(x)
      BY <3>1, FoundIsFound DEF ListingIInv
    <3> QED
      BY ZenonT(40), <1>1, <3>1, <3>2 DEF Found
  <2> QED
    BY Zenon, <2>1, <2>2
<1>3. (\A x \in Listings : IsActive(x) /\ ~Exempt(x) => Found(x))'
  BY ZenonT(40), <1>2
<1>4. ActiveIsFound' <=> (\A x \in Listings : IsActive(x) /\ ~Exempt(x) => Found(x))'
  BY ZenonT(40) DEF ActiveIsFound, Found, Exempt, GetActive, GetBySeller, GetByCategory, IsActive
<1> QED
  BY Zenon, <1>3, <1>4

-----------------------------------------------------------------------------
(* Publishing or editing a listing keeps the invariant.                    *)
LEMMA PublishStep ==
    ASSUME ListingIInv, NEW id \in Listings, NEW l \in Listing, Publish(id, l)
    PROVE  ListingIInv'
<1>1. /\ op = "idle" /\ op' = op /\ now' = now /\ todo' = todo /\ WriteListing(id, l)
  BY Zenon DEF Publish
<1>2. /\ listing' \in [Listings -> Listing \cup {NoListing}] /\ StoredListings' = StoredListings \cup {id}
      /\ byCategory' \subseteq Categories \X Listings
      /\ bySeller' \subseteq bySeller \cup {id} /\ active' \subseteq active \cup {id}
      /\ tornListings' \subseteq tornListings
  BY Zenon, <1>1, ListingWritten
<1>3. ListingTypeOK'
  BY Zenon, <1>1, <1>2 DEF ListingIInv, ListingTypeOK
<1>4. UnderWay'
  BY <1>1 DEF ListingIInv, UnderWay
<1>5. ActiveIsFound'
  BY <1>1, WriteKeepsFound
<1>6. EntriesLeadToListings'
  BY <1>2 DEF ListingIInv, EntriesLeadToListings
<1> QED
  BY <1>3, <1>4, <1>5, <1>6 DEF ListingIInv

(* Rewriting one expired listing keeps the invariant: what is left to do   *)
(* shrinks by that listing, which is no longer ACTIVE.                     *)
LEMMA PruneOneStep ==
    ASSUME ListingIInv, PruneOne
    PROVE  ListingIInv'
<1>1. PICK id \in todo : /\ WriteListing(id, [listing[id] EXCEPT !.status = "EXPIRED"])
                         /\ todo' = todo \ {id}
  BY DEF PruneOne
<1>2. op = "prune" /\ op' = op /\ now' = now
  BY Zenon DEF PruneOne
<1> DEFINE l == [listing[id] EXCEPT !.status = "EXPIRED"]
<1>3. id \in StoredListings /\ id \in Listings /\ listing[id] \in Listing
  BY <1>2 DEF ListingIInv, UnderWay, ListingTypeOK, StoredListings
<1>4. l \in Listing /\ l.status = "EXPIRED"
  BY <1>3 DEF Listing, ListingStatuses
<1>5. WriteListing(id, l)
  BY Zenon, <1>1
<1> HIDE DEF l
<1>6. /\ listing' \in [Listings -> Listing \cup {NoListing}] /\ StoredListings' = StoredListings \cup {id}
      /\ listing'[id] = l /\ \A x \in Listings \ {id} : listing'[x] = listing[x]
      /\ byCategory' \subseteq Categories \X Listings
      /\ bySeller' = bySeller /\ active' = active /\ tornListings' = tornListings
  BY <1>3, <1>4, <1>5, ListingWritten
<1>7. ListingTypeOK'
  BY <1>1, <1>2, <1>6 DEF ListingIInv, ListingTypeOK
<1>8. UnderWay'
  <2>0. StoredListings' = StoredListings
    BY Zenon, <1>3, <1>6
  <2>2. GetAllListings(PruneLimit)' = GetAllListings(PruneLimit) /\ GetAllListings(PruneLimit) \subseteq StoredListings
    BY Zenon, <2>0 DEF GetAllListings
  <2>1. ASSUME NEW x \in GetAllListings(PruneLimit)', IsActive(x)', IsExpired(listing'[x], now)
        PROVE  x \in todo'
    <3>1. x # id /\ x \in Listings
      BY Zenon, <1>4, <1>6, <2>1 DEF IsActive, StoredListings
    <3>2. x \in StoredListings /\ listing'[x] = listing[x]
      BY Zenon, <1>6, <2>1, <2>2, <3>1
    <3>3. x \in todo
      BY Zenon, <1>2, <2>1, <2>2, <3>2 DEF ListingIInv, UnderWay, IsActive
    <3> QED
      BY Zenon, <1>1, <3>1, <3>3
  <2>3. (\A x \in GetAllListings(PruneLimit) : IsActive(x) /\ IsExpired(listing[x], now) => x \in todo)'
    BY Zenon, <1>2, <2>1
  <2>4. todo' \subseteq StoredListings'
    BY Zenon, <1>1, <1>2, <2>0 DEF ListingIInv, UnderWay
  <2> QED
    BY Zenon, <1>2, <2>3, <2>4 DEF UnderWay
<1>9. ActiveIsFound'
  BY Zenon, <1>2, <1>3, <1>4, <1>5, WriteKeepsFound
<1>10. EntriesLeadToListings'
  BY Zenon, <1>6 DEF ListingIInv, EntriesLeadToListings
<1> QED
  BY <1>7, <1>8, <1>9, <1>10 DEF ListingIInv

(* The first batch of DeleteListing keeps the invariant: the entries       *)
(* removed are those of the listing being deleted.                         *)
LEMMA DeleteStep ==
    ASSUME ListingIInv, NEW id \in Listings, DeleteListing(id)
    PROVE  ListingIInv'
<1>1. /\ id \in StoredListings /\ op' = "delete" /\ todo' = {id}
      /\ listing' = listing /\ now' = now /\ tornListings' = tornListings
      /\ byCategory' = byCategory \ Entries(id, listing[id])
      /\ bySeller' = bySeller \ {id} /\ active' = active \ {id} /\ op = "idle"
  BY Zenon DEF DeleteListing, RemoveListingIndexes
<1>2. ListingTypeOK'
  BY Zenon, <1>1 DEF ListingIInv, ListingTypeOK
<1>3. UnderWay'
  BY <1>1 DEF UnderWay
<1>4. ActiveIsFound'
  <2>1. ASSUME NEW x \in Listings, IsActive(x)', ~Exempt(x)'
        PROVE  Found(x)'
    <3>1. x # id /\ IsActive(x) /\ ~Exempt(x)
      BY <1>1, <2>1 DEF Exempt, IsActive, StoredListings
    <3>2. Found(x)
      BY Zenon, <3>1, FoundIsFound DEF ListingIInv
    <3>3. \A c : <<c, x>> \in byCategory => <<c, x>> \in byCategory'
      BY <1>1, <3>1 DEF Entries
    <3> QED
      BY Zenon, <1>1, <3>1, <3>2, <3>3 DEF Found
  <2>2. (\A x \in Listings : IsActive(x) /\ ~Exempt(x) => Found(x))'
    BY Zenon, <2>1
  <2>3. ActiveIsFound' <=> (\A x \in Listings : IsActive(x) /\ ~Exempt(x) => Found(x))'
    BY Zenon DEF ActiveIsFound, Found, Exempt, GetActive, GetBySeller, GetByCategory, IsActive
  <2> QED
    BY Zenon, <2>2, <2>3
<1>5. EntriesLeadToListings'
  BY <1>1 DEF ListingIInv, EntriesLeadToListings, StoredListings
<1> QED
  BY Zenon, <1>2, <1>3, <1>4, <1>5 DEF ListingIInv

(* The second batch of DeleteListing keeps the invariant: no entry leads   *)
(* to the record it erases.                                                *)
LEMMA EraseStep ==
    ASSUME ListingIInv, EraseListing
    PROVE  ListingIInv'
<1>1. /\ op = "delete" /\ op' = "idle" /\ todo' = {} /\ tornListings' = tornListings \ todo
      /\ listing' = [id \in Listings |-> IF id \in todo THEN NoListing ELSE listing[id]]
      /\ UNCHANGED <<byCategory, bySeller, active, now>>
  BY Zenon DEF EraseListing
<1>2. ListingTypeOK'
  BY Zenon, <1>1 DEF ListingIInv, ListingTypeOK
<1>3. UnderWay'
  BY <1>1 DEF UnderWay
<1>4. StoredListings' = StoredListings \ todo
  BY <1>1 DEF StoredListings
<1>5. ActiveIsFound'
  <2>1. ASSUME NEW x \in Listings, IsActive(x)', ~Exempt(x)'
        PROVE  Found(x)'
    <3>1. x \notin todo /\ IsActive(x) /\ ~Exempt(x) /\ listing'[x] = listing[x]
      BY Zenon, <1>1, <1>4, <2>1 DEF Exempt, IsActive
    <3>2. Found(x)
      BY <3>1, FoundIsFound DEF ListingIInv
    <3> QED
      BY Zenon, <1>1, <3>1, <3>2 DEF Found
  <2>2. (\A x \in Listings : IsActive(x) /\ ~Exempt(x) => Found(x))'
    BY Zenon, <2>1
  <2>3. ActiveIsFound' <=> (\A x \in Listings : IsActive(x) /\ ~Exempt(x) => Found(x))'
    BY Zenon DEF ActiveIsFound, Found, Exempt, GetActive, GetBySeller, GetByCategory, IsActive
  <2> QED
    BY Zenon, <2>2, <2>3
<1>6. EntriesLeadToListings'
  BY <1>1, <1>4 DEF ListingIInv, UnderWay, EntriesLeadToListings
<1> QED
  BY Zenon, <1>2, <1>3, <1>5, <1>6 DEF ListingIInv

(* What PruneExpired collects are stored listings.                         *)
LEMMA ToPruneFacts ==
    ToPrune(now) \subseteq StoredListings /\ ToPrune(now) \subseteq Listings
BY Zenon DEF ToPrune, GetAllListings, StoredListings

(* The steps that leave the records and their entries alone.               *)
LEMMA RestStep ==
    ASSUME ListingIInv, PruneExpired \/ PruneReturns \/ ListingCrash \/ Tick \/ UNCHANGED listingVars
    PROVE  ListingIInv'
<1>1. UNCHANGED <<listing, byCategory, bySeller, active>>
  BY Zenon DEF PruneExpired, PruneReturns, ListingCrash, Tick, listingVars
<1>2. ListingTypeOK'
  <2> USE ListingAssumption DEF ListingIInv, ListingTypeOK
  <2>1. CASE PruneExpired
    BY Zenon, <2>1, ToPruneFacts DEF PruneExpired
  <2>2. CASE PruneReturns
    BY <2>2 DEF PruneReturns
  <2>3. CASE ListingCrash
    BY <2>3 DEF ListingCrash
  <2>4. CASE Tick
    BY <2>4 DEF Tick, Times
  <2>5. CASE UNCHANGED listingVars
    BY ZenonT(40), <2>5 DEF listingVars
  <2> QED BY Zenon, <2>1, <2>2, <2>3, <2>4, <2>5
<1>3. UnderWay'
  <2>1. CASE PruneExpired
    <3>1. op' = "prune" /\ todo' = ToPrune(now) /\ now' = now
      BY Zenon, <2>1 DEF PruneExpired
    <3>2. GetAllListings(PruneLimit)' = GetAllListings(PruneLimit) /\ StoredListings' = StoredListings
      BY Zenon, <1>1 DEF GetAllListings, StoredListings
    <3> QED BY Zenon, <1>1, <3>1, <3>2, ToPruneFacts DEF UnderWay, ToPrune, IsActive
  <2>2. CASE PruneReturns \/ ListingCrash \/ Tick
    BY Zenon, <2>2 DEF ListingIInv, UnderWay, PruneReturns, ListingCrash, Tick
  <2>3. CASE UNCHANGED listingVars
    BY Zenon, <2>3 DEF ListingIInv, UnderWay, listingVars, GetAllListings, StoredListings, IsActive
  <2> QED BY Zenon, <2>1, <2>2, <2>3
<1>4. ActiveIsFound'
  <2>1. \A x \in Listings : Exempt(x) => Exempt(x)'
    BY Zenon DEF Exempt, PruneExpired, PruneReturns, ListingCrash, Tick, listingVars
  <2>2. (\A x \in Listings : IsActive(x) /\ ~Exempt(x) => Found(x))'
    BY Zenon, <1>1, <2>1, FoundIsFound DEF ListingIInv, IsActive, StoredListings, Found
  <2>3. ActiveIsFound' <=> (\A x \in Listings : IsActive(x) /\ ~Exempt(x) => Found(x))'
    BY DEF ActiveIsFound, Found, Exempt, GetActive, GetBySeller, GetByCategory, IsActive
  <2> QED
    BY Zenon, <2>2, <2>3
<1>5. EntriesLeadToListings'
  BY Zenon, <1>1 DEF ListingIInv, EntriesLeadToListings, StoredListings
<1> QED
  BY Zenon, <1>2, <1>3, <1>4, <1>5 DEF ListingIInv

(* The invariant holds in every state of the store.                        *)
LEMMA ListingIInvHolds == ListingSpec => []ListingIInv
<1>1. ListingInit => ListingIInv
  BY ListingAssumption
  DEF ListingInit, ListingIInv, ListingTypeOK, UnderWay, ActiveIsFound, EntriesLeadToListings, StoredListings, IsActive, Times
<1>2. ListingIInv /\ [ListingNext]_listingVars => ListingIInv'
  BY PublishStep, DeleteStep, EraseStep, PruneOneStep, RestStep DEF ListingNext
<1> QED
  BY <1>1, <1>2, PTL DEF ListingSpec

-----------------------------------------------------------------------------
(* However publishing, editing, pruning, deleting and crashes follow each  *)
(* other, GetActive, GetBySeller and GetByCategory return every ACTIVE     *)
(* listing whose deletion is neither under way nor was cut short.          *)
THEOREM NoActiveListingLost == ListingSpec => []ActiveIsFound
BY ListingIInvHolds, PTL DEF ListingIInv

(* RemoveIndexes before the erasing of the record never leaves an entry by *)
(* seller or as active that leads to no record.                            *)
THEOREM NoDanglingListingEntries == ListingSpec => []EntriesLeadToListings
BY ListingIInvHolds, PTL DEF ListingIInv

(* When PruneExpired returns, an ACTIVE listing that is past the time it   *)
(* was called with is left only if it is not among the first PruneLimit by *)
(* key, whichever earlier calls were cut short.                            *)
THEOREM PruneIsComplete == ListingSpec => PruneMissesOnlyBeyondLimit
<1>1. ListingIInv /\ [ListingNext]_listingVars =>
          [PruneReturns =>
             \A id \in StoredListings :
                 IsActive(id) /\ IsExpired(listing[id], now) =>
                     id \notin GetAllListings(PruneLimit)]_listingVars
  BY ZenonT(40) DEF ListingIInv, UnderWay, PruneReturns
<1> QED
  BY <1>1, ListingIInvHolds, PTL DEF ListingSpec, PruneMissesOnlyBeyondLimit

-----------------------------------------------------------------------------
(* Proofs about OrderStore, for any set of orders and transactions.        *)
(*                                                                         *)
(* What the properties leave unsaid, and the induction needs: an order is  *)
(* funded once, so its escrow transaction does not change once it is set;  *)
(* and between the two batches of DeleteOrder no entry leads to the order. *)

FundedOnce ==
    \A id \in StoredOrders : order[id].status = "CREATED" => order[id].escrowTxid = NoTx

(* The order being deleted, if any, is stored and no entry leads to it.    *)
DeletingIsUnlinked ==
    deleting # NoOrder => /\ deleting \in StoredOrders
                          /\ \A tx \in EscrowTxs : escrow[tx] # deleting

OrderIInv ==
    /\ OrderTypeOK
    /\ FundedOnce
    /\ DeletingIsUnlinked
    /\ tornOrders \subseteq StoredOrders
    /\ EntriesLeadToOrders
    /\ OnlyDeletedAreMissed

(* Without batch funding an escrow transaction belongs to one order.       *)
OwnTx ==
    \A id, other \in StoredOrders :
       order[id].escrowTxid = order[other].escrowTxid /\ order[id].escrowTxid # NoTx => id = other

EInv == OrderIInv /\ OwnTx /\ EscrowTxLeadsToOrder

-----------------------------------------------------------------------------
(* What a write of o under id does to the store.                           *)
LEMMA OrderWritten ==
    ASSUME OrderIInv, NEW id \in Orders, NEW o \in Order, WriteOrder(id, o)
    PROVE  /\ OrderTypeOK'
           /\ StoredOrders' = StoredOrders \cup {id} /\ order'[id] = o
           /\ \A other \in Orders \ {id} : order'[other] = order[other]
           /\ deleting = NoOrder /\ deleting' = NoOrder /\ tornOrders' = tornOrders \ {id}
           /\ \A k \in Parties : party'[k] = party[k] \cup {id}
           /\ o.escrowTxid # NoTx => escrow'[o.escrowTxid] = id
           /\ \A tx \in EscrowTxs \ {o.escrowTxid} : escrow'[tx] = escrow[tx]
<1>1. /\ order' = [order EXCEPT ![id] = o] /\ tornOrders' = tornOrders \ {id}
      /\ deleting = NoOrder /\ deleting' = NoOrder
      /\ party' = [k \in Parties |-> party[k] \cup {id}]
      /\ escrow' = IF o.escrowTxid = NoTx THEN escrow ELSE [escrow EXCEPT ![o.escrowTxid] = id]
  BY DEF WriteOrder
<1>2. o.escrowTxid \in EscrowTxs \cup {NoTx} /\ o # NoOrder
  BY Zenon, OrderAssumption DEF Order
<1>3. /\ order' \in [Orders -> Order \cup {NoOrder}] /\ order'[id] = o
      /\ \A other \in Orders \ {id} : order'[other] = order[other]
  BY <1>1 DEF OrderIInv, OrderTypeOK
<1>4. StoredOrders' = StoredOrders \cup {id}
  BY Zenon, <1>2, <1>3 DEF StoredOrders
<1>5. /\ escrow' \in [EscrowTxs -> Orders \cup {NoOrder}]
      /\ o.escrowTxid # NoTx => escrow'[o.escrowTxid] = id
      /\ \A tx \in EscrowTxs \ {o.escrowTxid} : escrow'[tx] = escrow[tx]
  BY Zenon, <1>1, <1>2 DEF OrderIInv, OrderTypeOK
<1>6. /\ party' \in [Parties -> SUBSET Orders]
      /\ \A k \in Parties : party'[k] = party[k] \cup {id}
  BY Zenon, <1>1 DEF OrderIInv, OrderTypeOK
<1>7. OrderTypeOK'
  BY Zenon, <1>1, <1>3, <1>5, <1>6 DEF OrderIInv, OrderTypeOK
<1> QED
  BY ZenonT(40), <1>1, <1>3, <1>4, <1>5, <1>6, <1>7

(* The three operations that write keep what an order has once it is       *)
(* funded.                                                                 *)
LEMMA WriteKeeps ==
    ASSUME OrderIInv, NEW id \in Orders, NEW o \in Order, WriteOrder(id, o),
           o.status = "CREATED" => o.escrowTxid = NoTx,
           id \in StoredOrders => order[id].escrowTxid \in {NoTx, o.escrowTxid}
    PROVE  OrderIInv'
<1>1. OrderTypeOK' /\ StoredOrders' = StoredOrders \cup {id} /\ order'[id] = o
  BY Zenon, OrderWritten
<1>2. \A other \in Orders \ {id} : order'[other] = order[other]
  BY Zenon, OrderWritten
<1>3. deleting = NoOrder /\ deleting' = NoOrder /\ tornOrders' = tornOrders \ {id}
  BY Zenon, OrderWritten
<1>4. \A k \in Parties : party'[k] = party[k] \cup {id}
  BY Zenon, OrderWritten
<1>5. /\ o.escrowTxid # NoTx => escrow'[o.escrowTxid] = id
      /\ \A tx \in EscrowTxs \ {o.escrowTxid} : escrow'[tx] = escrow[tx]
  BY ZenonT(40), OrderWritten
<1>6. FundedOnce'
  BY Zenon, <1>1, <1>2 DEF OrderIInv, FundedOnce, StoredOrders
<1>7. DeletingIsUnlinked' /\ tornOrders' \subseteq StoredOrders'
  BY Zenon, <1>1, <1>3 DEF OrderIInv, DeletingIsUnlinked
<1>8. EntriesLeadToOrders'
  <2>1. \A k \in Parties : party'[k] \subseteq StoredOrders'
    BY Zenon, <1>1, <1>4 DEF OrderIInv, EntriesLeadToOrders
  <2>2. ASSUME NEW tx \in EscrowTxs, escrow'[tx] # NoOrder
        PROVE  escrow'[tx] \in StoredOrders' /\ order'[escrow'[tx]].escrowTxid = tx
    <3>1. CASE tx = o.escrowTxid
      <4>1. tx # NoTx
        BY Zenon, OrderAssumption
      <4> QED
        BY Zenon, <1>1, <1>5, <3>1, <4>1
    <3>2. CASE tx # o.escrowTxid
      <4>1. escrow'[tx] = escrow[tx]
        BY Zenon, <1>5, <3>2
      <4>2. escrow[tx] \in StoredOrders /\ order[escrow[tx]].escrowTxid = tx /\ tx # NoTx
        BY Zenon, <2>2, <4>1, OrderAssumption DEF OrderIInv, EntriesLeadToOrders
      <4>3. escrow[tx] # id /\ escrow[tx] \in Orders
        BY Zenon, <3>2, <4>2 DEF StoredOrders
      <4> QED
        BY Zenon, <1>1, <1>2, <4>1, <4>2, <4>3
    <3> QED
      BY Zenon, <3>1, <3>2
  <2> QED
    BY Zenon, <2>1, <2>2 DEF EntriesLeadToOrders
<1>9. OnlyDeletedAreMissed'
  BY Zenon, <1>1, <1>3, <1>4 DEF OrderIInv, OnlyDeletedAreMissed
<1> QED
  BY <1>1, <1>6, <1>7, <1>8, <1>9 DEF OrderIInv

(* What the operations write.                                              *)
LEMMA Writers ==
    ASSUME OrderIInv, NEW id \in Orders,
           \/ CreateOrder(id) \/ \E tx \in EscrowTxs : FundOrder(id, tx)
           \/ \E s \in OrderStatuses \ {"CREATED"} : UpdateOrderStatus(id, s)
    PROVE  \E o \in Order :
              /\ WriteOrder(id, o)
              /\ o.status = "CREATED" => o.escrowTxid = NoTx
              /\ id \in StoredOrders => order[id].escrowTxid \in {NoTx, o.escrowTxid}
              /\ \/ o.escrowTxid = NoTx
                 \/ id \in StoredOrders /\ o.escrowTxid = order[id].escrowTxid
                 \/ BatchFunding \/ \A other \in StoredOrders : order[other].escrowTxid # o.escrowTxid
<1>0. order \in [Orders -> Order \cup {NoOrder}]
  BY Zenon DEF OrderIInv, OrderTypeOK
<1>1. CASE CreateOrder(id)
  <2>1. [status |-> "CREATED", escrowTxid |-> NoTx] \in Order
    BY DEF Order, OrderStatuses
  <2>2. id \notin StoredOrders
    BY ZenonT(40), <1>1 DEF CreateOrder, StoredOrders
  <2> QED
    BY Zenon, <1>1, <2>1, <2>2 DEF CreateOrder
<1>2. ASSUME NEW tx \in EscrowTxs, FundOrder(id, tx)
      PROVE  \E o \in Order :
                /\ WriteOrder(id, o)
                /\ o.status = "CREATED" => o.escrowTxid = NoTx
                /\ id \in StoredOrders => order[id].escrowTxid \in {NoTx, o.escrowTxid}
                /\ BatchFunding \/ \A other \in StoredOrders : order[other].escrowTxid # o.escrowTxid
  <2> DEFINE o == [order[id] EXCEPT !.status = "FUNDED", !.escrowTxid = tx]
  <2>1. id \in StoredOrders /\ order[id] \in Order /\ order[id].status = "CREATED"
    BY Zenon, <1>0, <1>2 DEF FundOrder, CanFund, StoredOrders
  <2>2. o \in Order /\ o.status = "FUNDED" /\ o.escrowTxid = tx
    BY Zenon, <2>1 DEF Order, OrderStatuses
  <2>3. order[id].escrowTxid = NoTx
    BY <2>1 DEF OrderIInv, FundedOnce
  <2>4. WriteOrder(id, o) /\ (BatchFunding \/ \A other \in StoredOrders : order[other].escrowTxid # tx)
    BY Zenon, <1>2 DEF FundOrder
  <2> HIDE DEF o
  <2> QED
    BY SMTT(40), <2>2, <2>3, <2>4
<1>3. ASSUME NEW s \in OrderStatuses \ {"CREATED"}, UpdateOrderStatus(id, s)
      PROVE  \E o \in Order :
                /\ WriteOrder(id, o)
                /\ o.status = "CREATED" => o.escrowTxid = NoTx
                /\ id \in StoredOrders /\ o.escrowTxid = order[id].escrowTxid
  <2> DEFINE o == [order[id] EXCEPT !.status = s]
  <2>1. id \in StoredOrders /\ order[id] \in Order
    BY <1>0, <1>3 DEF UpdateOrderStatus, StoredOrders
  <2>2. o \in Order /\ o.status = s /\ o.escrowTxid = order[id].escrowTxid
    BY <2>1 DEF Order
  <2>3. WriteOrder(id, o)
    BY Zenon, <1>3 DEF UpdateOrderStatus
  <2> HIDE DEF o
  <2> QED
    BY <2>1, <2>2, <2>3
<1> QED
  BY Zenon, <1>1, <1>2, <1>3

-----------------------------------------------------------------------------
(* The two batches of a deletion, and a crash between them.                *)

(* What the first batch of DeleteOrder does to the store: the entries of   *)
(* the order are gone, its record is not.                                  *)
LEMMA Deleted ==
    ASSUME OrderIInv, NEW id \in Orders, DeleteOrder(id)
    PROVE  /\ OrderTypeOK' /\ order' = order /\ tornOrders' = tornOrders /\ StoredOrders' = StoredOrders
           /\ deleting = NoOrder /\ deleting' = id /\ id \in StoredOrders /\ id # NoOrder
           /\ \A k \in Parties : party'[k] = party[k] \ {id}
           /\ order[id].escrowTxid \in EscrowTxs => escrow'[order[id].escrowTxid] = NoOrder
           /\ \A tx \in EscrowTxs \ {order[id].escrowTxid} : escrow'[tx] = escrow[tx]
<1>1. /\ order' = order /\ tornOrders' = tornOrders /\ deleting = NoOrder /\ deleting' = id
      /\ id \in StoredOrders /\ party' = [k \in Parties |-> party[k] \ {id}]
      /\ escrow' = IF order[id].escrowTxid = NoTx THEN escrow
                   ELSE [escrow EXCEPT ![order[id].escrowTxid] = NoOrder]
  BY Zenon DEF DeleteOrder, RemoveOrderIndexes, StoredOrders
<1>2. order[id].escrowTxid \in EscrowTxs \cup {NoTx}
  BY Zenon, <1>1 DEF OrderIInv, OrderTypeOK, StoredOrders, Order
<1>3. /\ escrow' \in [EscrowTxs -> Orders \cup {NoOrder}]
      /\ order[id].escrowTxid \in EscrowTxs => escrow'[order[id].escrowTxid] = NoOrder
      /\ \A tx \in EscrowTxs \ {order[id].escrowTxid} : escrow'[tx] = escrow[tx]
  BY Zenon, <1>1, <1>2, OrderAssumption DEF OrderIInv, OrderTypeOK
<1>4. OrderTypeOK'
  BY Zenon, <1>1, <1>3 DEF OrderIInv, OrderTypeOK
<1>5. StoredOrders' = StoredOrders
  BY <1>1 DEF StoredOrders
<1> QED
  BY Zenon, <1>1, <1>3, <1>4, <1>5, OrderAssumption

(* The first batch of DeleteOrder keeps the invariant.                     *)
LEMMA DeleteKeeps ==
    ASSUME OrderIInv, NEW id \in Orders, DeleteOrder(id)
    PROVE  OrderIInv'
<1>1. /\ OrderTypeOK' /\ order' = order /\ tornOrders' = tornOrders /\ StoredOrders' = StoredOrders
      /\ deleting = NoOrder /\ deleting' = id /\ id \in StoredOrders /\ id # NoOrder
  BY Zenon, Deleted
<1>2. \A k \in Parties : party'[k] = party[k] \ {id}
  BY Zenon, Deleted
<1>3. /\ order[id].escrowTxid \in EscrowTxs => escrow'[order[id].escrowTxid] = NoOrder
      /\ \A tx \in EscrowTxs \ {order[id].escrowTxid} : escrow'[tx] = escrow[tx]
  BY Zenon, Deleted
<1>4. FundedOnce' /\ tornOrders' \subseteq StoredOrders'
  BY <1>1 DEF OrderIInv, FundedOnce
<1>5. DeletingIsUnlinked'
  <2>1. ASSUME NEW tx \in EscrowTxs PROVE escrow'[tx] # id
    BY Zenon, <1>1, <1>3 DEF OrderIInv, EntriesLeadToOrders
  <2> QED
    BY Zenon, <1>1, <2>1 DEF DeletingIsUnlinked
<1>6. EntriesLeadToOrders'
  <2>1. \A tx \in EscrowTxs : escrow'[tx] = NoOrder \/ escrow'[tx] = escrow[tx]
    BY Zenon, <1>3
  <2>2. \A tx \in EscrowTxs : escrow'[tx] # NoOrder =>
           escrow'[tx] \in StoredOrders' /\ order'[escrow'[tx]].escrowTxid = tx
    BY Zenon, <1>1, <2>1 DEF OrderIInv, EntriesLeadToOrders
  <2>3. \A k \in Parties : party'[k] \subseteq StoredOrders'
    BY Zenon, <1>1, <1>2 DEF OrderIInv, EntriesLeadToOrders
  <2> QED
    BY Zenon, <2>2, <2>3 DEF EntriesLeadToOrders
<1>7. OnlyDeletedAreMissed'
  BY <1>1, <1>2 DEF OrderIInv, OnlyDeletedAreMissed
<1> QED
  BY Zenon, <1>1, <1>4, <1>5, <1>6, <1>7 DEF OrderIInv

(* The second batch of DeleteOrder keeps the invariant and touches no      *)
(* other order.                                                            *)
LEMMA EraseKeeps ==
    ASSUME OrderIInv, EraseOrder
    PROVE  /\ OrderIInv' /\ deleting' = NoOrder /\ tornOrders' = tornOrders \ {deleting} /\ escrow' = escrow
           /\ StoredOrders' = StoredOrders \ {deleting}
           /\ \A other \in StoredOrders' : order'[other] = order[other]
<1>1. /\ deleting # NoOrder /\ deleting \in Orders
      /\ order' = [order EXCEPT ![deleting] = NoOrder]
      /\ deleting' = NoOrder /\ tornOrders' = tornOrders \ {deleting}
      /\ party' = party /\ escrow' = escrow
  BY Zenon DEF EraseOrder, OrderIInv, OrderTypeOK
<1>2. /\ order' \in [Orders -> Order \cup {NoOrder}] /\ order'[deleting] = NoOrder
      /\ \A other \in Orders \ {deleting} : order'[other] = order[other]
  BY Zenon, <1>1 DEF OrderIInv, OrderTypeOK
<1>3. StoredOrders' = StoredOrders \ {deleting} /\ \A other \in StoredOrders' : order'[other] = order[other]
  BY Zenon, <1>1, <1>2 DEF StoredOrders
<1>4. OrderTypeOK'
  BY Zenon, <1>1, <1>2 DEF OrderIInv, OrderTypeOK
<1>5. FundedOnce' /\ DeletingIsUnlinked' /\ tornOrders' \subseteq StoredOrders'
  BY Zenon, <1>1, <1>3 DEF OrderIInv, FundedOnce, DeletingIsUnlinked
<1>6. \A k \in Parties : deleting \notin party[k]
  BY Zenon, <1>1 DEF OrderIInv, OnlyDeletedAreMissed
<1>7. EntriesLeadToOrders'
  <2>1. \A tx \in EscrowTxs : escrow[tx] # deleting
    BY Zenon, <1>1 DEF OrderIInv, DeletingIsUnlinked
  <2>2. \A tx \in EscrowTxs : escrow'[tx] # NoOrder =>
           escrow'[tx] \in StoredOrders' /\ order'[escrow'[tx]].escrowTxid = tx
    BY <1>1, <1>3, <2>1 DEF OrderIInv, EntriesLeadToOrders
  <2>3. \A k \in Parties : party'[k] \subseteq StoredOrders'
    BY Zenon, <1>1, <1>3, <1>6 DEF OrderIInv, EntriesLeadToOrders
  <2> QED
    BY <2>2, <2>3 DEF EntriesLeadToOrders
<1>8. OnlyDeletedAreMissed'
  BY Zenon, <1>1, <1>3 DEF OrderIInv, OnlyDeletedAreMissed
<1> QED
  BY Zenon, <1>1, <1>3, <1>4, <1>5, <1>7, <1>8 DEF OrderIInv

(* A crash between the two batches keeps the invariant.                    *)
LEMMA CrashKeeps ==
    ASSUME OrderIInv, OrderCrash
    PROVE  /\ OrderIInv' /\ order' = order /\ escrow' = escrow /\ StoredOrders' = StoredOrders
           /\ deleting' = NoOrder /\ tornOrders' = tornOrders \cup {deleting}
<1>1. /\ deleting # NoOrder /\ deleting \in Orders /\ deleting \in StoredOrders
      /\ deleting' = NoOrder /\ tornOrders' = tornOrders \cup {deleting}
      /\ order' = order /\ party' = party /\ escrow' = escrow
  BY Zenon DEF OrderCrash, OrderIInv, OrderTypeOK, DeletingIsUnlinked
<1>2. StoredOrders' = StoredOrders
  BY Zenon, <1>1 DEF StoredOrders
<1>3. OrderTypeOK'
  BY Zenon, <1>1 DEF OrderIInv, OrderTypeOK
<1>4. FundedOnce' /\ DeletingIsUnlinked' /\ tornOrders' \subseteq StoredOrders'
  BY Zenon, <1>1, <1>2 DEF OrderIInv, FundedOnce, DeletingIsUnlinked
<1>5. EntriesLeadToOrders' /\ OnlyDeletedAreMissed'
  BY ZenonT(40), <1>1, <1>2 DEF OrderIInv, EntriesLeadToOrders, OnlyDeletedAreMissed
<1> QED
  BY Zenon, <1>1, <1>2, <1>3, <1>4, <1>5 DEF OrderIInv

(* What changes nothing keeps both invariants.                             *)
LEMMA StutterKeeps ==
    ASSUME UNCHANGED orderVars
    PROVE  /\ OrderIInv => OrderIInv'
           /\ EInv => EInv'
<1>1. /\ order' = order /\ escrow' = escrow /\ party' = party
      /\ deleting' = deleting /\ tornOrders' = tornOrders
  BY Zenon DEF orderVars
<1>2. StoredOrders' = StoredOrders
  BY Zenon, <1>1 DEF StoredOrders
<1>3. OrderIInv => OrderIInv'
  BY Zenon, <1>1, <1>2 DEF OrderIInv, OrderTypeOK, FundedOnce, DeletingIsUnlinked, EntriesLeadToOrders,
       OnlyDeletedAreMissed
<1>4. OwnTx => OwnTx'
  BY Zenon, <1>1, <1>2 DEF OwnTx
<1>5. EscrowTxLeadsToOrder => EscrowTxLeadsToOrder'
  BY Zenon, <1>1, <1>2 DEF EscrowTxLeadsToOrder, GetOrderByEscrowTx
<1> QED BY Zenon, <1>3, <1>4, <1>5 DEF EInv

-----------------------------------------------------------------------------
(* An empty database satisfies both invariants.                            *)
LEMMA InitEstablishes ==
    ASSUME OrderInit
    PROVE  EInv
<1>1. StoredOrders = {} /\ tornOrders = {} /\ deleting = NoOrder
  BY DEF OrderInit, StoredOrders
<1>2. OrderTypeOK
  BY DEF OrderInit, OrderTypeOK
<1>3. EntriesLeadToOrders /\ OnlyDeletedAreMissed
  BY Zenon, <1>1 DEF OrderInit, EntriesLeadToOrders, OnlyDeletedAreMissed
<1> QED
  BY <1>1, <1>2, <1>3
     DEF EInv, OrderIInv, FundedOnce, DeletingIsUnlinked, OwnTx, EscrowTxLeadsToOrder

(* Every write, batch of a deletion and crash keeps the invariant.         *)
LEMMA NextKeeps ==
    ASSUME OrderIInv, [OrderNext]_orderVars
    PROVE  OrderIInv'
<1>1. ASSUME NEW id \in Orders,
             \/ CreateOrder(id) \/ \E tx \in EscrowTxs : FundOrder(id, tx)
             \/ \E s \in OrderStatuses \ {"CREATED"} : UpdateOrderStatus(id, s)
      PROVE  OrderIInv'
  BY <1>1, Writers, WriteKeeps
<1> QED
  BY ZenonT(40), <1>1, DeleteKeeps, EraseKeeps, CrashKeeps, StutterKeeps DEF OrderNext

(* The invariant holds in every state of the store.                        *)
LEMMA OrderIInvHolds == OrderSpec => []OrderIInv
<1>1. OrderInit => OrderIInv
  BY InitEstablishes DEF EInv
<1>2. OrderIInv /\ [OrderNext]_orderVars => OrderIInv'
  BY NextKeeps
<1> QED
  BY <1>1, <1>2, PTL DEF OrderSpec

(* WriteOrder, the two batches of DeleteOrder and a crash between them     *)
(* never leave an index entry that leads nowhere or to another key.        *)
THEOREM NoDanglingEntries == OrderSpec => []EntriesLeadToOrders
<1>1. OrderIInv => EntriesLeadToOrders
  BY DEF OrderIInv
<1> QED
  BY <1>1, OrderIInvHolds, PTL

(* The queries by buyer, seller and listing miss exactly the orders whose  *)
(* deletion is under way or was cut short by a crash.                      *)
THEOREM QueriesMissOnlyDeleted == OrderSpec => []OnlyDeletedAreMissed
<1>1. OrderIInv => OnlyDeletedAreMissed
  BY Zenon DEF OrderIInv
<1> QED
  BY <1>1, OrderIInvHolds, PTL

-----------------------------------------------------------------------------
(* The index by escrow transaction.                                        *)

(* A write of an order that is not funded, keeps its transaction, or has   *)
(* one no other order has, leaves every funded order found by its          *)
(* transaction.                                                            *)
LEMMA WriteKeepsEscrow ==
    ASSUME EInv, NEW id \in Orders, NEW o \in Order, WriteOrder(id, o),
           \/ o.escrowTxid = NoTx
           \/ id \in StoredOrders /\ o.escrowTxid = order[id].escrowTxid
           \/ \A other \in StoredOrders : order[other].escrowTxid # o.escrowTxid
    PROVE  OwnTx' /\ EscrowTxLeadsToOrder'
<1>1. OrderIInv
  BY Zenon DEF EInv
<1>2. /\ StoredOrders' = StoredOrders \cup {id} /\ order'[id] = o
      /\ deleting = NoOrder /\ deleting' = NoOrder /\ tornOrders' = tornOrders \ {id}
      /\ \A other \in Orders \ {id} : order'[other] = order[other]
  BY Zenon, <1>1, OrderWritten
<1>3. /\ o.escrowTxid # NoTx => escrow'[o.escrowTxid] = id
      /\ \A tx \in EscrowTxs \ {o.escrowTxid} : escrow'[tx] = escrow[tx]
  BY ZenonT(40), <1>1, OrderWritten
<1>4. ASSUME NEW other \in StoredOrders \ {id}, order[other].escrowTxid # NoTx
      PROVE  /\ order[other].escrowTxid # o.escrowTxid
             /\ order[other].escrowTxid \in EscrowTxs /\ order'[other] = order[other]
  <2>1. order[other] \in Order /\ other \in Orders
    BY Zenon, <1>1 DEF OrderIInv, OrderTypeOK, StoredOrders
  <2>2. order[other].escrowTxid \in EscrowTxs
    BY Zenon, <1>4, <2>1 DEF Order
  <2>3. order[other].escrowTxid # o.escrowTxid
    BY Zenon, <1>4 DEF EInv, OwnTx
  <2> QED
    BY Zenon, <1>2, <2>1, <2>2, <2>3
<1>5. OwnTx'
  <2> SUFFICES ASSUME NEW a \in StoredOrders', NEW b \in StoredOrders',
                      order'[a].escrowTxid = order'[b].escrowTxid,
                      order'[a].escrowTxid # NoTx, a # b
               PROVE  FALSE
    BY Zenon DEF OwnTx
  <2>0. a \in Orders /\ b \in Orders
    BY Zenon DEF StoredOrders
  <2>1. CASE a = id
    <3>1. b \in StoredOrders \ {id} /\ order'[b] = order[b]
      BY Zenon, <1>2, <2>0, <2>1
    <3> QED
      BY Zenon, <1>2, <1>4, <2>1, <3>1
  <2>2. CASE b = id
    <3>1. a \in StoredOrders \ {id} /\ order'[a] = order[a]
      BY Zenon, <1>2, <2>0, <2>2
    <3> QED
      BY Zenon, <1>2, <1>4, <2>2, <3>1
  <2>3. CASE a # id /\ b # id
    <3>1. a \in StoredOrders /\ b \in StoredOrders /\ order'[a] = order[a] /\ order'[b] = order[b]
      BY Zenon, <1>2, <2>0, <2>3
    <3> QED
      BY Zenon, <3>1 DEF EInv, OwnTx
  <2> QED
    BY Zenon, <2>1, <2>2, <2>3
<1>6. EscrowTxLeadsToOrder'
  <2> SUFFICES ASSUME NEW a \in StoredOrders', a \notin tornOrders', order'[a].escrowTxid # NoTx
               PROVE  escrow'[order'[a].escrowTxid] = a /\ a # NoOrder /\ order'[a] # NoOrder
    BY Zenon DEF EscrowTxLeadsToOrder, GetOrderByEscrowTx
  <2>0. a \in Orders /\ order'[a] # NoOrder /\ a # NoOrder
    BY Zenon, OrderAssumption DEF StoredOrders
  <2>1. CASE a = id
    BY ZenonT(40), <1>2, <1>3, <2>0, <2>1
  <2>2. CASE a # id
    <3>1. a \in StoredOrders \ {id} /\ order'[a] = order[a] /\ a \notin tornOrders
      BY Zenon, <1>2, <2>0, <2>2
    <3>2. /\ order[a].escrowTxid # o.escrowTxid /\ order[a].escrowTxid \in EscrowTxs
      BY Zenon, <1>4, <3>1
    <3>3. escrow'[order[a].escrowTxid] = escrow[order[a].escrowTxid]
      BY ZenonT(40), <1>3, <3>2
    <3>4. GetOrderByEscrowTx(order[a].escrowTxid) = a
      BY ZenonT(40), <1>2, <2>0, <3>1 DEF EInv, EscrowTxLeadsToOrder
    <3>5. escrow[order[a].escrowTxid] = a
      BY <2>0, <3>4 DEF GetOrderByEscrowTx
    <3> QED
      BY Zenon, <2>0, <3>1, <3>3, <3>5
  <2> QED
    BY Zenon, <2>1, <2>2
<1> QED
  BY Zenon, <1>5, <1>6

(* A deletion, complete or cut short, leaves the entries of other orders'  *)
(* transactions alone.                                                     *)
LEMMA DeletionKeepsEscrow ==
    ASSUME EInv, (\E id \in Orders : DeleteOrder(id)) \/ EraseOrder \/ OrderCrash
    PROVE  OwnTx' /\ EscrowTxLeadsToOrder'
<1>0. OrderIInv
  BY DEF EInv
<1>1. ASSUME NEW id \in Orders, DeleteOrder(id)
      PROVE  OwnTx' /\ EscrowTxLeadsToOrder'
  <2>1. /\ order' = order /\ tornOrders' = tornOrders /\ StoredOrders' = StoredOrders /\ deleting' = id /\ id \in StoredOrders
        /\ deleting = NoOrder
    BY ZenonT(40), <1>0, <1>1, Deleted
  <2>2. \A tx \in EscrowTxs \ {order[id].escrowTxid} : escrow'[tx] = escrow[tx]
    BY Zenon, <1>0, <1>1, Deleted
  <2>3. OwnTx'
    BY Zenon, <2>1 DEF EInv, OwnTx
  <2>4. ASSUME NEW a \in StoredOrders, a \notin tornOrders, a # id, order[a].escrowTxid # NoTx
        PROVE  GetOrderByEscrowTx(order[a].escrowTxid)' = a
    <3>1. order[a].escrowTxid \in EscrowTxs /\ a # NoOrder /\ order[a] # NoOrder
      BY Zenon, <1>0, <2>4, OrderAssumption DEF OrderIInv, OrderTypeOK, StoredOrders, Order
    <3>2. order[a].escrowTxid # order[id].escrowTxid
      BY ZenonT(40), <2>1, <2>4 DEF EInv, OwnTx
    <3>3. GetOrderByEscrowTx(order[a].escrowTxid) = a
      BY ZenonT(40), <2>1, <2>4, <3>1 DEF EInv, EscrowTxLeadsToOrder
    <3>4. escrow'[order[a].escrowTxid] = a
      BY <2>2, <3>1, <3>2, <3>3 DEF GetOrderByEscrowTx
    <3> QED
      BY Zenon, <2>1, <3>1, <3>4 DEF GetOrderByEscrowTx
  <2>5. EscrowTxLeadsToOrder'
    BY <2>1, <2>4 DEF EscrowTxLeadsToOrder
  <2> QED
    BY ZenonT(40), <2>3, <2>5
<1>2. CASE EraseOrder
  <2>1. /\ deleting' = NoOrder /\ tornOrders' = tornOrders \ {deleting} /\ escrow' = escrow
        /\ StoredOrders' = StoredOrders \ {deleting} /\ \A other \in StoredOrders' : order'[other] = order[other]
    BY Zenon, <1>0, <1>2, EraseKeeps
  <2>2. OwnTx'
    <3> SUFFICES ASSUME NEW a \in StoredOrders', NEW b \in StoredOrders',
                        order'[a].escrowTxid = order'[b].escrowTxid, order'[a].escrowTxid # NoTx
                 PROVE  a = b
      BY Zenon DEF OwnTx
    <3>1. a \in StoredOrders /\ b \in StoredOrders /\ order'[a] = order[a] /\ order'[b] = order[b]
      BY Zenon, <2>1
    <3>2. order[a].escrowTxid = order[b].escrowTxid /\ order[a].escrowTxid # NoTx
      BY Zenon, <3>1
    <3> QED BY Zenon, <3>1, <3>2 DEF EInv, OwnTx
  <2>3. ASSUME NEW a \in StoredOrders', a \notin tornOrders', order'[a].escrowTxid # NoTx
        PROVE  escrow'[order'[a].escrowTxid] = a /\ a # NoOrder /\ order'[a] # NoOrder
    <3>1. a \in StoredOrders \ (tornOrders \cup {deleting}) /\ order'[a] = order[a]
      BY Zenon, <2>1, <2>3
    <3>2. GetOrderByEscrowTx(order[a].escrowTxid) = a /\ a # NoOrder /\ order[a] # NoOrder
      BY Zenon, <2>3, <3>1, OrderAssumption DEF EInv, EscrowTxLeadsToOrder, StoredOrders
    <3>3. escrow[order[a].escrowTxid] = a
      BY Zenon, <3>2 DEF GetOrderByEscrowTx
    <3> QED
      BY Zenon, <2>1, <3>1, <3>2, <3>3 DEF GetOrderByEscrowTx
  <2>4. EscrowTxLeadsToOrder'
    <3>1. ASSUME NEW a \in StoredOrders', a \notin tornOrders', order'[a].escrowTxid # NoTx
          PROVE  GetOrderByEscrowTx(order[a].escrowTxid)' = a
      BY ZenonT(40), <2>3, <3>1 DEF GetOrderByEscrowTx
    <3> QED BY Zenon, <3>1 DEF EscrowTxLeadsToOrder
  <2> QED
    BY Zenon, <2>2, <2>4
<1>3. CASE OrderCrash
  <2>1. /\ order' = order /\ escrow' = escrow /\ StoredOrders' = StoredOrders
        /\ deleting' = NoOrder /\ tornOrders' = tornOrders \cup {deleting}
    BY <1>0, <1>3, CrashKeeps
  <2> QED
    <3>1. OwnTx'
      BY Zenon, <2>1 DEF EInv, OwnTx
    <3>2. EscrowTxLeadsToOrder'
      BY Zenon, <2>1 DEF EInv, EscrowTxLeadsToOrder, GetOrderByEscrowTx
    <3> QED BY Zenon, <3>1, <3>2
<1> QED
  BY ZenonT(40), <1>1, <1>2, <1>3

(* GetOrderByEscrowTx leads to the order a transaction has funded, through *)
(* status changes, deletions, crashes and retries, if no transaction funds *)
(* two orders; WriteOrder replaces the entry when one does.                *)
THEOREM EscrowTxFindsOrder ==
    ASSUME ~BatchFunding
    PROVE  OrderSpec => []EscrowTxLeadsToOrder
<1>1. OrderInit => EInv
  BY Zenon, InitEstablishes
<1>2. EInv /\ [OrderNext]_orderVars => EInv'
  <2> SUFFICES ASSUME EInv, [OrderNext]_orderVars PROVE EInv'
    OBVIOUS
  <2>1. OrderIInv /\ OrderIInv'
    BY Zenon, NextKeeps DEF EInv
  <2>2. ASSUME NEW id \in Orders,
               \/ CreateOrder(id) \/ \E tx \in EscrowTxs : FundOrder(id, tx)
               \/ \E s \in OrderStatuses \ {"CREATED"} : UpdateOrderStatus(id, s)
        PROVE  OwnTx' /\ EscrowTxLeadsToOrder'
    BY Zenon, <2>1, <2>2, Writers, WriteKeepsEscrow
  <2>3. CASE (\E id \in Orders : DeleteOrder(id)) \/ EraseOrder \/ OrderCrash
    BY <2>1, <2>3, DeletionKeepsEscrow DEF EInv
  <2>4. CASE UNCHANGED orderVars
    BY <2>4, StutterKeeps DEF EInv
  <2> QED
    BY <2>1, <2>2, <2>3, <2>4 DEF OrderNext, EInv
<1>3. EInv => EscrowTxLeadsToOrder
  BY DEF EInv
<1> QED
  BY <1>1, <1>2, <1>3, PTL DEF OrderSpec

=============================================================================
