-------------------------- MODULE TxRequestProofs --------------------------
(***************************************************************************)
(* Proofs about TxRequest, for any peers, transactions, times and          *)
(* priorities.  SanityCheck is kept row by row: RowOK says of one row what *)
(* SanityCheck says of all, and each operation on a row keeps it.  The     *)
(* rules' choice is the mark BEST once SetTimePoint has nothing left to do.*)
(***************************************************************************)
EXTENDS TxRequest, TLAPS

Row == [Peers -> State]

(* What SanityCheck asks of the announcements of transaction t.            *)
RowOK(row, t) ==
    /\ (\E p \in Peers : row[p] = "COMPLETED") => \E p \in Peers : ~IsOver(row[p])
    /\ \A p, q \in Peers : IsSelected(row[p]) /\ IsSelected(row[q]) => p = q
    /\ \A p \in Peers : row[p] = "READY" => \E q \in Peers : IsSelected(row[q])
    /\ \A p, q \in Peers : row[p] = "READY" /\ row[q] = "BEST" => Better(t, q, p)

Typed ==
    /\ st \in [Txs -> Row]
    /\ time \in [Txs -> [Peers -> Nat]]
    /\ pref \in [Txs -> [Peers -> BOOLEAN]]
    /\ caller \in Peers \cup {Nobody} /\ now \in Nat

IInv == Typed /\ SanityCheck

-----------------------------------------------------------------------------
(* Better is a strict total order on the peers.                            *)
LEMMA BetterOrder ==
    ASSUME Typed, NEW t \in Txs, NEW p \in Peers, NEW q \in Peers, NEW r \in Peers
    PROVE  /\ p # q => Better(t, p, q) \/ Better(t, q, p)
           /\ ~(Better(t, p, q) /\ Better(t, q, p))
           /\ Better(t, p, q) /\ Better(t, q, r) => Better(t, p, r)
<1>1. /\ Rank[t][p] \in Nat /\ Rank[t][q] \in Nat /\ Rank[t][r] \in Nat
      /\ Rank[t][p] = Rank[t][q] => p = q
  BY TrackerAssumption
<1>2. pref[t][p] \in BOOLEAN /\ pref[t][q] \in BOOLEAN /\ pref[t][r] \in BOOLEAN
  BY DEF Typed
<1> QED
  BY <1>1, <1>2 DEF Better

(* Among the READY announcements of a transaction one is the best.         *)
LEMMA NextBestExists ==
    ASSUME Typed, NEW t \in Txs, NEW row \in Row, NEW p \in Peers, row[p] = "READY"
    PROVE  \E q \in Peers : IsNextBest(row, t, q)
<1> DEFINE R == {q \in Peers : row[q] = "READY"}
           P == {q \in R : pref[t][q]}
<1>1. CASE P # {}
  <2>1. P \in (SUBSET Peers) \ {{}}
    BY <1>1
  <2>2. PICK q \in P : \A r \in P : Rank[t][q] >= Rank[t][r]
    BY ZenonT(40), <2>1, TrackerAssumption
  <2>3. ASSUME NEW r \in Peers, row[r] = "READY", r # q
        PROVE  Better(t, q, r)
    <3>1. q \in Peers /\ pref[t][q] /\ r \in R
      BY <2>3
    <3>2. CASE pref[t][r]
      <4>1. Rank[t][q] >= Rank[t][r]
        BY <2>2, <3>1, <3>2
      <4>2. Rank[t][q] \in Nat /\ Rank[t][r] \in Nat /\ Rank[t][q] # Rank[t][r]
        BY <2>3, <3>1, TrackerAssumption
      <4>3. Rank[t][q] > Rank[t][r]
        BY <4>1, <4>2
      <4>4. pref[t][q] = pref[t][r]
        BY <3>1, <3>2 DEF Typed
      <4> QED
        BY <4>3, <4>4 DEF Better
    <3>3. CASE ~pref[t][r]
      BY Zenon, <3>1, <3>3 DEF Better
    <3> QED
      BY <3>2, <3>3
  <2> QED
    BY <2>3 DEF IsNextBest
<1>2. CASE P = {}
  <2>1. R \in (SUBSET Peers) \ {{}}
    OBVIOUS
  <2>2. PICK q \in R : \A r \in R : Rank[t][q] >= Rank[t][r]
    BY Zenon, <2>1, TrackerAssumption
  <2>3. ASSUME NEW r \in Peers, row[r] = "READY", r # q
        PROVE  Better(t, q, r)
    <3>1. q \in Peers /\ ~pref[t][q] /\ r \in R /\ ~pref[t][r]
      BY <1>2, <2>3
    <3>2. Rank[t][q] >= Rank[t][r]
      BY <2>2, <3>1
    <3>3. Rank[t][q] \in Nat /\ Rank[t][r] \in Nat /\ Rank[t][q] # Rank[t][r]
      BY <2>3, <3>1, TrackerAssumption
    <3>4. Rank[t][q] > Rank[t][r]
      BY <3>2, <3>3
    <3>5. pref[t][q] = pref[t][r]
      BY <3>1 DEF Typed
    <3> QED
      BY <3>4, <3>5 DEF Better
  <2> QED
    BY <2>3 DEF IsNextBest
<1> QED
  BY <1>1, <1>2

(* ChangeAndReselect never has two announcements to choose from.           *)
LEMMA NextBestUnique ==
    ASSUME Typed, NEW t \in Txs, NEW row \in Row, NEW p \in Peers, NEW q \in Peers,
           IsNextBest(row, t, p), IsNextBest(row, t, q)
    PROVE  p = q
BY BetterOrder DEF IsNextBest

-----------------------------------------------------------------------------
(* The operations on a row.                                                *)

(* PromoteCandidateReady leaves a sound row, and changes at most the mark  *)
(* of the one that was BEST.                                               *)
LEMMA PromoteRow ==
    ASSUME Typed, NEW t \in Txs, NEW row \in Row, RowOK(row, t), NEW p \in Peers,
           row[p] = "DELAYED"
    PROVE  LET new == PromoteCandidateReady(row, t, p)
           IN  /\ new \in Row /\ RowOK(new, t)
               /\ IsCandidate(new[p])
               /\ \A q \in Peers \ {p} : \/ new[q] = row[q]
                                         \/ row[q] = "BEST" /\ new[q] = "READY"
<1> DEFINE new == PromoteCandidateReady(row, t, p)
<1> SUFFICES /\ new \in Row /\ RowOK(new, t)
             /\ IsCandidate(new[p])
             /\ \A q \in Peers \ {p} : \/ new[q] = row[q]
                                       \/ row[q] = "BEST" /\ new[q] = "READY"
  OBVIOUS
<1>1. ASSUME NEW x \in State, new = [row EXCEPT ![p] = x]
      PROVE  new \in Row /\ new[p] = x /\ \A q \in Peers \ {p} : new[q] = row[q]
  BY <1>1 DEF Row
<1>2. CASE \E q \in Peers : row[q] = "READY" /\ Better(t, q, p)
  <2>1. new = [row EXCEPT ![p] = "READY"]
    BY <1>2 DEF PromoteCandidateReady
  <2> HIDE DEF new
  <2>2. new \in Row /\ new[p] = "READY" /\ \A q \in Peers \ {p} : new[q] = row[q]
    BY <1>1, <2>1 DEF State
  <2>3. RowOK(new, t)
    BY <1>2, <2>2, BetterOrder DEF RowOK, IsOver, IsSelected
  <2> QED
    BY <2>2, <2>3 DEF IsCandidate
<1>3. CASE /\ ~\E q \in Peers : row[q] = "READY" /\ Better(t, q, p)
           /\ \E q \in Peers : row[q] = "BEST"
  <2>1. PICK b \in Peers : row[b] = "BEST"
    BY <1>3
  <2>2. \A q \in Peers : IsSelected(row[q]) => q = b
    BY <2>1 DEF RowOK, IsSelected
  <2>3. CASE Better(t, p, b)
    <3>1. new = [q \in Peers |-> IF q = p THEN "BEST"
                                 ELSE IF row[q] = "BEST" THEN "READY" ELSE row[q]]
      BY <1>3, <2>1, <2>3 DEF PromoteCandidateReady
    <3> HIDE DEF new
    <3>2. /\ new \in Row /\ new[p] = "BEST"
          /\ \A q \in Peers \ {p} : new[q] = IF row[q] = "BEST" THEN "READY" ELSE row[q]
      BY <3>1 DEF Row, State
    <3>3. \A q \in Peers : q # p => new[q] # "BEST" /\ new[q] # "REQUESTED"
      BY <2>1, <2>2, <3>2 DEF IsSelected
    <3>4. \A q \in Peers : new[q] = "READY" => Better(t, p, q)
      <4>1. SUFFICES ASSUME NEW q \in Peers, new[q] = "READY" PROVE Better(t, p, q)
        OBVIOUS
      <4>2. q # p
        BY <3>2, <4>1
      <4>3. CASE row[q] = "BEST"
        BY <2>2, <2>3, <4>3 DEF IsSelected
      <4>4. CASE row[q] # "BEST"
        <5>1. row[q] = "READY"
          BY <3>2, <4>1, <4>2, <4>4
        <5> QED
          BY <1>3, <4>2, <5>1, BetterOrder
      <4> QED
        BY <4>3, <4>4
    <3>5. RowOK(new, t)
      BY <3>2, <3>3, <3>4 DEF RowOK, IsOver, IsSelected
    <3> QED
      BY <3>2, <3>5 DEF IsCandidate
  <2>4. CASE ~Better(t, p, b)
    <3>1. new = [row EXCEPT ![p] = "READY"]
      BY <1>3, <2>1, <2>2, <2>4 DEF PromoteCandidateReady, IsSelected
    <3> HIDE DEF new
    <3>2. new \in Row /\ new[p] = "READY" /\ \A q \in Peers \ {p} : new[q] = row[q]
      BY <1>1, <3>1 DEF State
    <3>3. b # p /\ new[b] = "BEST" /\ Better(t, b, p)
      BY <2>1, <2>4, <3>2, BetterOrder
    <3>4. RowOK(new, t)
      BY <2>2, <3>2, <3>3 DEF RowOK, IsOver, IsSelected
    <3> QED
      BY <3>2, <3>4 DEF IsCandidate
  <2> QED
    BY <2>3, <2>4
<1>4. CASE /\ ~\E q \in Peers : row[q] = "READY" /\ Better(t, q, p)
           /\ ~\E q \in Peers : row[q] = "BEST"
           /\ \E q \in Peers : row[q] = "REQUESTED"
  <2>1. new = [row EXCEPT ![p] = "READY"]
    BY <1>4 DEF PromoteCandidateReady
  <2> HIDE DEF new
  <2>2. new \in Row /\ new[p] = "READY" /\ \A q \in Peers \ {p} : new[q] = row[q]
    BY <1>1, <2>1 DEF State
  <2>3. RowOK(new, t)
    BY <1>4, <2>2 DEF RowOK, IsOver, IsSelected
  <2> QED
    BY <2>2, <2>3 DEF IsCandidate
<1>5. CASE \A q \in Peers : /\ ~(row[q] = "READY" /\ Better(t, q, p))
                            /\ row[q] # "BEST" /\ row[q] # "REQUESTED"
  <2>1. new = [row EXCEPT ![p] = "BEST"]
    BY <1>5 DEF PromoteCandidateReady
  <2> HIDE DEF new
  <2>2. new \in Row /\ new[p] = "BEST" /\ \A q \in Peers \ {p} : new[q] = row[q]
    BY <1>1, <2>1 DEF State
  <2>3. RowOK(new, t)
    BY <1>5, <2>2 DEF RowOK, IsOver, IsSelected
  <2> QED
    BY <2>2, <2>3 DEF IsCandidate
<1> QED
  BY <1>2, <1>3, <1>4, <1>5

(* ChangeAndReselect leaves a sound row: the mark goes to the best of the  *)
(* READY announcements, if there is one.                                   *)
LEMMA ReselectRow ==
    ASSUME Typed, NEW t \in Txs, NEW row \in Row, RowOK(row, t), NEW p \in Peers,
           NEW x \in {"DELAYED", "COMPLETED"},
           x = "COMPLETED" => ~IsOnlyNonCompleted(row, p)
    PROVE  LET new == ChangeAndReselect(row, t, p, x)
           IN  /\ new \in Row /\ RowOK(new, t)
               /\ new[p] = x
               /\ \A q \in Peers \ {p} : \/ new[q] = row[q]
                                         \/ row[q] = "READY" /\ new[q] = "BEST"
<1> DEFINE new == ChangeAndReselect(row, t, p, x)
<1> SUFFICES /\ new \in Row /\ RowOK(new, t)
             /\ new[p] = x
             /\ \A q \in Peers \ {p} : \/ new[q] = row[q]
                                       \/ row[q] = "READY" /\ new[q] = "BEST"
  OBVIOUS
<1>1. /\ new \in Row /\ new[p] = x
      /\ \A q \in Peers \ {p} : new[q] = IF IsSelected(row[p]) /\ IsNextBest(row, t, q)
                                         THEN "BEST" ELSE row[q]
  BY DEF ChangeAndReselect, Row, State
<1> HIDE DEF new
<1>2. \A q \in Peers \ {p} : \/ new[q] = row[q]
                             \/ row[q] = "READY" /\ new[q] = "BEST"
  BY Zenon, <1>1 DEF IsNextBest
<1>3. (\E q \in Peers : new[q] = "COMPLETED") => \E q \in Peers : ~IsOver(new[q])
  <2>1. CASE x = "DELAYED"
    BY <1>1, <2>1 DEF IsOver
  <2>2. CASE x = "COMPLETED"
    BY <1>1, <1>2, <2>2 DEF IsOnlyNonCompleted, IsOver
  <2> QED
    BY <2>1, <2>2
<1>4. CASE IsSelected(row[p])
  <2>1. \A q \in Peers \ {p} : ~IsSelected(row[q])
    BY <1>4 DEF RowOK
  <2>2. \A q \in Peers : IsSelected(new[q]) => q # p /\ IsNextBest(row, t, q) /\ new[q] = "BEST"
    BY <1>1, <1>2, <1>4, <2>1 DEF IsSelected
  <2>3. \A q, r \in Peers : IsSelected(new[q]) /\ IsSelected(new[r]) => q = r
    BY <2>2, NextBestUnique
  <2>4. \A q \in Peers : new[q] = "READY" => q # p /\ row[q] = "READY"
    BY <1>1, <1>2
  <2>5. ASSUME NEW q \in Peers, new[q] = "READY"
        PROVE  \E r \in Peers : IsSelected(new[r])
    <3>1. PICK r \in Peers : IsNextBest(row, t, r)
      BY <2>4, <2>5, NextBestExists
    <3>2. r # p
      BY <1>4, <3>1 DEF IsNextBest, IsSelected
    <3>3. new[r] = "BEST"
      BY <1>1, <1>4, <3>1, <3>2
    <3> QED
      BY <3>3 DEF IsSelected
  <2>6. ASSUME NEW q \in Peers, NEW r \in Peers, new[q] = "READY", new[r] = "BEST"
        PROVE  Better(t, r, q)
    <3>1. IsNextBest(row, t, r)
      BY <2>2, <2>6 DEF IsSelected
    <3>2. row[q] = "READY" /\ q # r
      BY <2>4, <2>6
    <3> QED
      BY <3>1, <3>2 DEF IsNextBest
  <2> QED
    BY Zenon, <1>1, <1>2, <1>3, <2>3, <2>5, <2>6 DEF RowOK
<1>5. CASE ~IsSelected(row[p])
  <2>1. \A q \in Peers \ {p} : new[q] = row[q]
    BY Zenon, <1>1, <1>5
  <2>2. RowOK(new, t)
    BY <1>1, <1>3, <1>5, <2>1 DEF RowOK, IsSelected
  <2> QED
    BY <1>1, <1>2, <2>2
<1> QED
  BY <1>4, <1>5

(* A transaction nobody has announced has a sound row.                     *)
LEMMA EmptyRow ==
    ASSUME NEW t \in Txs
    PROVE  [q \in Peers |-> "NONE"] \in Row /\ RowOK([q \in Peers |-> "NONE"], t)
BY DEF Row, State, RowOK, IsSelected, IsOver

(* Either every announcement is gone, or this one has failed and the       *)
(* others are what they were, but that one may have been selected.         *)
LEMMA CompletedRow ==
    ASSUME Typed, NEW t \in Txs, NEW row \in Row, RowOK(row, t), NEW p \in Peers
    PROVE  LET new == MakeCompleted(row, t, p)
           IN  /\ new \in Row /\ RowOK(new, t)
               /\ \/ /\ new = [q \in Peers |-> "NONE"]
                     /\ \A q \in Peers \ {p} : IsOver(row[q])
                  \/ /\ new[p] = "COMPLETED"
                     /\ \E q \in Peers \ {p} : ~IsOver(row[q])
                     /\ \A q \in Peers \ {p} : \/ new[q] = row[q]
                                               \/ row[q] = "READY" /\ new[q] = "BEST"
<1>1. CASE row[p] = "COMPLETED"
  <2>1. MakeCompleted(row, t, p) = row
    BY <1>1 DEF MakeCompleted
  <2>2. \E q \in Peers \ {p} : ~IsOver(row[q])
    BY <1>1 DEF RowOK, IsOver
  <2> QED
    BY <1>1, <2>1, <2>2
<1>2. CASE row[p] # "COMPLETED" /\ IsOnlyNonCompleted(row, p)
  <2>1. MakeCompleted(row, t, p) = [q \in Peers |-> "NONE"]
    BY <1>2 DEF MakeCompleted
  <2> QED
    BY <1>2, <2>1, EmptyRow DEF IsOnlyNonCompleted
<1>3. CASE row[p] # "COMPLETED" /\ ~IsOnlyNonCompleted(row, p)
  <2>1. MakeCompleted(row, t, p) = ChangeAndReselect(row, t, p, "COMPLETED")
    BY <1>3 DEF MakeCompleted
  <2>2. \E q \in Peers \ {p} : ~IsOver(row[q])
    BY <1>3 DEF IsOnlyNonCompleted
  <2> QED
    BY <1>3, <2>1, <2>2, ReselectRow
<1> QED
  BY <1>1, <1>2, <1>3

(* RequestedTx leaves a sound row: the request before this one is          *)
(* COMPLETED, and the BEST one READY.                                      *)
LEMMA RequestRow ==
    ASSUME Typed, NEW t \in Txs, NEW row \in Row, RowOK(row, t), NEW p \in Peers,
           IsCandidate(row[p])
    PROVE  /\ RequestedRow(row, p) \in Row /\ RowOK(RequestedRow(row, p), t)
           /\ RequestedRow(row, p)[p] = "REQUESTED"
           /\ \A q \in Peers \ {p} :
                 \/ RequestedRow(row, p)[q] = row[q] /\ row[q] # "REQUESTED"
                 \/ row[q] = "BEST" /\ RequestedRow(row, p)[q] = "READY"
                 \/ row[q] = "REQUESTED" /\ RequestedRow(row, p)[q] = "COMPLETED"
<1> DEFINE new == RequestedRow(row, p)
<1>1. /\ new \in Row /\ new[p] = "REQUESTED"
      /\ \A q \in Peers \ {p} : new[q] = IF row[p] = "BEST" THEN row[q]
                                         ELSE IF row[q] = "BEST" THEN "READY"
                                         ELSE IF row[q] = "REQUESTED" THEN "COMPLETED"
                                         ELSE row[q]
  BY DEF RequestedRow, Row, State
<1> HIDE DEF new
<1>2. row[p] = "BEST" => \A q \in Peers \ {p} : ~IsSelected(row[q])
  BY DEF RowOK, IsSelected
<1>3. \A q \in Peers \ {p} : ~IsSelected(new[q])
  BY Zenon, <1>1, <1>2 DEF IsSelected
<1>4. RowOK(new, t)
  BY <1>1, <1>3 DEF RowOK, IsSelected, IsOver
<1>5. \A q \in Peers \ {p} : \/ new[q] = row[q] /\ row[q] # "REQUESTED"
                             \/ row[q] = "BEST" /\ new[q] = "READY"
                             \/ row[q] = "REQUESTED" /\ new[q] = "COMPLETED"
  BY Zenon, <1>1, <1>2 DEF IsSelected
<1> QED
  BY <1>1, <1>4, <1>5 DEF new

(* A row whose announcement by p is gone as well.                          *)
Left(row, t, p) == [MakeCompleted(row, t, p) EXCEPT ![p] = "NONE"]

(* DisconnectedPeer leaves a sound row without the peer, empty if only     *)
(* failed announcements would be left.                                     *)
LEMMA LeftRow ==
    ASSUME Typed, NEW t \in Txs, NEW row \in Row, RowOK(row, t), NEW p \in Peers
    PROVE  LET new == Left(row, t, p)
           IN  /\ new \in Row /\ RowOK(new, t)
               /\ \/ /\ new = [q \in Peers |-> "NONE"]
                     /\ \A q \in Peers \ {p} : IsOver(row[q])
                  \/ /\ new[p] = "NONE"
                     /\ \E q \in Peers \ {p} : ~IsOver(row[q])
                     /\ \A q \in Peers \ {p} : \/ new[q] = row[q]
                                               \/ row[q] = "READY" /\ new[q] = "BEST"
<1> DEFINE made == MakeCompleted(row, t, p)
           new == [made EXCEPT ![p] = "NONE"]
<1> SUFFICES /\ new \in Row /\ RowOK(new, t)
             /\ \/ /\ new = [q \in Peers |-> "NONE"]
                   /\ \A q \in Peers \ {p} : IsOver(row[q])
                \/ /\ new[p] = "NONE"
                   /\ \E q \in Peers \ {p} : ~IsOver(row[q])
                   /\ \A q \in Peers \ {p} : \/ new[q] = row[q]
                                             \/ row[q] = "READY" /\ new[q] = "BEST"
  BY DEF Left
<1>1. /\ made \in Row /\ RowOK(made, t)
      /\ \/ /\ made = [q \in Peers |-> "NONE"]
            /\ \A q \in Peers \ {p} : IsOver(row[q])
         \/ /\ made[p] = "COMPLETED"
            /\ \E q \in Peers \ {p} : ~IsOver(row[q])
            /\ \A q \in Peers \ {p} : \/ made[q] = row[q]
                                      \/ row[q] = "READY" /\ made[q] = "BEST"
  BY CompletedRow
<1> HIDE DEF made
<1>2. new \in Row /\ new[p] = "NONE" /\ \A q \in Peers \ {p} : new[q] = made[q]
  BY <1>1 DEF Row, State
<1>3. CASE made = [q \in Peers |-> "NONE"] /\ \A q \in Peers \ {p} : IsOver(row[q])
  <2>1. new = made
    BY <1>3
  <2> QED
    BY <1>1, <1>3, <2>1
<1>4. CASE /\ made[p] = "COMPLETED"
           /\ \E q \in Peers \ {p} : ~IsOver(row[q])
           /\ \A q \in Peers \ {p} : \/ made[q] = row[q]
                                     \/ row[q] = "READY" /\ made[q] = "BEST"
  <2> HIDE DEF new
  <2>1. \E q \in Peers : ~IsOver(new[q])
    BY <1>2, <1>4 DEF IsOver
  <2>2. RowOK(new, t)
    BY <1>1, <1>2, <1>4, <2>1 DEF RowOK, IsSelected
  <2> QED
    BY <1>2, <1>4, <2>2
<1> QED
  BY <1>1, <1>3, <1>4

-----------------------------------------------------------------------------
(* The steps.                                                              *)

(* SanityCheck says of each transaction that its row is sound.             *)
LEMMA SanityByRow == SanityCheck <=> \A t \in Txs : RowOK(st[t], t)
BY DEF SanityCheck, SelectedPeers, RowOK

(* SanityCheck of the next state says the same of the next rows.           *)
LEMMA SanityByRowNext == SanityCheck' <=> (\A t \in Txs : RowOK(st[t], t))'
BY DEF SanityCheck, SelectedPeers, RowOK

(* A new index whose rows are sound, where the flags of the announcements  *)
(* still compared are what they were.                                      *)
LEMMA RowsStaySound ==
    ASSUME NEW s \in [Txs -> Row], st' = s, \A t \in Txs : RowOK(s[t], t),
           \A t \in Txs : \A p \in Peers : s[t][p] \in {"READY", "BEST"} => pref'[t][p] = pref[t][p]
    PROVE  SanityCheck'
<1>1. ASSUME NEW t \in Txs, NEW p \in Peers, NEW q \in Peers, s[t][p] = "READY", s[t][q] = "BEST"
      PROVE  Better(t, q, p)'
  <2>1. Better(t, q, p)
    BY <1>1 DEF RowOK
  <2>2. pref'[t][p] = pref[t][p] /\ pref'[t][q] = pref[t][q]
    BY <1>1
  <2> QED
    BY <2>1, <2>2 DEF Better
<1>2. (\A t \in Txs : RowOK(st[t], t))'
  BY <1>1 DEF RowOK
<1> QED
  BY <1>2, SanityByRowNext

(* An operation that replaces the index by one with sound rows keeps the   *)
(* invariant.                                                              *)
LEMMA BecomeStep ==
    ASSUME IInv, NEW s \in [Txs -> Row], NEW times \in [Txs -> [Peers -> Nat]],
           Become(s, times), \A t \in Txs : RowOK(s[t], t), UNCHANGED <<caller, now>>
    PROVE  IInv'
<1>1. /\ st' = s
      /\ time' = [t \in Txs |-> [p \in Peers |-> IF IsOver(s[t][p]) THEN 0 ELSE times[t][p]]]
      /\ pref' = [t \in Txs |-> [p \in Peers |-> ~IsOver(s[t][p]) /\ pref[t][p]]]
  BY DEF Become
<1>2. time' \in [Txs -> [Peers -> Nat]]
  BY <1>1
<1>3. pref' \in [Txs -> [Peers -> BOOLEAN]]
  BY <1>1
<1>4. Typed'
  BY Zenon, <1>1, <1>2, <1>3 DEF IInv, Typed
<1>5. \A t \in Txs : \A p \in Peers : s[t][p] \in {"READY", "BEST"} => pref'[t][p] = pref[t][p]
  BY <1>1 DEF IsOver, IInv, Typed
<1>6. SanityCheck'
  BY <1>1, <1>5, RowsStaySound
<1> QED
  BY <1>4, <1>6 DEF IInv

(* A promotion or demotion that leaves a sound row keeps the invariant.    *)
LEMMA MoveStep ==
    ASSUME IInv, NEW t \in Txs, NEW row \in Row, RowOK(row, t),
           st' = [st EXCEPT ![t] = row], UNCHANGED <<time, pref, caller, now>>
    PROVE  IInv'
<1>1. st' \in [Txs -> Row] /\ st'[t] = row /\ \A u \in Txs \ {t} : st'[u] = st[u]
  BY DEF IInv, Typed
<1>2. Typed'
  BY <1>1 DEF IInv, Typed
<1>3. \A u \in Txs : RowOK(st'[u], u)
  BY <1>1, SanityByRow DEF IInv
<1>4. SanityCheck'
  BY Zenon, <1>1, <1>3, RowsStaySound
<1> QED
  BY <1>2, <1>4 DEF IInv

(* One row of the index is replaced.                                       *)
LEMMA OneRow ==
    ASSUME IInv, NEW t \in Txs, NEW row \in Row, RowOK(row, t)
    PROVE  /\ [st EXCEPT ![t] = row] \in [Txs -> Row]
           /\ \A u \in Txs : RowOK([st EXCEPT ![t] = row][u], u)
<1>1. st \in [Txs -> Row] /\ \A u \in Txs : RowOK(st[u], u)
  BY SanityByRow DEF IInv, Typed
<1>2. \A u \in Txs : [st EXCEPT ![t] = row][u] = IF u = t THEN row ELSE st[u]
  BY <1>1
<1> QED
  BY <1>1, <1>2

(* In every state of the invariant every row is sound.                     *)
LEMMA RowsAre ==
    ASSUME IInv
    PROVE  Typed /\ \A t \in Txs : st[t] \in Row /\ RowOK(st[t], t)
BY SanityByRow DEF IInv, Typed

(* A new announcement, which starts DELAYED, keeps the invariant.          *)
LEMMA ReceivedInvStep ==
    ASSUME IInv, NEW p \in Peers, NEW t \in Txs, NEW b \in BOOLEAN, NEW n \in Times,
           ReceivedInv(p, t, b, n)
    PROVE  IInv'
<1>1. /\ st[t][p] = "NONE" /\ UNCHANGED <<caller, now>>
      /\ st' = [st EXCEPT ![t][p] = "DELAYED"]
      /\ time' = [time EXCEPT ![t][p] = n] /\ pref' = [pref EXCEPT ![t][p] = b]
  BY DEF ReceivedInv, InByPeer
<1> DEFINE row == [st[t] EXCEPT ![p] = "DELAYED"]
<1>2. st[t] \in Row /\ RowOK(st[t], t)
  BY RowsAre
<1>3. row \in Row /\ row[p] = "DELAYED" /\ \A q \in Peers \ {p} : row[q] = st[t][q]
  BY <1>2 DEF Row, State
<1>4. st' = [st EXCEPT ![t] = row]
  BY Zenon, <1>1 DEF IInv, Typed
<1> HIDE DEF row
<1>5. RowOK(row, t)
  BY Zenon, <1>1, <1>2, <1>3 DEF RowOK, IsSelected, IsOver
<1>6. st' \in [Txs -> Row] /\ \A u \in Txs : RowOK(st'[u], u)
  BY Zenon, <1>3, <1>4, <1>5, OneRow
<1>7. n \in Nat
  BY TrackerAssumption
<1>8. /\ time' \in [Txs -> [Peers -> Nat]] /\ pref' \in [Txs -> [Peers -> BOOLEAN]]
      /\ \A u \in Txs, q \in Peers : u # t \/ q # p => pref'[u][q] = pref[u][q]
  BY Zenon, <1>1, <1>7 DEF IInv, Typed
<1>9. Typed'
  BY Zenon, <1>1, <1>6, <1>8 DEF IInv, Typed
<1>10. st'[t][p] = "DELAYED"
  BY Zenon, <1>1 DEF IInv, Typed, Row
<1>11. SanityCheck'
  BY <1>6, <1>8, <1>10, RowsStaySound
<1> QED
  BY Zenon, <1>9, <1>11 DEF IInv

(* The loop of DisconnectedPeer keeps the invariant.                       *)
LEMMA DisconnectedStep ==
    ASSUME IInv, NEW p \in Peers, DisconnectedPeer(p)
    PROVE  IInv'
<1> DEFINE s == [t \in Txs |-> IF st[t][p] = "NONE" THEN st[t]
                               ELSE Left(st[t], t, p)]
<1>1. Become(s, time) /\ UNCHANGED <<caller, now>>
  BY DEF DisconnectedPeer, Left
<1>2. \A t \in Txs : s[t] \in Row /\ RowOK(s[t], t)
  BY RowsAre, LeftRow
<1>3. s \in [Txs -> Row]
  BY <1>2
<1> HIDE DEF s
<1> QED
  BY Zenon, <1>1, <1>2, <1>3, BecomeStep DEF IInv, Typed

(* ForgetTxHash keeps the invariant.                                       *)
LEMMA ForgetStep ==
    ASSUME IInv, NEW t \in Txs, ForgetTxHash(t)
    PROVE  IInv'
<1>1. /\ Become([st EXCEPT ![t] = [p \in Peers |-> "NONE"]], time)
      /\ UNCHANGED <<caller, now>>
  BY DEF ForgetTxHash
<1> QED
  BY Zenon, <1>1, EmptyRow, OneRow, BecomeStep DEF IInv, Typed

(* RequestedTx keeps the invariant, also for a request that was not        *)
(* advised.                                                                *)
LEMMA RequestedStep ==
    ASSUME IInv, NEW p \in Peers, NEW t \in Txs, NEW n \in Times, RequestedTx(p, t, n)
    PROVE  IInv'
<1>1. /\ IsCandidate(st[t][p]) /\ UNCHANGED <<caller, now>>
      /\ Become([st EXCEPT ![t] = RequestedRow(st[t], p)], [time EXCEPT ![t][p] = n])
  BY DEF RequestedTx
<1>2. RequestedRow(st[t], p) \in Row /\ RowOK(RequestedRow(st[t], p), t)
  BY Zenon, <1>1, RowsAre, RequestRow
<1>3. [time EXCEPT ![t][p] = n] \in [Txs -> [Peers -> Nat]]
  BY TrackerAssumption DEF IInv, Typed
<1> QED
  BY Zenon, <1>1, <1>2, <1>3, OneRow, BecomeStep

(* ReceivedResponse, and Expire.                                           *)
LEMMA CompletedStep ==
    ASSUME IInv, NEW p \in Peers, NEW t \in Txs, UNCHANGED <<caller, now>>,
           Become([st EXCEPT ![t] = MakeCompleted(st[t], t, p)], time)
    PROVE  IInv'
<1>1. MakeCompleted(st[t], t, p) \in Row /\ RowOK(MakeCompleted(st[t], t, p), t)
  BY RowsAre, CompletedRow
<1> QED
  BY Zenon, <1>1, OneRow, BecomeStep DEF IInv, Typed

(* A round of SetTimePoint that promotes keeps the invariant.              *)
LEMMA PromoteStep ==
    ASSUME IInv, NEW p \in Peers, NEW t \in Txs, Promote(p, t)
    PROVE  IInv'
<1>1. /\ st[t][p] = "DELAYED" /\ UNCHANGED <<time, pref, caller, now>>
      /\ st' = [st EXCEPT ![t] = PromoteCandidateReady(st[t], t, p)]
  BY DEF Promote
<1>2. /\ PromoteCandidateReady(st[t], t, p) \in Row
      /\ RowOK(PromoteCandidateReady(st[t], t, p), t)
  BY <1>1, RowsAre, PromoteRow
<1> QED
  BY Zenon, <1>1, <1>2, MoveStep

(* A round of SetTimePoint that demotes, the clock having gone back, keeps *)
(* the invariant.                                                          *)
LEMMA DemoteStep ==
    ASSUME IInv, NEW p \in Peers, NEW t \in Txs, Demote(p, t)
    PROVE  IInv'
<1>1. /\ UNCHANGED <<time, pref, caller, now>>
      /\ st' = [st EXCEPT ![t] = ChangeAndReselect(st[t], t, p, "DELAYED")]
  BY Zenon DEF Demote
<1>2. /\ ChangeAndReselect(st[t], t, p, "DELAYED") \in Row
      /\ RowOK(ChangeAndReselect(st[t], t, p, "DELAYED"), t)
  BY RowsAre, ReselectRow
<1> QED
  BY Zenon, <1>1, <1>2, MoveStep

(* The steps that only begin or end a call of GetRequestable, or do        *)
(* nothing.                                                                *)
LEMMA CallStep ==
    ASSUME IInv, Return \/ UNCHANGED vars \/ \E p \in Peers, n \in Times : GetRequestable(p, n)
    PROVE  IInv'
<1>1. UNCHANGED <<st, time, pref>> /\ caller' \in Peers \cup {Nobody} /\ now' \in Nat
  BY TrackerAssumption DEF IInv, Typed, Return, GetRequestable, vars
<1>2. Typed'
  BY <1>1 DEF IInv, Typed
<1>3. SanityCheck'
  BY <1>1, RowsAre, RowsStaySound DEF IInv, Typed
<1> QED
  BY Zenon, <1>2, <1>3 DEF IInv

(* The invariant holds in every state of the tracker.                      *)
LEMMA IInvHolds == Spec => []IInv
<1>1. Init => IInv
  BY TrackerAssumption
  DEF Init, IInv, Typed, Row, State, SanityCheck, SelectedPeers, IsOver, IsSelected
<1>2. IInv /\ [Next]_vars => IInv'
  <2> SUFFICES ASSUME IInv, [Next]_vars PROVE IInv'
    OBVIOUS
  <2>1. ASSUME NEW p \in Peers, NEW t \in Txs,
               \/ ReceivedResponse(p, t) \/ Promote(p, t) \/ Expire(p, t) \/ Demote(p, t)
        PROVE  IInv'
    BY <2>1, CompletedStep, PromoteStep, DemoteStep DEF ReceivedResponse, Expire
  <2> QED
    BY Zenon, <2>1, ReceivedInvStep, DisconnectedStep, ForgetStep, RequestedStep, CallStep
    DEF Next, SetTimePoint
<1> QED
  BY <1>1, <1>2, PTL DEF Spec

(* The assertions of TxRequestTracker::Impl::SanityCheck hold after every  *)
(* operation and every round of SetTimePoint: the mark BEST is always with *)
(* the right announcement, and with one only.                              *)
THEOREM SanityHolds == Spec => []SanityCheck
BY IInvHolds, PTL DEF IInv

-----------------------------------------------------------------------------
(* NotRequestedTwice.                                                      *)

Forward(row, new) ==
    \A p \in Peers : /\ row[p] = "REQUESTED" => ~IsCandidate(new[p])
                     /\ row[p] = "COMPLETED" => new[p] \in {"COMPLETED", "NONE"}

(* If the one row that changes moves forward, all do.                      *)
LEMMA ForwardByRow ==
    ASSUME IInv, NEW t \in Txs, NEW row, st' = [st EXCEPT ![t] = row], Forward(st[t], row)
    PROVE  \A u \in Txs : Forward(st[u], st'[u])
<1>1. st'[t] = row /\ \A u \in Txs \ {t} : st'[u] = st[u]
  BY DEF IInv, Typed
<1>2. \A u \in Txs : Forward(st[u], st[u])
  BY DEF Forward, IsCandidate
<1> QED
  BY <1>1, <1>2

(* The row is emptied, or changes at p and in its mark.                    *)
LEMMA ForwardWhenOver ==
    ASSUME NEW row, NEW new, NEW p \in Peers,
           \/ new = [q \in Peers |-> "NONE"]
           \/ /\ new[p] \in {"COMPLETED", "NONE"}
              /\ \A q \in Peers \ {p} : \/ new[q] = row[q]
                                        \/ row[q] = "READY" /\ new[q] = "BEST"
    PROVE  Forward(row, new)
<1>1. CASE new = [q \in Peers |-> "NONE"]
  BY <1>1 DEF Forward, IsCandidate
<1>2. CASE /\ new[p] \in {"COMPLETED", "NONE"}
           /\ \A q \in Peers \ {p} : \/ new[q] = row[q]
                                     \/ row[q] = "READY" /\ new[q] = "BEST"
  BY <1>2 DEF Forward, IsCandidate
<1> QED
  BY <1>1, <1>2

(* In no step does a requested or failed announcement become a candidate   *)
(* again.                                                                  *)
LEMMA StepsForward ==
    ASSUME IInv, [Next]_vars
    PROVE  \A t \in Txs : Forward(st[t], st'[t])
<1>1. ASSUME NEW p \in Peers, NEW t \in Txs, NEW b \in BOOLEAN, NEW n \in Times,
             ReceivedInv(p, t, b, n)
      PROVE  \A u \in Txs : Forward(st[u], st'[u])
  <2>1. st[t][p] = "NONE" /\ st' = [st EXCEPT ![t] = [st[t] EXCEPT ![p] = "DELAYED"]]
    BY <1>1 DEF ReceivedInv, InByPeer, IInv, Typed
  <2>2. Forward(st[t], [st[t] EXCEPT ![p] = "DELAYED"])
    BY <2>1, RowsAre DEF Forward, IsCandidate, Row
  <2> QED
    BY Zenon, <2>1, <2>2, ForwardByRow
<1>2. ASSUME NEW p \in Peers, NEW t \in Txs, NEW n \in Times, RequestedTx(p, t, n)
      PROVE  \A u \in Txs : Forward(st[u], st'[u])
  <2>1. IsCandidate(st[t][p]) /\ st' = [st EXCEPT ![t] = RequestedRow(st[t], p)]
    BY <1>2 DEF RequestedTx, Become
  <2>2. Forward(st[t], RequestedRow(st[t], p))
    BY <2>1, RowsAre, RequestRow DEF Forward, IsCandidate
  <2> QED
    BY Zenon, <2>1, <2>2, ForwardByRow
<1>3. ASSUME NEW p \in Peers, NEW t \in Txs, ReceivedResponse(p, t) \/ Expire(p, t)
      PROVE  \A u \in Txs : Forward(st[u], st'[u])
  <2>1. st' = [st EXCEPT ![t] = MakeCompleted(st[t], t, p)]
    BY Zenon, <1>3 DEF ReceivedResponse, Expire, Become
  <2>2. Forward(st[t], MakeCompleted(st[t], t, p))
    BY RowsAre, CompletedRow, ForwardWhenOver
  <2> QED
    BY Zenon, <2>1, <2>2, ForwardByRow
<1>4. ASSUME NEW p \in Peers, NEW t \in Txs, Promote(p, t)
      PROVE  \A u \in Txs : Forward(st[u], st'[u])
  <2>1. st[t][p] = "DELAYED" /\ st' = [st EXCEPT ![t] = PromoteCandidateReady(st[t], t, p)]
    BY <1>4 DEF Promote
  <2>2. Forward(st[t], PromoteCandidateReady(st[t], t, p))
    BY <2>1, RowsAre, PromoteRow DEF Forward, IsCandidate
  <2> QED
    BY Zenon, <2>1, <2>2, ForwardByRow
<1>5. ASSUME NEW p \in Peers, NEW t \in Txs, Demote(p, t)
      PROVE  \A u \in Txs : Forward(st[u], st'[u])
  <2>1. /\ IsSelectable(st[t][p])
        /\ st' = [st EXCEPT ![t] = ChangeAndReselect(st[t], t, p, "DELAYED")]
    BY Zenon, <1>5 DEF Demote, IsAhead
  <2>2. Forward(st[t], ChangeAndReselect(st[t], t, p, "DELAYED"))
    BY <2>1, RowsAre, ReselectRow DEF Forward, IsCandidate, IsSelectable
  <2> QED
    BY Zenon, <2>1, <2>2, ForwardByRow
<1>6. ASSUME NEW t \in Txs, ForgetTxHash(t)
      PROVE  \A u \in Txs : Forward(st[u], st'[u])
  <2>1. st' = [st EXCEPT ![t] = [p \in Peers |-> "NONE"]]
    BY Zenon, <1>6 DEF ForgetTxHash, Become
  <2>2. Forward(st[t], [p \in Peers |-> "NONE"])
    BY DEF Forward, IsCandidate
  <2> QED
    BY Zenon, <2>1, <2>2, ForwardByRow
<1>7. ASSUME NEW p \in Peers, DisconnectedPeer(p)
      PROVE  \A u \in Txs : Forward(st[u], st'[u])
  <2>1. \A u \in Txs : st'[u] = IF st[u][p] = "NONE" THEN st[u]
                                ELSE Left(st[u], u, p)
    BY <1>7 DEF DisconnectedPeer, Become, Left
  <2>2. \A u \in Txs : Forward(st[u], Left(st[u], u, p))
    <3>1. TAKE u \in Txs
    <3> DEFINE new == Left(st[u], u, p)
    <3>2. \/ new = [q \in Peers |-> "NONE"]
          \/ /\ new[p] \in {"COMPLETED", "NONE"}
             /\ \A q \in Peers \ {p} : \/ new[q] = st[u][q]
                                       \/ st[u][q] = "READY" /\ new[q] = "BEST"
      BY RowsAre, LeftRow
    <3> HIDE DEF new
    <3>3. Forward(st[u], new)
      BY <3>2, ForwardWhenOver
    <3> QED
      BY <3>3 DEF new
  <2>3. \A u \in Txs : Forward(st[u], st[u])
    BY DEF Forward, IsCandidate
  <2> QED
    BY ZenonT(40), <2>1, <2>2, <2>3
<1>8. ASSUME UNCHANGED st
      PROVE  \A u \in Txs : Forward(st[u], st'[u])
  BY <1>8 DEF Forward, IsCandidate
<1> QED
  BY Zenon, <1>1, <1>2, <1>3, <1>4, <1>5, <1>6, <1>7, <1>8
  DEF Next, SetTimePoint, Return, GetRequestable, vars

(* Whatever the callers and the clock do, an announcement that was         *)
(* requested or has failed is not a candidate again until it is forgotten. *)
THEOREM NobodyAskedTwice == Spec => NotRequestedTwice
<1>1. IInv /\ [Next]_vars =>
         [\A t \in Txs, p \in Peers :
             /\ st[t][p] = "REQUESTED" => ~IsCandidate(st'[t][p])
             /\ st[t][p] = "COMPLETED" => st'[t][p] \in {"COMPLETED", "NONE"}]_vars
  BY StepsForward DEF Forward
<1> QED
  BY <1>1, IInvHolds, PTL DEF Spec, NotRequestedTwice
-----------------------------------------------------------------------------
(* TxRequest implements TxRequestRules.                                    *)

PlainRow(row) == [p \in Peers |-> Plain(row[p])]

(* Both specifications put a peer's announcements in the same order.       *)
LEMMA SameOrder ==
    ASSUME NEW s, NEW S
    PROVE  Rules!InOrder(s, S) = InOrder(s, S)
BY DEF Rules!InOrder, InOrder

(* The abstract state forgets which mark a candidate has, and nothing      *)
(* else.                                                                   *)
LEMMA PlainFacts ==
    ASSUME NEW x \in State
    PROVE  /\ Plain(x) = "NONE" <=> x = "NONE"
           /\ Plain(x) = "COMPLETED" <=> x = "COMPLETED"
           /\ Plain(x) = "REQUESTED" <=> x = "REQUESTED"
           /\ Plain(x) = "CANDIDATE" <=> IsCandidate(x)
           /\ Rules!IsOver(Plain(x)) <=> IsOver(x)
BY Zenon DEF Plain, State, IsCandidate, IsOver, Rules!IsOver

(* The abstract announcements, row by row.                                 *)
LEMMA PlainAnn ==
    ASSUME Typed
    PROVE  /\ Ann = [t \in Txs |-> PlainRow(st[t])]
           /\ \A t \in Txs : Ann[t] = PlainRow(st[t])
           /\ \A t \in Txs, p \in Peers : Ann[t][p] = Plain(st[t][p]) /\ st[t][p] \in State
BY Zenon DEF Ann, PlainRow, Typed, Row

(* Replacing the index, with the times, flags and queues that go with it,  *)
(* is what the rules do with the announcements.                            *)
LEMMA BecomeMaps ==
    ASSUME NEW s \in [Txs -> Row], NEW times, Become(s, times),
           NEW a, a = [t \in Txs |-> PlainRow(s[t])]
    PROVE  Rules!Become(a, times)
<1>1. \A t \in Txs, p \in Peers : /\ a[t][p] = Plain(s[t][p])
                                  /\ a[t][p] # "NONE" <=> s[t][p] # "NONE"
                                  /\ Rules!IsOver(a[t][p]) <=> IsOver(s[t][p])
  BY PlainFacts DEF PlainRow, Row
<1>2. Ann' = a
  BY Zenon DEF Become, Ann, PlainRow
<1>3. time' = [t \in Txs |-> [p \in Peers |-> IF Rules!IsOver(a[t][p]) THEN 0 ELSE times[t][p]]]
  BY Zenon, <1>1 DEF Become
<1>4. pref' = [t \in Txs |-> [p \in Peers |-> ~Rules!IsOver(a[t][p]) /\ pref[t][p]]]
  <2>1. \A t \in Txs, p \in Peers : (~Rules!IsOver(a[t][p]) /\ pref[t][p])
                                     = (~IsOver(s[t][p]) /\ pref[t][p])
    BY <1>1
  <2> QED
    BY ZenonT(40), <2>1 DEF Become
<1>5. arrivals' = [p \in Peers |-> Rules!InOrder(arrivals[p], {t \in Txs : a[t][p] # "NONE"})]
  <2>1. \A p \in Peers : {t \in Txs : a[t][p] # "NONE"} = {t \in Txs : s[t][p] # "NONE"}
    BY <1>1
  <2>2. \A p \in Peers : Rules!InOrder(arrivals[p], {t \in Txs : a[t][p] # "NONE"})
                          = InOrder(arrivals[p], {t \in Txs : s[t][p] # "NONE"})
    BY Zenon, <2>1, SameOrder
  <2> QED
    BY Zenon, <2>2 DEF Become
<1>6. advice' = <<>>
  BY DEF Become
<1> QED
  BY Zenon, <1>2, <1>3, <1>4, <1>5, <1>6 DEF Rules!Become

(* One row of the announcements is replaced.                               *)
LEMMA OneRowMaps ==
    ASSUME IInv, NEW t \in Txs, NEW row \in Row, NEW times,
           Become([st EXCEPT ![t] = row], times)
    PROVE  Rules!Become([Ann EXCEPT ![t] = PlainRow(row)], times)
<1> DEFINE s == [st EXCEPT ![t] = row]
           a == [Ann EXCEPT ![t] = PlainRow(row)]
<1>1. s \in [Txs -> Row] /\ \A u \in Txs : s[u] = IF u = t THEN row ELSE st[u]
  BY Zenon DEF IInv, Typed
<1>2. Ann = [u \in Txs |-> PlainRow(st[u])]
  BY Zenon, PlainAnn DEF IInv
<1>3. a = [u \in Txs |-> PlainRow(s[u])]
  BY Zenon, <1>1, <1>2
<1> QED
  BY Zenon, <1>1, <1>3, BecomeMaps

(* MakeCompleted is to mark the announcement as failed and clean up.       *)
LEMMA CompletedMaps ==
    ASSUME Typed, NEW t \in Txs, NEW row \in Row, RowOK(row, t), NEW p \in Peers
    PROVE  PlainRow(MakeCompleted(row, t, p)) = Rules!Cleaned([PlainRow(row) EXCEPT ![p] = "COMPLETED"])
<1> DEFINE new == MakeCompleted(row, t, p)
           old == [PlainRow(row) EXCEPT ![p] = "COMPLETED"]
<1>1. /\ new \in Row
      /\ \/ /\ new = [q \in Peers |-> "NONE"]
            /\ \A q \in Peers \ {p} : IsOver(row[q])
         \/ /\ new[p] = "COMPLETED"
            /\ \E q \in Peers \ {p} : ~IsOver(row[q])
            /\ \A q \in Peers \ {p} : \/ new[q] = row[q]
                                      \/ row[q] = "READY" /\ new[q] = "BEST"
  BY CompletedRow
<1>2. old = [q \in Peers |-> IF q = p THEN "COMPLETED" ELSE Plain(row[q])]
  BY Zenon DEF PlainRow
<1>3. \A q \in Peers \ {p} : Rules!IsOver(old[q]) <=> IsOver(row[q])
  <2>1. \A q \in Peers \ {p} : old[q] = Plain(row[q]) /\ row[q] \in State
    BY Zenon, <1>2 DEF Row
  <2> HIDE DEF old
  <2> QED
    BY Zenon, <2>1 DEF Rules!IsOver, Plain, IsOver, IsCandidate, State
<1>4. Rules!IsOver(old[p])
  BY Zenon, <1>2 DEF Rules!IsOver
<1> HIDE DEF new, old
<1>5. CASE new = [q \in Peers |-> "NONE"] /\ \A q \in Peers \ {p} : IsOver(row[q])
  <2>1. Rules!Cleaned(old) = [q \in Peers |-> "NONE"]
    BY Zenon, <1>3, <1>4, <1>5 DEF Rules!Cleaned
  <2>2. PlainRow(new) = [q \in Peers |-> "NONE"]
    BY Zenon, <1>5 DEF PlainRow, Plain, IsCandidate
  <2> QED
    BY Zenon, <2>1, <2>2 DEF new, old
<1>6. CASE /\ new[p] = "COMPLETED"
           /\ \E q \in Peers \ {p} : ~IsOver(row[q])
           /\ \A q \in Peers \ {p} : \/ new[q] = row[q]
                                     \/ row[q] = "READY" /\ new[q] = "BEST"
  <2>1. Rules!Cleaned(old) = old
    BY <1>3, <1>6 DEF Rules!Cleaned
  <2>2. \A q \in Peers : Plain(new[q]) = IF q = p THEN "COMPLETED" ELSE Plain(row[q])
    BY Zenon, <1>6 DEF Plain, IsCandidate
  <2>3. PlainRow(new) = old
    BY Zenon, <1>2, <2>2 DEF PlainRow
  <2> QED
    BY Zenon, <2>1, <2>3 DEF new, old
<1> QED
  BY Zenon, <1>1, <1>5, <1>6

(* DisconnectedPeer is to drop the announcement and clean up.              *)
LEMMA LeftMaps ==
    ASSUME Typed, NEW t \in Txs, NEW row \in Row, RowOK(row, t), NEW p \in Peers
    PROVE  PlainRow(IF row[p] = "NONE" THEN row ELSE Left(row, t, p))
             = Rules!Cleaned([PlainRow(row) EXCEPT ![p] = "NONE"])
<1> DEFINE new == Left(row, t, p)
           old == [PlainRow(row) EXCEPT ![p] = "NONE"]
<1>1. \/ /\ new = [q \in Peers |-> "NONE"]
         /\ \A q \in Peers \ {p} : IsOver(row[q])
      \/ /\ new[p] = "NONE"
         /\ \E q \in Peers \ {p} : ~IsOver(row[q])
         /\ \A q \in Peers \ {p} : \/ new[q] = row[q]
                                   \/ row[q] = "READY" /\ new[q] = "BEST"
  BY LeftRow
<1>2. old = [q \in Peers |-> IF q = p THEN "NONE" ELSE Plain(row[q])]
  BY Zenon DEF PlainRow
<1>3. \A q \in Peers \ {p} : Rules!IsOver(old[q]) <=> IsOver(row[q])
  <2>1. \A q \in Peers \ {p} : old[q] = Plain(row[q]) /\ row[q] \in State
    BY Zenon, <1>2 DEF Row
  <2> HIDE DEF old
  <2> QED
    BY Zenon, <2>1 DEF Rules!IsOver, Plain, IsOver, IsCandidate, State
<1>4. Rules!IsOver(old[p])
  BY Zenon, <1>2 DEF Rules!IsOver
<1> HIDE DEF new, old
<1>5. CASE row[p] = "NONE"
  <2>1. PlainRow(row) = old
    BY ZenonT(40), <1>2, <1>5 DEF PlainRow, Plain, IsCandidate
  <2>2. CASE \A q \in Peers : IsOver(row[q])
    <3>1. \A q \in Peers : row[q] = "NONE"
      BY Zenon, <2>2 DEF RowOK, IsOver
    <3>2. PlainRow(row) = [q \in Peers |-> "NONE"]
      BY <3>1 DEF PlainRow, Plain, IsCandidate
    <3>3. Rules!Cleaned(old) = [q \in Peers |-> "NONE"]
      BY <1>3, <1>4, <2>2 DEF Rules!Cleaned
    <3> QED
      BY <1>5, <3>2, <3>3 DEF old
  <2>3. CASE \E q \in Peers : ~IsOver(row[q])
    <3>1. \E q \in Peers \ {p} : ~IsOver(row[q])
      BY <1>5, <2>3 DEF IsOver
    <3>2. Rules!Cleaned(old) = old
      BY Zenon, <1>3, <3>1 DEF Rules!Cleaned
    <3> QED
      BY Zenon, <1>5, <2>1, <3>2 DEF old
  <2> QED
    BY Zenon, <2>2, <2>3
<1>6. CASE row[p] # "NONE"
  <2>1. CASE new = [q \in Peers |-> "NONE"] /\ \A q \in Peers \ {p} : IsOver(row[q])
    <3>1. Rules!Cleaned(old) = [q \in Peers |-> "NONE"]
      BY <1>3, <1>4, <2>1 DEF Rules!Cleaned
    <3>2. PlainRow(new) = [q \in Peers |-> "NONE"]
      BY <2>1 DEF PlainRow, Plain, IsCandidate
    <3> QED
      BY <1>6, <3>1, <3>2 DEF new, old
  <2>2. CASE /\ new[p] = "NONE"
             /\ \E q \in Peers \ {p} : ~IsOver(row[q])
             /\ \A q \in Peers \ {p} : \/ new[q] = row[q]
                                       \/ row[q] = "READY" /\ new[q] = "BEST"
    <3>1. Rules!Cleaned(old) = old
      BY <1>3, <2>2 DEF Rules!Cleaned
    <3>2. \A q \in Peers : Plain(new[q]) = IF q = p THEN "NONE" ELSE Plain(row[q])
      BY Zenon, <2>2 DEF Plain, IsCandidate
    <3>3. PlainRow(new) = old
      BY Zenon, <1>2, <3>2 DEF PlainRow
    <3> QED
      BY Zenon, <1>6, <3>1, <3>3 DEF new, old
  <2> QED
    BY Zenon, <1>1, <2>1, <2>2
<1> QED
  BY Zenon, <1>5, <1>6

(* RequestedTx is to mark the announcement as requested in place of the    *)
(* request before it.                                                      *)
LEMMA RequestMaps ==
    ASSUME Typed, NEW t \in Txs, NEW row \in Row, RowOK(row, t), NEW p \in Peers,
           IsCandidate(row[p])
    PROVE  PlainRow(RequestedRow(row, p))
             = [q \in Peers |-> IF q = p THEN "REQUESTED"
                                ELSE IF PlainRow(row)[q] = "REQUESTED" THEN "COMPLETED"
                                ELSE PlainRow(row)[q]]
<1>1. \A q \in Peers : Plain(RequestedRow(row, p)[q])
                        = IF q = p THEN "REQUESTED"
                          ELSE IF Plain(row[q]) = "REQUESTED" THEN "COMPLETED"
                          ELSE Plain(row[q])
  BY RequestRow DEF Plain, IsCandidate
<1> QED
  BY Zenon, <1>1 DEF PlainRow

(* Moving the marks is not seen.                                           *)
LEMMA MoveMaps ==
    ASSUME IInv, NEW t \in Txs, NEW row \in Row, st' = [st EXCEPT ![t] = row],
           PlainRow(row) = PlainRow(st[t])
    PROVE  Ann' = Ann
<1>1. \A u \in Txs : PlainRow(st'[u]) = PlainRow(st[u])
  BY Zenon DEF IInv, Typed
<1>2. Ann' = [u \in Txs |-> PlainRow(st'[u])]
  BY DEF Ann, PlainRow
<1>3. Ann = [u \in Txs |-> PlainRow(st[u])]
  BY Zenon DEF Ann, PlainRow
<1> QED
  BY Zenon, <1>1, <1>2, <1>3

(* A new announcement is one of the rules' candidates.                     *)
LEMMA ReceivedInvMaps ==
    ASSUME IInv, NEW p \in Peers, NEW t \in Txs, NEW b \in BOOLEAN, NEW n \in Times,
           ReceivedInv(p, t, b, n)
    PROVE  Rules!ReceivedInv(p, t, b, n)
<1>1. st[t][p] = "NONE" /\ st' = [st EXCEPT ![t][p] = "DELAYED"]
  BY Zenon DEF ReceivedInv, InByPeer
<1>2. Ann[t][p] = "NONE"
  BY <1>1, PlainAnn, PlainFacts DEF IInv
<1>3. Ann' = [Ann EXCEPT ![t][p] = "CANDIDATE"]
  <2>1. \A u \in Txs, q \in Peers : st'[u][q] = IF u = t /\ q = p THEN "DELAYED" ELSE st[u][q]
    BY Zenon, <1>1 DEF IInv, Typed, Row
  <2>2. \A u \in Txs, q \in Peers :
           Plain(st'[u][q]) = IF u = t /\ q = p THEN "CANDIDATE" ELSE Plain(st[u][q])
    BY Zenon, <2>1 DEF Plain, IsCandidate
  <2> QED
    BY Zenon, <2>2 DEF Ann
<1> QED
  BY Zenon, <1>2, <1>3 DEF ReceivedInv, Rules!ReceivedInv

(* DisconnectedPeer does what the rules say.                               *)
LEMMA DisconnectedMaps ==
    ASSUME IInv, NEW p \in Peers, DisconnectedPeer(p)
    PROVE  Rules!DisconnectedPeer(p)
<1> DEFINE s == [t \in Txs |-> IF st[t][p] = "NONE" THEN st[t] ELSE Left(st[t], t, p)]
           a == [t \in Txs |-> Rules!Cleaned([Ann[t] EXCEPT ![p] = "NONE"])]
<1>1. Become(s, time) /\ caller = Nobody /\ UNCHANGED <<caller, now>>
  BY Zenon DEF DisconnectedPeer, Left
<1>2. \A t \in Txs : s[t] \in Row
  BY RowsAre, LeftRow
<1>3. s \in [Txs -> Row]
  BY Zenon, <1>2
<1>4. \A t \in Txs : PlainRow(s[t]) = Rules!Cleaned([PlainRow(st[t]) EXCEPT ![p] = "NONE"])
  BY Zenon, RowsAre, LeftMaps
<1>5. \A t \in Txs : Ann[t] = PlainRow(st[t])
  BY Zenon, PlainAnn DEF IInv
<1>6. a = [t \in Txs |-> PlainRow(s[t])]
  <2> HIDE DEF s
  <2>1. \A t \in Txs : Rules!Cleaned([Ann[t] EXCEPT ![p] = "NONE"]) = PlainRow(s[t])
    BY Zenon, <1>4, <1>5
  <2> QED
    BY Zenon, <2>1
<1> HIDE DEF s
<1>7. Rules!Become(a, time)
  <2> HIDE DEF a
  <2> QED
    BY <1>1, <1>3, <1>6, BecomeMaps
<1> QED
  BY Zenon, <1>1, <1>7 DEF Rules!DisconnectedPeer

(* ForgetTxHash does what the rules say.                                   *)
LEMMA ForgetMaps ==
    ASSUME IInv, NEW t \in Txs, ForgetTxHash(t)
    PROVE  Rules!ForgetTxHash(t)
<1>1. /\ Become([st EXCEPT ![t] = [p \in Peers |-> "NONE"]], time)
      /\ caller = Nobody /\ UNCHANGED <<caller, now>>
  BY DEF ForgetTxHash
<1>2. PlainRow([p \in Peers |-> "NONE"]) = [p \in Peers |-> "NONE"]
  BY Zenon DEF PlainRow, Plain, IsCandidate
<1>3. Rules!Become([Ann EXCEPT ![t] = PlainRow([p \in Peers |-> "NONE"])], time)
  BY Zenon, <1>1, EmptyRow, OneRowMaps
<1> QED
  BY Zenon, <1>1, <1>2, <1>3 DEF Rules!ForgetTxHash

(* RequestedTx does what the rules say.                                    *)
LEMMA RequestedMaps ==
    ASSUME IInv, NEW p \in Peers, NEW t \in Txs, NEW n \in Times, RequestedTx(p, t, n)
    PROVE  Rules!RequestedTx(p, t, n)
<1>1. /\ IsCandidate(st[t][p]) /\ caller = Nobody /\ UNCHANGED <<caller, now>>
      /\ Become([st EXCEPT ![t] = RequestedRow(st[t], p)], [time EXCEPT ![t][p] = n])
  BY Zenon DEF RequestedTx
<1>2. RequestedRow(st[t], p) \in Row
  BY Zenon, <1>1, RowsAre, RequestRow
<1>3. Rules!Become([Ann EXCEPT ![t] = PlainRow(RequestedRow(st[t], p))], [time EXCEPT ![t][p] = n])
  BY Zenon, <1>1, <1>2, OneRowMaps
<1>4. PlainRow(RequestedRow(st[t], p))
        = [q \in Peers |-> IF q = p THEN "REQUESTED"
                           ELSE IF Ann[t][q] = "REQUESTED" THEN "COMPLETED"
                           ELSE Ann[t][q]]
  <2>1. Ann[t] = PlainRow(st[t])
    BY Zenon, PlainAnn DEF IInv
  <2> QED
    BY <1>1, <2>1, RowsAre, RequestMaps
<1>5. Ann[t][p] = "CANDIDATE"
  BY <1>1, PlainAnn, PlainFacts DEF IInv
<1> QED
  BY Zenon, <1>1, <1>3, <1>4, <1>5 DEF Rules!RequestedTx

(* MakeCompleted on the index is the clean-up of the rules on the          *)
(* announcements.                                                          *)
LEMMA OneCompletedMaps ==
    ASSUME IInv, NEW p \in Peers, NEW t \in Txs,
           Become([st EXCEPT ![t] = MakeCompleted(st[t], t, p)], time)
    PROVE  Rules!Become([Ann EXCEPT ![t] = Rules!Cleaned([Ann[t] EXCEPT ![p] = "COMPLETED"])], time)
<1>1. MakeCompleted(st[t], t, p) \in Row
  BY Zenon, RowsAre, CompletedRow
<1>2. Rules!Become([Ann EXCEPT ![t] = PlainRow(MakeCompleted(st[t], t, p))], time)
  BY Zenon, <1>1, OneRowMaps
<1>3. Ann[t] = PlainRow(st[t])
  BY Zenon, PlainAnn DEF IInv
<1>4. PlainRow(MakeCompleted(st[t], t, p)) = Rules!Cleaned([Ann[t] EXCEPT ![p] = "COMPLETED"])
  BY <1>3, RowsAre, CompletedMaps
<1> QED
  BY Zenon, <1>2, <1>4

(* ReceivedResponse does what the rules say.                               *)
LEMMA ResponseMaps ==
    ASSUME IInv, NEW p \in Peers, NEW t \in Txs, ReceivedResponse(p, t)
    PROVE  Rules!ReceivedResponse(p, t)
<1>1. /\ st[t][p] # "NONE" /\ caller = Nobody /\ UNCHANGED <<caller, now>>
      /\ Become([st EXCEPT ![t] = MakeCompleted(st[t], t, p)], time)
  BY Zenon DEF ReceivedResponse
<1>2. Ann[t][p] # "NONE"
  BY <1>1, PlainAnn, PlainFacts DEF IInv
<1> QED
  BY Zenon, <1>1, <1>2, OneCompletedMaps DEF Rules!ReceivedResponse

(* A round of SetTimePoint that expires a request does what the rules say. *)
LEMMA ExpireMaps ==
    ASSUME IInv, NEW p \in Peers, NEW t \in Txs, Expire(p, t)
    PROVE  Rules!Expire(p, t)
<1>1. /\ st[t][p] = "REQUESTED" /\ time[t][p] <= now
      /\ caller # Nobody /\ UNCHANGED <<caller, now>>
      /\ Become([st EXCEPT ![t] = MakeCompleted(st[t], t, p)], time)
  BY Zenon DEF Expire, IsDue
<1>2. Ann[t][p] = "REQUESTED"
  BY <1>1, PlainAnn, PlainFacts DEF IInv
<1> QED
  BY Zenon, <1>1, <1>2, OneCompletedMaps DEF Rules!Expire

(* The rounds of SetTimePoint that promote or demote are not seen.         *)
LEMMA MarksMaps ==
    ASSUME IInv, NEW p \in Peers, NEW t \in Txs, Promote(p, t) \/ Demote(p, t)
    PROVE  UNCHANGED Rules!ruleVars
<1>1. CASE Promote(p, t)
  <2> DEFINE new == PromoteCandidateReady(st[t], t, p)
  <2>1. st[t][p] = "DELAYED" /\ st' = [st EXCEPT ![t] = new]
    BY Zenon, <1>1 DEF Promote
  <2>2. /\ new \in Row /\ IsCandidate(new[p])
        /\ \A q \in Peers \ {p} : \/ new[q] = st[t][q]
                                  \/ st[t][q] = "BEST" /\ new[q] = "READY"
    BY Zenon, <2>1, RowsAre, PromoteRow
  <2> HIDE DEF new
  <2>3. \A q \in Peers : Plain(new[q]) = Plain(st[t][q])
    BY Zenon, <2>1, <2>2 DEF Plain, IsCandidate
  <2>4. PlainRow(new) = PlainRow(st[t])
    BY <2>3 DEF PlainRow
  <2>5. Ann' = Ann
    BY Zenon, <2>1, <2>2, <2>4, MoveMaps
  <2> QED
    BY Zenon, <1>1, <2>5 DEF Promote, Rules!ruleVars
<1>2. CASE Demote(p, t)
  <2> DEFINE new == ChangeAndReselect(st[t], t, p, "DELAYED")
  <2>1. IsSelectable(st[t][p]) /\ st' = [st EXCEPT ![t] = new]
    BY Zenon, <1>2 DEF Demote, IsAhead
  <2>2. /\ new \in Row /\ new[p] = "DELAYED"
        /\ \A q \in Peers \ {p} : \/ new[q] = st[t][q]
                                  \/ st[t][q] = "READY" /\ new[q] = "BEST"
    BY RowsAre, ReselectRow
  <2> HIDE DEF new
  <2>3. \A q \in Peers : Plain(new[q]) = Plain(st[t][q])
    BY Zenon, <2>1, <2>2 DEF Plain, IsCandidate, IsSelectable
  <2>4. PlainRow(new) = PlainRow(st[t])
    BY <2>3 DEF PlainRow
  <2>5. Ann' = Ann
    BY Zenon, <2>1, <2>2, <2>4, MoveMaps
  <2> QED
    BY Zenon, <1>2, <2>5 DEF Demote, Rules!ruleVars
<1> QED
  BY Zenon, <1>1, <1>2

(* When nothing is due and nothing ahead of the clock, the announcements   *)
(* marked BEST are the ones that choosing afresh would pick.               *)
LEMMA MarksAreTheChoice ==
    ASSUME IInv, NoneIsDue, NoneIsAhead, NEW p \in Peers
    PROVE  Rules!Requestable(p) = {t \in Txs : st[t][p] = "BEST"}
<1>1. ASSUME NEW t \in Txs, NEW q \in Peers
      PROVE  q \in Rules!Ready(t) <=> st[t][q] \in {"READY", "BEST"}
  <2>1. Ann[t][q] = "CANDIDATE" <=> IsCandidate(st[t][q])
    BY PlainAnn, PlainFacts DEF IInv
  <2>2. time[t][q] \in Nat /\ now \in Nat
    BY DEF IInv, Typed
  <2>3. st[t][q] = "DELAYED" => time[t][q] > now
    BY Zenon DEF NoneIsDue, IsWaiting
  <2>4. st[t][q] \in {"READY", "BEST"} => time[t][q] <= now
    BY Zenon DEF NoneIsAhead, IsSelectable
  <2> QED
    BY <2>1, <2>2, <2>3, <2>4 DEF Rules!Ready, IsCandidate
<1>2. \A t \in Txs, q, r \in Peers : Rules!Better(t, q, r) <=> Better(t, q, r)
  BY Zenon DEF Rules!Better, Better
<1>3. \A t \in Txs, q \in Peers : Ann[t][q] = "REQUESTED" <=> st[t][q] = "REQUESTED"
  BY PlainAnn, PlainFacts DEF IInv
<1>4. ASSUME NEW t \in Txs, st[t][p] = "BEST"
      PROVE  t \in Rules!Requestable(p)
  <2>1. \A q \in Peers \ {p} : ~IsSelected(st[t][q])
    BY Zenon, <1>4, RowsAre DEF RowOK, IsSelected
  <2>2. \A q \in Peers : Ann[t][q] # "REQUESTED"
    BY Zenon, <1>3, <1>4, <2>1 DEF IsSelected
  <2>3. \A q \in Rules!Ready(t) \ {p} : q \in Peers
    BY DEF Rules!Ready
  <2>4. \A q \in Rules!Ready(t) \ {p} : Better(t, p, q)
    BY Zenon, <1>1, <1>4, <2>1, <2>3, RowsAre DEF RowOK, IsSelected
  <2> QED
    BY Zenon, <1>1, <1>2, <1>4, <2>2, <2>3, <2>4 DEF Rules!Requestable
<1>5. ASSUME NEW t \in Txs, t \in Rules!Requestable(p)
      PROVE  st[t][p] = "BEST"
  <2>1. /\ p \in Rules!Ready(t) /\ \A q \in Peers : st[t][q] # "REQUESTED"
        /\ \A q \in Rules!Ready(t) \ {p} : Rules!Better(t, p, q)
    BY Zenon, <1>3, <1>5 DEF Rules!Requestable
  <2>2. SUFFICES ASSUME st[t][p] = "READY" PROVE FALSE
    BY Zenon, <1>1, <2>1
  <2>3. PICK q \in Peers : IsSelected(st[t][q])
    BY Zenon, <2>2, RowsAre DEF RowOK
  <2>4. st[t][q] = "BEST" /\ q # p
    BY Zenon, <2>1, <2>2, <2>3 DEF IsSelected
  <2>5. Better(t, q, p)
    BY Zenon, <2>2, <2>4, RowsAre DEF RowOK
  <2>6. Better(t, p, q)
    BY Zenon, <1>1, <1>2, <2>1, <2>4
  <2> QED
    BY Zenon, <2>5, <2>6, RowsAre, BetterOrder
<1>6. Rules!Requestable(p) \subseteq Txs
  BY Zenon DEF Rules!Requestable
<1> QED
  BY Zenon, <1>4, <1>5, <1>6

(* What GetRequestable returns is what the rules would choose.             *)
LEMMA ReturnMaps ==
    ASSUME IInv, Return
    PROVE  Rules!Return
<1>1. /\ caller \in Peers /\ NoneIsDue /\ NoneIsAhead
      /\ advice' = InOrder(arrivals[caller], {t \in Txs : st[t][caller] = "BEST"})
      /\ caller # Nobody /\ caller' = Nobody /\ now' = 0
      /\ UNCHANGED <<st, time, pref, arrivals>>
  BY Zenon DEF Return, IInv, Typed
<1>2. advice' = Rules!InOrder(arrivals[caller], Rules!Requestable(caller))
  BY Zenon, <1>1, MarksAreTheChoice, SameOrder
<1>3. \A t \in Txs, p \in Peers : Ann[t][p] = "REQUESTED" => time[t][p] > now
  BY <1>1, PlainAnn, PlainFacts DEF IInv, NoneIsDue, IsWaiting
<1>4. Ann' = Ann
  BY <1>1 DEF Ann
<1> QED
  BY Zenon, <1>1, <1>2, <1>3, <1>4 DEF Rules!Return

(* The tracker does what its interface comment says: whatever is called in *)
(* whatever order with whatever times, GetRequestable returns exactly the  *)
(* transactions that choosing afresh among all the announcements would     *)
(* give the peer, in the order it announced them.                          *)
THEOREM TrackerFollowsRules == Spec => ImplementsRules
<1>1. Init => Rules!Init
  BY DEF Init, Rules!Init, Ann, Plain, IsCandidate
<1>2. IInv /\ [Next]_vars => [Rules!Next]_(Rules!ruleVars)
  <2> SUFFICES ASSUME IInv, [Next]_vars
               PROVE  Rules!Next \/ UNCHANGED Rules!ruleVars
    BY Zenon
  <2>1. ASSUME NEW p \in Peers, NEW t \in Txs, NEW n \in Times, NEW b \in BOOLEAN,
               ReceivedInv(p, t, b, n)
        PROVE  Rules!Next
    BY <2>1, ReceivedInvMaps DEF Rules!Next
  <2>2. ASSUME NEW p \in Peers, NEW t \in Txs, NEW n \in Times, RequestedTx(p, t, n)
        PROVE  Rules!Next
    BY Zenon, <2>2, RequestedMaps DEF Rules!Next
  <2>3. ASSUME NEW p \in Peers, NEW t \in Txs, ReceivedResponse(p, t) \/ Expire(p, t)
        PROVE  Rules!Next
    BY Zenon, <2>3, ResponseMaps, ExpireMaps DEF Rules!Next
  <2>4. ASSUME NEW p \in Peers, DisconnectedPeer(p)
        PROVE  Rules!Next
    BY Zenon, <2>4, DisconnectedMaps DEF Rules!Next
  <2>5. ASSUME NEW p \in Peers, NEW n \in Times, GetRequestable(p, n)
        PROVE  Rules!Next
    <3>1. Rules!Call(p, n)
      BY Zenon, <2>5 DEF GetRequestable, Rules!Call, Ann
    <3> QED
      BY <3>1 DEF Rules!Next
  <2>6. ASSUME NEW t \in Txs, ForgetTxHash(t)
        PROVE  Rules!Next
    BY <2>6, ForgetMaps DEF Rules!Next
  <2>7. ASSUME Return
        PROVE  Rules!Next
    BY Zenon, <2>7, ReturnMaps DEF Rules!Next
  <2>8. ASSUME UNCHANGED vars
        PROVE  UNCHANGED Rules!ruleVars
    BY <2>8 DEF vars, Rules!ruleVars, Ann
  <2> QED
    BY Zenon, <2>1, <2>2, <2>3, <2>4, <2>5, <2>6, <2>7, <2>8, MarksMaps DEF Next, SetTimePoint
<1> QED
  BY <1>1, <1>2, IInvHolds, PTL DEF Spec, ImplementsRules, Rules!Spec
=============================================================================
