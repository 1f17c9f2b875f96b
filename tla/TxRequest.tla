----------------------------- MODULE TxRequest -----------------------------
(***************************************************************************)
(* TxRequestTracker::Impl: which peer to ask for which announced           *)
(* transaction.  The choice is not made when it is asked for but kept up   *)
(* to date: a CANDIDATE announcement is DELAYED, READY or BEST, and every  *)
(* operation moves the mark BEST along.  A transaction's announcements are *)
(* one row, indexed by peer.                                               *)
(*                                                                         *)
(* Each operation runs under cs_main.  SetTimePoint, the first part of     *)
(* GetRequestable, is a loop over the announcements in the order of their  *)
(* times; each round of it is a step, during which nothing else can run.   *)
(* The callers are free to call anything in any order with any time, also  *)
(* an earlier one than before.  Left out: is_wtxid, which is only handed   *)
(* back, and m_peerinfo, which counts what is in the index.  Two           *)
(* priorities of one transaction, 63 bits of a salted hash, are taken to   *)
(* be different.                                                           *)
(***************************************************************************)
EXTENDS Naturals, Sequences

CONSTANTS Peers, Txs,
          Offers,    \* the <<peer, transaction, preferred>> that may be announced
          Times,     \* values of the clock, reqtimes and expiries
          Rank,      \* [Txs -> [Peers -> Nat]]: the salted hash
          Nobody

ASSUME TrackerAssumption ==
    /\ Offers \subseteq Peers \X Txs \X BOOLEAN
    /\ Times \subseteq Nat
    /\ Rank \in [Txs -> [Peers -> Nat]]
    /\ \A t \in Txs : \A p, q \in Peers : Rank[t][p] = Rank[t][q] => p = q
    \* one of any peers has the highest priority, as among finitely many
    /\ \A t \in Txs : \A S \in (SUBSET Peers) \ {{}} :
          \E p \in S : \A q \in S : Rank[t][p] >= Rank[t][q]
    /\ Nobody \notin Peers

VARIABLES st,        \* [Txs -> [Peers -> State]]: m_index
          time,      \* m_time: the reqtime, or the expiry once REQUESTED
          pref,      \* m_preferred
          arrivals,  \* [Peers -> Seq(Txs)]: its announcements by m_sequence
          caller,    \* the peer GetRequestable runs for, or Nobody
          now,       \* its parameter
          advice     \* what the last operation returned

vars == <<st, time, pref, arrivals, caller, now, advice>>

State == {"NONE", "DELAYED", "READY", "BEST", "REQUESTED", "COMPLETED"}

IsCandidate(s) == s \in {"DELAYED", "READY", "BEST"}

IsSelected(s) == s \in {"BEST", "REQUESTED"}

IsWaiting(s) == s \in {"REQUESTED", "DELAYED"}

(* Nobody reads the time and the preferred flag of such a one any more.    *)
IsOver(s) == s \in {"NONE", "COMPLETED"}

IsSelectable(s) == s \in {"READY", "BEST"}

Init ==
    /\ st = [t \in Txs |-> [p \in Peers |-> "NONE"]]
    /\ time = [t \in Txs |-> [p \in Peers |-> 0]]
    /\ pref = [t \in Txs |-> [p \in Peers |-> FALSE]]
    /\ arrivals = [p \in Peers |-> <<>>]
    /\ caller = Nobody /\ now = 0 /\ advice = <<>>

(* m_computer: the preferred flag is the top bit of the priority.          *)
Better(t, p, q) ==
    \/ pref[t][p] /\ ~pref[t][q]
    \/ pref[t][p] = pref[t][q] /\ Rank[t][p] > Rank[t][q]

(* The elements of a sequence that are in a set, in their order.           *)
InOrder(s, S) ==
    LET F[i \in 0..Len(s)] ==
            IF i = 0 THEN <<>> ELSE IF s[i] \in S THEN Append(F[i - 1], s[i]) ELSE F[i - 1]
    IN  F[Len(s)]

-----------------------------------------------------------------------------
(* The operations on one row.  The neighbours the code looks at in the     *)
(* ByTxHash index, sorted by state and, among READY ones, by priority, are *)
(* named here by what they are.                                            *)

(* A better READY one follows: nothing more to do.  Otherwise what follows *)
(* is the BEST one, which may lose its place, or the REQUESTED one, or     *)
(* nothing that is not COMPLETED.                                          *)
PromoteCandidateReady(row, t, p) ==
    IF \E q \in Peers : row[q] = "READY" /\ Better(t, q, p)
    THEN [row EXCEPT ![p] = "READY"]
    ELSE IF \E q \in Peers : row[q] = "BEST"
    THEN IF \E q \in Peers : row[q] = "BEST" /\ Better(t, p, q)
         THEN [q \in Peers |-> IF q = p THEN "BEST"
                               ELSE IF row[q] = "BEST" THEN "READY" ELSE row[q]]
         ELSE [row EXCEPT ![p] = "READY"]
    ELSE IF \E q \in Peers : row[q] = "REQUESTED"
    THEN [row EXCEPT ![p] = "READY"]
    ELSE [row EXCEPT ![p] = "BEST"]

(* The READY announcement with the highest priority.                       *)
IsNextBest(row, t, q) ==
    row[q] = "READY" /\ \A r \in Peers : row[r] = "READY" /\ r # q => Better(t, q, r)

(* Mutant: the next best is not selected.                                  *)
ChangeAndReselect_NoReselect(row, t, p, new) == [row EXCEPT ![p] = new]

ChangeAndReselect(row, t, p, new) ==
    [q \in Peers |-> IF q = p THEN new
                     ELSE IF IsSelected(row[p]) /\ IsNextBest(row, t, q) THEN "BEST"
                     ELSE row[q]]

IsOnlyNonCompleted(row, p) ==
    \A q \in Peers \ {p} : IsOver(row[q])

MakeCompleted(row, t, p) ==
    IF row[p] = "COMPLETED" THEN row
    ELSE IF IsOnlyNonCompleted(row, p) THEN [q \in Peers |-> "NONE"]
    ELSE ChangeAndReselect(row, t, p, "COMPLETED")

(* The index becomes s; the announcements erased leave the queues, and     *)
(* what the last GetRequestable returned is gone.                          *)
Become(s, times) ==
    /\ st' = s
    /\ time' = [t \in Txs |-> [p \in Peers |-> IF IsOver(s[t][p]) THEN 0 ELSE times[t][p]]]
    /\ pref' = [t \in Txs |-> [p \in Peers |-> ~IsOver(s[t][p]) /\ pref[t][p]]]
    /\ arrivals' = [p \in Peers |-> InOrder(arrivals[p], {t \in Txs : s[t][p] # "NONE"})]
    /\ advice' = <<>>

-----------------------------------------------------------------------------
(* The key (peer, is it BEST, transaction) is in the ByPeer index.         *)
InByPeer(p, best, t) == st[t][p] # "NONE" /\ (st[t][p] = "BEST" <=> best)

(* A second announcement of the same transaction by the same peer bails    *)
(* out when the first is BEST, and is otherwise refused by the uniqueness  *)
(* of the ByPeer index, where the new one would be (peer, false, t).       *)
ReceivedInv(p, t, preferred, reqtime) ==
    /\ caller = Nobody
    /\ ~InByPeer(p, TRUE, t)
    /\ ~InByPeer(p, FALSE, t)
    /\ st' = [st EXCEPT ![t][p] = "DELAYED"]
    /\ time' = [time EXCEPT ![t][p] = reqtime]
    /\ pref' = [pref EXCEPT ![t][p] = preferred]
    /\ arrivals' = [arrivals EXCEPT ![p] = Append(@, t)]
    /\ advice' = <<>>
    /\ UNCHANGED <<caller, now>>

(* The announcements of a peer belong to different transactions, so the    *)
(* rounds of the loop do not see each other.                               *)
DisconnectedPeer(p) ==
    /\ caller = Nobody
    /\ Become([t \in Txs |-> IF st[t][p] = "NONE" THEN st[t]
                             ELSE [MakeCompleted(st[t], t, p) EXCEPT ![p] = "NONE"]], time)
    /\ UNCHANGED <<caller, now>>

ForgetTxHash(t) ==
    /\ caller = Nobody
    /\ Become([st EXCEPT ![t] = [p \in Peers |-> "NONE"]], time)
    /\ UNCHANGED <<caller, now>>

(* Mutant: the request before it is a candidate again.                     *)
RequestedRow_BackToReady(row, p) ==
    [q \in Peers |-> IF q = p THEN "REQUESTED"
                     ELSE IF IsSelected(row[q]) THEN "READY" ELSE row[q]]

(* A request that was not advised, of a READY or DELAYED announcement,     *)
(* takes the mark from the BEST one or ends the request before it.         *)
RequestedRow(row, p) ==
    [q \in Peers |-> IF q = p THEN "REQUESTED"
                     ELSE IF row[p] = "BEST" THEN row[q]
                     ELSE IF row[q] = "BEST" THEN "READY"
                     ELSE IF row[q] = "REQUESTED" THEN "COMPLETED"
                     ELSE row[q]]

RequestedTx(p, t, expiry) ==
    /\ caller = Nobody
    /\ IsCandidate(st[t][p])
    /\ Become([st EXCEPT ![t] = RequestedRow(@, p)],
              [time EXCEPT ![t][p] = expiry])
    /\ UNCHANGED <<caller, now>>

ReceivedResponse(p, t) ==
    /\ caller = Nobody
    /\ st[t][p] # "NONE"
    /\ Become([st EXCEPT ![t] = MakeCompleted(@, t, p)], time)
    /\ UNCHANGED <<caller, now>>

-----------------------------------------------------------------------------
(* GetRequestable, with SetTimePoint.                                      *)

GetRequestable(p, n) ==
    /\ caller = Nobody
    /\ caller' = p /\ now' = n /\ advice' = <<>>
    /\ UNCHANGED <<st, time, pref, arrivals>>

(* The front of the ByTime index, if its time has come.                    *)
IsDue(t, p) ==
    /\ IsWaiting(st[t][p]) /\ time[t][p] <= now
    /\ \A u \in Txs, q \in Peers : IsWaiting(st[u][q]) => time[t][p] <= time[u][q]

Promote(p, t) ==
    /\ caller # Nobody
    /\ IsDue(t, p) /\ st[t][p] = "DELAYED"
    /\ st' = [st EXCEPT ![t] = PromoteCandidateReady(@, t, p)]
    /\ UNCHANGED <<time, pref, arrivals, caller, now, advice>>

Expire(p, t) ==
    /\ caller # Nobody
    /\ IsDue(t, p) /\ st[t][p] = "REQUESTED"
    /\ Become([st EXCEPT ![t] = MakeCompleted(@, t, p)], time)
    /\ UNCHANGED <<caller, now>>

NoneIsDue == \A t \in Txs, p \in Peers : IsWaiting(st[t][p]) => time[t][p] > now

(* The back of the ByTime index, if the clock went backwards past it.      *)
IsAhead(t, p) ==
    /\ IsSelectable(st[t][p]) /\ time[t][p] > now
    /\ \A u \in Txs, q \in Peers : IsSelectable(st[u][q]) => time[t][p] >= time[u][q]

(* Mutant: the clock is taken never to go backwards.                       *)
NoneIsAhead_Never == TRUE

NoneIsAhead == \A t \in Txs, p \in Peers : IsSelectable(st[t][p]) => time[t][p] <= now

Demote(p, t) ==
    /\ caller # Nobody /\ NoneIsDue
    /\ IsAhead(t, p)
    /\ st' = [st EXCEPT ![t] = ChangeAndReselect(@, t, p, "DELAYED")]
    /\ UNCHANGED <<time, pref, arrivals, caller, now, advice>>

Return ==
    /\ caller # Nobody /\ NoneIsDue /\ NoneIsAhead
    /\ advice' = InOrder(arrivals[caller], {t \in Txs : st[t][caller] = "BEST"})
    /\ caller' = Nobody /\ now' = 0
    /\ UNCHANGED <<st, time, pref, arrivals>>

SetTimePoint == \E p \in Peers, t \in Txs : Promote(p, t) \/ Expire(p, t) \/ Demote(p, t)

-----------------------------------------------------------------------------
Next ==
    \/ \E p \in Peers, t \in Txs :
          \/ \E n \in Times, b \in BOOLEAN : <<p, t, b>> \in Offers /\ ReceivedInv(p, t, b, n)
          \/ \E n \in Times : RequestedTx(p, t, n)
          \/ ReceivedResponse(p, t)
    \/ \E p \in Peers : DisconnectedPeer(p) \/ \E n \in Times : GetRequestable(p, n)
    \/ \E t \in Txs : ForgetTxHash(t)
    \/ SetTimePoint
    \/ Return

Spec == Init /\ [][Next]_vars

-----------------------------------------------------------------------------
(* Properties.                                                             *)

SelectedPeers(t) == {p \in Peers : IsSelected(st[t][p])}

\* The assertions of SanityCheck, after every operation and after every round
\* of SetTimePoint: failed announcements do not stay alone, at most one
\* announcement is selected, one is selected whenever one is ready, and a
\* BEST one is better than every ready one.
SanityCheck ==
    \A t \in Txs :
       /\ (\E p \in Peers : st[t][p] = "COMPLETED")
             => \E p \in Peers : ~IsOver(st[t][p])
       /\ \A p, q \in SelectedPeers(t) : p = q
       /\ \A p \in Peers : st[t][p] = "READY" => SelectedPeers(t) # {}
       /\ \A p, q \in Peers : st[t][p] = "READY" /\ st[t][q] = "BEST" => Better(t, q, p)

\* A transaction is not asked for twice from the same peer unless the
\* announcement was forgotten in between: whatever the callers and the clock
\* do, one that was requested or has failed is not a candidate again.
NotRequestedTwice ==
    [][\A t \in Txs, p \in Peers :
          /\ st[t][p] = "REQUESTED" => ~IsCandidate(st'[t][p])
          /\ st[t][p] = "COMPLETED" => st'[t][p] \in {"COMPLETED", "NONE"}]_vars

(* The announcements without the marks.                                    *)
Plain(s) == IF IsCandidate(s) THEN "CANDIDATE" ELSE s
Ann == [t \in Txs |-> [p \in Peers |-> Plain(st[t][p])]]
Rules == INSTANCE TxRequestRules WITH ann <- Ann

\* The tracker follows the rules of its interface comment: GetRequestable,
\* reading the marks that every operation has moved along, advises exactly
\* what choosing afresh among all the announcements would.
ImplementsRules == Rules!Spec
=============================================================================
