--------------------------- MODULE TxRequestRules ---------------------------
(***************************************************************************)
(* What TxRequestTracker promises, in the terms of the interface comment   *)
(* of txrequest.h: announcements are CANDIDATE, REQUESTED or COMPLETED,    *)
(* and whom to ask for a transaction is decided from scratch, by looking   *)
(* at all its announcements, at the moment a caller wants to know.         *)
(***************************************************************************)
EXTENDS Naturals, Sequences

CONSTANTS Peers, Txs, Times,
          Rank,      \* [Txs -> [Peers -> Nat]]: the salted hash that breaks ties
          Nobody

VARIABLES ann,       \* [Txs -> [Peers -> the state of the announcement]]
          time,      \* its reqtime, or its expiry once requested
          pref,      \* its preferred flag
          arrivals,  \* [Peers -> Seq(Txs)]: its announcements, oldest first
          caller,    \* the peer GetRequestable is running for, or Nobody
          now,       \* the time it was given
          advice     \* what the last operation returned

ruleVars == <<ann, time, pref, arrivals, caller, now, advice>>

Init ==
    /\ ann = [t \in Txs |-> [p \in Peers |-> "NONE"]]
    /\ time = [t \in Txs |-> [p \in Peers |-> 0]]
    /\ pref = [t \in Txs |-> [p \in Peers |-> FALSE]]
    /\ arrivals = [p \in Peers |-> <<>>]
    /\ caller = Nobody /\ now = 0 /\ advice = <<>>

(* A preferred announcement is better than one that is not; among equals   *)
(* the hash decides.                                                       *)
Better(t, p, q) ==
    \/ pref[t][p] /\ ~pref[t][q]
    \/ pref[t][p] = pref[t][q] /\ Rank[t][p] > Rank[t][q]

(* The elements of a sequence that are in a set, in their order.           *)
InOrder(s, S) ==
    LET F[i \in 0..Len(s)] ==
            IF i = 0 THEN <<>> ELSE IF s[i] \in S THEN Append(F[i - 1], s[i]) ELSE F[i - 1]
    IN  F[Len(s)]

(* The time and the flag of such an announcement do not matter any more.   *)
IsOver(a) == a \in {"NONE", "COMPLETED"}

(* A transaction all of whose announcements have failed is forgotten.      *)
Cleaned(row) ==
    IF \A p \in Peers : IsOver(row[p])
    THEN [p \in Peers |-> "NONE"] ELSE row

Ready(t) == {p \in Peers : ann[t][p] = "CANDIDATE" /\ time[t][p] <= now}

Requestable(p) ==
    {t \in Txs : /\ p \in Ready(t)
                 /\ \A q \in Peers : ann[t][q] # "REQUESTED"
                 /\ \A q \in Ready(t) \ {p} : Better(t, p, q)}

(* The announcements become a, and the ones that are gone leave the queues.*)
Become(a, times) ==
    /\ ann' = a
    /\ time' = [t \in Txs |-> [p \in Peers |-> IF IsOver(a[t][p]) THEN 0 ELSE times[t][p]]]
    /\ pref' = [t \in Txs |-> [p \in Peers |-> ~IsOver(a[t][p]) /\ pref[t][p]]]
    /\ arrivals' = [p \in Peers |-> InOrder(arrivals[p], {t \in Txs : a[t][p] # "NONE"})]
    /\ advice' = <<>>

ReceivedInv(p, t, preferred, reqtime) ==
    /\ caller = Nobody
    /\ ann[t][p] = "NONE"
    /\ ann' = [ann EXCEPT ![t][p] = "CANDIDATE"]
    /\ time' = [time EXCEPT ![t][p] = reqtime]
    /\ pref' = [pref EXCEPT ![t][p] = preferred]
    /\ arrivals' = [arrivals EXCEPT ![p] = Append(@, t)]
    /\ advice' = <<>>
    /\ UNCHANGED <<caller, now>>

DisconnectedPeer(p) ==
    /\ caller = Nobody
    /\ Become([t \in Txs |-> Cleaned([ann[t] EXCEPT ![p] = "NONE"])], time)
    /\ UNCHANGED <<caller, now>>

ForgetTxHash(t) ==
    /\ caller = Nobody
    /\ Become([ann EXCEPT ![t] = [p \in Peers |-> "NONE"]], time)
    /\ UNCHANGED <<caller, now>>

(* At most one request is out for a transaction: an unexpected one takes   *)
(* the place of the one before it.                                         *)
RequestedTx(p, t, expiry) ==
    /\ caller = Nobody
    /\ ann[t][p] = "CANDIDATE"
    /\ Become([ann EXCEPT ![t] = [q \in Peers |-> IF q = p THEN "REQUESTED"
                                                  ELSE IF @[q] = "REQUESTED" THEN "COMPLETED"
                                                  ELSE @[q]]],
              [time EXCEPT ![t][p] = expiry])
    /\ UNCHANGED <<caller, now>>

ReceivedResponse(p, t) ==
    /\ caller = Nobody
    /\ ann[t][p] # "NONE"
    /\ Become([ann EXCEPT ![t] = Cleaned([@ EXCEPT ![p] = "COMPLETED"])], time)
    /\ UNCHANGED <<caller, now>>

Call(p, n) ==
    /\ caller = Nobody
    /\ caller' = p /\ now' = n /\ advice' = <<>>
    /\ UNCHANGED <<ann, time, pref, arrivals>>

Expire(p, t) ==
    /\ caller # Nobody
    /\ ann[t][p] = "REQUESTED" /\ time[t][p] <= now
    /\ Become([ann EXCEPT ![t] = Cleaned([@ EXCEPT ![p] = "COMPLETED"])], time)
    /\ UNCHANGED <<caller, now>>

Return ==
    /\ caller # Nobody
    /\ \A t \in Txs, p \in Peers : ann[t][p] = "REQUESTED" => time[t][p] > now
    /\ advice' = InOrder(arrivals[caller], Requestable(caller))
    /\ caller' = Nobody /\ now' = 0
    /\ UNCHANGED <<ann, time, pref, arrivals>>

Next ==
    \/ \E p \in Peers, t \in Txs :
          \/ \E n \in Times, b \in BOOLEAN : ReceivedInv(p, t, b, n)
          \/ \E n \in Times : RequestedTx(p, t, n)
          \/ ReceivedResponse(p, t) \/ Expire(p, t)
    \/ \E p \in Peers : DisconnectedPeer(p) \/ \E n \in Times : Call(p, n)
    \/ \E t \in Txs : ForgetTxHash(t)
    \/ Return

Spec == Init /\ [][Next]_ruleVars
=============================================================================
