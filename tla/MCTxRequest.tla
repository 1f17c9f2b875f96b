---------------------------- MODULE MCTxRequest ----------------------------
(***************************************************************************)
(* Three peers announce one transaction, and one of them another.  The     *)
(* peer with the lowest rank may be a preferred one or not.                *)
(***************************************************************************)
EXTENDS TxRequest, TLC

CONSTANTS p1, p2, p3, t1, t2

ThreePeers == {p1, p2, p3}
TwoTxs == {t1, t2}
AllOfOneAndAnother == {<<p1, t1, TRUE>>, <<p1, t1, FALSE>>, <<p2, t1, FALSE>>,
                       <<p3, t1, FALSE>>, <<p1, t2, FALSE>>}
FixedRank == (t1 :> (p1 :> 1 @@ p2 :> 2 @@ p3 :> 3)) @@ (t2 :> (p1 :> 3 @@ p2 :> 2 @@ p3 :> 1))
=============================================================================
