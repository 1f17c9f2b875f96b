----------------------------- MODULE OrderStore -----------------------------
(***************************************************************************)
(* The LevelDB store of marketplace orders: a record per order ('O' keys)  *)
(* and index entries by buyer, by seller, by listing and by escrow         *)
(* transaction.  A write is one atomic batch.  A deletion is two: the      *)
(* batch of RemoveIndexes is committed before the batch that erases the    *)
(* record, and a crash or a database error may fall between them.          *)
(*                                                                         *)
(* An order id is the hash of the buyer, the seller and the listing (among *)
(* others), so these never change under one id and an index entry by one   *)
(* of them is given by the id alone.  The escrow transaction is set later. *)
(***************************************************************************)
CONSTANTS Orders, EscrowTxs, NoOrder, NoTx,
          BatchFunding    \* may one transaction fund the escrows of several orders?

Parties == {"buyer", "seller", "listing"}

OrderStatuses == {"CREATED", "FUNDED", "SHIPPED", "DELIVERED", "COMPLETED",
             "DISPUTED", "REFUNDED", "CANCELLED", "EXPIRED"}

Order == [status : OrderStatuses, escrowTxid : EscrowTxs \cup {NoTx}]

ASSUME OrderAssumption ==
    /\ NoOrder \notin Orders /\ NoOrder \notin Order
    /\ NoTx \notin EscrowTxs
    /\ BatchFunding \in BOOLEAN

VARIABLES order,    \* [Orders -> Order \cup {NoOrder}]
          party,    \* [Parties -> SUBSET Orders]: index entries
          escrow,   \* [EscrowTxs -> Orders \cup {NoOrder}]: index entries
          deleting, \* the order whose indexes are gone and whose record is not
          tornOrders \* orders whose deletion was cut short (history)

orderVars == <<order, party, escrow, deleting, tornOrders>>

StoredOrders == {id \in Orders : order[id] # NoOrder}

OrderInit ==
    /\ order = [id \in Orders |-> NoOrder]
    /\ party = [k \in Parties |-> {}]
    /\ escrow = [tx \in EscrowTxs |-> NoOrder]
    /\ deleting = NoOrder
    /\ tornOrders = {}

(* Mutant: the listing entry is written only for a new order.              *)
WriteOrder_NoListing(id, o) ==
    /\ deleting = NoOrder
    /\ order' = [order EXCEPT ![id] = o]
    /\ party' = [k \in Parties |-> IF k = "listing" /\ order[id] # NoOrder
                                   THEN party[k] ELSE party[k] \cup {id}]
    /\ escrow' = IF o.escrowTxid = NoTx THEN escrow ELSE [escrow EXCEPT ![o.escrowTxid] = id]
    /\ tornOrders' = tornOrders \ {id}
    /\ UNCHANGED deleting

(* Mutant: the escrow entry is written only while the order is CREATED.    *)
WriteOrder_CreatedOnly(id, o) ==
    /\ deleting = NoOrder
    /\ order' = [order EXCEPT ![id] = o]
    /\ party' = [k \in Parties |-> party[k] \cup {id}]
    /\ escrow' = IF o.status # "CREATED" \/ o.escrowTxid = NoTx THEN escrow
                 ELSE [escrow EXCEPT ![o.escrowTxid] = id]
    /\ tornOrders' = tornOrders \ {id}
    /\ UNCHANGED deleting

(* One batch: the record and its index entries.  Entries of an earlier     *)
(* version of the record are not removed.                                  *)
WriteOrder(id, o) ==
    /\ deleting = NoOrder
    /\ order' = [order EXCEPT ![id] = o]
    /\ party' = [k \in Parties |-> party[k] \cup {id}]
    /\ escrow' = IF o.escrowTxid = NoTx THEN escrow ELSE [escrow EXCEPT ![o.escrowTxid] = id]
    /\ tornOrders' = tornOrders \ {id}
    /\ UNCHANGED deleting

CreateOrder(id) ==
    /\ order[id] = NoOrder
    /\ WriteOrder(id, [status |-> "CREATED", escrowTxid |-> NoTx])

CanFund(id) == order[id] # NoOrder /\ order[id].status = "CREATED"

(* The buyer's funding transaction is known: the caller stores its id.     *)
FundOrder(id, tx) ==
    /\ CanFund(id)
    /\ BatchFunding \/ \A other \in StoredOrders : order[other].escrowTxid # tx
    /\ WriteOrder(id, [order[id] EXCEPT !.status = "FUNDED", !.escrowTxid = tx])

(* Any status may follow any other; callers do not return to CREATED.      *)
UpdateOrderStatus(id, s) ==
    /\ order[id] # NoOrder
    /\ WriteOrder(id, [order[id] EXCEPT !.status = s])

(* Mutant: the escrow entry is forgotten.                                  *)
RemoveOrderIndexes_NoEscrow(id) ==
    /\ party' = [k \in Parties |-> party[k] \ {id}]
    /\ UNCHANGED escrow

(* What RemoveIndexes erases, in one batch of its own.                     *)
RemoveOrderIndexes(id) ==
    /\ party' = [k \in Parties |-> party[k] \ {id}]
    /\ escrow' = IF order[id].escrowTxid = NoTx THEN escrow
                 ELSE [escrow EXCEPT ![order[id].escrowTxid] = NoOrder]

DeleteOrder(id) ==
    /\ deleting = NoOrder
    /\ order[id] # NoOrder
    /\ RemoveOrderIndexes(id)
    /\ deleting' = id
    /\ UNCHANGED <<order, tornOrders>>

(* The batch built first and written last.                                 *)
EraseOrder ==
    /\ deleting # NoOrder
    /\ order' = [order EXCEPT ![deleting] = NoOrder]
    /\ deleting' = NoOrder
    /\ tornOrders' = tornOrders \ {deleting}
    /\ UNCHANGED <<party, escrow>>

OrderCrash ==
    /\ deleting # NoOrder
    /\ deleting' = NoOrder
    /\ tornOrders' = tornOrders \cup {deleting}
    /\ UNCHANGED <<order, party, escrow>>

OrderNext ==
    \/ \E id \in Orders : CreateOrder(id)
    \/ \E id \in Orders, tx \in EscrowTxs : FundOrder(id, tx)
    \/ \E id \in Orders, s \in OrderStatuses \ {"CREATED"} : UpdateOrderStatus(id, s)
    \/ \E id \in Orders : DeleteOrder(id)
    \/ EraseOrder
    \/ OrderCrash

OrderSpec == OrderInit /\ [][OrderNext]_orderVars

-----------------------------------------------------------------------------
GetByParty(k) == party[k] \cap StoredOrders

GetOrderByEscrowTx(tx) ==
    IF escrow[tx] = NoOrder \/ order[escrow[tx]] = NoOrder THEN NoOrder ELSE escrow[tx]

-----------------------------------------------------------------------------
(* What the keys and values of the database can be.                        *)
OrderTypeOK ==
    /\ order \in [Orders -> Order \cup {NoOrder}]
    /\ party \in [Parties -> SUBSET Orders]
    /\ escrow \in [EscrowTxs -> Orders \cup {NoOrder}]
    /\ deleting \in Orders \cup {NoOrder}
    /\ tornOrders \subseteq Orders

(* Deleting an order leaves nothing behind, wherever the deletion is cut   *)
(* short and retried: every index entry, by buyer, seller, listing or      *)
(* escrow transaction, leads to a stored order with that key.              *)
EntriesLeadToOrders ==
    /\ \A k \in Parties : party[k] \subseteq StoredOrders
    /\ \A tx \in EscrowTxs : escrow[tx] # NoOrder =>
          escrow[tx] \in StoredOrders /\ order[escrow[tx]].escrowTxid = tx

(* What the indexes still promise in spite of a crash: the only stored     *)
(* orders that a query by party misses are the one being deleted and those *)
(* whose deletion was cut short, and a new write of such an order, as      *)
(* UpdateOrderStatus makes, brings it back.                                *)
OnlyDeletedAreMissed ==
    \A k \in Parties : StoredOrders \ party[k] = tornOrders \cup ({deleting} \ {NoOrder})

(* "Provides indexed access by ... escrow transaction": an order that is   *)
(* neither being deleted nor torn is what its escrow transaction leads to. *)
EscrowTxLeadsToOrder ==
    \A id \in StoredOrders \ (tornOrders \cup {deleting}) :
        order[id].escrowTxid # NoTx => GetOrderByEscrowTx(order[id].escrowTxid) = id
=============================================================================
