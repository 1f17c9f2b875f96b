---------------------------- MODULE ListingStore ----------------------------
(***************************************************************************)
(* The LevelDB store of marketplace listings: a record per listing ('L'    *)
(* keys) and index entries by category, by seller and for the active ones. *)
(* Entries are written only while a listing is ACTIVE and are removed only *)
(* when it is deleted.  Deleting takes two batches and PruneExpired one    *)
(* per expired listing; a crash may fall between any two.                  *)
(*                                                                         *)
(* A listing id is the hash of the seller, the title, the creation time    *)
(* and a nonce, so the entries by seller and by creation time are given by *)
(* the id alone; category, status and expiry may change under one id.      *)
(***************************************************************************)
EXTENDS Naturals, FiniteSets

CONSTANTS Listings, Categories, NoListing,
          NoCategory,   \* the empty category string
          Key,          \* [Listings -> Nat]: the order of their 'L' keys
          PruneLimit,   \* how many listings PruneExpired reads, 10000
          MaxTime

(* OTHER stands for DRAFT, PENDING_SALE, SOLD and CANCELLED, which the     *)
(* store does not tell apart.                                              *)
ListingStatuses == {"ACTIVE", "EXPIRED", "OTHER"}

Times == 0 .. MaxTime

Listing == [status : ListingStatuses, category : Categories \cup {NoCategory}, expiresAt : Times]

ASSUME ListingAssumption ==
    /\ NoListing \notin Listings /\ NoListing \notin Listing
    /\ NoCategory \notin Categories
    /\ Key \in [Listings -> Nat] /\ PruneLimit \in Nat
    /\ \A k, id \in Listings : Key[k] = Key[id] => k = id
    /\ MaxTime \in Nat \ {0}

VARIABLES listing,    \* [Listings -> Listing \cup {NoListing}]
          byCategory, \* SUBSET (Categories \X Listings): index entries
          bySeller,   \* SUBSET Listings: index entries
          active,     \* SUBSET Listings: index entries
          now,        \* the clock
          op,         \* "idle", "delete" or "prune"
          todo,       \* the listings the operation under way has still to write
          tornListings \* listings whose deletion was cut short (history)

listingVars == <<listing, byCategory, bySeller, active, now, op, todo, tornListings>>

StoredListings == {id \in Listings : listing[id] # NoListing}

IsExpired(l, t) == l.expiresAt > 0 /\ t > l.expiresAt

ListingInit ==
    /\ listing = [id \in Listings |-> NoListing]
    /\ byCategory = {} /\ bySeller = {} /\ active = {}
    /\ now = 1
    /\ op = "idle" /\ todo = {} /\ tornListings = {}

Entries(id, l) == ({l.category} \ {NoCategory}) \X {id}

(* Mutant: entries are written only when the listing was not ACTIVE yet.   *)
WriteListing_OnPublish(id, l) ==
    /\ listing' = [listing EXCEPT ![id] = l]
    /\ IF l.status = "ACTIVE" /\ (id \in StoredListings => listing[id].status # "ACTIVE")
       THEN /\ byCategory' = byCategory \cup Entries(id, l)
            /\ bySeller' = bySeller \cup {id}
            /\ active' = active \cup {id}
       ELSE UNCHANGED <<byCategory, bySeller, active>>
    /\ tornListings' = IF l.status = "ACTIVE" THEN tornListings \ {id} ELSE tornListings

(* One batch: the record, and its index entries if it is ACTIVE.           *)
WriteListing(id, l) ==
    /\ listing' = [listing EXCEPT ![id] = l]
    /\ IF l.status = "ACTIVE"
       THEN /\ byCategory' = byCategory \cup Entries(id, l)
            /\ bySeller' = bySeller \cup {id}
            /\ active' = active \cup {id}
       ELSE UNCHANGED <<byCategory, bySeller, active>>
    /\ tornListings' = IF l.status = "ACTIVE" THEN tornListings \ {id} ELSE tornListings

(* A caller publishes a listing or stores an edited one.                   *)
Publish(id, l) ==
    /\ op = "idle"
    /\ WriteListing(id, l)
    /\ UNCHANGED <<now, op, todo>>

(* Mutant: only the entries of an ACTIVE listing are removed.              *)
RemoveListingIndexes_IfActive(id) ==
    IF listing[id].status = "ACTIVE"
    THEN /\ byCategory' = byCategory \ Entries(id, listing[id])
         /\ bySeller' = bySeller \ {id}
         /\ active' = active \ {id}
    ELSE UNCHANGED <<byCategory, bySeller, active>>

RemoveListingIndexes(id) ==
    /\ byCategory' = byCategory \ Entries(id, listing[id])
    /\ bySeller' = bySeller \ {id}
    /\ active' = active \ {id}

DeleteListing(id) ==
    /\ op = "idle"
    /\ id \in StoredListings
    /\ RemoveListingIndexes(id)
    /\ op' = "delete" /\ todo' = {id}
    /\ UNCHANGED <<listing, now, tornListings>>

EraseListing ==
    /\ op = "delete"
    /\ listing' = [id \in Listings |-> IF id \in todo THEN NoListing ELSE listing[id]]
    /\ op' = "idle" /\ todo' = {}
    /\ tornListings' = tornListings \ todo
    /\ UNCHANGED <<byCategory, bySeller, active, now>>

(* The first listings in the order of the keys.                            *)
GetAllListings(limit) ==
    {id \in StoredListings : Cardinality({k \in StoredListings : Key[k] < Key[id]}) < limit}

(* Mutant: a listing is kept for one more unit of time.                    *)
ToPrune_Late(t) ==
    {id \in GetAllListings(PruneLimit) :
        IsExpired(listing[id], t - 1) /\ listing[id].status = "ACTIVE"}

ToPrune(t) ==
    {id \in GetAllListings(PruneLimit) :
        IsExpired(listing[id], t) /\ listing[id].status = "ACTIVE"}

PruneExpired ==
    /\ op = "idle"
    /\ op' = "prune" /\ todo' = ToPrune(now)
    /\ UNCHANGED <<listing, byCategory, bySeller, active, now, tornListings>>

PruneOne ==
    /\ op = "prune"
    /\ \E id \in todo :
          /\ WriteListing(id, [listing[id] EXCEPT !.status = "EXPIRED"])
          /\ todo' = todo \ {id}
    /\ UNCHANGED <<now, op>>

PruneReturns ==
    /\ op = "prune" /\ todo = {}
    /\ op' = "idle"
    /\ UNCHANGED <<listing, byCategory, bySeller, active, now, todo, tornListings>>

ListingCrash ==
    /\ op # "idle"
    /\ op' = "idle" /\ todo' = {}
    /\ tornListings' = IF op = "delete" THEN tornListings \cup todo ELSE tornListings
    /\ UNCHANGED <<listing, byCategory, bySeller, active, now>>

(* PruneExpired is given the time once, before its loop.                   *)
Tick ==
    /\ op = "idle"
    /\ now < MaxTime
    /\ now' = now + 1
    /\ UNCHANGED <<listing, byCategory, bySeller, active, op, todo, tornListings>>

ListingNext ==
    \/ \E id \in Listings, l \in Listing : Publish(id, l)
    \/ \E id \in Listings : DeleteListing(id)
    \/ EraseListing
    \/ PruneExpired
    \/ PruneOne
    \/ PruneReturns
    \/ ListingCrash
    \/ Tick

ListingSpec == ListingInit /\ [][ListingNext]_listingVars

-----------------------------------------------------------------------------
GetByCategory(c) == {id \in StoredListings : <<c, id>> \in byCategory}

GetBySeller == bySeller \cap StoredListings

GetActive == {id \in active \cap StoredListings : listing[id].status = "ACTIVE"}

IsActive(id) == id \in StoredListings /\ listing[id].status = "ACTIVE"

-----------------------------------------------------------------------------
(* What the keys and values of the database can be.                        *)
ListingTypeOK ==
    /\ listing \in [Listings -> Listing \cup {NoListing}]
    /\ byCategory \subseteq Categories \X Listings
    /\ bySeller \subseteq Listings /\ active \subseteq Listings
    /\ now \in Times
    /\ op \in {"idle", "delete", "prune"}
    /\ todo \subseteq Listings /\ tornListings \subseteq Listings

(* No ACTIVE listing is lost from view by edits, prunes, crashes and       *)
(* retries: unless a deletion of it is under way or was cut short, it is   *)
(* returned by GetActive, GetBySeller and, if it has a category, by        *)
(* GetByCategory.                                                          *)
ActiveIsFound ==
    \A id \in Listings :
        IsActive(id) /\ id \notin tornListings /\ (op = "delete" => id \notin todo) =>
            /\ id \in GetActive
            /\ id \in GetBySeller
            /\ listing[id].category # NoCategory => id \in GetByCategory(listing[id].category)

(* Deleting leaves no entry by seller or in the list of active ones that   *)
(* leads nowhere.                                                          *)
EntriesLeadToListings == active \cup bySeller \subseteq StoredListings

(* When PruneExpired returns, having run once or been cut short and        *)
(* repeated, an ACTIVE listing that is past the time it was called with is *)
(* left only if at least PruneLimit listings, of any status, have keys     *)
(* before its own: those PruneExpired does not read.                       *)
PruneMissesOnlyBeyondLimit ==
    [][PruneReturns =>
         \A id \in StoredListings :
             IsActive(id) /\ IsExpired(listing[id], now) =>
                 id \notin GetAllListings(PruneLimit)]_listingVars
=============================================================================
