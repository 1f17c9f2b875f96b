------------------------------ MODULE MCStores ------------------------------
(***************************************************************************)
(* The four key-value stores: coins, identities, listings and orders.      *)
(* They share no state, so it is enough that one of them moves while the   *)
(* others stay in their first state.                                       *)
(***************************************************************************)
EXTENDS CoinsCache, IdentityManager, ListingStore, OrderStore, TLC

CONSTANTS o1, o2, c1, c2, b1, b2,               \* outpoints, coins, blocks
          t1, t2, a1, a2, x, pgp, bob,          \* threads, addresses, claims
          l1, l2, goods,                        \* listings and a category
          d1, d2, tx1, tx2                      \* orders and transactions

TwoOutpoints == {o1, o2}
TwoCoins == {c1, c2}
TwoBlocks == {b1, b2}

TwoThreads == {t1, t2}
TwoAddresses == {a1, a2}
XAndPGP == {x, pgp}
OneIdentifier == {bob}
VerifiedOnly == {"verified"}

TwoListings == {l1, l2}
OneCategory == {goods}
Keys == l1 :> 1 @@ l2 :> 2

TwoOrders == {d1, d2}
TwoTxs == {tx1, tx2}

Symmetry == Permutations(TwoThreads) \cup Permutations(TwoAddresses)

StoresInit == Init /\ IdentityInit /\ ListingInit /\ OrderInit

StoresNext ==
    \/ /\ IdentityInit /\ ListingInit /\ OrderInit
       /\ Next /\ UNCHANGED <<identityVars, listingVars, orderVars>>
    \/ /\ Init /\ ListingInit /\ OrderInit
       /\ IdentityNext /\ UNCHANGED <<vars, listingVars, orderVars>>
    \/ /\ Init /\ IdentityInit /\ OrderInit
       /\ ListingNext /\ UNCHANGED <<vars, identityVars, orderVars>>
    \/ /\ Init /\ IdentityInit /\ ListingInit
       /\ OrderNext /\ UNCHANGED <<vars, identityVars, listingVars>>

StoresSpec == StoresInit /\ [][StoresNext]_<<vars, identityVars, listingVars, orderVars>>
=============================================================================
