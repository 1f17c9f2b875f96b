SPECIFICATION StoresSpec
CONSTANTS
    o1 = o1  o2 = o2  c1 = c1  c2 = c2  b1 = b1  b2 = b2
    t1 = t1  t2 = t2  a1 = a1  a2 = a2  x = x  pgp = pgp  bob = bob
    l1 = l1  l2 = l2  goods = goods
    d1 = d1  d2 = d2  tx1 = tx1  tx2 = tx2
    Outpoints <- TwoOutpoints
    Coins <- TwoCoins
    Blocks <- TwoBlocks
    Spent = Spent  NullBlock = NullBlock  Absent = Absent
    Threads <- TwoThreads
    Addresses <- TwoAddresses
    Services <- XAndPGP
    Identifiers <- OneIdentifier
    ProofStatuses <- VerifiedOnly
    PGP = pgp
    NoThread = NoThread  NoAddress = NoAddress
    NoIdentifier = NoIdentifier  NoIdentity = NoIdentity
    Listings <- TwoListings
    Categories <- OneCategory
    NoListing = NoListing  NoCategory = NoCategory
    Key <- Keys
    PruneLimit = 1
    MaxTime = 2
    Orders <- TwoOrders
    EscrowTxs <- TwoTxs
    NoOrder = NoOrder  NoTx = NoTx
    BatchFunding = FALSE
SYMMETRY Symmetry
INVARIANTS
    EntriesAreValid
    NeverMisapplied
    IndexSound
    ActiveIsFound
    EntriesLeadToListings
    EntriesLeadToOrders
    OnlyDeletedAreMissed
    EscrowTxLeadsToOrder
PROPERTIES
    ImplementsUtxoStack
    PruneMissesOnlyBeyondLimit
