SPECIFICATION Spec
CONSTANTS
  p1 = p1
  p2 = p2
  p3 = p3
  t1 = t1
  t2 = t2
  Nobody = Nobody
  Peers <- ThreePeers
  Txs <- TwoTxs
  Offers <- AllOfOneAndAnother
  Rank <- FixedRank
  Times = {1, 2}
INVARIANTS
  SanityCheck
PROPERTIES
  NotRequestedTwice
  ImplementsRules
