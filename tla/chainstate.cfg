SPECIFICATION Spec
CONSTANTS
    g = g  a = a  b = b  c = c  d = d
    Outpoints = {1, 2, 3, 4, 5}
    Blocks <- FiveBlocks
    Genesis = g
    NoBlock = NoBlock
    Parent <- Fork
    Path <- ForkPaths
    Height <- ForkHeights
    Txs <- ForkTxs
INVARIANTS
    CoinsAreTheTips
    DatabaseIsExact
    MixtureOfTwo
    CanRestart
