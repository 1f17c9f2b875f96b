CONSTANTS
    g = g
    a1 = a1
    b1 = b1
    b2 = b2
    b3 = b3
    c2 = c2
    t1 = t1
    t2 = t2
    Blocks <- Fork
    Genesis = g
    NoBlock = NoBlock
    pprev <- ForkParents
    Path <- ForkPaths
    nHeight <- ForkHeights
    nChainWork <- ForkWork
    Address <- ForkAddresses
    Threads <- TwoThreads
    Refusable = {b2}
    MIN_BLOCKS_TO_KEEP = 1
    MinSequenceId <- LeastId
    MaxCommands = 1
SYMMETRY Symmetric
SPECIFICATION Spec
INVARIANT FailuresHaveACause
CHECK_DEADLOCK FALSE
