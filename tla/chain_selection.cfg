CONSTANTS
    g = g
    a1 = a1
    b1 = b1
    b2 = b2
    b3 = b3
    c2 = c2
    t1 = t1
    t2 = t2
    Blocks <- Tree
    Genesis = g
    NoBlock = NoBlock
    pprev <- Parents
    Path <- Paths
    nHeight <- Heights
    nChainWork <- Work
    Address <- Addresses
    Threads <- TwoThreads
    Refusable = {b2}
    MIN_BLOCKS_TO_KEEP = 1
    MinSequenceId <- LeastId
    MaxCommands = 2
SYMMETRY Symmetric
SPECIFICATION Spec
INVARIANTS
    NoStepBack
    UnlinkedIsExact
    ActiveChainIsValid
    CandidatesAreExact
    TipIsBest
CHECK_DEADLOCK FALSE
