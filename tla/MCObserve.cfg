SPECIFICATION MCSpec
CONSTANTS
    t1 = t1
    t2 = t2
    f1 = f1
    f2 = f2
    m1 = m1
    a1 = a1
    w1 = w1
    w2 = w2
    k1 = k1
    k2 = k2
    k3 = k3
    o1 = o1
    o2 = o2
    NoWaker = NoWaker
    Nothing = Nothing
    Threads <- TwoThreads
    Futures <- ThreeFutures
    Adapters <- OneAdapter
    Wakers <- TwoWakers
    Panicking <- OnePanics
    Affine <- OneAffine
    Casts <- Pairs
    MaxSpurious = 1
    Keys <- ThreeKeys
    Handles <- TwoHandles
    MaxGeneration = 3
    PoolCap = 1
    InlineCap = 2
    Hostile <- FirstHostile
CHECK_DEADLOCK FALSE
INVARIANTS
    WaitersExact
    OutcomeOnce
    GenerationsExact
PROPERTIES
    WaitersServed
