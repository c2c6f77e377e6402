SPECIFICATION FairSpec
CONSTANTS
    p1 = p1
    p2 = p2
    p3 = p3
    g1 = g1
    g2 = g2
    Keep = Keep
    None = None
    Puts <- TwoPuts
    Gets <- TwoGets
    Patch <- TwoPatches
    Initial <- MCInitial
    MaxCrashes = 1
INVARIANTS
    TypeOK
    FileCoherent
    StaleCacheDoomed
PROPERTIES
    RegisterSpec
    Converges
