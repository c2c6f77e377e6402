SPECIFICATION Spec
CONSTANTS
    p1 = p1
    p2 = p2
    p3 = p3
    g1 = g1
    g2 = g2
    Keep = Keep
    None = None
    Puts <- ThreePuts
    Gets <- NoGets
    Patch <- ThreePatches
    Initial <- MCInitial
    MaxCrashes = 0
INVARIANT SplitInEffect
