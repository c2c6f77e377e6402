SPECIFICATION FairSpec
CONSTANTS
    Tokens <- MCTokens
    MaxSessions = 1
    Plain = 1
    Remembered = 2
    MaxTime = 3
    MaxFaults = 2
    MaxCrashes = 2
INVARIANTS
    TypeOK
    LogoutFinal
    RememberedKept
    CookieGood
    MapBounded
PROPERTY
    ExpiredRowsGo
CHECK_DEADLOCK FALSE
