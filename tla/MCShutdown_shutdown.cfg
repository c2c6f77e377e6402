SPECIFICATION FairSpec
CONSTANTS
    h1 = h1
    Handlers <- OneHandler
    MaxTraffic = 2
    MaxAlerts = 1
INVARIANT TypeOK
INVARIANT AllFlushed
INVARIANT LateOnlyIfAbandoned
PROPERTY ShutdownCompletes
