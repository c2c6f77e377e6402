SPECIFICATION FairSpec
CONSTANTS
    h1 = h1
    Handlers <- OneHandler
    MaxTraffic = 1
    MaxAlerts = 1
PROPERTY TearDownRuns
