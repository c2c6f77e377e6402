SPECIFICATION FairSpec
CONSTANTS
    w1 = w1
    w2 = w2
    NoJob = NoJob
    Workers <- TwoWorkers
    QueueSize = 2
    MaxJobs = 3
    DialTimeout = 1
    OverallTimeout = 3
    CloseTimeout = 4
INVARIANT DeliveryTypeOK
INVARIANT JobsAccounted
INVARIANT DrainedOnClose
PROPERTY WorkersEnd
PROPERTY EventuallyOffered
