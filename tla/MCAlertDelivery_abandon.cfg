SPECIFICATION DeliverySpec
CONSTANTS
    w1 = w1
    w2 = w2
    NoJob = NoJob
    Workers <- OneWorker
    QueueSize = 2
    MaxJobs = 3
    DialTimeout = 2
    OverallTimeout = 6
    CloseTimeout = 7
PROPERTY InFlightNotAbandoned
