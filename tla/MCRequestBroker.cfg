SPECIFICATION FairSpec
CONSTANTS
    NumWorkers = 3
    MaxRequests = 3
    MaxSpurious = 2
INVARIANTS TypeOK NoLostWakeup FrontExists StoppedMeansIdle
PROPERTIES ImplementsWorkQueue QueuedIsHandled StopReturns
