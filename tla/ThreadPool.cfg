SPECIFICATION FairSpec
CONSTANTS
    Workers = 3
    MaxPackets = 3
CHECK_DEADLOCK FALSE
INVARIANTS NoLostWakeup
PROPERTIES ImplementsTaskPool AcceptedIsHandled StopReturns
