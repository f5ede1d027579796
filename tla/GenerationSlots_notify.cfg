SPECIFICATION FairSpec
CONSTANTS
    i1 = i1
    i2 = i2
    r1 = r1
    r2 = r2
    r3 = r3
    r4 = r4
    n1 = n1
    n2 = n2
    UnknownNode = UnknownNode
    Request <- MCRequest
    Instance <- MCInstance
    Node <- MCNode
    InstanceOf <- MCInstanceOf
    SelectedNodes <- MCSelectedNodes
    MaxQueueDepth = 3
    Timed <- MCTimedWide
    Cancellable <- NoRequests
    Stoppable <- NoInstances
CHECK_DEADLOCK FALSE
INVARIANT
    NoLostWakeup
PROPERTY
    EveryWaitEnds
