SPECIFICATION FairGateSpec
CONSTANTS
    i1 = i1
    i2 = i2
    a1 = a1
    a2 = a2
    b1 = b1
    n1 = n1
    n2 = n2
    ha = ha
    hb = hb
    UnknownNode = UnknownNode
    Request <- MCRequest
    Instance <- MCInstance
    Node <- MCNode
    Http <- MCHttp
    InstanceOf <- MCInstanceOf
    SelectedNodes <- MCSelectedNodes
    CallsOf <- MCCallsOf
    Streamed <- MCStreamed
    Collective <- MCCollective
    MaxQueueDepth = 2
    Timed <- MCRequest
    Cancellable <- MCRequest
    Stoppable <- MCStoppable
CHECK_DEADLOCK FALSE
INVARIANTS
    GateTypeOK
    
    
    
PROPERTIES
    CollectiveIsDrained
    
