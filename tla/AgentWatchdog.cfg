SPECIFICATION Spec
CONSTANTS
    ProbeInterval = 1
    FailureThreshold = 2
    BaseBackoff = 1
    MaxBackoff = 3
    RestartWindow = 4
    MaxRestarts = 2
    KeepaliveGrace = 1
    None = None
    MaxClock = 8
    MaxMaintenance = 1
CHECK_DEADLOCK FALSE
INVARIANTS
    TypeOK
    
    

    
