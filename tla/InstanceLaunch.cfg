SPECIFICATION Spec
CONSTANTS
    w1 = w1
    w2 = w2
    Coordinator = Coordinator
    Worker <- MCTwoWorkers
    Lapsing <- MCFirstWorker
    Lossy = TRUE
CHECK_DEADLOCK FALSE
INVARIANTS
    TypeOK
    
    RunningIsReserved
