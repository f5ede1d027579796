SPECIFICATION Spec
CONSTANTS
    w1 = w1
    w2 = w2
    Coordinator = Coordinator
    Worker <- MCOneWorker
    Lapsing <- MCNowhere
    Lossy = FALSE
CHECK_DEADLOCK FALSE
INVARIANTS
    StopReachesEveryRank
