SPECIFICATION FairSpec
CONSTANTS
    w1 = w1
    w2 = w2
    Coordinator = Coordinator
    Worker <- MCOneWorker
    Lapsing <- MCNode
    Lossy = TRUE
CHECK_DEADLOCK FALSE
PROPERTY
    OrphanedRanksEnd
