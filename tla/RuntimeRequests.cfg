SPECIFICATION FairSpec
CONSTANTS
    Stream = {s1, s2}
    Plain = {p}
    NoRequest = NoRequest
INVARIANTS
    TypeOK
    CountAgrees
    
    QuietIsReady
    LockComesBack
PROPERTY
    CancelledStreamEnds
