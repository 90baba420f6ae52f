CONSTANTS
    Callers = {c1, c2}
    MaxIds = 3
    MaxAnswers = 1
SPECIFICATION FairSpec
INVARIANTS
    TypeOK
    SlotPerCall
    OwnAnswer
    NobodyLeftWaiting
    LockMatchesWriters
PROPERTIES
    EveryCallEnds
