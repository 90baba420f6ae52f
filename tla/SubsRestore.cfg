CONSTANTS
    Symbols = {s}
    Periods = {p1, p2}
    Callers = {c1}
    Restores = {r1, r2}
    MaxTrouble = 2
SPECIFICATION FairSpec
INVARIANTS
    TypeOK
    FeedMatchesIntent
PROPERTIES
    IntentKept
    SessionAnnounced
