CONSTANTS
    None = None
    Fine = 10
    a1 = a1
    a2 = a2
    h = h
    s1 = s1
    s2 = s2
    Account = a1
    Serials = {1, 2}
    Subs <- MCSubs
    Class <- MCClass
    Handler <- MCHandler
    Filter <- MCFilter
    Pushes <- MCPushes
    Changes <- MCChanges
    Truths <- MCTruths
SPECIFICATION FairSpec
INVARIANTS
    TypeOK
    ServedOrQuiet
    HandledOnce
    AnswerIsHonest
    BookIsAsAsked
    ReadsAreTrue
PROPERTIES
    ToldInFull
    ExitCompletes
    MessagesAreRead
