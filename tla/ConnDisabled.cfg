CONSTANTS
    Links = {l1, l2, l3}
    None = None
    Unlimited = Unlimited
    Attempts = 0
    MaxReadErrors = 1
    TimeoutOn = TRUE
SPECIFICATION FairSpec
INVARIANT
    NeverStranded
PROPERTIES
    StoppedWindsDown
