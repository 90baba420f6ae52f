CONSTANTS
    Links = {l1, l2, l3}
    None = None
    Unlimited = Unlimited
    Attempts = 2
    MaxReadErrors = 2
    TimeoutOn = TRUE
SPECIFICATION Spec
INVARIANTS
    TypeOK
    NeverStranded
    OneReader
    OneHeartbeatLoop
    ClosedIsClean
PROPERTIES
    ListenerContractSafety
