CONSTANTS
    Links = {l1, l2, l3}
    None = None
    Unlimited = Unlimited
    Attempts = Unlimited
    MaxReadErrors = 2
    TimeoutOn = TRUE
SPECIFICATION Spec
INVARIANT LinkServiced
