\* Two accounts, one of which has tokens that expire; two faults of any kind.
CONSTANTS
    Accounts = {a, b}
    Reports = {r1, r2}
    RetryAttempts = 2
    Expiring = {a}
    MaxToken = 1
    MaxFaults = 2
SPECIFICATION Spec
INVARIANTS
    TypeOK
    NoLostWakeup
    AuthorizedIsServed
PROPERTIES
    DropsAreReal
    CredentialsNeverGoBack
