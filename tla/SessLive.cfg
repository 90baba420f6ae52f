\* One account, two reports at a time, one rotation, two faults of any kind.
CONSTANTS
    Accounts = {a}
    Reports = {r1, r2}
    RetryAttempts = 2
    Expiring = {a}
    MaxToken = 1
    MaxFaults = 2
SPECIFICATION FairSpec
PROPERTIES
    RecoveryCompletes
    ReportsSettle
