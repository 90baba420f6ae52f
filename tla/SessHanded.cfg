\* One account that cannot be restored on a new link.
CONSTANTS
    Accounts = {a}
    Reports = {r1}
    RetryAttempts = 1
    Expiring = {}
    MaxToken = 0
    MaxFaults = 2
SPECIFICATION Spec
PROPERTIES
    HandedToRecovery
