SPECIFICATION FairSpec
CONSTANTS
    Hosts = {1, 2}
    Calls <- Crossed
    MaxCount = 0
    MaxCalls = 2
    MaxSecrets = 2
    MaxDamaged = 1
INVARIANTS InitiatorHasPeer OneDirection KeysAgreeIfOnce NoneRefused
PROPERTIES InitiateReturns
CHECK_DEADLOCK FALSE
