SPECIFICATION FairSpec
CONSTANTS
    MaxAccounts = 3
    MaxCalls = 6
    MaxDisturbances = 1
INVARIANTS TypeOK UnlockFollowsSecrets SecretsMatchSession SignedByShown
PROPERTY SessionEnds
CHECK_DEADLOCK FALSE
