CONSTANTS
    relay = relay
    t1 = t1
    t2 = t2
    d1 = d1
    Servers <- OneServer
    Tools <- TwoTools
    Devices <- OneDevice
    MaxEpoch = 3
    MaxFaults = 1
    MaxKeys = 2
    MaxCommits = 3

SPECIFICATION MCSpec
CHECK_DEADLOCK FALSE

INVARIANTS
    SchemaMatchesVersion
    RevocationEpochIsFirst
    BackupIsOneCommit
    RestoreIsWhole
    FailedRestoreLeavesNothing
    WorkspaceHasItsKey
PROPERTIES
    OpensInTheEnd
