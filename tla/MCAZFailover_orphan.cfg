\* One instance per AZ: a second failoverAZ while holding the node
CONSTANTS
    i1 = i1
    i2 = i2
    i3 = i3
    azA = azA
    azB = azB
    Instances = {i1, i2}
    AZs = {azA, azB}
    AZOf <- OnePerAZ
    MaxFaults = 2
    SessionsExpire = FALSE
SPECIFICATION Spec
INVARIANT NoOrphanLock
