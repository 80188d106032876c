\* One instance per AZ, a ZooKeeper session expires under a failed instance
CONSTANTS
    i1 = i1
    i2 = i2
    i3 = i3
    azA = azA
    azB = azB
    Instances = {i1, i2}
    AZs = {azA, azB}
    AZOf <- OnePerAZ
    MaxFaults = 3
    SessionsExpire = TRUE
SPECIFICATION Spec
INVARIANT AtMostOneFailedAZ
