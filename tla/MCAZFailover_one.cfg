\* One instance per AZ, crashes but no session expiry
CONSTANTS
    i1 = i1
    i2 = i2
    i3 = i3
    azA = azA
    azB = azB
    Instances = {i1, i2}
    AZs = {azA, azB}
    AZOf <- OnePerAZ
    MaxFaults = 3
    SessionsExpire = FALSE
SPECIFICATION Spec
INVARIANT TypeOK
INVARIANT FailedAZHoldsLock
