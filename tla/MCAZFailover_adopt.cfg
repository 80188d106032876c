\* Two instances in azA: the second adopts azA's failover
CONSTANTS
    i1 = i1
    i2 = i2
    i3 = i3
    azA = azA
    azB = azB
    Instances = {i1, i2, i3}
    AZs = {azA, azB}
    AZOf <- TwoInA
    MaxFaults = 3
    SessionsExpire = FALSE
SPECIFICATION Spec
INVARIANT AtMostOneFailedAZ
