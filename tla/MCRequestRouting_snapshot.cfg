CONSTANTS
    q1 = q1
    q2 = q2
    Hobs = {"LON", "DUB", "MAD"}
    Sources = {"customer", "driver"}
    SampleValues = {"c1", "c2"}
    KeyBytes <- MCKeyBytes
    RegionIdOrder <- MCRegionIdOrder
    HostMap <- MCHostMap
    HostWord <- MCHostWord
    Configs <- MCConfigs
    InitConfig <- Config1
    RequestInputs <- MixedInputs
    Reqs = {q1, q2}
    MaxPublishes = 2
    MaxRequests = 3
    Responses <- MCResponses
SPECIFICATION Spec
CHECK_DEADLOCK FALSE
INVARIANT OneSnapshotPerRequest
