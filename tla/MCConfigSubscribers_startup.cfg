CONSTANTS
    u1 = u1
    u2 = u2
    p1 = p1
    p2 = p2
    m1 = m1
    m2 = m2
    NoUrl = NoUrl
    NoPaths = NoPaths
    NoMaps = NoMaps
    Urls <- MCUrls
    PathSets <- MCPathSets
    MapSets <- MCMapSets
    MaxChanges = 2
    ChangesBeforeSubscribe = TRUE
SPECIFICATION Spec
PROPERTY PCIFilterConverges
CHECK_DEADLOCK FALSE
