------------------------ MODULE MCConfigSubscribers -------------------------
EXTENDS ConfigSubscribers

CONSTANTS u1, u2, p1, p2, m1, m2

MCUrls == {u1, u2}
MCPathSets == {p1, p2}
MCMapSets == {m1, m2}

=============================================================================
