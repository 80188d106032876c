--------------------------- MODULE MCAZFailover ---------------------------
(* Instantiations of AZFailover for TLC.                                   *)
EXTENDS AZFailover

CONSTANTS i1, i2, i3, azA, azB

\* one instance in each of two AZs
OnePerAZ == [i \in {i1, i2} |-> IF i = i1 THEN azA ELSE azB]

\* two instances in azA, one in azB
TwoInA == [i \in {i1, i2, i3} |-> IF i = i3 THEN azB ELSE azA]
=============================================================================
