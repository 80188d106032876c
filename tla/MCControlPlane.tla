--------------------------- MODULE MCControlPlane ---------------------------
(* Instantiates ControlPlane with two controlPlane sections and two values  *)
(* of the rest of the document.                                            *)
EXTENDS ControlPlane

CONSTANTS cpA, cpB, oA, oB

MCCPs == {cpA, cpB}
MCOthers == {oA, oB}
=============================================================================
