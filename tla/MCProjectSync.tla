--------------------------- MODULE MCProjectSync ---------------------------
(* Instances of ProjectSync for TLC: which tab is in which browser. *)
EXTENDS ProjectSync

CONSTANTS b1, b2, t1, t2, f1, f2, x1

OneTab   == [t \in Tabs |-> b1]
OneEach  == [t \in Tabs |-> IF t = t1 THEN b1 ELSE b2]
=============================================================================
