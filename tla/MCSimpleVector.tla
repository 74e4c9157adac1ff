--------------------------- MODULE MCSimpleVector ----------------------------
(* Instance for TLC: two vectors, filled with up to two items, and as many *)
(* buffers as they and a guard can hold.                                   *)
EXTENDS SimpleVector

CONSTANTS x, y

MCItems == {x, y}
MCInputs == {<<x>>, <<y, x>>}
==============================================================================
