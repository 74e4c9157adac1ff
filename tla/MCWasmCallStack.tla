--------------------------- MODULE MCWasmCallStack ---------------------------
(* Instance for TLC: a frame base of two cells aligned to two, functions   *)
(* with 0, 1 and 2 locals (one of them padded), and blocks that hold from  *)
(* no call at all up to three.                                             *)
EXTENDS WasmCallStack

MCFunctions == {0, 1, 2}
MCLocalsCount == [f \in MCFunctions |-> f]
MCSizes == {1, 2, 5, 8, 10}
==============================================================================
