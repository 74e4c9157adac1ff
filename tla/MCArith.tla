------------------------------- MODULE MCArith -------------------------------
(* Instance for TLC: integers of 4 and 8 bits and floats of 2 and 6, which *)
(* keep the order of the real sizes: the f32 is less precise than an i32,  *)
(* the f64 more precise than an i32 and less than an i64.  All the         *)
(* integers of the small type, the floats around every bound of the types, *)
(* and the larger integers where a bit or a bound changes.                 *)
EXTENDS Arith

MCInts64 == {-128, -127, -65, -64, -9, -8, -3, -2, -1, 0, 1, 2, 7, 8, 9, 63, 64, 126, 127}
MCMagnitudes == {0, 1, 2, 3, 14, 15, 16, 17, 30, 31, 32, 64, 128, 248, 252, 254, 256, 260,
                 264, 504, 508, 512, 520}
MCFloats(p) == {f \in Floats(p, 520) : f.mag \in MCMagnitudes}
MCArgs == [i32 |-> Ints(4), i64 |-> MCInts64, f32 |-> Floats(2, 520), f64 |-> MCFloats(6)]
==============================================================================
