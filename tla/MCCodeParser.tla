---------------------------- MODULE MCCodeParser -----------------------------
(* Instance for TLC: every body of up to four instructions, valid or not,  *)
(* and longer ones of the instructions that move labels; words of two      *)
(* bytes.                                                                  *)
EXTENDS CodeParser

BodiesOf(ops, n) == {Append(b, End) : b \in [1 .. n -> ops]}

MCBodies ==
  UNION {BodiesOf(Opcodes, n) : n \in 0 .. 3}
    \cup BodiesOf({Block, Loop, If, Else, End, CallIndirect}, 4)
    \cup BodiesOf({Block, Loop, End, Br}, 5)
==============================================================================
