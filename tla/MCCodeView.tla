----------------------------- MODULE MCCodeView ------------------------------
EXTENDS CodeView

Representatives ==
  {1, BLOCK, LOOP, IF_, ELSE_, BR, BR_IF, CALL, CALL_INDIRECT, DROP, SELECT, TEE_LOCAL,
   SET_GLOBAL, I32_LOAD, 55, I64_STORE32, GROW_MEMORY, I64_CONST, 71, 106, 160, DEMOTE}

(* Every opcode by itself, the bytes that are none included, and the pairs *)
(* of one opcode of each layout and each kind of handler.                  *)
MCBodies == {<< op >> : op \in Bytes} \cup (Representatives \X Representatives)
==============================================================================
