------------------------------- MODULE Opcodes -------------------------------
(***************************************************************************)
(* The opcodes of include/WasmInstruction.h by number, the tables the file *)
(* keeps of them, and what the specification of WebAssembly says of each:  *)
(* the types it takes from the stack and the ones it leaves there.         *)
(***************************************************************************)
EXTENDS Integers, Sequences

Bytes == 0 .. 255

BLOCK == 2
LOOP == 3
IF_ == 4
ELSE_ == 5
END == 11
BR == 12
BR_IF == 13
BR_TABLE == 14
RETURN == 15
CALL == 16
CALL_INDIRECT == 17
DROP == 26
SELECT == 27
GET_LOCAL == 32
SET_LOCAL == 33
TEE_LOCAL == 34
GET_GLOBAL == 35
SET_GLOBAL == 36
I32_LOAD == 40
I64_STORE32 == 62
CURRENT_MEMORY == 63
GROW_MEMORY == 64
I32_CONST == 65
I64_CONST == 66
F32_CONST == 67
F64_CONST == 68
I32_EQZ == 69
DEMOTE == 182

Control == (0 .. 5) \cup (11 .. 17)
Loads == 40 .. 53
Stores == 54 .. 62
Comparisons == 69 .. 102
Numerics == 103 .. 166
Conversions == 167 .. 187
Reinterprets == 188 .. 191

(* The enumeration. *)
OpCode ==
  Control \cup {26, 27} \cup (32 .. 36) \cup Loads \cup Stores \cup {63, 64} \cup (65 .. 68)
    \cup Comparisons \cup Numerics \cup Conversions \cup Reinterprets

(* Every opcode has a name; the switch of visit_opcode_template and the    *)
(* array all_opcodes, which opcode_exists asks, have all but four.         *)
opcode_names == OpCode
visit_opcode_cases == OpCode \ Reinterprets
all_opcodes == OpCode \ Reinterprets
opcode_exists(op) == op \in all_opcodes

------------------------------------------------------------------------------
(* The types of the operands and results.  Locals and globals are i32.     *)

Sig(p, r) == [params |-> p, results |-> r]

LoadResult(op) ==
  CASE op \in {40} \cup (44 .. 47) -> "i32"
    [] op \in {41} \cup (48 .. 53) -> "i64"
    [] op = 42 -> "f32" [] OTHER -> "f64"
StoreOperand(op) ==
  CASE op \in {54, 58, 59} -> "i32" [] op \in {55, 60, 61, 62} -> "i64"
    [] op = 56 -> "f32" [] OTHER -> "f64"
ConstResult == [op \in 65 .. 68 |-> << "i32", "i64", "f32", "f64" >>[op - 64]]

Compared(op) ==
  CASE op \in 69 .. 79 -> "i32" [] op \in 80 .. 90 -> "i64"
    [] op \in 91 .. 96 -> "f32" [] OTHER -> "f64"
Computed(op) ==
  CASE op \in 103 .. 120 -> "i32" [] op \in 121 .. 138 -> "i64"
    [] op \in 139 .. 152 -> "f32" [] OTHER -> "f64"
UnaryNumerics == (103 .. 105) \cup (121 .. 123) \cup (139 .. 145) \cup (153 .. 159)

ConversionFrom ==
  [op \in Conversions |->
     CASE op \in {167, 180, 181, 185, 186} -> "i64"
       [] op \in {168, 169, 174, 175, 187} -> "f32"
       [] op \in {170, 171, 176, 177, 182} -> "f64"
       [] OTHER -> "i32"]
ConversionTo ==
  [op \in Conversions |->
     CASE op \in 167 .. 171 -> "i32" [] op \in 172 .. 177 -> "i64"
       [] op \in 178 .. 182 -> "f32" [] OTHER -> "f64"]

Signature(op) ==
  CASE op \in {IF_, BR_IF, BR_TABLE, CALL_INDIRECT, DROP, SET_LOCAL, SET_GLOBAL} ->
         Sig(<< "i32" >>, << >>)
    [] op = SELECT -> Sig(<< "i32", "i32", "i32" >>, << "i32" >>)
    [] op \in {GET_LOCAL, GET_GLOBAL, CURRENT_MEMORY} -> Sig(<< >>, << "i32" >>)
    [] op \in {TEE_LOCAL, GROW_MEMORY} -> Sig(<< "i32" >>, << "i32" >>)
    [] op \in Loads -> Sig(<< "i32" >>, << LoadResult(op) >>)
    [] op \in Stores -> Sig(<< "i32", StoreOperand(op) >>, << >>)
    [] op \in 65 .. 68 -> Sig(<< >>, << ConstResult[op] >>)
    [] op \in {69, 80} -> Sig(<< Compared(op) >>, << "i32" >>)
    [] op \in Comparisons \ {69, 80} -> Sig(<< Compared(op), Compared(op) >>, << "i32" >>)
    [] op \in UnaryNumerics -> Sig(<< Computed(op) >>, << Computed(op) >>)
    [] op \in Numerics \ UnaryNumerics ->
         Sig(<< Computed(op), Computed(op) >>, << Computed(op) >>)
    [] op \in Conversions -> Sig(<< ConversionFrom[op] >>, << ConversionTo[op] >>)
    [] op \in Reinterprets ->
         Sig(<< << "f32", "f64", "i32", "i64" >>[op - 187] >>,
             << << "i32", "i64", "f32", "f64" >>[op - 187] >>)
    [] OTHER -> Sig(<< >>, << >>)
==============================================================================
