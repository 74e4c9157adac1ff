------------------------------ MODULE CodeView -------------------------------
(***************************************************************************)
(* The code of a function and what reads it.  The Python parser has        *)
(* written the operands of an instruction behind its opcode as bytes of    *)
(* fixed width.  Three dispatchers of the C++ side read them back: the     *)
(* walk of CodeView (visit_op_impl and dispatch, which calls op_func), the *)
(* visitor of visit_opcode that builds a WasmInstruction, and the switch   *)
(* of WasmInstruction::execute.  Each has its own table of opcodes.        *)
(*                                                                         *)
(* A byte is a cell that says which operand it is a part of and which part *)
(* it is, so a word of bytes that were not written together is seen.  The  *)
(* operand stack is the sequence of the union members its values were      *)
(* written as.                                                             *)
(***************************************************************************)
EXTENDS Opcodes, FiniteSets, SequencesExt

CONSTANTS
  W,         \* the bytes of a word
  TableLen,  \* the entries of a branch table, before the default
  Bodies     \* the bodies: sequences of opcodes, without the END of the function

ASSUME WAssumption == W \in Nat \ {0, 1}
ASSUME TableLenAssumption == TableLen \in Nat
ASSUME BodiesAssumption == Bodies \subseteq Seq(Bytes)

VARIABLES
  ops,         \* the instructions of the body
  code,        \* their bytes
  position,    \* the bytes the view has passed
  types,       \* the operand stack, its top last
  last,        \* the instruction the walk read last, and what it read of it
  status,      \* "running", or why the walk has stopped
  instruction  \* the WasmInstruction built of the front of the view

vars == << ops, code, position, types, last, status, instruction >>

WordOps ==
  {ELSE_, BR, BR_IF, CALL, CALL_INDIRECT, GET_LOCAL, SET_LOCAL, TEE_LOCAL,
   GET_GLOBAL, SET_GLOBAL}
Memory == Loads \cup Stores
Consts == {I32_CONST, I64_CONST, F32_CONST, F64_CONST}

------------------------------------------------------------------------------
(* What the parser writes.                                                 *)

Field(name, width) == [i \in 1 .. width |-> [f |-> name, b |-> i - 1]]

(* The operands CodeParser.parse leaves behind an opcode, in its order.    *)
Operands(op) ==
  CASE op \in {BLOCK, LOOP, IF_} -> << Field("label", W), Field("sig", 1) >>
    [] op \in WordOps \ {ELSE_, CALL_INDIRECT} -> << Field("index", W) >>
    [] op = CALL_INDIRECT -> << Field("index", W), Field("reserved", 1) >>
    [] op = BR_TABLE -> << Field("count", W), Field("depths", (TableLen + 1) * W) >>
    [] op \in Memory -> << Field("flags", W), Field("offset", W) >>
    [] op \in {I32_CONST, F32_CONST} -> << Field("value", W) >>
    [] op \in {I64_CONST, F64_CONST} -> << Field("value", 2 * W) >>
    [] op \in {CURRENT_MEMORY, GROW_MEMORY} -> << Field("reserved", 1) >>
    [] OTHER -> << >>

Encoded(op) == << [f |-> "op", b |-> op] >> \o FlattenSeq(Operands(op))

Code(body) == FlattenSeq([i \in DOMAIN body |-> Encoded(body[i])])

(* Where an instruction starts, and where the body ends.                   *)
Boundaries == {Len(Code(SubSeq(ops, 1, n))) : n \in 0 .. Len(ops)}

------------------------------------------------------------------------------
(* The two readers of bytes.  They assert that the bytes do not run out.   *)

Cells(p, n) == SubSeq(code, p + 1, p + n)
Whole(word) == \E op \in Bytes : \E i \in DOMAIN Operands(op) : word = Operands(op)[i]

NoRead == [ok |-> FALSE, after |-> 0, operand |-> << >>]

(* Variant: the view goes on behind one word, however long the immediate. *)
read_serialized_immediateWord(p, n) ==
  IF p + n <= Len(code) THEN [ok |-> TRUE, after |-> p + W, operand |-> << Cells(p, n) >>] ELSE NoRead

(* Variant: the bytes are taken from the opcode on. *)
read_serialized_immediateEarly(p, n) ==
  IF p + n <= Len(code) THEN [ok |-> TRUE, after |-> p + n, operand |-> << Cells(p - 1, n) >>] ELSE NoRead

read_serialized_immediate(p, n) ==
  IF p + n <= Len(code) THEN [ok |-> TRUE, after |-> p + n, operand |-> << Cells(p, n) >>] ELSE NoRead

(* Both buffers are filled; flags and offset are both copied out of the    *)
(* first.                                                                  *)
read_memory_immediate(p) ==
  IF p + 2 * W <= Len(code)
  THEN [ok |-> TRUE, after |-> p + 2 * W, operand |-> << Cells(p, W), Cells(p, W) >>]
  ELSE NoRead

(* BlockImmediate and IfImmediate: the type first, then the words.  The    *)
(* label of a LOOP is no variable of the code.                             *)
read_block(p, words) ==
  IF p + 1 + words * W <= Len(code)
  THEN [ok |-> TRUE, after |-> p + 1 + words * W,
        operand |-> [i \in 1 .. words |-> Cells(p + 1 + (i - 1) * W, W)] \o << Cells(p, 1) >>]
  ELSE NoRead

(* CodeView::visit_op_impl of the opcode at p.  The length of a BR_TABLE   *)
(* is read through a pointer that was never set.                           *)
visit_op_impl(op, p) ==
  CASE op \in I32_LOAD .. I64_STORE32 -> {read_memory_immediate(p + 1)}
    [] op \in WordOps -> {read_serialized_immediate(p + 1, W)}
    [] op = BLOCK -> {read_block(p + 1, 1)}
    [] op = IF_ -> {read_block(p + 1, 2)}
    [] op = LOOP -> {read_block(p + 1, 0)}
    [] op = BR_TABLE ->
         {NoRead} \cup {[ok |-> TRUE, after |-> q, operand |-> << >>] : q \in 0 .. Len(code)}
    [] op \in {I32_CONST, F32_CONST} -> {read_serialized_immediate(p + 1, W)}
    [] op \in {I64_CONST, F64_CONST} -> {read_serialized_immediate(p + 1, 2 * W)}
    [] OTHER -> {[ok |-> opcode_exists(op), after |-> p + 1, operand |-> << >>]}

------------------------------------------------------------------------------
(* The handlers, op_func.  One reads union members of the top of the       *)
(* stack, pops, pushes, and returns the view to go on with.                *)

Effect(reads, pops, pushes, then) ==
  [reads |-> reads, pops |-> pops, pushes |-> pushes, then |-> then]

(* The primary template: it throws BadOpcodeError.                         *)
op_func_default == {Effect(<< >>, 0, << >>, "bad_opcode")}

(* CodeView::jump asserts the distance to be within the code.  The last    *)
(* byte of a word is its highest; when it is a type (0x40 and above) the   *)
(* distance is not.                                                        *)
jump(word) == word = Field("label", W)

(* BR_IF and BR_TABLE pop the condition; their guards would push it again  *)
(* if the branch threw.  "left": the call stack goes on somewhere else.    *)
op_func_control(op, operand) ==
  CASE op = 1 -> {Effect(<< >>, 0, << >>, "no_view")}
    [] op = 0 -> {Effect(<< >>, 0, << >>, "trap")}
    [] op = BLOCK -> {Effect(<< >>, 0, << >>, IF jump(operand[1]) THEN "after" ELSE "aborted")}
    [] op = LOOP -> {Effect(<< >>, 0, << >>, "after")}
    [] op = IF_ -> {Effect(<< "i32" >>, 0, << >>, IF jump(operand[1]) THEN "after" ELSE "aborted")}
    [] op = BR_IF ->
         {Effect(<< "i32" >>, 1, << >>, "after"), Effect(<< "i32" >>, 1, << >>, "left")}
    [] op = BR_TABLE -> {Effect(<< "i32" >>, 1, << >>, "left")}
    [] op = CALL_INDIRECT -> {Effect(<< >>, 0, << >>, "after")}
    [] op \in {ELSE_, END, BR, RETURN, CALL} -> {Effect(<< >>, 0, << >>, "left")}

(* Variant: SET_LOCAL leaves its operand, as TEE_LOCAL does. *)
op_func_variableKeeps(op) ==
  CASE op \in {GET_LOCAL, GET_GLOBAL} -> {Effect(<< >>, 0, << "i32" >>, "after")}
    [] op \in {TEE_LOCAL, SET_LOCAL} -> {Effect(<< "i32" >>, 0, << >>, "after")}
    [] op = SET_GLOBAL -> {Effect(<< "i32" >>, 1, << >>, "after")}

op_func_variable(op) ==
  CASE op \in {GET_LOCAL, GET_GLOBAL} -> {Effect(<< >>, 0, << "i32" >>, "after")}
    [] op = TEE_LOCAL -> {Effect(<< "i32" >>, 0, << >>, "after")}
    [] op \in {SET_LOCAL, SET_GLOBAL} -> {Effect(<< "i32" >>, 1, << >>, "after")}

(* SELECT pops the condition and the alternative; it writes the            *)
(* alternative over what is then the top unless the condition holds.       *)
op_func_parametric(op) ==
  CASE op = SELECT -> {Effect(<< "i32", "i32", "i32" >>, 3, << "i32" >>, "after")}
    [] op = DROP -> {Effect(<< "i32" >>, 1, << >>, "after")}

(* memory_op.  A store reads both operands and pops neither; no branch of  *)
(* it returns a view.                                                      *)
memory_op(is_load, member) ==
  IF is_load THEN {Effect(<< "i32" >>, 1, << member >>, "no_view")}
  ELSE {Effect(<< "i32", member >>, 0, << >>, "no_view")}

op_func_full_width(op) == memory_op(op \in 40 .. 43, <<"i32", "i64", "f32", "f64">>[((op - 40) % 14) + 1])

(* The sign-extending, widening and truncating ones.  The truncating       *)
(* stores are bound under the names of the loads once more, and the two    *)
(* I64 widenings under those of the sign extensions.                       *)
sign_extending == {44, 46, 48, 50, 52}
widening == {45, 47} \cup {48, 50, 52}
truncating == {45, 47} \cup {48, 50, 52}
op_func_narrow(op) == memory_op(TRUE, IF op <= 47 THEN "i32" ELSE "i64")

op_func_size(op) ==
  CASE op = GROW_MEMORY -> {Effect(<< "i32" >>, 1, << "i32" >>, "after")}
    [] op = CURRENT_MEMORY -> {Effect(<< >>, 0, << "i32" >>, "after")}

make_binary_op(result, operand) == {Effect(<< operand, operand >>, 2, << result >>, "after")}
make_unary_op(result, operand) == {Effect(<< operand >>, 1, << result >>, "after")}

(* The opcodes each file section binds.  The signed and unsigned orderings *)
(* of the integers are bound under one name that no opcode has.            *)
i32_binary == 106 .. 120
i32_compare == {70, 71}
i32_unary == 103 .. 105
i64_binary == 124 .. 138
i64_compare == {81, 82}
i64_unary == 121 .. 123
f32_binary == 146 .. 152
f32_compare == 91 .. 96
f32_unary == {140, 141, 142, 144, 145}
f64_binary == 160 .. 166
f64_compare == 97 .. 102
f64_unary == {154, 155, 156, 158, 159}

op_func_i32(op) ==
  IF op \in i32_unary THEN make_unary_op("i32", "i32") ELSE make_binary_op("i32", "i32")
op_func_i64(op) ==
  IF op \in i64_unary THEN make_unary_op("i64", "i64")
  ELSE make_binary_op(IF op \in i64_compare THEN "i32" ELSE "i64", "i64")
op_func_f32(op) ==
  IF op \in f32_unary THEN make_unary_op("f32", "f32")
  ELSE make_binary_op(IF op \in f32_compare THEN "i32" ELSE "f32", "f32")
op_func_f64(op) ==
  IF op \in f64_unary THEN make_unary_op("f64", "f64")
  ELSE make_binary_op(IF op \in f64_compare THEN "i32" ELSE "f64", "f64")

conversion_ops == Conversions \ {167, 172, 173}
op_func_conversion(op) ==
  make_unary_op(ConversionTo[op], IF op = DEMOTE THEN "f32" ELSE ConversionFrom[op])

op_func(op, operand) ==
  CASE op \in Control -> op_func_control(op, operand)
    [] op \in 32 .. 36 -> op_func_variable(op)
    [] op \in {DROP, SELECT} -> op_func_parametric(op)
    [] op \in (40 .. 43) \cup (54 .. 57) -> op_func_full_width(op)
    [] op \in sign_extending \cup widening \cup truncating -> op_func_narrow(op)
    [] op \in {CURRENT_MEMORY, GROW_MEMORY} -> op_func_size(op)
    [] op \in i32_binary \cup i32_compare \cup i32_unary -> op_func_i32(op)
    [] op \in i64_binary \cup i64_compare \cup i64_unary -> op_func_i64(op)
    [] op \in f32_binary \cup f32_compare \cup f32_unary -> op_func_f32(op)
    [] op \in f64_binary \cup f64_compare \cup f64_unary -> op_func_f64(op)
    [] op \in conversion_ops -> op_func_conversion(op)
    [] OTHER -> op_func_default

------------------------------------------------------------------------------
(* The WasmInstruction: the immediate it holds, by the tag of its variant. *)

(* Variant: the bound itself is left out. *)
validate_memoryStrict(op) == op >= I32_LOAD /\ op > I64_STORE32

validate_memory(op) == op >= I32_LOAD /\ op >= I64_STORE32

(* What each constructor asserts of the opcode.                            *)
validate(tag, op) ==
  CASE tag = "null" ->
         \/ op > I32_EQZ
         \/ op \in {0, 1, ELSE_, END, RETURN, DROP, SELECT, CURRENT_MEMORY, GROW_MEMORY}
    [] tag = "offset" ->
         \/ op \in GET_LOCAL .. SET_GLOBAL \/ op \in CALL .. CALL_INDIRECT
         \/ op \in BR .. BR_IF \/ op = ELSE_
    [] tag = "i32" -> op = I32_CONST
    [] tag = "i64" -> op = I64_CONST
    [] tag = "f32" -> op = F32_CONST
    [] tag = "f64" -> op = F64_CONST
    [] tag = "memory" -> validate_memory(op)
    [] tag = "block" -> op \in {BLOCK, IF_}
    [] tag = "loop" -> op = LOOP
    [] tag = "br_table" -> op = BR_TABLE

(* _assert_invariants, which every validate calls.  Its own call of        *)
(* validate is given no Tag; it is read as the test of the null tag alone, *)
(* not as one that calls _assert_invariants again without end.             *)
_assert_invariants(op, size) == opcode_exists(op) /\ (validate("null", op) \/ size > 1)

None == [state |-> "none", op |-> 0, tag |-> "none", after |-> 0, immediate |-> << >>]
Refused(op, why) == [None EXCEPT !.op = op, !.state = why]

(* A constructor: the tag it asserts is the one of the immediate it is     *)
(* given, but for the block immediate.                                     *)
Constructed(op, tag, p, read) ==
  IF /\ read.ok
     /\ _assert_invariants(op, read.after - p)
     /\ validate(IF tag = "block" THEN "loop" ELSE tag, op)
  THEN [state |-> "built", op |-> op, tag |-> tag, after |-> read.after, immediate |-> read.operand]
  ELSE Refused(op, "aborted")

(* visit_opcode with an InstructionVisitor.  The types of BLOCK, IF and    *)
(* LOOP are read off the opcode itself, which moves the front of the view  *)
(* by one: for LOOP the visitor's assertion first < pos fails.  The call   *)
(* of the default case has no overload to go to.                           *)
visit_opcode(op, p) ==
  CASE ~opcode_exists(op) -> Refused(op, "aborted")
    [] op \in I32_LOAD .. I64_STORE32 -> Constructed(op, "memory", p, read_memory_immediate(p + 1))
    [] op \in WordOps -> Constructed(op, "offset", p, read_serialized_immediate(p + 1, W))
    [] op \in {BLOCK, IF_} -> Constructed(op, "block", p + 1, read_serialized_immediate(p + 1, W))
    [] op = LOOP -> Refused(op, "aborted")
    [] op = BR_TABLE ->
         Constructed(op, "br_table", p,
           [read_serialized_immediate(p + 1, W) EXCEPT
              !.after = @ + (1 + TableLen) * W,
              !.operand = << Cells(p + 1 + W, (1 + TableLen) * W) >>])
    [] op \in Consts ->
         Constructed(op, << "i32", "i64", "f32", "f64" >>[op - 64], p,
           read_serialized_immediate(p + 1, IF op \in {I64_CONST, F64_CONST} THEN 2 * W ELSE W))
    [] OTHER -> Refused(op, "no_overload")

(* CodeView.h: done() is true of a view with code left, so ready() is      *)
(* false of it and next_instruction stops at its assertion.  On an empty   *)
(* view ready() asserts on the byte behind the code, whatever it is.       *)
done == position # Len(code)
next_instruction ==
  IF done THEN {Refused(0, "aborted")} ELSE {Refused(0, "aborted"), Refused(0, "nullopt")}

tagged_immediate(op) ==
  CASE op \in I32_LOAD .. I64_STORE32 -> "memory"
    [] op \in {BLOCK, IF_} -> "block"
    [] op \in WordOps -> "offset"
    [] op = LOOP -> "loop"
    [] op = BR_TABLE -> "br_table"
    [] op \in Consts -> << "i32", "i64", "f32", "f64" >>[op - 64]
    [] OTHER -> "null"

(* WasmInstruction::execute: the tag a case asserts and the member of the  *)
(* union it passes on.                                                     *)
Case(asserts, member) == [asserts |-> asserts, member |-> member]

execute_control(op) ==
  CASE op \in {0, 1, RETURN, DROP, SELECT} -> Case("null", "none")
    [] op \in {BLOCK, IF_} -> Case("block", "none")
    [] op = LOOP -> Case("loop", "none")
    [] op = ELSE_ -> Case("offset", "none")
    [] op = END -> Case("null", "offset")
    [] op = BR_TABLE -> Case("br_table", "br_table")
    [] OTHER -> Case("offset", "offset")
(* Variant: I64_CONST passes the member of I32_CONST on. *)
execute_constsNarrow(op) ==
  << Case("i32", "i32"), Case("i64", "i32"), Case("f32", "f32"), Case("f64", "f32") >>[op - 64]

execute_consts(op) ==
  << Case("i32", "i32"), Case("i64", "i64"), Case("f32", "f32"), Case("f64", "f32") >>[op - 64]

(* The other cases, by the sections of the switch.                         *)
execute_loads == Loads
execute_stores == Stores
execute_size == {CURRENT_MEMORY, GROW_MEMORY}
execute_compare == 69 .. 102
execute_i32 == 103 .. 120
execute_i64 == 121 .. 138
execute_f32 == 139 .. 152
execute_f64 == 153 .. 166
execute_convert == Conversions

execute(op) ==
  CASE op \in execute_loads \cup execute_stores -> Case("memory", "memory")
    [] op \in Consts -> execute_consts(op)
    [] op \in execute_size \cup execute_compare \cup execute_i32 \cup execute_i64
               \cup execute_f32 \cup execute_f64 \cup execute_convert -> Case("null", "none")
    [] OTHER -> execute_control(op)


------------------------------------------------------------------------------
(* The specification.                                                      *)

Params(op) == Signature(op).params
Results(op) == Signature(op).results

Unread == [op |-> -1, at |-> 0, after |-> 0, operand |-> << >>, reads |-> << >>]

Init ==
  /\ \E body \in Bodies :
       /\ ops = Append(body, END)
       /\ code = Code(Append(body, END))
       /\ types = FlattenSeq(Reverse([i \in DOMAIN body |-> Params(body[i])]))
  /\ position = 0
  /\ last = Unread
  /\ status = "running"
  /\ instruction = None

Running == status = "running" /\ instruction = None
Byte == code[position + 1]
AtOpcode == position < Len(code) /\ Byte.f = "op"

Applied(effect) == SubSeq(types, 1, Len(types) - effect.pops) \o effect.pushes

(* CodeView::advance: dispatch and the handler.  The view goes on behind   *)
(* the instruction when the handler returns what it was given.  A walk     *)
(* that has gone off the instructions, and would take an operand for an    *)
(* opcode, is not followed any further.                                    *)
Advance ==
  /\ Running
  /\ AtOpcode
  /\ \E read \in visit_op_impl(Byte.b, position) :
       \/ /\ ~read.ok \/ ~opcode_exists(Byte.b)
          /\ status' = "aborted"
          /\ UNCHANGED << last, types, position >>
       \/ /\ read.ok /\ opcode_exists(Byte.b)
          /\ \E effect \in op_func(Byte.b, read.operand) :
               /\ last' = [op |-> Byte.b, at |-> position, after |-> read.after,
                           operand |-> read.operand, reads |-> effect.reads]
               /\ types' = Applied(effect)
               /\ position' = IF effect.then = "after" THEN read.after ELSE position
               /\ status' = IF Len(effect.reads) > Len(types) THEN "aborted"
                            ELSE IF effect.then = "after" THEN "running" ELSE effect.then
  /\ UNCHANGED << ops, code, instruction >>

Visit ==
  /\ Running
  /\ AtOpcode
  /\ instruction' = visit_opcode(Byte.b, position)
  /\ UNCHANGED << ops, code, position, types, last, status >>

NextInstruction ==
  /\ Running
  /\ instruction' \in next_instruction
  /\ UNCHANGED << ops, code, position, types, last, status >>

(* execute runs the handler, then the end of a function that returns a     *)
(* view is reached without one.                                            *)
Execute ==
  /\ status = "running" /\ instruction.state = "built"
  /\ LET case == execute(instruction.op) IN
       IF validate(case.asserts, instruction.op)
       THEN \E effect \in op_func(instruction.op, instruction.immediate) :
              /\ types' = Applied(effect)
              /\ status' = IF Len(effect.reads) > Len(types) THEN "aborted" ELSE "no_view"
              /\ instruction' = [instruction EXCEPT !.state = "executed", !.tag = case.member]
       ELSE /\ status' = "aborted"
            /\ UNCHANGED << types, instruction >>
  /\ UNCHANGED << ops, code, position, last >>

Next == Advance \/ Visit \/ NextInstruction \/ Execute

Spec == Init /\ [][Next]_vars

------------------------------------------------------------------------------
(* Properties.                                                             *)

NextBoundary(p) ==
  CHOOSE q \in Boundaries : q > p /\ \A r \in Boundaries : r > p => q <= r

(* The walk goes on at the instruction behind the one it has read, but     *)
(* for the seven opcodes whose operands the parser and visit_op_impl lay   *)
(* out differently.                                                        *)
Misread == {IF_, LOOP, ELSE_, CALL_INDIRECT, CURRENT_MEMORY, GROW_MEMORY, BR_TABLE}
WalkAligned ==
  last.op \notin {-1, BR_TABLE} => ((last.after = NextBoundary(last.at)) <=> last.op \notin Misread)

(* Every word a handler is given is one the parser wrote, and no word is   *)
(* given twice, but for the structured opcodes, whose type the parser      *)
(* writes behind the labels, and the memory immediates.                    *)
Mixed == {BLOCK, IF_, LOOP, ELSE_} \cup Memory
OperandsKept ==
  last.op \notin {-1, BR_TABLE} =>
    ((\A i, j \in DOMAIN last.operand :
        Whole(last.operand[i]) /\ (i # j => last.operand[i] # last.operand[j]))
       <=> last.op \notin Mixed)

(* A handler reads its operands as what they were pushed as, pops them     *)
(* and pushes the results of its signature.  It does not for the opcodes   *)
(* without a handler, for the stores, for F32_DEMOTE, and for IF, which    *)
(* leaves its condition.                                                   *)
Unbound == {49, 51, 53} \cup (58 .. 62) \cup Consts \cup {69, 80} \cup (72 .. 79) \cup (83 .. 90)
             \cup {139, 143, 153, 157, 167, 172, 173}
HandlerEffect ==
  [][LET op == last'.op
         rest == SubSeq(types, 1, Len(types) - Len(Params(op)))
     IN last' # last /\ types = rest \o Params(op) /\ op # CALL_INDIRECT =>
          ((last'.reads = Params(op) /\ types' = rest \o Results(op))
             <=> op \notin Unbound \cup Stores \cup {DEMOTE, IF_})]_vars

(* The instructions visit_opcode can build are those with one word, a      *)
(* constant or a table, and one of the 23 memory instructions; the source  *)
(* of one ends where the next instruction starts but for ELSE and          *)
(* CALL_INDIRECT.  next_instruction builds none.                           *)
Buildable == WordOps \cup Consts \cup {BR_TABLE, I64_STORE32}
InstructionsBuilt ==
  /\ instruction.state = "built" =>
       (instruction.after = NextBoundary(position)) <=> instruction.op \notin {ELSE_, CALL_INDIRECT}
  /\ instruction.state \in {"aborted", "no_overload"} => instruction.op \notin Buildable \ {ELSE_}
  /\ instruction.state \in {"built", "executed"} => instruction.op \in Buildable

(* execute reads the member of the union the constructor has written, but  *)
(* for F64_CONST, and asserts the tag tagged_immediate gives.              *)
ExecutesWhatWasBuilt ==
  /\ instruction.state = "executed" /\ instruction.tag # "none" =>
       ((instruction.tag = tagged_immediate(instruction.op)) <=> instruction.op # F64_CONST)
  /\ last.op # -1 => execute(last.op).asserts = tagged_immediate(last.op)
==============================================================================
