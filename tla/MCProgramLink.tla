---------------------------- MODULE MCProgramLink ----------------------------
(* A main module and one beside it.  Each program differs from one that    *)
(* links in one or two sections.                                           *)
EXTENDS ProgramLink

CONSTANTS A, B

Export(field, kind, index) == [field |-> field, kind |-> kind, index |-> index]

Instr(op) == [op |-> op, index |-> 0]
Call(index) == [op |-> "call", index |-> index]
CallIndirect(index) == [op |-> "call_indirect", index |-> index]

(* A body ends with an END.                                                *)
Code(locals, instructions) ==
  [locals |-> locals, instructions |-> Append(instructions, Instr("other"))]

Plain ==
  [name |-> "main", types |-> << A, A, B >>, imports |-> << >>, functions |-> << 0, 2 >>,
   tables |-> << 1 >>, memories |-> << 1 >>, globals |-> 0, elements |-> 0, data |-> 0,
   exports |-> << >>, start |-> << 1 >>, 
   code |-> << Code(0, << Call(1), CallIndirect(2) >>), Code(0, << Call(0), Call(1) >>) >>]

Other ==
  [Plain EXCEPT !.name = "other", !.types = << B, A >>, !.functions = << 1, 0 >>,
     !.tables = << 1, 2 >>, !.start = << >>, 
     !.code = << Code(0, << Call(0), CallIndirect(0) >>), Code(0, << Call(1) >>) >>]

Imports ==
  {<< [kind |-> k, index |-> i, maximum |-> x] >> :
     k \in 0 .. 4, i \in {0, 3}, x \in BOOLEAN}

SomeExports ==
  LET E == {Export(f, k, i) : f \in {"f", "g"}, k \in 0 .. 3, i \in 0 .. 1}
  IN {<< >>} \cup {<< x >> : x \in E} \cup {<< x, y >> : x, y \in E}

(* What a body can fail at, alone and one behind the other; the two passes *)
(* find them in the order of the pass.                                     *)
Some == {Call(0), CallIndirect(2), Instr("loop")}
Failing == {Call(2), CallIndirect(3), Instr("global"), Instr("float"), Instr("br_table"),
            Instr("else")}
Bodies ==
  {Code(l, c) : l \in 0 .. 1, c \in {<< >>, << Call(0) >>, << Call(1), Call(0) >>, << Call(2) >>}}
Codes ==
  {<< >>} \cup {<< x >> : x \in Bodies} \cup {<< x, y >> : x, y \in Bodies}
    \cup {<< x, x, x >> : x \in Bodies}
    \cup {<< Code(0, << i, j >>), Code(0, << >>) >> : i, j \in Some \cup Failing}

Changed(base) ==
  {[base EXCEPT !.imports = i] : i \in Imports}
    \cup {[base EXCEPT !.globals = 1], [base EXCEPT !.elements = 1], [base EXCEPT !.data = 1]}
    \cup {[base EXCEPT !.functions = f, !.types = t] :
            f \in [1 .. 2 -> 0 .. 2], t \in {<< A, B >>, << B, A >>, << A, A, B >>, << B >>}}
    \cup {[base EXCEPT !.exports = e] : e \in SomeExports}
    \cup {[base EXCEPT !.code = c] : c \in Codes}
    \cup {[base EXCEPT !.start = s] : s \in {<< >>, << 0 >>, << 2 >>}}

MCPrograms ==
  {<< m >> : m \in Changed(Plain)}
    \cup {<< m, Other >> : m \in Changed(Plain)}
    \cup {<< Plain, o >> : o \in Changed(Other)}
    \cup {<< o, Plain >> : o \in Changed([Other EXCEPT !.start = << 0 >>])}
=============================================================================
