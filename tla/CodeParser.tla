----------------------------- MODULE CodeParser ------------------------------
(***************************************************************************)
(* frontend/WasmBinaryParser.py, finalized_code: a function body goes      *)
(* through two passes.  ImmediatesParser copies it with every LEB128       *)
(* immediate rewritten at a fixed width; CodeParser then walks the copy    *)
(* and inserts, in place, a label after every BLOCK, IF and LOOP, and      *)
(* binds it when it meets the END.  The positions of unbound labels wait   *)
(* on a stack while code is inserted behind them.                          *)
(*                                                                         *)
(* A cell is a byte.  Operand bytes are all alike; a label is its number   *)
(* followed by zero bytes.  Bodies need not be valid: nothing checked them *)
(* before.  Python raises: the status is the exception that ends a parse.  *)
(***************************************************************************)
EXTENDS Integers, Sequences, FiniteSets

CONSTANTS
  Bodies,    (* the function bodies: sequences of opcodes, END last         *)
  Block, Loop, If, Else, End, Br, BrTable, Call, CallIndirect, F32Const, Plain,
  Signature, (* the byte of a block's type                                  *)
  Reserved,  (* the byte after the operand of CALL_INDIRECT                 *)
  Operand,   (* a byte of any other immediate                               *)
  NoLabel,   (* None, on the label stack for a LOOP                         *)
  W,         (* label_struct.size                                           *)
  MaxCode    (* bound: cells of code, for the parse that never ends         *)

Opcodes == {Block, Loop, If, Else, End, Br, BrTable, Call, CallIndirect, F32Const, Plain}

ASSUME BodiesAssumption ==
  \A b \in Bodies : b \in Seq(Opcodes) /\ Len(b) > 0 /\ b[Len(b)] = End
(* The opcodes with a handler of their own or with immediates are told     *)
(* apart from each other and from every other byte.                        *)
ASSUME OpcodesAssumption ==
  /\ Loop \notin {Block, If}
  /\ Else \notin {Block, Loop, If}
  /\ End \notin {Block, Loop, If, Else}
  /\ BrTable \notin {Block, Loop, If, Else, End}
  /\ {Br, Call, CallIndirect} \cap {Block, Loop, If, Else, End, BrTable} = {}
  /\ CallIndirect \notin {Br, Call}
  /\ \A op \in Opcodes : op \notin Nat \cup {Signature, Reserved, Operand}
  /\ \A c \in {Signature, Reserved, Operand, NoLabel} : c \notin Nat
ASSUME WidthAssumption == W \in Nat \ {0} /\ MaxCode \in Nat

VARIABLES
  body,         (* the input                                                *)
  pos,          (* how many of its instructions the first pass has copied   *)
  code,         (* code_dest of the first pass, edited by the second        *)
  index,        (* CodeParser.index, counted from 0                         *)
  label_stack,  (* CodeParser.label_stack                                   *)
  status        (* the pass under way, or how finalized_code ended          *)

vars == <<body, pos, code, index, label_stack, status>>

Errors == {"struct.error", "TypeError", "AssertionError", "RuntimeError"}

Init ==
  /\ body \in Bodies
  /\ pos = 0
  /\ code = << >>
  /\ index = 0
  /\ label_stack = << >>
  /\ status = "immediates"

------------------------------------------------------------------------------
(* ImmediatesParser.parse: one instruction at a time.                      *)

Word(n) == [k \in 1 .. W |-> IF k = 1 THEN n ELSE 0]
Operands(n) == [k \in 1 .. n |-> Operand]

(* What the handler of an opcode appends after it.  A branch table has one *)
(* entry here, before its default.                                         *)
Immediates(op) ==
  CASE op \in {Block, Loop, If} -> << Signature >>
    [] op \in {Br, Call}        -> Operands(W)
    [] op = CallIndirect        -> Append(Operands(W), Reserved)
    [] op = BrTable             -> Operands(3 * W)
    [] OTHER                    -> << >>

CopyInstruction ==
  /\ status = "immediates"
  /\ pos < Len(body)
  /\ body[pos + 1] # F32Const
  /\ code' = (code \o << body[pos + 1] >>) \o Immediates(body[pos + 1])
  /\ pos' = pos + 1
  /\ UNCHANGED <<body, index, label_stack, status>>

(* _float32 packs the 1-tuple that parse_struct returned. *)
CopyFloat ==
  /\ status = "immediates"
  /\ pos < Len(body)
  /\ body[pos + 1] = F32Const
  /\ status' = "struct.error"
  /\ UNCHANGED <<body, pos, code, index, label_stack>>

BeginLabels ==
  /\ status = "immediates"
  /\ pos = Len(body)
  /\ status' = "labels"
  /\ UNCHANGED <<body, pos, code, index, label_stack>>

------------------------------------------------------------------------------
(* CodeParser.parse: one handler at a time.                                *)

Scanning == status = "labels" /\ index < Len(code)

Cell == code[index + 1]

(* Variant: the label replaces what stands there. *)
SplicedOver(i, s) ==
  SubSeq(code, 1, i) \o s \o SubSeq(code, i + 1 + Len(s), Len(code))

(* self.code[i: i] = s *)
Spliced(i, s) == SubSeq(code, 1, i) \o s \o SubSeq(code, i + 1, Len(code))

(* _bind_label_at, on the code c: the number, or the RuntimeError.         *)
AlreadyBound(c, at) == \E k \in at + 1 .. at + W : c[k] # 0

Bind(c, at, to) ==
  /\ status' = IF AlreadyBound(c, at) THEN "RuntimeError" ELSE status
  /\ code' = IF AlreadyBound(c, at) THEN c ELSE [c EXCEPT ![at + 1] = to - at]

Raise(error) ==
  /\ status' = error
  /\ UNCHANGED <<body, pos, code, index, label_stack>>

Top == label_stack[Len(label_stack)]
Popped == SubSeq(label_stack, 1, Len(label_stack) - 1)

(* Variant: what is remembered is the opcode's position. *)
OpcodePosition == index

(* Where _insert_unbound_label finds self.index. *)
LabelPosition == index + 1

BlockHandler ==
  /\ Scanning
  /\ Cell \in {Block, If}
  /\ code' = Spliced(index + 1, Word(0))
  /\ label_stack' = Append(label_stack, LabelPosition)
  /\ index' = index + 1 + W
  /\ UNCHANGED <<body, pos, status>>

(* Variant: a negative label can be packed. *)
LoopLabelAlwaysFits == TRUE

(* label_struct has no room for a negative number. *)
LoopLabelFits == index - 1 >= 0

LoopHandler ==
  /\ Scanning
  /\ Cell = Loop
  /\ LoopLabelFits
  /\ code' = Spliced(index + 1, Word(index - 1))
  /\ label_stack' = Append(label_stack, NoLabel)
  /\ index' = index + 1 + W
  /\ UNCHANGED <<body, pos, status>>

LoopHandlerFails ==
  /\ Scanning
  /\ Cell = Loop
  /\ ~LoopLabelFits
  /\ Raise("struct.error")

(* parse catches an IndexError and asserts that the code was at its end.   *)
PopEmpty ==
  /\ Scanning
  /\ Cell \in {Else, End}
  /\ label_stack = << >>
  /\ Raise(IF index = Len(code) - 1 THEN "done" ELSE "AssertionError")

(* The label goes in front of the ELSE, which is the next cell again.      *)
ElseHandler ==
  /\ Scanning
  /\ Cell = Else
  /\ label_stack # << >>
  /\ Top # NoLabel
  /\ Len(code) + W <= MaxCode
  /\ Bind(Spliced(index, Word(0)), Top, index + W)
  /\ label_stack' = Append(Popped, index)
  /\ index' = index + W
  /\ UNCHANGED <<body, pos>>

ElseInLoop ==
  /\ Scanning
  /\ Cell = Else
  /\ label_stack # << >>
  /\ Top = NoLabel
  /\ Raise("AssertionError")

(* Variant: the label leads to the END itself. *)
AtEnd == index

PastEnd == index + 1

EndHandler ==
  /\ Scanning
  /\ Cell = End
  /\ label_stack # << >>
  /\ IF Top = NoLabel THEN UNCHANGED <<code, status>> ELSE Bind(code, Top, PastEnd)
  /\ label_stack' = Popped
  /\ index' = index + 1
  /\ UNCHANGED <<body, pos>>

(* The count is a tuple, to which 2 is added. *)
BrTableHandler ==
  /\ Scanning
  /\ Cell = BrTable
  /\ Raise("TypeError")

(* Variant: the table of sizes lacks the branches. *)
NoBranchSize(op) == IF op \in {Call, CallIndirect} THEN W ELSE 0

(* immediates_sizes: 4 for CALL_INDIRECT too, so its last byte is visited  *)
(* like the type byte of a block, as an opcode without immediates.         *)
ImmediatesSize(op) == IF op \in {Br, Call, CallIndirect} THEN W ELSE 0

(* Variant: only the immediates are skipped. *)
SkipImmediates == index + ImmediatesSize(Cell)

SkipInstruction == index + 1 + ImmediatesSize(Cell)

DefaultHandler ==
  /\ Scanning
  /\ Cell \notin {Block, Loop, If, Else, End, BrTable}
  /\ index' = SkipInstruction
  /\ UNCHANGED <<body, pos, code, label_stack, status>>

(* The while loop runs out of code: the last END closed a block. *)
Exhausted ==
  /\ status = "labels"
  /\ index >= Len(code)
  /\ Raise("done")

Next ==
  \/ CopyInstruction \/ CopyFloat \/ BeginLabels
  \/ BlockHandler \/ LoopHandler \/ LoopHandlerFails
  \/ PopEmpty \/ ElseHandler \/ ElseInLoop \/ EndHandler
  \/ BrTableHandler \/ DefaultHandler \/ Exhausted

(* A parse is one thread's loop: it goes on as long as it can. *)
Spec == Init /\ [][Next]_vars /\ WF_vars(Next)

------------------------------------------------------------------------------
(* Properties.                                                             *)

TypeOK ==
  /\ body \in Seq(Opcodes)
  /\ pos \in 0 .. Len(body)
  /\ code \in Seq(Opcodes \cup {Signature, Reserved, Operand} \cup Nat)
  /\ index \in 0 .. Len(code)
  /\ label_stack \in Seq(Nat \cup {NoLabel})
  /\ status \in {"immediates", "labels", "done"} \cup Errors

(* The positions on label_stack survive every later insertion: each names  *)
(* a label that is still all zero, below the scan, and no two overlap.     *)
(* That is why no label is bound twice: "Attempt to bind label that has    *)
(* already been bound" is never raised.                                    *)
Unbound == {k \in 1 .. Len(label_stack) : label_stack[k] # NoLabel}

OpenLabels ==
  /\ \A k \in Unbound :
       /\ label_stack[k] + W <= index
       /\ \A c \in label_stack[k] + 1 .. label_stack[k] + W : code[c] = 0
  /\ \A j, k \in Unbound : j < k => label_stack[j] + W <= label_stack[k]
  /\ status # "RuntimeError"

(* The two passes agree on the length of every instruction: the second     *)
(* never takes an operand or a label for an opcode.                        *)
ScanAligned == Scanning => Cell \in Opcodes \cup {Signature, Reserved}

(* Whatever is inserted, the labels apart the code is the first pass's.    *)
Copied(b, count) ==
  LET Copy[n \in 0 .. Len(b)] ==
        IF n = 0 THEN << >> ELSE Copy[n - 1] \o << b[n] >> \o Immediates(b[n])
  IN  Copy[count]

IsLabelCell(c) == c \in Nat

WithoutLabels(c) ==
  LET Keep[n \in 0 .. Len(c)] ==
        IF n = 0 THEN << >>
        ELSE IF IsLabelCell(c[n]) THEN Keep[n - 1] ELSE Append(Keep[n - 1], c[n])
  IN  Keep[Len(c)]

CodeKept == WithoutLabels(code) = Copied(body, pos)

(* A finished parse has bound the label of every BLOCK and IF to the       *)
(* distance from the label to the cell past the END that closes it, and    *)
(* that of every LOOP to the cell before the LOOP: one cell before "the    *)
(* position of the loop instruction" (WasmBinaryParser.py:406).            *)
Openers == {i \in 1 .. Len(code) : code[i] \in {Block, Loop, If}}
Ends == {i \in 1 .. Len(code) : code[i] = End}

Closes(e, i) ==
  LET Within(S, k) == Cardinality({x \in S : i <= x /\ x <= k}) IN
  /\ e > i
  /\ Within(Openers, e) = Within(Ends, e)
  /\ \A k \in i .. e - 1 : Within(Openers, k) > Within(Ends, k)

LabelsBound ==
  status = "done" =>
    \A i \in Openers :
      IF code[i] = Loop THEN code[i + 1] = i - 2  \* positions count from 0
      ELSE \A e \in Ends : Closes(e, i) => code[i + 1] = e - i

(* Every parse of a body with matching blocks ends well, as long as it has *)
(* no ELSE, no branch table, no float constant and no LOOP to begin with.  *)
Count(S, n) == Cardinality({i \in 1 .. n : body[i] \in S})

Supported ==
  /\ \A i \in 1 .. Len(body) : body[i] \notin {Else, BrTable, F32Const}
  /\ body[1] # Loop
  /\ \A n \in 1 .. Len(body) - 1 : Count({End}, n) <= Count({Block, Loop, If}, n)
  /\ Count({End}, Len(body)) = Count({Block, Loop, If}, Len(body)) + 1

Terminates == Supported ~> status = "done"

==============================================================================
