---------------------------- MODULE CallStackSpec ----------------------------
(***************************************************************************)
(* What a WebAssembly call stack promises, with no memory layout at all: a *)
(* sequence of activations, of which only the last one is ever touched.    *)
(* A call enters the function at its first opcode with every local zero; a *)
(* return gives the caller back exactly as it was when it called.          *)
(***************************************************************************)
EXTENDS Integers, Sequences

CONSTANTS
  Functions,    (* Indices of the functions that can be called.           *)
  LocalsCount,  (* How many locals each function declares.                *)
  CodeMax,      (* The last opcode position of a function.                *)
  Values,       (* What a local may hold.                                 *)
  Zero          (* What the standard says a local starts with.            *)

VARIABLES
  frames,   (* The activations, the outermost (base) frame first.          *)
  status    (* What the last operation returned: 0, or -1 for a refusal.   *)

vars == <<frames, status>>

Top == frames[Len(frames)]

(* The frame under all calls: no function runs in it. *)
BaseActivation == [function |-> 0, pc |-> -1, locals |-> << >>]

Activation(f) ==
  [function |-> f, pc |-> 0, locals |-> [i \in 1 .. LocalsCount[f] |-> Zero]]

Init ==
  /\ frames = << BaseActivation >>
  /\ status = 0

Call(f) ==
  /\ frames' = Append(frames, Activation(f))
  /\ status' = 0

Return ==
  /\ Len(frames) > 1
  /\ frames' = SubSeq(frames, 1, Len(frames) - 1)
  /\ status' = 0

(* A call there is no room for, or a return from the base frame. *)
Refuse ==
  /\ status' = -1
  /\ UNCHANGED frames

(* The running function moves to another opcode. *)
Move ==
  /\ Len(frames) > 1
  /\ \E pc \in 0 .. CodeMax : frames' = [frames EXCEPT ![Len(frames)].pc = pc]
  /\ UNCHANGED status

SetLocal ==
  /\ \E i \in DOMAIN Top.locals, v \in Values :
       frames' = [frames EXCEPT ![Len(frames)].locals[i] = v]
  /\ UNCHANGED status

Next ==
  \/ \E f \in Functions : Call(f)
  \/ Return
  \/ Refuse
  \/ Move
  \/ SetLocal

Spec == Init /\ [][Next]_vars

==============================================================================
