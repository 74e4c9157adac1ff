---------------------------- MODULE WasmCallStack ----------------------------
(***************************************************************************)
(* src/interpreter/WasmCallStack.c: activations laid end to end in one     *)
(* malloc'ed block.  A frame is a WasmFrameBase (function_index, ret,      *)
(* program_counter, locals_count) followed by its locals; the stack keeps  *)
(* a pointer to the current frame and a size_t with the bytes left.        *)
(*                                                                         *)
(* Memory is counted in cells of sizeof(wasm_value_t).  Addresses are      *)
(* offsets from frames[0].  A frame base fills BaseSize cells: the first   *)
(* one holds the record, the others Body.                                  *)
(*                                                                         *)
(* A write past the block is undefined behaviour: the step that makes it   *)
(* sets overrun, and nothing is said of what follows.                      *)
(***************************************************************************)
EXTENDS Integers, Sequences

CONSTANTS
  Functions,    (* function indices that can be pushed                     *)
  LocalsCount,  (* FunctionStorage_LocalsCount of each                     *)
  Values,       (* contents of a local                                     *)
  Zero,         (* the all-zero wasm_value_t                               *)
  Body,         (* a cell of a frame base after its first                  *)
  Unset,        (* a cell malloc returned and nothing wrote yet            *)
  BaseSize,     (* sizeof(WasmFrameBase)                                   *)
  FrameAlign,   (* frame_align                                             *)
  Sizes,        (* the sizes WasmCallStack_New may be asked for            *)
  SizeMod,      (* size_t counts modulo this                               *)
  CodeMax,      (* bound: the last opcode position a function may reach    *)
  MaxReleased   (* bound: cells of frames a behaviour may pop in all       *)

ASSUME LocalsAssumption ==
  /\ Functions \subseteq Nat
  /\ LocalsCount \in [Functions -> Nat]
  /\ Zero \in Values
ASSUME LayoutAssumption ==
  /\ BaseSize \in Nat \ {0}
  /\ FrameAlign \in Nat \ {0}
  /\ BaseSize % FrameAlign = 0
ASSUME SizeAssumption ==
  /\ Sizes \subseteq Nat
  /\ SizeMod \in Nat \ {0}
  /\ \A s \in Sizes : s < SizeMod
ASSUME BoundAssumption == CodeMax \in Nat /\ MaxReleased \in Nat

VARIABLES
  allocated,  (* base.allocated                                            *)
  remaining,  (* base.remaining                                            *)
  current,    (* base.current_frame                                        *)
  mem,        (* the cells of the block                                    *)
  status,     (* what the last operation returned                          *)
  overrun,    (* a frame was written past the end of the block             *)
  chain,      (* history: addresses of the live frames, base frame first   *)
  released    (* history: cells of all frames popped so far                *)

vars == <<allocated, remaining, current, mem, status, overrun, chain, released>>

------------------------------------------------------------------------------
(* Layout.                                                                 *)

NULL == -1

Header == [function : Nat, ret : Nat \cup {NULL}, pc : Nat \cup {NULL}, locals_count : Nat]

Cell == Values \cup {Body, Unset} \cup Header

Addr == 0 .. allocated - 1

(* WasmFrame_SizeOf / WasmFrameBase_SizeOf: the base and the locals,       *)
(* rounded up to the alignment of a frame.                                 *)
RoundUp(size) ==
  IF size % FrameAlign = 0 THEN size ELSE size + (FrameAlign - (size % FrameAlign))

FrameSize(locals_count) == RoundUp(BaseSize + locals_count)

SizeOf(frame) == FrameSize(mem[frame].locals_count)

LocalsBegin(frame) == frame + BaseSize

base_frame == [function |-> 0, ret |-> NULL, pc |-> NULL, locals_count |-> 0]

(* Variant: the memset of the locals is left out. *)
WriteFrameNoMemset(at, base) ==
  [a \in Addr |->
     IF a = at THEN base
     ELSE IF a \in at + 1 .. LocalsBegin(at) - 1 THEN Body
     ELSE mem[a]]

(* memcpy of a frame base to `at`, then memset of its locals to 0; every   *)
(* other cell keeps what it held.                                          *)
WriteFrame(at, base) ==
  [a \in Addr |->
     IF a = at THEN base
     ELSE IF a \in at + 1 .. LocalsBegin(at) - 1 THEN Body
     ELSE IF a \in LocalsBegin(at) .. LocalsBegin(at) + base.locals_count - 1 THEN Zero
     ELSE mem[a]]

IsBaseFrame(frame) == mem[frame].ret = NULL

------------------------------------------------------------------------------
(* WasmCallStack_New: NULL (no stack at all) when size < sizeof(base).     *)

Init ==
  /\ allocated \in {s \in Sizes : s >= BaseSize}
  /\ remaining = allocated - FrameSize(0)
  /\ current = 0
  /\ mem = [a \in Addr |-> IF a = 0 THEN base_frame
                           ELSE IF a < BaseSize THEN Body ELSE Unset]
  /\ status = 0
  /\ overrun = FALSE
  /\ chain = << 0 >>
  /\ released = 0

(* WasmCallStack_PushFrame.  The new frame starts where the current one    *)
(* ends; the only room check is against remaining.                         *)
NewBase(f) ==
  [function |-> f, ret |-> current, pc |-> 0, locals_count |-> LocalsCount[f]]

(* Variant: the offset forgets the locals of the current frame. *)
NextFrameNoLocals == current + FrameSize(0)

(* Variant: the offset is counted from the beginning of the stack. *)
NextFrameFromStart == SizeOf(current)

NextFrame == current + SizeOf(current)

(* Variant: the new frame is measured by its locals alone. *)
HasRoomForLocals(f) == remaining >= LocalsCount[f]

HasRoom(f) == remaining >= FrameSize(LocalsCount[f])

Fits(f) == NextFrame + FrameSize(LocalsCount[f]) <= allocated

PushFrame(f) ==
  /\ ~overrun
  /\ HasRoom(f)
  /\ Fits(f)
  /\ mem' = WriteFrame(NextFrame, NewBase(f))
  /\ remaining' = remaining - FrameSize(LocalsCount[f])
  /\ current' = NextFrame
  /\ chain' = Append(chain, NextFrame)
  /\ status' = 0
  /\ UNCHANGED <<allocated, overrun, released>>

(* The check passes and the frame does not fit. *)
PushFrameOverrun(f) ==
  /\ ~overrun
  /\ HasRoom(f)
  /\ ~Fits(f)
  /\ overrun' = TRUE
  /\ UNCHANGED <<allocated, remaining, current, mem, status, chain, released>>

PushFrameRefused(f) ==
  /\ ~overrun
  /\ ~HasRoom(f)
  /\ status' = -1
  /\ UNCHANGED <<allocated, remaining, current, mem, overrun, chain, released>>

(* Variant: the counter is taken for a signed one. *)
RemainingAfterPopSigned == remaining - SizeOf(current)

(* WasmFrame_PopFrame takes the popped frame's size off *bytes_total.      *)
RemainingAfterPop == (remaining - SizeOf(current)) % SizeMod

(* WasmCallStack_PopFrame, then WasmCallStack_FastPopFrame. *)
PopFrame ==
  /\ ~overrun
  /\ ~IsBaseFrame(current)
  /\ released + SizeOf(current) <= MaxReleased
  /\ remaining' = RemainingAfterPop
  /\ current' = mem[current].ret
  /\ chain' = SubSeq(chain, 1, Len(chain) - 1)
  /\ released' = released + SizeOf(current)
  /\ status' = 0
  /\ UNCHANGED <<allocated, mem, overrun>>

PopBaseFrame ==
  /\ ~overrun
  /\ IsBaseFrame(current)
  /\ status' = -1
  /\ UNCHANGED <<allocated, remaining, current, mem, overrun, chain, released>>

(* WasmCallStack_CodeNext (count = 1) and WasmCallStack_CodeAdvance.  The  *)
(* base frame has no code to move in.                                      *)
SetCode(pc) ==
  /\ mem' = [mem EXCEPT ![current].pc = pc]
  /\ UNCHANGED <<allocated, remaining, current, status, overrun, chain, released>>

CodeAdvance(count) ==
  /\ ~overrun
  /\ ~IsBaseFrame(current)
  /\ mem[current].pc + count <= CodeMax
  /\ SetCode(mem[current].pc + count)

CodeJump(label) ==
  /\ ~overrun
  /\ ~IsBaseFrame(current)
  /\ SetCode(label)

(* A store through WasmCallStack_Locals, below WasmCallStack_LocalsCount.  *)
SetLocal(i, v) ==
  /\ ~overrun
  /\ i < mem[current].locals_count
  /\ mem' = [mem EXCEPT ![LocalsBegin(current) + i] = v]
  /\ UNCHANGED <<allocated, remaining, current, status, overrun, chain, released>>

Next ==
  \/ \E f \in Functions : PushFrame(f)
  \/ \E f \in Functions : PushFrameOverrun(f)
  \/ \E f \in Functions : PushFrameRefused(f)
  \/ PopFrame
  \/ PopBaseFrame
  \/ \E count \in 1 .. CodeMax : CodeAdvance(count)
  \/ \E label \in 0 .. CodeMax : CodeJump(label)
  \/ \E i \in 0 .. mem[current].locals_count - 1, v \in Values : SetLocal(i, v)

Spec == Init /\ [][Next]_vars

------------------------------------------------------------------------------
(* Properties.                                                             *)

TypeOK ==
  /\ allocated \in Sizes
  /\ remaining \in 0 .. SizeMod - 1
  /\ current \in Addr
  /\ mem \in [Addr -> Cell]
  /\ status \in {0, -1}
  /\ overrun \in BOOLEAN
  /\ chain \in Seq(Addr)
  /\ released \in Nat

(* The frames of WasmCallStack.c form one list through ret, current frame  *)
(* last: each begins exactly where the frame it returns to ends, so no two *)
(* overlap, none reaches past the block, and only the base frame has a     *)
(* null ret.  (PushFrame's offset arithmetic, PopFrame's ret.)             *)
Tiled(i) ==
  /\ mem[chain[i]] \in Header
  /\ chain[i] + SizeOf(chain[i]) <= allocated
  /\ IF i = 1 THEN chain[i] = 0 /\ mem[chain[i]].ret = NULL
              ELSE /\ mem[chain[i]].ret = chain[i - 1]
                   /\ chain[i] = chain[i - 1] + SizeOf(chain[i - 1])

FrameChain ==
  /\ Len(chain) >= 1
  /\ current = chain[Len(chain)]
  /\ \A i \in 1 .. Len(chain) : Tiled(i)

(* Whatever a step does (enter, run or leave a callee), no cell below the  *)
(* callee's frame changes: the caller's base, code position and locals are *)
(* after the return what they were at the call.                            *)
CallerFrozen ==
  [][\A a \in Addr : a < current \/ a < current' => mem'[a] = mem[a]]_vars

(* The room check of PushFrame only fails to stop an overrun once pops     *)
(* have taken more than the block holds off remaining: a program that      *)
(* never returns that much is stopped in time.                             *)
Used == current + SizeOf(current)

CheckSoundUntilWrap ==
  /\ Used + 2 * released <= allocated => Used + 2 * released + remaining = allocated
  /\ overrun => Used + 2 * released > allocated

(* The frames in memory, read through the live addresses, behave as the    *)
(* abstract call stack: a callee starts with zeroed locals at its first    *)
(* opcode even over a popped frame's remains, and a return restores the    *)
(* caller.                                                                 *)
ActivationAt(frame) ==
  [function |-> mem[frame].function,
   pc |-> mem[frame].pc,
   locals |-> [j \in 1 .. mem[frame].locals_count |-> mem[LocalsBegin(frame) + j - 1]]]

Abstract == INSTANCE CallStackSpec WITH
  frames <- [i \in 1 .. Len(chain) |-> ActivationAt(chain[i])]

ImplementsCallStack == Abstract!Spec

==============================================================================
