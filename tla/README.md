# Verification of wasm-cpp

TLA+ models of the WebAssembly runtime in this repository, the TLC runs that check
them on small instances, and TLAPS proofs of what holds for every instance.

- [Reading convention](#reading-convention)
- [The system](#the-system)
- [The modules](#the-modules)
- [The runs](#the-runs)
- [The proofs](#the-proofs)
- [What the checks found](#what-the-checks-found)
- [What is not modelled](#what-is-not-modelled)
- [Plan](#plan)

## Reading convention

`readme.md` calls the code "currently unfinished and untested", and much of the C++
does not compile as it stands (missing names, misspelt members). A model follows the
code **as written**: control flow, conditions and assignments are those of the source,
and a misspelt name stands for the only member it can mean. `CMakeLists.txt` replaces
the release flags without `-DNDEBUG`, so `assert` is active in every build: a failed
assert is a step to `aborted`, after which nothing happens. A step whose behaviour C
or C++ leaves undefined (a write past a block, a deletion with a wrong count) sets a
flag (`overrun`, `misfreed`), and nothing is said of what follows it.

Definitions marked *Variant* in a comment are not part of a model. Each is a plausible
mistake in the definition that follows it, and shows that a property would notice.

## The system

A WebAssembly program is read by a Python frontend, linked, and handed to a C++
virtual machine. The repository holds several generations of some parts: a call stack
in C, one in `src/interpreter`, one in `include/vm`; LEB128 in C and twice in C++.
All of it is single threaded. What is hard here is therefore not concurrency but

- **layout arithmetic**: frames, locals and values lie end to end in raw memory, and
  a wrong offset or counter shows only after a long mix of calls and returns;
- **order and repetition**: the embedder links modules in any order, calls `link`
  again after a failure, and values arrive after the things that wait for them;
- **failure half way**: constructors and allocations throw in the middle of a fill, a
  link or a conversion;
- **positions kept while the code moves**: a label is bound after other labels have
  been inserted before and behind it;
- **numeric edges**: counters that wrap, widths that are multiples of seven, shifts
  at the width of the destination, bounds of a truncation that are rounded themselves;
- **tables that must agree**: some 180 opcodes are listed in nine places (parser, walk,
  visitor, constructors, `execute`, handlers), and one wrong entry puts the reader out
  of step or reads a union member that was not written;
- **numbers that change meaning**: an index of a module becomes an index of the program.

| Component | State | Operations | Interacts with | What makes it correct | Status |
|---|---|---|---|---|---|
| C call stack, `src/interpreter/WasmCallStack.c` | a block of memory, bytes left, current frame | new, push, pop, code next/advance/jump, locals | the interpreter calls it | frames tile the block; callers stay as they were; a frame that does not fit is refused | modelled |
| Module linking, `include/module/WasmModule.h`, `WasmGlobal.h` | index spaces, imports, exports, waiting globals and segments | construct, link | modules point into each other; a filled slot notifies globals and segments | every filled import is the entity its field denotes; a link that fails half way leaves a state from which the next one can go on; no global reads a value of another type | partly |
| Vectors, `include/utilities/SimpleVector.h` | a buffer, the count in its deleter | constructors, assignments, clear, resize, swap | index spaces, memories and stores are made of them | one owner per buffer, the deleter's count is the buffer's; all or nothing when a constructor throws | partly |
| Python binary parser, `frontend/WasmBinaryParser.py`, `ModuleDef.py` | code cells, scan position, label stack | two passes over a body; sections | calls the LEB128 extension; feeds the program linker | operands are never taken for opcodes; labels reach the cell past their END; a parse ends | partly |
| LEB128, `src/frontend/leb128/leb128.c`, `frontend2/leb128_*`, `frontend2/binparse/leb128_parsers.h` | the locals of a loop | parse signed/unsigned | called per immediate, and as primitives of the C++ grammars | the number encoded comes back; over-long encodings are refused; no undefined shift; a failed call leaves nothing behind | modelled |
| Stack resource and VM call stack, `include/vm/alloc/*`, `include/vm/CallStack.h` | a buffer, where its free part begins; frames and blocks | allocate, deallocate, expand, contract; call, return, branch | the call stack allocates frames and blocks from the resource in LIFO order | nothing overlaps and nothing is lost; only the last allocation, with its size, is given back | partly |
| Linear memory and table, `include/module/WasmLinearMemory.h`, `WasmTable.h` | a vector of pages / of functions | load, store, grow | instructions and segments | no access passes the end; growth keeps the contents and the limit | not modelled |
| Program and control stack, `src/interpreter/WasmProgramStack.cpp` | values and control entries in one block | push/pop frame, enter/exit block | an earlier design of the call stack | as for the C call stack | not modelled |
| Sorted containers, `include/utilities/SortedVector.h`, `SegmentTracker.h` | sorted ranges | insert, find | nothing uses them | sorted, and no two ranges overlap | not modelled |
| Instruction execution, `include/vm/op/*` | operand stack, rounding mode of the thread | one handler and one numeric function per opcode | dispatched by the code view | each result is what WebAssembly says, each handler pops and pushes what its opcode does | partly |
| Code view, `include/WasmInstruction.h`, `include/vm/code/*` | position in the bytes of a body | advance, visit, execute | reads what the Python parser wrote, calls the handlers | every instruction starts where the parser put one; a handler gets its own operands | partly |
| Python program linker, `frontend/ProgramDef.py` | modules, index spaces, exports, numbers of all objects | read a section, map modules, read a body | reads what `ModuleDef` split; its result is copied by `create_program.cpp` | an index means the same entity before and after it is renumbered; exactly the programs without an error are created | partly |
| Program creation, `frontend/create_program.cpp` | the functions built so far | read_program_def | the last step of the linker | a function is built from its own code and type | partly |
| Main loop; functions and signatures; values and utilities; second binary parser | - | - | - | - | not modelled |

`PROJECT.json` lists the source files of each component and the hazards, each at its
line.

## The modules

Every component module is parameterised by constants, has one action per operation and
states its properties at its end. A module `XSpec` (`LinkerSpec`, `CallStackSpec`,
`VectorSpec`) is the abstract specification of what the component promises, and the
component is shown to implement it.

### WasmCallStack (implements CallStackSpec)

Memory is a function from cells to contents, a cell having the size of `wasm_value_t`.
`mem`, `current` and `remaining` are the fields of `WasmCallStackBase`; `remaining` is
a `size_t` and counts modulo `SizeMod`. A frame is a header cell (function index,
`ret`, code position, number of locals), the rest of `WasmFrameBase`, and the locals,
rounded up to `FrameAlign`. `PushFrame`/`PushFrameRefused` are the two outcomes of
`WasmFrame_PushFrame`'s check, with the bytes the C code compares; `PushFrameOverrun`
is a write past the block. `PopFrame` takes the popped frame's size **off** the
counter, as line 180 does. `chain` and `released` are history variables.

`CallStackSpec` knows a sequence of activations. A callee starts with zero locals at
its first opcode, a return restores the caller, and a call may be refused.

### ModuleLink (implements LinkerSpec)

A module has slots, numbered across its four index spaces; a slot points to an *entity*,
named by the module and slot that define it, or is null. Exports are references to
slots, so a re-export sees a slot that is filled later.

`Construct`, `ConstructorThrows` and `ConstructorAborts` are the three ways the
constructor of `WasmModule` ends. `ConstructorResults` follows its body: the assert on
the index a global depends on; `init_dep` for the globals that depend on a definition of
the module itself, in any order because `global_deps_` is an `unordered_map`; then the
element segment, with the asserts of `get_segment`, its use of the offset as the index of
the table, and the null pointer an imported table has at that time. A segment whose offset is
not known is neither written nor entered in `elem_segs_`.

`LinkBegin`, `LinkStep` and `LinkEnd` are one call of `link`, one import per step in any
order, because `import_fields_from` walks an `unordered_map`. `SkipMissing`,
`ImportFails`, `ImportField`, `ImportThrows` and `ImportAborts` are the ways through
`import_field`. The slot is filled before the globals that wait on it are initialised:
`InitDep` is `WasmGlobal::init_dep` with both its asserts and `read<T>`, which may throw
when the slot is already filled and the import still listed (`ImportThrows`).

Types are compared as the code compares them (`Matches`): a function by its signature, a
table or memory by its size and maximum, a global by what `get_type` **reports**, which
for a global with a value is the type before its own (`VariantIndex`, `LanguageType`).

A value that arrives at a waiting global would be passed on to globals that wait on that
one (`_notify_dependents` calls itself, `WasmModule.h:541`). No module that was
constructed has such a global: the constructor initialises the dependents on its own
globals itself, and comes to an assert or an exception at the first.

Index spaces are taken as constructed, although as written `make_index_space` ends in
the assert described under [What the checks found](#what-the-checks-found): the model
says what linking does once the vector works. Data segments are left out:
`initialize_data_segment` asks `table`, which is declared nowhere, for a segment, and a
`WasmLinearMemory` has no `get_segment`.

`LinkerSpec` binds one import after another, at most once and for good, to the very
entity its field denotes, provided it is accepted; `ModuleLink` gives it `Matches` of the
entity as declared.

### SimpleVector (implements VectorSpec)

A vector is a pointer and the count its deleter keeps; the heap maps a buffer to its
size and its items. A call that fills a vector takes a buffer (`MakeBuffer`), builds
one item per step (`EmplaceBack`), at each of which a constructor may throw
(`EmplaceThrows`, the destructor of `BufferGuard`), and is accepted (`AcceptBuffer`).
`Delete(p, n)` is the deleter run with count `n`. `MoveAssign` runs it with the other
vector's count, because the deleter is assigned before the pointer; `ResizeAborts` is
every `resize` to another size. The allocator is `std::allocator`, as everywhere in
the repository: it always compares equal and nothing of it is propagated. An item is a
value; what is left in an item moved from is not seen again. A vector is not moved into
itself, which the class, like the standard's, does not provide for.

`VectorSpec` knows the items only. A fill has its whole effect when it returns and none
when it throws, a self-assignment included.

### CodeParser

`code` is the byte array, one cell per byte, where an operand byte is just `Operand`
and a label is a number followed by zeros. `CopyInstruction` is a turn of
`ImmediatesParser.parse`. The handlers of `CodeParser` are actions of the same names;
each inserts or binds labels and moves `index` as its source does. `status` names the
pass, or the Python exception that ended the parse.

### Leb128

One action per turn of the decoding loop (`ReadByte`, with the bytes drawn one at a
time), the two refusals, `Finish` (sign extension and the byte swap behind
`sys_is_little_endian`), and the construction of the result by the wrapper, where each
of three allocations may fail (`CreateFails`). Arithmetic is modulo `Pow2[dest]`.

`parser` says which of three loops runs: the C extension, the qi parsers of
`frontend2/leb128_*_parser.h`, or the x3 templates of `frontend2/binparse`, whose type
and bits asked for (`Types`) need not agree. They differ in where they stop
(`WidthExhausted`), in whether they look for the end of the buffer (`BufferOverrun` is
the read past it), in where a sign is extended (`SignLimit`) and in whose iterator they
move (`consumed`).

`Encoding` is the reference the other way: the bytes a number is encoded in, by recursion
on what remains of it. The powers of two here and in `Numerics` are `Pow2` of `Powers`, a
recursive function, since the provers know no more of `^` than its type.

### Numerics and Arith

`Numerics` is the reference: what the numeric instructions of WebAssembly compute, on
integers of `w` bits and on floats with `p` significant bits and exponents without
bounds. Nothing in it is translated from the code. `Arith` has one operator per
function of `vm/op/arith.h` and of the older `functional_ex.h`. A step is one call with
any function and operands; it comes to a value, a trap, a failed assert or undefined
behaviour. `mode`, the rounding mode of the thread, outlasts a call, and `gnuc` says
which preprocessor branch was built. Some functions are wrong for some operands, so the
properties say **exactly for which**: equal to the reference if and only if the
operands are outside a set that the property spells out. A float given to a function is
one its format holds (`FloatsOf`). The initial predicate, the next-state relation and the
specification are `AInit`, `ANext` and `ASpec`, because one module of proofs speaks of
`Arith` and of `Leb128`.

### Opcodes and CodeView

`Opcodes` has the enumeration, the tables of `WasmInstruction.h` that list it, and the
signature of every opcode. In `CodeView` a byte is a cell that says which operand it
is a part of, so a word read across two operands is seen. `Encoded` is what the Python
parser writes (the consumer's view of `CodeParser`'s result). `Advance` is one step of
the walk: `visit_op_impl` reads the operands, `op_func` is the handler with the union
members it reads, what it pops and pushes, and whether it returns a view. `Visit` and
`NextInstruction` build a `WasmInstruction`, `Execute` runs its switch. Here too the
properties name the opcodes for which the tables disagree, and hold for all others.
`advance` ends without applying its visitor; the model applies it, since otherwise
nothing would ever be executed. A walk that has left the instructions would take an
operand for an opcode; operands have no value here, so `Advance` follows it no further.

### ProgramLink

`phase`, `at` and `item` are the position in `_define_program`: a section, a module, an
entry. Each `Read...` action is the method of that name for one module (for one entry,
where entries can fail after others have been stored); the `...Raises` actions are the
exceptions, whose type becomes the `status`. A body is a list of instructions, those that
`finalized_code` treats alike under one name. `immediates_error` and `labels_error` say at
which of them its two passes fail and how, `first_error` that a pass fails at the first;
an ELSE is where `CodeParser.parse` never returns, and `BodyNeverEnds` is the step into
that loop. That blocks are closed and an ELSE stands in an IF is assumed. An object is named by the module, kind and
place it was made at, so that after `MapModules` one can say which entity a number
stands for. `CreateFunction` and `CreateProgram` are `read_program_def`.

### StackResource

`base`, `pos` and `free` are the members of the class; `live` and `empties` are what its
users hold. Users may call in any order, and give back any address in what is taken with
any size: the size of one allocation for another's, of several at once (which passes
every assert), or an address inside an allocation (`DeallocateInside`). What they resize
they hold, and they state its size as they know it. The asserts decide which call goes
through and which ends in `aborted`. `broken` records that the users can no longer be
kept apart: `expand` has returned without the memory it was called for, which it does
whenever that is more than the allocation has, or something was taken back that is not
one allocation with its size.

## The runs

| Run | Asks | Bounds |
|---|---|---|
| `wasm_call_stack` | do frames stay tiled and callers untouched, is the room check exact until the counter has lost too much, does the memory behave as a call stack | blocks of 1, 2, 5, 8 and 10 cells (too small for any frame, exactly full, one frame short), counter modulo 16, functions with 0, 1 and 2 locals so that alignment pads some frames and not others, pops of 12 cells in all (more than the largest block, so the counter wraps) |
| `module_link` | what links and constructors in any order, failed, half done and repeated, leave behind; do filled slots agree with what the imports denote | four modules in a ring: re-exports of imports, an i64 imported as i32 by three and an i32 refused as i32, tables of two sizes, two globals of different types that wait on one import, one that waits on a global that is pending, an absent field, a wrong kind; four more whose constructors fail (two orders of dependents on own globals, a segment outside its table, one placed in an imported table, one too long); all orders of all constructors and links |
| `module_link_fully_linked` | does an empty import map mean what is written beside it (no) | as above |
| `module_link_types` | has a filled slot the type that was asked for (no) | as above |
| `simple_vector` | has every buffer one owner and the right count, and every call all its effect or none, with a throw anywhere | two vectors, three buffers (two in use and a third for a guard; with all of them in use an allocation fails), inputs of one and two items, `resize` up to 3 |
| `code_parser` | do labels bind once and to the right distance while code is inserted, does each parse end | every body of up to four instructions over all eleven kinds, bodies of five and six over the kinds that move labels or test alignment; words of two cells (four in the code, the arithmetic is linear in it), at most `MaxCode` = 20 cells, which only a parse that never ends reaches |
| `leb128` | is what is decoded the number encoded, by each parser, on machines of both byte orders; which encodings are refused; does a failed call leave nothing behind | groups of 3 bits in a destination of 8, which like 7 in 64 leaves a last group that only fits in part; widths 1, 3 (one group: the case where the C decoders differ), 5, 8, 9 (refused); x3 types of 8 bits, of 3 bits in 4 (as 7 in 8) and of 7 in 8 (whose last group goes past the bits asked for); all sequences of up to 4 bytes |
| `arith` | for which operands do the numeric functions compute what WebAssembly says | integers of 4 and 8 bits, floats of 2 and 6 significant bits: the order 2 < 4 < 6 < 8 is that of 24 < 32 < 53 < 64, on which every bound in the code depends; all integers and floats of the small type, those around every bound of the large one |
| `code_view` | for which opcodes do the walk, the visitor, `execute` and the handlers agree with the parser and with the signature | every byte as an opcode by itself, and all pairs of 22 opcodes, one for each layout and each kind of handler; words of 2 bytes, a table of one entry and the default |
| `program_link` | does every index keep its entity, do direct and indirect calls resolve, exactly which programs are created | one and two modules whose types (with a repetition), functions, tables and exports are in different orders; each section varied on its own in either module (exports of the same name, object or kind, bodies too many or too few, indices at and past the end); every pair of the six instructions that make a body fail and three that do not |
| `stack_resource` | do allocations tile what is taken, is only the last one given back | buffers aligned and not, of 0, 3 and 14 bytes: room for nothing, for less than a granule of 4, for three granules and a rest; sizes 0, 1, 4, 6; three allocations held: the first, one in the middle, the last; every address of what is taken |
| `stack_resource_empties` | can an allocation of no bytes be given back (no) | as above |

Deadlock is not checked: a call stack after an overrun, a finished parse or decoding,
an aborted program stop for good.

**Fairness.** One module states any: `CodeParser`, weak fairness of its next step
(`Terminates`), a loop of one thread that nothing else interrupts. Nothing in the runtime
schedules calls of `link`, of the call stack, of a vector or of a resource, and `advance`
is one call, so no other module assumes that they happen.

## The proofs

Eight modules hold proofs; they leave every constant open and use only the assumptions
that the component modules name. Wherever the properties a run checks are not inductive
together, the strengthening was itself checked by TLC on the run's instance before it
was proved.

**WasmCallStack_proofs.** `LayoutAssumption` (the base is a positive multiple of the
alignment), `SizeAssumption` and `LocalsAssumption`. The inductive invariant is
`TypeOK /\ FrameChain /\ Ordered /\ CheckSoundUntilWrap`. `FrameChain`
speaks of neighbours only; `Ordered` says that a frame ends before any later one
begins, from which a push above the current frame and a store to its locals disturb no
other live frame. From it
follow `Invariance`, `CallersAreFrozen` (`CallerFrozen`) and `Refinement`: a push is
the abstract call, since `memset` and the header determine the new activation and the
old ones lie below it; a pop drops the last; the others change one activation.

**SimpleVector_proofs.** `ValuesAssumption` (null, free and the like are not buffers)
and `InputsAssumption`. `TypeOK /\ Owned` with `FromSource`, which says what has been
copied into the guard's buffer so far. Ownership is needed to see that deleting one
vector's buffer leaves every other vector its own; `FromSource` to see that the
accepted buffer holds the source's items, since the source, even the target itself,
cannot change while the guard fills. From it follow `Invariance` (`Owned`),
`MisfreesByMove` (`OnlyMoveMisfrees`: the deleter is run with its own count everywhere
but in the move assignment) and `Refinement` (`ImplementsVector`).

**StackResource_proofs.** `BufferAssumption`, `SizesAssumption`, `AlignmentAssumption`
and `MaxLiveAssumption`; no divisibility of the buffer is assumed. `Tiled` joined with
`TypeOK` is inductive as it stands, because `Covered` and `Disjoint` say where each
allocation begins and that it has at least one byte. The step that carries the argument
is `OnlyLast`: an allocation whose adjusted end is the top of what is taken can only be
the last one, since the others end where a non-empty one begins. So a deallocation that
passes the asserts either takes back the last allocation whole or is recorded in `broken`.
From it follow `Invariance` (`Tiled`) and `InOrder` (`OutOfOrderCaught`). Both are stated
up to `broken`, after which they fail.

**ModuleLink_proofs.** `ModulesAssumption` (the slots of a module are distinct, an export
names one of them, a global has a value type) and `SentinelsAssumption` (null and the like
are nothing else); imports in a ring are allowed, and so are globals that depend on any
slot, of the module itself too. `IInv` adds to the three invariants of the run what holds
of modules that do not exist yet, and of what a slot may hold: `SlotsHold` says that a
definition sits in its own slot for good and that what an import slot holds has the kind
that was asked for, which is what an importer of the re-export relies on; `GlobalsWait`
that the globals without a value are for ever those declared with a dependency. That
rests on `NothingIsCopied`: `init_dep` comes to its copy for no pair of globals, because a
global that has a value never reports the type of its value. It follows that the first
global that waits on a slot decides how the notification ends (`NotifyFacts`): no one
waits, or the link throws with the slot filled, or the program ends. From it
follow `Invariance` (`OnlyThrowsLeaveHalfDone`, `LinksAgree`, `DependentsNeverFollow`) and
`Refinement` (`ImplementsLinker`): each `ImportField`, and each `ImportThrows`, is one
binding of the abstract linker, and every other step, a failed link included, is none.

**CodeParser_proofs.** `BodiesAssumption`, `OpcodesAssumption` (which cells are opcodes,
and that the marks are no numbers) and `WidthAssumption`; a body need not be valid. Three
invariants, one on top of the other.
`IInv` (`Aligned`) cuts the cells ahead of the scan into units and says that the scan
stands at a cut and code is only inserted at one, below what is ahead: `OpenLabels` and
`ScanAligned`, proved together because an END that wrote above the scan would break the
cut. `LInv` (`Brackets`) counts openers and ENDs: between a label on the stack and the
scan the block is open, and the label of a closed block already holds its distance. An
insertion moves opener, label and END alike, so distances survive it; this gives
`LabelsLead` (`LabelsBound`). `KInv` says that the first pass has copied exactly `pos`
instructions and that every insertion and binding touches label cells only: `CodeIsKept`
(`CodeKept`).

**Numbers_proofs** is about `Leb128` and `Arith`, which rest on the same facts: a power
of two is the product of two others (`PowSum`), divides the greater ones (`PowDivides`)
and grows with its exponent (`PowMonotone`); a remainder is unique (`DivisionUnique`).

*Leb128.* `SizesAssumption`, in which the destination must not be a multiple of a group:
64 and 32 bits are none of 7, and the proof shows why it matters, since the signed parser
in C goes on when the shift equals the width. The inductive invariant is
`Loop /\ Held /\ Number`. `Loop` ties `shift`, the bytes consumed and the group count
together: `ShiftsAreDefined` (`ShiftDefined`). `Held` says which objects are live at each
step of the wrapper: `NothingIsLeaked` (`NothingLeaks`). `Number` says that after each
turn `value` is what the bytes read so far stand for (`Weight`), modulo the size of the
type, and where the loop has stopped: `NumbersAreDecoded` (`Decoded`).
That an encoding comes back (`EncodingsComeBack`, `RoundTrip`) is then a fact about the
reference alone: by induction over the size of a number, its `Encoding` has as many bytes
as the width allows, only the last one ends it, and its weight is the number
(`EncodingFacts`). The four ways of extending a sign, each at a limit of its own, are one
lemma (`ExtendedStands`).

*Arith.* `FormatsAssumption` (as 24 < 31 and 32 < 53 < 63) and `ArgsAssumption`: the operands are integers of the width and floats of the
format, any set of them. A state is one call, so the invariant (`AInv`) says only that the
outcome is that of the function called, and the work is in the functions. There are four
kinds.
Addition, multiplication and the like are wrapped to the width, where it is enough that
a number and its wrapped form are congruent (`Congruent`, `SameResidue`) and that sums,
differences and products keep congruence (`ModularArithmetic`). Division needs what the
quotient of C is in terms of the one that rounds down (`Quotients`, `SignedDivision`,
`SignedRemainder`). Shifts, rotations and counts are about where powers of two divide
(`ShiftRightSigned`, `Rotations`, `Counters`). Floats rest on where the leading bit of a
number is (`ExponentIs`) and on rounding to an exact number, up, or down to the next
power of two (`RoundedExactly`, `RoundedUp`, `RoundedDown`), on which depends whether a
bound of a truncation excludes the right floats (`TruncatedSigned`, `OldBound`). The
theorems are `IntegersAreComputed` (`IntegersAgree`), `OldIntegersAreComputed`
(`OldIntegersAgree`), `TruncationsAreComputed` (`TruncationsAgree`),
`OldTruncationsAreComputed` (`OldTruncationsAgree`) and `FloatsAreComputed` (`FloatsAgree`).
Being equivalences, they say of every
width and precision both that the code is right elsewhere and that it is wrong here: no
choice of sizes hides one of these errors.

The proofs found three things that the instance had not. `RoundTrip` was false of an x3
type of 8 bits read in 7 when a group has 3: the last group ends past the bits asked for
but inside the type, and the sign survives; `SignDropped` now looks at the shift as well,
and the instance has that type. The reference for encodings had no value for the negative
numbers of an unsigned type; `Encoding` is now a function on `Values`. And the older
truncations' property fails for a number of more digits than the format holds, which no
argument is; that the operands are floats of the format had not been said.

**ProgramLink_proofs.** `ProgramsAssumption`: the modules are what the parser of sections
returns (lists, unsigned indices, at most one start function) and have different names,
which `_add_module` of `wasm_cpp_pymain.py` sees to. `PInv` has eleven parts, one per thing that a section
leaves behind. `Checked`, `Distinct`, `Started` and the first half of `Coded` record which
rules of `Linkable` the sections read so far have established; `Spaces`, `Attributes` and
`Named` which objects exist, under which names; `Numbered` that after `_map_modules` every
number leads to its entity and to no other; the second half of `Coded` that exactly the
functions whose body has been read have code. Two more are proved on top of it: `Typed`,
that the ids of a module's types lead back to the types in the program's dictionary, which
grows while the modules are read, and `Resolved`, that a function has the body its module
lists, with every operand mapped in its own module. The theorems
are `NumbersLeadBack` (`EntitiesKept`), `CallsLeadBack` (`CallsResolve`) and `Verdict`
(`CreatedIfLinkable`). For the last, every `...Raises` action and `BodyNeverEnds` is shown
to have found a broken rule (`IllegalRaises`; for a body, by `FirstError` and
`InstructionErrors`, at one of its instructions), and a created program to have passed
them all; that there
are as many bodies as functions is nobody's check but follows from both ends: a body
too many finds no function, a function without a body cannot be serialized.

**CodeView_proofs.** `WAssumption` (a word has at least two bytes), `TableLenAssumption`
and `BodiesAssumption`; a body is any sequence of bytes, opcodes or not. The bytes of a
body are taken apart first: `CodeHas`, `OpcodeFacts` and `NextBoundaryIs` say that
wherever the view stands at an opcode it stands at the start of one instruction
(`InstructionAt`), that the bytes there are the ones the parser wrote of it, and where
the next begins. Then the tables, one lemma for each: `Handlers` goes through every
binding of `op_func` against the signature, `ReadHere` through `visit_op_impl`,
`BuiltFacts` and `BuiltHere` through `visit_opcode`, `ExecuteFacts` through the switch
of `execute`. That nine cells of a table are right says nothing of the tenth, so these
are case distinctions over all opcodes; what makes them short is that the guards of a
table are shown disjoint once (`OneReader`, `OneVisitor`, `OneHandler`, `OneCase`).
`IInv` carries the results from the step that read an instruction to the states after
it: `Readable` for the walk, `Made` for what was built or executed. `WalkAligned` and
`OperandsKept` need that operands are told from opcodes and labels from other operands
(`IsField`): an ELSE, which has no operand, is given a word that begins with the next
opcode, a block a type that is the first byte of its label. The theorems are `Alignment`
(`WalkAligned`), `OperandsReachHandlers` (`OperandsKept`), `OnlyBuildable`
(`InstructionsBuilt`), `BuiltIsExecuted` (`ExecutesWhatWasBuilt`) and
`HandlersKeepTheStack` (`HandlerEffect`, for any operand stack and not only those of the
run). A branch table is left out of the first two: where the walk goes on behind one is
not determined.

**Recursion.** `Copied`, `WithoutLabels`, `AddKeys`, `all_objects`, `Pow2` and `Encoding` are
recursive functions, and so is what `FlattenSeq` is defined by. `SetInduction` is induction over a set of numbers, from the well-foundedness
of `<`, and `Recursion` the existence of a function so defined; with them the recursive
definitions are reasoned about step by step (`AddKeysFacts`, `AllObjectsFacts`,
`FlattenStep`, `PowDef`, `EncodingDef`).

**Only model-checked.**

- `Terminates`: liveness under fairness, which the prover does not handle. Every
  invariant, action property and refinement that a run checks is proved.

## What the checks found

Quoted in `PROJECT.json` with the line and, where there is one, the text that says
otherwise. Three **runs** expect a violation; the other findings are part of the
models as they are, and the properties say how far each reaches.

- **`module_link_fully_linked`**: a field the exporter lacks is erased from the import
  map, so `is_fully_linked` holds with null slots left (`WasmModule.h:424`).
- **`module_link_types`**: an i64 is bound to an import of an i32 (`WasmGlobal.h:109`).
- **`stack_resource_empties`**: an allocation of no bytes cannot be given back
  (`StackResource.h:146`).

Stacks and allocation:

- `WasmFrame_PopFrame` takes the frame's size off the counter of free bytes
  (`WasmCallStack.c:180`), which wraps, and a later push writes past the block.
  `CheckSoundUntilWrap` says that until then the check is exact.
- A semicolon ends the `if` of `expand` and of `contract` (`StackResource.h:72`, 98):
  neither changes the buffer. `contract` compares an unadjusted size (88).
- `SimpleVector`'s move assignment deletes the old items under the new count
  (`SimpleVector.h:448`); `OnlyMoveMisfrees` says that nothing else does.
- `resize` calls `shrink` to grow and `grow` to shrink (`SimpleVector.h:593`), and both
  assert the contrary. `const_iterator cend` is written `cbegin` (522); the copy and
  move assignments return nothing (433, 458).

Linking:

- `init_dep` never copies a value (`NothingIsCopied`): a source that still waits fails its
  first assert (`WasmGlobal.h:143`), one whose reported type is not the declared one the
  second (144), and where the two agree the value has another type and `read` throws.
  `DependentsNeverFollow` says what is left of the globals that wait.
- A link that throws in `read` leaves the import listed with its slot filled; the next link
  of the two modules fails the assert that the slot is empty (`WasmModule.h:402`).
  `OnlyThrowsLeaveHalfDone` says that there is no other way to that assert.
- An element segment placed by an imported global is dropped at construction, and
  `is_fully_linked` holds although it is unwritten (`WasmModule.h:488`, 281).
- A function keeps the index that its own module has for its signature, while a
  CALL_INDIRECT asks for the program's number (`ProgramDef.py:487`).
- Reading any import raises (`ProgramDef.py:475`, 464, 88), and so does a global, element
  or data section with an entry (524, 576, 615), a body with locals (601) and a second
  name for one object (55). So does a body with a GET_GLOBAL or SET_GLOBAL (there are no
  globals to map, `WasmBinaryParser.py:251`), a float constant (238), a BR_TABLE (428) or
  a LOOP to begin with (404); one with an ELSE never returns. `CreatedIfLinkable` says
  that a program without these, whose indices are in range, whose functions have one body
  each and whose main module has a start function, is created, and no other.
- A memory is `page_size` times too large (`ProgramDef.py:174`), and exported names read
  `main.b'f'` (675). `-i` of `wasm_cpp_pymain.py` always raises `IndexError`.

Code and instructions:

- A LOOP's label names the cell before it, and a body that begins with a LOOP raises
  `struct.error` (`WasmBinaryParser.py:404`; `LabelsBound`).
- `_else_handler` inserts a label in front of the ELSE it handles and does not move
  past it (`WasmBinaryParser.py:413`): the parse of a body with an ELSE never ends.
  `_br_table_handler` raises `TypeError` for every table (428), and a float constant
  `struct.error` (238). `Terminates` is therefore stated for bodies without these, and
  `CreatedIfLinkable` of `ProgramLink` counts them among the errors.
- The walk reads IF, LOOP, ELSE, CALL_INDIRECT and the two memory size instructions with
  another length than the parser wrote (`WalkAligned`), and the label of a BLOCK or an IF
  together with its type, so that `jump` aborts.
- A memory instruction's offset is its flags (`WasmInstruction.h:878`; `OperandsKept`).
- Of the memory instructions only the last, and no BLOCK or IF, can be built as a
  `WasmInstruction` (1217, 1279; `InstructionsBuilt`); `next_instruction` asserts the
  contrary of what it needs (`CodeView.h:363`); F64_CONST gets the f32 member (1703).
- Loads and stores return no view and stores pop nothing (`ops.h:397`), several names are
  bound twice and others never (`HandlerEffect` lists the opcodes).
- `shr_s` never extends the sign (`arith.h:216`), rotations by a multiple of the width
  shift by the width (239), demote and promote are exchanged (621), signed truncation
  asserts away negative numbers (571), `nearest` loses the rounding mode (484). The older
  division traps for the greatest integer instead of the least (`functional_ex.h:207`).

LEB128:

- `leb128_parse_signed` accepts one byte too many when the width is a multiple of seven
  (`leb128.c:114`; `RoundTrip`).
- `sys_is_little_endian` is false on every machine (`leb128.c:10`); that is why
  decoding is right on little-endian ones, and `Decoded` depends on it.
- The signed C++ parsers read past the end of their input (`leb128_parsers.h:64`), and
  `varint7` drops the sign (70).

## What is not modelled

- **The C++ call stack** (`include/vm/CallStack.h`, `ListStack.h`, the `SimpleStack.h` of
  `vm/alloc`). Its operations stop at their first use: `alloc_n` hands `expand` a byte
  count and an alignment where it expects two sizes (`StackResource.h:384`);
  `call_wasm_function` tests for emptiness the wrong way round and takes the top of an
  empty list of frames for the first call (`CallStack.h:422`); `branch_top` asserts that
  the target already holds the values that it is about to copy there (192). A model of
  it would have no behaviour longer than one call.
- **Linear memory and tables** are vectors that grow by `resize`, which ends in an assert
  (`ResizeAborts` of `SimpleVector`): no memory with a page is ever constructed.
- **Program and control stack** (`WasmProgramStack.cpp`) is unfinished:
  `save_current_frame` breaks off in the middle of a statement, and the previous frame is
  looked for above the current one (line 14).
- **Sorted containers** are used nowhere. `FlatSet` inserts a value only before a greater
  one, hence never the first (`SortedVector.h:326`); `SegmentTracker` calls ranges with a
  gap between them overlapping (`SegmentTracker.h:22`).
- **Data segments in C++** name a variable that is declared nowhere, and a memory has no
  `get_segment` (see ModuleLink).
- **Other allocators.** `SimpleVector` with allocators that compare unequal or
  propagate; nothing in the repository uses one. `AllocatorDeleter.h` is a second copy
  of the vector's deleter that nothing includes.
- **Reading of module sections** in C++ (`WasmModule.h`) and the parsing of one entry in
  Python (`ModuleDef.py`): field by field copies of what the file holds. `ModuleLink`
  and `ProgramLink` start from their result.
- **The second binary parser** (`frontend2/x3binparse.h`, `binparse/`): a Boost.Spirit
  grammar, declarative rules over a library, without state of its own; its LEB128
  primitives are part of `Leb128`.
- **Values in memory, locals and globals**: `CodeView` follows the types on the operand
  stack, `Arith` the values of one instruction.
- **Results without a property**: comparisons, `ceil`, `floor` and `copysign` of floats are
  operators of `Arith` and called in its run, but no property says what they must return;
  nor does one speak of the rounding mode that `nearest` leaves behind, which is a single
  assignment.
- **Exponent ranges of floats**: `Numerics` has none, so overflow to infinity and
  subnormal numbers are left out; so are `sqrt`, `add`, `mul` and `div` on floats, which
  the code takes from the C++ library.
- **Functions and signatures, values, casts and iterator adaptors**: immutable.
- **The main loop**: a skeleton.

## Plan

Done: the call stack with its refinement, module linking with its refinement, the code parser,
the LEB128 decoders, vectors with their refinement, the stack resource, the numeric
functions, the code view, the program linker; proofs about all of these.

When `CallStack.h` can make a call, `VmCallStack` is to compose with `StackResource`:
every frame and block an allocation, against the abstract stack of `CallStackSpec`.
