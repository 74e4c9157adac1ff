----------------------------- MODULE ProgramLink -----------------------------
(***************************************************************************)
(* frontend/ProgramDef.py: the modules of a program are read section by    *)
(* section, each section of every module before the next section of any.   *)
(* Then _map_modules numbers the functions, tables and memories of all of  *)
(* them, the code is read with its indices replaced by those numbers, and  *)
(* create_program.cpp copies the result into the virtual machine.          *)
(*                                                                         *)
(* A Python object is named by where it was made: the module, its kind and *)
(* its place in that module.  A module is what its sections hold; that     *)
(* they can be parsed is taken for granted, and that the blocks of a body  *)
(* are closed and an ELSE stands in an IF.  How its bytes are rewritten is *)
(* the subject of CodeParser; here it is a list of instructions, those     *)
(* that finalized_code treats alike under one name.  An exception ends the *)
(* program: the status is then its type.                                   *)
(***************************************************************************)
EXTENDS Integers, Sequences, Functions

CONSTANTS
  Programs,  \* the programs: sequences of modules, the main module first
  Page       \* consts.LinearMemory.page_size

Function == 0
Table == 1
Memory == 2
Global == 3
Kinds == {Function, Table, Memory}  \* no object of kind Global is ever made

(* Of the instructions: CALL, CALL_INDIRECT, GET_GLOBAL and SET_GLOBAL,    *)
(* F32_CONST and F64_CONST, BR_TABLE, LOOP, ELSE and the rest.  The index  *)
(* is that of the function or type called.                                 *)
Operators == {"call", "call_indirect", "global", "float", "br_table", "loop", "else", "other"}
Instructions == [op : Operators, index : Nat]

(* What ModuleDef.py has parsed: lists of entries, indices that are read   *)
(* as unsigned numbers.                                                    *)
IsList(s) == s \in Seq({s[i] : i \in DOMAIN s})
IsModule(M) ==
  /\ IsList(M.types) /\ IsList(M.imports)
  /\ M.functions \in Seq(Nat) /\ IsList(M.tables) /\ IsList(M.memories)
  /\ {M.globals, M.elements, M.data} \subseteq Nat
  /\ IsList(M.exports) /\ \A x \in DOMAIN M.exports : M.exports[x].index \in Nat
  /\ M.start \in Seq(Nat) /\ Len(M.start) <= 1
  /\ IsList(M.code)
  /\ \A b \in DOMAIN M.code :
       M.code[b].locals \in Nat /\ M.code[b].instructions \in Seq(Instructions)

(* The modules come with their names from a dictionary whose keys they are *)
(* (_add_module and make_program of wasm_cpp_pymain.py).                   *)
ASSUME ProgramsAssumption ==
  \A p \in Programs :
    /\ IsList(p) /\ Len(p) > 0
    /\ \A m \in DOMAIN p : IsModule(p[m])
    /\ \A m, n \in DOMAIN p : p[m].name = p[n].name => m = n
ASSUME PageAssumption == Page \in Nat \ {0}

VARIABLES
  modules,              \* the modules, as the files have them
  phase,                \* the section being read, by its place in Phases
  at,                   \* the module it is read of
  item,                 \* the entries of the section that have been read
  signatures,           \* the keys of function_signatures, in the order of their ids
  function_signatures,  \* per module: the ids of its types
  index_spaces,         \* per module and kind: objects, after _map_modules their numbers
  objects,              \* the attributes of the objects made so far
  exports,              \* per module name and field name
  start_function,
  numbered,             \* self.functions, self.tables, self.memories
  state,                \* the functions create_program has built
  status                \* "linking", "created", the exception, or "endless"

vars == << modules, phase, at, item, signatures, function_signatures, index_spaces,
           objects, exports, start_function, numbered, state, status >>

(* _define_program, and read_program_def after it.                         *)
Phases == << "Type", "Import", "Function", "Table", "Memory", "Global", "Element",
             "Data", "Export", "Start", "Map", "Code", "Create" >>

None == << >>
Entity(m, kind, i) == << m, kind, i >>

Init ==
  /\ modules \in Programs
  /\ phase = 1
  /\ at = 1
  /\ item = 0
  /\ signatures = << >>
  /\ function_signatures = [m \in DOMAIN modules |-> << >>]
  /\ index_spaces = [m \in DOMAIN modules |-> [k \in Kinds |-> << >>]]
  /\ objects = << >>
  /\ exports = << >>
  /\ start_function = None
  /\ numbered = [k \in Kinds |-> << >>]
  /\ state = << >>
  /\ status = "linking"

------------------------------------------------------------------------------
Module == modules[at]

Reading(section) == status = "linking" /\ Phases[phase] = section

NextModule ==
  /\ item' = 0
  /\ IF at < Len(modules) THEN at' = at + 1 /\ phase' = phase
                          ELSE at' = 1 /\ phase' = phase + 1

Raise(error) ==
  /\ status' = error
  /\ UNCHANGED << modules, phase, at, item, signatures, function_signatures,
                  index_spaces, objects, exports, start_function, numbered, state >>

(* An index into a list or a tuple: the count of its elements bounds it.   *)
InRange(i, list) == i < Len(list)

(* IdDict: a key that is new gets the number of the keys there are.        *)
IdDict(dict, key) == IF \E i \in DOMAIN dict : dict[i] = key THEN dict ELSE Append(dict, key)
IdOf(dict, key) == (CHOOSE i \in DOMAIN dict : dict[i] = key) - 1
AddKeys(dict, keys) ==
  LET Add[n \in 0 .. Len(keys)] == IF n = 0 THEN dict ELSE IdDict(Add[n - 1], keys[n])
  IN  Add[Len(keys)]

------------------------------------------------------------------------------
(* The initialize_sequence.                                                *)

ReadTypeSection ==
  /\ Reading("Type")
  /\ signatures' = AddKeys(signatures, Module.types)
  /\ function_signatures' = [function_signatures EXCEPT ![at] =
       [i \in DOMAIN Module.types |-> IdOf(signatures', Module.types[i])]]
  /\ NextModule
  /\ UNCHANGED << modules, index_spaces, objects, exports, start_function, numbered,
                  state, status >>

(* An import that is read raises, whatever it is.  The type of a function  *)
(* has the kind of a global, so its default is made by the wrong class; a  *)
(* memory is typed as a table, whose size is then the memory's maximum;    *)
(* `defualt` and parse_unsigned_leb128 are names nothing has.              *)
import_error(i) ==
  CASE i.kind = Function -> IF InRange(i.index, function_signatures[at])
                            THEN "AssertionError" ELSE "IndexError"
    [] i.kind = Table    -> "NameError"
    [] i.kind = Memory   -> IF i.maximum THEN "NameError" ELSE "TypeError"
    [] i.kind = Global   -> "NameError"
    [] OTHER             -> "ValueError"

ReadImportSection ==
  /\ Reading("Import")
  /\ Module.imports = << >>
  /\ NextModule
  /\ UNCHANGED << modules, signatures, function_signatures, index_spaces, objects,
                  exports, start_function, numbered, state, status >>

ImportRaises ==
  /\ Reading("Import")
  /\ Module.imports # << >>
  /\ Raise(import_error(Head(Module.imports)))

(* The list of a kind grows by the objects of a section.                   *)
Extend(kind, attributes) ==
  LET sz == Len(index_spaces[at][kind])
      new == [i \in 1 .. Len(attributes) |-> Entity(at, kind, sz + i)]
  IN /\ index_spaces' = [index_spaces EXCEPT ![at][kind] = @ \o new]
     /\ objects' = [e \in DOMAIN objects \cup {new[i] : i \in DOMAIN new} |->
          IF e \in DOMAIN objects THEN objects[e] ELSE attributes[e[3] - sz]]

(* get_sig: the type keeps the number the module has for it, and the       *)
(* counts of parameters and results of the signature that number means.    *)
FunctionType(t) ==
  [type |-> t, shape |-> signatures[function_signatures[at][t + 1] + 1],
   name |-> None, code |-> None]

ReadFunctionSection ==
  /\ Reading("Function")
  /\ \A i \in DOMAIN Module.functions : InRange(Module.functions[i], function_signatures[at])
  /\ Extend(Function, [i \in DOMAIN Module.functions |-> FunctionType(Module.functions[i])])
  /\ NextModule
  /\ UNCHANGED << modules, signatures, function_signatures, exports, start_function,
                  numbered, state, status >>

FunctionRaises ==
  /\ Reading("Function")
  /\ \E i \in DOMAIN Module.functions : ~InRange(Module.functions[i], function_signatures[at])
  /\ Raise("IndexError")

ReadTableSection ==
  /\ Reading("Table")
  /\ Extend(Table, [i \in DOMAIN Module.tables |-> [size |-> Module.tables[i], name |-> None]])
  /\ NextModule
  /\ UNCHANGED << modules, signatures, function_signatures, exports, start_function,
                  numbered, state, status >>

(* parse_memory_type has turned pages into bytes; so does Memory.          *)
memory_size(pages) == (pages * Page) * Page

ReadMemorySection ==
  /\ Reading("Memory")
  /\ Extend(Memory, [i \in DOMAIN Module.memories |->
                       [size |-> memory_size(Module.memories[i]), name |-> None]])
  /\ NextModule
  /\ UNCHANGED << modules, signatures, function_signatures, exports, start_function,
                  numbered, state, status >>

(* parse_global_type calls a name nothing has, _eval_init_expr is called   *)
(* without its module: a section with an entry raises.                     *)
section_error == [Global |-> "NameError", Element |-> "TypeError", Data |-> "TypeError"]

ReadEmptySection(section, count) ==
  /\ Reading(section)
  /\ count = 0
  /\ NextModule
  /\ UNCHANGED << modules, signatures, function_signatures, index_spaces, objects,
                  exports, start_function, numbered, state, status >>

SectionRaises(section, count) ==
  /\ Reading(section)
  /\ count > 0
  /\ Raise(section_error[section])

ReadGlobalSection ==
  ReadEmptySection("Global", Module.globals) \/ SectionRaises("Global", Module.globals)
ReadElementSection ==
  ReadEmptySection("Element", Module.elements) \/ SectionRaises("Element", Module.elements)
ReadDataSection ==
  ReadEmptySection("Data", Module.data) \/ SectionRaises("Data", Module.data)

------------------------------------------------------------------------------
(* _read_export_section: one _resolve_export per entry.                    *)

Entry == Module.exports[item + 1]
Exported == index_spaces[at][Entry.kind][Entry.index + 1]
Field == << Module.name, Entry.field >>

(* Kind Global has an index space, which is empty.                         *)
export_in_range ==
  Entry.kind \in Kinds /\ InRange(Entry.index, index_spaces[at][Entry.kind])

(* Variant: an object may be exported under a second name. *)
export_errorRenamed ==
  IF ~export_in_range THEN "IndexError"
  ELSE IF Field \in DOMAIN exports /\ exports[Field] # Exported THEN "ValueError"
  ELSE "none"

(* setdefault finds another object of the field's name: assign_from takes  *)
(* an attribute's name apart as if it were a pair.  An object that has a   *)
(* name refuses a second one.                                              *)
export_error ==
  IF ~export_in_range THEN "IndexError"
  ELSE IF Field \in DOMAIN exports /\ exports[Field] # Exported
       THEN IF exports[Field][2] = Entry.kind THEN "ValueError" ELSE "AssertionError"
       ELSE IF objects[Exported].name # None THEN "AssertionError" ELSE "none"

ResolveExport ==
  /\ Reading("Export")
  /\ item < Len(Module.exports)
  /\ export_error = "none"
  /\ exports' = [f \in DOMAIN exports \cup {Field} |->
                   IF f = Field THEN Exported ELSE exports[f]]
  /\ objects' = [objects EXCEPT ![Exported].name = Field]
  /\ item' = item + 1
  /\ UNCHANGED << modules, phase, at, signatures, function_signatures, index_spaces,
                  start_function, numbered, state, status >>

ExportRaises ==
  /\ Reading("Export")
  /\ item < Len(Module.exports)
  /\ export_error # "none"
  /\ Raise(export_error)

EndExports ==
  /\ Reading("Export")
  /\ item = Len(Module.exports)
  /\ NextModule
  /\ UNCHANGED << modules, signatures, function_signatures, index_spaces, objects,
                  exports, start_function, numbered, state, status >>

------------------------------------------------------------------------------
(* The start function, of the main module only, and _map_modules.          *)

start_error ==
  IF modules[1].start = None THEN "ValueError"
  ELSE IF InRange(modules[1].start[1], index_spaces[1][Function]) THEN "none"
  ELSE "IndexError"

ReadStartSection ==
  /\ Reading("Start")
  /\ start_error = "none"
  /\ start_function' = index_spaces[1][Function][modules[1].start[1] + 1]
  /\ phase' = phase + 1
  /\ UNCHANGED << modules, at, item, signatures, function_signatures, index_spaces,
                  objects, exports, numbered, state, status >>

StartRaises ==
  /\ Reading("Start")
  /\ start_error # "none"
  /\ Raise(start_error)

(* all_functions, all_tables, all_memories: the objects of the modules one *)
(* after another.                                                          *)
all_objects(kind) ==
  LET Of[m \in 0 .. Len(modules)] ==
        IF m = 0 THEN << >> ELSE AddKeys(Of[m - 1], index_spaces[m][kind])
  IN  Of[Len(modules)]

(* Variant: an object keeps the number its module has for it. *)
numberLocal(m, kind, i) == i - 1

number(m, kind, i) == IdOf(numbered'[kind], index_spaces[m][kind][i])

(* No element segment was read, so no table has an entry to replace.       *)
MapModules ==
  /\ Reading("Map")
  /\ numbered' = [k \in Kinds |-> all_objects(k)]
  /\ index_spaces' = [m \in DOMAIN modules |-> [k \in Kinds |->
       [i \in DOMAIN index_spaces[m][k] |-> number(m, k, i)]]]
  /\ exports' = [f \in DOMAIN exports |->
       << exports[f][2], IdOf(numbered'[exports[f][2]], exports[f]) >>]
  /\ start_function' = IdOf(numbered'[Function], start_function)
  /\ phase' = phase + 1
  /\ UNCHANGED << modules, at, item, signatures, function_signatures, objects, state,
                  status >>

------------------------------------------------------------------------------
(* _read_code_section: one body at a time.                                 *)

Body == Module.code[item + 1]

(* _map_index: the operand of a call becomes the program's number of the   *)
(* function or of the signature.                                           *)
map_index(i) ==
  CASE i.op = "call" -> index_spaces[at][Function][i.index + 1]
    [] i.op = "call_indirect" -> function_signatures[at][i.index + 1]
    [] OTHER -> i.index

finalized_code(code) == [n \in DOMAIN code |-> [op |-> code[n].op, index |-> map_index(code[n])]]

(* ImmediatesParser.  No module has a global to map an index to, and a     *)
(* float is packed as the tuple it was unpacked to.                        *)
immediates_error(i) ==
  CASE i.op = "call" /\ ~InRange(i.index, index_spaces[at][Function]) -> "IndexError"
    [] i.op = "call_indirect" /\ ~InRange(i.index, function_signatures[at]) -> "IndexError"
    [] i.op = "global" -> "IndexError"
    [] i.op = "float" -> "struct.error"
    [] OTHER -> "none"

(* CodeParser, of the n-th instruction.  A LOOP that the body begins with  *)
(* is labelled -1, and the length of a table is a tuple.  The label of an  *)
(* ELSE is inserted in front of it, and then it is the turn of the same    *)
(* ELSE again.                                                             *)
labels_error(i, n) ==
  CASE i.op = "loop" /\ n = 1 -> "struct.error"
    [] i.op = "br_table" -> "TypeError"
    [] i.op = "else" -> "endless"
    [] OTHER -> "none"

(* A pass ends at the first instruction it fails at.                       *)
first_error(errors) ==
  LET failing == {n \in DOMAIN errors : errors[n] # "none"}
  IN  IF failing = {} THEN "none"
      ELSE errors[CHOOSE n \in failing : \A k \in failing : n <= k]

immediates_errors(code) == [n \in DOMAIN code |-> immediates_error(code[n])]
labels_errors(code) == [n \in DOMAIN code |-> labels_error(code[n], n)]

(* Variant: the offset of a body is taken in the program. *)
defined_functionLocal == numbered[Function][item + 1]

(* self.functions[module.functions[i + module.function_import_count]] *)
defined_function == numbered[Function][index_spaces[at][Function][item + 1] + 1]

(* The codes of value types are negative, and locals_types holds bytes.    *)
code_error ==
  IF Body.locals > 0 THEN "ValueError"
  ELSE IF first_error(immediates_errors(Body.instructions)) # "none"
  THEN first_error(immediates_errors(Body.instructions))
  ELSE IF first_error(labels_errors(Body.instructions)) # "none"
  THEN first_error(labels_errors(Body.instructions))
  ELSE IF InRange(item, index_spaces[at][Function]) THEN "none" ELSE "IndexError"

ReadBody ==
  /\ Reading("Code")
  /\ item < Len(Module.code)
  /\ code_error = "none"
  /\ objects' = [objects EXCEPT ![defined_function].code = << finalized_code(Body.instructions) >>]
  /\ item' = item + 1
  /\ UNCHANGED << modules, phase, at, signatures, function_signatures, index_spaces,
                  exports, start_function, numbered, state, status >>

BodyRaises ==
  /\ Reading("Code")
  /\ item < Len(Module.code)
  /\ code_error \notin {"none", "endless"}
  /\ Raise(code_error)

(* CodeParser.parse does not return; the code grows.                       *)
BodyNeverEnds ==
  /\ Reading("Code")
  /\ item < Len(Module.code)
  /\ code_error = "endless"
  /\ Raise("endless")

EndCode ==
  /\ Reading("Code")
  /\ item = Len(Module.code)
  /\ NextModule
  /\ UNCHANGED << modules, signatures, function_signatures, index_spaces, objects,
                  exports, start_function, numbered, state, status >>

------------------------------------------------------------------------------
(* read_program_def: a function is serialized, which needs its code, and   *)
(* built from the bytes.  Tables, memories and names are copied once the   *)
(* functions are; the start function is looked up last.                    *)

Serialized == objects[numbered[Function][item + 1]]

CreateFunction ==
  /\ Reading("Create")
  /\ item < Len(numbered[Function])
  /\ Serialized.code # None
  /\ state' = Append(state, [sig_id |-> Serialized.type, shape |-> Serialized.shape,
                             code |-> Serialized.code[1], name |-> Serialized.name])
  /\ item' = item + 1
  /\ UNCHANGED << modules, phase, at, signatures, function_signatures, index_spaces,
                  objects, exports, start_function, numbered, status >>

SerializeRaises ==
  /\ Reading("Create")
  /\ item < Len(numbered[Function])
  /\ Serialized.code = None
  /\ Raise("TypeError")

CreateProgram ==
  /\ Reading("Create")
  /\ item = Len(numbered[Function])
  /\ status' = "created"
  /\ UNCHANGED << modules, phase, at, item, signatures, function_signatures,
                  index_spaces, objects, exports, start_function, numbered, state >>

------------------------------------------------------------------------------
Next ==
  \/ ReadTypeSection
  \/ ReadImportSection \/ ImportRaises
  \/ ReadFunctionSection \/ FunctionRaises
  \/ ReadTableSection
  \/ ReadMemorySection
  \/ ReadGlobalSection
  \/ ReadElementSection
  \/ ReadDataSection
  \/ ResolveExport \/ ExportRaises \/ EndExports
  \/ ReadStartSection \/ StartRaises
  \/ MapModules
  \/ ReadBody \/ BodyRaises \/ BodyNeverEnds \/ EndCode
  \/ CreateFunction \/ SerializeRaises \/ CreateProgram

Spec == Init /\ [][Next]_vars

------------------------------------------------------------------------------
(* Properties.                                                             *)

Mapped == numbered[Function] # << >>

(* After _map_modules every number that a module, the export map or the    *)
(* start function holds leads back to the entity that the module's file    *)
(* means by its index, and every entity has exactly one number.            *)
EntitiesKept ==
  Mapped =>
    /\ \A k \in Kinds :
         /\ IsInjective(numbered[k])
         /\ \A m \in DOMAIN modules : \A i \in DOMAIN index_spaces[m][k] :
              numbered[k][index_spaces[m][k][i] + 1] = Entity(m, k, i)
    /\ \A m \in DOMAIN modules : \A x \in DOMAIN modules[m].exports :
         LET entry == modules[m].exports[x]
             value == exports[<< modules[m].name, entry.field >>]
         IN numbered[value[1]][value[2] + 1] = Entity(m, entry.kind, entry.index + 1)
    /\ numbered[Function][start_function + 1] = Entity(1, Function, modules[1].start[1] + 1)

(* A function that has code has the body that its module lists at its      *)
(* place.  Each call in it leads to the function the module means, and     *)
(* each indirect call to the signature.                                    *)
CallsResolve ==
  \A e \in DOMAIN objects :
    e[2] = Function /\ objects[e].code # None =>
      LET code == modules[e[1]].code[e[3]].instructions
          final == objects[e].code[1]
      IN /\ e[3] \in DOMAIN modules[e[1]].code
         /\ DOMAIN final = DOMAIN code
         /\ \A n \in DOMAIN code :
              /\ final[n].op = code[n].op
              /\ code[n].op = "call" =>
                   numbered[Function][final[n].index + 1] = Entity(e[1], Function, code[n].index + 1)
              /\ code[n].op = "call_indirect" =>
                   signatures[final[n].index + 1] = modules[e[1]].types[code[n].index + 1]

(* What the linker takes: no imports, globals, segments or locals, every   *)
(* index in range, an entity exported once and under one name, no floats,  *)
(* branch tables or ELSEs, and no LOOP at the beginning of a body.         *)
Acceptable(i, n, M) ==
  /\ i.op \notin {"global", "float", "br_table", "else"}
  /\ i.op = "call" => i.index < Len(M.functions)
  /\ i.op = "call_indirect" => i.index < Len(M.types)
  /\ i.op = "loop" => n # 1

Linkable ==
  /\ modules[1].start # None
  /\ modules[1].start[1] < Len(modules[1].functions)
  /\ \A m \in DOMAIN modules :
       LET M == modules[m]
           Count(k) == CASE k = Function -> Len(M.functions)
                         [] k = Table    -> Len(M.tables)
                         [] k = Memory   -> Len(M.memories)
                         [] OTHER        -> 0
       IN /\ M.imports = << >>
          /\ M.globals + M.elements + M.data = 0
          /\ \A i \in DOMAIN M.functions : M.functions[i] < Len(M.types)
          /\ \A x \in DOMAIN M.exports : M.exports[x].index < Count(M.exports[x].kind)
          /\ \A x, y \in DOMAIN M.exports : x # y =>
               /\ M.exports[x].field # M.exports[y].field
               /\ << M.exports[x].kind, M.exports[x].index >> #
                    << M.exports[y].kind, M.exports[y].index >>
          /\ Len(M.code) = Len(M.functions)
          /\ \A b \in DOMAIN M.code :
               /\ M.code[b].locals = 0
               /\ \A n \in DOMAIN M.code[b].instructions :
                    Acceptable(M.code[b].instructions[n], n, M)

(* The linker creates these programs and no other.  It refuses the rest    *)
(* with an exception or, at an ELSE, never returns: no error passes        *)
(* unnoticed, and there is no other that it raises.                        *)
CreatedIfLinkable == status # "linking" => (status = "created" <=> Linkable)
=============================================================================
