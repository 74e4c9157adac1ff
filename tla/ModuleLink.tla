----------------------------- MODULE ModuleLink ------------------------------
(***************************************************************************)
(* include/module/WasmModule.h and the dependency part of WasmGlobal.h:    *)
(* modules are constructed one by one with empty slots for what they       *)
(* import, and link(importer, exporter) fills the slots of one importer    *)
(* from one exporter, in whatever order the program calls it and as often  *)
(* as it likes.  A link walks an unordered_map, one import at a time, and  *)
(* an exception leaves the rest for another call.  The order of the walk   *)
(* is left open, that of a repeated call as well.                          *)
(*                                                                         *)
(* A slot is an entry of an index space: it points to an entity (named by  *)
(* its home, the module and slot that define it) or is null.  An export is *)
(* a pointer to a slot, so it sees a slot filled later.  The slots of a    *)
(* module are numbered across its four index spaces, in the order of each. *)
(*                                                                         *)
(* A failed assert ends the program, and so does the use of a null table   *)
(* pointer.  An exception goes back to the program, which may go on.       *)
(*                                                                         *)
(* A module has at most one element segment.  Data segments are left out:  *)
(* initialize_data_segment calls get_segment on a `table` that is declared *)
(* nowhere, and a WasmLinearMemory has no get_segment.                     *)
(***************************************************************************)
EXTENDS Integers, FiniteSets

CONSTANTS
  Modules,
  ImportsOf,   (* module -> set of [slot, from, field, kind, type]          *)
  DefsOf,      (* module -> slot -> [kind, type, depends, value]            *)
  ExportsOf,   (* module -> field -> slot                                   *)
  SegmentOf,   (* module -> its one element segment [table, global, at,     *)
               (* length], or NoSegment; global is NoSlot when the offset   *)
               (* is the constant at                                        *)
  NoSlot, NoSegment, Null, NoModule

ImportSlots(m) == {i.slot : i \in ImportsOf[m]}
Slots(m) == ImportSlots(m) \cup DOMAIN DefsOf[m]
Entities == UNION {{<<m, s>> : s \in DOMAIN DefsOf[m]} : m \in Modules}

Def(e) == DefsOf[e[1]][e[2]]

(* The name of an import among those of all modules. *)
Import(m, i) == <<m, i, "import">>

(* The kind of what a slot points to, null or not. *)
SlotKind(m, s) ==
  IF s \in DOMAIN DefsOf[m] THEN DefsOf[m][s].kind
  ELSE (CHOOSE i \in ImportsOf[m] : i.slot = s).kind

SlotsOfKind(m, kind) == {s \in Slots(m) : SlotKind(m, s) = kind}

(* LanguageType without its sign. *)
ValueTypes == 1..4  (* i32, i64, f32, f64 *)
I32 == 1

(* What the parsers guarantee: the slots of a module are distinct, exports *)
(* name slots of it, and a global has a value type.                        *)
ASSUME ModulesAssumption ==
  \A m \in Modules :
    /\ Slots(m) \subseteq Nat
    /\ \A i, j \in ImportsOf[m] : i.slot = j.slot \/ <<i.from, i.field>> = <<j.from, j.field>> => i = j
    /\ ImportSlots(m) \cap DOMAIN DefsOf[m] = {}
    /\ \A f \in DOMAIN ExportsOf[m] : ExportsOf[m][f] \in Slots(m)
    /\ \A s \in DOMAIN DefsOf[m] :
         IF DefsOf[m][s].kind = "global"
         THEN DefsOf[m][s].type \in [lang : ValueTypes, const : BOOLEAN]
         ELSE DefsOf[m][s].depends = NoSlot

(* A null pointer is no entity, an absent initialiser no slot, and a slot  *)
(* no import.                                                              *)
ASSUME SentinelsAssumption ==
  /\ NoModule \notin Modules
  /\ Null \notin Entities
  /\ \A m \in Modules :
       /\ NoSlot \notin Slots(m)
       /\ \A i \in ImportsOf[m] : Import(m, i) # Null /\ Import(m, i) \notin Entities

VARIABLES
  constructed,  (* the modules that exist                                   *)
  imports,      (* imports_: what each module still lists as unresolved     *)
  space,        (* the index spaces: slot -> entity or Null                 *)
  pending,      (* the globals whose value_ is a dependency                 *)
  waiting,      (* global_deps_: the globals entered in it                  *)
  written,      (* modules whose segment was written                        *)
  job,          (* <<importer, exporter>> of the link under way             *)
  outcome,      (* how the last constructor or link came back               *)
  ended         (* the assert (or null pointer) that ended the program      *)

vars == <<constructed, imports, space, pending, waiting, written, job, outcome, ended>>

NoJob == <<NoModule, NoModule>>
Errors == {"KindMismatch", "NullImport", "TypeMismatch", "BadAccess", "OutOfRange"}
Outcomes == {"none", "ok"} \cup Errors
Asserts == {"index", "unknown", "mismatch", "bounds", "nullTable", "filled"}

------------------------------------------------------------------------------
(* Globals.                                                                *)

(* get_language_type: -1 * (index - 1), where the variant's index is 0 for *)
(* a dependency, 1 to 4 for a mutable i32 to f64 and 5 to 8 for a constant *)
(* one.  A value that is there is reported with the number of the type     *)
(* before its own, or with one that belongs to no value type.              *)
VariantIndex(e) == Def(e).type.lang + IF Def(e).type.const THEN 4 ELSE 0

LanguageType(e, hasDependency) ==
  IF hasDependency THEN Def(e).type.lang ELSE VariantIndex(e) - 1

GetLanguageType(e) == LanguageType(e, e \in pending)

(* matches: function signatures are equal; a table or memory is at least   *)
(* as large and has the same maximum; the GlobalType a global reports is   *)
(* the one asked for.                                                      *)
Matches(e, type, hasDependency) ==
  CASE Def(e).kind = "function" -> Def(e).type = type
    [] Def(e).kind \in {"table", "memory"} ->
         Def(e).type.size >= type.size /\ Def(e).type.maximum = type.maximum
    [] OTHER -> type = [lang |-> LanguageType(e, hasDependency), const |-> Def(e).type.const]

(* Variant: the value is read whatever type it has. *)
UncheckedRead(g, e) ==
  IF e \in pending THEN "unknown"
  ELSE IF Def(g).type.lang # GetLanguageType(e) THEN "mismatch" ELSE "copied"

(* g.init_dep(e): two asserts, then read<T> of e at the type g declares,   *)
(* which is std::get and throws when that is not the type of the value.    *)
InitDep(g, e) ==
  IF e \in pending THEN "unknown"
  ELSE IF Def(g).type.lang # GetLanguageType(e) THEN "mismatch"
  ELSE IF Def(g).type.lang # Def(e).type.lang THEN "BadAccess" ELSE "copied"

(* The first in the order of the index space, which is that of the vectors *)
(* in global_deps_.                                                        *)
First(S) == CHOOSE s \in S : \A x \in S : s <= x

------------------------------------------------------------------------------
(* Construction.                                                           *)

Init ==
  /\ constructed = {}
  /\ imports = [m \in Modules |-> {}]
  /\ space = [m \in Modules |-> [s \in Slots(m) |-> Null]]
  /\ pending = {e \in Entities : Def(e).depends # NoSlot}
  /\ waiting = [m \in Modules |-> {}]
  /\ written = {}
  /\ job = NoJob
  /\ outcome = "none"
  /\ ended = "no"

(* The globals entered in global_deps_, and those entered for slot s. *)
DependentsAtStart(m) == {s \in DOMAIN DefsOf[m] : DefsOf[m][s].depends # NoSlot}

DependentsOn(m, s) == {g \in DependentsAtStart(m) : DefsOf[m][g].depends = s}

(* assert(idx < globals_.size()) *)
IndicesHold(m) ==
  \A g \in DependentsAtStart(m) : DefsOf[m][g].depends \in SlotsOfKind(m, "global")

(* The slots that are waited on and not null: definitions of the module.   *)
OwnDependencies(m) == {DefsOf[m][g].depends : g \in DependentsAtStart(m)} \cap DOMAIN DefsOf[m]

Tables(m) == SlotsOfKind(m, "table")

TableAt(m, n) == CHOOSE s \in Tables(m) : Cardinality({x \in Tables(m) : x < s}) = n

(* try_get_offset: the imports are null as yet. *)
OffsetUnknown(m) ==
  LET s == SegmentOf[m].global IN
  s \in ImportSlots(m) \/ <<m, s>> \in pending

Offset(m) ==
  LET seg == SegmentOf[m] IN
  IF seg.global = NoSlot THEN seg.at ELSE DefsOf[m][seg.global].value

(* get_segment with an offset: the table is the one whose index is the     *)
(* offset, a null pointer when it is imported.                             *)
PlaceSegment(m) ==
  LET n == Offset(m)
      size == DefsOf[m][TableAt(m, n)].type.size IN
  IF n < 0 THEN "bounds"
  ELSE IF n >= Cardinality(Tables(m)) THEN "OutOfRange"
  ELSE IF TableAt(m, n) \in ImportSlots(m) THEN "nullTable"
  ELSE IF n > size \/ size - n < SegmentOf[m].length THEN "bounds"
  ELSE "written"

(* initialize_elem_segment returns true when there is no offset as well,   *)
(* so elem_segs_ stays empty and no link ever writes a segment.            *)
SegmentResult(m) ==
  LET seg == SegmentOf[m]
      known == <<m, seg.global>> IN
  IF seg = NoSegment THEN "none"
  ELSE IF Cardinality(Tables(m)) <= seg.table THEN "index"
  ELSE IF seg.global = NoSlot THEN PlaceSegment(m)
  ELSE IF seg.global \notin SlotsOfKind(m, "global") THEN "OutOfRange"
  ELSE IF OffsetUnknown(m) THEN "none"
  ELSE IF Def(known).type.lang # I32 THEN "BadAccess"
  ELSE PlaceSegment(m)

(* The body of the constructor: it enters the dependents, initialises      *)
(* those of its own globals, in the order of an unordered_map, and writes  *)
(* the segment.  The first init_dep ends it, for none comes to the copy.   *)
ConstructorResults(m) ==
  IF ~IndicesHold(m) THEN {"index"}
  ELSE IF OwnDependencies(m) # {}
  THEN {InitDep(<<m, First(DependentsOn(m, s))>>, <<m, s>>) : s \in OwnDependencies(m)}
  ELSE {SegmentResult(m)}

Running == ended = "no" /\ job = NoJob

Construct(m, result) ==
  /\ Running
  /\ m \notin constructed
  /\ result \in ConstructorResults(m) \cap {"none", "written"}
  /\ constructed' = constructed \cup {m}
  /\ imports' = [imports EXCEPT ![m] = ImportsOf[m]]
  /\ space' = [space EXCEPT ![m] =
                 [s \in Slots(m) |-> IF s \in DOMAIN DefsOf[m] THEN <<m, s>> ELSE Null]]
  /\ waiting' = [waiting EXCEPT ![m] = DependentsAtStart(m)]
  /\ written' = IF result = "written" THEN written \cup {m} ELSE written
  /\ outcome' = "ok"
  /\ UNCHANGED <<pending, job, ended>>

(* What was constructed so far is destroyed. *)
ConstructorThrows(m, result) ==
  /\ Running
  /\ m \notin constructed
  /\ result \in ConstructorResults(m) \cap Errors
  /\ outcome' = result
  /\ UNCHANGED <<constructed, imports, space, pending, waiting, written, job, ended>>

ConstructorAborts(m, result) ==
  /\ Running
  /\ m \notin constructed
  /\ result \in ConstructorResults(m) \cap Asserts
  /\ ended' = result
  /\ UNCHANGED <<constructed, imports, space, pending, waiting, written, job, outcome>>

------------------------------------------------------------------------------
(* link(importer, exporter): import_fields_from, one step per import.      *)

Listed(importer, exporter) == {i \in imports[importer] : i.from = exporter}

LinkBegin(importer, exporter) ==
  /\ Running
  /\ {importer, exporter} \subseteq constructed
  /\ Listed(importer, exporter) # {}
  /\ job' = <<importer, exporter>>
  /\ UNCHANGED <<constructed, imports, space, pending, waiting, written, outcome, ended>>

LinkEnd ==
  /\ ended = "no"
  /\ job # NoJob
  /\ Listed(job[1], job[2]) = {}
  /\ job' = NoJob
  /\ outcome' = "ok"
  /\ UNCHANGED <<constructed, imports, space, pending, waiting, written, ended>>

IsExported(i) == i.field \in DOMAIN ExportsOf[i.from]

ExportSlot(i) == ExportsOf[i.from][i.field]

KindsMatch(i) == SlotKind(i.from, ExportSlot(i)) = i.kind

Exporter(i) == space[i.from][ExportSlot(i)]

(* Variant: a resolved import stays in the map. *)
KeepResolved(i) ==
  imports' = [imports EXCEPT ![job[1]] = IF IsExported(i) THEN @ ELSE @ \ {i}]

(* The loop erases the import it visited, whether the exporter has such a  *)
(* field or not.                                                           *)
Erase(i) == imports' = [imports EXCEPT ![job[1]] = @ \ {i}]

SkipMissing(i) ==
  /\ ~IsExported(i)
  /\ Erase(i)
  /\ UNCHANGED <<constructed, space, pending, waiting, written, job, outcome, ended>>

(* Variant: the types are not compared. *)
AcceptsAnyType(i) == IsExported(i) /\ KindsMatch(i) /\ Exporter(i) # Null

Accepted(i) ==
  /\ IsExported(i) /\ KindsMatch(i)
  /\ Exporter(i) # Null
  /\ Matches(Exporter(i), i.type, Exporter(i) \in pending)

(* import_field throws; the import stays listed. *)
Throw(error) ==
  /\ job' = NoJob
  /\ outcome' = error
  /\ UNCHANGED <<constructed, imports, pending, waiting, written, ended>>

ImportFails(i) ==
  /\ IsExported(i)
  /\ ~Accepted(i)
  /\ Throw(IF ~KindsMatch(i) THEN "KindMismatch"
           ELSE IF Exporter(i) = Null THEN "NullImport" ELSE "TypeMismatch")
  /\ UNCHANGED space

(* The globals of module m that take their initial value from slot s.      *)
Dependents(m, s) == {g \in waiting[m] : DefsOf[m][g].depends = s}

(* Variant: imports from one module all get the index of the first. *)
FirstImportSlot(i) == (CHOOSE j \in ImportsOf[job[1]] : j.from = i.from).slot

(* The index in the importer's space that read_import_section gave it. *)
ImportIndex(i) == i.slot

FillSlot(i) == space' = [space EXCEPT ![job[1]][ImportIndex(i)] = Exporter(i)]

(* _notify_dependents walks the globals that wait on the slot, and the     *)
(* first one whose init_dep does not come to its end is the last.          *)
NotifyResult(i) ==
  LET m == job[1]
      stops == {g \in Dependents(m, ImportIndex(i)) : InitDep(<<m, g>>, Exporter(i)) # "copied"} IN
  IF stops = {} THEN "copied" ELSE InitDep(<<m, First(stops)>>, Exporter(i))

(* The slot is filled, no global waits on it any more, and the import is   *)
(* resolved.  What a dependent copies would go on to those that wait on    *)
(* it, but a constructed module has none that wait on its own globals.     *)
ImportField(i) ==
  LET m == job[1]
      copied == Dependents(m, ImportIndex(i)) IN
  /\ Accepted(i)
  /\ space[m][ImportIndex(i)] = Null
  /\ NotifyResult(i) = "copied"
  /\ FillSlot(i)
  /\ pending' = pending \ {<<m, g>> : g \in copied}
  /\ waiting' = [waiting EXCEPT ![m] = @ \ copied]
  /\ Erase(i)
  /\ UNCHANGED <<constructed, written, job, outcome, ended>>

(* read<T> throws through import_field, after the slot was filled and      *)
(* before the import is erased.                                            *)
ImportThrows(i) ==
  /\ Accepted(i)
  /\ space[job[1]][ImportIndex(i)] = Null
  /\ NotifyResult(i) \in Errors
  /\ FillSlot(i)
  /\ Throw(NotifyResult(i))

(* assert((not elem)), or an assert of init_dep.  In the second case the   *)
(* slot is filled by then, which nobody can see any more.                  *)
AbortReason(i) ==
  IF space[job[1]][ImportIndex(i)] # Null THEN "filled" ELSE NotifyResult(i)

ImportAborts(i) ==
  /\ Accepted(i)
  /\ AbortReason(i) \in Asserts
  /\ ended' = AbortReason(i)
  /\ UNCHANGED <<constructed, imports, space, pending, waiting, written, job, outcome>>

LinkStep(i) ==
  /\ ended = "no"
  /\ job # NoJob
  /\ i \in Listed(job[1], job[2])
  /\ \/ SkipMissing(i)
     \/ ImportFails(i)
     \/ ImportField(i)
     \/ ImportThrows(i)
     \/ ImportAborts(i)

Next ==
  \/ \E m \in Modules : \E result \in ConstructorResults(m) :
       Construct(m, result) \/ ConstructorThrows(m, result) \/ ConstructorAborts(m, result)
  \/ \E m, n \in Modules : LinkBegin(m, n)
  \/ \E i \in UNION {ImportsOf[m] : m \in Modules} : LinkStep(i)
  \/ LinkEnd

Spec == Init /\ [][Next]_vars

------------------------------------------------------------------------------
(* Properties.                                                             *)

TypeOK ==
  /\ constructed \subseteq Modules
  /\ \A m \in Modules : imports[m] \subseteq ImportsOf[m]
  /\ \A m \in Modules : space[m] \in [Slots(m) -> Entities \cup {Null}]
  /\ pending \subseteq Entities
  /\ \A m \in Modules : waiting[m] \subseteq DOMAIN DefsOf[m]
  /\ written \subseteq constructed
  /\ job \in (Modules \X Modules) \cup {NoJob}
  /\ outcome \in Outcomes
  /\ ended \in Asserts \cup {"no"}

(* An import whose slot is filled is off the list, unless a global waits   *)
(* on the slot: that link threw half-way through, and the import stays     *)
(* listed with its slot filled.  This is the only way to come to the       *)
(* assert of import_field on an empty slot: when the program ends there,   *)
(* an import of the link under way is in that state.                       *)
OnlyThrowsLeaveHalfDone ==
  /\ \A m \in constructed : \A i \in ImportsOf[m] :
       space[m][i.slot] # Null =>
         (i \in imports[m] <=> Dependents(m, i.slot) # {})
  /\ ended = "filled" =>
       \E i \in Listed(job[1], job[2]) :
         space[job[1]][i.slot] # Null /\ Dependents(job[1], i.slot) # {}

(* A filled import slot and the slot it was imported from point to the     *)
(* same entity, through any chain of re-exports and in any order of links. *)
LinksAgree ==
  \A m \in constructed : \A i \in ImportsOf[m] :
    space[m][i.slot] # Null =>
      /\ i.from \in constructed
      /\ IsExported(i)
      /\ space[m][i.slot] = Exporter(i)

(* No global ever takes its initial value from another one.  A module that *)
(* was constructed has only globals that depend on its imports; these wait *)
(* for good, with no value.  The slot they wait on is null, or points to a *)
(* global that has a value and reports the type which the first of them    *)
(* declares, where init_dep threw; at any other the program has ended.     *)
(* (WasmModule::_notify_dependents, WasmGlobal::init_dep.)                 *)
WaitsForGood(m, g) ==
  LET s == DefsOf[m][g].depends IN
  /\ g \in waiting[m] /\ <<m, g>> \in pending
  /\ s \in ImportSlots(m)
  /\ space[m][s] # Null =>
       /\ space[m][s] \notin pending
       /\ GetLanguageType(space[m][s]) = DefsOf[m][First(Dependents(m, s))].type.lang

DependentsNeverFollow ==
  \A m \in constructed : \A g \in DependentsAtStart(m) : WaitsForGood(m, g)

(* All links, in any order and with any failures, are the binding of one   *)
(* import after another to the entity its field denotes, one of its kind   *)
(* that `matches` takes for its type.                                      *)
AllImports == UNION {{Import(m, i) : i \in ImportsOf[m]} : m \in Modules}

ExportedBy(x) ==
  LET i == x[2] IN
  IF ~IsExported(i) THEN Null
  ELSE IF ExportSlot(i) \in DOMAIN DefsOf[i.from] THEN <<i.from, ExportSlot(i)>>
  ELSE Import(i.from, CHOOSE j \in ImportsOf[i.from] : j.slot = ExportSlot(i))

AcceptsEntity(x, e) ==
  /\ Def(e).kind = x[2].kind
  /\ Matches(e, x[2].type, Def(e).depends # NoSlot)

Linker == INSTANCE LinkerSpec WITH
  Imports <- AllImports,
  Entities <- Entities,
  Accepts <- AcceptsEntity,
  Exported <- ExportedBy,
  Unbound <- Null,
  bound <- [x \in AllImports |-> space[x[1]][x[2].slot]]

ImplementsLinker == Linker!Spec

------------------------------------------------------------------------------
(* What the repository says of linking.                                    *)

(* is_fully_linked: no import is listed as "not-yet-resolved"              *)
(* (WasmModule.h:680) means every slot of the module points somewhere.     *)
IsFullyLinked(m) == m \in constructed /\ imports[m] = {}

FullyLinkedIsResolved ==
  \A m \in Modules : IsFullyLinked(m) => \A s \in Slots(m) : space[m][s] # Null

(* An import that does not have "the actual type" of what the exporter has *)
(* is refused (WasmModule.h:96), so a filled slot has the type asked for.  *)
ImportsHaveTheirType ==
  \A m \in constructed : \A i \in ImportsOf[m] :
    i.kind = "global" /\ space[m][i.slot] # Null => Def(space[m][i.slot]).type = i.type

==============================================================================
