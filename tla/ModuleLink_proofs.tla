-------------------------- MODULE ModuleLink_proofs --------------------------
(***************************************************************************)
(* Proofs about ModuleLink for every set of modules, whatever they import, *)
(* define and re-export, in rings too.                                     *)
(*                                                                         *)
(* The invariants the runs check speak of the modules that exist.  To be   *)
(* inductive they need what holds of the others: SlotsHold says that a     *)
(* module not yet constructed has nothing in its slots, that a definition  *)
(* is in its own slot for good, and that what an import slot holds has the *)
(* kind the import asked for: this is what lets a re-export be imported    *)
(* through its slot.  GlobalsWait says that the globals with a dependency  *)
(* are for ever those that were declared with one.  It rests on the fact   *)
(* that init_dep never comes to the copy (NothingIsCopied).                *)
(***************************************************************************)
EXTENDS ModuleLink, TLAPS

(* The variables that are indexed by modules are functions on them.        *)
Indexed ==
  /\ DOMAIN imports = Modules
  /\ DOMAIN space = Modules
  /\ waiting = [m \in Modules |-> waiting[m]]

SlotsHold ==
  /\ \A m \in Modules \ constructed : \A s \in Slots(m) : space[m][s] = Null
  /\ \A m \in Modules \ constructed : imports[m] = {}
  /\ \A m \in constructed : \A s \in DOMAIN DefsOf[m] : space[m][s] = <<m, s>>
  /\ \A m \in Modules : \A i \in ImportsOf[m] :
       space[m][i.slot] # Null => Def(space[m][i.slot]).kind = i.kind
  /\ job # NoJob => job[1] \in constructed /\ job[2] \in constructed

(* The globals of a module that was constructed depend on imported globals *)
(* or on none, and all that depend on one are entered in global_deps_.     *)
GlobalsWait ==
  /\ pending = {e \in Entities : Def(e).depends # NoSlot}
  /\ \A m \in constructed : waiting[m] = DependentsAtStart(m)
  /\ \A m \in constructed : \A g \in DependentsAtStart(m) :
       DefsOf[m][g].depends \in ImportSlots(m) \cap SlotsOfKind(m, "global")

IInv ==
  /\ TypeOK /\ Indexed /\ SlotsHold /\ GlobalsWait
  /\ OnlyThrowsLeaveHalfDone /\ LinksAgree /\ DependentsNeverFollow

------------------------------------------------------------------------------
(* An import's slot is no slot of a definition, and two imports of a       *)
(* module have different ones.                                             *)
LEMMA ImportSlotFacts ==
  ASSUME NEW m \in Modules, NEW i \in ImportsOf[m]
  PROVE  /\ i.slot \in Slots(m)
         /\ i.slot \in ImportSlots(m)
         /\ i.slot \notin DOMAIN DefsOf[m]
         /\ i.slot # NoSlot
         /\ \A j \in ImportsOf[m] : j.slot = i.slot => j = i
<1>1. i.slot \in ImportSlots(m)
  BY DEF ImportSlots
<1>2. i.slot \in Slots(m) /\ i.slot # NoSlot
  BY <1>1, SentinelsAssumption DEF Slots
<1>3. i.slot \notin DOMAIN DefsOf[m]
  BY <1>1, ModulesAssumption
<1> QED
  BY <1>1, <1>2, <1>3, ModulesAssumption

LEMMA EntityFacts ==
  ASSUME NEW m \in Modules, NEW s \in DOMAIN DefsOf[m]
  PROVE  <<m, s>> \in Entities /\ <<m, s>> # Null /\ s \in Slots(m)
  BY SentinelsAssumption DEF Entities, Slots

(* What an export points to: a definition of the exporter, or the slot of  *)
(* the import with that slot.                                              *)
LEMMA ExportedSlot ==
  ASSUME NEW i, i.from \in Modules, IsExported(i),
         ExportSlot(i) \notin DOMAIN DefsOf[i.from],
         NEW j, j = CHOOSE x \in ImportsOf[i.from] : x.slot = ExportSlot(i)
  PROVE  j \in ImportsOf[i.from] /\ j.slot = ExportSlot(i)
<1>1. ExportSlot(i) \in Slots(i.from)
  BY ModulesAssumption DEF IsExported, ExportSlot
<1>2. \E x \in ImportsOf[i.from] : x.slot = ExportSlot(i)
  BY <1>1 DEF Slots, ImportSlots
<1> QED
  BY <1>2

(* The kind of an import slot is the import's. *)
LEMMA ImportSlotKind ==
  ASSUME NEW m \in Modules, NEW i \in ImportsOf[m]
  PROVE  SlotKind(m, i.slot) = i.kind
<1> DEFINE j == CHOOSE x \in ImportsOf[m] : x.slot = i.slot
<1>1. j \in ImportsOf[m] /\ j.slot = i.slot
  OBVIOUS
<1>2. j = i
  BY <1>1, ImportSlotFacts
<1>3. i.slot \notin DOMAIN DefsOf[m]
  BY ImportSlotFacts
<1> QED
  BY <1>2, <1>3 DEF SlotKind

(* An import the exporter accepts is bound to an entity of its kind, also  *)
(* when the exporter has itself imported it.                               *)
LEMMA AcceptedEntity ==
  ASSUME TypeOK, SlotsHold, NEW i, i.from \in constructed, Accepted(i)
  PROVE  /\ Exporter(i) \in Entities
         /\ Def(Exporter(i)).kind = i.kind
<1>1. i.from \in Modules /\ IsExported(i)
  BY DEF TypeOK, Accepted
<1>2. ExportSlot(i) \in Slots(i.from)
  BY <1>1, ModulesAssumption DEF IsExported, ExportSlot
<1>3. Exporter(i) \in Entities
  BY <1>1, <1>2 DEF TypeOK, Accepted, Exporter
<1>4. CASE ExportSlot(i) \in DOMAIN DefsOf[i.from]
  <2>1. Exporter(i) = <<i.from, ExportSlot(i)>>
    BY <1>4 DEF SlotsHold, Exporter
  <2> QED
    BY <1>3, <1>4, <2>1 DEF Accepted, KindsMatch, SlotKind, Def
<1>5. CASE ExportSlot(i) \notin DOMAIN DefsOf[i.from]
  <2> DEFINE j == CHOOSE x \in ImportsOf[i.from] : x.slot = ExportSlot(i)
  <2>1. j \in ImportsOf[i.from] /\ j.slot = ExportSlot(i)
    BY <1>1, <1>5, ExportedSlot
  <2>2. SlotKind(i.from, ExportSlot(i)) = j.kind
    BY <1>5 DEF SlotKind
  <2>3. Def(space[i.from][j.slot]).kind = j.kind
    BY <1>1, <2>1 DEF SlotsHold, Accepted, Exporter
  <2> QED
    BY <1>3, <2>1, <2>2, <2>3 DEF Accepted, KindsMatch, Exporter
<1> QED
  BY <1>4, <1>5

(* init_dep never comes to the copy: the type that a global with a value   *)
(* reports is never the type of its value.                                 *)
THEOREM NothingIsCopied ==
  ASSUME NEW e \in Entities, Def(e).kind = "global", NEW g
  PROVE  InitDep(g, e) # "copied"
<1>0. PICK m \in Modules : \E s \in DOMAIN DefsOf[m] : e = <<m, s>>
  BY DEF Entities
<1>1. PICK s \in DOMAIN DefsOf[m] : e = <<m, s>>
  BY <1>0
<1>2. DefsOf[m][s].type \in [lang : ValueTypes, const : BOOLEAN]
  BY <1>1, ModulesAssumption DEF Def
<1>3. Def(e).type.lang \in ValueTypes
  BY <1>1, <1>2 DEF Def
<1>4. VariantIndex(e) - 1 # Def(e).type.lang
  BY <1>3 DEF VariantIndex, ValueTypes
<1> QED
  BY <1>4 DEF InitDep, GetLanguageType, LanguageType

LEMMA InitDepResults ==
  ASSUME NEW g, NEW e
  PROVE  InitDep(g, e) \in {"unknown", "mismatch", "BadAccess", "copied"}
  BY DEF InitDep

------------------------------------------------------------------------------
(* What filling a slot does.                                               *)

(* Only this slot changes, from null.                                      *)
LEMMA FillEffect ==
  ASSUME IInv, job # NoJob, NEW i \in Listed(job[1], job[2]),
         Accepted(i), space[job[1]][ImportIndex(i)] = Null, FillSlot(i)
  PROVE  /\ job[1] \in constructed /\ job[1] \in Modules
         /\ i \in imports[job[1]] /\ i \in ImportsOf[job[1]]
         /\ i.from \in constructed /\ i.from \in Modules
         /\ Exporter(i) \in Entities /\ Exporter(i) # Null
         /\ Def(Exporter(i)).kind = i.kind
         /\ space[job[1]][i.slot] = Null
         /\ space'[job[1]][i.slot] = Exporter(i)
         /\ DOMAIN space' = Modules
         /\ \A n \in Modules : \A s \in Slots(n) :
              <<n, s>> # <<job[1], i.slot>> => space'[n][s] = space[n][s]
         /\ \A n \in Modules : space'[n] \in [Slots(n) -> Entities \cup {Null}]
<1> DEFINE m == job[1]
<1>1. /\ m \in constructed /\ m \in Modules /\ job[2] \in constructed
      /\ i \in imports[m] /\ i \in ImportsOf[m] /\ i.from = job[2]
  BY DEF IInv, TypeOK, SlotsHold, Listed
<1>2. i.from \in Modules /\ i.slot \in Slots(m)
  BY <1>1, ImportSlotFacts DEF IInv, TypeOK
<1>3. Exporter(i) \in Entities /\ Exporter(i) # Null /\ Def(Exporter(i)).kind = i.kind
  BY <1>1, AcceptedEntity DEF IInv, Accepted
<1>4. space[m] \in [Slots(m) -> Entities \cup {Null}] /\ DOMAIN space = Modules
  BY <1>1 DEF IInv, TypeOK, Indexed
<1>5. space' = [space EXCEPT ![m] = [space[m] EXCEPT ![i.slot] = Exporter(i)]]
  BY <1>4 DEF FillSlot, ImportIndex
<1>6. \A n \in Modules \ {m} : space'[n] = space[n]
  BY <1>4, <1>5
<1>7. space'[m] = [space[m] EXCEPT ![i.slot] = Exporter(i)]
  BY <1>1, <1>4, <1>5
<1>8. /\ space'[m][i.slot] = Exporter(i)
      /\ \A s \in Slots(m) \ {i.slot} : space'[m][s] = space[m][s]
      /\ space'[m] \in [Slots(m) -> Entities \cup {Null}]
  BY <1>2, <1>3, <1>4, <1>7
<1>9. \A n \in Modules : space'[n] \in [Slots(n) -> Entities \cup {Null}]
  BY <1>6, <1>8 DEF IInv, TypeOK
<1>10. \A n \in Modules : \A s \in Slots(n) :
         <<n, s>> # <<m, i.slot>> => space'[n][s] = space[n][s]
  BY <1>6, <1>8
<1>11. DOMAIN space' = Modules /\ space[m][i.slot] = Null
  BY <1>4, <1>5 DEF ImportIndex
<1> QED
  BY <1>1, <1>2, <1>3, <1>8, <1>9, <1>10, <1>11

(* The globals that wait on an import slot are those declared to depend on *)
(* it, and there are none unless a global is imported.                     *)
LEMMA DependentsFacts ==
  ASSUME IInv, NEW m \in constructed, NEW i \in ImportsOf[m]
  PROVE  /\ \A g : g \in Dependents(m, i.slot) <=>
                     g \in DependentsAtStart(m) /\ DefsOf[m][g].depends = i.slot
         /\ Dependents(m, i.slot) # {} => i.kind = "global"
<1>1. waiting[m] = DependentsAtStart(m) /\ m \in Modules
  BY DEF IInv, GlobalsWait, TypeOK
<1>2. \A g : g \in Dependents(m, i.slot) <=>
               g \in DependentsAtStart(m) /\ DefsOf[m][g].depends = i.slot
  BY <1>1 DEF Dependents
<1>3. ASSUME NEW g \in Dependents(m, i.slot) PROVE i.kind = "global"
  <2>1. i.slot \in SlotsOfKind(m, "global")
    BY <1>2, <1>3 DEF IInv, GlobalsWait
  <2> QED
    BY <1>1, <2>1, ImportSlotKind DEF SlotsOfKind
<1> QED
  BY <1>2, <1>3

(* Where a global waits on the slot, the first one's init_dep decides.     *)
LEMMA NotifyFacts ==
  ASSUME IInv, job # NoJob, NEW i \in Listed(job[1], job[2]), Accepted(i)
  PROVE  /\ Dependents(job[1], i.slot) = {} => NotifyResult(i) = "copied"
         /\ Dependents(job[1], i.slot) # {} =>
              /\ NotifyResult(i) =
                   InitDep(<<job[1], First(Dependents(job[1], i.slot))>>, Exporter(i))
              /\ NotifyResult(i) \in {"unknown", "mismatch", "BadAccess"}
<1> DEFINE m == job[1]
           e == Exporter(i)
           G == Dependents(m, i.slot)
           stops == {g \in G : InitDep(<<m, g>>, e) # "copied"}
<1>1. /\ m \in constructed /\ m \in Modules /\ i \in ImportsOf[m] /\ i.from \in constructed
  BY DEF IInv, TypeOK, SlotsHold, Listed
<1>2. e \in Entities /\ Def(e).kind = i.kind
  BY <1>1, AcceptedEntity DEF IInv
<1>3. G # {} => Def(e).kind = "global"
  BY <1>1, <1>2, DependentsFacts
<1>4. NotifyResult(i) = IF stops = {} THEN "copied" ELSE InitDep(<<m, First(stops)>>, e)
  BY DEF NotifyResult, ImportIndex
<1>5. CASE G = {}
  BY <1>4, <1>5
<1>6. CASE G # {}
  <2>1. \A g : InitDep(g, e) # "copied"
    BY <1>2, <1>3, <1>6, NothingIsCopied
  <2>2. stops = G
    BY <2>1
  <2>3. NotifyResult(i) = InitDep(<<m, First(G)>>, e)
    <3> HIDE DEF stops, G
    <3> QED
      BY <1>4, <1>6, <2>2
  <2> QED
    BY <1>6, <2>1, <2>3, InitDepResults
<1> QED
  BY <1>5, <1>6

------------------------------------------------------------------------------
(* The actions.                                                            *)

(* A step that leaves modules, slots and globals alone, and may take off   *)
(* the list an import whose slot is null.                                  *)
LEMMA BookkeepingKeepsInv ==
  ASSUME IInv, ended = "no",
         UNCHANGED <<constructed, space, pending, waiting, written>>,
         DOMAIN imports' = Modules,
         \A m \in Modules : imports'[m] \subseteq imports[m],
         \A m \in constructed : \A i \in ImportsOf[m] :
           space[m][i.slot] # Null => (i \in imports'[m] <=> i \in imports[m]),
         job' \in {job, NoJob} \/ job' \in constructed \X constructed,
         outcome' \in Outcomes,
         ended' \in {"no"} \cup Asserts, ended' # "filled"
  PROVE  IInv'
<1> USE DEF IInv
<1>0. NoModule \notin Modules /\ constructed \subseteq Modules
  BY SentinelsAssumption DEF TypeOK
<1>1. TypeOK'
  <2>1. job' \in (Modules \X Modules) \cup {NoJob}
    BY <1>0 DEF TypeOK
  <2>2. \A m \in Modules : imports'[m] \subseteq ImportsOf[m]
    BY DEF TypeOK
  <2> QED
    BY <2>1, <2>2 DEF TypeOK
<1>2. Indexed'
  BY DEF Indexed
<1>3. SlotsHold'
  <2>1. job' # NoJob => job'[1] \in constructed /\ job'[2] \in constructed
    BY DEF SlotsHold
  <2> QED
    BY <2>1 DEF SlotsHold
<1>4. GlobalsWait'
  BY DEF GlobalsWait
<1>5. OnlyThrowsLeaveHalfDone'
  BY DEF OnlyThrowsLeaveHalfDone, Dependents
<1>6. LinksAgree'
  BY DEF LinksAgree, IsExported, Exporter, ExportSlot
<1>7. DependentsNeverFollow'
  BY DEF DependentsNeverFollow, WaitsForGood, GetLanguageType, Dependents
<1> QED
  BY <1>1, <1>2, <1>3, <1>4, <1>5, <1>6, <1>7

(* The constructor comes back only where no global depends on a definition *)
(* of the module, and it never fails as a link does.                       *)
LEMMA ConstructorFacts ==
  ASSUME NEW m \in Modules, NEW result \in ConstructorResults(m)
  PROVE  /\ result \in {"none", "written"} =>
              \A g \in DependentsAtStart(m) :
                DefsOf[m][g].depends \in ImportSlots(m) \cap SlotsOfKind(m, "global")
         /\ result # "filled"
<1>1. SegmentResult(m) # "filled"
  BY DEF SegmentResult, PlaceSegment
<1>2. result # "filled"
  BY <1>1, InitDepResults DEF ConstructorResults
<1>3. ASSUME result \in {"none", "written"}, NEW g \in DependentsAtStart(m)
      PROVE  DefsOf[m][g].depends \in ImportSlots(m) \cap SlotsOfKind(m, "global")
  <2>1. IndicesHold(m) /\ OwnDependencies(m) = {}
    BY <1>3, InitDepResults DEF ConstructorResults
  <2>2. DefsOf[m][g].depends \in SlotsOfKind(m, "global")
    BY <2>1 DEF IndicesHold
  <2>3. DefsOf[m][g].depends \notin DOMAIN DefsOf[m]
    BY <2>1 DEF OwnDependencies
  <2> QED
    BY <2>2, <2>3 DEF SlotsOfKind, Slots
<1> QED
  BY <1>2, <1>3

(* A module begins with its definitions in place and its imports null; the *)
(* others do not notice.                                                   *)
LEMMA ConstructKeepsInv ==
  ASSUME IInv, NEW m \in Modules, NEW result, Construct(m, result)
  PROVE  IInv'
<1> USE DEF IInv, Construct
<1>1. /\ constructed' = constructed \cup {m} /\ m \notin constructed
      /\ \A n \in Modules \ {m} : imports'[n] = imports[n] /\ space'[n] = space[n]
                                  /\ waiting'[n] = waiting[n]
      /\ imports'[m] = ImportsOf[m]
      /\ waiting'[m] = DependentsAtStart(m)
      /\ pending' = pending /\ ended' = "no" /\ job = NoJob /\ job' = NoJob
  BY DEF Indexed, Running
<1>2. \A g \in DependentsAtStart(m) :
        DefsOf[m][g].depends \in ImportSlots(m) \cap SlotsOfKind(m, "global")
  BY ConstructorFacts
<1>3. /\ space'[m] = [s \in Slots(m) |-> IF s \in DOMAIN DefsOf[m] THEN <<m, s>> ELSE Null]
      /\ \A s \in DOMAIN DefsOf[m] : space'[m][s] = <<m, s>>
      /\ \A i \in ImportsOf[m] : space'[m][i.slot] = Null
  BY ImportSlotFacts, EntityFacts DEF Indexed
<1>4. TypeOK'
  <2>1. \A n \in Modules : imports'[n] \subseteq ImportsOf[n]
    BY <1>1 DEF TypeOK
  <2>2. \A n \in Modules : space'[n] \in [Slots(n) -> Entities \cup {Null}]
    <3>1. space'[m] \in [Slots(m) -> Entities \cup {Null}]
      BY <1>3, EntityFacts
    <3> QED
      BY <1>1, <3>1 DEF TypeOK
  <2>3. \A n \in Modules : waiting'[n] \subseteq DOMAIN DefsOf[n]
    BY <1>1 DEF TypeOK, DependentsAtStart
  <2>4. written' \subseteq constructed'
    BY <1>1 DEF TypeOK
  <2> QED
    BY <1>1, <2>1, <2>2, <2>3, <2>4 DEF TypeOK, Outcomes
<1>5. Indexed'
  BY DEF Indexed
<1>6. SlotsHold'
  BY <1>1, <1>3 DEF SlotsHold
<1>7. GlobalsWait'
  BY <1>1, <1>2 DEF GlobalsWait, TypeOK
<1>8. OnlyThrowsLeaveHalfDone'
  BY <1>1, <1>3 DEF OnlyThrowsLeaveHalfDone, Dependents, TypeOK
<1>9. LinksAgree'
  <2> SUFFICES ASSUME NEW n \in constructed', NEW i \in ImportsOf[n],
                      space'[n][i.slot] # Null
               PROVE  /\ i.from \in constructed'
                      /\ IsExported(i)
                      /\ space'[n][i.slot] = Exporter(i)'
    BY DEF LinksAgree, IsExported
  <2>1. n # m /\ n \in constructed /\ space[n][i.slot] # Null
    BY <1>1, <1>3 DEF TypeOK
  <2>2. i.from \in constructed /\ IsExported(i) /\ space[n][i.slot] = Exporter(i)
    BY <2>1 DEF LinksAgree
  <2>3. i.from # m
    BY <1>1, <2>2
  <2> QED
    BY <1>1, <2>1, <2>2, <2>3 DEF TypeOK, Exporter, ExportSlot
<1>10. DependentsNeverFollow'
  <2> HIDE DEF IInv, Construct
  <2> SUFFICES ASSUME NEW n \in constructed', NEW g \in DependentsAtStart(n)
               PROVE  WaitsForGood(n, g)'
    BY DEF DependentsNeverFollow
  <2>1. CASE n = m
    <3>1. DefsOf[m][g].depends \in ImportSlots(m) /\ g \in DOMAIN DefsOf[m]
      BY <1>2, <2>1 DEF DependentsAtStart
    <3>2. space'[m][DefsOf[m][g].depends] = Null
      BY <1>3, <3>1 DEF ImportSlots
    <3>3. <<m, g>> \in pending
      BY <2>1, <3>1, EntityFacts DEF IInv, GlobalsWait, Def, DependentsAtStart
    <3> QED
      BY <1>1, <2>1, <3>1, <3>2, <3>3 DEF WaitsForGood
  <2>2. CASE n # m
    <3>1. n \in constructed /\ n \in Modules
      BY <1>1, <2>2 DEF IInv, TypeOK
    <3>2. space'[n] = space[n] /\ waiting'[n] = waiting[n] /\ pending' = pending
      BY <1>1, <2>2, <3>1
    <3>3. WaitsForGood(n, g)
      BY <3>1 DEF IInv, DependentsNeverFollow
    <3> QED
      BY <3>2, <3>3 DEF WaitsForGood, GetLanguageType, Dependents
  <2> QED
    BY <2>1, <2>2
<1> QED
  BY <1>4, <1>5, <1>6, <1>7, <1>8, <1>9, <1>10

(* A slot filled from null, with no change to the globals: what this keeps *)
(* whether the link goes on or throws.                                     *)
LEMMA FillKeeps ==
  ASSUME IInv, ended = "no", job # NoJob, NEW i \in Listed(job[1], job[2]),
         Accepted(i), space[job[1]][ImportIndex(i)] = Null, FillSlot(i),
         UNCHANGED <<constructed, pending, waiting, written>>,
         DOMAIN imports' = Modules,
         \A n \in Modules : imports'[n] \subseteq imports[n],
         job' \in {job, NoJob}, outcome' \in Outcomes, ended' = "no"
  PROVE  TypeOK' /\ Indexed' /\ SlotsHold' /\ GlobalsWait' /\ LinksAgree'
<1> DEFINE m == job[1]
           e == Exporter(i)
<1>1. /\ m \in constructed /\ m \in Modules
      /\ i \in imports[m] /\ i \in ImportsOf[m]
      /\ i.from \in constructed /\ i.from \in Modules
      /\ e \in Entities /\ e # Null /\ Def(e).kind = i.kind
      /\ space[m][i.slot] = Null
      /\ space'[m][i.slot] = e
      /\ DOMAIN space' = Modules
  BY FillEffect
<1>2. /\ \A n \in Modules : \A s \in Slots(n) :
           <<n, s>> # <<m, i.slot>> => space'[n][s] = space[n][s]
      /\ \A n \in Modules : space'[n] \in [Slots(n) -> Entities \cup {Null}]
  BY FillEffect
(* What was in a slot stays there.                                         *)
<1>3. \A n \in Modules : \A s \in Slots(n) : space[n][s] # Null => space'[n][s] = space[n][s]
  BY <1>1, <1>2
<1>4. TypeOK'
  <2>1. \A n \in Modules : imports'[n] \subseteq ImportsOf[n]
    BY DEF IInv, TypeOK
  <2> QED
    BY <1>2, <2>1 DEF IInv, TypeOK
<1>5. Indexed'
  BY <1>1 DEF IInv, Indexed
<1>6. SlotsHold'
  <2>1. \A n \in Modules \ constructed : \A s \in Slots(n) : space'[n][s] = Null
    BY <1>1, <1>2 DEF IInv, SlotsHold
  <2>2. \A n \in Modules \ constructed : imports'[n] = {}
    BY DEF IInv, SlotsHold
  <2>3. \A n \in constructed : \A s \in DOMAIN DefsOf[n] : space'[n][s] = <<n, s>>
    BY <1>3, EntityFacts DEF IInv, SlotsHold, TypeOK
  <2>4. ASSUME NEW n \in Modules, NEW j \in ImportsOf[n], space'[n][j.slot] # Null
        PROVE  Def(space'[n][j.slot]).kind = j.kind
    <3>1. CASE n = m /\ j = i
      BY <1>1, <3>1
    <3>2. CASE ~(n = m /\ j = i)
      <4>1. space'[n][j.slot] = space[n][j.slot]
        BY <1>1, <1>2, <3>2, ImportSlotFacts
      <4> QED
        BY <2>4, <4>1 DEF IInv, SlotsHold
    <3> QED
      BY <3>1, <3>2
  <2>5. job' # NoJob => job'[1] \in constructed /\ job'[2] \in constructed
    BY DEF IInv, SlotsHold
  <2> QED
    BY <2>1, <2>2, <2>3, <2>4, <2>5 DEF SlotsHold
<1>7. GlobalsWait'
  BY DEF IInv, GlobalsWait
<1>8. LinksAgree'
  <2> SUFFICES ASSUME NEW n \in constructed, NEW j \in ImportsOf[n], space'[n][j.slot] # Null
               PROVE  /\ j.from \in constructed
                      /\ IsExported(j)
                      /\ space'[n][j.slot] = space'[j.from][ExportSlot(j)]
    BY DEF LinksAgree, IsExported, Exporter, ExportSlot
  <2>0. n \in Modules
    BY DEF IInv, TypeOK
  <2>1. CASE n = m /\ j = i
    <3>1. IsExported(i) /\ ExportSlot(i) \in Slots(i.from)
      BY <1>1, ModulesAssumption DEF Accepted, IsExported, ExportSlot
    <3>2. space'[i.from][ExportSlot(i)] = space[i.from][ExportSlot(i)]
      BY <1>1, <1>3, <3>1 DEF Exporter
    <3> QED
      BY <1>1, <2>1, <3>1, <3>2 DEF Exporter
  <2>2. CASE ~(n = m /\ j = i)
    <3>1. space'[n][j.slot] = space[n][j.slot]
      BY <1>1, <1>2, <2>0, <2>2, ImportSlotFacts
    <3>2. /\ j.from \in constructed /\ j.from \in Modules /\ IsExported(j)
          /\ space[n][j.slot] = space[j.from][ExportSlot(j)]
      BY <3>1 DEF IInv, TypeOK, LinksAgree, Exporter
    <3>3. ExportSlot(j) \in Slots(j.from)
      BY <3>2, ModulesAssumption DEF IsExported, ExportSlot
    <3> QED
      BY <1>3, <3>1, <3>2, <3>3
  <2> QED
    BY <2>1, <2>2
<1> QED
  BY <1>4, <1>5, <1>6, <1>7, <1>8

(* DependentsNeverFollow after a slot was filled: what is to show is the   *)
(* part about this slot.                                                   *)
LEMMA FillKeepsDependents ==
  ASSUME IInv, job # NoJob, NEW i \in Listed(job[1], job[2]),
         Accepted(i), space[job[1]][ImportIndex(i)] = Null, FillSlot(i),
         UNCHANGED <<constructed, pending, waiting>>,
         Dependents(job[1], i.slot) # {} =>
           /\ Exporter(i) \notin pending
           /\ GetLanguageType(Exporter(i))
                = DefsOf[job[1]][First(Dependents(job[1], i.slot))].type.lang
  PROVE  DependentsNeverFollow'
<1> DEFINE m == job[1]
<1>1. /\ m \in constructed /\ m \in Modules /\ i \in ImportsOf[m]
      /\ space'[m][i.slot] = Exporter(i)
      /\ \A n \in Modules : \A s \in Slots(n) :
           <<n, s>> # <<m, i.slot>> => space'[n][s] = space[n][s]
  BY FillEffect
<1> SUFFICES ASSUME NEW n \in constructed, NEW g \in DependentsAtStart(n)
             PROVE  WaitsForGood(n, g)'
  BY DEF DependentsNeverFollow
<1> DEFINE s == DefsOf[n][g].depends
<1>2. WaitsForGood(n, g) /\ n \in Modules
  BY DEF IInv, DependentsNeverFollow, TypeOK
<1>3. \A t : Dependents(n, t)' = Dependents(n, t)
  BY DEF Dependents
<1>4. CASE n = m /\ s = i.slot
  <2>1. g \in Dependents(m, i.slot)
    BY <1>2, <1>4 DEF Dependents, WaitsForGood
  <2> QED
    BY <1>1, <1>2, <1>3, <1>4, <2>1 DEF WaitsForGood, GetLanguageType
<1>5. CASE ~(n = m /\ s = i.slot)
  <2>1. s \in Slots(n)
    BY <1>2 DEF WaitsForGood, Slots
  <2>2. space'[n][s] = space[n][s]
    BY <1>1, <1>2, <1>5, <2>1
  <2> QED
    BY <1>2, <1>3, <2>2 DEF WaitsForGood, GetLanguageType
<1> QED
  BY <1>4, <1>5

(* The import is resolved: nobody waited on its slot.                      *)
LEMMA ImportFieldKeepsInv ==
  ASSUME IInv, ended = "no", job # NoJob, NEW i \in Listed(job[1], job[2]), ImportField(i)
  PROVE  IInv'
<1> DEFINE m == job[1]
<1>1. /\ Accepted(i) /\ space[m][ImportIndex(i)] = Null /\ FillSlot(i)
      /\ NotifyResult(i) = "copied"
  BY DEF ImportField
<1>2. /\ m \in constructed /\ m \in Modules /\ i \in imports[m] /\ i \in ImportsOf[m]
      /\ space[m][i.slot] = Null
      /\ \A n \in Modules : \A s \in Slots(n) :
           <<n, s>> # <<m, i.slot>> => space'[n][s] = space[n][s]
  BY <1>1, FillEffect
<1>3. Dependents(m, i.slot) = {}
  BY <1>1, NotifyFacts
<1>4. /\ constructed' = constructed /\ job' = job /\ outcome' = outcome /\ ended' = "no"
      /\ written' = written
      /\ pending' = pending
      /\ waiting' = waiting
  <2>1. pending' = pending
    BY <1>3 DEF ImportField, ImportIndex
  <2>2. waiting' = [waiting EXCEPT ![m] = @ \ {}]
    BY <1>3 DEF ImportField, ImportIndex
  <2>3. waiting' = waiting
    BY <1>2, <2>2 DEF IInv, Indexed
  <2> QED
    BY <2>1, <2>3 DEF ImportField
<1>5. /\ DOMAIN imports' = Modules
      /\ imports'[m] = imports[m] \ {i}
      /\ \A n \in Modules \ {m} : imports'[n] = imports[n]
  BY <1>2 DEF IInv, Indexed, ImportField, Erase
<1>6. TypeOK' /\ Indexed' /\ SlotsHold' /\ GlobalsWait' /\ LinksAgree'
  <2>1. \A n \in Modules : imports'[n] \subseteq imports[n]
    BY <1>5
  <2>2. outcome' \in Outcomes
    BY <1>4 DEF IInv, TypeOK
  <2> QED
    BY <1>1, <1>4, <1>5, <2>1, <2>2, FillKeeps
<1>7. OnlyThrowsLeaveHalfDone'
  <2> SUFFICES ASSUME NEW n \in constructed, NEW j \in ImportsOf[n], space'[n][j.slot] # Null
               PROVE  j \in imports'[n] <=> Dependents(n, j.slot) # {}
    BY <1>4 DEF OnlyThrowsLeaveHalfDone, Dependents
  <2>1. n \in Modules
    BY DEF IInv, TypeOK
  <2>2. CASE n = m /\ j = i
    BY <1>3, <1>5, <2>2
  <2>3. CASE ~(n = m /\ j = i)
    <3>1. space'[n][j.slot] = space[n][j.slot]
      BY <1>2, <2>1, <2>3, ImportSlotFacts
    <3>2. j \in imports'[n] <=> j \in imports[n]
      BY <1>5, <2>1, <2>3
    <3> QED
      BY <3>1, <3>2 DEF IInv, OnlyThrowsLeaveHalfDone
  <2> QED
    BY <2>2, <2>3
<1>8. DependentsNeverFollow'
  BY <1>1, <1>3, <1>4, FillKeepsDependents
<1> QED
  BY <1>6, <1>7, <1>8 DEF IInv

(* The link throws with the slot filled: a global waits on it, and init_dep*)
(* came past its asserts.                                                  *)
LEMMA ImportThrowsKeepsInv ==
  ASSUME IInv, ended = "no", job # NoJob, NEW i \in Listed(job[1], job[2]), ImportThrows(i)
  PROVE  IInv'
<1> DEFINE m == job[1]
           G == Dependents(m, i.slot)
<1>1. /\ Accepted(i) /\ space[m][ImportIndex(i)] = Null /\ FillSlot(i)
      /\ NotifyResult(i) \in Errors
  BY DEF ImportThrows
<1>2. /\ m \in constructed /\ m \in Modules /\ i \in imports[m] /\ i \in ImportsOf[m]
      /\ \A n \in Modules : \A s \in Slots(n) :
           <<n, s>> # <<m, i.slot>> => space'[n][s] = space[n][s]
  BY <1>1, FillEffect
<1>3. /\ UNCHANGED <<constructed, imports, pending, waiting, written, ended>>
      /\ job' = NoJob /\ outcome' \in Outcomes
  BY <1>1 DEF ImportThrows, Throw, Outcomes
<1>4. /\ G # {}
      /\ InitDep(<<m, First(G)>>, Exporter(i)) = "BadAccess"
  BY <1>1, NotifyFacts DEF Errors
<1>5. /\ Exporter(i) \notin pending
      /\ GetLanguageType(Exporter(i)) = DefsOf[m][First(G)].type.lang
  BY <1>4 DEF InitDep, Def
<1>6. TypeOK' /\ Indexed' /\ SlotsHold' /\ GlobalsWait' /\ LinksAgree'
  BY <1>1, <1>3, FillKeeps DEF IInv, Indexed
<1>7. OnlyThrowsLeaveHalfDone'
  <2> SUFFICES ASSUME NEW n \in constructed, NEW j \in ImportsOf[n], space'[n][j.slot] # Null
               PROVE  j \in imports[n] <=> Dependents(n, j.slot) # {}
    BY <1>3 DEF OnlyThrowsLeaveHalfDone, Dependents
  <2>1. n \in Modules
    BY DEF IInv, TypeOK
  <2>2. CASE n = m /\ j = i
    BY <1>2, <1>4, <2>2
  <2>3. CASE ~(n = m /\ j = i)
    <3>1. space'[n][j.slot] = space[n][j.slot]
      BY <1>2, <2>1, <2>3, ImportSlotFacts
    <3> QED
      BY <3>1 DEF IInv, OnlyThrowsLeaveHalfDone
  <2> QED
    BY <2>2, <2>3
<1>8. DependentsNeverFollow'
  BY <1>1, <1>3, <1>5, FillKeepsDependents
<1> QED
  BY <1>6, <1>7, <1>8 DEF IInv

(* The program ends at an assert of init_dep, or at the one on the slot:   *)
(* the import was left there by a link that threw.                         *)
LEMMA ImportAbortsKeepsInv ==
  ASSUME IInv, ended = "no", job # NoJob, NEW i \in Listed(job[1], job[2]), ImportAborts(i)
  PROVE  IInv'
<1> USE DEF IInv, ImportAborts
<1>1. job[1] \in constructed /\ i \in imports[job[1]] /\ i \in ImportsOf[job[1]]
  BY DEF TypeOK, SlotsHold, Listed
<1>2. ended' = "filled" => space[job[1]][i.slot] # Null /\ Dependents(job[1], i.slot) # {}
  <2>1. NotifyResult(i) # "filled"
    BY InitDepResults DEF NotifyResult
  <2>2. ended' = "filled" => space[job[1]][i.slot] # Null
    BY <2>1 DEF AbortReason, ImportIndex
  <2> QED
    BY <1>1, <2>2 DEF OnlyThrowsLeaveHalfDone
<1>3. TypeOK' /\ Indexed'
  BY DEF TypeOK, Indexed
<1>4. SlotsHold' /\ GlobalsWait'
  BY DEF SlotsHold, GlobalsWait
<1>5. OnlyThrowsLeaveHalfDone'
  BY <1>2 DEF OnlyThrowsLeaveHalfDone, Dependents, Listed
<1>6. LinksAgree'
  BY DEF LinksAgree, IsExported, Exporter, ExportSlot
<1>7. DependentsNeverFollow'
  BY DEF DependentsNeverFollow, WaitsForGood, GetLanguageType, Dependents
<1> QED
  BY <1>3, <1>4, <1>5, <1>6, <1>7

------------------------------------------------------------------------------
(* The invariant is inductive.                                             *)

LEMMA InitIInv == Init => IInv
<1> SUFFICES ASSUME Init PROVE IInv
  OBVIOUS
<1> USE DEF Init
<1>1. \A m \in Modules : \A s \in Slots(m) : space[m][s] = Null
  OBVIOUS
<1>2. \A m \in Modules : \A i \in ImportsOf[m] : space[m][i.slot] = Null
  BY <1>1, ImportSlotFacts
<1>3. TypeOK
  BY DEF TypeOK, Outcomes
<1>4. Indexed
  BY DEF Indexed
<1>5. SlotsHold
  BY <1>1, <1>2 DEF SlotsHold
<1>6. GlobalsWait
  BY DEF GlobalsWait
<1>7. OnlyThrowsLeaveHalfDone /\ LinksAgree /\ DependentsNeverFollow
  BY DEF OnlyThrowsLeaveHalfDone, LinksAgree, DependentsNeverFollow
<1> QED
  BY <1>3, <1>4, <1>5, <1>6, <1>7 DEF IInv

(* One step of a link, by what becomes of the import.                      *)
LEMMA LinkStepKeepsInv ==
  ASSUME IInv, NEW i, LinkStep(i)
  PROVE  IInv'
<1>1. ended = "no" /\ job # NoJob /\ i \in Listed(job[1], job[2])
  BY DEF LinkStep
<1>2. DOMAIN imports = Modules /\ job[1] \in Modules /\ job[1] \in constructed
  BY <1>1 DEF IInv, Indexed, TypeOK, SlotsHold
<1>3. CASE SkipMissing(i)
  <2>1. imports' = [imports EXCEPT ![job[1]] = @ \ {i}]
    BY <1>3 DEF SkipMissing, Erase
  <2>2. \A m \in Modules : imports'[m] \subseteq imports[m]
    BY <1>2, <2>1
  (* A filled slot's import is exported, so it is another one.             *)
  <2>3. \A m \in constructed : \A j \in ImportsOf[m] :
          space[m][j.slot] # Null => (j \in imports'[m] <=> j \in imports[m])
    <3> SUFFICES ASSUME NEW m \in constructed, NEW j \in ImportsOf[m],
                        space[m][j.slot] # Null
                 PROVE  j \in imports'[m] <=> j \in imports[m]
      OBVIOUS
    <3>1. IsExported(j) /\ j # i
      BY <1>3 DEF SkipMissing, IInv, LinksAgree
    <3>2. m \in Modules
      BY DEF IInv, TypeOK
    <3> QED
      BY <1>2, <2>1, <3>1, <3>2
  <2> QED
    BY <1>1, <1>2, <1>3, <2>1, <2>2, <2>3, BookkeepingKeepsInv DEF SkipMissing, IInv, TypeOK
<1>4. CASE ImportFails(i)
  BY <1>1, <1>2, <1>4, BookkeepingKeepsInv DEF ImportFails, Throw, Outcomes, Errors
<1>5. CASE ImportField(i)
  BY <1>1, <1>5, ImportFieldKeepsInv
<1>6. CASE ImportThrows(i)
  BY <1>1, <1>6, ImportThrowsKeepsInv
<1>7. CASE ImportAborts(i)
  BY <1>1, <1>7, ImportAbortsKeepsInv
<1> QED
  BY <1>3, <1>4, <1>5, <1>6, <1>7 DEF LinkStep

LEMMA StutterKeepsInv ==
  ASSUME IInv, UNCHANGED vars
  PROVE  IInv'
<1> USE DEF IInv, vars
<1>1. TypeOK' /\ Indexed'
  BY DEF TypeOK, Indexed
<1>2. SlotsHold' /\ GlobalsWait'
  BY DEF SlotsHold, GlobalsWait
<1>3. OnlyThrowsLeaveHalfDone'
  BY DEF OnlyThrowsLeaveHalfDone, Dependents, Listed
<1>4. LinksAgree' /\ DependentsNeverFollow'
  BY DEF LinksAgree, DependentsNeverFollow, WaitsForGood, IsExported, Exporter, ExportSlot,
         GetLanguageType, Dependents
<1> QED
  BY <1>1, <1>2, <1>3, <1>4

LEMMA NextIInv == IInv /\ [Next]_vars => IInv'
<1> SUFFICES ASSUME IInv, [Next]_vars PROVE IInv'
  OBVIOUS
<1>1. ASSUME NEW m \in Modules, NEW r \in ConstructorResults(m), Construct(m, r) PROVE IInv'
  BY <1>1, ConstructKeepsInv
<1>2. ASSUME NEW m \in Modules, NEW r \in ConstructorResults(m), ConstructorThrows(m, r)
      PROVE  IInv'
  BY <1>2, BookkeepingKeepsInv DEF ConstructorThrows, Running, IInv, TypeOK, Indexed, Outcomes
<1>3. ASSUME NEW m \in Modules, NEW r \in ConstructorResults(m), ConstructorAborts(m, r)
      PROVE  IInv'
  BY <1>3, ConstructorFacts, BookkeepingKeepsInv
     DEF ConstructorAborts, Running, IInv, TypeOK, Indexed
<1>4. ASSUME NEW m \in Modules, NEW n \in Modules, LinkBegin(m, n) PROVE IInv'
  BY <1>4, BookkeepingKeepsInv DEF LinkBegin, Running, IInv, TypeOK, Indexed
<1>5. ASSUME NEW i, LinkStep(i) PROVE IInv'
  BY <1>5, LinkStepKeepsInv
<1>6. CASE LinkEnd
  BY <1>6, BookkeepingKeepsInv DEF LinkEnd, IInv, TypeOK, Indexed, Outcomes
<1>7. CASE UNCHANGED vars
  BY <1>7, StutterKeepsInv
<1> QED
  BY <1>1, <1>2, <1>3, <1>4, <1>5, <1>6, <1>7 DEF Next

(* Whatever modules are constructed and linked, in whatever order and with *)
(* whatever failures: only a link that threw leaves an import listed whose *)
(* slot is filled; a filled slot agrees with the slot it was imported from;*)
(* and no global takes its value from another one.                         *)
THEOREM Invariance ==
  Spec => [](TypeOK /\ OnlyThrowsLeaveHalfDone /\ LinksAgree /\ DependentsNeverFollow)
<1>1. IInv => TypeOK /\ OnlyThrowsLeaveHalfDone /\ LinksAgree /\ DependentsNeverFollow
  BY DEF IInv
<1> QED
  BY <1>1, InitIInv, NextIInv, PTL DEF Spec

------------------------------------------------------------------------------
(* The refinement.  An import is bound when its slot is filled, to what    *)
(* ExportedBy denotes, through any number of re-exports.                   *)

BoundSlots == [x \in AllImports |-> space[x[1]][x[2].slot]]

LEMMA InitRefines == Init => Linker!Init
<1> SUFFICES ASSUME Init PROVE BoundSlots = [x \in AllImports |-> Null]
  BY DEF Linker!Init, BoundSlots
<1>1. \A x \in AllImports : space[x[1]][x[2].slot] = Null
  BY ImportSlotFacts DEF Init, AllImports, Import
<1> QED
  BY <1>1 DEF BoundSlots

(* What the linker's specification says a field denotes is what the export *)
(* points to.                                                              *)
LEMMA DenotedIsExporter ==
  ASSUME IInv, NEW m \in Modules, NEW i \in ImportsOf[m], i.from \in constructed,
         IsExported(i)
  PROVE  Linker!Denoted(Import(m, i)) = Exporter(i)
<1>1. i.from \in Modules
  BY DEF IInv, TypeOK
<1>2. CASE ExportSlot(i) \in DOMAIN DefsOf[i.from]
  <2>1. ExportedBy(Import(m, i)) = <<i.from, ExportSlot(i)>>
    BY <1>2 DEF ExportedBy, Import
  <2>2. <<i.from, ExportSlot(i)>> \in Entities
    BY <1>1, <1>2, EntityFacts
  <2>3. <<i.from, ExportSlot(i)>> \notin AllImports
    BY <2>2, SentinelsAssumption DEF AllImports
  <2>4. Exporter(i) = <<i.from, ExportSlot(i)>>
    BY <1>2 DEF IInv, SlotsHold, Exporter
  <2> QED
    BY <2>1, <2>3, <2>4 DEF Linker!Denoted
<1>3. CASE ExportSlot(i) \notin DOMAIN DefsOf[i.from]
  <2> DEFINE j == CHOOSE x \in ImportsOf[i.from] : x.slot = ExportSlot(i)
  <2>1. j \in ImportsOf[i.from] /\ j.slot = ExportSlot(i)
    BY <1>1, <1>3, ExportedSlot
  <2>2. ExportedBy(Import(m, i)) = Import(i.from, j)
    BY <1>3 DEF ExportedBy, Import
  <2> HIDE DEF j
  <2>3. Import(i.from, j) \in AllImports
    BY <1>1, <2>1 DEF AllImports
  <2> QED
    BY <2>1, <2>2, <2>3 DEF Linker!Denoted, Exporter, Import
<1> QED
  BY <1>2, <1>3

LEMMA FillIsBind ==
  ASSUME IInv, job # NoJob, NEW i \in Listed(job[1], job[2]),
         Accepted(i), space[job[1]][ImportIndex(i)] = Null, FillSlot(i)
  PROVE  Linker!Next
<1> PICK m : m = job[1]
  OBVIOUS
<1> DEFINE x == Import(m, i)
<1>1. /\ m \in Modules /\ i \in ImportsOf[m] /\ i.from \in constructed
      /\ Exporter(i) \in Entities /\ space[m][i.slot] = Null
      /\ space'[m][i.slot] = Exporter(i)
  BY FillEffect
<1>2. x \in AllImports
  BY <1>1 DEF AllImports
<1>3. Linker!Denoted(x) = Exporter(i)
  BY <1>1, DenotedIsExporter DEF Accepted
<1>4. AcceptsEntity(x, Exporter(i))
  <2>1. Def(Exporter(i)).kind = i.kind /\ Matches(Exporter(i), i.type, Exporter(i) \in pending)
    BY FillEffect DEF Accepted
  <2>2. Exporter(i) \in pending <=> Def(Exporter(i)).depends # NoSlot
    BY <1>1 DEF IInv, GlobalsWait
  <2>3. x[2] = i
    BY DEF Import
  <2> QED
    BY <2>1, <2>2, <2>3 DEF AcceptsEntity, Matches, LanguageType
<1>5. BoundSlots[x] = Null /\ BoundSlots'[x] = Exporter(i)
  BY <1>1, <1>2 DEF BoundSlots, Import
<1>6. \A y \in AllImports : y # x => BoundSlots'[y] = BoundSlots[y]
  <2> SUFFICES ASSUME NEW n \in Modules, NEW j \in ImportsOf[n], Import(n, j) # x
               PROVE  space'[n][j.slot] = space[n][j.slot]
    BY DEF BoundSlots, AllImports, Import
  <2>1. j.slot \in Slots(n) /\ <<n, j.slot>> # <<m, i.slot>>
    BY <1>1, ImportSlotFacts
  <2> QED
    BY <2>1, FillEffect
<1>7. BoundSlots' = [BoundSlots EXCEPT ![x] = Exporter(i)]
  BY <1>2, <1>5, <1>6 DEF BoundSlots
<1>8. Linker!Bind(x)
  BY <1>1, <1>3, <1>4, <1>5, <1>7 DEF Linker!Bind, BoundSlots
<1> QED
  BY <1>2, <1>8 DEF Linker!Next

LEMMA NextRefines == IInv /\ [Next]_vars => [Linker!Next]_BoundSlots
<1> SUFFICES ASSUME IInv, [Next]_vars PROVE Linker!Next \/ BoundSlots' = BoundSlots
  OBVIOUS
<1>1. CASE space' = space
  BY <1>1 DEF BoundSlots
<1>2. ASSUME NEW m \in Modules, NEW r, Construct(m, r) PROVE BoundSlots' = BoundSlots
  <2> SUFFICES ASSUME NEW n \in Modules, NEW j \in ImportsOf[n]
               PROVE  space'[n][j.slot] = space[n][j.slot]
    BY DEF BoundSlots, AllImports, Import
  <2>1. n # m => space'[n] = space[n]
    BY <1>2 DEF Construct, IInv, Indexed
  <2>2. n = m => space'[n][j.slot] = Null /\ space[n][j.slot] = Null
    BY <1>2, ImportSlotFacts DEF Construct, IInv, Indexed, SlotsHold
  <2> QED
    BY <2>1, <2>2
<1>3. ASSUME NEW i, LinkStep(i) PROVE Linker!Next \/ space' = space
  BY <1>3, FillIsBind
     DEF LinkStep, SkipMissing, ImportFails, ImportField, ImportThrows, ImportAborts
<1> QED
  BY <1>1, <1>2, <1>3 DEF Next, ConstructorThrows, ConstructorAborts, LinkBegin, LinkEnd, vars

(* All links together, in any order and however many fail, are the binding *)
(* of one import after another, once and for good, to the entity that the  *)
(* field it names denotes, of its kind and taken for its type.             *)
THEOREM Refinement == Spec => ImplementsLinker
<1>1. Linker!Init /\ [][Linker!Next]_BoundSlots => Linker!Spec
  BY DEF Linker!Spec, BoundSlots
<1> QED
  BY <1>1, InitIInv, NextIInv, InitRefines, NextRefines, PTL DEF Spec, ImplementsLinker

==============================================================================
