---------------------------- MODULE MCModuleLink -----------------------------
(* Instance for TLC.  a, b, c and d import from one another, in a ring:    *)
(* what each re-exports and what depends on what is said at its tables.    *)
(* The rest are constructed alone, and their constructors fail, each in a  *)
(* way of its own.                                                         *)
EXTENDS ModuleLink, TLC

CONSTANTS a, b, c, d, own, outside, imported, long, f, g, h, k, t, nope, sig1, sig2

MCModules == {a, b, c, d, own, outside, imported, long}

Imported(s, from, field, kind, type) ==
  [slot |-> s, from |-> from, field |-> field, kind |-> kind, type |-> type]

Mutable(lang) == [lang |-> lang, const |-> FALSE]
Constant(lang) == [lang |-> lang, const |-> TRUE]
TableType(size, maximum) == [size |-> size, maximum |-> maximum]

I64 == 2
F64 == 4

(* Of a, the i64 g is imported by all others as i32, which is what it      *)
(* reports, and the i32 k is refused as i32.  b has one global (4) that    *)
(* depends on an import, declared i32 as the import is, and re-exports     *)
(* what it can.  c's two globals (5, 6) depend on one import and declare   *)
(* different types, the first not the one reported; its 7 depends on a     *)
(* global that is pending.  d links whatever it asks for: 3 is a pending   *)
(* global of b's, and a has no field for its 6.  a imports the pending     *)
(* global back from d, and nobody waits for that one.                      *)
MCImportsOf ==
  a :> {Imported(3, d, h, "global", Mutable(I32))}
  @@ b :> {Imported(1, a, g, "global", Mutable(I32)), Imported(2, a, f, "function", sig1),
           Imported(3, a, t, "function", sig1)}
  @@ c :> {Imported(1, b, g, "global", Mutable(I32)), Imported(2, b, h, "global", Mutable(I32)),
           Imported(3, b, f, "function", sig2), Imported(4, a, k, "global", Mutable(I32)),
           Imported(8, b, t, "table", TableType(1, 8))}
  @@ d :> {Imported(1, a, g, "global", Mutable(I32)), Imported(2, b, f, "function", sig1),
           Imported(3, b, h, "global", Mutable(I32)), Imported(5, a, t, "table", TableType(1, 4)),
           Imported(6, a, nope, "global", Mutable(I32))}
  @@ imported :> {Imported(1, a, t, "table", TableType(1, 4))}
  @@ [m \in {own, outside, long} |-> {}]

Initial(type, v) == [kind |-> "global", type |-> type, depends |-> NoSlot, value |-> v]
Depends(type, s) == [kind |-> "global", type |-> type, depends |-> s, value |-> 0]
Table(size, maximum) ==
  [kind |-> "table", type |-> TableType(size, maximum), depends |-> NoSlot, value |-> 0]

MCDefsOf ==
  a :> (1 :> Initial(Mutable(I64), 1)
        @@ 2 :> [kind |-> "function", type |-> sig1, depends |-> NoSlot, value |-> 0]
        @@ 4 :> Initial(Mutable(I32), 0) @@ 5 :> Table(2, 4))
  @@ b :> (4 :> Depends(Mutable(I32), 1) @@ 5 :> Table(2, 4))
  @@ c :> (5 :> Depends(Mutable(I64), 1) @@ 6 :> Depends(Mutable(I32), 1)
           @@ 7 :> Depends(Mutable(I32), 2))
  @@ d :> (7 :> Initial(Constant(I32), 0))
  @@ own :> (1 :> Initial(Constant(I32), 0) @@ 2 :> Depends(Constant(F64), 1)
             @@ 3 :> Depends(Mutable(I32), 2))
  @@ outside :> (1 :> Table(2, 4))
  @@ imported :> <<>>
  @@ long :> (1 :> Initial(Constant(I32), 0) @@ 2 :> Table(2, 4))

MCExportsOf ==
  a :> (g :> 1 @@ f :> 2 @@ k :> 4 @@ t :> 5)
  @@ b :> (g :> 1 @@ h :> 4 @@ f :> 2 @@ t :> 5)
  @@ d :> (h :> 3)
  @@ [m \in {c, own, outside, imported, long} |-> <<>>]

Segment(table, s, at, length) ==
  [table |-> table, global |-> s, at |-> at, length |-> length]

(* a's segment is written, by a global of its own; d's has no offset.      *)
(* outside's begins at 1 in a table of 2, long's takes its offset from a   *)
(* global and is longer than the table.                                    *)
MCSegmentOf ==
  a :> Segment(0, 4, 0, 1)
  @@ d :> Segment(0, 1, 0, 1)
  @@ outside :> Segment(0, NoSlot, 1, 1)
  @@ imported :> Segment(0, NoSlot, 0, 1)
  @@ long :> Segment(0, 1, 0, 3)
  @@ [m \in {b, c, own} |-> NoSegment]
==============================================================================
