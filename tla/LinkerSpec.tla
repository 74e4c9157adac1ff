----------------------------- MODULE LinkerSpec ------------------------------
(***************************************************************************)
(* What linking promises, with no modules half-way through anything: every *)
(* import is bound at most once, for good, and to the very entity that the *)
(* field it names denotes, one that is accepted for it.                    *)
(***************************************************************************)
EXTENDS Naturals

CONSTANTS
  Imports,      (* all the imports of all modules                          *)
  Entities,     (* all functions, tables, memories and globals             *)
  Accepts(_, _),(* Accepts(i, e): e is taken for the kind and type i asks  *)
  Exported(_),  (* Exported(i): the entity or the import that the field i  *)
                (* names stands for (a module may export what it imports), *)
                (* Unbound when the module exports no such field           *)
  Unbound

VARIABLE bound  (* the entity each import is bound to, or Unbound          *)

(* What the field named by import i denotes at the moment. *)
Denoted(i) ==
  LET x == Exported(i) IN IF x \in Imports THEN bound[x] ELSE x

Init == bound = [i \in Imports |-> Unbound]

Bind(i) ==
  /\ bound[i] = Unbound
  /\ Denoted(i) \in Entities
  /\ Accepts(i, Denoted(i))
  /\ bound' = [bound EXCEPT ![i] = Denoted(i)]

Next == \E i \in Imports : Bind(i)

Spec == Init /\ [][Next]_bound

==============================================================================
