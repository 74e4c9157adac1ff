----------------------------- MODULE VectorSpec ------------------------------
(***************************************************************************)
(* What vectors promise: their items.  A call that fills one (by assigning *)
(* or constructing it) has its whole effect when it returns and none at    *)
(* all when it throws, the strong guarantee, also when a vector is         *)
(* assigned its own items.  The other operations cannot throw.             *)
(***************************************************************************)
EXTENDS Sequences

CONSTANTS
  Vectors,
  Inputs,   (* what a caller may fill a vector with                         *)
  Dead,     (* not constructed                                              *)
  NoCall

VARIABLES
  items,    (* of each vector                                               *)
  call      (* the fill under way: its target and what that shall hold      *)

vars == <<items, call>>

Alive == {v \in Vectors : items[v] # Dead}

Init ==
  /\ items = [v \in Vectors |-> Dead]
  /\ call = NoCall

Fill(v, s) ==
  /\ call = NoCall
  /\ call' = [target |-> v, items |-> s]
  /\ UNCHANGED items

Return ==
  /\ call # NoCall
  /\ items' = [items EXCEPT ![call.target] = call.items]
  /\ call' = NoCall

Throw ==
  /\ call # NoCall
  /\ call' = NoCall
  /\ UNCHANGED items

(* clear, and the construction of an empty vector. *)
Empty(v) ==
  /\ call = NoCall
  /\ items' = [items EXCEPT ![v] = << >>]
  /\ UNCHANGED call

(* v is constructed from u, or assigned. *)
Move(v, u) ==
  /\ call = NoCall
  /\ u \in Alive
  /\ u # v
  /\ items' = [items EXCEPT ![v] = items[u], ![u] = << >>]
  /\ UNCHANGED call

Swap(v, u) ==
  /\ call = NoCall
  /\ {v, u} \subseteq Alive
  /\ items' = [items EXCEPT ![v] = items[u], ![u] = items[v]]
  /\ UNCHANGED call

Destroy(v) ==
  /\ call = NoCall
  /\ v \in Alive
  /\ items' = [items EXCEPT ![v] = Dead]
  /\ UNCHANGED call

Next ==
  \/ \E v \in Vectors, s \in Inputs \cup {items[u] : u \in Alive} : Fill(v, s)
  \/ Return
  \/ Throw
  \/ \E v \in Vectors : Empty(v) \/ Destroy(v)
  \/ \E v, u \in Vectors : Move(v, u) \/ Swap(v, u)

Spec == Init /\ [][Next]_vars

==============================================================================
