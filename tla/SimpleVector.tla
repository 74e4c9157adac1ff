---------------------------- MODULE SimpleVector -----------------------------
(***************************************************************************)
(* include/utilities/SimpleVector.h with std::allocator: a vector is a     *)
(* unique_ptr whose deleter keeps the count.  The deleter destroys and     *)
(* deallocates as many items as its count says at that moment, so a        *)
(* pointer and the count must change together.  New items are built in a   *)
(* BufferGuard, where any constructor may throw; then the vector accepts   *)
(* the buffer.                                                             *)
(*                                                                         *)
(* A deleter whose count is not its buffer's is undefined behaviour: the   *)
(* step that runs it sets misfreed, and nothing is said of what follows.   *)
(* A failed assert aborts.  An allocation that throws changes nothing.  An *)
(* item that is moved from is not seen again.                              *)
(***************************************************************************)
EXTENDS Integers, Sequences

CONSTANTS
  Vectors,  (* the objects                                                  *)
  Buffers,  (* what the allocator hands out                                 *)
  Items,    (* values of T                                                  *)
  Inputs,   (* sequences a caller fills a vector with                       *)
  MaxSize,  (* bound: the size asked of resize                              *)
  Null, Free, NoGuard, Dead

(* A buffer in use, and a BufferGuard. *)
Buffer == [size : Nat, items : Seq(Items)]

Guard ==
  [target : Vectors, source : Inputs \cup Vectors, buffer : Buffers,
   size : Nat, constructed : Nat]

ASSUME InputsAssumption == Inputs \subseteq Seq(Items)
ASSUME SourcesAssumption == Inputs \cap Vectors = {}
ASSUME ValuesAssumption ==
  /\ Null \notin Buffers
  /\ Free \notin Buffer
  /\ NoGuard \notin Guard
  /\ NoGuard \notin [target : Vectors, items : Seq(Items)]
  /\ Dead \notin Seq(Items)
ASSUME BoundAssumption == MaxSize \in Nat

VARIABLES
  alive,    (* the vectors constructed and not destroyed                    *)
  pointer,  (* pointer_ of each                                             *)
  count,    (* count_ of its deleter                                        *)
  heap,     (* each buffer: Free, or its size and the items in it           *)
  guard,    (* the BufferGuard of the call under way, and that call         *)
  misfreed, (* a deleter has run with a count that is not its buffer's      *)
  aborted   (* an assert has failed                                         *)

vars == <<alive, pointer, count, heap, guard, misfreed, aborted>>

Init ==
  /\ alive = {}
  /\ pointer = [v \in Vectors |-> Null]
  /\ count = [v \in Vectors |-> 0]
  /\ heap = [b \in Buffers |-> Free]
  /\ guard = NoGuard
  /\ misfreed = FALSE
  /\ aborted = FALSE

(* Between two calls. *)
Idle == guard = NoGuard /\ ~misfreed /\ ~aborted

Building == guard # NoGuard /\ ~misfreed /\ ~aborted

Contents(v) == IF pointer[v] = Null THEN << >> ELSE SubSeq(heap[pointer[v]].items, 1, count[v])

SourceItems(s) == IF s \in Vectors THEN Contents(s) ELSE s

------------------------------------------------------------------------------
(* AllocatorDeleter::operator() on p, which unique_ptr skips for null.     *)

Deleted(p) == [b \in Buffers |-> IF b = p THEN Free ELSE heap[b]]

Fits(p, destroyed, size) ==
  p # Null => destroyed = Len(heap[p].items) /\ size = heap[p].size

Delete(p, n) ==
  /\ heap' = Deleted(p)
  /\ misfreed' = ~Fits(p, n, n)

------------------------------------------------------------------------------
(* BufferGuard.                                                            *)

(* Variant: the vector is cleared before the items are copied. *)
ClearedFirst(v) == [pointer EXCEPT ![v] = Null]

UntilAccepted(v) == pointer

(* make_buffer, for a call that fills v from s.  The vector keeps its own  *)
(* buffer until the new one is complete.                                   *)
MakeBuffer(v, s) ==
  \E b \in Buffers :
    /\ heap[b] = Free
    /\ heap' = [heap EXCEPT ![b] = [size |-> Len(SourceItems(s)), items |-> << >>]]
    /\ guard' = [target |-> v, source |-> s, buffer |-> b,
                 size |-> Len(SourceItems(s)), constructed |-> 0]
    /\ pointer' = UntilAccepted(v)
    /\ UNCHANGED <<alive, count, misfreed, aborted>>

(* Variant: one item too many is built. *)
RoomForOneMore == guard.constructed <= guard.size

HasRoom == guard.constructed < guard.size

(* The loop that builds the items reads the source in order; there is no   *)
(* telling what it would find past the end.                                *)
Read(s) ==
  LET i == guard.constructed + 1 IN
  IF i \in DOMAIN SourceItems(s) THEN {SourceItems(s)[i]} ELSE Items

EmplaceBack ==
  /\ Building
  /\ HasRoom
  /\ \E item \in Read(guard.source) :
       heap' = [heap EXCEPT ![guard.buffer] =
                  [size |-> heap[guard.buffer].size,
                   items |-> Append(heap[guard.buffer].items, item)]]
  /\ guard' = [guard EXCEPT !.constructed = guard.constructed + 1]
  /\ UNCHANGED <<alive, pointer, count, misfreed, aborted>>

(* Variant: the guard destroys its items as the deleter does. *)
GuardDestroysAll == guard.size

GuardDestroys == guard.constructed

(* A constructor throws: ~BufferGuard.  A vector under construction goes   *)
(* too, with the null pointer it was given first.                          *)
EmplaceThrows ==
  /\ Building
  /\ HasRoom
  /\ heap' = Deleted(guard.buffer)
  /\ misfreed' = ~Fits(guard.buffer, GuardDestroys, guard.size)
  /\ guard' = NoGuard
  /\ UNCHANGED <<alive, pointer, count, aborted>>

(* Variant: the new length is set first. *)
CountOfNew == guard.size

CountAtReset == count[guard.target]

(* accept_buffer: reset deletes the old buffer under the old count; the    *)
(* copy assignment's clear has the same effect before it.                  *)
AcceptBuffer ==
  /\ Building
  /\ guard.constructed = guard.size
  /\ Delete(pointer[guard.target], CountAtReset)
  /\ pointer' = [pointer EXCEPT ![guard.target] = guard.buffer]
  /\ count' = [count EXCEPT ![guard.target] = guard.size]
  /\ alive' = alive \cup {guard.target}
  /\ guard' = NoGuard
  /\ UNCHANGED aborted

------------------------------------------------------------------------------
(* The operations.  A source is what the caller's iterators or the count   *)
(* and value denote, or a vector, v itself included.                       *)

Sources == Inputs \cup alive

(* assign, and the constructors that call it. *)
AssignBegin(v, s) ==
  /\ Idle
  /\ s \in Sources
  /\ SourceItems(s) # << >>
  /\ MakeBuffer(v, s)

(* operator=(const SimpleVector&), which has no case for an empty one.     *)
CopyAssignBegin(v, u) ==
  /\ Idle
  /\ {v, u} \subseteq alive
  /\ MakeBuffer(v, u)

Clear(v) ==
  /\ Delete(pointer[v], count[v])
  /\ pointer' = [pointer EXCEPT ![v] = Null]
  /\ count' = [count EXCEPT ![v] = 0]
  /\ UNCHANGED <<guard, aborted>>

(* clear, or an assign of nothing, which also constructs. *)
AssignEmpty(v) ==
  /\ Idle
  /\ Clear(v)
  /\ alive' = alive \cup {v}

(* Variant: the source keeps its count. *)
CountKept(u) == count[u]

CountAfterMove(u) == 0

MoveConstruct(v, u) ==
  /\ Idle
  /\ v \notin alive
  /\ u \in alive
  /\ pointer' = [pointer EXCEPT ![v] = pointer[u], ![u] = Null]
  /\ count' = [count EXCEPT ![v] = count[u], ![u] = CountAfterMove(u)]
  /\ alive' = alive \cup {v}
  /\ UNCHANGED <<heap, guard, misfreed, aborted>>

(* The deleter, count included, is overwritten before unique_ptr's         *)
(* assignment deletes the old buffer.  A caller does not move a vector     *)
(* into itself.                                                            *)
MoveAssign(v, u) ==
  /\ Idle
  /\ {v, u} \subseteq alive
  /\ v # u
  /\ Delete(pointer[v], count[u])
  /\ pointer' = [pointer EXCEPT ![v] = pointer[u], ![u] = Null]
  /\ count' = [count EXCEPT ![v] = count[u], ![u] = CountAfterMove(u)]
  /\ UNCHANGED <<alive, guard, aborted>>

(* Variant: only the pointers change places. *)
SameCounts(v, u) == count

SwappedCounts(v, u) == [count EXCEPT ![v] = count[u], ![u] = count[v]]

Swap(v, u) ==
  /\ Idle
  /\ {v, u} \subseteq alive
  /\ pointer' = [pointer EXCEPT ![v] = pointer[u], ![u] = pointer[v]]
  /\ count' = SwappedCounts(v, u)
  /\ UNCHANGED <<alive, heap, guard, misfreed, aborted>>

(* resize to another size: grow and shrink are called the other way round, *)
(* and each begins with an assert of what it is for.                       *)
ResizeAborts(v, n) ==
  /\ Idle
  /\ v \in alive
  /\ IF count[v] < n THEN ~(n < count[v]) ELSE n # count[v] /\ ~(n > count[v])
  /\ aborted' = TRUE
  /\ UNCHANGED <<alive, pointer, count, heap, guard, misfreed>>

Destroy(v) ==
  /\ Idle
  /\ v \in alive
  /\ Clear(v)
  /\ alive' = alive \ {v}

Next ==
  \/ EmplaceBack \/ EmplaceThrows \/ AcceptBuffer
  \/ \E v \in Vectors, s \in Sources : AssignBegin(v, s)
  \/ \E v \in Vectors : AssignEmpty(v) \/ Destroy(v)
  \/ \E v, u \in Vectors :
       CopyAssignBegin(v, u) \/ MoveConstruct(v, u) \/ MoveAssign(v, u) \/ Swap(v, u)
  \/ \E v \in Vectors, n \in 0 .. MaxSize : ResizeAborts(v, n)

Spec == Init /\ [][Next]_vars

------------------------------------------------------------------------------
(* Properties.                                                             *)

TypeOK ==
  /\ alive \subseteq Vectors
  /\ pointer \in [Vectors -> Buffers \cup {Null}]
  /\ count \in [Vectors -> Nat]
  /\ heap \in [Buffers -> Buffer \cup {Free}]
  /\ \A b \in Buffers : heap[b] # Free => Len(heap[b].items) <= heap[b].size
  /\ guard \in Guard \cup {NoGuard}
  /\ misfreed \in BOOLEAN
  /\ aborted \in BOOLEAN

(* Whatever is called, and whichever constructor throws, every buffer in   *)
(* use has one owner, a vector or the guard of the call under way, whose   *)
(* count is the number of items in it: nothing leaks, and nothing is       *)
(* deleted twice or by the wrong count later.                              *)
OwnedByVector(v) ==
  IF pointer[v] = Null THEN count[v] = 0
  ELSE /\ v \in alive
       /\ heap[pointer[v]] # Free
       /\ Fits(pointer[v], count[v], count[v])
       /\ \A u \in Vectors : pointer[u] = pointer[v] => u = v

OwnedByGuard ==
  guard # NoGuard =>
    /\ heap[guard.buffer] # Free
    /\ Fits(guard.buffer, guard.constructed, guard.size)
    /\ \A v \in Vectors : pointer[v] # guard.buffer

NothingLeaks ==
  \A b \in Buffers : heap[b] # Free =>
    \/ \E v \in Vectors : pointer[v] = b
    \/ guard # NoGuard /\ guard.buffer = b

Owned == ~misfreed => (\A v \in Vectors : OwnedByVector(v)) /\ OwnedByGuard /\ NothingLeaks

(* Only a move assignment over a vector with items and of another size     *)
(* runs a deleter with a wrong count.                                      *)
OnlyMoveMisfrees ==
  [][misfreed' # misfreed =>
       \E v, u \in alive : /\ pointer[v] # Null
                           /\ count[v] # count[u]
                           /\ pointer'[v] = pointer[u]
                           /\ pointer'[u] = Null]_vars

(* Every operation has its effect at the end of the call or, when it       *)
(* throws, none at all; assigning a vector its own items keeps them.       *)
ItemsHeld == [v \in Vectors |-> IF v \in alive THEN Contents(v) ELSE Dead]

FillUnderWay ==
  IF guard = NoGuard THEN NoGuard
  ELSE [target |-> guard.target, items |-> SourceItems(guard.source)]

Abstract == INSTANCE VectorSpec WITH
  NoCall <- NoGuard, items <- ItemsHeld, call <- FillUnderWay

ImplementsVector == Abstract!Spec

==============================================================================
