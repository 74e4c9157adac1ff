---------------------------- MODULE StackResource ----------------------------
(***************************************************************************)
(* vm/alloc/StackResource.h: memory handed out from one buffer, from its   *)
(* beginning on, and taken back in the reverse order.  The resource knows  *)
(* only where the free part begins and how long it is; which allocations   *)
(* there are its users know, and tell it their sizes again when they give  *)
(* them back.  Asserts are what stands between a user's mistake and memory *)
(* that two users write to.                                                *)
(*                                                                         *)
(* `live' and `empties' are what the users hold.  They may give back any   *)
(* address in what is taken, in any order and with any size; what they     *)
(* resize they hold, and state its size as they know it.                   *)
(***************************************************************************)
EXTENDS Integers, Sequences

CONSTANTS
  Bases,          \* the addresses a buffer may have
  Capacities,     \* and its sizes
  Sizes,          \* the sizes users ask for
  Alignments,     \* and the alignments
  max_alignment,  \* alignof(std::max_align_t)
  MaxLive         \* bound: allocations that are held

ASSUME BufferAssumption == Bases \subseteq Nat /\ Capacities \subseteq Nat
ASSUME SizesAssumption == Sizes \subseteq Nat /\ Alignments \subseteq Nat \ {0}
ASSUME AlignmentAssumption == max_alignment \in Nat \ {0}
ASSUME MaxLiveAssumption == MaxLive \in Nat

VARIABLES
  base,     \* base_
  pos,      \* buffer_.data()
  free,     \* buffer_.size()
  live,     \* the allocations held, in the order they were made: where one begins,
            \* the size its user counts on, the bytes taken from the buffer for it
  empties,  \* where the allocations of size zero that are held point
  broken,   \* an expansion has returned without the memory it was called for, or what was
            \* given back was not one allocation with its size
  status    \* "running", "aborted"; what the last call was refused with

vars == << base, pos, free, live, empties, broken, status >>

Refusals == {"BadAlignmentError", "StackOverflowError"}

------------------------------------------------------------------------------
(* Variant: down to a multiple of max_alignment. *)
adjust_sizeDown(n) == n - (n % max_alignment)

(* Up to the next multiple of max_alignment. *)
adjust_size(n) ==
  IF n % max_alignment = 0 THEN n ELSE n + (max_alignment - (n % max_alignment))

(* std::align needs one byte at p: none is there if count is zero.         *)
is_aligned(p, count) == p % max_alignment = 0 /\ count > 0

_assert_invariants(p, n) ==
  /\ base <= p
  /\ p = base \/ is_aligned(base, p - base)
  /\ n = 0 \/ is_aligned(p, n)

(* The constructor does not align the buffer: ensure_aligned has no caller. *)
Init ==
  /\ base \in Bases
  /\ pos = base
  /\ free \in Capacities
  /\ live = << >>
  /\ empties = {}
  /\ broken = FALSE
  /\ status = "running"

Running == status # "aborted"
Allocated == UNCHANGED << base, pos, free, live, empties, broken >>
Abort == status' = "aborted" /\ Allocated

------------------------------------------------------------------------------
fits(bytes) == adjust_size(bytes) <= free

do_allocate(bytes) ==
  /\ _assert_invariants(pos, free)
  /\ fits(bytes)
  /\ _assert_invariants(pos + adjust_size(bytes), free - adjust_size(bytes))
  /\ pos' = pos + adjust_size(bytes)
  /\ free' = free - adjust_size(bytes)
  /\ IF bytes = 0
     THEN empties' = empties \cup {pos} /\ UNCHANGED live
     ELSE /\ live' = Append(live, [at |-> pos, size |-> bytes, taken |-> adjust_size(bytes)])
          /\ UNCHANGED empties
  /\ status' = "running"
  /\ UNCHANGED << base, broken >>

Allocate ==
  \E bytes \in Sizes, alignment \in Alignments :
    /\ Running
    /\ Len(live) < MaxLive
    /\ alignment <= max_alignment
    /\ do_allocate(bytes)

AllocateRefused ==
  \E bytes \in Sizes, alignment \in Alignments :
    /\ Running
    /\ _assert_invariants(pos, free)
    /\ alignment > max_alignment \/ ~fits(bytes)
    /\ status' = IF alignment > max_alignment THEN "BadAlignmentError"
                                              ELSE "StackOverflowError"
    /\ Allocated

AllocateAborts ==
  \E bytes \in Sizes, alignment \in Alignments :
    /\ Running
    /\ \/ ~_assert_invariants(pos, free)
       \/ /\ alignment <= max_alignment
          /\ fits(bytes)
          /\ ~_assert_invariants(pos + adjust_size(bytes), free - adjust_size(bytes))
    /\ Abort

------------------------------------------------------------------------------
(* Variant: the allocation may end anywhere below the free part. *)
ends_at_topBelow(p, alloc_size) == p + alloc_size <= pos

(* "Attempt to deallocate memory from a StackResource in non FIFO order."  *)
ends_at_top(p, alloc_size) == p + alloc_size = pos

deallocation_asserts(p, bytes) ==
  /\ _assert_invariants(pos, free)
  /\ is_aligned(p, adjust_size(bytes))
  /\ pos - base >= adjust_size(bytes)
  /\ ends_at_top(p, adjust_size(bytes))
  /\ p < pos \/ bytes = 0
  /\ p >= base
  /\ _assert_invariants(p, free + adjust_size(bytes))

do_deallocate(p, bytes) ==
  /\ deallocation_asserts(p, bytes)
  /\ pos' = p
  /\ free' = free + adjust_size(bytes)
  /\ status' = "running"
  /\ UNCHANGED << base, empties >>

Without(i) == [k \in 1 .. Len(live) - 1 |-> IF k < i THEN live[k] ELSE live[k + 1]]

(* A user gives an allocation back.  The size may be wrong, and the asserts *)
(* pass if it is that of this allocation and all behind it: their users    *)
(* still hold them.                                                        *)
Deallocate ==
  \E i \in DOMAIN live, bytes \in Sizes :
    /\ Running
    /\ do_deallocate(live[i].at, bytes)
    /\ live' = Without(i)
    /\ broken' = (broken \/ adjust_size(bytes) # live[i].taken)

(* An address that no allocation begins at.                                *)
DeallocateInside ==
  \E p \in base .. pos, bytes \in Sizes :
    /\ Running
    /\ \A i \in DOMAIN live : live[i].at # p
    /\ do_deallocate(p, bytes)
    /\ broken' = TRUE
    /\ UNCHANGED live

DeallocateAborts ==
  \E p \in base .. pos, bytes \in Sizes :
    Running /\ ~deallocation_asserts(p, bytes) /\ Abort

------------------------------------------------------------------------------
(* expand and contract.  The semicolon behind `if(alloc_size == 0u)' makes *)
(* both return p whatever the sizes are, and leave the buffer as it is.    *)

expansion_asserts(p, old_size, new_size) ==
  /\ p + old_size <= pos
  /\ p >= base
  /\ p < pos \/ old_size = 0
  /\ p = pos - adjust_size(old_size)
  /\ new_size > old_size
  /\ old_size = 0 \/ is_aligned(p, old_size)
  /\ adjust_size(new_size) >= adjust_size(old_size)

Expand ==
  \E i \in DOMAIN live, new_size \in Sizes :
    /\ Running
    /\ expansion_asserts(live[i].at, live[i].size, new_size)
    /\ live' = [live EXCEPT ![i].size = new_size]
    /\ broken' = (broken \/ adjust_size(new_size) # adjust_size(live[i].size))
    /\ status' = "running"
    /\ UNCHANGED << base, pos, free, empties >>

(* The asserts provide for an old size of zero.                            *)
ExpandEmpty ==
  \E p \in empties, new_size \in Sizes :
    /\ Running
    /\ Len(live) < MaxLive
    /\ expansion_asserts(p, 0, new_size)
    /\ live' = Append(live, [at |-> p, size |-> new_size, taken |-> 0])
    /\ empties' = empties \ {p}
    /\ broken' = TRUE
    /\ status' = "running"
    /\ UNCHANGED << base, pos, free >>

(* The bytes of the last allocation are compared as they are, not adjusted. *)
contraction_asserts(p, old_size, new_size) ==
  /\ _assert_invariants(pos, free)
  /\ p + old_size <= pos
  /\ p >= base
  /\ p < pos \/ old_size = 0
  /\ p = pos - old_size
  /\ new_size < old_size
  /\ is_aligned(p, old_size)
  /\ adjust_size(old_size) >= adjust_size(new_size)

Contract ==
  \E i \in DOMAIN live, new_size \in Sizes :
    /\ Running
    /\ contraction_asserts(live[i].at, live[i].size, new_size)
    /\ live' = [live EXCEPT ![i].size = new_size]
    /\ status' = "running"
    /\ UNCHANGED << base, pos, free, empties, broken >>

ResizeAborts ==
  \E i \in DOMAIN live, new_size \in Sizes :
    /\ Running
    /\ \/ /\ new_size > live[i].size
          /\ ~expansion_asserts(live[i].at, live[i].size, new_size)
       \/ /\ new_size < live[i].size
          /\ ~contraction_asserts(live[i].at, live[i].size, new_size)
    /\ Abort

------------------------------------------------------------------------------
Next ==
  \/ Allocate \/ AllocateRefused \/ AllocateAborts
  \/ Deallocate \/ DeallocateInside \/ DeallocateAborts
  \/ Expand \/ ExpandEmpty \/ Contract \/ ResizeAborts

Spec == Init /\ [][Next]_vars

------------------------------------------------------------------------------
(* Properties.                                                             *)

(* The variables are what their comments say.                              *)
TypeOK ==
  /\ base \in Nat
  /\ pos \in Nat
  /\ free \in Nat
  /\ live \in Seq([at : Nat, size : Nat, taken : Nat])
  /\ empties \in SUBSET Nat
  /\ broken \in BOOLEAN

EndOf(a) == a.at + a.taken

(* The memory that is taken is what lies between base_ and the free part.  *)
Covered ==
  /\ base <= pos
  /\ live = << >> => pos = base
  /\ live # << >> => live[1].at = base /\ EndOf(live[Len(live)]) = pos
  /\ \A i \in 1 .. Len(live) - 1 : live[i + 1].at = EndOf(live[i])

(* An allocation has the bytes its user counts on, to itself: the next one *)
(* begins behind them.                                                     *)
Disjoint ==
  /\ \A i \in DOMAIN live :
       /\ 0 < live[i].taken
       /\ live[i].size <= live[i].taken
       /\ adjust_size(live[i].size) <= live[i].taken
       /\ base <= live[i].at /\ EndOf(live[i]) <= pos
  /\ \A i, j \in DOMAIN live : i < j => EndOf(live[i]) <= live[j].at

(* In whatever order its users call it, the resource gives the same byte   *)
(* to no two of them and loses none, unless it has returned from an        *)
(* expansion that it did not carry out, or has taken back what was not one *)
(* allocation with its size.                                               *)
Tiled == ~broken => Covered /\ Disjoint

(* Up to then the asserts let an allocation be given back with its size    *)
(* only if it is the last, and the last with no other size.                *)
OutOfOrderCaught ==
  [][~broken /\ pos' < pos =>
      /\ broken' <=> pos' # live[Len(live)].at
      /\ ~broken' => live' = [k \in 1 .. Len(live) - 1 |-> live[k]]]_vars

(* The assert behind the one for the order provides for an allocation of   *)
(* size zero at the end of what is taken.                                  *)
EmptiesReturnable ==
  Running /\ _assert_invariants(pos, free) /\ pos \in empties => deallocation_asserts(pos, 0)
=============================================================================
