------------------------- MODULE StackResource_proofs -------------------------
(***************************************************************************)
(* Proofs about StackResource for every buffer, every size and every       *)
(* alignment.  The inductive invariant is TypeOK with Tiled: that the      *)
(* allocations lie end to end is what makes the assert about the end of    *)
(* the taken part tell the last of them from all others.                   *)
(***************************************************************************)
EXTENDS StackResource, SequenceTheorems, TLAPS

USE DEF EndOf

Allocations == [at : Nat, size : Nat, taken : Nat]

(* An adjusted size is at least the size, and nothing stays nothing.       *)
LEMMA Adjusted ==
  ASSUME NEW n \in Nat
  PROVE  adjust_size(n) \in Nat /\ n <= adjust_size(n)
<1>1. n % max_alignment \in 0 .. max_alignment - 1
  BY AlignmentAssumption
<1> QED
  BY <1>1, AlignmentAssumption DEF adjust_size

LEMMA AdjustedZero ==
  adjust_size(0) = 0
BY AlignmentAssumption DEF adjust_size

(* What the type invariant says of an allocation.                          *)
LEMMA LiveType ==
  ASSUME TypeOK
  PROVE  /\ live \in Seq(Allocations)
         /\ Len(live) \in Nat
         /\ DOMAIN live = 1 .. Len(live)
         /\ \A k \in DOMAIN live : live[k] \in Allocations
         /\ \A k \in DOMAIN live :
              live[k].at \in Nat /\ live[k].size \in Nat /\ live[k].taken \in Nat
<1>1. live \in Seq(Allocations)
  BY DEF TypeOK, Allocations
<1>2. Len(live) \in Nat /\ DOMAIN live = 1 .. Len(live)
  BY <1>1
<1>3. \A k \in DOMAIN live : live[k] \in Allocations
  BY <1>1, <1>2, ElementOfSeq
<1> QED
  BY <1>1, <1>2, <1>3 DEF Allocations

(* What is changed of one allocation is the size its user counts on.       *)
LEMMA Resized ==
  ASSUME TypeOK, NEW i \in DOMAIN live, NEW n \in Nat,
         live' = [live EXCEPT ![i].size = n]
  PROVE  /\ live' \in Seq(Allocations)
         /\ Len(live') = Len(live)
         /\ DOMAIN live' = DOMAIN live
         /\ \A k \in DOMAIN live :
              /\ live'[k].at = live[k].at
              /\ live'[k].taken = live[k].taken
              /\ live'[k].size = IF k = i THEN n ELSE live[k].size
<1>1. /\ live \in Seq(Allocations)
      /\ live[i] \in Allocations
  BY LiveType
<1>2. live' = [live EXCEPT ![i] = [live[i] EXCEPT !.size = n]]
  OBVIOUS
<1>3. /\ [live[i] EXCEPT !.size = n] \in Allocations
      /\ [live[i] EXCEPT !.size = n].at = live[i].at
      /\ [live[i] EXCEPT !.size = n].taken = live[i].taken
      /\ [live[i] EXCEPT !.size = n].size = n
  BY <1>1 DEF Allocations
<1>4. PICK b \in Allocations :
        /\ live' = [live EXCEPT ![i] = b]
        /\ b.at = live[i].at /\ b.taken = live[i].taken /\ b.size = n
  BY <1>2, <1>3
<1>5. i \in 1 .. Len(live) /\ DOMAIN live = 1 .. Len(live)
  BY LiveType
<1>6. /\ live' \in Seq(Allocations)
      /\ Len(live') = Len(live)
      /\ \A k \in 1 .. Len(live) : live'[k] = IF k = i THEN b ELSE live[k]
  BY <1>1, <1>4, <1>5, ExceptSeq
<1>7. DOMAIN live' = DOMAIN live
  BY <1>5, <1>6
<1> QED
  BY <1>4, <1>5, <1>6, <1>7

(* An interval that begins with 1 determines where it ends.                *)
LEMMA SameInterval ==
  ASSUME NEW m \in Nat, NEW n \in Nat, 1 .. m = 1 .. n
  PROVE  m = n
<1>1. ASSUME m < n PROVE FALSE
  <2>1. n \in 1 .. n /\ n \notin 1 .. m
    BY <1>1
  <2> QED
    BY <2>1
<1>2. ASSUME n < m PROVE FALSE
  <2>1. m \in 1 .. m /\ m \notin 1 .. n
    BY <1>2
  <2> QED
    BY <2>1
<1> QED
  BY <1>1, <1>2

(* One allocation left out.                                                *)
LEMMA Removed ==
  ASSUME TypeOK, NEW i \in DOMAIN live
  PROVE  /\ Without(i) \in Seq(Allocations)
         /\ Len(Without(i)) = Len(live) - 1
         /\ DOMAIN Without(i) = 1 .. Len(live) - 1
         /\ \A k \in 1 .. Len(live) - 1 :
              Without(i)[k] = IF k < i THEN live[k] ELSE live[k + 1]
<1>1. \A k \in DOMAIN live : live[k] \in Allocations
  BY LiveType
<1>2. Len(live) \in Nat /\ DOMAIN live = 1 .. Len(live) /\ Len(live) - 1 \in Nat
  BY LiveType
<1>3. \A k \in 1 .. Len(live) - 1 : (IF k < i THEN live[k] ELSE live[k + 1]) \in Allocations
  <2> TAKE k \in 1 .. Len(live) - 1
  <2>1. k \in DOMAIN live /\ k + 1 \in DOMAIN live
    BY <1>2
  <2> QED
    BY <1>1, <2>1
<1>4. Without(i) \in [1 .. Len(live) - 1 -> Allocations]
  BY <1>3 DEF Without
<1>5. Without(i) \in Seq(Allocations)
  BY <1>2, <1>4, SeqDef
<1>6. DOMAIN Without(i) = 1 .. Len(live) - 1
  BY <1>4
<1>7. Len(Without(i)) = Len(live) - 1
  <2>1. Len(Without(i)) \in Nat /\ 1 .. Len(Without(i)) = 1 .. Len(live) - 1
    BY <1>5, <1>6, LenProperties
  <2> QED
    BY <1>2, <2>1, SameInterval
<1> QED
  BY <1>4, <1>5, <1>6, <1>7 DEF Without

(* The assert about the end of the taken part tells the last allocation    *)
(* from the others: it is the one whose own bytes end there.               *)
LEMMA OnlyLast ==
  ASSUME TypeOK, Covered, Disjoint, NEW i \in DOMAIN live, NEW n \in Nat,
         ends_at_top(live[i].at, n)
  PROVE  /\ n = live[i].taken <=> i = Len(live)
         /\ live[i].at = live[Len(live)].at <=> i = Len(live)
<1>1. pos \in Nat
  BY DEF TypeOK
<1>2. /\ Len(live) \in Nat /\ DOMAIN live = 1 .. Len(live)
      /\ live # << >> /\ Len(live) \in DOMAIN live
  BY LiveType
<1> DEFINE a == live[i]
           z == live[Len(live)]
<1>3. /\ a.at \in Nat /\ a.taken \in Nat
      /\ z.at \in Nat /\ z.taken \in Nat
  BY <1>2, LiveType
<1>4. z.at + z.taken = pos
  BY <1>2 DEF Covered
<1>5. 0 < z.taken /\ 0 < a.taken
  BY <1>2 DEF Disjoint
<1>6. a.at + n = pos
  BY DEF ends_at_top
<1>7. ASSUME i # Len(live) PROVE n # a.taken /\ a.at # z.at
  <2>1. i < Len(live)
    BY <1>2, <1>7
  <2>2. a.at + a.taken <= z.at
    BY <1>2, <2>1 DEF Disjoint
  <2> HIDE DEF a, z
  <2> QED
    BY <2>2, <1>1, <1>3, <1>4, <1>5, <1>6
<1>8. ASSUME i = Len(live) PROVE n = a.taken /\ a.at = z.at
  <2>1. a = z
    BY <1>8
  <2> HIDE DEF a, z
  <2> QED
    BY <2>1, <1>1, <1>3, <1>4, <1>6
<1> QED
  BY <1>7, <1>8

------------------------------------------------------------------------------
(* Where the invariant begins: nothing is held and nothing is taken.       *)
LEMMA Initial ==
  Init => TypeOK /\ Tiled
<1> SUFFICES ASSUME Init PROVE TypeOK /\ Tiled
  OBVIOUS
<1>1. << >> \in Seq([at : Nat, size : Nat, taken : Nat])
  BY EmptySeq
<1>2. TypeOK
  BY <1>1, BufferAssumption DEF Init, TypeOK
<1>3. Len(live) = 0 /\ DOMAIN live = {}
  BY EmptySeq DEF Init
<1>4. Covered
  BY <1>2, <1>3 DEF Init, Covered, TypeOK
<1>5. Disjoint
  BY <1>3 DEF Disjoint
<1> QED
  BY <1>2, <1>4, <1>5 DEF Tiled

(* do_allocate takes the adjusted size from the beginning of the free part *)
(* and hands out just that.                                                *)
LEMMA AllocateStep ==
  ASSUME TypeOK, Tiled, Allocate
  PROVE  TypeOK' /\ Tiled'
<1>1. PICK bytes \in Sizes : do_allocate(bytes)
  BY DEF Allocate
<1>2. bytes \in Nat
  BY SizesAssumption
<1> DEFINE n == adjust_size(bytes)
           new == [at |-> pos, size |-> bytes, taken |-> n]
<1>3. n \in Nat /\ bytes <= n
  BY <1>2, Adjusted
<1>4. /\ pos' = pos + n
      /\ free' = free - n
      /\ n <= free
      /\ base' = base /\ broken' = broken
  BY <1>1 DEF do_allocate, fits
<1>5. base \in Nat /\ pos \in Nat /\ free \in Nat /\ empties \in SUBSET Nat /\ broken \in BOOLEAN
  BY DEF TypeOK
<1>6. pos' \in Nat /\ free' \in Nat /\ base' \in Nat
  <2> HIDE DEF n
  <2> QED
    BY <1>3, <1>4, <1>5
<1>7. empties' \in SUBSET Nat /\ broken' \in BOOLEAN
  BY <1>1, <1>5 DEF do_allocate
<1>8. CASE bytes = 0
  <2>1. live' = live /\ pos' = pos
    BY <1>1, <1>4, <1>5, <1>8, AdjustedZero DEF do_allocate
  <2>2. TypeOK'
    BY <1>6, <1>7, <2>1 DEF TypeOK
  <2>3. Tiled'
    BY <1>4, <2>1 DEF Tiled, Covered, Disjoint, adjust_size
  <2> QED
    BY <2>2, <2>3
<1>9. CASE bytes # 0
  <2>1. live' = Append(live, new)
    BY <1>1, <1>9 DEF do_allocate
  <2>2. new \in Allocations
    BY <1>2, <1>3, <1>5 DEF Allocations
  <2>3. new.at = pos /\ new.size = bytes /\ new.taken = n
    OBVIOUS
  <2> HIDE DEF n, new
  <2>4. /\ live' \in Seq(Allocations)
        /\ Len(live') = Len(live) + 1
        /\ \A k \in DOMAIN live : live'[k] = live[k]
        /\ live'[Len(live) + 1] = new
    BY <2>1, <2>2, LiveType, AppendProperties
  <2>5. Len(live) \in Nat /\ DOMAIN live' = 1 .. Len(live) + 1
    BY <2>4, LiveType, LenProperties
  <2>6. TypeOK'
    BY <1>6, <1>7, <2>4 DEF TypeOK, Allocations
  <2>7. 0 < n
    BY <1>2, <1>3, <1>9
  <2>8. ASSUME ~broken' PROVE Covered' /\ Disjoint'
    <3>1. Covered /\ Disjoint
      BY <1>4, <2>8 DEF Tiled
    <3>2. base <= pos /\ base' <= pos'
      BY <1>3, <1>4, <1>5, <3>1 DEF Covered
    <3>3. live'[1].at = base'
      <4>1. CASE live = << >>
        <5>1. Len(live) = 0
          BY <4>1, EmptySeq
        <5> QED
          BY <1>4, <2>3, <2>4, <3>1, <4>1, <5>1 DEF Covered
      <4>2. CASE live # << >>
        <5>1. 1 \in DOMAIN live
          BY <4>2, LiveType, EmptySeq
        <5> QED
          BY <1>4, <2>4, <3>1, <4>2, <5>1 DEF Covered
      <4> QED
        BY <4>1, <4>2
    <3>4. EndOf(live'[Len(live')]) = pos'
      BY <1>4, <2>3, <2>4
    <3>5. ASSUME NEW k \in 1 .. Len(live') - 1 PROVE live'[k + 1].at = EndOf(live'[k])
      <4>1. k \in DOMAIN live /\ (k = Len(live) \/ k \in 1 .. Len(live) - 1)
        BY <2>4, <2>5, LiveType
      <4>2. CASE k = Len(live)
        <5>1. live # << >>
          BY <4>1, EmptySeq, LiveType
        <5>2. EndOf(live[k]) = pos
          BY <3>1, <4>2, <5>1 DEF Covered
        <5> QED
          BY <2>3, <2>4, <4>1, <4>2, <5>2
      <4>3. CASE k \in 1 .. Len(live) - 1
        <5>1. k + 1 \in DOMAIN live
          BY <4>3, <2>5, LiveType
        <5> QED
          BY <2>4, <3>1, <4>1, <4>3, <5>1 DEF Covered
      <4> QED
        BY <4>1, <4>2, <4>3
    <3>6. live' # << >>
      BY <2>4, <2>5, EmptySeq
    <3>7. Covered'
      BY <3>2, <3>3, <3>4, <3>5, <3>6 DEF Covered
    <3>8. ASSUME NEW k \in DOMAIN live'
          PROVE  /\ 0 < live'[k].taken
                 /\ live'[k].size <= live'[k].taken
                 /\ adjust_size(live'[k].size) <= live'[k].taken
                 /\ base' <= live'[k].at /\ EndOf(live'[k]) <= pos'
      <4>1. CASE k = Len(live) + 1
        <5>1. live'[k] = new /\ adjust_size(bytes) = n
          BY <2>4, <4>1 DEF n
        <5> QED
          BY <5>1, <2>3, <2>7, <1>2, <1>3, <1>4, <1>5, <3>2
      <4>2. CASE k # Len(live) + 1
        <5>1. k \in DOMAIN live
          BY <2>5, <4>2, LiveType
        <5>2. /\ 0 < live[k].taken
              /\ live[k].size <= live[k].taken
              /\ adjust_size(live[k].size) <= live[k].taken
              /\ base <= live[k].at /\ EndOf(live[k]) <= pos
          BY <3>1, <5>1 DEF Disjoint
        <5>3. live'[k] = live[k] /\ live[k].at \in Nat /\ live[k].taken \in Nat
          BY <2>4, <5>1, LiveType
        <5> QED
          BY <1>3, <1>4, <1>5, <5>2, <5>3
      <4> QED
        BY <4>1, <4>2
    <3>9. ASSUME NEW i \in DOMAIN live', NEW j \in DOMAIN live', i < j
          PROVE  EndOf(live'[i]) <= live'[j].at
      <4>1. i \in DOMAIN live
        BY <2>5, <3>9, LiveType
      <4>2. CASE j = Len(live) + 1
        BY <2>3, <2>4, <3>1, <4>1, <4>2 DEF Disjoint
      <4>3. CASE j # Len(live) + 1
        <5>1. j \in DOMAIN live
          BY <2>5, <4>3, LiveType
        <5> QED
          BY <2>4, <3>1, <3>9, <4>1, <5>1 DEF Disjoint
      <4> QED
        BY <4>2, <4>3
    <3>10. Disjoint'
      <4>1. \A k \in DOMAIN live' :
              /\ 0 < live'[k].taken
              /\ live'[k].size <= live'[k].taken
              /\ adjust_size(live'[k].size) <= live'[k].taken
              /\ base' <= live'[k].at /\ EndOf(live'[k]) <= pos'
        BY <3>8
      <4>2. \A i, j \in DOMAIN live' : i < j => EndOf(live'[i]) <= live'[j].at
        BY <3>9
      <4> QED
        BY <4>1, <4>2 DEF Disjoint, adjust_size
    <3> QED
      BY <3>7, <3>10
  <2> QED
    BY <2>6, <2>8 DEF Tiled
<1> QED
  BY <1>8, <1>9

(* do_deallocate gives the last allocation back; the one before it is then *)
(* the last.                                                               *)
LEMMA DeallocateStep ==
  ASSUME TypeOK, Tiled, NEW i \in DOMAIN live, NEW bytes \in Sizes,
         do_deallocate(live[i].at, bytes), live' = Without(i),
         broken' = (broken \/ adjust_size(bytes) # live[i].taken)
  PROVE  /\ TypeOK' /\ Tiled'
         /\ pos' = live[i].at
         /\ ~broken => (broken' <=> i # Len(live))
         /\ ~broken => (live[i].at = live[Len(live)].at <=> i = Len(live))
<1> DEFINE n == adjust_size(bytes)
<1>1. /\ deallocation_asserts(live[i].at, bytes)
      /\ pos' = live[i].at
      /\ free' = free + n
      /\ live' = Without(i)
      /\ base' = base /\ empties' = empties
  BY DEF do_deallocate
<1>0. n \in Nat
  BY Adjusted, SizesAssumption
<1>2. /\ Len(live) \in Nat /\ DOMAIN live = 1 .. Len(live)
      /\ live[i].at \in Nat /\ live[i].size \in Nat
  BY LiveType
<1>3. /\ live' \in Seq(Allocations)
      /\ Len(live') = Len(live) - 1
      /\ DOMAIN live' = 1 .. Len(live) - 1
      /\ \A k \in 1 .. Len(live) - 1 : live'[k] = IF k < i THEN live[k] ELSE live[k + 1]
  BY <1>1, Removed
<1>4. TypeOK'
  <2> HIDE DEF n
  <2>1. pos' \in Nat /\ free' \in Nat /\ broken' \in BOOLEAN
    BY <1>0, <1>1, <1>2 DEF TypeOK
  <2> QED
    BY <1>1, <1>3, <2>1 DEF TypeOK, Allocations
<1>9. ASSUME ~broken
      PROVE  /\ Covered /\ Disjoint
             /\ n = live[i].taken <=> i = Len(live)
             /\ live[i].at = live[Len(live)].at <=> i = Len(live)
  <2>1. Covered /\ Disjoint
    BY <1>9 DEF Tiled
  <2>2. ends_at_top(live[i].at, n)
    BY <1>1 DEF deallocation_asserts
  <2> HIDE DEF n
  <2> QED
    BY <1>0, <2>1, <2>2, OnlyLast
<1>5. ASSUME ~broken' PROVE Covered' /\ Disjoint'
  <2>1. Covered /\ Disjoint
    BY <1>5, <1>9
  <2>3. i = Len(live)
    BY <1>5, <1>9
  <2>4. \A k \in 1 .. Len(live) - 1 : live'[k] = live[k] /\ k \in DOMAIN live
    BY <1>2, <1>3, <2>3
  <2>5. base' <= pos'
    BY <1>1, <2>1 DEF Disjoint
  <2>6. CASE Len(live) = 1
    <3>1. Len(live') = 0 /\ DOMAIN live' = {}
      BY <1>3, <2>6
    <3>2. live' = << >>
      BY <1>3, <3>1, EmptySeq
    <3>3. pos' = base'
      <4>1. live # << >> /\ i = 1
        BY <2>3, <2>6, EmptySeq
      <4>2. live[1].at = base
        BY <2>1, <4>1 DEF Covered
      <4> QED
        BY <1>1, <4>1, <4>2
    <3>4. Covered'
      BY <2>5, <3>1, <3>2, <3>3 DEF Covered
    <3>5. Disjoint'
      BY <3>1 DEF Disjoint
    <3> QED
      BY <2>3, <3>4, <3>5
  <2>7. CASE Len(live) # 1
    <3>1. /\ Len(live) > 1
          /\ 1 \in 1 .. Len(live) - 1
          /\ Len(live) - 1 \in 1 .. Len(live) - 1
      BY <1>2, <2>3, <2>7
    <3>2. live # << >> /\ live' # << >>
      BY <1>3, <2>4, <3>1, EmptySeq
    <3>3. live'[1].at = base'
      BY <1>1, <2>1, <2>4, <3>1, <3>2 DEF Covered
    <3>4. EndOf(live'[Len(live')]) = pos'
      <4>1. live[(Len(live) - 1) + 1].at = EndOf(live[Len(live) - 1])
        BY <2>1, <3>1 DEF Covered
      <4>2. (Len(live) - 1) + 1 = Len(live)
        BY <1>2
      <4>3. live[Len(live)].at = EndOf(live[Len(live) - 1])
        BY <4>1, <4>2
      <4> QED
        BY <1>1, <1>3, <2>3, <2>4, <3>1, <4>3
    <3>5. ASSUME NEW k \in 1 .. Len(live') - 1 PROVE live'[k + 1].at = EndOf(live'[k])
      <4>1. k \in 1 .. Len(live) - 1 /\ k + 1 \in 1 .. Len(live) - 1
        BY <1>2, <1>3
      <4> QED
        BY <2>1, <2>4, <4>1 DEF Covered
    <3>6. Covered'
      BY <2>5, <3>2, <3>3, <3>4, <3>5 DEF Covered
    <3>7. ASSUME NEW k \in DOMAIN live'
          PROVE  /\ 0 < live'[k].taken
                 /\ live'[k].size <= live'[k].taken
                 /\ adjust_size(live'[k].size) <= live'[k].taken
                 /\ base' <= live'[k].at /\ EndOf(live'[k]) <= pos'
      <4>1. k \in DOMAIN live /\ live'[k] = live[k] /\ k < Len(live)
        BY <1>2, <1>3, <2>4
      <4>2. EndOf(live[k]) <= live[i].at
        BY <2>1, <2>3, <4>1 DEF Disjoint
      <4> QED
        BY <1>1, <2>1, <4>1, <4>2 DEF Disjoint
    <3>8. ASSUME NEW j \in DOMAIN live', NEW k \in DOMAIN live', j < k
          PROVE  EndOf(live'[j]) <= live'[k].at
      BY <1>3, <2>1, <2>4, <3>8 DEF Disjoint
    <3>9. Disjoint'
      BY <3>7, <3>8 DEF Disjoint, adjust_size
    <3> QED
      BY <2>3, <3>6, <3>9
  <2> QED
    BY <2>6, <2>7
<1> QED
  BY <1>1, <1>4, <1>5, <1>9 DEF Tiled

(* What no allocation begins at is given back with an end.                 *)
LEMMA DeallocateInsideStep ==
  ASSUME TypeOK, DeallocateInside
  PROVE  /\ TypeOK' /\ broken' /\ live' = live
         /\ \A i \in DOMAIN live : live[i].at # pos'
<1>1. PICK p \in base .. pos, bytes \in Sizes :
        /\ pos' = p /\ free' = free + adjust_size(bytes)
        /\ \A i \in DOMAIN live : live[i].at # p
        /\ broken' = TRUE
        /\ UNCHANGED << base, empties, live >>
  BY DEF DeallocateInside, do_deallocate
<1>2. p \in Nat /\ adjust_size(bytes) \in Nat
  BY SizesAssumption, Adjusted DEF TypeOK
<1> QED
  BY <1>1, <1>2 DEF TypeOK

(* A resize moves nothing.  Where an allocation counts on no more than it  *)
(* has taken, all else stays as it was.                                    *)
LEMMA ResizeStep ==
  ASSUME TypeOK, Tiled, NEW i \in DOMAIN live, NEW n \in Nat,
         live' = [live EXCEPT ![i].size = n],
         UNCHANGED << base, pos, free, empties >>,
         broken' \in BOOLEAN,
         ~broken' => ~broken,
         ~broken' => adjust_size(n) <= adjust_size(live[i].size)
  PROVE  TypeOK' /\ Tiled'
<1>1. /\ live' \in Seq(Allocations)
      /\ Len(live') = Len(live)
      /\ DOMAIN live' = DOMAIN live
      /\ \A k \in DOMAIN live :
           /\ live'[k].at = live[k].at
           /\ live'[k].taken = live[k].taken
           /\ live'[k].size = IF k = i THEN n ELSE live[k].size
  BY Resized
<1>2. /\ Len(live) \in Nat /\ DOMAIN live = 1 .. Len(live)
      /\ \A k \in DOMAIN live :
           live[k].at \in Nat /\ live[k].size \in Nat /\ live[k].taken \in Nat
  BY LiveType
<1>3. TypeOK'
  BY <1>1 DEF TypeOK, Allocations
<1>4. ASSUME ~broken' PROVE Covered' /\ Disjoint'
  <2>1. Covered /\ Disjoint
    BY <1>4 DEF Tiled
  <2>2. live # << >> /\ live' # << >> /\ 1 \in DOMAIN live /\ Len(live) \in DOMAIN live
    BY <1>1, <1>2, EmptySeq
  <2>3. ASSUME NEW k \in 1 .. Len(live') - 1 PROVE live'[k + 1].at = EndOf(live'[k])
    <3>1. k \in DOMAIN live /\ k + 1 \in DOMAIN live /\ k \in 1 .. Len(live) - 1
      BY <1>1, <1>2
    <3> QED
      BY <1>1, <2>1, <3>1 DEF Covered
  <2>4. live'[1].at = base' /\ EndOf(live'[Len(live')]) = pos'
    BY <1>1, <2>1, <2>2 DEF Covered
  <2>5. Covered'
    BY <2>1, <2>2, <2>3, <2>4 DEF Covered
  <2>6. ASSUME NEW k \in DOMAIN live'
        PROVE  /\ 0 < live'[k].taken
               /\ live'[k].size <= live'[k].taken
               /\ adjust_size(live'[k].size) <= live'[k].taken
               /\ base' <= live'[k].at /\ EndOf(live'[k]) <= pos'
    <3>1. k \in DOMAIN live
      BY <1>1
    <3>2. adjust_size(live'[k].size) <= live'[k].taken
      <4>1. adjust_size(live[k].size) <= live[k].taken
        BY <2>1, <3>1 DEF Disjoint
      <4>2. adjust_size(n) \in Nat /\ adjust_size(live[k].size) \in Nat
        BY <1>2, <3>1, Adjusted
      <4>3. CASE k = i
        <5>1. live'[k].size = n /\ live'[k].taken = live[k].taken
          BY <1>1, <3>1, <4>3
        <5>2. adjust_size(n) <= adjust_size(live[k].size)
          BY <1>4, <4>3
        <5>3. live[k].taken \in Nat
          BY <1>2, <3>1
        <5>4. adjust_size(n) <= live[k].taken
          BY <4>1, <4>2, <5>2, <5>3
        <5> QED
          BY <5>1, <5>4
      <4>4. CASE k # i
        BY <1>1, <3>1, <4>1, <4>4
      <4> QED
        BY <4>3, <4>4
    <3>3. live'[k].size \in Nat /\ live'[k].taken \in Nat
      BY <1>1, <1>2, <3>1
    <3>4. /\ adjust_size(live'[k].size) \in Nat
          /\ live'[k].size <= adjust_size(live'[k].size)
      <4>1. \A z \in Nat : adjust_size(z) \in Nat /\ z <= adjust_size(z)
        BY Adjusted
      <4> QED
        BY <3>3, <4>1
    <3>5. live'[k].size <= live'[k].taken
      BY <3>2, <3>3, <3>4
    <3>6. 0 < live'[k].taken /\ base' <= live'[k].at /\ EndOf(live'[k]) <= pos'
      BY <1>1, <2>1, <3>1 DEF Disjoint
    <3> QED
      BY <3>2, <3>5, <3>6
  <2>7. ASSUME NEW j \in DOMAIN live', NEW k \in DOMAIN live', j < k
        PROVE  EndOf(live'[j]) <= live'[k].at
    BY <1>1, <2>1, <2>7 DEF Disjoint
  <2>8. Disjoint'
    BY <2>6, <2>7 DEF Disjoint, adjust_size
  <2> QED
    BY <2>5, <2>8
<1> QED
  BY <1>3, <1>4 DEF Tiled

(* Expanding the empty allocation at the end of what is taken.             *)
LEMMA ExpandEmptyStep ==
  ASSUME TypeOK, ExpandEmpty
  PROVE  TypeOK' /\ broken'
<1>1. PICK p \in empties, n \in Sizes :
        /\ live' = Append(live, [at |-> p, size |-> n, taken |-> 0])
        /\ empties' = empties \ {p}
        /\ broken' = TRUE
        /\ UNCHANGED << base, pos, free >>
  BY DEF ExpandEmpty
<1>2. p \in Nat /\ n \in Nat
  BY SizesAssumption DEF TypeOK
<1>3. [at |-> p, size |-> n, taken |-> 0] \in Allocations
  BY <1>2 DEF Allocations
<1>4. live' \in Seq(Allocations)
  BY <1>1, <1>3, LiveType, AppendProperties
<1> QED
  BY <1>1, <1>4 DEF TypeOK, Allocations

(* Whatever stops or refuses a call leaves the memory as it was.           *)
LEMMA StutterStep ==
  ASSUME TypeOK, Tiled, UNCHANGED << base, pos, free, live, empties, broken >>
  PROVE  TypeOK' /\ Tiled'
BY DEF TypeOK, Tiled, Covered, Disjoint, adjust_size

(* Every step keeps the invariant.                                         *)
LEMMA Step ==
  TypeOK /\ Tiled /\ [Next]_vars => TypeOK' /\ Tiled'
<1> SUFFICES ASSUME TypeOK, Tiled, [Next]_vars PROVE TypeOK' /\ Tiled'
  OBVIOUS
<1>1. CASE Allocate
  BY <1>1, AllocateStep
<1>2. CASE Deallocate
  <2>1. PICK i \in DOMAIN live, bytes \in Sizes :
          /\ do_deallocate(live[i].at, bytes)
          /\ live' = Without(i)
          /\ broken' = (broken \/ adjust_size(bytes) # live[i].taken)
    BY <1>2 DEF Deallocate
  <2> QED
    BY <2>1, DeallocateStep
<1>3. CASE Expand
  <2>1. PICK i \in DOMAIN live, n \in Sizes :
          /\ live' = [live EXCEPT ![i].size = n]
          /\ broken' = (broken \/ adjust_size(n) # adjust_size(live[i].size))
          /\ UNCHANGED << base, pos, free, empties >>
    BY <1>3 DEF Expand
  <2>2. n \in Nat /\ live[i].size \in Nat
    BY SizesAssumption, LiveType
  <2>3. adjust_size(n) \in Nat /\ adjust_size(live[i].size) \in Nat
    BY <2>2, Adjusted
  <2>4. ~broken' => ~broken /\ adjust_size(n) = adjust_size(live[i].size)
    BY <2>1
  <2>5. ~broken' => adjust_size(n) <= adjust_size(live[i].size)
    BY <2>3, <2>4
  <2>6. broken' \in BOOLEAN
    BY <2>1 DEF TypeOK
  <2> QED
    BY <2>1, <2>2, <2>4, <2>5, <2>6, ResizeStep
<1>4. CASE Contract
  <2>1. PICK i \in DOMAIN live, n \in Sizes :
          /\ contraction_asserts(live[i].at, live[i].size, n)
          /\ live' = [live EXCEPT ![i].size = n]
          /\ UNCHANGED << base, pos, free, empties, broken >>
    BY <1>4 DEF Contract
  <2>2. n \in Nat /\ live[i].size \in Nat
    BY SizesAssumption, LiveType
  <2>3. adjust_size(n) \in Nat /\ adjust_size(live[i].size) \in Nat
    BY <2>2, Adjusted
  <2>4. adjust_size(n) <= adjust_size(live[i].size)
    BY <2>1, <2>3 DEF contraction_asserts
  <2>5. broken' \in BOOLEAN /\ (~broken' => ~broken)
    BY <2>1 DEF TypeOK
  <2> QED
    BY <2>1, <2>2, <2>4, <2>5, ResizeStep
<1>5. CASE ExpandEmpty
  BY <1>5, ExpandEmptyStep DEF Tiled
<1>6. CASE AllocateRefused \/ AllocateAborts \/ DeallocateAborts \/ ResizeAborts
  <2>1. UNCHANGED << base, pos, free, live, empties, broken >>
    BY <1>6 DEF AllocateRefused, AllocateAborts, DeallocateAborts, ResizeAborts, Abort,
      Allocated
  <2> QED
    BY <2>1, StutterStep
<1>7. CASE UNCHANGED vars
  BY <1>7, StutterStep DEF vars
<1>8. CASE DeallocateInside
  BY <1>8, DeallocateInsideStep DEF Tiled
<1> QED
  BY <1>1, <1>2, <1>3, <1>4, <1>5, <1>6, <1>7, <1>8 DEF Next

(* Memory is taken back for the last allocation, with its size, or for what *)
(* is no such allocation.                                                  *)
LEMMA InOrderStep ==
  TypeOK /\ Tiled /\ [Next]_vars =>
    (~broken /\ pos' < pos =>
       /\ broken' <=> pos' # live[Len(live)].at
       /\ ~broken' => live' = [k \in 1 .. Len(live) - 1 |-> live[k]])
<1> SUFFICES ASSUME TypeOK, Tiled, [Next]_vars, ~broken, pos' < pos
             PROVE  /\ broken' <=> pos' # live[Len(live)].at
                    /\ ~broken' => live' = [k \in 1 .. Len(live) - 1 |-> live[k]]
  OBVIOUS
<1>1. Len(live) \in Nat /\ DOMAIN live = 1 .. Len(live) /\ pos \in Nat
  BY LiveType DEF TypeOK
<1>2. CASE Deallocate
  <2>1. PICK i \in DOMAIN live, bytes \in Sizes :
          /\ do_deallocate(live[i].at, bytes)
          /\ live' = Without(i)
          /\ broken' = (broken \/ adjust_size(bytes) # live[i].taken)
    BY <1>2 DEF Deallocate
  <2>2. /\ pos' = live[i].at
        /\ broken' <=> i # Len(live)
        /\ live[i].at = live[Len(live)].at <=> i = Len(live)
    BY <2>1, DeallocateStep
  <2>3. ASSUME ~broken' PROVE live' = [k \in 1 .. Len(live) - 1 |-> live[k]]
    <3>1. live' = [k \in 1 .. Len(live) - 1 |-> IF k < Len(live) THEN live[k] ELSE live[k + 1]]
      BY <2>1, <2>2, <2>3 DEF Without
    <3>2. \A k \in 1 .. Len(live) - 1 : k < Len(live)
      BY <1>1
    <3> QED
      BY <3>1, <3>2
  <2> QED
    BY <2>2, <2>3
<1>3. CASE DeallocateInside
  <2>1. /\ broken'
        /\ \A i \in DOMAIN live : live[i].at # pos'
    BY <1>3, DeallocateInsideStep
  <2>2. live # << >>
    <3>1. PICK p \in base .. pos : pos' = p
      BY <1>3 DEF DeallocateInside, do_deallocate
    <3>2. Covered
      BY DEF Tiled
    <3> QED
      BY <3>1, <3>2 DEF Covered, TypeOK
  <2>3. Len(live) \in DOMAIN live
    BY <1>1, <2>2, LiveType, EmptySeq
  <2> QED
    BY <2>1, <2>3
<1>4. CASE Allocate
  <2>1. PICK bytes \in Sizes : pos' = pos + adjust_size(bytes)
    BY <1>4 DEF Allocate, do_allocate
  <2>2. adjust_size(bytes) \in Nat
    BY SizesAssumption, Adjusted
  <2> QED
    BY <1>1, <2>1, <2>2
<1>5. CASE Expand \/ Contract \/ ExpandEmpty \/ AllocateRefused \/ AllocateAborts
             \/ DeallocateAborts \/ ResizeAborts \/ UNCHANGED vars
  <2>1. pos' = pos
    BY <1>5 DEF Expand, Contract, ExpandEmpty, AllocateRefused, AllocateAborts,
      DeallocateAborts, ResizeAborts, Abort, Allocated, vars
  <2> QED
    BY <1>1, <2>1
<1> QED
  BY <1>2, <1>3, <1>4, <1>5 DEF Next

------------------------------------------------------------------------------
(* Whatever buffer it has and in whatever order it is called, the resource *)
(* gives no byte to two users and loses none, as long as every expansion   *)
(* it returned from fitted what was taken before and nothing was taken     *)
(* back but an allocation with its size.                                   *)
THEOREM Invariance ==
  Spec => [](TypeOK /\ Tiled)
<1>1. Init => TypeOK /\ Tiled
  BY Initial
<1>2. TypeOK /\ Tiled /\ [Next]_vars => (TypeOK /\ Tiled)'
  BY Step
<1> QED
  BY <1>1, <1>2, PTL DEF Spec

(* Up to then its asserts let an allocation be given back with its size    *)
(* only if it is the last, and the last with no other size.                *)
THEOREM InOrder ==
  Spec => OutOfOrderCaught
<1>1. TypeOK /\ Tiled /\ [Next]_vars =>
        [~broken /\ pos' < pos =>
           /\ broken' <=> pos' # live[Len(live)].at
           /\ ~broken' => live' = [k \in 1 .. Len(live) - 1 |-> live[k]]]_vars
  BY InOrderStep
<1> QED
  BY <1>1, Invariance, PTL DEF Spec, OutOfOrderCaught
=============================================================================
