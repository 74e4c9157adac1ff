------------------------ MODULE WasmCallStack_proofs -------------------------
(***************************************************************************)
(* Proofs about WasmCallStack for every layout, every set of functions and *)
(* every size of the block.                                                *)
(*                                                                         *)
(* TypeOK and FrameChain are not inductive alone: a push or a store must   *)
(* leave the bases of ALL live frames intact, and the tiling only relates  *)
(* neighbours.  Ordered adds that any two live frames are disjoint, in the *)
(* order of their calls.                                                   *)
(***************************************************************************)
EXTENDS WasmCallStack, SequenceTheorems, TLAPS

Ordered ==
  \A i, j \in 1 .. Len(chain) :
    i < j => chain[i] + SizeOf(chain[i]) <= chain[j]

IInv == TypeOK /\ FrameChain /\ Ordered /\ CheckSoundUntilWrap

------------------------------------------------------------------------------
(* Rounding a frame up to the alignment never loses a cell of it, and the  *)
(* base frame needs no padding.                                            *)
LEMMA FrameSizeBounds ==
  ASSUME NEW n \in Nat
  PROVE  /\ FrameSize(n) \in Nat
         /\ FrameSize(n) >= BaseSize + n
         /\ FrameSize(0) = BaseSize
<1>1. \A size \in Nat : size % FrameAlign \in 0 .. FrameAlign - 1
  BY LayoutAssumption
<1>2. BaseSize + n \in Nat
  BY LayoutAssumption
<1>3. (BaseSize + n) % FrameAlign \in 0 .. FrameAlign - 1
  BY <1>1, <1>2
<1>4. FrameSize(n) \in Nat /\ FrameSize(n) >= BaseSize + n
  BY <1>2, <1>3, LayoutAssumption DEF FrameSize, RoundUp
<1>5. BaseSize + 0 = BaseSize
  BY LayoutAssumption
<1>6. FrameSize(0) = BaseSize
  BY <1>5, LayoutAssumption DEF FrameSize, RoundUp
<1> QED
  BY <1>4, <1>6

(* In a state of the invariant every live frame has a base and a size.     *)
LEMMA LiveFrames ==
  ASSUME TypeOK, FrameChain
  PROVE  /\ Len(chain) \in Nat \ {0}
         /\ current = chain[Len(chain)]
         /\ \A i \in 1 .. Len(chain) :
              /\ chain[i] \in Addr
              /\ chain[i] \in Nat
              /\ mem[chain[i]] \in Header
              /\ mem[chain[i]].locals_count \in Nat
              /\ SizeOf(chain[i]) \in Nat
              /\ SizeOf(chain[i]) >= BaseSize + mem[chain[i]].locals_count
<1>1. Len(chain) \in Nat \ {0} /\ current = chain[Len(chain)]
  BY DEF TypeOK, FrameChain
<1>2. ASSUME NEW i \in 1 .. Len(chain)
      PROVE  /\ chain[i] \in Addr
             /\ chain[i] \in Nat
             /\ mem[chain[i]] \in Header
             /\ mem[chain[i]].locals_count \in Nat
             /\ SizeOf(chain[i]) \in Nat
             /\ SizeOf(chain[i]) >= BaseSize + mem[chain[i]].locals_count
  <2>1. chain[i] \in Addr
    BY <1>1 DEF TypeOK
  <2>4. chain[i] \in Nat
    BY <2>1, SizeAssumption DEF TypeOK, Addr
  <2>2. mem[chain[i]] \in Header
    BY DEF FrameChain, Tiled
  <2>3. mem[chain[i]].locals_count \in Nat
    BY <2>2 DEF Header
  <2> QED
    BY <2>1, <2>2, <2>3, <2>4, FrameSizeBounds DEF SizeOf
<1> QED
  BY <1>1, <1>2

(* If a step keeps the live addresses and changes no function record's ret *)
(* or locals_count, the frames stay as they are.                           *)
LEMMA SameFrames ==
  ASSUME IInv, UNCHANGED <<allocated, current, chain>>,
         \A i \in 1 .. Len(chain) :
           /\ mem'[chain[i]] \in Header
           /\ mem'[chain[i]].ret = mem[chain[i]].ret
           /\ mem'[chain[i]].locals_count = mem[chain[i]].locals_count
  PROVE  FrameChain' /\ Ordered' /\ Used' = Used
<1>1. \A i \in 1 .. Len(chain) : SizeOf(chain[i])' = SizeOf(chain[i])
  BY DEF SizeOf
<1>2. Len(chain) \in Nat \ {0} /\ current = chain[Len(chain)]
  BY LiveFrames DEF IInv
<1>3. \A i \in 1 .. Len(chain) : Tiled(i)'
  <2> TAKE i \in 1 .. Len(chain)
  <2>1. Tiled(i) /\ mem[chain[i]] \in Header
    BY DEF IInv, FrameChain, Tiled
  <2>2. i # 1 => i - 1 \in 1 .. Len(chain)
    BY <1>2
  <2> QED
    BY <1>1, <2>1, <2>2 DEF Tiled
<1>4. FrameChain'
  BY <1>2, <1>3 DEF FrameChain
<1>5. Ordered'
  BY <1>1 DEF IInv, Ordered
<1>6. Used' = Used
  BY <1>1, <1>2 DEF Used
<1> QED
  BY <1>4, <1>5, <1>6

(* Where a push writes: past every live frame, inside the block.           *)
LEMMA PushPlace ==
  ASSUME IInv, NEW f \in Functions, Fits(f)
  PROVE  /\ NextFrame \in Addr
         /\ NextFrame \in Nat
         /\ NextFrame = Used
         /\ NextFrame > current
         /\ LocalsCount[f] \in Nat
         /\ FrameSize(LocalsCount[f]) \in Nat
         /\ FrameSize(LocalsCount[f]) >= BaseSize + LocalsCount[f]
         /\ \A i \in 1 .. Len(chain) : chain[i] + SizeOf(chain[i]) <= NextFrame
<1>1. LocalsCount[f] \in Nat
  BY LocalsAssumption
<1>2. /\ FrameSize(LocalsCount[f]) \in Nat
      /\ FrameSize(LocalsCount[f]) >= BaseSize + LocalsCount[f]
  BY <1>1, FrameSizeBounds
<1>3. /\ Len(chain) \in Nat \ {0}
      /\ current = chain[Len(chain)]
      /\ \A i \in 1 .. Len(chain) : chain[i] \in Nat /\ SizeOf(chain[i]) \in Nat
      /\ SizeOf(current) >= BaseSize
  BY LiveFrames, LayoutAssumption DEF IInv
<1>4. NextFrame \in Nat /\ NextFrame > current /\ NextFrame = Used
  BY <1>3, LayoutAssumption DEF NextFrame, Used
<1>5. allocated \in Nat
  BY SizeAssumption DEF IInv, TypeOK
<1>6. NextFrame \in Addr
  BY <1>2, <1>4, <1>5, <1>1, LayoutAssumption DEF Fits, Addr
<1>7. ASSUME NEW i \in 1 .. Len(chain)
      PROVE  chain[i] + SizeOf(chain[i]) <= NextFrame
  <2>1. CASE i = Len(chain)
    BY <1>3, <2>1 DEF NextFrame
  <2>2. CASE i < Len(chain)
    <3>1. chain[i] + SizeOf(chain[i]) <= current
      BY <1>3, <2>2 DEF IInv, Ordered
    <3> QED
      BY <1>3, <1>4, <3>1
  <2> QED
    BY <1>3, <2>1, <2>2
<1> QED
  BY <1>1, <1>2, <1>4, <1>6, <1>7

(* PushFrame: the new base and its zeroed locals are written past every    *)
(* live frame, so the old frames stay and the new one is tiled onto them.  *)
LEMMA PushKeepsInv ==
  ASSUME IInv, NEW f \in Functions, PushFrame(f)
  PROVE  IInv'
<1> DEFINE n == NextFrame
           size == FrameSize(LocalsCount[f])
           len == Len(chain)
<1>1. /\ n \in Addr /\ n \in Nat /\ n = Used /\ n > current
      /\ LocalsCount[f] \in Nat
      /\ size \in Nat
      /\ size >= BaseSize + LocalsCount[f]
      /\ \A i \in 1 .. len : chain[i] + SizeOf(chain[i]) <= n
  BY PushPlace DEF PushFrame
<1>2. /\ len \in Nat \ {0}
      /\ current = chain[len]
      /\ \A i \in 1 .. len : /\ chain[i] \in Addr
                             /\ chain[i] \in Nat
                             /\ SizeOf(chain[i]) \in Nat
                             /\ SizeOf(chain[i]) >= 1
  BY LiveFrames, LayoutAssumption DEF IInv
<1>3. /\ Len(chain') = len + 1
      /\ \A i \in 1 .. len : chain'[i] = chain[i]
      /\ chain'[len + 1] = n
      /\ chain' \in Seq(Addr')
      /\ current' = n
      /\ allocated' = allocated
      /\ overrun' = overrun
      /\ released' = released
      /\ Addr' = Addr
  BY <1>1 DEF PushFrame, IInv, TypeOK, Addr
<1>4. NewBase(f) \in Header
  <2>1. f \in Nat
    BY LocalsAssumption
  <2>2. current \in Nat
    BY <1>2
  <2> QED
    BY <1>1, <2>1, <2>2 DEF NewBase, Header
<1>5. /\ mem' \in [Addr -> Cell]
      /\ mem'[n] = NewBase(f)
      /\ \A a \in Addr : a < n => mem'[a] = mem[a]
  <2>1. mem' = WriteFrame(n, NewBase(f))
    BY DEF PushFrame
  <2>2. \A a \in Addr : a < n => /\ a # n
                               /\ a \notin n + 1 .. LocalsBegin(n) - 1
                               /\ a \notin LocalsBegin(n) .. LocalsBegin(n) + NewBase(f).locals_count - 1
    <3>1. \A a \in Addr : a \in Nat
      BY SizeAssumption DEF IInv, TypeOK, Addr
    <3>2. NewBase(f).locals_count \in Nat
      BY <1>1 DEF NewBase
    <3> QED
      BY <1>1, <3>1, <3>2, LayoutAssumption DEF LocalsBegin
  <2>3. \A a \in Addr : mem'[a] \in Cell
    BY <1>4, <2>1, LocalsAssumption DEF WriteFrame, Cell, IInv, TypeOK
  <2> QED
    BY <1>1, <2>1, <2>2, <2>3 DEF WriteFrame
<1>6. \A i \in 1 .. len : /\ chain[i] < n
                         /\ mem'[chain[i]] = mem[chain[i]]
                         /\ SizeOf(chain[i])' = SizeOf(chain[i])
  BY <1>1, <1>2, <1>3, <1>5 DEF SizeOf
<1>7. SizeOf(current)' = size /\ Used' = n + size
  <2>1. mem'[current'].locals_count = LocalsCount[f]
    BY <1>3, <1>5 DEF NewBase
  <2>2. SizeOf(current)' = size
    BY <2>1 DEF SizeOf, FrameSize, RoundUp
  <2> QED
    BY <1>3, <2>2 DEF Used
<1>8. TypeOK'
  <2>1. remaining' \in 0 .. SizeMod - 1
    BY <1>1, SizeAssumption DEF IInv, TypeOK, PushFrame, HasRoom
  <2>2. allocated' \in Sizes /\ status' \in {0, -1}
    BY DEF IInv, TypeOK, PushFrame
  <2>3. overrun' \in BOOLEAN /\ released' \in Nat
    BY <1>3 DEF IInv, TypeOK
  <2>4. current' \in Addr' /\ mem' \in [Addr' -> Cell] /\ Cell' = Cell
    BY <1>1, <1>3, <1>5 DEF Cell, Header
  <2> QED
    BY <1>3, <2>1, <2>2, <2>3, <2>4 DEF TypeOK
<1>9. FrameChain'
  <2>1. ASSUME NEW i \in 1 .. len
        PROVE  Tiled(i)'
    <3>1. Tiled(i)
      BY DEF IInv, FrameChain
    <3>2. chain'[i] = chain[i] /\ mem'[chain'[i]] = mem[chain[i]]
      BY <1>3, <1>6
    <3>3. i # 1 => /\ chain'[i - 1] = chain[i - 1]
                   /\ SizeOf(chain[i - 1])' = SizeOf(chain[i - 1])
      BY <1>2, <1>3, <1>6
    <3> QED
      BY <1>3, <1>6, <3>1, <3>2, <3>3 DEF Tiled
  <2>2. ASSUME NEW i \in 1 .. len + 1, i = len + 1
        PROVE  Tiled(i)'
    <3>1. mem'[n] \in Header /\ mem'[n].ret = chain[len]
      BY <1>2, <1>4, <1>5 DEF NewBase
    <3>2. chain'[i] = n /\ i # 1 /\ i - 1 = len
      BY <1>2, <1>3, <2>2
    <3>3. chain'[i] + SizeOf(chain[i])' <= allocated'
      BY <1>3, <1>7, <3>2 DEF PushFrame, Fits, SizeOf
    <3>4. chain'[i - 1] = chain[len] /\ SizeOf(chain[i - 1])' = SizeOf(chain[len])
      BY <1>2, <1>3, <1>6, <3>2
    <3>5. chain'[i] = chain'[i - 1] + SizeOf(chain[i - 1])'
      BY <1>2, <3>2, <3>4 DEF NextFrame
    <3> QED
      BY <1>3, <3>1, <3>2, <3>3, <3>4, <3>5 DEF Tiled
  <2>3. ASSUME NEW i \in 1 .. len + 1
        PROVE  Tiled(i)'
    <3>1. i \in 1 .. len \/ i = len + 1
      BY <1>2
    <3> QED
      BY <2>1, <2>2, <3>1
  <2> QED
    BY <1>2, <1>3, <2>3 DEF FrameChain
<1>10. Ordered'
  <2>1. ASSUME NEW i \in 1 .. len + 1, NEW j \in 1 .. len + 1, i < j
        PROVE  chain'[i] + SizeOf(chain[i])' <= chain'[j]
    <3>1. i \in 1 .. len /\ chain'[i] + SizeOf(chain[i])' = chain[i] + SizeOf(chain[i])
      BY <1>2, <1>3, <1>6, <2>1
    <3>2. CASE j \in 1 .. len
      BY <1>3, <2>1, <3>1, <3>2 DEF IInv, Ordered
    <3>3. CASE j = len + 1
      BY <1>1, <1>3, <3>1, <3>3
    <3> QED
      BY <1>2, <3>2, <3>3
  <2> QED
    BY <1>3, <2>1 DEF Ordered
<1>11. CheckSoundUntilWrap'
  <2>1. allocated \in Nat /\ remaining \in Nat /\ released \in Nat
    BY SizeAssumption DEF IInv, TypeOK
  <2>2. remaining' = remaining - size /\ overrun' = FALSE
    BY DEF PushFrame
  <2>3. Used + 2 * released <= allocated => Used + 2 * released + remaining = allocated
    BY DEF IInv, CheckSoundUntilWrap
  <2>4. ASSUME Used' + 2 * released' <= allocated'
        PROVE  Used' + 2 * released' + remaining' = allocated'
    <3>1. n + size + 2 * released <= allocated
      BY <1>3, <1>7, <2>4
    <3>2. n + 2 * released + remaining = allocated
      BY <1>1, <2>1, <2>3, <3>1
    <3>3. Used' + 2 * released' + remaining' = n + size + 2 * released + (remaining - size)
      BY <1>3, <1>7, <2>2
    <3>4. n \in Nat /\ size \in Nat
      BY <1>1
    <3> QED
      BY <1>3, <2>1, <3>2, <3>3, <3>4
  <2> QED
    BY <2>2, <2>4 DEF CheckSoundUntilWrap
<1> QED
  BY <1>8, <1>9, <1>10, <1>11 DEF IInv

(* PopFrame: the caller is the frame that ended where the popped one       *)
(* begins; only the counter and the end of the list change.                *)
LEMMA PopKeepsInv ==
  ASSUME IInv, PopFrame
  PROVE  IInv'
<1> DEFINE len == Len(chain)
           size == SizeOf(current)
<1>1. /\ len \in Nat \ {0}
      /\ current = chain[len]
      /\ \A i \in 1 .. len : /\ chain[i] \in Addr
                             /\ chain[i] \in Nat
                             /\ SizeOf(chain[i]) \in Nat
      /\ Tiled(len)
  BY LiveFrames DEF IInv, FrameChain
<1>2. len # 1 /\ current' = chain[len - 1] /\ len - 1 \in 1 .. len
  <2>1. mem[chain[len]].ret # NULL /\ current' = mem[chain[len]].ret
    BY <1>1 DEF PopFrame, IsBaseFrame
  <2>2. len # 1
    BY <1>1, <2>1 DEF Tiled
  <2>3. mem[chain[len]].ret = chain[len - 1]
    BY <1>1, <2>2 DEF Tiled
  <2>4. len - 1 \in 1 .. len
    <3>1. \A m \in Nat \ {0} : m # 1 => m - 1 \in 1 .. m
      OBVIOUS
    <3> QED
      BY <1>1, <2>2, <3>1
  <2> QED
    BY <2>1, <2>2, <2>3, <2>4
<1>3. /\ Len(chain') = len - 1
      /\ \A i \in 1 .. len - 1 : chain'[i] = chain[i]
      /\ chain' \in Seq(Addr)
  BY <1>1, <1>2 DEF PopFrame, IInv, TypeOK
<1>4. /\ allocated' = allocated
      /\ mem' = mem
      /\ overrun' = FALSE
      /\ Addr' = Addr
      /\ Cell' = Cell
  BY DEF PopFrame, Addr, Cell, Header
<1>5. \A i \in 1 .. len - 1 : SizeOf(chain[i])' = SizeOf(chain[i])
  BY <1>3, <1>4 DEF SizeOf
<1>6. Used' = current
  <2>1. current = chain[len - 1] + SizeOf(chain[len - 1])
    BY <1>1, <1>2 DEF Tiled
  <2>2. SizeOf(current)' = SizeOf(chain[len - 1])
    BY <1>2, <1>4 DEF SizeOf
  <2> QED
    BY <1>2, <2>1, <2>2 DEF Used
<1>7. released' = released + size /\ released' \in Nat /\ size \in Nat
  BY <1>1 DEF PopFrame, IInv, TypeOK
<1>8. TypeOK'
  <2>1. remaining' \in 0 .. SizeMod - 1
    <3>1. remaining - size \in Int
      BY <1>7, SizeAssumption DEF IInv, TypeOK
    <3> QED
      BY <3>1, SizeAssumption DEF PopFrame, RemainingAfterPop
  <2>2. current' \in Addr'
    BY <1>1, <1>2, <1>4
  <2> QED
    BY <1>3, <1>4, <1>7, <2>1, <2>2 DEF IInv, TypeOK, PopFrame
<1>9. FrameChain'
  <2>1. ASSUME NEW i \in 1 .. len - 1
        PROVE  Tiled(i)'
    <3>1. Tiled(i) /\ chain'[i] = chain[i]
      BY <1>1, <1>3 DEF IInv, FrameChain
    <3>2. i # 1 => /\ chain'[i - 1] = chain[i - 1]
                   /\ SizeOf(chain[i - 1])' = SizeOf(chain[i - 1])
      BY <1>1, <1>3, <1>5
    <3> QED
      BY <1>4, <1>5, <3>1, <3>2 DEF Tiled
  <2> QED
    BY <1>1, <1>2, <1>3, <2>1 DEF FrameChain
<1>10. Ordered'
  <2>1. ASSUME NEW i \in 1 .. len - 1, NEW j \in 1 .. len - 1, i < j
        PROVE  chain'[i] + SizeOf(chain[i])' <= chain'[j]
    <3>1. i \in 1 .. len /\ j \in 1 .. len
      BY <1>1
    <3>2. chain[i] + SizeOf(chain[i]) <= chain[j]
      BY <2>1, <3>1 DEF IInv, Ordered
    <3>3. chain'[i] = chain[i] /\ chain'[j] = chain[j] /\ SizeOf(chain[i])' = SizeOf(chain[i])
      BY <1>3, <1>5
    <3> QED
      BY <3>2, <3>3
  <2> QED
    BY <1>3, <2>1 DEF Ordered
<1>11. CheckSoundUntilWrap'
  <2>1. /\ allocated \in Nat /\ remaining \in Nat /\ released \in Nat
        /\ current \in Nat /\ remaining < SizeMod
    BY <1>1, SizeAssumption DEF IInv, TypeOK
  <2>2. Used = current + size
    BY DEF Used
  <2>3. Used + 2 * released <= allocated => Used + 2 * released + remaining = allocated
    BY DEF IInv, CheckSoundUntilWrap
  <2>4. ASSUME Used' + 2 * released' <= allocated'
        PROVE  Used' + 2 * released' + remaining' = allocated'
    <3>1. remaining - size >= 0 /\ Used + 2 * released + remaining = allocated
      BY <1>4, <1>6, <1>7, <2>1, <2>2, <2>3, <2>4
    <3>2. remaining - size \in 0 .. SizeMod - 1
      BY <1>7, <2>1, <3>1, SizeAssumption
    <3>3. (remaining - size) % SizeMod = remaining - size
      BY <3>2, SizeAssumption
    <3>4. remaining' = remaining - size
      BY <3>3 DEF PopFrame, RemainingAfterPop
    <3> QED
      BY <1>4, <1>6, <1>7, <2>1, <2>2, <3>1, <3>4
  <2> QED
    BY <1>4, <2>4 DEF CheckSoundUntilWrap
<1> QED
  BY <1>8, <1>9, <1>10, <1>11 DEF IInv

(* Moving the code pointer rewrites one base, keeping its ret and locals.  *)
LEMMA SetCodeKeepsInv ==
  ASSUME IInv, NEW pc \in Nat, ~overrun, SetCode(pc)
  PROVE  IInv'
<1>1. /\ current \in Addr
      /\ mem \in [Addr -> Cell]
      /\ mem[current] \in Header
      /\ \A i \in 1 .. Len(chain) : chain[i] \in Addr /\ mem[chain[i]] \in Header
  BY LiveFrames DEF IInv, TypeOK
<1> DEFINE base == [mem[current] EXCEPT !.pc = pc]
<1>2. /\ base \in Header
      /\ base.ret = mem[current].ret
      /\ base.locals_count = mem[current].locals_count
  BY <1>1 DEF Header
<1>3. mem' = [mem EXCEPT ![current] = base]
  BY DEF SetCode
<1>4. \A i \in 1 .. Len(chain) :
        /\ mem'[chain[i]] \in Header
        /\ mem'[chain[i]].ret = mem[chain[i]].ret
        /\ mem'[chain[i]].locals_count = mem[chain[i]].locals_count
  BY <1>1, <1>2, <1>3
<1>5. UNCHANGED <<allocated, remaining, current, status, overrun, chain, released>>
  BY DEF SetCode
<1>6. FrameChain' /\ Ordered' /\ Used' = Used
  BY <1>4, <1>5, SameFrames
<1>7. TypeOK'
  <2>1. Addr' = Addr /\ Cell' = Cell
    BY <1>5 DEF Addr, Cell, Header
  <2>2. mem' \in [Addr -> Cell]
    BY <1>1, <1>2, <1>3 DEF Cell
  <2> QED
    BY <1>5, <2>1, <2>2 DEF IInv, TypeOK
<1> QED
  BY <1>5, <1>6, <1>7 DEF IInv, CheckSoundUntilWrap

(* A local of the current frame lies past every live base and below the    *)
(* end of the frame.                                                       *)
LEMMA LocalPlace ==
  ASSUME IInv, NEW i \in Nat, i < mem[current].locals_count
  PROVE  /\ LocalsBegin(current) + i \in Addr
         /\ LocalsBegin(current) + i > current
         /\ \A k \in 1 .. Len(chain) : chain[k] < LocalsBegin(current) + i
<1>1. /\ Len(chain) \in Nat \ {0}
      /\ current = chain[Len(chain)]
      /\ current \in Nat
      /\ mem[current].locals_count \in Nat
      /\ SizeOf(current) \in Nat
      /\ SizeOf(current) >= BaseSize + mem[current].locals_count
      /\ \A k \in 1 .. Len(chain) : chain[k] \in Nat /\ SizeOf(chain[k]) \in Nat
  BY LiveFrames DEF IInv
<1>2. current + SizeOf(current) <= allocated
  BY <1>1 DEF IInv, FrameChain, Tiled
<1>3. allocated \in Nat
  BY SizeAssumption DEF IInv, TypeOK
<1>4. LocalsBegin(current) + i \in Addr /\ LocalsBegin(current) + i > current
  BY <1>1, <1>2, <1>3, LayoutAssumption, SMTT(20) DEF LocalsBegin, Addr
<1>5. ASSUME NEW k \in 1 .. Len(chain)
      PROVE  chain[k] <= current
  <2>1. k = Len(chain) \/ k < Len(chain)
    BY <1>1
  <2>2. k < Len(chain) => chain[k] + SizeOf(chain[k]) <= current
    BY <1>1 DEF IInv, Ordered
  <2> QED
    BY <1>1, <2>1, <2>2
<1> QED
  BY <1>1, <1>4, <1>5, LayoutAssumption DEF LocalsBegin

(* A store to a local changes no base at all.                              *)
LEMMA SetLocalKeepsInv ==
  ASSUME IInv, NEW i \in Nat, NEW v \in Values, SetLocal(i, v)
  PROVE  IInv'
<1> DEFINE at == LocalsBegin(current) + i
<1>1. at \in Addr /\ \A k \in 1 .. Len(chain) : chain[k] # at
  <2>1. at \in Addr /\ \A k \in 1 .. Len(chain) : chain[k] < at
    BY LocalPlace DEF SetLocal
  <2>2. at \in Int /\ \A k \in 1 .. Len(chain) : chain[k] \in Int
    BY <2>1, LiveFrames, SizeAssumption DEF IInv, Addr, TypeOK
  <2> QED
    BY <2>1, <2>2
<1>2. \A k \in 1 .. Len(chain) : chain[k] \in Addr /\ mem[chain[k]] \in Header
  BY LiveFrames DEF IInv
<1>3. mem \in [Addr -> Cell] /\ mem' = [mem EXCEPT ![at] = v]
  BY DEF IInv, TypeOK, SetLocal
<1>4. \A k \in 1 .. Len(chain) : mem'[chain[k]] = mem[chain[k]]
  BY <1>1, <1>2, <1>3
<1>5. UNCHANGED <<allocated, remaining, current, status, overrun, chain, released>>
  BY DEF SetLocal
<1>6. FrameChain' /\ Ordered' /\ Used' = Used
  BY <1>2, <1>4, <1>5, SameFrames
<1>7. TypeOK'
  <2>1. Addr' = Addr /\ Cell' = Cell
    BY <1>5 DEF Addr, Cell, Header
  <2>2. mem' \in [Addr -> Cell]
    BY <1>1, <1>3 DEF Cell
  <2> QED
    BY <1>5, <2>1, <2>2 DEF IInv, TypeOK
<1> QED
  BY <1>5, <1>6, <1>7 DEF IInv, CheckSoundUntilWrap

(* The steps that change neither memory nor the list of frames; an overrun *)
(* means the counter had already lost more than the block holds.           *)
LEMMA OverrunKeepsInv ==
  ASSUME IInv, NEW f \in Functions, PushFrameOverrun(f)
  PROVE  IInv'
<1> DEFINE size == FrameSize(LocalsCount[f])
<1>1. UNCHANGED <<allocated, remaining, current, mem, status, chain, released>>
  BY DEF PushFrameOverrun
<1>2. FrameChain' /\ Ordered' /\ Used' = Used
  BY <1>1, SameFrames DEF IInv, FrameChain, Tiled
<1>3. TypeOK'
  BY <1>1 DEF PushFrameOverrun, IInv, TypeOK, Addr, Cell, Header
<1>4. Used + 2 * released > allocated
  <2>1. size \in Nat
    BY FrameSizeBounds, LocalsAssumption
  <2>2. remaining >= size /\ ~(Used + size <= allocated)
    BY DEF PushFrameOverrun, HasRoom, Fits, NextFrame, Used
  <2>3. Used \in Nat
    BY LiveFrames DEF IInv, Used
  <2>4. allocated \in Nat /\ remaining \in Nat /\ released \in Nat
    BY SizeAssumption DEF IInv, TypeOK
  <2>5. Used + 2 * released <= allocated => Used + 2 * released + remaining = allocated
    BY DEF IInv, CheckSoundUntilWrap
  <2> QED
    BY <2>1, <2>2, <2>3, <2>4, <2>5
<1> QED
  BY <1>1, <1>2, <1>3, <1>4 DEF IInv, CheckSoundUntilWrap

(* A refused push and a pop of the base frame only set what is returned.   *)
LEMMA RefusalKeepsInv ==
  ASSUME IInv, status' \in {0, -1},
         UNCHANGED <<allocated, remaining, current, mem, overrun, chain, released>>
  PROVE  IInv'
<1>1. FrameChain' /\ Ordered' /\ Used' = Used
  BY SameFrames DEF IInv, FrameChain, Tiled
<1>2. TypeOK'
  BY DEF IInv, TypeOK, Addr, Cell, Header
<1> QED
  BY <1>1, <1>2 DEF IInv, CheckSoundUntilWrap

------------------------------------------------------------------------------
(* WasmCallStack_New leaves one base frame that tiles the block alone.     *)
LEMMA InitIInv == Init => IInv
<1> SUFFICES ASSUME Init PROVE IInv
  OBVIOUS
<1>1. allocated \in Nat /\ allocated >= BaseSize /\ allocated < SizeMod
  BY SizeAssumption DEF Init
<1>2. FrameSize(0) = BaseSize
  BY FrameSizeBounds
<1>3. 0 \in Addr /\ base_frame \in Header /\ mem[0] = base_frame
  BY <1>1, LayoutAssumption DEF Init, Addr, Header, base_frame
<1>4. chain = << 0 >> /\ Len(chain) = 1 /\ chain[1] = 0 /\ current = 0
  BY DEF Init
<1>5. SizeOf(0) = BaseSize
  BY <1>2, <1>3 DEF SizeOf, base_frame
<1>6. TypeOK
  <2>1. remaining \in 0 .. SizeMod - 1
    <3>1. remaining = allocated - BaseSize
      BY <1>2 DEF Init
    <3> QED
      BY <1>1, <3>1, LayoutAssumption, SizeAssumption
  <2>2. mem \in [Addr -> Cell]
    BY <1>3 DEF Init, Cell
  <2>3. chain \in Seq(Addr)
    BY <1>3, <1>4
  <2>4. allocated \in Sizes /\ status = 0 /\ overrun = FALSE /\ released = 0
    BY DEF Init
  <2> QED
    BY <1>3, <1>4, <2>1, <2>2, <2>3, <2>4 DEF TypeOK
<1>7. FrameChain
  BY <1>1, <1>3, <1>4, <1>5, LayoutAssumption DEF FrameChain, Tiled, base_frame
<1>8. Ordered
  BY <1>4 DEF Ordered
<1>9. CheckSoundUntilWrap
  BY <1>1, <1>2, <1>4, <1>5, LayoutAssumption DEF Init, CheckSoundUntilWrap, Used
<1> QED
  BY <1>6, <1>7, <1>8, <1>9 DEF IInv

(* The invariant is inductive: one lemma above for each action.            *)
LEMMA NextIInv == IInv /\ [Next]_vars => IInv'
<1> SUFFICES ASSUME IInv, [Next]_vars PROVE IInv'
  OBVIOUS
<1>1. ASSUME NEW f \in Functions, PushFrame(f) PROVE IInv'
  BY <1>1, PushKeepsInv
<1>2. ASSUME NEW f \in Functions, PushFrameOverrun(f) PROVE IInv'
  BY <1>2, OverrunKeepsInv
<1>3. ASSUME NEW f \in Functions, PushFrameRefused(f) PROVE IInv'
  BY <1>3, RefusalKeepsInv DEF PushFrameRefused
<1>4. CASE PopFrame
  BY <1>4, PopKeepsInv
<1>5. CASE PopBaseFrame
  BY <1>5, RefusalKeepsInv DEF PopBaseFrame
<1>6. ASSUME NEW count \in 1 .. CodeMax, CodeAdvance(count) PROVE IInv'
  <2>1. mem[current].pc + count \in Nat
    <3>1. mem[current].pc \in Nat \cup {-1}
      BY LiveFrames DEF IInv, Header, NULL
    <3>2. count \in Nat /\ count >= 1
      BY BoundAssumption
    <3> QED
      BY <3>1, <3>2
  <2> QED
    BY <1>6, <2>1, SetCodeKeepsInv DEF CodeAdvance
<1>7. ASSUME NEW label \in 0 .. CodeMax, CodeJump(label) PROVE IInv'
  <2>1. label \in Nat
    BY BoundAssumption
  <2> QED
    BY <1>7, <2>1, SetCodeKeepsInv DEF CodeJump
<1>8. ASSUME NEW i \in 0 .. mem[current].locals_count - 1, NEW v \in Values, SetLocal(i, v)
      PROVE  IInv'
  <2>1. i \in Nat
    BY LiveFrames DEF IInv
  <2> QED
    BY <1>8, <2>1, SetLocalKeepsInv
<1>9. CASE UNCHANGED vars
  BY <1>9, RefusalKeepsInv DEF vars, IInv, TypeOK
<1> QED
  BY <1>1, <1>2, <1>3, <1>4, <1>5, <1>6, <1>7, <1>8, <1>9 DEF Next

(* Every reachable state of the call stack is well typed, keeps its frames *)
(* tiled in one ret list inside the block, and its room check is exact     *)
(* until pops have taken more off remaining than the block holds.          *)
THEOREM Invariance == Spec => [](TypeOK /\ FrameChain /\ CheckSoundUntilWrap)
<1>1. IInv => TypeOK /\ FrameChain /\ CheckSoundUntilWrap
  BY DEF IInv
<1> QED
  BY <1>1, InitIInv, NextIInv, PTL DEF Spec

(* No step, of any function on any layout, writes below the frame it runs  *)
(* in or enters: callers are frozen while a callee runs.                   *)
THEOREM CallersAreFrozen == Spec => CallerFrozen
<1> DEFINE Frozen == \A a \in Addr : a < current \/ a < current' => mem'[a] = mem[a]
<1>1. IInv /\ [Next]_vars => [Frozen]_vars
  <2> SUFFICES ASSUME IInv, Next, NEW a \in Addr, a < current \/ a < current'
               PROVE  mem'[a] = mem[a]
    OBVIOUS
  <2>0. /\ mem \in [Addr -> Cell] /\ a \in Nat /\ current \in Nat
    BY LiveFrames, SizeAssumption DEF IInv, TypeOK, Addr
  <2>1. ASSUME NEW f \in Functions, PushFrame(f) PROVE mem'[a] = mem[a]
    <3>1. NextFrame \in Nat /\ NextFrame > current /\ current' = NextFrame
      BY <2>1, PushPlace DEF PushFrame
    <3>2. a < NextFrame
      BY <2>0, <3>1
    <3>3. NewBase(f).locals_count \in Nat
      BY LocalsAssumption DEF NewBase
    <3>4. /\ a # NextFrame
          /\ a \notin NextFrame + 1 .. LocalsBegin(NextFrame) - 1
          /\ a \notin LocalsBegin(NextFrame) .. LocalsBegin(NextFrame) + NewBase(f).locals_count - 1
      BY <2>0, <3>1, <3>2, <3>3, LayoutAssumption DEF LocalsBegin
    <3> QED
      BY <2>1, <3>4 DEF PushFrame, WriteFrame
  <2>2. ASSUME NEW pc \in Int, SetCode(pc) PROVE mem'[a] = mem[a]
    BY <2>0, <2>2 DEF SetCode
  <2>3. ASSUME NEW i \in 0 .. mem[current].locals_count - 1, NEW v \in Values, SetLocal(i, v)
        PROVE  mem'[a] = mem[a]
    <3>1. i \in Nat /\ LocalsBegin(current) + i > current
      BY <2>3, LiveFrames, LocalPlace DEF IInv, SetLocal
    <3>2. current' = current /\ LocalsBegin(current) + i \in Int
      BY <2>0, <2>3, <3>1, LayoutAssumption DEF SetLocal, LocalsBegin
    <3> QED
      BY <2>0, <2>3, <3>1, <3>2 DEF SetLocal
  <2>4. CASE UNCHANGED mem
    BY <2>4
  <2>5. ASSUME NEW count \in 1 .. CodeMax, CodeAdvance(count) PROVE mem'[a] = mem[a]
    <3>1. mem[current].pc + count \in Int
      BY LiveFrames, BoundAssumption, SMTT(20) DEF IInv, Header, NULL
    <3> QED
      BY <2>2, <2>5, <3>1 DEF CodeAdvance
  <2>6. ASSUME NEW label \in 0 .. CodeMax, CodeJump(label) PROVE mem'[a] = mem[a]
    BY <2>2, <2>6, BoundAssumption DEF CodeJump
  <2> QED
    BY <2>1, <2>3, <2>4, <2>5, <2>6
    DEF Next, PushFrameOverrun, PushFrameRefused, PopFrame, PopBaseFrame
<1> QED
  BY <1>1, InitIInv, NextIInv, PTL DEF Spec, CallerFrozen

------------------------------------------------------------------------------
(* The refinement.                                                         *)

(* Append and the front of a sequence, written out as functions: the form  *)
(* in which the frames in memory are read.                                 *)
LEMMA AppendAsFunction ==
  ASSUME NEW S, NEW s \in Seq(S), NEW e
  PROVE  Append(s, e) = [i \in 1 .. Len(s) + 1 |-> IF i \in 1 .. Len(s) THEN s[i] ELSE e]
<1> DEFINE T == S \cup {e}
<1>1. s \in Seq(T) /\ e \in T
  BY SeqMonotonic
<1> HIDE DEF T
<1>2. /\ Append(s, e) \in Seq(T)
      /\ Len(Append(s, e)) = Len(s) + 1
      /\ \A i \in 1 .. Len(s) : Append(s, e)[i] = s[i]
      /\ Append(s, e)[Len(s) + 1] = e
  BY <1>1, AppendProperties
<1>3. Len(s) \in Nat /\ Append(s, e) \in [1 .. Len(s) + 1 -> T]
  BY <1>2, LenProperties
<1>4. \A i \in 1 .. Len(s) + 1 : i \in 1 .. Len(s) \/ i = Len(s) + 1
  BY <1>3
<1>5. Len(s) + 1 \notin 1 .. Len(s)
  BY <1>3
<1> QED
  BY <1>2, <1>3, <1>4, <1>5

(* See AppendAsFunction.                                                   *)
LEMMA FrontAsFunction ==
  ASSUME NEW S, NEW s \in Seq(S), Len(s) \in Nat \ {0}
  PROVE  SubSeq(s, 1, Len(s) - 1) = [i \in 1 .. Len(s) - 1 |-> s[i]]
<1>1. \A i \in 1 .. Len(s) - 1 : s[i] \in S
  BY ElementOfSeq
<1> DEFINE front == SubSeq(s, 1, Len(s) - 1)
<1>2. /\ front \in Seq(S)
      /\ Len(front) = Len(s) - 1
      /\ \A i \in 1 .. Len(s) - 1 : front[i] = s[i]
  <2> DEFINE n == Len(s) - 1
  <2>1. n \in Nat /\ n - 1 + 1 = n /\ 1 \in Int
    OBVIOUS
  <2> HIDE DEF n
  <2>2. /\ SubSeq(s, 1, n) \in Seq(S)
        /\ Len(SubSeq(s, 1, n)) = IF 1 <= n THEN n - 1 + 1 ELSE 0
        /\ \A i \in 1 .. n - 1 + 1 : SubSeq(s, 1, n)[i] = s[1 + i - 1]
    <3>1. n \in Int /\ \A i \in 1 .. n : s[i] \in S
      BY <1>1, <2>1 DEF n
    <3> QED
      BY <2>1, <3>1, SubSeqProperties
  <2>3. Len(SubSeq(s, 1, n)) = n
    BY <2>1, <2>2
  <2>4. \A i \in 1 .. n : SubSeq(s, 1, n)[i] = s[i]
    <3>1. \A i \in 1 .. n : 1 + i - 1 = i
      OBVIOUS
    <3> QED
      BY <2>1, <2>2, <3>1
  <2> QED
    BY <2>2, <2>3, <2>4 DEF n
<1>3. front \in [1 .. Len(s) - 1 -> S]
  BY <1>2, LenProperties
<1> QED
  BY <1>2, <1>3

Activations == [i \in 1 .. Len(chain) |-> ActivationAt(chain[i])]

(* The activations read from memory are a sequence as long as the chain.   *)
LEMMA ActivationsSequence ==
  ASSUME TypeOK, FrameChain
  PROVE  /\ Activations \in Seq({ActivationAt(chain[i]) : i \in 1 .. Len(chain)})
         /\ Len(Activations) = Len(chain)
         /\ Len(chain) \in Nat \ {0}
         /\ DOMAIN Activations = 1 .. Len(chain)
<1>1. Len(chain) \in Nat \ {0}
  BY LiveFrames
<1> QED
  BY <1>1 DEF Activations

(* The cells of live frames are what the abstract frames are read from.    *)
LEMMA LiveCells ==
  ASSUME IInv, NEW i \in 1 .. Len(chain),
         NEW j \in 1 .. mem[chain[i]].locals_count
  PROVE  /\ LocalsBegin(chain[i]) + j - 1 \in Addr
         /\ LocalsBegin(chain[i]) + j - 1 > chain[i]
         /\ LocalsBegin(chain[i]) + j - 1 < chain[i] + SizeOf(chain[i])
<1>1. /\ chain[i] \in Nat
      /\ mem[chain[i]].locals_count \in Nat
      /\ SizeOf(chain[i]) \in Nat
      /\ SizeOf(chain[i]) >= BaseSize + mem[chain[i]].locals_count
  BY LiveFrames DEF IInv
<1>2. chain[i] + SizeOf(chain[i]) <= allocated
  BY DEF IInv, FrameChain, Tiled
<1>3. allocated \in Nat
  BY SizeAssumption DEF IInv, TypeOK
<1>4. j \in Int /\ 1 <= j /\ j <= mem[chain[i]].locals_count
  BY <1>1
<1> DEFINE at == LocalsBegin(chain[i]) + j - 1
<1>5. at = chain[i] + BaseSize + j - 1 /\ BaseSize \in Nat /\ BaseSize >= 1
  BY LayoutAssumption DEF LocalsBegin
<1> HIDE DEF at
<1>6. at \in Nat /\ at > chain[i] /\ at < chain[i] + SizeOf(chain[i])
  BY <1>1, <1>4, <1>5, SMTT(20)
<1>7. at \in Addr
  BY <1>1, <1>2, <1>3, <1>6 DEF Addr
<1> QED
  BY <1>6, <1>7 DEF at

(* An activation whose cells a step leaves alone is the same activation.   *)
LEMMA SameActivation ==
  ASSUME IInv, NEW i \in 1 .. Len(chain), NEW bound \in Int,
         chain[i] + SizeOf(chain[i]) <= bound,
         \A a \in Addr : a < bound => mem'[a] = mem[a],
         chain'[i] = chain[i]
  PROVE  ActivationAt(chain[i])' = ActivationAt(chain[i])
<1>1. /\ chain[i] \in Addr
      /\ chain[i] \in Nat
      /\ SizeOf(chain[i]) \in Nat
      /\ SizeOf(chain[i]) >= BaseSize + mem[chain[i]].locals_count
      /\ mem[chain[i]].locals_count \in Nat
  BY LiveFrames DEF IInv
<1>2. mem'[chain[i]] = mem[chain[i]]
  BY <1>1, LayoutAssumption
<1>3. \A j \in 1 .. mem[chain[i]].locals_count :
        mem'[LocalsBegin(chain[i]) + j - 1] = mem[LocalsBegin(chain[i]) + j - 1]
  <2> TAKE j \in 1 .. mem[chain[i]].locals_count
  <2>1. /\ LocalsBegin(chain[i]) + j - 1 \in Addr
        /\ LocalsBegin(chain[i]) + j - 1 < chain[i] + SizeOf(chain[i])
    BY LiveCells
  <2>2. LocalsBegin(chain[i]) + j - 1 \in Int
    BY <1>1, LayoutAssumption DEF LocalsBegin
  <2> QED
    BY <1>1, <2>1, <2>2
<1>4. LocalsBegin(chain[i])' = LocalsBegin(chain[i])
  BY DEF LocalsBegin
<1> QED
  BY <1>2, <1>3, <1>4 DEF ActivationAt

(* PushFrame implements Call: one more activation, at its first opcode,    *)
(* with zero locals whatever the memory held, and the others unchanged.    *)
LEMMA PushIsCall ==
  ASSUME IInv, NEW f \in Functions, PushFrame(f)
  PROVE  Abstract!Call(f)
<1> DEFINE len == Len(chain)
           n == NextFrame
<1>1. /\ len \in Nat \ {0} /\ Len(Activations) = len
      /\ Activations \in Seq({ActivationAt(chain[i]) : i \in 1 .. len})
  BY ActivationsSequence DEF IInv
<1>2. /\ n \in Addr /\ n \in Nat /\ n > current
      /\ LocalsCount[f] \in Nat
      /\ \A i \in 1 .. len : chain[i] + SizeOf(chain[i]) <= n
      /\ FrameSize(LocalsCount[f]) \in Nat
      /\ FrameSize(LocalsCount[f]) >= BaseSize + LocalsCount[f]
      /\ allocated \in Nat
      /\ n + FrameSize(LocalsCount[f]) <= allocated
  BY PushPlace, SizeAssumption DEF PushFrame, IInv, TypeOK, Fits
<1>3. /\ chain' = Append(chain, n) /\ current' = n
      /\ mem' = WriteFrame(n, NewBase(f))
      /\ status' = 0
  BY DEF PushFrame
<1>4. /\ Len(chain') = len + 1
      /\ \A i \in 1 .. len : chain'[i] = chain[i]
      /\ chain'[len + 1] = n
  BY <1>1, <1>2, <1>3 DEF IInv, TypeOK
<1>5. \A a \in Addr : a < n => mem'[a] = mem[a]
  <2> TAKE a \in Addr
  <2> HAVE a < n
  <2>1. a \in Nat /\ NewBase(f).locals_count \in Nat
    BY <1>2 DEF Addr, NewBase
  <2>2. /\ a # n
        /\ a \notin n + 1 .. LocalsBegin(n) - 1
        /\ a \notin LocalsBegin(n) .. LocalsBegin(n) + NewBase(f).locals_count - 1
    BY <1>2, <2>1, LayoutAssumption DEF LocalsBegin
  <2> QED
    BY <1>3, <2>2 DEF WriteFrame
<1>6. \A i \in 1 .. len : ActivationAt(chain[i])' = ActivationAt(chain[i])
  BY <1>2, <1>4, <1>5, SameActivation
<1>7. /\ mem'[n] = NewBase(f)
      /\ \A j \in 1 .. LocalsCount[f] : mem'[LocalsBegin(n) + j - 1] = Zero
  <2>1. mem'[n] = NewBase(f)
    BY <1>2, <1>3 DEF WriteFrame
  <2>2. ASSUME NEW j \in 1 .. LocalsCount[f]
        PROVE  mem'[LocalsBegin(n) + j - 1] = Zero
    <3> DEFINE a == LocalsBegin(n) + j - 1
    <3>1. NewBase(f).locals_count = LocalsCount[f]
      BY DEF NewBase
    <3>2. /\ a \in Addr
          /\ a # n
          /\ a \notin n + 1 .. LocalsBegin(n) - 1
          /\ a \in LocalsBegin(n) .. LocalsBegin(n) + LocalsCount[f] - 1
      BY <1>2, LayoutAssumption DEF LocalsBegin, Addr
    <3> QED
      BY <1>3, <3>1, <3>2 DEF WriteFrame
  <2> QED
    BY <2>1, <2>2
<1>8. ASSUME NEW i \in 1 .. len + 1, i = len + 1
      PROVE  ActivationAt(chain[i])' = Abstract!Activation(f)
  <2>1. chain'[i] = n
    BY <1>4, <1>8
  <2>2. /\ mem'[n].function = f
        /\ mem'[n].pc = 0
        /\ mem'[n].locals_count = LocalsCount[f]
    BY <1>7 DEF NewBase
  <2>3. ActivationAt(chain[i])' =
          [function |-> mem'[n].function, pc |-> mem'[n].pc,
           locals |-> [j \in 1 .. mem'[n].locals_count |-> mem'[LocalsBegin(n) + j - 1]]]
    BY <2>1 DEF ActivationAt, LocalsBegin
  <2>4. [j \in 1 .. LocalsCount[f] |-> mem'[LocalsBegin(n) + j - 1]]
          = [j \in 1 .. LocalsCount[f] |-> Zero]
    BY <1>7
  <2> QED
    BY <2>2, <2>3, <2>4 DEF Abstract!Activation
<1>9. Activations' = [i \in 1 .. len + 1 |->
                        IF i \in 1 .. len THEN Activations[i] ELSE Abstract!Activation(f)]
  <2>1. ASSUME NEW i \in 1 .. len + 1
        PROVE  ActivationAt(chain[i])'
                 = IF i \in 1 .. len THEN Activations[i] ELSE Abstract!Activation(f)
    <3>1. i \in 1 .. len \/ i = len + 1
      BY <1>1
    <3>2. len + 1 \notin 1 .. len
      BY <1>1
    <3> QED
      BY <1>6, <1>8, <3>1, <3>2 DEF Activations
  <2> QED
    BY <1>4, <2>1 DEF Activations
<1>10. Activations' = Append(Activations, Abstract!Activation(f))
  BY <1>1, <1>9, AppendAsFunction
<1> QED
  BY <1>3, <1>10 DEF Abstract!Call, Activations

(* PopFrame implements Return: the callers' activations are what is left.  *)
LEMMA PopIsReturn ==
  ASSUME IInv, PopFrame
  PROVE  Abstract!Return
<1> DEFINE len == Len(chain)
<1>1. /\ len \in Nat \ {0} /\ Len(Activations) = len
      /\ Activations \in Seq({ActivationAt(chain[i]) : i \in 1 .. len})
  BY ActivationsSequence DEF IInv
<1>2. len # 1
  <2>1. Tiled(len) /\ current = chain[len]
    BY <1>1 DEF IInv, FrameChain
  <2> QED
    BY <2>1 DEF PopFrame, IsBaseFrame, Tiled
<1>3. /\ Len(chain') = len - 1
      /\ \A i \in 1 .. len - 1 : chain'[i] = chain[i]
      /\ mem' = mem
      /\ status' = 0
  BY <1>1, <1>2 DEF PopFrame, IInv, TypeOK
<1>4. \A i \in 1 .. len - 1 : ActivationAt(chain[i])' = ActivationAt(chain[i])
  BY <1>3 DEF ActivationAt, LocalsBegin
<1>5. Activations' = [i \in 1 .. len - 1 |-> Activations[i]]
  <2>1. \A i \in 1 .. len - 1 : i \in 1 .. len
    BY <1>1
  <2> QED
    BY <1>3, <1>4, <2>1 DEF Activations
<1>6. Activations' = SubSeq(Activations, 1, Len(Activations) - 1)
  BY <1>1, <1>5, FrontAsFunction
<1>7. Len(Activations) > 1
  BY <1>1, <1>2
<1> QED
  BY <1>3, <1>6, <1>7 DEF Abstract!Return, Activations

(* A store inside the current frame leaves every caller's activation.      *)
LEMMA CallersKept ==
  ASSUME IInv, UNCHANGED chain,
         \A a \in Addr : a < current => mem'[a] = mem[a]
  PROVE  \A i \in 1 .. Len(chain) : i # Len(chain) =>
           ActivationAt(chain[i])' = ActivationAt(chain[i])
<1> TAKE i \in 1 .. Len(chain)
<1> HAVE i # Len(chain)
<1>1. Len(chain) \in Nat \ {0} /\ current = chain[Len(chain)] /\ current \in Int
  BY LiveFrames DEF IInv
<1>2. i < Len(chain) /\ Len(chain) \in 1 .. Len(chain)
  BY <1>1
<1>3. chain[i] + SizeOf(chain[i]) <= current
  BY <1>1, <1>2 DEF IInv, Ordered
<1> QED
  BY <1>1, <1>3, SameActivation

(* CodeAdvance and CodeJump implement Move: only the top activation's pc   *)
(* changes.                                                                *)
LEMMA SetCodeIsMove ==
  ASSUME IInv, NEW pc \in 0 .. CodeMax, ~IsBaseFrame(current), SetCode(pc)
  PROVE  Abstract!Move
<1> DEFINE len == Len(chain)
<1>1. /\ len \in Nat \ {0} /\ Len(Activations) = len
      /\ DOMAIN Activations = 1 .. len
      /\ current = chain[len]
      /\ current \in Addr
      /\ current \in Nat
      /\ mem \in [Addr -> Cell]
      /\ mem[current] \in Header
  BY ActivationsSequence, LiveFrames DEF IInv, TypeOK
<1>2. /\ mem' = [mem EXCEPT ![current].pc = pc]
      /\ chain' = chain
      /\ status' = status
  BY DEF SetCode
<1>3. \A a \in Addr : a # current => mem'[a] = mem[a]
  BY <1>1, <1>2
<1>4. \A a \in Addr : a < current => mem'[a] = mem[a]
  BY <1>1, <1>3
<1>5. \A i \in 1 .. len : i # len => ActivationAt(chain[i])' = ActivationAt(chain[i])
  BY <1>2, <1>4, CallersKept
<1>6. /\ mem'[current].function = mem[current].function
      /\ mem'[current].pc = pc
      /\ mem'[current].locals_count = mem[current].locals_count
  BY <1>1, <1>2 DEF Header
<1>7. \A j \in 1 .. mem[current].locals_count :
        mem'[LocalsBegin(current) + j - 1] = mem[LocalsBegin(current) + j - 1]
  <2> TAKE j \in 1 .. mem[current].locals_count
  <2>1. LocalsBegin(current) + j - 1 \in Addr /\ LocalsBegin(current) + j - 1 > current
    BY <1>1, LiveCells
  <2>2. LocalsBegin(current) + j - 1 # current
    BY <1>1, <2>1
  <2> QED
    BY <1>3, <2>1, <2>2
<1>8. ASSUME NEW i \in 1 .. len, i = len
      PROVE  ActivationAt(chain[i])' = [ActivationAt(chain[i]) EXCEPT !.pc = pc]
  <2>1. chain'[i] = current /\ chain[i] = current
    BY <1>1, <1>2, <1>8
  <2> DEFINE locals == [j \in 1 .. mem[current].locals_count |->
                          mem[LocalsBegin(current) + j - 1]]
  <2>2. ActivationAt(chain[i])' =
          [function |-> mem'[current].function, pc |-> mem'[current].pc,
           locals |-> [j \in 1 .. mem'[current].locals_count |->
                         mem'[LocalsBegin(current) + j - 1]]]
    BY <2>1 DEF ActivationAt, LocalsBegin
  <2>3. ActivationAt(chain[i])' =
          [function |-> mem[current].function, pc |-> pc, locals |-> locals]
    BY <1>6, <1>7, <2>2
  <2>4. ActivationAt(chain[i]) =
          [function |-> mem[current].function, pc |-> mem[current].pc, locals |-> locals]
    BY <2>1 DEF ActivationAt
  <2> HIDE DEF locals
  <2> QED
    BY <2>3, <2>4
<1>9. Activations' = [Activations EXCEPT ![len].pc = pc]
  BY <1>1, <1>2, <1>5, <1>8 DEF Activations
<1>10. len > 1
  <2>1. Tiled(len)
    BY <1>1 DEF IInv, FrameChain
  <2>2. len # 1
    BY <1>1, <2>1 DEF IsBaseFrame, Tiled
  <2> QED
    BY <1>1, <2>2
<1> QED
  BY <1>1, <1>2, <1>9, <1>10 DEF Abstract!Move, Activations

(* A store through WasmCallStack_Locals implements SetLocal.               *)
LEMMA SetLocalIsSetLocal ==
  ASSUME IInv, NEW k \in Nat, NEW v \in Values, SetLocal(k, v)
  PROVE  Abstract!SetLocal
<1> DEFINE len == Len(chain)
           at == LocalsBegin(current) + k
<1>1. /\ len \in Nat \ {0} /\ Len(Activations) = len
      /\ DOMAIN Activations = 1 .. len
      /\ current = chain[len]
      /\ current \in Addr
      /\ current \in Nat
      /\ mem \in [Addr -> Cell]
      /\ mem[current].locals_count \in Nat
  BY ActivationsSequence, LiveFrames DEF IInv, TypeOK
<1>2. /\ mem' = [mem EXCEPT ![at] = v]
      /\ chain' = chain
      /\ status' = status
      /\ k < mem[current].locals_count
  BY DEF SetLocal
<1>3. at \in Addr /\ at > current /\ at \in Int
  BY <1>1, <1>2, LocalPlace, LayoutAssumption DEF LocalsBegin
<1>4. \A a \in Addr : a # at => mem'[a] = mem[a]
  BY <1>1, <1>2
<1>5. \A a \in Addr : a < current => mem'[a] = mem[a]
  BY <1>1, <1>3, <1>4
<1>6. \A i \in 1 .. len : i # len => ActivationAt(chain[i])' = ActivationAt(chain[i])
  BY <1>2, <1>5, CallersKept
<1>7. mem'[current] = mem[current]
  <2>1. current # at
    BY <1>1, <1>3
  <2> QED
    BY <1>1, <1>4, <2>1
<1> DEFINE count == mem[current].locals_count
           locals == [j \in 1 .. count |-> mem[LocalsBegin(current) + j - 1]]
<1>8. [j \in 1 .. count |-> mem'[LocalsBegin(current) + j - 1]] = [locals EXCEPT ![k + 1] = v]
  <2>1. k + 1 \in 1 .. count
    BY <1>1, <1>2
  <2>2. ASSUME NEW j \in 1 .. count
        PROVE  mem'[LocalsBegin(current) + j - 1] = IF j = k + 1 THEN v ELSE locals[j]
    <3>1. LocalsBegin(current) + j - 1 \in Addr
      BY <1>1, LiveCells
    <3>2. LocalsBegin(current) \in Int /\ j \in Int
      BY <1>1, LayoutAssumption DEF LocalsBegin
    <3>3. CASE j = k + 1
      <4>1. LocalsBegin(current) + j - 1 = at
        BY <3>2, <3>3
      <4> QED
        BY <1>1, <1>2, <1>3, <3>3, <4>1
    <3>4. CASE j # k + 1
      <4>1. LocalsBegin(current) + j - 1 # at
        BY <3>2, <3>4
      <4> QED
        BY <1>4, <3>1, <3>4, <4>1
    <3> QED
      BY <3>3, <3>4
  <2> QED
    BY <2>1, <2>2
<1>9. ASSUME NEW i \in 1 .. len, i = len
      PROVE  /\ ActivationAt(chain[i])' = [ActivationAt(chain[i]) EXCEPT !.locals[k + 1] = v]
             /\ ActivationAt(chain[i]).locals = locals
  <2>1. chain'[i] = current /\ chain[i] = current
    BY <1>1, <1>2, <1>9
  <2>2. ActivationAt(chain[i])' =
          [function |-> mem'[current].function, pc |-> mem'[current].pc,
           locals |-> [j \in 1 .. mem'[current].locals_count |->
                         mem'[LocalsBegin(current) + j - 1]]]
    BY <2>1 DEF ActivationAt, LocalsBegin
  <2>3. ActivationAt(chain[i])' =
          [function |-> mem[current].function, pc |-> mem[current].pc,
           locals |-> [locals EXCEPT ![k + 1] = v]]
    BY <1>7, <1>8, <2>2
  <2>4. ActivationAt(chain[i]) =
          [function |-> mem[current].function, pc |-> mem[current].pc, locals |-> locals]
    BY <2>1 DEF ActivationAt
  <2> HIDE DEF locals
  <2> QED
    BY <2>3, <2>4
<1>10. Activations' = [Activations EXCEPT ![len].locals[k + 1] = v]
  BY <1>1, <1>2, <1>6, <1>9 DEF Activations
<1>11. k + 1 \in DOMAIN Activations[len].locals
  <2>1. Activations[len].locals = locals
    <3>1. len \in 1 .. len
      BY <1>1
    <3> HIDE DEF len, locals
    <3>2. ActivationAt(chain[len]).locals = locals
      BY <1>9, <3>1
    <3>3. Activations[len] = ActivationAt(chain[len])
      BY <3>1 DEF Activations, len
    <3> QED
      BY <3>2, <3>3
  <2>2. k + 1 \in DOMAIN locals
    BY <1>1, <1>2
  <2> QED
    BY <2>1, <2>2
<1> HIDE DEF len, at, count, locals
<1>12. \E i \in DOMAIN Activations[Len(Activations)].locals, w \in Values :
         Activations' = [Activations EXCEPT ![Len(Activations)].locals[i] = w]
  BY <1>1, <1>10, <1>11
<1> QED
  BY <1>2, <1>12 DEF Abstract!SetLocal, Abstract!Top, Activations

(* The base frame alone is the abstract stack's initial state.             *)
LEMMA InitRefines == Init => Abstract!Init
<1> SUFFICES ASSUME Init PROVE Abstract!Init
  OBVIOUS
<1>1. IInv
  BY InitIInv
<1>2. Len(chain) = 1 /\ chain[1] = 0 /\ status = 0 /\ mem[0] = base_frame
  <2>1. 0 \in Addr
    BY <1>1, LiveFrames DEF IInv, Init
  <2> QED
    BY <2>1 DEF Init
<1>3. ActivationAt(0) = Abstract!BaseActivation
  <2>1. [j \in 1 .. 0 |-> mem[LocalsBegin(0) + j - 1]] = << >>
    OBVIOUS
  <2> QED
    BY <1>2, <2>1 DEF ActivationAt, Abstract!BaseActivation, base_frame, NULL
<1>4. [i \in 1 .. Len(chain) |-> ActivationAt(chain[i])] = << Abstract!BaseActivation >>
  BY <1>2, <1>3
<1> QED
  BY <1>2, <1>4 DEF Abstract!Init

(* Every step is an abstract step or changes nothing the abstract stack    *)
(* sees.                                                                   *)
LEMMA NextRefines == IInv /\ [Next]_vars => [Abstract!Next]_(Abstract!vars)
<1> SUFFICES ASSUME IInv, [Next]_vars
             PROVE  Abstract!Next \/ UNCHANGED Abstract!vars
  OBVIOUS
<1>0. ASSUME UNCHANGED <<mem, chain>> PROVE UNCHANGED Activations
  BY <1>0 DEF Activations, ActivationAt, LocalsBegin
<1>1. ASSUME NEW f \in Functions, PushFrame(f) PROVE Abstract!Next
  BY <1>1, PushIsCall DEF Abstract!Next
<1>2. ASSUME NEW f \in Functions, PushFrameOverrun(f) PROVE UNCHANGED Abstract!vars
  BY <1>0, <1>2 DEF PushFrameOverrun, Abstract!vars, Activations
<1>3. ASSUME NEW f \in Functions, PushFrameRefused(f) PROVE Abstract!Next
  BY <1>0, <1>3 DEF PushFrameRefused, Abstract!Next, Abstract!Refuse, Activations
<1>4. CASE PopFrame
  BY <1>4, PopIsReturn DEF Abstract!Next
<1>5. CASE PopBaseFrame
  BY <1>0, <1>5 DEF PopBaseFrame, Abstract!Next, Abstract!Refuse, Activations
<1>6. ASSUME NEW count \in 1 .. CodeMax, CodeAdvance(count) PROVE Abstract!Next
  <2>1. mem[current].pc + count \in 0 .. CodeMax
    <3>1. mem[current].pc \in Nat \cup {-1}
      BY LiveFrames DEF IInv, Header, NULL
    <3>2. count \in Nat /\ count >= 1
      BY BoundAssumption
    <3> QED
      BY <1>6, <3>1, <3>2, BoundAssumption DEF CodeAdvance
  <2> QED
    BY <1>6, <2>1, SetCodeIsMove DEF CodeAdvance, Abstract!Next
<1>7. ASSUME NEW label \in 0 .. CodeMax, CodeJump(label) PROVE Abstract!Next
  BY <1>7, SetCodeIsMove DEF CodeJump, Abstract!Next
<1>8. ASSUME NEW i \in 0 .. mem[current].locals_count - 1, NEW v \in Values, SetLocal(i, v)
      PROVE  Abstract!Next
  <2>1. i \in Nat
    BY LiveFrames DEF IInv
  <2> QED
    BY <1>8, <2>1, SetLocalIsSetLocal DEF Abstract!Next
<1>9. CASE UNCHANGED vars
  BY <1>0, <1>9 DEF vars, Abstract!vars, Activations
<1> QED
  BY <1>1, <1>2, <1>3, <1>4, <1>5, <1>6, <1>7, <1>8, <1>9 DEF Next

(* Whatever the layout, the frames in memory behave as the abstract call   *)
(* stack: callees start with zero locals, a return restores the caller.    *)
THEOREM Refinement == Spec => ImplementsCallStack
  BY InitIInv, NextIInv, InitRefines, NextRefines, PTL
  DEF Spec, ImplementsCallStack, Abstract!Spec

==============================================================================
