------------------------- MODULE SimpleVector_proofs -------------------------
(***************************************************************************)
(* Proofs about SimpleVector for any set of vectors, buffers and items.    *)
(*                                                                         *)
(* TypeOK and Owned are inductive together: a step that deletes a buffer   *)
(* must know that no other vector points to it, and that its count is the  *)
(* buffer's.  FromSource adds what is in a buffer that is being filled.    *)
(***************************************************************************)
EXTENDS SimpleVector, SequenceTheorems, TLAPS

FromSource ==
  guard # NoGuard /\ ~misfreed =>
    /\ guard.source \in Inputs \cup alive
    /\ guard.size = Len(SourceItems(guard.source))
    /\ guard.constructed <= guard.size
    /\ \A i \in 1 .. guard.constructed :
         heap[guard.buffer].items[i] = SourceItems(guard.source)[i]

IInv == TypeOK /\ Owned /\ FromSource

------------------------------------------------------------------------------
(* What is known of a buffer in use.                                       *)
LEMMA UsedBuffer ==
  ASSUME TypeOK, NEW b \in Buffers, heap[b] # Free
  PROVE  /\ heap[b] \in Buffer
         /\ heap[b].size \in Nat
         /\ heap[b].items \in Seq(Items)
         /\ Len(heap[b].items) \in Nat
<1>1. heap[b] \in Buffer
  BY DEF TypeOK
<1>2. heap[b].size \in Nat /\ heap[b].items \in Seq(Items)
  BY <1>1 DEF Buffer
<1> QED
  BY <1>1, <1>2, LenProperties

(* What is known of the guard of a call under way.                         *)
LEMMA UsedGuard ==
  ASSUME TypeOK, guard # NoGuard
  PROVE  /\ guard \in Guard
         /\ guard.target \in Vectors
         /\ guard.source \in Inputs \cup Vectors
         /\ guard.buffer \in Buffers
         /\ guard.size \in Nat
         /\ guard.constructed \in Nat
<1>1. guard \in Guard
  BY DEF TypeOK
<1> QED
  BY <1>1 DEF Guard

(* A vector's items are the items of its buffer, all of them.              *)
LEMMA ContentsOfBuffer ==
  ASSUME TypeOK, NEW v \in Vectors, OwnedByVector(v)
  PROVE  /\ Contents(v) \in Seq(Items)
         /\ Len(Contents(v)) = count[v]
         /\ pointer[v] # Null => Contents(v) = heap[pointer[v]].items
<1>1. CASE pointer[v] = Null
  <2>1. Contents(v) = << >> /\ count[v] = 0
    BY <1>1 DEF Contents, OwnedByVector
  <2> QED
    BY <1>1, <2>1, EmptySeq
<1>2. CASE pointer[v] # Null
  <2> DEFINE s == heap[pointer[v]].items
  <2>1. pointer[v] \in Buffers /\ heap[pointer[v]] # Free
    BY <1>2 DEF TypeOK, OwnedByVector
  <2>2. s \in Seq(Items) /\ Len(s) \in Nat
    BY <2>1, UsedBuffer
  <2>3. count[v] = Len(s)
    BY <1>2 DEF OwnedByVector, Fits
  <2>4. SubSeq(s, 1, Len(s)) = s
    BY <2>2, SubSeqFull
  <2>5. Contents(v) = s
    BY <1>2, <2>3, <2>4 DEF Contents
  <2> QED
    BY <2>2, <2>3, <2>5
<1> QED
  BY <1>1, <1>2

(* What a fill copies is a sequence of items.                              *)
LEMMA ItemsOfSource ==
  ASSUME TypeOK, Owned, ~misfreed, NEW s \in Inputs \cup Vectors
  PROVE  /\ SourceItems(s) \in Seq(Items)
         /\ Len(SourceItems(s)) \in Nat
<1>1. SourceItems(s) \in Seq(Items)
  <2>1. CASE s \in Vectors
    BY <2>1, ContentsOfBuffer DEF Owned, SourceItems
  <2>2. CASE s \notin Vectors
    BY <2>2, InputsAssumption DEF SourceItems
  <2> QED
    BY <2>1, <2>2
<1> QED
  BY <1>1, LenProperties

(* Deleting a buffer leaves the others as they were.                       *)
LEMMA DeletedBuffers ==
  ASSUME TypeOK, NEW p, heap' = Deleted(p)
  PROVE  /\ heap' \in [Buffers -> Buffer \cup {Free}]
         /\ \A b \in Buffers : heap'[b] # Free => Len(heap'[b].items) <= heap'[b].size
         /\ \A b \in Buffers : b # p => heap'[b] = heap[b]
         /\ \A b \in Buffers : heap'[b] # Free => b # p
BY DEF TypeOK, Deleted

(* A vector that takes over the pointer and the count that another had,    *)
(* or keeps its own, has the same items, if the buffer is left alone.      *)
LEMMA SameContents ==
  ASSUME NEW w \in Vectors, NEW o \in Vectors,
         pointer'[w] = pointer[o], count'[w] = count[o],
         pointer[o] # Null => heap'[pointer[o]] = heap[pointer[o]]
  PROVE  Contents(w)' = Contents(o)
BY DEF Contents

(* A vector that alone takes over what another had owns it as that did.    *)
LEMMA TakesOver ==
  ASSUME NEW w \in Vectors, NEW o \in Vectors, OwnedByVector(o),
         pointer'[w] = pointer[o], count'[w] = count[o],
         o \in alive => w \in alive',
         pointer[o] # Null => heap'[pointer[o]] = heap[pointer[o]],
         \A x \in Vectors : pointer[o] # Null /\ pointer'[x] = pointer[o] => x = w
  PROVE  OwnedByVector(w)'
<1>1. CASE pointer[o] = Null
  BY <1>1 DEF OwnedByVector
<1>2. CASE pointer[o] # Null
  BY <1>2 DEF OwnedByVector, Fits
<1> QED
  BY <1>1, <1>2

------------------------------------------------------------------------------
(* The guard takes a free buffer, which no vector points to.               *)
LEMMA MakeBufferKeepsInv ==
  ASSUME IInv, Idle, NEW v \in Vectors, NEW s \in Inputs \cup alive, MakeBuffer(v, s)
  PROVE  IInv'
<1> USE DEF IInv
<1>1. PICK b \in Buffers :
        /\ heap[b] = Free
        /\ heap' = [heap EXCEPT ![b] = [size |-> Len(SourceItems(s)), items |-> << >>]]
        /\ guard' = [target |-> v, source |-> s, buffer |-> b,
                     size |-> Len(SourceItems(s)), constructed |-> 0]
        /\ pointer' = pointer
        /\ UNCHANGED <<alive, count, misfreed, aborted>>
  BY DEF MakeBuffer, UntilAccepted
<1>2. s \in Inputs \cup Vectors /\ Len(SourceItems(s)) \in Nat
  BY ItemsOfSource DEF TypeOK, Idle
<1> DEFINE new == [size |-> Len(SourceItems(s)), items |-> << >>]
<1>3. new \in Buffer /\ new.items = << >> /\ Len(new.items) = 0 /\ new # Free
  <2>1. << >> \in Seq(Items) /\ Len(<< >>) = 0
    BY EmptySeq
  <2>2. new \in Buffer
    BY <1>2, <2>1 DEF Buffer
  <2> QED
    BY <2>1, <2>2, ValuesAssumption
<1>4. heap'[b] = new /\ \A c \in Buffers : c # b => heap'[c] = heap[c]
  BY <1>1 DEF TypeOK
<1>5. guard' \in Guard /\ guard' # NoGuard
  BY <1>1, <1>2, ValuesAssumption DEF Guard
<1>6. TypeOK'
  <2>1. heap' \in [Buffers -> Buffer \cup {Free}]
    BY <1>1, <1>3 DEF TypeOK
  <2>2. \A c \in Buffers : heap'[c] # Free => Len(heap'[c].items) <= heap'[c].size
    BY <1>2, <1>3, <1>4 DEF TypeOK
  <2> QED
    BY <1>1, <1>5, <2>1, <2>2 DEF TypeOK
<1>7. \A u \in Vectors : OwnedByVector(u) /\ pointer[u] # b
  BY <1>1, ValuesAssumption DEF Owned, OwnedByVector, Idle
<1>8. \A u \in Vectors : OwnedByVector(u)'
  BY <1>1, <1>4, <1>7 DEF OwnedByVector, Fits, TypeOK
<1>9. OwnedByGuard'
  <2>1. guard'.buffer = b /\ guard'.constructed = 0 /\ guard'.size = new.size
    BY <1>1
  <2> QED
    BY <1>1, <1>3, <1>4, <1>7, <2>1 DEF OwnedByGuard, Fits
<1>10. NothingLeaks'
  BY <1>1, <1>4, <1>5 DEF NothingLeaks, Owned, Idle
<1>11. FromSource'
  <2>1. SourceItems(s)' = SourceItems(s)
    <3>1. ASSUME s \in Vectors PROVE Contents(s)' = Contents(s)
      <4>1. pointer[s] # Null => pointer[s] \in Buffers /\ pointer[s] # b
        BY <1>7, <3>1 DEF TypeOK
      <4> QED
        BY <1>1, <1>4, <3>1, <4>1, SameContents
    <3> QED
      BY <3>1 DEF SourceItems
  <2>2. /\ guard'.source = s
        /\ guard'.size = Len(SourceItems(s))
        /\ guard'.constructed = 0
    BY <1>1
  <2> QED
    BY <1>1, <1>2, <2>1, <2>2 DEF FromSource
<1> QED
  BY <1>6, <1>8, <1>9, <1>10, <1>11 DEF Owned

(* The guard's buffer is no vector's: a source does not change while its   *)
(* items are copied.                                                       *)
LEMMA EmplaceBackKeepsInv ==
  ASSUME IInv, EmplaceBack
  PROVE  IInv'
<1> USE DEF IInv
<1> DEFINE g == guard.buffer
           s == SourceItems(guard.source)
           k == guard.constructed
           old == heap[g]
<1>1. guard # NoGuard /\ ~misfreed
  BY DEF EmplaceBack, Building
<1>2. /\ guard \in Guard
      /\ g \in Buffers
      /\ guard.source \in Inputs \cup Vectors
      /\ k \in Nat
      /\ guard.size \in Nat
  BY <1>1, UsedGuard
<1>3. s \in Seq(Items) /\ Len(s) \in Nat /\ DOMAIN s = 1 .. Len(s)
  BY <1>1, <1>2, ItemsOfSource, LenProperties
<1>4. k < guard.size /\ guard.size = Len(s) /\ k + 1 \in 1 .. Len(s)
  BY <1>1, <1>2 DEF EmplaceBack, HasRoom, FromSource
<1>5. /\ old # Free
      /\ old \in Buffer
      /\ old.size \in Nat
      /\ old.items \in Seq(Items)
      /\ Len(old.items) = k
      /\ old.size = guard.size
      /\ \A u \in Vectors : pointer[u] # g
  <2>1. OwnedByGuard
    BY <1>1 DEF Owned
  <2>2. old # Free /\ \A u \in Vectors : pointer[u] # g
    BY <1>1, <2>1 DEF OwnedByGuard
  <2>3. Len(old.items) = k /\ old.size = guard.size
    BY <1>1, <1>2, <2>1, ValuesAssumption DEF OwnedByGuard, Fits
  <2> QED
    BY <1>2, <2>2, <2>3, UsedBuffer
<1>6. s[k + 1] \in Items
  BY <1>3, <1>4
<1> DEFINE new == [size |-> old.size, items |-> Append(old.items, s[k + 1])]
<1>7. /\ heap' = [heap EXCEPT ![g] = new]
      /\ guard' = [guard EXCEPT !.constructed = k + 1]
      /\ UNCHANGED <<alive, pointer, count, misfreed, aborted>>
  <2>1. Read(guard.source) = {s[k + 1]}
    BY <1>3, <1>4 DEF Read
  <2> QED
    BY <2>1 DEF EmplaceBack
<1>8. /\ new.items \in Seq(Items)
      /\ Len(new.items) = k + 1
      /\ new.items[k + 1] = s[k + 1]
      /\ \A i \in 1 .. k : new.items[i] = old.items[i]
  BY <1>5, <1>6, AppendProperties
<1>9. new \in Buffer /\ new # Free
  <2>1. new \in Buffer
    BY <1>5, <1>8 DEF Buffer
  <2> QED
    BY <2>1, ValuesAssumption
<1>10. heap'[g] = new /\ \A c \in Buffers : c # g => heap'[c] = heap[c]
  BY <1>2, <1>7 DEF TypeOK
<1>11. /\ guard'.buffer = g
       /\ guard'.size = guard.size
       /\ guard'.constructed = k + 1
       /\ guard'.source = guard.source
       /\ guard' \in Guard
       /\ guard' # NoGuard
  <2>1. guard' \in Guard
    BY <1>2, <1>7 DEF Guard
  <2> QED
    BY <1>2, <1>7, <2>1, ValuesAssumption DEF Guard
<1>12. TypeOK'
  <2>1. heap' \in [Buffers -> Buffer \cup {Free}]
    BY <1>7, <1>9 DEF TypeOK
  <2>2. \A c \in Buffers : heap'[c] # Free => Len(heap'[c].items) <= heap'[c].size
    BY <1>2, <1>4, <1>5, <1>8, <1>10 DEF TypeOK
  <2> QED
    BY <1>7, <1>11, <2>1, <2>2 DEF TypeOK
<1>13. \A u \in Vectors : OwnedByVector(u)'
  <2>1. \A u \in Vectors : OwnedByVector(u)
    BY <1>1 DEF Owned
  <2> QED
    BY <1>5, <1>7, <1>10, <2>1 DEF OwnedByVector, Fits, TypeOK
<1>14. OwnedByGuard'
  BY <1>5, <1>7, <1>8, <1>9, <1>10, <1>11 DEF OwnedByGuard, Fits
<1>15. NothingLeaks'
  BY <1>1, <1>7, <1>10, <1>11 DEF NothingLeaks, Owned
<1>16. FromSource'
  <2> DEFINE from == guard.source
  <2>1. SourceItems(guard.source)' = s
    <3>1. guard'.source = from /\ pointer' = pointer /\ count' = count
      BY <1>7, <1>11
    <3>2. ASSUME from \in Vectors, pointer[from] # Null
          PROVE  heap'[pointer[from]] = heap[pointer[from]]
      BY <1>5, <1>10, <3>2 DEF TypeOK
    <3> HIDE DEF from
    <3>3. CASE from \in Vectors /\ pointer[from] # Null
      BY <3>1, <3>2, <3>3 DEF SourceItems, Contents, from
    <3>4. CASE from \in Vectors /\ pointer[from] = Null
      BY <3>1, <3>4 DEF SourceItems, Contents, from
    <3>5. CASE from \notin Vectors
      BY <3>1, <3>5 DEF SourceItems, from
    <3> QED
      BY <3>3, <3>4, <3>5
  <2>2. \A i \in 1 .. k + 1 : new.items[i] = s[i]
    BY <1>1, <1>2, <1>8 DEF FromSource
  <2>3. heap'[guard'.buffer].items = new.items
    BY <1>10, <1>11
  <2>4. guard'.source \in Inputs \cup alive'
    BY <1>1, <1>7, <1>11 DEF FromSource
  <2>5. guard'.size = Len(s) /\ guard'.constructed = k + 1 /\ k + 1 <= Len(s)
    BY <1>2, <1>3, <1>4, <1>11
  <2> QED
    BY <2>1, <2>2, <2>3, <2>4, <2>5 DEF FromSource
<1> QED
  BY <1>12, <1>13, <1>14, <1>15, <1>16 DEF Owned

(* The guard destroys what was built, and leaves the vectors alone.        *)
LEMMA EmplaceThrowsKeepsInv ==
  ASSUME IInv, EmplaceThrows
  PROVE  IInv' /\ ~misfreed'
<1> USE DEF IInv
<1> DEFINE g == guard.buffer
<1>1. guard # NoGuard /\ ~misfreed /\ OwnedByGuard
  BY DEF EmplaceThrows, Building, Owned
<1>2. /\ heap' = Deleted(g)
      /\ guard' = NoGuard
      /\ misfreed' \in BOOLEAN
      /\ UNCHANGED <<alive, pointer, count, aborted>>
  BY DEF EmplaceThrows
<1>3. ~misfreed'
  BY <1>1 DEF EmplaceThrows, GuardDestroys, OwnedByGuard
<1>4. TypeOK'
  BY <1>2, DeletedBuffers DEF TypeOK
<1>5. \A v \in Vectors : OwnedByVector(v)'
  <2>1. \A v \in Vectors : OwnedByVector(v) /\ pointer[v] # g
    BY <1>1 DEF Owned, OwnedByGuard
  <2>2. \A b \in Buffers : b # g => heap'[b] = heap[b]
    BY <1>2, DeletedBuffers
  <2> QED
    BY <1>2, <2>1, <2>2 DEF OwnedByVector, Fits, TypeOK
<1>6. NothingLeaks'
  <2>1. \A b \in Buffers : heap'[b] # Free => b # g /\ heap[b] # Free
    BY <1>2, DeletedBuffers
  <2> QED
    BY <1>1, <1>2, <2>1 DEF NothingLeaks, Owned
<1> QED
  BY <1>2, <1>3, <1>4, <1>5, <1>6 DEF Owned, OwnedByGuard, FromSource

(* The old buffer is deleted under its own count, and no vector but the    *)
(* target pointed to it.                                                   *)
LEMMA AcceptBufferKeepsInv ==
  ASSUME IInv, AcceptBuffer
  PROVE  IInv' /\ ~misfreed'
<1> USE DEF IInv
<1> DEFINE t == guard.target
           g == guard.buffer
           p == pointer[t]
<1>1. guard # NoGuard /\ ~misfreed
  BY DEF AcceptBuffer, Building
<1>2. t \in Vectors /\ g \in Buffers /\ guard.size \in Nat /\ g # Null
  BY <1>1, UsedGuard, ValuesAssumption
<1>3. /\ OwnedByGuard
      /\ NothingLeaks
      /\ \A v \in Vectors : OwnedByVector(v)
  BY <1>1 DEF Owned
<1>4. /\ heap' = Deleted(p)
      /\ misfreed' = ~Fits(p, count[t], count[t])
      /\ pointer' = [pointer EXCEPT ![t] = g]
      /\ count' = [count EXCEPT ![t] = guard.size]
      /\ alive' = alive \cup {t}
      /\ guard' = NoGuard
      /\ aborted' = aborted
  BY DEF AcceptBuffer, Delete, CountAtReset
<1>5. ~misfreed'
  BY <1>2, <1>3, <1>4 DEF OwnedByVector, Fits
<1>6. \A v \in Vectors : pointer[v] # g
  BY <1>1, <1>3 DEF OwnedByGuard
<1>7. /\ heap'[g] = heap[g]
      /\ \A v \in Vectors : v # t /\ pointer[v] # Null => heap'[pointer[v]] = heap[pointer[v]]
  <2>1. \A v \in Vectors : v # t /\ pointer[v] # Null => pointer[v] \in Buffers /\ pointer[v] # p
    BY <1>2, <1>3 DEF OwnedByVector, TypeOK
  <2> QED
    BY <1>2, <1>4, <1>6, <2>1, DeletedBuffers
<1>8. TypeOK'
  BY <1>2, <1>4, <1>5, DeletedBuffers DEF TypeOK
<1>9. \A v \in Vectors : OwnedByVector(v)'
  <2> SUFFICES ASSUME NEW v \in Vectors PROVE OwnedByVector(v)'
    OBVIOUS
  <2>1. CASE v = t
    <3>1. pointer'[v] = g /\ count'[v] = guard.size
      BY <1>4, <2>1 DEF TypeOK
    <3>2. heap'[g] # Free /\ guard.size = Len(heap'[g].items) /\ guard.size = heap'[g].size
      BY <1>1, <1>2, <1>3, <1>7 DEF OwnedByGuard, Fits, AcceptBuffer
    <3>3. \A u \in Vectors : pointer'[u] = g => u = t
      BY <1>4, <1>6 DEF TypeOK
    <3> QED
      BY <1>2, <1>4, <2>1, <3>1, <3>2, <3>3 DEF OwnedByVector, Fits
  <2>2. CASE v # t
    <3>1. pointer'[v] = pointer[v] /\ count'[v] = count[v] /\ pointer[v] # g
      BY <1>4, <1>6, <2>2 DEF TypeOK
    <3>2. \A u \in Vectors : pointer'[u] = pointer[v] => pointer[u] = pointer[v]
      BY <1>4, <3>1 DEF TypeOK
    <3> QED
      BY <1>3, <1>4, <1>7, <2>2, <3>1, <3>2 DEF OwnedByVector, Fits
  <2> QED
    BY <2>1, <2>2
<1>10. NothingLeaks'
  <2>1. \A b \in Buffers : heap'[b] # Free => heap[b] # Free /\ b # p
    BY <1>4, DeletedBuffers
  <2>2. \A v \in Vectors : pointer'[v] = IF v = t THEN g ELSE pointer[v]
    BY <1>4 DEF TypeOK
  <2> QED
    BY <1>2, <1>3, <2>1, <2>2 DEF NothingLeaks
<1> QED
  BY <1>4, <1>5, <1>8, <1>9, <1>10 DEF Owned, OwnedByGuard, FromSource

(* The vector's own buffer, which nothing else points to, is deleted.      *)
LEMMA ClearKeepsInv ==
  ASSUME IInv, Idle, NEW v \in Vectors, Clear(v),
         alive' \subseteq Vectors, alive \ {v} \subseteq alive'
  PROVE  IInv' /\ ~misfreed'
<1> USE DEF IInv
<1> DEFINE p == pointer[v]
<1>1. /\ guard = NoGuard
      /\ NothingLeaks
      /\ \A u \in Vectors : OwnedByVector(u)
  BY DEF Owned, Idle
<1>2. /\ heap' = Deleted(p)
      /\ misfreed' = ~Fits(p, count[v], count[v])
      /\ pointer' = [pointer EXCEPT ![v] = Null]
      /\ count' = [count EXCEPT ![v] = 0]
      /\ guard' = NoGuard
      /\ aborted' = aborted
  BY <1>1 DEF Clear, Delete
<1>3. ~misfreed'
  BY <1>1, <1>2 DEF OwnedByVector, Fits
<1>4. /\ pointer'[v] = Null
      /\ count'[v] = 0
      /\ \A u \in Vectors : u # v => pointer'[u] = pointer[u] /\ count'[u] = count[u]
  BY <1>2 DEF TypeOK
<1>5. \A u \in Vectors : u # v /\ pointer[u] # Null => heap'[pointer[u]] = heap[pointer[u]]
  <2>1. \A u \in Vectors : u # v /\ pointer[u] # Null => pointer[u] \in Buffers /\ pointer[u] # p
    BY <1>1 DEF OwnedByVector, TypeOK
  <2> QED
    BY <1>2, <2>1, DeletedBuffers
<1>6. TypeOK'
  BY <1>2, DeletedBuffers DEF TypeOK
<1>7. \A u \in Vectors : OwnedByVector(u)'
  <2> SUFFICES ASSUME NEW u \in Vectors PROVE OwnedByVector(u)'
    OBVIOUS
  <2>1. CASE u = v
    BY <1>4, <2>1 DEF OwnedByVector
  <2>2. CASE u # v
    BY <1>1, <1>4, <1>5, <2>2 DEF OwnedByVector, Fits
  <2> QED
    BY <2>1, <2>2
<1>8. NothingLeaks'
  <2>1. \A b \in Buffers : heap'[b] # Free => heap[b] # Free /\ b # p
    BY <1>2, DeletedBuffers
  <2> QED
    BY <1>1, <1>4, <2>1 DEF NothingLeaks
<1> QED
  BY <1>2, <1>3, <1>6, <1>7, <1>8 DEF Owned, OwnedByGuard, FromSource

(* A vector that is not alive has no buffer: constructing it by a move     *)
(* deletes none.                                                           *)
LEMMA MoveConstructKeepsInv ==
  ASSUME IInv, NEW v \in Vectors, NEW u \in Vectors, MoveConstruct(v, u)
  PROVE  IInv'
<1> USE DEF IInv
<1>1. /\ guard = NoGuard
      /\ ~misfreed
      /\ NothingLeaks
      /\ \A w \in Vectors : OwnedByVector(w)
  BY DEF Owned, Idle, MoveConstruct
<1>2. /\ pointer' = [pointer EXCEPT ![v] = pointer[u], ![u] = Null]
      /\ count' = [count EXCEPT ![v] = count[u], ![u] = 0]
      /\ alive' = alive \cup {v}
      /\ UNCHANGED <<heap, guard, misfreed, aborted>>
  BY DEF MoveConstruct, CountAfterMove
<1>3. v # u /\ pointer[v] = Null
  BY <1>1 DEF MoveConstruct, OwnedByVector
<1>4. /\ pointer'[v] = pointer[u] /\ count'[v] = count[u]
      /\ pointer'[u] = Null /\ count'[u] = 0
      /\ \A w \in Vectors \ {u, v} : pointer'[w] = pointer[w] /\ count'[w] = count[w]
  BY <1>2, <1>3 DEF TypeOK
<1>5. TypeOK'
  BY <1>2 DEF TypeOK
<1>6. \A w \in Vectors : OwnedByVector(w)'
  <2> SUFFICES ASSUME NEW w \in Vectors PROVE OwnedByVector(w)'
    OBVIOUS
  <2>1. CASE w = u
    BY <1>4, <2>1 DEF OwnedByVector
  <2>2. CASE w = v
    <3>1. \A x \in Vectors : pointer[u] # Null /\ pointer'[x] = pointer[u] => x = v
      BY <1>1, <1>4 DEF OwnedByVector
    <3> QED
      BY <1>1, <1>2, <1>4, <2>2, <3>1, TakesOver
  <2>3. CASE w # u /\ w # v
    <3>1. \A x \in Vectors : pointer[w] # Null /\ pointer'[x] = pointer[w] => x = w
      BY <1>1, <1>4, <2>3 DEF OwnedByVector
    <3> QED
      BY <1>1, <1>2, <1>4, <2>3, <3>1, TakesOver
  <2> QED
    BY <2>1, <2>2, <2>3
<1>7. NothingLeaks'
  BY <1>1, <1>2, <1>3, <1>4, ValuesAssumption, ZenonT(40) DEF NothingLeaks
<1> QED
  BY <1>1, <1>2, <1>5, <1>6, <1>7 DEF Owned, OwnedByGuard, FromSource

(* When the counts happen to agree, the old buffer is deleted as it should *)
(* be; otherwise nothing is said of what follows.                          *)
LEMMA MoveAssignKeepsInv ==
  ASSUME IInv, NEW v \in Vectors, NEW u \in Vectors, MoveAssign(v, u)
  PROVE  IInv'
<1> USE DEF IInv
<1> DEFINE p == pointer[v]
<1>1. /\ guard = NoGuard
      /\ v # u
      /\ v \in alive
      /\ NothingLeaks
      /\ \A w \in Vectors : OwnedByVector(w)
  BY DEF Owned, Idle, MoveAssign
<1>2. /\ heap' = Deleted(p)
      /\ misfreed' \in BOOLEAN
      /\ pointer' = [pointer EXCEPT ![v] = pointer[u], ![u] = Null]
      /\ count' = [count EXCEPT ![v] = count[u], ![u] = 0]
      /\ UNCHANGED <<alive, guard, aborted>>
  BY DEF MoveAssign, CountAfterMove, Delete
<1>3. /\ pointer'[v] = pointer[u] /\ count'[v] = count[u]
      /\ pointer'[u] = Null /\ count'[u] = 0
      /\ \A w \in Vectors \ {u, v} : pointer'[w] = pointer[w] /\ count'[w] = count[w]
  BY <1>1, <1>2 DEF TypeOK
<1>4. TypeOK'
  BY <1>2, DeletedBuffers DEF TypeOK
<1>5. \A w \in Vectors : w # v /\ pointer[w] # Null => heap'[pointer[w]] = heap[pointer[w]]
  <2>1. \A w \in Vectors : w # v /\ pointer[w] # Null => pointer[w] \in Buffers /\ pointer[w] # p
    BY <1>1 DEF OwnedByVector, TypeOK
  <2> QED
    BY <1>2, <2>1, DeletedBuffers
<1>6. \A w \in Vectors : OwnedByVector(w)'
  <2> SUFFICES ASSUME NEW w \in Vectors PROVE OwnedByVector(w)'
    OBVIOUS
  <2>1. CASE w = u
    BY <1>3, <2>1 DEF OwnedByVector
  <2>2. CASE w = v
    <3>1. \A x \in Vectors : pointer[u] # Null /\ pointer'[x] = pointer[u] => x = v
      BY <1>1, <1>3 DEF OwnedByVector
    <3>2. /\ v \in alive'
          /\ pointer[u] # Null => heap'[pointer[u]] = heap[pointer[u]]
          /\ OwnedByVector(u)
      BY <1>1, <1>2, <1>5
    <3>3. OwnedByVector(v)'
      BY <1>3, <3>1, <3>2, TakesOver
    <3> QED
      BY <2>2, <3>3
  <2>3. CASE w # u /\ w # v
    <3>1. \A x \in Vectors : pointer[w] # Null /\ pointer'[x] = pointer[w] => x = w
      BY <1>1, <1>3, <2>3 DEF OwnedByVector
    <3> QED
      BY <1>1, <1>2, <1>3, <1>5, <2>3, <3>1, TakesOver
  <2> QED
    BY <2>1, <2>2, <2>3
<1>7. NothingLeaks'
  <2>1. \A b \in Buffers : heap'[b] # Free => heap[b] # Free /\ b # p
    BY <1>2, DeletedBuffers
  <2> QED
    BY <1>1, <1>3, <2>1, ValuesAssumption DEF NothingLeaks
<1> QED
  BY <1>1, <1>2, <1>4, <1>6, <1>7 DEF Owned, OwnedByGuard, FromSource

(* Every vector has what its partner had.                                  *)
LEMMA SwapKeepsInv ==
  ASSUME IInv, NEW v \in Vectors, NEW u \in Vectors, Swap(v, u)
  PROVE  IInv'
<1> USE DEF IInv
<1>1. /\ guard = NoGuard
      /\ ~misfreed
      /\ v \in alive /\ u \in alive
      /\ NothingLeaks
      /\ \A w \in Vectors : OwnedByVector(w)
  BY DEF Owned, Idle, Swap
<1>2. /\ pointer' = [pointer EXCEPT ![v] = pointer[u], ![u] = pointer[v]]
      /\ count' = [count EXCEPT ![v] = count[u], ![u] = count[v]]
      /\ UNCHANGED <<alive, heap, guard, misfreed, aborted>>
  BY DEF Swap, SwappedCounts
<1> DEFINE partner(w) == IF w = v THEN u ELSE IF w = u THEN v ELSE w
<1>3. \A w \in Vectors : /\ partner(w) \in Vectors
                         /\ pointer'[w] = pointer[partner(w)]
                         /\ count'[w] = count[partner(w)]
                         /\ w \in alive <=> partner(w) \in alive
  BY <1>1, <1>2 DEF TypeOK
<1>4. \A w, x \in Vectors : partner(w) = partner(x) => w = x
  OBVIOUS
<1>5. TypeOK'
  BY <1>2 DEF TypeOK
<1>6. \A w \in Vectors : OwnedByVector(w)'
  <2> SUFFICES ASSUME NEW w \in Vectors PROVE OwnedByVector(w)'
    OBVIOUS
  <2> DEFINE o == partner(w)
  <2>1. o \in Vectors /\ OwnedByVector(o)
    BY <1>1, <1>3
  <2>2. /\ pointer'[w] = pointer[o] /\ count'[w] = count[o]
        /\ w \in alive' <=> o \in alive
        /\ heap' = heap
    BY <1>2, <1>3
  <2>3. ASSUME pointer[o] # Null, NEW x \in Vectors, pointer'[x] = pointer'[w]
        PROVE  x = w
    <3>1. pointer[partner(x)] = pointer[o] /\ partner(x) \in Vectors
      BY <1>3, <2>3
    <3> HIDE DEF partner
    <3>2. partner(x) = partner(w)
      BY <2>1, <2>3, <3>1 DEF OwnedByVector
    <3> QED
      BY <1>4, <3>2
  <2> HIDE DEF o
  <2> QED
    BY <2>1, <2>2, <2>3, TakesOver
<1>7. NothingLeaks'
  <2>1. \A w \in Vectors : partner(partner(w)) = w
    OBVIOUS
  <2>2. \A w \in Vectors : pointer'[partner(w)] = pointer[w]
    BY <1>3, <2>1
  <2>3. \A w \in Vectors : partner(w) \in Vectors
    OBVIOUS
  <2>4. heap' = heap /\ guard' = NoGuard
    BY <1>1, <1>2
  <2> HIDE DEF partner
  <2> QED
    BY <1>1, <2>2, <2>3, <2>4 DEF NothingLeaks
<1> QED
  BY <1>1, <1>2, <1>5, <1>6, <1>7 DEF Owned, OwnedByGuard, FromSource

------------------------------------------------------------------------------
(* Nothing is used, nothing is filled.                                     *)
LEMMA InitIInv == Init => IInv
<1> SUFFICES ASSUME Init PROVE IInv
  OBVIOUS
<1>1. TypeOK
  BY DEF Init, TypeOK
<1>2. Owned
  BY DEF Init, Owned, OwnedByVector, OwnedByGuard, NothingLeaks
<1> QED
  BY <1>1, <1>2 DEF Init, IInv, FromSource

(* One case per operation; resize only aborts.                             *)
LEMMA NextIInv == IInv /\ [Next]_vars => IInv'
<1> SUFFICES ASSUME IInv, [Next]_vars PROVE IInv'
  OBVIOUS
<1>1. ASSUME UNCHANGED <<alive, pointer, count, heap, guard, misfreed>>, aborted' \in BOOLEAN
      PROVE  IInv'
  BY <1>1 DEF IInv, TypeOK, Owned, OwnedByVector, OwnedByGuard, NothingLeaks,
              Fits, FromSource, SourceItems, Contents
<1>2. CASE UNCHANGED vars
  BY <1>1, <1>2 DEF vars, IInv, TypeOK
<1>3. CASE EmplaceBack
  BY <1>3, EmplaceBackKeepsInv
<1>4. CASE EmplaceThrows
  BY <1>4, EmplaceThrowsKeepsInv
<1>5. CASE AcceptBuffer
  BY <1>5, AcceptBufferKeepsInv
<1>6. ASSUME NEW v \in Vectors, NEW s \in Sources, AssignBegin(v, s)
      PROVE  IInv'
  BY <1>6, MakeBufferKeepsInv DEF AssignBegin, Sources
<1>7. ASSUME NEW v \in Vectors, AssignEmpty(v) \/ Destroy(v)
      PROVE  IInv'
  <2>1. Idle /\ Clear(v)
    BY <1>7 DEF AssignEmpty, Destroy
  <2>2. alive' \subseteq Vectors /\ alive \ {v} \subseteq alive'
    BY <1>7 DEF AssignEmpty, Destroy, IInv, TypeOK
  <2> QED
    BY <2>1, <2>2, ClearKeepsInv
<1>8. ASSUME NEW v \in Vectors, NEW u \in Vectors,
             CopyAssignBegin(v, u) \/ MoveConstruct(v, u) \/ MoveAssign(v, u) \/ Swap(v, u)
      PROVE  IInv'
  <2>1. CASE CopyAssignBegin(v, u)
    BY <2>1, MakeBufferKeepsInv DEF CopyAssignBegin
  <2> QED
    BY <1>8, <2>1, MoveConstructKeepsInv, MoveAssignKeepsInv, SwapKeepsInv
<1>9. ASSUME NEW v \in Vectors, NEW n \in 0 .. MaxSize, ResizeAborts(v, n)
      PROVE  IInv'
  BY <1>1, <1>9 DEF ResizeAborts
<1> QED
  BY <1>2, <1>3, <1>4, <1>5, <1>6, <1>7, <1>8, <1>9 DEF Next

(* Types hold, and while no deleter has run with a wrong count every       *)
(* buffer in use has exactly one owner whose count is its number of items, *)
(* whatever is called and whichever constructor throws.                    *)
THEOREM Invariance == Spec => [](TypeOK /\ Owned)
<1>1. Spec => []IInv
  BY InitIInv, NextIInv, PTL DEF Spec
<1>2. IInv => TypeOK /\ Owned
  BY DEF IInv
<1> QED
  BY <1>1, <1>2, PTL

------------------------------------------------------------------------------
(* Of all steps only a move assignment can run a deleter with a wrong      *)
(* count, and only over a vector with items and of another size.           *)
THEOREM MisfreesByMove == Spec => OnlyMoveMisfrees
<1> DEFINE Moved ==
      \E v, u \in alive : /\ pointer[v] # Null
                          /\ count[v] # count[u]
                          /\ pointer'[v] = pointer[u]
                          /\ pointer'[u] = Null
<1>1. ASSUME IInv, [Next]_vars, misfreed' # misfreed PROVE Moved
  <2>1. CASE UNCHANGED vars
    BY <1>1, <2>1 DEF vars
  <2>2. CASE EmplaceBack
    BY <1>1, <2>2 DEF EmplaceBack
  <2>3. CASE EmplaceThrows
    BY <1>1, <2>3, EmplaceThrowsKeepsInv DEF EmplaceThrows, Building, IInv, TypeOK
  <2>4. CASE AcceptBuffer
    BY <1>1, <2>4, AcceptBufferKeepsInv DEF AcceptBuffer, Building, IInv, TypeOK
  <2>5. ASSUME NEW v \in Vectors, NEW s \in Sources, AssignBegin(v, s)
        PROVE  FALSE
    BY <1>1, <2>5 DEF AssignBegin, MakeBuffer
  <2>6. ASSUME NEW v \in Vectors, AssignEmpty(v) \/ Destroy(v)
        PROVE  FALSE
    <3>1. Idle /\ Clear(v)
      BY <2>6 DEF AssignEmpty, Destroy
    <3>2. alive' \subseteq Vectors /\ alive \ {v} \subseteq alive'
      BY <1>1, <2>6 DEF AssignEmpty, Destroy, IInv, TypeOK
    <3>3. ~misfreed /\ ~misfreed' /\ misfreed \in BOOLEAN /\ misfreed' \in BOOLEAN
      BY <1>1, <3>1, <3>2, ClearKeepsInv DEF Idle, IInv, TypeOK
    <3> QED
      BY <1>1, <3>3
  <2>7. ASSUME NEW v \in Vectors, NEW u \in Vectors, MoveAssign(v, u)
        PROVE  Moved
    <3>1. /\ v \in alive /\ u \in alive /\ v # u
          /\ pointer'[v] = pointer[u]
          /\ pointer'[u] = Null
          /\ ~misfreed
          /\ misfreed' = ~Fits(pointer[v], count[u], count[u])
      BY <1>1, <2>7 DEF MoveAssign, Delete, Idle, IInv, TypeOK
    <3>2. ~Fits(pointer[v], count[u], count[u])
      <4> DEFINE fits == Fits(pointer[v], count[u], count[u])
      <4> HIDE DEF fits
      <4>1. misfreed' = ~fits /\ ~misfreed /\ misfreed \in BOOLEAN /\ misfreed' # misfreed
        BY <1>1, <3>1 DEF fits, IInv, TypeOK
      <4>2. ~fits
        BY <4>1, Zenon
      <4> QED
        BY <4>2 DEF fits
    <3>3. OwnedByVector(v)
      BY <1>1, <3>1 DEF IInv, Owned
    <3>4. pointer[v] # Null /\ count[v] # count[u]
      BY <3>2, <3>3 DEF OwnedByVector, Fits
    <3> QED
      BY <3>1, <3>4
  <2>8. ASSUME NEW v \in Vectors, NEW u \in Vectors,
               CopyAssignBegin(v, u) \/ MoveConstruct(v, u) \/ Swap(v, u)
        PROVE  FALSE
    BY <1>1, <2>8 DEF CopyAssignBegin, MakeBuffer, MoveConstruct, Swap
  <2>9. ASSUME NEW v \in Vectors, NEW n \in 0 .. MaxSize, ResizeAborts(v, n)
        PROVE  FALSE
    BY <1>1, <2>9 DEF ResizeAborts
  <2> QED
    BY <1>1, <2>1, <2>2, <2>3, <2>4, <2>5, <2>6, <2>7, <2>8, <2>9 DEF Next
<1>2. IInv /\ [Next]_vars => [misfreed' # misfreed => Moved]_vars
  BY <1>1
<1> QED
  BY InitIInv, NextIInv, <1>2, PTL DEF Spec, OnlyMoveMisfrees

------------------------------------------------------------------------------
(* The abstract vectors.                                                   *)

(* The vectors not constructed are those the abstract items call dead.     *)
LEMMA AliveHoldItems ==
  ASSUME IInv, ~misfreed
  PROVE  /\ Abstract!Alive = alive
         /\ \A v \in alive : ItemsHeld[v] = Contents(v)
<1>1. \A v \in Vectors : Contents(v) # Dead
  BY ContentsOfBuffer, ValuesAssumption DEF IInv, Owned
<1> QED
  BY <1>1 DEF Abstract!Alive, ItemsHeld, IInv, TypeOK

(* A buffer that no vector points to may change.                           *)
LEMMA UnseenBuffer ==
  ASSUME TypeOK, NEW b, \A v \in Vectors : pointer[v] # b,
         \A c \in Buffers : c # b => heap'[c] = heap[c],
         UNCHANGED <<alive, pointer, count>>
  PROVE  /\ UNCHANGED ItemsHeld
         /\ \A s \in Inputs \cup Vectors : SourceItems(s)' = SourceItems(s)
<1>1. ASSUME NEW v \in Vectors PROVE Contents(v)' = Contents(v)
  <2>1. pointer[v] # Null => heap'[pointer[v]] = heap[pointer[v]]
    BY DEF TypeOK
  <2> QED
    BY <2>1, SameContents
<1> QED
  BY <1>1 DEF ItemsHeld, SourceItems

(* The guard begins the abstract fill.                                     *)
LEMMA MakeBufferIsFill ==
  ASSUME IInv, Idle, NEW v \in Vectors, NEW s \in Inputs \cup alive, MakeBuffer(v, s)
  PROVE  Abstract!Next
<1> USE DEF IInv
<1>1. PICK b \in Buffers :
        /\ heap[b] = Free
        /\ heap' = [heap EXCEPT ![b] = [size |-> Len(SourceItems(s)), items |-> << >>]]
        /\ guard' = [target |-> v, source |-> s, buffer |-> b,
                     size |-> Len(SourceItems(s)), constructed |-> 0]
        /\ UNCHANGED <<alive, pointer, count>>
  BY DEF MakeBuffer, UntilAccepted
<1>2. s \in Inputs \cup Vectors /\ SourceItems(s) \in Seq(Items) /\ Len(SourceItems(s)) \in Nat
  BY ItemsOfSource DEF TypeOK, Idle
<1>3. \A u \in Vectors : pointer[u] # b
  BY <1>1, ValuesAssumption DEF Owned, OwnedByVector, Idle
<1>4. \A c \in Buffers : c # b => heap'[c] = heap[c]
  BY <1>1 DEF TypeOK
<1>5. UNCHANGED ItemsHeld /\ SourceItems(s)' = SourceItems(s)
  BY <1>1, <1>2, <1>3, <1>4, UnseenBuffer
<1>6. guard' # NoGuard /\ guard'.target = v /\ guard'.source = s
  <2>1. guard' \in Guard
    BY <1>1, <1>2 DEF Guard
  <2> QED
    BY <1>1, <2>1, ValuesAssumption
<1>7. FillUnderWay' = [target |-> v, items |-> SourceItems(s)]
  BY <1>5, <1>6 DEF FillUnderWay
<1>8. FillUnderWay = NoGuard
  BY DEF FillUnderWay, Idle
<1>9. Abstract!Fill(v, SourceItems(s))
  BY <1>5, <1>7, <1>8 DEF Abstract!Fill
<1>10. SourceItems(s) \in Inputs \cup {ItemsHeld[u] : u \in Abstract!Alive}
  <2>1. CASE s \in alive
    BY <2>1, AliveHoldItems DEF SourceItems, Idle, TypeOK
  <2>2. CASE s \notin Vectors
    BY <1>2, <2>2 DEF SourceItems
  <2>3. s \in Vectors => s \in alive
    BY SourcesAssumption
  <2> QED
    BY <2>1, <2>2, <2>3
<1> QED
  BY <1>9, <1>10 DEF Abstract!Next

(* Nothing is seen of the items until all are built.                       *)
LEMMA EmplaceBackIsUnseen ==
  ASSUME IInv, EmplaceBack
  PROVE  UNCHANGED Abstract!vars
<1> USE DEF IInv
<1> DEFINE g == guard.buffer
<1>1. guard # NoGuard /\ ~misfreed
  BY DEF EmplaceBack, Building
<1>2. \A v \in Vectors : pointer[v] # g
  BY <1>1 DEF Owned, OwnedByGuard
<1>3. /\ \A c \in Buffers : c # g => heap'[c] = heap[c]
      /\ UNCHANGED <<alive, pointer, count>>
  BY DEF EmplaceBack, TypeOK
<1>4. guard \in Guard /\ guard.source \in Inputs \cup Vectors /\ guard.constructed \in Nat
  BY <1>1, UsedGuard
<1>5. /\ guard' # NoGuard
      /\ guard'.target = guard.target
      /\ guard'.source = guard.source
  <2>1. guard' = [guard EXCEPT !.constructed = guard.constructed + 1]
    BY DEF EmplaceBack
  <2>2. guard' \in Guard
    BY <1>4, <2>1 DEF Guard
  <2> QED
    BY <1>4, <2>1, <2>2, ValuesAssumption DEF Guard
<1>6. UNCHANGED ItemsHeld /\ SourceItems(guard.source)' = SourceItems(guard.source)
  <2> DEFINE from == guard.source
  <2>1. \A s \in Inputs \cup Vectors : SourceItems(s)' = SourceItems(s)
    BY <1>2, <1>3, UnseenBuffer
  <2>2. UNCHANGED ItemsHeld
    BY <1>2, <1>3, UnseenBuffer
  <2>3. from' = from
    BY <1>5
  <2>4. SourceItems(from)' = SourceItems(from)
    BY <1>4, <2>1, <2>3 DEF SourceItems, Contents
  <2> QED
    BY <2>2, <2>4
<1>7. UNCHANGED FillUnderWay
  BY <1>1, <1>5, <1>6 DEF FillUnderWay
<1> QED
  BY <1>6, <1>7 DEF Abstract!vars

(* A throw leaves every vector its items.                                  *)
LEMMA EmplaceThrowsIsThrow ==
  ASSUME IInv, EmplaceThrows
  PROVE  Abstract!Throw
<1> USE DEF IInv
<1>1. guard # NoGuard /\ ~misfreed
  BY DEF EmplaceThrows, Building
<1>2. \A v \in Vectors : pointer[v] # guard.buffer
  BY <1>1 DEF Owned, OwnedByGuard
<1>3. /\ \A c \in Buffers : c # guard.buffer => heap'[c] = heap[c]
      /\ UNCHANGED <<alive, pointer, count>>
      /\ guard' = NoGuard
  BY DeletedBuffers DEF EmplaceThrows
<1>4. UNCHANGED ItemsHeld
  BY <1>2, <1>3, UnseenBuffer
<1>5. FillUnderWay # NoGuard
  <2>1. FillUnderWay = [target |-> guard.target, items |-> SourceItems(guard.source)]
    BY <1>1 DEF FillUnderWay
  <2>2. guard.target \in Vectors /\ SourceItems(guard.source) \in Seq(Items)
    BY <1>1, UsedGuard, ItemsOfSource
  <2> QED
    BY <2>1, <2>2, ValuesAssumption
<1>6. FillUnderWay' = NoGuard
  BY <1>3 DEF FillUnderWay
<1> QED
  BY <1>4, <1>5, <1>6 DEF Abstract!Throw

(* Deleting one vector's buffer leaves the others theirs.                  *)
LEMMA OthersKeepBuffers ==
  ASSUME IInv, ~misfreed, NEW v \in Vectors, heap' = Deleted(pointer[v])
  PROVE  \A w \in Vectors : w # v /\ pointer[w] # Null => heap'[pointer[w]] = heap[pointer[w]]
<1>1. \A w \in Vectors : w # v /\ pointer[w] # Null =>
        pointer[w] \in Buffers /\ pointer[w] # pointer[v]
  BY DEF IInv, Owned, OwnedByVector, TypeOK
<1> QED
  BY <1>1, DeletedBuffers DEF IInv

(* The accepted buffer holds all items of the source.                      *)
LEMMA AcceptBufferIsReturn ==
  ASSUME IInv, AcceptBuffer
  PROVE  Abstract!Return
<1> USE DEF IInv
<1> DEFINE g == guard.buffer
           s == SourceItems(guard.source)
<1>1. guard # NoGuard /\ ~misfreed /\ OwnedByGuard
  BY DEF AcceptBuffer, Building, Owned
<1>2. g \in Buffers /\ g # Null /\ guard.source \in Inputs \cup Vectors
  BY <1>1, UsedGuard, ValuesAssumption
<1>3. PICK t \in Vectors : t = guard.target
  BY <1>1, UsedGuard
<1>4. s \in Seq(Items) /\ Len(s) \in Nat
  BY <1>1, <1>2, ItemsOfSource
<1>5. /\ heap' = Deleted(pointer[t])
      /\ pointer' = [pointer EXCEPT ![t] = g]
      /\ count' = [count EXCEPT ![t] = guard.size]
      /\ alive' = alive \cup {t}
      /\ guard' = NoGuard
  BY <1>3 DEF AcceptBuffer, Delete
<1>6. heap[g].items = s /\ guard.size = Len(s)
  <2> DEFINE built == heap[g].items
  <2>1. built \in Seq(Items) /\ Len(built) = guard.constructed
    BY <1>1, <1>2, UsedBuffer DEF OwnedByGuard, Fits
  <2>2. guard.constructed = guard.size /\ guard.size = Len(s)
    BY <1>1 DEF AcceptBuffer, FromSource
  <2>3. \A i \in 1 .. Len(s) : built[i] = s[i]
    BY <1>1, <2>2 DEF FromSource
  <2> HIDE DEF built, s
  <2>4. built = s
    BY <1>4, <2>1, <2>2, <2>3, SeqEqual
  <2> QED
    BY <2>2, <2>4 DEF built
<1>7. Contents(t)' = s
  <2>1. heap'[g] = heap[g]
    BY <1>1, <1>2, <1>5, DeletedBuffers DEF OwnedByGuard
  <2>2. pointer'[t] = g /\ count'[t] = guard.size
    BY <1>2, <1>5 DEF TypeOK
  <2>3. SubSeq(s, 1, Len(s)) = s
    BY <1>4, SubSeqFull
  <2> QED
    BY <1>2, <1>6, <2>1, <2>2, <2>3 DEF Contents
<1>8. \A w \in Vectors : w # t => Contents(w)' = Contents(w)
  <2>1. \A w \in Vectors : w # t /\ pointer[w] # Null => heap'[pointer[w]] = heap[pointer[w]]
    BY <1>1, <1>2, <1>5, OthersKeepBuffers
  <2>2. \A w \in Vectors : w # t => pointer'[w] = pointer[w] /\ count'[w] = count[w]
    BY <1>5 DEF TypeOK
  <2> QED
    BY <2>1, <2>2, SameContents
<1>9. FillUnderWay = [target |-> t, items |-> s] /\ FillUnderWay' = NoGuard
  BY <1>1, <1>5, <1>3 DEF FillUnderWay
<1>10. FillUnderWay # NoGuard
  BY <1>2, <1>4, <1>9, ValuesAssumption
<1>11. ItemsHeld' = [ItemsHeld EXCEPT ![t] = s]
  <2> DEFINE c == [w \in Vectors |-> Contents(w)']
  <2>1. ItemsHeld' = [w \in Vectors |-> IF w \in alive' THEN c[w] ELSE Dead]
    BY DEF ItemsHeld
  <2>2. c[t] = s /\ \A w \in Vectors : w # t => c[w] = Contents(w)
    BY <1>2, <1>7, <1>8
  <2> HIDE DEF c
  <2> QED
    BY <1>2, <1>5, <2>1, <2>2 DEF ItemsHeld
<1> QED
  BY <1>9, <1>10, <1>11 DEF Abstract!Return

(* The items of a cleared vector are gone, whether it stays alive or not.  *)
LEMMA ClearIsSeen ==
  ASSUME IInv, Idle, NEW v \in Vectors, Clear(v)
  PROVE  /\ Contents(v)' = << >>
         /\ \A w \in Vectors : w # v => Contents(w)' = Contents(w)
         /\ FillUnderWay = NoGuard
         /\ FillUnderWay' = NoGuard
<1> USE DEF IInv
<1>1. /\ heap' = Deleted(pointer[v])
      /\ pointer' = [pointer EXCEPT ![v] = Null]
      /\ count' = [count EXCEPT ![v] = 0]
      /\ guard = NoGuard /\ guard' = NoGuard /\ ~misfreed
  BY DEF Clear, Delete, Idle
<1>2. \A w \in Vectors : w # v /\ pointer[w] # Null => heap'[pointer[w]] = heap[pointer[w]]
  BY <1>1, OthersKeepBuffers
<1>3. \A w \in Vectors : w # v => pointer'[w] = pointer[w] /\ count'[w] = count[w]
  BY <1>1 DEF TypeOK
<1>4. \A w \in Vectors : w # v => Contents(w)' = Contents(w)
  BY <1>2, <1>3, SameContents
<1>5. Contents(v)' = << >>
  BY <1>1 DEF Contents, TypeOK
<1> QED
  BY <1>1, <1>4, <1>5 DEF FillUnderWay

(* An empty assignment, and the construction of an empty vector.           *)
LEMMA AssignEmptyIsEmpty ==
  ASSUME IInv, NEW v \in Vectors, AssignEmpty(v)
  PROVE  Abstract!Empty(v)
<1>1. Idle /\ Clear(v) /\ alive' = alive \cup {v}
  BY DEF AssignEmpty
<1> DEFINE c == [w \in Vectors |-> Contents(w)']
<1>2. ItemsHeld' = [w \in Vectors |-> IF w \in alive' THEN c[w] ELSE Dead]
  BY DEF ItemsHeld
<1>3. c[v] = << >> /\ \A w \in Vectors : w # v => c[w] = Contents(w)
  BY <1>1, ClearIsSeen
<1> HIDE DEF c
<1>4. ItemsHeld' = [ItemsHeld EXCEPT ![v] = << >>]
  BY <1>1, <1>2, <1>3 DEF ItemsHeld
<1> QED
  BY <1>1, <1>4, ClearIsSeen DEF Abstract!Empty

(* A destroyed vector is dead.                                             *)
LEMMA DestroyIsDestroy ==
  ASSUME IInv, NEW v \in Vectors, Destroy(v)
  PROVE  Abstract!Destroy(v)
<1>1. Idle /\ v \in alive /\ Clear(v) /\ alive' = alive \ {v}
  BY DEF Destroy
<1> DEFINE c == [w \in Vectors |-> Contents(w)']
<1>2. ItemsHeld' = [w \in Vectors |-> IF w \in alive' THEN c[w] ELSE Dead]
  BY DEF ItemsHeld
<1>3. \A w \in Vectors : w # v => c[w] = Contents(w)
  BY <1>1, ClearIsSeen
<1> HIDE DEF c
<1>4. ItemsHeld' = [ItemsHeld EXCEPT ![v] = Dead]
  BY <1>1, <1>2, <1>3 DEF ItemsHeld
<1>5. v \in Abstract!Alive
  BY <1>1, AliveHoldItems DEF Idle
<1> QED
  BY <1>1, <1>4, <1>5, ClearIsSeen DEF Abstract!Destroy

(* Construction and assignment by a move look the same from outside, also  *)
(* when the assignment deletes the old items under a wrong count.          *)
LEMMA MoveIsMove ==
  ASSUME IInv, NEW v \in Vectors, NEW u \in Vectors,
         MoveConstruct(v, u) \/ MoveAssign(v, u)
  PROVE  Abstract!Move(v, u)
<1> USE DEF IInv
<1>1. /\ guard = NoGuard /\ guard' = NoGuard /\ ~misfreed
      /\ u \in alive /\ u # v
      /\ alive' = alive \cup {v}
      /\ pointer' = [pointer EXCEPT ![v] = pointer[u], ![u] = Null]
      /\ count' = [count EXCEPT ![v] = count[u], ![u] = 0]
      /\ heap' = heap \/ heap' = Deleted(pointer[v])
  BY DEF MoveConstruct, MoveAssign, Idle, Delete, CountAfterMove
<1>2. \A w \in Vectors : w # v /\ pointer[w] # Null => heap'[pointer[w]] = heap[pointer[w]]
  BY <1>1, OthersKeepBuffers
<1>3. /\ pointer'[v] = pointer[u] /\ count'[v] = count[u]
      /\ pointer'[u] = Null
      /\ \A w \in Vectors \ {u, v} : pointer'[w] = pointer[w] /\ count'[w] = count[w]
  BY <1>1 DEF TypeOK
<1> DEFINE c == [w \in Vectors |-> Contents(w)']
<1>4. ItemsHeld' = [w \in Vectors |-> IF w \in alive' THEN c[w] ELSE Dead]
  BY DEF ItemsHeld
<1>5. /\ c[v] = Contents(u)
      /\ c[u] = << >>
      /\ \A w \in Vectors \ {u, v} : c[w] = Contents(w)
  <2>1. Contents(v)' = Contents(u)
    BY <1>1, <1>2, <1>3, SameContents
  <2>2. Contents(u)' = << >>
    BY <1>3 DEF Contents
  <2>3. \A w \in Vectors \ {u, v} : Contents(w)' = Contents(w)
    BY <1>2, <1>3, SameContents
  <2> QED
    BY <2>1, <2>2, <2>3
<1> HIDE DEF c
<1>6. ItemsHeld' = [ItemsHeld EXCEPT ![v] = ItemsHeld[u], ![u] = << >>]
  BY <1>1, <1>4, <1>5 DEF ItemsHeld
<1>7. u \in Abstract!Alive
  BY <1>1, AliveHoldItems
<1> QED
  BY <1>1, <1>6, <1>7 DEF Abstract!Move, FillUnderWay

(* Two vectors exchange their items.                                       *)
LEMMA SwapIsSwap ==
  ASSUME IInv, NEW v \in Vectors, NEW u \in Vectors, Swap(v, u)
  PROVE  Abstract!Swap(v, u)
<1> USE DEF IInv
<1>1. /\ guard = NoGuard /\ guard' = NoGuard /\ ~misfreed
      /\ v \in alive /\ u \in alive
      /\ alive' = alive /\ heap' = heap
      /\ pointer' = [pointer EXCEPT ![v] = pointer[u], ![u] = pointer[v]]
      /\ count' = [count EXCEPT ![v] = count[u], ![u] = count[v]]
  BY DEF Swap, SwappedCounts, Idle
<1> DEFINE c == [w \in Vectors |-> Contents(w)']
<1>2. ItemsHeld' = [w \in Vectors |-> IF w \in alive' THEN c[w] ELSE Dead]
  BY DEF ItemsHeld
<1>3. /\ c[v] = Contents(u)
      /\ c[u] = Contents(v)
      /\ \A w \in Vectors \ {u, v} : c[w] = Contents(w)
  BY <1>1 DEF Contents, TypeOK
<1> HIDE DEF c
<1>4. ItemsHeld' = [ItemsHeld EXCEPT ![v] = ItemsHeld[u], ![u] = ItemsHeld[v]]
  BY <1>1, <1>2, <1>3 DEF ItemsHeld
<1>5. {v, u} \subseteq Abstract!Alive
  BY <1>1, AliveHoldItems
<1> QED
  BY <1>1, <1>4, <1>5 DEF Abstract!Swap, FillUnderWay

------------------------------------------------------------------------------
(* No vector is alive at first.                                            *)
LEMMA InitRefines == Init => Abstract!Init
BY DEF Init, Abstract!Init, ItemsHeld, FillUnderWay

(* Every step is an abstract step or is not seen.                          *)
LEMMA NextRefines == IInv /\ [Next]_vars => [Abstract!Next]_(Abstract!vars)
<1> SUFFICES ASSUME IInv, [Next]_vars
             PROVE  Abstract!Next \/ UNCHANGED Abstract!vars
  OBVIOUS
<1>1. ASSUME UNCHANGED <<alive, pointer, count, heap, guard>>
      PROVE  UNCHANGED Abstract!vars
  BY <1>1 DEF Abstract!vars, ItemsHeld, FillUnderWay, SourceItems, Contents
<1>2. CASE UNCHANGED vars
  BY <1>1, <1>2 DEF vars
<1>3. CASE EmplaceBack
  BY <1>3, EmplaceBackIsUnseen
<1>4. CASE EmplaceThrows
  BY <1>4, EmplaceThrowsIsThrow DEF Abstract!Next
<1>5. CASE AcceptBuffer
  BY <1>5, AcceptBufferIsReturn DEF Abstract!Next
<1>6. ASSUME NEW v \in Vectors, NEW s \in Sources, AssignBegin(v, s)
      PROVE  Abstract!Next
  BY <1>6, MakeBufferIsFill DEF AssignBegin, Sources
<1>7. ASSUME NEW v \in Vectors, AssignEmpty(v) \/ Destroy(v)
      PROVE  Abstract!Next
  BY <1>7, AssignEmptyIsEmpty, DestroyIsDestroy DEF Abstract!Next
<1>8. ASSUME NEW v \in Vectors, NEW u \in Vectors,
             CopyAssignBegin(v, u) \/ MoveConstruct(v, u) \/ MoveAssign(v, u) \/ Swap(v, u)
      PROVE  Abstract!Next
  <2>1. CASE CopyAssignBegin(v, u)
    BY <2>1, MakeBufferIsFill DEF CopyAssignBegin
  <2>2. CASE MoveConstruct(v, u) \/ MoveAssign(v, u)
    BY <2>2, MoveIsMove DEF Abstract!Next
  <2>3. CASE Swap(v, u)
    BY <2>3, SwapIsSwap DEF Abstract!Next
  <2> QED
    BY <1>8, <2>1, <2>2, <2>3
<1>9. ASSUME NEW v \in Vectors, NEW n \in 0 .. MaxSize, ResizeAborts(v, n)
      PROVE  UNCHANGED Abstract!vars
  BY <1>1, <1>9 DEF ResizeAborts
<1> QED
  BY <1>2, <1>3, <1>4, <1>5, <1>6, <1>7, <1>8, <1>9 DEF Next

(* Vectors of any number and size keep the strong guarantee: a fill has    *)
(* all its effect or, when it throws, none, a self-assignment included.    *)
THEOREM Refinement == Spec => ImplementsVector
  BY InitIInv, NextIInv, InitRefines, NextRefines, PTL
  DEF Spec, ImplementsVector, Abstract!Spec

==============================================================================
