--------------------------- MODULE CodeView_proofs ----------------------------
(***************************************************************************)
(* Proofs about CodeView, for any width of a word, any length of a table   *)
(* and any bodies.  In order: the bytes the parser writes of a body, and   *)
(* where its instructions begin; which handler an opcode has and what it   *)
(* does to the stack; what visit_op_impl, visit_opcode and execute do with *)
(* an opcode; the inductive invariant; the properties.                     *)
(***************************************************************************)
EXTENDS CodeView, SequenceTheorems, WellFoundedInduction, TLAPS

------------------------------------------------------------------------------
(* Induction over a set, and functions defined by recursion.               *)

LEMMA Least ==
  ASSUME NEW T \in SUBSET Nat, T # {}
  PROVE  \E n \in T : \A m \in T : n <= m
<1> DEFINE R == {ss \in Nat \X Nat : ss[1] < ss[2]}
<1>1. IsWellFoundedOn(R, Nat)
  BY NatLessThanWellFounded DEF OpToRel
<1>2. \E n \in T : \A m \in T : <<m, n>> \notin R
  <2> HIDE DEF R
  <2> QED
    BY <1>1, WFMin
<1>3. PICK n \in T : \A m \in T : <<m, n>> \notin R
  BY <1>2
<1>4. ASSUME NEW m \in T PROVE n <= m
  <2>1. <<m, n>> \in Nat \X Nat /\ <<m, n>>[1] = m /\ <<m, n>>[2] = n
    OBVIOUS
  <2>2. ~(<<m, n>>[1] < <<m, n>>[2])
    BY <1>3, <2>1
  <2> QED
    BY <2>2
<1> QED
  BY <1>4

LEMMA SetInduction ==
  ASSUME NEW top \in Nat, NEW T, 0 \in T,
         \A n \in Nat : n < top /\ n \in T => n + 1 \in T
  PROVE  \A n \in 0 .. top : n \in T
<1> SUFFICES ASSUME NEW k \in 0 .. top, k \notin T PROVE FALSE
  OBVIOUS
<1> DEFINE U == {n \in 0 .. top : n \notin T}
<1>1. PICK n \in U : \A m \in U : n <= m
  <2>1. U \in SUBSET Nat /\ U # {}
    OBVIOUS
  <2> HIDE DEF U
  <2> QED
    BY <2>1, Least
<1>2. n # 0 /\ n - 1 \in 0 .. top /\ n - 1 \in Nat /\ n - 1 < top /\ n - 1 + 1 = n
  OBVIOUS
<1>3. n - 1 \in T
  BY <1>1, <1>2
<1> QED
  BY <1>2, <1>3

Steps(top, X) == [1 .. top -> [X -> X]]
Recursive(f, top, X, base, g) ==
  /\ f \in [0 .. top -> X]
  /\ \A n \in 0 .. top : f[n] = IF n = 0 THEN base ELSE g[n][f[n - 1]]

LEMMA Recursion ==
  ASSUME NEW top \in Nat, NEW X, NEW base \in X, NEW g \in Steps(top, X)
  PROVE  \E f : Recursive(f, top, X, base, g)
<1> DEFINE Upto(f, n) == \A k \in 0 .. n : f[k] = IF k = 0 THEN base ELSE g[k][f[k - 1]]
           T == {n \in 0 .. top : \E f \in [0 .. n -> X] : Upto(f, n)}
<1>1. 0 \in T
  <2> DEFINE f == [n \in 0 .. 0 |-> base]
  <2>1. f \in [0 .. 0 -> X] /\ \A k \in 0 .. 0 : k = 0 /\ f[k] = base
    OBVIOUS
  <2> HIDE DEF f
  <2> QED
    BY <2>1
<1>2. ASSUME NEW n \in Nat, n < top, n \in T PROVE n + 1 \in T
  <2>1. PICK f \in [0 .. n -> X] : Upto(f, n)
    BY <1>2
  <2>0. g \in [1 .. top -> [X -> X]]
    BY DEF Steps
  <2>2. n + 1 \in 1 .. top /\ n + 1 \in 0 .. top /\ n \in 0 .. n
    BY <1>2
  <2> DEFINE new == g[n + 1][f[n]]
             h == [k \in 0 .. n + 1 |-> IF k = n + 1 THEN new ELSE f[k]]
  <2>3. new \in X
    BY <2>0, <2>1, <2>2
  <2> HIDE DEF new
  <2>4. h \in [0 .. n + 1 -> X]
    BY <2>3
  <2>5. ASSUME NEW k \in 0 .. n + 1
        PROVE  h[k] = IF k = 0 THEN base ELSE g[k][h[k - 1]]
    <3>1. CASE k = n + 1
      <4>1. k # 0 /\ k - 1 = n /\ h[k] = new /\ h[k - 1] = f[n]
        BY <3>1
      <4> QED
        BY <3>1, <4>1 DEF new
    <3>2. CASE k = 0
      <4>1. f[0] = base /\ k # n + 1
        BY <2>1, <3>2
      <4> QED
        BY <3>2, <4>1
    <3>3. CASE k \in 1 .. n
      <4>1. k \in 0 .. n /\ k # 0 /\ k - 1 \in 0 .. n + 1 /\ k - 1 # n + 1 /\ k # n + 1
        BY <3>3
      <4>2. h[k] = f[k] /\ h[k - 1] = f[k - 1]
        BY <4>1
      <4>3. f[k] = g[k][f[k - 1]]
        BY <2>1, <4>1
      <4> QED
        BY <4>1, <4>2, <4>3
    <3> QED
      BY <3>1, <3>2, <3>3
  <2> HIDE DEF h
  <2> QED
    BY <2>2, <2>4, <2>5
<1>3. top \in T
  <2> HIDE DEF T
  <2>1. top \in 0 .. top
    OBVIOUS
  <2> QED
    BY <1>1, <1>2, <2>1, SetInduction
<1> QED
  BY <1>3 DEF Recursive

------------------------------------------------------------------------------
(* What FlattenSeq returns.                                                *)

(* The partial results of a flattening. *)
IsFlattening(f, T, seqs) ==
  /\ f \in [0 .. Len(seqs) -> Seq(T)]
  /\ f[0] = << >>
  /\ \A n \in 1 .. Len(seqs) : f[n] = f[n - 1] \o seqs[n]

LEMMA FlattenExists ==
  ASSUME NEW T, NEW seqs \in Seq(Seq(T))
  PROVE  \E f : IsFlattening(f, T, seqs) /\ FlattenSeq(seqs) = f[Len(seqs)]
<1> DEFINE N == Len(seqs)
           step == [n \in 1 .. N |-> [x \in Seq(T) |-> x \o seqs[n]]]
<1>1. N \in Nat /\ << >> \in Seq(T) /\ DOMAIN seqs = 1 .. N /\ \A n \in 1 .. N : seqs[n] \in Seq(T)
  OBVIOUS
<1>2. step \in Steps(N, Seq(T))
  <2>1. ASSUME NEW n \in 1 .. N, NEW x \in Seq(T) PROVE x \o seqs[n] \in Seq(T)
    BY <1>1, ConcatProperties
  <2> HIDE DEF N
  <2> QED
    BY <2>1 DEF Steps
<1>3. PICK f : Recursive(f, N, Seq(T), << >>, step)
  <2> HIDE DEF N, step
  <2> QED
    BY <1>1, <1>2, Recursion, Zenon
<1>4. IsFlattening(f, T, seqs)
  <2>1. f \in [0 .. N -> Seq(T)] /\ f[0] = << >>
    <3> HIDE DEF step
    <3> QED
      BY <1>1, <1>3 DEF Recursive
  <2>2. ASSUME NEW n \in 1 .. N PROVE f[n] = f[n - 1] \o seqs[n]
    <3>1. n \in 0 .. N /\ n - 1 \in 0 .. N /\ n # 0
      BY <1>1
    <3>2. f[n] = step[n][f[n - 1]]
      <4> HIDE DEF step
      <4> QED
        BY <1>3, <3>1 DEF Recursive
    <3>3. f[n - 1] \in Seq(T)
      BY <2>1, <3>1
    <3> QED
      BY <3>2, <3>3
  <2> QED
    BY <2>1, <2>2 DEF IsFlattening
<1>5. CASE N = 0
  <2>1. seqs = << >> /\ FlattenSeq(seqs) = seqs
    BY <1>5 DEF FlattenSeq
  <2> QED
    BY <1>4, <1>5, <2>1 DEF IsFlattening
<1>6. CASE N # 0
  <2> DEFINE h == [i \in 1 .. N |-> f[i]]
             flatten[i \in 1 .. N] == IF i = 1 THEN seqs[i] ELSE flatten[i - 1] \o seqs[i]
  <2>1. h = [i \in 1 .. N |-> IF i = 1 THEN seqs[i] ELSE h[i - 1] \o seqs[i]]
    <3>1. ASSUME NEW i \in 1 .. N
          PROVE  h[i] = IF i = 1 THEN seqs[i] ELSE h[i - 1] \o seqs[i]
      <4>1. CASE i = 1
        <5>1. f[1] = << >> \o seqs[1] /\ seqs[1] \in Seq(T) /\ 1 - 1 = 0
          BY <1>1, <1>4, <4>1, SMTT(30) DEF IsFlattening
        <5>2. << >> \o seqs[1] = seqs[1]
          BY <5>1, ConcatEmptySeq
        <5> QED
          BY <4>1, <5>1, <5>2
      <4>2. CASE i # 1
        <5>1. i - 1 \in 1 .. N
          BY <1>1, <4>2
        <5> QED
          BY <1>4, <4>2, <5>1 DEF IsFlattening
      <4> QED
        BY <4>1, <4>2
    <3> HIDE DEF N
    <3> QED
      BY <3>1
  <2>2. flatten = [i \in 1 .. N |-> IF i = 1 THEN seqs[i] ELSE flatten[i - 1] \o seqs[i]]
    BY <2>1
  <2>3. FlattenSeq(seqs) = flatten[N]
    BY <1>6 DEF FlattenSeq
  <2> HIDE DEF flatten
  <2> DEFINE Same == {n \in 0 .. N : n # 0 => flatten[n] = f[n]}
  <2>4. 0 \in Same
    BY <1>1
  <2>0. \A n \in 1 .. N : f[n] = f[n - 1] \o seqs[n]
    BY <1>4 DEF IsFlattening
  <2>7. \A n \in 1 .. N : flatten[n] = IF n = 1 THEN seqs[n] ELSE flatten[n - 1] \o seqs[n]
    <3> HIDE DEF N
    <3> QED
      BY <2>2
  <2>5. ASSUME NEW n \in Nat, n < N, n \in Same PROVE n + 1 \in Same
    <3>1. n + 1 \in 1 .. N /\ n + 1 - 1 = n /\ n + 1 \in 0 .. N
      BY <1>1, <2>5
    <3>2. f[n + 1] = f[n] \o seqs[n + 1]
      <4> DEFINE k == n + 1
      <4>1. k \in 1 .. N /\ k - 1 = n
        BY <3>1
      <4>2. f[k] = f[k - 1] \o seqs[k]
        <5> HIDE DEF k, N
        <5> QED
          BY <2>0, <4>1
      <4>3. f[k] = f[n] \o seqs[k]
        <5> HIDE DEF k
        <5> QED
          BY <4>1, <4>2
      <4> QED
        BY <4>3
    <3>3. flatten[n + 1] = IF n + 1 = 1 THEN seqs[n + 1] ELSE flatten[n] \o seqs[n + 1]
      <4>1. flatten[n + 1] = IF n + 1 = 1 THEN seqs[n + 1] ELSE flatten[n + 1 - 1] \o seqs[n + 1]
        <5> HIDE DEF N
        <5> QED
          BY <2>7, <3>1
      <4> QED
        BY <3>1, <4>1
    <3>4. CASE n = 0
      <4>0. f[0] = << >> /\ n + 1 = 1 /\ seqs[1] \in Seq(T)
        BY <1>1, <1>4, <3>1, <3>4 DEF IsFlattening
      <4>1. f[1] = << >> \o seqs[1] /\ seqs[1] \in Seq(T)
        BY <3>2, <3>4, <4>0
      <4>2. << >> \o seqs[1] = seqs[1]
        BY <4>1, ConcatEmptySeq
      <4> QED
        BY <3>1, <3>3, <3>4, <4>1, <4>2
    <3>5. CASE n # 0
      <4>1. flatten[n] = f[n] /\ n + 1 # 1
        BY <2>5, <3>5
      <4>2. flatten[n + 1] = f[n + 1]
        BY <3>2, <3>3, <4>1
      <4> QED
        BY <3>1, <4>2
    <3> QED
      BY <3>4, <3>5
  <2>6. N \in Same
    <3>1. N \in 0 .. N
      BY <1>1
    <3> HIDE DEF N, Same
    <3> QED
      BY <1>1, <2>4, <2>5, <3>1, SetInduction
  <2> QED
    BY <1>4, <1>6, <2>3, <2>6
<1> QED
  BY <1>5, <1>6

LEMMA FlattenPrefix ==
  ASSUME NEW T, NEW seqs \in Seq(Seq(T)), NEW f, IsFlattening(f, T, seqs),
         NEW n \in 0 .. Len(seqs)
  PROVE  FlattenSeq(SubSeq(seqs, 1, n)) = f[n]
<1> DEFINE s == SubSeq(seqs, 1, n)
<1>1. Len(seqs) \in Nat /\ n \in Nat
  OBVIOUS
<1>2. s \in Seq(Seq(T)) /\ Len(s) = n /\ \A k \in 1 .. n : s[k] = seqs[k]
  <2>1. \A k \in 1 .. n : seqs[k] \in Seq(T)
    OBVIOUS
  <2> QED
    BY <1>1, <2>1, SubSeqProperties
<1> HIDE DEF s
<1>3. PICK g : IsFlattening(g, T, s) /\ FlattenSeq(s) = g[Len(s)]
  BY <1>2, FlattenExists
<1>4. g[0] = << >> /\ \A k \in 1 .. n : g[k] = g[k - 1] \o seqs[k]
  BY <1>2, <1>3 DEF IsFlattening
<1>5. f[0] = << >> /\ \A k \in 1 .. n : f[k] = f[k - 1] \o seqs[k]
  <2>1. f[0] = << >> /\ \A k \in 1 .. Len(seqs) : f[k] = f[k - 1] \o seqs[k]
    BY DEF IsFlattening
  <2>2. \A k \in 1 .. n : k \in 1 .. Len(seqs)
    BY <1>1
  <2> QED
    BY <2>1, <2>2
<1> DEFINE Same == {k \in 0 .. n : g[k] = f[k]}
<1>6. 0 \in Same
  BY <1>1, <1>4, <1>5
<1>7. ASSUME NEW k \in Nat, k < n, k \in Same PROVE k + 1 \in Same
  <2> DEFINE j == k + 1
  <2>1. j \in 1 .. n /\ j \in 0 .. n /\ j - 1 = k
    BY <1>1, <1>7
  <2> HIDE DEF j
  <2>2. g[k] = f[k]
    BY <1>7
  <2>3. g[j] = f[j]
    BY <1>4, <1>5, <2>1, <2>2
  <2> QED
    BY <2>1, <2>3 DEF j
<1>8. n \in Same
  <2>1. n \in 0 .. n
    BY <1>1
  <2> HIDE DEF Same
  <2> QED
    BY <1>1, <1>6, <1>7, <2>1, SetInduction
<1> QED
  BY <1>2, <1>3, <1>8 DEF s

LEMMA FlattenStep ==
  ASSUME NEW T, NEW seqs \in Seq(Seq(T))
  PROVE  /\ \A n \in 0 .. Len(seqs) : FlattenSeq(SubSeq(seqs, 1, n)) \in Seq(T)
         /\ FlattenSeq(SubSeq(seqs, 1, 0)) = << >>
         /\ \A n \in 1 .. Len(seqs) :
              FlattenSeq(SubSeq(seqs, 1, n)) = FlattenSeq(SubSeq(seqs, 1, n - 1)) \o seqs[n]
         /\ FlattenSeq(seqs) = FlattenSeq(SubSeq(seqs, 1, Len(seqs)))
<1>1. PICK f : IsFlattening(f, T, seqs)
  BY FlattenExists
<1>2. Len(seqs) \in Nat
  OBVIOUS
<1>3. \A n \in 0 .. Len(seqs) : FlattenSeq(SubSeq(seqs, 1, n)) = f[n]
  BY <1>1, FlattenPrefix
<1>4. FlattenSeq(seqs) = FlattenSeq(SubSeq(seqs, 1, Len(seqs)))
  BY SubSeqFull
<1>5. \A n \in 0 .. Len(seqs) : f[n] \in Seq(T)
  BY <1>1 DEF IsFlattening
<1>6. ASSUME NEW n \in 1 .. Len(seqs)
      PROVE  FlattenSeq(SubSeq(seqs, 1, n)) = FlattenSeq(SubSeq(seqs, 1, n - 1)) \o seqs[n]
  <2>1. n \in 0 .. Len(seqs) /\ n - 1 \in 0 .. Len(seqs)
    BY <1>2
  <2>2. f[n] = f[n - 1] \o seqs[n]
    BY <1>1 DEF IsFlattening
  <2>3. FlattenSeq(SubSeq(seqs, 1, n)) = f[n] /\ FlattenSeq(SubSeq(seqs, 1, n - 1)) = f[n - 1]
    BY <1>3, <2>1
  <2> QED
    BY <2>2, <2>3
<1>7. FlattenSeq(SubSeq(seqs, 1, 0)) = << >>
  BY <1>1, <1>2, <1>3 DEF IsFlattening
<1> QED
  BY <1>3, <1>4, <1>5, <1>6, <1>7

(* Flattenings of no sequence, of one and of two. *)
LEMMA FlattenEmpty == FlattenSeq(<< >>) = << >>
BY DEF FlattenSeq

LEMMA FlattenSmall ==
  ASSUME NEW T, NEW a \in Seq(T), NEW b \in Seq(T)
  PROVE  FlattenSeq(<< a >>) = a /\ FlattenSeq(<< a, b >>) = a \o b
<1>2. FlattenSeq(<< a >>) = a
  <2> DEFINE s == << a >>
  <2>1. s \in Seq(Seq(T)) /\ Len(s) = 1 /\ s[1] = a
    OBVIOUS
  <2> HIDE DEF s
  <2>2. FlattenSeq(s) = FlattenSeq(SubSeq(s, 1, 0)) \o s[1] /\ FlattenSeq(SubSeq(s, 1, 0)) = << >>
    <3>1. 1 \in 1 .. Len(s) /\ 1 - 1 = 0
      BY <2>1
    <3> QED
      BY <2>1, <3>1, FlattenStep
  <2> QED
    BY <2>1, <2>2, ConcatEmptySeq DEF s
<1>3. FlattenSeq(<< a, b >>) = a \o b
  <2> DEFINE s == << a, b >>
  <2>1. s \in Seq(Seq(T)) /\ Len(s) = 2 /\ s[1] = a /\ s[2] = b
    OBVIOUS
  <2> HIDE DEF s
  <2>2. /\ FlattenSeq(s) = FlattenSeq(SubSeq(s, 1, 1)) \o b
        /\ FlattenSeq(SubSeq(s, 1, 1)) = FlattenSeq(SubSeq(s, 1, 0)) \o a
        /\ FlattenSeq(SubSeq(s, 1, 0)) = << >>
    <3>1. 1 \in 1 .. Len(s) /\ 1 - 1 = 0 /\ 2 \in 1 .. Len(s) /\ 2 - 1 = 1
      BY <2>1
    <3> QED
      BY <2>1, <3>1, FlattenStep
  <2> QED
    BY <2>2, ConcatEmptySeq DEF s
<1> QED
  BY <1>2, <1>3

------------------------------------------------------------------------------
(* The bytes of an instruction.                                            *)

LEMMA OpcodeNumbers ==
  /\ BLOCK = 2 /\ LOOP = 3 /\ IF_ = 4 /\ ELSE_ = 5 /\ END = 11 /\ BR = 12 /\ BR_IF = 13
  /\ BR_TABLE = 14 /\ RETURN = 15 /\ CALL = 16 /\ CALL_INDIRECT = 17 /\ DROP = 26 /\ SELECT = 27
  /\ GET_LOCAL = 32 /\ SET_LOCAL = 33 /\ TEE_LOCAL = 34 /\ GET_GLOBAL = 35 /\ SET_GLOBAL = 36
  /\ I32_LOAD = 40 /\ I64_STORE32 = 62 /\ CURRENT_MEMORY = 63 /\ GROW_MEMORY = 64
  /\ I32_CONST = 65 /\ I64_CONST = 66 /\ F32_CONST = 67 /\ F64_CONST = 68 /\ I32_EQZ = 69
  /\ DEMOTE = 182
BY DEF BLOCK, LOOP, IF_, ELSE_, END, BR, BR_IF, BR_TABLE, RETURN, CALL, CALL_INDIRECT, DROP, SELECT,
       GET_LOCAL, SET_LOCAL, TEE_LOCAL, GET_GLOBAL, SET_GLOBAL, I32_LOAD, I64_STORE32,
       CURRENT_MEMORY, GROW_MEMORY, I32_CONST, I64_CONST, F32_CONST, F64_CONST, I32_EQZ, DEMOTE

OpCell(op) == [f |-> "op", b |-> op]

Structured == {BLOCK, LOOP, IF_}
OneWord == WordOps \ {ELSE_, CALL_INDIRECT}
Short == {I32_CONST, F32_CONST}
Long == {I64_CONST, F64_CONST}
Sized == {CURRENT_MEMORY, GROW_MEMORY}
WithOperands ==
  Structured \cup OneWord \cup {CALL_INDIRECT, BR_TABLE} \cup Memory \cup Short \cup Long \cup Sized

(* The bytes of the first operand, and of all. *)
FirstWidth(op) ==
  IF op \in Long THEN 2 * W ELSE IF op \in Sized THEN 1 ELSE W
Width(op) ==
  CASE op \in Structured \cup {CALL_INDIRECT} -> W + 1
    [] op = BR_TABLE -> W + (TableLen + 1) * W
    [] op \in Memory -> W + W
    [] OTHER -> FirstWidth(op)

(* The names of operands. *)
Names == {"label", "sig", "index", "reserved", "count", "depths", "flags", "offset", "value"}

Cell == [f : Names \cup {"op"}, b : Int]

(* The first cell of a field says what it is, and how long a label is. *)
IsField(word) ==
  /\ word \in Seq(Cell)
  /\ Len(word) >= 1
  /\ word[1].f \in Names /\ word[1].b = 0
  /\ \A i \in 1 .. Len(word) : word[i].f # "op"
  /\ word[1].f = "label" => Len(word) = W

LEMMA FieldFacts ==
  ASSUME NEW name \in Names, NEW width \in Nat \ {0}, name = "label" => width = W
  PROVE  IsField(Field(name, width)) /\ Len(Field(name, width)) = width
<1>1. name # "op"
  BY DEF Names
<1>2. \A i \in 1 .. width : [f |-> name, b |-> i - 1] \in Cell
  BY <1>1 DEF Cell
<1> DEFINE word == Field(name, width)
<1>3. /\ word \in Seq(Cell) /\ Len(word) = width
      /\ \A i \in 1 .. width : word[i] = [f |-> name, b |-> i - 1]
  BY <1>2 DEF Field
<1> HIDE DEF word
<1>4. 1 \in 1 .. width
  OBVIOUS
<1>5. word[1] = [f |-> name, b |-> 0]
  BY <1>3, <1>4
<1> QED
  BY <1>1, <1>3, <1>5 DEF IsField, word

LEMMA WordWidths ==
  /\ W \in Nat /\ W >= 2
  /\ (TableLen + 1) * W \in Nat \ {0}
  /\ 2 * W = W + W
<1>1. W \in Nat /\ W >= 2 /\ TableLen \in Nat
  BY WAssumption, TableLenAssumption
<1>2. TableLen * W \in Nat /\ (TableLen + 1) * W = TableLen * W + W
  BY <1>1
<1> QED
  BY <1>1, <1>2

(* No opcode has two layouts. *)
LEMMA OneLayout ==
  ASSUME NEW op
  PROVE
    /\ op \in Structured =>
         /\ op \in WithOperands /\ op \notin OneWord /\ op # CALL_INDIRECT /\ op # BR_TABLE
         /\ op \notin Memory /\ op \notin Short /\ op \notin Long /\ op \notin Sized
    /\ op \in OneWord =>
         /\ op \in WithOperands /\ op \notin Structured /\ op # CALL_INDIRECT /\ op # BR_TABLE
         /\ op \notin Memory /\ op \notin Short /\ op \notin Long /\ op \notin Sized
    /\ op = CALL_INDIRECT =>
         /\ op \in WithOperands /\ op \notin Structured /\ op \notin OneWord /\ op # BR_TABLE
         /\ op \notin Memory /\ op \notin Short /\ op \notin Long /\ op \notin Sized
    /\ op = BR_TABLE =>
         /\ op \in WithOperands /\ op \notin Structured /\ op \notin OneWord /\ op # CALL_INDIRECT
         /\ op \notin Memory /\ op \notin Short /\ op \notin Long /\ op \notin Sized
    /\ op \in Memory =>
         /\ op \in WithOperands /\ op \notin Structured /\ op \notin OneWord /\ op # CALL_INDIRECT
         /\ op # BR_TABLE /\ op \notin Short /\ op \notin Long /\ op \notin Sized
    /\ op \in Short =>
         /\ op \in WithOperands /\ op \notin Structured /\ op \notin OneWord /\ op # CALL_INDIRECT
         /\ op # BR_TABLE /\ op \notin Memory /\ op \notin Long /\ op \notin Sized
    /\ op \in Long =>
         /\ op \in WithOperands /\ op \notin Structured /\ op \notin OneWord /\ op # CALL_INDIRECT
         /\ op # BR_TABLE /\ op \notin Memory /\ op \notin Short /\ op \notin Sized
    /\ op \in Sized =>
         /\ op \in WithOperands /\ op \notin Structured /\ op \notin OneWord /\ op # CALL_INDIRECT
         /\ op # BR_TABLE /\ op \notin Memory /\ op \notin Short /\ op \notin Long
BY OpcodeNumbers DEF WithOperands, Structured, OneWord, WordOps, Memory, Loads, Stores, Short, Long, Sized

(* The operands of an opcode, by its layout. *)
LEMMA OperandsFacts ==
  ASSUME NEW op
  PROVE  /\ op \notin WithOperands => Operands(op) = << >>
         /\ op \in WithOperands =>
              \E a : /\ IsField(a) /\ Len(a) = FirstWidth(op)
                     /\ \/ Operands(op) = << a >> /\ Width(op) = Len(a)
                        \/ \E b : /\ IsField(b) /\ Operands(op) = << a, b >>
                                  /\ Width(op) = Len(a) + Len(b)
                     /\ op \in Structured => a[1] = [f |-> "label", b |-> 0]
<1>0. /\ W \in Nat \ {0} /\ 2 * W \in Nat \ {0} /\ 1 \in Nat \ {0} /\ (TableLen + 1) * W \in Nat \ {0}
      /\ 2 * W = W + W
  BY WordWidths
<1>1. CASE op \in Structured
  <2>0. op \in WithOperands /\ op \notin OneWord /\ op # CALL_INDIRECT /\ op # BR_TABLE
        /\ op \notin Memory /\ op \notin Short /\ op \notin Long /\ op \notin Sized
    BY <1>1, OneLayout
  <2>1. Operands(op) = << Field("label", W), Field("sig", 1) >>
    BY <1>1, <2>0 DEF Operands, Structured, OneWord, Short, Long, Sized
  <2>2. IsField(Field("label", W)) /\ Len(Field("label", W)) = W
    BY <1>0, FieldFacts DEF Names
  <2>3. IsField(Field("sig", 1)) /\ Len(Field("sig", 1)) = 1
    BY <1>0, FieldFacts DEF Names
  <2>4. FirstWidth(op) = W /\ Width(op) = W + 1
    BY <1>1, <2>0 DEF FirstWidth, Width
  <2>5. Field("label", W)[1] = [f |-> "label", b |-> 0]
    <3>1. 1 \in 1 .. W
      BY <1>0
    <3> QED
      BY <3>1 DEF Field
  <2> QED
    BY <2>0, <2>1, <2>2, <2>3, <2>4, <2>5
<1>2. CASE op \in OneWord
  <2>0. op \in WithOperands /\ op \notin Structured /\ op # CALL_INDIRECT /\ op # BR_TABLE
        /\ op \notin Memory /\ op \notin Short /\ op \notin Long /\ op \notin Sized
    BY <1>2, OneLayout
  <2>1. Operands(op) = << Field("index", W) >>
    BY <1>2, <2>0 DEF Operands, Structured, OneWord, Short, Long, Sized
  <2>2. IsField(Field("index", W)) /\ Len(Field("index", W)) = W
    BY <1>0, FieldFacts DEF Names
  <2>3. FirstWidth(op) = W /\ Width(op) = W
    BY <1>2, <2>0 DEF FirstWidth, Width
  <2> QED
    BY <2>0, <2>1, <2>2, <2>3
<1>3. CASE op = CALL_INDIRECT
  <2>0. op \in WithOperands /\ op \notin Structured /\ op \notin OneWord /\ op # BR_TABLE
        /\ op \notin Memory /\ op \notin Short /\ op \notin Long /\ op \notin Sized
    BY <1>3, OneLayout
  <2>1. Operands(op) = << Field("index", W), Field("reserved", 1) >>
    BY <1>3, <2>0 DEF Operands, Structured, OneWord, Short, Long, Sized
  <2>2. IsField(Field("index", W)) /\ Len(Field("index", W)) = W
    BY <1>0, FieldFacts DEF Names
  <2>3. IsField(Field("reserved", 1)) /\ Len(Field("reserved", 1)) = 1
    BY <1>0, FieldFacts DEF Names
  <2>4. FirstWidth(op) = W /\ Width(op) = W + 1
    BY <1>3, <2>0 DEF FirstWidth, Width
  <2> QED
    BY <2>0, <2>1, <2>2, <2>3, <2>4
<1>4. CASE op = BR_TABLE
  <2>0. op \in WithOperands /\ op \notin Structured /\ op \notin OneWord /\ op # CALL_INDIRECT
        /\ op \notin Memory /\ op \notin Short /\ op \notin Long /\ op \notin Sized
    BY <1>4, OneLayout
  <2>1. Operands(op) = << Field("count", W), Field("depths", (TableLen + 1) * W) >>
    BY <1>4, <2>0 DEF Operands, Structured, OneWord, Short, Long, Sized
  <2>2. IsField(Field("count", W)) /\ Len(Field("count", W)) = W
    BY <1>0, FieldFacts DEF Names
  <2>3. IsField(Field("depths", (TableLen + 1) * W)) /\ Len(Field("depths", (TableLen + 1) * W)) = (TableLen + 1) * W
    <3> DEFINE w == (TableLen + 1) * W
    <3>1. w \in Nat \ {0}
      BY <1>0
    <3> HIDE DEF w
    <3>2. IsField(Field("depths", w)) /\ Len(Field("depths", w)) = w
      BY <3>1, FieldFacts DEF Names
    <3> QED
      BY <3>2 DEF w
  <2>4. FirstWidth(op) = W /\ Width(op) = W + (TableLen + 1) * W
    BY <1>4, <2>0 DEF FirstWidth, Width
  <2> DEFINE w == (TableLen + 1) * W
  <2> HIDE DEF w
  <2> QED
    BY <2>0, <2>1, <2>2, <2>3, <2>4 DEF w
<1>5. CASE op \in Memory
  <2>0. op \in WithOperands /\ op \notin Structured /\ op \notin OneWord /\ op # CALL_INDIRECT /\ op # BR_TABLE
        /\ op \notin Short /\ op \notin Long /\ op \notin Sized
    BY <1>5, OneLayout
  <2>1. Operands(op) = << Field("flags", W), Field("offset", W) >>
    BY <1>5, <2>0 DEF Operands, Structured, OneWord, Short, Long, Sized
  <2>2. IsField(Field("flags", W)) /\ Len(Field("flags", W)) = W
    BY <1>0, FieldFacts DEF Names
  <2>3. IsField(Field("offset", W)) /\ Len(Field("offset", W)) = W
    BY <1>0, FieldFacts DEF Names
  <2>4. FirstWidth(op) = W /\ Width(op) = W + W
    BY <1>5, <2>0 DEF FirstWidth, Width
  <2> QED
    BY <2>0, <2>1, <2>2, <2>3, <2>4
<1>6. CASE op \in Short
  <2>0. op \in WithOperands /\ op \notin Structured /\ op \notin OneWord /\ op # CALL_INDIRECT /\ op # BR_TABLE
        /\ op \notin Memory /\ op \notin Long /\ op \notin Sized
    BY <1>6, OneLayout
  <2>1. Operands(op) = << Field("value", W) >>
    BY <1>6, <2>0 DEF Operands, Structured, OneWord, Short, Long, Sized
  <2>2. IsField(Field("value", W)) /\ Len(Field("value", W)) = W
    BY <1>0, FieldFacts DEF Names
  <2>3. FirstWidth(op) = W /\ Width(op) = W
    BY <1>6, <2>0 DEF FirstWidth, Width
  <2> QED
    BY <2>0, <2>1, <2>2, <2>3
<1>7. CASE op \in Long
  <2>0. op \in WithOperands /\ op \notin Structured /\ op \notin OneWord /\ op # CALL_INDIRECT /\ op # BR_TABLE
        /\ op \notin Memory /\ op \notin Short /\ op \notin Sized
    BY <1>7, OneLayout
  <2>1. Operands(op) = << Field("value", 2 * W) >>
    BY <1>7, <2>0 DEF Operands, Structured, OneWord, Short, Long, Sized
  <2>2. IsField(Field("value", 2 * W)) /\ Len(Field("value", 2 * W)) = 2 * W
    <3> DEFINE w == 2 * W
    <3>1. w \in Nat \ {0}
      BY <1>0
    <3> HIDE DEF w
    <3>2. IsField(Field("value", w)) /\ Len(Field("value", w)) = w
      BY <3>1, FieldFacts DEF Names
    <3> QED
      BY <3>2 DEF w
  <2>3. FirstWidth(op) = 2 * W /\ Width(op) = 2 * W
    BY <1>7, <2>0 DEF FirstWidth, Width
  <2> QED
    BY <2>0, <2>1, <2>2, <2>3
<1>8. CASE op \in Sized
  <2>0. op \in WithOperands /\ op \notin Structured /\ op \notin OneWord /\ op # CALL_INDIRECT /\ op # BR_TABLE
        /\ op \notin Memory /\ op \notin Short /\ op \notin Long
    BY <1>8, OneLayout
  <2>1. Operands(op) = << Field("reserved", 1) >>
    BY <1>8, <2>0 DEF Operands, Structured, OneWord, Short, Long, Sized
  <2>2. IsField(Field("reserved", 1)) /\ Len(Field("reserved", 1)) = 1
    BY <1>0, FieldFacts DEF Names
  <2>3. FirstWidth(op) = 1 /\ Width(op) = 1
    BY <1>8, <2>0 DEF FirstWidth, Width
  <2> QED
    BY <2>0, <2>1, <2>2, <2>3
<1>9. CASE op \notin WithOperands
  <2>1. Operands(op) = << >>
    BY <1>9 DEF Operands, WithOperands, Structured, OneWord, Short, Long, Sized
  <2> QED
    BY <1>9, <2>1
<1> QED
  BY <1>1, <1>2, <1>3, <1>4, <1>5, <1>6, <1>7, <1>8, <1>9 DEF WithOperands

(* The bytes of an instruction, and where its operands are. *)
Extent(op) == 1 + (IF op \in WithOperands THEN Width(op) ELSE 0)

LEMMA EncodedFacts ==
  ASSUME NEW op \in Bytes
  PROVE  /\ Encoded(op) \in Seq(Cell) /\ Len(Encoded(op)) = Extent(op)
         /\ Encoded(op)[1] = OpCell(op)
         /\ \A i \in 2 .. Extent(op) : Encoded(op)[i].f # "op"
         /\ op \in WithOperands =>
              /\ 1 \in DOMAIN Operands(op) /\ IsField(Operands(op)[1])
              /\ Len(Operands(op)[1]) = FirstWidth(op) /\ FirstWidth(op) < Extent(op)
              /\ \A i \in 1 .. FirstWidth(op) : Encoded(op)[i + 1] = Operands(op)[1][i]
         /\ op \in Structured => Encoded(op)[2] = [f |-> "label", b |-> 0]
<1> DEFINE h == << OpCell(op) >>
           t == FlattenSeq(Operands(op))
<1>1. h \in Seq(Cell) /\ Len(h) = 1 /\ h[1] = OpCell(op)
  BY DEF OpCell, Cell, Bytes
<1>2. Encoded(op) = h \o t
  BY DEF Encoded, OpCell
<1>3. ASSUME NEW tail \in Seq(Cell), t = tail
      PROVE  /\ Encoded(op) \in Seq(Cell) /\ Len(Encoded(op)) = 1 + Len(tail)
             /\ Len(tail) \in Nat
             /\ Encoded(op)[1] = OpCell(op)
             /\ \A i \in 1 .. Len(tail) : Encoded(op)[i + 1] = tail[i]
             /\ \A i \in 2 .. 1 + Len(tail) : Encoded(op)[i] = tail[i - 1]
  <2>1. Encoded(op) = h \o tail
    BY <1>2, <1>3
  <2>2. Len(tail) \in Nat
    OBVIOUS
  <2> HIDE DEF h, t
  <2>3. /\ h \o tail \in Seq(Cell) /\ Len(h \o tail) = Len(h) + Len(tail)
        /\ \A i \in 1 .. Len(h) + Len(tail) :
             (h \o tail)[i] = IF i <= Len(h) THEN h[i] ELSE tail[i - Len(h)]
    BY <1>1, ConcatProperties
  <2>4. \A i \in 1 .. 1 + Len(tail) : (h \o tail)[i] = IF i <= 1 THEN h[i] ELSE tail[i - 1]
    BY <1>1, <2>3
  <2>5. (h \o tail)[1] = OpCell(op)
    BY <1>1, <2>2, <2>4
  <2>6. ASSUME NEW i \in 1 .. Len(tail) PROVE (h \o tail)[i + 1] = tail[i]
    <3> DEFINE j == i + 1
    <3>1. j \in 1 .. 1 + Len(tail) /\ ~(j <= 1) /\ j - 1 = i
      BY <2>2
    <3> HIDE DEF j
    <3>2. (h \o tail)[j] = tail[i]
      BY <2>4, <3>1
    <3> QED
      BY <3>2 DEF j
  <2>7. ASSUME NEW i \in 2 .. 1 + Len(tail) PROVE (h \o tail)[i] = tail[i - 1]
    <3>1. i \in 1 .. 1 + Len(tail) /\ ~(i <= 1)
      BY <2>2
    <3> QED
      BY <2>4, <3>1
  <2> QED
    BY <1>1, <2>1, <2>2, <2>3, <2>5, <2>6, <2>7
<1>4. CASE op \notin WithOperands
  <2>1. Operands(op) = << >> /\ op \notin Structured
    BY <1>4, OperandsFacts DEF WithOperands
  <2> DEFINE e == << >>
  <2>2. t = e /\ e \in Seq(Cell) /\ Len(e) = 0
    BY <2>1, FlattenEmpty
  <2> HIDE DEF h, t, e
  <2>5. /\ Encoded(op) \in Seq(Cell) /\ Len(Encoded(op)) = 1 + Len(e)
        /\ Encoded(op)[1] = OpCell(op)
    BY <1>3, <2>2
  <2>3. /\ Encoded(op) \in Seq(Cell) /\ Len(Encoded(op)) = 1 /\ Encoded(op)[1] = OpCell(op)
    BY <2>2, <2>5
  <2>4. Extent(op) = 1
    BY <1>4 DEF Extent
  <2> QED
    BY <1>4, <2>1, <2>3, <2>4
<1>5. CASE op \in WithOperands
  <2>1. PICK a : /\ IsField(a) /\ Len(a) = FirstWidth(op)
                 /\ \/ Operands(op) = << a >> /\ Width(op) = Len(a)
                    \/ \E b : /\ IsField(b) /\ Operands(op) = << a, b >>
                              /\ Width(op) = Len(a) + Len(b)
                 /\ op \in Structured => a[1] = [f |-> "label", b |-> 0]
    BY <1>5, OperandsFacts
  <2>2. Len(a) \in Nat /\ Len(a) >= 1 /\ a \in Seq(Cell)
    BY <2>1 DEF IsField
  <2>3. PICK tail \in Seq(Cell) :
          /\ t = tail /\ Len(tail) = Width(op) /\ Len(tail) >= Len(a)
          /\ \A i \in 1 .. Len(a) : tail[i] = a[i]
          /\ \A i \in 1 .. Len(tail) : tail[i].f # "op"
          /\ 1 \in DOMAIN Operands(op) /\ Operands(op)[1] = a
    <3>1. CASE Operands(op) = << a >> /\ Width(op) = Len(a)
      <4>1. t = a
        BY <2>2, <3>1, FlattenSmall
      <4>2. \A i \in 1 .. Len(a) : a[i].f # "op"
        BY <2>1 DEF IsField
      <4>3. 1 \in DOMAIN << a >> /\ << a >>[1] = a
        OBVIOUS
      <4> HIDE DEF h, t
      <4> QED
        BY <2>2, <3>1, <4>1, <4>2, <4>3
    <3>2. ASSUME NEW b, IsField(b), Operands(op) = << a, b >>, Width(op) = Len(a) + Len(b)
          PROVE  \E tail \in Seq(Cell) :
                   /\ t = tail /\ Len(tail) = Width(op) /\ Len(tail) >= Len(a)
                   /\ \A i \in 1 .. Len(a) : tail[i] = a[i]
                   /\ \A i \in 1 .. Len(tail) : tail[i].f # "op"
                   /\ 1 \in DOMAIN Operands(op) /\ Operands(op)[1] = a
      <4>1. b \in Seq(Cell) /\ Len(b) \in Nat /\ Len(b) >= 1
        BY <3>2 DEF IsField
      <4>2. t = a \o b
        BY <2>2, <3>2, <4>1, FlattenSmall
      <4>3. /\ a \o b \in Seq(Cell) /\ Len(a \o b) = Len(a) + Len(b)
            /\ \A i \in 1 .. Len(a) + Len(b) :
                 (a \o b)[i] = IF i <= Len(a) THEN a[i] ELSE b[i - Len(a)]
        BY <2>2, <4>1, ConcatProperties
      <4>4. \A i \in 1 .. Len(a) : (a \o b)[i] = a[i]
        BY <2>2, <4>1, <4>3
      <4>5. ASSUME NEW i \in 1 .. Len(a) + Len(b) PROVE (a \o b)[i].f # "op"
        <5>1. \A j \in 1 .. Len(a) : a[j].f # "op"
          BY <2>1 DEF IsField
        <5>2. \A j \in 1 .. Len(b) : b[j].f # "op"
          BY <3>2 DEF IsField
        <5>3. i <= Len(a) => i \in 1 .. Len(a)
          BY <2>2
        <5>4. ~(i <= Len(a)) => i - Len(a) \in 1 .. Len(b)
          BY <2>2, <4>1
        <5> QED
          BY <4>3, <5>1, <5>2, <5>3, <5>4
      <4>6. 1 \in DOMAIN << a, b >> /\ << a, b >>[1] = a
        OBVIOUS
      <4> DEFINE c == a \o b
      <4>7. Len(c) = Width(op) /\ Len(c) >= Len(a) /\ c \in Seq(Cell)
        BY <2>2, <3>2, <4>1, <4>3
      <4>8. \A i \in 1 .. Len(c) : c[i].f # "op"
        BY <4>3, <4>5
      <4>9. 1 \in DOMAIN Operands(op) /\ Operands(op)[1] = a
        BY <3>2, <4>6
      <4> HIDE DEF h, t, c
      <4> QED
        <5>1. t = c /\ \A i \in 1 .. Len(a) : c[i] = a[i]
          BY <4>2, <4>4 DEF c
        <5> QED
          BY <4>7, <4>8, <4>9, <5>1
    <3> HIDE DEF h, t
    <3> QED
      BY <2>1, <3>1, <3>2
  <2> HIDE DEF h, t
  <2>4. /\ Encoded(op) \in Seq(Cell) /\ Len(Encoded(op)) = 1 + Len(tail)
        /\ Len(tail) \in Nat
        /\ Encoded(op)[1] = OpCell(op)
        /\ \A i \in 1 .. Len(tail) : Encoded(op)[i + 1] = tail[i]
        /\ \A i \in 2 .. 1 + Len(tail) : Encoded(op)[i] = tail[i - 1]
    BY <1>3, <2>3
  <2>5. Extent(op) = 1 + Len(tail)
    BY <1>5, <2>3 DEF Extent
  <2>6. ASSUME NEW i \in 2 .. Extent(op) PROVE Encoded(op)[i].f # "op"
    <3>1. i - 1 \in 1 .. Len(tail) /\ i \in 2 .. 1 + Len(tail)
      BY <2>4, <2>5
    <3> QED
      BY <2>3, <2>4, <3>1
  <2>7. \A i \in 1 .. FirstWidth(op) : Encoded(op)[i + 1] = Operands(op)[1][i]
    <3>1. \A i \in 1 .. Len(a) : i \in 1 .. Len(tail)
      BY <2>2, <2>3, <2>4
    <3> QED
      BY <2>1, <2>3, <2>4, <3>1
  <2>8. FirstWidth(op) < Extent(op)
    BY <2>1, <2>2, <2>3, <2>4, <2>5
  <2>9. ASSUME op \in Structured PROVE Encoded(op)[2] = [f |-> "label", b |-> 0]
    <3>1. 1 \in 1 .. Len(a) /\ 1 \in 1 .. Len(tail) /\ 1 + 1 = 2
      BY <2>2, <2>3, <2>4
    <3>2. Encoded(op)[1 + 1] = tail[1]
      BY <2>4, <3>1
    <3>3. tail[1] = a[1]
      BY <2>3, <3>1
    <3> QED
      BY <2>1, <2>9, <3>1, <3>2, <3>3
  <2> QED
    BY <1>5, <2>1, <2>3, <2>4, <2>5, <2>6, <2>7, <2>8, <2>9
<1> QED
  BY <1>4, <1>5

------------------------------------------------------------------------------
(* The bytes of a body.                                                    *)

CodeTo(s, n) == Code(SubSeq(s, 1, n))
At(s, n) == Len(CodeTo(s, n))

LEMMA CodeStep ==
  ASSUME NEW s \in Seq(Bytes)
  PROVE  /\ \A n \in 0 .. Len(s) : CodeTo(s, n) \in Seq(Cell) /\ At(s, n) \in Nat
         /\ At(s, 0) = 0
         /\ \A n \in 1 .. Len(s) : CodeTo(s, n) = CodeTo(s, n - 1) \o Encoded(s[n])
         /\ Code(s) = CodeTo(s, Len(s))
<1> DEFINE e == [i \in DOMAIN s |-> Encoded(s[i])]
<1>1. Len(s) \in Nat /\ DOMAIN s = 1 .. Len(s) /\ \A i \in 1 .. Len(s) : s[i] \in Bytes
  OBVIOUS
<1>2. \A i \in 1 .. Len(s) : Encoded(s[i]) \in Seq(Cell)
  BY <1>1, EncodedFacts
<1>3. /\ e \in Seq(Seq(Cell)) /\ Len(e) = Len(s)
      /\ \A i \in 1 .. Len(s) : e[i] = Encoded(s[i])
  BY <1>1, <1>2
<1> HIDE DEF e
<1>4. ASSUME NEW n \in 0 .. Len(s) PROVE CodeTo(s, n) = FlattenSeq(SubSeq(e, 1, n))
  <2> DEFINE r == SubSeq(s, 1, n)
             q == SubSeq(e, 1, n)
  <2>1. r \in Seq(Bytes) /\ Len(r) = n /\ \A i \in 1 .. n : r[i] = s[i]
    BY <1>1
  <2>2. q \in Seq(Seq(Cell)) /\ Len(q) = n /\ \A i \in 1 .. n : q[i] = e[i]
    BY <1>1, <1>3
  <2>3. q = [i \in 1 .. n |-> q[i]] /\ DOMAIN r = 1 .. n
    BY <2>1, <2>2
  <2>4. \A i \in 1 .. n : q[i] = Encoded(r[i])
    BY <1>1, <1>3, <2>1, <2>2
  <2> HIDE DEF r, q
  <2>5. q = [i \in DOMAIN r |-> Encoded(r[i])]
    BY <2>3, <2>4
  <2>6. Code(r) = FlattenSeq(q)
    BY <2>5 DEF Code
  <2> QED
    BY <2>6 DEF r, q, CodeTo
<1>5. /\ \A n \in 0 .. Len(s) : FlattenSeq(SubSeq(e, 1, n)) \in Seq(Cell)
      /\ FlattenSeq(SubSeq(e, 1, 0)) = << >>
      /\ \A n \in 1 .. Len(s) :
           FlattenSeq(SubSeq(e, 1, n)) = FlattenSeq(SubSeq(e, 1, n - 1)) \o Encoded(s[n])
  <2>1. /\ \A n \in 0 .. Len(e) : FlattenSeq(SubSeq(e, 1, n)) \in Seq(Cell)
        /\ FlattenSeq(SubSeq(e, 1, 0)) = << >>
        /\ \A n \in 1 .. Len(e) :
             FlattenSeq(SubSeq(e, 1, n)) = FlattenSeq(SubSeq(e, 1, n - 1)) \o e[n]
    BY <1>3, FlattenStep
  <2> QED
    BY <1>3, <2>1
<1>6. ASSUME NEW n \in 1 .. Len(s) PROVE CodeTo(s, n) = CodeTo(s, n - 1) \o Encoded(s[n])
  <2>1. n \in 0 .. Len(s) /\ n - 1 \in 0 .. Len(s)
    BY <1>1
  <2>2. CodeTo(s, n) = FlattenSeq(SubSeq(e, 1, n)) /\ CodeTo(s, n - 1) = FlattenSeq(SubSeq(e, 1, n - 1))
    BY <1>4, <2>1
  <2> QED
    BY <1>5, <2>2
<1>7. Code(s) = CodeTo(s, Len(s))
  BY SubSeqFull DEF CodeTo
<1>8. \A n \in 0 .. Len(s) : CodeTo(s, n) \in Seq(Cell)
  BY <1>4, <1>5
<1>9. \A n \in 0 .. Len(s) : At(s, n) \in Nat
  BY <1>8, LenProperties DEF At
<1>10. At(s, 0) = 0
  BY <1>1, <1>4, <1>5, EmptySeq DEF At
<1> QED
  BY <1>6, <1>7, <1>8, <1>9, <1>10

LEMMA CodeGrows ==
  ASSUME NEW s \in Seq(Bytes), NEW n \in 1 .. Len(s)
  PROVE  /\ At(s, n - 1) \in Nat /\ At(s, n) = At(s, n - 1) + Extent(s[n])
         /\ Extent(s[n]) \in Nat /\ Extent(s[n]) >= 1 /\ s[n] \in Bytes
         /\ \A i \in 1 .. At(s, n - 1) : CodeTo(s, n)[i] = CodeTo(s, n - 1)[i]
         /\ \A i \in 1 .. Extent(s[n]) : CodeTo(s, n)[At(s, n - 1) + i] = Encoded(s[n])[i]
<1>1. Len(s) \in Nat /\ s[n] \in Bytes /\ n - 1 \in 0 .. Len(s)
  OBVIOUS
<1> DEFINE a == CodeTo(s, n - 1)
           b == Encoded(s[n])
<1>2. a \in Seq(Cell) /\ b \in Seq(Cell) /\ Len(b) = Extent(s[n]) /\ b[1] = OpCell(s[n])
  BY <1>1, CodeStep, EncodedFacts
<1>3. CodeTo(s, n) = a \o b
  BY CodeStep
<1>4. Len(b) \in Nat /\ Len(b) >= 1
  <2>1. Len(b) = Extent(s[n]) /\ Len(b) \in Nat
    BY <1>2, LenProperties
  <2>2. CASE s[n] \in WithOperands
    <3>1. FirstWidth(s[n]) < Extent(s[n]) /\ Len(Operands(s[n])[1]) = FirstWidth(s[n])
          /\ IsField(Operands(s[n])[1])
      BY <1>1, <2>2, EncodedFacts
    <3>2. FirstWidth(s[n]) \in Nat
      BY <3>1, LenProperties DEF IsField
    <3> HIDE DEF b
    <3> QED
      BY <2>1, <3>1, <3>2
  <2>3. CASE s[n] \notin WithOperands
    BY <2>1, <2>3 DEF Extent
  <2> QED
    BY <2>2, <2>3
<1> HIDE DEF a, b
<1>5. /\ Len(a) \in Nat /\ Len(a \o b) = Len(a) + Len(b)
      /\ \A i \in 1 .. Len(a) + Len(b) : (a \o b)[i] = IF i <= Len(a) THEN a[i] ELSE b[i - Len(a)]
  BY <1>2, ConcatProperties, LenProperties
<1>6. \A i \in 1 .. Len(a) : (a \o b)[i] = a[i]
  <2>1. \A i \in 1 .. Len(a) : i \in 1 .. Len(a) + Len(b) /\ i <= Len(a)
    BY <1>4, <1>5
  <2> QED
    BY <1>5, <2>1
<1>7. ASSUME NEW i \in 1 .. Len(b) PROVE (a \o b)[Len(a) + i] = b[i]
  <2> DEFINE k == Len(a) + i
  <2>1. k \in 1 .. Len(a) + Len(b) /\ ~(k <= Len(a)) /\ k - Len(a) = i
    BY <1>4, <1>5
  <2> HIDE DEF k
  <2>2. (a \o b)[k] = b[i]
    BY <1>5, <2>1
  <2> QED
    BY <2>2 DEF k
<1>8. At(s, n - 1) = Len(a) /\ At(s, n) = Len(a \o b)
  BY <1>3 DEF At, a
<1>9. Extent(s[n]) = Len(b)
  BY <1>2
<1> QED
  BY <1>1, <1>3, <1>4, <1>5, <1>6, <1>7, <1>8, <1>9 DEF a, b

(* The code of a part of the body is a prefix of the code.                 *)
LEMMA CodePrefix ==
  ASSUME NEW s \in Seq(Bytes), NEW n \in 0 .. Len(s), NEW m \in 0 .. n
  PROVE  /\ At(s, m) <= At(s, n)
         /\ \A i \in 1 .. At(s, m) : CodeTo(s, n)[i] = CodeTo(s, m)[i]
<1> DEFINE Good(k) == \A j \in 0 .. k : /\ At(s, j) <= At(s, k)
                                        /\ \A i \in 1 .. At(s, j) : CodeTo(s, k)[i] = CodeTo(s, j)[i]
           T == {k \in 0 .. Len(s) : Good(k)}
<1>1. Len(s) \in Nat /\ \A k \in 0 .. Len(s) : At(s, k) \in Nat
  BY CodeStep
<1>2. 0 \in T
  <2>1. \A j \in 0 .. 0 : j = 0
    OBVIOUS
  <2> QED
    BY <1>1, <2>1
<1>3. ASSUME NEW k \in Nat, k < Len(s), k \in T PROVE k + 1 \in T
  <2> DEFINE l == k + 1
  <2>1. l \in 1 .. Len(s) /\ l \in 0 .. Len(s) /\ l - 1 = k /\ \A j \in 0 .. l : j \in 0 .. k \/ j = l
    BY <1>1, <1>3
  <2>2. Good(k) /\ k \in 0 .. Len(s)
    BY <1>3
  <2> HIDE DEF l
  <2>3. /\ At(s, k) \in Nat /\ At(s, l) = At(s, k) + Extent(s[l]) /\ Extent(s[l]) \in Nat
        /\ \A i \in 1 .. At(s, k) : CodeTo(s, l)[i] = CodeTo(s, k)[i]
    <3>1. /\ At(s, l - 1) \in Nat /\ At(s, l) = At(s, l - 1) + Extent(s[l]) /\ Extent(s[l]) \in Nat
          /\ \A i \in 1 .. At(s, l - 1) : CodeTo(s, l)[i] = CodeTo(s, l - 1)[i]
      BY <2>1, CodeGrows
    <3> QED
      BY <2>1, <3>1
  <2>4. ASSUME NEW j \in 0 .. l
        PROVE  At(s, j) <= At(s, l) /\ \A i \in 1 .. At(s, j) : CodeTo(s, l)[i] = CodeTo(s, j)[i]
    <3>1. CASE j = l
      BY <1>1, <2>1, <3>1
    <3>2. CASE j \in 0 .. k
      <4>1. /\ At(s, j) \in Nat /\ At(s, j) <= At(s, k)
            /\ \A i \in 1 .. At(s, j) : CodeTo(s, k)[i] = CodeTo(s, j)[i]
        BY <1>1, <1>3, <2>2, <3>2
      <4>2. At(s, j) <= At(s, l) /\ \A i \in 1 .. At(s, j) : i \in 1 .. At(s, k)
        BY <2>3, <4>1
      <4> QED
        BY <2>3, <4>1, <4>2
    <3> QED
      BY <2>1, <3>1, <3>2
  <2> QED
    BY <2>1, <2>4 DEF l
<1>4. n \in T
  <2> HIDE DEF T
  <2> QED
    BY <1>1, <1>2, <1>3, SetInduction
<1> QED
  BY <1>4

(* Every byte is a byte of an instruction.                                 *)
LEMMA CodeCovered ==
  ASSUME NEW s \in Seq(Bytes), NEW p \in Nat, p < Len(Code(s))
  PROVE  \E n \in 1 .. Len(s) : At(s, n - 1) <= p /\ p < At(s, n)
<1> DEFINE In(n) == At(s, n - 1) <= p /\ p < At(s, n)
           T == {k \in 0 .. Len(s) : p < At(s, k) => \E n \in 1 .. k : In(n)}
<1>1. Len(s) \in Nat /\ (\A k \in 0 .. Len(s) : At(s, k) \in Nat) /\ At(s, 0) = 0
  BY CodeStep
<1>2. 0 \in T
  BY <1>1
<1>3. ASSUME NEW k \in Nat, k < Len(s), k \in T PROVE k + 1 \in T
  <2> DEFINE l == k + 1
  <2>1. l \in 1 .. l /\ l \in 0 .. Len(s) /\ l - 1 = k /\ k \in 0 .. Len(s) /\ \A n \in 1 .. k : n \in 1 .. l
    BY <1>1, <1>3
  <2> HIDE DEF l
  <2>2. ASSUME p < At(s, l) PROVE \E n \in 1 .. l : In(n)
    <3>1. CASE p < At(s, k)
      <4>1. \E n \in 1 .. k : In(n)
        BY <1>3, <3>1
      <4> HIDE DEF In
      <4> QED
        BY <2>1, <4>1
    <3>2. CASE At(s, k) <= p
      <4>1. In(l)
        BY <2>1, <2>2, <3>2
      <4> HIDE DEF In
      <4> QED
        BY <2>1, <4>1
    <3>3. At(s, k) \in Nat
      BY <1>1, <2>1
    <3> QED
      BY <3>1, <3>2, <3>3
  <2> HIDE DEF In
  <2> QED
    BY <2>1, <2>2 DEF l
<1>4. Len(s) \in T
  <2>1. Len(s) \in 0 .. Len(s)
    BY <1>1
  <2> HIDE DEF T
  <2> QED
    BY <1>1, <1>2, <1>3, <2>1, SetInduction
<1>5. p < At(s, Len(s))
  <2>1. Code(s) = CodeTo(s, Len(s))
    BY CodeStep
  <2> QED
    BY <2>1 DEF At
<1> QED
  BY <1>4, <1>5

(* The cells of the n-th instruction in the code of the body.              *)
LEMMA CodeHas ==
  ASSUME NEW s \in Seq(Bytes), NEW n \in 1 .. Len(s)
  PROVE  /\ At(s, n) <= Len(Code(s))
         /\ \A i \in 1 .. Extent(s[n]) : Code(s)[At(s, n - 1) + i] = Encoded(s[n])[i]
<1> DEFINE N == Len(s)
<1>1. N \in Nat /\ N \in 0 .. N /\ n \in 0 .. N
  OBVIOUS
<1>2. Code(s) = CodeTo(s, N) /\ Len(Code(s)) = At(s, N)
  BY CodeStep DEF At
<1> HIDE DEF N
<1>3. /\ At(s, n) <= At(s, N)
      /\ \A i \in 1 .. At(s, n) : CodeTo(s, N)[i] = CodeTo(s, n)[i]
  BY <1>1, CodePrefix DEF N
<1>4. /\ At(s, n - 1) \in Nat /\ At(s, n) = At(s, n - 1) + Extent(s[n])
      /\ Extent(s[n]) \in Nat
      /\ \A i \in 1 .. Extent(s[n]) : CodeTo(s, n)[At(s, n - 1) + i] = Encoded(s[n])[i]
  BY CodeGrows
<1>5. ASSUME NEW i \in 1 .. Extent(s[n]) PROVE Code(s)[At(s, n - 1) + i] = Encoded(s[n])[i]
  <2>1. At(s, n - 1) + i \in 1 .. At(s, n)
    BY <1>4
  <2> QED
    BY <1>2, <1>3, <1>4, <2>1
<1> QED
  BY <1>2, <1>3, <1>5

(* What is read at an opcode, the cell of one: the bytes of the            *)
(* instruction it starts, and the opcode behind it.                        *)
InstructionAt(s, p, n) ==
  /\ n \in 1 .. Len(s) /\ p = At(s, n - 1)
  /\ s[n] \in Bytes
  /\ Code(s)[p + 1] = OpCell(s[n])
  /\ Extent(s[n]) \in Nat /\ Extent(s[n]) >= 1
  /\ At(s, n) = p + Extent(s[n]) /\ p + Extent(s[n]) <= Len(Code(s))
  /\ \A i \in 1 .. Extent(s[n]) : Code(s)[p + i] = Encoded(s[n])[i]
  /\ p + Extent(s[n]) < Len(Code(s)) => Code(s)[p + Extent(s[n]) + 1].f = "op"

LEMMA OpcodeFacts ==
  ASSUME NEW s \in Seq(Bytes), NEW p \in Nat, p < Len(Code(s)), Code(s)[p + 1].f = "op"
  PROVE  \E n : InstructionAt(s, p, n)
<1>1. PICK n \in 1 .. Len(s) : At(s, n - 1) <= p /\ p < At(s, n)
  BY CodeCovered
<1>2. /\ At(s, n - 1) \in Nat /\ At(s, n) = At(s, n - 1) + Extent(s[n])
      /\ Extent(s[n]) \in Nat /\ Extent(s[n]) >= 1 /\ s[n] \in Bytes
  BY CodeGrows
<1>3. /\ At(s, n) <= Len(Code(s))
      /\ \A i \in 1 .. Extent(s[n]) : Code(s)[At(s, n - 1) + i] = Encoded(s[n])[i]
  BY CodeHas
<1>4. Encoded(s[n])[1] = OpCell(s[n]) /\ \A i \in 2 .. Extent(s[n]) : Encoded(s[n])[i].f # "op"
  BY <1>2, EncodedFacts
<1>5. p = At(s, n - 1)
  <2> DEFINE i == p + 1 - At(s, n - 1)
  <2> SUFFICES ASSUME p # At(s, n - 1) PROVE FALSE
    OBVIOUS
  <2>1. i \in 2 .. Extent(s[n]) /\ i \in 1 .. Extent(s[n]) /\ At(s, n - 1) + i = p + 1
    BY <1>1, <1>2, SMTT(30)
  <2> HIDE DEF i
  <2>2. Code(s)[p + 1] = Encoded(s[n])[i]
    BY <1>3, <2>1
  <2> QED
    BY <1>4, <2>1, <2>2
<1>6. Code(s)[p + 1] = OpCell(s[n])
  <2>1. 1 \in 1 .. Extent(s[n])
    BY <1>2
  <2> QED
    BY <1>3, <1>4, <1>5, <2>1
<1>7. ASSUME At(s, n) < Len(Code(s)) PROVE Code(s)[At(s, n) + 1].f = "op"
  <2>1. Len(s) \in Nat /\ Len(Code(s)) = At(s, Len(s)) /\ At(s, n) \in Nat
    BY <1>2, CodeStep, SMTT(30) DEF At
  <2>2. n # Len(s)
    BY <1>7, <2>1
  <2> DEFINE m == n + 1
  <2>3. m \in 1 .. Len(s) /\ m - 1 = n
    BY <2>1, <2>2
  <2> HIDE DEF m
  <2>4. Extent(s[m]) \in Nat /\ Extent(s[m]) >= 1 /\ s[m] \in Bytes
    BY <2>3, CodeGrows
  <2>5. \A i \in 1 .. Extent(s[m]) : Code(s)[At(s, m - 1) + i] = Encoded(s[m])[i]
    BY <2>3, CodeHas
  <2>6. 1 \in 1 .. Extent(s[m])
    BY <2>4
  <2>7. Code(s)[At(s, n) + 1] = Encoded(s[m])[1]
    BY <2>3, <2>5, <2>6
  <2>8. Encoded(s[m])[1] = OpCell(s[m])
    BY <2>4, EncodedFacts
  <2> QED
    BY <2>7, <2>8 DEF OpCell
<1> QED
  BY <1>1, <1>2, <1>3, <1>5, <1>6, <1>7 DEF InstructionAt

LEMMA NextBoundaryIs ==
  ASSUME ops \in Seq(Bytes), NEW p \in Nat, NEW n, InstructionAt(ops, p, n)
  PROVE  NextBoundary(p) = p + Extent(ops[n])
<1> DEFINE q == At(ops, n)
<1>1. /\ n \in 1 .. Len(ops) /\ p = At(ops, n - 1) /\ q = p + Extent(ops[n])
      /\ Extent(ops[n]) \in Nat /\ Extent(ops[n]) >= 1
  BY DEF InstructionAt
<1>2. Boundaries = {At(ops, m) : m \in 0 .. Len(ops)} /\ Len(ops) \in Nat
  BY DEF Boundaries, At, CodeTo
<1>3. \A m \in 0 .. Len(ops) : At(ops, m) \in Nat
  BY CodeStep
<1>4. q \in Boundaries /\ q > p
  BY <1>1, <1>2
<1>5. ASSUME NEW r \in Boundaries, r > p PROVE q <= r
  <2>1. PICK m \in 0 .. Len(ops) : r = At(ops, m)
    BY <1>2
  <2>2. CASE m <= n - 1
    <3>1. n - 1 \in 0 .. Len(ops) /\ m \in 0 .. n - 1
      BY <1>1, <1>2, <2>2
    <3>2. At(ops, m) <= At(ops, n - 1)
      BY <3>1, CodePrefix
    <3> QED
      BY <1>1, <1>3, <1>5, <2>1, <3>1, <3>2
  <2>3. CASE n <= m
    <3>1. n \in 0 .. m
      BY <1>1, <2>3
    <3> QED
      BY <2>1, <3>1, CodePrefix
  <2> QED
    BY <1>1, <1>2, <2>2, <2>3
<1>6. \A b \in Boundaries : b \in Nat
  BY <1>2, <1>3
<1>7. ASSUME NEW b \in Boundaries, b > p, \A r \in Boundaries : r > p => b <= r PROVE b = q
  <2>1. b <= q /\ q <= b /\ b \in Nat /\ q \in Nat
    BY <1>4, <1>5, <1>6, <1>7
  <2> QED
    BY <2>1
<1> DEFINE Next_(b) == b > p /\ \A r \in Boundaries : r > p => b <= r
<1>8. NextBoundary(p) = q
  <2>1. Next_(q) /\ \A b \in Boundaries : Next_(b) => b = q
    BY <1>4, <1>5, <1>7
  <2> HIDE DEF q
  <2> QED
    BY <1>4, <2>1 DEF NextBoundary
<1> QED
  BY <1>1, <1>8

------------------------------------------------------------------------------
(* The handlers: which one an opcode is bound to, and what it leaves on    *)
(* the stack.                                                              *)

VariableOps == 32 .. 36
Parametric == {DROP, SELECT}
FullWidth == (40 .. 43) \cup (54 .. 57)
Narrow == sign_extending \cup widening \cup truncating
I32Ops == i32_binary \cup i32_compare \cup i32_unary
I64Ops == i64_binary \cup i64_compare \cup i64_unary
F32Ops == f32_binary \cup f32_compare \cup f32_unary
F64Ops == f64_binary \cup f64_compare \cup f64_unary

(* No opcode is bound twice, and Unbound are the ones that are not. *)
LEMMA OneHandler ==
  ASSUME NEW op
  PROVE
    /\ op \in Control =>
         /\ op \notin VariableOps /\ op \notin Parametric /\ op \notin FullWidth /\ op \notin Narrow
         /\ op \notin Sized /\ op \notin I32Ops /\ op \notin I64Ops /\ op \notin F32Ops
         /\ op \notin F64Ops /\ op \notin conversion_ops /\ op \notin Unbound
    /\ op \in VariableOps =>
         /\ op \notin Control /\ op \notin Parametric /\ op \notin FullWidth /\ op \notin Narrow
         /\ op \notin Sized /\ op \notin I32Ops /\ op \notin I64Ops /\ op \notin F32Ops
         /\ op \notin F64Ops /\ op \notin conversion_ops /\ op \notin Unbound
    /\ op \in Parametric =>
         /\ op \notin Control /\ op \notin VariableOps /\ op \notin FullWidth /\ op \notin Narrow
         /\ op \notin Sized /\ op \notin I32Ops /\ op \notin I64Ops /\ op \notin F32Ops
         /\ op \notin F64Ops /\ op \notin conversion_ops /\ op \notin Unbound
    /\ op \in FullWidth =>
         /\ op \notin Control /\ op \notin VariableOps /\ op \notin Parametric /\ op \notin Narrow
         /\ op \notin Sized /\ op \notin I32Ops /\ op \notin I64Ops /\ op \notin F32Ops
         /\ op \notin F64Ops /\ op \notin conversion_ops /\ op \notin Unbound
    /\ op \in Narrow =>
         /\ op \notin Control /\ op \notin VariableOps /\ op \notin Parametric /\ op \notin FullWidth
         /\ op \notin Sized /\ op \notin I32Ops /\ op \notin I64Ops /\ op \notin F32Ops
         /\ op \notin F64Ops /\ op \notin conversion_ops /\ op \notin Unbound
    /\ op \in Sized =>
         /\ op \notin Control /\ op \notin VariableOps /\ op \notin Parametric /\ op \notin FullWidth
         /\ op \notin Narrow /\ op \notin I32Ops /\ op \notin I64Ops /\ op \notin F32Ops
         /\ op \notin F64Ops /\ op \notin conversion_ops /\ op \notin Unbound
    /\ op \in I32Ops =>
         /\ op \notin Control /\ op \notin VariableOps /\ op \notin Parametric /\ op \notin FullWidth
         /\ op \notin Narrow /\ op \notin Sized /\ op \notin I64Ops /\ op \notin F32Ops
         /\ op \notin F64Ops /\ op \notin conversion_ops /\ op \notin Unbound
    /\ op \in I64Ops =>
         /\ op \notin Control /\ op \notin VariableOps /\ op \notin Parametric /\ op \notin FullWidth
         /\ op \notin Narrow /\ op \notin Sized /\ op \notin I32Ops /\ op \notin F32Ops
         /\ op \notin F64Ops /\ op \notin conversion_ops /\ op \notin Unbound
    /\ op \in F32Ops =>
         /\ op \notin Control /\ op \notin VariableOps /\ op \notin Parametric /\ op \notin FullWidth
         /\ op \notin Narrow /\ op \notin Sized /\ op \notin I32Ops /\ op \notin I64Ops
         /\ op \notin F64Ops /\ op \notin conversion_ops /\ op \notin Unbound
    /\ op \in F64Ops =>
         /\ op \notin Control /\ op \notin VariableOps /\ op \notin Parametric /\ op \notin FullWidth
         /\ op \notin Narrow /\ op \notin Sized /\ op \notin I32Ops /\ op \notin I64Ops
         /\ op \notin F32Ops /\ op \notin conversion_ops /\ op \notin Unbound
    /\ op \in conversion_ops =>
         /\ op \notin Control /\ op \notin VariableOps /\ op \notin Parametric /\ op \notin FullWidth
         /\ op \notin Narrow /\ op \notin Sized /\ op \notin I32Ops /\ op \notin I64Ops
         /\ op \notin F32Ops /\ op \notin F64Ops /\ op \notin Unbound
    /\ op \in Unbound =>
         /\ op \notin Control /\ op \notin VariableOps /\ op \notin Parametric /\ op \notin FullWidth
         /\ op \notin Narrow /\ op \notin Sized /\ op \notin I32Ops /\ op \notin I64Ops
         /\ op \notin F32Ops /\ op \notin F64Ops /\ op \notin conversion_ops
BY OpcodeNumbers, SMTT(60)
   DEF Control, VariableOps, Parametric, FullWidth, Narrow, Sized, I32Ops, I64Ops, F32Ops, F64Ops,
       conversion_ops, Conversions, sign_extending, widening, truncating, i32_binary, i32_compare,
       i32_unary, i64_binary, i64_compare, i64_unary, f32_binary, f32_compare, f32_unary, f64_binary,
       f64_compare, f64_unary, Unbound, Consts

LEMMA EveryHandler ==
  ASSUME NEW op \in all_opcodes
  PROVE  op \in Control \cup VariableOps \cup Parametric \cup FullWidth \cup Narrow \cup Sized
            \cup I32Ops \cup I64Ops \cup F32Ops \cup F64Ops \cup conversion_ops \cup Unbound
BY OpcodeNumbers, SMTT(60)
   DEF Control, VariableOps, Parametric, FullWidth, Narrow, Sized, I32Ops, I64Ops, F32Ops, F64Ops,
       conversion_ops, Conversions, sign_extending, widening, truncating, i32_binary, i32_compare,
       i32_unary, i64_binary, i64_compare, i64_unary, f32_binary, f32_compare, f32_unary, f64_binary,
       f64_compare, f64_unary, Unbound, Consts,
       all_opcodes, OpCode, Loads, Stores, Comparisons, Numerics, Reinterprets

LEMMA HandlerIs ==
  ASSUME NEW op, NEW operand
  PROVE
    /\ op \in Control => op_func(op, operand) = op_func_control(op, operand)
    /\ op \in VariableOps => op_func(op, operand) = op_func_variable(op)
    /\ op \in Parametric => op_func(op, operand) = op_func_parametric(op)
    /\ op \in FullWidth => op_func(op, operand) = op_func_full_width(op)
    /\ op \in Narrow => op_func(op, operand) = op_func_narrow(op)
    /\ op \in Sized => op_func(op, operand) = op_func_size(op)
    /\ op \in I32Ops => op_func(op, operand) = op_func_i32(op)
    /\ op \in I64Ops => op_func(op, operand) = op_func_i64(op)
    /\ op \in F32Ops => op_func(op, operand) = op_func_f32(op)
    /\ op \in F64Ops => op_func(op, operand) = op_func_f64(op)
    /\ op \in conversion_ops => op_func(op, operand) = op_func_conversion(op)
    /\ op \in Unbound => op_func(op, operand) = op_func_default
<1>1. ASSUME op \in Control PROVE op_func(op, operand) = op_func_control(op, operand)
  <2>1. /\ op \notin VariableOps /\ op \notin Parametric /\ op \notin FullWidth /\ op \notin Narrow
        /\ op \notin Sized /\ op \notin I32Ops /\ op \notin I64Ops /\ op \notin F32Ops
        /\ op \notin F64Ops /\ op \notin conversion_ops /\ op \notin Unbound
    BY <1>1, OneHandler
  <2> QED
    BY <1>1, <2>1 DEF op_func, VariableOps, Parametric, FullWidth, Narrow, Sized, I32Ops, I64Ops, F32Ops, F64Ops
<1>2. ASSUME op \in VariableOps PROVE op_func(op, operand) = op_func_variable(op)
  <2>1. /\ op \notin Control /\ op \notin Parametric /\ op \notin FullWidth /\ op \notin Narrow
        /\ op \notin Sized /\ op \notin I32Ops /\ op \notin I64Ops /\ op \notin F32Ops
        /\ op \notin F64Ops /\ op \notin conversion_ops /\ op \notin Unbound
    BY <1>2, OneHandler
  <2> QED
    BY <1>2, <2>1 DEF op_func, VariableOps, Parametric, FullWidth, Narrow, Sized, I32Ops, I64Ops, F32Ops, F64Ops
<1>3. ASSUME op \in Parametric PROVE op_func(op, operand) = op_func_parametric(op)
  <2>1. /\ op \notin Control /\ op \notin VariableOps /\ op \notin FullWidth /\ op \notin Narrow
        /\ op \notin Sized /\ op \notin I32Ops /\ op \notin I64Ops /\ op \notin F32Ops
        /\ op \notin F64Ops /\ op \notin conversion_ops /\ op \notin Unbound
    BY <1>3, OneHandler
  <2> QED
    BY <1>3, <2>1 DEF op_func, VariableOps, Parametric, FullWidth, Narrow, Sized, I32Ops, I64Ops, F32Ops, F64Ops
<1>4. ASSUME op \in FullWidth PROVE op_func(op, operand) = op_func_full_width(op)
  <2>1. /\ op \notin Control /\ op \notin VariableOps /\ op \notin Parametric /\ op \notin Narrow
        /\ op \notin Sized /\ op \notin I32Ops /\ op \notin I64Ops /\ op \notin F32Ops
        /\ op \notin F64Ops /\ op \notin conversion_ops /\ op \notin Unbound
    BY <1>4, OneHandler
  <2> QED
    BY <1>4, <2>1 DEF op_func, VariableOps, Parametric, FullWidth, Narrow, Sized, I32Ops, I64Ops, F32Ops, F64Ops
<1>5. ASSUME op \in Narrow PROVE op_func(op, operand) = op_func_narrow(op)
  <2>1. /\ op \notin Control /\ op \notin VariableOps /\ op \notin Parametric /\ op \notin FullWidth
        /\ op \notin Sized /\ op \notin I32Ops /\ op \notin I64Ops /\ op \notin F32Ops
        /\ op \notin F64Ops /\ op \notin conversion_ops /\ op \notin Unbound
    BY <1>5, OneHandler
  <2> QED
    BY <1>5, <2>1 DEF op_func, VariableOps, Parametric, FullWidth, Narrow, Sized, I32Ops, I64Ops, F32Ops, F64Ops
<1>6. ASSUME op \in Sized PROVE op_func(op, operand) = op_func_size(op)
  <2>1. /\ op \notin Control /\ op \notin VariableOps /\ op \notin Parametric /\ op \notin FullWidth
        /\ op \notin Narrow /\ op \notin I32Ops /\ op \notin I64Ops /\ op \notin F32Ops
        /\ op \notin F64Ops /\ op \notin conversion_ops /\ op \notin Unbound
    BY <1>6, OneHandler
  <2> QED
    BY <1>6, <2>1 DEF op_func, VariableOps, Parametric, FullWidth, Narrow, Sized, I32Ops, I64Ops, F32Ops, F64Ops
<1>7. ASSUME op \in I32Ops PROVE op_func(op, operand) = op_func_i32(op)
  <2>1. /\ op \notin Control /\ op \notin VariableOps /\ op \notin Parametric /\ op \notin FullWidth
        /\ op \notin Narrow /\ op \notin Sized /\ op \notin I64Ops /\ op \notin F32Ops
        /\ op \notin F64Ops /\ op \notin conversion_ops /\ op \notin Unbound
    BY <1>7, OneHandler
  <2> QED
    BY <1>7, <2>1 DEF op_func, VariableOps, Parametric, FullWidth, Narrow, Sized, I32Ops, I64Ops, F32Ops, F64Ops
<1>8. ASSUME op \in I64Ops PROVE op_func(op, operand) = op_func_i64(op)
  <2>1. /\ op \notin Control /\ op \notin VariableOps /\ op \notin Parametric /\ op \notin FullWidth
        /\ op \notin Narrow /\ op \notin Sized /\ op \notin I32Ops /\ op \notin F32Ops
        /\ op \notin F64Ops /\ op \notin conversion_ops /\ op \notin Unbound
    BY <1>8, OneHandler
  <2> QED
    BY <1>8, <2>1 DEF op_func, VariableOps, Parametric, FullWidth, Narrow, Sized, I32Ops, I64Ops, F32Ops, F64Ops
<1>9. ASSUME op \in F32Ops PROVE op_func(op, operand) = op_func_f32(op)
  <2>1. /\ op \notin Control /\ op \notin VariableOps /\ op \notin Parametric /\ op \notin FullWidth
        /\ op \notin Narrow /\ op \notin Sized /\ op \notin I32Ops /\ op \notin I64Ops
        /\ op \notin F64Ops /\ op \notin conversion_ops /\ op \notin Unbound
    BY <1>9, OneHandler
  <2> QED
    BY <1>9, <2>1 DEF op_func, VariableOps, Parametric, FullWidth, Narrow, Sized, I32Ops, I64Ops, F32Ops, F64Ops
<1>10. ASSUME op \in F64Ops PROVE op_func(op, operand) = op_func_f64(op)
  <2>1. /\ op \notin Control /\ op \notin VariableOps /\ op \notin Parametric /\ op \notin FullWidth
        /\ op \notin Narrow /\ op \notin Sized /\ op \notin I32Ops /\ op \notin I64Ops
        /\ op \notin F32Ops /\ op \notin conversion_ops /\ op \notin Unbound
    BY <1>10, OneHandler
  <2> QED
    BY <1>10, <2>1 DEF op_func, VariableOps, Parametric, FullWidth, Narrow, Sized, I32Ops, I64Ops, F32Ops, F64Ops
<1>11. ASSUME op \in conversion_ops PROVE op_func(op, operand) = op_func_conversion(op)
  <2>1. /\ op \notin Control /\ op \notin VariableOps /\ op \notin Parametric /\ op \notin FullWidth
        /\ op \notin Narrow /\ op \notin Sized /\ op \notin I32Ops /\ op \notin I64Ops
        /\ op \notin F32Ops /\ op \notin F64Ops /\ op \notin Unbound
    BY <1>11, OneHandler
  <2> QED
    BY <1>11, <2>1 DEF op_func, VariableOps, Parametric, FullWidth, Narrow, Sized, I32Ops, I64Ops, F32Ops, F64Ops
<1>12. ASSUME op \in Unbound PROVE op_func(op, operand) = op_func_default
  <2>1. /\ op \notin Control /\ op \notin VariableOps /\ op \notin Parametric /\ op \notin FullWidth
        /\ op \notin Narrow /\ op \notin Sized /\ op \notin I32Ops /\ op \notin I64Ops
        /\ op \notin F32Ops /\ op \notin F64Ops /\ op \notin conversion_ops
    BY <1>12, OneHandler
  <2> QED
    BY <1>12, <2>1 DEF op_func, VariableOps, Parametric, FullWidth, Narrow, Sized, I32Ops, I64Ops, F32Ops, F64Ops
<1> QED
  BY <1>1, <1>2, <1>3, <1>4, <1>5, <1>6, <1>7, <1>8, <1>9, <1>10, <1>11, <1>12

(* The rows of the table of signatures. *)
OneOperand == {IF_, BR_IF, BR_TABLE, CALL_INDIRECT, DROP, SET_LOCAL, SET_GLOBAL}
OneResult == {GET_LOCAL, GET_GLOBAL, CURRENT_MEMORY}
OneEach == {TEE_LOCAL, GROW_MEMORY}
Constants == 65 .. 68
Eqz == {69, 80}
Relations == Comparisons \ {69, 80}
BinaryNumerics == Numerics \ UnaryNumerics

LEMMA OneSignature ==
  ASSUME NEW op
  PROVE
    /\ op \in OneOperand =>
         /\ op # SELECT /\ op \notin OneResult /\ op \notin OneEach /\ op \notin Loads
         /\ op \notin Stores /\ op \notin Constants /\ op \notin Eqz /\ op \notin Relations
         /\ op \notin UnaryNumerics /\ op \notin BinaryNumerics /\ op \notin Conversions /\ op \notin Reinterprets
    /\ op = SELECT =>
         /\ op \notin OneOperand /\ op \notin OneResult /\ op \notin OneEach /\ op \notin Loads
         /\ op \notin Stores /\ op \notin Constants /\ op \notin Eqz /\ op \notin Relations
         /\ op \notin UnaryNumerics /\ op \notin BinaryNumerics /\ op \notin Conversions /\ op \notin Reinterprets
    /\ op \in OneResult =>
         /\ op \notin OneOperand /\ op # SELECT /\ op \notin OneEach /\ op \notin Loads
         /\ op \notin Stores /\ op \notin Constants /\ op \notin Eqz /\ op \notin Relations
         /\ op \notin UnaryNumerics /\ op \notin BinaryNumerics /\ op \notin Conversions /\ op \notin Reinterprets
    /\ op \in OneEach =>
         /\ op \notin OneOperand /\ op # SELECT /\ op \notin OneResult /\ op \notin Loads
         /\ op \notin Stores /\ op \notin Constants /\ op \notin Eqz /\ op \notin Relations
         /\ op \notin UnaryNumerics /\ op \notin BinaryNumerics /\ op \notin Conversions /\ op \notin Reinterprets
    /\ op \in Loads =>
         /\ op \notin OneOperand /\ op # SELECT /\ op \notin OneResult /\ op \notin OneEach
         /\ op \notin Stores /\ op \notin Constants /\ op \notin Eqz /\ op \notin Relations
         /\ op \notin UnaryNumerics /\ op \notin BinaryNumerics /\ op \notin Conversions /\ op \notin Reinterprets
    /\ op \in Stores =>
         /\ op \notin OneOperand /\ op # SELECT /\ op \notin OneResult /\ op \notin OneEach
         /\ op \notin Loads /\ op \notin Constants /\ op \notin Eqz /\ op \notin Relations
         /\ op \notin UnaryNumerics /\ op \notin BinaryNumerics /\ op \notin Conversions /\ op \notin Reinterprets
    /\ op \in Constants =>
         /\ op \notin OneOperand /\ op # SELECT /\ op \notin OneResult /\ op \notin OneEach
         /\ op \notin Loads /\ op \notin Stores /\ op \notin Eqz /\ op \notin Relations
         /\ op \notin UnaryNumerics /\ op \notin BinaryNumerics /\ op \notin Conversions /\ op \notin Reinterprets
    /\ op \in Eqz =>
         /\ op \notin OneOperand /\ op # SELECT /\ op \notin OneResult /\ op \notin OneEach
         /\ op \notin Loads /\ op \notin Stores /\ op \notin Constants /\ op \notin Relations
         /\ op \notin UnaryNumerics /\ op \notin BinaryNumerics /\ op \notin Conversions /\ op \notin Reinterprets
    /\ op \in Relations =>
         /\ op \notin OneOperand /\ op # SELECT /\ op \notin OneResult /\ op \notin OneEach
         /\ op \notin Loads /\ op \notin Stores /\ op \notin Constants /\ op \notin Eqz
         /\ op \notin UnaryNumerics /\ op \notin BinaryNumerics /\ op \notin Conversions /\ op \notin Reinterprets
    /\ op \in UnaryNumerics =>
         /\ op \notin OneOperand /\ op # SELECT /\ op \notin OneResult /\ op \notin OneEach
         /\ op \notin Loads /\ op \notin Stores /\ op \notin Constants /\ op \notin Eqz
         /\ op \notin Relations /\ op \notin BinaryNumerics /\ op \notin Conversions /\ op \notin Reinterprets
    /\ op \in BinaryNumerics =>
         /\ op \notin OneOperand /\ op # SELECT /\ op \notin OneResult /\ op \notin OneEach
         /\ op \notin Loads /\ op \notin Stores /\ op \notin Constants /\ op \notin Eqz
         /\ op \notin Relations /\ op \notin UnaryNumerics /\ op \notin Conversions /\ op \notin Reinterprets
    /\ op \in Conversions =>
         /\ op \notin OneOperand /\ op # SELECT /\ op \notin OneResult /\ op \notin OneEach
         /\ op \notin Loads /\ op \notin Stores /\ op \notin Constants /\ op \notin Eqz
         /\ op \notin Relations /\ op \notin UnaryNumerics /\ op \notin BinaryNumerics /\ op \notin Reinterprets
    /\ op \in Reinterprets =>
         /\ op \notin OneOperand /\ op # SELECT /\ op \notin OneResult /\ op \notin OneEach
         /\ op \notin Loads /\ op \notin Stores /\ op \notin Constants /\ op \notin Eqz
         /\ op \notin Relations /\ op \notin UnaryNumerics /\ op \notin BinaryNumerics /\ op \notin Conversions
BY OpcodeNumbers, SMTT(60)
   DEF OneOperand, OneResult, OneEach, Constants, Eqz, Relations, BinaryNumerics,
       Loads, Stores, Comparisons, UnaryNumerics, Numerics, Conversions, Reinterprets

LEMMA SignatureIs ==
  ASSUME NEW op
  PROVE
    /\ op \in OneOperand => Signature(op) = Sig(<< "i32" >>, << >>)
    /\ op = SELECT => Signature(op) = Sig(<< "i32", "i32", "i32" >>, << "i32" >>)
    /\ op \in OneResult => Signature(op) = Sig(<< >>, << "i32" >>)
    /\ op \in OneEach => Signature(op) = Sig(<< "i32" >>, << "i32" >>)
    /\ op \in Loads => Signature(op) = Sig(<< "i32" >>, << LoadResult(op) >>)
    /\ op \in Stores => Signature(op) = Sig(<< "i32", StoreOperand(op) >>, << >>)
    /\ op \in Constants => Signature(op) = Sig(<< >>, << ConstResult[op] >>)
    /\ op \in Eqz => Signature(op) = Sig(<< Compared(op) >>, << "i32" >>)
    /\ op \in Relations => Signature(op) = Sig(<< Compared(op), Compared(op) >>, << "i32" >>)
    /\ op \in UnaryNumerics => Signature(op) = Sig(<< Computed(op) >>, << Computed(op) >>)
    /\ op \in BinaryNumerics => Signature(op) = Sig(<< Computed(op), Computed(op) >>, << Computed(op) >>)
    /\ op \in Conversions => Signature(op) = Sig(<< ConversionFrom[op] >>, << ConversionTo[op] >>)
    /\ op \notin OneOperand /\ op # SELECT /\ op \notin OneResult /\ op \notin OneEach /\ op \notin Loads
       /\ op \notin Stores /\ op \notin Constants /\ op \notin Eqz /\ op \notin Relations
       /\ op \notin UnaryNumerics /\ op \notin BinaryNumerics /\ op \notin Conversions /\ op \notin Reinterprets
         => Signature(op) = Sig(<< >>, << >>)
<1>1. ASSUME op \in OneOperand PROVE Signature(op) = Sig(<< "i32" >>, << >>)
  <2>1. /\ op # SELECT /\ op \notin OneResult /\ op \notin OneEach /\ op \notin Loads
        /\ op \notin Stores /\ op \notin Constants /\ op \notin Eqz /\ op \notin Relations
        /\ op \notin UnaryNumerics /\ op \notin BinaryNumerics /\ op \notin Conversions /\ op \notin Reinterprets
    BY <1>1, OneSignature
  <2> QED
    BY <1>1, <2>1 DEF Signature, OneOperand, OneResult, OneEach, Constants, Eqz, Relations, BinaryNumerics
<1>2. ASSUME op = SELECT PROVE Signature(op) = Sig(<< "i32", "i32", "i32" >>, << "i32" >>)
  <2>1. /\ op \notin OneOperand /\ op \notin OneResult /\ op \notin OneEach /\ op \notin Loads
        /\ op \notin Stores /\ op \notin Constants /\ op \notin Eqz /\ op \notin Relations
        /\ op \notin UnaryNumerics /\ op \notin BinaryNumerics /\ op \notin Conversions /\ op \notin Reinterprets
    BY <1>2, OneSignature
  <2> QED
    BY <1>2, <2>1 DEF Signature, OneOperand, OneResult, OneEach, Constants, Eqz, Relations, BinaryNumerics
<1>3. ASSUME op \in OneResult PROVE Signature(op) = Sig(<< >>, << "i32" >>)
  <2>1. /\ op \notin OneOperand /\ op # SELECT /\ op \notin OneEach /\ op \notin Loads
        /\ op \notin Stores /\ op \notin Constants /\ op \notin Eqz /\ op \notin Relations
        /\ op \notin UnaryNumerics /\ op \notin BinaryNumerics /\ op \notin Conversions /\ op \notin Reinterprets
    BY <1>3, OneSignature
  <2> QED
    BY <1>3, <2>1 DEF Signature, OneOperand, OneResult, OneEach, Constants, Eqz, Relations, BinaryNumerics
<1>4. ASSUME op \in OneEach PROVE Signature(op) = Sig(<< "i32" >>, << "i32" >>)
  <2>1. /\ op \notin OneOperand /\ op # SELECT /\ op \notin OneResult /\ op \notin Loads
        /\ op \notin Stores /\ op \notin Constants /\ op \notin Eqz /\ op \notin Relations
        /\ op \notin UnaryNumerics /\ op \notin BinaryNumerics /\ op \notin Conversions /\ op \notin Reinterprets
    BY <1>4, OneSignature
  <2> QED
    BY <1>4, <2>1 DEF Signature, OneOperand, OneResult, OneEach, Constants, Eqz, Relations, BinaryNumerics
<1>5. ASSUME op \in Loads PROVE Signature(op) = Sig(<< "i32" >>, << LoadResult(op) >>)
  <2>1. /\ op \notin OneOperand /\ op # SELECT /\ op \notin OneResult /\ op \notin OneEach
        /\ op \notin Stores /\ op \notin Constants /\ op \notin Eqz /\ op \notin Relations
        /\ op \notin UnaryNumerics /\ op \notin BinaryNumerics /\ op \notin Conversions /\ op \notin Reinterprets
    BY <1>5, OneSignature
  <2> QED
    BY <1>5, <2>1 DEF Signature, OneOperand, OneResult, OneEach, Constants, Eqz, Relations, BinaryNumerics
<1>6. ASSUME op \in Stores PROVE Signature(op) = Sig(<< "i32", StoreOperand(op) >>, << >>)
  <2>1. /\ op \notin OneOperand /\ op # SELECT /\ op \notin OneResult /\ op \notin OneEach
        /\ op \notin Loads /\ op \notin Constants /\ op \notin Eqz /\ op \notin Relations
        /\ op \notin UnaryNumerics /\ op \notin BinaryNumerics /\ op \notin Conversions /\ op \notin Reinterprets
    BY <1>6, OneSignature
  <2> QED
    BY <1>6, <2>1 DEF Signature, OneOperand, OneResult, OneEach, Constants, Eqz, Relations, BinaryNumerics
<1>7. ASSUME op \in Constants PROVE Signature(op) = Sig(<< >>, << ConstResult[op] >>)
  <2>1. /\ op \notin OneOperand /\ op # SELECT /\ op \notin OneResult /\ op \notin OneEach
        /\ op \notin Loads /\ op \notin Stores /\ op \notin Eqz /\ op \notin Relations
        /\ op \notin UnaryNumerics /\ op \notin BinaryNumerics /\ op \notin Conversions /\ op \notin Reinterprets
    BY <1>7, OneSignature
  <2> QED
    BY <1>7, <2>1 DEF Signature, OneOperand, OneResult, OneEach, Constants, Eqz, Relations, BinaryNumerics
<1>8. ASSUME op \in Eqz PROVE Signature(op) = Sig(<< Compared(op) >>, << "i32" >>)
  <2>1. /\ op \notin OneOperand /\ op # SELECT /\ op \notin OneResult /\ op \notin OneEach
        /\ op \notin Loads /\ op \notin Stores /\ op \notin Constants /\ op \notin Relations
        /\ op \notin UnaryNumerics /\ op \notin BinaryNumerics /\ op \notin Conversions /\ op \notin Reinterprets
    BY <1>8, OneSignature
  <2> QED
    BY <1>8, <2>1 DEF Signature, OneOperand, OneResult, OneEach, Constants, Eqz, Relations, BinaryNumerics
<1>9. ASSUME op \in Relations PROVE Signature(op) = Sig(<< Compared(op), Compared(op) >>, << "i32" >>)
  <2>1. /\ op \notin OneOperand /\ op # SELECT /\ op \notin OneResult /\ op \notin OneEach
        /\ op \notin Loads /\ op \notin Stores /\ op \notin Constants /\ op \notin Eqz
        /\ op \notin UnaryNumerics /\ op \notin BinaryNumerics /\ op \notin Conversions /\ op \notin Reinterprets
    BY <1>9, OneSignature
  <2> QED
    BY <1>9, <2>1 DEF Signature, OneOperand, OneResult, OneEach, Constants, Eqz, Relations, BinaryNumerics
<1>10. ASSUME op \in UnaryNumerics PROVE Signature(op) = Sig(<< Computed(op) >>, << Computed(op) >>)
  <2>1. /\ op \notin OneOperand /\ op # SELECT /\ op \notin OneResult /\ op \notin OneEach
        /\ op \notin Loads /\ op \notin Stores /\ op \notin Constants /\ op \notin Eqz
        /\ op \notin Relations /\ op \notin BinaryNumerics /\ op \notin Conversions /\ op \notin Reinterprets
    BY <1>10, OneSignature
  <2> QED
    BY <1>10, <2>1 DEF Signature, OneOperand, OneResult, OneEach, Constants, Eqz, Relations, BinaryNumerics
<1>11. ASSUME op \in BinaryNumerics PROVE Signature(op) = Sig(<< Computed(op), Computed(op) >>, << Computed(op) >>)
  <2>1. /\ op \notin OneOperand /\ op # SELECT /\ op \notin OneResult /\ op \notin OneEach
        /\ op \notin Loads /\ op \notin Stores /\ op \notin Constants /\ op \notin Eqz
        /\ op \notin Relations /\ op \notin UnaryNumerics /\ op \notin Conversions /\ op \notin Reinterprets
    BY <1>11, OneSignature
  <2> QED
    BY <1>11, <2>1 DEF Signature, OneOperand, OneResult, OneEach, Constants, Eqz, Relations, BinaryNumerics
<1>12. ASSUME op \in Conversions PROVE Signature(op) = Sig(<< ConversionFrom[op] >>, << ConversionTo[op] >>)
  <2>1. /\ op \notin OneOperand /\ op # SELECT /\ op \notin OneResult /\ op \notin OneEach
        /\ op \notin Loads /\ op \notin Stores /\ op \notin Constants /\ op \notin Eqz
        /\ op \notin Relations /\ op \notin UnaryNumerics /\ op \notin BinaryNumerics /\ op \notin Reinterprets
    BY <1>12, OneSignature
  <2> QED
    BY <1>12, <2>1 DEF Signature, OneOperand, OneResult, OneEach, Constants, Eqz, Relations, BinaryNumerics
<1>13. ASSUME op \notin OneOperand, op # SELECT, op \notin OneResult, op \notin OneEach, op \notin Loads,
            op \notin Stores, op \notin Constants, op \notin Eqz, op \notin Relations,
            op \notin UnaryNumerics, op \notin BinaryNumerics, op \notin Conversions, op \notin Reinterprets
      PROVE  Signature(op) = Sig(<< >>, << >>)
  BY <1>13 DEF Signature, OneOperand, OneResult, OneEach, Constants, Eqz, Relations, BinaryNumerics
<1> QED
  BY <1>1, <1>2, <1>3, <1>4, <1>5, <1>6, <1>7, <1>8, <1>9, <1>10, <1>11, <1>12, <1>13

ValueTypes == {"i32", "i64", "f32", "f64"}

LEMMA ValueFacts ==
  /\ \A op : LoadResult(op) \in ValueTypes /\ StoreOperand(op) \in ValueTypes
  /\ \A op : Compared(op) \in ValueTypes /\ Computed(op) \in ValueTypes
  /\ \A op \in Conversions : ConversionFrom[op] \in ValueTypes /\ ConversionTo[op] \in ValueTypes
  /\ \A op \in Consts : ConstResult[op] \in ValueTypes
<1>1. \A op : LoadResult(op) \in ValueTypes
  BY DEF LoadResult, ValueTypes
<1>2. \A op : StoreOperand(op) \in ValueTypes
  BY DEF StoreOperand, ValueTypes
<1>3. \A op : Compared(op) \in ValueTypes
  BY DEF Compared, ValueTypes
<1>4. \A op : Computed(op) \in ValueTypes
  BY DEF Computed, ValueTypes
<1>5. \A op \in Conversions : ConversionFrom[op] \in ValueTypes
  BY DEF ConversionFrom, ValueTypes
<1>6. \A op \in Conversions : ConversionTo[op] \in ValueTypes
  BY DEF ConversionTo, ValueTypes
<1>7. \A op \in Consts : ConstResult[op] \in ValueTypes
  BY OpcodeNumbers DEF Consts, ConstResult, ValueTypes
<1> QED
  BY <1>1, <1>2, <1>3, <1>4, <1>5, <1>6, <1>7

(* An effect does to the stack what the signature of its opcode says, or   *)
(* does not: it reads other members, or does not change the length of the  *)
(* stack as the signature would.                                           *)
Typed(effect) ==
  /\ effect.pops \in Nat
  /\ effect.pushes \in Seq(ValueTypes)
Faithful(op, effect) ==
  /\ effect.reads = Params(op)
  /\ \/ effect.pops = Len(Params(op)) /\ effect.pushes = Results(op)
     \/ effect.pops = 0 /\ effect.pushes = << >> /\ Params(op) = Results(op)
Unfaithful(op, effect) ==
  \/ effect.reads # Params(op)
  \/ effect.pops = 0 /\ effect.pushes = << >> /\ Len(Params(op)) # Len(Results(op))

Wrong == Unbound \cup Stores \cup {DEMOTE, IF_}

Judged(op, effect) ==
  /\ Typed(effect)
  /\ op \notin Wrong \cup {CALL_INDIRECT} => Faithful(op, effect)
  /\ op \in Wrong => Unfaithful(op, effect)

(* Which opcodes of each group are among the wrong ones.                   *)
LEMMA WrongOnes ==
  ASSUME NEW op
  PROVE  /\ op \in Control \ {IF_} => op \notin Wrong
         /\ op \in VariableOps \cup Parametric \cup Narrow \cup Sized \cup I32Ops \cup I64Ops
                     \cup F32Ops \cup F64Ops => op \notin Wrong
         /\ op \in FullWidth => (op \in Wrong <=> op \in Stores)
         /\ op \in conversion_ops => (op \in Wrong <=> op = DEMOTE)
BY OpcodeNumbers, SMTT(60)
   DEF Wrong, Control, VariableOps, Parametric, FullWidth, Narrow, Sized, I32Ops, I64Ops, F32Ops, F64Ops,
       conversion_ops, Conversions, sign_extending, widening, truncating, i32_binary, i32_compare,
       i32_unary, i64_binary, i64_compare, i64_unary, f32_binary, f32_compare, f32_unary, f64_binary,
       f64_compare, f64_unary, Unbound, Consts, Stores

(* An effect with one of the two shapes of a handler on values. *)
LEMMA UnaryJudged ==
  ASSUME NEW op, NEW a \in ValueTypes, NEW b \in ValueTypes, NEW then,
         Signature(op) = Sig(<< a >>, << b >>), op \notin Wrong
  PROVE  Judged(op, Effect(<< a >>, 1, << b >>, then))
BY DEF Judged, Typed, Faithful, Effect, Params, Results, Sig

LEMMA BinaryJudged ==
  ASSUME NEW op, NEW a \in ValueTypes, NEW b \in ValueTypes, NEW then,
         Signature(op) = Sig(<< a, a >>, << b >>), op \notin Wrong
  PROVE  Judged(op, Effect(<< a, a >>, 2, << b >>, then))
BY DEF Judged, Typed, Faithful, Effect, Params, Results, Sig

LEMMA ControlJudged ==
  ASSUME NEW op \in Control, NEW operand, NEW effect \in op_func_control(op, operand)
  PROVE  Judged(op, effect)
<1>1. \/ op \in {0, 1, BLOCK, LOOP, ELSE_, END, BR, RETURN, CALL}
      \/ op \in {BR_IF, BR_TABLE} \/ op = IF_ \/ op = CALL_INDIRECT
  BY OpcodeNumbers DEF Control
<1>2. CASE op \in {0, 1, BLOCK, LOOP, ELSE_, END, BR, RETURN, CALL}
  <2>1. PICK then : effect = Effect(<< >>, 0, << >>, then)
    <3>1. CASE op = 0
      BY <3>1, OpcodeNumbers DEF op_func_control
    <3>2. CASE op = 1
      BY <3>2, OpcodeNumbers DEF op_func_control
    <3>3. CASE op = BLOCK
      BY <3>3, OpcodeNumbers DEF op_func_control
    <3>4. CASE op = LOOP
      BY <3>4, OpcodeNumbers DEF op_func_control
    <3>5. CASE op = ELSE_
      BY <3>5, OpcodeNumbers DEF op_func_control
    <3>6. CASE op = END
      BY <3>6, OpcodeNumbers DEF op_func_control
    <3>7. CASE op = BR
      BY <3>7, OpcodeNumbers DEF op_func_control
    <3>8. CASE op = RETURN
      BY <3>8, OpcodeNumbers DEF op_func_control
    <3>9. CASE op = CALL
      BY <3>9, OpcodeNumbers DEF op_func_control
    <3> QED
      BY <1>2, <3>1, <3>2, <3>3, <3>4, <3>5, <3>6, <3>7, <3>8, <3>9
  <2>2. Signature(op) = Sig(<< >>, << >>)
    <3>1. /\ op # SELECT /\ op \notin OneOperand /\ op \notin OneResult /\ op \notin OneEach /\ op \notin Loads
          /\ op \notin Stores /\ op \notin Constants /\ op \notin Eqz /\ op \notin Relations
          /\ op \notin UnaryNumerics /\ op \notin BinaryNumerics /\ op \notin Conversions
          /\ op \notin Reinterprets
      BY <1>2, OpcodeNumbers, SMTT(30)
         DEF OneOperand, OneResult, OneEach, Constants, Eqz, Relations, BinaryNumerics, Loads, Stores,
             Comparisons, UnaryNumerics, Numerics, Conversions, Reinterprets
    <3> QED
      BY <3>1, SignatureIs
  <2>3. op \notin Wrong
    <3>1. op \in Control \ {IF_}
      BY <1>2, OpcodeNumbers
    <3> QED
      BY <3>1, WrongOnes
  <2> QED
    BY <2>1, <2>2, <2>3 DEF Judged, Typed, Faithful, Effect, Params, Results, Sig
<1>3. CASE op \in {BR_IF, BR_TABLE}
  <2>1. PICK then : effect = Effect(<< "i32" >>, 1, << >>, then)
    <3>1. CASE op = BR_IF
      BY <3>1, OpcodeNumbers, SMTT(30) DEF op_func_control
    <3>2. CASE op = BR_TABLE
      BY <3>2, OpcodeNumbers DEF op_func_control
    <3> QED
      BY <1>3, <3>1, <3>2
  <2>2. Signature(op) = Sig(<< "i32" >>, << >>)
    BY <1>3, SignatureIs DEF OneOperand
  <2>3. op \notin Wrong
    <3>1. op \in Control \ {IF_}
      BY <1>3, OpcodeNumbers
    <3> QED
      BY <3>1, WrongOnes
  <2> QED
    BY <2>1, <2>2, <2>3 DEF Judged, Typed, Faithful, Effect, Params, Results, Sig
<1>4. CASE op = IF_
  <2>1. PICK then : effect = Effect(<< "i32" >>, 0, << >>, then)
    BY <1>4, OpcodeNumbers DEF op_func_control
  <2>2. Signature(op) = Sig(<< "i32" >>, << >>)
    BY <1>4, SignatureIs DEF OneOperand
  <2>3. op \in Wrong
    BY <1>4 DEF Wrong
  <2> QED
    BY <2>1, <2>2, <2>3 DEF Judged, Typed, Unfaithful, Effect, Params, Results, Sig
<1>5. CASE op = CALL_INDIRECT
  <2>1. PICK then : effect = Effect(<< >>, 0, << >>, then)
    BY <1>5, OpcodeNumbers DEF op_func_control
  <2>2. op \notin Wrong
    <3>1. op \in Control \ {IF_}
      BY <1>5, OpcodeNumbers
    <3> QED
      BY <3>1, WrongOnes
  <2> QED
    BY <1>5, <2>1, <2>2 DEF Judged, Typed, Effect
<1> QED
  BY <1>1, <1>2, <1>3, <1>4, <1>5

LEMMA VariableJudged ==
  ASSUME NEW op \in VariableOps, NEW effect \in op_func_variable(op)
  PROVE  Judged(op, effect)
<1>0. op \notin Wrong
  BY WrongOnes
<1>1. op \in {GET_LOCAL, GET_GLOBAL} \/ op = TEE_LOCAL \/ op \in {SET_LOCAL, SET_GLOBAL}
  BY OpcodeNumbers DEF VariableOps
<1>2. CASE op \in {GET_LOCAL, GET_GLOBAL}
  <2>1. effect = Effect(<< >>, 0, << "i32" >>, "after")
    <3>1. op # TEE_LOCAL /\ op \notin {SET_LOCAL, SET_GLOBAL}
      BY <1>2, OpcodeNumbers
    <3> QED
      BY <1>2, <3>1 DEF op_func_variable
  <2>2. Signature(op) = Sig(<< >>, << "i32" >>)
    BY <1>2, SignatureIs DEF OneResult
  <2> QED
    BY <1>0, <2>1, <2>2 DEF Judged, Typed, Faithful, Effect, Params, Results, Sig, ValueTypes
<1>3. CASE op = TEE_LOCAL
  <2>1. effect = Effect(<< "i32" >>, 0, << >>, "after")
    BY <1>3, OpcodeNumbers DEF op_func_variable
  <2>2. Signature(op) = Sig(<< "i32" >>, << "i32" >>)
    BY <1>3, SignatureIs DEF OneEach
  <2> QED
    BY <1>0, <2>1, <2>2 DEF Judged, Typed, Faithful, Effect, Params, Results, Sig
<1>4. CASE op \in {SET_LOCAL, SET_GLOBAL}
  <2>1. effect = Effect(<< "i32" >>, 1, << >>, "after")
    BY <1>4, OpcodeNumbers DEF op_func_variable
  <2>2. Signature(op) = Sig(<< "i32" >>, << >>)
    BY <1>4, SignatureIs DEF OneOperand
  <2> QED
    BY <1>0, <2>1, <2>2 DEF Judged, Typed, Faithful, Effect, Params, Results, Sig
<1> QED
  BY <1>1, <1>2, <1>3, <1>4

LEMMA ParametricJudged ==
  ASSUME NEW op \in Parametric, NEW effect \in op_func_parametric(op)
  PROVE  Judged(op, effect)
<1>0. op \notin Wrong
  BY WrongOnes
<1>1. CASE op = SELECT
  <2>1. effect = Effect(<< "i32", "i32", "i32" >>, 3, << "i32" >>, "after")
    BY <1>1, OpcodeNumbers DEF op_func_parametric
  <2>2. Signature(op) = Sig(<< "i32", "i32", "i32" >>, << "i32" >>)
    BY <1>1, SignatureIs
  <2> QED
    BY <1>0, <2>1, <2>2 DEF Judged, Typed, Faithful, Effect, Params, Results, Sig, ValueTypes
<1>2. CASE op = DROP
  <2>1. effect = Effect(<< "i32" >>, 1, << >>, "after")
    BY <1>2, OpcodeNumbers DEF op_func_parametric
  <2>2. Signature(op) = Sig(<< "i32" >>, << >>)
    BY <1>2, SignatureIs DEF OneOperand
  <2> QED
    BY <1>0, <2>1, <2>2 DEF Judged, Typed, Faithful, Effect, Params, Results, Sig
<1> QED
  BY <1>1, <1>2 DEF Parametric

LEMMA SizeJudged ==
  ASSUME NEW op \in Sized, NEW effect \in op_func_size(op)
  PROVE  Judged(op, effect)
<1>0. op \notin Wrong
  BY WrongOnes
<1>1. CASE op = GROW_MEMORY
  <2>1. effect = Effect(<< "i32" >>, 1, << "i32" >>, "after")
    BY <1>1, OpcodeNumbers DEF op_func_size
  <2>2. Signature(op) = Sig(<< "i32" >>, << "i32" >>)
    BY <1>1, SignatureIs DEF OneEach
  <2> QED
    BY <1>0, <2>1, <2>2, UnaryJudged DEF ValueTypes
<1>2. CASE op = CURRENT_MEMORY
  <2>1. effect = Effect(<< >>, 0, << "i32" >>, "after")
    BY <1>2, OpcodeNumbers DEF op_func_size
  <2>2. Signature(op) = Sig(<< >>, << "i32" >>)
    BY <1>2, SignatureIs DEF OneResult
  <2> QED
    BY <1>0, <2>1, <2>2 DEF Judged, Typed, Faithful, Effect, Params, Results, Sig, ValueTypes
<1> QED
  BY <1>1, <1>2 DEF Sized

LEMMA FullWidthJudged ==
  ASSUME NEW op \in FullWidth, NEW effect \in op_func_full_width(op)
  PROVE  Judged(op, effect)
<1>0. op \in Int /\ (op \in 40 .. 43 \/ op \in 54 .. 57)
  BY DEF FullWidth
<1>1. CASE op \in 40 .. 43
  <2>1. PICK member : /\ member = <<"i32", "i64", "f32", "f64">>[((op - 40) % 14) + 1]
                      /\ effect \in memory_op(TRUE, member)
    BY <1>1 DEF op_func_full_width
  <2>2. effect = Effect(<< "i32" >>, 1, << member >>, "no_view")
    BY <2>1 DEF memory_op
  <2>3. ((op - 40) % 14) + 1 = op - 39
    BY <1>1
  <2>4. member = LoadResult(op)
    <3>1. member = <<"i32", "i64", "f32", "f64">>[op - 39]
      BY <2>1, <2>3
    <3>2. op = 40 \/ op = 41 \/ op = 42 \/ op = 43
      BY <1>1
    <3> QED
      BY <3>1, <3>2 DEF LoadResult
  <2>5. Signature(op) = Sig(<< "i32" >>, << LoadResult(op) >>)
    <3>1. op \in Loads
      BY <1>1 DEF Loads
    <3> QED
      BY <3>1, SignatureIs
  <2>6. op \notin Wrong
    BY <1>1, WrongOnes DEF Stores
  <2>7. "i32" \in ValueTypes /\ LoadResult(op) \in ValueTypes
    BY ValueFacts DEF ValueTypes
  <2> QED
    BY <2>2, <2>4, <2>5, <2>6, <2>7, UnaryJudged
<1>2. CASE op \in 54 .. 57
  <2>1. PICK member : effect \in {Effect(<< "i32", member >>, 0, << >>, "no_view")}
    <3> DEFINE m == <<"i32", "i64", "f32", "f64">>[((op - 40) % 14) + 1]
    <3>1. effect \in memory_op(op \in 40 .. 43, m)
      BY DEF op_func_full_width
    <3> HIDE DEF m
    <3>2. ~(op \in 40 .. 43)
      BY <1>2
    <3>3. memory_op(op \in 40 .. 43, m) = {Effect(<< "i32", m >>, 0, << >>, "no_view")}
      BY <3>2, Zenon DEF memory_op
    <3> QED
      BY <3>1, <3>3
  <2>2. effect = Effect(<< "i32", member >>, 0, << >>, "no_view")
    BY <2>1
  <2>3. Signature(op) = Sig(<< "i32", StoreOperand(op) >>, << >>)
    <3>1. op \in Stores
      BY <1>2 DEF Stores
    <3> QED
      BY <3>1, SignatureIs
  <2>4. op \in Wrong
    BY <1>2, WrongOnes DEF Stores
  <2> QED
    BY <2>2, <2>3, <2>4 DEF Judged, Typed, Unfaithful, Effect, Params, Results, Sig
<1> QED
  BY <1>0, <1>1, <1>2

LEMMA NarrowJudged ==
  ASSUME NEW op \in Narrow, NEW effect \in op_func_narrow(op)
  PROVE  Judged(op, effect)
<1>0. op \in Loads /\ op \notin Wrong /\ op \in Int
  BY WrongOnes DEF Narrow, sign_extending, widening, truncating, Loads
<1>1. effect = Effect(<< "i32" >>, 1, << IF op <= 47 THEN "i32" ELSE "i64" >>, "no_view")
  BY DEF op_func_narrow, memory_op
<1>2. LoadResult(op) = IF op <= 47 THEN "i32" ELSE "i64"
  BY DEF Narrow, sign_extending, widening, truncating, LoadResult
<1>3. Signature(op) = Sig(<< "i32" >>, << LoadResult(op) >>)
  BY <1>0, SignatureIs
<1>4. "i32" \in ValueTypes /\ LoadResult(op) \in ValueTypes
  BY ValueFacts DEF ValueTypes
<1> QED
  BY <1>0, <1>1, <1>2, <1>3, <1>4, UnaryJudged

LEMMA I32Judged ==
  ASSUME NEW op \in I32Ops, NEW effect \in op_func_i32(op)
  PROVE  Judged(op, effect)
<1>0. op \notin Wrong /\ "i32" \in ValueTypes /\ "i32" \in ValueTypes
  BY WrongOnes DEF ValueTypes
<1>1. CASE op \in i32_unary
  <2>1. effect = Effect(<< "i32" >>, 1, << "i32" >>, "after")
    BY <1>1 DEF op_func_i32, make_unary_op
  <2>2. op \in UnaryNumerics /\ Computed(op) = "i32"
    BY <1>1 DEF i32_unary, UnaryNumerics, Computed
  <2>3. Signature(op) = Sig(<< "i32" >>, << "i32" >>)
    BY <2>2, SignatureIs
  <2> QED
    BY <1>0, <2>1, <2>3, UnaryJudged
<1>2. CASE op \in i32_compare
  <2>1. op \notin i32_unary
    BY <1>2 DEF i32_unary, i32_compare
  <2>2. effect = Effect(<< "i32", "i32" >>, 2, << "i32" >>, "after")
    BY <1>2, <2>1 DEF op_func_i32, make_binary_op
  <2>3. op \in Relations /\ Compared(op) = "i32"
    BY <1>2 DEF i32_compare, Relations, Comparisons, Compared
  <2>4. Signature(op) = Sig(<< "i32", "i32" >>, << "i32" >>)
    BY <2>3, SignatureIs
  <2> QED
    BY <1>0, <2>2, <2>4, BinaryJudged
<1>3. CASE op \in i32_binary
  <2>1. op \notin i32_unary /\ op \notin i32_compare
    BY <1>3 DEF i32_unary, i32_compare, i32_binary
  <2>2. effect = Effect(<< "i32", "i32" >>, 2, << "i32" >>, "after")
    BY <2>1 DEF op_func_i32, make_binary_op
  <2>3. op \in BinaryNumerics /\ Computed(op) = "i32"
    BY <1>3 DEF i32_binary, BinaryNumerics, Numerics, UnaryNumerics, Computed
  <2>4. Signature(op) = Sig(<< "i32", "i32" >>, << "i32" >>)
    BY <2>3, SignatureIs
  <2> QED
    BY <1>0, <2>2, <2>4, BinaryJudged
<1> QED
  BY <1>1, <1>2, <1>3 DEF I32Ops

LEMMA I64Judged ==
  ASSUME NEW op \in I64Ops, NEW effect \in op_func_i64(op)
  PROVE  Judged(op, effect)
<1>0. op \notin Wrong /\ "i32" \in ValueTypes /\ "i64" \in ValueTypes
  BY WrongOnes DEF ValueTypes
<1>1. CASE op \in i64_unary
  <2>1. effect = Effect(<< "i64" >>, 1, << "i64" >>, "after")
    BY <1>1 DEF op_func_i64, make_unary_op
  <2>2. op \in UnaryNumerics /\ Computed(op) = "i64"
    BY <1>1 DEF i64_unary, UnaryNumerics, Computed
  <2>3. Signature(op) = Sig(<< "i64" >>, << "i64" >>)
    BY <2>2, SignatureIs
  <2> QED
    BY <1>0, <2>1, <2>3, UnaryJudged
<1>2. CASE op \in i64_compare
  <2>1. op \notin i64_unary
    BY <1>2 DEF i64_unary, i64_compare
  <2>2. effect = Effect(<< "i64", "i64" >>, 2, << "i32" >>, "after")
    BY <1>2, <2>1 DEF op_func_i64, make_binary_op
  <2>3. op \in Relations /\ Compared(op) = "i64"
    BY <1>2 DEF i64_compare, Relations, Comparisons, Compared
  <2>4. Signature(op) = Sig(<< "i64", "i64" >>, << "i32" >>)
    BY <2>3, SignatureIs
  <2> QED
    BY <1>0, <2>2, <2>4, BinaryJudged
<1>3. CASE op \in i64_binary
  <2>1. op \notin i64_unary /\ op \notin i64_compare
    BY <1>3 DEF i64_unary, i64_compare, i64_binary
  <2>2. effect = Effect(<< "i64", "i64" >>, 2, << "i64" >>, "after")
    BY <2>1 DEF op_func_i64, make_binary_op
  <2>3. op \in BinaryNumerics /\ Computed(op) = "i64"
    BY <1>3 DEF i64_binary, BinaryNumerics, Numerics, UnaryNumerics, Computed
  <2>4. Signature(op) = Sig(<< "i64", "i64" >>, << "i64" >>)
    BY <2>3, SignatureIs
  <2> QED
    BY <1>0, <2>2, <2>4, BinaryJudged
<1> QED
  BY <1>1, <1>2, <1>3 DEF I64Ops

LEMMA F32Judged ==
  ASSUME NEW op \in F32Ops, NEW effect \in op_func_f32(op)
  PROVE  Judged(op, effect)
<1>0. op \notin Wrong /\ "i32" \in ValueTypes /\ "f32" \in ValueTypes
  BY WrongOnes DEF ValueTypes
<1>1. CASE op \in f32_unary
  <2>1. effect = Effect(<< "f32" >>, 1, << "f32" >>, "after")
    BY <1>1 DEF op_func_f32, make_unary_op
  <2>2. op \in UnaryNumerics /\ Computed(op) = "f32"
    BY <1>1 DEF f32_unary, UnaryNumerics, Computed
  <2>3. Signature(op) = Sig(<< "f32" >>, << "f32" >>)
    BY <2>2, SignatureIs
  <2> QED
    BY <1>0, <2>1, <2>3, UnaryJudged
<1>2. CASE op \in f32_compare
  <2>1. op \notin f32_unary
    BY <1>2 DEF f32_unary, f32_compare
  <2>2. effect = Effect(<< "f32", "f32" >>, 2, << "i32" >>, "after")
    BY <1>2, <2>1 DEF op_func_f32, make_binary_op
  <2>3. op \in Relations /\ Compared(op) = "f32"
    BY <1>2 DEF f32_compare, Relations, Comparisons, Compared
  <2>4. Signature(op) = Sig(<< "f32", "f32" >>, << "i32" >>)
    BY <2>3, SignatureIs
  <2> QED
    BY <1>0, <2>2, <2>4, BinaryJudged
<1>3. CASE op \in f32_binary
  <2>1. op \notin f32_unary /\ op \notin f32_compare
    BY <1>3 DEF f32_unary, f32_compare, f32_binary
  <2>2. effect = Effect(<< "f32", "f32" >>, 2, << "f32" >>, "after")
    BY <2>1 DEF op_func_f32, make_binary_op
  <2>3. op \in BinaryNumerics /\ Computed(op) = "f32"
    BY <1>3 DEF f32_binary, BinaryNumerics, Numerics, UnaryNumerics, Computed
  <2>4. Signature(op) = Sig(<< "f32", "f32" >>, << "f32" >>)
    BY <2>3, SignatureIs
  <2> QED
    BY <1>0, <2>2, <2>4, BinaryJudged
<1> QED
  BY <1>1, <1>2, <1>3 DEF F32Ops

LEMMA F64Judged ==
  ASSUME NEW op \in F64Ops, NEW effect \in op_func_f64(op)
  PROVE  Judged(op, effect)
<1>0. op \notin Wrong /\ "i32" \in ValueTypes /\ "f64" \in ValueTypes
  BY WrongOnes DEF ValueTypes
<1>1. CASE op \in f64_unary
  <2>1. effect = Effect(<< "f64" >>, 1, << "f64" >>, "after")
    BY <1>1 DEF op_func_f64, make_unary_op
  <2>2. op \in UnaryNumerics /\ Computed(op) = "f64"
    BY <1>1 DEF f64_unary, UnaryNumerics, Computed
  <2>3. Signature(op) = Sig(<< "f64" >>, << "f64" >>)
    BY <2>2, SignatureIs
  <2> QED
    BY <1>0, <2>1, <2>3, UnaryJudged
<1>2. CASE op \in f64_compare
  <2>1. op \notin f64_unary
    BY <1>2 DEF f64_unary, f64_compare
  <2>2. effect = Effect(<< "f64", "f64" >>, 2, << "i32" >>, "after")
    BY <1>2, <2>1 DEF op_func_f64, make_binary_op
  <2>3. op \in Relations /\ Compared(op) = "f64"
    BY <1>2 DEF f64_compare, Relations, Comparisons, Compared
  <2>4. Signature(op) = Sig(<< "f64", "f64" >>, << "i32" >>)
    BY <2>3, SignatureIs
  <2> QED
    BY <1>0, <2>2, <2>4, BinaryJudged
<1>3. CASE op \in f64_binary
  <2>1. op \notin f64_unary /\ op \notin f64_compare
    BY <1>3 DEF f64_unary, f64_compare, f64_binary
  <2>2. effect = Effect(<< "f64", "f64" >>, 2, << "f64" >>, "after")
    BY <2>1 DEF op_func_f64, make_binary_op
  <2>3. op \in BinaryNumerics /\ Computed(op) = "f64"
    BY <1>3 DEF f64_binary, BinaryNumerics, Numerics, UnaryNumerics, Computed
  <2>4. Signature(op) = Sig(<< "f64", "f64" >>, << "f64" >>)
    BY <2>3, SignatureIs
  <2> QED
    BY <1>0, <2>2, <2>4, BinaryJudged
<1> QED
  BY <1>1, <1>2, <1>3 DEF F64Ops

LEMMA ConversionJudged ==
  ASSUME NEW op \in conversion_ops, NEW effect \in op_func_conversion(op)
  PROVE  Judged(op, effect)
<1>1. op \in Conversions /\ ConversionFrom[op] \in ValueTypes /\ ConversionTo[op] \in ValueTypes
  BY ValueFacts DEF conversion_ops
<1>2. Signature(op) = Sig(<< ConversionFrom[op] >>, << ConversionTo[op] >>)
  BY <1>1, SignatureIs
<1>3. CASE op = DEMOTE
  <2>1. effect = Effect(<< "f32" >>, 1, << ConversionTo[op] >>, "after")
    BY <1>3 DEF op_func_conversion, make_unary_op
  <2>2. ConversionFrom[op] = "f64"
    BY <1>1, <1>3, OpcodeNumbers DEF ConversionFrom
  <2>3. << "f32" >> # << ConversionFrom[op] >>
    BY <2>2
  <2>4. op \in Wrong
    BY <1>3, WrongOnes
  <2> QED
    BY <1>1, <1>2, <2>1, <2>3, <2>4 DEF Judged, Typed, Unfaithful, Effect, Params, Sig
<1>4. CASE op # DEMOTE
  <2>1. effect = Effect(<< ConversionFrom[op] >>, 1, << ConversionTo[op] >>, "after")
    BY <1>4 DEF op_func_conversion, make_unary_op
  <2>2. op \notin Wrong
    BY <1>4, WrongOnes
  <2> QED
    BY <1>1, <1>2, <2>1, <2>2, UnaryJudged
<1> QED
  BY <1>3, <1>4

LEMMA DefaultJudged ==
  ASSUME NEW op \in Unbound, NEW effect \in op_func_default
  PROVE  Judged(op, effect)
<1>1. effect = Effect(<< >>, 0, << >>, "bad_opcode") /\ op \in Wrong
  BY DEF op_func_default, Wrong
<1>2. \/ op \in Consts \/ op \in Loads \/ op \in Stores \/ op \in Eqz \/ op \in Relations
      \/ op \in UnaryNumerics \/ op \in Conversions
  BY SMTT(30) DEF Unbound, Loads, Stores, Eqz, Relations, Comparisons, UnaryNumerics, Conversions
<1>3. CASE op \in Consts
  <2>1. op \in Constants
    BY <1>3, OpcodeNumbers DEF Consts, Constants
  <2>2. Signature(op) = Sig(<< >>, << ConstResult[op] >>)
    BY <2>1, SignatureIs
  <2> QED
    BY <1>1, <2>2 DEF Judged, Typed, Unfaithful, Effect, Params, Results, Sig
<1>4. ASSUME NEW a, Params(op) = << a >> PROVE Judged(op, effect)
  <2>1. << >> # << a >>
    OBVIOUS
  <2> QED
    BY <1>1, <1>4, <2>1 DEF Judged, Typed, Unfaithful, Effect
<1>5. ASSUME NEW a, NEW b, Params(op) = << a, b >> PROVE Judged(op, effect)
  <2>1. << >> # << a, b >>
    OBVIOUS
  <2> QED
    BY <1>1, <1>5, <2>1 DEF Judged, Typed, Unfaithful, Effect
<1>6. CASE op \in Loads
  BY <1>4, <1>6, SignatureIs DEF Params, Sig
<1>7. CASE op \in Stores
  BY <1>5, <1>7, SignatureIs DEF Params, Sig
<1>8. CASE op \in Eqz
  BY <1>4, <1>8, SignatureIs DEF Params, Sig
<1>9. CASE op \in Relations
  BY <1>5, <1>9, SignatureIs DEF Params, Sig
<1>10. CASE op \in UnaryNumerics
  BY <1>4, <1>10, SignatureIs DEF Params, Sig
<1>11. CASE op \in Conversions
  BY <1>4, <1>11, SignatureIs DEF Params, Sig
<1> QED
  BY <1>2, <1>3, <1>6, <1>7, <1>8, <1>9, <1>10, <1>11

(* What the handler of an opcode leaves, for every opcode.                 *)
LEMMA Handlers ==
  ASSUME NEW op \in all_opcodes, NEW operand, NEW effect \in op_func(op, operand)
  PROVE  Judged(op, effect)
<1>1. CASE op \in Control
  BY <1>1, HandlerIs, ControlJudged
<1>2. CASE op \in VariableOps
  BY <1>2, HandlerIs, VariableJudged
<1>3. CASE op \in Parametric
  BY <1>3, HandlerIs, ParametricJudged
<1>4. CASE op \in FullWidth
  BY <1>4, HandlerIs, FullWidthJudged
<1>5. CASE op \in Narrow
  BY <1>5, HandlerIs, NarrowJudged
<1>6. CASE op \in Sized
  BY <1>6, HandlerIs, SizeJudged
<1>7. CASE op \in I32Ops
  BY <1>7, HandlerIs, I32Judged
<1>8. CASE op \in I64Ops
  BY <1>8, HandlerIs, I64Judged
<1>9. CASE op \in F32Ops
  BY <1>9, HandlerIs, F32Judged
<1>10. CASE op \in F64Ops
  BY <1>10, HandlerIs, F64Judged
<1>11. CASE op \in conversion_ops
  BY <1>11, HandlerIs, ConversionJudged
<1>12. CASE op \in Unbound
  BY <1>12, HandlerIs, DefaultJudged
<1> QED
  BY <1>1, <1>2, <1>3, <1>4, <1>5, <1>6, <1>7, <1>8, <1>9, <1>10, <1>11, <1>12, EveryHandler

LEMMA SigType ==
  ASSUME NEW op, NEW p \in Seq(ValueTypes), NEW r \in Seq(ValueTypes), Signature(op) = Sig(p, r)
  PROVE  Params(op) \in Seq(ValueTypes) /\ Results(op) \in Seq(ValueTypes)
BY DEF Params, Results, Sig

LEMMA SignatureType ==
  ASSUME NEW op
  PROVE  Params(op) \in Seq(ValueTypes) /\ Results(op) \in Seq(ValueTypes)
<1>1. /\ << >> \in Seq(ValueTypes)
      /\ \A a \in ValueTypes : << a >> \in Seq(ValueTypes)
      /\ \A a, b \in ValueTypes : << a, b >> \in Seq(ValueTypes)
  OBVIOUS
<1>2. "i32" \in ValueTypes /\ << "i32", "i32", "i32" >> \in Seq(ValueTypes)
  BY DEF ValueTypes
<1>3. CASE op \in OneOperand
  <2>1. Signature(op) = Sig(<< "i32" >>, << >>)
    BY <1>3, SignatureIs
  <2>9. << "i32" >> \in Seq(ValueTypes) /\ << >> \in Seq(ValueTypes)
    BY <1>1, <1>2
  <2> QED
    BY <2>1, <2>9, SigType
<1>4. CASE op = SELECT
  <2>1. Signature(op) = Sig(<< "i32", "i32", "i32" >>, << "i32" >>)
    BY <1>4, SignatureIs
  <2>9. << "i32", "i32", "i32" >> \in Seq(ValueTypes) /\ << "i32" >> \in Seq(ValueTypes)
    BY <1>1, <1>2
  <2> QED
    BY <2>1, <2>9, SigType
<1>5. CASE op \in OneResult
  <2>1. Signature(op) = Sig(<< >>, << "i32" >>)
    BY <1>5, SignatureIs
  <2>9. << >> \in Seq(ValueTypes) /\ << "i32" >> \in Seq(ValueTypes)
    BY <1>1, <1>2
  <2> QED
    BY <2>1, <2>9, SigType
<1>6. CASE op \in OneEach
  <2>1. Signature(op) = Sig(<< "i32" >>, << "i32" >>)
    BY <1>6, SignatureIs
  <2>9. << "i32" >> \in Seq(ValueTypes) /\ << "i32" >> \in Seq(ValueTypes)
    BY <1>1, <1>2
  <2> QED
    BY <2>1, <2>9, SigType
<1>7. CASE op \in Loads
  <2>1. Signature(op) = Sig(<< "i32" >>, << LoadResult(op) >>)
    BY <1>7, SignatureIs
  <2>2. LoadResult(op) \in ValueTypes
    BY ValueFacts
  <2>9. << "i32" >> \in Seq(ValueTypes) /\ << LoadResult(op) >> \in Seq(ValueTypes)
    BY <1>1, <1>2, <2>2
  <2> QED
    BY <2>1, <2>9, SigType
<1>8. CASE op \in Stores
  <2>1. Signature(op) = Sig(<< "i32", StoreOperand(op) >>, << >>)
    BY <1>8, SignatureIs
  <2>2. StoreOperand(op) \in ValueTypes
    BY ValueFacts
  <2>9. << "i32", StoreOperand(op) >> \in Seq(ValueTypes) /\ << >> \in Seq(ValueTypes)
    BY <1>1, <1>2, <2>2
  <2> QED
    BY <2>1, <2>9, SigType
<1>9. CASE op \in Constants
  <2>1. Signature(op) = Sig(<< >>, << ConstResult[op] >>)
    BY <1>9, SignatureIs
  <2>2. ConstResult[op] \in ValueTypes
    BY <1>9, OpcodeNumbers, ValueFacts DEF Constants, Consts
  <2>9. << >> \in Seq(ValueTypes) /\ << ConstResult[op] >> \in Seq(ValueTypes)
    BY <1>1, <1>2, <2>2
  <2> QED
    BY <2>1, <2>9, SigType
<1>10. CASE op \in Eqz
  <2>1. Signature(op) = Sig(<< Compared(op) >>, << "i32" >>)
    BY <1>10, SignatureIs
  <2>2. Compared(op) \in ValueTypes
    BY ValueFacts
  <2>9. << Compared(op) >> \in Seq(ValueTypes) /\ << "i32" >> \in Seq(ValueTypes)
    BY <1>1, <1>2, <2>2
  <2> QED
    BY <2>1, <2>9, SigType
<1>11. CASE op \in Relations
  <2>1. Signature(op) = Sig(<< Compared(op), Compared(op) >>, << "i32" >>)
    BY <1>11, SignatureIs
  <2>2. Compared(op) \in ValueTypes
    BY ValueFacts
  <2>9. << Compared(op), Compared(op) >> \in Seq(ValueTypes) /\ << "i32" >> \in Seq(ValueTypes)
    BY <1>1, <1>2, <2>2
  <2> QED
    BY <2>1, <2>9, SigType
<1>12. CASE op \in UnaryNumerics
  <2>1. Signature(op) = Sig(<< Computed(op) >>, << Computed(op) >>)
    BY <1>12, SignatureIs
  <2>2. Computed(op) \in ValueTypes
    BY ValueFacts
  <2>9. << Computed(op) >> \in Seq(ValueTypes) /\ << Computed(op) >> \in Seq(ValueTypes)
    BY <1>1, <1>2, <2>2
  <2> QED
    BY <2>1, <2>9, SigType
<1>13. CASE op \in BinaryNumerics
  <2>1. Signature(op) = Sig(<< Computed(op), Computed(op) >>, << Computed(op) >>)
    BY <1>13, SignatureIs
  <2>2. Computed(op) \in ValueTypes
    BY ValueFacts
  <2>9. << Computed(op), Computed(op) >> \in Seq(ValueTypes) /\ << Computed(op) >> \in Seq(ValueTypes)
    BY <1>1, <1>2, <2>2
  <2> QED
    BY <2>1, <2>9, SigType
<1>14. CASE op \in Conversions
  <2>1. Signature(op) = Sig(<< ConversionFrom[op] >>, << ConversionTo[op] >>)
    BY <1>14, SignatureIs
  <2>2. ConversionFrom[op] \in ValueTypes /\ ConversionTo[op] \in ValueTypes
    BY <1>14, ValueFacts
  <2>9. << ConversionFrom[op] >> \in Seq(ValueTypes) /\ << ConversionTo[op] >> \in Seq(ValueTypes)
    BY <1>1, <1>2, <2>2
  <2> QED
    BY <2>1, <2>9, SigType
<1>15. CASE op \in Reinterprets
  <2> DEFINE a == << "f32", "f64", "i32", "i64" >>[op - 187]
             b == << "i32", "i64", "f32", "f64" >>[op - 187]
  <2>1. /\ op # SELECT /\ op \notin OneOperand /\ op \notin OneResult /\ op \notin OneEach /\ op \notin Loads
        /\ op \notin Stores /\ op \notin Constants /\ op \notin Eqz /\ op \notin Relations
        /\ op \notin UnaryNumerics /\ op \notin BinaryNumerics /\ op \notin Conversions
    BY <1>15, OneSignature
  <2>2. Signature(op) = Sig(<< a >>, << b >>)
    BY <1>15, <2>1 DEF Signature, OneOperand, OneResult, OneEach, Constants, Eqz, Relations, BinaryNumerics
  <2>3. a \in ValueTypes /\ b \in ValueTypes
    <3>1. op - 187 = 1 \/ op - 187 = 2 \/ op - 187 = 3 \/ op - 187 = 4
      BY <1>15 DEF Reinterprets
    <3> QED
      BY <3>1 DEF ValueTypes
  <2> HIDE DEF a, b
  <2>9. << a >> \in Seq(ValueTypes) /\ << b >> \in Seq(ValueTypes)
    BY <1>1, <2>3
  <2> QED
    BY <2>2, <2>9, SigType
<1>16. CASE /\ op # SELECT /\ op \notin OneOperand /\ op \notin OneResult /\ op \notin OneEach /\ op \notin Loads
             /\ op \notin Stores /\ op \notin Constants /\ op \notin Eqz /\ op \notin Relations
             /\ op \notin UnaryNumerics /\ op \notin BinaryNumerics /\ op \notin Conversions
             /\ op \notin Reinterprets
  <2>1. Signature(op) = Sig(<< >>, << >>)
    BY <1>16, SignatureIs
  <2>9. << >> \in Seq(ValueTypes) /\ << >> \in Seq(ValueTypes)
    BY <1>1
  <2> QED
    BY <2>1, <2>9, SigType
<1> QED
  BY <1>3, <1>4, <1>5, <1>6, <1>7, <1>8, <1>9, <1>10, <1>11, <1>12, <1>13, <1>14, <1>15, <1>16

(* What an effect does to a stack that begins with what its opcode takes.  *)
LEMMA AppliedFacts ==
  ASSUME types \in Seq(ValueTypes), NEW effect, Typed(effect)
  PROVE  /\ Applied(effect) \in Seq(ValueTypes)
         /\ effect.pops = 0 /\ effect.pushes = << >> => Applied(effect) = types
<1>1. Len(types) \in Nat /\ \A i \in 1 .. Len(types) : types[i] \in ValueTypes
  OBVIOUS
<1> DEFINE n == Len(types) - effect.pops
<1>2. n \in Int /\ n <= Len(types)
  BY <1>1 DEF Typed
<1> HIDE DEF n
<1>3. SubSeq(types, 1, n) \in Seq(ValueTypes)
  <2>1. \A i \in 1 .. n : types[i] \in ValueTypes
    BY <1>1, <1>2
  <2> QED
    BY <1>2, <2>1, SubSeqProperties
<1>4. Applied(effect) = SubSeq(types, 1, n) \o effect.pushes
  BY DEF Applied, n
<1>5. Applied(effect) \in Seq(ValueTypes)
  BY <1>3, <1>4, ConcatProperties DEF Typed
<1>6. ASSUME effect.pops = 0, effect.pushes = << >> PROVE Applied(effect) = types
  <2>1. n = Len(types)
    BY <1>1, <1>6 DEF n
  <2>2. SubSeq(types, 1, n) = types
    BY <2>1, SubSeqFull
  <2> QED
    BY <1>4, <1>6, <2>2, ConcatEmptySeq
<1> QED
  BY <1>5, <1>6

LEMMA JudgedStack ==
  ASSUME types \in Seq(ValueTypes), NEW op, NEW effect, Judged(op, effect), op # CALL_INDIRECT,
         NEW rest, rest = SubSeq(types, 1, Len(types) - Len(Params(op))),
         types = rest \o Params(op)
  PROVE  (effect.reads = Params(op) /\ Applied(effect) = rest \o Results(op)) <=> op \notin Wrong
<1>1. Typed(effect) /\ Params(op) \in Seq(ValueTypes) /\ Results(op) \in Seq(ValueTypes)
  BY SignatureType DEF Judged
<1>2. ASSUME op \notin Wrong PROVE effect.reads = Params(op) /\ Applied(effect) = rest \o Results(op)
  <2>1. Faithful(op, effect)
    BY <1>2 DEF Judged
  <2>2. CASE effect.pops = Len(Params(op)) /\ effect.pushes = Results(op)
    BY <2>1, <2>2 DEF Faithful, Applied
  <2>3. CASE effect.pops = 0 /\ effect.pushes = << >> /\ Params(op) = Results(op)
    <3>1. Applied(effect) = types
      BY <1>1, <2>3, AppliedFacts
    <3> QED
      BY <2>1, <2>3, <3>1 DEF Faithful
  <2> QED
    BY <2>1, <2>2, <2>3 DEF Faithful
<1>3. ASSUME op \in Wrong, effect.reads = Params(op), Applied(effect) = rest \o Results(op) PROVE FALSE
  <2>1. effect.pops = 0 /\ effect.pushes = << >> /\ Len(Params(op)) # Len(Results(op))
    BY <1>3 DEF Judged, Unfaithful
  <2>2. Applied(effect) = types
    BY <1>1, <2>1, AppliedFacts
  <2>3. rest \o Params(op) = rest \o Results(op)
    BY <1>3, <2>2
  <2>4. rest \in Seq(ValueTypes)
    <3> DEFINE n == Len(types) - Len(Params(op))
    <3>1. n \in Int /\ n <= Len(types) /\ Len(types) \in Nat
      BY <1>1
    <3> HIDE DEF n
    <3>2. \A i \in 1 .. n : types[i] \in ValueTypes
      BY <3>1
    <3>3. SubSeq(types, 1, n) \in Seq(ValueTypes)
      BY <3>1, <3>2, SubSeqProperties, SMTT(30)
    <3> QED
      BY <3>3 DEF n
  <2>5. Params(op) = Results(op)
    BY <1>1, <2>3, <2>4, ConcatSimplifications
  <2> QED
    BY <2>1, <2>5
<1> QED
  BY <1>2, <1>3

------------------------------------------------------------------------------
(* What visit_op_impl reads of an instruction.                             *)

Reading == Memory \cup WordOps \cup {BLOCK, IF_, LOOP, BR_TABLE} \cup Short \cup Long

LEMMA OneReader ==
  ASSUME NEW op
  PROVE  /\ op \in Memory <=> op \in I32_LOAD .. I64_STORE32
         /\ op \in Memory =>
              /\ op \notin WordOps /\ op # BLOCK /\ op # IF_ /\ op # LOOP
              /\ op # BR_TABLE /\ op \notin Short /\ op \notin Long
         /\ op \in WordOps =>
              /\ op \notin Memory /\ op # BLOCK /\ op # IF_ /\ op # LOOP
              /\ op # BR_TABLE /\ op \notin Short /\ op \notin Long
         /\ op = BLOCK =>
              /\ op \notin Memory /\ op \notin WordOps /\ op # IF_ /\ op # LOOP
              /\ op # BR_TABLE /\ op \notin Short /\ op \notin Long
         /\ op = IF_ =>
              /\ op \notin Memory /\ op \notin WordOps /\ op # BLOCK /\ op # LOOP
              /\ op # BR_TABLE /\ op \notin Short /\ op \notin Long
         /\ op = LOOP =>
              /\ op \notin Memory /\ op \notin WordOps /\ op # BLOCK /\ op # IF_
              /\ op # BR_TABLE /\ op \notin Short /\ op \notin Long
         /\ op = BR_TABLE =>
              /\ op \notin Memory /\ op \notin WordOps /\ op # BLOCK /\ op # IF_
              /\ op # LOOP /\ op \notin Short /\ op \notin Long
         /\ op \in Short =>
              /\ op \notin Memory /\ op \notin WordOps /\ op # BLOCK /\ op # IF_
              /\ op # LOOP /\ op # BR_TABLE /\ op \notin Long
         /\ op \in Long =>
              /\ op \notin Memory /\ op \notin WordOps /\ op # BLOCK /\ op # IF_
              /\ op # LOOP /\ op # BR_TABLE /\ op \notin Short
BY OpcodeNumbers, SMTT(30) DEF Memory, Loads, Stores, WordOps, Short, Long

LEMMA VisitIs ==
  ASSUME NEW op, NEW p
  PROVE
    /\ op \in Memory => visit_op_impl(op, p) = {read_memory_immediate(p + 1)}
    /\ op \in WordOps => visit_op_impl(op, p) = {read_serialized_immediate(p + 1, W)}
    /\ op = BLOCK => visit_op_impl(op, p) = {read_block(p + 1, 1)}
    /\ op = IF_ => visit_op_impl(op, p) = {read_block(p + 1, 2)}
    /\ op = LOOP => visit_op_impl(op, p) = {read_block(p + 1, 0)}
    /\ op = BR_TABLE => visit_op_impl(op, p) =
         {NoRead} \cup {[ok |-> TRUE, after |-> q, operand |-> << >>] : q \in 0 .. Len(code)}
    /\ op \in Short => visit_op_impl(op, p) = {read_serialized_immediate(p + 1, W)}
    /\ op \in Long => visit_op_impl(op, p) = {read_serialized_immediate(p + 1, 2 * W)}
    /\ op \notin Reading => visit_op_impl(op, p) =
         {[ok |-> opcode_exists(op), after |-> p + 1, operand |-> << >>]}
<1>1. ASSUME op \in Memory PROVE visit_op_impl(op, p) = {read_memory_immediate(p + 1)}
  <2>1. /\ op \notin WordOps /\ op # BLOCK /\ op # IF_ /\ op # LOOP
        /\ op # BR_TABLE /\ op \notin Short /\ op \notin Long
        /\ op \in Memory <=> op \in I32_LOAD .. I64_STORE32
    BY <1>1, OneReader
  <2> QED
    BY <1>1, <2>1 DEF visit_op_impl, Short, Long
<1>2. ASSUME op \in WordOps PROVE visit_op_impl(op, p) = {read_serialized_immediate(p + 1, W)}
  <2>1. /\ op \notin Memory /\ op # BLOCK /\ op # IF_ /\ op # LOOP
        /\ op # BR_TABLE /\ op \notin Short /\ op \notin Long
        /\ op \in Memory <=> op \in I32_LOAD .. I64_STORE32
    BY <1>2, OneReader
  <2> QED
    BY <1>2, <2>1 DEF visit_op_impl, Short, Long
<1>3. ASSUME op = BLOCK PROVE visit_op_impl(op, p) = {read_block(p + 1, 1)}
  <2>1. /\ op \notin Memory /\ op \notin WordOps /\ op # IF_ /\ op # LOOP
        /\ op # BR_TABLE /\ op \notin Short /\ op \notin Long
        /\ op \in Memory <=> op \in I32_LOAD .. I64_STORE32
    BY <1>3, OneReader
  <2> QED
    BY <1>3, <2>1 DEF visit_op_impl, Short, Long
<1>4. ASSUME op = IF_ PROVE visit_op_impl(op, p) = {read_block(p + 1, 2)}
  <2>1. /\ op \notin Memory /\ op \notin WordOps /\ op # BLOCK /\ op # LOOP
        /\ op # BR_TABLE /\ op \notin Short /\ op \notin Long
        /\ op \in Memory <=> op \in I32_LOAD .. I64_STORE32
    BY <1>4, OneReader
  <2> QED
    BY <1>4, <2>1 DEF visit_op_impl, Short, Long
<1>5. ASSUME op = LOOP PROVE visit_op_impl(op, p) = {read_block(p + 1, 0)}
  <2>1. /\ op \notin Memory /\ op \notin WordOps /\ op # BLOCK /\ op # IF_
        /\ op # BR_TABLE /\ op \notin Short /\ op \notin Long
        /\ op \in Memory <=> op \in I32_LOAD .. I64_STORE32
    BY <1>5, OneReader
  <2> QED
    BY <1>5, <2>1 DEF visit_op_impl, Short, Long
<1>6. ASSUME op = BR_TABLE
      PROVE  visit_op_impl(op, p) =
               {NoRead} \cup {[ok |-> TRUE, after |-> q, operand |-> << >>] : q \in 0 .. Len(code)}
  <2>1. /\ op \notin Memory /\ op \notin WordOps /\ op # BLOCK /\ op # IF_
        /\ op # LOOP /\ op \notin Short /\ op \notin Long
        /\ op \in Memory <=> op \in I32_LOAD .. I64_STORE32
    BY <1>6, OneReader
  <2> QED
    BY <1>6, <2>1 DEF visit_op_impl, Short, Long
<1>7. ASSUME op \in Short PROVE visit_op_impl(op, p) = {read_serialized_immediate(p + 1, W)}
  <2>1. /\ op \notin Memory /\ op \notin WordOps /\ op # BLOCK /\ op # IF_
        /\ op # LOOP /\ op # BR_TABLE /\ op \notin Long
        /\ op \in Memory <=> op \in I32_LOAD .. I64_STORE32
    BY <1>7, OneReader
  <2> QED
    BY <1>7, <2>1 DEF visit_op_impl, Short, Long
<1>8. ASSUME op \in Long PROVE visit_op_impl(op, p) = {read_serialized_immediate(p + 1, 2 * W)}
  <2>1. /\ op \notin Memory /\ op \notin WordOps /\ op # BLOCK /\ op # IF_
        /\ op # LOOP /\ op # BR_TABLE /\ op \notin Short
        /\ op \in Memory <=> op \in I32_LOAD .. I64_STORE32
    BY <1>8, OneReader
  <2> QED
    BY <1>8, <2>1 DEF visit_op_impl, Short, Long
<1>9. ASSUME op \notin Reading
      PROVE  visit_op_impl(op, p) = {[ok |-> opcode_exists(op), after |-> p + 1, operand |-> << >>]}
  <2>1. op \notin I32_LOAD .. I64_STORE32
    BY <1>9, OneReader DEF Reading
  <2> QED
    BY <1>9, <2>1 DEF visit_op_impl, Reading, Short, Long
<1> QED
  BY <1>1, <1>2, <1>3, <1>4, <1>5, <1>6, <1>7, <1>8, <1>9

LEMMA ReadAfter ==
  ASSUME NEW op, NEW p \in Nat, NEW read \in visit_op_impl(op, p)
  PROVE  read.after \in Nat
<1>0. W \in Nat /\ 2 * W \in Nat /\ p + 1 \in Nat
  BY WordWidths
<1>1. ASSUME NEW k \in Nat, NEW n \in Nat PROVE read_serialized_immediate(k, n).after \in Nat
  BY DEF read_serialized_immediate, NoRead
<1>2. ASSUME NEW k \in Nat PROVE read_memory_immediate(k).after \in Nat
  BY <1>0 DEF read_memory_immediate, NoRead
<1>3. ASSUME NEW k \in Nat, NEW n \in Nat PROVE read_block(k, n).after \in Nat
  <2>1. n * W \in Nat
    BY <1>0
  <2>2. k + 1 + n * W \in Nat
    BY <2>1
  <2> QED
    BY <2>2 DEF read_block, NoRead
<1>4. CASE op \in Memory
  <2>1. read = read_memory_immediate(p + 1)
    BY <1>4, VisitIs
  <2> QED
    BY <1>0, <1>1, <1>2, <1>3, <2>1
<1>5. CASE op \in WordOps
  <2>1. read = read_serialized_immediate(p + 1, W)
    BY <1>5, VisitIs
  <2> QED
    BY <1>0, <1>1, <1>2, <1>3, <2>1
<1>6. CASE op = BLOCK
  <2>1. read = read_block(p + 1, 1)
    BY <1>6, VisitIs
  <2> QED
    BY <1>0, <1>1, <1>2, <1>3, <2>1
<1>7. CASE op = IF_
  <2>1. read = read_block(p + 1, 2)
    BY <1>7, VisitIs
  <2> QED
    BY <1>0, <1>1, <1>2, <1>3, <2>1
<1>8. CASE op = LOOP
  <2>1. read = read_block(p + 1, 0)
    BY <1>8, VisitIs
  <2> QED
    BY <1>0, <1>1, <1>2, <1>3, <2>1
<1>9. CASE op = BR_TABLE
  <2>1. read = NoRead \/ \E q \in 0 .. Len(code) : read = [ok |-> TRUE, after |-> q, operand |-> << >>]
    BY <1>9, VisitIs
  <2> QED
    BY <2>1 DEF NoRead
<1>10. CASE op \in Short
  <2>1. read = read_serialized_immediate(p + 1, W)
    BY <1>10, VisitIs
  <2> QED
    BY <1>0, <1>1, <1>2, <1>3, <2>1
<1>11. CASE op \in Long
  <2>1. read = read_serialized_immediate(p + 1, 2 * W)
    BY <1>11, VisitIs
  <2> QED
    BY <1>0, <1>1, <1>2, <1>3, <2>1
<1>12. CASE op \notin Reading
  <2>1. read = [ok |-> opcode_exists(op), after |-> p + 1, operand |-> << >>]
    BY <1>12, VisitIs
  <2> QED
    BY <2>1
<1> QED
  BY <1>4, <1>5, <1>6, <1>7, <1>8, <1>9, <1>10, <1>11, <1>12 DEF Reading

------------------------------------------------------------------------------
(* What visit_opcode builds.                                               *)

LEMMA OneVisitor ==
  ASSUME NEW op
  PROVE  /\ op \in Memory <=> op \in I32_LOAD .. I64_STORE32
         /\ op \notin all_opcodes =>
              /\ op \notin Memory /\ op \notin WordOps /\ op \notin {BLOCK, IF_}
              /\ op # LOOP /\ op # BR_TABLE /\ op \notin Consts
         /\ op \in Memory =>
              /\ op \in all_opcodes /\ op \notin WordOps /\ op \notin {BLOCK, IF_}
              /\ op # LOOP /\ op # BR_TABLE /\ op \notin Consts
         /\ op \in WordOps =>
              /\ op \in all_opcodes /\ op \notin Memory /\ op \notin {BLOCK, IF_}
              /\ op # LOOP /\ op # BR_TABLE /\ op \notin Consts
         /\ op \in {BLOCK, IF_} =>
              /\ op \in all_opcodes /\ op \notin Memory /\ op \notin WordOps
              /\ op # LOOP /\ op # BR_TABLE /\ op \notin Consts
         /\ op = LOOP =>
              /\ op \in all_opcodes /\ op \notin Memory /\ op \notin WordOps
              /\ op \notin {BLOCK, IF_} /\ op # BR_TABLE /\ op \notin Consts
         /\ op = BR_TABLE =>
              /\ op \in all_opcodes /\ op \notin Memory /\ op \notin WordOps
              /\ op \notin {BLOCK, IF_} /\ op # LOOP /\ op \notin Consts
         /\ op \in Consts =>
              /\ op \in all_opcodes /\ op \notin Memory /\ op \notin WordOps
              /\ op \notin {BLOCK, IF_} /\ op # LOOP /\ op # BR_TABLE
BY OpcodeNumbers, SMTT(60)
   DEF Memory, Loads, Stores, WordOps, Consts, all_opcodes, OpCode, Control, Comparisons, Numerics,
       Conversions, Reinterprets

(* What is read of a BR_TABLE: its entries behind their number.            *)
TableRead(p) ==
  [read_serialized_immediate(p + 1, W) EXCEPT
     !.after = @ + (1 + TableLen) * W,
     !.operand = << Cells(p + 1 + W, (1 + TableLen) * W) >>]

LEMMA VisitOpcodeIs ==
  ASSUME NEW op, NEW p
  PROVE
    /\ op \notin all_opcodes => visit_opcode(op, p) =
         Refused(op, "aborted")
    /\ op \in Memory => visit_opcode(op, p) =
         Constructed(op, "memory", p, read_memory_immediate(p + 1))
    /\ op \in WordOps => visit_opcode(op, p) =
         Constructed(op, "offset", p, read_serialized_immediate(p + 1, W))
    /\ op \in {BLOCK, IF_} => visit_opcode(op, p) =
         Constructed(op, "block", p + 1, read_serialized_immediate(p + 1, W))
    /\ op = LOOP => visit_opcode(op, p) =
         Refused(op, "aborted")
    /\ op = BR_TABLE => visit_opcode(op, p) =
         Constructed(op, "br_table", p, TableRead(p))
    /\ op \in Consts => visit_opcode(op, p) =
         Constructed(op, << "i32", "i64", "f32", "f64" >>[op - 64], p,
           read_serialized_immediate(p + 1, IF op \in {I64_CONST, F64_CONST} THEN 2 * W ELSE W))
    /\ op \in all_opcodes /\ op \notin Memory /\ op \notin WordOps /\ op \notin {BLOCK, IF_}
       /\ op # LOOP /\ op # BR_TABLE /\ op \notin Consts =>
         visit_opcode(op, p) = Refused(op, "no_overload")
<1>1. ASSUME op \notin all_opcodes
      PROVE  visit_opcode(op, p) =
         Refused(op, "aborted")
  <2>1. /\ op \notin Memory /\ op \notin WordOps /\ op \notin {BLOCK, IF_}
        /\ op # LOOP /\ op # BR_TABLE /\ op \notin Consts
        /\ op \in Memory <=> op \in I32_LOAD .. I64_STORE32
    BY <1>1, OneVisitor
  <2> QED
    BY <1>1, <2>1 DEF visit_opcode, opcode_exists
<1>2. ASSUME op \in Memory
      PROVE  visit_opcode(op, p) =
         Constructed(op, "memory", p, read_memory_immediate(p + 1))
  <2>1. /\ op \in all_opcodes /\ op \notin WordOps /\ op \notin {BLOCK, IF_}
        /\ op # LOOP /\ op # BR_TABLE /\ op \notin Consts
        /\ op \in Memory <=> op \in I32_LOAD .. I64_STORE32
    BY <1>2, OneVisitor
  <2> QED
    BY <1>2, <2>1 DEF visit_opcode, opcode_exists
<1>3. ASSUME op \in WordOps
      PROVE  visit_opcode(op, p) =
         Constructed(op, "offset", p, read_serialized_immediate(p + 1, W))
  <2>1. /\ op \in all_opcodes /\ op \notin Memory /\ op \notin {BLOCK, IF_}
        /\ op # LOOP /\ op # BR_TABLE /\ op \notin Consts
        /\ op \in Memory <=> op \in I32_LOAD .. I64_STORE32
    BY <1>3, OneVisitor
  <2> QED
    BY <1>3, <2>1 DEF visit_opcode, opcode_exists
<1>4. ASSUME op \in {BLOCK, IF_}
      PROVE  visit_opcode(op, p) =
         Constructed(op, "block", p + 1, read_serialized_immediate(p + 1, W))
  <2>1. /\ op \in all_opcodes /\ op \notin Memory /\ op \notin WordOps
        /\ op # LOOP /\ op # BR_TABLE /\ op \notin Consts
        /\ op \in Memory <=> op \in I32_LOAD .. I64_STORE32
    BY <1>4, OneVisitor
  <2> QED
    BY <1>4, <2>1 DEF visit_opcode, opcode_exists
<1>5. ASSUME op = LOOP
      PROVE  visit_opcode(op, p) =
         Refused(op, "aborted")
  <2>1. /\ op \in all_opcodes /\ op \notin Memory /\ op \notin WordOps
        /\ op \notin {BLOCK, IF_} /\ op # BR_TABLE /\ op \notin Consts
        /\ op \in Memory <=> op \in I32_LOAD .. I64_STORE32
    BY <1>5, OneVisitor
  <2> QED
    BY <1>5, <2>1 DEF visit_opcode, opcode_exists
<1>6. ASSUME op = BR_TABLE
      PROVE  visit_opcode(op, p) =
         Constructed(op, "br_table", p, TableRead(p))
  <2>1. /\ op \in all_opcodes /\ op \notin Memory /\ op \notin WordOps
        /\ op \notin {BLOCK, IF_} /\ op # LOOP /\ op \notin Consts
        /\ op \in Memory <=> op \in I32_LOAD .. I64_STORE32
    BY <1>6, OneVisitor
  <2> QED
    BY <1>6, <2>1 DEF visit_opcode, opcode_exists, TableRead
<1>7. ASSUME op \in Consts
      PROVE  visit_opcode(op, p) =
         Constructed(op, << "i32", "i64", "f32", "f64" >>[op - 64], p,
           read_serialized_immediate(p + 1, IF op \in {I64_CONST, F64_CONST} THEN 2 * W ELSE W))
  <2>1. /\ op \in all_opcodes /\ op \notin Memory /\ op \notin WordOps
        /\ op \notin {BLOCK, IF_} /\ op # LOOP /\ op # BR_TABLE
        /\ op \in Memory <=> op \in I32_LOAD .. I64_STORE32
    BY <1>7, OneVisitor
  <2> QED
    BY <1>7, <2>1 DEF visit_opcode, opcode_exists
<1>8. ASSUME op \in all_opcodes, op \notin Memory, op \notin WordOps, op \notin {BLOCK, IF_},
             op # LOOP, op # BR_TABLE, op \notin Consts
      PROVE  visit_opcode(op, p) = Refused(op, "no_overload")
  <2>1. op \notin I32_LOAD .. I64_STORE32
    BY <1>8, OneVisitor
  <2> QED
    BY <1>8, <2>1 DEF visit_opcode, opcode_exists
<1> QED
  BY <1>1, <1>2, <1>3, <1>4, <1>5, <1>6, <1>7, <1>8

(* The fields of an instruction. *)
HasFields(i) ==
  i = [state |-> i.state, op |-> i.op, tag |-> i.tag, after |-> i.after, immediate |-> i.immediate]

LEMMA RefusedFacts ==
  ASSUME NEW op, NEW why
  PROVE  Refused(op, why).op = op /\ Refused(op, why).state = why /\ HasFields(Refused(op, why))
<1>1. Refused(op, why) = [state |-> why, op |-> op, tag |-> "none", after |-> 0, immediate |-> << >>]
  <2> DEFINE m == [None EXCEPT !.op = op]
  <2>1. m = [state |-> "none", op |-> op, tag |-> "none", after |-> 0, immediate |-> << >>]
    BY DEF None
  <2>2. Refused(op, why) = [m EXCEPT !.state = why]
    BY Zenon DEF Refused
  <2> HIDE DEF m
  <2> QED
    BY <2>1, <2>2
<1> DEFINE i == Refused(op, why)
<1> HIDE DEF i
<1>2. i = [state |-> why, op |-> op, tag |-> "none", after |-> 0, immediate |-> << >>]
  BY <1>1 DEF i
<1>3. i.op = op /\ i.state = why /\ HasFields(i)
  BY <1>2 DEF HasFields
<1> QED
  BY <1>3 DEF i

Asserted(op, tag, p, read) ==
  /\ read.ok
  /\ _assert_invariants(op, read.after - p)
  /\ validate(IF tag = "block" THEN "loop" ELSE tag, op)

LEMMA ConstructedFacts ==
  ASSUME NEW op, NEW tag, NEW p, NEW read, NEW c, c = Constructed(op, tag, p, read)
  PROVE  /\ c.op = op /\ HasFields(c)
         /\ Asserted(op, tag, p, read) => c.state = "built" /\ c.after = read.after
         /\ ~ Asserted(op, tag, p, read) => c.state = "aborted"
<1>1. CASE Asserted(op, tag, p, read)
  <2>1. c = [state |-> "built", op |-> op, tag |-> tag, after |-> read.after,
             immediate |-> read.operand]
    BY <1>1 DEF Constructed, Asserted
  <2> QED
    BY <1>1, <2>1 DEF HasFields
<1>2. CASE ~ Asserted(op, tag, p, read)
  <2>1. c = Refused(op, "aborted")
    BY <1>2 DEF Constructed, Asserted
  <2> QED
    BY <1>2, <2>1, RefusedFacts
<1> QED
  BY <1>1, <1>2

(* What the tags of the constructors assert. *)
LEMMA ValidateIs ==
  ASSUME NEW op
  PROVE  /\ validate("memory", op) <=> op >= I32_LOAD /\ op >= I64_STORE32
         /\ validate("loop", op) <=> op = LOOP
         /\ validate("br_table", op) <=> op = BR_TABLE
         /\ validate("i32", op) <=> op = I32_CONST
         /\ validate("i64", op) <=> op = I64_CONST
         /\ validate("f32", op) <=> op = F32_CONST
         /\ validate("f64", op) <=> op = F64_CONST
         /\ validate("offset", op) <=>
              \/ op \in GET_LOCAL .. SET_GLOBAL \/ op \in CALL .. CALL_INDIRECT
              \/ op \in BR .. BR_IF \/ op = ELSE_
<1>1. validate("memory", op) <=> op >= I32_LOAD /\ op >= I64_STORE32
  BY DEF validate, validate_memory
<1>2. validate("loop", op) <=> op = LOOP
  BY DEF validate
<1>3. validate("br_table", op) <=> op = BR_TABLE
  BY DEF validate
<1>4. validate("i32", op) <=> op = I32_CONST
  BY DEF validate
<1>5. validate("i64", op) <=> op = I64_CONST
  BY DEF validate
<1>6. validate("f32", op) <=> op = F32_CONST
  BY DEF validate
<1>7. validate("f64", op) <=> op = F64_CONST
  BY DEF validate
<1>8. validate("offset", op) <=>
         \/ op \in GET_LOCAL .. SET_GLOBAL \/ op \in CALL .. CALL_INDIRECT
         \/ op \in BR .. BR_IF \/ op = ELSE_
  BY DEF validate
<1> QED
  BY <1>1, <1>2, <1>3, <1>4, <1>5, <1>6, <1>7, <1>8

LEMMA BuiltFacts ==
  ASSUME NEW op, NEW p, NEW v, v = visit_opcode(op, p)
  PROVE  /\ v.op = op /\ HasFields(v) /\ v.state \in {"built", "aborted", "no_overload"}
         /\ v.state = "built" => op \in Buildable
<1>1. ASSUME NEW tag, NEW q, NEW read, v = Constructed(op, tag, q, read)
      PROVE  /\ v.op = op /\ HasFields(v) /\ v.state \in {"built", "aborted"}
             /\ v.state = "built" => validate(IF tag = "block" THEN "loop" ELSE tag, op)
  BY <1>1, ConstructedFacts DEF Asserted
<1>2. ASSUME NEW why \in {"aborted", "no_overload"}, v = Refused(op, why)
      PROVE  v.op = op /\ HasFields(v) /\ v.state \in {"aborted", "no_overload"} /\ v.state # "built"
  BY <1>2, RefusedFacts
<1>3. CASE op \notin all_opcodes
  <2>1. v = Refused(op, "aborted")
    BY <1>3, VisitOpcodeIs
  <2> QED
    BY <1>2, <2>1
<1>4. CASE op \in Memory
  <2>1. v = Constructed(op, "memory", p, read_memory_immediate(p + 1))
    BY <1>4, VisitOpcodeIs
  <2>2. v.op = op /\ HasFields(v) /\ v.state \in {"built", "aborted"} /\ (v.state = "built" => validate("memory", op))
    BY <1>1, <2>1
  <2>3. validate("memory", op) => op = I64_STORE32
    <3>1. op \in 40 .. 62
      BY <1>4 DEF Memory, Loads, Stores
    <3> QED
      BY <3>1, ValidateIs, OpcodeNumbers
  <2> QED
    BY <2>2, <2>3 DEF Buildable
<1>5. CASE op \in WordOps
  <2>1. v = Constructed(op, "offset", p, read_serialized_immediate(p + 1, W))
    BY <1>5, VisitOpcodeIs
  <2>2. v.op = op /\ HasFields(v) /\ v.state \in {"built", "aborted"}
    BY <1>1, <2>1
  <2> QED
    BY <1>5, <2>2 DEF Buildable
<1>6. CASE op \in {BLOCK, IF_}
  <2>1. v = Constructed(op, "block", p + 1, read_serialized_immediate(p + 1, W))
    BY <1>6, VisitOpcodeIs
  <2>2. v.op = op /\ HasFields(v) /\ v.state \in {"built", "aborted"} /\ (v.state = "built" => validate("loop", op))
    BY <1>1, <2>1
  <2>3. ~ validate("loop", op)
    BY <1>6, ValidateIs, OpcodeNumbers
  <2> QED
    BY <2>2, <2>3
<1>7. CASE op = LOOP
  <2>1. v = Refused(op, "aborted")
    BY <1>7, VisitOpcodeIs
  <2> QED
    BY <1>2, <2>1
<1>8. CASE op = BR_TABLE
  <2>1. PICK read : v = Constructed(op, "br_table", p, read)
    BY <1>8, VisitOpcodeIs
  <2>2. v.op = op /\ HasFields(v) /\ v.state \in {"built", "aborted"}
    BY <1>1, <2>1
  <2> QED
    BY <1>8, <2>2 DEF Buildable
<1>9. CASE op \in Consts
  <2>1. PICK tag, read : v = Constructed(op, tag, p, read)
    BY <1>9, VisitOpcodeIs
  <2>2. v.op = op /\ HasFields(v) /\ v.state \in {"built", "aborted"}
    BY <1>1, <2>1
  <2> QED
    BY <1>9, <2>2 DEF Buildable
<1>10. CASE /\ op \in all_opcodes /\ op \notin Memory /\ op \notin WordOps /\ op \notin {BLOCK, IF_}
            /\ op # LOOP /\ op # BR_TABLE /\ op \notin Consts
  <2>1. v = Refused(op, "no_overload")
    BY <1>10, VisitOpcodeIs
  <2> QED
    BY <1>2, <2>1
<1> QED
  BY <1>3, <1>4, <1>5, <1>6, <1>7, <1>8, <1>9, <1>10

LEMMA BuildableOpcodes ==
  ASSUME NEW op \in Buildable
  PROVE  op \in all_opcodes /\ op \in Bytes
BY OpcodeNumbers, SMTT(30)
   DEF Buildable, WordOps, Consts, all_opcodes, OpCode, Control, Loads, Stores, Comparisons, Numerics,
       Conversions, Reinterprets, Bytes

(* How many bytes the parser writes of an instruction.                     *)
LEMMA Extents ==
  ASSUME NEW op
  PROVE  /\ op \in WordOps /\ op \notin {ELSE_, CALL_INDIRECT} => Extent(op) = 1 + W
         /\ op = ELSE_ => Extent(op) = 1
         /\ op = CALL_INDIRECT => Extent(op) = 1 + (W + 1)
         /\ op \in Memory => Extent(op) = 1 + (W + W)
         /\ op \in Structured => Extent(op) = 1 + (W + 1)
         /\ op \in Sized => Extent(op) = 1 + 1
         /\ op \notin Reading \cup Sized => Extent(op) = 1
         /\ op = BR_TABLE => Extent(op) = 1 + (W + (TableLen + 1) * W)
         /\ op \in Short => Extent(op) = 1 + W
         /\ op \in Long => Extent(op) = 1 + 2 * W
<1>1. ASSUME op \in WordOps, op \notin {ELSE_, CALL_INDIRECT} PROVE Extent(op) = 1 + W
  <2>1. op \in OneWord
    BY <1>1 DEF OneWord
  <2> QED
    BY <2>1, OneLayout DEF Extent, Width, FirstWidth
<1>2. ASSUME op = ELSE_ PROVE Extent(op) = 1
  <2>1. op \notin WithOperands
    BY <1>2, OpcodeNumbers
       DEF WithOperands, Structured, OneWord, WordOps, Memory, Loads, Stores, Short, Long, Sized
  <2> QED
    BY <2>1 DEF Extent
<1>3. ASSUME op = CALL_INDIRECT PROVE Extent(op) = 1 + (W + 1)
  BY <1>3, OneLayout DEF Extent, Width
<1>4. ASSUME op \in Memory PROVE Extent(op) = 1 + (W + W)
  BY <1>4, OneLayout DEF Extent, Width
<1>5. ASSUME op = BR_TABLE PROVE Extent(op) = 1 + (W + (TableLen + 1) * W)
  BY <1>5, OneLayout DEF Extent, Width
<1>6. ASSUME op \in Short PROVE Extent(op) = 1 + W
  BY <1>6, OneLayout DEF Extent, Width, FirstWidth
<1>7. ASSUME op \in Long PROVE Extent(op) = 1 + 2 * W
  BY <1>7, OneLayout DEF Extent, Width, FirstWidth
<1>8. ASSUME op \in Structured PROVE Extent(op) = 1 + (W + 1)
  BY <1>8, OneLayout DEF Extent, Width
<1>9. ASSUME op \in Sized PROVE Extent(op) = 1 + 1
  BY <1>9, OneLayout DEF Extent, Width, FirstWidth
<1>10. ASSUME op \notin Reading \cup Sized PROVE Extent(op) = 1
  <2>1. op \notin WithOperands
    BY <1>10 DEF WithOperands, Structured, OneWord, Reading, WordOps
  <2> QED
    BY <2>1 DEF Extent
<1> QED
  BY <1>1, <1>2, <1>3, <1>4, <1>5, <1>6, <1>7, <1>8, <1>9, <1>10

(* A constant, a word or a table of the instruction at p is read to its    *)
(* end and the constructor asserts no more than its opcode; only the       *)
(* reserved byte of CALL_INDIRECT is left, and ELSE has no operand.        *)
LEMMA BuiltHere ==
  ASSUME ops \in Seq(Bytes), code = Code(ops), NEW p \in Nat, NEW n, InstructionAt(ops, p, n),
         NEW op, op = ops[n], op \in Buildable, NEW v, v = visit_opcode(op, p)
  PROVE  /\ v.state = "built" => (v.after = p + Extent(op) <=> op \notin {ELSE_, CALL_INDIRECT})
         /\ op # ELSE_ => v.state = "built"
<1>0. /\ W \in Nat /\ W >= 2 /\ (TableLen + 1) * W \in Nat \ {0} /\ 2 * W = W + W
      /\ Extent(op) \in Nat /\ p + Extent(op) <= Len(code) /\ Len(code) \in Nat
      /\ (1 + TableLen) * W = (TableLen + 1) * W
  <2>1. Len(code) \in Nat
    BY CodeStep DEF At
  <2>2. 1 + TableLen = TableLen + 1
    BY TableLenAssumption
  <2> QED
    BY <2>1, <2>2, WordWidths DEF InstructionAt
<1>1. ASSUME NEW w \in Nat, 1 + w <= Extent(op)
      PROVE  /\ read_serialized_immediate(p + 1, w).ok
             /\ read_serialized_immediate(p + 1, w).after = p + 1 + w
  BY <1>0, <1>1 DEF read_serialized_immediate
<1>2. ASSUME NEW tag, tag # "block", NEW read, v = Constructed(op, tag, p, read), validate(tag, op),
             read.ok, read.after - p > 1
      PROVE  v.state = "built" /\ v.after = read.after
  <2>1. op \in all_opcodes
    BY BuildableOpcodes
  <2>3. _assert_invariants(op, read.after - p)
    BY <1>2, <2>1 DEF _assert_invariants, opcode_exists
  <2>4. Asserted(op, tag, p, read)
    BY <1>2, <2>3 DEF Asserted
  <2> QED
    BY <1>2, <2>4, ConstructedFacts
<1>3. CASE op \in WordOps
  <2> DEFINE read == read_serialized_immediate(p + 1, W)
  <2>1. v = Constructed(op, "offset", p, read)
    BY <1>3, VisitOpcodeIs
  <2>2. validate("offset", op)
    BY <1>3, ValidateIs, OpcodeNumbers DEF WordOps
  <2>3. CASE op = ELSE_
    <3>1. Extent(op) = 1
      BY <2>3, Extents
    <3>2. read.ok => read.after = p + 1 + W
      BY DEF read_serialized_immediate, NoRead
    <3> HIDE DEF read
    <3>3. v.state = "built" => read.ok /\ v.after = read.after
      BY <2>1, ConstructedFacts DEF Asserted
    <3> QED
      BY <1>0, <2>3, <3>1, <3>2, <3>3
  <2>4. CASE op # ELSE_
    <3>1. op = CALL_INDIRECT => Extent(op) = 1 + (W + 1)
      BY Extents
    <3>2. op # CALL_INDIRECT => Extent(op) = 1 + W
      BY <1>3, <2>4, Extents
    <3>0. W \in Nat /\ W >= 2
      BY <1>0
    <3>3. 1 + W <= Extent(op)
      BY <3>0, <3>1, <3>2
    <3>4. read.ok /\ read.after = p + 1 + W
      BY <1>0, <1>1, <3>3
    <3> HIDE DEF read
    <3>5. read.after - p > 1
      BY <3>0, <3>4
    <3>6. v.state = "built" /\ v.after = p + 1 + W
      BY <1>2, <2>1, <2>2, <3>4, <3>5
    <3> QED
      BY <2>4, <3>0, <3>1, <3>2, <3>6
  <2> QED
    BY <2>3, <2>4
<1>4. CASE op = I64_STORE32
  <2> DEFINE read == read_memory_immediate(p + 1)
  <2>0. op \in Memory
    BY <1>4, OpcodeNumbers DEF Memory, Stores
  <2>1. v = Constructed(op, "memory", p, read)
    BY <2>0, VisitOpcodeIs
  <2>2. validate("memory", op) /\ op \notin {ELSE_, CALL_INDIRECT}
    BY <1>4, ValidateIs, OpcodeNumbers
  <2>3. Extent(op) = 1 + (W + W)
    BY <2>0, Extents
  <2>4. read.ok /\ read.after = p + 1 + (W + W)
    BY <1>0, <2>3 DEF read_memory_immediate
  <2> HIDE DEF read
  <2>5. read.after - p > 1
    BY <1>0, <2>4
  <2>6. v.state = "built" /\ v.after = p + 1 + (W + W)
    BY <1>2, <2>1, <2>2, <2>4, <2>5
  <2> QED
    BY <1>0, <2>2, <2>3, <2>6
<1>5. CASE op = BR_TABLE
  <2> DEFINE read == TableRead(p)
             word == read_serialized_immediate(p + 1, W)
             t == (TableLen + 1) * W
  <2>1. v = Constructed(op, "br_table", p, read)
    BY <1>5, VisitOpcodeIs
  <2>2. validate("br_table", op) /\ op \notin {ELSE_, CALL_INDIRECT}
    BY <1>5, ValidateIs, OpcodeNumbers
  <2>3. Extent(op) = 1 + (W + t)
    BY <1>5, Extents
  <2>4. word = [ok |-> TRUE, after |-> p + 1 + W, operand |-> << Cells(p + 1, W) >>]
    <3>1. p + 1 + W <= Len(code)
      BY <1>0, <2>3
    <3> QED
      BY <3>1 DEF read_serialized_immediate
  <2>5. read.ok /\ read.after = p + 1 + W + t
    <3> HIDE DEF word
    <3>1. read = [word EXCEPT !.after = @ + (1 + TableLen) * W,
                              !.operand = << Cells(p + 1 + W, (1 + TableLen) * W) >>]
      BY Zenon DEF TableRead, word
    <3> QED
      BY <1>0, <2>4, <3>1, Zenon
  <2> HIDE DEF read, word
  <2>6. t \in Nat /\ W + t \in Nat /\ read.after - p > 1 /\ read.after = p + 1 + (W + t)
    BY <1>0, <2>5
  <2> HIDE DEF t
  <2>7. v.state = "built" /\ v.after = p + 1 + (W + t)
    BY <1>2, <2>1, <2>2, <2>5, <2>6
  <2>8. W \in Nat /\ t \in Nat
    BY <1>0, <2>6
  <2>9. p + 1 + (W + t) = p + (1 + (W + t))
    BY <2>8
  <2> QED
    BY <2>2, <2>3, <2>7, <2>9
<1>6. CASE op \in Consts
  <2> DEFINE w == IF op \in {I64_CONST, F64_CONST} THEN 2 * W ELSE W
             tag == << "i32", "i64", "f32", "f64" >>[op - 64]
             read == read_serialized_immediate(p + 1, w)
  <2>1. v = Constructed(op, tag, p, read)
    BY <1>6, VisitOpcodeIs
  <2>2. validate(tag, op) /\ tag # "block" /\ op \notin {ELSE_, CALL_INDIRECT}
    <3>1. op = 65 \/ op = 66 \/ op = 67 \/ op = 68
      BY <1>6, OpcodeNumbers DEF Consts
    <3> QED
      BY <3>1, ValidateIs, OpcodeNumbers, SMTT(30)
  <2>3. Extent(op) = 1 + w /\ w \in Nat /\ w >= 2
    <3>1. op \in Long => Extent(op) = 1 + 2 * W
      BY Extents
    <3>2. op \in Short => Extent(op) = 1 + W
      BY Extents
    <3>3. op \in Long <=> op \in {I64_CONST, F64_CONST}
      BY DEF Long
    <3>4. op \in Long \/ op \in Short
      BY <1>6 DEF Consts, Long, Short
    <3>5. Extent(op) = 1 + w
      BY <3>1, <3>2, <3>3, <3>4
    <3>6. w \in Nat /\ w >= 2
      BY <1>0
    <3> QED
      BY <3>5, <3>6
  <2> HIDE DEF w
  <2>4. read.ok /\ read.after = p + 1 + w
    BY <1>0, <1>1, <2>3
  <2> HIDE DEF read, tag
  <2>5. read.after - p > 1
    BY <2>3, <2>4
  <2>6. v.state = "built" /\ v.after = p + 1 + w
    BY <1>2, <2>1, <2>2, <2>4, <2>5
  <2> QED
    BY <1>0, <2>2, <2>3, <2>6
<1> QED
  BY <1>3, <1>4, <1>5, <1>6 DEF Buildable

------------------------------------------------------------------------------
(* The walk: what a read of the instruction at p is.                       *)

(* A word the parser has written has no opcode in it, and says how long    *)
(* the label it is has to be.                                              *)
LEMMA WholeFacts ==
  ASSUME NEW word, Whole(word)
  PROVE  IsField(word)
<1>0. PICK op \in Bytes : \E i \in DOMAIN Operands(op) : word = Operands(op)[i]
  BY DEF Whole
<1>1. PICK i \in DOMAIN Operands(op) : word = Operands(op)[i]
  BY <1>0
<1>2. op \in WithOperands
  <2> SUFFICES ASSUME op \notin WithOperands PROVE FALSE
    OBVIOUS
  <2>1. Operands(op) = << >>
    BY OperandsFacts
  <2> QED
    BY <1>1, <2>1
<1>3. PICK a : /\ IsField(a)
               /\ \/ Operands(op) = << a >>
                  \/ \E b : IsField(b) /\ Operands(op) = << a, b >>
  BY <1>2, OperandsFacts
<1>4. CASE Operands(op) = << a >>
  BY <1>1, <1>3, <1>4
<1>5. CASE \E b : IsField(b) /\ Operands(op) = << a, b >>
  <2>1. PICK b : IsField(b) /\ Operands(op) = << a, b >>
    BY <1>5
  <2>2. i = 1 \/ i = 2
    BY <1>1, <2>1
  <2> QED
    BY <1>1, <1>3, <2>1, <2>2
<1> QED
  BY <1>3, <1>4, <1>5

(* The bytes of the code are cells.                                        *)
LEMMA CellsFacts ==
  ASSUME ops \in Seq(Bytes), code = Code(ops), NEW q \in Nat, NEW w \in Nat, q + w <= Len(code)
  PROVE  /\ Cells(q, w) \in Seq(Cell) /\ Len(Cells(q, w)) = w
         /\ \A i \in 1 .. w : Cells(q, w)[i] = code[q + i]
<1>1. code \in Seq(Cell) /\ Len(code) \in Nat
  BY CodeStep
<1>2. \A i \in (q + 1) .. (q + w) : code[i] \in Cell
  <2>1. \A i \in 1 .. Len(code) : code[i] \in Cell
    BY <1>1
  <2>2. \A i \in (q + 1) .. (q + w) : i \in 1 .. Len(code)
    BY <1>1
  <2> QED
    BY <2>1, <2>2
<1>3. q + 1 \in Int /\ q + w \in Int /\ q + 1 \in 1 .. Len(code) + 1
  BY <1>1
<1> DEFINE m == q + 1
           n == q + w
<1>4. /\ SubSeq(code, m, n) \in Seq(Cell)
      /\ Len(SubSeq(code, m, n)) = IF m <= n THEN n - m + 1 ELSE 0
      /\ \A i \in 1 .. (IF m <= n THEN n - m + 1 ELSE 0) : SubSeq(code, m, n)[i] = code[m + i - 1]
  <2> HIDE DEF m, n
  <2> QED
    BY <1>1, <1>2, <1>3, SubSeqProperties DEF m, n
<1> QED
  BY <1>4 DEF Cells

(* The word behind an opcode that has an operand of this width is that     *)
(* operand.                                                                *)
LEMMA FirstOperand ==
  ASSUME ops \in Seq(Bytes), code = Code(ops), NEW p \in Nat, NEW n, InstructionAt(ops, p, n),
         NEW op, op = ops[n], op \in WithOperands, NEW w \in Nat, w = FirstWidth(op)
  PROVE  Whole(Cells(p + 1, w))
<1>1. /\ op \in Bytes /\ Extent(op) \in Nat /\ p + Extent(op) <= Len(code)
      /\ \A i \in 1 .. Extent(op) : code[p + i] = Encoded(op)[i]
  BY DEF InstructionAt
<1> DEFINE a == Operands(op)[1]
<1>2. /\ 1 \in DOMAIN Operands(op) /\ IsField(a)
      /\ Len(a) = w /\ w < Extent(op)
      /\ \A i \in 1 .. w : Encoded(op)[i + 1] = a[i]
  BY <1>1, EncodedFacts
<1> HIDE DEF a
<1> DEFINE q == p + 1
           c == Cells(q, w)
<1>3. Len(code) \in Nat
  BY CodeStep DEF At
<1>4. q \in Nat /\ q + w <= Len(code)
  BY <1>1, <1>2, <1>3
<1>5. /\ c \in Seq(Cell) /\ Len(c) = w
      /\ \A i \in 1 .. w : c[i] = code[q + i]
  <2> HIDE DEF q
  <2> QED
    BY <1>4, CellsFacts
<1> HIDE DEF c
<1>6. ASSUME NEW i \in 1 .. w PROVE c[i] = a[i]
  <2>1. i + 1 \in 1 .. Extent(op) /\ q + i = p + (i + 1)
    BY <1>1, <1>2
  <2>2. code[p + (i + 1)] = Encoded(op)[i + 1]
    BY <1>1, <2>1
  <2> QED
    BY <1>2, <1>5, <2>1, <2>2
<1>7. a \in Seq(Cell)
  BY <1>2 DEF IsField
<1>8. c = a
  BY <1>2, <1>5, <1>6, <1>7
<1>9. Whole(a)
  BY <1>1, <1>2 DEF Whole, a
<1> QED
  BY <1>8, <1>9 DEF c

(* The byte behind an opcode is no operand of its own when it is the next  *)
(* opcode or the first byte of a label.                                    *)
LEMMA NoOperand ==
  ASSUME ops \in Seq(Bytes), code = Code(ops), NEW p \in Nat, NEW n, InstructionAt(ops, p, n),
         NEW op, op = ops[n], NEW w \in Nat, w >= 1, p + 1 + w <= Len(code)
  PROVE  /\ op = ELSE_ => ~ Whole(Cells(p + 1, w))
         /\ op \in Structured /\ w = 1 => ~ Whole(Cells(p + 1, w))
<1> DEFINE q == p + 1
           c == Cells(q, w)
<1>1. Len(code) \in Nat
  BY CodeStep DEF At
<1>2. q \in Nat /\ q + w <= Len(code)
  BY <1>1
<1>3. /\ c \in Seq(Cell) /\ Len(c) = w
      /\ \A i \in 1 .. w : c[i] = code[q + i]
  <2> HIDE DEF q
  <2> QED
    BY <1>2, CellsFacts
<1> HIDE DEF c
<1>4. 1 \in 1 .. w /\ q + 1 = p + 2
  OBVIOUS
<1>5. c[1] = code[p + 2]
  BY <1>3, <1>4
<1>6. ASSUME op = ELSE_ PROVE ~ Whole(c)
  <2>1. Extent(op) = 1
    BY <1>6, Extents
  <2>2. p + Extent(op) < Len(code) /\ p + Extent(op) + 1 = p + 2
    BY <1>1, <2>1
  <2>3. code[p + 2].f = "op"
    BY <2>2 DEF InstructionAt
  <2> QED
    BY <1>3, <1>4, <1>5, <2>3, WholeFacts DEF IsField
<1>7. ASSUME op \in Structured, w = 1 PROVE ~ Whole(c)
  <2>1. op \in Bytes /\ Extent(op) = 1 + (W + 1) /\ W \in Nat /\ W >= 2
    BY <1>7, Extents, WordWidths DEF InstructionAt
  <2>2. 2 \in 1 .. Extent(op)
    BY <2>1
  <2>3. code[p + 2] = Encoded(op)[2]
    BY <2>2 DEF InstructionAt
  <2>4. Encoded(op)[2] = [f |-> "label", b |-> 0]
    BY <1>7, <2>1, EncodedFacts
  <2>5. c[1].f = "label"
    BY <1>5, <2>3, <2>4
  <2>6. Whole(c) => Len(c) = W
    BY <2>5, WholeFacts DEF IsField
  <2> QED
    BY <1>3, <1>7, <2>1, <2>6
<1> QED
  BY <1>6, <1>7 DEF c

(* The words a handler is given are words the parser wrote, each once.     *)
Apart(operand) ==
  \A i, j \in DOMAIN operand : Whole(operand[i]) /\ (i # j => operand[i] # operand[j])

LEMMA ApartFacts ==
  /\ Apart(<< >>)
  /\ \A a : Apart(<< a >>) <=> Whole(a)
  /\ \A a : ~ Apart(<< a, a >>)
<1>1. Apart(<< >>)
  BY DEF Apart
<1>2. ASSUME NEW a PROVE Apart(<< a >>) <=> Whole(a)
  <2> DEFINE s == << a >>
  <2>1. DOMAIN s = {1} /\ s[1] = a
    OBVIOUS
  <2> HIDE DEF s
  <2>2. Apart(s) <=> Whole(a)
    BY <2>1 DEF Apart
  <2> QED
    BY <2>2 DEF s
<1>3. ASSUME NEW a PROVE ~ Apart(<< a, a >>)
  <2> DEFINE s == << a, a >>
  <2>1. 1 \in DOMAIN s /\ 2 \in DOMAIN s /\ s[1] = s[2]
    OBVIOUS
  <2> HIDE DEF s
  <2>2. ~ Apart(s)
    BY <2>1 DEF Apart
  <2> QED
    BY <2>2 DEF s
<1> QED
  BY <1>1, <1>2, <1>3

LEMMA LastOfTwo ==
  ASSUME NEW S, NEW s \in Seq(S), NEW e \in Seq(S), Len(e) = 1
  PROVE  /\ s \o e \in Seq(S) /\ Len(s \o e) = Len(s) + 1
         /\ (s \o e)[Len(s) + 1] = e[1]
<1>1. /\ s \o e \in Seq(S) /\ Len(s \o e) = Len(s) + Len(e)
      /\ \A i \in 1 .. Len(s) + Len(e) : (s \o e)[i] = IF i <= Len(s) THEN s[i] ELSE e[i - Len(s)]
  BY ConcatProperties
<1> DEFINE n == Len(s) + 1
<1>2. n \in 1 .. Len(s) + Len(e) /\ ~ (n <= Len(s)) /\ n - Len(s) = 1 /\ Len(s) + Len(e) = n
  OBVIOUS
<1> HIDE DEF n
<1>3. (s \o e)[n] = e[1]
  BY <1>1, <1>2
<1> QED
  BY <1>1, <1>2, <1>3 DEF n

(* The type of a block is read from the byte behind the opcode, where the  *)
(* parser has written the label.                                           *)
LEMMA BlockFacts ==
  ASSUME NEW q \in Nat, NEW words \in Nat, NEW read, read = read_block(q, words), read.ok
  PROVE  /\ read.after = q + 1 + words * W
         /\ q + 1 + words * W <= Len(code)
         /\ ~ Whole(Cells(q, 1)) => ~ Apart(read.operand)
<1>1. q + 1 + words * W <= Len(code)
  BY DEF read_block, NoRead
<1> DEFINE t == [i \in 1 .. words |-> Cells(q + 1 + (i - 1) * W, W)]
           c == Cells(q, 1)
           Cells_ == {c} \cup {t[i] : i \in 1 .. words}
<1>2. read = [ok |-> TRUE, after |-> q + 1 + words * W, operand |-> t \o << c >>]
  BY <1>1 DEF read_block
<1>3. t \in Seq(Cells_) /\ Len(t) = words
  <2>1. \A i \in 1 .. words : t[i] \in Cells_
    OBVIOUS
  <2>2. t = [i \in 1 .. words |-> t[i]]
    OBVIOUS
  <2> HIDE DEF t, Cells_
  <2> QED
    BY <2>1, <2>2
<1>4. << c >> \in Seq(Cells_) /\ Len(<< c >>) = 1 /\ << c >>[1] = c
  OBVIOUS
<1> DEFINE s == t \o << c >>
           e == << c >>
<1>5. Len(s) = words + 1 /\ s \in Seq(Cells_) /\ s[words + 1] = c
  <2> HIDE DEF t, c, Cells_, e
  <2>1. e \in Seq(Cells_) /\ Len(e) = 1 /\ e[1] = c
    BY <1>4 DEF e
  <2> QED
    BY <1>3, <2>1, LastOfTwo DEF e
<1>6. words + 1 \in DOMAIN s
  <2> HIDE DEF s, Cells_
  <2> QED
    BY <1>5
<1> HIDE DEF s, c, t
<1>7. ~ Whole(c) => ~ Apart(s)
  BY <1>5, <1>6 DEF Apart
<1> QED
  BY <1>1, <1>2, <1>7 DEF s, c

LEMMA MixedMisread ==
  ASSUME NEW op
  PROVE  /\ op \in Memory => op \in Mixed /\ op \notin Misread
         /\ op \in WordOps \ {ELSE_, CALL_INDIRECT} => op \notin Mixed /\ op \notin Misread
         /\ op = CALL_INDIRECT => op \notin Mixed /\ op \in Misread
         /\ op \in Short \cup Long => op \notin Mixed /\ op \notin Misread
<1>1. op \in Memory => op \in 40 .. 62
  BY DEF Memory, Loads, Stores
<1>2. op \in Memory => op \in Mixed
  BY DEF Mixed
<1>3. op \in 40 .. 62 => op \notin Misread
  BY OpcodeNumbers DEF Misread
<1>4. op \in WordOps \ {ELSE_, CALL_INDIRECT} => op \notin {BLOCK, IF_, LOOP, ELSE_} /\ op \notin 40 .. 62
  BY OpcodeNumbers DEF WordOps
<1>5. op \in WordOps \ {ELSE_, CALL_INDIRECT} => op \notin Misread
  BY OpcodeNumbers DEF WordOps, Misread
<1>6. op = CALL_INDIRECT => op \notin {BLOCK, IF_, LOOP, ELSE_} /\ op \notin 40 .. 62 /\ op \in Misread
  BY OpcodeNumbers DEF Misread
<1>7. op \in Short \cup Long => op \notin {BLOCK, IF_, LOOP, ELSE_} /\ op \notin 40 .. 62
  BY OpcodeNumbers DEF Short, Long
<1>8. op \in Short \cup Long => op \notin Misread
  BY OpcodeNumbers DEF Short, Long, Misread
<1>9. op \in Mixed <=> op \in {BLOCK, IF_, LOOP, ELSE_} \/ op \in Memory
  BY DEF Mixed
<1> QED
  BY <1>1, <1>2, <1>3, <1>4, <1>5, <1>6, <1>7, <1>8, <1>9

LEMMA ReadHere ==
  ASSUME ops \in Seq(Bytes), code = Code(ops), NEW p \in Nat, NEW n, InstructionAt(ops, p, n),
         NEW op, op = ops[n], op \in all_opcodes, op # BR_TABLE,
         NEW read \in visit_op_impl(op, p), read.ok
  PROVE  /\ read.after = p + Extent(op) <=> op \notin Misread
         /\ Apart(read.operand) <=> op \notin Mixed
<1>0. W \in Nat /\ W >= 2 /\ 2 * W = W + W /\ p + 1 \in Nat /\ 2 * W \in Nat
  BY WordWidths
<1>1. ASSUME NEW w \in Nat, w >= 2, read = read_serialized_immediate(p + 1, w)
      PROVE  /\ read.after = p + 1 + w /\ p + 1 + w <= Len(code)
             /\ Apart(read.operand) <=> Whole(Cells(p + 1, w))
  <2>1. p + 1 + w <= Len(code)
    BY <1>1 DEF read_serialized_immediate, NoRead
  <2>2. read = [ok |-> TRUE, after |-> p + 1 + w, operand |-> << Cells(p + 1, w) >>]
    BY <1>1, <2>1 DEF read_serialized_immediate
  <2>3. Apart(<< Cells(p + 1, w) >>) <=> Whole(Cells(p + 1, w))
    BY ApartFacts
  <2> QED
    BY <2>1, <2>2, <2>3
<1>2. CASE op \in Memory
  <2>1. read = read_memory_immediate(p + 1)
    BY <1>2, VisitIs
  <2>2. p + 1 + 2 * W <= Len(code)
    BY <2>1 DEF read_memory_immediate, NoRead
  <2>3. read = [ok |-> TRUE, after |-> p + 1 + 2 * W,
                operand |-> << Cells(p + 1, W), Cells(p + 1, W) >>]
    BY <2>1, <2>2 DEF read_memory_immediate
  <2>4. ~ Apart(<< Cells(p + 1, W), Cells(p + 1, W) >>)
    BY ApartFacts
  <2>5. op \in Mixed /\ op \notin Misread
    BY <1>2, MixedMisread
  <2>6. Extent(op) = 1 + (W + W)
    BY <1>2, Extents
  <2>7. read.after = p + Extent(op)
    BY <1>0, <2>3, <2>6
  <2> QED
    BY <2>3, <2>4, <2>5, <2>7
<1>3. CASE op \in WordOps
  <2>1. read = read_serialized_immediate(p + 1, W)
    BY <1>3, VisitIs
  <2>2. /\ read.after = p + 1 + W /\ p + 1 + W <= Len(code)
        /\ Apart(read.operand) <=> Whole(Cells(p + 1, W))
    BY <1>0, <1>1, <2>1
  <2>3. CASE op = ELSE_
    <3>1. Extent(op) = 1
      BY <2>3, Extents
    <3>2. ~ Whole(Cells(p + 1, W))
      <4>1. W \in Nat /\ W >= 1 /\ p + 1 + W <= Len(code)
        BY <1>0, <2>2
      <4> QED
        BY <2>3, <4>1, NoOperand
    <3>3. read.after # p + Extent(op)
      BY <1>0, <2>2, <3>1
    <3> QED
      BY <2>2, <2>3, <3>2, <3>3 DEF Mixed, Misread
  <2>4. CASE op = CALL_INDIRECT
    <3>1. Extent(op) = 1 + (W + 1)
      BY <2>4, Extents
    <3>2. op \in WithOperands /\ W = FirstWidth(op)
      BY <2>4, OneLayout DEF FirstWidth
    <3>3. Whole(Cells(p + 1, W))
      BY <1>0, <3>2, FirstOperand
    <3>4. read.after # p + Extent(op)
      BY <1>0, <2>2, <3>1
    <3>5. op \in Misread /\ op \notin Mixed
      BY <2>4, MixedMisread
    <3> QED
      BY <2>2, <3>3, <3>4, <3>5
  <2>5. CASE op \notin {ELSE_, CALL_INDIRECT}
    <3>1. Extent(op) = 1 + W
      BY <1>3, <2>5, Extents
    <3>2. op \in OneWord
      BY <1>3, <2>5 DEF OneWord
    <3>3. op \in WithOperands /\ W = FirstWidth(op)
      BY <3>2, OneLayout DEF FirstWidth
    <3>4. Whole(Cells(p + 1, W))
      BY <1>0, <3>3, FirstOperand
    <3>5. read.after = p + Extent(op)
      BY <1>0, <2>2, <3>1
    <3>6. op \notin Misread /\ op \notin Mixed
      BY <1>3, <2>5, MixedMisread
    <3> QED
      BY <2>2, <3>4, <3>5, <3>6
  <2> QED
    BY <2>3, <2>4, <2>5
<1>4. CASE op \in Structured
  <2>1. PICK words \in Nat : /\ read = read_block(p + 1, words)
                             /\ op = BLOCK <=> words = 1
    <3>1. op = BLOCK => read = read_block(p + 1, 1)
      BY VisitIs
    <3>2. op = IF_ => read = read_block(p + 1, 2)
      BY VisitIs
    <3>3. op = LOOP => read = read_block(p + 1, 0)
      BY VisitIs
    <3>4. BLOCK # IF_ /\ BLOCK # LOOP
      BY OpcodeNumbers
    <3> QED
      BY <1>4, <3>1, <3>2, <3>3, <3>4 DEF Structured
  <2> DEFINE k == words * W
  <2>2. k \in Nat /\ (k = W <=> words = 1)
    <3>1. words = 0 => k = 0
      BY <1>0
    <3>2. words = 1 => k = W
      BY <1>0
    <3>3. words >= 2 => k >= 2 * W
      BY <1>0
    <3> QED
      BY <1>0, <3>1, <3>2, <3>3
  <2>3. /\ read.after = p + 1 + 1 + k /\ p + 1 + 1 + k <= Len(code)
        /\ ~ Whole(Cells(p + 1, 1)) => ~ Apart(read.operand)
    BY <1>0, <2>1, BlockFacts
  <2> HIDE DEF k
  <2>4. Extent(op) = 1 + (W + 1)
    BY <1>4, Extents
  <2>5. Len(code) \in Nat
    BY CodeStep DEF At
  <2>6. p + 1 + 1 <= Len(code) /\ 1 \in Nat /\ 1 >= 1
    BY <2>2, <2>3, <2>5
  <2>7. ~ Apart(read.operand)
    BY <1>4, <2>3, <2>6, NoOperand
  <2>8. read.after = p + Extent(op) <=> op = BLOCK
    BY <1>0, <2>1, <2>2, <2>3, <2>4
  <2>9. op \in Mixed /\ (op \in Misread <=> op # BLOCK)
    BY <1>4, OpcodeNumbers DEF Mixed, Misread, Structured
  <2> QED
    BY <2>7, <2>8, <2>9
<1>5. ASSUME NEW w \in Nat, w >= 2, read = read_serialized_immediate(p + 1, w),
             op \in WithOperands, w = FirstWidth(op), Extent(op) = 1 + w, op \in Short \cup Long
      PROVE  /\ read.after = p + Extent(op) <=> op \notin Misread
             /\ Apart(read.operand) <=> op \notin Mixed
  <2>1. /\ read.after = p + 1 + w
        /\ Apart(read.operand) <=> Whole(Cells(p + 1, w))
    BY <1>1, <1>5
  <2>2. Whole(Cells(p + 1, w))
    BY <1>5, FirstOperand
  <2>3. op \notin Misread /\ op \notin Mixed
    BY <1>5, MixedMisread
  <2>4. read.after = p + Extent(op)
    BY <1>5, <2>1
  <2> QED
    BY <2>1, <2>2, <2>3, <2>4
<1>6. CASE op \in Short
  <2>1. op \in WithOperands /\ W = FirstWidth(op) /\ Extent(op) = 1 + W
    BY <1>6, OneLayout, Extents DEF FirstWidth
  <2>2. read = read_serialized_immediate(p + 1, W)
    BY <1>6, VisitIs
  <2> QED
    BY <1>0, <1>5, <1>6, <2>1, <2>2
<1>7. CASE op \in Long
  <2>1. op \in WithOperands /\ 2 * W = FirstWidth(op) /\ Extent(op) = 1 + 2 * W
    BY <1>7, OneLayout, Extents DEF FirstWidth
  <2>2. read = read_serialized_immediate(p + 1, 2 * W)
    BY <1>7, VisitIs
  <2>3. 2 * W >= 2
    BY <1>0
  <2> QED
    BY <1>0, <1>5, <1>7, <2>1, <2>2, <2>3
<1>8. CASE op \notin Reading
  <2>1. read = [ok |-> opcode_exists(op), after |-> p + 1, operand |-> << >>]
    BY <1>8, VisitIs
  <2>2. Apart(read.operand)
    BY <2>1, ApartFacts
  <2>3. op \notin Mixed /\ (op \in Misread <=> op \in Sized)
    BY <1>8 DEF Mixed, Misread, Reading, WordOps, Sized
  <2>4. op \in Sized => Extent(op) = 1 + 1
    BY Extents
  <2>5. op \notin Sized => Extent(op) = 1
    BY <1>8, Extents
  <2>6. read.after = p + Extent(op) <=> op \notin Sized
    BY <2>1, <2>4, <2>5
  <2> QED
    BY <2>2, <2>3, <2>6
<1> QED
  BY <1>2, <1>3, <1>4, <1>6, <1>7, <1>8 DEF Reading, Structured

------------------------------------------------------------------------------
(* The switch of execute, and the tag of what was built.                   *)

NoOperands == Sized \cup Comparisons \cup Numerics \cup Conversions
NullControl == {0, 1, END, RETURN, DROP, SELECT}

LEMMA OneCase ==
  ASSUME NEW op
  PROVE  /\ op \in Memory <=> op \in I32_LOAD .. I64_STORE32
         /\ op \in Memory => op \notin {BLOCK, IF_} /\ op \notin WordOps /\ op # LOOP /\ op # BR_TABLE
         /\ op \in Memory <=> op \in execute_loads \cup execute_stores
         /\ op \in NoOperands <=>
              op \in execute_size \cup execute_compare \cup execute_i32 \cup execute_i64
                       \cup execute_f32 \cup execute_f64 \cup execute_convert
         /\ op \in Consts =>
              /\ op \notin Memory /\ op \notin NoOperands /\ op \notin {BLOCK, IF_}
              /\ op \notin WordOps /\ op # LOOP /\ op # BR_TABLE
         /\ op \in NoOperands =>
              /\ op \notin Memory /\ op \notin Consts /\ op \notin {BLOCK, IF_}
              /\ op \notin WordOps /\ op # LOOP /\ op # BR_TABLE
         /\ op \in {BLOCK, IF_, LOOP, BR_TABLE} \cup NullControl \cup WordOps =>
              op \notin Memory /\ op \notin Consts /\ op \notin NoOperands
         /\ op \in NullControl =>
              op \notin {BLOCK, IF_} /\ op \notin WordOps /\ op # LOOP /\ op # BR_TABLE
         /\ op \in WordOps => op \notin {BLOCK, IF_} /\ op # LOOP /\ op # BR_TABLE
         /\ op = BR_TABLE => op \notin {BLOCK, IF_} /\ op \notin WordOps /\ op # LOOP
         /\ op = LOOP => op \notin {BLOCK, IF_} /\ op \notin WordOps /\ op # BR_TABLE
         /\ op \in {BLOCK, IF_} => op \notin WordOps /\ op # LOOP /\ op # BR_TABLE
         /\ op \in all_opcodes =>
              op \in Memory \cup Consts \cup NoOperands \cup {BLOCK, IF_, LOOP, BR_TABLE}
                       \cup NullControl \cup WordOps
BY OpcodeNumbers, SMTT(60)
   DEF Memory, Loads, Stores, WordOps, Consts, NoOperands, NullControl, Sized, Comparisons, Numerics,
       Conversions, Reinterprets, Control, OpCode, all_opcodes, execute_loads, execute_stores, execute_size,
       execute_compare, execute_i32, execute_i64, execute_f32, execute_f64, execute_convert

LEMMA TagIs ==
  ASSUME NEW op
  PROVE  /\ op \in Memory => tagged_immediate(op) = "memory"
         /\ op \in {BLOCK, IF_} => tagged_immediate(op) = "block"
         /\ op \in WordOps => tagged_immediate(op) = "offset"
         /\ op = LOOP => tagged_immediate(op) = "loop"
         /\ op = BR_TABLE => tagged_immediate(op) = "br_table"
         /\ op \in Consts => tagged_immediate(op) = << "i32", "i64", "f32", "f64" >>[op - 64]
         /\ op \in NoOperands \cup NullControl => tagged_immediate(op) = "null"
<1>0. op \in Memory <=> op \in I32_LOAD .. I64_STORE32
  BY OneCase
<1>1. ASSUME op \in Memory PROVE tagged_immediate(op) = "memory"
  <2>1. op \notin {BLOCK, IF_} /\ op \notin WordOps /\ op # LOOP /\ op # BR_TABLE /\ op \notin Consts
    BY <1>1, OneCase
  <2> QED
    BY <1>0, <1>1, <2>1 DEF tagged_immediate
<1>2. ASSUME op \in {BLOCK, IF_} PROVE tagged_immediate(op) = "block"
  <2>1. op \notin Memory /\ op \notin WordOps /\ op # LOOP /\ op # BR_TABLE /\ op \notin Consts
    BY <1>2, OneCase
  <2> QED
    BY <1>0, <1>2, <2>1 DEF tagged_immediate
<1>3. ASSUME op \in WordOps PROVE tagged_immediate(op) = "offset"
  <2>1. op \notin Memory /\ op \notin {BLOCK, IF_} /\ op # LOOP /\ op # BR_TABLE /\ op \notin Consts
    BY <1>3, OneCase
  <2> QED
    BY <1>0, <1>3, <2>1 DEF tagged_immediate
<1>4. ASSUME op = LOOP PROVE tagged_immediate(op) = "loop"
  <2>1. op \notin Memory /\ op \notin {BLOCK, IF_} /\ op \notin WordOps /\ op # BR_TABLE /\ op \notin Consts
    BY <1>4, OneCase
  <2> QED
    BY <1>0, <1>4, <2>1 DEF tagged_immediate
<1>5. ASSUME op = BR_TABLE PROVE tagged_immediate(op) = "br_table"
  <2>1. op \notin Memory /\ op \notin {BLOCK, IF_} /\ op \notin WordOps /\ op # LOOP /\ op \notin Consts
    BY <1>5, OneCase
  <2> QED
    BY <1>0, <1>5, <2>1 DEF tagged_immediate
<1>6. ASSUME op \in Consts
      PROVE  tagged_immediate(op) = << "i32", "i64", "f32", "f64" >>[op - 64]
  <2>1. op \notin Memory /\ op \notin {BLOCK, IF_} /\ op \notin WordOps /\ op # LOOP /\ op # BR_TABLE
    BY <1>6, OneCase
  <2> QED
    BY <1>0, <1>6, <2>1 DEF tagged_immediate
<1>7. ASSUME op \in NoOperands \cup NullControl PROVE tagged_immediate(op) = "null"
  <2>1. /\ op \notin Memory /\ op \notin {BLOCK, IF_} /\ op \notin WordOps /\ op # LOOP /\ op # BR_TABLE
        /\ op \notin Consts
    BY <1>7, OneCase
  <2> QED
    BY <1>0, <1>7, <2>1 DEF tagged_immediate
<1> QED
  BY <1>1, <1>2, <1>3, <1>4, <1>5, <1>6, <1>7

LEMMA ControlCase ==
  ASSUME NEW op
  PROVE  /\ op \in {BLOCK, IF_} => execute_control(op) = Case("block", "none")
         /\ op = LOOP => execute_control(op) = Case("loop", "none")
         /\ op = BR_TABLE => execute_control(op) = Case("br_table", "br_table")
         /\ op = ELSE_ => execute_control(op) = Case("offset", "none")
         /\ op \in WordOps \ {ELSE_} => execute_control(op) = Case("offset", "offset")
         /\ op \in NullControl => execute_control(op).asserts = "null"
<1>1. ASSUME op \in {BLOCK, IF_} PROVE execute_control(op) = Case("block", "none")
  <2>1. op \notin {0, 1, RETURN, DROP, SELECT} /\ op # LOOP /\ op # ELSE_ /\ op # END /\ op # BR_TABLE
    BY <1>1, OpcodeNumbers
  <2> QED
    BY <1>1, <2>1 DEF execute_control
<1>2. ASSUME op = LOOP PROVE execute_control(op) = Case("loop", "none")
  <2>1. /\ op \notin {0, 1, RETURN, DROP, SELECT} /\ op \notin {BLOCK, IF_}
        /\ op # ELSE_ /\ op # END /\ op # BR_TABLE
    BY <1>2, OpcodeNumbers
  <2> QED
    BY <1>2, <2>1 DEF execute_control
<1>3. ASSUME op = BR_TABLE PROVE execute_control(op) = Case("br_table", "br_table")
  <2>1. /\ op \notin {0, 1, RETURN, DROP, SELECT} /\ op \notin {BLOCK, IF_}
        /\ op # ELSE_ /\ op # END /\ op # LOOP
    BY <1>3, OpcodeNumbers
  <2> QED
    BY <1>3, <2>1 DEF execute_control
<1>4. ASSUME op = ELSE_ PROVE execute_control(op) = Case("offset", "none")
  <2>1. /\ op \notin {0, 1, RETURN, DROP, SELECT} /\ op \notin {BLOCK, IF_}
        /\ op # BR_TABLE /\ op # END /\ op # LOOP
    BY <1>4, OpcodeNumbers
  <2> QED
    BY <1>4, <2>1 DEF execute_control
<1>5. ASSUME op \in WordOps \ {ELSE_} PROVE execute_control(op) = Case("offset", "offset")
  <2>1. /\ op \notin {0, 1, RETURN, DROP, SELECT} /\ op \notin {BLOCK, IF_}
        /\ op # BR_TABLE /\ op # END /\ op # LOOP /\ op # ELSE_
    BY <1>5, OpcodeNumbers DEF WordOps
  <2> QED
    BY <2>1 DEF execute_control
<1>6. ASSUME op \in NullControl PROVE execute_control(op).asserts = "null"
  <2>1. op \notin {BLOCK, IF_} /\ op # BR_TABLE /\ op # LOOP /\ op # ELSE_
    BY <1>6, OpcodeNumbers DEF NullControl
  <2>2. CASE op = END
    <3>1. op \notin {0, 1, RETURN, DROP, SELECT}
      BY <2>2, OpcodeNumbers
    <3>2. execute_control(op) = Case("null", "offset")
      BY <2>1, <2>2, <3>1 DEF execute_control
    <3> QED
      BY <3>2 DEF Case
  <2>3. CASE op # END
    <3>1. op \in {0, 1, RETURN, DROP, SELECT}
      BY <1>6, <2>3 DEF NullControl
    <3>2. execute_control(op) = Case("null", "none")
      BY <2>1, <2>3, <3>1 DEF execute_control
    <3> QED
      BY <3>2 DEF Case
  <2> QED
    BY <2>2, <2>3
<1> QED
  BY <1>1, <1>2, <1>3, <1>4, <1>5, <1>6

LEMMA ExecuteIs ==
  ASSUME NEW op
  PROVE  /\ op \in Memory => execute(op) = Case("memory", "memory")
         /\ op \in Consts => execute(op) = execute_consts(op)
         /\ op \in NoOperands => execute(op) = Case("null", "none")
         /\ op \notin Memory \cup Consts \cup NoOperands => execute(op) = execute_control(op)
<1>0. /\ op \in Memory <=> op \in execute_loads \cup execute_stores
      /\ op \in NoOperands <=>
           op \in execute_size \cup execute_compare \cup execute_i32 \cup execute_i64
                    \cup execute_f32 \cup execute_f64 \cup execute_convert
      /\ op \in Memory => op \notin Consts /\ op \notin NoOperands
      /\ op \in Consts => op \notin NoOperands
  BY OneCase
<1>1. ASSUME op \in Memory PROVE execute(op) = Case("memory", "memory")
  BY <1>0, <1>1 DEF execute
<1>2. ASSUME op \in Consts PROVE execute(op) = execute_consts(op)
  BY <1>0, <1>2 DEF execute
<1>3. ASSUME op \in NoOperands PROVE execute(op) = Case("null", "none")
  BY <1>0, <1>3 DEF execute
<1>4. ASSUME op \notin Memory \cup Consts \cup NoOperands PROVE execute(op) = execute_control(op)
  BY <1>0, <1>4 DEF execute
<1> QED
  BY <1>1, <1>2, <1>3, <1>4

LEMMA ConstsCase ==
  ASSUME NEW op \in Consts
  PROVE  /\ execute_consts(op).asserts = << "i32", "i64", "f32", "f64" >>[op - 64]
         /\ execute_consts(op).member = << "i32", "i64", "f32", "f64" >>[op - 64] <=> op # F64_CONST
<1>1. op = 65 \/ op = 66 \/ op = 67 \/ op = 68
  BY OpcodeNumbers DEF Consts
<1> QED
  BY <1>1, OpcodeNumbers DEF execute_consts, Case

(* What execute asserts is the tag of the instruction, and what it passes  *)
(* on the member of that tag, but for F64_CONST.                           *)
LEMMA ExecuteFacts ==
  ASSUME NEW op \in all_opcodes
  PROVE  /\ execute(op).asserts = tagged_immediate(op)
         /\ op \in Buildable /\ execute(op).member # "none" =>
              (execute(op).member = tagged_immediate(op) <=> op # F64_CONST)
<1>0. ASSUME NEW a, NEW m PROVE Case(a, m).asserts = a /\ Case(a, m).member = m
  BY DEF Case
<1>1. CASE op \in Memory
  <2>1. execute(op) = Case("memory", "memory") /\ tagged_immediate(op) = "memory"
    BY <1>1, ExecuteIs, TagIs
  <2>2. op # F64_CONST
    BY <1>1, OneCase DEF Consts
  <2> QED
    BY <1>0, <2>1, <2>2
<1>2. CASE op \in Consts
  <2>1. /\ execute(op) = execute_consts(op)
        /\ tagged_immediate(op) = << "i32", "i64", "f32", "f64" >>[op - 64]
    BY <1>2, ExecuteIs, TagIs
  <2> QED
    BY <1>2, <2>1, ConstsCase
<1>3. CASE op \in NoOperands
  <2>1. execute(op) = Case("null", "none") /\ tagged_immediate(op) = "null"
    BY <1>3, ExecuteIs, TagIs
  <2> QED
    BY <1>0, <2>1
<1>4. CASE op \in {BLOCK, IF_, LOOP, BR_TABLE} \cup NullControl \cup WordOps
  <2>1. op \notin Memory \cup Consts \cup NoOperands
    BY <1>4, OneCase
  <2>2. execute(op) = execute_control(op) /\ op # F64_CONST
    BY <2>1, ExecuteIs DEF Consts
  <2>3. CASE op \in {BLOCK, IF_}
    <3>1. execute(op) = Case("block", "none") /\ tagged_immediate(op) = "block"
      BY <2>2, <2>3, ControlCase, TagIs
    <3> QED
      BY <1>0, <3>1
  <2>4. CASE op = LOOP
    <3>1. execute(op) = Case("loop", "none") /\ tagged_immediate(op) = "loop"
      BY <2>2, <2>4, ControlCase, TagIs
    <3> QED
      BY <1>0, <3>1
  <2>5. CASE op = BR_TABLE
    <3>1. execute(op) = Case("br_table", "br_table") /\ tagged_immediate(op) = "br_table"
      BY <2>2, <2>5, ControlCase, TagIs
    <3> QED
      BY <1>0, <2>2, <3>1
  <2>6. CASE op = ELSE_
    <3>1. execute(op) = Case("offset", "none") /\ tagged_immediate(op) = "offset"
      BY <2>2, <2>6, ControlCase, TagIs DEF WordOps
    <3> QED
      BY <1>0, <3>1
  <2>7. CASE op \in WordOps \ {ELSE_}
    <3>1. execute(op) = Case("offset", "offset") /\ tagged_immediate(op) = "offset"
      BY <2>2, <2>7, ControlCase, TagIs
    <3> QED
      BY <1>0, <2>2, <3>1
  <2>8. CASE op \in NullControl
    <3>1. execute(op).asserts = "null" /\ tagged_immediate(op) = "null"
      BY <2>2, <2>8, ControlCase, TagIs
    <3>2. op \notin Buildable
      BY <2>8, OpcodeNumbers DEF NullControl, Buildable, WordOps, Consts
    <3> QED
      BY <3>1, <3>2
  <2> QED
    BY <1>4, <2>3, <2>4, <2>5, <2>6, <2>7, <2>8
<1> QED
  BY <1>1, <1>2, <1>3, <1>4, OneCase

------------------------------------------------------------------------------
(* The inductive invariant, and what a step of the walk does.              *)

TypeInv ==
  /\ ops \in Seq(Bytes)
  /\ code = Code(ops)
  /\ position \in Nat
  /\ types \in Seq(ValueTypes)

(* What the walk has read last it has read at an opcode.                   *)
Readable ==
  last.op # -1 =>
    /\ last.op \in all_opcodes
    /\ last.op # BR_TABLE =>
         /\ last.at \in Nat
         /\ \E n : InstructionAt(ops, last.at, n) /\ last.op = ops[n]
         /\ last.after = last.at + Extent(last.op) <=> last.op \notin Misread
         /\ Apart(last.operand) <=> last.op \notin Mixed

(* What has been built was built of the instruction the view is at.        *)
BuiltOf(n) ==
  /\ InstructionAt(ops, position, n) /\ instruction.op = ops[n]
  /\ instruction.state \in {"built", "aborted", "no_overload"} /\ HasFields(instruction)
  /\ instruction.state = "built" =>
       /\ instruction.op \in Buildable
       /\ instruction.after = position + Extent(instruction.op)
            <=> instruction.op \notin {ELSE_, CALL_INDIRECT}
  /\ instruction.op \in Buildable \ {ELSE_} => instruction.state = "built"

Executed ==
  /\ instruction.state = "executed"
  /\ instruction.op \in Buildable
  /\ instruction.tag = execute(instruction.op).member

Made ==
  \/ instruction = None
  \/ instruction.op = 0 /\ instruction.state \in {"aborted", "nullopt"}
  \/ \E n : BuiltOf(n)
  \/ Executed

IInv == TypeInv /\ Readable /\ Made

ReadBy(op, read, effect) ==
  /\ AtOpcode
  /\ op = Byte.b /\ op \in all_opcodes
  /\ read \in visit_op_impl(op, position) /\ read.ok
  /\ effect \in op_func(op, read.operand)
  /\ last' = [op |-> op, at |-> position, after |-> read.after,
              operand |-> read.operand, reads |-> effect.reads]
  /\ types' = Applied(effect)
  /\ position' \in {read.after, position}

LEMMA AdvanceReads ==
  ASSUME Advance
  PROVE  /\ UNCHANGED << ops, code, instruction >>
         /\ \/ UNCHANGED << last, types, position >>
            \/ \E op, read, effect : ReadBy(op, read, effect)
<1>1. UNCHANGED << ops, code, instruction >> /\ AtOpcode
  BY DEF Advance
<1>2. PICK read \in visit_op_impl(Byte.b, position) :
       \/ UNCHANGED << last, types, position >>
       \/ /\ read.ok /\ opcode_exists(Byte.b)
          /\ \E effect \in op_func(Byte.b, read.operand) :
               /\ last' = [op |-> Byte.b, at |-> position, after |-> read.after,
                           operand |-> read.operand, reads |-> effect.reads]
               /\ types' = Applied(effect)
               /\ position' = IF effect.then = "after" THEN read.after ELSE position
  BY DEF Advance
<1>3. CASE UNCHANGED << last, types, position >>
  BY <1>1, <1>3
<1>4. CASE ~ UNCHANGED << last, types, position >>
  <2>1. read.ok /\ Byte.b \in all_opcodes
    BY <1>2, <1>4 DEF opcode_exists
  <2>2. PICK effect \in op_func(Byte.b, read.operand) :
          /\ last' = [op |-> Byte.b, at |-> position, after |-> read.after,
                      operand |-> read.operand, reads |-> effect.reads]
          /\ types' = Applied(effect)
          /\ position' = IF effect.then = "after" THEN read.after ELSE position
    BY <1>2, <1>4
  <2>3. position' \in {read.after, position}
    BY <2>2
  <2>4. ReadBy(Byte.b, read, effect)
    BY <1>1, <1>2, <2>1, <2>2, <2>3 DEF ReadBy
  <2> QED
    BY <1>1, <2>4
<1> QED
  BY <1>3, <1>4

LEMMA InitIInv == Init => IInv
<1> SUFFICES ASSUME Init PROVE IInv
  OBVIOUS
<1>1. PICK body \in Bodies :
        /\ ops = Append(body, END)
        /\ code = Code(Append(body, END))
        /\ types = FlattenSeq(Reverse([i \in DOMAIN body |-> Params(body[i])]))
  BY DEF Init
<1>2. body \in Seq(Bytes) /\ END \in Bytes
  BY BodiesAssumption, OpcodeNumbers DEF Bytes
<1>3. ops \in Seq(Bytes)
  BY <1>1, <1>2, AppendProperties
<1> DEFINE s == [i \in DOMAIN body |-> Params(body[i])]
           r == Reverse(s)
<1>4. s \in Seq(Seq(ValueTypes))
  <2>1. Len(body) \in Nat /\ DOMAIN body = 1 .. Len(body)
    BY <1>2
  <2>2. \A i \in 1 .. Len(body) : Params(body[i]) \in Seq(ValueTypes)
    BY SignatureType
  <2> QED
    BY <2>1, <2>2
<1> HIDE DEF s
<1>5. r \in Seq(Seq(ValueTypes))
  <2>1. Len(s) \in Nat
    BY <1>4
  <2>2. \A i \in 1 .. Len(s) : (Len(s) - i) + 1 \in 1 .. Len(s)
    BY <2>1
  <2>3. \A i \in 1 .. Len(s) : s[(Len(s) - i) + 1] \in Seq(ValueTypes)
    BY <1>4, <2>2, ElementOfSeq
  <2> QED
    BY <2>1, <2>3 DEF Reverse
<1> HIDE DEF r
<1>6. FlattenSeq(r) \in Seq(ValueTypes)
  <2>1. Len(r) \in Nat /\ Len(r) \in 0 .. Len(r)
    BY <1>5
  <2> QED
    BY <1>5, <2>1, FlattenStep
<1>7. types \in Seq(ValueTypes)
  BY <1>1, <1>6 DEF r, s
<1>8. position \in Nat
  BY DEF Init
<1>9. TypeInv
  BY <1>1, <1>3, <1>7, <1>8 DEF TypeInv
<1>10. Readable
  BY DEF Init, Unread, Readable
<1>11. Made
  BY DEF Init, Made
<1> QED
  BY <1>9, <1>10, <1>11 DEF IInv

LEMMA AtAnOpcode ==
  ASSUME TypeInv, AtOpcode
  PROVE  \E n : InstructionAt(ops, position, n) /\ Byte.b = ops[n]
<1>1. position < Len(Code(ops)) /\ Code(ops)[position + 1].f = "op" /\ Byte = Code(ops)[position + 1]
  BY DEF TypeInv, AtOpcode, Byte
<1>2. PICK n : InstructionAt(ops, position, n)
  BY <1>1, OpcodeFacts DEF TypeInv
<1>3. Byte = OpCell(ops[n])
  BY <1>1, <1>2 DEF InstructionAt
<1> QED
  BY <1>2, <1>3 DEF OpCell

LEMMA NextIInv == IInv /\ [Next]_vars => IInv'
<1> SUFFICES ASSUME IInv, [Next]_vars PROVE IInv'
  OBVIOUS
<1>0. TypeInv /\ Readable /\ Made
  BY DEF IInv
<1>1. CASE Advance
  <2>1. UNCHANGED << ops, code, instruction >>
    BY <1>1, AdvanceReads
  <2>2. instruction = None
    BY <1>1 DEF Advance, Running
  <2>3. Made'
    BY <2>1, <2>2 DEF Made
  <2>4. CASE UNCHANGED << last, types, position >>
    BY <1>0, <2>1, <2>3, <2>4 DEF IInv, TypeInv, Readable
  <2>5. ASSUME NEW op, NEW read, NEW effect, ReadBy(op, read, effect) PROVE IInv'
    <3>1. /\ op \in all_opcodes /\ read \in visit_op_impl(op, position) /\ read.ok
          /\ effect \in op_func(op, read.operand) /\ types' = Applied(effect)
          /\ position' \in {read.after, position}
          /\ AtOpcode /\ op = Byte.b
      BY <2>5 DEF ReadBy
    <3>2. last'.op = op /\ last'.at = position /\ last'.after = read.after /\ last'.operand = read.operand
      BY <2>5 DEF ReadBy
    <3>3. read.after \in Nat
      BY <1>0, <3>1, ReadAfter DEF TypeInv
    <3>4. Typed(effect)
      BY <3>1, Handlers DEF Judged
    <3>5. types' \in Seq(ValueTypes)
      BY <1>0, <3>1, <3>4, AppliedFacts DEF TypeInv
    <3>6. TypeInv'
      BY <1>0, <2>1, <3>1, <3>3, <3>5 DEF TypeInv
    <3>7. PICK n : InstructionAt(ops, position, n) /\ op = ops[n]
      BY <1>0, <3>1, AtAnOpcode
    <3>8. op # BR_TABLE => /\ read.after = position + Extent(op) <=> op \notin Misread
                           /\ Apart(read.operand) <=> op \notin Mixed
      BY <1>0, <3>1, <3>7, ReadHere DEF TypeInv
    <3>9. Readable'
      <4>1. InstructionAt(ops', last'.at, n) /\ last'.op = ops'[n] /\ last'.at \in Nat
        BY <1>0, <2>1, <3>2, <3>7 DEF TypeInv
      <4> QED
        BY <3>1, <3>2, <3>8, <4>1 DEF Readable
    <3> QED
      BY <2>3, <3>6, <3>9 DEF IInv
  <2> QED
    BY <1>1, <2>4, <2>5, AdvanceReads
<1>3. CASE Visit
  <2>1. UNCHANGED << ops, code, position, types, last >> /\ AtOpcode
        /\ instruction' = visit_opcode(Byte.b, position)
    BY <1>3 DEF Visit
  <2>2. TypeInv' /\ Readable'
    BY <1>0, <2>1 DEF TypeInv, Readable
  <2>3. PICK n : InstructionAt(ops, position, n) /\ Byte.b = ops[n]
    BY <1>0, <2>1, AtAnOpcode
  <2> DEFINE op == Byte.b
             v == visit_opcode(op, position)
  <2>4. /\ v.op = op /\ HasFields(v) /\ v.state \in {"built", "aborted", "no_overload"}
        /\ v.state = "built" => op \in Buildable
    BY BuiltFacts
  <2>5. op \in Buildable =>
          /\ v.state = "built" => (v.after = position + Extent(op) <=> op \notin {ELSE_, CALL_INDIRECT})
          /\ op # ELSE_ => v.state = "built"
    BY <1>0, <2>3, BuiltHere DEF TypeInv
  <2>6. instruction' = v /\ op = ops[n]
    BY <2>1, <2>3
  <2> HIDE DEF v, op
  <2>7. InstructionAt(ops', position', n) /\ instruction'.op = ops'[n] /\ instruction'.op = op
        /\ position' = position
    BY <2>1, <2>3, <2>4, <2>6
  <2>8. BuiltOf(n)'
    BY <2>4, <2>5, <2>6, <2>7 DEF BuiltOf, HasFields
  <2>9. Made'
    BY <2>8 DEF Made
  <2> QED
    BY <2>2, <2>9 DEF IInv
<1>4. CASE NextInstruction
  <2>1. UNCHANGED << ops, code, position, types, last >> /\ instruction' \in next_instruction
    BY <1>4 DEF NextInstruction
  <2>2. TypeInv' /\ Readable'
    BY <1>0, <2>1 DEF TypeInv, Readable
  <2>3. instruction' = Refused(0, "aborted") \/ instruction' = Refused(0, "nullopt")
    BY <2>1 DEF next_instruction
  <2>4. instruction'.op = 0 /\ instruction'.state \in {"aborted", "nullopt"}
    BY <2>3, RefusedFacts
  <2> QED
    BY <2>2, <2>4 DEF IInv, Made
<1>5. CASE Execute
  <2>1. instruction.state = "built" /\ UNCHANGED << ops, code, position, last >>
    BY <1>5 DEF Execute
  <2>2. Readable'
    BY <1>0, <2>1 DEF Readable
  <2>3. PICK n : BuiltOf(n)
    BY <1>0, <2>1 DEF Made, None, Executed
  <2>4. instruction.op \in Buildable /\ instruction.op \in all_opcodes
    BY <2>1, <2>3, BuildableOpcodes DEF BuiltOf
  <2>5. CASE validate(execute(instruction.op).asserts, instruction.op)
    <3>1. PICK effect \in op_func(instruction.op, instruction.immediate) :
            /\ types' = Applied(effect)
            /\ instruction' = [instruction EXCEPT !.state = "executed",
                                                  !.tag = execute(instruction.op).member]
      BY <1>5, <2>5 DEF Execute
    <3>2. Typed(effect)
      BY <2>4, Handlers DEF Judged
    <3>3. types' \in Seq(ValueTypes)
      BY <1>0, <3>1, <3>2, AppliedFacts DEF TypeInv
    <3>4. TypeInv'
      BY <1>0, <2>1, <3>3 DEF TypeInv
    <3>5. /\ instruction'.state = "executed" /\ instruction'.op = instruction.op
          /\ instruction'.tag = execute(instruction.op).member
      <4>1. instruction = [state |-> instruction.state, op |-> instruction.op, tag |-> instruction.tag,
                           after |-> instruction.after, immediate |-> instruction.immediate]
        BY <2>3 DEF BuiltOf, HasFields
      <4>2. instruction' = [state |-> "executed", op |-> instruction.op,
                            tag |-> execute(instruction.op).member,
                            after |-> instruction.after, immediate |-> instruction.immediate]
        BY <3>1, <4>1
      <4> QED
        BY <4>2
    <3>6. Made'
      BY <2>4, <3>5 DEF Made, Executed
    <3> QED
      BY <2>2, <3>4, <3>6 DEF IInv
  <2>6. CASE ~ validate(execute(instruction.op).asserts, instruction.op)
    <3>1. UNCHANGED << types, instruction >>
      BY <1>5, <2>6 DEF Execute
    <3> QED
      BY <1>0, <2>1, <2>2, <3>1 DEF IInv, TypeInv, Made, BuiltOf, Executed, HasFields
  <2> QED
    BY <2>5, <2>6
<1>6. CASE UNCHANGED vars
  BY <1>0, <1>6 DEF vars, IInv, TypeInv, Readable, Made, BuiltOf, Executed, HasFields
<1> QED
  BY <1>1, <1>3, <1>4, <1>5, <1>6 DEF Next

(* The inductive invariant: the bytes are the parser's, the walk has read  *)
(* last at one of its opcodes, and an instruction is one of the view's.    *)
THEOREM Invariance == Spec => []IInv
<1>1. Init => IInv
  BY InitIInv
<1>2. IInv /\ [Next]_vars => IInv'
  BY NextIInv
<1> QED
  BY <1>1, <1>2, PTL DEF Spec

------------------------------------------------------------------------------
(* The properties.                                                         *)

(* The instruction behind the one that was read is the next boundary.      *)
LEMMA Boundary ==
  ASSUME TypeInv, NEW p \in Nat, NEW op, \E n : InstructionAt(ops, p, n) /\ op = ops[n]
  PROVE  NextBoundary(p) = p + Extent(op)
BY NextBoundaryIs DEF TypeInv

(* CodeView::advance leaves the view at the opcode the parser wrote next   *)
(* for every opcode but the seven of Misread, and never there for one of   *)
(* those.                                                                  *)
THEOREM Alignment == Spec => []WalkAligned
<1>1. IInv => WalkAligned
  <2> SUFFICES ASSUME IInv, last.op \notin {-1, BR_TABLE}
               PROVE  (last.after = NextBoundary(last.at)) <=> last.op \notin Misread
    BY DEF WalkAligned
  <2>1. /\ last.at \in Nat
        /\ \E n : InstructionAt(ops, last.at, n) /\ last.op = ops[n]
        /\ last.after = last.at + Extent(last.op) <=> last.op \notin Misread
    BY DEF IInv, Readable
  <2>2. NextBoundary(last.at) = last.at + Extent(last.op)
    BY <2>1, Boundary DEF IInv
  <2> QED
    BY <2>1, <2>2
<1> QED
  BY <1>1, Invariance, PTL

(* A handler is given the words the parser wrote, each once, for every     *)
(* opcode but the structured ones, ELSE and the memory instructions.       *)
THEOREM OperandsReachHandlers == Spec => []OperandsKept
<1>1. IInv => OperandsKept
  <2> SUFFICES ASSUME IInv, last.op \notin {-1, BR_TABLE}
               PROVE  Apart(last.operand) <=> last.op \notin Mixed
    BY DEF OperandsKept, Apart
  <2> QED
    BY DEF IInv, Readable
<1> QED
  BY <1>1, Invariance, PTL

(* visit_opcode builds the instructions of Buildable and no other, and     *)
(* what it has read of one ends where the next starts but for ELSE and     *)
(* CALL_INDIRECT.                                                          *)
THEOREM OnlyBuildable == Spec => []InstructionsBuilt
<1>1. IInv => InstructionsBuilt
  <2> SUFFICES ASSUME IInv PROVE InstructionsBuilt
    OBVIOUS
  <2>1. CASE instruction = None
    BY <2>1 DEF None, InstructionsBuilt
  <2>2. CASE instruction.op = 0 /\ instruction.state \in {"aborted", "nullopt"}
    <3>1. 0 \notin Buildable
      BY OpcodeNumbers DEF Buildable, WordOps, Consts
    <3> QED
      BY <2>2, <3>1 DEF InstructionsBuilt
  <2>3. ASSUME NEW n, BuiltOf(n) PROVE InstructionsBuilt
    <3>1. NextBoundary(position) = position + Extent(instruction.op)
      BY <2>3, Boundary DEF BuiltOf, IInv, TypeInv
    <3> QED
      BY <2>3, <3>1 DEF BuiltOf, InstructionsBuilt
  <2>4. CASE Executed
    BY <2>4 DEF Executed, InstructionsBuilt
  <2> QED
    BY <2>1, <2>2, <2>3, <2>4 DEF IInv, Made
<1> QED
  BY <1>1, Invariance, PTL

(* WasmInstruction::execute asserts of every opcode the tag its immediate  *)
(* has, and reads the member the constructor wrote, but for F64_CONST.     *)
THEOREM BuiltIsExecuted == Spec => []ExecutesWhatWasBuilt
<1>1. IInv => ExecutesWhatWasBuilt
  <2> SUFFICES ASSUME IInv PROVE ExecutesWhatWasBuilt
    OBVIOUS
  <2>1. ASSUME instruction.state = "executed", instruction.tag # "none"
        PROVE  (instruction.tag = tagged_immediate(instruction.op)) <=> instruction.op # F64_CONST
    <3>1. Executed
      BY <2>1 DEF IInv, Made, None, BuiltOf
    <3>2. instruction.op \in Buildable /\ instruction.op \in all_opcodes
      BY <3>1, BuildableOpcodes DEF Executed
    <3> QED
      BY <2>1, <3>1, <3>2, ExecuteFacts DEF Executed
  <2>2. ASSUME last.op # -1 PROVE execute(last.op).asserts = tagged_immediate(last.op)
    <3>1. last.op \in all_opcodes
      BY <2>2 DEF IInv, Readable
    <3> QED
      BY <3>1, ExecuteFacts
  <2> QED
    BY <2>1, <2>2 DEF ExecutesWhatWasBuilt
<1> QED
  BY <1>1, Invariance, PTL

(* The handler the walk calls on a stack that ends with the operands of    *)
(* the opcode reads them as what they were pushed as and leaves the        *)
(* results in their place, for every opcode but those of Wrong, and does   *)
(* not for any of those.                                                   *)
THEOREM HandlersKeepTheStack == Spec => HandlerEffect
<1> DEFINE Kept ==
      LET op == last'.op
          rest == SubSeq(types, 1, Len(types) - Len(Params(op)))
      IN last' # last /\ types = rest \o Params(op) /\ op # CALL_INDIRECT =>
           ((last'.reads = Params(op) /\ types' = rest \o Results(op))
              <=> op \notin Unbound \cup Stores \cup {DEMOTE, IF_})
<1>1. IInv /\ [Next]_vars => [Kept]_vars
  <2> SUFFICES ASSUME IInv, Next PROVE Kept
    OBVIOUS
  <2>1. CASE Advance
    <3>1. CASE UNCHANGED << last, types, position >>
      BY <3>1
    <3>2. ASSUME NEW op, NEW read, NEW effect, ReadBy(op, read, effect) PROVE Kept
      <4>1. /\ op \in all_opcodes /\ effect \in op_func(op, read.operand)
            /\ last'.op = op /\ last'.reads = effect.reads /\ types' = Applied(effect)
        BY <3>2 DEF ReadBy
      <4>2. Judged(op, effect)
        BY <4>1, Handlers
      <4> DEFINE rest == SubSeq(types, 1, Len(types) - Len(Params(op)))
      <4>3. types = rest \o Params(op) /\ op # CALL_INDIRECT =>
              ((effect.reads = Params(op) /\ Applied(effect) = rest \o Results(op)) <=> op \notin Wrong)
        BY <4>2, JudgedStack DEF IInv, TypeInv
      <4> QED
        BY <4>1, <4>3 DEF Wrong
    <3> QED
      BY <2>1, <3>1, <3>2, AdvanceReads
  <2>2. CASE Visit \/ NextInstruction \/ Execute
    <3>1. last' = last
      BY <2>2 DEF Visit, NextInstruction, Execute
    <3> QED
      BY <3>1
  <2> QED
    BY <2>1, <2>2 DEF Next
<1> QED
  BY <1>1, Invariance, PTL DEF Spec, HandlerEffect

==============================================================================
