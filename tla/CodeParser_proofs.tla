-------------------------- MODULE CodeParser_proofs --------------------------
(***************************************************************************)
(* Proofs about CodeParser for every set of bodies, valid or not, and      *)
(* every width of a label.                                                 *)
(*                                                                         *)
(* ScanAligned speaks of the cell under the scan alone.  What keeps it is  *)
(* that the cells ahead are cut into units (an opcode with the immediates  *)
(* that are skipped with it, or a byte that is visited by itself), that    *)
(* the scan stands at such a cut, and that code is only inserted at a cut  *)
(* and below what is ahead: Aligned.  That an END only writes to a label   *)
(* below the scan is OpenLabels, so the two are proved together.           *)
(***************************************************************************)
EXTENDS CodeParser, SequenceTheorems, FiniteSetTheorems, TLAPS

(* The cells the scan skips with an opcode.  It stops at a branch table,   *)
(* whose operands nobody visits.                                           *)
UnitSize(op) == IF op = BrTable THEN 3 * W ELSE ImmediatesSize(op)

Visited == Opcodes \cup {Signature, Reserved}

(* S holds the positions ahead where a unit begins, and the end.           *)
Cut(S, c, from) ==
  /\ S \subseteq from .. Len(c)
  /\ from \in S
  /\ Len(c) \in S
  /\ \A p \in S : p < Len(c) =>
       /\ c[p + 1] \in Visited
       /\ p + 1 + UnitSize(c[p + 1]) \in S
       /\ \A k \in p + 2 .. p + 1 + UnitSize(c[p + 1]) : c[k] = Operand

Aligned == \E S \in SUBSET Nat : Cut(S, code, index)

FirstPass == status = "immediates" => index = 0 /\ label_stack = << >>

IInv == TypeOK /\ FirstPass /\ OpenLabels /\ Aligned

Cells == Opcodes \cup {Signature, Reserved, Operand} \cup Nat

------------------------------------------------------------------------------
(* Concatenation, cell by cell.                                            *)
LEMMA ConcatFacts ==
  ASSUME NEW X, NEW s \in Seq(X), NEW t \in Seq(X)
  PROVE  /\ s \o t \in Seq(X)
         /\ Len(s \o t) = Len(s) + Len(t)
         /\ \A k \in 1 .. Len(s) : (s \o t)[k] = s[k]
         /\ \A k \in 1 .. Len(t) : (s \o t)[Len(s) + k] = t[k]
<1>1. /\ s \o t \in Seq(X) /\ Len(s \o t) = Len(s) + Len(t)
      /\ \A k \in 1 .. Len(s) + Len(t) :
           (s \o t)[k] = IF k <= Len(s) THEN s[k] ELSE t[k - Len(s)]
  BY ConcatProperties
<1>2. Len(s) \in Nat /\ Len(t) \in Nat
  OBVIOUS
<1>3. \A k \in 1 .. Len(s) : (s \o t)[k] = s[k]
  BY <1>1, <1>2
<1>4. \A k \in 1 .. Len(t) : (s \o t)[Len(s) + k] = t[k]
  BY <1>1, <1>2
<1> QED
  BY <1>1, <1>3, <1>4

(* What a handler appends in the first pass: cells that are no opcodes,    *)
(* the operands of the unit first, then the byte visited by itself if any. *)
LEMMA ImmediatesFacts ==
  ASSUME NEW op \in Opcodes
  PROVE  /\ Immediates(op) \in Seq(Cells)
         /\ UnitSize(op) \in Nat
         /\ Len(Immediates(op)) \in {UnitSize(op), UnitSize(op) + 1}
         /\ \A k \in 1 .. UnitSize(op) : Immediates(op)[k] = Operand
         /\ Len(Immediates(op)) = UnitSize(op) + 1 =>
              Immediates(op)[UnitSize(op) + 1] \in {Signature, Reserved}
<1>1. \A n \in Nat : /\ Operands(n) \in Seq(Cells)
                     /\ Len(Operands(n)) = n
                     /\ \A k \in 1 .. n : Operands(n)[k] = Operand
  BY DEF Operands, Cells
<1>2. W \in Nat /\ 3 * W \in Nat
  BY WidthAssumption
<1>3. CASE op \in {Block, Loop, If}
  <2>1. UnitSize(op) = 0 /\ Immediates(op) = << Signature >>
    BY <1>3, OpcodesAssumption DEF UnitSize, ImmediatesSize, Immediates
  <2> QED
    BY <2>1 DEF Cells
<1>4. CASE op \in {Br, Call}
  <2>1. UnitSize(op) = W /\ Immediates(op) = Operands(W)
    BY <1>4, OpcodesAssumption DEF UnitSize, ImmediatesSize, Immediates
  <2> QED
    BY <1>1, <1>2, <2>1
<1>5. CASE op = CallIndirect
  <2>1. UnitSize(op) = W /\ Immediates(op) = Append(Operands(W), Reserved)
    BY <1>5, OpcodesAssumption DEF UnitSize, ImmediatesSize, Immediates
  <2>2. /\ Append(Operands(W), Reserved) \in Seq(Cells)
        /\ Len(Append(Operands(W), Reserved)) = W + 1
        /\ \A k \in 1 .. W : Append(Operands(W), Reserved)[k] = Operand
        /\ Append(Operands(W), Reserved)[W + 1] = Reserved
    BY <1>1, <1>2, AppendProperties DEF Cells
  <2> QED
    BY <1>2, <2>1, <2>2
<1>6. CASE op = BrTable
  <2>1. UnitSize(op) = 3 * W /\ Immediates(op) = Operands(3 * W)
    BY <1>6, OpcodesAssumption DEF UnitSize, ImmediatesSize, Immediates
  <2> QED
    BY <1>1, <1>2, <2>1
<1>7. CASE op \notin {Block, Loop, If, Br, Call, CallIndirect, BrTable}
  <2>1. UnitSize(op) = 0 /\ Immediates(op) = << >>
    BY <1>7, OpcodesAssumption DEF UnitSize, ImmediatesSize, Immediates
  <2> QED
    BY <2>1
<1> QED
  BY <1>3, <1>4, <1>5, <1>6, <1>7

(* Inserting a word moves what is behind it and nothing else.              *)
LEMMA SplicedFacts ==
  ASSUME TypeOK, NEW i \in 0 .. Len(code), NEW n \in Nat
  PROVE  /\ Spliced(i, Word(n)) \in Seq(Cells)
         /\ Len(Spliced(i, Word(n))) = Len(code) + W
         /\ \A k \in 1 .. i : Spliced(i, Word(n))[k] = code[k]
         /\ Spliced(i, Word(n))[i + 1] = n
         /\ \A k \in i + 2 .. i + W : Spliced(i, Word(n))[k] = 0
         /\ \A k \in i + 1 .. Len(code) : Spliced(i, Word(n))[k + W] = code[k]
<1> DEFINE a == SubSeq(code, 1, i)
           b == SubSeq(code, i + 1, Len(code))
           w == Word(n)
<1>1. code \in Seq(Cells) /\ Len(code) \in Nat /\ i \in Nat /\ W \in Nat \ {0}
  BY WidthAssumption DEF TypeOK, Cells
<1>2. a \in Seq(Cells) /\ Len(a) = i /\ \A k \in 1 .. i : a[k] = code[k]
  BY <1>1
<1>3. /\ b \in Seq(Cells) /\ Len(b) = Len(code) - i
      /\ \A k \in 1 .. Len(code) - i : b[k] = code[i + k]
  BY <1>1
<1>4. /\ w \in Seq(Cells) /\ Len(w) = W /\ w[1] = n
      /\ \A k \in 2 .. W : w[k] = 0
  BY <1>1 DEF Word, Cells
<1> HIDE DEF a, b, w
<1>5. /\ a \o w \in Seq(Cells) /\ Len(a \o w) = i + W
      /\ \A k \in 1 .. i : (a \o w)[k] = a[k]
      /\ \A k \in 1 .. W : (a \o w)[i + k] = w[k]
  <2>0. a \in Seq(Cells) /\ w \in Seq(Cells)
    BY <1>2, <1>4
  <2>1. a \o w \in Seq(Cells) /\ Len(a \o w) = Len(a) + Len(w)
    BY <2>0, ConcatFacts
  <2>2. \A k \in 1 .. Len(a) : (a \o w)[k] = a[k]
    BY <2>0, ConcatFacts
  <2>3. \A k \in 1 .. Len(w) : (a \o w)[Len(a) + k] = w[k]
    BY <2>0, ConcatFacts
  <2> QED
    BY <1>2, <1>4, <2>1, <2>2, <2>3
<1> DEFINE aw == a \o w
<1> HIDE DEF aw
<1>6. /\ aw \o b \in Seq(Cells) /\ Len(aw \o b) = Len(code) + W
      /\ \A k \in 1 .. i + W : (aw \o b)[k] = aw[k]
      /\ \A k \in 1 .. Len(code) - i : (aw \o b)[i + W + k] = b[k]
  <2>1. /\ aw \in Seq(Cells) /\ Len(aw) = i + W
    BY <1>5 DEF aw
  <2>0. aw \in Seq(Cells) /\ b \in Seq(Cells)
    BY <1>3, <2>1
  <2>2. aw \o b \in Seq(Cells) /\ Len(aw \o b) = Len(aw) + Len(b)
    BY <2>0, ConcatFacts
  <2>3. \A k \in 1 .. Len(aw) : (aw \o b)[k] = aw[k]
    BY <2>0, ConcatFacts
  <2>4. \A k \in 1 .. Len(b) : (aw \o b)[Len(aw) + k] = b[k]
    BY <2>0, ConcatFacts
  <2> QED
    BY <1>1, <1>3, <2>1, <2>2, <2>3, <2>4, SMTT(20)
<1>7. Spliced(i, Word(n)) = aw \o b
  BY DEF Spliced, aw, a, b, w
<1>8. \A k \in 1 .. i : (aw \o b)[k] = code[k]
  BY <1>1, <1>2, <1>5, <1>6 DEF aw
<1>9. (aw \o b)[i + 1] = n
  BY <1>1, <1>4, <1>5, <1>6 DEF aw
<1>10. \A k \in i + 2 .. i + W : (aw \o b)[k] = 0
  <2> SUFFICES ASSUME NEW k \in i + 2 .. i + W PROVE (aw \o b)[k] = 0
    OBVIOUS
  <2>1. k - i \in 2 .. W /\ k - i \in 1 .. W /\ i + (k - i) = k /\ k \in 1 .. i + W
    BY <1>1
  <2> QED
    BY <1>4, <1>5, <1>6, <2>1 DEF aw
<1>11. \A k \in i + 1 .. Len(code) : (aw \o b)[k + W] = code[k]
  <2> SUFFICES ASSUME NEW k \in i + 1 .. Len(code) PROVE (aw \o b)[k + W] = code[k]
    OBVIOUS
  <2>1. k - i \in 1 .. Len(code) - i /\ i + (k - i) = k /\ i + W + (k - i) = k + W
    BY <1>1
  <2> QED
    BY <1>3, <1>6, <2>1
<1> QED
  BY <1>6, <1>7, <1>8, <1>9, <1>10, <1>11
------------------------------------------------------------------------------
(* Cuts: how they follow the scan.                                         *)

LEMMA UnitSizeType == \A op : UnitSize(op) \in Nat
  BY WidthAssumption DEF UnitSize, ImmediatesSize

LEMMA AdvanceCut ==
  ASSUME NEW c, NEW from \in Nat, NEW S, Cut(S, c, from), NEW q \in S, Len(c) \in Nat
  PROVE  Cut({p \in S : p >= q}, c, q)
<1> DEFINE T == {p \in S : p >= q}
<1>1. \A p \in S : p \in Nat /\ from <= p /\ p <= Len(c)
  BY DEF Cut
<1>2. T \subseteq q .. Len(c) /\ q \in T /\ Len(c) \in T
  <2>1. Len(c) \in S
    BY DEF Cut
  <2> QED
    BY <1>1, <2>1
<1>3. ASSUME NEW p \in T, p < Len(c)
      PROVE  /\ c[p + 1] \in Visited
             /\ p + 1 + UnitSize(c[p + 1]) \in T
             /\ \A k \in p + 2 .. p + 1 + UnitSize(c[p + 1]) : c[k] = Operand
  BY <1>1, <1>3, UnitSizeType DEF Cut
<1> QED
  BY <1>2, <1>3 DEF Cut

(* What is written below the scan does not matter.                         *)
LEMMA EditCut ==
  ASSUME NEW c, NEW d, NEW from \in Nat, NEW S, Cut(S, c, from),
         Len(c) \in Nat, Len(d) = Len(c), \A k \in from + 1 .. Len(c) : d[k] = c[k]
  PROVE  Cut(S, d, from)
<1>1. S \subseteq from .. Len(c)
  BY DEF Cut
<1>2. ASSUME NEW p \in S, p < Len(d)
      PROVE  /\ d[p + 1] \in Visited
             /\ p + 1 + UnitSize(d[p + 1]) \in S
             /\ \A k \in p + 2 .. p + 1 + UnitSize(d[p + 1]) : d[k] = Operand
  <2>1. d[p + 1] = c[p + 1]
    BY <1>1, <1>2
  <2>2. /\ c[p + 1] \in Visited
        /\ p + 1 + UnitSize(c[p + 1]) \in S
        /\ \A k \in p + 2 .. p + 1 + UnitSize(c[p + 1]) : c[k] = Operand
    BY <1>2 DEF Cut
  <2>3. ASSUME NEW k \in p + 2 .. p + 1 + UnitSize(c[p + 1]) PROVE d[k] = Operand
    <3>1. k \in from + 1 .. Len(c)
      BY <1>1, <2>2, UnitSizeType
    <3> QED
      BY <2>2, <3>1
  <2> QED
    BY <2>1, <2>2, <2>3
<1> QED
  BY <1>2 DEF Cut

(* A word inserted at a cut: the cuts behind it move with the code.        *)
LEMMA SpliceCut ==
  ASSUME TypeOK, NEW S, Cut(S, code, index), NEW i \in S, NEW n \in Nat
  PROVE  Cut({p + W : p \in {q \in S : q >= i}}, Spliced(i, Word(n)), i + W)
<1> DEFINE c == Spliced(i, Word(n))
           T == {p + W : p \in {q \in S : q >= i}}
<1>1. /\ W \in Nat /\ Len(code) \in Nat /\ index \in Nat
      /\ \A p \in S : p \in Nat /\ index <= p /\ p <= Len(code)
  BY WidthAssumption DEF Cut, TypeOK
<1>2. /\ Len(c) = Len(code) + W
      /\ \A k \in i + 1 .. Len(code) : c[k + W] = code[k]
  BY <1>1, SplicedFacts
<1> HIDE DEF c
<1>3. T \subseteq i + W .. Len(c) /\ i + W \in T /\ Len(c) \in T
  <2>1. \A p \in S : p >= i => p + W \in i + W .. Len(c)
    BY <1>1, <1>2
  <2>2. Len(code) \in S /\ Len(code) >= i /\ i >= i
    BY <1>1 DEF Cut
  <2> QED
    BY <1>2, <2>1, <2>2
<1>4. ASSUME NEW r \in T, r < Len(c)
      PROVE  /\ c[r + 1] \in Visited
             /\ r + 1 + UnitSize(c[r + 1]) \in T
             /\ \A k \in r + 2 .. r + 1 + UnitSize(c[r + 1]) : c[k] = Operand
  <2> PICK p \in S : p >= i /\ r = p + W
    OBVIOUS
  <2>1. p \in Nat /\ p < Len(code) /\ p + 1 \in i + 1 .. Len(code)
    BY <1>1, <1>2, <1>4
  <2>2. c[r + 1] = code[p + 1]
    <3>1. r + 1 = (p + 1) + W
      BY <1>1, <2>1
    <3> QED
      BY <1>2, <2>1, <3>1
  <2> DEFINE u == UnitSize(code[p + 1])
  <2>3. u \in Nat
    BY UnitSizeType
  <2> HIDE DEF u
  <2>4. /\ code[p + 1] \in Visited /\ p + 1 + u \in S
        /\ \A k \in p + 2 .. p + 1 + u : code[k] = Operand
    BY <2>1 DEF Cut, u
  <2>5. r + 1 + u \in T
    <3>1. p + 1 + u >= i /\ r + 1 + u = (p + 1 + u) + W
      BY <1>1, <2>1, <2>3
    <3> QED
      BY <2>4, <3>1
  <2>6. ASSUME NEW k \in r + 2 .. r + 1 + u PROVE c[k] = Operand
    <3>1. k - W \in p + 2 .. p + 1 + u /\ (k - W) + W = k
      BY <1>1, <2>1, <2>3
    <3>2. p + 1 + u <= Len(code)
      BY <1>1, <2>4
    <3>3. k - W \in i + 1 .. Len(code)
      BY <1>1, <2>1, <2>3, <3>1, <3>2
    <3> QED
      BY <1>2, <2>4, <3>1, <3>3
  <2> QED
    BY <2>2, <2>4, <2>5, <2>6 DEF u
<1> QED
  BY <1>3, <1>4 DEF Cut, c

------------------------------------------------------------------------------
(* Labels that wait: the stack ls of positions in code c, scanned to at.   *)

Open(ls, c, at) ==
  /\ \A k \in 1 .. Len(ls) : ls[k] # NoLabel =>
       /\ ls[k] + W <= at
       /\ \A x \in ls[k] + 1 .. ls[k] + W : c[x] = 0
  /\ \A j, k \in 1 .. Len(ls) :
       j < k /\ ls[j] # NoLabel /\ ls[k] # NoLabel => ls[j] + W <= ls[k]

Positions == Nat \cup {NoLabel}

LEMMA OpenIsOpenLabels ==
  OpenLabels <=> Open(label_stack, code, index) /\ status # "RuntimeError"
<1>1. OpenLabels => Open(label_stack, code, index) /\ status # "RuntimeError"
  BY DEF OpenLabels, Open, Unbound
<1>2. Open(label_stack, code, index) /\ status # "RuntimeError" => OpenLabels
  BY DEF OpenLabels, Open, Unbound
<1> QED
  BY <1>1, <1>2

LEMMA PushOpen ==
  ASSUME NEW ls \in Seq(Positions), NEW c, NEW d, NEW at \in Nat, NEW to \in Nat,
         Open(ls, c, at), at <= to, \A x \in 1 .. at : d[x] = c[x],
         NEW l \in Positions,
         l # NoLabel => at <= l /\ l + W <= to /\ \A x \in l + 1 .. l + W : d[x] = 0
  PROVE  Open(Append(ls, l), d, to)
<1> DEFINE ls2 == Append(ls, l)
<1>1. /\ Len(ls) \in Nat /\ Len(ls2) = Len(ls) + 1 /\ ls2[Len(ls) + 1] = l
      /\ \A k \in 1 .. Len(ls) : ls2[k] = ls[k] /\ ls[k] \in Positions
  BY AppendProperties
<1> HIDE DEF ls2
<1>2. W \in Nat
  BY WidthAssumption
<1>3. \A k \in 1 .. Len(ls2) : k \in 1 .. Len(ls) \/ k = Len(ls) + 1
  BY <1>1
<1>4. ASSUME NEW k \in 1 .. Len(ls), ls[k] # NoLabel
      PROVE  ls[k] \in Nat /\ ls[k] + W <= at /\ \A x \in ls[k] + 1 .. ls[k] + W : d[x] = 0
  <2>1. ls[k] \in Nat /\ ls[k] + W <= at
    BY <1>1, <1>4 DEF Positions, Open
  <2>2. \A x \in ls[k] + 1 .. ls[k] + W : x \in 1 .. at /\ c[x] = 0
    BY <1>2, <1>4, <2>1 DEF Open
  <2> QED
    BY <2>1, <2>2
<1>5. ASSUME NEW k \in 1 .. Len(ls2), ls2[k] # NoLabel
      PROVE  ls2[k] + W <= to /\ \A x \in ls2[k] + 1 .. ls2[k] + W : d[x] = 0
  <2>1. CASE k \in 1 .. Len(ls)
    BY <1>1, <1>2, <1>4, <1>5, <2>1
  <2>2. CASE k = Len(ls) + 1
    BY <1>1, <1>5, <2>2
  <2> QED
    BY <1>3, <2>1, <2>2
<1>6. ASSUME NEW j \in 1 .. Len(ls2), NEW k \in 1 .. Len(ls2),
             j < k, ls2[j] # NoLabel, ls2[k] # NoLabel
      PROVE  ls2[j] + W <= ls2[k]
  <2>0. j \in 1 .. Len(ls)
    BY <1>1, <1>6
  <2>1. CASE k \in 1 .. Len(ls)
    BY <1>1, <1>6, <2>0, <2>1 DEF Open
  <2>2. CASE k = Len(ls) + 1
    <3>1. ls2[k] = l /\ at <= l /\ l \in Nat
      BY <1>1, <1>6, <2>2 DEF Positions
    <3>2. ls2[j] = ls[j] /\ ls[j] \in Nat /\ ls[j] + W <= at
      BY <1>1, <1>4, <1>6, <2>0
    <3> QED
      BY <1>2, <3>1, <3>2
  <2> QED
    BY <1>3, <2>1, <2>2
<1> QED
  BY <1>5, <1>6 DEF Open, ls2

LEMMA PopFacts ==
  ASSUME NEW ls \in Seq(Positions), ls # << >>
  PROVE  /\ Len(ls) \in Nat \ {0} /\ ls[Len(ls)] \in Positions
         /\ SubSeq(ls, 1, Len(ls) - 1) \in Seq(Positions)
         /\ Len(SubSeq(ls, 1, Len(ls) - 1)) = Len(ls) - 1
         /\ \A k \in 1 .. Len(ls) - 1 : SubSeq(ls, 1, Len(ls) - 1)[k] = ls[k]
<1>1. Len(ls) \in Nat \ {0}
  BY EmptySeq
<1>2. \A k \in 1 .. Len(ls) : ls[k] \in Positions
  OBVIOUS
<1> DEFINE n == Len(ls) - 1
<1>3. n \in Nat /\ Len(ls) = n + 1 /\ \A k \in 1 .. n : ls[k] \in Positions
  BY <1>1, <1>2
<1> HIDE DEF n
<1>4. /\ SubSeq(ls, 1, n) \in Seq(Positions)
      /\ Len(SubSeq(ls, 1, n)) = IF 1 <= n THEN n - 1 + 1 ELSE 0
      /\ \A k \in 1 .. n - 1 + 1 : SubSeq(ls, 1, n)[k] = ls[1 + k - 1]
  <2>1. 1 \in Int /\ n \in Int
    BY <1>3
  <2> QED
    BY <1>3, <2>1, SubSeqProperties
<1>5. Len(SubSeq(ls, 1, n)) = n /\ \A k \in 1 .. n : SubSeq(ls, 1, n)[k] = ls[k]
  BY <1>3, <1>4
<1> QED
  BY <1>1, <1>2, <1>4, <1>5 DEF n

(* The label on top may be written over: the others lie below it.          *)
LEMMA PopOpen ==
  ASSUME NEW ls \in Seq(Positions), ls # << >>, NEW c, NEW d, NEW at \in Nat,
         NEW to \in Nat, at <= to, Open(ls, c, at),
         ls[Len(ls)] = NoLabel => \A x \in 1 .. at : d[x] = c[x],
         ls[Len(ls)] # NoLabel => \A x \in 1 .. ls[Len(ls)] : d[x] = c[x]
  PROVE  Open(SubSeq(ls, 1, Len(ls) - 1), d, to)
<1> DEFINE ls2 == SubSeq(ls, 1, Len(ls) - 1)
           top == ls[Len(ls)]
<1>1. /\ Len(ls) \in Nat \ {0} /\ Len(ls2) = Len(ls) - 1 /\ top \in Positions
      /\ \A k \in 1 .. Len(ls2) : ls2[k] = ls[k] /\ k \in 1 .. Len(ls) /\ k < Len(ls)
  BY PopFacts
<1> HIDE DEF ls2
<1>2. W \in Nat
  BY WidthAssumption
<1>3. ASSUME NEW k \in 1 .. Len(ls2), ls2[k] # NoLabel
      PROVE  ls2[k] + W <= to /\ \A x \in ls2[k] + 1 .. ls2[k] + W : d[x] = 0
  <2>1. /\ ls2[k] = ls[k] /\ ls[k] \in Nat /\ ls[k] + W <= at
        /\ \A x \in ls[k] + 1 .. ls[k] + W : c[x] = 0
    BY <1>1, <1>3 DEF Open, Positions
  <2>2. top # NoLabel => ls[k] + W <= top /\ top \in Nat
    BY <1>1, <1>3 DEF Open, Positions
  <2>3. ASSUME NEW x \in ls[k] + 1 .. ls[k] + W PROVE d[x] = c[x]
    <3>1. x \in 1 .. at /\ (top # NoLabel => x \in 1 .. top)
      BY <1>2, <2>1, <2>2
    <3> QED
      BY <3>1
  <2> QED
    BY <1>2, <2>1, <2>3
<1>4. ASSUME NEW j \in 1 .. Len(ls2), NEW k \in 1 .. Len(ls2),
             j < k, ls2[j] # NoLabel, ls2[k] # NoLabel
      PROVE  ls2[j] + W <= ls2[k]
  BY <1>1, <1>4 DEF Open
<1> QED
  BY <1>3, <1>4 DEF Open, ls2

------------------------------------------------------------------------------
(* The first pass.                                                         *)

LEMMA CopyKeepsInv ==
  ASSUME IInv, CopyInstruction
  PROVE  IInv'
<1> DEFINE op == body[pos + 1]
           im == Immediates(op)
           L == Len(code)
           c1 == code \o << op >>
<1>1. /\ code \in Seq(Cells) /\ L \in Nat /\ index = 0 /\ label_stack = << >>
      /\ body \in Seq(Opcodes) /\ pos \in 0 .. Len(body) /\ op \in Opcodes
  <2>1. body \in Seq(Opcodes) /\ pos \in 0 .. Len(body) /\ pos < Len(body)
    BY DEF IInv, TypeOK, CopyInstruction
  <2>2. op \in Opcodes
    BY <2>1
  <2> QED
    BY <2>1, <2>2 DEF IInv, TypeOK, FirstPass, CopyInstruction, Cells
<1>2. /\ im \in Seq(Cells) /\ UnitSize(op) \in Nat
      /\ Len(im) \in {UnitSize(op), UnitSize(op) + 1}
      /\ \A k \in 1 .. UnitSize(op) : im[k] = Operand
      /\ Len(im) = UnitSize(op) + 1 => im[UnitSize(op) + 1] \in {Signature, Reserved}
      /\ Len(im) \in Nat
  BY <1>1, ImmediatesFacts
<1>3. << op >> \in Seq(Cells) /\ Len(<< op >>) = 1 /\ << op >>[1] = op
  BY <1>1 DEF Cells
<1> HIDE DEF op, im
<1>4. /\ c1 \in Seq(Cells) /\ Len(c1) = L + 1 /\ c1[L + 1] = op
      /\ \A k \in 1 .. L : c1[k] = code[k]
  <2>1. c1 \in Seq(Cells) /\ Len(c1) = L + Len(<< op >>)
    BY <1>1, <1>3, ConcatFacts
  <2>2. \A k \in 1 .. L : c1[k] = code[k]
    BY <1>1, <1>3, ConcatFacts
  <2>3. \A k \in 1 .. Len(<< op >>) : c1[L + k] = << op >>[k]
    BY <1>1, <1>3, ConcatFacts
  <2>4. 1 \in 1 .. Len(<< op >>)
    BY <1>3
  <2> QED
    BY <1>3, <2>1, <2>2, <2>3, <2>4
<1> HIDE DEF c1
<1>5. code' = c1 \o im
  BY DEF CopyInstruction, op, im, c1
<1>6. /\ code' \in Seq(Cells) /\ Len(code') = L + 1 + Len(im)
      /\ code'[L + 1] = op
      /\ \A k \in 1 .. L : code'[k] = code[k]
      /\ \A k \in 1 .. Len(im) : code'[L + 1 + k] = im[k]
  <2>1. code' \in Seq(Cells) /\ Len(code') = Len(c1) + Len(im)
    BY <1>2, <1>4, <1>5, ConcatFacts
  <2>2. \A k \in 1 .. Len(c1) : code'[k] = c1[k]
    BY <1>2, <1>4, <1>5, ConcatFacts
  <2>3. \A k \in 1 .. Len(im) : code'[Len(c1) + k] = im[k]
    BY <1>2, <1>4, <1>5, ConcatFacts
  <2> QED
    BY <1>1, <1>4, <2>1, <2>2, <2>3
<1>7. TypeOK'
  BY <1>1, <1>2, <1>6 DEF IInv, TypeOK, CopyInstruction, Cells
<1>8. FirstPass' /\ OpenLabels'
  BY <1>1 DEF CopyInstruction, FirstPass, OpenLabels, Unbound, IInv
<1>9. Aligned'
  <2> PICK S \in SUBSET Nat : Cut(S, code, index)
    BY DEF IInv, Aligned
  <2> DEFINE T == S \cup {L + 1 + UnitSize(op), L + 1 + Len(im)}
  <2>1. \A p \in S : p \in Nat /\ 0 <= p /\ p <= L
    BY <1>1 DEF Cut
  <2>2. index' = 0 /\ 0 \in S /\ L \in S
    BY <1>1 DEF Cut, CopyInstruction
  <2>3. T \subseteq 0 .. Len(code') /\ 0 \in T /\ Len(code') \in T
    <3>1. \A p \in T : p \in 0 .. Len(code')
      BY <1>1, <1>2, <1>6, <2>1
    <3>2. 0 \in T /\ Len(code') \in T
      BY <1>6, <2>2
    <3> QED
      BY <3>1, <3>2
  <2>4. ASSUME NEW p \in T, p < Len(code')
        PROVE  /\ code'[p + 1] \in Visited
               /\ p + 1 + UnitSize(code'[p + 1]) \in T
               /\ \A k \in p + 2 .. p + 1 + UnitSize(code'[p + 1]) : code'[k] = Operand
    <3>1. CASE p \in S /\ p < L
      <4>1. p + 1 \in 1 .. L /\ code'[p + 1] = code[p + 1]
        BY <1>1, <1>6, <2>1, <3>1
      <4>2. /\ code[p + 1] \in Visited /\ p + 1 + UnitSize(code[p + 1]) \in S
            /\ \A k \in p + 2 .. p + 1 + UnitSize(code[p + 1]) : code[k] = Operand
        BY <3>1 DEF Cut
      <4>3. \A k \in p + 2 .. p + 1 + UnitSize(code[p + 1]) : k \in 1 .. L
        BY <1>1, <2>1, <3>1, <4>2, UnitSizeType
      <4> QED
        BY <1>6, <4>1, <4>2, <4>3
    <3>2. CASE p = L
      <4>1. code'[p + 1] = op /\ op \in Visited
        BY <1>1, <1>6, <3>2 DEF Visited
      <4>2. ASSUME NEW k \in p + 2 .. p + 1 + UnitSize(op) PROVE code'[k] = Operand
        <5>1. /\ k - (L + 1) \in 1 .. UnitSize(op) /\ k - (L + 1) \in 1 .. Len(im)
              /\ L + 1 + (k - (L + 1)) = k
          BY <1>1, <1>2, <3>2
        <5> QED
          BY <1>2, <1>6, <5>1
      <4> QED
        BY <3>2, <4>1, <4>2
    <3>3. CASE p = L + 1 + UnitSize(op)
      <4>1. Len(im) = UnitSize(op) + 1
        BY <1>1, <1>2, <1>6, <2>4, <3>3
      <4>2. /\ code'[L + 1 + (UnitSize(op) + 1)] = im[UnitSize(op) + 1]
            /\ p + 1 = L + 1 + (UnitSize(op) + 1)
        BY <1>1, <1>2, <1>6, <3>3, <4>1
      <4>3. code'[p + 1] \in {Signature, Reserved}
        BY <1>2, <4>1, <4>2
      <4>4. UnitSize(code'[p + 1]) = 0
        BY <4>3, OpcodesAssumption DEF UnitSize, ImmediatesSize, Opcodes
      <4>5. p + 1 + 0 = L + 1 + Len(im)
        <5>1. \A u \in Nat : L + 1 + u + 1 + 0 = L + 1 + (u + 1)
          BY <1>1
        <5> QED
          BY <1>2, <3>3, <4>1, <5>1
      <4>6. p + 2 .. p + 1 + 0 = {}
        <5>1. p \in Nat
          BY <1>1, <1>2, <3>3
        <5> QED
          BY <5>1
      <4> QED
        BY <4>3, <4>4, <4>5, <4>6 DEF Visited
    <3>4. p \in S => p < L \/ p = L
      BY <1>1, <2>1
    <3>5. p # L + 1 + Len(im)
      BY <1>1, <1>2, <1>6, <2>4
    <3> QED
      BY <3>1, <3>2, <3>3, <3>4, <3>5
  <2>5. T \in SUBSET Nat /\ Cut(T, code', index')
    BY <1>1, <1>2, <2>2, <2>3, <2>4 DEF Cut
  <2> QED
    BY <2>5 DEF Aligned
<1> QED
  BY <1>7, <1>8, <1>9 DEF IInv

------------------------------------------------------------------------------
(* The second pass.                                                        *)

LEMMA ScanFacts ==
  ASSUME IInv, Scanning
  PROVE  /\ index \in Nat /\ Len(code) \in Nat /\ index < Len(code)
         /\ code \in Seq(Cells) /\ label_stack \in Seq(Positions)
         /\ W \in Nat \ {0}
         /\ Cell \in Visited
         /\ Open(label_stack, code, index)
         /\ status = "labels"
<1>1. /\ index \in Nat /\ Len(code) \in Nat /\ index < Len(code)
      /\ code \in Seq(Cells) /\ label_stack \in Seq(Positions) /\ status = "labels"
  BY DEF IInv, TypeOK, Scanning, Cells, Positions
<1>2. PICK S \in SUBSET Nat : Cut(S, code, index)
  BY DEF IInv, Aligned
<1>3. Cell \in Visited
  BY <1>1, <1>2 DEF Cut, Cell
<1> QED
  BY <1>1, <1>3, OpenIsOpenLabels, WidthAssumption DEF IInv

(* The next unit begins behind this one, inside the code.                  *)
LEMMA NextUnit ==
  ASSUME IInv, Scanning, NEW S, Cut(S, code, index)
  PROVE  /\ index + 1 + UnitSize(Cell) \in S
         /\ index + 1 + UnitSize(Cell) \in Nat
         /\ index + 1 + UnitSize(Cell) <= Len(code)
         /\ \A k \in index + 2 .. index + 1 + UnitSize(Cell) : code[k] = Operand
<1>1. index \in S /\ index < Len(code) /\ index \in Nat
  BY ScanFacts DEF Cut
<1>2. /\ index + 1 + UnitSize(Cell) \in S
      /\ \A k \in index + 2 .. index + 1 + UnitSize(Cell) : code[k] = Operand
  BY <1>1 DEF Cut, Cell
<1>3. index + 1 + UnitSize(Cell) \in index .. Len(code)
  BY <1>2 DEF Cut
<1> QED
  BY <1>1, <1>2, <1>3, UnitSizeType

(* A handler that only moves the scan, to the next unit.                   *)
LEMMA MoveAligned ==
  ASSUME IInv, Scanning, Len(code') = Len(code),
         \A k \in index + 2 .. Len(code) : code'[k] = code[k],
         index' = index + 1 + UnitSize(Cell)
  PROVE  Aligned'
<1> PICK S \in SUBSET Nat : Cut(S, code, index)
  BY DEF IInv, Aligned
<1> DEFINE q == index + 1 + UnitSize(Cell)
           T == {p \in S : p >= q}
<1>1. q \in S /\ q \in Nat /\ q >= index + 1
  BY ScanFacts, NextUnit, UnitSizeType
<1>2. Cut(T, code, q)
  BY <1>1, ScanFacts, AdvanceCut
<1>3. \A k \in q + 1 .. Len(code) : code'[k] = code[k]
  BY <1>1, ScanFacts
<1>4. Cut(T, code', q)
  BY <1>1, <1>2, <1>3, ScanFacts, EditCut
<1>5. T \in SUBSET Nat /\ Cut(T, code', index')
  BY <1>4
<1> HIDE DEF T
<1> QED
  BY <1>5 DEF Aligned

(* A word inserted at a cut, to which the scan moves on.                   *)
LEMMA SpliceAligned ==
  ASSUME IInv, NEW i, NEW n \in Nat, NEW d,
         \E S \in SUBSET Nat : Cut(S, code, index) /\ i \in S,
         Len(d) = Len(code) + W,
         \A k \in i + W + 1 .. Len(code) + W : d[k] = Spliced(i, Word(n))[k]
  PROVE  \E T \in SUBSET Nat : Cut(T, d, i + W)
<1> PICK S \in SUBSET Nat : Cut(S, code, index) /\ i \in S
  OBVIOUS
<1> DEFINE T == {p + W : p \in {q \in S : q >= i}}
           c == Spliced(i, Word(n))
<1>1. i \in 0 .. Len(code) /\ Len(code) \in Nat /\ W \in Nat
  BY WidthAssumption DEF Cut, IInv, TypeOK
<1>2. Cut(T, c, i + W)
  BY SpliceCut DEF IInv
<1>3. Len(c) = Len(code) + W
  BY <1>1, SplicedFacts DEF IInv
<1>4. i + W \in Nat /\ Len(c) \in Nat /\ Len(d) = Len(c)
  BY <1>1, <1>3
<1>5. \A k \in i + W + 1 .. Len(c) : d[k] = c[k]
  BY <1>3
<1>6. T \in SUBSET Nat
  BY <1>1
<1> HIDE DEF T, c
<1>7. Cut(T, d, i + W)
  BY <1>2, <1>4, <1>5, EditCut
<1> QED
  BY <1>6, <1>7

(* BLOCK, IF and LOOP: a word behind the opcode, and an entry on the       *)
(* stack, which for a LOOP is no position.                                 *)
LEMMA OpenerKeepsInv ==
  ASSUME IInv, Scanning, Cell \in {Block, If, Loop}, NEW n \in Nat, NEW l \in {index + 1, NoLabel},
         code' = Spliced(index + 1, Word(n)), l # NoLabel => n = 0,
         label_stack' = Append(label_stack, l),
         index' = index + 1 + W,
         UNCHANGED <<body, pos, status>>
  PROVE  IInv'
<1>1. /\ index \in Nat /\ Len(code) \in Nat /\ index + 1 \in 0 .. Len(code)
      /\ label_stack \in Seq(Positions) /\ W \in Nat \ {0} /\ status = "labels"
      /\ Open(label_stack, code, index)
  BY ScanFacts
<1>2. /\ code' \in Seq(Cells) /\ Len(code') = Len(code) + W
      /\ \A k \in 1 .. index + 1 : code'[k] = code[k]
      /\ code'[index + 1 + 1] = n
      /\ \A k \in index + 1 + 2 .. index + 1 + W : code'[k] = 0
  BY <1>1, SplicedFacts, SMTT(20) DEF IInv
<1>3. l \in Positions /\ label_stack' \in Seq(Positions)
  BY <1>1, AppendProperties DEF Positions
<1>4. TypeOK'
  BY <1>1, <1>2, <1>3 DEF IInv, TypeOK, Positions, Cells
<1>5. FirstPass'
  BY <1>1 DEF FirstPass
<1>6. Open(label_stack, code, index)'
  <2>1. \A x \in 1 .. index : code'[x] = code[x]
    BY <1>1, <1>2
  <2>2. l # NoLabel => /\ index <= l /\ l + W <= index'
                       /\ \A x \in l + 1 .. l + W : code'[x] = 0
    <3> SUFFICES ASSUME l = index + 1, n = 0
                 PROVE  /\ index <= l /\ l + W <= index'
                        /\ \A x \in l + 1 .. l + W : code'[x] = 0
      OBVIOUS
    <3>1. \A x \in l + 1 .. l + W : x = index + 1 + 1 \/ x \in index + 1 + 2 .. index + 1 + W
      BY <1>1
    <3> QED
      BY <1>1, <1>2, <3>1
  <2>3. index' \in Nat /\ index <= index'
    BY <1>1
  <2> QED
    BY <1>1, <1>3, <2>1, <2>2, <2>3, PushOpen
<1>7. OpenLabels'
  <2>1. status' # "RuntimeError"
    BY <1>1
  <2> QED
    BY <1>6, <2>1 DEF OpenLabels, Open, Unbound
<1>8. Aligned'
  <2> PICK S \in SUBSET Nat : Cut(S, code, index)
    BY DEF IInv, Aligned
  <2>1. UnitSize(Cell) = 0
    BY OpcodesAssumption DEF UnitSize, ImmediatesSize
  <2>2. index + 1 \in S
    BY <1>1, <2>1, NextUnit
  <2>3. \E T \in SUBSET Nat : Cut(T, code', index + 1 + W)
    BY <1>2, <2>2, SpliceAligned
  <2> QED
    BY <2>3 DEF Aligned
<1> QED
  BY <1>4, <1>5, <1>7, <1>8 DEF IInv

(* The label on top is bound, once: its cells were zero.                   *)
LEMMA BindTop ==
  ASSUME IInv, Scanning, label_stack # << >>, Top # NoLabel,
         NEW c \in Seq(Cells), Len(c) >= index,
         \A k \in 1 .. index : c[k] = code[k],
         NEW to \in Nat, to >= index, Bind(c, Top, to)
  PROVE  /\ Top \in Nat /\ Top + W <= index
         /\ status' = status
         /\ code' = [c EXCEPT ![Top + 1] = to - Top]
         /\ code' \in Seq(Cells) /\ Len(code') = Len(c)
         /\ \A k \in 1 .. Len(c) : k # Top + 1 => code'[k] = c[k]
         /\ code'[Top + 1] = to - Top
<1>1. /\ index \in Nat /\ label_stack \in Seq(Positions) /\ W \in Nat \ {0}
      /\ Open(label_stack, code, index) /\ Len(label_stack) \in Nat \ {0}
      /\ Top \in Positions
  BY ScanFacts, PopFacts DEF Top
<1>2. Top \in Nat /\ Len(label_stack) \in 1 .. Len(label_stack)
  BY <1>1 DEF Positions
<1>3. Top + W <= index /\ \A k \in Top + 1 .. Top + W : code[k] = 0
  BY <1>1, <1>2 DEF Open, Top
<1>4. \A k \in Top + 1 .. Top + W : c[k] = 0
  <2>1. \A k \in Top + 1 .. Top + W : k \in 1 .. index
    BY <1>1, <1>2, <1>3
  <2> QED
    BY <1>3, <2>1
<1>5. status' = status /\ code' = [c EXCEPT ![Top + 1] = to - Top]
  BY <1>4 DEF Bind, AlreadyBound
<1>6. to - Top \in Nat /\ to - Top \in Cells /\ Top + 1 \in 1 .. Len(c)
  BY <1>1, <1>2, <1>3 DEF Cells
<1>7. /\ code' \in Seq(Cells) /\ Len(code') = Len(c)
      /\ \A k \in 1 .. Len(c) : k # Top + 1 => code'[k] = c[k]
      /\ code'[Top + 1] = to - Top
  <2> HIDE DEF Top
  <2> QED
    BY <1>5, <1>6
<1> QED
  BY <1>2, <1>3, <1>5, <1>7

(* END closes a LOOP without a trace, a BLOCK or an IF by its label.       *)
LEMMA EndKeepsInv ==
  ASSUME IInv, EndHandler
  PROVE  IInv'
<1>1. /\ Scanning /\ index \in Nat /\ Len(code) \in Nat /\ index < Len(code)
      /\ code \in Seq(Cells) /\ label_stack \in Seq(Positions)
      /\ label_stack # << >> /\ W \in Nat \ {0} /\ status = "labels"
      /\ Open(label_stack, code, index)
      /\ index' = index + 1 /\ label_stack' = Popped /\ Cell = End
  BY ScanFacts DEF EndHandler
<1>2. /\ status' = status /\ code' \in Seq(Cells) /\ Len(code') = Len(code)
      /\ Top = NoLabel => code' = code
      /\ Top # NoLabel => /\ Top \in Nat /\ Top + W <= index
                          /\ \A k \in 1 .. Len(code) : k # Top + 1 => code'[k] = code[k]
  <2>1. CASE Top = NoLabel
    BY <1>1, <2>1 DEF EndHandler
  <2>2. CASE Top # NoLabel
    <3>1. Bind(code, Top, index + 1)
      BY <2>2 DEF EndHandler, PastEnd
    <3>2. Len(code) >= index /\ index + 1 \in Nat /\ index + 1 >= index
      BY <1>1
    <3> QED
      BY <1>1, <2>2, <3>1, <3>2, BindTop
  <2> QED
    BY <2>1, <2>2
<1>3. Popped \in Seq(Positions)
  BY <1>1, PopFacts DEF Popped
<1>4. TypeOK'
  BY <1>1, <1>2, <1>3 DEF IInv, TypeOK, EndHandler, Cells, Positions
<1>5. FirstPass'
  BY <1>1, <1>2 DEF FirstPass
<1>6. Open(label_stack, code, index)'
  <2>1. Top = NoLabel => \A x \in 1 .. index : code'[x] = code[x]
    BY <1>2
  <2>2. Top # NoLabel => \A x \in 1 .. Top : code'[x] = code[x]
    BY <1>1, <1>2
  <2>3. index' \in Nat /\ index <= index'
    BY <1>1
  <2> QED
    BY <1>1, <2>1, <2>2, <2>3, PopOpen DEF Top, Popped
<1>7. OpenLabels'
  BY <1>1, <1>2, <1>6 DEF OpenLabels, Open, Unbound
<1>8. Aligned'
  <2>1. UnitSize(Cell) = 0
    BY <1>1, OpcodesAssumption DEF UnitSize, ImmediatesSize
  <2>2. \A k \in index + 2 .. Len(code) : code'[k] = code[k]
    BY <1>1, <1>2
  <2>3. index' = index + 1 + UnitSize(Cell)
    BY <1>1, <2>1
  <2> QED
    BY <1>1, <1>2, <2>2, <2>3, MoveAligned
<1> QED
  BY <1>4, <1>5, <1>7, <1>8 DEF IInv

(* ELSE binds the label on top and leaves one of its own before itself.    *)
LEMMA ElseKeepsInv ==
  ASSUME IInv, ElseHandler
  PROVE  IInv'
<1> DEFINE c == Spliced(index, Word(0))
<1>1. /\ Scanning /\ index \in Nat /\ Len(code) \in Nat /\ index < Len(code)
      /\ code \in Seq(Cells) /\ label_stack \in Seq(Positions)
      /\ label_stack # << >> /\ W \in Nat \ {0} /\ status = "labels"
      /\ Open(label_stack, code, index) /\ Top # NoLabel
      /\ index' = index + W /\ label_stack' = Append(Popped, index)
      /\ Bind(c, Top, index + W)
  BY ScanFacts DEF ElseHandler
<1>2. /\ c \in Seq(Cells) /\ Len(c) = Len(code) + W
      /\ \A k \in 1 .. index : c[k] = code[k]
      /\ c[index + 1] = 0
      /\ \A k \in index + 2 .. index + W : c[k] = 0
  <2>1. index \in 0 .. Len(code) /\ 0 \in Nat /\ TypeOK
    BY <1>1 DEF IInv
  <2> QED
    BY <2>1, SplicedFacts
<1> HIDE DEF c
<1>3. /\ Top \in Nat /\ Top + W <= index /\ status' = status
      /\ code' \in Seq(Cells) /\ Len(code') = Len(c)
      /\ \A k \in 1 .. Len(c) : k # Top + 1 => code'[k] = c[k]
  <2>1. Len(c) >= index /\ index + W \in Nat /\ index + W >= index
    BY <1>1, <1>2
  <2> QED
    BY <1>1, <1>2, <2>1, BindTop
<1>4. Popped \in Seq(Positions) /\ index \in Positions
  BY <1>1, PopFacts DEF Popped, Positions
<1>5. label_stack' \in Seq(Positions)
  BY <1>1, <1>4, AppendProperties
<1>6. TypeOK'
  BY <1>1, <1>2, <1>3, <1>5 DEF IInv, TypeOK, ElseHandler, Cells, Positions
<1>7. FirstPass'
  BY <1>1, <1>3 DEF FirstPass
<1>8. Open(Popped, code', index)
  <2>1. \A x \in 1 .. Top : x \in 1 .. Len(c) /\ x # Top + 1 /\ x \in 1 .. index
    BY <1>1, <1>2, <1>3
  <2>2. \A x \in 1 .. Top : code'[x] = code[x]
    BY <1>2, <1>3, <2>1
  <2>3. index <= index
    BY <1>1
  <2> QED
    BY <1>1, <2>2, <2>3, PopOpen DEF Top, Popped
<1>9. Open(label_stack, code, index)'
  <2>1. \A x \in index + 1 .. index + W : code'[x] = 0
    <3>1. \A x \in index + 1 .. index + W :
            /\ x \in 1 .. Len(c) /\ x # Top + 1
            /\ x = index + 1 \/ x \in index + 2 .. index + W
      BY <1>1, <1>2, <1>3
    <3> QED
      BY <1>2, <1>3, <3>1
  <2>2. index + W \in Nat /\ index <= index + W /\ index + W <= index + W
    BY <1>1
  <2>3. Open(Append(Popped, index), code', index + W)
    BY <1>1, <1>4, <1>8, <2>1, <2>2, PushOpen
  <2> QED
    BY <1>1, <2>3
<1>10. OpenLabels'
  BY <1>1, <1>3, <1>9 DEF OpenLabels, Open, Unbound
<1>11. Aligned'
  <2>1. \E S \in SUBSET Nat : Cut(S, code, index) /\ index \in S
    BY DEF IInv, Aligned, Cut
  <2>2. \A k \in index + W + 1 .. Len(code) + W : code'[k] = c[k]
    BY <1>1, <1>2, <1>3
  <2>3. \E T \in SUBSET Nat : Cut(T, code', index + W)
    BY <1>2, <1>3, <2>1, <2>2, SpliceAligned DEF c
  <2> QED
    BY <1>1, <2>3 DEF Aligned
<1> QED
  BY <1>6, <1>7, <1>10, <1>11 DEF IInv

(* What only skips an instruction, or ends the parse.                      *)
LEMMA DefaultKeepsInv ==
  ASSUME IInv, DefaultHandler
  PROVE  IInv'
<1>1. /\ Scanning /\ index \in Nat /\ Len(code) \in Nat /\ status = "labels"
      /\ Open(label_stack, code, index)
      /\ index' = index + 1 + ImmediatesSize(Cell)
      /\ UNCHANGED <<body, pos, code, label_stack, status>> /\ Cell # BrTable
  BY ScanFacts DEF DefaultHandler, SkipInstruction
<1>2. UnitSize(Cell) = ImmediatesSize(Cell)
  BY <1>1 DEF UnitSize
<1>3. index' \in Nat /\ index' <= Len(code) /\ index <= index'
  <2> PICK S \in SUBSET Nat : Cut(S, code, index)
    BY DEF IInv, Aligned
  <2> QED
    BY <1>1, <1>2, NextUnit, UnitSizeType
<1>4. TypeOK' /\ FirstPass'
  BY <1>1, <1>3 DEF IInv, TypeOK, FirstPass
<1>5. OpenLabels'
  <2>1. Open(label_stack, code, index')
    <3>1. \A k \in 1 .. Len(label_stack) : label_stack[k] # NoLabel =>
            label_stack[k] \in Nat /\ label_stack[k] + W \in Nat /\ label_stack[k] + W <= index
      BY <1>1, ScanFacts DEF Open, Positions
    <3>2. \A k \in 1 .. Len(label_stack) : label_stack[k] # NoLabel =>
            label_stack[k] + W <= index'
      BY <1>1, <1>3, <3>1
    <3> QED
      BY <1>1, <3>2 DEF Open
  <2> QED
    BY <1>1, <2>1 DEF OpenLabels, Open, Unbound
<1>6. Aligned'
  BY <1>1, <1>2, MoveAligned
<1> QED
  BY <1>4, <1>5, <1>6 DEF IInv

LEMMA StatusKeepsInv ==
  ASSUME IInv, UNCHANGED <<body, pos, code, index, label_stack>>,
         status' \in {"labels", "done", "struct.error", "TypeError", "AssertionError"} \/ status' = status
  PROVE  IInv'
<1>1. TypeOK' /\ FirstPass'
  BY DEF IInv, TypeOK, FirstPass, Errors
<1>2. OpenLabels'
  BY DEF IInv, OpenLabels, Unbound
<1>3. Aligned'
  BY DEF IInv, Aligned
<1> QED
  BY <1>1, <1>2, <1>3 DEF IInv

------------------------------------------------------------------------------
(* The invariant is inductive.                                             *)

LEMMA InitIInv == Init => IInv
<1> SUFFICES ASSUME Init PROVE IInv
  OBVIOUS
<1>1. body \in Seq(Opcodes) /\ Len(body) \in Nat
  BY BodiesAssumption DEF Init
<1>2. TypeOK /\ FirstPass
  BY <1>1 DEF Init, TypeOK, FirstPass
<1>3. OpenLabels
  BY DEF Init, OpenLabels, Unbound
<1>4. Aligned
  <2>1. Cut({0}, code, index)
    BY DEF Init, Cut
  <2> QED
    BY <2>1 DEF Aligned
<1> QED
  BY <1>2, <1>3, <1>4 DEF IInv

LEMMA NextIInv == IInv /\ [Next]_vars => IInv'
<1> SUFFICES ASSUME IInv, [Next]_vars PROVE IInv'
  OBVIOUS
<1>1. CASE CopyInstruction
  BY <1>1, CopyKeepsInv
<1>2. CASE CopyFloat \/ BeginLabels
  BY <1>2, StatusKeepsInv DEF CopyFloat, BeginLabels
<1>3. CASE BlockHandler
  BY <1>3, OpenerKeepsInv DEF BlockHandler, LabelPosition
<1>4. CASE LoopHandler
  <2>1. index - 1 \in Nat
    BY <1>4, ScanFacts DEF LoopHandler, LoopLabelFits
  <2> QED
    BY <1>4, <2>1, OpenerKeepsInv DEF LoopHandler
<1>5. CASE LoopHandlerFails \/ ElseInLoop \/ BrTableHandler \/ PopEmpty
  BY <1>5, StatusKeepsInv DEF LoopHandlerFails, ElseInLoop, BrTableHandler, PopEmpty, Raise
<1>6. CASE ElseHandler
  BY <1>6, ElseKeepsInv
<1>7. CASE EndHandler
  BY <1>7, EndKeepsInv
<1>8. CASE DefaultHandler
  BY <1>8, DefaultKeepsInv
<1>9. CASE Exhausted
  BY <1>9, StatusKeepsInv DEF Exhausted, Raise
<1>10. CASE UNCHANGED vars
  BY <1>10, StatusKeepsInv DEF vars
<1> QED
  BY <1>1, <1>2, <1>3, <1>4, <1>5, <1>6, <1>7, <1>8, <1>9, <1>10 DEF Next

(* Whatever the body, valid or not: the positions of the labels that wait  *)
(* survive every insertion, so that none is bound twice, and the scan      *)
(* never takes an operand or a label for an opcode.                        *)
THEOREM Invariance == Spec => [](TypeOK /\ OpenLabels /\ ScanAligned)
<1>1. IInv => TypeOK /\ OpenLabels /\ ScanAligned
  BY ScanFacts DEF IInv, ScanAligned, Visited
<1> QED
  BY <1>1, InitIInv, NextIInv, PTL DEF Spec

------------------------------------------------------------------------------
(* Labels lead to where they should.  The invariant counts brackets: f     *)
(* names, for every entry of the label stack, the opener that pushed it.   *)
(* Of the cells scanned, an opener that no entry stands for was closed by  *)
(* an END to which its label leads.  Only a body with an ELSE inside a     *)
(* block leaves this invariant: the scan never gets past that ELSE.        *)

Opening == {Block, Loop, If}

OpenersIn(c, i, k) == {x \in i .. k : c[x] \in Opening}
EndsIn(c, i, k) == {x \in i .. k : c[x] = End}
OpenCount(c, i, k) == Cardinality(OpenersIn(c, i, k))
EndCount(c, i, k) == Cardinality(EndsIn(c, i, k))

InsideUntil(c, i, k) == \A q \in i .. k : OpenCount(c, i, q) > EndCount(c, i, q)

ClosedAt(c, i, e) ==
  /\ c[e] = End
  /\ OpenCount(c, i, e) = EndCount(c, i, e)
  /\ InsideUntil(c, i, e - 1)

(* The opener i is entry k of the stack ls, when at cells are scanned.     *)
IsEntry(c, ls, at, i, k) ==
  /\ c[i] \in Opening
  /\ ls[k] = IF c[i] = Loop THEN NoLabel ELSE i
  /\ InsideUntil(c, i, at)
  /\ OpenCount(c, i, at) = EndCount(c, i, at) + (Len(ls) - k + 1)

Bracketed(f, c, ls, at) ==
  /\ f \in [1 .. Len(ls) -> 1 .. at]
  /\ \A k \in 1 .. Len(ls) : IsEntry(c, ls, at, f[k], k)
  /\ \A i \in 1 .. at : c[i] \in Opening =>
       /\ i + 1 <= at
       /\ c[i] = Loop => c[i + 1] = i - 2
       /\ \/ \E k \in 1 .. Len(ls) : f[k] = i
          \/ \E e \in i + 1 .. at : ClosedAt(c, i, e) /\ (c[i] # Loop => c[i + 1] = e - i)

(* The scan is at an ELSE in a block, in front of which the handler puts a *)
(* label, again and again.                                                 *)
AtElse ==
  /\ Scanning /\ Cell = Else
  /\ label_stack # << >> /\ Top # NoLabel

DoneAtEnd ==
  status = "done" =>
    \/ index = Len(code)
    \/ index = Len(code) - 1 /\ Cell \in {Else, End} /\ label_stack = << >>

Brackets ==
  /\ AtElse \/ \E f \in [1 .. Len(label_stack) -> 1 .. index] :
                  Bracketed(f, code, label_stack, index)
  /\ DoneAtEnd

LInv == IInv /\ Brackets

------------------------------------------------------------------------------
(* Counting brackets.                                                      *)

LEMMA CountType ==
  ASSUME NEW c, NEW i \in Int, NEW k \in Int
  PROVE  /\ IsFiniteSet(OpenersIn(c, i, k)) /\ OpenCount(c, i, k) \in Nat
         /\ IsFiniteSet(EndsIn(c, i, k)) /\ EndCount(c, i, k) \in Nat
<1>1. IsFiniteSet(i .. k)
  BY FS_Interval
<1>2. OpenersIn(c, i, k) \in SUBSET (i .. k) /\ EndsIn(c, i, k) \in SUBSET (i .. k)
  BY DEF OpenersIn, EndsIn
<1>3. IsFiniteSet(OpenersIn(c, i, k)) /\ IsFiniteSet(EndsIn(c, i, k))
  BY <1>1, <1>2, FS_Subset
<1> QED
  BY <1>3, FS_CardinalityType DEF OpenCount, EndCount

(* Counts depend on which cells are brackets only, and cells that are none *)
(* do not count.                                                           *)
SameBrackets(c, d, at) ==
  \A x \in 1 .. at : (c[x] \in Opening <=> d[x] \in Opening) /\ (c[x] = End <=> d[x] = End)

NoBrackets(d, from, to) == \A x \in from + 1 .. to : d[x] \notin Opening \cup {End}

LEMMA SameCounts ==
  ASSUME NEW c, NEW d, NEW at \in Nat, SameBrackets(c, d, at),
         NEW i \in Nat \ {0}, NEW k \in Int, k <= at
  PROVE  OpenCount(d, i, k) = OpenCount(c, i, k) /\ EndCount(d, i, k) = EndCount(c, i, k)
<1>1. \A x \in i .. k : x \in 1 .. at
  OBVIOUS
<1>2. OpenersIn(d, i, k) = OpenersIn(c, i, k) /\ EndsIn(d, i, k) = EndsIn(c, i, k)
  BY <1>1 DEF OpenersIn, EndsIn, SameBrackets
<1> QED
  BY <1>2 DEF OpenCount, EndCount

LEMMA SkipCounts ==
  ASSUME NEW d, NEW at \in Nat, NEW to \in Nat, NoBrackets(d, at, to),
         NEW i \in Nat, NEW k \in Nat, at <= k, k <= to
  PROVE  OpenCount(d, i, k) = OpenCount(d, i, at) /\ EndCount(d, i, k) = EndCount(d, i, at)
<1>1. \A x \in i .. k : x \in i .. at \/ x \in at + 1 .. to
  OBVIOUS
<1>2. \A x \in i .. at : x \in i .. k
  OBVIOUS
<1>3. OpenersIn(d, i, k) = OpenersIn(d, i, at) /\ EndsIn(d, i, k) = EndsIn(d, i, at)
  BY <1>1, <1>2 DEF OpenersIn, EndsIn, NoBrackets
<1> QED
  BY <1>3 DEF OpenCount, EndCount

LEMMA StepCounts ==
  ASSUME NEW d, NEW i \in Nat, NEW k \in Int, i <= k + 1
  PROVE  /\ OpenCount(d, i, k + 1) = OpenCount(d, i, k) + (IF d[k + 1] \in Opening THEN 1 ELSE 0)
         /\ EndCount(d, i, k + 1) = EndCount(d, i, k) + (IF d[k + 1] = End THEN 1 ELSE 0)
<1>1. \A x : x \in i .. k + 1 <=> x \in i .. k \/ x = k + 1
  OBVIOUS
<1>2. k + 1 \notin i .. k
  OBVIOUS
<1>3. OpenersIn(d, i, k + 1) = IF d[k + 1] \in Opening THEN OpenersIn(d, i, k) \cup {k + 1}
                                                       ELSE OpenersIn(d, i, k)
  BY <1>1 DEF OpenersIn
<1>4. EndsIn(d, i, k + 1) = IF d[k + 1] = End THEN EndsIn(d, i, k) \cup {k + 1}
                                              ELSE EndsIn(d, i, k)
  BY <1>1 DEF EndsIn
<1>5. k + 1 \notin OpenersIn(d, i, k) /\ k + 1 \notin EndsIn(d, i, k)
  BY <1>2 DEF OpenersIn, EndsIn
<1>6. /\ IsFiniteSet(OpenersIn(d, i, k)) /\ OpenCount(d, i, k) \in Nat
      /\ IsFiniteSet(EndsIn(d, i, k)) /\ EndCount(d, i, k) \in Nat
  BY CountType
<1>7. \A S : IsFiniteSet(S) /\ Cardinality(S) \in Nat /\ k + 1 \notin S =>
        Cardinality(S \cup {k + 1}) = Cardinality(S) + 1
  BY FS_AddElement
<1>8. OpenCount(d, i, k + 1) = OpenCount(d, i, k) + (IF d[k + 1] \in Opening THEN 1 ELSE 0)
  <2>1. CASE d[k + 1] \in Opening
    <3>1. OpenersIn(d, i, k + 1) = OpenersIn(d, i, k) \cup {k + 1}
      BY <1>3, <2>1
    <3> QED
      BY <1>5, <1>6, <1>7, <2>1, <3>1 DEF OpenCount
  <2>2. CASE d[k + 1] \notin Opening
    BY <1>3, <1>6, <2>2 DEF OpenCount
  <2> QED
    BY <2>1, <2>2
<1>9. EndCount(d, i, k + 1) = EndCount(d, i, k) + (IF d[k + 1] = End THEN 1 ELSE 0)
  <2>1. CASE d[k + 1] = End
    <3>1. EndsIn(d, i, k + 1) = EndsIn(d, i, k) \cup {k + 1}
      BY <1>4, <2>1
    <3> QED
      BY <1>5, <1>6, <1>7, <2>1, <3>1 DEF EndCount
  <2>2. CASE d[k + 1] # End
    BY <1>4, <1>6, <2>2 DEF EndCount
  <2> QED
    BY <2>1, <2>2
<1> QED
  BY <1>8, <1>9

(* An opener by itself.                                                    *)
LEMMA FirstCount ==
  ASSUME NEW d, NEW i \in Nat, d[i] \in Opening
  PROVE  OpenCount(d, i, i) = 1 /\ EndCount(d, i, i) = 0
<1>1. i - 1 \in Int /\ i <= (i - 1) + 1 /\ (i - 1) + 1 = i
  OBVIOUS
<1>2. i .. i - 1 = {}
  OBVIOUS
<1>3. OpenCount(d, i, i - 1) = 0 /\ EndCount(d, i, i - 1) = 0
  BY <1>2, FS_EmptySet DEF OpenCount, EndCount, OpenersIn, EndsIn
<1>4. d[i] # End
  BY OpcodesAssumption DEF Opening
<1>5. /\ OpenCount(d, i, (i - 1) + 1)
            = OpenCount(d, i, i - 1) + (IF d[(i - 1) + 1] \in Opening THEN 1 ELSE 0)
      /\ EndCount(d, i, (i - 1) + 1)
            = EndCount(d, i, i - 1) + (IF d[(i - 1) + 1] = End THEN 1 ELSE 0)
  BY <1>1, StepCounts
<1> QED
  BY <1>1, <1>3, <1>4, <1>5

(* What was closed stays closed.                                           *)
LEMMA StaysClosed ==
  ASSUME NEW c, NEW d, NEW at \in Nat, SameBrackets(c, d, at),
         NEW i \in Nat \ {0}, NEW e \in Nat, e <= at, i <= e, ClosedAt(c, i, e)
  PROVE  ClosedAt(d, i, e)
<1>1. OpenCount(d, i, e) = OpenCount(c, i, e) /\ EndCount(d, i, e) = EndCount(c, i, e)
  BY SameCounts
<1>2. d[e] = End
  BY DEF SameBrackets, ClosedAt
<1>3. \A q \in i .. e - 1 :
        OpenCount(d, i, q) = OpenCount(c, i, q) /\ EndCount(d, i, q) = EndCount(c, i, q)
  <2> TAKE q \in i .. e - 1
  <2> QED
    BY SameCounts
<1> QED
  BY <1>1, <1>2, <1>3 DEF ClosedAt, InsideUntil

------------------------------------------------------------------------------
(* The three ways the scan goes on: over cells that are no brackets, past  *)
(* an opener, past an END.                                                 *)

LEMMA EntrySkips ==
  ASSUME NEW c, NEW d, NEW ls, NEW at \in Nat, NEW to \in Nat, at <= to,
         SameBrackets(c, d, at), NoBrackets(d, at, to),
         NEW i \in 1 .. at, d[i] = c[i], NEW k, IsEntry(c, ls, at, i, k)
  PROVE  IsEntry(d, ls, to, i, k)
<1>1. \A q \in i .. at : OpenCount(d, i, q) = OpenCount(c, i, q) /\ EndCount(d, i, q) = EndCount(c, i, q)
  BY SameCounts
<1>2. \A q \in at .. to : OpenCount(d, i, q) = OpenCount(c, i, at) /\ EndCount(d, i, q) = EndCount(c, i, at)
  <2> TAKE q \in at .. to
  <2>1. OpenCount(d, i, q) = OpenCount(d, i, at) /\ EndCount(d, i, q) = EndCount(d, i, at)
    BY SkipCounts
  <2>2. at \in i .. at
    OBVIOUS
  <2> QED
    BY <1>1, <2>1, <2>2
<1>3. InsideUntil(d, i, to)
  <2> SUFFICES ASSUME NEW q \in i .. to PROVE OpenCount(d, i, q) > EndCount(d, i, q)
    BY DEF InsideUntil
  <2>1. q \in i .. at \/ q \in at .. to
    OBVIOUS
  <2>2. at \in i .. at
    OBVIOUS
  <2> QED
    BY <1>1, <1>2, <2>1, <2>2 DEF IsEntry, InsideUntil
<1>4. to \in at .. to
  OBVIOUS
<1>5. OpenCount(d, i, to) = EndCount(d, i, to) + (Len(ls) - k + 1)
  BY <1>2, <1>4 DEF IsEntry
<1> QED
  BY <1>3, <1>5 DEF IsEntry

LEMMA SkipBracketed ==
  ASSUME NEW c, NEW ls, Len(ls) \in Nat, NEW at \in Nat, NEW to \in Nat, at <= to,
         NoBrackets(c, at, to), NEW f, Bracketed(f, c, ls, at)
  PROVE  Bracketed(f, c, ls, to)
<1>1. SameBrackets(c, c, at)
  BY DEF SameBrackets
<1>2. f \in [1 .. Len(ls) -> 1 .. at] /\ f \in [1 .. Len(ls) -> 1 .. to]
  BY DEF Bracketed
<1>3. \A k \in 1 .. Len(ls) : IsEntry(c, ls, to, f[k], k)
  <2> TAKE k \in 1 .. Len(ls)
  <2>1. f[k] \in 1 .. at /\ IsEntry(c, ls, at, f[k], k)
    BY <1>2 DEF Bracketed
  <2> QED
    BY <1>1, <2>1, EntrySkips
<1>4. \A i \in 1 .. to : c[i] \in Opening => i \in 1 .. at
  BY DEF NoBrackets
<1>5. \A i \in 1 .. at : i .. at \subseteq i .. to /\ i + 1 .. at \subseteq i + 1 .. to
  OBVIOUS
<1>6. \A i \in 1 .. to : c[i] \in Opening =>
        /\ i + 1 <= to
        /\ c[i] = Loop => c[i + 1] = i - 2
        /\ \/ \E k \in 1 .. Len(ls) : f[k] = i
           \/ \E e \in i + 1 .. to : ClosedAt(c, i, e) /\ (c[i] # Loop => c[i + 1] = e - i)
  <2> SUFFICES ASSUME NEW i \in 1 .. at, c[i] \in Opening
               PROVE  /\ i + 1 <= to
                      /\ c[i] = Loop => c[i + 1] = i - 2
                      /\ \/ \E k \in 1 .. Len(ls) : f[k] = i
                         \/ \E e \in i + 1 .. to :
                              ClosedAt(c, i, e) /\ (c[i] # Loop => c[i + 1] = e - i)
    BY <1>4
  <2>1. /\ i + 1 <= at
        /\ c[i] = Loop => c[i + 1] = i - 2
        /\ \/ \E k \in 1 .. Len(ls) : f[k] = i
           \/ \E e \in i + 1 .. at : ClosedAt(c, i, e) /\ (c[i] # Loop => c[i + 1] = e - i)
    BY DEF Bracketed
  <2> QED
    BY <1>5, <2>1
<1> QED
  BY <1>2, <1>3, <1>6 DEF Bracketed

(* An opener at the scan, its label behind it, its entry on the stack.     *)
Pushes(c, d, ls, ls2, at, to) ==
  /\ Len(ls) \in Nat /\ Len(ls2) = Len(ls) + 1
  /\ \A k \in 1 .. Len(ls) : ls2[k] = ls[k]
  /\ at \in Nat /\ to \in Nat /\ at + 2 <= to
  /\ \A x \in 1 .. at : d[x] = c[x]
  /\ d[at + 1] \in Opening /\ NoBrackets(d, at + 1, to)
  /\ d[at + 1] = Loop => d[at + 2] = at - 1
  /\ ls2[Len(ls) + 1] = IF d[at + 1] = Loop THEN NoLabel ELSE at + 1

LEMMA PushBracketed ==
  ASSUME NEW c, NEW d, NEW ls, NEW ls2, NEW at, NEW to, Pushes(c, d, ls, ls2, at, to),
         NEW f, Bracketed(f, c, ls, at)
  PROVE  \E g \in [1 .. Len(ls2) -> 1 .. to] : Bracketed(g, d, ls2, to)
<1> DEFINE n == Len(ls)
           g == [k \in 1 .. n + 1 |-> IF k = n + 1 THEN at + 1 ELSE f[k]]
<1> USE DEF Pushes
<1>0. f \in [1 .. n -> 1 .. at]
  BY DEF Bracketed
<1>1. /\ g \in [1 .. Len(ls2) -> 1 .. to]
      /\ g[n + 1] = at + 1
      /\ \A k \in 1 .. n : g[k] = f[k] /\ k # n + 1
  BY <1>0
<1> HIDE DEF g
<1>2. SameBrackets(c, d, at) /\ SameBrackets(d, d, at + 1)
  BY DEF SameBrackets
<1>3. d[at + 1] # End
  BY OpcodesAssumption DEF Opening
<1>8. at + 1 \in Nat /\ at + 1 <= to
  OBVIOUS
<1>4. IsEntry(d, ls2, to, at + 1, n + 1)
  <2>1. OpenCount(d, at + 1, at + 1) = 1 /\ EndCount(d, at + 1, at + 1) = 0
    BY FirstCount
  <2>2. \A q \in at + 1 .. to : OpenCount(d, at + 1, q) = 1 /\ EndCount(d, at + 1, q) = 0
    <3> TAKE q \in at + 1 .. to
    <3>1. q \in Nat /\ at + 1 <= q /\ q <= to
      OBVIOUS
    <3>2. OpenCount(d, at + 1, q) = OpenCount(d, at + 1, at + 1) /\ EndCount(d, at + 1, q) = EndCount(d, at + 1, at + 1)
      BY <1>8, <3>1, SkipCounts
    <3> QED
      BY <2>1, <3>2
  <2>3. to \in at + 1 .. to
    OBVIOUS
  <2>4. Len(ls2) - (n + 1) + 1 = 1
    OBVIOUS
  <2> QED
    BY <2>2, <2>3, <2>4 DEF IsEntry, InsideUntil
<1>5. ASSUME NEW k \in 1 .. n PROVE IsEntry(d, ls2, to, f[k], k)
  <2> DEFINE i == f[k]
  <2>1. i \in 1 .. at /\ IsEntry(c, ls, at, i, k) /\ d[i] = c[i] /\ ls2[k] = ls[k]
    BY <1>0 DEF Bracketed
  <2> HIDE DEF i
  <2>2. \A q \in i .. at : OpenCount(d, i, q) = OpenCount(c, i, q) /\ EndCount(d, i, q) = EndCount(c, i, q)
    BY <1>2, <2>1, SameCounts
  <2>3. at \in i .. at /\ i \in Nat
    BY <2>1
  <2>4. /\ OpenCount(d, i, at) \in Nat /\ EndCount(d, i, at) \in Nat
        /\ OpenCount(d, i, at) > EndCount(d, i, at)
        /\ OpenCount(d, i, at) = EndCount(d, i, at) + (n - k + 1)
    BY <2>1, <2>2, <2>3, CountType DEF IsEntry, InsideUntil
  <2>5. OpenCount(d, i, at + 1) = OpenCount(d, i, at) + 1 /\ EndCount(d, i, at + 1) = EndCount(d, i, at)
    <3>1. i <= at + 1 /\ at \in Int
      BY <2>1
    <3>2. /\ OpenCount(d, i, at + 1) = OpenCount(d, i, at) + (IF d[at + 1] \in Opening THEN 1 ELSE 0)
          /\ EndCount(d, i, at + 1) = EndCount(d, i, at) + (IF d[at + 1] = End THEN 1 ELSE 0)
      BY <2>3, <3>1, StepCounts
    <3> QED
      BY <1>3, <2>4, <3>2
  <2>6. \A q \in at + 1 .. to :
          OpenCount(d, i, q) = OpenCount(d, i, at + 1) /\ EndCount(d, i, q) = EndCount(d, i, at + 1)
    <3> TAKE q \in at + 1 .. to
    <3>1. q \in Nat /\ at + 1 <= q /\ q <= to
      OBVIOUS
    <3>2. OpenCount(d, i, q) = OpenCount(d, i, at + 1) /\ EndCount(d, i, q) = EndCount(d, i, at + 1)
      BY <1>8, <2>3, <3>1, SkipCounts
    <3> QED
      BY <3>2
  <2>7. InsideUntil(d, i, to)
    <3> SUFFICES ASSUME NEW q \in i .. to PROVE OpenCount(d, i, q) > EndCount(d, i, q)
      BY DEF InsideUntil
    <3>1. CASE q \in i .. at
      BY <2>1, <2>2, <3>1 DEF IsEntry, InsideUntil
    <3>2. CASE q \in at + 1 .. to
      BY <2>4, <2>5, <2>6, <3>2
    <3> QED
      BY <2>1, <3>1, <3>2
  <2>8. to \in at + 1 .. to /\ (n - k + 1) + 1 = Len(ls2) - k + 1
    OBVIOUS
  <2>9. OpenCount(d, i, to) = EndCount(d, i, to) + (Len(ls2) - k + 1)
    BY <2>4, <2>5, <2>6, <2>8
  <2>10. d[i] \in Opening /\ ls2[k] = IF d[i] = Loop THEN NoLabel ELSE i
    BY <2>1 DEF IsEntry
  <2> QED
    BY <2>7, <2>9, <2>10 DEF IsEntry, i
<1>6. \A k \in 1 .. Len(ls2) : IsEntry(d, ls2, to, g[k], k)
  <2>1. \A k \in 1 .. Len(ls2) : k \in 1 .. n \/ k = n + 1
    OBVIOUS
  <2> QED
    BY <1>1, <1>4, <1>5, <2>1
<1>7. \A i \in 1 .. to : d[i] \in Opening =>
        /\ i + 1 <= to
        /\ d[i] = Loop => d[i + 1] = i - 2
        /\ \/ \E k \in 1 .. Len(ls2) : g[k] = i
           \/ \E e \in i + 1 .. to : ClosedAt(d, i, e) /\ (d[i] # Loop => d[i + 1] = e - i)
  <2> TAKE i \in 1 .. to
  <2> HAVE d[i] \in Opening
  <2>1. CASE i = at + 1
    <3>1. n + 1 \in 1 .. Len(ls2) /\ i + 1 <= to /\ i + 1 = at + 2 /\ i - 2 = at - 1
      BY <2>1
    <3> QED
      BY <1>1, <2>1, <3>1
  <2>2. CASE i \in 1 .. at
    <3>1. c[i] \in Opening /\ d[i] = c[i]
      BY <2>2
    <3>2. /\ i + 1 <= at
          /\ c[i] = Loop => c[i + 1] = i - 2
          /\ \/ \E k \in 1 .. n : f[k] = i
             \/ \E e \in i + 1 .. at : ClosedAt(c, i, e) /\ (c[i] # Loop => c[i + 1] = e - i)
      BY <2>2, <3>1 DEF Bracketed
    <3>3. i + 1 \in 1 .. at /\ d[i + 1] = c[i + 1]
      BY <2>2, <3>2
    <3>4. CASE \E k \in 1 .. n : f[k] = i
      <4>1. PICK k \in 1 .. n : f[k] = i
        BY <3>4
      <4>2. k \in 1 .. Len(ls2) /\ g[k] = i
        BY <1>1, <4>1
      <4> QED
        BY <3>1, <3>2, <3>3, <4>2
    <3>5. CASE \E e \in i + 1 .. at : ClosedAt(c, i, e) /\ (c[i] # Loop => c[i + 1] = e - i)
      <4>1. PICK e \in i + 1 .. at : ClosedAt(c, i, e) /\ (c[i] # Loop => c[i + 1] = e - i)
        BY <3>5
      <4>2. e \in Nat /\ e <= at /\ i <= e /\ e \in i + 1 .. to /\ i \in Nat \ {0}
        BY <2>2
      <4>3. ClosedAt(d, i, e)
        BY <1>2, <4>1, <4>2, StaysClosed
      <4> QED
        BY <3>1, <3>2, <3>3, <4>1, <4>2, <4>3
    <3> QED
      BY <3>2, <3>4, <3>5
  <2>3. CASE i \in at + 2 .. to
    BY <2>3 DEF NoBrackets
  <2> QED
    BY <2>1, <2>2, <2>3
<1> QED
  BY <1>1, <1>6, <1>7 DEF Bracketed

(* An END at the scan: the opener on top is closed, and its label, if it   *)
(* has one to bind, leads past the END.                                    *)
LEMMA PopBracketed ==
  ASSUME NEW c, NEW d, NEW ls, NEW ls2, NEW n \in Nat \ {0}, Len(ls) = n, Len(ls2) = n - 1,
         \A k \in 1 .. n - 1 : ls2[k] = ls[k],
         NEW at \in Nat, d[at + 1] = End,
         ls[n] = NoLabel => \A x \in 1 .. at : d[x] = c[x],
         ls[n] # NoLabel => /\ c[ls[n] + 1] \notin Opening \cup {End}
                            /\ d[ls[n] + 1] = at + 1 - ls[n]
                            /\ \A x \in 1 .. at : x # ls[n] + 1 => d[x] = c[x],
         NEW f, Bracketed(f, c, ls, at)
  PROVE  \E g \in [1 .. Len(ls2) -> 1 .. at + 1] : Bracketed(g, d, ls2, at + 1)
<1> DEFINE g == [k \in 1 .. n - 1 |-> f[k]]
           top == f[n]
<1>0. f \in [1 .. n -> 1 .. at]
  BY DEF Bracketed
<1>1. /\ g \in [1 .. Len(ls2) -> 1 .. at + 1]
      /\ \A k \in 1 .. n - 1 : g[k] = f[k] /\ k \in 1 .. n
  BY <1>0
<1> HIDE DEF g
<1>2. n \in 1 .. n /\ top \in 1 .. at /\ IsEntry(c, ls, at, top, n)
  BY <1>0 DEF Bracketed
<1>3. /\ c[top] \in Opening
      /\ c[top] = Loop => ls[n] = NoLabel
      /\ c[top] # Loop => ls[n] = top /\ ls[n] # NoLabel /\ ls[n] \in Nat
  BY <1>2, OpcodesAssumption DEF IsEntry
<1> HIDE DEF top
<1>4. ls[n] # NoLabel => d[ls[n] + 1] \in Nat
  BY <1>2, <1>3
<1>5. \A x \in Nat : x \notin Opening \cup {End}
  BY OpcodesAssumption DEF Opening, Opcodes
<1>6. SameBrackets(c, d, at)
  <2> SUFFICES ASSUME NEW x \in 1 .. at
               PROVE  (c[x] \in Opening <=> d[x] \in Opening) /\ (c[x] = End <=> d[x] = End)
    BY DEF SameBrackets
  <2>1. CASE ls[n] # NoLabel /\ x = ls[n] + 1
    BY <1>4, <1>5, <2>1
  <2>2. CASE ~(ls[n] # NoLabel /\ x = ls[n] + 1)
    BY <2>2
  <2> QED
    BY <2>1, <2>2
<1>7. \A x \in 1 .. at : c[x] \in Opening => d[x] = c[x]
  BY <1>6
<1>8. End \notin Opening
  BY OpcodesAssumption DEF Opening
(* Counts at the END.                                                      *)
<1>9. ASSUME NEW k \in 1 .. n
      PROVE  /\ \A q \in f[k] .. at : OpenCount(d, f[k], q) > EndCount(d, f[k], q)
             /\ OpenCount(d, f[k], at + 1) = EndCount(d, f[k], at + 1) + (n - k)
             /\ OpenCount(d, f[k], at + 1) \in Nat /\ EndCount(d, f[k], at + 1) \in Nat
  <2> DEFINE i == f[k]
  <2>1. i \in 1 .. at /\ IsEntry(c, ls, at, i, k)
    BY <1>0 DEF Bracketed
  <2> HIDE DEF i
  <2>2. \A q \in i .. at : OpenCount(d, i, q) = OpenCount(c, i, q) /\ EndCount(d, i, q) = EndCount(c, i, q)
    BY <1>6, <2>1, SameCounts
  <2>3. at \in i .. at /\ i \in Nat /\ at \in Int /\ i <= at + 1
    BY <2>1
  <2>4. /\ OpenCount(d, i, at) \in Nat /\ EndCount(d, i, at) \in Nat
        /\ OpenCount(d, i, at) = EndCount(d, i, at) + (n - k + 1)
    BY <2>1, <2>2, <2>3, CountType DEF IsEntry
  <2>5. /\ OpenCount(d, i, at + 1) = OpenCount(d, i, at) + (IF d[at + 1] \in Opening THEN 1 ELSE 0)
        /\ EndCount(d, i, at + 1) = EndCount(d, i, at) + (IF d[at + 1] = End THEN 1 ELSE 0)
    BY <2>3, StepCounts
  <2>6. OpenCount(d, i, at + 1) = OpenCount(d, i, at) /\ EndCount(d, i, at + 1) = EndCount(d, i, at) + 1
    BY <1>8, <2>4, <2>5
  <2>7. OpenCount(d, i, at + 1) = EndCount(d, i, at + 1) + (n - k)
    BY <2>4, <2>6
  <2>8. \A q \in i .. at : OpenCount(d, i, q) > EndCount(d, i, q)
    BY <2>1, <2>2 DEF IsEntry, InsideUntil
  <2> QED
    BY <2>4, <2>6, <2>7, <2>8 DEF i
<1>10. ClosedAt(d, top, at + 1)
  <2>1. at + 1 - 1 = at
    OBVIOUS
  <2>2. OpenCount(d, top, at + 1) = EndCount(d, top, at + 1) + (n - n)
    BY <1>2, <1>9 DEF top
  <2>3. OpenCount(d, top, at + 1) \in Nat /\ EndCount(d, top, at + 1) \in Nat
    BY <1>2, <1>9 DEF top
  <2>4. \A q \in top .. at : OpenCount(d, top, q) > EndCount(d, top, q)
    BY <1>2, <1>9 DEF top
  <2> QED
    BY <2>1, <2>2, <2>3, <2>4 DEF ClosedAt, InsideUntil
<1>11. ASSUME NEW k \in 1 .. n - 1 PROVE IsEntry(d, ls2, at + 1, f[k], k)
  <2>1. k \in 1 .. n /\ f[k] \in 1 .. at /\ IsEntry(c, ls, at, f[k], k) /\ ls2[k] = ls[k]
    BY <1>0 DEF Bracketed
  <2>2. d[f[k]] \in Opening /\ d[f[k]] = c[f[k]]
    BY <1>7, <2>1 DEF IsEntry
  <2>3. ls2[k] = IF d[f[k]] = Loop THEN NoLabel ELSE f[k]
    BY <2>1, <2>2 DEF IsEntry
  <2>4. n - k = Len(ls2) - k + 1 /\ n - k >= 1
    OBVIOUS
  <2>5. OpenCount(d, f[k], at + 1) = EndCount(d, f[k], at + 1) + (n - k)
    BY <1>9, <2>1
  <2>6. OpenCount(d, f[k], at + 1) > EndCount(d, f[k], at + 1)
    BY <1>9, <2>1, <2>4, <2>5
  <2>7. InsideUntil(d, f[k], at + 1)
    <3> SUFFICES ASSUME NEW q \in f[k] .. at + 1
                 PROVE  OpenCount(d, f[k], q) > EndCount(d, f[k], q)
      BY DEF InsideUntil
    <3>1. q \in f[k] .. at \/ q = at + 1
      BY <2>1
    <3> QED
      BY <1>9, <2>1, <2>6, <3>1
  <2> QED
    BY <2>2, <2>3, <2>4, <2>5, <2>7 DEF IsEntry
<1>12. \A k \in 1 .. Len(ls2) : IsEntry(d, ls2, at + 1, g[k], k)
  BY <1>1, <1>11
<1>13. ASSUME NEW i \in 1 .. at + 1, d[i] \in Opening
       PROVE  /\ i + 1 <= at + 1
              /\ d[i] = Loop => d[i + 1] = i - 2
              /\ \/ \E k \in 1 .. Len(ls2) : g[k] = i
                 \/ \E e \in i + 1 .. at + 1 :
                      ClosedAt(d, i, e) /\ (d[i] # Loop => d[i + 1] = e - i)
  <2>1. i \in 1 .. at
    BY <1>8, <1>13
  <2>2. c[i] \in Opening /\ d[i] = c[i]
    BY <1>6, <1>7, <1>13, <2>1 DEF SameBrackets
  <2>3. /\ i + 1 <= at
        /\ c[i] = Loop => c[i + 1] = i - 2
        /\ \/ \E k \in 1 .. n : f[k] = i
           \/ \E e \in i + 1 .. at : ClosedAt(c, i, e) /\ (c[i] # Loop => c[i + 1] = e - i)
    BY <2>1, <2>2 DEF Bracketed
  <2>4. i + 1 \in 1 .. at /\ (i # ls[n] \/ ls[n] = NoLabel => d[i + 1] = c[i + 1])
    <3>1. i + 1 \in 1 .. at
      BY <2>1, <2>3
    <3>2. ls[n] = NoLabel => d[i + 1] = c[i + 1]
      BY <3>1
    <3>3. ls[n] # NoLabel /\ i # ls[n] => ls[n] \in Nat /\ i + 1 # ls[n] + 1
      BY <1>3, <2>1
    <3> QED
      BY <3>1, <3>2, <3>3
  <2>5. d[i] = Loop => d[i + 1] = i - 2
    <3>1. d[i] = Loop => i # ls[n] \/ ls[n] = NoLabel
      BY <1>3, <2>2
    <3> QED
      BY <2>2, <2>3, <2>4, <3>1
  <2>6. CASE i = top
    <3>1. at + 1 \in i + 1 .. at + 1
      BY <2>1
    <3>2. d[i] # Loop => d[i + 1] = at + 1 - i
      BY <1>3, <2>2, <2>6
    <3> QED
      BY <1>10, <2>3, <2>4, <2>5, <2>6, <3>1, <3>2
  <2>7. CASE i # top /\ \E k \in 1 .. n : f[k] = i
    <3>1. PICK k \in 1 .. n : f[k] = i
      BY <2>7
    <3>2. k \in 1 .. n - 1
      BY <2>7, <3>1 DEF top
    <3>3. k \in 1 .. Len(ls2) /\ g[k] = i
      BY <1>1, <3>1, <3>2
    <3> QED
      BY <2>3, <2>4, <2>5, <3>3
  <2>8. CASE i # top /\ \E e \in i + 1 .. at : ClosedAt(c, i, e) /\ (c[i] # Loop => c[i + 1] = e - i)
    <3>1. PICK e \in i + 1 .. at : ClosedAt(c, i, e) /\ (c[i] # Loop => c[i + 1] = e - i)
      BY <2>8
    <3>2. e \in Nat /\ e <= at /\ i <= e /\ e \in i + 1 .. at + 1 /\ i \in Nat \ {0}
      BY <2>1
    <3>3. ClosedAt(d, i, e)
      BY <1>6, <3>1, <3>2, StaysClosed
    <3>4. d[i] # Loop => d[i + 1] = e - i
      <4>1. i # ls[n] \/ ls[n] = NoLabel
        BY <1>3, <2>8
      <4> QED
        BY <2>2, <2>4, <3>1, <4>1
    <3> QED
      BY <2>3, <2>4, <2>5, <3>2, <3>3, <3>4
  <2> QED
    BY <2>3, <2>6, <2>7, <2>8
<1> QED
  BY <1>1, <1>12, <1>13 DEF Bracketed

------------------------------------------------------------------------------
(* The handlers, by the way they go on.                                    *)

LEMMA StartBrackets ==
  ASSUME NEW c
  PROVE  \E f \in [1 .. Len(<< >>) -> 1 .. 0] : Bracketed(f, c, << >>, 0)
<1> DEFINE f == [k \in 1 .. 0 |-> k]
<1>1. f \in [1 .. Len(<< >>) -> 1 .. 0]
  OBVIOUS
<1>2. Bracketed(f, c, << >>, 0)
  BY <1>1 DEF Bracketed
<1> QED
  BY <1>1, <1>2

LEMMA FirstPassBrackets ==
  ASSUME IInv, status = "immediates", UNCHANGED <<index, label_stack>>, status' # "done"
  PROVE  Brackets'
<1>1. index' = 0 /\ label_stack' = << >>
  BY DEF IInv, FirstPass
<1>2. \E f \in [1 .. Len(label_stack') -> 1 .. index'] : Bracketed(f, code', label_stack', index')
  BY <1>1, StartBrackets
<1> QED
  BY <1>2 DEF Brackets, DoneAtEnd

(* What ends the parse.                                                    *)
LEMMA StatusKeepsBrackets ==
  ASSUME Brackets, ~AtElse, UNCHANGED <<code, index, label_stack>>,
         status' = "done" => \/ index = Len(code)
                             \/ index = Len(code) - 1 /\ Cell \in {Else, End} /\ label_stack = << >>
  PROVE  Brackets'
<1>1. DoneAtEnd'
  BY DEF DoneAtEnd, Cell
<1>2. \E f \in [1 .. Len(label_stack') -> 1 .. index'] : Bracketed(f, code', label_stack', index')
  BY DEF Brackets
<1> QED
  BY <1>1, <1>2 DEF Brackets

(* BLOCK, IF and LOOP.                                                     *)
LEMMA OpenerKeepsBrackets ==
  ASSUME IInv, Brackets, Scanning, Cell \in Opening, NEW n \in Nat,
         code' = Spliced(index + 1, Word(n)), Cell = Loop => n = index - 1,
         label_stack' = Append(label_stack, IF Cell = Loop THEN NoLabel ELSE index + 1),
         index' = index + 1 + W, status' = status
  PROVE  Brackets'
<1>1. /\ index \in Nat /\ Len(code) \in Nat /\ index + 1 \in 0 .. Len(code)
      /\ label_stack \in Seq(Positions) /\ W \in Nat \ {0} /\ status = "labels"
  BY ScanFacts
<1>2. /\ \A k \in 1 .. index + 1 : code'[k] = code[k]
      /\ code'[index + 1 + 1] = n
      /\ \A k \in index + 1 + 2 .. index + 1 + W : code'[k] = 0
  BY <1>1, SplicedFacts DEF IInv
<1>3. code'[index + 1] = Cell /\ code'[index + 2] = n /\ \A k \in 1 .. index : code'[k] = code[k]
  <2>1. index + 1 + 1 = index + 2 /\ index + 1 \in 1 .. index + 1
    BY <1>1
  <2> QED
    BY <1>1, <1>2, <2>1 DEF Cell
<1>4. NoBrackets(code', index + 1, index')
  <2> SUFFICES ASSUME NEW x \in index + 2 .. index + 1 + W
               PROVE  code'[x] \notin Opening \cup {End}
    BY <1>1 DEF NoBrackets
  <2>1. x = index + 2 \/ x \in index + 1 + 2 .. index + 1 + W
    BY <1>1
  <2>2. code'[x] \in Nat
    BY <1>2, <1>3, <2>1
  <2> QED
    BY <2>2, OpcodesAssumption DEF Opening, Opcodes
<1>5. /\ Len(label_stack) \in Nat /\ Len(label_stack') = Len(label_stack) + 1
      /\ \A k \in 1 .. Len(label_stack) : label_stack'[k] = label_stack[k]
      /\ label_stack'[Len(label_stack) + 1] = IF Cell = Loop THEN NoLabel ELSE index + 1
  <2>1. (IF Cell = Loop THEN NoLabel ELSE index + 1) \in Positions
    BY <1>1 DEF Positions
  <2> QED
    BY <1>1, <2>1, AppendProperties
<1>6. PICK f \in [1 .. Len(label_stack) -> 1 .. index] : Bracketed(f, code, label_stack, index)
  BY OpcodesAssumption DEF Brackets, AtElse, Opening
<1>7. index + 2 <= index' /\ index' \in Nat
  BY <1>1
<1>8. Pushes(code, code', label_stack, label_stack', index, index')
  <2>1. code'[index + 1] = Loop => code'[index + 2] = index - 1
    BY <1>3
  <2>2. label_stack'[Len(label_stack) + 1] = IF code'[index + 1] = Loop THEN NoLabel ELSE index + 1
    BY <1>3, <1>5
  <2>3. code'[index + 1] \in Opening
    BY <1>3
  <2> QED
    BY <1>1, <1>3, <1>4, <1>5, <1>7, <2>1, <2>2, <2>3 DEF Pushes
<1>9. \E g \in [1 .. Len(label_stack') -> 1 .. index'] : Bracketed(g, code', label_stack', index')
  BY <1>6, <1>8, PushBracketed, Zenon
<1> QED
  BY <1>1, <1>9 DEF Brackets, DoneAtEnd

LEMMA EndKeepsBrackets ==
  ASSUME IInv, Brackets, EndHandler
  PROVE  Brackets'
<1>1. /\ Scanning /\ index \in Nat /\ Len(code) \in Nat /\ index < Len(code)
      /\ code \in Seq(Cells) /\ label_stack \in Seq(Positions)
      /\ label_stack # << >> /\ W \in Nat \ {0} /\ status = "labels"
      /\ Open(label_stack, code, index)
      /\ index' = index + 1 /\ label_stack' = Popped /\ Cell = End
  BY ScanFacts DEF EndHandler
<1> DEFINE n == Len(label_stack)
<1>2. /\ n \in Nat \ {0} /\ Len(label_stack') = n - 1
      /\ \A k \in 1 .. n - 1 : label_stack'[k] = label_stack[k]
      /\ Top = label_stack[n]
  BY <1>1, PopFacts DEF Popped, Top
<1>3. /\ status' = status
      /\ Top = NoLabel => code' = code
      /\ Top # NoLabel => /\ Top \in Nat /\ Top + W <= index
                          /\ \A k \in 1 .. Len(code) : k # Top + 1 => code'[k] = code[k]
                          /\ code'[Top + 1] = index + 1 - Top
  <2>1. CASE Top = NoLabel
    BY <2>1 DEF EndHandler
  <2>2. CASE Top # NoLabel
    <3>1. Bind(code, Top, index + 1)
      BY <2>2 DEF EndHandler, PastEnd
    <3>2. Len(code) >= index /\ index + 1 \in Nat /\ index + 1 >= index
      BY <1>1
    <3> QED
      BY <1>1, <2>2, <3>1, <3>2, BindTop
  <2> QED
    BY <2>1, <2>2
<1>4. code'[index + 1] = End
  <2>1. CASE Top = NoLabel
    BY <1>1, <1>3, <2>1 DEF Cell
  <2>2. CASE Top # NoLabel
    BY <1>1, <1>3, <2>2 DEF Cell
  <2> QED
    BY <2>1, <2>2
<1>5. Top # NoLabel => code[Top + 1] \notin Opening \cup {End}
  <2> SUFFICES ASSUME Top # NoLabel PROVE code[Top + 1] \notin Opening \cup {End}
    OBVIOUS
  <2>1. n \in 1 .. n
    BY <1>2
  <2>2. Top + 1 \in Top + 1 .. Top + W
    BY <1>1, <1>3
  <2>3. code[Top + 1] = 0
    BY <1>1, <1>2, <2>1, <2>2 DEF Open
  <2> QED
    BY <2>3, OpcodesAssumption DEF Opening, Opcodes
<1>6. \A x \in 1 .. index : x \in 1 .. Len(code)
  BY <1>1
<1>7. PICK f \in [1 .. n -> 1 .. index] : Bracketed(f, code, label_stack, index)
  BY <1>1, OpcodesAssumption DEF Brackets, AtElse
<1>8. label_stack[n] = NoLabel => \A x \in 1 .. index : code'[x] = code[x]
  BY <1>2, <1>3
<1>9. label_stack[n] # NoLabel =>
        /\ code[label_stack[n] + 1] \notin Opening \cup {End}
        /\ code'[label_stack[n] + 1] = index + 1 - label_stack[n]
        /\ \A x \in 1 .. index : x # label_stack[n] + 1 => code'[x] = code[x]
  BY <1>2, <1>3, <1>5, <1>6
<1> HIDE DEF n
<1>10. n = Len(label_stack)
  BY DEF n
<1>11. \E g \in [1 .. Len(label_stack') -> 1 .. index + 1] : Bracketed(g, code', label_stack', index + 1)
  BY <1>1, <1>2, <1>4, <1>7, <1>8, <1>9, <1>10, PopBracketed
<1> QED
  BY <1>1, <1>3, <1>11 DEF Brackets, DoneAtEnd

LEMMA DefaultKeepsBrackets ==
  ASSUME IInv, Brackets, DefaultHandler
  PROVE  Brackets'
<1>1. /\ Scanning /\ index \in Nat /\ status = "labels" /\ Len(label_stack) \in Nat
      /\ index' = index + 1 + ImmediatesSize(Cell)
      /\ UNCHANGED <<code, label_stack, status>>
      /\ Cell \notin {Block, Loop, If, Else, End, BrTable}
  BY ScanFacts DEF DefaultHandler, SkipInstruction
<1>2. PICK S \in SUBSET Nat : Cut(S, code, index)
  BY DEF IInv, Aligned
<1>3. /\ UnitSize(Cell) = ImmediatesSize(Cell) /\ index' \in Nat /\ index <= index'
      /\ \A k \in index + 2 .. index' : code[k] = Operand
  <2>1. UnitSize(Cell) = ImmediatesSize(Cell)
    BY <1>1 DEF UnitSize
  <2> QED
    BY <1>1, <1>2, <2>1, NextUnit, UnitSizeType
<1>4. NoBrackets(code, index, index')
  <2> SUFFICES ASSUME NEW x \in index + 1 .. index' PROVE code[x] \notin Opening \cup {End}
    BY DEF NoBrackets
  <2>1. CASE x = index + 1
    BY <1>1, <2>1 DEF Cell, Opening
  <2>2. CASE x \in index + 2 .. index'
    BY <1>3, <2>2, OpcodesAssumption DEF Opening, Opcodes
  <2> QED
    BY <1>1, <1>3, <2>1, <2>2
<1>5. PICK f \in [1 .. Len(label_stack) -> 1 .. index] : Bracketed(f, code, label_stack, index)
  BY <1>1 DEF Brackets, AtElse
<1>6. Bracketed(f, code, label_stack, index')
  BY <1>1, <1>3, <1>4, <1>5, SkipBracketed
<1>7. f \in [1 .. Len(label_stack) -> 1 .. index']
  BY <1>6 DEF Bracketed
<1> QED
  BY <1>1, <1>6, <1>7 DEF Brackets, DoneAtEnd

(* After the label it inserts the scan is at the same ELSE.                *)
LEMMA ElseKeepsBrackets ==
  ASSUME IInv, ElseHandler
  PROVE  Brackets'
<1> DEFINE c == Spliced(index, Word(0))
<1>1. /\ Scanning /\ index \in Nat /\ Len(code) \in Nat /\ index < Len(code)
      /\ code \in Seq(Cells) /\ label_stack \in Seq(Positions)
      /\ label_stack # << >> /\ W \in Nat \ {0} /\ status = "labels"
      /\ Top # NoLabel /\ Cell = Else
      /\ index' = index + W /\ label_stack' = Append(Popped, index)
      /\ Bind(c, Top, index + W)
  BY ScanFacts DEF ElseHandler
<1>2. /\ c \in Seq(Cells) /\ Len(c) = Len(code) + W
      /\ \A k \in 1 .. index : c[k] = code[k]
      /\ \A k \in index + 1 .. Len(code) : c[k + W] = code[k]
  <2>1. index \in 0 .. Len(code) /\ 0 \in Nat /\ TypeOK
    BY <1>1 DEF IInv
  <2> QED
    BY <2>1, SplicedFacts
<1> HIDE DEF c
<1>3. /\ Top \in Nat /\ Top + W <= index /\ status' = status
      /\ Len(code') = Len(c)
      /\ \A k \in 1 .. Len(c) : k # Top + 1 => code'[k] = c[k]
  <2>1. Len(c) >= index /\ index + W \in Nat /\ index + W >= index
    BY <1>1, <1>2
  <2> QED
    BY <1>1, <1>2, <2>1, BindTop
<1>4. code'[index + 1 + W] = Else
  <2>1. index + 1 + W \in 1 .. Len(c) /\ index + 1 + W # Top + 1 /\ index + 1 \in index + 1 .. Len(code)
    BY <1>1, <1>2, <1>3, SMTT(20)
  <2> QED
    BY <1>1, <1>2, <1>3, <2>1 DEF Cell
<1>5. index + W + 1 = index + 1 + W
  BY <1>1
<1>6. Cell' = Else
  <2>1. Cell' = code'[index' + 1]
    BY DEF Cell
  <2> QED
    BY <1>1, <1>4, <1>5, <2>1
<1>7. Scanning'
  BY <1>1, <1>2, <1>3 DEF Scanning
<1>8. label_stack' # << >> /\ Top' # NoLabel
  <2>1. Popped \in Seq(Positions) /\ index \in Positions
    BY <1>1, PopFacts DEF Popped, Positions
  <2>2. /\ Len(label_stack') = Len(Popped) + 1 /\ Len(Popped) \in Nat
        /\ label_stack'[Len(Popped) + 1] = index
    BY <1>1, <2>1, AppendProperties
  <2>3. Top' = index
    BY <2>2 DEF Top
  <2> QED
    BY <1>1, <2>2, <2>3, OpcodesAssumption
<1>9. AtElse'
  BY <1>6, <1>7, <1>8 DEF AtElse
<1> QED
  BY <1>1, <1>3, <1>9 DEF Brackets, DoneAtEnd

------------------------------------------------------------------------------
(* The invariant with brackets is inductive too.                           *)

LEMMA NextLInv == LInv /\ [Next]_vars => LInv'
<1> SUFFICES ASSUME LInv, [Next]_vars PROVE LInv'
  OBVIOUS
<1>0. IInv /\ Brackets /\ IInv'
  BY NextIInv DEF LInv
<1>1. CASE CopyInstruction \/ CopyFloat \/ BeginLabels
  <2>1. Brackets'
    BY <1>0, <1>1, FirstPassBrackets DEF CopyInstruction, CopyFloat, BeginLabels
  <2> QED
    BY <1>0, <2>1 DEF LInv
<1>2. CASE BlockHandler
  <2>1. Cell \in Opening /\ Cell # Loop
    BY <1>2, OpcodesAssumption DEF BlockHandler, Opening
  <2>2. Brackets'
    BY <1>0, <1>2, <2>1, OpenerKeepsBrackets DEF BlockHandler, LabelPosition
  <2> QED
    BY <1>0, <2>2 DEF LInv
<1>3. CASE LoopHandler
  <2>1. Cell \in Opening /\ Cell = Loop
    BY <1>3 DEF LoopHandler, Opening
  <2>2. index - 1 \in Nat
    BY <1>0, <1>3, ScanFacts DEF LoopHandler, LoopLabelFits
  <2>3. Brackets'
    BY <1>0, <1>3, <2>1, <2>2, OpenerKeepsBrackets DEF LoopHandler
  <2> QED
    BY <1>0, <2>3 DEF LInv
<1>4. CASE LoopHandlerFails \/ BrTableHandler \/ ElseInLoop
  <2>1. ~AtElse /\ status' # "done" /\ UNCHANGED <<code, index, label_stack>>
    BY <1>4, OpcodesAssumption
    DEF LoopHandlerFails, BrTableHandler, ElseInLoop, Raise, AtElse
  <2>2. Brackets'
    BY <1>0, <2>1, StatusKeepsBrackets
  <2> QED
    BY <1>0, <2>2 DEF LInv
<1>5. CASE PopEmpty
  <2>1. Brackets'
    BY <1>0, <1>5, StatusKeepsBrackets DEF PopEmpty, Raise, AtElse
  <2> QED
    BY <1>0, <2>1 DEF LInv
<1>6. CASE ElseHandler
  BY <1>0, <1>6, ElseKeepsBrackets DEF LInv
<1>7. CASE EndHandler
  BY <1>0, <1>7, EndKeepsBrackets DEF LInv
<1>8. CASE DefaultHandler
  BY <1>0, <1>8, DefaultKeepsBrackets DEF LInv
<1>9. CASE Exhausted
  <2>1. index = Len(code)
    BY <1>0, <1>9 DEF IInv, TypeOK, Exhausted
  <2>2. Brackets'
    BY <1>0, <1>9, <2>1, StatusKeepsBrackets DEF Exhausted, Raise, AtElse, Scanning
  <2> QED
    BY <1>0, <2>2 DEF LInv
<1>10. CASE UNCHANGED vars
  <2>1. Brackets'
    BY <1>0, <1>10 DEF vars, Brackets, AtElse, Scanning, Cell, Top, DoneAtEnd
  <2> QED
    BY <1>0, <2>1 DEF LInv
<1> QED
  BY <1>1, <1>2, <1>3, <1>4, <1>5, <1>6, <1>7, <1>8, <1>9, <1>10 DEF Next

LEMMA InitLInv == Init => LInv
<1> SUFFICES ASSUME Init PROVE LInv
  OBVIOUS
<1>1. IInv
  BY InitIInv
<1>2. \E f \in [1 .. Len(label_stack) -> 1 .. index] : Bracketed(f, code, label_stack, index)
  BY StartBrackets DEF Init
<1> QED
  BY <1>1, <1>2 DEF LInv, Brackets, DoneAtEnd, Init

(* Closes counts over all of the code, ClosedAt over what was scanned.     *)
LEMMA ClosesCounts ==
  ASSUME Len(code) \in Nat, NEW i \in 1 .. Len(code), NEW e \in 1 .. Len(code), Closes(e, i)
  PROVE  e > i /\ OpenCount(code, i, e) = EndCount(code, i, e) /\ InsideUntil(code, i, e - 1)
<1>1. ASSUME NEW k \in i .. e
      PROVE  /\ {x \in Openers : i <= x /\ x <= k} = OpenersIn(code, i, k)
             /\ {x \in Ends : i <= x /\ x <= k} = EndsIn(code, i, k)
  <2>1. \A x : x \in 1 .. Len(code) /\ i <= x /\ x <= k <=> x \in i .. k
    OBVIOUS
  <2> QED
    BY <2>1 DEF Openers, Ends, OpenersIn, EndsIn, Opening
<1>2. e > i
  BY DEF Closes
<1>3. OpenCount(code, i, e) = EndCount(code, i, e)
  <2>1. e \in i .. e
    BY <1>2
  <2> QED
    BY <1>1, <2>1 DEF Closes, OpenCount, EndCount
<1>4. ASSUME NEW k \in i .. e - 1 PROVE OpenCount(code, i, k) > EndCount(code, i, k)
  <2>1. k \in i .. e
    OBVIOUS
  <2> QED
    BY <1>1, <2>1 DEF Closes, OpenCount, EndCount
<1> QED
  BY <1>2, <1>3, <1>4 DEF InsideUntil

LEMMA BracketsBind == LInv => LabelsBound
<1> SUFFICES ASSUME LInv, status = "done", NEW i \in Openers
             PROVE  IF code[i] = Loop THEN code[i + 1] = i - 2
                    ELSE \A e \in Ends : Closes(e, i) => code[i + 1] = e - i
  BY DEF LabelsBound
<1>1. /\ index \in Nat /\ Len(code) \in Nat /\ index <= Len(code)
      /\ \/ index = Len(code)
         \/ index = Len(code) - 1 /\ Cell \in {Else, End} /\ label_stack = << >>
  BY DEF LInv, IInv, TypeOK, Brackets, DoneAtEnd
<1>2. PICK f \in [1 .. Len(label_stack) -> 1 .. index] : Bracketed(f, code, label_stack, index)
  BY DEF LInv, Brackets, AtElse, Scanning
<1>3. i \in 1 .. Len(code) /\ code[i] \in Opening
  BY DEF Openers, Opening
<1>4. i \in 1 .. index
  <2>1. CASE index = Len(code)
    BY <1>3, <2>1
  <2>2. CASE index = Len(code) - 1 /\ Cell \in {Else, End}
    <3>1. index + 1 = Len(code) /\ code[index + 1] \notin Opening
      BY <1>1, <2>2, OpcodesAssumption DEF Cell, Opening
    <3>2. i # Len(code)
      BY <1>3, <3>1
    <3> QED
      BY <1>1, <1>3, <2>2, <3>2
  <2> QED
    BY <1>1, <2>1, <2>2
<1>5. /\ code[i] = Loop => code[i + 1] = i - 2
      /\ \/ \E k \in 1 .. Len(label_stack) : f[k] = i
         \/ \E e \in i + 1 .. index : ClosedAt(code, i, e) /\ (code[i] # Loop => code[i + 1] = e - i)
  BY <1>2, <1>3, <1>4 DEF Bracketed
<1>6. ASSUME code[i] # Loop, NEW e \in Ends, Closes(e, i) PROVE code[i + 1] = e - i
  <2>1. e \in 1 .. Len(code)
    BY DEF Ends
  <2>2. e > i /\ OpenCount(code, i, e) = EndCount(code, i, e) /\ InsideUntil(code, i, e - 1)
    BY <1>1, <1>3, <1>6, <2>1, ClosesCounts
  <2>3. OpenCount(code, i, e) \in Nat /\ EndCount(code, i, e) \in Nat
    BY <1>3, <2>1, CountType
  <2>4. CASE \E k \in 1 .. Len(label_stack) : f[k] = i
    <3>1. PICK k \in 1 .. Len(label_stack) : f[k] = i
      BY <2>4
    <3>2. index = Len(code) /\ e \in i .. index
      BY <1>1, <2>1, <2>2, <1>3, <3>1
    <3>3. OpenCount(code, i, e) > EndCount(code, i, e)
      BY <1>2, <3>1, <3>2 DEF Bracketed, IsEntry, InsideUntil
    <3> QED
      BY <2>2, <2>3, <3>3
  <2>5. CASE \E e0 \in i + 1 .. index : ClosedAt(code, i, e0) /\ code[i + 1] = e0 - i
    <3>1. PICK e0 \in i + 1 .. index : ClosedAt(code, i, e0) /\ code[i + 1] = e0 - i
      BY <2>5
    <3>2. OpenCount(code, i, e0) \in Nat /\ EndCount(code, i, e0) \in Nat
      BY <1>3, CountType
    <3>3. ~(e0 < e)
      <4> SUFFICES ASSUME e0 < e PROVE FALSE
        OBVIOUS
      <4>1. e0 \in i .. e - 1
        BY <1>1, <1>3, <2>1
      <4> QED
        BY <2>2, <3>1, <3>2, <4>1 DEF InsideUntil, ClosedAt
    <3>4. ~(e < e0)
      <4> SUFFICES ASSUME e < e0 PROVE FALSE
        OBVIOUS
      <4>1. e \in i .. e0 - 1
        BY <1>1, <1>3, <2>1, <2>2
      <4> QED
        BY <2>2, <2>3, <3>1, <4>1 DEF InsideUntil, ClosedAt
    <3>5. e0 = e
      BY <1>1, <1>3, <2>1, <3>3, <3>4
    <3> QED
      BY <3>1, <3>5
  <2> QED
    BY <1>5, <1>6, <2>4, <2>5
<1> QED
  BY <1>5, <1>6

(* A finished parse has bound every label: that of a BLOCK or an IF to the *)
(* distance to the cell past its END, however many labels were inserted    *)
(* between them since, and that of a LOOP to the cell before the LOOP.     *)
THEOREM LabelsLead == Spec => []LabelsBound
BY InitLInv, NextLInv, BracketsBind, PTL DEF Spec

------------------------------------------------------------------------------
(* Induction.  The library states it for an operator; for a set it follows *)
(* from the order of the naturals being well founded.                      *)

LEMMA Least ==
  ASSUME NEW T \in SUBSET Nat, T # {}
  PROVE  \E n \in T : \A m \in T : n <= m
<1> DEFINE R == {ss \in Nat \X Nat : ss[1] < ss[2]}
<1>1. IsWellFoundedOn(R, Nat)
  BY NatLessThanWellFounded DEF OpToRel
<1>2. \E n \in T : \A m \in T : <<m, n>> \notin R
  <2> HIDE DEF R
  <2> QED
    BY <1>1, WFMin
<1>3. PICK n \in T : \A m \in T : <<m, n>> \notin R
  BY <1>2
<1>4. ASSUME NEW m \in T PROVE n <= m
  <2>1. <<m, n>> \in Nat \X Nat /\ <<m, n>>[1] = m /\ <<m, n>>[2] = n
    OBVIOUS
  <2>2. ~(<<m, n>>[1] < <<m, n>>[2])
    BY <1>3, <2>1
  <2> QED
    BY <2>2
<1> QED
  BY <1>4

LEMMA SetInduction ==
  ASSUME NEW last \in Nat, NEW T, 0 \in T,
         \A n \in Nat : n < last /\ n \in T => n + 1 \in T
  PROVE  \A n \in 0 .. last : n \in T
<1> SUFFICES ASSUME NEW k \in 0 .. last, k \notin T PROVE FALSE
  OBVIOUS
<1> DEFINE U == {n \in 0 .. last : n \notin T}
<1>1. PICK n \in U : \A m \in U : n <= m
  <2>1. U \in SUBSET Nat /\ U # {}
    OBVIOUS
  <2> HIDE DEF U
  <2> QED
    BY <2>1, Least
<1>2. n # 0 /\ n - 1 \in 0 .. last /\ n - 1 \in Nat /\ n - 1 < last /\ n - 1 + 1 = n
  OBVIOUS
<1>3. n - 1 \in T
  BY <1>1, <1>2
<1> QED
  BY <1>2, <1>3

(* The two recursive functions are defined: each has its equations.        *)

Keeps(f, c, to) ==
  f = [n \in 0 .. to |-> IF n = 0 THEN << >>
                         ELSE IF IsLabelCell(c[n]) THEN f[n - 1] ELSE Append(f[n - 1], c[n])]

LEMMA KeepsExists ==
  ASSUME NEW c, NEW last \in Nat
  PROVE  \E f : Keeps(f, c, last)
<1> DEFINE T == {n \in Nat : \E f : Keeps(f, c, n)}
<1>1. 0 \in T
  <2> DEFINE f == [n \in 0 .. 0 |-> << >>]
  <2>1. \A n \in 0 .. 0 : n = 0
    OBVIOUS
  <2>2. Keeps(f, c, 0)
    BY <2>1 DEF Keeps
  <2> QED
    BY <2>2
<1>2. ASSUME NEW n \in Nat, n \in T PROVE n + 1 \in T
  <2>1. PICK f : Keeps(f, c, n)
    BY <1>2
  <2> DEFINE new == IF IsLabelCell(c[n + 1]) THEN f[n] ELSE Append(f[n], c[n + 1])
             g == [k \in 0 .. n + 1 |-> IF k = n + 1 THEN new ELSE f[k]]
  <2> HIDE DEF new
  <2>2. ASSUME NEW k \in 0 .. n + 1
        PROVE  g[k] = IF k = 0 THEN << >>
                      ELSE IF IsLabelCell(c[k]) THEN g[k - 1] ELSE Append(g[k - 1], c[k])
    <3>1. CASE k = n + 1
      <4>1. k # 0 /\ k - 1 = n /\ k - 1 \in 0 .. n + 1 /\ g[k - 1] = f[n] /\ g[k] = new
        BY <3>1
      <4> QED
        BY <3>1, <4>1 DEF new
    <3>2. CASE k = 0
      <4>1. f[0] = << >> /\ k # n + 1
        BY <2>1, <3>2 DEF Keeps
      <4> QED
        BY <3>2, <4>1
    <3>3. CASE k \in 1 .. n
      <4>1. k \in 0 .. n /\ k # 0 /\ k - 1 \in 0 .. n + 1 /\ k - 1 # n + 1 /\ k # n + 1
        BY <3>3
      <4>2. g[k] = f[k] /\ g[k - 1] = f[k - 1]
        BY <4>1
      <4>3. f[k] = IF IsLabelCell(c[k]) THEN f[k - 1] ELSE Append(f[k - 1], c[k])
        BY <2>1, <4>1 DEF Keeps
      <4> QED
        BY <4>1, <4>2, <4>3
    <3> QED
      BY <3>1, <3>2, <3>3
  <2> HIDE DEF g
  <2>3. Keeps([k \in 0 .. n + 1 |-> g[k]], c, n + 1)
    BY <2>2 DEF Keeps
  <2> QED
    BY <2>3
<1> HIDE DEF T
<1>3. last \in 0 .. last
  OBVIOUS
<1>4. last \in T
  BY <1>1, <1>2, <1>3, SetInduction
<1> QED
  BY <1>4 DEF T

LEMMA WithoutLabelsIs ==
  ASSUME NEW c, Len(c) \in Nat
  PROVE  \E f : Keeps(f, c, Len(c)) /\ WithoutLabels(c) = f[Len(c)]
<1> DEFINE Keep[n \in 0 .. Len(c)] ==
             IF n = 0 THEN << >>
             ELSE IF IsLabelCell(c[n]) THEN Keep[n - 1] ELSE Append(Keep[n - 1], c[n])
<1>1. \E f : Keeps(f, c, Len(c))
  BY KeepsExists
<1>2. Keeps(Keep, c, Len(c))
  BY <1>1 DEF Keeps
<1>3. WithoutLabels(c) = Keep[Len(c)]
  BY DEF WithoutLabels
<1> QED
  BY <1>2, <1>3

Copies(f, b, to) ==
  f = [n \in 0 .. to |-> IF n = 0 THEN << >>
                         ELSE f[n - 1] \o << b[n] >> \o Immediates(b[n])]

LEMMA CopiesExists ==
  ASSUME NEW b, NEW last \in Nat
  PROVE  \E f : Copies(f, b, last)
<1> DEFINE T == {n \in Nat : \E f : Copies(f, b, n)}
<1>1. 0 \in T
  <2> DEFINE f == [n \in 0 .. 0 |-> << >>]
  <2>1. \A n \in 0 .. 0 : n = 0
    OBVIOUS
  <2>2. Copies(f, b, 0)
    BY <2>1 DEF Copies
  <2> QED
    BY <2>2
<1>2. ASSUME NEW n \in Nat, n \in T PROVE n + 1 \in T
  <2>1. PICK f : Copies(f, b, n)
    BY <1>2
  <2> DEFINE new == f[n] \o << b[n + 1] >> \o Immediates(b[n + 1])
             g == [k \in 0 .. n + 1 |-> IF k = n + 1 THEN new ELSE f[k]]
  <2> HIDE DEF new
  <2>2. ASSUME NEW k \in 0 .. n + 1
        PROVE  g[k] = IF k = 0 THEN << >> ELSE g[k - 1] \o << b[k] >> \o Immediates(b[k])
    <3>1. CASE k = n + 1
      <4>1. k # 0 /\ k - 1 = n /\ k - 1 \in 0 .. n + 1 /\ g[k - 1] = f[n] /\ g[k] = new
        BY <3>1
      <4> QED
        BY <3>1, <4>1 DEF new
    <3>2. CASE k = 0
      <4>1. f[0] = << >> /\ k # n + 1
        BY <2>1, <3>2 DEF Copies
      <4> QED
        BY <3>2, <4>1
    <3>3. CASE k \in 1 .. n
      <4>1. k \in 0 .. n /\ k # 0 /\ k - 1 \in 0 .. n + 1 /\ k - 1 # n + 1 /\ k # n + 1
        BY <3>3
      <4>2. g[k] = f[k] /\ g[k - 1] = f[k - 1]
        BY <4>1
      <4>3. f[k] = f[k - 1] \o << b[k] >> \o Immediates(b[k])
        BY <2>1, <4>1 DEF Copies
      <4> QED
        BY <4>1, <4>2, <4>3
    <3> QED
      BY <3>1, <3>2, <3>3
  <2> HIDE DEF g
  <2>3. Copies([k \in 0 .. n + 1 |-> g[k]], b, n + 1)
    BY <2>2 DEF Copies
  <2> QED
    BY <2>3
<1> HIDE DEF T
<1>3. last \in 0 .. last
  OBVIOUS
<1>4. last \in T
  BY <1>1, <1>2, <1>3, SetInduction
<1> QED
  BY <1>4 DEF T

LEMMA CopiedStep ==
  ASSUME NEW b, Len(b) \in Nat
  PROVE  /\ Copied(b, 0) = << >>
         /\ \A n \in 1 .. Len(b) :
              Copied(b, n) = Copied(b, n - 1) \o << b[n] >> \o Immediates(b[n])
<1> DEFINE Copy[n \in 0 .. Len(b)] ==
             IF n = 0 THEN << >> ELSE Copy[n - 1] \o << b[n] >> \o Immediates(b[n])
<1>1. \E f : Copies(f, b, Len(b))
  BY CopiesExists
<1>2. Copies(Copy, b, Len(b))
  BY <1>1 DEF Copies
<1>3. \A n : Copied(b, n) = Copy[n]
  BY DEF Copied
<1> HIDE DEF Copy
<1>4. Copy[0] = << >>
  BY <1>2 DEF Copies
<1>5. ASSUME NEW n \in 1 .. Len(b)
      PROVE  Copy[n] = Copy[n - 1] \o << b[n] >> \o Immediates(b[n])
  <2>1. n \in 0 .. Len(b) /\ n # 0
    OBVIOUS
  <2> QED
    BY <1>2, <2>1 DEF Copies
<1> QED
  BY <1>3, <1>4, <1>5

------------------------------------------------------------------------------
(* What the labels apart remains of the code: all of it while there are no *)
(* labels, and no more or less when a word of labels is inserted or a      *)
(* label is bound.                                                         *)

LEMMA NoLabelsToLeave ==
  ASSUME NEW X, NEW c \in Seq(X), \A k \in 1 .. Len(c) : ~IsLabelCell(c[k])
  PROVE  WithoutLabels(c) = c
<1>1. Len(c) \in Nat
  OBVIOUS
<1>2. PICK f : Keeps(f, c, Len(c)) /\ WithoutLabels(c) = f[Len(c)]
  BY <1>1, WithoutLabelsIs
<1> DEFINE T == {n \in 0 .. Len(c) : f[n] = SubSeq(c, 1, n)}
<1>3. 0 \in T
  BY <1>1, <1>2 DEF Keeps
<1>4. ASSUME NEW n \in Nat, n < Len(c), n \in T PROVE n + 1 \in T
  <2>1. n + 1 \in 1 .. Len(c) /\ n + 1 \in 0 .. Len(c) /\ n + 1 # 0 /\ n + 1 - 1 = n
    BY <1>1, <1>4
  <2>2. f[n + 1] = Append(f[n], c[n + 1])
    <3>1. ~IsLabelCell(c[n + 1])
      BY <2>1
    <3>2. n + 1 \in 0 .. Len(c) /\ n + 1 # 0
      BY <2>1
    <3>3. f[n + 1] = IF IsLabelCell(c[n + 1]) THEN f[n + 1 - 1] ELSE Append(f[n + 1 - 1], c[n + 1])
      <4>1. \A k \in 0 .. Len(c) : k # 0 =>
              f[k] = IF IsLabelCell(c[k]) THEN f[k - 1] ELSE Append(f[k - 1], c[k])
        BY <1>2 DEF Keeps
      <4> QED
        BY <3>2, <4>1
    <3> QED
      BY <2>1, <3>1, <3>3
  <2>3. SubSeq(c, 1, n + 1) = Append(SubSeq(c, 1, n), c[n + 1])
    BY <2>1
  <2> QED
    BY <1>4, <2>1, <2>2, <2>3
<1>5. Len(c) \in T
  <2> HIDE DEF T
  <2>1. Len(c) \in 0 .. Len(c)
    BY <1>1
  <2> QED
    BY <1>1, <1>3, <1>4, <2>1, SetInduction
<1>6. SubSeq(c, 1, Len(c)) = c
  OBVIOUS
<1> QED
  BY <1>2, <1>5, <1>6

(* The same cell, or one label for another.                                *)
Alike(x, y) ==
  \/ x = y
  \/ IsLabelCell(x) /\ IsLabelCell(y)

LEMMA LabelsLeaveTheRest ==
  ASSUME NEW c, NEW d, NEW i \in Nat, NEW w \in Nat, Len(c) \in Nat, i <= Len(c),
         Len(d) = Len(c) + w,
         \A k \in 1 .. i : Alike(c[k], d[k]),
         \A k \in i + 1 .. i + w : IsLabelCell(d[k]),
         \A k \in i + 1 .. Len(c) : Alike(c[k], d[k + w])
  PROVE  WithoutLabels(d) = WithoutLabels(c)
<1>1. PICK f : Keeps(f, c, Len(c)) /\ WithoutLabels(c) = f[Len(c)]
  BY WithoutLabelsIs
<1>2. PICK g : Keeps(g, d, Len(d)) /\ WithoutLabels(d) = g[Len(d)]
  BY WithoutLabelsIs
<1>3. /\ f[0] = << >>
      /\ \A n \in 1 .. Len(c) : f[n] = IF IsLabelCell(c[n]) THEN f[n - 1] ELSE Append(f[n - 1], c[n])
  <2>1. 0 \in 0 .. Len(c) /\ \A n \in 1 .. Len(c) : n \in 0 .. Len(c) /\ n # 0
    OBVIOUS
  <2> QED
    BY <1>1, <2>1 DEF Keeps
<1>4. /\ g[0] = << >>
      /\ \A n \in 1 .. Len(c) + w : g[n] = IF IsLabelCell(d[n]) THEN g[n - 1] ELSE Append(g[n - 1], d[n])
  <2>1. 0 \in 0 .. Len(d) /\ \A n \in 1 .. Len(c) + w : n \in 0 .. Len(d) /\ n # 0
    OBVIOUS
  <2> QED
    BY <1>2, <2>1 DEF Keeps
<1>5. g[i] = f[i]
  <2> DEFINE T == {n \in 0 .. i : g[n] = f[n]}
  <2>1. 0 \in T
    BY <1>3, <1>4
  <2>2. ASSUME NEW n \in Nat, n < i, n \in T PROVE n + 1 \in T
    <3>1. /\ n + 1 \in 1 .. i /\ n + 1 \in 1 .. Len(c) /\ n + 1 \in 1 .. Len(c) + w
          /\ n + 1 \in 0 .. i /\ n + 1 - 1 = n
      BY <2>2
    <3>2. Alike(c[n + 1], d[n + 1]) /\ g[n] = f[n]
      BY <2>2, <3>1
    <3>3. f[n + 1] = IF IsLabelCell(c[n + 1]) THEN f[n] ELSE Append(f[n], c[n + 1])
      BY <1>3, <3>1
    <3>4. g[n + 1] = IF IsLabelCell(d[n + 1]) THEN g[n] ELSE Append(g[n], d[n + 1])
      BY <1>4, <3>1
    <3>5. g[n + 1] = f[n + 1]
      BY <3>2, <3>3, <3>4 DEF Alike
    <3> QED
      BY <3>1, <3>5
  <2> HIDE DEF T
  <2>3. i \in 0 .. i
    OBVIOUS
  <2>4. i \in T
    BY <2>1, <2>2, <2>3, SetInduction
  <2> QED
    BY <2>4 DEF T
<1>6. g[i + w] = f[i]
  <2> DEFINE T == {n \in 0 .. w : g[i + n] = f[i]}
  <2>1. 0 \in T
    BY <1>5
  <2>2. ASSUME NEW n \in Nat, n < w, n \in T PROVE n + 1 \in T
    <3>1. /\ i + n + 1 \in i + 1 .. i + w /\ i + n + 1 \in 1 .. Len(c) + w
          /\ n + 1 \in 0 .. w /\ i + n + 1 - 1 = i + n /\ i + (n + 1) = i + n + 1
      BY <2>2
    <3>2. g[i + n + 1] = IF IsLabelCell(d[i + n + 1]) THEN g[i + n] ELSE Append(g[i + n], d[i + n + 1])
      BY <1>4, <3>1
    <3>3. g[i + n + 1] = f[i]
      BY <2>2, <3>1, <3>2
    <3> QED
      BY <3>1, <3>3
  <2> HIDE DEF T
  <2>3. w \in 0 .. w
    OBVIOUS
  <2>4. w \in T
    BY <2>1, <2>2, <2>3, SetInduction
  <2> QED
    BY <2>4 DEF T
<1>7. g[Len(c) + w] = f[Len(c)]
  <2> DEFINE m == Len(c) - i
             T == {n \in 0 .. m : g[i + n + w] = f[i + n]}
  <2>0. m \in Nat /\ i + m = Len(c)
    OBVIOUS
  <2>1. 0 \in T
    <3>1. i + 0 + w = i + w /\ i + 0 = i
      OBVIOUS
    <3> QED
      BY <1>6, <2>0, <3>1
  <2>2. ASSUME NEW n \in Nat, n < m, n \in T PROVE n + 1 \in T
    <3> DEFINE k == i + n + 1
    <3>1. /\ k \in i + 1 .. Len(c) /\ k + w \in 1 .. Len(c) + w /\ k \in 1 .. Len(c)
          /\ n + 1 \in 0 .. m /\ k - 1 = i + n /\ k + w - 1 = i + n + w
          /\ i + (n + 1) + w = k + w /\ i + (n + 1) = k
      BY <2>0, <2>2
    <3> HIDE DEF k
    <3>2. Alike(c[k], d[k + w]) /\ g[i + n + w] = f[i + n]
      BY <2>2, <3>1
    <3>3. f[k] = IF IsLabelCell(c[k]) THEN f[i + n] ELSE Append(f[i + n], c[k])
      BY <1>3, <3>1
    <3>4. g[k + w] = IF IsLabelCell(d[k + w]) THEN g[i + n + w] ELSE Append(g[i + n + w], d[k + w])
      BY <1>4, <3>1
    <3>5. g[k + w] = f[k]
      BY <3>2, <3>3, <3>4 DEF Alike
    <3> QED
      BY <3>1, <3>5
  <2> HIDE DEF T, m
  <2>3. m \in 0 .. m
    BY <2>0
  <2>4. m \in T
    BY <2>0, <2>1, <2>2, <2>3, SetInduction
  <2>5. g[i + m + w] = f[i + m]
    BY <2>4 DEF T
  <2> QED
    BY <2>0, <2>5
<1> QED
  BY <1>1, <1>2, <1>7

------------------------------------------------------------------------------
(* The code of the first pass.  While it lasts there are no labels and the *)
(* code is the copy itself; afterwards the copy no longer grows.           *)

OnlyCopied ==
  status = "immediates" =>
    /\ code = Copied(body, pos)
    /\ \A k \in 1 .. Len(code) : ~IsLabelCell(code[k])

KInv == IInv /\ OnlyCopied /\ CodeKept

LEMMA CopyKeepsCode ==
  ASSUME KInv, CopyInstruction
  PROVE  OnlyCopied' /\ CodeKept'
<1> DEFINE op == body[pos + 1]
           im == Immediates(op)
           c1 == code \o << op >>
<1>1. /\ code \in Seq(Cells) /\ Len(code) \in Nat /\ Len(body) \in Nat
      /\ pos + 1 \in 1 .. Len(body) /\ (pos + 1) - 1 = pos /\ op \in Opcodes
      /\ code = Copied(body, pos)
      /\ \A k \in 1 .. Len(code) : ~IsLabelCell(code[k])
      /\ code' = c1 \o im /\ pos' = pos + 1 /\ body' = body /\ status' = status
  <2>1. /\ body \in Seq(Opcodes) /\ pos \in 0 .. Len(body) /\ pos < Len(body)
        /\ status = "immediates" /\ code \in Seq(Cells)
    BY DEF KInv, IInv, TypeOK, CopyInstruction, Cells
  <2>2. op \in Opcodes
    BY <2>1
  <2>3. code = Copied(body, pos) /\ \A k \in 1 .. Len(code) : ~IsLabelCell(code[k])
    BY <2>1 DEF KInv, OnlyCopied
  <2> QED
    BY <2>1, <2>2, <2>3 DEF CopyInstruction
<1>2. /\ im \in Seq(Cells) /\ Len(im) \in Nat
      /\ \A k \in 1 .. Len(im) : ~IsLabelCell(im[k])
  <2>1. /\ im \in Seq(Cells) /\ UnitSize(op) \in Nat
        /\ Len(im) \in {UnitSize(op), UnitSize(op) + 1}
        /\ \A k \in 1 .. UnitSize(op) : im[k] = Operand
        /\ Len(im) = UnitSize(op) + 1 => im[UnitSize(op) + 1] \in {Signature, Reserved}
    BY <1>1, ImmediatesFacts
  <2>2. \A k \in 1 .. Len(im) : im[k] \in {Signature, Reserved, Operand}
    <3> HIDE DEF im, op
    <3> QED
      BY <2>1
  <2>3. \A x \in {Signature, Reserved, Operand} : ~IsLabelCell(x)
    BY OpcodesAssumption DEF IsLabelCell
  <2> QED
    BY <2>1, <2>2, <2>3
<1>3. << op >> \in Seq(Cells) /\ Len(<< op >>) = 1 /\ << op >>[1] = op /\ ~IsLabelCell(op)
  BY <1>1, OpcodesAssumption DEF Cells, IsLabelCell
<1>4. code' = Copied(body, pos + 1)
  <2>1. \A n \in 1 .. Len(body) :
          Copied(body, n) = (Copied(body, n - 1) \o << body[n] >>) \o Immediates(body[n])
    BY <1>1, CopiedStep
  <2>2. Copied(body, pos + 1) = (Copied(body, (pos + 1) - 1) \o << op >>) \o im
    <3> DEFINE n == pos + 1
    <3>1. n \in 1 .. Len(body)
      BY <1>1
    <3> HIDE DEF n
    <3>2. Copied(body, n) = (Copied(body, n - 1) \o << body[n] >>) \o Immediates(body[n])
      BY <2>1, <3>1, Zenon
    <3>3. n = pos + 1 /\ body[n] = op /\ Immediates(body[n]) = im
      BY DEF n, op, im
    <3> HIDE DEF op, im
    <3> QED
      BY <3>2, <3>3
  <2> QED
    BY <1>1, <2>2
<1> HIDE DEF op, im
<1>5. c1 \in Seq(Cells) /\ \A k \in 1 .. Len(c1) : ~IsLabelCell(c1[k])
  <2>1. c1 \in Seq(Cells) /\ Len(c1) = Len(code) + Len(<< op >>)
    BY <1>1, <1>3, ConcatFacts
  <2>2. \A k \in 1 .. Len(code) : c1[k] = code[k]
    BY <1>1, <1>3, ConcatFacts
  <2>3. \A k \in 1 .. Len(<< op >>) : c1[Len(code) + k] = << op >>[k]
    BY <1>1, <1>3, ConcatFacts
  <2>4. c1[Len(code) + 1] = op
    BY <1>3, <2>3
  <2>5. Len(c1) = Len(code) + 1
    BY <1>3, <2>1
  <2> HIDE DEF c1
  <2>6. \A k \in 1 .. Len(c1) : k \in 1 .. Len(code) \/ k = Len(code) + 1
    BY <1>1, <2>5
  <2> QED
    BY <1>1, <1>3, <2>1, <2>2, <2>4, <2>6
<1> HIDE DEF c1
<1>6. /\ code' \in Seq(Cells)
      /\ \A k \in 1 .. Len(code') : ~IsLabelCell(code'[k])
  <2>1. code' \in Seq(Cells) /\ Len(code') = Len(c1) + Len(im)
    BY <1>1, <1>2, <1>5, ConcatFacts
  <2>2. \A k \in 1 .. Len(c1) : code'[k] = c1[k]
    BY <1>1, <1>2, <1>5, ConcatFacts
  <2>3. \A k \in 1 .. Len(im) : code'[Len(c1) + k] = im[k]
    BY <1>1, <1>2, <1>5, ConcatFacts
  <2>4. Len(c1) \in Nat
    BY <1>5
  <2>5. ASSUME NEW k \in 1 .. Len(code') PROVE ~IsLabelCell(code'[k])
    <3>1. CASE k \in 1 .. Len(c1)
      BY <1>5, <2>2, <3>1
    <3>2. CASE k \notin 1 .. Len(c1)
      <4>1. k - Len(c1) \in 1 .. Len(im) /\ Len(c1) + (k - Len(c1)) = k
        BY <1>2, <2>1, <2>4, <3>2
      <4> QED
        BY <1>2, <2>3, <4>1
    <3> QED
      BY <3>1, <3>2
  <2> QED
    BY <2>1, <2>5
<1>7. WithoutLabels(code') = code'
  BY <1>6, NoLabelsToLeave
<1> QED
  BY <1>1, <1>4, <1>6, <1>7 DEF OnlyCopied, CodeKept

(* A word of labels inserted, or nothing but a label written.              *)
LEMMA SpliceLeaves ==
  ASSUME TypeOK, NEW i \in 0 .. Len(code), NEW n \in Nat
  PROVE  WithoutLabels(Spliced(i, Word(n))) = WithoutLabels(code)
<1> DEFINE d == Spliced(i, Word(n))
<1>1. /\ Len(d) = Len(code) + W
      /\ \A k \in 1 .. i : d[k] = code[k]
      /\ d[i + 1] = n
      /\ \A k \in i + 2 .. i + W : d[k] = 0
      /\ \A k \in i + 1 .. Len(code) : d[k + W] = code[k]
  BY SplicedFacts
<1>2. Len(code) \in Nat /\ i \in Nat /\ i <= Len(code) /\ W \in Nat
  BY WidthAssumption DEF TypeOK
<1> HIDE DEF d
<1>3. \A k \in i + 1 .. i + W : IsLabelCell(d[k])
  <2>1. \A k \in i + 1 .. i + W : k = i + 1 \/ k \in i + 2 .. i + W
    BY <1>2
  <2> QED
    BY <1>1, <2>1 DEF IsLabelCell
<1>4. ASSUME NEW k \in 1 .. i PROVE Alike(code[k], d[k])
  <2>1. d[k] = code[k]
    BY <1>1
  <2> QED
    BY <2>1, Zenon DEF Alike
<1>5. ASSUME NEW k \in i + 1 .. Len(code) PROVE Alike(code[k], d[k + W])
  <2>1. d[k + W] = code[k]
    BY <1>1
  <2> QED
    BY <2>1, Zenon DEF Alike
<1>6. WithoutLabels(d) = WithoutLabels(code)
  BY <1>1, <1>2, <1>3, <1>4, <1>5, LabelsLeaveTheRest
<1> QED
  BY <1>6 DEF d

LEMMA BindLeaves ==
  ASSUME NEW c, NEW d, NEW at, Len(c) \in Nat, Len(d) = Len(c),
         IsLabelCell(c[at]), IsLabelCell(d[at]),
         \A k \in 1 .. Len(c) : k # at => d[k] = c[k]
  PROVE  WithoutLabels(d) = WithoutLabels(c)
<1> DEFINE i == Len(c)
           w == 0
<1>1. i \in Nat /\ w \in Nat /\ i <= Len(c) /\ Len(d) = Len(c) + w
  OBVIOUS
<1>2. ASSUME NEW k \in 1 .. i PROVE Alike(c[k], d[k])
  <2>1. CASE k = at
    BY <2>1, Zenon DEF Alike
  <2>2. CASE k # at
    <3>1. d[k] = c[k]
      BY <2>2
    <3> QED
      BY <3>1, Zenon DEF Alike
  <2> QED
    BY <2>1, <2>2
<1>3. /\ \A k \in i + 1 .. i + w : IsLabelCell(d[k])
      /\ \A k \in i + 1 .. Len(c) : Alike(c[k], d[k + w])
  OBVIOUS
<1> HIDE DEF i, w
<1> QED
  BY <1>1, <1>2, <1>3, LabelsLeaveTheRest

LEMMA EndKeepsCode ==
  ASSUME KInv, EndHandler
  PROVE  WithoutLabels(code') = WithoutLabels(code)
<1>1. CASE Top = NoLabel
  BY <1>1 DEF EndHandler
<1>2. CASE Top # NoLabel
  <2>1. /\ IInv /\ Scanning /\ label_stack # << >> /\ Bind(code, Top, index + 1)
        /\ code \in Seq(Cells) /\ index \in Nat /\ Len(code) \in Nat /\ index <= Len(code)
        /\ Open(label_stack, code, index) /\ label_stack \in Seq(Positions)
        /\ W \in Nat \ {0}
    BY <1>2, ScanFacts DEF EndHandler, PastEnd, KInv
  <2>2. /\ Top \in Nat /\ Top + W <= index /\ Len(code') = Len(code)
        /\ \A k \in 1 .. Len(code) : k # Top + 1 => code'[k] = code[k]
        /\ code'[Top + 1] = (index + 1) - Top
    BY <1>2, <2>1, BindTop
  <2>3. code[Top + 1] = 0
    <3>1. Len(label_stack) \in 1 .. Len(label_stack)
      BY <2>1
    <3>2. \A x \in Top + 1 .. Top + W : code[x] = 0
      BY <1>2, <2>1, <3>1 DEF Open, Top
    <3> QED
      BY <2>1, <2>2, <3>2
  <2>4. IsLabelCell(code[Top + 1]) /\ IsLabelCell(code'[Top + 1])
    BY <2>1, <2>2, <2>3 DEF IsLabelCell
  <2> QED
    BY <2>1, <2>2, <2>4, BindLeaves
<1> QED
  BY <1>1, <1>2

LEMMA ElseKeepsCode ==
  ASSUME KInv, ElseHandler
  PROVE  WithoutLabels(code') = WithoutLabels(code)
<1> DEFINE c == Spliced(index, Word(0))
<1>1. /\ IInv /\ Scanning /\ label_stack # << >> /\ Top # NoLabel
      /\ Bind(c, Top, index + W)
      /\ code \in Seq(Cells) /\ index \in Nat /\ Len(code) \in Nat /\ index < Len(code)
      /\ Open(label_stack, code, index) /\ label_stack \in Seq(Positions)
      /\ W \in Nat \ {0} /\ TypeOK
  BY ScanFacts DEF ElseHandler, KInv, IInv
<1>2. /\ c \in Seq(Cells) /\ Len(c) = Len(code) + W
      /\ \A k \in 1 .. index : c[k] = code[k]
  <2>1. index \in 0 .. Len(code) /\ 0 \in Nat
    BY <1>1
  <2> QED
    BY <1>1, <2>1, SplicedFacts
<1>3. WithoutLabels(c) = WithoutLabels(code)
  <2>1. index \in 0 .. Len(code) /\ 0 \in Nat
    BY <1>1
  <2> QED
    BY <1>1, <2>1, SpliceLeaves
<1> HIDE DEF c
<1>4. /\ Top \in Nat /\ Top + W <= index /\ Len(code') = Len(c)
      /\ \A k \in 1 .. Len(c) : k # Top + 1 => code'[k] = c[k]
      /\ code'[Top + 1] = (index + W) - Top
  <2> DEFINE to == index + W
  <2>1. Len(c) >= index /\ to \in Nat /\ to >= index /\ Bind(c, Top, to)
    BY <1>1, <1>2
  <2> HIDE DEF to
  <2>2. /\ Top \in Nat /\ Top + W <= index /\ Len(code') = Len(c)
        /\ \A k \in 1 .. Len(c) : k # Top + 1 => code'[k] = c[k]
        /\ code'[Top + 1] = to - Top
    BY <1>1, <1>2, <2>1, BindTop
  <2>3. to = index + W
    BY DEF to
  <2> QED
    BY <2>2, <2>3
<1>5. c[Top + 1] = 0
  <2>1. Len(label_stack) \in 1 .. Len(label_stack)
    BY <1>1
  <2>2. \A x \in Top + 1 .. Top + W : code[x] = 0
    BY <1>1, <2>1 DEF Open, Top
  <2>3. Top + 1 \in Top + 1 .. Top + W /\ Top + 1 \in 1 .. index
    BY <1>1, <1>4
  <2> QED
    BY <1>2, <2>2, <2>3
<1>6. IsLabelCell(c[Top + 1]) /\ IsLabelCell(code'[Top + 1])
  BY <1>1, <1>4, <1>5 DEF IsLabelCell
<1>7. Len(c) \in Nat
  BY <1>1, <1>2
<1>8. WithoutLabels(code') = WithoutLabels(c)
  BY <1>4, <1>6, <1>7, BindLeaves
<1> QED
  BY <1>3, <1>8

LEMMA OpenerKeepsCode ==
  ASSUME KInv, BlockHandler \/ LoopHandler
  PROVE  WithoutLabels(code') = WithoutLabels(code)
<1>1. Scanning /\ TypeOK /\ index \in Nat /\ Len(code) \in Nat /\ index < Len(code)
  BY ScanFacts DEF BlockHandler, LoopHandler, KInv, IInv
<1>2. index + 1 \in 0 .. Len(code) /\ 0 \in Nat
  BY <1>1
<1>3. CASE BlockHandler
  BY <1>1, <1>2, <1>3, SpliceLeaves DEF BlockHandler
<1>4. CASE LoopHandler
  <2>1. index - 1 \in Nat
    BY <1>1, <1>4 DEF LoopHandler, LoopLabelFits
  <2> QED
    BY <1>1, <1>2, <1>4, <2>1, SpliceLeaves DEF LoopHandler
<1> QED
  BY <1>3, <1>4

(* A step of the second pass that leaves the code, labels apart, as it was.*)
LEMMA SecondPass ==
  ASSUME KInv, UNCHANGED <<body, pos>>, status' # "immediates",
         WithoutLabels(code') = WithoutLabels(code)
  PROVE  OnlyCopied' /\ CodeKept'
BY DEF KInv, OnlyCopied, CodeKept

LEMMA NextKInv == KInv /\ [Next]_vars => KInv'
<1> SUFFICES ASSUME KInv, [Next]_vars PROVE KInv'
  OBVIOUS
<1>1. IInv'
  BY NextIInv DEF KInv
<1>2. CASE CopyInstruction
  BY <1>1, <1>2, CopyKeepsCode DEF KInv
<1>3. CASE UNCHANGED <<body, pos, code>> /\ (status' = status \/ status' # "immediates")
  BY <1>1, <1>3 DEF KInv, OnlyCopied, CodeKept
<1>4. CASE BlockHandler \/ LoopHandler
  <2>1. UNCHANGED <<body, pos>> /\ status' # "immediates"
    BY <1>4 DEF BlockHandler, LoopHandler, Scanning
  <2> QED
    BY <1>1, <1>4, <2>1, OpenerKeepsCode, SecondPass DEF KInv
<1>5. CASE EndHandler
  <2>1. UNCHANGED <<body, pos>> /\ status' # "immediates"
    BY <1>5 DEF EndHandler, Bind, Scanning
  <2> QED
    BY <1>1, <1>5, <2>1, EndKeepsCode, SecondPass DEF KInv
<1>6. CASE ElseHandler
  <2>1. UNCHANGED <<body, pos>> /\ status' # "immediates"
    BY <1>6 DEF ElseHandler, Bind, Scanning
  <2> QED
    BY <1>1, <1>6, <2>1, ElseKeepsCode, SecondPass DEF KInv
<1>7. CASE CopyFloat \/ BeginLabels
  BY <1>3, <1>7 DEF CopyFloat, BeginLabels
<1>8. CASE LoopHandlerFails \/ ElseInLoop \/ BrTableHandler \/ PopEmpty \/ Exhausted
  BY <1>3, <1>8 DEF LoopHandlerFails, ElseInLoop, BrTableHandler, PopEmpty, Exhausted, Raise
<1>9. CASE DefaultHandler \/ UNCHANGED vars
  BY <1>3, <1>9 DEF DefaultHandler, vars
<1> QED
  BY <1>2, <1>4, <1>5, <1>6, <1>7, <1>8, <1>9 DEF Next

LEMMA InitKInv == Init => KInv
<1> SUFFICES ASSUME Init PROVE KInv
  OBVIOUS
<1>1. IInv
  BY InitIInv
<1>2. Len(body) \in Nat
  BY <1>1 DEF IInv, TypeOK
<1>3. Copied(body, 0) = << >>
  BY <1>2, CopiedStep
<1>4. code = << >> /\ pos = 0
  BY DEF Init
<1>5. WithoutLabels(<< >>) = << >>
  <2>1. << >> \in Seq(Nat) /\ \A k \in 1 .. Len(<< >>) : ~IsLabelCell(<< >>[k])
    OBVIOUS
  <2> QED
    BY <2>1, NoLabelsToLeave
<1> QED
  BY <1>1, <1>3, <1>4, <1>5 DEF KInv, OnlyCopied, CodeKept

(* Whatever the body, and however its parse ends: leave the labels out and *)
(* the code is, cell for cell, the copy the first pass made.  No insertion *)
(* loses, repeats or overwrites an opcode or an operand.                   *)
THEOREM CodeIsKept == Spec => []CodeKept
<1>1. KInv => CodeKept
  BY DEF KInv
<1> QED
  BY <1>1, InitKInv, NextKInv, PTL DEF Spec

==============================================================================
