---------------------------- MODULE Numbers_proofs ----------------------------
(***************************************************************************)
(* Proofs about the numbers of the system: about Leb128, for every size of *)
(* a group and of the destination, every set of widths and of types; and   *)
(* about Arith, for every width of the integers and every precision of the *)
(* floats.  Both rest on the same facts about powers of two and            *)
(* remainders, which come first.  Then, for Leb128: the number a sequence  *)
(* of bytes stands for; the bytes a number is encoded in; the inductive    *)
(* invariant of the loops and of what follows them; the properties.  For   *)
(* Arith: which function a state is a call of; then floats, integers and   *)
(* truncations, the lemmas about each before its theorems.                 *)
(***************************************************************************)
EXTENDS Leb128, Arith, WellFoundedInduction, TLAPS

------------------------------------------------------------------------------
(* Induction over a set, and functions defined by recursion.               *)

LEMMA Least ==
  ASSUME NEW T \in SUBSET Nat, T # {}
  PROVE  \E n \in T : \A m \in T : n <= m
<1> DEFINE R == {ss \in Nat \X Nat : ss[1] < ss[2]}
<1>1. IsWellFoundedOn(R, Nat)
  BY NatLessThanWellFounded DEF OpToRel
<1>2. \E n \in T : \A m \in T : <<m, n>> \notin R
  <2> HIDE DEF R
  <2> QED
    BY <1>1, WFMin
<1>3. PICK n \in T : \A m \in T : <<m, n>> \notin R
  BY <1>2
<1>4. ASSUME NEW m \in T PROVE n <= m
  <2>1. <<m, n>> \in Nat \X Nat /\ <<m, n>>[1] = m /\ <<m, n>>[2] = n
    OBVIOUS
  <2>2. ~(<<m, n>>[1] < <<m, n>>[2])
    BY <1>3, <2>1
  <2> QED
    BY <2>2
<1> QED
  BY <1>4

LEMMA SetInduction ==
  ASSUME NEW top \in Nat, NEW T, 0 \in T,
         \A n \in Nat : n < top /\ n \in T => n + 1 \in T
  PROVE  \A n \in 0 .. top : n \in T
<1> SUFFICES ASSUME NEW k \in 0 .. top, k \notin T PROVE FALSE
  OBVIOUS
<1> DEFINE U == {n \in 0 .. top : n \notin T}
<1>1. PICK n \in U : \A m \in U : n <= m
  <2>1. U \in SUBSET Nat /\ U # {}
    OBVIOUS
  <2> HIDE DEF U
  <2> QED
    BY <2>1, Least
<1>2. n # 0 /\ n - 1 \in 0 .. top /\ n - 1 \in Nat /\ n - 1 < top /\ n - 1 + 1 = n
  OBVIOUS
<1>3. n - 1 \in T
  BY <1>1, <1>2
<1> QED
  BY <1>2, <1>3

Steps(top, X) == [1 .. top -> [X -> X]]
Recursive(f, top, X, base, g) ==
  /\ f \in [0 .. top -> X]
  /\ \A n \in 0 .. top : f[n] = IF n = 0 THEN base ELSE g[n][f[n - 1]]

LEMMA Recursion ==
  ASSUME NEW top \in Nat, NEW X, NEW base \in X, NEW g \in Steps(top, X)
  PROVE  \E f : Recursive(f, top, X, base, g)
<1> DEFINE Upto(f, n) == \A k \in 0 .. n : f[k] = IF k = 0 THEN base ELSE g[k][f[k - 1]]
           T == {n \in 0 .. top : \E f \in [0 .. n -> X] : Upto(f, n)}
<1>1. 0 \in T
  <2> DEFINE f == [n \in 0 .. 0 |-> base]
  <2>1. f \in [0 .. 0 -> X] /\ \A k \in 0 .. 0 : k = 0 /\ f[k] = base
    OBVIOUS
  <2> HIDE DEF f
  <2> QED
    BY <2>1
<1>2. ASSUME NEW n \in Nat, n < top, n \in T PROVE n + 1 \in T
  <2>1. PICK f \in [0 .. n -> X] : Upto(f, n)
    BY <1>2
  <2>0. g \in [1 .. top -> [X -> X]]
    BY DEF Steps
  <2>2. n + 1 \in 1 .. top /\ n + 1 \in 0 .. top /\ n \in 0 .. n
    BY <1>2
  <2> DEFINE new == g[n + 1][f[n]]
             h == [k \in 0 .. n + 1 |-> IF k = n + 1 THEN new ELSE f[k]]
  <2>3. new \in X
    BY <2>0, <2>1, <2>2
  <2> HIDE DEF new
  <2>4. h \in [0 .. n + 1 -> X]
    BY <2>3
  <2>5. ASSUME NEW k \in 0 .. n + 1
        PROVE  h[k] = IF k = 0 THEN base ELSE g[k][h[k - 1]]
    <3>1. CASE k = n + 1
      <4>1. k # 0 /\ k - 1 = n /\ h[k] = new /\ h[k - 1] = f[n]
        BY <3>1
      <4> QED
        BY <3>1, <4>1 DEF new
    <3>2. CASE k = 0
      <4>1. f[0] = base /\ k # n + 1
        BY <2>1, <3>2
      <4> QED
        BY <3>2, <4>1
    <3>3. CASE k \in 1 .. n
      <4>1. k \in 0 .. n /\ k # 0 /\ k - 1 \in 0 .. n + 1 /\ k - 1 # n + 1 /\ k # n + 1
        BY <3>3
      <4>2. h[k] = f[k] /\ h[k - 1] = f[k - 1]
        BY <4>1
      <4>3. f[k] = g[k][f[k - 1]]
        BY <2>1, <4>1
      <4> QED
        BY <4>1, <4>2, <4>3
    <3> QED
      BY <3>1, <3>2, <3>3
  <2> HIDE DEF h
  <2> QED
    BY <2>2, <2>4, <2>5
<1>3. top \in T
  <2> HIDE DEF T
  <2>1. top \in 0 .. top
    OBVIOUS
  <2> QED
    BY <1>1, <1>2, <2>1, SetInduction
<1> QED
  BY <1>3 DEF Recursive

LEMMA NatSetInduction ==
  ASSUME NEW T, 0 \in T, \A n \in Nat : n \in T => n + 1 \in T
  PROVE  \A n \in Nat : n \in T
<1> SUFFICES ASSUME NEW k \in Nat PROVE k \in T
  OBVIOUS
<1>1. \A n \in 0 .. k : n \in T
  BY SetInduction
<1> QED
  BY <1>1

------------------------------------------------------------------------------
(* Powers of two.                                                          *)

(* The powers up to top. *)
ArePowers(f, top) ==
  /\ f \in [0 .. top -> Nat]
  /\ f[0] = 1
  /\ \A n \in 1 .. top : f[n] = 2 * f[n - 1]

LEMMA PowersUpto ==
  ASSUME NEW top \in Nat
  PROVE  \E f : ArePowers(f, top)
<1> DEFINE twice == [k \in 1 .. top |-> [x \in Nat |-> 2 * x]]
<1>1. twice \in Steps(top, Nat)
  <2>1. \A x \in Nat : 2 * x \in Nat
    OBVIOUS
  <2> QED
    BY <2>1 DEF Steps
<1>2. \A k \in 1 .. top : \A x \in Nat : twice[k][x] = 2 * x
  OBVIOUS
<1>3. PICK f : Recursive(f, top, Nat, 1, twice)
  <2> HIDE DEF twice
  <2> QED
    BY <1>1, Recursion
<1> HIDE DEF twice
<1>4. f \in [0 .. top -> Nat] /\ \A n \in 0 .. top : f[n] = IF n = 0 THEN 1 ELSE twice[n][f[n - 1]]
  BY <1>3 DEF Recursive
<1>5. ASSUME NEW n \in 1 .. top PROVE f[n] = 2 * f[n - 1]
  <2>1. n \in 0 .. top /\ n # 0 /\ n - 1 \in 0 .. top
    OBVIOUS
  <2>2. f[n - 1] \in Nat
    BY <1>4, <2>1
  <2> QED
    BY <1>2, <1>4, <2>1, <2>2
<1>6. f[0] = 1
  BY <1>4
<1>7. ArePowers(f, top)
  BY <1>4, <1>5, <1>6 DEF ArePowers
<1> QED
  BY <1>7

LEMMA PowersAgree ==
  ASSUME NEW a \in Nat, NEW b \in Nat, a <= b, NEW f, NEW g, ArePowers(f, a), ArePowers(g, b)
  PROVE  f[a] = g[a]
<1> DEFINE T == {n \in 0 .. a : f[n] = g[n]}
<1>1. 0 \in T
  BY DEF ArePowers
<1>2. ASSUME NEW n \in Nat, n < a, n \in T PROVE n + 1 \in T
  <2>1. n + 1 \in 1 .. a /\ n + 1 \in 1 .. b /\ n + 1 - 1 = n
    BY <1>2
  <2>2. f[n + 1] = 2 * f[n + 1 - 1] /\ g[n + 1] = 2 * g[n + 1 - 1]
    BY <2>1 DEF ArePowers
  <2> QED
    BY <1>2, <2>1, <2>2
<1>3. a \in T
  <2> HIDE DEF T
  <2>1. \A n \in 0 .. a : n \in T
    BY <1>1, <1>2, SetInduction
  <2> QED
    BY <2>1
<1> QED
  BY <1>3

LEMMA PowDef == Pow2 = [n \in Nat |-> IF n = 0 THEN 1 ELSE 2 * Pow2[n - 1]]
<1> DEFINE Some(n) == CHOOSE f : ArePowers(f, n)
           P == [n \in Nat |-> Some(n)[n]]
<1>1. \A n \in Nat : ArePowers(Some(n), n)
  BY PowersUpto
<1> HIDE DEF Some
<1>2. P[0] = 1
  BY <1>1 DEF ArePowers
<1>3. ASSUME NEW n \in Nat, n # 0 PROVE P[n] = 2 * P[n - 1]
  <2>1. n - 1 \in Nat /\ n \in 1 .. n /\ n - 1 <= n
    BY <1>3
  <2>2. ArePowers(Some(n), n) /\ ArePowers(Some(n - 1), n - 1)
    BY <1>1, <2>1
  <2>3. Some(n)[n] = 2 * Some(n)[n - 1]
    BY <2>1, <2>2 DEF ArePowers
  <2>4. Some(n - 1)[n - 1] = Some(n)[n - 1]
    BY <2>1, <2>2, PowersAgree
  <2> QED
    BY <2>1, <2>3, <2>4
<1>4. P = [n \in Nat |-> IF n = 0 THEN 1 ELSE 2 * P[n - 1]]
  <2> DEFINE Q == [n \in Nat |-> IF n = 0 THEN 1 ELSE 2 * P[n - 1]]
  <2>1. ASSUME NEW n \in Nat PROVE P[n] = IF n = 0 THEN 1 ELSE 2 * P[n - 1]
    <3> HIDE DEF P
    <3> QED
      BY <1>2, <1>3
  <2>2. \A n \in Nat : P[n] = Q[n]
    <3> HIDE DEF P
    <3> QED
      BY <2>1
  <2>3. P = [n \in Nat |-> P[n]] /\ Q = [n \in Nat |-> Q[n]]
    OBVIOUS
  <2> HIDE DEF P, Q
  <2>4. P = Q
    BY <2>2, <2>3
  <2> QED
    BY <2>4 DEF Q
<1> HIDE DEF P
<1>5. \E f : f = [n \in Nat |-> IF n = 0 THEN 1 ELSE 2 * f[n - 1]]
  BY <1>4
<1> QED
  BY <1>5 DEF Pow2

LEMMA PowZero == Pow2[0] = 1
BY PowDef

LEMMA PowStep ==
  ASSUME NEW n \in Nat
  PROVE  Pow2[n + 1] = 2 * Pow2[n]
<1> DEFINE m == n + 1
<1>1. m \in Nat /\ m # 0 /\ m - 1 = n
  OBVIOUS
<1> HIDE DEF m
<1>2. Pow2[m] = 2 * Pow2[m - 1]
  BY <1>1, PowDef
<1> QED
  BY <1>1, <1>2 DEF m

LEMMA PowType == \A n \in Nat : Pow2[n] \in Nat /\ Pow2[n] >= 1
<1> DEFINE T == {n \in Nat : Pow2[n] \in Nat /\ Pow2[n] >= 1}
<1>1. 0 \in T
  BY PowZero
<1>2. ASSUME NEW n \in Nat, n \in T PROVE n + 1 \in T
  BY <1>2, PowStep
<1>3. \A n \in Nat : n \in T
  <2> HIDE DEF T
  <2> QED
    BY <1>1, <1>2, NatSetInduction
<1> QED
  BY <1>3

LEMMA PowSum ==
  ASSUME NEW a \in Nat, NEW b \in Nat
  PROVE  Pow2[a + b] = Pow2[a] * Pow2[b]
<1> DEFINE T == {n \in Nat : Pow2[a + n] = Pow2[a] * Pow2[n]}
<1>0. Pow2[a] \in Nat
  BY PowType
<1>1. 0 \in T
  BY <1>0, PowZero
<1>2. ASSUME NEW n \in Nat, n \in T PROVE n + 1 \in T
  <2>1. a + n \in Nat /\ a + (n + 1) = (a + n) + 1 /\ Pow2[n] \in Nat
    BY PowType
  <2>2. Pow2[(a + n) + 1] = 2 * Pow2[a + n] /\ Pow2[n + 1] = 2 * Pow2[n]
    BY <2>1, PowStep
  <2>3. \A x, y \in Nat : 2 * (x * y) = x * (2 * y)
    OBVIOUS
  <2> QED
    BY <1>0, <1>2, <2>1, <2>2, <2>3
<1>3. \A n \in Nat : n \in T
  <2> HIDE DEF T
  <2> QED
    BY <1>1, <1>2, NatSetInduction
<1> QED
  BY <1>3

LEMMA PowMonotone ==
  ASSUME NEW a \in Nat, NEW b \in Nat, a <= b
  PROVE  Pow2[a] <= Pow2[b]
<1>1. b - a \in Nat /\ a + (b - a) = b
  OBVIOUS
<1>2. Pow2[b] = Pow2[a] * Pow2[b - a]
  BY <1>1, PowSum
<1>3. Pow2[a] \in Nat /\ Pow2[b - a] \in Nat /\ Pow2[b - a] >= 1
  BY <1>1, PowType
<1>4. \A x, y \in Nat : y >= 1 => x <= x * y
  OBVIOUS
<1> QED
  BY <1>2, <1>3, <1>4

(* A multiple of the smaller power. *)
LEMMA PowDivides ==
  ASSUME NEW a \in Nat, NEW b \in Nat, a <= b
  PROVE  \E q \in Nat : Pow2[b] = q * Pow2[a]
<1>1. b - a \in Nat /\ (b - a) + a = b
  OBVIOUS
<1> QED
  BY <1>1, PowSum, PowType

------------------------------------------------------------------------------
(* Quotients and remainders.                                               *)

LEMMA Division ==
  ASSUME NEW a \in Int, NEW m \in Nat, m > 0
  PROVE  /\ a \div m \in Int /\ a % m \in 0 .. m - 1
         /\ a = m * (a \div m) + (a % m)
OBVIOUS

(* There is one way to divide. *)
LEMMA DivisionUnique ==
  ASSUME NEW a \in Int, NEW m \in Nat, m > 0, NEW q \in Int, NEW r \in 0 .. m - 1,
         a = m * q + r
  PROVE  a \div m = q /\ a % m = r
<1> DEFINE p == a \div m
           s == a % m
<1>1. p \in Int /\ s \in 0 .. m - 1 /\ a = m * p + s
  BY Division
<1> HIDE DEF p, s
<1>2. m * (p - q) = r - s
  BY <1>1
<1>3. p - q < 1
  <2> SUFFICES ASSUME p - q >= 1 PROVE FALSE
    BY <1>1
  <2>1. m * (p - q) >= m
    BY <1>1
  <2> QED
    BY <1>1, <1>2, <2>1
<1>4. p - q > -1
  <2> SUFFICES ASSUME p - q <= -1 PROVE FALSE
    BY <1>1
  <2>1. m * (p - q) <= -m
    BY <1>1
  <2> QED
    BY <1>1, <1>2, <2>1
<1>5. p = q
  BY <1>1, <1>3, <1>4
<1>6. s = r
  BY <1>1, <1>5
<1> QED
  BY <1>5, <1>6 DEF p, s

(* Multiples do not change a remainder. *)
LEMMA RemainderShift ==
  ASSUME NEW a \in Int, NEW m \in Nat, m > 0, NEW q \in Int
  PROVE  (a + (m * q)) % m = a % m
<1> DEFINE p == a \div m
           r == a % m
<1>1. p \in Int /\ r \in 0 .. m - 1 /\ a = m * p + r
  BY Division
<1> HIDE DEF p, r
<1>2. m * (p + q) = m * p + m * q /\ m * q \in Int /\ m * p \in Int /\ p + q \in Int
  BY <1>1
<1>3. a + (m * q) = m * (p + q) + r
  BY <1>1, <1>2
<1>4. a + (m * q) \in Int
  BY <1>2
<1>5. (a + (m * q)) % m = r
  BY <1>1, <1>2, <1>3, <1>4, DivisionUnique
<1> QED
  BY <1>5 DEF r

------------------------------------------------------------------------------
(* The number a sequence of bytes stands for.                              *)

(* What the byte at place n + 1 counts. *)
Scale(n) == Pow2[Group * n]

LEMMA ScaleFacts ==
  /\ Scale(0) = 1
  /\ \A n \in Nat : /\ Scale(n) \in Nat /\ Scale(n) >= 1
                    /\ Scale(n + 1) = Scale(n) * Pow2[Group]
  /\ Pow2[Group] \in Nat /\ Pow2[Group] >= 2
<1>1. Group \in Nat /\ Group >= 1
  BY SizesAssumption
<1>2. \A n \in Nat : Group * n \in Nat /\ Group * (n + 1) = Group * n + Group
  BY <1>1
<1>3. Group * 0 = 0
  BY <1>1
<1>4. Scale(0) = 1
  BY <1>3, PowZero DEF Scale
<1>5. ASSUME NEW n \in Nat
      PROVE  Scale(n) \in Nat /\ Scale(n) >= 1 /\ Scale(n + 1) = Scale(n) * Pow2[Group]
  BY <1>1, <1>2, PowType, PowSum DEF Scale
<1>6. Pow2[1] = 2
  BY PowZero, PowStep, 0 + 1 = 1
<1>7. Pow2[Group] >= Pow2[1] /\ Pow2[Group] \in Nat
  BY <1>1, PowMonotone, PowType
<1> QED
  BY <1>4, <1>5, <1>6, <1>7

LEMMA LowType == \A b \in Int : Low(b) \in Nat /\ Low(b) < Pow2[Group]
BY ScaleFacts DEF Low

(* The partial sums of a weight. *)
AreWeights(f, bytes) ==
  /\ f \in [0 .. Len(bytes) -> Nat]
  /\ f[0] = 0
  /\ \A n \in 1 .. Len(bytes) : f[n] = f[n - 1] + Low(bytes[n]) * Scale(n - 1)

LEMMA WeightExists ==
  ASSUME NEW bytes \in Seq(Int)
  PROVE  \E f : AreWeights(f, bytes) /\ Weight(bytes) = f[Len(bytes)]
<1> DEFINE N == Len(bytes)
           term(n) == Low(bytes[n]) * Scale(n - 1)
           step == [n \in 1 .. N |-> [x \in Nat |-> x + term(n)]]
           Sum[i \in 0 .. N] ==
             IF i = 0 THEN 0 ELSE Sum[i - 1] + Low(bytes[i]) * Pow2[Group * (i - 1)]
<1>1. N \in Nat
  OBVIOUS
<1>2. \A n \in 1 .. N : term(n) \in Nat
  <2> SUFFICES ASSUME NEW n \in 1 .. N PROVE term(n) \in Nat
    OBVIOUS
  <2>1. bytes[n] \in Int /\ n - 1 \in Nat
    OBVIOUS
  <2>2. Low(bytes[n]) \in Nat /\ Scale(n - 1) \in Nat
    BY <2>1, LowType, ScaleFacts
  <2> QED
    BY <2>2
<1> HIDE DEF N, term
<1>3. step \in Steps(N, Nat)
  <2>1. \A n \in 1 .. N : \A x \in Nat : x + term(n) \in Nat
    BY <1>2
  <2> QED
    BY <2>1 DEF Steps
<1>4. \A n \in 1 .. N : \A x \in Nat : step[n][x] = x + term(n)
  OBVIOUS
<1> HIDE DEF step
<1>5. PICK f : Recursive(f, N, Nat, 0, step)
  BY <1>1, <1>3, Recursion
<1>6. f \in [0 .. N -> Nat] /\ \A n \in 0 .. N : f[n] = IF n = 0 THEN 0 ELSE step[n][f[n - 1]]
  BY <1>5 DEF Recursive
<1>7. \A n \in 0 .. N : f[n] = IF n = 0 THEN 0 ELSE f[n - 1] + term(n)
  <2> SUFFICES ASSUME NEW n \in 0 .. N, n # 0 PROVE f[n] = f[n - 1] + term(n)
    BY <1>6
  <2>1. n \in 1 .. N /\ n - 1 \in 0 .. N
    BY <1>1
  <2>2. f[n - 1] \in Nat
    BY <1>6, <2>1
  <2> QED
    BY <1>4, <1>6, <2>1, <2>2
<1>8. f = [n \in 0 .. N |-> IF n = 0 THEN 0 ELSE f[n - 1] + term(n)]
  BY <1>6, <1>7
<1>9. \E g : g = [i \in 0 .. N |-> IF i = 0 THEN 0 ELSE g[i - 1] + Low(bytes[i]) * Pow2[Group * (i - 1)]]
  BY <1>8 DEF term, Scale
<1>10. Sum = [i \in 0 .. N |-> IF i = 0 THEN 0 ELSE Sum[i - 1] + Low(bytes[i]) * Pow2[Group * (i - 1)]]
  BY <1>9
<1>11. Weight(bytes) = Sum[N]
  BY DEF Weight, N
<1> HIDE DEF Sum
<1>12. \A i \in 0 .. N : Sum[i] = IF i = 0 THEN 0 ELSE Sum[i - 1] + term(i)
  BY <1>10 DEF term, Scale
<1>13. \A i \in 0 .. N : Sum[i] = f[i]
  <2> DEFINE T == {i \in 0 .. N : Sum[i] = f[i]}
  <2>1. 0 \in T
    BY <1>1, <1>7, <1>12
  <2>2. ASSUME NEW n \in Nat, n < N, n \in T PROVE n + 1 \in T
    <3> DEFINE m == n + 1
    <3>1. m \in 0 .. N /\ m # 0 /\ m - 1 = n
      BY <1>1, <2>2
    <3> HIDE DEF m
    <3>2. Sum[m] = Sum[n] + term(m) /\ f[m] = f[n] + term(m)
      BY <1>7, <1>12, <3>1
    <3>3. m \in T
      BY <2>2, <3>1, <3>2
    <3> QED
      BY <3>3 DEF m
  <2> HIDE DEF T
  <2>3. \A n \in 0 .. N : n \in T
    BY <1>1, <2>1, <2>2, SetInduction
  <2> QED
    BY <2>3 DEF T
<1>14. AreWeights(f, bytes)
  <2>1. f[0] = 0
    BY <1>1, <1>7
  <2>2. \A n \in 1 .. N : f[n] = f[n - 1] + term(n)
    BY <1>1, <1>7
  <2> QED
    BY <1>6, <2>1, <2>2 DEF AreWeights, N, term
<1>15. Weight(bytes) = f[N]
  BY <1>1, <1>11, <1>13
<1> QED
  BY <1>14, <1>15 DEF N

LEMMA WeightEmpty == Weight(<< >>) = 0
<1>1. << >> \in Seq(Int) /\ Len(<< >>) = 0
  OBVIOUS
<1>2. PICK f : AreWeights(f, << >>) /\ Weight(<< >>) = f[Len(<< >>)]
  BY <1>1, WeightExists
<1> QED
  BY <1>1, <1>2 DEF AreWeights

(* The weights of a sequence begin those of any longer one. *)
LEMMA WeightsAgree ==
  ASSUME NEW s \in Seq(Int), NEW t \in Seq(Int), Len(s) <= Len(t),
         \A n \in 1 .. Len(s) : t[n] = s[n],
         NEW f, NEW h, AreWeights(f, s), AreWeights(h, t)
  PROVE  f[Len(s)] = h[Len(s)]
<1> DEFINE T == {n \in 0 .. Len(s) : f[n] = h[n]}
<1>0. Len(s) \in Nat /\ Len(t) \in Nat
  OBVIOUS
<1>1. 0 \in T
  BY <1>0 DEF AreWeights
<1>2. ASSUME NEW n \in Nat, n < Len(s), n \in T PROVE n + 1 \in T
  <2> DEFINE m == n + 1
  <2>1. m \in 1 .. Len(s) /\ m \in 1 .. Len(t) /\ m - 1 = n
    BY <1>0, <1>2
  <2> HIDE DEF m
  <2>2. /\ f[m] = f[m - 1] + Low(s[m]) * Scale(m - 1)
        /\ h[m] = h[m - 1] + Low(t[m]) * Scale(m - 1)
    BY <2>1 DEF AreWeights
  <2>3. t[m] = s[m]
    BY <2>1
  <2>4. f[m] = h[m]
    BY <1>2, <2>1, <2>2, <2>3
  <2>5. m \in T
    BY <1>0, <2>1, <2>4
  <2> QED
    BY <2>5 DEF m
<1> HIDE DEF T
<1>3. \A n \in 0 .. Len(s) : n \in T
  BY <1>0, <1>1, <1>2, SetInduction
<1> QED
  BY <1>0, <1>3 DEF T

LEMMA WeightAppend ==
  ASSUME NEW s \in Seq(Int), NEW b \in Int
  PROVE  Weight(Append(s, b)) = Weight(s) + Low(b) * Scale(Len(s))
<1> DEFINE t == Append(s, b)
           N == Len(s)
<1>1. /\ t \in Seq(Int) /\ N \in Nat /\ Len(t) = N + 1 /\ t[N + 1] = b
      /\ \A n \in 1 .. N : t[n] = s[n]
  OBVIOUS
<1>2. PICK f : AreWeights(f, s) /\ Weight(s) = f[N]
  BY WeightExists
<1> HIDE DEF t
<1>3. PICK h : AreWeights(h, t) /\ Weight(t) = h[Len(t)]
  BY <1>1, WeightExists
<1>4. f[N] = h[N]
  <2>1. Len(s) <= Len(t) /\ \A n \in 1 .. Len(s) : t[n] = s[n]
    BY <1>1
  <2> QED
    BY <1>1, <1>2, <1>3, <2>1, WeightsAgree, SMTT(40)
<1> HIDE DEF N
<1>5. h[N + 1] = h[(N + 1) - 1] + Low(t[N + 1]) * Scale((N + 1) - 1)
  <2>1. N + 1 \in 1 .. Len(t)
    BY <1>1
  <2>2. \A n \in 1 .. Len(t) : h[n] = h[n - 1] + Low(t[n]) * Scale(n - 1)
    BY <1>3 DEF AreWeights
  <2> QED
    BY <2>1, <2>2
<1>6. (N + 1) - 1 = N
  BY <1>1
<1>7. Weight(t) = Weight(s) + Low(b) * Scale(N)
  BY <1>1, <1>2, <1>3, <1>4, <1>5, <1>6
<1> QED
  BY <1>7 DEF t, N

LEMMA WeightBound ==
  ASSUME NEW s \in Seq(Int)
  PROVE  Weight(s) \in Nat /\ Weight(s) < Scale(Len(s))
<1>1. PICK f : AreWeights(f, s) /\ Weight(s) = f[Len(s)]
  BY WeightExists
<1> DEFINE N == Len(s)
           T == {n \in 0 .. N : f[n] < Scale(n)}
<1>2. N \in Nat /\ f \in [0 .. N -> Nat]
  BY <1>1 DEF AreWeights
<1>3. 0 \in T
  BY <1>1, <1>2, ScaleFacts DEF AreWeights
<1>4. ASSUME NEW n \in Nat, n < N, n \in T PROVE n + 1 \in T
  <2> DEFINE m == n + 1
             c == Scale(n)
             base == Pow2[Group]
             d == Low(s[m])
  <2>1. m \in 1 .. N /\ m - 1 = n /\ m \in 0 .. N /\ n \in 0 .. N
    BY <1>2, <1>4
  <2>2. s[m] \in Int
    BY <2>1
  <2>3. f[m] = f[n] + d * c
    BY <1>1, <2>1 DEF AreWeights
  <2>4. Scale(m) = c * base /\ c \in Nat /\ c >= 1 /\ base \in Nat
    BY ScaleFacts
  <2>5. d \in Nat /\ d <= base - 1
    <3> HIDE DEF m
    <3>1. d \in Nat /\ d < base
      BY <2>2, LowType
    <3> HIDE DEF d, base
    <3> QED
      BY <2>4, <3>1
  <2>6. f[n] < c /\ f[n] \in Nat
    BY <1>2, <1>4, <2>1
  <2> HIDE DEF m, c, base, d
  <2>7. \A x, y, z \in Nat : x <= y - 1 => x * z + z <= z * y
    OBVIOUS
  <2>8. d * c + c <= c * base /\ d * c \in Nat /\ c * base \in Nat
    BY <2>4, <2>5, <2>7
  <2>9. f[m] < Scale(m)
    BY <2>3, <2>4, <2>6, <2>8
  <2> QED
    BY <2>1, <2>9 DEF m
<1> HIDE DEF T
<1>5. \A n \in 0 .. N : n \in T
  BY <1>2, <1>3, <1>4, SetInduction
<1>6. f[N] \in Nat /\ f[N] < Scale(N)
  BY <1>2, <1>5 DEF T
<1> QED
  BY <1>1, <1>6

(* A byte before the others. *)
LEMMA WeightCons ==
  ASSUME NEW s \in Seq(Int), NEW b \in Int
  PROVE  Weight(<< b >> \o s) = Low(b) + Pow2[Group] * Weight(s)
<1> DEFINE t == << b >> \o s
           N == Len(s)
           base == Pow2[Group]
<1>1. /\ t \in Seq(Int) /\ N \in Nat /\ Len(t) = N + 1 /\ t[1] = b
      /\ \A n \in 1 .. N : t[n + 1] = s[n]
  OBVIOUS
<1>2. PICK f : AreWeights(f, s) /\ Weight(s) = f[N]
  BY WeightExists
<1> HIDE DEF t
<1>3. PICK h : AreWeights(h, t) /\ Weight(t) = h[Len(t)]
  BY <1>1, WeightExists
<1>4. /\ f \in [0 .. N -> Nat] /\ f[0] = 0
      /\ \A n \in 1 .. N : f[n] = f[n - 1] + Low(s[n]) * Scale(n - 1)
  BY <1>2 DEF AreWeights
<1>5. /\ h[0] = 0
      /\ \A n \in 1 .. N + 1 : h[n] = h[n - 1] + Low(t[n]) * Scale(n - 1)
  BY <1>1, <1>3 DEF AreWeights
<1>6. base \in Nat /\ Low(b) \in Nat
  BY ScaleFacts, LowType
<1> HIDE DEF N, base
<1> DEFINE T == {n \in 0 .. N : h[n + 1] = Low(b) + base * f[n]}
<1>7. 0 \in T
  <2>1. 0 + 1 \in 1 .. N + 1 /\ 0 + 1 = 1 /\ 1 - 1 = 0
    BY <1>1
  <2>2. h[1] = h[0] + Low(t[1]) * Scale(0)
    BY <1>5, <2>1
  <2>3. h[1] = Low(b)
    BY <1>1, <1>5, <1>6, <2>2, ScaleFacts
  <2>4. base * f[0] = 0
    BY <1>4, <1>6
  <2> QED
    BY <1>1, <1>6, <2>1, <2>3, <2>4
<1>8. ASSUME NEW n \in Nat, n < N, n \in T PROVE n + 1 \in T
  <2> DEFINE m == n + 1
             c == Scale(n)
             d == Low(s[m])
  <2>1. /\ m \in 1 .. N /\ m \in 0 .. N /\ m - 1 = n /\ m + 1 \in 1 .. N + 1 /\ m + 1 - 1 = m
        /\ n \in 0 .. N /\ m \in Nat
    BY <1>1, <1>8
  <2>2. s[m] \in Int /\ t[m + 1] = s[m]
    <3> HIDE DEF m
    <3> QED
      BY <1>1, <2>1, SMTT(40) DEF N
  <2>3. h[m + 1] = h[m] + Low(t[m + 1]) * Scale(m)
    <3> DEFINE k == m + 1
    <3>1. k \in 1 .. N + 1 /\ k - 1 = m
      BY <2>1
    <3> HIDE DEF k
    <3>2. h[k] = h[k - 1] + Low(t[k]) * Scale(k - 1)
      BY <1>5, <3>1
    <3>3. h[k] = h[m] + Low(t[k]) * Scale(m)
      BY <3>1, <3>2
    <3> QED
      BY <3>3 DEF k
  <2>4. f[m] = f[n] + d * c /\ f[n] \in Nat
    BY <1>4, <2>1
  <2>5. Scale(m) = c * base /\ c \in Nat /\ d \in Nat
    <3>1. Scale(m) = c * base /\ c \in Nat
      BY ScaleFacts DEF base
    <3> HIDE DEF m
    <3> QED
      BY <2>2, <3>1, LowType
  <2>6. h[m] = Low(b) + base * f[n]
    BY <1>8
  <2>7. h[m + 1] = h[m] + d * (c * base)
    BY <2>2, <2>3, <2>5
  <2> HIDE DEF m, c, d
  <2>8. \A x, y, z, w \in Nat : w * (x + y * z) = w * x + y * (z * w)
    OBVIOUS
  <2>9. base * f[m] = base * f[n] + d * (c * base)
    BY <1>6, <2>4, <2>5, <2>8
  <2>10. base * f[n] \in Nat /\ d * (c * base) \in Nat
    BY <1>6, <2>4, <2>5
  <2>11. h[m + 1] = Low(b) + base * f[m]
    BY <1>6, <2>6, <2>7, <2>9, <2>10
  <2>12. m \in T
    BY <2>1, <2>11
  <2> QED
    BY <2>12 DEF m
<1> HIDE DEF T
<1>9. \A n \in 0 .. N : n \in T
  BY <1>1, <1>7, <1>8, SetInduction
<1>10. Weight(t) = Low(b) + base * Weight(s)
  BY <1>1, <1>2, <1>3, <1>9 DEF T
<1> QED
  BY <1>10 DEF t, base

------------------------------------------------------------------------------
(* The bytes a number is encoded in.                                       *)

(* Where the call is one of a type with at least one bit. *)
Typed == signed \in BOOLEAN /\ dest \in Nat /\ dest >= 1

(* The least power that the numbers of n groups do not reach, if signed. *)
Half(n) == Pow2[Group * n - 1]

Fits(v, n) == IF signed THEN -Half(n) <= v /\ v < Half(n) ELSE 0 <= v /\ v < Scale(n)

LEMMA HalfFacts ==
  ASSUME NEW n \in Nat, n >= 1
  PROVE  /\ Half(n) \in Nat /\ Half(n) >= 1
         /\ Half(n + 1) = Half(n) * Pow2[Group]
         /\ Scale(n) = 2 * Half(n)
<1>1. Group \in Nat /\ Group >= 1
  BY SizesAssumption
<1>2. Group * n \in Nat /\ Group * n >= 1 /\ Group * (n + 1) = Group * n + Group
  BY <1>1
<1> DEFINE g == Group * n
<1>3. g - 1 \in Nat /\ g = (g - 1) + 1 /\ Group * (n + 1) - 1 = (g - 1) + Group
  BY <1>1, <1>2
<1> HIDE DEF g
<1>4. Pow2[g] = 2 * Pow2[g - 1] /\ Pow2[(g - 1) + Group] = Pow2[g - 1] * Pow2[Group]
  BY <1>1, <1>3, PowStep, PowSum
<1>5. Pow2[g - 1] \in Nat /\ Pow2[g - 1] >= 1
  BY <1>3, PowType
<1>6. Half(n) = Pow2[g - 1] /\ Half(n + 1) = Pow2[(g - 1) + Group] /\ Scale(n) = Pow2[g]
  BY <1>3 DEF Half, Scale, g
<1> QED
  BY <1>4, <1>5, <1>6

LEMMA OneGroup == Scale(1) = Pow2[Group] /\ Pow2[Group] = 2 * Pow2[Group - 1] /\ Pow2[Group - 1] \in Nat /\ Half(1) = Pow2[Group - 1]
<1>1. Group \in Nat /\ Group >= 1 /\ Group * 1 = Group
  BY SizesAssumption
<1>2. Scale(1) = Pow2[Group] /\ Half(1) = Pow2[Group - 1]
  BY <1>1 DEF Scale, Half
<1> QED
  BY <1>2, HalfFacts

(* The quotient of what lies between multiples lies between the factors. *)
LEMMA FloorBetween ==
  ASSUME NEW m \in Nat, m >= 1, NEW q \in Int, NEW r \in 0 .. m - 1,
         NEW lo \in Int, NEW hi \in Int, lo * m <= m * q + r, m * q + r < hi * m
  PROVE  lo <= q /\ q < hi
<1>1. \A x, y \in Int : x >= y => m * x >= m * y
  OBVIOUS
<1>2. lo <= q
  <2> SUFFICES ASSUME lo >= q + 1 PROVE FALSE
    OBVIOUS
  <2>1. m * lo >= m * (q + 1)
    BY <1>1
  <2>2. m * (q + 1) = m * q + m /\ lo * m = m * lo /\ m * q \in Int
    OBVIOUS
  <2> QED
    BY <2>1, <2>2
<1>3. q < hi
  <2> SUFFICES ASSUME q >= hi PROVE FALSE
    OBVIOUS
  <2>1. m * q >= m * hi /\ hi * m = m * hi /\ m * q \in Int
    BY <1>1
  <2> QED
    BY <2>1
<1> QED
  BY <1>2, <1>3

LEMMA RestFacts ==
  ASSUME NEW v \in Int
  PROVE  /\ Rest(v) \in Int /\ Low(v) \in 0 .. Pow2[Group] - 1
         /\ v = Pow2[Group] * Rest(v) + Low(v)
         /\ Low(Low(v)) = Low(v)
         /\ Low(Low(v) + Pow2[Group]) = Low(v)
<1> DEFINE base == Pow2[Group]
<1>1. base \in Nat /\ base >= 2
  BY ScaleFacts
<1> HIDE DEF base
<1>2. /\ v \div base \in Int /\ v % base \in 0 .. base - 1
      /\ v = base * (v \div base) + (v % base)
  BY <1>1, Division
<1> DEFINE r == v % base
<1>3. r \in Int /\ r = base * 0 + r /\ 0 \in Int
  BY <1>1, <1>2
<1> HIDE DEF r
<1>4. r \in 0 .. base - 1
  BY <1>2 DEF r
<1>5. r % base = r
  BY <1>1, <1>3, <1>4, DivisionUnique
<1>6. (r + (base * 1)) % base = r % base
  BY <1>1, <1>3, RemainderShift
<1>7. (r + base) % base = r
  BY <1>1, <1>5, <1>6
<1> QED
  BY <1>2, <1>5, <1>7 DEF r, base, Rest, Low

LEMMA SignBitFacts ==
  ASSUME NEW v \in Int
  PROVE  /\ SignBit(v) <=> Low(v) >= Half(1)
         /\ SignBit(Low(v)) <=> SignBit(v)
BY RestFacts, OneGroup DEF SignBit

(* A number ends where it fits in one group. *)
LEMMA EndsFits ==
  ASSUME Typed, NEW v \in Int
  PROVE  Ends(v) <=> Fits(v, 1)
<1> DEFINE base == Pow2[Group]
           h == Half(1)
           q == Rest(v)
           r == Low(v)
<1>1. base \in Nat /\ base >= 2 /\ h \in Nat /\ base = 2 * h /\ Scale(1) = base
  BY ScaleFacts, OneGroup
<1>2. q \in Int /\ r \in 0 .. base - 1 /\ v = base * q + r
  BY RestFacts
<1>3. SignBit(v) <=> r >= h
  BY SignBitFacts
<1>4. q = v \div base
  BY DEF Rest
<1>5. Ends(v) <=> IF signed THEN (q = 0 /\ r < h) \/ (q = -1 /\ r >= h) ELSE q = 0
  <2> HIDE DEF h, r
  <2>1. r \in Int /\ h \in Int
    BY <1>1, <1>2
  <2> QED
    BY <1>3, <2>1 DEF Ends
<1>6. Fits(v, 1) <=> IF signed THEN -h <= v /\ v < h ELSE 0 <= v /\ v < base
  BY <1>1 DEF Fits
<1> HIDE DEF base, h, q, r
<1>7. q = 0 => v = r
  BY <1>1, <1>2
<1>8. q = -1 => v = r - base
  BY <1>1, <1>2
<1>9. 0 <= v /\ v < base => q = 0
  <2> SUFFICES ASSUME 0 <= v, v < base PROVE q = 0
    OBVIOUS
  <2>1. v \in 0 .. base - 1 /\ v = base * 0 + v /\ 0 \in Int /\ base > 0
    BY <1>1
  <2> QED
    BY <1>1, <1>4, <2>1, DivisionUnique
<1>10. -base <= v /\ v < 0 => q = -1
  <2> SUFFICES ASSUME -base <= v, v < 0 PROVE q = -1
    OBVIOUS
  <2>1. v + base \in 0 .. base - 1 /\ v = base * (-1) + (v + base) /\ -1 \in Int /\ base > 0
    BY <1>1
  <2> QED
    BY <1>1, <1>4, <2>1, DivisionUnique
<1>11. signed \in BOOLEAN
  BY DEF Typed
<1>12. CASE signed
  BY <1>1, <1>2, <1>5, <1>6, <1>7, <1>8, <1>9, <1>10, <1>12
<1>13. CASE ~signed
  BY <1>1, <1>2, <1>5, <1>6, <1>7, <1>9, <1>13
<1> QED
  BY <1>11, <1>12, <1>13

(* What is left of a number fits in a group less. *)
LEMMA RestFits ==
  ASSUME Typed, NEW v \in Int, NEW n \in Nat, n >= 1, Fits(v, n + 1)
  PROVE  Fits(Rest(v), n)
<1> DEFINE base == Pow2[Group]
           q == Rest(v)
           r == Low(v)
<1>1. base \in Nat /\ base >= 2 /\ base >= 1
  BY ScaleFacts
<1>2. q \in Int /\ r \in 0 .. base - 1 /\ v = base * q + r
  BY RestFacts
<1>3. CASE signed
  <2> DEFINE h == Half(n)
  <2>1. h \in Nat /\ Half(n + 1) = h * base
    BY HalfFacts
  <2>2. -Half(n + 1) <= v /\ v < Half(n + 1)
    BY <1>3 DEF Fits
  <2> HIDE DEF h, base, q, r
  <2>3. (-h) * base = -(h * base) /\ -h \in Int /\ h \in Int
    BY <1>1, <2>1
  <2>4. (-h) * base <= base * q + r /\ base * q + r < h * base
    BY <1>2, <2>1, <2>2, <2>3
  <2>5. -h <= q /\ q < h
    BY <1>1, <1>2, <2>3, <2>4, FloorBetween
  <2> QED
    BY <1>3, <2>5 DEF Fits, h, q
<1>4. CASE ~signed
  <2> DEFINE s == Scale(n)
  <2>1. s \in Nat /\ Scale(n + 1) = s * base
    BY ScaleFacts
  <2>2. 0 <= v /\ v < Scale(n + 1)
    BY <1>4 DEF Fits
  <2> HIDE DEF s, base, q, r
  <2>3. 0 * base = 0 /\ 0 \in Int /\ s \in Int
    BY <1>1, <2>1
  <2>4. 0 * base <= base * q + r /\ base * q + r < s * base
    BY <1>2, <2>1, <2>2, <2>3
  <2>5. 0 <= q /\ q < s
    BY <1>1, <1>2, <2>3, <2>4, FloorBetween
  <2> QED
    BY <1>4, <2>5 DEF Fits, s, q
<1> QED
  BY <1>3, <1>4 DEF Typed

LEMMA ModulusFacts ==
  ASSUME Typed
  PROVE  /\ Modulus \in Nat /\ Modulus >= 2
         /\ Modulus \div 2 = Pow2[dest - 1] /\ Modulus = 2 * Pow2[dest - 1]
         /\ Pow2[dest - 1] \in Nat /\ Pow2[dest - 1] >= 1
<1>1. dest - 1 \in Nat /\ (dest - 1) + 1 = dest
  BY DEF Typed
<1>2. Pow2[dest] = 2 * Pow2[dest - 1]
  BY <1>1, PowStep
<1>3. Pow2[dest - 1] \in Nat /\ Pow2[dest - 1] >= 1
  BY <1>1, PowType
<1> QED
  BY <1>2, <1>3 DEF Modulus

LEMMA ValuesFacts ==
  ASSUME Typed, NEW v \in Values
  PROVE  v \in Int /\ Rest(v) \in Values /\ Fits(v, dest)
<1> DEFINE base == Pow2[Group]
           h == Pow2[dest - 1]
           m == Modulus
           q == Rest(v)
           r == Low(v)
<1>1. base \in Nat /\ base >= 2 /\ base >= 1
  BY ScaleFacts
<1>2. h \in Nat /\ m \in Nat /\ m \div 2 = h /\ h >= 1
  BY ModulusFacts
<1>3. v \in Int
  BY <1>2 DEF Values
<1>4. q \in Int /\ r \in 0 .. base - 1 /\ v = base * q + r
  BY <1>3, RestFacts
<1>5. Values = IF signed THEN -h .. h - 1 ELSE 0 .. m - 1
  BY <1>2 DEF Values
<1>6. dest \in Nat /\ dest >= 1 /\ signed \in BOOLEAN
  BY DEF Typed
<1>7. Group * dest \in Nat /\ Group * dest >= dest /\ dest - 1 \in Nat
  <2>1. Group \in Nat /\ Group >= 1
    BY SizesAssumption
  <2> QED
    BY <1>6, <2>1
<1>8. h <= Half(dest) /\ m <= Scale(dest) /\ Half(dest) \in Nat /\ Scale(dest) \in Nat
  <2>1. Group * dest - 1 \in Nat /\ dest - 1 <= Group * dest - 1
    BY <1>6, <1>7
  <2>2. Pow2[dest - 1] <= Pow2[Group * dest - 1] /\ Pow2[dest] <= Pow2[Group * dest]
    BY <1>6, <1>7, <2>1, PowMonotone
  <2>3. Half(dest) \in Nat /\ Scale(dest) \in Nat
    BY <1>6, HalfFacts, ScaleFacts
  <2> QED
    BY <2>2, <2>3 DEF Half, Scale, Modulus
<1> HIDE DEF base, h, m, q, r
<1>9. Fits(v, dest)
  BY <1>2, <1>3, <1>5, <1>6, <1>8 DEF Fits
<1>10. ASSUME NEW lo \in Int, NEW hi \in Int, lo <= 0, hi >= 0, lo <= v, v < hi
       PROVE  lo <= q /\ q < hi
  <2>1. \A x \in Nat : x <= x * base
    BY <1>1
  <2>2. hi <= hi * base
    BY <1>10, <2>1
  <2>3. -lo <= (-lo) * base /\ (-lo) * base = -(lo * base) /\ lo * base \in Int /\ hi * base \in Int
    BY <1>1, <1>10, <2>1
  <2>4. lo * base <= base * q + r /\ base * q + r < hi * base
    BY <1>3, <1>4, <1>10, <2>2, <2>3
  <2> QED
    BY <1>1, <1>4, <2>4, FloorBetween
<1>11. q \in Values
  <2>1. CASE signed
    <3>1. -h <= v /\ v < h /\ -h \in Int /\ h \in Int
      BY <1>2, <1>3, <1>5, <2>1
    <3>2. -h <= q /\ q < h
      BY <1>2, <1>10, <3>1
    <3> QED
      BY <1>2, <1>4, <1>5, <2>1, <3>2
  <2>2. CASE ~signed
    <3>1. 0 <= v /\ v < m /\ m \in Int
      BY <1>2, <1>3, <1>5, <2>2
    <3>2. 0 <= q /\ q < m
      BY <1>2, <1>10, <3>1
    <3> QED
      BY <1>2, <1>4, <1>5, <2>2, <3>2
  <2> QED
    BY <1>6, <2>1, <2>2
<1> QED
  BY <1>3, <1>9, <1>11 DEF q

(* One turn of the encoder, the bytes after this one being those f gives. *)
Turn(f, v) ==
  IF Ends(v) THEN << Low(v) >> ELSE << Low(v) + Pow2[Group] >> \o f[Rest(v)]

LEMMA EncodingDef ==
  ASSUME Typed
  PROVE  \A v \in Values : Encoding[v] = Turn(Encoding, v)
<1> DEFINE T == {n \in Nat : \E f : \A v \in Values : Fits(v, n + 1) => f[v] = Turn(f, v)}
<1>1. 0 \in T
  <2> DEFINE f == [v \in Values |-> << Low(v) >>]
  <2>1. ASSUME NEW v \in Values, Fits(v, 1) PROVE f[v] = Turn(f, v)
    <3>1. Ends(v)
      BY <2>1, EndsFits, ValuesFacts
    <3> QED
      BY <3>1 DEF Turn
  <2> HIDE DEF f
  <2>2. 0 + 1 = 1
    OBVIOUS
  <2> QED
    BY <2>1, <2>2
<1>2. ASSUME NEW n \in Nat, n \in T PROVE n + 1 \in T
  <2> DEFINE m == n + 1
  <2>1. PICK f : \A v \in Values : Fits(v, m) => f[v] = Turn(f, v)
    BY <1>2
  <2>2. m \in Nat /\ m >= 1
    OBVIOUS
  <2> HIDE DEF m
  <2> DEFINE g == [v \in Values |-> Turn(f, v)]
  <2>3. \A v \in Values : g[v] = Turn(f, v)
    OBVIOUS
  <2> HIDE DEF g
  <2>4. ASSUME NEW v \in Values, Fits(v, m + 1) PROVE g[v] = Turn(g, v)
    <3>1. v \in Int /\ Rest(v) \in Values
      BY ValuesFacts
    <3>2. Fits(Rest(v), m)
      BY <2>2, <2>4, <3>1, RestFits
    <3>3. g[Rest(v)] = f[Rest(v)]
      BY <2>1, <2>3, <3>1, <3>2
    <3>4. Turn(g, v) = Turn(f, v)
      BY <3>3 DEF Turn
    <3> QED
      BY <2>3, <3>4
  <2>5. m \in T
    BY <2>2, <2>4
  <2> QED
    BY <2>5 DEF m
<1>3. dest \in Nat /\ dest >= 1 /\ dest - 1 \in Nat /\ (dest - 1) + 1 = dest
  BY DEF Typed
<1>4. dest - 1 \in T
  <2> HIDE DEF T
  <2>1. \A n \in Nat : n \in T
    BY <1>1, <1>2, NatSetInduction
  <2> QED
    BY <1>3, <2>1
<1>5. PICK f : \A v \in Values : Fits(v, (dest - 1) + 1) => f[v] = Turn(f, v)
  BY <1>4
<1> HIDE DEF T
<1> DEFINE g == [v \in Values |-> f[v]]
<1>6. \A v \in Values : Fits(v, dest) => f[v] = Turn(f, v)
  BY <1>3, <1>5
<1>7. \A v \in Values : g[v] = f[v]
  OBVIOUS
<1>8. g = [v \in Values |-> IF Ends(v) THEN << Low(v) >>
                            ELSE << Low(v) + Pow2[Group] >> \o g[Rest(v)]]
  <2>1. ASSUME NEW v \in Values
        PROVE  f[v] = IF Ends(v) THEN << Low(v) >>
                      ELSE << Low(v) + Pow2[Group] >> \o g[Rest(v)]
    <3> HIDE DEF g
    <3>1. Rest(v) \in Values /\ Fits(v, dest)
      BY ValuesFacts
    <3>2. f[v] = Turn(f, v) /\ g[Rest(v)] = f[Rest(v)]
      BY <1>6, <1>7, <3>1
    <3> QED
      BY <3>2 DEF Turn
  <2> DEFINE k == [v \in Values |-> IF Ends(v) THEN << Low(v) >>
                                    ELSE << Low(v) + Pow2[Group] >> \o g[Rest(v)]]
  <2>2. \A v \in Values : k[v] = g[v]
    BY <1>7, <2>1
  <2>3. k = [v \in Values |-> k[v]] /\ g = [v \in Values |-> g[v]]
    OBVIOUS
  <2> HIDE DEF k, g
  <2>4. k = g
    BY <2>2, <2>3
  <2> QED
    BY <2>4 DEF k
<1> HIDE DEF g
<1>9. \E e : e = [v \in Values |-> IF Ends(v) THEN << Low(v) >>
                                   ELSE << Low(v) + Pow2[Group] >> \o e[Rest(v)]]
  BY <1>8
<1>10. Encoding = [v \in Values |-> IF Ends(v) THEN << Low(v) >>
                                    ELSE << Low(v) + Pow2[Group] >> \o Encoding[Rest(v)]]
  BY <1>9 DEF Encoding
<1> QED
  BY <1>10 DEF Turn

(* The number that bytes stand for, the sign of the last one included. *)
Stands(bytes) ==
  Weight(bytes)
    - (IF signed /\ SignBit(bytes[Len(bytes)]) THEN Scale(Len(bytes)) ELSE 0)

LEMMA WeightOne ==
  ASSUME NEW b \in Int
  PROVE  Weight(<< b >>) = Low(b)
<1>1. << >> \in Seq(Int) /\ << b >> = Append(<< >>, b) /\ Len(<< >>) = 0
  OBVIOUS
<1>2. Weight(<< b >>) = Weight(<< >>) + Low(b) * Scale(0)
  BY <1>1, WeightAppend
<1>3. Low(b) \in Nat
  BY LowType
<1> QED
  BY <1>2, <1>3, WeightEmpty, ScaleFacts

(* The last byte, which has no number after it. *)
LEMMA LastStands ==
  ASSUME Typed, NEW v \in Int, Ends(v)
  PROVE  Stands(<< Low(v) >>) = v
<1> DEFINE base == Pow2[Group]
           q == Rest(v)
           r == Low(v)
<1>1. base \in Nat /\ Scale(1) = base
  BY ScaleFacts, OneGroup
<1>2. q \in Int /\ r \in 0 .. base - 1 /\ r \in Int /\ v = base * q + r /\ Low(r) = r
  BY RestFacts
<1>3. SignBit(r) <=> SignBit(v)
  BY SignBitFacts
<1>4. Weight(<< r >>) = r
  BY <1>2, WeightOne
<1>5. Len(<< r >>) = 1 /\ << r >>[1] = r
  OBVIOUS
<1> HIDE DEF base, q, r
<1>6. Stands(<< r >>) = r - (IF signed /\ SignBit(v) THEN base ELSE 0)
  BY <1>1, <1>3, <1>4, <1>5 DEF Stands
<1>7. IF signed THEN (q = 0 /\ ~SignBit(v)) \/ (q = -1 /\ SignBit(v)) ELSE q = 0
  BY Zenon DEF Ends, q
<1>8. q = 0 => v = r
  BY <1>1, <1>2
<1>9. q = -1 => v = r - base
  BY <1>1, <1>2
<1>10. signed \in BOOLEAN
  BY DEF Typed
<1>11. Stands(<< r >>) = v
  <2>1. CASE signed /\ q = 0 /\ ~SignBit(v)
    BY <1>2, <1>6, <1>8, <2>1
  <2>2. CASE signed /\ q = -1 /\ SignBit(v)
    BY <1>6, <1>9, <2>2
  <2>3. CASE ~signed
    BY <1>2, <1>6, <1>7, <1>8, <2>3
  <2> QED
    BY <1>7, <1>10, <2>1, <2>2, <2>3
<1> QED
  BY <1>11 DEF r

(* A byte before those of the rest. *)
LEMMA ConsStands ==
  ASSUME Typed, NEW v \in Int, NEW s \in Seq(Int), Len(s) >= 1, Stands(s) = Rest(v)
  PROVE  Stands(<< Low(v) + Pow2[Group] >> \o s) = v
<1> DEFINE base == Pow2[Group]
           q == Rest(v)
           r == Low(v)
           b == r + base
           t == << b >> \o s
           w == Weight(s)
           c == Scale(Len(s))
           neg == signed /\ SignBit(s[Len(s)])
<1>1. base \in Nat /\ c \in Nat /\ Scale(Len(s) + 1) = c * base
  BY ScaleFacts
<1>2. q \in Int /\ r \in 0 .. base - 1 /\ r \in Int /\ v = base * q + r /\ Low(b) = r
  <2>1. Low(b) = r
    BY RestFacts, Zenon
  <2>2. q \in Int /\ r \in 0 .. base - 1 /\ v = base * q + r
    BY RestFacts, Zenon
  <2>3. r \in Int
    <3> HIDE DEF r, base
    <3> QED
      BY <1>1, <2>2
  <2> QED
    BY <2>1, <2>2, <2>3, Zenon
<1>3. b \in Int
  BY <1>1, <1>2
<1>4. w \in Nat
  BY WeightBound
<1>5. Weight(t) = r + base * w
  <2> HIDE DEF b
  <2> QED
    BY <1>2, <1>3, WeightCons
<1>6. Len(t) = Len(s) + 1 /\ t[Len(t)] = s[Len(s)]
  <2> HIDE DEF b
  <2> QED
    BY <1>3
<1> HIDE DEF t
<1>7. Stands(t) = r + base * w - (IF neg THEN c * base ELSE 0)
  <2> HIDE DEF base, r, w, c
  <2>1. Stands(t) = Weight(t) - (IF neg THEN Scale(Len(s) + 1) ELSE 0)
    BY <1>6 DEF Stands
  <2> HIDE DEF neg
  <2>2. Stands(t) = (r + base * w) - (IF neg THEN c * base ELSE 0)
    BY <1>1, <1>5, <2>1, Zenon
  <2>3. base * w \in Int /\ c * base \in Int /\ r \in Int
    BY <1>1, <1>2, <1>4
  <2> QED
    BY <2>2, <2>3
<1>8. q = w - (IF neg THEN c ELSE 0)
  BY DEF Stands
<1> HIDE DEF base, q, r, b, w, c, neg
<1>9. CASE neg
  <2>1. base * (w - c) = base * w - c * base /\ base * w \in Int /\ c * base \in Int
    BY <1>1, <1>4
  <2>2. base * q = base * w - c * base
    BY <1>8, <1>9, <2>1
  <2>3. Stands(t) = (r + base * w) - c * base
    BY <1>1, <1>2, <1>4, <1>7, <1>9, <2>1
  <2>4. Stands(t) = v
    BY <1>2, <2>1, <2>2, <2>3
  <2> QED
    BY <2>4 DEF t, b, base, r
<1>10. CASE ~neg
  <2>1. base * w \in Int /\ q = w
    BY <1>1, <1>4, <1>8, <1>10
  <2>2. Stands(t) = r + base * w
    BY <1>2, <1>7, <1>10, <2>1
  <2>3. Stands(t) = v
    BY <1>2, <2>1, <2>2
  <2> QED
    BY <2>3 DEF t, b, base, r
<1> QED
  BY <1>9, <1>10

(* An encoding is of the number, and has no more groups than it needs. *)
Encodes(bytes, v, most) ==
  /\ bytes \in Seq(Int) /\ Len(bytes) >= 1 /\ Len(bytes) <= most
  /\ Stands(bytes) = v

LEMMA EncodingFacts ==
  ASSUME Typed
  PROVE  \A v \in Values : \A n \in Nat :
           n >= 1 /\ Fits(v, n) => Encodes(Encoding[v], v, n)
<1> DEFINE T == {n \in Nat : \A v \in Values : Fits(v, n + 1) => Encodes(Encoding[v], v, n + 1)}
<1>1. ASSUME NEW v \in Values, NEW n \in Nat, n >= 1, Ends(v)
      PROVE  Encodes(Encoding[v], v, n)
  <2>1. v \in Int /\ Low(v) \in Int
    BY ValuesFacts, RestFacts
  <2>2. Encoding[v] = << Low(v) >>
    BY <1>1, EncodingDef DEF Turn
  <2>3. Stands(<< Low(v) >>) = v
    BY <1>1, <2>1, LastStands
  <2>4. << Low(v) >> \in Seq(Int) /\ Len(<< Low(v) >>) = 1
    BY <2>1
  <2> QED
    BY <1>1, <2>2, <2>3, <2>4 DEF Encodes
<1>2. 0 \in T
  <2>1. ASSUME NEW v \in Values, Fits(v, 1) PROVE Encodes(Encoding[v], v, 1)
    <3>1. Ends(v)
      BY <2>1, EndsFits, ValuesFacts
    <3> QED
      BY <1>1, <3>1
  <2>2. 0 + 1 = 1
    OBVIOUS
  <2> QED
    BY <2>1, <2>2
<1>3. ASSUME NEW n \in Nat, n \in T PROVE n + 1 \in T
  <2> DEFINE m == n + 1
  <2>1. \A v \in Values : Fits(v, m) => Encodes(Encoding[v], v, m)
    BY <1>3
  <2>2. m \in Nat /\ m >= 1 /\ m + 1 \in Nat /\ m + 1 >= 1
    OBVIOUS
  <2> HIDE DEF m
  <2>3. ASSUME NEW v \in Values, Fits(v, m + 1) PROVE Encodes(Encoding[v], v, m + 1)
    <3>1. CASE Ends(v)
      BY <1>1, <2>2, <3>1
    <3>2. CASE ~Ends(v)
      <4> DEFINE s == Encoding[Rest(v)]
                 b == Low(v) + Pow2[Group]
      <4>1. v \in Int /\ Rest(v) \in Values /\ Low(v) \in Int
        BY ValuesFacts, RestFacts
      <4>2. Fits(Rest(v), m)
        BY <2>2, <2>3, <4>1, RestFits
      <4>3. s \in Seq(Int) /\ Len(s) >= 1 /\ Len(s) <= m /\ Stands(s) = Rest(v)
        BY <2>1, <4>1, <4>2 DEF Encodes
      <4>4. Encoding[v] = << b >> \o s
        BY <3>2, EncodingDef DEF Turn
      <4> HIDE DEF s
      <4>5. Stands(<< b >> \o s) = v
        BY <4>1, <4>3, ConsStands
      <4>6. b \in Int
        BY <4>1, ScaleFacts
      <4> HIDE DEF b
      <4>7. << b >> \o s \in Seq(Int) /\ Len(<< b >> \o s) = Len(s) + 1 /\ Len(s) \in Nat
        BY <4>3, <4>6
      <4> QED
        BY <2>2, <4>3, <4>4, <4>5, <4>7 DEF Encodes
    <3> QED
      BY <3>1, <3>2
  <2>4. m \in T
    BY <2>2, <2>3
  <2> QED
    BY <2>4 DEF m
<1>4. \A n \in Nat : n \in T
  <2> HIDE DEF T
  <2> QED
    BY <1>2, <1>3, NatSetInduction
<1>5. SUFFICES ASSUME NEW v \in Values, NEW n \in Nat, n >= 1, Fits(v, n)
               PROVE  Encodes(Encoding[v], v, n)
  OBVIOUS
<1>6. n - 1 \in Nat /\ (n - 1) + 1 = n
  BY <1>5
<1>7. n - 1 \in T
  <2> HIDE DEF T
  <2> QED
    BY <1>4, <1>6
<1>8. Fits(v, (n - 1) + 1) => Encodes(Encoding[v], v, (n - 1) + 1)
  BY <1>7
<1> QED
  BY <1>5, <1>6, <1>8

------------------------------------------------------------------------------
(* What is made of the bytes read.                                         *)

(* The state when the last byte is read. *)
AllRead ==
  /\ parser \in {"c", "qi", "x3"}
  /\ width \in Nat /\ width <= dest
  /\ parser = "qi" => width = dest
  /\ read \in Seq(Int) /\ Len(read) >= 1
  /\ shift \in Nat
  /\ signed => shift = Group * Len(read)
  /\ value = Weight(read) % Modulus

LEMMA SignLimits ==
  ASSUME Typed, AllRead
  PROVE  /\ SignLimit \in Nat /\ SignLimit <= dest
         /\ parser # "x3" => SignLimit = dest
         /\ parser = "x3" => SignLimit = width
BY DEF Typed, AllRead, SignLimit

LEMMA ReadFacts ==
  ASSUME Typed, AllRead
  PROVE  /\ value \in 0 .. Modulus - 1 /\ Weight(read) \in Nat /\ value <= Weight(read)
         /\ \E k \in Int : value = Weight(read) + Modulus * k
         /\ Pow2[shift] \in Nat
         /\ signed => Pow2[shift] = Scale(Len(read)) /\ Weight(read) < Pow2[shift]
<1> DEFINE w == Weight(read)
           m == Modulus
<1>1. m \in Nat /\ m > 0
  BY ModulusFacts
<1>2. w \in Nat /\ w < Scale(Len(read))
  BY WeightBound DEF AllRead
<1>3. value = w % m
  BY DEF AllRead
<1>4. Pow2[shift] \in Nat
  BY PowType DEF AllRead
<1>5. signed => Pow2[shift] = Scale(Len(read))
  BY DEF AllRead, Scale
<1> HIDE DEF w, m
<1> DEFINE q == w \div m
<1>6. q \in Int /\ value \in 0 .. m - 1 /\ w = m * q + value
  BY <1>1, <1>2, <1>3, Division
<1> HIDE DEF q
<1>7. q >= 0
  <2> SUFFICES ASSUME q <= -1 PROVE FALSE
    BY <1>6
  <2>1. m * q <= -m
    BY <1>1, <1>6
  <2> QED
    BY <1>1, <1>2, <1>6, <2>1
<1>8. m * q >= 0 /\ m * q \in Int
  BY <1>1, <1>6, <1>7
<1>9. value <= w
  BY <1>2, <1>6, <1>8
<1>10. value = w + m * (-q) /\ -q \in Int
  <2>1. m * (-q) = -(m * q)
    BY <1>1, <1>6
  <2> QED
    BY <1>2, <1>6, <1>8, <2>1
<1> QED
  BY <1>1, <1>2, <1>4, <1>5, <1>6, <1>9, <1>10 DEF w, m

(* The sign is extended within the type. *)
LEMMA ExtendedInType ==
  ASSUME Typed, AllRead
  PROVE  SignExtended \in 0 .. Modulus - 1
<1>1. /\ value \in 0 .. Modulus - 1 /\ value <= Weight(read) /\ Weight(read) \in Nat
      /\ Pow2[shift] \in Nat
      /\ signed => Weight(read) < Pow2[shift]
  BY ReadFacts
<1>2. Modulus \in Nat
  BY ModulusFacts
<1>3. CASE signed /\ shift < SignLimit /\ NegativeByte(LastByte)
  <2>1. shift \in Nat /\ dest \in Nat /\ shift <= dest
    BY <1>3, SignLimits DEF AllRead, Typed
  <2>2. Pow2[shift] <= Modulus
    BY <2>1, PowMonotone DEF Modulus
  <2>3. SignExtended = value + (Modulus - Pow2[shift])
    BY <1>3 DEF SignExtended
  <2> QED
    BY <1>1, <1>2, <1>3, <2>2, <2>3
<1>4. CASE ~(signed /\ shift < SignLimit /\ NegativeByte(LastByte))
  BY <1>1, <1>4 DEF SignExtended
<1> QED
  BY <1>3, <1>4

LEMMA DenotedStands == Denoted = Stands(read)
BY DEF Denoted, Stands, LastByte, Scale

(* It leads to the number encoded, but for the sign that is dropped. *)
LEMMA ExtendedStands ==
  ASSUME Typed, AllRead
  PROVE  /\ Offset \in Nat /\ Stands(read) \in Int
         /\ \E k \in Int : SignExtended = (Stands(read) + Offset) + Modulus * k
<1> DEFINE w == Weight(read)
           m == Modulus
           p == Pow2[shift]
           neg == signed /\ SignBit(LastByte)
<1>1. /\ w \in Nat /\ m \in Nat /\ p \in Nat /\ value \in Int
      /\ \E k \in Int : value = w + m * k
      /\ signed => p = Scale(Len(read))
  BY ReadFacts, ModulusFacts, SMTT(40)
<1>2. PICK k \in Int : value = w + m * k
  BY <1>1
<1>3. Stands(read) = w - (IF neg THEN p ELSE 0)
  BY <1>1 DEF Stands, LastByte
<1>4. Offset = IF SignDropped THEN p ELSE 0
  BY DEF Offset
<1>5. SignExtended = IF neg /\ shift < SignLimit THEN value + (m - p) ELSE value
  BY DEF SignExtended, NegativeByte
<1>6. SignDropped <=> parser = "x3" /\ neg /\ width <= shift /\ shift < dest
  BY DEF SignDropped
<1>7. /\ SignLimit \in Nat /\ SignLimit <= dest /\ shift \in Nat /\ width \in Nat /\ dest \in Nat
      /\ parser # "x3" => SignLimit = dest
      /\ parser = "x3" => SignLimit = width
  BY SignLimits DEF AllRead, Typed
<1>8. ASSUME dest <= shift PROVE \E q \in Nat : p = q * m
  BY <1>7, <1>8, PowDivides DEF Modulus
<1> HIDE DEF w, m, p, neg
<1>9. Offset \in Nat /\ Stands(read) \in Int
  BY <1>1, <1>3, <1>4
<1>10. m * k \in Int
  BY <1>1
<1>11. CASE neg /\ shift < SignLimit
  <2>1. Offset = 0
    BY <1>4, <1>6, <1>7, <1>11
  <2>2. m * (k + 1) = m * k + m /\ k + 1 \in Int
    BY <1>1
  <2>3. SignExtended = (Stands(read) + Offset) + m * (k + 1)
    BY <1>1, <1>2, <1>3, <1>5, <1>10, <1>11, <2>1, <2>2
  <2> QED
    BY <1>9, <2>2, <2>3 DEF m
<1>12. CASE neg /\ ~(shift < SignLimit) /\ SignDropped
  <2>1. SignExtended = (Stands(read) + Offset) + m * k
    BY <1>1, <1>2, <1>3, <1>4, <1>5, <1>10, <1>12
  <2> QED
    BY <1>9, <2>1 DEF m
<1>13. CASE neg /\ ~(shift < SignLimit) /\ ~SignDropped
  <2>1. dest <= shift
    BY <1>6, <1>7, <1>13
  <2>2. PICK q \in Nat : p = q * m
    BY <1>8, <2>1
  <2>3. m * (q + k) = q * m + m * k /\ q * m \in Int /\ q + k \in Int
    BY <1>1
  <2>4. SignExtended = w + m * k /\ Stands(read) = w - p /\ Offset = 0
    BY <1>2, <1>3, <1>4, <1>5, <1>13
  <2>5. SignExtended = (Stands(read) + Offset) + m * (q + k)
    BY <1>1, <1>10, <2>2, <2>3, <2>4
  <2> QED
    BY <1>9, <2>3, <2>5 DEF m
<1>14. CASE ~neg
  <2>1. SignExtended = (Stands(read) + Offset) + m * k
    BY <1>1, <1>2, <1>3, <1>4, <1>5, <1>6, <1>10, <1>14
  <2> QED
    BY <1>9, <2>1 DEF m
<1> QED
  BY <1>11, <1>12, <1>13, <1>14

LEMMA SignedInRange ==
  ASSUME Typed, NEW v \in 0 .. Modulus - 1
  PROVE  /\ ToType(v) \in Values
         /\ \E k \in Int : ToType(v) = v + Modulus * k
<1> DEFINE m == Modulus
           h == Modulus \div 2
<1>1. m \in Nat /\ h \in Nat /\ m = 2 * h /\ h >= 1 /\ signed \in BOOLEAN
  BY ModulusFacts DEF Typed
<1>2. ToType(v) = IF signed /\ v >= h THEN v - m ELSE v
  BY DEF ToType
<1>3. Values = IF signed THEN -h .. h - 1 ELSE 0 .. m - 1
  BY DEF Values
<1>4. v \in 0 .. m - 1
  OBVIOUS
<1> HIDE DEF m, h
<1>5. ToType(v) \in Values
  BY <1>1, <1>2, <1>3, <1>4
<1>6. v - m = v + m * (-1) /\ v = v + m * 0 /\ -1 \in Int /\ 0 \in Int
  BY <1>1, <1>4
<1>7. \E k \in Int : ToType(v) = v + m * k
  BY <1>2, <1>6
<1> QED
  BY <1>5, <1>7 DEF m

(* The result, in the type, differs from the number by multiples of 2^dest. *)
LEMMA ResultStands ==
  ASSUME Typed, AllRead, result = ToType(SignExtended)
  PROVE  /\ result \in Values
         /\ \E k \in Int : result = (Stands(read) + Offset) + Modulus * k
<1> DEFINE m == Modulus
           x == Stands(read) + Offset
<1>1. m \in Nat /\ x \in Int
  BY ModulusFacts, ExtendedStands
<1>2. SignExtended \in 0 .. m - 1
  BY ExtendedInType
<1>3. result \in Values
  BY <1>2, SignedInRange
<1>4. PICK k \in Int : SignExtended = x + m * k
  BY ExtendedStands
<1>5. PICK j \in Int : result = SignExtended + m * j
  BY <1>2, SignedInRange
<1> HIDE DEF m, x
<1>6. m * (k + j) = m * k + m * j /\ m * k \in Int /\ m * j \in Int /\ k + j \in Int
  BY <1>1
<1>7. result = x + m * (k + j)
  BY <1>1, <1>4, <1>5, <1>6
<1> QED
  BY <1>3, <1>6, <1>7 DEF m, x

------------------------------------------------------------------------------
(* The inductive invariant.                                                *)

(* How the locals of the loop hang together.  The signed parser in C       *)
(* counts a group for every byte, so its shift is a multiple of a group;   *)
(* it goes on when the shift equals the width, which may be the whole      *)
(* destination: were that a multiple of a group, a byte would be shifted   *)
(* by all of it.                                                           *)
Loop ==
  /\ parser \in {"c", "qi", "x3"} /\ signed \in BOOLEAN
  /\ dest \in 1 .. DestBits /\ width \in Nat
  /\ Asked
  /\ read \in Seq(Byte) /\ Len(read) <= MaxBytes
  /\ consumed \in 0 .. Len(read)
  /\ shift \in 0 .. DestBits + Group
  /\ status # "bigwidth" => width <= dest
  /\ parser = "c" /\ signed => \E n \in Nat : shift = Group * n

(* What the wrapper holds, by how far it has come, and what the caller's   *)
(* iterator shows of a call that is not over.                              *)
Held ==
  /\ status \in {"reading", "read", "parsed", "ok", "overrun"} \cup Errors
  /\ status = "parsed" =>
       /\ parser = "c"
       /\ live \in {{}, {"result"}, {"result", "int_value"}}
  /\ status = "ok" =>
       live = IF parser = "c" THEN {"result", "int_value", "int_count"} ELSE {}
  /\ status \notin {"parsed", "ok"} => live = {}
  /\ status \notin {"parsed", "ok", "nomemory"} /\ parser # "qi" => consumed = 0

Before == Group * (Len(read) - 1)

(* What the locals are of the bytes read: the last byte of an unsigned     *)
(* number does not count, and it was read before the width was reached.    *)
Number ==
  /\ value = Weight(read) % Modulus
  /\ status \in {"reading", "badwidth"} => shift = Group * Len(read)
  /\ status = "badwidth" => WidthExhausted
  /\ status \in {"read", "parsed", "ok", "nomemory"} =>
       /\ Len(read) >= 1
       /\ shift = IF signed THEN Group * Len(read) ELSE Before
       /\ Before < width \/ (parser = "c" /\ signed /\ Before = width)
  /\ result = IF status \in {"parsed", "ok", "nomemory"} THEN ToType(SignExtended) ELSE 0

IInv == Loop /\ Held /\ Number

LEMMA ByteType == \A b \in Byte : b \in Int
BY SizesAssumption, PowType DEF Byte

LEMMA ReadType ==
  ASSUME Loop
  PROVE  read \in Seq(Int) /\ Len(read) \in Nat
BY ByteType DEF Loop

LEMMA LoopTyped ==
  ASSUME Loop
  PROVE  Typed
BY SizesAssumption DEF Loop, Typed

LEMMA NotLittleEndian == ~sys_is_little_endian
BY DEF sys_is_little_endian

LEMMA InitIInv == Init => IInv
<1> SUFFICES ASSUME Init PROVE IInv
  OBVIOUS
<1>1. dest \in 1 .. DestBits /\ width \in Nat
  BY SizesAssumption DEF Init
<1>2. 0 \in Nat /\ shift = Group * 0 /\ shift = 0 /\ 0 \in 0 .. DestBits + Group
  BY SizesAssumption DEF Init
<1>3. read \in Seq(Byte) /\ Len(read) = 0 /\ MaxBytes \in Nat
  BY SizesAssumption DEF Init
<1>4. Loop
  BY <1>1, <1>2, <1>3 DEF Init, Loop
<1>5. Held
  BY DEF Init, Held, Errors
<1>6. value = Weight(read) % Modulus
  <2>1. Weight(read) = 0 /\ value = 0
    BY WeightEmpty DEF Init
  <2>2. Modulus \in Nat /\ Modulus > 0
    BY <1>4, LoopTyped, ModulusFacts
  <2> HIDE DEF Modulus
  <2>3. 0 = Modulus * 0 + 0 /\ 0 \in 0 .. Modulus - 1
    BY <2>2
  <2>4. 0 % Modulus = 0
    BY <2>2, <2>3, DivisionUnique
  <2> QED
    BY <2>1, <2>4
<1>7. Number
  BY <1>2, <1>3, <1>6 DEF Init, Number
<1> QED
  BY <1>4, <1>5, <1>7 DEF IInv

LEMMA NextLoop ==
  ASSUME IInv, [Next]_vars
  PROVE  Loop'
<1> USE DEF IInv
<1>0. Asked' <=> Asked
  BY DEF Next, vars, request, BufferEnds, BufferOverrun, TooWide, ReadByte, Finish, Create,
         CreateFails, Asked
<1>1. CASE BufferEnds \/ BufferOverrun \/ TooWide
  BY <1>0, <1>1 DEF BufferEnds, BufferOverrun, TooWide, request, Loop
<1>2. ASSUME NEW b \in Byte, ReadByte(b) PROVE Loop'
  <2>1. Group \in Nat /\ UNCHANGED request /\ status = "reading" /\ DestBits \in Nat
    BY <1>2, SizesAssumption DEF ReadByte
  <2>2. read' \in Seq(Byte) /\ Len(read') = Len(read) + 1 /\ Len(read') <= MaxBytes
    BY <1>2, SizesAssumption DEF ReadByte, Loop
  <2>3. consumed' \in 0 .. Len(read')
    BY <1>2, <2>2 DEF ReadByte, Loop
  <2>4. parser = "c" /\ signed => \E n \in Nat : shift' = Group * n
    <3> SUFFICES ASSUME parser = "c", signed PROVE \E n \in Nat : shift' = Group * n
      OBVIOUS
    <3>1. PICK n \in Nat : shift = Group * n
      BY DEF Loop
    <3>2. shift' = shift + Group
      BY <1>2 DEF ReadByte
    <3>3. n + 1 \in Nat /\ Group * (n + 1) = Group * n + Group
      BY <2>1
    <3> QED
      BY <3>1, <3>2, <3>3
  <2>5. shift' \in 0 .. DestBits + Group
    <3>1. width <= DestBits /\ width \in Nat /\ shift \in Nat
      BY <2>1 DEF Loop
    <3>2. shift <= width
      BY <1>2, <3>1 DEF ReadByte, WidthExhausted
    <3> QED
      BY <1>2, <2>1, <3>1, <3>2 DEF ReadByte
  <2> QED
    BY <1>0, <1>2, <2>1, <2>2, <2>3, <2>4, <2>5 DEF ReadByte, Loop, request
<1>3. CASE Finish
  <2>1. Len(read) \in Nat
    BY DEF Loop
  <2> QED
    BY <1>0, <1>3, <2>1 DEF Finish, request, Loop
<1>4. CASE Create
  BY <1>0, <1>4 DEF Create, request, Loop
<1>5. CASE CreateFails
  BY <1>0, <1>5 DEF CreateFails, request, Loop
<1>6. CASE UNCHANGED vars
  BY <1>0, <1>6 DEF vars, request, Loop
<1> QED
  BY <1>1, <1>2, <1>3, <1>4, <1>5, <1>6 DEF Next

LEMMA NextHeld ==
  ASSUME IInv, [Next]_vars
  PROVE  Held'
<1> USE DEF IInv
<1>1. CASE BufferEnds \/ BufferOverrun \/ TooWide
  BY <1>1 DEF BufferEnds, BufferOverrun, TooWide, request, Held, Errors
<1>2. ASSUME NEW b \in Byte, ReadByte(b) PROVE Held'
  BY <1>2 DEF ReadByte, Held, Errors, request
<1>3. CASE Finish
  BY <1>3 DEF Finish, request, Held, Errors
<1>4. CASE Create
  <2>1. \/ live' \in {{"result"}, {"result", "int_value"}} /\ status' = "parsed"
        \/ live' = {"result", "int_value", "int_count"} /\ status' = "ok"
    BY <1>4 DEF Create, NextObject, Objects, Held
  <2> QED
    BY <1>4, <2>1 DEF Create, request, Held, Errors
<1>5. CASE CreateFails
  <2>1. live' = {}
    BY <1>5 DEF CreateFails, Released, NextObject, Objects, Held
  <2> QED
    BY <1>5, <2>1 DEF CreateFails, request, Held, Errors
<1>6. CASE UNCHANGED vars
  BY <1>6 DEF vars, request, Held
<1> QED
  BY <1>1, <1>2, <1>3, <1>4, <1>5, <1>6 DEF Next

(* What only the call and the locals of the loop decide. *)
LEMMA SameLocals ==
  ASSUME UNCHANGED << request, read, value, shift >>
  PROVE  /\ Modulus' = Modulus /\ Before' = Before
         /\ Weight(read)' = Weight(read)
         /\ WidthExhausted' = WidthExhausted
         /\ ToType(SignExtended)' = ToType(SignExtended)
BY DEF request, Modulus, Before, WidthExhausted, ToType, SignExtended, SignLimit,
       NegativeByte, SignBit, Low, LastByte, Weight

LEMMA NextNumber ==
  ASSUME IInv, [Next]_vars
  PROVE  Number'
<1> USE DEF IInv
<1>0. Typed /\ read \in Seq(Int) /\ Len(read) \in Nat
  BY LoopTyped, ReadType
<1>1. CASE BufferEnds \/ BufferOverrun \/ TooWide
  <2>1. UNCHANGED << request, read, value, shift, result >> /\ status = "reading"
    BY <1>1 DEF BufferEnds, BufferOverrun, TooWide
  <2>2. \/ status' \in {"smallbuffer", "overrun"}
        \/ status' = "badwidth" /\ WidthExhausted
    BY <1>1 DEF BufferEnds, BufferOverrun, TooWide
  <2>3. result = 0
    BY <2>1 DEF Number
  <2> QED
    BY <2>1, <2>2, <2>3, SameLocals DEF Number
<1>2. ASSUME NEW b \in Byte, ReadByte(b) PROVE Number'
  <2>1. /\ status = "reading" /\ UNCHANGED << request, result >>
        /\ read' = Append(read, b)
        /\ value' = (value + Low(b) * Pow2[shift]) % Modulus
        /\ shift' = IF signed \/ Continues(b) THEN shift + Group ELSE shift
        /\ status' = IF Continues(b) THEN "reading" ELSE "read"
        /\ ~WidthExhausted
    BY <1>2 DEF ReadByte
  <2>2. UNCHANGED << parser, signed, dest, width >> /\ Modulus' = Modulus
    BY <2>1 DEF request, Modulus
  <2>3. b \in Int /\ Len(read') = Len(read) + 1 /\ Len(read') >= 1
    BY <1>0, <2>1, ByteType
  <2>4. shift = Group * Len(read) /\ result = 0 /\ value = Weight(read) % Modulus
    BY <2>1 DEF Number
  <2>5. Group \in Nat /\ Group * Len(read') = shift + Group /\ Before' = shift
    <3>1. Group \in Nat
      BY SizesAssumption
    <3>2. Len(read') - 1 = Len(read)
      BY <1>0, <2>3
    <3>3. Group * (Len(read) + 1) = Group * Len(read) + Group
      BY <1>0, <3>1
    <3> QED
      BY <2>3, <2>4, <3>1, <3>2, <3>3 DEF Before
  <2>6. value' = Weight(read') % Modulus
    <3> DEFINE w == Weight(read)
               m == Modulus
               d == Low(b) * Pow2[shift]
    <3>1. w \in Nat /\ m \in Nat /\ m > 0
      BY <1>0, WeightBound, ModulusFacts
    <3>2. d \in Nat
      <4>1. shift \in Nat
        BY SizesAssumption DEF Loop
      <4>2. Low(b) \in Nat /\ Pow2[shift] \in Nat
        BY <2>3, <4>1, LowType, PowType
      <4> HIDE DEF IInv
      <4> QED
        BY <4>2
    <3>3. Weight(read') = w + d
      BY <1>0, <2>1, <2>3, <2>4, WeightAppend DEF Scale
    <3> HIDE DEF w, m, d
    <3> DEFINE q == w \div m
               r == w % m
    <3>4. q \in Int /\ r \in Int /\ w = m * q + r
      BY <3>1, Division
    <3>5. value = r
      BY <2>4 DEF w, m
    <3> HIDE DEF q, r
    <3>6. m * q \in Int /\ w + d = (r + d) + (m * q) /\ r + d \in Int
      BY <3>1, <3>2, <3>4
    <3>7. ((r + d) + (m * q)) % m = (r + d) % m
      BY <3>1, <3>4, <3>6, RemainderShift
    <3>8. (w + d) % m = (r + d) % m
      BY <3>6, <3>7
    <3>9. value' = (r + d) % m
      BY <2>1, <3>5 DEF m, d
    <3> QED
      BY <3>3, <3>8, <3>9 DEF m
  <2>7. shift < width \/ (parser = "c" /\ signed /\ shift = width)
    <3>1. shift \in Nat /\ width \in Nat
      BY SizesAssumption DEF Loop
    <3> QED
      BY <2>1, <3>1 DEF WidthExhausted
  <2>8. CASE Continues(b)
    BY <2>1, <2>2, <2>4, <2>5, <2>6, <2>8 DEF Number
  <2>9. CASE ~Continues(b)
    <3>1. status' = "read" /\ shift' = IF signed THEN Group * Len(read') ELSE Before'
      BY <2>1, <2>5, <2>9
    <3> QED
      BY <2>1, <2>2, <2>3, <2>4, <2>5, <2>6, <2>7, <3>1 DEF Number
  <2> QED
    BY <2>8, <2>9
<1>3. CASE Finish
  <2>1. UNCHANGED << request, read, value, shift >> /\ status = "read" /\ status' \in {"parsed", "ok"}
    BY <1>3 DEF Finish
  <2>2. result' = ToType(SignExtended)
    BY <1>3, NotLittleEndian DEF Finish
  <2>3. UNCHANGED << parser, signed, width >>
    BY <2>1 DEF request
  <2> QED
    BY <2>1, <2>2, <2>3, SameLocals DEF Number
<1>4. CASE Create \/ CreateFails
  <2>1. /\ UNCHANGED << request, read, value, shift, result >>
        /\ status = "parsed" /\ status' \in {"parsed", "ok", "nomemory"}
    BY <1>4 DEF Create, CreateFails
  <2>2. UNCHANGED << parser, signed, width >>
    BY <2>1 DEF request
  <2> QED
    BY <2>1, <2>2, SameLocals DEF Number
<1>5. CASE UNCHANGED vars
  <2>1. UNCHANGED << request, read, value, shift, result, status >>
    BY <1>5 DEF vars
  <2>2. UNCHANGED << parser, signed, width >>
    BY <2>1 DEF request
  <2> QED
    BY <2>1, <2>2, SameLocals DEF Number
<1> QED
  BY <1>1, <1>2, <1>3, <1>4, <1>5 DEF Next

LEMMA NextIInv == IInv /\ [Next]_vars => IInv'
BY NextLoop, NextHeld, NextNumber DEF IInv

(* How a call may end: with a number, when every byte has been read. *)
LEMMA Results ==
  ASSUME IInv, status \in {"parsed", "ok", "nomemory"}
  PROVE  Typed /\ AllRead /\ result = ToType(SignExtended)
<1>1. Typed /\ read \in Seq(Int) /\ Len(read) \in Nat
  BY LoopTyped, ReadType DEF IInv
<1>2. parser = "qi" => width = dest
  BY DEF IInv, Loop, Asked
<1>3. shift \in Nat
  BY SizesAssumption DEF IInv, Loop
<1> QED
  BY <1>1, <1>2, <1>3 DEF IInv, Loop, Number, AllRead

------------------------------------------------------------------------------
(* The properties.                                                         *)

(* Everything stays in its type: a result in particular is a number of the *)
(* destination's bits, negative only if it is signed.                      *)
THEOREM Typing == Spec => []TypeOK
<1>1. IInv => TypeOK
  <2> SUFFICES ASSUME IInv PROVE TypeOK
    OBVIOUS
  <2>1. Typed /\ read \in Seq(Int) /\ Len(read) \in Nat
    BY LoopTyped, ReadType DEF IInv
  <2>2. Modulus \in Nat /\ Modulus >= 2 /\ Modulus \div 2 \in Nat /\ Modulus \div 2 >= 1
    BY <2>1, ModulusFacts
  <2>3. value \in 0 .. Modulus - 1
    <3>1. Weight(read) \in Nat /\ value = Weight(read) % Modulus
      BY <2>1, WeightBound DEF IInv, Number
    <3> HIDE DEF Modulus
    <3> QED
      BY <2>2, <3>1
  <2>4. result \in Values
    <3>1. CASE status \in {"parsed", "ok", "nomemory"}
      BY <3>1, Results, ResultStands
    <3>2. CASE status \notin {"parsed", "ok", "nomemory"}
      <4>1. result = 0
        BY <3>2 DEF IInv, Number
      <4>2. 0 \in Values
        <5> HIDE DEF Modulus
        <5> QED
          BY <2>2 DEF Values
      <4> QED
        BY <4>1, <4>2
    <3> QED
      BY <3>1, <3>2
  <2>5. live \subseteq {Objects[i] : i \in 1 .. 3}
    <3>1. {Objects[i] : i \in 1 .. 3} = {"result", "int_value", "int_count"}
      <4>1. \A i \in 1 .. 3 : i = 1 \/ i = 2 \/ i = 3
        OBVIOUS
      <4> QED
        BY <4>1 DEF Objects
    <3> QED
      BY <3>1 DEF IInv, Held
  <2>6. consumed \in 0 .. MaxBytes
    BY <2>1, SizesAssumption DEF IInv, Loop
  <2> QED
    BY <2>3, <2>4, <2>5, <2>6 DEF IInv, Loop, Held, TypeOK
<1> QED
  BY <1>1, InitIInv, NextIInv, PTL DEF Spec

(* Whatever the width asked for and the parser, no byte is shifted by the  *)
(* width of the destination or more.                                       *)
THEOREM ShiftsAreDefined == Spec => []ShiftDefined
<1>1. IInv => ShiftDefined
  <2> SUFFICES ASSUME Loop, status = "reading", ~WidthExhausted PROVE shift < dest
    BY DEF IInv, ShiftDefined
  <2>1. width <= dest /\ width \in Nat /\ dest \in Nat /\ shift \in Nat
    BY SizesAssumption DEF Loop
  <2>2. CASE parser = "c" /\ signed
    <3>1. PICK n \in Nat : shift = Group * n
      BY <2>2 DEF Loop
    <3>2. shift <= width /\ dest = DestBits
      BY <2>1, <2>2 DEF WidthExhausted, Loop, Asked
    <3>3. (Group * n) % Group = 0
      BY SizesAssumption
    <3>4. shift # DestBits
      BY <3>1, <3>3, SizesAssumption
    <3> QED
      BY <2>1, <3>2, <3>4
  <2>3. CASE ~(parser = "c" /\ signed)
    BY <2>1, <2>3 DEF WidthExhausted
  <2> QED
    BY <2>2, <2>3
<1> QED
  BY <1>1, InitIInv, NextIInv, PTL DEF Spec

(* A call that fails, for want of bytes, of width or of memory, leaves no  *)
(* reference and, but for the qi parsers, no byte behind.                  *)
THEOREM NothingIsLeaked == Spec => []NothingLeaks
<1>1. {Objects[i] : i \in 1 .. 3} = {"result", "int_value", "int_count"}
  <2>1. \A i \in 1 .. 3 : i = 1 \/ i = 2 \/ i = 3
    OBVIOUS
  <2> QED
    BY <2>1 DEF Objects
<1>2. IInv => NothingLeaks
  BY <1>1 DEF IInv, Held, NothingLeaks, Errors
<1> QED
  BY <1>2, InitIInv, NextIInv, PTL DEF Spec

(* A call that succeeds returns the number its bytes encode, modulo 2^dest, *)
(* on machines of either byte order; the sign that varint7 drops is the    *)
(* one exception.                                                          *)
THEOREM NumbersAreDecoded == Spec => []Decoded
<1>1. IInv => Decoded
  <2> SUFFICES ASSUME IInv, status \in {"parsed", "ok"}
               PROVE  (result - Denoted - Offset) % Modulus = 0
    BY DEF Decoded
  <2>1. Typed /\ AllRead /\ result = ToType(SignExtended)
    BY Results
  <2>2. PICK k \in Int : result = (Stands(read) + Offset) + Modulus * k
    BY <2>1, ResultStands
  <2> DEFINE m == Modulus
             d == Denoted
             o == Offset
  <2>3. m \in Nat /\ m > 0 /\ d \in Int /\ o \in Nat /\ result = (d + o) + m * k
    BY <2>1, <2>2, ModulusFacts, ExtendedStands, DenotedStands
  <2> HIDE DEF m, d, o
  <2>4. m * k \in Int
    BY <2>3
  <2>5. (result - d) - o = m * k + 0
    BY <2>3, <2>4
  <2>6. 0 \in 0 .. m - 1 /\ (result - d) - o \in Int
    BY <2>3, <2>4, <2>5
  <2>7. ((result - d) - o) % m = 0
    BY <2>3, <2>5, <2>6, DivisionUnique
  <2> QED
    BY <2>7 DEF m, d, o
<1> QED
  BY <1>1, InitIInv, NextIInv, PTL DEF Spec

(* The numbers of the width asked for are numbers of the type, and have no *)
(* more groups than reach the width.                                       *)
LEMMA WidthFits ==
  ASSUME Typed, width \in Nat, width <= dest, NEW v \in ValuesOfWidth
  PROVE  /\ width >= 1
         /\ v \in Values
         /\ \A n \in Nat : n >= 1 /\ width <= Group * n => Fits(v, n)
<1> DEFINE h == Pow2[width - 1]
           m == Modulus
<1>1. width >= 1 /\ width - 1 \in Nat /\ (width - 1) + 1 = width
  BY DEF ValuesOfWidth
<1>2. h \in Nat /\ h >= 1 /\ Pow2[width] \in Nat
  BY <1>1, PowType
<1>3. v \in IF signed THEN -h .. h - 1 ELSE 0 .. Pow2[width] - 1
  BY <1>1 DEF ValuesOfWidth
<1>4. m \in Nat /\ m \div 2 = Pow2[dest - 1] /\ Pow2[dest - 1] \in Nat
  BY ModulusFacts
<1>5. dest \in Nat /\ dest >= 1 /\ signed \in BOOLEAN
  BY DEF Typed
<1>6. h <= Pow2[dest - 1] /\ Pow2[width] <= m
  <2>1. dest - 1 \in Nat /\ width - 1 <= dest - 1
    BY <1>1, <1>5
  <2> QED
    BY <1>1, <1>5, <2>1, PowMonotone DEF Modulus
<1>7. v \in Values
  <2> HIDE DEF h, m
  <2>1. Values = IF signed THEN -Pow2[dest - 1] .. Pow2[dest - 1] - 1 ELSE 0 .. m - 1
    BY <1>4 DEF Values, m
  <2> QED
    BY <1>2, <1>3, <1>4, <1>5, <1>6, <2>1
<1>8. ASSUME NEW n \in Nat, n >= 1, width <= Group * n PROVE Fits(v, n)
  <2> DEFINE g == Group * n
  <2>1. g \in Nat /\ g - 1 \in Nat /\ width - 1 <= g - 1
    <3>1. g \in Nat
      BY SizesAssumption
    <3> HIDE DEF g
    <3>2. width <= g
      BY <1>8 DEF g
    <3> QED
      BY <1>1, <3>1, <3>2
  <2>2. width <= g
    BY <1>8
  <2> HIDE DEF g
  <2>3. h <= Pow2[g - 1] /\ Pow2[width] <= Pow2[g] /\ Pow2[g - 1] \in Nat /\ Pow2[g] \in Nat
    BY <1>1, <2>1, <2>2, PowMonotone, PowType
  <2>4. Half(n) = Pow2[g - 1] /\ Scale(n) = Pow2[g]
    BY DEF Half, Scale, g
  <2> HIDE DEF h
  <2> QED
    BY <1>2, <1>3, <1>5, <2>3, <2>4 DEF Fits
<1> QED
  BY <1>1, <1>7, <1>8

(* Two numbers of the type that differ by a multiple of 2^dest are one.    *)
LEMMA OneInRange ==
  ASSUME Typed, NEW a \in Values, NEW b \in Values, NEW k \in Int, a = b + Modulus * k
  PROVE  a = b
<1> DEFINE m == Modulus
           h == Modulus \div 2
<1>1. m \in Nat /\ h \in Nat /\ m = 2 * h /\ h >= 1 /\ signed \in BOOLEAN
  BY ModulusFacts DEF Typed
<1>2. Values = IF signed THEN -h .. h - 1 ELSE 0 .. m - 1
  BY DEF Values
<1> HIDE DEF m, h
<1>3. a \in Int /\ b \in Int /\ a - b < m /\ a - b > -m
  BY <1>1, <1>2
<1>4. a - b = m * k
  <2>1. m * k \in Int
    BY <1>1
  <2> QED
    BY <1>3, <2>1 DEF m
<1>5. k < 1
  <2> SUFFICES ASSUME k >= 1 PROVE FALSE
    OBVIOUS
  <2>1. m * k >= m
    BY <1>1
  <2> QED
    BY <1>1, <1>3, <1>4, <2>1
<1>6. k > -1
  <2> SUFFICES ASSUME k <= -1 PROVE FALSE
    OBVIOUS
  <2>1. m * k <= -m
    BY <1>1
  <2> QED
    BY <1>1, <1>3, <1>4, <2>1
<1>7. k = 0
  BY <1>5, <1>6
<1>8. m * 0 = 0
  BY <1>1
<1> QED
  BY <1>3, <1>4, <1>7, <1>8

(* The sign that is dropped leaves a number of the type. *)
LEMMA OffsetInRange ==
  ASSUME Typed, AllRead, Stands(read) \in Values
  PROVE  Stands(read) + Offset \in Values
<1> DEFINE s == Stands(read)
           p == Pow2[shift]
           h == Pow2[dest - 1]
<1>1. CASE SignDropped
  <2>1. signed /\ SignBit(read[Len(read)]) /\ shift < dest /\ Offset = p
    BY <1>1 DEF SignDropped, Offset, LastByte
  <2>2. p \in Nat /\ p = Scale(Len(read)) /\ Weight(read) < p /\ Weight(read) \in Nat
    BY <2>1, ReadFacts
  <2>3. s = Weight(read) - p
    BY <2>1, <2>2 DEF Stands
  <2>4. p <= h /\ h \in Nat /\ Modulus \div 2 = h
    <3>1. shift \in Nat /\ dest - 1 \in Nat /\ shift <= dest - 1
      BY <2>1 DEF Typed, AllRead
    <3> QED
      BY <3>1, PowMonotone, ModulusFacts
  <2> HIDE DEF s, p, h
  <2>5. s + Offset = Weight(read)
    BY <2>1, <2>2, <2>3
  <2>6. Weight(read) \in -h .. h - 1
    BY <2>2, <2>4
  <2> QED
    BY <2>1, <2>4, <2>5, <2>6 DEF Values, s
<1>2. CASE ~SignDropped
  <2>1. Offset = 0 /\ s \in Int
    BY <1>2, ExtendedStands DEF Offset
  <2> QED
    BY <2>1
<1> QED
  BY <1>1, <1>2

(* Every number of the width asked for comes back from its encoding: no    *)
(* parser runs out of width on the way, and none goes on past it but for   *)
(* the byte that the signed parser in C lets in.                           *)
THEOREM EncodingsComeBack == Spec => []RoundTrip
<1>1. ASSUME IInv, NEW v \in ValuesOfWidth, status = "badwidth"
      PROVE  ~StartsEncodingOf(v)
  <2>1. Typed /\ read \in Seq(Int) /\ Len(read) \in Nat
    BY <1>1, LoopTyped, ReadType DEF IInv
  <2>2. width \in Nat /\ width <= dest /\ shift \in Nat
    BY <1>1, SizesAssumption DEF IInv, Loop
  <2>3. shift = Group * Len(read) /\ WidthExhausted
    BY <1>1 DEF IInv, Number
  <2>4. width <= Group * Len(read)
    BY <2>2, <2>3 DEF WidthExhausted
  <2>5. width >= 1 /\ v \in Values
    BY <2>1, <2>2, WidthFits
  <2>6. Len(read) >= 1
    <3> SUFFICES ASSUME Len(read) = 0 PROVE FALSE
      BY <2>1
    <3>1. Group * 0 = 0
      BY SizesAssumption
    <3> QED
      BY <2>2, <2>4, <2>5, <3>1
  <2>7. Fits(v, Len(read))
    BY <2>1, <2>2, <2>4, <2>6, WidthFits
  <2>8. Encodes(Encoding[v], v, Len(read))
    BY <2>1, <2>5, <2>6, <2>7, EncodingFacts
  <2>9. Len(Encoding[v]) <= Len(read) /\ Len(Encoding[v]) \in Nat
    BY <2>8 DEF Encodes
  <2> QED
    BY <2>1, <2>9 DEF StartsEncodingOf
<1>2. ASSUME IInv, NEW v \in ValuesOfWidth, status \in {"parsed", "ok"}, read = Encoding[v]
      PROVE  result = v + Offset
  <2>1. Typed /\ AllRead /\ result = ToType(SignExtended)
    BY <1>2, Results
  <2>2. width \in Nat /\ width <= dest
    BY <2>1 DEF AllRead
  <2>3. v \in Values
    BY <2>1, <2>2, WidthFits
  <2>4. Encodes(Encoding[v], v, dest)
    <3>1. Fits(v, dest) /\ dest \in Nat /\ dest >= 1
      BY <2>1, <2>3, ValuesFacts DEF Typed
    <3> QED
      BY <2>1, <2>3, <3>1, EncodingFacts
  <2>5. Stands(read) = v
    BY <1>2, <2>4 DEF Encodes
  <2>6. v + Offset \in Values
    BY <2>1, <2>3, <2>5, OffsetInRange
  <2>7. PICK k \in Int : result = (v + Offset) + Modulus * k
    BY <2>1, <2>5, ResultStands
  <2>8. result \in Values
    BY <2>1, ResultStands
  <2> QED
    BY <2>1, <2>6, <2>7, <2>8, OneInRange
<1>3. ASSUME IInv, status \in {"parsed", "ok"}
      PROVE  Before < width \/ (parser = "c" /\ signed /\ Before = width)
  BY <1>3 DEF IInv, Number
<1>4. IInv => RoundTrip
  BY <1>1, <1>2, <1>3 DEF RoundTrip, Before
<1> QED
  BY <1>4, InitIInv, NextIInv, PTL DEF Spec

------------------------------------------------------------------------------
(* Arith: a call and what it came to.                                      *)

Calling(fn, type, to, args, came) ==
  /\ call = [fn |-> fn, type |-> type, args |-> args, to |-> to]
  /\ outcome = came

IntegerTypes == {"i32", "i64"}
FloatTypes == {"f32", "f64"}

CalledBinary ==
  \E type \in IntegerTypes, fn \in IntegerBinary : \E l, r \in Args[type] :
    Calling(fn, type, type, << l, r >>, integer_binary(fn, Bits(type), l, r))
CalledUnary ==
  \E type \in IntegerTypes, fn \in IntegerUnary : \E x \in Args[type] :
    Calling(fn, type, type, << x >>, integer_unary(fn, Bits(type), x))
CalledFloats ==
  \E type \in FloatTypes, fn \in FloatBinary : \E l, r \in Args[type] :
    Calling(fn, type, type, << l, r >>, float_binary(fn, l, r))
CalledFloat ==
  \E type \in FloatTypes, fn \in FloatUnary : \E v \in Args[type] :
    /\ Calling(fn, type, type, << v >>, float_unary(fn, v))
    /\ fn = "nearest" => mode = "nearest"
CalledTruncation ==
  \E fn \in Truncations, type \in FloatTypes, to \in IntegerTypes : \E v \in Args[type] :
    Calling(fn, type, to, << v >>, truncation(fn, Bits(to), type, v))
CalledConversion ==
  \E fn \in {"convert_s", "convert_u"}, type \in IntegerTypes, to \in FloatTypes :
    \E x \in Args[type] : Calling(fn, type, to, << x >>, conversion(fn, type, to, x))
CalledSizeChange ==
  \E c \in SizeChanges : \E x \in Args[c[2]] :
    Calling(c[1], c[2], c[2], << x >>, size_change(c[1], x))
CalledOld ==
  \E fn \in OldBinary, type \in IntegerTypes : \E l, r \in Args[type] :
    Calling(fn, type, type, << l, r >>, old_binary(fn, Bits(type), l, r))
CalledOldTrunc ==
  \E signed_ \in BOOLEAN, type \in FloatTypes, to \in IntegerTypes : \E v \in Args[type] :
    Calling(IF signed_ THEN "old_trunc_s" ELSE "old_trunc_u", type, to, << v >>,
            old_trunc(Bits(to), signed_, type, v))

(* The outcome is that of the function called. *)
Computed ==
  \/ call = NoCall
  \/ CalledBinary \/ CalledUnary \/ CalledFloats \/ CalledFloat \/ CalledTruncation
  \/ CalledConversion \/ CalledSizeChange \/ CalledOld \/ CalledOldTrunc

AInv == Computed /\ mode \in {"nearest", "downward"} /\ gnuc \in BOOLEAN

(* The functions that see the compiler or the rounding mode see no more.  *)
LEMMA SameFunctions ==
  /\ gnuc' = gnuc => \A fn, w, x : integer_unary(fn, w, x)' = integer_unary(fn, w, x)
  /\ mode' = mode => \A fn, v : float_unary(fn, v)' = float_unary(fn, v)
  /\ \A v : float_unary("nearest", v)' = float_unary("nearest", v)
<1>1. ASSUME gnuc' = gnuc, NEW fn, NEW w, NEW x
      PROVE  integer_unary(fn, w, x)' = integer_unary(fn, w, x)
  BY <1>1 DEF integer_unary, CountLeadingZeros, CountTrailingZeros
<1>2. ASSUME mode' = mode, NEW fn, NEW v
      PROVE  float_unary(fn, v)' = float_unary(fn, v)
  BY <1>2 DEF float_unary, float_neg
<1>3. ASSUME NEW v PROVE float_unary("nearest", v)' = float_unary("nearest", v)
  BY DEF float_unary
<1> QED
  BY <1>1, <1>2, <1>3

LEMMA InitAInv == AInit => AInv
BY DEF AInit, AInv, Computed

LEMMA NextAInv == AInv /\ [ANext]_avars => AInv'
<1> SUFFICES ASSUME AInv, [ANext]_avars PROVE AInv'
  OBVIOUS
<1>1. CASE Integer
  <2>1. mode' = mode /\ gnuc' = gnuc
    BY <1>1 DEF Integer
  <2>2. CalledBinary' \/ CalledUnary'
    BY <1>1, <2>1, SameFunctions DEF Integer, Make, CalledBinary, CalledUnary, Calling, IntegerTypes
  <2> QED
    BY <2>1, <2>2 DEF AInv, Computed
<1>2. CASE Float
  <2>1. mode' \in {"nearest", "downward"} /\ gnuc' = gnuc
    BY <1>2 DEF Float, FloatNearbyRoundingGuard, AInv
  <2>2. CalledFloats' \/ CalledFloat'
    BY <1>2, SameFunctions DEF Float, Make, FloatNearbyRoundingGuard,
       CalledFloats, CalledFloat, Calling, FloatTypes
  <2> QED
    BY <2>1, <2>2 DEF AInv, Computed
<1>3. CASE Conversion
  <2>1. mode' = mode /\ gnuc' = gnuc
    BY <1>3 DEF Conversion
  <2>2. CalledTruncation' \/ CalledConversion' \/ CalledSizeChange'
    BY <1>3 DEF Conversion, Make, CalledTruncation, CalledConversion,
       CalledSizeChange, Calling, IntegerTypes, FloatTypes
  <2> QED
    BY <2>1, <2>2 DEF AInv, Computed
<1>4. CASE Functional
  <2>1. mode' = mode /\ gnuc' = gnuc
    BY <1>4 DEF Functional
  <2>2. CalledOld' \/ CalledOldTrunc'
    BY <1>4 DEF Functional, Make, CalledOld, CalledOldTrunc, Calling, IntegerTypes, FloatTypes
  <2> QED
    BY <2>1, <2>2 DEF AInv, Computed
<1>5. CASE Return
  BY <1>5 DEF Return, AInv, Computed
<1>6. CASE UNCHANGED avars
  <2>1. call' = call /\ outcome' = outcome /\ mode' = mode /\ gnuc' = gnuc
    BY <1>6 DEF avars
  <2> QED
    BY <2>1, SameFunctions DEF AInv, Computed, CalledBinary, CalledUnary, CalledFloats, CalledFloat,
       CalledTruncation, CalledConversion, CalledSizeChange, CalledOld, CalledOldTrunc, Calling
<1> QED
  BY <1>1, <1>2, <1>3, <1>4, <1>5, <1>6 DEF ANext

LEMMA AlwaysAInv == ASpec => []AInv
BY InitAInv, NextAInv, PTL DEF ASpec

------------------------------------------------------------------------------
(* The tables bind different names, so a call tells its function.          *)

LEMMA WhichCall ==
  ASSUME Computed, call # NoCall
  PROVE  /\ Fn \in Referenced => CalledBinary \/ CalledUnary
         /\ Fn \in {"min", "max"} => CalledFloats
         /\ Fn = "neg" => CalledFloat
         /\ Fn \in Truncations => CalledTruncation
         /\ Fn \in {"convert_s", "convert_u"} => CalledConversion
         /\ Fn \in OldBinary => CalledOld
         /\ Fn \in {"old_trunc_s", "old_trunc_u"} => CalledOldTrunc
<1>1. CalledBinary =>
        /\ Fn \in IntegerBinary
        /\ Fn \notin {"min", "max", "neg", "trunc_s", "trunc_u", "convert_s", "convert_u",
                      "old_trunc_s", "old_trunc_u"} \cup OldBinary
  BY DEF CalledBinary, Calling, Fn, IntegerBinary, unsigned_comp, OldBinary
<1>2. CalledUnary =>
        Fn \notin {"min", "max", "neg", "trunc_s", "trunc_u", "convert_s", "convert_u",
                   "old_trunc_s", "old_trunc_u"} \cup OldBinary
  BY DEF CalledUnary, Calling, Fn, IntegerUnary, OldBinary
<1>3. CalledFloats =>
        Fn \notin {"neg", "trunc_s", "trunc_u", "convert_s", "convert_u",
                   "old_trunc_s", "old_trunc_u"} \cup OldBinary \cup Referenced
  BY DEF CalledFloats, Calling, Fn, FloatBinary, FloatComparisons, OldBinary, Referenced
<1>4. CalledFloat =>
        Fn \notin {"min", "max", "trunc_s", "trunc_u", "convert_s", "convert_u",
                   "old_trunc_s", "old_trunc_u"} \cup OldBinary \cup Referenced
  BY DEF CalledFloat, Calling, Fn, FloatUnary, OldBinary, Referenced
<1>5. CalledTruncation =>
        Fn \notin {"min", "max", "neg", "convert_s", "convert_u",
                   "old_trunc_s", "old_trunc_u"} \cup OldBinary \cup Referenced
  BY DEF CalledTruncation, Calling, Fn, Truncations, OldBinary, Referenced
<1>6. CalledConversion =>
        Fn \notin {"min", "max", "neg", "trunc_s", "trunc_u",
                   "old_trunc_s", "old_trunc_u"} \cup OldBinary \cup Referenced
  BY DEF CalledConversion, Calling, Fn, OldBinary, Referenced
<1>7. CalledSizeChange =>
        Fn \notin {"min", "max", "neg", "trunc_s", "trunc_u", "convert_s", "convert_u",
                   "old_trunc_s", "old_trunc_u"} \cup OldBinary \cup Referenced
  BY DEF CalledSizeChange, Calling, Fn, SizeChanges, OldBinary, Referenced
<1>8. CalledOld =>
        Fn \notin {"min", "max", "neg", "trunc_s", "trunc_u", "convert_s", "convert_u",
                   "old_trunc_s", "old_trunc_u"} \cup Referenced
  BY DEF CalledOld, Calling, Fn, OldBinary, Referenced
<1>9. CalledOldTrunc =>
        Fn \notin {"min", "max", "neg", "trunc_s", "trunc_u", "convert_s", "convert_u"}
                    \cup OldBinary \cup Referenced
  BY DEF CalledOldTrunc, Calling, Fn, OldBinary, Referenced
<1> QED
  BY <1>1, <1>2, <1>3, <1>4, <1>5, <1>6, <1>7, <1>8, <1>9 DEF Computed, Truncations

(* What a call may come to. *)
LEMMA Valued ==
  /\ \A a, b : Value(a) = Value(b) <=> a = b
  /\ \A a : Value(a) \notin {Trap, Undefined, Aborted}
  /\ Trap # Undefined /\ Trap # Aborted
  /\ \A a : Value(a)[2] = a
BY DEF Value, Trap, Undefined, Aborted

------------------------------------------------------------------------------
(* Floats.                                                                 *)

LEMMA FloatForms ==
  ASSUME NEW f \in AnyFloat
  PROVE  \/ f = NaN
         \/ \E b \in BOOLEAN : f = Inf(b)
         \/ \E b \in BOOLEAN, m \in Nat : f = Finite(b, m)
<1>1. CASE f \in [cls : {"finite"}, neg : BOOLEAN, mag : Nat]
  <2>1. f = Finite(f.neg, f.mag) /\ f.neg \in BOOLEAN /\ f.mag \in Nat
    BY <1>1 DEF Finite
  <2> QED
    BY <2>1
<1>2. CASE f \in {NaN, Inf(TRUE), Inf(FALSE)}
  BY <1>2
<1> QED
  BY <1>1, <1>2 DEF AnyFloat

LEMMA FloatKinds ==
  /\ ~IsFinite(NaN) /\ ~IsZero(NaN)
  /\ \A b \in BOOLEAN : Inf(b) # NaN /\ ~IsFinite(Inf(b)) /\ ~IsZero(Inf(b)) /\ Inf(b).neg = b
  /\ \A b \in BOOLEAN, m \in Nat :
       /\ Finite(b, m) # NaN /\ IsFinite(Finite(b, m)) /\ (IsZero(Finite(b, m)) <=> m = 0)
       /\ Finite(b, m).neg = b /\ Finite(b, m).mag = m
       /\ Halves(Finite(b, m)) = IF b THEN -m ELSE m
       /\ \A c \in BOOLEAN : Finite(b, m) # Inf(c)
       /\ \A c \in BOOLEAN, n \in Nat : Finite(b, m) = Finite(c, n) <=> b = c /\ m = n
  /\ \A b, c \in BOOLEAN : Inf(b) = Inf(c) <=> b = c
BY DEF NaN, Inf, Finite, IsFinite, IsZero, Halves

LEMMA Order ==
  /\ \A f \in AnyFloat : ~Less(f, NaN) /\ ~Less(NaN, f)
  /\ \A b, c \in BOOLEAN : Less(Inf(b), Inf(c)) <=> b /\ ~c
  /\ \A b, c \in BOOLEAN, m \in Nat :
       (Less(Inf(b), Finite(c, m)) <=> b) /\ (Less(Finite(c, m), Inf(b)) <=> ~b)
  /\ \A b, c \in BOOLEAN, m, n \in Nat :
       Less(Finite(b, m), Finite(c, n)) <=> Halves(Finite(b, m)) < Halves(Finite(c, n))
<1>1. \A f \in AnyFloat : ~Less(f, NaN) /\ ~Less(NaN, f)
  BY DEF Less, NaN
<1>2. \A b, c \in BOOLEAN : Less(Inf(b), Inf(c)) <=> b /\ ~c
  BY DEF Less, Inf, IsFinite
<1>3. \A b, c \in BOOLEAN, m \in Nat :
       (Less(Inf(b), Finite(c, m)) <=> b) /\ (Less(Finite(c, m), Inf(b)) <=> ~b)
  BY DEF Less, Inf, Finite, IsFinite
<1>4. \A b, c \in BOOLEAN, m, n \in Nat :
        Less(Finite(b, m), Finite(c, n)) <=> Halves(Finite(b, m)) < Halves(Finite(c, n))
  BY DEF Less, Finite, IsFinite
<1> QED
  BY <1>1, <1>2, <1>3, <1>4

LEMMA MinAgrees ==
  ASSUME NEW f \in AnyFloat, NEW g \in AnyFloat
  PROVE  (IF Less(g, f) THEN g ELSE f) = RefMin(f, g) <=>
           ~ \/ g = NaN /\ f # NaN
             \/ f = Finite(FALSE, 0) /\ g = Finite(TRUE, 0)
<1>0. /\ \A b \in BOOLEAN : Finite(b, 0) # NaN /\ IsZero(Finite(b, 0)) /\ Finite(b, 0).neg = b
      /\ \A b, c \in BOOLEAN : Finite(b, 0) = Finite(c, 0) <=> b = c
      /\ \A b \in BOOLEAN : ~IsZero(Inf(b))
      /\ \A b \in BOOLEAN, m \in Nat : IsZero(Finite(b, m)) => m = 0
      /\ ~IsZero(NaN)
  BY FloatKinds
<1>1. CASE f = NaN \/ g = NaN
  <2>1. ~Less(g, f) /\ ~Less(f, g)
    BY <1>1, Order
  <2>2. RefMin(f, g) = NaN
    BY <1>1 DEF RefMin
  <2>3. ~(f = Finite(FALSE, 0) /\ g = Finite(TRUE, 0))
    BY <1>0, <1>1
  <2> QED
    BY <2>1, <2>2, <2>3, <1>1
<1>2. CASE f # NaN /\ g # NaN /\ ~(IsZero(f) /\ IsZero(g))
  <2>1. ~(f = Finite(FALSE, 0) /\ g = Finite(TRUE, 0))
    <3>1. IsZero(Finite(TRUE, 0)) /\ IsZero(Finite(FALSE, 0))
      BY <1>0
    <3> QED
      BY <1>2, <3>1
  <2> QED
    BY <1>2, <2>1 DEF RefMin
<1>3. CASE f # NaN /\ g # NaN /\ IsZero(f) /\ IsZero(g)
  <2>1. PICK b \in BOOLEAN : f = Finite(b, 0)
    BY <1>0, <1>3, FloatForms
  <2>2. PICK c \in BOOLEAN : g = Finite(c, 0)
    BY <1>0, <1>3, FloatForms
  <2>3. ~Less(f, g) /\ ~Less(g, f)
    <3>1. Halves(f) = 0 /\ Halves(g) = 0
      BY <2>1, <2>2, FloatKinds
    <3>2. /\ Less(f, g) <=> Halves(f) < Halves(g)
          /\ Less(g, f) <=> Halves(g) < Halves(f)
      BY <2>1, <2>2, Order
    <3> QED
      BY <3>1, <3>2
  <2>4. f.neg = b /\ g.neg = c /\ RefMin(f, g) = Finite(b \/ c, 0)
    <3>1. f.neg = b /\ g.neg = c
      BY <1>0, <2>1, <2>2
    <3> QED
      BY <1>3, <3>1 DEF RefMin
  <2>5. (f = RefMin(f, g)) <=> b = (b \/ c)
    <3>1. (b \/ c) \in BOOLEAN
      OBVIOUS
    <3> QED
      BY <1>0, <2>1, <2>4, <3>1
  <2>6. /\ f = Finite(FALSE, 0) <=> b = FALSE
        /\ g = Finite(TRUE, 0) <=> c = TRUE
    BY <1>0, <2>1, <2>2
  <2> QED
    BY <2>3, <2>5, <2>6, <1>3
<1> QED
  BY <1>1, <1>2, <1>3

LEMMA MaxAgrees ==
  ASSUME NEW f \in AnyFloat, NEW g \in AnyFloat
  PROVE  (IF Less(f, g) THEN g ELSE f) = RefMax(f, g) <=>
           ~ \/ g = NaN /\ f # NaN
             \/ f = Finite(TRUE, 0) /\ g = Finite(FALSE, 0)
<1>0. /\ \A b \in BOOLEAN : Finite(b, 0) # NaN /\ IsZero(Finite(b, 0)) /\ Finite(b, 0).neg = b
      /\ \A b, c \in BOOLEAN : Finite(b, 0) = Finite(c, 0) <=> b = c
      /\ \A b \in BOOLEAN : ~IsZero(Inf(b))
      /\ \A b \in BOOLEAN, m \in Nat : IsZero(Finite(b, m)) => m = 0
      /\ ~IsZero(NaN)
  BY FloatKinds
<1>1. CASE f = NaN \/ g = NaN
  <2>1. ~Less(g, f) /\ ~Less(f, g)
    BY <1>1, Order
  <2>2. RefMax(f, g) = NaN
    BY <1>1 DEF RefMax
  <2>3. ~(f = Finite(TRUE, 0) /\ g = Finite(FALSE, 0))
    BY <1>0, <1>1
  <2> QED
    BY <2>1, <2>2, <2>3, <1>1
<1>2. CASE f # NaN /\ g # NaN /\ ~(IsZero(f) /\ IsZero(g))
  <2>1. ~(f = Finite(TRUE, 0) /\ g = Finite(FALSE, 0))
    <3>1. IsZero(Finite(TRUE, 0)) /\ IsZero(Finite(FALSE, 0))
      BY <1>0
    <3> QED
      BY <1>2, <3>1
  <2> QED
    BY <1>2, <2>1 DEF RefMax
<1>3. CASE f # NaN /\ g # NaN /\ IsZero(f) /\ IsZero(g)
  <2>1. PICK b \in BOOLEAN : f = Finite(b, 0)
    BY <1>0, <1>3, FloatForms
  <2>2. PICK c \in BOOLEAN : g = Finite(c, 0)
    BY <1>0, <1>3, FloatForms
  <2>3. ~Less(f, g) /\ ~Less(g, f)
    <3>1. Halves(f) = 0 /\ Halves(g) = 0
      BY <2>1, <2>2, FloatKinds
    <3>2. /\ Less(f, g) <=> Halves(f) < Halves(g)
          /\ Less(g, f) <=> Halves(g) < Halves(f)
      BY <2>1, <2>2, Order
    <3> QED
      BY <3>1, <3>2
  <2>4. f.neg = b /\ g.neg = c /\ RefMax(f, g) = Finite(b /\ c, 0)
    <3>1. f.neg = b /\ g.neg = c
      BY <1>0, <2>1, <2>2
    <3> QED
      BY <1>3, <3>1 DEF RefMax
  <2>5. (f = RefMax(f, g)) <=> b = (b /\ c)
    <3>1. (b /\ c) \in BOOLEAN
      OBVIOUS
    <3> QED
      BY <1>0, <2>1, <2>4, <3>1
  <2>6. /\ f = Finite(TRUE, 0) <=> b = TRUE
        /\ g = Finite(FALSE, 0) <=> c = FALSE
    BY <1>0, <2>1, <2>2
  <2> QED
    BY <2>3, <2>5, <2>6, <1>3
<1> QED
  BY <1>1, <1>2, <1>3

LEMMA NegAgrees ==
  ASSUME NEW f \in AnyFloat
  PROVE  (IF f = NaN THEN f
          ELSE IF IsZero(f) THEN Finite(~f.neg \/ mode = "downward", 0)
          ELSE [f EXCEPT !.neg = ~@]) = RefNeg(f) <=>
           ~(mode = "downward" /\ f = Finite(TRUE, 0))
<1>0. /\ \A b \in BOOLEAN : Finite(b, 0) # NaN /\ IsZero(Finite(b, 0)) /\ Finite(b, 0).neg = b
      /\ \A b, c \in BOOLEAN : Finite(b, 0) = Finite(c, 0) <=> b = c
      /\ \A b \in BOOLEAN : ~IsZero(Inf(b))
      /\ \A b \in BOOLEAN, m \in Nat : IsZero(Finite(b, m)) => m = 0
      /\ ~IsZero(NaN)
  BY FloatKinds
<1>1. CASE f = NaN
  BY <1>0, <1>1 DEF RefNeg
<1>2. CASE f # NaN /\ ~IsZero(f)
  <2>1. f # Finite(TRUE, 0)
    BY <1>0, <1>2
  <2>2. RefNeg(f) = [f EXCEPT !.neg = ~@]
    BY <1>2 DEF RefNeg
  <2> QED
    BY <1>2, <2>1, <2>2
<1>3. CASE f # NaN /\ IsZero(f)
  <2>1. PICK b \in BOOLEAN : f = Finite(b, 0)
    BY <1>0, <1>3, FloatForms
  <2>2. [Finite(b, 0) EXCEPT !.neg = ~@] = Finite(~b, 0)
    BY DEF Finite
  <2>3. RefNeg(f) = Finite(~b, 0)
    BY <1>3, <2>1, <2>2 DEF RefNeg
  <2>4. /\ f.neg = b
        /\ Finite(~b \/ mode = "downward", 0) = Finite(~b, 0) <=> ~(mode = "downward" /\ b)
        /\ f = Finite(TRUE, 0) <=> b
    <3>1. (~b \/ mode = "downward") \in BOOLEAN /\ (~b) \in BOOLEAN
      OBVIOUS
    <3> QED
      BY <1>0, <2>1, <3>1
  <2> QED
    BY <1>3, <2>1, <2>3, <2>4
<1> QED
  BY <1>1, <1>2, <1>3

------------------------------------------------------------------------------
(* The sizes of the types, and integers of a size.                         *)

LEMMA Sizes ==
  /\ \A type : Bits(type) \in {Bits32, Bits64} /\ Bits(type) \in Nat /\ Bits(type) >= 2
  /\ \A type : Precision(type) \in Nat /\ Precision(type) >= 1
  /\ Bits32 \in Nat /\ Bits64 \in Nat /\ Bits32 >= 2 /\ Bits32 < Bits64
  /\ \A type \in IntegerTypes : Args[type] \subseteq Ints(Bits(type))
  /\ \A type \in FloatTypes : Args[type] \subseteq FloatsOf(Precision(type))
  /\ \A type \in FloatTypes : Args[type] \subseteq AnyFloat
<1>1. {Bits32, Bits64, Prec32, Prec64} \subseteq Nat \ {0}
  BY FormatsAssumption DEF FormatsAssumption
<1>2. Bits32 \in Nat /\ Bits64 \in Nat /\ Prec32 \in Nat /\ Prec64 \in Nat
      /\ Prec32 >= 1 /\ Prec64 >= 1
  BY <1>1
<1>3. Bits32 >= 2 /\ Bits32 < Bits64
  BY <1>2, FormatsAssumption DEF FormatsAssumption
<1>4. \A type \in IntegerTypes : Args[type] \subseteq Ints(Bits(type))
  BY ArgsAssumption DEF ArgsAssumption, IntegerTypes, Bits
<1>5. \A type \in FloatTypes : Args[type] \subseteq FloatsOf(Precision(type))
  BY ArgsAssumption DEF ArgsAssumption, FloatTypes, Precision
<1>6. \A type \in FloatTypes : Args[type] \subseteq AnyFloat
  BY <1>5 DEF FloatsOf
<1> QED
  BY <1>2, <1>3, <1>4, <1>5, <1>6 DEF Bits, Precision

LEMMA Width ==
  ASSUME NEW w \in Nat, w >= 2
  PROVE  /\ Pow2[w] \in Nat /\ Pow2[w - 1] \in Nat /\ Pow2[w] = 2 * Pow2[w - 1]
         /\ Pow2[w - 1] >= 2 /\ Pow2[w] >= 4
         /\ \A x : x \in Ints(w) <=> x \in Int /\ -Pow2[w - 1] <= x /\ x < Pow2[w - 1]
         /\ Lowest(w) = -Pow2[w - 1]
<1>1. w - 1 \in Nat /\ (w - 1) + 1 = w /\ w - 2 \in Nat /\ (w - 2) + 1 = w - 1
  OBVIOUS
<1>2. /\ Pow2[w - 1] \in Nat /\ Pow2[w - 2] \in Nat /\ Pow2[w - 2] >= 1
  BY <1>1, PowType
<1>3. Pow2[w] = 2 * Pow2[w - 1]
  BY <1>1, PowStep
<1>4. Pow2[w - 1] = 2 * Pow2[w - 2]
  BY <1>1, PowStep
<1> DEFINE a == Pow2[w - 2]  b == Pow2[w - 1]  c == Pow2[w]
<1>5. a \in Nat /\ a >= 1 /\ b = 2 * a /\ c = 2 * b
  BY <1>2, <1>3, <1>4
<1>6. \A x : x \in -b .. b - 1 <=> x \in Int /\ -b <= x /\ x < b
  <2> HIDE DEF a, b, c
  <2> QED
    BY <1>5
<1>7. b \in Nat /\ c \in Nat /\ b >= 2 /\ c >= 4
  <2> HIDE DEF a, b, c
  <2> QED
    BY <1>5
<1> QED
  BY <1>5, <1>6, <1>7 DEF Ints, Lowest

(* The remainder of a number between -m and m. *)
LEMMA RemainderNear ==
  ASSUME NEW a \in Int, NEW m \in Nat, m > 0, -m <= a, a < m
  PROVE  a % m = IF a < 0 THEN a + m ELSE a
<1>1. CASE a < 0
  <2>1. a + m \in 0 .. m - 1 /\ a = (m * (-1)) + (a + m) /\ -1 \in Int
    BY <1>1
  <2> QED
    BY <2>1, <1>1, DivisionUnique
<1>2. CASE a >= 0
  <2>1. a \in 0 .. m - 1 /\ a = (m * 0) + a /\ 0 \in Int
    BY <1>2
  <2> QED
    BY <2>1, <1>2, DivisionUnique
<1> QED
  BY <1>1, <1>2

LEMMA UnsignedFacts ==
  ASSUME NEW w \in Nat, w >= 2, NEW x \in Ints(w)
  PROVE  /\ Unsigned(w, x) = IF x < 0 THEN x + Pow2[w] ELSE x
         /\ Unsigned(w, x) \in Nat /\ Unsigned(w, x) < Pow2[w]
         /\ x \in Int /\ Abs(x) \in Nat
         /\ iabs_u(w, x) = Abs(x)
<1> DEFINE m == Pow2[w]  h == Pow2[w - 1]
<1>1. m \in Nat /\ h \in Nat /\ m = 2 * h /\ h >= 2 /\ x \in Int /\ -h <= x /\ x < h
  BY Width
<1>2. x % m = IF x < 0 THEN x + m ELSE x
  <2> HIDE DEF m, h
  <2> QED
    BY <1>1, RemainderNear
<1>3. Unsigned(w, x) = IF x < 0 THEN x + m ELSE x
  BY <1>2 DEF Unsigned
<1>4. Abs(x) = IF x < 0 THEN -x ELSE x
  BY DEF Abs
<1>5. ASSUME x < 0 PROVE iabs_u(w, x) = -x
  <2>1. iabs_u(w, x) = (m - 1 - Unsigned(w, x) + 1) % m
    BY <1>5 DEF iabs_u, Not, to_unsigned
  <2>2. m - 1 - Unsigned(w, x) + 1 = -x /\ -x \in Int /\ -m <= -x /\ -x < m
    <3> HIDE DEF m, h
    <3> QED
      BY <1>1, <1>3, <1>5
  <2>3. (-x) % m = -x
    <3> HIDE DEF m, h
    <3> QED
      BY <1>1, <1>5, <2>2, RemainderNear
  <2> QED
    BY <2>1, <2>2, <2>3
<1>6. ASSUME ~(x < 0) PROVE iabs_u(w, x) = x
  BY <1>3, <1>6 DEF iabs_u, to_unsigned
<1> HIDE DEF m, h
<1>7. /\ Unsigned(w, x) \in Nat /\ Unsigned(w, x) < m
  BY <1>1, <1>3
<1> QED
  BY <1>1, <1>3, <1>4, <1>5, <1>6, <1>7 DEF m

(* What min, max and neg get wrong is exactly a NaN on the right, zeros of *)
(* unlike sign and a zero where rounding is downward; the conversions      *)
(* round once and keep the sign (float_min, float_max, float_neg,          *)
(* convert_s, convert_u).                                                  *)
THEOREM FloatsAreComputed == ASpec => []FloatsAgree
<1>1. ASSUME AInv PROVE FloatsAgree
  <2>1. ASSUME Called({"min", "max"})
        PROVE  \E fn \in FloatBinary, f, g \in AnyFloat :
                 /\ Fn = fn /\ Arg(1) = f /\ Arg(2) = g
                 /\ outcome = float_binary(fn, f, g)
    <3>1. CalledFloats
      BY <1>1, <2>1, WhichCall DEF AInv, Called
    <3> QED
      BY <3>1, Sizes DEF CalledFloats, Calling, Fn, Arg
  <2>2. ASSUME Called({"neg"})
        PROVE  \E f \in AnyFloat : Arg(1) = f /\ outcome = float_neg(f)
    <3>1. CalledFloat
      BY <1>1, <2>2, WhichCall DEF AInv, Called
    <3>2. PICK fn \in FloatUnary, f \in AnyFloat :
            Fn = fn /\ Arg(1) = f /\ outcome = float_unary(fn, f)
      BY <3>1, Sizes DEF CalledFloat, Calling, Fn, Arg
    <3> QED
      BY <2>2, <3>2 DEF float_unary, Called
  <2>3. ASSUME Called({"convert_s", "convert_u"})
        PROVE  \E type \in IntegerTypes, to \in FloatTypes : \E x \in Ints(Bits(type)) :
                 /\ call.type = type /\ call.to = to /\ Arg(1) = x
                 /\ outcome = conversion(Fn, type, to, x)
    <3>1. CalledConversion
      BY <1>1, <2>3, WhichCall DEF AInv, Called
    <3> QED
      BY <3>1, Sizes DEF CalledConversion, Calling, Fn, Arg
  <2>4. ASSUME Called({"min"})
        PROVE  outcome = Value(RefMin(Arg(1), Arg(2))) <=>
                 ~ \/ Arg(2) = NaN /\ Arg(1) # NaN
                   \/ Arg(1) = Finite(FALSE, 0) /\ Arg(2) = Finite(TRUE, 0)
    <3>1. PICK f \in AnyFloat, g \in AnyFloat :
            Arg(1) = f /\ Arg(2) = g /\ outcome = float_binary("min", f, g)
      BY <2>1, <2>4 DEF Called
    <3>2. outcome = Value(IF Less(g, f) THEN g ELSE f)
      BY <3>1 DEF float_binary, float_min
    <3>3. outcome = Value(RefMin(f, g)) <=> (IF Less(g, f) THEN g ELSE f) = RefMin(f, g)
      BY <3>2, Valued
    <3>4. (IF Less(g, f) THEN g ELSE f) = RefMin(f, g) <=>
            ~ \/ g = NaN /\ f # NaN
              \/ f = Finite(FALSE, 0) /\ g = Finite(TRUE, 0)
      BY MinAgrees
    <3> QED
      BY <3>1, <3>3, <3>4
  <2>5. ASSUME Called({"max"})
        PROVE  outcome = Value(RefMax(Arg(1), Arg(2))) <=>
                 ~ \/ Arg(2) = NaN /\ Arg(1) # NaN
                   \/ Arg(1) = Finite(TRUE, 0) /\ Arg(2) = Finite(FALSE, 0)
    <3>1. PICK f \in AnyFloat, g \in AnyFloat :
            Arg(1) = f /\ Arg(2) = g /\ outcome = float_binary("max", f, g)
      BY <2>1, <2>5 DEF Called
    <3>2. outcome = Value(IF Less(f, g) THEN g ELSE f)
      BY <3>1 DEF float_binary, float_max
    <3>3. outcome = Value(RefMax(f, g)) <=> (IF Less(f, g) THEN g ELSE f) = RefMax(f, g)
      BY <3>2, Valued
    <3>4. (IF Less(f, g) THEN g ELSE f) = RefMax(f, g) <=>
            ~ \/ g = NaN /\ f # NaN
              \/ f = Finite(TRUE, 0) /\ g = Finite(FALSE, 0)
      BY MaxAgrees
    <3> QED
      BY <3>1, <3>3, <3>4
  <2>6. ASSUME Called({"neg"})
        PROVE  outcome = Value(RefNeg(Arg(1))) <=>
                 ~(mode = "downward" /\ Arg(1) = Finite(TRUE, 0))
    <3>1. PICK f \in AnyFloat : Arg(1) = f /\ outcome = float_neg(f)
      BY <2>2, <2>6
    <3> QED
      BY <3>1, NegAgrees DEF float_neg, Value
  <2>7. ASSUME Called({"convert_s"})
        PROVE  outcome = Value(RefConvert(Precision(call.to), Arg(1)))
    <3>1. PICK type \in IntegerTypes, to \in FloatTypes : \E x \in Ints(Bits(type)) :
                 /\ call.type = type /\ call.to = to /\ Arg(1) = x
                 /\ outcome = conversion(Fn, type, to, x)
      BY <2>3, <2>7 DEF Called
    <3>2. PICK x \in Ints(Bits(type)) :
                 /\ call.type = type /\ call.to = to /\ Arg(1) = x
                 /\ outcome = conversion(Fn, type, to, x)
      BY <3>1
    <3>3. iabs_u(Bits(type), x) = Abs(x)
      BY Sizes, UnsignedFacts
    <3> QED
      BY <2>7, <3>2, <3>3 DEF Called, conversion, convert_s, RefConvert
  <2>8. ASSUME Called({"convert_u"})
        PROVE  outcome = Value(RefConvert(Precision(call.to), Unsigned(W, Arg(1))))
    <3>1. PICK type \in IntegerTypes, to \in FloatTypes : \E x \in Ints(Bits(type)) :
                 /\ call.type = type /\ call.to = to /\ Arg(1) = x
                 /\ outcome = conversion(Fn, type, to, x)
      BY <2>3, <2>8 DEF Called
    <3>2. PICK x \in Ints(Bits(type)) :
                 /\ call.type = type /\ call.to = to /\ Arg(1) = x
                 /\ outcome = conversion(Fn, type, to, x)
      BY <3>1
    <3>3. Unsigned(Bits(type), x) \in Nat
      BY Sizes, UnsignedFacts
    <3>4. ~(Unsigned(W, x) < 0) /\ Abs(Unsigned(W, x)) = Unsigned(W, x)
      BY <3>2, <3>3 DEF Abs, W
    <3>5. outcome = convert_u(W, Precision(call.to), x)
      BY <2>8, <3>2 DEF Called, conversion, W
    <3>6. outcome = Value(Finite(FALSE, RoundTo(Precision(call.to), 2 * Unsigned(W, x))))
      BY <3>5 DEF convert_u, to_unsigned
    <3>7. (Unsigned(W, x) < 0) = FALSE
      BY <3>4
    <3>8. RefConvert(Precision(call.to), Unsigned(W, x)) =
            Finite(FALSE, RoundTo(Precision(call.to), 2 * Unsigned(W, x)))
      BY <3>4, <3>7 DEF RefConvert
    <3> QED
      BY <3>2, <3>6, <3>8
  <2> QED
    BY <2>4, <2>5, <2>6, <2>7, <2>8 DEF FloatsAgree
<1> QED
  BY <1>1, AlwaysAInv, PTL

------------------------------------------------------------------------------
(* Integers of w bits are numbers modulo 2^w.                              *)

LEMMA Congruent ==
  ASSUME NEW w \in Nat, w >= 2, NEW a \in Int, NEW b \in Int, NEW k \in Int,
         a = b + Pow2[w] * k
  PROVE  AsSigned(w, a) = AsSigned(w, b)
<1> DEFINE m == Pow2[w]  h == Pow2[w - 1]
<1>1. m \in Nat /\ h \in Nat /\ m >= 4
  BY Width
<1>2. a + h = (b + h) + (m * k) /\ b + h \in Int
  <2> DEFINE mk == m * k
  <2>1. mk \in Int
    BY <1>1
  <2>2. a = b + mk
    OBVIOUS
  <2> HIDE DEF m, h, mk
  <2>3. a + h = (b + h) + mk /\ b + h \in Int
    BY <1>1, <2>1, <2>2
  <2> QED
    BY <2>3 DEF mk
<1>3. ((b + h) + (m * k)) % m = (b + h) % m
  <2> DEFINE c == b + h
  <2>1. c \in Int /\ m > 0
    BY <1>1, <1>2
  <2> HIDE DEF m, h, c
  <2>2. (c + (m * k)) % m = c % m
    BY <1>1, <2>1, RemainderShift
  <2> QED
    BY <2>2 DEF c
<1>4. (a + h) % m = (b + h) % m
  BY <1>2, <1>3
<1> QED
  BY <1>4 DEF AsSigned

LEMMA UnsignedCongruent ==
  ASSUME NEW w \in Nat, w >= 2, NEW x \in Int
  PROVE  \E k \in Int : Unsigned(w, x) = x + Pow2[w] * k
<1> DEFINE m == Pow2[w]  q == x \div m
<1>1. m \in Nat /\ m > 0
  BY Width
<1>2. q \in Int /\ x = m * q + (x % m) /\ x % m \in Int
  <2> HIDE DEF m
  <2> QED
    BY <1>1, Division
<1> HIDE DEF q
<1>3. -q \in Int
  BY <1>2
<1>4. m * (-q) = -(m * q) /\ m * q \in Int
  <2> HIDE DEF m
  <2> QED
    BY <1>1, <1>2
<1>5. x % m = x + m * (-q)
  <2> DEFINE mq == m * q
  <2>1. mq \in Int /\ x = mq + (x % m) /\ m * (-q) = -mq
    BY <1>2, <1>4
  <2> HIDE DEF mq, m
  <2> QED
    BY <1>2, <2>1
<1> QED
  BY <1>3, <1>5 DEF Unsigned

LEMMA AsSignedFacts ==
  ASSUME NEW w \in Nat, w >= 2
  PROVE  /\ \A u \in Int : AsSigned(w, u) \in Ints(w)
         /\ \A u \in Int : decorate_signed(w, u) = Value(AsSigned(w, u))
         /\ \A x \in Ints(w) : AsSigned(w, x) = x
         /\ \A u \in Nat : u < Pow2[w] =>
              AsSigned(w, u) = IF u < Pow2[w - 1] THEN u ELSE u - Pow2[w]
<1> DEFINE m == Pow2[w]  h == Pow2[w - 1]
<1>1. /\ m \in Nat /\ h \in Nat /\ m > 0 /\ m = 2 * h /\ h >= 2
      /\ \A x : x \in Ints(w) <=> x \in Int /\ -h <= x /\ x < h
  BY Width
<1>2. \A u : AsSigned(w, u) = ((u + h) % m) - h
  BY DEF AsSigned
<1>3. \A u \in Int : AsSigned(w, u) \in Ints(w)
  <2> SUFFICES ASSUME NEW u \in Int PROVE ((u + h) % m) - h \in Ints(w)
    BY <1>2
  <2>1. (u + h) % m \in 0 .. m - 1
    <3>1. u + h \in Int
      BY <1>1
    <3> HIDE DEF m, h
    <3> QED
      BY <1>1, <3>1, Division
  <2> HIDE DEF m, h
  <2> QED
    BY <1>1, <2>1
<1>4. ASSUME NEW u \in Int PROVE decorate_signed(w, u) = Value(AsSigned(w, u))
  <2>1. PICK k \in Int : Unsigned(w, u) = u + Pow2[w] * k
    BY UnsignedCongruent
  <2>2. u % m \in Int
    <3> HIDE DEF m
    <3> QED
      BY <1>1
  <2>3. AsSigned(w, u % m) = AsSigned(w, u)
    BY <2>1, <2>2, Congruent DEF Unsigned
  <2> QED
    BY <2>3 DEF decorate_signed, to_signed
<1>5. \A x \in Ints(w) : AsSigned(w, x) = x
  <2> SUFFICES ASSUME NEW x \in Ints(w) PROVE ((x + h) % m) - h = x
    BY <1>2
  <2>1. x + h \in 0 .. m - 1 /\ x + h = m * 0 + (x + h) /\ x \in Int /\ x + h \in Int /\ 0 \in Int
    <3> HIDE DEF m, h
    <3> QED
      BY <1>1
  <2>2. (x + h) % m = x + h
    <3> HIDE DEF m, h
    <3> QED
      BY <1>1, <2>1, DivisionUnique
  <2> HIDE DEF m, h
  <2> QED
    BY <1>1, <2>1, <2>2
<1>6. ASSUME NEW u \in Nat, u < m
      PROVE  AsSigned(w, u) = IF u < h THEN u ELSE u - m
  <2>1. CASE u < h
    <3>1. u \in Ints(w)
      <4> HIDE DEF m, h
      <4> QED
        BY <1>1, <2>1
    <3> QED
      BY <1>5, <2>1, <3>1
  <2>2. CASE ~(u < h)
    <3>1. u - m \in Ints(w) /\ u = (u - m) + m * 1 /\ u - m \in Int /\ u \in Int /\ 1 \in Int
      <4> HIDE DEF m, h
      <4> QED
        BY <1>1, <1>6, <2>2
    <3>2. AsSigned(w, u) = AsSigned(w, u - m)
      <4> DEFINE v == u - m
      <4>1. v \in Int /\ u \in Int /\ 1 \in Int /\ u = v + Pow2[w] * 1
        BY <3>1
      <4> HIDE DEF v
      <4>2. AsSigned(w, u) = AsSigned(w, v)
        BY <4>1, Congruent
      <4> QED
        BY <4>2 DEF v
    <3> QED
      BY <1>5, <2>2, <3>1, <3>2
  <2> QED
    BY <2>1, <2>2
<1> QED
  BY <1>3, <1>4, <1>5, <1>6

(* Numbers with the same signed value differ by a multiple of 2^w.         *)
LEMMA SameResidue ==
  ASSUME NEW w \in Nat, w >= 2, NEW a \in Int, NEW b \in Int, AsSigned(w, a) = AsSigned(w, b)
  PROVE  \E k \in Int : a = b + Pow2[w] * k
<1> DEFINE m == Pow2[w]  h == Pow2[w - 1]
<1>1. m \in Nat /\ h \in Nat /\ m > 0
  BY Width
<1> DEFINE c == a + h  d == b + h
<1>2. c \in Int /\ d \in Int
  BY <1>1
<1>3. (c % m) - h = (d % m) - h
  BY DEF AsSigned
<1> DEFINE e == c \div m  f == d \div m
<1>4. /\ c = m * e + (c % m) /\ e \in Int /\ c % m \in Int
      /\ d = m * f + (d % m) /\ f \in Int /\ d % m \in Int
  <2> HIDE DEF c, d, m
  <2> QED
    BY <1>1, <1>2, Division
<1>5. c % m = d % m
  <2> DEFINE g == c % m  k == d % m
  <2>1. g \in Int /\ k \in Int /\ g - h = k - h
    BY <1>3, <1>4
  <2> HIDE DEF g, k, h
  <2>2. g = k
    BY <1>1, <2>1
  <2> QED
    BY <2>2 DEF g, k
<1> HIDE DEF e, f
<1>6. m * (e - f) = m * e - m * f /\ m * e \in Int /\ m * f \in Int /\ e - f \in Int
  <2> HIDE DEF m
  <2> QED
    BY <1>1, <1>4
<1>7. a = b + m * (e - f)
  <2> DEFINE me == m * e  mf == m * f  g == c % m
  <2>1. me \in Int /\ mf \in Int /\ g \in Int /\ a + h = me + g /\ b + h = mf + g
        /\ m * (e - f) = me - mf
    BY <1>4, <1>5, <1>6
  <2> HIDE DEF me, mf, g, m, h
  <2> QED
    BY <1>1, <2>1
<1> QED
  BY <1>6, <1>7

(* Sums, differences and products of the unsigned numbers are those of the *)
(* signed ones.                                                            *)
LEMMA ModularArithmetic ==
  ASSUME NEW w \in Nat, w >= 2, NEW l \in Int, NEW r \in Int
  PROVE  /\ AsSigned(w, Unsigned(w, l) + Unsigned(w, r)) = AsSigned(w, l + r)
         /\ AsSigned(w, Unsigned(w, l) - Unsigned(w, r)) = AsSigned(w, l - r)
         /\ AsSigned(w, Unsigned(w, l) * Unsigned(w, r)) = AsSigned(w, l * r)
         /\ AsSigned(w, Unsigned(w, l) * r) = AsSigned(w, l * r)
<1> DEFINE m == Pow2[w]
<1>1. m \in Nat
  BY Width
<1>2. PICK a \in Int : Unsigned(w, l) = l + m * a
  BY UnsignedCongruent
<1>3. PICK b \in Int : Unsigned(w, r) = r + m * b
  BY UnsignedCongruent
<1>4. Unsigned(w, l) \in Int /\ Unsigned(w, r) \in Int
  <2> HIDE DEF m
  <2> QED
    BY <1>1, <1>2, <1>3
<1>5. /\ (l + m * a) + (r + m * b) = (l + r) + m * (a + b)
      /\ (l + m * a) - (r + m * b) = (l - r) + m * (a - b)
      /\ a + b \in Int /\ a - b \in Int /\ l + r \in Int /\ l - r \in Int
  <2> HIDE DEF m
  <2> QED
    BY <1>1
<1>6. (l + m * a) * (r + m * b) = (l * r) + m * ((a * r) + (b * l) + (m * (a * b)))
  <2> HIDE DEF m
  <2> QED
    BY <1>1
<1>7. (l + m * a) * r = (l * r) + m * (a * r)
  <2> HIDE DEF m
  <2> QED
    BY <1>1
<1>8. /\ (a * r) + (b * l) + (m * (a * b)) \in Int /\ a * r \in Int /\ l * r \in Int
      /\ Unsigned(w, l) * Unsigned(w, r) \in Int /\ Unsigned(w, l) * r \in Int
      /\ Unsigned(w, l) + Unsigned(w, r) \in Int /\ Unsigned(w, l) - Unsigned(w, r) \in Int
  <2> HIDE DEF m
  <2> QED
    BY <1>1, <1>4
<1>9. AsSigned(w, Unsigned(w, l) + Unsigned(w, r)) = AsSigned(w, l + r)
  <2> DEFINE u == Unsigned(w, l) + Unsigned(w, r)  v == l + r  k == a + b
  <2>1. u \in Int /\ v \in Int /\ k \in Int /\ u = v + Pow2[w] * k
    BY <1>2, <1>3, <1>5, <1>8
  <2> HIDE DEF u, v, k
  <2>2. AsSigned(w, u) = AsSigned(w, v)
    BY <2>1, Congruent, ZenonT(40)
  <2> QED
    BY <2>2 DEF u, v
<1>10. AsSigned(w, Unsigned(w, l) - Unsigned(w, r)) = AsSigned(w, l - r)
  <2> DEFINE u == Unsigned(w, l) - Unsigned(w, r)  v == l - r  k == a - b
  <2>1. u \in Int /\ v \in Int /\ k \in Int /\ u = v + Pow2[w] * k
    BY <1>2, <1>3, <1>5, <1>8
  <2> HIDE DEF u, v, k
  <2>2. AsSigned(w, u) = AsSigned(w, v)
    BY <2>1, Congruent, ZenonT(40)
  <2> QED
    BY <2>2 DEF u, v
<1>11. AsSigned(w, Unsigned(w, l) * Unsigned(w, r)) = AsSigned(w, l * r)
  <2> DEFINE u == Unsigned(w, l) * Unsigned(w, r)  v == l * r  k == (a * r) + (b * l) + (m * (a * b))
  <2>1. u \in Int /\ v \in Int /\ k \in Int /\ u = v + Pow2[w] * k
    BY <1>2, <1>3, <1>6, <1>5, <1>8
  <2> HIDE DEF u, v, k
  <2>2. AsSigned(w, u) = AsSigned(w, v)
    BY <2>1, Congruent, ZenonT(40)
  <2> QED
    BY <2>2 DEF u, v
<1>12. AsSigned(w, Unsigned(w, l) * r) = AsSigned(w, l * r)
  <2> DEFINE u == Unsigned(w, l) * r  v == l * r  k == a * r
  <2>1. u \in Int /\ v \in Int /\ k \in Int /\ u = v + Pow2[w] * k
    BY <1>2, <1>7, <1>5, <1>8
  <2> HIDE DEF u, v, k
  <2>2. AsSigned(w, u) = AsSigned(w, v)
    BY <2>1, Congruent, ZenonT(40)
  <2> QED
    BY <2>2 DEF u, v
<1> QED
  BY <1>9, <1>10, <1>11, <1>12

LEMMA PowAbove == \A n \in Nat : n < Pow2[n]
<1> DEFINE T == {n \in Nat : n < Pow2[n]}
<1>1. 0 \in T
  BY PowZero
<1>2. ASSUME NEW n \in Nat, n \in T PROVE n + 1 \in T
  <2>1. Pow2[n + 1] = 2 * Pow2[n] /\ Pow2[n] \in Nat /\ Pow2[n] >= 1 /\ n < Pow2[n]
    BY <1>2, PowStep, PowType
  <2>2. n + 1 \in Nat /\ n + 1 < 2 * Pow2[n]
    <3> DEFINE p == Pow2[n]
    <3> HIDE DEF p
    <3>1. \A c \in Nat : n < c /\ c >= 1 => n + 1 < 2 * c
      OBVIOUS
    <3> QED
      BY <2>1, <3>1
  <2> QED
    BY <2>1, <2>2
<1>3. \A n \in Nat : n \in T
  <2> HIDE DEF T
  <2> QED
    BY <1>1, <1>2, NatSetInduction
<1> QED
  BY <1>3

LEMMA ShiftFacts ==
  ASSUME NEW w \in Nat, w >= 2, NEW r \in Ints(w)
  PROVE  /\ Shift(w, r) \in Nat /\ Shift(w, r) < w /\ w - Shift(w, r) \in Nat
         /\ Shift(w, r) = Unsigned(w, r) % w
         /\ Pow2[Shift(w, r)] \in Nat /\ Pow2[Shift(w, r)] >= 1
         /\ Pow2[w - Shift(w, r)] \in Nat /\ Pow2[w - Shift(w, r)] >= 2
         /\ Pow2[w] = Pow2[w - Shift(w, r)] * Pow2[Shift(w, r)]
         /\ Shift(w, r) = 0 => Pow2[Shift(w, r)] = 1
         /\ Shift(w, r) # 0 => Pow2[Shift(w, r)] >= 2
<1> DEFINE s == Shift(w, r)
<1>1. Unsigned(w, r) \in Nat
  BY UnsignedFacts
<1>2. s = Unsigned(w, r) % w /\ s \in 0 .. w - 1
  BY <1>1, Division DEF Shift, to_unsigned
<1> HIDE DEF s
<1>3. /\ s \in Nat /\ w - s \in Nat /\ s + (w - s) = w /\ (w - s) + s = w
      /\ w - s >= 1 /\ 1 \in Nat
  BY <1>2
<1>4. Pow2[1] = 2
  BY PowZero, PowStep
<1>5. Pow2[w - s] >= 2
  BY <1>3, <1>4, PowMonotone
<1>6. s # 0 => Pow2[s] >= 2
  BY <1>3, <1>4, PowMonotone
<1>7. Pow2[w] = Pow2[w - s] * Pow2[s]
  <2> DEFINE t == w - s
  <2>1. t \in Nat /\ t + s = w
    BY <1>3
  <2> HIDE DEF t
  <2>2. Pow2[t + s] = Pow2[t] * Pow2[s]
    BY <1>3, <2>1, PowSum
  <2> QED
    BY <2>1, <2>2 DEF t
<1> QED
  BY <1>2, <1>3, <1>5, <1>6, <1>7, PowType, PowZero DEF s

(* A quotient rounded down, and what is added to a number of multiples of  *)
(* the divisor.                                                            *)
LEMMA DivisionAdds ==
  ASSUME NEW a \in Int, NEW d \in Nat, d > 0, NEW q \in Int
  PROVE  (a + (q * d)) \div d = (a \div d) + q
<1>1. a = d * (a \div d) + (a % d) /\ a \div d \in Int /\ a % d \in 0 .. d - 1
  BY Division
<1> DEFINE e == a \div d  f == a % d
<1> HIDE DEF e, f
<1>2. a = d * e + f /\ e \in Int /\ f \in 0 .. d - 1
  BY <1>1 DEF e, f
<1>3. a + (q * d) = d * (e + q) + f /\ e + q \in Int /\ a + (q * d) \in Int
  BY <1>2
<1> DEFINE c == a + (q * d)  g == e + q
<1>4. c = d * g + f /\ g \in Int /\ c \in Int
  BY <1>3
<1> HIDE DEF c, g
<1>5. c \div d = g
  BY <1>2, <1>4, DivisionUnique
<1> QED
  BY <1>5 DEF c, g, e

LEMMA QuotientBetween ==
  ASSUME NEW a \in Int, NEW d \in Nat, d >= 1
  PROVE  /\ a \div d \in Int
         /\ a >= 0 => a \div d >= 0 /\ a \div d <= a
         /\ a < 0 => a \div d < 0 /\ a \div d >= a
         /\ d = 1 => a \div d = a
         /\ \A h \in Nat : d >= 2 /\ a >= 0 /\ a < 2 * h => a \div d < h
<1> DEFINE q == a \div d  f == a % d
<1>1. a = d * q + f /\ q \in Int /\ f \in 0 .. d - 1
  BY Division
<1> HIDE DEF q, f
<1>2. ASSUME a >= 0 PROVE q >= 0 /\ q <= a
  <2>1. q >= 0
    <3> SUFFICES ASSUME q <= -1 PROVE FALSE
      BY <1>1
    <3>1. d * q <= -d
      BY <1>1
    <3> QED
      BY <1>1, <1>2, <3>1
  <2>2. d * q >= q /\ d * q \in Int
    BY <1>1, <2>1
  <2> QED
    BY <1>1, <2>1, <2>2
<1>3. ASSUME a < 0 PROVE q < 0 /\ q >= a
  <2>1. q < 0
    <3> SUFFICES ASSUME q >= 0 PROVE FALSE
      BY <1>1
    <3>1. d * q >= 0
      BY <1>1
    <3> QED
      BY <1>1, <1>3, <3>1
  <2>2. q >= a
    <3> SUFFICES ASSUME q <= a - 1 PROVE FALSE
      BY <1>1
    <3>1. d * (q + 1) <= q + 1 /\ d * (q + 1) = d * q + d /\ d * q \in Int
      BY <1>1, <2>1
    <3> QED
      BY <1>1, <3>1
  <2> QED
    BY <2>1, <2>2
<1>4. d = 1 => q = a
  BY <1>1
<1>5. ASSUME NEW h \in Nat, d >= 2, a >= 0, a < 2 * h PROVE q < h
  <2> SUFFICES ASSUME q >= h PROVE FALSE
    BY <1>1
  <2>1. d * q >= 2 * q /\ d * q \in Int
    BY <1>1, <1>2, <1>5
  <2> QED
    BY <1>1, <1>5, <2>1
<1> QED
  BY <1>1, <1>2, <1>3, <1>4, <1>5 DEF q

LEMMA ShiftLeft ==
  ASSUME NEW w \in Nat, w >= 2, NEW l \in Ints(w), NEW r \in Ints(w)
  PROVE  shl(w, l, r) = Value(AsSigned(w, l * Pow2[Unsigned(w, r) % w]))
<1>1. l \in Int /\ Pow2[Shift(w, r)] \in Nat /\ Shift(w, r) = Unsigned(w, r) % w
      /\ Unsigned(w, l) \in Nat
  BY ShiftFacts, UnsignedFacts
<1> DEFINE p == Pow2[Shift(w, r)]
<1>2. p \in Int /\ Unsigned(w, l) * p \in Int
  BY <1>1
<1>3. shl(w, l, r) = decorate_signed(w, Unsigned(w, l) * p)
  BY DEF shl, to_unsigned
<1> HIDE DEF p
<1>4. decorate_signed(w, Unsigned(w, l) * p) = Value(AsSigned(w, Unsigned(w, l) * p))
  BY <1>2, AsSignedFacts
<1>5. AsSigned(w, Unsigned(w, l) * p) = AsSigned(w, l * p)
  BY <1>1, <1>2, ModularArithmetic
<1> QED
  BY <1>1, <1>3, <1>4, <1>5 DEF p

(* shr_s is right where the number is not negative or is not shifted, and  *)
(* wrong wherever the sign was to be extended.                             *)
LEMMA ShiftRightSigned ==
  ASSUME NEW w \in Nat, w >= 2, NEW l \in Ints(w), NEW r \in Ints(w)
  PROVE  shr_s(w, l, r) = RefShrS(w, l, r) <=> ~(l < 0 /\ Shift(w, r) # 0)
<1> DEFINE m == Pow2[w]  h == Pow2[w - 1]  p == Pow2[Shift(w, r)]  u == Unsigned(w, l)
<1>1. /\ m \in Nat /\ h \in Nat /\ m = 2 * h /\ h >= 2
      /\ \A x : x \in Ints(w) <=> x \in Int /\ -h <= x /\ x < h
  BY Width
<1>2. /\ l \in Int /\ -h <= l /\ l < h
      /\ u = (IF l < 0 THEN l + m ELSE l) /\ u \in Nat /\ u < m
  BY <1>1, UnsignedFacts
<1>3. /\ p \in Nat /\ p >= 1 /\ Shift(w, r) = Unsigned(w, r) % w
      /\ Shift(w, r) = 0 => p = 1
      /\ Shift(w, r) # 0 => p >= 2
  BY ShiftFacts
<1>4. RefShrS(w, l, r) = Value(l \div p)
  BY <1>3 DEF RefShrS
<1>5. shr_s(w, l, r) = Value(AsSigned(w, u \div p))
  <2>1. (m - 1) - (m - 1) = 0 /\ (m - 1) - 0 = m - 1
    BY <1>1
  <2>2. Not(w, Not(w, 0)) = 0
    BY <2>1 DEF Not
  <2>3. 0 \div p = 0 /\ u \div p \in Int
    <3> HIDE DEF p, u
    <3> QED
      BY <1>2, <1>3, QuotientBetween
  <2>4. (u \div p) + 0 = u \div p
    BY <2>3
  <2>5. (IF l < 0 THEN Not(w, Not(w, 0)) \div p ELSE 0) = 0
    BY <2>2, <2>3
  <2> QED
    BY <2>4, <2>5 DEF shr_s, to_signed, to_unsigned
<1> HIDE DEF m, h, p, u
<1>6. u \div p \in Nat /\ u \div p <= u
  BY <1>2, <1>3, QuotientBetween
<1>7. CASE l >= 0
  <2>1. u = l /\ u \div p \in Ints(w)
    BY <1>1, <1>2, <1>6, <1>7
  <2>2. AsSigned(w, u \div p) = l \div p
    BY <2>1, AsSignedFacts
  <2> QED
    BY <1>2, <1>4, <1>5, <1>7, <2>2
<1>8. CASE l < 0 /\ Shift(w, r) = 0
  <2>1. p = 1 /\ u = l + m
    BY <1>2, <1>3, <1>8
  <2>2. u \div p = u /\ l \div p = l
    BY <1>2, <2>1, QuotientBetween
  <2>3. AsSigned(w, u) = u - m
    <3>1. ~(u < h)
      BY <1>1, <1>2, <2>1
    <3> QED
      BY <1>2, <3>1, AsSignedFacts DEF m, h
  <2>4. u - m = l
    BY <1>1, <1>2, <2>1
  <2> QED
    BY <1>4, <1>5, <1>8, <2>2, <2>3, <2>4
<1>9. CASE l < 0 /\ Shift(w, r) # 0
  <2>1. u \div p < h
    BY <1>1, <1>2, <1>3, <1>9, QuotientBetween
  <2>2. AsSigned(w, u \div p) = u \div p
    BY <1>1, <1>6, <2>1, AsSignedFacts
  <2>3. l \div p < 0 /\ l \div p \in Int
    BY <1>2, <1>3, <1>9, QuotientBetween
  <2>4. AsSigned(w, u \div p) # l \div p
    BY <1>6, <2>2, <2>3
  <2> QED
    BY <1>4, <1>5, <1>9, <2>4, Valued
<1> QED
  BY <1>2, <1>7, <1>8, <1>9

(* A rotation to the right by s is one to the left by w - s.               *)
LEMMA Rotations ==
  ASSUME NEW w \in Nat, w >= 2, NEW l \in Ints(w), NEW r \in Ints(w)
  PROVE  /\ RotateLeft(w, l, r) = RefRotl(w, l, r) <=> Shift(w, r) # 0
         /\ RotateRight(w, l, r) = RefRotr(w, l, r) <=> Shift(w, r) # 0
<1> DEFINE s == Shift(w, r)  u == Unsigned(w, l)  m == Pow2[w]
<1>1. s \in Nat /\ s < w /\ w - s \in Nat /\ s = Unsigned(w, r) % w /\ u \in Nat /\ m \in Nat /\ w < m
      /\ Pow2[s] \in Nat /\ Pow2[s] >= 1 /\ Pow2[w - s] \in Nat
  BY ShiftFacts, UnsignedFacts, Width, PowAbove
<1>2. RefRotl(w, l, r) = Value(AsSigned(w, ((u * Pow2[s]) % m) + (u \div Pow2[w - s])))
  BY <1>1 DEF RefRotl
<1>3. RotateLeft(w, l, r) = IF s = 0 THEN Undefined
        ELSE Value(AsSigned(w, ((u * Pow2[s]) % m) + (u \div Pow2[w - s])))
  BY DEF RotateLeft, to_unsigned, to_signed
<1>4. RotateRight(w, l, r) = IF s = 0 THEN Undefined
        ELSE Value(AsSigned(w, (u \div Pow2[s]) + ((u * Pow2[w - s]) % m)))
  BY DEF RotateRight, to_unsigned, to_signed
<1>5. \E x : RefRotr(w, l, r) = Value(x)
  BY DEF RefRotr, RefRotl
<1>6. ASSUME s # 0
      PROVE  RefRotr(w, l, r) = Value(AsSigned(w, ((u * Pow2[w - s]) % m) + (u \div Pow2[s])))
  <2> DEFINE t == w - s
  <2>1. t \in Nat /\ t < w /\ t >= 1 /\ w - t = s
    BY <1>1, <1>6
  <2>2. Unsigned(w, t) = t
    <3>1. t \in Int /\ t < m /\ m > 0 /\ -m <= t /\ ~(t < 0)
      <4> HIDE DEF t, m
      <4> QED
        BY <1>1, <2>1
    <3>2. t % m = t
      <4> HIDE DEF t, m
      <4> QED
        BY <1>1, <3>1, RemainderNear
    <3> QED
      BY <3>2 DEF Unsigned
  <2>3. t % w = t
    <3> HIDE DEF t, m, s
    <3>1. t \in Int /\ w > 0 /\ -w <= t /\ ~(t < 0)
      BY <2>1
    <3> QED
      BY <2>1, <3>1, RemainderNear
  <2>4. RefRotr(w, l, r) = RefRotl(w, l, t)
    BY <1>1 DEF RefRotr
  <2>5. Unsigned(w, t) % w = t
    BY <2>2, <2>3
  <2> HIDE DEF t
  <2>6. RefRotl(w, l, t) = Value(AsSigned(w, ((u * Pow2[t]) % m) + (u \div Pow2[w - t])))
    BY <2>5 DEF RefRotl
  <2> QED
    BY <2>1, <2>4, <2>6 DEF t
<1>7. (u \div Pow2[s]) + ((u * Pow2[w - s]) % m) = ((u * Pow2[w - s]) % m) + (u \div Pow2[s])
  <2> DEFINE p == Pow2[s]  q == u * Pow2[w - s]
  <2>1. u \div p \in Int
    <3> HIDE DEF p, u
    <3> QED
      BY <1>1, Division DEF p
  <2>2. q % m \in Int
    <3>1. q \in Int
      BY <1>1
    <3> HIDE DEF q, m
    <3> QED
      BY <1>1, <3>1
  <2> DEFINE a == u \div p  b == q % m
  <2>3. a \in Int /\ b \in Int
    BY <2>1, <2>2
  <2> HIDE DEF a, b
  <2>4. a + b = b + a
    BY <2>3
  <2> QED
    BY <2>4 DEF a, b
<1> HIDE DEF s, u, m
<1>8. RotateLeft(w, l, r) = RefRotl(w, l, r) <=> s # 0
  BY <1>2, <1>3, Valued
<1>9. RotateRight(w, l, r) = RefRotr(w, l, r) <=> s # 0
  BY <1>4, <1>5, <1>6, <1>7, Valued
<1> QED
  BY <1>8, <1>9 DEF s

(* Without the builtins, only a negative number has its bits counted.      *)
LEMMA Counters ==
  ASSUME NEW w \in Nat, w >= 2, NEW x \in Ints(w), gnuc \in BOOLEAN
  PROVE  /\ CountLeadingZeros(w, x) = Value(RefClz(w, x)) <=> ~(~gnuc /\ x > 0)
         /\ CountTrailingZeros(w, x) = Value(RefCtz(w, x)) <=> ~(~gnuc /\ x # 0)
<1> DEFINE m == Pow2[w]  h == Pow2[w - 1]  u == Unsigned(w, x)
<1>1. /\ m \in Nat /\ h \in Nat /\ m = 2 * h /\ h >= 2
      /\ x \in Int /\ -h <= x /\ x < h
      /\ u = (IF x < 0 THEN x + m ELSE x) /\ u \in Nat
  BY Width, UnsignedFacts
<1>2. Bit(u, w - 1) = (u \div h) % 2
  BY DEF Bit
<1> HIDE DEF u, m, h
<1>3. ASSUME x < 0 PROVE Bit(u, w - 1) = 1
  <2>1. u = h * 1 + (x + h) /\ x + h \in 0 .. h - 1 /\ 1 \in Int /\ h > 0 /\ u \in Int
    BY <1>1, <1>3
  <2> DEFINE v == x + h
  <2>2. v \in 0 .. h - 1 /\ u = h * 1 + v
    BY <2>1
  <2> HIDE DEF v
  <2>3. u \div h = 1
    BY <1>1, <2>1, <2>2, DivisionUnique
  <2>4. 1 % 2 = 1
    OBVIOUS
  <2> QED
    BY <1>2, <2>3, <2>4
<1>4. ASSUME x > 0 PROVE Bit(u, w - 1) = 0
  <2>1. u = h * 0 + u /\ u \in 0 .. h - 1 /\ 0 \in Int /\ h > 0 /\ u \in Int
    BY <1>1, <1>4
  <2>2. u \div h = 0
    BY <1>1, <2>1, DivisionUnique
  <2>3. 0 % 2 = 0
    OBVIOUS
  <2> QED
    BY <1>2, <2>2, <2>3
<1>5. ASSUME x < 0 PROVE RefClz(w, x) = 0
  <2> DEFINE P(n) == /\ \A k \in w - n .. w - 1 : Bit(u, k) = 0
                     /\ n < w => Bit(u, w - n - 1) = 1
  <2>1. RefClz(w, x) = CHOOSE n \in 0 .. w : P(n)
    BY DEF RefClz, u
  <2>2. 0 \in 0 .. w /\ P(0)
    <3>1. \A k : k \notin w - 0 .. w - 1
      OBVIOUS
    <3>2. w - 0 - 1 = w - 1
      OBVIOUS
    <3> QED
      BY <1>3, <1>5, <3>1, <3>2
  <2>3. ASSUME NEW n \in 0 .. w, P(n) PROVE n = 0
    <3> SUFFICES ASSUME n # 0 PROVE FALSE
      OBVIOUS
    <3>1. w - 1 \in w - n .. w - 1
      OBVIOUS
    <3>2. Bit(u, w - 1) = 0
      BY <2>3, <3>1
    <3> QED
      BY <1>3, <1>5, <3>2
  <2> HIDE DEF P
  <2> QED
    BY <2>1, <2>2, <2>3
<1>6. CountLeadingZeros(w, x) = IF x = 0 \/ gnuc THEN Value(RefClz(w, x))
                                ELSE IF Bit(u, w - 1) = 1 THEN Value(0) ELSE Aborted
  BY DEF CountLeadingZeros, to_unsigned, u
<1>7. CountLeadingZeros(w, x) = Value(RefClz(w, x)) <=> ~(~gnuc /\ x > 0)
  <2>1. CASE x = 0
    BY <1>6, <2>1
  <2>2. CASE x < 0
    <3>1. ~(x > 0)
      BY <1>1, <2>2
    <3> QED
      BY <1>3, <1>5, <1>6, <2>2, <3>1
  <2>3. CASE x > 0
    <3>1. x # 0 /\ Bit(u, w - 1) # 1
      BY <1>1, <1>4, <2>3
    <3> QED
      BY <1>6, <2>3, <3>1, Valued
  <2> QED
    BY <1>1, <2>1, <2>2, <2>3
<1>8. CountTrailingZeros(w, x) = Value(RefCtz(w, x)) <=> ~(~gnuc /\ x # 0)
  BY Valued DEF CountTrailingZeros
<1> QED
  BY <1>7, <1>8

(* The quotient of the magnitudes, and what is left of the number.         *)
LEMMA Quotients ==
  ASSUME NEW w \in Nat, w >= 2, NEW l \in Ints(w), NEW r \in Ints(w), r # 0
  PROVE  /\ Abs(l) \div Abs(r) \in Nat /\ Quotient(l, r) \in Int
         /\ Quotient(l, r) = IF (l < 0) = (r < 0) THEN Abs(l) \div Abs(r)
                             ELSE -(Abs(l) \div Abs(r))
         /\ l = Lowest(w) /\ r \in {1, -1} => Abs(l) \div Abs(r) = Pow2[w - 1]
         /\ ~(l = Lowest(w) /\ r \in {1, -1}) => Abs(l) \div Abs(r) < Pow2[w - 1]
         /\ l - (Quotient(l, r) * r) \in Ints(w)
<1> DEFINE h == Pow2[w - 1]  a == Abs(l)  b == Abs(r)  q == a \div b
<1>1. /\ h \in Nat /\ h >= 2 /\ Lowest(w) = -h
      /\ \A x : x \in Ints(w) <=> x \in Int /\ -h <= x /\ x < h
  BY Width
<1>2. /\ l \in Int /\ -h <= l /\ l < h /\ a = (IF l < 0 THEN -l ELSE l)
      /\ r \in Int /\ -h <= r /\ r < h /\ b = (IF r < 0 THEN -r ELSE r)
  BY <1>1 DEF Abs
<1>3. Quotient(l, r) = IF (l < 0) = (r < 0) THEN q ELSE -q
  BY DEF Quotient
<1> DEFINE f == a % b
<1> HIDE DEF h, a, b
<1>4. a \in Nat /\ b \in Nat /\ b >= 1 /\ a <= h /\ b <= h
      /\ (b = 1 <=> r \in {1, -1}) /\ (a = h <=> l = -h)
  BY <1>1, <1>2
<1>5. a = b * q + f /\ q \in Int /\ f \in 0 .. b - 1
  BY <1>4, Division
<1>6. q >= 0 /\ q <= a /\ (b = 1 => q = a)
  BY <1>4, QuotientBetween
<1>7. b >= 2 => q < h
  BY <1>1, <1>4, QuotientBetween
<1> HIDE DEF q, f
<1>8. f <= a
  <2>1. b * q >= 0 /\ b * q \in Int
    BY <1>4, <1>5, <1>6
  <2> QED
    BY <1>4, <1>5, <2>1
<1>9. l - (Quotient(l, r) * r) = IF l < 0 THEN -f ELSE f
  <2>1. b * q \in Int /\ q * b = b * q
    BY <1>4, <1>5
  <2>2. Quotient(l, r) * r = IF l < 0 THEN -(b * q) ELSE b * q
    <3>1. CASE r < 0
      <4>1. r = -b /\ q * (-b) = -(b * q) /\ (-q) * (-b) = b * q
        BY <1>2, <1>4, <1>5, <3>1
      <4> QED
        BY <1>3, <3>1, <4>1
    <3>2. CASE ~(r < 0)
      <4>1. r = b /\ q * b = b * q /\ (-q) * b = -(b * q)
        BY <1>2, <1>4, <1>5, <3>2
      <4> QED
        BY <1>3, <3>2, <4>1
    <3> QED
      BY <3>1, <3>2
  <2> DEFINE c == b * q  d == Quotient(l, r) * r
  <2>3. c \in Int /\ a = c + f /\ d = IF l < 0 THEN -c ELSE c
    BY <1>5, <2>1, <2>2
  <2> HIDE DEF c, d
  <2>4. l - d = IF l < 0 THEN -f ELSE f
    BY <1>2, <1>5, <2>3
  <2> QED
    BY <2>4 DEF d
<1>10. (IF l < 0 THEN -f ELSE f) \in Ints(w)
  BY <1>1, <1>2, <1>4, <1>5, <1>8
<1>11. q \in Nat /\ Quotient(l, r) \in Int
  BY <1>3, <1>5, <1>6
<1>12. l = -h /\ r \in {1, -1} => q = h
  BY <1>4, <1>6
<1>13. ~(l = -h /\ r \in {1, -1}) => q < h
  <2> SUFFICES ASSUME ~(l = -h /\ r \in {1, -1}) PROVE q < h
    OBVIOUS
  <2>1. CASE b = 1
    <3>1. a # h /\ a < h /\ q = a
      BY <1>1, <1>4, <1>6, <2>1
    <3> QED
      BY <3>1
  <2>2. CASE b >= 2
    BY <1>7, <2>2
  <2> QED
    BY <1>4, <2>1, <2>2
<1> QED
  BY <1>1, <1>3, <1>9, <1>10, <1>11, <1>12, <1>13 DEF h, a, b, q

(* The division by 1 of the least integer negates a number that has no     *)
(* negative; every other quotient is right, and so is the trap of the      *)
(* overflow.                                                               *)
LEMMA SignedDivision ==
  ASSUME NEW w \in Nat, w >= 2, NEW l \in Ints(w), NEW r \in Ints(w)
  PROVE  div_s(w, l, r) = IF l = Lowest(w) /\ r = 1 THEN Undefined ELSE RefDivS(w, l, r)
<1> DEFINE m == Pow2[w]  h == Pow2[w - 1]  a == Abs(l)  b == Abs(r)  q == a \div b
           quot == AsSigned(w, q)
<1>1. /\ m \in Nat /\ h \in Nat /\ m = 2 * h /\ h >= 2 /\ Lowest(w) = -h
      /\ l \in Int /\ -h <= l /\ l < h
      /\ r \in Int /\ -h <= r /\ r < h
  BY Width
<1>2. iabs_u(w, l) = a /\ iabs_u(w, r) = b
  BY UnsignedFacts
<1>3. a = (IF l < 0 THEN -l ELSE l) /\ b = (IF r < 0 THEN -r ELSE r)
  BY DEF Abs
<1>4. div_s(w, l, r) =
        IF \/ r = 0
           \/ r < 0 /\ l < 0 /\ b = 1 /\ (m - 1 - a + 1) % m = h
        THEN Trap
        ELSE IF (l < 0) = (r < 0) THEN Value(quot)
        ELSE IF quot = Lowest(w) THEN Undefined ELSE Value(-quot)
  BY <1>2 DEF div_s, to_signed, Not
<1>5. r < 0 /\ l < 0 => ((m - 1 - a + 1) % m = h <=> l = -h)
  <2> SUFFICES ASSUME r < 0, l < 0 PROVE (m - 1 - a + 1) % m = h <=> l = -h
    OBVIOUS
  <2> DEFINE c == m - 1 - a + 1
  <2> HIDE DEF m, h, a, b
  <2>1. c \in Int /\ c = m + l /\ -m <= c /\ c < m /\ ~(c < 0) /\ m > 0
    BY <1>1, <1>3
  <2> HIDE DEF c
  <2>2. c % m = c
    BY <1>1, <2>1, RemainderNear
  <2>3. c % m = h <=> l = -h
    BY <1>1, <2>1, <2>2
  <2> QED
    BY <2>3 DEF c
<1>6. CASE r = 0
  <2>1. r # 1
    BY <1>6
  <2> QED
    BY <1>4, <1>6, <2>1 DEF RefDivS
<1>7. CASE r # 0
  <2>1. /\ q \in Nat /\ Quotient(l, r) = IF (l < 0) = (r < 0) THEN q ELSE -q
        /\ l = Lowest(w) /\ r \in {1, -1} => q = h
        /\ ~(l = Lowest(w) /\ r \in {1, -1}) => q < h
    BY <1>7, Quotients
  <2>2. q < h => quot = q
    <3> HIDE DEF q
    <3>1. q < h => q < m
      <4> HIDE DEF m, h
      <4> QED
        BY <1>1, <2>1
    <3> QED
      BY <2>1, <3>1, AsSignedFacts
  <2>3. q = h => quot = -h
    <3> SUFFICES ASSUME q = h PROVE AsSigned(w, h) = -h
      OBVIOUS
    <3>1. h \in Nat /\ h < m /\ ~(h < h) /\ h - m = -h
      <4> HIDE DEF m, h
      <4> QED
        BY <1>1
    <3>2. AsSigned(w, h) = IF h < h THEN h ELSE h - m
      BY <3>1, AsSignedFacts
    <3> QED
      BY <3>1, <3>2
  <2> HIDE DEF m, h, a, b, q, quot
  <2>4. CASE l = -h /\ r = -1
    <3>1. l < 0 /\ r < 0 /\ r # 1
      BY <1>1, <2>4
    <3>3. b = 1
      <4>1. b = -r
        BY <1>3, <2>4, <3>1
      <4>2. r \in Int /\ r + 1 = 0
        BY <1>1, <2>4
      <4> QED
        BY <4>1, <4>2
    <3>2. RefDivS(w, l, r) = Trap
      BY <1>1, <2>4 DEF RefDivS
    <3> QED
      BY <1>4, <1>5, <2>4, <3>1, <3>2, <3>3
  <2>5. CASE l = -h /\ r = 1
    <3>1. l < 0 /\ ~(r < 0) /\ quot = -h
      BY <1>1, <2>1, <2>3, <2>5
    <3>2. div_s(w, l, r) = Undefined
      <4>1. ((l < 0) = (r < 0)) = FALSE
        BY <3>1
      <4> QED
        BY <1>1, <1>4, <1>7, <3>1, <4>1
    <3> QED
      BY <1>1, <2>5, <3>2
  <2>6. CASE ~(l = -h /\ r \in {1, -1})
    <3>1. quot = q /\ quot # -h /\ ~(l = -h /\ r = 1) /\ ~(l = -h /\ r = -1)
      BY <1>1, <2>1, <2>2, <2>6
    <3>4. ~(r < 0 /\ l < 0 /\ b = 1 /\ (m - 1 - a + 1) % m = h)
      <4> SUFFICES ASSUME r < 0, l < 0, b = 1, l = -h PROVE FALSE
        BY <1>5
      <4>1. r = -1
        BY <1>1, <1>3
      <4> QED
        BY <3>1, <4>1
    <3>2. div_s(w, l, r) = IF (l < 0) = (r < 0) THEN Value(q) ELSE Value(-q)
      <4>1. quot = q /\ quot # Lowest(w)
        BY <1>1, <3>1
      <4> QED
        BY <1>4, <1>7, <3>4, <4>1
    <3>3. RefDivS(w, l, r) = Value(Quotient(l, r))
      BY <1>1, <1>7, <3>1 DEF RefDivS
    <3> QED
      BY <1>1, <2>1, <3>1, <3>2, <3>3
  <2> QED
    BY <2>4, <2>5, <2>6
<1> QED
  BY <1>6, <1>7

LEMMA SignedRemainder ==
  ASSUME NEW w \in Nat, w >= 2, NEW l \in Ints(w), NEW r \in Ints(w)
  PROVE  rem_s(w, l, r) = IF l = Lowest(w) /\ r = 1 THEN Undefined ELSE RefRemS(l, r)
<1> DEFINE m == Pow2[w]  h == Pow2[w - 1]
<1>1. /\ m \in Nat /\ h \in Nat /\ m = 2 * h /\ h >= 2 /\ Lowest(w) = -h
      /\ l \in Int /\ -h <= l /\ l < h
      /\ r \in Int /\ -h <= r /\ r < h
  BY Width
<1>2. rem_s(w, l, r) =
        IF div_s(w, l, r) = Trap THEN (IF r = 0 THEN Trap ELSE Value(0))
        ELSE IF div_s(w, l, r) = Undefined THEN Undefined
        ELSE decorate_signed(w, Unsigned(w, l)
               - ((Unsigned(w, div_s(w, l, r)[2]) * Unsigned(w, r)) % m))
  BY DEF rem_s, to_unsigned
<1> HIDE DEF m, h
<1>3. CASE r = 0
  <2>1. r # 1 /\ div_s(w, l, r) = Trap
    BY <1>3, SignedDivision DEF RefDivS
  <2> QED
    BY <1>2, <1>3, <2>1 DEF RefRemS
<1>4. CASE l = -h /\ r = -1
  <2>1. r # 1 /\ r # 0 /\ div_s(w, l, r) = Trap
    BY <1>1, <1>4, SignedDivision DEF RefDivS
  <2>2. l - (Quotient(l, r) * r) = 0
    <3>1. Quotient(l, r) = h
      BY <1>1, <1>4, <2>1, Quotients DEF h
    <3>2. l - (h * (-1)) = 0
      BY <1>1, <1>4
    <3> QED
      BY <1>4, <3>1, <3>2
  <2> QED
    BY <1>2, <2>1, <2>2 DEF RefRemS
<1>5. CASE l = -h /\ r = 1
  <2>1. div_s(w, l, r) = Undefined
    BY <1>1, <1>5, SignedDivision
  <2> QED
    BY <1>1, <1>2, <1>5, <2>1, Valued
<1>6. CASE r # 0 /\ ~(l = -h /\ r \in {1, -1})
  <2> DEFINE Q == Quotient(l, r)
  <2>1. ~(l = Lowest(w) /\ r = 1) /\ ~(l = Lowest(w) /\ r = -1)
    BY <1>1, <1>6
  <2>2. div_s(w, l, r) = Value(Q)
    BY <1>6, <2>1, SignedDivision DEF RefDivS
  <2>3. Q \in Int /\ l - (Q * r) \in Ints(w)
    BY <1>6, Quotients
  <2>4. rem_s(w, l, r) =
          decorate_signed(w, Unsigned(w, l) - ((Unsigned(w, Q) * Unsigned(w, r)) % m))
    BY <1>2, <2>2, Valued
  <2> HIDE DEF Q
  <2> DEFINE p == Unsigned(w, Q) * Unsigned(w, r)
  <2>5. p \in Int /\ p % m = Unsigned(w, p) /\ Unsigned(w, l) \in Int /\ p % m \in Int
    <3>1. Unsigned(w, Q) \in Int /\ Unsigned(w, r) \in Int /\ Unsigned(w, l) \in Int
      BY <1>1, <2>3 DEF Unsigned, m
    <3>2. p \in Int
      BY <3>1
    <3>3. p % m = Unsigned(w, p)
      BY DEF Unsigned, m
    <3> HIDE DEF p
    <3> QED
      BY <1>1, <3>1, <3>2, <3>3
  <2>6. AsSigned(w, p) = AsSigned(w, Q * r)
    BY <1>1, <2>3, ModularArithmetic
  <2>7. AsSigned(w, Unsigned(w, l) - Unsigned(w, p)) = AsSigned(w, l - (Q * r))
    <3> HIDE DEF p
    <3>1. AsSigned(w, Unsigned(w, l) - Unsigned(w, p)) = AsSigned(w, l - p)
      BY <1>1, <2>5, ModularArithmetic, ZenonT(40)
    <3>2. \E k \in Int : p = (Q * r) + Pow2[w] * k
      <4>0. Q * r \in Int
        BY <1>1, <2>3
      <4> DEFINE c == Q * r
      <4> HIDE DEF c
      <4>1. c \in Int /\ AsSigned(w, p) = AsSigned(w, c)
        BY <2>6, <4>0 DEF c
      <4>2. \E k \in Int : p = c + Pow2[w] * k
        BY <2>5, <4>1, SameResidue
      <4> QED
        BY <4>2 DEF c
    <3>3. PICK k \in Int : p = (Q * r) + Pow2[w] * k
      BY <3>2
    <3>4. /\ l - (Q * r) = (l - p) + Pow2[w] * k
          /\ l - (Q * r) \in Int /\ l - p \in Int
      <4> DEFINE c == Q * r  d == Pow2[w] * k
      <4>1. c \in Int /\ d \in Int /\ p = c + d
        BY <1>1, <2>3, <3>3 DEF m
      <4> HIDE DEF c, d
      <4>2. l - c = (l - p) + d /\ l - c \in Int /\ l - p \in Int
        BY <1>1, <4>1, <2>5
      <4> QED
        BY <4>2 DEF c, d
    <3> DEFINE c == l - (Q * r)  d == l - p
    <3>5. c \in Int /\ d \in Int /\ c = d + Pow2[w] * k
      BY <3>4
    <3> HIDE DEF c, d
    <3>6. AsSigned(w, c) = AsSigned(w, d)
      BY <3>5, Congruent
    <3> QED
      BY <3>1, <3>6 DEF c, d
  <2>8. decorate_signed(w, Unsigned(w, l) - (p % m)) = Value(l - (Q * r))
    <3>1. Unsigned(w, l) - (p % m) \in Int
      <4> HIDE DEF p
      <4> QED
        BY <2>5
    <3>2. AsSigned(w, l - (Q * r)) = l - (Q * r)
      BY <2>3, AsSignedFacts
    <3> HIDE DEF p
    <3> QED
      BY <2>5, <2>7, <3>1, <3>2, AsSignedFacts
  <2>9. RefRemS(l, r) = Value(l - (Q * r))
    BY <1>6 DEF RefRemS, Q
  <2> QED
    BY <2>1, <2>4, <2>8, <2>9
<1> QED
  BY <1>1, <1>3, <1>4, <1>5, <1>6

(* The older shift fills the bits from above; where nothing is shifted in, *)
(* it shifts by the width.                                                 *)
LEMMA OldShiftRight ==
  ASSUME NEW w \in Nat, w >= 2, NEW l \in Ints(w), NEW r \in Ints(w)
  PROVE  old_shr_s(w, l, r) = RefShrS(w, l, r) <=> ~(l < 0 /\ Shift(w, r) = 0)
<1> DEFINE m == Pow2[w]  h == Pow2[w - 1]  s == Shift(w, r)  p == Pow2[s]  t == Pow2[w - s]
           u == Unsigned(w, l)
<1>1. /\ m \in Nat /\ h \in Nat /\ m = 2 * h /\ h >= 2
      /\ l \in Int /\ -h <= l /\ l < h
      /\ u = (IF l < 0 THEN l + m ELSE l) /\ u \in Nat /\ u < m
  BY Width, UnsignedFacts
<1>2. /\ p \in Nat /\ p >= 1 /\ t \in Nat /\ t >= 2 /\ m = t * p /\ s = Unsigned(w, r) % w
      /\ s = 0 => p = 1
      /\ s # 0 => p >= 2
  BY ShiftFacts
<1>3. old_shr_s(w, l, r) =
        IF l >= 0 THEN Value(u \div p)
        ELSE IF s = 0 THEN Undefined
        ELSE Value(AsSigned(w, (u \div p) + (((m - 1 - 0) * t) % m)))
  BY DEF old_shr_s, to_unsigned, to_signed, Not
<1>4. RefShrS(w, l, r) = Value(l \div p)
  BY <1>2 DEF RefShrS
<1>5. CASE l >= 0
  <2>1. u = l
    BY <1>1, <1>5
  <2> HIDE DEF s, u, p
  <2> QED
    BY <1>1, <1>3, <1>4, <1>5, <2>1
<1>6. CASE l < 0 /\ s = 0
  <2>1. ~(l >= 0)
    BY <1>1, <1>6
  <2> QED
    BY <1>3, <1>4, <1>6, <2>1, Valued
<1>7. CASE l < 0 /\ s # 0
  <2> HIDE DEF m, h, s, p, t, u
  <2>1. t < m
    <3>1. t * p >= t * 2 /\ t * p \in Int
      BY <1>2, <1>7
    <3> QED
      BY <1>2, <3>1
  <2>2. ((m - 1 - 0) * t) % m = m - t
    <3>1. (m - 1 - 0) * t = m * (t - 1) + (m - t) /\ (m - 1 - 0) * t \in Int
      BY <1>1, <1>2
    <3> DEFINE a == (m - 1 - 0) * t  b == m - t  c == t - 1
    <3>2. a \in Int /\ a = m * c + b /\ b \in 0 .. m - 1 /\ c \in Int
      BY <1>1, <1>2, <2>1, <3>1
    <3> HIDE DEF a, b, c
    <3>3. a % m = b
      BY <1>1, <3>2, DivisionUnique
    <3> QED
      BY <3>3 DEF a, b
  <2>3. u \div p = (l \div p) + t
    <3>1. u = l + (t * p)
      BY <1>1, <1>2, <1>7
    <3>2. (l + (t * p)) \div p = (l \div p) + t
      BY <1>1, <1>2, DivisionAdds
    <3> QED
      BY <3>1, <3>2
  <2>4. l \div p \in Int /\ l \div p < 0 /\ l \div p >= l
    BY <1>1, <1>2, <1>7, QuotientBetween
  <2> DEFINE q == l \div p
  <2> HIDE DEF q
  <2>5. q \in Int /\ q < 0 /\ q >= l /\ u \div p = q + t
    BY <2>3, <2>4 DEF q
  <2>6. q \in Ints(w)
    BY <1>1, <2>5, Width DEF h
  <2>7. (u \div p) + (m - t) = q + Pow2[w] * 1 /\ q + Pow2[w] * 1 \in Int /\ 1 \in Int
    BY <1>1, <1>2, <2>5 DEF m
  <2>8. AsSigned(w, q + Pow2[w] * 1) = AsSigned(w, q)
    <3> DEFINE v == q + Pow2[w] * 1
    <3>1. v \in Int /\ v = q + Pow2[w] * 1
      BY <2>7
    <3> HIDE DEF v
    <3>2. AsSigned(w, v) = AsSigned(w, q)
      BY <2>5, <3>1, <2>7, Congruent
    <3> QED
      BY <3>1, <3>2
  <2>9. AsSigned(w, q) = q
    BY <2>6, AsSignedFacts
  <2>10. ~(l >= 0)
    BY <1>1, <1>7
  <2>11. old_shr_s(w, l, r) = Value(AsSigned(w, (u \div p) + (m - t)))
    BY <1>3, <1>7, <2>2, <2>10
  <2>12. old_shr_s(w, l, r) = Value(q)
    BY <2>7, <2>8, <2>9, <2>11
  <2> QED
    BY <1>4, <1>7, <2>12 DEF q, s
<1> QED
  BY <1>1, <1>5, <1>6, <1>7

(* The greatest integer divided by -1 traps, the least one does not; their *)
(* remainders are right.                                                   *)
LEMMA OldDivision ==
  ASSUME NEW w \in Nat, w >= 2, NEW l \in Ints(w), NEW r \in Ints(w)
  PROVE  /\ old_divide(w, TRUE, l, r) = RefDivS(w, l, r) <=>
              ~(r = -1 /\ l \in {Lowest(w), Pow2[w - 1] - 1})
         /\ old_modulus(w, TRUE, l, r) = RefRemS(l, r)
<1> DEFINE h == Pow2[w - 1]  left == l - (Quotient(l, r) * r)
<1>1. /\ h \in Nat /\ h >= 2 /\ Lowest(w) = -h /\ h - 1 # -h
      /\ l \in Int /\ -h <= l /\ l < h /\ r \in Int
  BY Width
<1>2. old_divide(w, TRUE, l, r) =
        IF l = h - 1 /\ r = -1 THEN Trap
        ELSE IF r = 0 THEN Trap
        ELSE IF l = Lowest(w) /\ r = -1 THEN Undefined
        ELSE Value(Quotient(l, r))
  BY DEF old_divide
<1>3. old_modulus(w, TRUE, l, r) =
        IF r = 0 THEN Trap
        ELSE IF r = -1 /\ l = Lowest(w) THEN Value(0)
        ELSE Value(left)
  BY DEF old_modulus
<1>4. RefDivS(w, l, r) =
        IF r = 0 \/ (l = Lowest(w) /\ r = -1) THEN Trap ELSE Value(Quotient(l, r))
  BY DEF RefDivS
<1>5. RefRemS(l, r) = IF r = 0 THEN Trap ELSE Value(left)
  BY DEF RefRemS
<1>6. r = -1 /\ l = Lowest(w) => left = 0
  <2> SUFFICES ASSUME r = -1, l = Lowest(w) PROVE left = 0
    OBVIOUS
  <2>1. r # 0 /\ r < 0 /\ l < 0
    BY <1>1
  <2>2. Quotient(l, r) = h
    BY <2>1, Quotients
  <2> HIDE DEF h
  <2>3. l - (h * (-1)) = 0
    BY <1>1
  <2> QED
    BY <2>2, <2>3
<1> HIDE DEF h, left
<1>7. r = -1 => r # 0
  OBVIOUS
<1>8. old_modulus(w, TRUE, l, r) = RefRemS(l, r)
  <2>1. CASE r = -1 /\ l = Lowest(w)
    BY <1>3, <1>5, <1>6, <1>7, <2>1
  <2>2. CASE ~(r = -1 /\ l = Lowest(w))
    <3>1. r = 0 => old_modulus(w, TRUE, l, r) = Trap /\ RefRemS(l, r) = Trap
      BY <1>3, <1>5
    <3>2. r # 0 => old_modulus(w, TRUE, l, r) = Value(left) /\ RefRemS(l, r) = Value(left)
      BY <1>3, <1>5, <2>2
    <3> QED
      BY <3>1, <3>2
  <2> QED
    BY <2>1, <2>2
<1>9. old_divide(w, TRUE, l, r) = RefDivS(w, l, r) <=> ~(r = -1 /\ l \in {Lowest(w), h - 1})
  <2>1. CASE r = -1 /\ l = Lowest(w)
    <3>1. l # h - 1
      BY <1>1, <2>1
    <3> QED
      BY <1>2, <1>4, <1>7, <2>1, <3>1, Valued
  <2>2. CASE r = -1 /\ l = h - 1
    <3>1. l # Lowest(w) /\ l \in {Lowest(w), h - 1}
      BY <1>1, <2>2
    <3>2. old_divide(w, TRUE, l, r) = Trap
      BY <1>2, <2>2
    <3>3. RefDivS(w, l, r) = Value(Quotient(l, r))
      BY <1>4, <1>7, <2>2, <3>1
    <3> QED
      BY <2>2, <3>1, <3>2, <3>3, Valued
  <2>3. CASE ~(r = -1 /\ l \in {Lowest(w), h - 1})
    <3>1. ~(l = h - 1 /\ r = -1) /\ ~(l = Lowest(w) /\ r = -1)
      BY <2>3
    <3>2. old_divide(w, TRUE, l, r) = IF r = 0 THEN Trap ELSE Value(Quotient(l, r))
      BY <1>2, <3>1
    <3>3. RefDivS(w, l, r) = IF r = 0 THEN Trap ELSE Value(Quotient(l, r))
      BY <1>4, <3>1
    <3>4. old_divide(w, TRUE, l, r) = RefDivS(w, l, r)
      <4>1. CASE r = 0
        BY <3>2, <3>3, <4>1
      <4>2. CASE r # 0
        BY <3>2, <3>3, <4>2
      <4> QED
        BY <4>1, <4>2
    <3> QED
      BY <2>3, <3>4
  <2> QED
    BY <2>1, <2>2, <2>3
<1> QED
  BY <1>8, <1>9 DEF h

LEMMA ModularFunctions ==
  ASSUME NEW w \in Nat, w >= 2, NEW l \in Ints(w), NEW r \in Ints(w)
  PROVE  /\ add(w, l, r) = Value(AsSigned(w, l + r))
         /\ sub(w, l, r) = Value(AsSigned(w, l - r))
         /\ mul(w, l, r) = Value(AsSigned(w, l * r))
<1> DEFINE u == Unsigned(w, l)  v == Unsigned(w, r)
<1>1. l \in Int /\ r \in Int /\ u \in Nat /\ v \in Nat
  BY UnsignedFacts
<1>2. /\ AsSigned(w, u + v) = AsSigned(w, l + r)
      /\ AsSigned(w, u - v) = AsSigned(w, l - r)
      /\ AsSigned(w, u * v) = AsSigned(w, l * r)
  BY <1>1, ModularArithmetic
<1>3. /\ add(w, l, r) = decorate_signed(w, u + v)
      /\ sub(w, l, r) = decorate_signed(w, u - v)
      /\ mul(w, l, r) = decorate_signed(w, u * v)
  BY DEF add, sub, mul, to_unsigned
<1> HIDE DEF u, v
<1>4. u + v \in Int /\ u - v \in Int /\ u * v \in Int
  BY <1>1
<1>5. \A x \in Int : decorate_signed(w, x) = Value(AsSigned(w, x))
  BY AsSignedFacts
<1> QED
  BY <1>2, <1>3, <1>4, <1>5

(* What the reference asks of each function. *)
LEMMA References ==
  ASSUME NEW w, NEW l, NEW r, W = w, Arg(1) = l, Arg(2) = r
  PROVE  /\ Fn = "add" => RefInteger = Value(AsSigned(w, l + r))
         /\ Fn = "sub" => RefInteger = Value(AsSigned(w, l - r))
         /\ Fn = "mul" => RefInteger = Value(AsSigned(w, l * r))
         /\ Fn \in {"div_s", "old_div_s"} => RefInteger = RefDivS(w, l, r)
         /\ Fn \in {"rem_s", "old_rem_s"} => RefInteger = RefRemS(l, r)
         /\ Fn \in {"div_u", "old_div_u"} => RefInteger = div_u(w, l, r)
         /\ Fn \in {"rem_u", "old_rem_u"} => RefInteger = rem_u(w, l, r)
         /\ Fn \in {"shl", "old_shl"} =>
              RefInteger = Value(AsSigned(w, l * Pow2[Unsigned(w, r) % w]))
         /\ Fn \in {"shr_s", "old_shr_s"} => RefInteger = RefShrS(w, l, r)
         /\ Fn \in {"shr_u", "old_shr_u"} => RefInteger = shr_u(w, l, r)
         /\ Fn \in {"rotl", "old_lrotate"} => RefInteger = RefRotl(w, l, r)
         /\ Fn \in {"rotr", "old_rrotate"} => RefInteger = RefRotr(w, l, r)
<1>1. Fn = "add" => RefInteger = Value(AsSigned(w, l + r))
  BY DEF RefInteger
<1>2. Fn = "sub" => RefInteger = Value(AsSigned(w, l - r))
  BY DEF RefInteger
<1>3. Fn = "mul" => RefInteger = Value(AsSigned(w, l * r))
  BY DEF RefInteger
<1>4. Fn \in {"div_s", "old_div_s"} => RefInteger = RefDivS(w, l, r)
  BY DEF RefInteger
<1>5. Fn \in {"rem_s", "old_rem_s"} => RefInteger = RefRemS(l, r)
  BY DEF RefInteger
<1>6. Fn \in {"div_u", "old_div_u"} => RefInteger = div_u(w, l, r)
  BY DEF RefInteger, div_u, to_signed, to_unsigned
<1>7. Fn \in {"rem_u", "old_rem_u"} => RefInteger = rem_u(w, l, r)
  BY DEF RefInteger, rem_u, to_signed, to_unsigned
<1>8. Fn \in {"shl", "old_shl"} =>
        RefInteger = Value(AsSigned(w, l * Pow2[Unsigned(w, r) % w]))
  BY DEF RefInteger
<1>9. Fn \in {"shr_s", "old_shr_s"} => RefInteger = RefShrS(w, l, r)
  BY DEF RefInteger
<1>10. Fn \in {"shr_u", "old_shr_u"} => RefInteger = shr_u(w, l, r)
  BY DEF RefInteger, shr_u, Shift, to_signed, to_unsigned
<1>11. Fn \in {"rotl", "old_lrotate"} => RefInteger = RefRotl(w, l, r)
  BY DEF RefInteger
<1>12. Fn \in {"rotr", "old_rrotate"} => RefInteger = RefRotr(w, l, r)
  BY DEF RefInteger
<1> QED
  BY <1>1, <1>2, <1>3, <1>4, <1>5, <1>6, <1>7, <1>8, <1>9, <1>10, <1>11, <1>12

LEMMA ReferencedBinary ==
  ASSUME NEW w \in Nat, w >= 2, NEW l \in Ints(w), NEW r \in Ints(w),
         W = w, Arg(1) = l, Arg(2) = r, Fn \in Referenced \ {"clz", "ctz"},
         outcome = integer_binary(Fn, w, l, r)
  PROVE  outcome = RefInteger <=>
           ~ \/ Fn = "shr_s" /\ Arg(1) < 0 /\ Shift(W, Arg(2)) # 0
             \/ Fn \in {"rotl", "rotr"} /\ Shift(W, Arg(2)) = 0
             \/ Fn \in {"div_s", "rem_s"} /\ Arg(1) = Lowest(W) /\ Arg(2) = 1
             \/ Fn = "clz" /\ ~gnuc /\ Arg(1) > 0
             \/ Fn = "ctz" /\ ~gnuc /\ Arg(1) # 0
<1>1. CASE Fn = "add"
  <2>1. outcome = add(w, l, r)
    BY <1>1 DEF integer_binary
  <2>2. RefInteger = add(w, l, r)
    BY <1>1, References, ModularFunctions
  <2> QED
    BY <1>1, <2>1, <2>2
<1>2. CASE Fn = "sub"
  <2>1. outcome = sub(w, l, r)
    BY <1>2 DEF integer_binary
  <2>2. RefInteger = sub(w, l, r)
    BY <1>2, References, ModularFunctions
  <2> QED
    BY <1>2, <2>1, <2>2
<1>3. CASE Fn = "mul"
  <2>1. outcome = mul(w, l, r)
    BY <1>3 DEF integer_binary
  <2>2. RefInteger = mul(w, l, r)
    BY <1>3, References, ModularFunctions
  <2> QED
    BY <1>3, <2>1, <2>2
<1>4. CASE Fn = "div_u"
  <2>1. outcome = div_u(w, l, r)
    BY <1>4 DEF integer_binary
  <2>2. RefInteger = div_u(w, l, r)
    BY <1>4, References
  <2> QED
    BY <1>4, <2>1, <2>2
<1>5. CASE Fn = "rem_u"
  <2>1. outcome = rem_u(w, l, r)
    BY <1>5 DEF integer_binary
  <2>2. RefInteger = rem_u(w, l, r)
    BY <1>5, References
  <2> QED
    BY <1>5, <2>1, <2>2
<1>6. CASE Fn = "shl"
  <2>1. outcome = shl(w, l, r)
    BY <1>6 DEF integer_binary
  <2>2. RefInteger = shl(w, l, r)
    BY <1>6, References, ShiftLeft
  <2> QED
    BY <1>6, <2>1, <2>2
<1>7. CASE Fn = "shr_u"
  <2>1. outcome = shr_u(w, l, r)
    BY <1>7 DEF integer_binary
  <2>2. RefInteger = shr_u(w, l, r)
    BY <1>7, References
  <2> QED
    BY <1>7, <2>1, <2>2
<1>8. CASE Fn = "rotl"
  <2>1. outcome = RotateLeft(w, l, r)
    BY <1>8 DEF integer_binary
  <2>2. RefInteger = RefRotl(w, l, r)
    BY <1>8, References
  <2>3. RotateLeft(w, l, r) = RefRotl(w, l, r) <=> Shift(w, r) # 0
    BY Rotations
  <2> QED
    BY <1>8, <2>1, <2>2, <2>3
<1>9. CASE Fn = "rotr"
  <2>1. outcome = RotateRight(w, l, r)
    BY <1>9 DEF integer_binary
  <2>2. RefInteger = RefRotr(w, l, r)
    BY <1>9, References
  <2>3. RotateRight(w, l, r) = RefRotr(w, l, r) <=> Shift(w, r) # 0
    BY Rotations
  <2> QED
    BY <1>9, <2>1, <2>2, <2>3
<1>10. CASE Fn = "shr_s"
  <2>1. outcome = shr_s(w, l, r)
    BY <1>10 DEF integer_binary
  <2>2. RefInteger = RefShrS(w, l, r)
    BY <1>10, References
  <2>3. shr_s(w, l, r) = RefShrS(w, l, r) <=> ~(l < 0 /\ Shift(w, r) # 0)
    BY ShiftRightSigned
  <2> QED
    BY <1>10, <2>1, <2>2, <2>3
<1>11. CASE Fn = "div_s"
  <2>1. outcome = div_s(w, l, r)
    BY <1>11 DEF integer_binary
  <2>2. RefInteger = RefDivS(w, l, r)
    BY <1>11, References
  <2>3. div_s(w, l, r) = IF l = Lowest(w) /\ r = 1 THEN Undefined ELSE RefDivS(w, l, r)
    BY SignedDivision
  <2>4. RefDivS(w, l, r) # Undefined
    BY Valued DEF RefDivS
  <2> QED
    BY <1>11, <2>1, <2>2, <2>3, <2>4
<1>12. CASE Fn = "rem_s"
  <2>1. outcome = rem_s(w, l, r)
    BY <1>12 DEF integer_binary
  <2>2. RefInteger = RefRemS(l, r)
    BY <1>12, References
  <2>3. rem_s(w, l, r) = IF l = Lowest(w) /\ r = 1 THEN Undefined ELSE RefRemS(l, r)
    BY SignedRemainder
  <2>4. RefRemS(l, r) # Undefined
    BY Valued DEF RefRemS
  <2> QED
    BY <1>12, <2>1, <2>2, <2>3, <2>4
<1> QED
  BY <1>1, <1>2, <1>3, <1>4, <1>5, <1>6, <1>7, <1>8, <1>9, <1>10, <1>11, <1>12 DEF Referenced

(* The integer instructions compute what WebAssembly says for every width  *)
(* and all operands, with these exceptions and no others: a negative       *)
(* number shifted right by shr_s, a rotation by a multiple of the width,   *)
(* the least integer divided by 1, and, without the builtins, a count of   *)
(* leading zeros of a positive number or of trailing zeros of any but 0.   *)
THEOREM IntegersAreComputed == ASpec => []IntegersAgree
<1>1. ASSUME AInv PROVE IntegersAgree
  <2> SUFFICES ASSUME Called(Referenced)
               PROVE  outcome = RefInteger <=>
                        ~ \/ Fn = "shr_s" /\ Arg(1) < 0 /\ Shift(W, Arg(2)) # 0
                          \/ Fn \in {"rotl", "rotr"} /\ Shift(W, Arg(2)) = 0
                          \/ Fn \in {"div_s", "rem_s"} /\ Arg(1) = Lowest(W) /\ Arg(2) = 1
                          \/ Fn = "clz" /\ ~gnuc /\ Arg(1) > 0
                          \/ Fn = "ctz" /\ ~gnuc /\ Arg(1) # 0
    BY DEF IntegersAgree
  <2>1. CASE CalledBinary
    <3>1. PICK type \in IntegerTypes, fn \in IntegerBinary : \E l, r \in Args[type] :
            Calling(fn, type, type, << l, r >>, integer_binary(fn, Bits(type), l, r))
      BY <2>1 DEF CalledBinary
    <3>2. PICK l \in Args[type], r \in Args[type] :
            Calling(fn, type, type, << l, r >>, integer_binary(fn, Bits(type), l, r))
      BY <3>1
    <3> DEFINE w == Bits(type)
    <3>3. w \in Nat /\ w >= 2 /\ l \in Ints(w) /\ r \in Ints(w)
      BY Sizes
    <3>4. W = w /\ Arg(1) = l /\ Arg(2) = r /\ Fn = fn /\ outcome = integer_binary(fn, w, l, r)
      BY <3>2 DEF Calling, W, Arg, Fn
    <3>5. fn \in Referenced \ {"clz", "ctz"}
      BY <3>4 DEF Called, Referenced, IntegerBinary, unsigned_comp
    <3> HIDE DEF w
    <3> QED
      BY <3>3, <3>4, <3>5, ReferencedBinary
  <2>2. CASE CalledUnary
    <3>1. PICK type \in IntegerTypes, fn \in IntegerUnary : \E x \in Args[type] :
            Calling(fn, type, type, << x >>, integer_unary(fn, Bits(type), x))
      BY <2>2 DEF CalledUnary
    <3>2. PICK x \in Args[type] :
            Calling(fn, type, type, << x >>, integer_unary(fn, Bits(type), x))
      BY <3>1
    <3> DEFINE w == Bits(type)
    <3>3. w \in Nat /\ w >= 2 /\ x \in Ints(w) /\ gnuc \in BOOLEAN
      BY <1>1, Sizes DEF AInv
    <3>4. W = w /\ Arg(1) = x /\ Fn = fn /\ outcome = integer_unary(fn, w, x)
      BY <3>2 DEF Calling, W, Arg, Fn
    <3>5. fn \in {"clz", "ctz"}
      BY <3>4 DEF Called, Referenced, IntegerUnary
    <3> HIDE DEF w
    <3>6. /\ CountLeadingZeros(w, x) = Value(RefClz(w, x)) <=> ~(~gnuc /\ x > 0)
          /\ CountTrailingZeros(w, x) = Value(RefCtz(w, x)) <=> ~(~gnuc /\ x # 0)
      BY <3>3, Counters
    <3>7. CASE fn = "clz"
      <4>1. outcome = CountLeadingZeros(w, x)
        BY <3>4, <3>7 DEF integer_unary
      <4>2. RefInteger = Value(RefClz(w, x))
        BY <3>4, <3>7 DEF RefInteger
      <4> QED
        BY <3>4, <3>6, <3>7, <4>1, <4>2
    <3>8. CASE fn = "ctz"
      <4>1. outcome = CountTrailingZeros(w, x)
        BY <3>4, <3>8 DEF integer_unary
      <4>2. RefInteger = Value(RefCtz(w, x))
        BY <3>4, <3>8 DEF RefInteger
      <4> QED
        BY <3>4, <3>6, <3>8, <4>1, <4>2
    <3> QED
      BY <3>5, <3>7, <3>8
  <2> QED
    BY <1>1, <2>1, <2>2, WhichCall DEF AInv, Called
<1> QED
  BY <1>1, AlwaysAInv, PTL

LEMMA OldFunctions ==
  ASSUME NEW w \in Nat, w >= 2, NEW l \in Ints(w), NEW r \in Ints(w),
         W = w, Arg(1) = l, Arg(2) = r, Fn \in OldBinary, outcome = old_binary(Fn, w, l, r)
  PROVE  outcome = RefInteger <=>
           ~ \/ Fn = "old_shr_s" /\ Arg(1) < 0 /\ Shift(W, Arg(2)) = 0
             \/ Fn \in {"old_rrotate", "old_lrotate"} /\ Shift(W, Arg(2)) = 0
             \/ Fn = "old_div_s" /\ Arg(2) = -1 /\ Arg(1) \in {Lowest(W), Pow2[W - 1] - 1}
<1>1. CASE Fn = "old_shl"
  <2>1. outcome = shl(w, l, r)
    BY <1>1 DEF old_binary, old_shl, shl
  <2>2. RefInteger = shl(w, l, r)
    BY <1>1, References, ShiftLeft
  <2> QED
    BY <1>1, <2>1, <2>2
<1>2. CASE Fn = "old_shr_u"
  <2>1. outcome = shr_u(w, l, r)
    BY <1>2 DEF old_binary, old_shr_u, shr_u
  <2>2. RefInteger = shr_u(w, l, r)
    BY <1>2, References
  <2> QED
    BY <1>2, <2>1, <2>2
<1>3. CASE Fn = "old_div_u"
  <2>1. outcome = div_u(w, l, r)
    BY <1>3 DEF old_binary, old_divide, div_u
  <2>2. RefInteger = div_u(w, l, r)
    BY <1>3, References
  <2> QED
    BY <1>3, <2>1, <2>2
<1>4. CASE Fn = "old_rem_u"
  <2>1. outcome = rem_u(w, l, r)
    BY <1>4 DEF old_binary, old_modulus, rem_u
  <2>2. RefInteger = rem_u(w, l, r)
    BY <1>4, References
  <2> QED
    BY <1>4, <2>1, <2>2
<1>5. CASE Fn = "old_lrotate"
  <2>1. outcome = RotateLeft(w, l, r)
    BY <1>5 DEF old_binary, old_lrotate
  <2>2. RefInteger = RefRotl(w, l, r)
    BY <1>5, References
  <2>3. RotateLeft(w, l, r) = RefRotl(w, l, r) <=> Shift(w, r) # 0
    BY Rotations
  <2> QED
    BY <1>5, <2>1, <2>2, <2>3
<1>6. CASE Fn = "old_rrotate"
  <2>1. outcome = RotateRight(w, l, r)
    BY <1>6 DEF old_binary, old_rrotate
  <2>2. RefInteger = RefRotr(w, l, r)
    BY <1>6, References
  <2>3. RotateRight(w, l, r) = RefRotr(w, l, r) <=> Shift(w, r) # 0
    BY Rotations
  <2> QED
    BY <1>6, <2>1, <2>2, <2>3
<1>7. CASE Fn = "old_shr_s"
  <2>1. outcome = old_shr_s(w, l, r)
    BY <1>7 DEF old_binary
  <2>2. RefInteger = RefShrS(w, l, r)
    BY <1>7, References
  <2>3. old_shr_s(w, l, r) = RefShrS(w, l, r) <=> ~(l < 0 /\ Shift(w, r) = 0)
    BY OldShiftRight
  <2> QED
    BY <1>7, <2>1, <2>2, <2>3
<1>8. CASE Fn = "old_div_s"
  <2>1. outcome = old_divide(w, TRUE, l, r)
    BY <1>8 DEF old_binary
  <2>2. RefInteger = RefDivS(w, l, r)
    BY <1>8, References
  <2>3. old_divide(w, TRUE, l, r) = RefDivS(w, l, r) <=> ~(r = -1 /\ l \in {Lowest(w), Pow2[w - 1] - 1})
    BY OldDivision
  <2> QED
    BY <1>8, <2>1, <2>2, <2>3
<1>9. CASE Fn = "old_rem_s"
  <2>1. outcome = old_modulus(w, TRUE, l, r)
    BY <1>9 DEF old_binary
  <2>2. RefInteger = RefRemS(l, r)
    BY <1>9, References
  <2> QED
    BY <1>9, <2>1, <2>2, OldDivision
<1> QED
  BY <1>1, <1>2, <1>3, <1>4, <1>5, <1>6, <1>7, <1>8, <1>9 DEF OldBinary

(* The older function objects err at a shift of a negative number and at a *)
(* rotation by a multiple of the width, and in the division by -1 of the   *)
(* greatest and of the least integer; nowhere else, whatever the width.    *)
THEOREM OldIntegersAreComputed == ASpec => []OldIntegersAgree
<1>1. ASSUME AInv PROVE OldIntegersAgree
  <2> SUFFICES ASSUME Called(OldBinary)
               PROVE  outcome = RefInteger <=>
                        ~ \/ Fn = "old_shr_s" /\ Arg(1) < 0 /\ Shift(W, Arg(2)) = 0
                          \/ Fn \in {"old_rrotate", "old_lrotate"} /\ Shift(W, Arg(2)) = 0
                          \/ /\ Fn = "old_div_s" /\ Arg(2) = -1
                             /\ Arg(1) \in {Lowest(W), Pow2[W - 1] - 1}
    BY DEF OldIntegersAgree
  <2>1. CalledOld /\ Fn \in OldBinary
    BY <1>1, WhichCall DEF AInv, Called
  <2>2. PICK fn \in OldBinary, type \in IntegerTypes : \E l, r \in Args[type] :
          Calling(fn, type, type, << l, r >>, old_binary(fn, Bits(type), l, r))
    BY <2>1 DEF CalledOld
  <2>3. PICK l \in Args[type], r \in Args[type] :
          Calling(fn, type, type, << l, r >>, old_binary(fn, Bits(type), l, r))
    BY <2>2
  <2> DEFINE w == Bits(type)
  <2>4. w \in Nat /\ w >= 2 /\ l \in Ints(w) /\ r \in Ints(w)
    BY Sizes
  <2>5. W = w /\ Arg(1) = l /\ Arg(2) = r /\ Fn = fn /\ outcome = old_binary(fn, w, l, r)
    BY <2>3 DEF Calling, W, Arg, Fn
  <2> HIDE DEF w
  <2> QED
    BY <2>1, <2>4, <2>5, OldFunctions
<1> QED
  BY <1>1, AlwaysAInv, PTL

------------------------------------------------------------------------------
(* Rounding a magnitude to p bits.                                         *)

LEMMA ExponentIs ==
  ASSUME NEW p \in Nat, p >= 1, NEW n \in Nat, NEW e \in Nat,
         n < Pow2[p + e], e > 0 => n >= Pow2[p + e - 1]
  PROVE  Exponent(p, n) = e
<1> DEFINE E(d) == n < Pow2[p + d] /\ (d > 0 => n >= Pow2[p + d - 1])
<1>1. Exponent(p, n) = CHOOSE d \in 0 .. n : E(d)
  BY DEF Exponent
<1>2. e \in 0 .. n
  <2>1. CASE e = 0
    BY <2>1
  <2>2. CASE e > 0
    <3>1. p + e - 1 \in Nat /\ e <= p + e - 1
      OBVIOUS
    <3>2. e < Pow2[e] /\ Pow2[e] <= Pow2[p + e - 1]
      BY <3>1, PowAbove, PowMonotone
    <3>3. Pow2[e] \in Nat /\ Pow2[p + e - 1] \in Nat
      BY <3>1, PowType
    <3> QED
      BY <2>2, <3>2, <3>3
  <2> QED
    BY <2>1, <2>2
<1>3. ASSUME NEW c \in Nat, NEW d \in Nat, E(c), E(d), c < d
      PROVE  FALSE
  <2>1. d > 0 /\ p + c \in Nat /\ p + d - 1 \in Nat /\ p + c <= p + d - 1
    BY <1>3
  <2>2. Pow2[p + c] <= Pow2[p + d - 1]
    BY <2>1, PowMonotone
  <2>3. Pow2[p + c] \in Nat /\ Pow2[p + d - 1] \in Nat
    BY <2>1, PowType
  <2>4. n < Pow2[p + c] /\ n >= Pow2[p + d - 1]
    BY <1>3, <2>1
  <2> QED
    BY <2>2, <2>3, <2>4
<1>4. E(e)
  OBVIOUS
<1>5. ASSUME NEW d \in 0 .. n, E(d) PROVE d = e
  <2>1. d \in Nat
    OBVIOUS
  <2>2. ~(d < e)
    BY <1>3, <1>4, <1>5, <2>1
  <2>3. ~(e < d)
    BY <1>3, <1>4, <1>5, <2>1
  <2> QED
    BY <2>1, <2>2, <2>3
<1> HIDE DEF E
<1> QED
  BY <1>1, <1>2, <1>4, <1>5

(* Half a unit is rounded to the even neighbour. *)
LEMMA RoundedTo ==
  ASSUME NEW p \in Nat, p >= 1, NEW e \in Nat, NEW n \in Nat,
         n < Pow2[p + e], e > 0 => n >= Pow2[p + e - 1],
         NEW low \in Nat, NEW f \in Nat, f < Pow2[e], n = Pow2[e] * low + f
  PROVE  RoundTo(p, n) =
           (IF 2 * f > Pow2[e] \/ (2 * f = Pow2[e] /\ low % 2 = 1) THEN low + 1 ELSE low)
           * Pow2[e]
<1>1. Exponent(p, n) = e
  BY ExponentIs
<1> DEFINE q == Pow2[e]
<1>2. q \in Nat /\ q > 0
  BY PowType
<1>3. n \div q = low /\ n % q = f
  <2> HIDE DEF q
  <2>1. f \in 0 .. q - 1 /\ n \in Int /\ low \in Int
    BY <1>2 DEF q
  <2>2. n = q * low + f
    BY DEF q
  <2> QED
    BY <1>2, <2>1, <2>2, DivisionUnique
<1> QED
  BY <1>1, <1>3 DEF RoundTo

(* The bounds of the two truncations: one below a power of two is rounded  *)
(* up to it, one above is rounded down.                                    *)
LEMMA RoundedUp ==
  ASSUME NEW p \in Nat, p >= 1, NEW b \in Nat, p <= b - 2
  PROVE  /\ RoundTo(p, Pow2[b] - 2) = Pow2[b]
         /\ RoundTo(p, Pow2[b] - 1) # Pow2[b] - 1
<1> DEFINE e == b - p  q == Pow2[e]  P == Pow2[p]  n == Pow2[b]
<1>1. /\ e \in Nat /\ e >= 2 /\ e > 0 /\ p + e = b /\ b - 1 \in Nat /\ (b - 1) + 1 = b /\ p + e - 1 = b - 1
      /\ p - 1 \in Nat /\ (p - 1) + 1 = p /\ e - 1 \in Nat /\ (e - 1) + 1 = e
      /\ e - 2 \in Nat /\ (e - 2) + 1 = e - 1 /\ 1 <= b - 1
  OBVIOUS
<1> HIDE DEF e
<1>2. /\ q = 2 * Pow2[e - 1] /\ Pow2[e - 1] = 2 * Pow2[e - 2] /\ P = 2 * Pow2[p - 1]
      /\ n = 2 * Pow2[b - 1]
  BY <1>1, PowStep
<1>3. /\ Pow2[e - 1] \in Nat /\ Pow2[e - 2] \in Nat /\ Pow2[e - 2] >= 1
      /\ Pow2[p - 1] \in Nat /\ Pow2[p - 1] >= 1 /\ Pow2[b - 1] \in Nat /\ Pow2[b - 1] >= 1
  BY <1>1, PowType
<1>4. n = P * q
  <2>1. Pow2[p + e] = Pow2[p] * Pow2[e]
    BY <1>1, PowSum
  <2> QED
    BY <1>1, <2>1
<1>5. Pow2[b - 1] >= 2
  <2>1. Pow2[1] = 2
    BY PowZero, PowStep
  <2> QED
    BY <1>1, <2>1, PowMonotone
<1> DEFINE d == Pow2[e - 2]  c == Pow2[p - 1]  h == Pow2[b - 1]
<1> HIDE DEF q, P, n, d, c, h
<1>6. /\ d \in Nat /\ c \in Nat /\ h \in Nat /\ d >= 1 /\ c >= 1 /\ h >= 2
      /\ q = 4 * d /\ P = 2 * c /\ n = 2 * h
  BY <1>2, <1>3, <1>5 DEF d, c, h
<1>7. q \in Nat /\ q >= 4 /\ P - 1 \in Nat /\ n \in Nat /\ (P - 1) + 1 = P
  BY <1>6
<1>8. (P - 1) % 2 = 1
  <2>1. P - 1 = 2 * (c - 1) + 1 /\ c - 1 \in Int /\ P - 1 \in Int /\ 1 \in 0 .. 1
    BY <1>6
  <2> DEFINE i == P - 1  j == c - 1
  <2>2. i = 2 * j + 1 /\ i \in Int /\ j \in Int
    BY <2>1
  <2> HIDE DEF i, j
  <2>3. i % 2 = 1
    BY <2>2
  <2> QED
    BY <2>3 DEF i
<1>9. ASSUME NEW x \in {1, 2}
      PROVE  /\ n - x \in Nat /\ n - x < Pow2[p + e] /\ n - x >= Pow2[p + e - 1]
             /\ q - x \in Nat /\ q - x < q
             /\ n - x = q * (P - 1) + (q - x)
  <2>1. n - x \in Nat /\ n - x < n /\ n - x >= h /\ q - x \in Nat /\ q - x < q
    BY <1>6, <1>7
  <2>2. q * (P - 1) = P * q - q /\ P * q \in Int
    BY <1>6, <1>7
  <2>3. n - x = q * (P - 1) + (q - x)
    BY <1>4, <1>7, <2>2
  <2> QED
    BY <1>1, <2>1, <2>3 DEF n, h
<1>10. RoundTo(p, n - 2) = n
  <2> DEFINE k == n - 2  f == q - 2  low == P - 1
  <2>1. /\ k \in Nat /\ k < Pow2[p + e] /\ k >= Pow2[p + e - 1]
        /\ f \in Nat /\ f < q /\ k = q * low + f /\ low \in Nat
    BY <1>7, <1>9
  <2>2. 2 * f > q \/ (2 * f = q /\ low % 2 = 1)
    BY <1>6, <1>7, <1>8
  <2> HIDE DEF k, f, low
  <2>3. RoundTo(p, k) = (IF 2 * f > q \/ (2 * f = q /\ low % 2 = 1) THEN low + 1 ELSE low) * q
    BY <1>1, <2>1, RoundedTo DEF q
  <2>4. RoundTo(p, k) = (low + 1) * q
    BY <2>2, <2>3
  <2>5. (low + 1) * q = n
    BY <1>4, <1>7 DEF low
  <2> QED
    BY <2>4, <2>5 DEF k
<1>11. RoundTo(p, n - 1) # n - 1
  <2> DEFINE k == n - 1  f == q - 1  low == P - 1
  <2>1. /\ k \in Nat /\ k < Pow2[p + e] /\ k >= Pow2[p + e - 1]
        /\ f \in Nat /\ f < q /\ k = q * low + f /\ low \in Nat
    BY <1>7, <1>9
  <2> HIDE DEF k, f, low
  <2>2. RoundTo(p, k) = (IF 2 * f > q \/ (2 * f = q /\ low % 2 = 1) THEN low + 1 ELSE low) * q
    BY <1>1, <2>1, RoundedTo DEF q
  <2>3. PICK i \in Nat : RoundTo(p, k) = i * q
    <3>1. low + 1 \in Nat /\ low \in Nat
      BY <2>1
    <3> QED
      BY <2>2, <3>1
  <2>4. k = 2 * h - 1
    BY <1>6 DEF k
  <2>5. i * q = 2 * (2 * (i * d)) /\ i * d \in Nat
    BY <1>6
  <2>6. i * q # k
    BY <1>6, <2>4, <2>5
  <2> QED
    BY <2>3, <2>6 DEF k
<1> QED
  BY <1>10, <1>11 DEF n

LEMMA RoundedExactly ==
  ASSUME NEW p \in Nat, p >= 1, NEW n \in Nat, n < Pow2[p]
  PROVE  RoundTo(p, n) = n
<1> DEFINE e == 0  f == 0  q == Pow2[e]
<1>1. q = 1 /\ p + e = p /\ e \in Nat /\ f \in Nat /\ f < q /\ ~(e > 0) /\ 2 * f = 0
      /\ n = q * n + f
  BY PowZero
<1> HIDE DEF e, f
<1>2. RoundTo(p, n) = (IF 2 * f > q \/ (2 * f = q /\ n % 2 = 1) THEN n + 1 ELSE n) * q
  <2>1. n < Pow2[p + e] /\ (e > 0 => n >= Pow2[p + e - 1]) /\ f < Pow2[e] /\ n = Pow2[e] * n + f
    BY <1>1
  <2> QED
    BY <1>1, <2>1, RoundedTo
<1> HIDE DEF q
<1>3. ~(2 * f > q) /\ ~(2 * f = q) /\ n * q = n
  BY <1>1
<1> QED
  BY <1>2, <1>3

LEMMA RoundedDown ==
  ASSUME NEW p \in Nat, p >= 1, NEW b \in Nat, p <= b - 2
  PROVE  RoundTo(p, 2 * (Pow2[b - 1] + 1)) = Pow2[b]
<1> DEFINE e == b + 1 - p  q == Pow2[e]  n == Pow2[b]  c == Pow2[p - 1]  h == Pow2[b - 1]
           k == n + 2
<1>1. /\ e \in Nat /\ e >= 3 /\ e > 0 /\ p + e = b + 1 /\ p + e - 1 = b /\ b - 1 \in Nat
      /\ (b - 1) + 1 = b /\ p - 1 \in Nat /\ (p - 1) + e = b /\ 1 <= b - 1 /\ 3 \in Nat
  OBVIOUS
<1> HIDE DEF e
<1>2. Pow2[0] = 1 /\ Pow2[0 + 1] = 2 * Pow2[0] /\ Pow2[1 + 1] = 2 * Pow2[1]
      /\ Pow2[2 + 1] = 2 * Pow2[2]
  BY PowZero, PowStep
<1>3. Pow2[1] = 2 /\ Pow2[3] = 8
  BY <1>2
<1>4. q >= 8 /\ h >= 2
  BY <1>1, <1>3, PowMonotone
<1>5. q \in Nat /\ c \in Nat /\ h \in Nat /\ c >= 1
  BY <1>1, PowType
<1>6. n = 2 * h /\ Pow2[b + 1] = 2 * n
  BY <1>1, PowStep
<1>7. n = c * q
  <2> DEFINE a == p - 1
  <2>1. a \in Nat /\ a + e = b
    BY <1>1
  <2> HIDE DEF a
  <2>2. Pow2[a + e] = Pow2[a] * Pow2[e]
    BY <1>1, <2>1, PowSum
  <2> QED
    BY <2>1, <2>2 DEF a
<1>8. 2 * (Pow2[b - 1] + 1) = k
  <2> HIDE DEF n
  <2>1. 2 * (h + 1) = n + 2
    <3> HIDE DEF h
    <3> QED
      BY <1>5, <1>6
  <2> QED
    BY <2>1
<1>9. /\ k \in Nat /\ k < Pow2[p + e] /\ k >= Pow2[p + e - 1] /\ 2 < q
      /\ k = q * c + 2
  <2> HIDE DEF q, c, n, h
  <2>1. n \in Nat /\ k \in Nat /\ k < 2 * n /\ k >= n /\ 2 < q
    BY <1>4, <1>5, <1>6
  <2>2. q * c = c * q
    BY <1>5
  <2>3. k = q * c + 2
    BY <1>7, <2>2
  <2>4. Pow2[p + e] = 2 * n /\ Pow2[p + e - 1] = n
    BY <1>1, <1>6 DEF n
  <2> QED
    BY <2>1, <2>3, <2>4
<1> HIDE DEF k
<1>10. RoundTo(p, k) = (IF 2 * 2 > q \/ (2 * 2 = q /\ c % 2 = 1) THEN c + 1 ELSE c) * q
  <2> HIDE DEF c
  <2>1. 2 \in Nat
    OBVIOUS
  <2> QED
    BY <1>1, <1>5, <1>9, <2>1, RoundedTo, SMTT(40) DEF q
<1>11. ~(2 * 2 > q) /\ ~(2 * 2 = q)
  <2> HIDE DEF q
  <2> QED
    BY <1>4, <1>5
<1>12. RoundTo(p, k) = c * q
  BY <1>10, <1>11
<1> QED
  BY <1>7, <1>8, <1>12

------------------------------------------------------------------------------
(* Truncations.                                                            *)

LEMMA Formats ==
  /\ \A type \in FloatTypes : Precision(type) <= Bits(type) - 2
  /\ \A type \in FloatTypes, to \in IntegerTypes :
       Precision(type) <= Bits(to) - 2 \/ Precision(type) > Bits(to)
<1>1. {Bits32, Bits64, Prec32, Prec64} \subseteq Nat \ {0}
  BY FormatsAssumption DEF FormatsAssumption
<1>2. Bits32 \in Nat /\ Bits64 \in Nat /\ Prec32 \in Nat /\ Prec64 \in Nat
  BY <1>1
<1>3. Prec32 <= Bits32 - 2 /\ Prec32 <= Bits64 - 2 /\ Prec64 > Bits32 /\ Prec64 <= Bits64 - 2
  BY <1>2, FormatsAssumption DEF FormatsAssumption
<1> QED
  BY <1>3 DEF FloatTypes, IntegerTypes, Precision, Bits

LEMMA Between ==
  ASSUME NEW a \in Nat, NEW b \in Nat, NEW t \in Int
  PROVE  /\ t < Pow2[MinOf(a, b)] <=> t < Pow2[a] /\ t < Pow2[b]
         /\ t >= Pow2[MaxOf(a, b)] <=> t >= Pow2[a] /\ t >= Pow2[b]
<1>1. Pow2[a] \in Nat /\ Pow2[b] \in Nat
  BY PowType
<1>2. CASE a < b
  <2>1. Pow2[a] <= Pow2[b]
    BY <1>2, PowMonotone
  <2>2. MinOf(a, b) = a /\ MaxOf(a, b) = b
    BY <1>2 DEF MinOf, MaxOf
  <2> QED
    BY <1>1, <2>1, <2>2
<1>3. CASE ~(a < b)
  <2>1. Pow2[b] <= Pow2[a]
    BY <1>3, PowMonotone
  <2>2. MinOf(a, b) = b /\ MaxOf(a, b) = a
    BY <1>3 DEF MinOf, MaxOf
  <2> QED
    BY <1>1, <2>1, <2>2
<1> QED
  BY <1>2, <1>3

(* The integer that a number of halves is truncated to. *)
LEMMA TowardZero ==
  ASSUME NEW b \in BOOLEAN, NEW n \in Nat
  PROVE  LET v == Finite(b, n)
             t == Toward0(v)
             H == Halves(v)
         IN  /\ t \in Int /\ H \in Int /\ v.neg = b /\ v.mag = n
             /\ t < 0 => b
             /\ t > 0 => ~b
             /\ b => t <= 0 /\ H <= 0 /\ H \in {2 * t, 2 * t - 1}
             /\ ~b => t >= 0 /\ H >= 0 /\ H \in {2 * t, 2 * t + 1}
             /\ Toward0(IntegralPart(v, FALSE)) = t
<1> DEFINE v == Finite(b, n)  k == n \div 2
<1>1. v.neg = b /\ v.mag = n
  BY DEF Finite
<1>2. k \in Nat /\ n \in {2 * k, 2 * k + 1}
  OBVIOUS
<1>3. Toward0(v) = (IF b THEN -k ELSE k) /\ Halves(v) = (IF b THEN -n ELSE n)
  BY <1>1 DEF Toward0, Halves
<1>4. Toward0(IntegralPart(v, FALSE)) = IF b THEN -k ELSE k
  <2>1. (n + 0) \div 2 = k
    OBVIOUS
  <2>2. IntegralPart(v, FALSE) = Finite(b, 2 * k)
    BY <2>1 DEF IntegralPart, Finite
  <2>3. (2 * k) \div 2 = k
    <3> HIDE DEF k
    <3> QED
      BY <1>2
  <2>4. Finite(b, 2 * k).neg = b /\ Finite(b, 2 * k).mag = 2 * k
    BY DEF Finite
  <2> QED
    BY <2>2, <2>3, <2>4 DEF Toward0
<1> HIDE DEF v, k
<1>5. LET t == Toward0(v)
          H == Halves(v)
      IN  /\ t \in Int /\ H \in Int /\ v.neg = b /\ v.mag = n
          /\ t < 0 => b
          /\ t > 0 => ~b
          /\ b => t <= 0 /\ H <= 0 /\ H \in {2 * t, 2 * t - 1}
          /\ ~b => t >= 0 /\ H >= 0 /\ H \in {2 * t, 2 * t + 1}
          /\ Toward0(IntegralPart(v, FALSE)) = t
  <2>1. CASE b
    <3> DEFINE t == Toward0(v)  H == Halves(v)
    <3>1. t = -k /\ H = -n
      BY <1>3, <2>1
    <3> HIDE DEF t, H
    <3>2. /\ t \in Int /\ H \in Int
          /\ t < 0 => b
          /\ t > 0 => ~b
          /\ b => t <= 0 /\ H <= 0 /\ H \in {2 * t, 2 * t - 1}
          /\ ~b => t >= 0 /\ H >= 0 /\ H \in {2 * t, 2 * t + 1}
      BY <1>2, <2>1, <3>1
    <3>3. Toward0(IntegralPart(v, FALSE)) = t
      BY <1>4, <2>1, <3>1
    <3> QED
      BY <1>1, <3>2, <3>3 DEF t, H
  <2>2. CASE ~b
    <3> DEFINE t == Toward0(v)  H == Halves(v)
    <3>1. t = k /\ H = n
      BY <1>3, <2>2
    <3> HIDE DEF t, H
    <3>2. /\ t \in Int /\ H \in Int
          /\ t < 0 => b
          /\ t > 0 => ~b
          /\ b => t <= 0 /\ H <= 0 /\ H \in {2 * t, 2 * t - 1}
          /\ ~b => t >= 0 /\ H >= 0 /\ H \in {2 * t, 2 * t + 1}
      BY <1>2, <2>2, <3>1
    <3>3. Toward0(IntegralPart(v, FALSE)) = t
      BY <1>4, <2>2, <3>1
    <3> QED
      BY <1>1, <3>2, <3>3 DEF t, H
  <2> QED
    BY <2>1, <2>2
<1> QED
  BY <1>5 DEF v

LEMMA FiniteFacts ==
  ASSUME NEW f \in AnyFloat, IsFinite(f)
  PROVE  LET t == Toward0(f)
             H == Halves(f)
         IN  /\ t \in Int /\ H \in Int
             /\ t < 0 => H <= 2 * t /\ H >= 2 * t - 1
             /\ t > 0 => H >= 2 * t /\ H <= 2 * t + 1
             /\ t = 0 => H >= -1 /\ H <= 1
<1> DEFINE t == Toward0(f)  H == Halves(f)
<1>1. PICK b \in BOOLEAN, n \in Nat : f = Finite(b, n)
  BY FloatForms, FloatKinds
<1>2. /\ t \in Int /\ H \in Int
      /\ t < 0 => b
      /\ t > 0 => ~b
      /\ b => t <= 0 /\ H <= 0 /\ H \in {2 * t, 2 * t - 1}
      /\ ~b => t >= 0 /\ H >= 0 /\ H \in {2 * t, 2 * t + 1}
  BY <1>1, TowardZero
<1> HIDE DEF t, H
<1>3. b \/ ~b
  OBVIOUS
<1>4. /\ t \in Int /\ H \in Int
      /\ t < 0 => H <= 2 * t /\ H >= 2 * t - 1
      /\ t > 0 => H >= 2 * t /\ H <= 2 * t + 1
      /\ t = 0 => H >= -1 /\ H <= 1
  BY <1>2, <1>3
<1> QED
  BY <1>4 DEF t, H

LEMMA TruncatedUnsigned ==
  ASSUME NEW w \in Nat, w >= 2, NEW type, NEW c \in Nat, c >= 2, Bits(type) = c,
         NEW v \in AnyFloat, IsFinite(v)
  PROVE  LET t == Toward0(v) IN
         truncate_unsigned(w, type, v) = RefTrunc(w, FALSE, v) <=>
           t < 0 \/ t < Pow2[MinOf(w, c)] \/ t >= Pow2[MaxOf(w, c)]
<1> DEFINE t == Toward0(v)  m == Pow2[w]  k == Pow2[c]
<1>1. t \in Int /\ IsFinite(v) /\ m \in Nat /\ k \in Nat
  BY FiniteFacts, PowType
<1>2. truncate_unsigned(w, type, v) =
        IF ~(t > -1 /\ t < k) THEN Trap
        ELSE IF t >= m THEN Undefined
        ELSE Value(AsSigned(w, t))
  BY <1>1 DEF truncate_unsigned, to_signed
<1>3. RefTrunc(w, FALSE, v) = IF t \in 0 .. m - 1 THEN Value(AsSigned(w, t)) ELSE Trap
  BY <1>1 DEF RefTrunc
<1>4. /\ t < Pow2[MinOf(w, c)] <=> t < m /\ t < k
      /\ t >= Pow2[MaxOf(w, c)] <=> t >= m /\ t >= k
  <2> HIDE DEF t
  <2> QED
    BY <1>1, Between
<1> HIDE DEF t, m, k
<1>5. t \in 0 .. m - 1 <=> t >= 0 /\ t < m
  BY <1>1
<1>6. CASE t < 0 \/ (t >= m /\ t >= k)
  <2>1. ~(t > -1 /\ t < k) /\ t \notin 0 .. m - 1
    BY <1>1, <1>5, <1>6
  <2>2. truncate_unsigned(w, type, v) = RefTrunc(w, FALSE, v)
    BY <1>2, <1>3, <2>1
  <2> QED
    BY <1>4, <1>6, <2>2 DEF t
<1>7. CASE t >= 0 /\ t < m /\ t < k
  <2>1. t > -1 /\ t < k /\ ~(t >= m) /\ t \in 0 .. m - 1
    BY <1>1, <1>5, <1>7
  <2>2. truncate_unsigned(w, type, v) = RefTrunc(w, FALSE, v)
    BY <1>2, <1>3, <2>1
  <2> QED
    BY <1>4, <1>7, <2>2 DEF t
<1>8. CASE t >= m /\ t < k
  <2>1. t > -1 /\ t < k /\ t >= m /\ t \notin 0 .. m - 1 /\ ~(t < 0) /\ ~(t < m)
    BY <1>1, <1>5, <1>8
  <2>2. truncate_unsigned(w, type, v) = Undefined /\ RefTrunc(w, FALSE, v) = Trap
    BY <1>2, <1>3, <2>1
  <2>3. ~(t >= k)
    BY <1>1, <1>8
  <2> QED
    BY <1>4, <2>1, <2>2, <2>3, Valued DEF t
<1>9. CASE t >= 0 /\ t < m /\ t >= k
  <2>1. ~(t < k) /\ t \in 0 .. m - 1 /\ ~(t < 0) /\ ~(t >= m)
    BY <1>1, <1>5, <1>9
  <2>2. truncate_unsigned(w, type, v) = Trap /\ RefTrunc(w, FALSE, v) = Value(AsSigned(w, t))
    BY <1>2, <1>3, <2>1
  <2> QED
    BY <1>4, <2>1, <2>2, Valued DEF t
<1>10. \/ t < 0 \/ (t >= m /\ t >= k)
       \/ t >= 0 /\ t < m /\ t < k
       \/ t >= m /\ t < k
       \/ t >= 0 /\ t < m /\ t >= k
  BY <1>1
<1> QED
  BY <1>6, <1>7, <1>8, <1>9, <1>10

(* The bounds are those of the float's size, the assert is for a magnitude *)
(* that is not the number.                                                 *)
LEMMA TruncatedSigned ==
  ASSUME NEW w \in Nat, w >= 2, NEW type, NEW c \in Nat, c >= 2, Bits(type) = c,
         Precision(type) \in Nat, Precision(type) >= 1, Precision(type) <= c - 2,
         NEW v \in AnyFloat, IsFinite(v)
  PROVE  LET t == Toward0(v) IN
         truncate_signed(w, type, v) = RefTrunc(w, TRUE, v) <=>
           \/ 0 <= t /\ t < Pow2[MinOf(w, c) - 1]
           \/ t >= Pow2[MaxOf(w, c) - 1]
           \/ Halves(v) <= -Pow2[c] /\ t < Lowest(w)
<1> DEFINE t == Toward0(v)  H == Halves(v)
           m == Pow2[w]  h == Pow2[w - 1]  k == Pow2[c]  g == Pow2[c - 1]
           coded == truncate_signed(w, type, v)  asked == RefTrunc(w, TRUE, v)
<1>1. /\ m \in Nat /\ h \in Nat /\ k \in Nat /\ g \in Nat /\ m = 2 * h /\ k = 2 * g
      /\ h >= 2 /\ g >= 2 /\ Lowest(w) = -h
      /\ \A x : x \in Ints(w) <=> x \in Int /\ -h <= x /\ x < h
  BY Width
<1>2. /\ t \in Int /\ H \in Int /\ IsFinite(v)
      /\ t < 0 => H <= 2 * t /\ H >= 2 * t - 1
      /\ t > 0 => H >= 2 * t /\ H <= 2 * t + 1
      /\ t = 0 => H >= -1 /\ H <= 1
  BY FiniteFacts
<1>3. RoundTo(Precision(type), 2 * (Pow2[c - 1] + 1)) = k
  BY RoundedDown
<1>4. coded =
        IF ~(H > -k /\ H < k) THEN Trap
        ELSE IF Abs(t) >= m THEN Undefined
        ELSE IF Abs(t) # t THEN Aborted
        ELSE Value(AsSigned(w, Abs(t)))
  BY <1>2, <1>3 DEF truncate_signed, to_signed
<1>5. asked = IF t \in Ints(w) THEN Value(AsSigned(w, t)) ELSE Trap
  BY <1>2 DEF RefTrunc
<1>6. Abs(t) = IF t < 0 THEN -t ELSE t
  BY DEF Abs
<1>7. /\ t < Pow2[MinOf(w, c) - 1] <=> t < h /\ t < g
      /\ t >= Pow2[MaxOf(w, c) - 1] <=> t >= h /\ t >= g
  <2>1. w - 1 \in Nat /\ c - 1 \in Nat
    OBVIOUS
  <2>2. MinOf(w, c) - 1 = MinOf(w - 1, c - 1) /\ MaxOf(w, c) - 1 = MaxOf(w - 1, c - 1)
    BY DEF MinOf, MaxOf
  <2> HIDE DEF t
  <2> QED
    BY <1>2, <2>1, <2>2, Between
<1>8. (truncate_signed(w, type, v) = RefTrunc(w, TRUE, v) <=>
           \/ 0 <= Toward0(v) /\ Toward0(v) < Pow2[MinOf(w, c) - 1]
           \/ Toward0(v) >= Pow2[MaxOf(w, c) - 1]
           \/ Halves(v) <= -Pow2[c] /\ Toward0(v) < Lowest(w))
      <=> (coded = asked <=> \/ 0 <= t /\ t < h /\ t < g
                             \/ t >= h /\ t >= g
                             \/ H <= -k /\ t < -h)
  BY <1>1, <1>7
<1> HIDE DEF t, H, m, h, k, g, coded, asked
<1>9. CASE t < 0
  <2>1. ~(0 <= t) /\ ~(t >= h) /\ Abs(t) # t /\ H < k
    BY <1>1, <1>2, <1>6, <1>9
  <2>2. CASE H <= -k
    <3>1. ~(H > -k)
      BY <1>1, <1>2, <2>2
    <3>2. coded = Trap
      BY <1>4, <3>1
    <3>3. asked = Trap <=> t \notin Ints(w)
      BY <1>5, Valued
    <3>4. t \notin Ints(w) <=> t < -h
      BY <1>1, <1>2, <1>9
    <3> QED
      BY <1>8, <2>1, <2>2, <3>2, <3>3, <3>4
  <2>3. CASE ~(H <= -k)
    <3>1. H > -k
      BY <1>1, <1>2, <2>3
    <3>2. coded \in {Undefined, Aborted}
      BY <1>4, <2>1, <3>1
    <3>3. asked \notin {Undefined, Aborted}
      BY <1>5, Valued
    <3> QED
      BY <1>8, <2>1, <2>3, <3>2, <3>3
  <2> QED
    BY <2>2, <2>3
<1>10. CASE t >= 0
  <2>1. H > -k /\ ~(t < -h) /\ 0 <= t /\ Abs(t) = t /\ (H < k <=> t < g) /\ (t \in Ints(w) <=> t < h)
    BY <1>1, <1>2, <1>6, <1>10
  <2>2. CASE t >= g
    <3>1. ~(H < k) /\ ~(t < g)
      BY <1>1, <1>2, <2>1, <2>2
    <3>2. coded = Trap
      BY <1>4, <3>1
    <3>3. asked = Trap <=> t \notin Ints(w)
      BY <1>5, Valued
    <3>4. t \notin Ints(w) <=> t >= h
      BY <1>1, <1>2, <2>1
    <3> QED
      BY <1>8, <2>1, <2>2, <3>1, <3>2, <3>3, <3>4
  <2>3. CASE t < g /\ t < h
    <3>1. ~(t >= m) /\ H < k
      BY <1>1, <1>2, <1>10, <2>1, <2>3
    <3>2. coded = Value(AsSigned(w, t))
      BY <1>4, <2>1, <3>1
    <3>3. asked = Value(AsSigned(w, t))
      BY <1>5, <2>1, <2>3
    <3> QED
      BY <1>8, <2>1, <2>3, <3>2, <3>3
  <2>4. CASE t < g /\ t >= h
    <3>1. ~(t < h) /\ ~(t >= g) /\ H < k
      BY <1>1, <1>2, <2>1, <2>4
    <3>2. coded # Trap
      BY <1>4, <2>1, <3>1, Valued
    <3>3. asked = Trap
      BY <1>5, <2>1, <3>1
    <3>4. ~(H <= -k)
      BY <1>1, <1>2, <2>1
    <3> QED
      BY <1>8, <2>1, <3>1, <3>2, <3>3, <3>4
  <2>5. t >= g \/ (t < g /\ t < h) \/ (t < g /\ t >= h)
    BY <1>1, <1>2
  <2> QED
    BY <2>2, <2>3, <2>4, <2>5
<1>11. t < 0 \/ t >= 0
  BY <1>2
<1> QED
  BY <1>9, <1>10, <1>11

LEMMA OldBound ==
  ASSUME NEW w \in Nat, w >= 2, NEW s \in BOOLEAN, NEW p \in Nat, p >= 1
  PROVE  LET most == IF s THEN Pow2[w - 1] - 1 ELSE Pow2[w] - 1 IN
         /\ most \in Nat /\ most >= 1
         /\ p <= w - 2 => /\ RoundTo(p, 2 * most) = 2 * most + 2
                          /\ RoundTo(p, 2 * most + 1) # 2 * most + 1
         /\ p > w => RoundTo(p, 2 * most) = 2 * most
<1> DEFINE b == IF s THEN w ELSE w + 1
           most == IF s THEN Pow2[w - 1] - 1 ELSE Pow2[w] - 1
<1>1. Pow2[w] \in Nat /\ Pow2[w - 1] \in Nat /\ Pow2[w] = 2 * Pow2[w - 1] /\ Pow2[w - 1] >= 2
  BY Width
<1>2. Pow2[w + 1] = 2 * Pow2[w]
  BY PowStep
<1>3. b \in Nat /\ b >= w /\ b <= w + 1
  OBVIOUS
<1>4. most \in Nat /\ most >= 1 /\ 2 * most = Pow2[b] - 2 /\ 2 * most + 1 = Pow2[b] - 1
      /\ 2 * most + 2 = Pow2[b]
  <2>1. CASE s
    BY <1>1, <2>1
  <2>2. CASE ~s
    BY <1>1, <1>2, <2>2
  <2> QED
    BY <2>1, <2>2
<1> HIDE DEF b, most
<1>5. ASSUME p <= w - 2
      PROVE  RoundTo(p, 2 * most) = 2 * most + 2 /\ RoundTo(p, 2 * most + 1) # 2 * most + 1
  <2>1. p <= b - 2
    BY <1>3, <1>5
  <2>2. RoundTo(p, Pow2[b] - 2) = Pow2[b] /\ RoundTo(p, Pow2[b] - 1) # Pow2[b] - 1
    BY <1>3, <2>1, RoundedUp
  <2> QED
    BY <1>4, <2>2
<1>6. ASSUME p > w PROVE RoundTo(p, 2 * most) = 2 * most
  <2>1. b <= p
    BY <1>3, <1>6
  <2>2. Pow2[b] <= Pow2[p] /\ Pow2[b] \in Nat /\ Pow2[p] \in Nat
    BY <1>3, <2>1, PowMonotone, PowType
  <2> DEFINE n == 2 * most
  <2>3. n \in Nat /\ n < Pow2[p]
    BY <1>4, <2>2
  <2> HIDE DEF n
  <2>4. RoundTo(p, n) = n
    BY <2>3, RoundedExactly
  <2> QED
    BY <2>4 DEF n
<1> QED
  BY <1>4, <1>5, <1>6 DEF most

(* Which numbers the older truncation refuses. *)
LEMMA OldTruncatedFinite ==
  ASSUME NEW w \in Nat, w >= 2, NEW s \in BOOLEAN, NEW type, NEW p \in Nat, p >= 1,
         Precision(type) = p, p <= w - 2 \/ p > w,
         NEW b \in BOOLEAN, NEW n \in Nat, RoundTo(p, n) = n
  PROVE  LET v     == Finite(b, n)
             least == IF s THEN Lowest(w) ELSE 0
             most  == IF s THEN Pow2[w - 1] - 1 ELSE Pow2[w] - 1
             came  == old_trunc(w, s, type, v)
             ref   == RefTrunc(w, s, v)
         IN  /\ (came = Trap <=> ref = Trap) <=>
                  ~ \/ Halves(v) = 2 * (most + 1) /\ p < w
                    \/ Halves(v) > 2 * most /\ Toward0(v) = most
                    \/ Halves(v) < 2 * least /\ Toward0(v) = least
             /\ came # Trap => Toward0(came[2]) = Toward0(v)
             /\ ref # Trap => ref[2] = AsSigned(w, Toward0(v))
<1> DEFINE v == Finite(b, n)  t == Toward0(v)  H == Halves(v)
           least == IF s THEN Lowest(w) ELSE 0
           most == IF s THEN Pow2[w - 1] - 1 ELSE Pow2[w] - 1
           came == old_trunc(w, s, type, v)  ref == RefTrunc(w, s, v)
           M == RoundTo(p, 2 * most)  N == IF s THEN Pow2[w] ELSE 0
<1>1. /\ Pow2[w] \in Nat /\ Pow2[w - 1] \in Nat /\ Pow2[w] = 2 * Pow2[w - 1]
      /\ Lowest(w) = -Pow2[w - 1]
  BY Width
<1>2. /\ most \in Nat /\ most >= 1
      /\ p <= w - 2 => M = 2 * most + 2 /\ RoundTo(p, 2 * most + 1) # 2 * most + 1
      /\ p > w => M = 2 * most
  BY OldBound, SMTT(40)
<1>3. least \in Int /\ least <= 0 /\ N \in Nat /\ 2 * least = -N
  BY <1>1
<1>4. /\ t \in Int /\ H \in Int /\ IsFinite(v)
      /\ b => t <= 0 /\ H <= 0 /\ (H = 2 * t \/ H = 2 * t - 1)
      /\ ~b => t >= 0 /\ H >= 0 /\ (H = 2 * t \/ H = 2 * t + 1) /\ H = n
      /\ Toward0(IntegralPart(v, FALSE)) = t
  <2> HIDE DEF v
  <2>1. /\ t \in Int /\ H \in Int
        /\ b => t <= 0 /\ H <= 0 /\ H \in {2 * t, 2 * t - 1}
        /\ ~b => t >= 0 /\ H >= 0 /\ H \in {2 * t, 2 * t + 1}
        /\ Toward0(IntegralPart(v, FALSE)) = t
    BY TowardZero DEF v
  <2>2. IsFinite(v) /\ H = IF b THEN -n ELSE n
    BY FloatKinds DEF v
  <2> HIDE DEF t, H
  <2> QED
    BY <2>1, <2>2
<1>5. M \in Nat
  <2> HIDE DEF most, M
  <2> QED
    BY <1>2
<1>6. came = IF Less(Finite(FALSE, M), v) \/ Less(v, Finite(TRUE, N)) THEN Trap
             ELSE Value(IF IsFinite(v) THEN IntegralPart(v, FALSE) ELSE v)
  BY DEF old_trunc
<1>7. Less(Finite(FALSE, M), v) <=> M < H
  <2> HIDE DEF M, v, H
  <2>1. Halves(Finite(FALSE, M)) = M
    BY <1>5, FloatKinds
  <2>2. Less(Finite(FALSE, M), v) <=> Halves(Finite(FALSE, M)) < Halves(v)
    BY <1>5, Order DEF v
  <2> QED
    BY <2>1, <2>2 DEF H
<1>8. Less(v, Finite(TRUE, N)) <=> H < 2 * least
  <2> HIDE DEF N, v, H, least
  <2>1. Halves(Finite(TRUE, N)) = -N
    BY <1>3, FloatKinds
  <2>2. Less(v, Finite(TRUE, N)) <=> Halves(v) < Halves(Finite(TRUE, N))
    BY <1>3, Order DEF v
  <2> QED
    BY <1>3, <2>1, <2>2 DEF H
<1>9. ref = IF t \in least .. most THEN Value(AsSigned(w, t)) ELSE Trap
  <2>1. (IF s THEN Ints(w) ELSE 0 .. Pow2[w] - 1) = least .. most
    BY DEF Ints
  <2>2. ref = IF IsFinite(v) /\ t \in (IF s THEN Ints(w) ELSE 0 .. Pow2[w] - 1)
              THEN Value(AsSigned(w, t)) ELSE Trap
    BY DEF RefTrunc
  <2> QED
    BY <1>4, <2>1, <2>2
<1>10. H = 2 * most + 1 => ~(p <= w - 2)
  <2> SUFFICES ASSUME H = 2 * most + 1, p <= w - 2 PROVE FALSE
    OBVIOUS
  <2> HIDE DEF most, H, t, M
  <2>1. n = 2 * most + 1
    BY <1>2, <1>4
  <2> QED
    BY <1>2, <2>1
<1> HIDE DEF v, t, H, least, most, came, ref, M, N
<1>11. came = Trap <=> M < H \/ H < 2 * least
  BY <1>4, <1>6, <1>7, <1>8, Valued
<1>12. ref = Trap <=> ~(least <= t /\ t <= most)
  <2>1. t \in least .. most <=> least <= t /\ t <= most
    BY <1>2, <1>3, <1>4
  <2> QED
    BY <1>9, <2>1, Valued
<1>13. p < w <=> p <= w - 2
  OBVIOUS
<1>14. (M < H \/ H < 2 * least <=> ~(least <= t /\ t <= most)) <=>
         ~ \/ H = 2 * (most + 1) /\ p < w
           \/ H > 2 * most /\ t = most
           \/ H < 2 * least /\ t = least
  <2>1. CASE b
    <3>1. t <= 0 /\ H <= 0 /\ (H = 2 * t \/ H = 2 * t - 1) /\ M >= 2 * most
      BY <1>2, <1>4, <2>1
    <3>2. ~(M < H) /\ ~(H = 2 * (most + 1)) /\ ~(H > 2 * most) /\ t <= most
      BY <1>2, <1>4, <1>5, <3>1
    <3>3. (H < 2 * least <=> ~(least <= t)) <=> ~(H < 2 * least /\ t = least)
      BY <1>3, <1>4, <3>1
    <3> QED
      BY <3>2, <3>3
  <2>2. CASE ~b
    <3>1. t >= 0 /\ H >= 0 /\ (H = 2 * t \/ H = 2 * t + 1)
      BY <1>4, <2>2
    <3>2. ~(H < 2 * least) /\ least <= t
      BY <1>3, <1>4, <3>1
    <3>3. CASE p <= w - 2
      <4>1. M = 2 * most + 2 /\ H # 2 * most + 1
        BY <1>2, <1>10, <3>3
      <4>2. (M < H <=> ~(t <= most)) <=> ~(H = 2 * (most + 1) \/ (H > 2 * most /\ t = most))
        BY <1>2, <1>4, <3>1, <4>1
      <4> QED
        BY <1>13, <3>2, <3>3, <4>2
    <3>4. CASE p > w
      <4>1. M = 2 * most /\ ~(p < w)
        BY <1>2, <3>4
      <4>2. (M < H <=> ~(t <= most)) <=> ~(H > 2 * most /\ t = most)
        BY <1>2, <1>4, <3>1, <4>1
      <4> QED
        BY <3>2, <4>1, <4>2
    <3> QED
      BY <3>3, <3>4
  <2> QED
    BY <2>1, <2>2
<1>15. came # Trap => Toward0(came[2]) = t
  BY <1>4, <1>6, Valued
<1>16. ref # Trap => ref[2] = AsSigned(w, t)
  BY <1>9, Valued
<1> QED
  BY <1>11, <1>12, <1>14, <1>15, <1>16 DEF v, t, H, least, most, came, ref

LEMMA OldTruncated ==
  ASSUME NEW w \in Nat, w >= 2, NEW s \in BOOLEAN, NEW type, NEW p \in Nat, p >= 1,
         Precision(type) = p, p <= w - 2 \/ p > w, NEW v \in FloatsOf(p)
  PROVE  LET least == IF s THEN Lowest(w) ELSE 0
             most  == IF s THEN Pow2[w - 1] - 1 ELSE Pow2[w] - 1
             came  == old_trunc(w, s, type, v)
             ref   == RefTrunc(w, s, v)
             agree == IF ref = Trap THEN came = Trap
                      ELSE came # Trap /\ AsSigned(w, Toward0(came[2])) = ref[2]
         IN  agree <=>
               ~ \/ v = NaN
                 \/ IsFinite(v) /\ Halves(v) = 2 * (most + 1) /\ Precision(type) < w
                 \/ IsFinite(v) /\ Halves(v) > 2 * most /\ Toward0(v) = most
                 \/ IsFinite(v) /\ Halves(v) < 2 * least /\ Toward0(v) = least
<1> DEFINE least == IF s THEN Lowest(w) ELSE 0
           most == IF s THEN Pow2[w - 1] - 1 ELSE Pow2[w] - 1
           came == old_trunc(w, s, type, v)  ref == RefTrunc(w, s, v)
           agree == IF ref = Trap THEN came = Trap
                    ELSE came # Trap /\ AsSigned(w, Toward0(came[2])) = ref[2]
           erring == \/ Halves(v) = 2 * (most + 1) /\ p < w
                     \/ Halves(v) > 2 * most /\ Toward0(v) = most
                     \/ Halves(v) < 2 * least /\ Toward0(v) = least
<1>0. v \in AnyFloat /\ (IsFinite(v) => RoundTo(p, v.mag) = v.mag)
  BY DEF FloatsOf
<1>1. CASE IsFinite(v)
  <2>1. PICK b \in BOOLEAN, n \in Nat : v = Finite(b, n)
    BY <1>0, <1>1, FloatForms, FloatKinds
  <2>2. RoundTo(p, n) = n
    BY <1>0, <1>1, <2>1, FloatKinds
  <2>3. /\ (came = Trap <=> ref = Trap) <=> ~erring
        /\ came # Trap => Toward0(came[2]) = Toward0(v)
        /\ ref # Trap => ref[2] = AsSigned(w, Toward0(v))
    BY <2>1, <2>2, OldTruncatedFinite
  <2>4. v # NaN
    BY <1>1, FloatKinds
  <2> HIDE DEF came, ref, erring
  <2>5. agree <=> ~erring
    BY <2>3
  <2> QED
    BY <1>1, <2>4, <2>5 DEF erring, came, ref
<1>2. CASE ~IsFinite(v)
  <2>1. ref = Trap
    BY <1>2 DEF RefTrunc
  <2> DEFINE maxm == Finite(FALSE, RoundTo(p, 2 * most))
             minm == Finite(TRUE, IF s THEN Pow2[w] ELSE 0)
  <2>2. came = IF Less(maxm, v) \/ Less(v, minm) THEN Trap ELSE Value(v)
    BY <1>2 DEF old_trunc
  <2>3. RoundTo(p, 2 * most) \in Nat /\ (IF s THEN Pow2[w] ELSE 0) \in Nat
    <3>1. /\ most \in Nat
          /\ p <= w - 2 => RoundTo(p, 2 * most) = 2 * most + 2
          /\ p > w => RoundTo(p, 2 * most) = 2 * most
      BY OldBound
    <3>2. Pow2[w] \in Nat
      BY PowType
    <3> HIDE DEF most
    <3> QED
      BY <3>1, <3>2
  <2> HIDE DEF came, ref
  <2>4. CASE v = NaN
    <3>1. maxm \in AnyFloat /\ minm \in AnyFloat
      BY <2>3 DEF AnyFloat, Finite
    <3>2. ~Less(maxm, v) /\ ~Less(v, minm)
      BY <2>4, <3>1, Order
    <3>3. came # Trap
      BY <2>2, <3>2, Valued
    <3> QED
      BY <2>1, <2>4, <3>3 DEF came, ref
  <2>5. CASE v # NaN
    <3>1. PICK b \in BOOLEAN : v = Inf(b)
      BY <1>0, <1>2, <2>5, FloatForms, FloatKinds
    <3>2. Less(maxm, v) \/ Less(v, minm)
      <4> DEFINE x == RoundTo(p, 2 * most)  y == IF s THEN Pow2[w] ELSE 0
      <4>1. x \in Nat /\ y \in Nat
        BY <2>3
      <4> HIDE DEF x, y
      <4>2. (Less(Inf(b), Finite(TRUE, y)) <=> b) /\ (Less(Finite(FALSE, x), Inf(b)) <=> ~b)
        BY <4>1, Order
      <4> QED
        BY <3>1, <4>2 DEF x, y
    <3>3. came = Trap
      BY <2>2, <3>2
    <3> QED
      BY <1>2, <2>1, <2>5, <3>3 DEF came, ref
  <2> QED
    BY <2>4, <2>5
<1> QED
  BY <1>1, <1>2

(* A truncation agrees with the reference exactly between the bounds that  *)
(* the sizes of the float and of the integer set, and signed only from     *)
(* zero up or where the float's size traps first, whatever the sizes and   *)
(* precisions (truncate_checked).                                          *)
THEOREM TruncationsAreComputed == ASpec => []TruncationsAgree
<1>1. ASSUME AInv PROVE TruncationsAgree
  <2> SUFFICES ASSUME Called(Truncations), IsFinite(Arg(1)) PROVE TruncationsAgree
    BY DEF TruncationsAgree
  <2>1. CalledTruncation
    BY <1>1, WhichCall DEF AInv, Called
  <2>2. PICK fn \in Truncations, type \in FloatTypes, to \in IntegerTypes : \E v \in Args[type] :
          Calling(fn, type, to, << v >>, truncation(fn, Bits(to), type, v))
    BY <2>1 DEF CalledTruncation
  <2>3. PICK v \in Args[type] :
          Calling(fn, type, to, << v >>, truncation(fn, Bits(to), type, v))
    BY <2>2
  <2> DEFINE w == Bits(to)  c == Bits(type)
  <2>4. /\ w \in Nat /\ w >= 2 /\ c \in Nat /\ c >= 2
        /\ Precision(type) \in Nat /\ Precision(type) >= 1 /\ Precision(type) <= c - 2
        /\ v \in AnyFloat
    BY Sizes, Formats
  <2>5. /\ W = c /\ Arg(1) = v /\ Fn = fn /\ call.to = to
        /\ outcome = truncation(fn, w, type, v)
    BY <2>3 DEF Calling, W, Arg, Fn
  <2>6. IsFinite(v)
    BY <2>5
  <2>7. CASE fn = "trunc_u"
    <3>1. outcome = truncate_unsigned(w, type, v)
      BY <2>5, <2>7 DEF truncation
    <3>2. truncate_unsigned(w, type, v) = RefTrunc(w, FALSE, v) <=>
            LET t == Toward0(v)
            IN  t < 0 \/ t < Pow2[MinOf(w, c)] \/ t >= Pow2[MaxOf(w, c)]
      <4> HIDE DEF w, c
      <4>1. Bits(type) = c
        BY DEF c
      <4> QED
        BY <2>4, <2>6, <4>1, TruncatedUnsigned
    <3>3. Fn = "trunc_u" /\ (Fn = "trunc_s") = FALSE
      BY <2>5, <2>7
    <3> QED
      BY <2>5, <3>1, <3>2, <3>3 DEF TruncationsAgree
  <2>8. CASE fn = "trunc_s"
    <3>1. outcome = truncate_signed(w, type, v)
      BY <2>5, <2>8 DEF truncation
    <3>2. truncate_signed(w, type, v) = RefTrunc(w, TRUE, v) <=>
            LET t == Toward0(v)
            IN  \/ 0 <= t /\ t < Pow2[MinOf(w, c) - 1]
                \/ t >= Pow2[MaxOf(w, c) - 1]
                \/ Halves(v) <= -Pow2[c] /\ t < Lowest(w)
      <4> HIDE DEF w, c
      <4>1. Bits(type) = c
        BY DEF c
      <4> QED
        BY <2>4, <2>6, <4>1, TruncatedSigned
    <3>3. Fn # "trunc_u" /\ (Fn = "trunc_s") = TRUE
      BY <2>5, <2>8
    <3> QED
      BY <2>5, <3>1, <3>2, <3>3 DEF TruncationsAgree
  <2> QED
    BY <2>7, <2>8 DEF Truncations
<1> QED
  BY <1>1, AlwaysAInv, PTL

(* The older truncation errs on a NaN, on the float just past the integers *)
(* where the bound was rounded up to it, and on the fractions past the     *)
(* last integers, which it refuses; nowhere else, whatever the sizes and   *)
(* precisions (wasm_trunc).                                                *)
THEOREM OldTruncationsAreComputed == ASpec => []OldTruncationsAgree
<1>1. ASSUME AInv PROVE OldTruncationsAgree
  <2> SUFFICES ASSUME Called({"old_trunc_s", "old_trunc_u"}) PROVE OldTruncationsAgree
    BY DEF OldTruncationsAgree
  <2>1. CalledOldTrunc
    BY <1>1, WhichCall DEF AInv, Called
  <2>2. PICK s \in BOOLEAN, type \in FloatTypes, to \in IntegerTypes : \E v \in Args[type] :
          Calling(IF s THEN "old_trunc_s" ELSE "old_trunc_u", type, to, << v >>,
                  old_trunc(Bits(to), s, type, v))
    BY <2>1 DEF CalledOldTrunc
  <2>3. PICK v \in Args[type] :
          Calling(IF s THEN "old_trunc_s" ELSE "old_trunc_u", type, to, << v >>,
                  old_trunc(Bits(to), s, type, v))
    BY <2>2
  <2> DEFINE w == Bits(to)  p == Precision(type)
  <2>4. /\ w \in Nat /\ w >= 2 /\ p \in Nat /\ p >= 1 /\ (p <= w - 2 \/ p > w)
        /\ v \in FloatsOf(p)
    BY Sizes, Formats
  <2>5. /\ Arg(1) = v /\ (Fn = "old_trunc_s") = s /\ call.to = to /\ call.type = type
        /\ outcome = old_trunc(w, s, type, v)
    BY <2>3 DEF Calling, Arg, Fn
  <2>6. LET least == IF s THEN Lowest(w) ELSE 0
            most  == IF s THEN Pow2[w - 1] - 1 ELSE Pow2[w] - 1
            came  == old_trunc(w, s, type, v)
            ref   == RefTrunc(w, s, v)
            agree == IF ref = Trap THEN came = Trap
                     ELSE came # Trap /\ AsSigned(w, Toward0(came[2])) = ref[2]
        IN  agree <=>
               ~ \/ v = NaN
                 \/ IsFinite(v) /\ Halves(v) = 2 * (most + 1) /\ Precision(type) < w
                 \/ IsFinite(v) /\ Halves(v) > 2 * most /\ Toward0(v) = most
                 \/ IsFinite(v) /\ Halves(v) < 2 * least /\ Toward0(v) = least
    <3> HIDE DEF w, p
    <3>1. Precision(type) = p
      BY DEF p
    <3> QED
      BY <2>4, <3>1, OldTruncated
  <2> QED
    BY <2>5, <2>6 DEF OldTruncationsAgree
<1> QED
  BY <1>1, AlwaysAInv, PTL

==============================================================================
