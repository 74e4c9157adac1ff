-------------------------- MODULE ProgramLink_proofs -------------------------
(***************************************************************************)
(* Proofs about ProgramLink for every set of programs the parser can have  *)
(* returned, whatever they import, export or call.                         *)
(*                                                                         *)
(* PInv says what each section that has been read has left behind: which   *)
(* rules of Linkable it has checked (Checked, Distinct, Started, Coded),   *)
(* which objects it made and under which attributes (Spaces, Attributes,   *)
(* Named), and, once _map_modules has run, that numbers lead to entities   *)
(* and back (Numbered).  A section that raises shows that a rule is broken *)
(* (IllegalRaises); when all have been passed, none is.  Typed and         *)
(* Resolved say what the ids of the types and the code of a function are.  *)
(***************************************************************************)
EXTENDS ProgramLink, SequenceTheorems, WellFoundedInduction, TLAPS

------------------------------------------------------------------------------
(* Induction over a set, and functions defined by recursion.               *)

LEMMA Least ==
  ASSUME NEW T \in SUBSET Nat, T # {}
  PROVE  \E n \in T : \A m \in T : n <= m
<1> DEFINE R == {ss \in Nat \X Nat : ss[1] < ss[2]}
<1>1. IsWellFoundedOn(R, Nat)
  BY NatLessThanWellFounded DEF OpToRel
<1>2. \E n \in T : \A m \in T : <<m, n>> \notin R
  <2> HIDE DEF R
  <2> QED
    BY <1>1, WFMin
<1>3. PICK n \in T : \A m \in T : <<m, n>> \notin R
  BY <1>2
<1>4. ASSUME NEW m \in T PROVE n <= m
  <2>1. <<m, n>> \in Nat \X Nat /\ <<m, n>>[1] = m /\ <<m, n>>[2] = n
    OBVIOUS
  <2>2. ~(<<m, n>>[1] < <<m, n>>[2])
    BY <1>3, <2>1
  <2> QED
    BY <2>2
<1> QED
  BY <1>4

LEMMA SetInduction ==
  ASSUME NEW last \in Nat, NEW T, 0 \in T,
         \A n \in Nat : n < last /\ n \in T => n + 1 \in T
  PROVE  \A n \in 0 .. last : n \in T
<1> SUFFICES ASSUME NEW k \in 0 .. last, k \notin T PROVE FALSE
  OBVIOUS
<1> DEFINE U == {n \in 0 .. last : n \notin T}
<1>1. PICK n \in U : \A m \in U : n <= m
  <2>1. U \in SUBSET Nat /\ U # {}
    OBVIOUS
  <2> HIDE DEF U
  <2> QED
    BY <2>1, Least
<1>2. n # 0 /\ n - 1 \in 0 .. last /\ n - 1 \in Nat /\ n - 1 < last /\ n - 1 + 1 = n
  OBVIOUS
<1>3. n - 1 \in T
  BY <1>1, <1>2
<1> QED
  BY <1>2, <1>3

Steps(last, X) == [1 .. last -> [X -> X]]
Recursive(f, last, X, base, g) ==
  /\ f \in [0 .. last -> X]
  /\ \A n \in 0 .. last : f[n] = IF n = 0 THEN base ELSE g[n][f[n - 1]]

LEMMA Recursion ==
  ASSUME NEW last \in Nat, NEW X, NEW base \in X, NEW g \in Steps(last, X)
  PROVE  \E f : Recursive(f, last, X, base, g)
<1> DEFINE Upto(f, n) == \A k \in 0 .. n : f[k] = IF k = 0 THEN base ELSE g[k][f[k - 1]]
           T == {n \in 0 .. last : \E f \in [0 .. n -> X] : Upto(f, n)}
<1>1. 0 \in T
  <2> DEFINE f == [n \in 0 .. 0 |-> base]
  <2>1. f \in [0 .. 0 -> X] /\ \A k \in 0 .. 0 : k = 0 /\ f[k] = base
    OBVIOUS
  <2> HIDE DEF f
  <2> QED
    BY <2>1
<1>2. ASSUME NEW n \in Nat, n < last, n \in T PROVE n + 1 \in T
  <2>1. PICK f \in [0 .. n -> X] : Upto(f, n)
    BY <1>2
  <2>0. g \in [1 .. last -> [X -> X]]
    BY DEF Steps
  <2>2. n + 1 \in 1 .. last /\ n + 1 \in 0 .. last /\ n \in 0 .. n
    BY <1>2
  <2> DEFINE new == g[n + 1][f[n]]
             h == [k \in 0 .. n + 1 |-> IF k = n + 1 THEN new ELSE f[k]]
  <2>3. new \in X
    BY <2>0, <2>1, <2>2
  <2> HIDE DEF new
  <2>4. h \in [0 .. n + 1 -> X]
    BY <2>3
  <2>5. ASSUME NEW k \in 0 .. n + 1
        PROVE  h[k] = IF k = 0 THEN base ELSE g[k][h[k - 1]]
    <3>1. CASE k = n + 1
      <4>1. k # 0 /\ k - 1 = n /\ h[k] = new /\ h[k - 1] = f[n]
        BY <3>1
      <4> QED
        BY <3>1, <4>1 DEF new
    <3>2. CASE k = 0
      <4>1. f[0] = base /\ k # n + 1
        BY <2>1, <3>2
      <4> QED
        BY <3>2, <4>1
    <3>3. CASE k \in 1 .. n
      <4>1. k \in 0 .. n /\ k # 0 /\ k - 1 \in 0 .. n + 1 /\ k - 1 # n + 1 /\ k # n + 1
        BY <3>3
      <4>2. h[k] = f[k] /\ h[k - 1] = f[k - 1]
        BY <4>1
      <4>3. f[k] = g[k][f[k - 1]]
        BY <2>1, <4>1
      <4> QED
        BY <4>1, <4>2, <4>3
    <3> QED
      BY <3>1, <3>2, <3>3
  <2> HIDE DEF h
  <2> QED
    BY <2>2, <2>4, <2>5
<1>3. last \in T
  <2> HIDE DEF T
  <2>1. last \in 0 .. last
    OBVIOUS
  <2> QED
    BY <1>1, <1>2, <2>1, SetInduction
<1> QED
  BY <1>3 DEF Recursive

------------------------------------------------------------------------------
(* Dictionaries from keys to numbers.                                      *)

Has(s, x) == \E i \in DOMAIN s : s[i] = x

Extends(s, t) == \A i \in DOMAIN s : i \in DOMAIN t /\ t[i] = s[i]

(* The keys are numbered from 0, each once.                                *)
LEMMA IdOfFacts ==
  ASSUME NEW T, NEW dict \in Seq(T), NEW key, Has(dict, key)
  PROVE  /\ IdOf(dict, key) \in 0 .. Len(dict) - 1
         /\ dict[IdOf(dict, key) + 1] = key
<1> DEFINE i == CHOOSE i \in DOMAIN dict : dict[i] = key
<1>1. i \in DOMAIN dict /\ dict[i] = key
  BY DEF Has
<1>2. DOMAIN dict = 1 .. Len(dict) /\ Len(dict) \in Nat
  OBVIOUS
<1>3. IdOf(dict, key) = i - 1
  BY DEF IdOf
<1> HIDE DEF i
<1> QED
  BY <1>1, <1>2, <1>3

LEMMA IdDictFacts ==
  ASSUME NEW T, NEW dict \in Seq(T), NEW key \in T, IsInjective(dict)
  PROVE  /\ IdDict(dict, key) \in Seq(T)
         /\ IsInjective(IdDict(dict, key))
         /\ \A x : Has(IdDict(dict, key), x) <=> Has(dict, x) \/ x = key
         /\ Extends(dict, IdDict(dict, key))
<1>1. CASE Has(dict, key)
  BY <1>1 DEF IdDict, Has, Extends
<1>2. CASE ~Has(dict, key)
  <2> DEFINE d == Append(dict, key)
             n == Len(dict)
  <2>1. IdDict(dict, key) = d
    BY <1>2 DEF IdDict, Has
  <2>2. /\ n \in Nat /\ DOMAIN dict = 1 .. n
        /\ d \in Seq(T) /\ DOMAIN d = 1 .. n + 1
        /\ \A i \in 1 .. n : d[i] = dict[i] /\ dict[i] # key
        /\ d[n + 1] = key
    BY <1>2 DEF Has
  <2> HIDE DEF d, n
  <2>3. \A i \in 1 .. n + 1 : i \in 1 .. n \/ i = n + 1
    BY <2>2
  <2>4. IsInjective(d)
    <3> SUFFICES ASSUME NEW a \in 1 .. n + 1, NEW b \in 1 .. n + 1, d[a] = d[b] PROVE a = b
      BY <2>2 DEF IsInjective
    <3>1. CASE a \in 1 .. n /\ b \in 1 .. n
      BY <2>2, <3>1 DEF IsInjective
    <3> QED
      BY <2>2, <2>3, <3>1
  <2>5. ASSUME NEW x PROVE Has(d, x) <=> Has(dict, x) \/ x = key
    <3>1. n + 1 \in 1 .. n + 1 /\ \A i \in 1 .. n : i \in 1 .. n + 1
      BY <2>2
    <3> QED
      BY <2>2, <2>3, <3>1 DEF Has
  <2>6. Extends(dict, d)
    BY <2>2 DEF Extends
  <2> QED
    BY <2>1, <2>2, <2>4, <2>5, <2>6
<1> QED
  BY <1>1, <1>2

LEMMA AddKeysFacts ==
  ASSUME NEW T, NEW dict \in Seq(T), NEW keys \in Seq(T), IsInjective(dict)
  PROVE  /\ AddKeys(dict, keys) \in Seq(T)
         /\ IsInjective(AddKeys(dict, keys))
         /\ \A x : Has(AddKeys(dict, keys), x) <=> Has(dict, x) \/ Has(keys, x)
         /\ Extends(dict, AddKeys(dict, keys))
<1> DEFINE N == Len(keys)
           step == [n \in 1 .. N |-> [d \in Seq(T) |-> IdDict(d, keys[n])]]
           Add[n \in 0 .. N] == IF n = 0 THEN dict ELSE IdDict(Add[n - 1], keys[n])
<1>1. N \in Nat /\ DOMAIN keys = 1 .. N /\ \A n \in 1 .. N : keys[n] \in T
  OBVIOUS
<1>2. step \in Steps(N, Seq(T))
  <2>1. \A n \in 1 .. N : \A d \in Seq(T) : IdDict(d, keys[n]) \in Seq(T)
    BY <1>1 DEF IdDict
  <2> QED
    BY <2>1 DEF Steps
<1>3. PICK f : Recursive(f, N, Seq(T), dict, step)
  <2> HIDE DEF N, step
  <2> QED
    BY <1>1, <1>2, Recursion, Zenon
<1>4. f = [n \in 0 .. N |-> IF n = 0 THEN dict ELSE IdDict(f[n - 1], keys[n])]
  <2>1. ASSUME NEW n \in 0 .. N
        PROVE  f[n] = IF n = 0 THEN dict ELSE IdDict(f[n - 1], keys[n])
    <3>0. /\ f \in [0 .. N -> Seq(T)]
          /\ f[n] = IF n = 0 THEN dict ELSE step[n][f[n - 1]]
      BY <1>3 DEF Recursive
    <3>1. CASE n = 0
      BY <3>0, <3>1
    <3>2. CASE n # 0
      <4>1. n \in 1 .. N /\ n - 1 \in 0 .. N
        BY <1>1, <3>2
      <4>2. f[n - 1] \in Seq(T)
        BY <3>0, <4>1
      <4>3. f[n] = step[n][f[n - 1]]
        BY <3>0, <3>2
      <4> QED
        BY <3>2, <4>1, <4>2, <4>3
    <3> QED
      BY <3>1, <3>2
  <2>2. f \in [0 .. N -> Seq(T)]
    BY <1>3 DEF Recursive
  <2> HIDE DEF N
  <2> QED
    BY <2>1, <2>2
<1>5. Add = [n \in 0 .. N |-> IF n = 0 THEN dict ELSE IdDict(Add[n - 1], keys[n])]
  BY <1>4
<1>6. AddKeys(dict, keys) = Add[N]
  BY DEF AddKeys
<1> HIDE DEF Add, N, step
<1>7. Add[0] = dict /\ \A n \in 1 .. N : Add[n] = IdDict(Add[n - 1], keys[n])
  <2>1. 0 \in 0 .. N /\ \A n \in 1 .. N : n \in 0 .. N /\ n # 0
    BY <1>1
  <2> QED
    BY <1>5, <2>1
<1> DEFINE Good(n) == /\ Add[n] \in Seq(T)
                      /\ IsInjective(Add[n])
                      /\ Extends(dict, Add[n])
                      /\ \A x : Has(Add[n], x) <=> Has(dict, x) \/ \E i \in 1 .. n : keys[i] = x
           G == {n \in 0 .. N : Good(n)}
<1>8. 0 \in G
  BY <1>1, <1>7 DEF Extends
<1>9. ASSUME NEW n \in Nat, n < N, n \in G PROVE n + 1 \in G
  <2>1. /\ n + 1 \in 1 .. N /\ n + 1 \in 0 .. N
        /\ \A i \in 1 .. n + 1 : i \in 1 .. n \/ i = n + 1
        /\ n + 1 \in 1 .. n + 1 /\ \A i \in 1 .. n : i \in 1 .. n + 1
    BY <1>1, <1>9
  <2>2. Good(n)
    BY <1>9
  <2>3. Add[n + 1] = IdDict(Add[n], keys[n + 1])
    <3>1. n + 1 - 1 = n
      BY <1>9
    <3> QED
      BY <1>7, <2>1, <3>1
  <2> DEFINE a == Add[n]
             k == keys[n + 1]
             b == Add[n + 1]
  <2>4. a \in Seq(T) /\ IsInjective(a) /\ k \in T /\ b = IdDict(a, k)
    BY <1>1, <2>1, <2>2, <2>3
  <2>5. /\ b \in Seq(T) /\ IsInjective(b)
        /\ \A x : Has(b, x) <=> Has(a, x) \/ x = k
        /\ Extends(a, b)
    <3> HIDE DEF a, k, b
    <3> QED
      BY <2>4, IdDictFacts
  <2>6. ASSUME NEW x
        PROVE  Has(b, x) <=> Has(dict, x) \/ \E i \in 1 .. n + 1 : keys[i] = x
    <3>1. Has(a, x) <=> Has(dict, x) \/ \E i \in 1 .. n : keys[i] = x
      BY <2>2
    <3>2. Has(b, x) <=> Has(a, x) \/ x = k
      BY <2>5
    <3>3. (\E i \in 1 .. n + 1 : keys[i] = x) <=> (\E i \in 1 .. n : keys[i] = x) \/ x = k
      BY <2>1
    <3> HIDE DEF a, b, k
    <3> QED
      BY <3>1, <3>2, <3>3
  <2>7. Extends(dict, b)
    <3>1. Extends(dict, a)
      BY <2>2
    <3> HIDE DEF a, b
    <3> QED
      BY <2>5, <3>1 DEF Extends
  <2> QED
    BY <2>1, <2>5, <2>6, <2>7
<1>10. N \in G
  <2> HIDE DEF G
  <2>1. N \in 0 .. N
    BY <1>1
  <2> QED
    BY <1>1, <1>8, <1>9, <2>1, SetInduction
<1>11. Good(N)
  BY <1>10
<1> QED
  BY <1>1, <1>6, <1>11 DEF Has

------------------------------------------------------------------------------
(* The inductive invariant.                                                *)

Modules == 1 .. Len(modules)

(* Section s of module m has been read to its end.                         *)
Passed(s, m) ==
  \/ phase > s
  \/ phase = s /\ at > m

ExportRead(m, x) ==
  \/ Passed(9, m)
  \/ phase = 9 /\ at = m /\ x <= item

BodyRead(m, b) ==
  \/ Passed(12, m)
  \/ phase = 12 /\ at = m /\ b <= item

(* The entities of kind k that module m defines, and those made so far.    *)
Size(m, k) ==
  CASE k = Function -> Len(modules[m].functions)
    [] k = Table    -> Len(modules[m].tables)
    [] k = Memory   -> Len(modules[m].memories)
SizeRead(m, k) == IF Passed(k + 3, m) THEN Size(m, k) ELSE 0

Means(m, x) == Entity(m, modules[m].exports[x].kind, modules[m].exports[x].index + 1)
NameOf(m, x) == << modules[m].name, modules[m].exports[x].field >>

Position ==
  /\ modules \in Programs
  /\ phase \in 1 .. 13
  /\ at \in Modules
  /\ item \in Nat
  /\ phase \notin {9, 12, 13} => item = 0
  /\ phase \in {10, 11, 13} => at = 1
  /\ phase = 9 => item <= Len(modules[at].exports)
  /\ phase = 12 => item <= Len(modules[at].code)

(* What reading a section has made sure of.                                *)
Checked ==
  /\ DOMAIN function_signatures = Modules
  /\ \A m \in Modules :
       LET M == modules[m] IN
       /\ Passed(1, m) => Len(function_signatures[m]) = Len(M.types)
       /\ Passed(2, m) => M.imports = << >>
       /\ Passed(3, m) => \A i \in DOMAIN M.functions : M.functions[i] < Len(M.types)
       /\ Passed(6, m) => M.globals = 0
       /\ Passed(7, m) => M.elements = 0
       /\ Passed(8, m) => M.data = 0

(* Until they are numbered, the index spaces hold the entities themselves. *)
Spaces ==
  phase <= 11 =>
    /\ numbered = [k \in Kinds |-> << >>]
    /\ index_spaces = [m \in Modules |-> [k \in Kinds |->
                         [i \in 1 .. SizeRead(m, k) |-> Entity(m, k, i)]]]

Attributes ==
  /\ \A e \in DOMAIN objects :
       /\ \E m \in Modules : \E k \in Kinds : \E i \in 1 .. SizeRead(m, k) : e = Entity(m, k, i)
       /\ "name" \in DOMAIN objects[e]
       /\ e[2] = Function => "code" \in DOMAIN objects[e]
  /\ \A m \in Modules : \A k \in Kinds : \A i \in 1 .. SizeRead(m, k) :
       Entity(m, k, i) \in DOMAIN objects

(* The exports read so far are in range, and none shares its name or its   *)
(* object with another.                                                    *)
Distinct ==
  \A m \in Modules : \A x \in DOMAIN modules[m].exports : ExportRead(m, x) =>
    /\ modules[m].exports[x].kind \in Kinds
    /\ modules[m].exports[x].index < Size(m, modules[m].exports[x].kind)
    /\ \A y \in DOMAIN modules[m].exports : ExportRead(m, y) /\ y # x =>
         NameOf(m, y) # NameOf(m, x) /\ Means(m, y) # Means(m, x)

(* The export map and the names of the objects are those exports.          *)
Named ==
  phase <= 11 =>
    /\ \A m \in Modules : \A x \in DOMAIN modules[m].exports : ExportRead(m, x) =>
         /\ NameOf(m, x) \in DOMAIN exports
         /\ exports[NameOf(m, x)] = Means(m, x)
         /\ objects[Means(m, x)].name # None
    /\ \A f \in DOMAIN exports :
         \E m \in Modules : \E x \in DOMAIN modules[m].exports :
           ExportRead(m, x) /\ f = NameOf(m, x)
    /\ \A e \in DOMAIN objects : objects[e].name # None =>
         \E m \in Modules : \E x \in DOMAIN modules[m].exports :
           ExportRead(m, x) /\ e = Means(m, x)

Started ==
  phase > 10 =>
    /\ modules[1].start # None
    /\ modules[1].start[1] < Size(1, Function)
    /\ phase = 11 => start_function = Entity(1, Function, modules[1].start[1] + 1)

(* Once they are: a number leads to its entity and only to that.           *)
Leads(k, n, e) == n \in 0 .. Len(numbered[k]) - 1 /\ numbered[k][n + 1] = e

Numbered ==
  phase > 11 =>
    /\ \A k \in Kinds :
         /\ IsInjective(numbered[k])
         /\ Len(numbered[k]) \in Nat
         /\ DOMAIN numbered[k] = 1 .. Len(numbered[k])
         /\ \A j \in 1 .. Len(numbered[k]) :
              \E m \in Modules : \E i \in 1 .. Size(m, k) : numbered[k][j] = Entity(m, k, i)
         /\ \A m \in Modules :
              /\ DOMAIN index_spaces[m][k] = 1 .. Size(m, k)
              /\ Len(index_spaces[m][k]) = Size(m, k)
              /\ \A i \in 1 .. Size(m, k) : Leads(k, index_spaces[m][k][i], Entity(m, k, i))
    /\ \A m \in Modules : \A x \in DOMAIN modules[m].exports :
         LET value == exports[NameOf(m, x)]
         IN  value[1] = modules[m].exports[x].kind /\ Leads(value[1], value[2], Means(m, x))
    /\ Leads(Function, start_function, Entity(1, Function, modules[1].start[1] + 1))

(* The bodies read so far are those of the functions that have code.       *)
Code(m, b) == modules[m].code[b].instructions

Coded ==
  /\ \A m \in Modules : \A b \in DOMAIN modules[m].code : BodyRead(m, b) =>
       /\ modules[m].code[b].locals = 0
       /\ b <= Size(m, Function)
       /\ \A n \in DOMAIN Code(m, b) : Acceptable(Code(m, b)[n], n, modules[m])
  /\ \A m \in Modules : \A i \in 1 .. SizeRead(m, Function) :
       objects[Entity(m, Function, i)].code # None <=>
         (i \in DOMAIN modules[m].code /\ BodyRead(m, i))

Built ==
  phase = 13 =>
    /\ item <= Len(numbered[Function])
    /\ \A j \in 1 .. item : objects[numbered[Function][j]].code # None

Outcome ==
  /\ status = "created" => phase = 13 /\ item = Len(numbered[Function])
  /\ status \notin {"linking", "created"} => ~Linkable

PInv ==
  /\ Position /\ Checked /\ Spaces /\ Attributes /\ Distinct /\ Named /\ Started
  /\ Numbered /\ Coded /\ Built /\ Outcome

------------------------------------------------------------------------------
(* What ModuleDef.py promises of the modules.                              *)

LEMMA ListFacts ==
  ASSUME NEW s, IsList(s)
  PROVE  Len(s) \in Nat /\ DOMAIN s = 1 .. Len(s) /\ (s = << >> <=> Len(s) = 0)
BY DEF IsList

LEMMA ModulesFacts ==
  ASSUME modules \in Programs
  PROVE  /\ Len(modules) \in Nat /\ Len(modules) > 0
         /\ DOMAIN modules = Modules
         /\ \A m \in Modules : IsModule(modules[m])
         /\ \A m, n \in Modules : modules[m].name = modules[n].name => m = n
<1>1. /\ IsList(modules) /\ Len(modules) > 0
      /\ \A m \in DOMAIN modules : IsModule(modules[m])
      /\ \A m, n \in DOMAIN modules : modules[m].name = modules[n].name => m = n
  BY ProgramsAssumption
<1>2. DOMAIN modules = Modules /\ Len(modules) \in Nat
  BY <1>1, ListFacts DEF Modules
<1> QED
  BY <1>1, <1>2

LEMMA SizeFacts ==
  ASSUME modules \in Programs, NEW m \in Modules
  PROVE  /\ Size(m, Function) = Len(modules[m].functions)
         /\ Size(m, Table) = Len(modules[m].tables)
         /\ Size(m, Memory) = Len(modules[m].memories)
         /\ \A k \in Kinds : Size(m, k) \in Nat
         /\ \A k \in Kinds : SizeRead(m, k) \in Nat
<1>1. IsModule(modules[m])
  BY ModulesFacts
<1>2. /\ Len(modules[m].functions) \in Nat /\ Len(modules[m].tables) \in Nat
      /\ Len(modules[m].memories) \in Nat
  BY <1>1, ListFacts DEF IsModule
<1>3. /\ Size(m, Function) = Len(modules[m].functions)
      /\ Size(m, Table) = Len(modules[m].tables)
      /\ Size(m, Memory) = Len(modules[m].memories)
  BY DEF Size, Function, Table, Memory
<1>4. \A k \in Kinds : Size(m, k) \in Nat
  BY <1>2, <1>3 DEF Kinds
<1> QED
  BY <1>3, <1>4 DEF SizeRead

LEMMA ExportFacts ==
  ASSUME modules \in Programs, NEW m \in Modules
  PROVE  /\ Len(modules[m].exports) \in Nat
         /\ DOMAIN modules[m].exports = 1 .. Len(modules[m].exports)
         /\ \A x \in DOMAIN modules[m].exports : modules[m].exports[x].index \in Nat
<1>1. IsModule(modules[m])
  BY ModulesFacts
<1> QED
  BY <1>1, ListFacts DEF IsModule

LEMMA BodyFacts ==
  ASSUME modules \in Programs, NEW m \in Modules
  PROVE  /\ Len(modules[m].code) \in Nat
         /\ DOMAIN modules[m].code = 1 .. Len(modules[m].code)
         /\ \A b \in DOMAIN modules[m].code :
              modules[m].code[b].locals \in Nat /\ Code(m, b) \in Seq(Instructions)
<1>1. IsModule(modules[m])
  BY ModulesFacts
<1> QED
  BY <1>1, ListFacts DEF IsModule, Code

(* Where the linker is.                                                    *)

LEMMA PhaseFacts ==
  ASSUME phase \in 1 .. 13
  PROVE  /\ Phases[phase] = "Type" => phase = 1
         /\ Phases[phase] = "Import" => phase = 2
         /\ Phases[phase] = "Function" => phase = 3
         /\ Phases[phase] = "Table" => phase = 4
         /\ Phases[phase] = "Memory" => phase = 5
         /\ Phases[phase] = "Global" => phase = 6
         /\ Phases[phase] = "Element" => phase = 7
         /\ Phases[phase] = "Data" => phase = 8
         /\ Phases[phase] = "Export" => phase = 9
         /\ Phases[phase] = "Start" => phase = 10
         /\ Phases[phase] = "Map" => phase = 11
         /\ Phases[phase] = "Code" => phase = 12
         /\ Phases[phase] = "Create" => phase = 13
BY DEF Phases

LEMMA NextModuleFacts ==
  ASSUME Position, NextModule, UNCHANGED modules, phase \in 1 .. 9 \cup {12},
         phase = 9 => item = Len(modules[at].exports),
         phase = 12 => item = Len(modules[at].code)
  PROVE  /\ Position'
         /\ phase' \in {phase, phase + 1} /\ item' = 0
         /\ \A s \in 1 .. 13 : \A m \in Modules :
              Passed(s, m)' <=> Passed(s, m) \/ (s = phase /\ m = at)
         /\ \A m \in Modules : \A x \in DOMAIN modules[m].exports :
              ExportRead(m, x)' <=> ExportRead(m, x)
         /\ \A m \in Modules : \A b \in DOMAIN modules[m].code :
              BodyRead(m, b)' <=> BodyRead(m, b)
<1>1. /\ Len(modules) \in Nat /\ Modules' = Modules
      /\ phase \in 1 .. 13 /\ at \in Modules /\ modules \in Programs /\ item' = 0
      /\ 1 \in Modules
  BY ModulesFacts DEF Position, Modules, NextModule
<1>2. \/ at < Len(modules) /\ at' = at + 1 /\ phase' = phase
      \/ at = Len(modules) /\ at' = 1 /\ phase' = phase + 1
  BY <1>1 DEF NextModule, Modules
<1>3. /\ phase' \in 1 .. 13 /\ at' \in Modules /\ phase' \in {phase, phase + 1}
      /\ phase' \in {10, 11, 13} => at' = 1
  BY <1>1, <1>2, SMTT(20) DEF Modules
<1>4. /\ \A m \in Modules : 0 <= Len(modules[m].exports) /\ 0 <= Len(modules[m].code)
  BY <1>1, ExportFacts, BodyFacts
<1>5. Position'
  BY <1>1, <1>3, <1>4 DEF Position
<1>6. ASSUME NEW s \in 1 .. 13, NEW m \in Modules
      PROVE  Passed(s, m)' <=> Passed(s, m) \/ (s = phase /\ m = at)
  BY <1>1, <1>2 DEF Passed, Modules
<1>7. ASSUME NEW m \in Modules, NEW x \in DOMAIN modules[m].exports
      PROVE  ExportRead(m, x)' <=> ExportRead(m, x)
  <2>1. x \in Nat /\ 1 <= x /\ x <= Len(modules[m].exports) /\ Len(modules[m].exports) \in Nat
    BY <1>1, ExportFacts
  <2>2. Passed(9, m)' <=> Passed(9, m) \/ (9 = phase /\ m = at)
    BY <1>6
  <2>3. ~(phase' = 9 /\ at' = m /\ x <= item')
    BY <1>1, <2>1
  <2> QED
    BY <2>1, <2>2, <2>3 DEF ExportRead
<1>8. ASSUME NEW m \in Modules, NEW b \in DOMAIN modules[m].code
      PROVE  BodyRead(m, b)' <=> BodyRead(m, b)
  <2>1. b \in Nat /\ 1 <= b /\ b <= Len(modules[m].code) /\ Len(modules[m].code) \in Nat
    BY <1>1, BodyFacts
  <2>2. Passed(12, m)' <=> Passed(12, m) \/ (12 = phase /\ m = at)
    BY <1>6
  <2>3. ~(phase' = 12 /\ at' = m /\ b <= item')
    BY <1>1, <2>1
  <2> QED
    BY <2>1, <2>2, <2>3 DEF BodyRead
<1> QED
  BY <1>1, <1>3, <1>5, <1>6, <1>7, <1>8

LEMMA SameModules ==
  ASSUME UNCHANGED modules
  PROVE  /\ Modules' = Modules
         /\ \A m, k : Size(m, k)' = Size(m, k)
         /\ \A m, x : Means(m, x)' = Means(m, x) /\ NameOf(m, x)' = NameOf(m, x)
         /\ \A m, b : Code(m, b)' = Code(m, b)
         /\ Linkable' <=> Linkable
<1>1. Modules' = Modules
  BY DEF Modules
<1>2. \A m, k : Size(m, k)' = Size(m, k)
  BY DEF Size
<1>3. \A m, x : Means(m, x)' = Means(m, x) /\ NameOf(m, x)' = NameOf(m, x)
  BY DEF Means, NameOf
<1>4. \A m, b : Code(m, b)' = Code(m, b)
  BY DEF Code
<1>5. Linkable' <=> Linkable
  BY DEF Linkable
<1> QED
  BY <1>1, <1>2, <1>3, <1>4, <1>5

------------------------------------------------------------------------------
(* A section of a module has been read, and nothing was made of it.        *)

LEMMA QuietKeeps ==
  ASSUME PInv, NextModule, phase \in {1, 2, 6, 7, 8, 9, 12}, status = "linking",
         UNCHANGED << modules, index_spaces, objects, exports, start_function, numbered,
                      status >>,
         phase = 9 => item = Len(modules[at].exports),
         phase = 12 => item = Len(modules[at].code)
  PROVE  /\ Position' /\ Spaces' /\ Attributes' /\ Distinct' /\ Named' /\ Started'
         /\ Numbered' /\ Coded' /\ Built' /\ Outcome'
<1>1. /\ Position' /\ phase' \in {phase, phase + 1} /\ item' = 0
      /\ \A s \in 1 .. 13 : \A m \in Modules :
           Passed(s, m)' <=> Passed(s, m) \/ (s = phase /\ m = at)
      /\ \A m \in Modules : \A x \in DOMAIN modules[m].exports :
           ExportRead(m, x)' <=> ExportRead(m, x)
      /\ \A m \in Modules : \A b \in DOMAIN modules[m].code :
           BodyRead(m, b)' <=> BodyRead(m, b)
  <2>1. phase \in 1 .. 9 \cup {12} /\ Position
    BY DEF PInv
  <2> QED
    BY <2>1, NextModuleFacts
<1>2. /\ Modules' = Modules
      /\ \A m, k : Size(m, k)' = Size(m, k)
      /\ \A m, x : Means(m, x)' = Means(m, x) /\ NameOf(m, x)' = NameOf(m, x)
      /\ \A m, b : Code(m, b)' = Code(m, b)
  BY SameModules
<1>3. ASSUME NEW m \in Modules, NEW k \in Kinds PROVE SizeRead(m, k)' = SizeRead(m, k)
  <2>1. k + 3 \in {3, 4, 5}
    BY DEF Kinds, Function, Table, Memory
  <2>2. k + 3 \in 1 .. 13 /\ k + 3 # phase
    BY <2>1
  <2>3. Passed(k + 3, m)' <=> Passed(k + 3, m)
    BY <1>1, <2>2
  <2> QED
    BY <1>2, <2>3 DEF SizeRead
<1>4. Function \in Kinds /\ phase \in 1 .. 13
  BY DEF Kinds
<1>5. Spaces'
  <2> SUFFICES ASSUME phase' <= 11
               PROVE  /\ numbered' = [k \in Kinds |-> << >>]
                      /\ index_spaces' = [m \in Modules |-> [k \in Kinds |->
                           [i \in 1 .. SizeRead(m, k)' |-> Entity(m, k, i)]]]
    BY <1>2 DEF Spaces, Entity
  <2>1. phase <= 11
    BY <1>1
  <2>2. [m \in Modules |-> [k \in Kinds |-> [i \in 1 .. SizeRead(m, k)' |-> Entity(m, k, i)]]]
          = [m \in Modules |-> [k \in Kinds |-> [i \in 1 .. SizeRead(m, k) |-> Entity(m, k, i)]]]
    BY <1>3
  <2> QED
    BY <2>1, <2>2 DEF PInv, Spaces
<1>6. Attributes'
  BY <1>2, <1>3 DEF PInv, Attributes, Entity
<1>7. Distinct'
  BY <1>1, <1>2 DEF PInv, Distinct
<1>8. Named'
  <2>1. phase' <= 11 => phase <= 11
    BY <1>1
  <2> QED
    BY <1>1, <1>2, <2>1 DEF PInv, Named
<1>9. Started'
  <2>1. (phase' > 10 => phase > 10) /\ phase' # 11
    BY <1>1
  <2> QED
    BY <1>2, <2>1 DEF PInv, Started
<1>10. Numbered'
  <2>1. phase' > 11 => phase > 11
    BY <1>1
  <2> QED
    BY <1>2, <2>1, ZenonT(40) DEF PInv, Numbered, Leads, Entity
<1>11. Coded'
  <2>1. ASSUME NEW m \in Modules, NEW b \in DOMAIN modules[m].code, BodyRead(m, b)'
        PROVE  /\ modules[m].code[b].locals = 0
               /\ b <= Size(m, Function)'
               /\ \A n \in DOMAIN Code(m, b)' : Acceptable(Code(m, b)'[n], n, modules[m])
    BY <1>1, <1>2, <2>1 DEF PInv, Coded
  <2>2. ASSUME NEW m \in Modules, NEW i \in 1 .. SizeRead(m, Function)'
        PROVE  objects[Entity(m, Function, i)].code # None <=>
                 (i \in DOMAIN modules[m].code /\ BodyRead(m, i)')
    BY <1>1, <1>2, <1>3, <1>4 DEF PInv, Coded
  <2> QED
    BY <1>2, <2>1, <2>2 DEF Coded, Entity
<1>12. Built'
  <2>1. ASSUME phase' = 13 PROVE Len(numbered[Function]) \in Nat
    <3>1. phase > 11
      BY <1>1, <2>1
    <3> QED
      BY <1>4, <3>1 DEF PInv, Numbered
  <2> QED
    BY <1>1, <2>1 DEF Built
<1>13. Outcome'
  BY <1>2 DEF Outcome
<1> QED
  BY <1>1, <1>5, <1>6, <1>7, <1>8, <1>9, <1>10, <1>11, <1>12, <1>13

LEMMA CheckedKeeps ==
  ASSUME PInv, UNCHANGED modules,
         \A s \in 1 .. 13 : \A m \in Modules :
           Passed(s, m)' <=> Passed(s, m) \/ (s = phase /\ m = at),
         DOMAIN function_signatures' = Modules,
         \A m \in Modules : ~(phase = 1 /\ m = at) => function_signatures'[m] = function_signatures[m],
         phase = 1 => Len(function_signatures'[at]) = Len(modules[at].types),
         phase = 2 => modules[at].imports = << >>,
         phase = 3 => \A i \in DOMAIN modules[at].functions :
                        modules[at].functions[i] < Len(modules[at].types),
         phase = 6 => modules[at].globals = 0,
         phase = 7 => modules[at].elements = 0,
         phase = 8 => modules[at].data = 0
  PROVE  Checked'
<1>1. Modules' = Modules
  BY DEF Modules
<1>2. ASSUME NEW m \in Modules
      PROVE  /\ Passed(1, m)' => Len(function_signatures'[m]) = Len(modules[m].types)
             /\ Passed(2, m)' => modules[m].imports = << >>
             /\ Passed(3, m)' => \A i \in DOMAIN modules[m].functions :
                                    modules[m].functions[i] < Len(modules[m].types)
             /\ Passed(6, m)' => modules[m].globals = 0
             /\ Passed(7, m)' => modules[m].elements = 0
             /\ Passed(8, m)' => modules[m].data = 0
  <2>1. \A s \in {1, 2, 3, 6, 7, 8} : Passed(s, m)' <=> Passed(s, m) \/ (s = phase /\ m = at)
    OBVIOUS
  <2>2. CASE m = at /\ phase = 1
    BY <2>1, <2>2 DEF PInv, Checked
  <2>3. CASE ~(m = at /\ phase = 1)
    <3>1. function_signatures'[m] = function_signatures[m]
      BY <2>3
    <3> QED
      BY <2>1, <3>1 DEF PInv, Checked
  <2> QED
    BY <2>2, <2>3
<1> QED
  BY <1>1, <1>2 DEF Checked

(* The objects of a section are made, one after another.                   *)
LEMMA ExtendKeeps ==
  ASSUME PInv, NextModule, status = "linking",
         NEW kind \in Kinds, phase = kind + 3,
         NEW attributes, DOMAIN attributes = 1 .. Size(at, kind), Len(attributes) = Size(at, kind),
         \A i \in 1 .. Size(at, kind) :
           /\ "name" \in DOMAIN attributes[i] /\ attributes[i].name = None
           /\ kind = Function =>
                "code" \in DOMAIN attributes[i] /\ attributes[i].code = None,
         Extend(kind, attributes),
         UNCHANGED << modules, exports, start_function, numbered, status >>
  PROVE  /\ Position' /\ Spaces' /\ Attributes' /\ Distinct' /\ Named' /\ Started'
         /\ Numbered' /\ Coded' /\ Built' /\ Outcome'
         /\ \A s \in 1 .. 13 : \A m \in Modules :
              Passed(s, m)' <=> Passed(s, m) \/ (s = phase /\ m = at)
<1> DEFINE N == Size(at, kind)
           made == [i \in 1 .. N |-> Entity(at, kind, i)]
<1>0. /\ phase \in {3, 4, 5} /\ phase \in 1 .. 13 /\ kind + 3 \in 1 .. 13
      /\ \A k \in Kinds : k + 3 \in 1 .. 13 /\ (k + 3 = phase <=> k = kind)
      /\ Function \in Kinds
  BY DEF Kinds, Function, Table, Memory
<1>1. /\ Position' /\ phase' \in {phase, phase + 1} /\ item' = 0
      /\ \A s \in 1 .. 13 : \A m \in Modules :
           Passed(s, m)' <=> Passed(s, m) \/ (s = phase /\ m = at)
      /\ \A m \in Modules : \A x \in DOMAIN modules[m].exports :
           ExportRead(m, x)' <=> ExportRead(m, x)
      /\ \A m \in Modules : \A b \in DOMAIN modules[m].code :
           BodyRead(m, b)' <=> BodyRead(m, b)
  <2>1. phase \in 1 .. 9 \cup {12} /\ Position /\ phase # 9 /\ phase # 12
    BY <1>0 DEF PInv
  <2> QED
    BY <2>1, NextModuleFacts
<1>2. /\ Modules' = Modules
      /\ \A m, k : Size(m, k)' = Size(m, k)
      /\ \A m, x : Means(m, x)' = Means(m, x) /\ NameOf(m, x)' = NameOf(m, x)
      /\ \A m, b : Code(m, b)' = Code(m, b)
  BY SameModules
<1>3. /\ at \in Modules /\ N \in Nat /\ ~Passed(kind + 3, at) /\ SizeRead(at, kind) = 0
  <2>1. at \in Modules /\ N \in Nat
    BY SizeFacts DEF PInv, Position
  <2>2. ~Passed(kind + 3, at)
    BY <1>0, <2>1 DEF Passed, Modules
  <2> QED
    BY <2>1, <2>2 DEF SizeRead
<1>4. ASSUME NEW m \in Modules, NEW k \in Kinds
      PROVE  /\ m = at /\ k = kind => SizeRead(m, k)' = N
             /\ ~(m = at /\ k = kind) => SizeRead(m, k)' = SizeRead(m, k)
  <2>1. Passed(k + 3, m)' <=> Passed(k + 3, m) \/ (k = kind /\ m = at)
    BY <1>0, <1>1
  <2> QED
    BY <1>2, <1>3, <2>1 DEF SizeRead
<1>5. /\ phase <= 11 /\ phase' <= 11 /\ phase' < 9
      /\ numbered = [k \in Kinds |-> << >>]
      /\ index_spaces = [m \in Modules |-> [k \in Kinds |->
                           [i \in 1 .. SizeRead(m, k) |-> Entity(m, k, i)]]]
  BY <1>0, <1>1 DEF PInv, Spaces
<1> HIDE DEF N
<1>6. index_spaces[at][kind] = << >> /\ Len(index_spaces[at][kind]) = 0
  <2>1. index_spaces[at][kind] = [i \in 1 .. 0 |-> Entity(at, kind, i)]
    BY <1>3, <1>5
  <2>2. [i \in 1 .. 0 |-> Entity(at, kind, i)] = << >>
    OBVIOUS
  <2> QED
    BY <2>1, <2>2
<1>7. /\ index_spaces' = [index_spaces EXCEPT ![at][kind] = made]
      /\ objects' = [e \in DOMAIN objects \cup {made[i] : i \in 1 .. N} |->
           IF e \in DOMAIN objects THEN objects[e] ELSE attributes[e[3]]]
  <2> DEFINE new == [i \in 1 .. Len(attributes) |-> Entity(at, kind, Len(index_spaces[at][kind]) + i)]
  <2>1. new = made
    <3>1. \A i \in 1 .. N : 0 + i = i
      BY <1>3
    <3>2. Len(attributes) = N
      BY DEF N
    <3>3. \A i \in 1 .. N : Entity(at, kind, Len(index_spaces[at][kind]) + i) = Entity(at, kind, i)
      BY <1>6, <3>1
    <3> QED
      BY <3>2, <3>3
  <2>2. << >> \o made = made
    <3>1. made \in Seq({made[i] : i \in 1 .. N})
      BY <1>3
    <3> HIDE DEF made
    <3> QED
      BY <3>1
  <2>3. /\ index_spaces' = [index_spaces EXCEPT ![at][kind] = index_spaces[at][kind] \o new]
        /\ objects' = [e \in DOMAIN objects \cup {new[i] : i \in DOMAIN new} |->
             IF e \in DOMAIN objects THEN objects[e]
             ELSE attributes[e[3] - Len(index_spaces[at][kind])]]
    BY DEF Extend
  <2>4. DOMAIN made = 1 .. N
    OBVIOUS
  <2> HIDE DEF new, made
  <2>5. index_spaces' = [index_spaces EXCEPT ![at][kind] = made]
    BY <1>6, <2>1, <2>2, <2>3
  <2>6. objects' = [e \in DOMAIN objects \cup {made[i] : i \in 1 .. N} |->
             IF e \in DOMAIN objects THEN objects[e] ELSE attributes[e[3] - 0]]
    BY <1>6, <2>1, <2>3, <2>4
  <2>7. \A i \in 1 .. N : made[i][3] = i /\ i - 0 = i
    BY <1>3 DEF made, Entity
  <2>8. [e \in DOMAIN objects \cup {made[i] : i \in 1 .. N} |->
             IF e \in DOMAIN objects THEN objects[e] ELSE attributes[e[3] - 0]]
        = [e \in DOMAIN objects \cup {made[i] : i \in 1 .. N} |->
             IF e \in DOMAIN objects THEN objects[e] ELSE attributes[e[3]]]
    BY <2>7
  <2> QED
    BY <2>5, <2>6, <2>8
<1>8. ASSUME NEW e \in DOMAIN objects'
      PROVE  \/ e \in DOMAIN objects /\ objects'[e] = objects[e]
             \/ \E i \in 1 .. N : e = Entity(at, kind, i) /\ objects'[e] = attributes[i]
  <2>1. CASE e \in DOMAIN objects
    BY <1>7, <2>1
  <2>2. CASE e \notin DOMAIN objects
    <3>1. PICK i \in 1 .. N : e = made[i]
      BY <1>7, <2>2
    <3>2. e = Entity(at, kind, i) /\ e[3] = i
      BY <3>1 DEF Entity
    <3> QED
      BY <1>7, <2>2, <3>2
  <2> QED
    BY <2>1, <2>2
<1>9. ASSUME NEW i \in 1 .. N
      PROVE  /\ Entity(at, kind, i) \in DOMAIN objects'
             /\ objects'[Entity(at, kind, i)] = attributes[i]
  <2>1. Entity(at, kind, i) \notin DOMAIN objects
    <3> SUFFICES ASSUME Entity(at, kind, i) \in DOMAIN objects PROVE FALSE
      OBVIOUS
    <3>0. PICK m \in Modules, k \in Kinds :
            \E j \in 1 .. SizeRead(m, k) : Entity(at, kind, i) = Entity(m, k, j)
      BY DEF PInv, Attributes
    <3>1. PICK j \in 1 .. SizeRead(m, k) : Entity(at, kind, i) = Entity(m, k, j)
      BY <3>0
    <3>2. m = at /\ k = kind
      BY <3>1 DEF Entity
    <3> QED
      BY <1>3, <3>1, <3>2
  <2>2. Entity(at, kind, i) \in DOMAIN objects \cup {made[j] : j \in 1 .. N} /\ Entity(at, kind, i)[3] = i
    BY DEF Entity
  <2> QED
    BY <1>7, <2>1, <2>2
<1>10. \A e \in DOMAIN objects : e \in DOMAIN objects' /\ objects'[e] = objects[e]
  BY <1>7
<1>11. Spaces'
  <2>1. index_spaces' = [m \in Modules |-> [k \in Kinds |->
                           [i \in 1 .. SizeRead(m, k)' |-> Entity(m, k, i)]]]
    <3>1. ASSUME NEW m \in Modules, NEW k \in Kinds
          PROVE  index_spaces'[m][k] = [i \in 1 .. SizeRead(m, k)' |-> Entity(m, k, i)]
      BY <1>3, <1>4, <1>5, <1>7
    <3>2. /\ DOMAIN index_spaces' = Modules
          /\ \A m \in Modules : DOMAIN (index_spaces'[m]) = Kinds
      BY <1>5, <1>7
    <3>3. /\ index_spaces' = [m \in Modules |-> index_spaces'[m]]
          /\ \A m \in Modules : index_spaces'[m] = [k \in Kinds |-> index_spaces'[m][k]]
      BY <1>5, <1>7
    <3> QED
      BY <3>1, <3>3
  <2> QED
    BY <1>2, <1>5, <2>1 DEF Spaces, Entity
<1>12. Attributes'
  <2>1. ASSUME NEW e \in DOMAIN objects'
        PROVE  /\ \E m \in Modules : \E k \in Kinds : \E i \in 1 .. SizeRead(m, k)' : e = Entity(m, k, i)
               /\ "name" \in DOMAIN objects'[e]
               /\ e[2] = Function => "code" \in DOMAIN objects'[e]
    <3>1. CASE e \in DOMAIN objects /\ objects'[e] = objects[e]
      <4>0. PICK m \in Modules, k \in Kinds : \E i \in 1 .. SizeRead(m, k) : e = Entity(m, k, i)
        BY <3>1 DEF PInv, Attributes
      <4>1. PICK i \in 1 .. SizeRead(m, k) : e = Entity(m, k, i)
        BY <4>0
      <4>2. i \in 1 .. SizeRead(m, k)'
        BY <1>3, <1>4
      <4> QED
        BY <3>1, <4>1, <4>2 DEF PInv, Attributes
    <3>2. CASE \E i \in 1 .. N : e = Entity(at, kind, i) /\ objects'[e] = attributes[i]
      <4>1. PICK i \in 1 .. N : e = Entity(at, kind, i) /\ objects'[e] = attributes[i]
        BY <3>2
      <4>2. PICK m \in Modules : m = at
        BY <1>3
      <4>3. e = Entity(m, kind, i) /\ e[2] = kind /\ i \in 1 .. SizeRead(m, kind)'
        BY <1>3, <1>4, <4>1, <4>2 DEF Entity
      <4>4. /\ "name" \in DOMAIN objects'[e]
            /\ kind = Function => "code" \in DOMAIN objects'[e]
        BY <4>1 DEF N
      <4> QED
        BY <4>3, <4>4
    <3> QED
      BY <1>8, <3>1, <3>2
  <2>2. ASSUME NEW m \in Modules, NEW k \in Kinds, NEW i \in 1 .. SizeRead(m, k)'
        PROVE  Entity(m, k, i) \in DOMAIN objects'
    <3>1. CASE m = at /\ k = kind
      BY <1>4, <1>9, <3>1
    <3>2. CASE ~(m = at /\ k = kind)
      BY <1>4, <1>10, <3>2 DEF PInv, Attributes
    <3> QED
      BY <3>1, <3>2
  <2> QED
    BY <1>2, <2>1, <2>2 DEF Attributes, Entity
<1>13. Distinct'
  BY <1>1, <1>2 DEF PInv, Distinct
<1>14. \A m \in Modules : \A x \in DOMAIN modules[m].exports : ~ExportRead(m, x)
  BY <1>0 DEF ExportRead, Passed
<1>15. Named'
  <2>1. \A f \in DOMAIN exports : FALSE
    BY <1>5, <1>14 DEF PInv, Named
  <2>2. ASSUME NEW e \in DOMAIN objects' PROVE objects'[e].name = None
    <3>1. CASE e \in DOMAIN objects /\ objects'[e] = objects[e]
      BY <1>5, <1>14, <3>1 DEF PInv, Named
    <3>2. CASE \E i \in 1 .. N : e = Entity(at, kind, i) /\ objects'[e] = attributes[i]
      BY <3>2 DEF N
    <3> QED
      BY <1>8, <3>1, <3>2
  <2>3. None' = None
    BY DEF None
  <2> QED
    BY <1>1, <1>2, <1>14, <2>1, <2>2, <2>3 DEF Named
<1>16. Started' /\ Numbered' /\ Built'
  BY <1>1, <1>0 DEF Started, Numbered, Built
<1>17. Coded'
  <2>1. \A m \in Modules : \A b : ~BodyRead(m, b)
    BY <1>0 DEF BodyRead, Passed
  <2>2. \A m \in Modules : \A b : ~BodyRead(m, b)'
    BY <1>0, <1>1 DEF BodyRead, Passed
  <2>3. ASSUME NEW m \in Modules, NEW i \in 1 .. SizeRead(m, Function)'
        PROVE  objects'[Entity(m, Function, i)].code = None
    <3>1. CASE m = at /\ Function = kind
      <4>1. i \in 1 .. N
        BY <1>4, <3>1
      <4> QED
        BY <1>9, <3>1, <4>1 DEF N
    <3>2. CASE ~(m = at /\ Function = kind)
      <4>1. i \in 1 .. SizeRead(m, Function)
        BY <1>0, <1>4, <3>2
      <4>2. Entity(m, Function, i) \in DOMAIN objects
        BY <1>0, <4>1 DEF PInv, Attributes
      <4>3. objects[Entity(m, Function, i)].code = None
        BY <2>1, <4>1 DEF PInv, Coded
      <4> QED
        BY <1>10, <4>2, <4>3
    <3> QED
      BY <3>1, <3>2
  <2> QED
    BY <1>2, <2>2, <2>3 DEF Coded, Entity, None
<1>18. Outcome'
  BY DEF Outcome
<1> QED
  BY <1>1, <1>11, <1>12, <1>13, <1>15, <1>16, <1>17, <1>18

------------------------------------------------------------------------------
(* Linkable, section by section.                                           *)

Legal(m) ==
  /\ modules[m].imports = << >>
  /\ modules[m].globals = 0
  /\ modules[m].elements = 0
  /\ modules[m].data = 0
  /\ \A i \in DOMAIN modules[m].functions : modules[m].functions[i] < Len(modules[m].types)
LegalExports(m) ==
  \A x \in DOMAIN modules[m].exports :
    /\ modules[m].exports[x].kind \in Kinds
    /\ modules[m].exports[x].index < Size(m, modules[m].exports[x].kind)
    /\ \A y \in DOMAIN modules[m].exports : y # x =>
         NameOf(m, y) # NameOf(m, x) /\ Means(m, y) # Means(m, x)
LegalCode(m) ==
  /\ Len(modules[m].code) = Size(m, Function)
  /\ \A b \in DOMAIN modules[m].code :
       /\ modules[m].code[b].locals = 0
       /\ \A n \in DOMAIN Code(m, b) : Acceptable(Code(m, b)[n], n, modules[m])
LegalStart ==
  /\ modules[1].start # None
  /\ modules[1].start[1] < Size(1, Function)

LEMMA LinkableIs ==
  ASSUME modules \in Programs
  PROVE  Linkable <=>
           LegalStart /\ \A m \in Modules : Legal(m) /\ LegalExports(m) /\ LegalCode(m)
<1> DEFINE Count(m, k) ==
             CASE k = Function -> Len(modules[m].functions)
               [] k = Table    -> Len(modules[m].tables)
               [] k = Memory   -> Len(modules[m].memories)
               [] OTHER        -> 0
           Exports(m) ==
             /\ \A x \in DOMAIN modules[m].exports :
                  modules[m].exports[x].index < Count(m, modules[m].exports[x].kind)
             /\ \A x, y \in DOMAIN modules[m].exports : x # y =>
                  /\ modules[m].exports[x].field # modules[m].exports[y].field
                  /\ << modules[m].exports[x].kind, modules[m].exports[x].index >> #
                       << modules[m].exports[y].kind, modules[m].exports[y].index >>
           Sums(m) ==
             /\ modules[m].imports = << >>
             /\ modules[m].globals + modules[m].elements + modules[m].data = 0
             /\ \A i \in DOMAIN modules[m].functions :
                  modules[m].functions[i] < Len(modules[m].types)
           Bodies(m) ==
             /\ Len(modules[m].code) = Len(modules[m].functions)
             /\ \A b \in DOMAIN modules[m].code :
                  /\ modules[m].code[b].locals = 0
                  /\ \A n \in DOMAIN modules[m].code[b].instructions :
                       Acceptable(modules[m].code[b].instructions[n], n, modules[m])
           Start == modules[1].start # None /\ modules[1].start[1] < Len(modules[1].functions)
<1>1. Linkable <=> Start /\ \A m \in DOMAIN modules : Sums(m) /\ Exports(m) /\ Bodies(m)
  BY DEF Linkable
<1>2. DOMAIN modules = Modules /\ 1 \in Modules
  BY ModulesFacts DEF Modules
<1>3. Start <=> LegalStart
  BY <1>2, SizeFacts DEF LegalStart
<1>4. ASSUME NEW m \in Modules PROVE Sums(m) <=> Legal(m)
  <2>1. modules[m].globals \in Nat /\ modules[m].elements \in Nat /\ modules[m].data \in Nat
    BY ModulesFacts DEF IsModule
  <2> QED
    BY <2>1 DEF Legal
<1>5. ASSUME NEW m \in Modules PROVE Exports(m) <=> LegalExports(m)
  <2>1. ASSUME NEW x \in DOMAIN modules[m].exports, NEW k, k = modules[m].exports[x].kind
        PROVE  modules[m].exports[x].index < Count(m, k) <=>
                 k \in Kinds /\ modules[m].exports[x].index < Size(m, k)
    <3>1. modules[m].exports[x].index \in Nat
      BY ExportFacts
    <3>2. CASE k \in Kinds
      <4>1. Count(m, k) = Size(m, k)
        BY <3>2 DEF Kinds, Size, Function, Table, Memory
      <4> QED
        BY <3>2, <4>1
    <3>3. CASE k \notin Kinds
      <4>1. Count(m, k) = 0
        BY <3>3 DEF Kinds
      <4> QED
        BY <3>1, <3>3, <4>1
    <3> QED
      BY <3>2, <3>3
  <2> HIDE DEF Count
  <2>2. ASSUME NEW x \in DOMAIN modules[m].exports, NEW y \in DOMAIN modules[m].exports
        PROVE  /\ modules[m].exports[x].field = modules[m].exports[y].field <=>
                    NameOf(m, x) = NameOf(m, y)
               /\ << modules[m].exports[x].kind, modules[m].exports[x].index >> =
                    << modules[m].exports[y].kind, modules[m].exports[y].index >> <=>
                    Means(m, x) = Means(m, y)
    <3>1. modules[m].exports[x].index \in Nat /\ modules[m].exports[y].index \in Nat
      BY ExportFacts
    <3> QED
      BY <3>1 DEF NameOf, Means, Entity
  <2>3. \A x \in DOMAIN modules[m].exports :
          modules[m].exports[x].index < Count(m, modules[m].exports[x].kind) <=>
            /\ modules[m].exports[x].kind \in Kinds
            /\ modules[m].exports[x].index < Size(m, modules[m].exports[x].kind)
    BY <2>1
  <2> QED
    BY <2>2, <2>3 DEF LegalExports
<1>6. ASSUME NEW m \in Modules PROVE Bodies(m) <=> LegalCode(m)
  BY SizeFacts DEF LegalCode, Code
<1> HIDE DEF Sums, Exports, Bodies, Start
<1> QED
  BY <1>1, <1>2, <1>3, <1>4, <1>5, <1>6

(* PInv is about these variables only.                                     *)
LEMMA UnchangedKeeps ==
  ASSUME PInv, UNCHANGED << modules, phase, at, item, function_signatures, index_spaces,
                            objects, exports, start_function, numbered >>,
         Outcome'
  PROVE  PInv'
<1>1. /\ Modules' = Modules
      /\ \A m, k : Size(m, k)' = Size(m, k)
      /\ \A m, x : Means(m, x)' = Means(m, x) /\ NameOf(m, x)' = NameOf(m, x)
      /\ \A m, b : Code(m, b)' = Code(m, b)
  BY SameModules
<1>2. \A s, m : Passed(s, m)' <=> Passed(s, m)
  BY DEF Passed
<1>3. /\ \A m, k : SizeRead(m, k)' = SizeRead(m, k)
      /\ \A m, x : ExportRead(m, x)' <=> ExportRead(m, x)
      /\ \A m, b : BodyRead(m, b)' <=> BodyRead(m, b)
  BY <1>1, <1>2 DEF SizeRead, ExportRead, BodyRead
<1>4. Position'
  BY <1>1, <1>2 DEF PInv, Position
<1>5. Checked'
  BY <1>1, <1>2 DEF PInv, Checked
<1>6. Spaces'
  BY <1>1, <1>2, <1>3 DEF PInv, Spaces, Entity
<1>7. Attributes'
  BY <1>1, <1>2, <1>3 DEF PInv, Attributes, Entity
<1>8. Distinct'
  BY <1>1, <1>2, <1>3 DEF PInv, Distinct
<1>9. Named'
  BY <1>1, <1>2, <1>3 DEF PInv, Named
<1>10. Started'
  BY <1>1, <1>2, <1>3 DEF PInv, Started
<1>11. Numbered'
  BY <1>1, <1>2, <1>3, SMTT(20) DEF PInv, Numbered, Leads, Entity
<1>12. Coded'
  BY <1>1, <1>2, <1>3 DEF PInv, Coded, Entity
<1>13. Built'
  BY <1>1, <1>2, <1>3 DEF PInv, Built
<1> QED
  BY <1>4, <1>5, <1>6, <1>7, <1>8, <1>9, <1>10, <1>11, <1>12, <1>13 DEF PInv

(* An exception is raised for a program that cannot be linked.             *)
LEMMA RaiseKeeps ==
  ASSUME PInv, NEW error, error \notin {"linking", "created"}, Raise(error), ~Linkable
  PROVE  PInv'
<1>1. /\ UNCHANGED << modules, phase, at, item, function_signatures, index_spaces, objects,
                      exports, start_function, numbered >>
      /\ status' = error
  BY DEF Raise
<1>2. Linkable' <=> Linkable
  BY <1>1, SameModules
<1>3. Outcome'
  BY <1>1, <1>2 DEF Outcome
<1> QED
  BY <1>1, <1>3, UnchangedKeeps

LEMMA SectionKeeps ==
  ASSUME PInv, NextModule, phase \in {1, 2, 6, 7, 8, 9, 12}, status = "linking",
         UNCHANGED << modules, index_spaces, objects, exports, start_function, numbered,
                      status >>,
         phase = 9 => item = Len(modules[at].exports),
         phase = 12 => item = Len(modules[at].code),
         DOMAIN function_signatures' = Modules,
         \A m \in Modules : ~(phase = 1 /\ m = at) => function_signatures'[m] = function_signatures[m],
         phase = 1 => Len(function_signatures'[at]) = Len(modules[at].types),
         phase = 2 => modules[at].imports = << >>,
         phase = 6 => modules[at].globals = 0,
         phase = 7 => modules[at].elements = 0,
         phase = 8 => modules[at].data = 0
  PROVE  PInv'
<1>1. \A s \in 1 .. 13 : \A m \in Modules :
        Passed(s, m)' <=> Passed(s, m) \/ (s = phase /\ m = at)
  <2>1. phase \in 1 .. 9 \cup {12} /\ Position
    BY DEF PInv
  <2> QED
    BY <2>1, NextModuleFacts
<1>2. Checked'
  <2>1. phase # 3
    OBVIOUS
  <2> QED
    BY <1>1, <2>1, CheckedKeeps
<1>3. /\ Position' /\ Spaces' /\ Attributes' /\ Distinct' /\ Named' /\ Started'
      /\ Numbered' /\ Coded' /\ Built' /\ Outcome'
  BY QuietKeeps
<1> QED
  BY <1>2, <1>3 DEF PInv

LEMMA ReadingFacts ==
  ASSUME PInv, NEW section, Reading(section)
  PROVE  /\ status = "linking" /\ phase \in 1 .. 13 /\ Phases[phase] = section
         /\ at \in Modules /\ modules \in Programs
BY DEF PInv, Position, Reading

LEMMA ReadTypeSectionKeeps ==
  ASSUME PInv, ReadTypeSection
  PROVE  PInv'
<1>1. phase = 1 /\ status = "linking" /\ at \in Modules /\ modules \in Programs
  BY ReadingFacts, PhaseFacts DEF ReadTypeSection
<1>2. IsList(modules[at].types)
  BY <1>1, ModulesFacts DEF IsModule
<1>3. PICK ids : /\ function_signatures' = [function_signatures EXCEPT ![at] = ids]
                 /\ Len(ids) = Len(modules[at].types)
  <2> DEFINE ids == [i \in DOMAIN modules[at].types |-> IdOf(signatures', modules[at].types[i])]
             n == Len(modules[at].types)
  <2>1. n \in Nat /\ DOMAIN modules[at].types = 1 .. n
    BY <1>2, ListFacts
  <2>2. Len(ids) = n
    <3> HIDE DEF n
    <3>1. ids = [i \in 1 .. n |-> IdOf(signatures', modules[at].types[i])]
      BY <2>1
    <3> QED
      BY <2>1, <3>1
  <2>3. function_signatures' = [function_signatures EXCEPT ![at] = ids]
    BY DEF ReadTypeSection, Module
  <2> QED
    BY <2>2, <2>3
<1>4. /\ DOMAIN function_signatures' = Modules
      /\ \A m \in Modules : ~(m = at) => function_signatures'[m] = function_signatures[m]
      /\ function_signatures'[at] = ids
  BY <1>1, <1>3 DEF PInv, Checked
<1>5. /\ NextModule
      /\ UNCHANGED << modules, index_spaces, objects, exports, start_function, numbered, status >>
  BY DEF ReadTypeSection
<1> QED
  BY <1>1, <1>3, <1>4, <1>5, SectionKeeps

(* A section that makes nothing, and that says nothing of the signatures.  *)
LEMMA PassingKeeps ==
  ASSUME PInv, NextModule, phase \in {2, 6, 7, 8, 9, 12}, status = "linking",
         UNCHANGED << modules, function_signatures, index_spaces, objects, exports,
                      start_function, numbered, status >>,
         phase = 9 => item = Len(modules[at].exports),
         phase = 12 => item = Len(modules[at].code),
         phase = 2 => modules[at].imports = << >>,
         phase = 6 => modules[at].globals = 0,
         phase = 7 => modules[at].elements = 0,
         phase = 8 => modules[at].data = 0
  PROVE  PInv'
<1>1. DOMAIN function_signatures' = Modules /\ phase # 1 /\ phase \in {1, 2, 6, 7, 8, 9, 12}
  BY DEF PInv, Checked
<1> QED
  BY <1>1, SectionKeeps

LEMMA ReadImportSectionKeeps ==
  ASSUME PInv, ReadImportSection
  PROVE  PInv'
<1>1. phase = 2 /\ status = "linking"
  BY ReadingFacts, PhaseFacts DEF ReadImportSection
<1> QED
  BY <1>1, PassingKeeps DEF ReadImportSection, Module

LEMMA EndExportsKeeps ==
  ASSUME PInv, EndExports
  PROVE  PInv'
<1>1. phase = 9 /\ status = "linking"
  BY ReadingFacts, PhaseFacts DEF EndExports
<1> QED
  BY <1>1, PassingKeeps DEF EndExports, Module

LEMMA EndCodeKeeps ==
  ASSUME PInv, EndCode
  PROVE  PInv'
<1>1. phase = 12 /\ status = "linking"
  BY ReadingFacts, PhaseFacts DEF EndCode
<1> QED
  BY <1>1, PassingKeeps DEF EndCode, Module

(* What is raised for a section that breaks a rule of Linkable.            *)
LEMMA IllegalRaises ==
  ASSUME PInv, NEW error, error \notin {"linking", "created"}, Raise(error),
         ~(LegalStart /\ Legal(at) /\ LegalExports(at) /\ LegalCode(at))
  PROVE  PInv'
<1>1. modules \in Programs /\ at \in Modules
  BY DEF PInv, Position
<1>2. ~Linkable
  BY <1>1, LinkableIs
<1> QED
  BY <1>2, RaiseKeeps

LEMMA ImportRaisesKeeps ==
  ASSUME PInv, ImportRaises
  PROVE  PInv'
<1> DEFINE error == import_error(Head(Module.imports))
<1>1. Raise(error) /\ modules[at].imports # << >>
  BY DEF ImportRaises, Module
<1>2. error \notin {"linking", "created"}
  BY DEF import_error
<1>3. ~Legal(at)
  BY <1>1 DEF Legal
<1> HIDE DEF error
<1> QED
  BY <1>1, <1>2, <1>3, IllegalRaises

LEMMA SectionRaisesKeeps ==
  ASSUME PInv, NEW section \in {"Global", "Element", "Data"}, NEW count,
         SectionRaises(section, count), count > 0 => ~Legal(at)
  PROVE  PInv'
<1>1. section_error[section] \notin {"linking", "created"}
  BY DEF section_error
<1>2. Raise(section_error[section]) /\ ~Legal(at)
  BY DEF SectionRaises
<1> QED
  BY <1>1, <1>2, IllegalRaises

LEMMA ReadGlobalSectionKeeps ==
  ASSUME PInv, ReadGlobalSection
  PROVE  PInv'
<1>1. CASE ReadEmptySection("Global", Module.globals)
  <2>1. phase = 6 /\ status = "linking"
    BY <1>1, ReadingFacts, PhaseFacts DEF ReadEmptySection
  <2> QED
    BY <1>1, <2>1, PassingKeeps DEF ReadEmptySection, Module
<1>2. CASE SectionRaises("Global", Module.globals)
  <2>1. Module.globals > 0 => ~Legal(at)
    BY DEF Legal, Module
  <2> QED
    BY <1>2, <2>1, SectionRaisesKeeps
<1> QED
  BY <1>1, <1>2 DEF ReadGlobalSection

LEMMA ReadElementSectionKeeps ==
  ASSUME PInv, ReadElementSection
  PROVE  PInv'
<1>1. CASE ReadEmptySection("Element", Module.elements)
  <2>1. phase = 7 /\ status = "linking"
    BY <1>1, ReadingFacts, PhaseFacts DEF ReadEmptySection
  <2> QED
    BY <1>1, <2>1, PassingKeeps DEF ReadEmptySection, Module
<1>2. CASE SectionRaises("Element", Module.elements)
  <2>1. Module.elements > 0 => ~Legal(at)
    BY DEF Legal, Module
  <2> QED
    BY <1>2, <2>1, SectionRaisesKeeps
<1> QED
  BY <1>1, <1>2 DEF ReadElementSection

LEMMA ReadDataSectionKeeps ==
  ASSUME PInv, ReadDataSection
  PROVE  PInv'
<1>1. CASE ReadEmptySection("Data", Module.data)
  <2>1. phase = 8 /\ status = "linking"
    BY <1>1, ReadingFacts, PhaseFacts DEF ReadEmptySection
  <2> QED
    BY <1>1, <2>1, PassingKeeps DEF ReadEmptySection, Module
<1>2. CASE SectionRaises("Data", Module.data)
  <2>1. Module.data > 0 => ~Legal(at)
    BY DEF Legal, Module
  <2> QED
    BY <1>2, <2>1, SectionRaisesKeeps
<1> QED
  BY <1>1, <1>2 DEF ReadDataSection

(* A section whose objects are made, all of them.                          *)
LEMMA MadeKeeps ==
  ASSUME PInv, NextModule, status = "linking",
         NEW kind \in Kinds, phase = kind + 3,
         NEW attributes, DOMAIN attributes = 1 .. Size(at, kind), Len(attributes) = Size(at, kind),
         \A i \in 1 .. Size(at, kind) :
           /\ "name" \in DOMAIN attributes[i] /\ attributes[i].name = None
           /\ kind = Function =>
                "code" \in DOMAIN attributes[i] /\ attributes[i].code = None,
         Extend(kind, attributes),
         UNCHANGED << modules, function_signatures, exports, start_function, numbered, status >>,
         kind = Function => \A i \in DOMAIN modules[at].functions :
                              modules[at].functions[i] < Len(modules[at].types)
  PROVE  PInv'
<1>1. /\ Position' /\ Spaces' /\ Attributes' /\ Distinct' /\ Named' /\ Started'
      /\ Numbered' /\ Coded' /\ Built' /\ Outcome'
      /\ \A s \in 1 .. 13 : \A m \in Modules :
           Passed(s, m)' <=> Passed(s, m) \/ (s = phase /\ m = at)
  BY ExtendKeeps
<1>2. phase \notin {1, 2, 6, 7, 8} /\ (phase = 3 => kind = Function)
  BY DEF Kinds, Function, Table, Memory
<1>3. DOMAIN function_signatures' = Modules
  BY DEF PInv, Checked
<1>4. Checked'
  BY <1>1, <1>2, <1>3, CheckedKeeps
<1> QED
  BY <1>1, <1>4 DEF PInv

LEMMA ReadFunctionSectionKeeps ==
  ASSUME PInv, ReadFunctionSection
  PROVE  PInv'
<1>1. /\ phase = 3 /\ status = "linking" /\ at \in Modules /\ modules \in Programs
      /\ Function \in Kinds /\ phase = Function + 3
  BY ReadingFacts, PhaseFacts DEF ReadFunctionSection, Kinds, Function
<1>2. IsModule(modules[at]) /\ Size(at, Function) = Len(modules[at].functions)
  BY <1>1, ModulesFacts, SizeFacts
<1> DEFINE n == Size(at, Function)
           attributes == [i \in DOMAIN Module.functions |-> FunctionType(Module.functions[i])]
<1>3. n \in Nat /\ DOMAIN modules[at].functions = 1 .. n
  BY <1>2 DEF IsModule
<1>4. DOMAIN attributes = 1 .. n /\ Len(attributes) = n
  <2> HIDE DEF n
  <2>1. attributes = [i \in 1 .. n |-> FunctionType(Module.functions[i])]
    BY <1>3 DEF Module
  <2> QED
    BY <1>3, <2>1
<1>5. \A i \in 1 .. n : /\ "name" \in DOMAIN attributes[i] /\ attributes[i].name = None
                        /\ "code" \in DOMAIN attributes[i] /\ attributes[i].code = None
  BY <1>3 DEF FunctionType, Module
<1>6. \A i \in DOMAIN modules[at].functions : modules[at].functions[i] < Len(modules[at].types)
  <2>1. Passed(1, at)
    BY <1>1 DEF Passed
  <2>2. Len(function_signatures[at]) = Len(modules[at].types)
    BY <1>1, <2>1 DEF PInv, Checked
  <2> QED
    BY <2>2 DEF ReadFunctionSection, InRange, Module
<1>7. /\ NextModule /\ Extend(Function, attributes)
      /\ UNCHANGED << modules, function_signatures, exports, start_function, numbered, status >>
  BY DEF ReadFunctionSection
<1> HIDE DEF attributes
<1> QED
  BY <1>1, <1>4, <1>5, <1>6, <1>7, MadeKeeps

LEMMA FunctionRaisesKeeps ==
  ASSUME PInv, FunctionRaises
  PROVE  PInv'
<1>1. phase = 3 /\ at \in Modules /\ modules \in Programs
  BY ReadingFacts, PhaseFacts DEF FunctionRaises
<1>2. Len(function_signatures[at]) = Len(modules[at].types)
  <2>1. Passed(1, at)
    BY <1>1 DEF Passed
  <2> QED
    BY <1>1, <2>1 DEF PInv, Checked
<1>3. ~Legal(at)
  BY <1>2 DEF FunctionRaises, InRange, Module, Legal
<1>4. Raise("IndexError")
  BY DEF FunctionRaises
<1> QED
  BY <1>3, <1>4, IllegalRaises

LEMMA ReadTableSectionKeeps ==
  ASSUME PInv, ReadTableSection
  PROVE  PInv'
<1>1. /\ phase = 4 /\ status = "linking" /\ at \in Modules /\ modules \in Programs
      /\ Table \in Kinds /\ phase = Table + 3 /\ Table # Function
  BY ReadingFacts, PhaseFacts DEF ReadTableSection, Kinds, Table, Function
<1>2. IsList(modules[at].tables) /\ Size(at, Table) = Len(modules[at].tables)
  BY <1>1, ModulesFacts, SizeFacts DEF IsModule
<1> DEFINE n == Size(at, Table)
           attributes == [i \in DOMAIN Module.tables |-> [size |-> Module.tables[i], name |-> None]]
<1>3. n \in Nat /\ DOMAIN modules[at].tables = 1 .. n
  BY <1>2, ListFacts
<1>4. DOMAIN attributes = 1 .. n /\ Len(attributes) = n
  <2> HIDE DEF n
  <2>1. attributes = [i \in 1 .. n |-> [size |-> Module.tables[i], name |-> None]]
    BY <1>3 DEF Module
  <2> QED
    BY <1>3, <2>1
<1>5. \A i \in 1 .. n : "name" \in DOMAIN attributes[i] /\ attributes[i].name = None
  BY <1>3 DEF Module
<1>6. /\ NextModule /\ Extend(Table, attributes)
      /\ UNCHANGED << modules, function_signatures, exports, start_function, numbered, status >>
  BY DEF ReadTableSection
<1> HIDE DEF attributes
<1> QED
  BY <1>1, <1>4, <1>5, <1>6, MadeKeeps

LEMMA ReadMemorySectionKeeps ==
  ASSUME PInv, ReadMemorySection
  PROVE  PInv'
<1>1. /\ phase = 5 /\ status = "linking" /\ at \in Modules /\ modules \in Programs
      /\ Memory \in Kinds /\ phase = Memory + 3 /\ Memory # Function
  BY ReadingFacts, PhaseFacts DEF ReadMemorySection, Kinds, Memory, Function
<1>2. IsList(modules[at].memories) /\ Size(at, Memory) = Len(modules[at].memories)
  BY <1>1, ModulesFacts, SizeFacts DEF IsModule
<1> DEFINE n == Size(at, Memory)
           attributes == [i \in DOMAIN Module.memories |->
                            [size |-> memory_size(Module.memories[i]), name |-> None]]
<1>3. n \in Nat /\ DOMAIN modules[at].memories = 1 .. n
  BY <1>2, ListFacts
<1>4. DOMAIN attributes = 1 .. n /\ Len(attributes) = n
  <2> HIDE DEF n
  <2>1. attributes = [i \in 1 .. n |-> [size |-> memory_size(Module.memories[i]), name |-> None]]
    BY <1>3 DEF Module
  <2> QED
    BY <1>3, <2>1
<1>5. \A i \in 1 .. n : "name" \in DOMAIN attributes[i] /\ attributes[i].name = None
  BY <1>3 DEF Module
<1>6. /\ NextModule /\ Extend(Memory, attributes)
      /\ UNCHANGED << modules, function_signatures, exports, start_function, numbered, status >>
  BY DEF ReadMemorySection
<1> HIDE DEF attributes
<1> QED
  BY <1>1, <1>4, <1>5, <1>6, MadeKeeps

(* One attribute of an object is assigned.                                 *)
LEMMA Assigned ==
  ASSUME NEW e \in DOMAIN objects, NEW a \in DOMAIN objects[e], NEW v,
         objects' = [objects EXCEPT ![e][a] = v]
  PROVE  /\ DOMAIN objects' = DOMAIN objects
         /\ \A d \in DOMAIN objects : DOMAIN (objects'[d]) = DOMAIN (objects[d])
         /\ objects'[e][a] = v
         /\ \A d \in DOMAIN objects : \A b \in DOMAIN objects[d] :
              ~(d = e /\ b = a) => objects'[d][b] = objects[d][b]
<1>1. objects' = [objects EXCEPT ![e] = [objects[e] EXCEPT ![a] = v]]
  OBVIOUS
<1> DEFINE r == [objects[e] EXCEPT ![a] = v]
<1>2. /\ DOMAIN r = DOMAIN (objects[e]) /\ r[a] = v
      /\ \A b \in DOMAIN objects[e] : b # a => r[b] = objects[e][b]
  OBVIOUS
<1>3. objects' = [objects EXCEPT ![e] = r]
  BY <1>1
<1> HIDE DEF r
<1>4. /\ DOMAIN objects' = DOMAIN objects /\ objects'[e] = r
      /\ \A d \in DOMAIN objects : d # e => objects'[d] = objects[d]
  BY <1>3
<1> QED
  BY <1>2, <1>4

(* The export that is read next.                                           *)
LEMMA ExportHere ==
  ASSUME PInv, Reading("Export"), item < Len(Module.exports)
  PROVE  /\ phase = 9 /\ status = "linking" /\ at \in Modules /\ modules \in Programs
         /\ item + 1 \in DOMAIN modules[at].exports
         /\ Entry = modules[at].exports[item + 1]
         /\ Field = NameOf(at, item + 1)
         /\ export_in_range <=>
              /\ modules[at].exports[item + 1].kind \in Kinds
              /\ modules[at].exports[item + 1].index <
                   Size(at, modules[at].exports[item + 1].kind)
         /\ export_in_range =>
              Exported = Means(at, item + 1) /\ Exported \in DOMAIN objects
         /\ \A y \in DOMAIN modules[at].exports : ExportRead(at, y) => y # item + 1
<1>1. phase = 9 /\ status = "linking" /\ at \in Modules /\ modules \in Programs /\ item \in Nat
  <2>1. item \in Nat
    BY DEF PInv, Position
  <2> QED
    BY <2>1, ReadingFacts, PhaseFacts
<1> DEFINE x == item + 1
           k == modules[at].exports[x].kind
           j == modules[at].exports[x].index
<1>2. x \in DOMAIN modules[at].exports /\ j \in Nat
  <2>1. x \in DOMAIN modules[at].exports
    BY <1>1, ExportFacts DEF Module
  <2> QED
    BY <1>1, <2>1, ExportFacts
<1>3. Entry = modules[at].exports[x] /\ Field = NameOf(at, x) /\ Means(at, x) = Entity(at, k, j + 1)
  BY DEF Entry, Field, Module, NameOf, Means
<1>4. ASSUME NEW kk \in Kinds
      PROVE  /\ SizeRead(at, kk) = Size(at, kk) /\ Size(at, kk) \in Nat
             /\ index_spaces[at][kk] = [i \in 1 .. Size(at, kk) |-> Entity(at, kk, i)]
             /\ Len(index_spaces[at][kk]) = Size(at, kk)
  <2>1. kk + 3 \in {3, 4, 5}
    BY DEF Kinds, Function, Table, Memory
  <2>2. Passed(kk + 3, at)
    BY <1>1, <2>1 DEF Passed
  <2>3. SizeRead(at, kk) = Size(at, kk) /\ Size(at, kk) \in Nat
    BY <1>1, <2>2, SizeFacts DEF SizeRead
  <2>4. index_spaces[at][kk] = [i \in 1 .. SizeRead(at, kk) |-> Entity(at, kk, i)]
    <3>1. index_spaces = [m \in Modules |-> [kd \in Kinds |->
                            [i \in 1 .. SizeRead(m, kd) |-> Entity(m, kd, i)]]]
      BY <1>1 DEF PInv, Spaces
    <3> QED
      BY <1>1, <3>1
  <2>5. index_spaces[at][kk] = [i \in 1 .. Size(at, kk) |-> Entity(at, kk, i)]
    BY <2>3, <2>4
  <2> QED
    BY <2>3, <2>5
<1>5. export_in_range <=> k \in Kinds /\ j < Size(at, k)
  BY <1>3, <1>4 DEF export_in_range, InRange
<1>6. ASSUME export_in_range PROVE Exported = Means(at, x) /\ Exported \in DOMAIN objects
  <2>1. k \in Kinds /\ j < Size(at, k)
    BY <1>5, <1>6
  <2>2. j + 1 \in 1 .. Size(at, k)
    <3>1. Size(at, k) \in Nat
      BY <1>4, <2>1
    <3> HIDE DEF j, k
    <3> QED
      BY <1>2, <2>1, <3>1
  <2>3. index_spaces[at][k][j + 1] = Entity(at, k, j + 1)
    BY <1>4, <2>1, <2>2
  <2>4. Exported = index_spaces[at][k][j + 1]
    BY <1>3 DEF Exported
  <2>5. Entity(at, k, j + 1) \in DOMAIN objects
    BY <1>1, <1>4, <2>1, <2>2 DEF PInv, Attributes
  <2> QED
    BY <1>3, <2>3, <2>4, <2>5
<1>7. ASSUME NEW y \in DOMAIN modules[at].exports, ExportRead(at, y) PROVE y # x
  <2>1. ~Passed(9, at)
    BY <1>1 DEF Passed, Modules
  <2>2. y <= item /\ y \in Nat
    BY <1>1, <1>7, <2>1, ExportFacts DEF ExportRead
  <2> QED
    BY <1>1, <2>2
<1> QED
  BY <1>1, <1>2, <1>3, <1>5, <1>6, <1>7

LEMMA ExportRaisesKeeps ==
  ASSUME PInv, ExportRaises
  PROVE  PInv'
<1> DEFINE x == item + 1
<1>0. Reading("Export") /\ item < Len(Module.exports)
  BY DEF ExportRaises
<1>1. /\ phase = 9 /\ at \in Modules /\ modules \in Programs
      /\ x \in DOMAIN modules[at].exports
      /\ Field = NameOf(at, x)
      /\ export_in_range <=>
              /\ modules[at].exports[x].kind \in Kinds
              /\ modules[at].exports[x].index < Size(at, modules[at].exports[x].kind)
      /\ export_in_range => Exported = Means(at, x) /\ Exported \in DOMAIN objects
      /\ \A y \in DOMAIN modules[at].exports : ExportRead(at, y) => y # x
  BY <1>0, ExportHere
<1>2. Raise(export_error) /\ export_error # "none"
  BY DEF ExportRaises
<1>3. export_error \notin {"linking", "created"}
  BY DEF export_error
<1> HIDE DEF x
<1>4. CASE ~export_in_range
  <2>1. ~LegalExports(at)
    BY <1>1, <1>4 DEF LegalExports
  <2> QED
    BY <1>2, <1>3, <2>1, IllegalRaises
<1>5. CASE export_in_range /\ Field \in DOMAIN exports
  <2>0. PICK m \in Modules : \E y \in DOMAIN modules[m].exports :
          ExportRead(m, y) /\ Field = NameOf(m, y)
    BY <1>1, <1>5 DEF PInv, Named
  <2>1. PICK y \in DOMAIN modules[m].exports : ExportRead(m, y) /\ Field = NameOf(m, y)
    BY <2>0
  <2>2. m = at
    <3>1. modules[m].name = modules[at].name
      BY <1>1, <2>1 DEF NameOf
    <3> QED
      BY <1>1, <3>1, ModulesFacts
  <2>3. ~LegalExports(at)
    BY <1>1, <2>1, <2>2 DEF LegalExports
  <2> QED
    BY <1>2, <1>3, <2>3, IllegalRaises
<1>6. CASE export_in_range /\ Field \notin DOMAIN exports
  <2>1. objects[Exported].name # None
    BY <1>2, <1>6 DEF export_error
  <2>0. PICK m \in Modules : \E y \in DOMAIN modules[m].exports :
          ExportRead(m, y) /\ Exported = Means(m, y)
    BY <1>1, <1>6, <2>1 DEF PInv, Named
  <2>2. PICK y \in DOMAIN modules[m].exports : ExportRead(m, y) /\ Exported = Means(m, y)
    BY <2>0
  <2>3. m = at
    BY <1>1, <1>6, <2>2 DEF Means, Entity
  <2>4. ~LegalExports(at)
    BY <1>1, <1>6, <2>2, <2>3 DEF LegalExports
  <2> QED
    BY <1>2, <1>3, <2>4, IllegalRaises
<1> QED
  BY <1>4, <1>5, <1>6

LEMMA ResolveExportKeeps ==
  ASSUME PInv, ResolveExport
  PROVE  PInv'
<1> DEFINE x == item + 1
           e == Means(at, x)
<1>0. Reading("Export") /\ item < Len(Module.exports) /\ export_error = "none"
  BY DEF ResolveExport
<1>1. /\ phase = 9 /\ status = "linking" /\ at \in Modules /\ modules \in Programs
      /\ x \in DOMAIN modules[at].exports
      /\ Field = NameOf(at, x)
      /\ export_in_range <=>
              /\ modules[at].exports[x].kind \in Kinds
              /\ modules[at].exports[x].index < Size(at, modules[at].exports[x].kind)
      /\ export_in_range => Exported = Means(at, x) /\ Exported \in DOMAIN objects
      /\ \A y \in DOMAIN modules[at].exports : ExportRead(at, y) => y # x
  BY <1>0, ExportHere
<1>2. /\ export_in_range /\ objects[Exported].name = None
      /\ Field \in DOMAIN exports => exports[Field] = Exported
  BY <1>0 DEF export_error
<1>3. /\ UNCHANGED << modules, phase, at, function_signatures, index_spaces, start_function,
                      numbered, status >>
      /\ item' = x /\ item \in Nat /\ x \in Nat /\ item < x
      /\ Len(modules[at].exports) \in Nat /\ item < Len(modules[at].exports)
  <2>1. item \in Nat /\ Len(modules[at].exports) \in Nat
    BY <1>1, ExportFacts DEF PInv, Position
  <2> QED
    BY <2>1, <1>0 DEF ResolveExport, Module
<1>4. /\ e \in DOMAIN objects /\ objects[e].name = None /\ "name" \in DOMAIN objects[e]
      /\ modules[at].exports[x].kind \in Kinds
      /\ modules[at].exports[x].index < Size(at, modules[at].exports[x].kind)
  BY <1>1, <1>2 DEF PInv, Attributes
<1>5. /\ exports' = [f \in DOMAIN exports \cup {NameOf(at, x)} |->
                       IF f = NameOf(at, x) THEN e ELSE exports[f]]
      /\ objects' = [objects EXCEPT ![e]["name"] = NameOf(at, x)]
  BY <1>1, <1>2 DEF ResolveExport
<1>6. /\ Modules' = Modules
      /\ \A m, k : Size(m, k)' = Size(m, k)
      /\ \A m, y : Means(m, y)' = Means(m, y) /\ NameOf(m, y)' = NameOf(m, y)
      /\ \A m, b : Code(m, b)' = Code(m, b)
      /\ Linkable' <=> Linkable
  BY <1>3, SameModules
<1>7. /\ \A s, m : Passed(s, m)' <=> Passed(s, m)
      /\ \A m, b : BodyRead(m, b)' <=> BodyRead(m, b)
      /\ \A m, k : SizeRead(m, k)' = SizeRead(m, k)
  <2>1. \A s, m : Passed(s, m)' <=> Passed(s, m)
    BY <1>3 DEF Passed
  <2>2. \A m, b : BodyRead(m, b)' <=> BodyRead(m, b)
    BY <1>1, <1>3, <2>1 DEF BodyRead
  <2> QED
    BY <1>6, <2>1, <2>2 DEF SizeRead
<1>8. ASSUME NEW m \in Modules, NEW y \in DOMAIN modules[m].exports
      PROVE  ExportRead(m, y)' <=> ExportRead(m, y) \/ (m = at /\ y = x)
  <2>1. y \in Nat
    BY <1>1, ExportFacts
  <2>2. y <= x <=> y <= item \/ y = x
    BY <1>3, <2>1
  <2> QED
    BY <1>1, <1>3, <1>7, <2>2 DEF ExportRead
<1>9. /\ NameOf(at, x) \notin DOMAIN exports
      /\ \A m \in Modules : \A y \in DOMAIN modules[m].exports : ExportRead(m, y) =>
           NameOf(m, y) # NameOf(at, x) /\ Means(m, y) # e
  <2>0. phase <= 11
    BY <1>1
  <2>1. \A m \in Modules : \A y \in DOMAIN modules[m].exports : ExportRead(m, y) =>
          Means(m, y) # e
    BY <1>4, <2>0 DEF PInv, Named
  <2>2. NameOf(at, x) \notin DOMAIN exports
    <3> SUFFICES ASSUME NameOf(at, x) \in DOMAIN exports PROVE FALSE
      OBVIOUS
    <3>0. PICK m \in Modules : \E y \in DOMAIN modules[m].exports :
            ExportRead(m, y) /\ NameOf(at, x) = NameOf(m, y)
      BY <2>0 DEF PInv, Named
    <3>1. PICK y \in DOMAIN modules[m].exports : ExportRead(m, y) /\ NameOf(at, x) = NameOf(m, y)
      BY <3>0
    <3>2. exports[NameOf(at, x)] = Means(m, y)
      BY <2>0, <3>1 DEF PInv, Named
    <3>3. exports[NameOf(at, x)] = e
      BY <1>1, <1>2
    <3> QED
      BY <2>1, <3>1, <3>2, <3>3
  <2>3. \A m \in Modules : \A y \in DOMAIN modules[m].exports : ExportRead(m, y) =>
          NameOf(m, y) \in DOMAIN exports
    BY <2>0 DEF PInv, Named
  <2> QED
    BY <2>1, <2>2, <2>3
<1>10. /\ DOMAIN objects' = DOMAIN objects
       /\ \A d \in DOMAIN objects : DOMAIN (objects'[d]) = DOMAIN (objects[d])
       /\ objects'[e]["name"] = NameOf(at, x)
       /\ \A d \in DOMAIN objects : \A b \in DOMAIN objects[d] :
            ~(d = e /\ b = "name") => objects'[d][b] = objects[d][b]
  <2> HIDE DEF e
  <2> QED
    BY <1>4, <1>5, Assigned
<1>11. \A d \in DOMAIN objects : d # e => objects'[d].name = objects[d].name
  BY <1>10 DEF PInv, Attributes
<1>12. Position'
  BY <1>1, <1>3, <1>6 DEF PInv, Position
<1>13. Checked'
  BY <1>3, <1>6, <1>7 DEF PInv, Checked
<1>14. Spaces'
  BY <1>3, <1>6, <1>7 DEF PInv, Spaces, Entity
<1>15. Attributes'
  BY <1>3, <1>6, <1>7, <1>10 DEF PInv, Attributes, Entity
<1>16. Started' /\ Numbered' /\ Built'
  <2>1. phase' = 9
    BY <1>1, <1>3
  <2> QED
    BY <2>1 DEF Started, Numbered, Built
<1>17. Outcome'
  BY <1>1, <1>3 DEF Outcome
<1> HIDE DEF x, e
<1>18. Distinct'
  <2>1. ASSUME NEW m \in Modules, NEW y \in DOMAIN modules[m].exports, ExportRead(m, y)'
        PROVE  /\ modules[m].exports[y].kind \in Kinds
               /\ modules[m].exports[y].index < Size(m, modules[m].exports[y].kind)
               /\ \A z \in DOMAIN modules[m].exports : ExportRead(m, z)' /\ z # y =>
                    NameOf(m, z) # NameOf(m, y) /\ Means(m, z) # Means(m, y)
    <3>1. CASE ExportRead(m, y)
      <4>1. /\ modules[m].exports[y].kind \in Kinds
            /\ modules[m].exports[y].index < Size(m, modules[m].exports[y].kind)
            /\ \A z \in DOMAIN modules[m].exports : ExportRead(m, z) /\ z # y =>
                    NameOf(m, z) # NameOf(m, y) /\ Means(m, z) # Means(m, y)
        BY <3>1 DEF PInv, Distinct
      <4>2. NameOf(m, y) # NameOf(at, x) /\ Means(m, y) # Means(at, x)
        BY <1>9, <3>1 DEF e
      <4> QED
        BY <1>8, <4>1, <4>2
    <3>2. CASE m = at /\ y = x
      <4>1. \A z \in DOMAIN modules[m].exports : ExportRead(m, z) =>
              NameOf(m, z) # NameOf(at, x) /\ Means(m, z) # Means(at, x)
        BY <1>9 DEF e
      <4>2. \A z \in DOMAIN modules[m].exports : ExportRead(m, z)' /\ z # y =>
              NameOf(m, z) # NameOf(m, y) /\ Means(m, z) # Means(m, y)
        BY <1>8, <3>2, <4>1
      <4> QED
        BY <1>4, <3>2, <4>2
    <3> QED
      BY <1>8, <2>1, <3>1, <3>2
  <2> QED
    BY <1>3, <1>6, <2>1 DEF Distinct
<1>19. Named'
  <2>0. phase <= 11 /\ None # NameOf(at, x) /\ None' = None
    BY <1>1 DEF None, NameOf
  <2>1. ASSUME NEW m \in Modules, NEW y \in DOMAIN modules[m].exports, ExportRead(m, y)'
        PROVE  /\ NameOf(m, y) \in DOMAIN exports'
               /\ exports'[NameOf(m, y)] = Means(m, y)
               /\ objects'[Means(m, y)].name # None
    <3>1. CASE ExportRead(m, y)
      <4>1. /\ NameOf(m, y) \in DOMAIN exports
            /\ exports[NameOf(m, y)] = Means(m, y)
            /\ objects[Means(m, y)].name # None
        BY <2>0, <3>1 DEF PInv, Named
      <4>2. NameOf(m, y) # NameOf(at, x) /\ Means(m, y) # e
        BY <1>9, <3>1
      <4>3. Means(m, y) \in DOMAIN objects
        <5>1. /\ modules[m].exports[y].kind \in Kinds
              /\ modules[m].exports[y].index < Size(m, modules[m].exports[y].kind)
          BY <3>1 DEF PInv, Distinct
        <5>2. /\ Size(m, modules[m].exports[y].kind) \in Nat
              /\ modules[m].exports[y].index \in Nat
          BY <1>1, <5>1, SizeFacts, ExportFacts
        <5>3. modules[m].exports[y].kind + 3 \in {3, 4, 5}
          BY <5>1 DEF Kinds, Function, Table, Memory
        <5>4. Passed(modules[m].exports[y].kind + 3, m)
          BY <1>1, <5>3 DEF Passed
        <5>5. modules[m].exports[y].index + 1 \in 1 .. SizeRead(m, modules[m].exports[y].kind)
          BY <5>1, <5>2, <5>4 DEF SizeRead
        <5> QED
          BY <5>1, <5>5 DEF PInv, Attributes, Means
      <4> QED
        BY <1>5, <1>11, <4>1, <4>2, <4>3
    <3>2. CASE m = at /\ y = x
      BY <1>5, <1>10, <2>0, <3>2 DEF e
    <3> QED
      BY <1>8, <2>1, <3>1, <3>2
  <2>2. ASSUME NEW f \in DOMAIN exports'
        PROVE  \E m \in Modules : \E y \in DOMAIN modules[m].exports :
                 ExportRead(m, y)' /\ f = NameOf(m, y)
    <3>1. CASE f \in DOMAIN exports
      <4>1. \E m \in Modules : \E y \in DOMAIN modules[m].exports :
              ExportRead(m, y) /\ f = NameOf(m, y)
        BY <2>0, <3>1 DEF PInv, Named
      <4> QED
        BY <1>8, <4>1
    <3>2. CASE f = NameOf(at, x)
      BY <1>1, <1>8, <3>2
    <3> QED
      BY <1>5, <3>1, <3>2
  <2>3. ASSUME NEW d \in DOMAIN objects', objects'[d].name # None
        PROVE  \E m \in Modules : \E y \in DOMAIN modules[m].exports :
                 ExportRead(m, y)' /\ d = Means(m, y)
    <3>1. CASE d = e
      BY <1>1, <1>8, <3>1 DEF e
    <3>2. CASE d # e
      <4>1. d \in DOMAIN objects /\ objects[d].name # None
        BY <1>10, <1>11, <2>3, <3>2
      <4>2. \E m \in Modules : \E y \in DOMAIN modules[m].exports :
              ExportRead(m, y) /\ d = Means(m, y)
        BY <2>0, <4>1 DEF PInv, Named
      <4> QED
        BY <1>8, <4>2
    <3> QED
      BY <3>1, <3>2
  <2> QED
    BY <1>3, <1>6, <2>0, <2>1, <2>2, <2>3 DEF Named
<1>20. Coded'
  <2>1. ASSUME NEW m \in Modules, NEW i \in 1 .. SizeRead(m, Function)
        PROVE  objects'[Entity(m, Function, i)].code = objects[Entity(m, Function, i)].code
    <3>1. Entity(m, Function, i) \in DOMAIN objects /\ Entity(m, Function, i)[2] = Function
      <4>1. Function \in Kinds
        BY DEF Kinds
      <4> QED
        BY <4>1 DEF PInv, Attributes, Entity
    <3>2. "code" \in DOMAIN objects[Entity(m, Function, i)]
      BY <3>1 DEF PInv, Attributes
    <3> QED
      BY <1>10, <3>1, <3>2
  <2> QED
    <3>1. ASSUME NEW m \in Modules, NEW b \in DOMAIN modules[m].code, BodyRead(m, b)'
          PROVE  /\ modules[m].code[b].locals = 0
                 /\ b <= Size(m, Function)'
                 /\ \A n \in DOMAIN Code(m, b)' : Acceptable(Code(m, b)'[n], n, modules[m])
      BY <1>6, <1>7, <3>1 DEF PInv, Coded
    <3>2. ASSUME NEW m \in Modules, NEW i \in 1 .. SizeRead(m, Function)'
          PROVE  objects'[Entity(m, Function, i)].code # None <=>
                   (i \in DOMAIN modules[m].code /\ BodyRead(m, i)')
      BY <1>6, <1>7, <2>1 DEF PInv, Coded
    <3> QED
      BY <1>3, <1>6, <3>1, <3>2 DEF Coded, Entity, None
<1> QED
  BY <1>12, <1>13, <1>14, <1>15, <1>16, <1>17, <1>18, <1>19, <1>20 DEF PInv

------------------------------------------------------------------------------
(* The start function and the numbering.                                   *)

LEMMA StartHere ==
  ASSUME PInv, Reading("Start")
  PROVE  /\ phase = 10 /\ at = 1 /\ 1 \in Modules /\ status = "linking" /\ modules \in Programs
         /\ start_error \in {"none", "ValueError", "IndexError"}
         /\ start_error = "none" => LegalStart
         /\ start_error # "none" => ~LegalStart
         /\ LegalStart => index_spaces[1][Function][modules[1].start[1] + 1] =
                            Entity(1, Function, modules[1].start[1] + 1)
<1>1. phase = 10 /\ at \in Modules /\ status = "linking" /\ modules \in Programs
  BY ReadingFacts, PhaseFacts
<1>2. at = 1 /\ 1 \in Modules
  BY <1>1 DEF PInv, Position
<1>3. /\ Function \in Kinds /\ Size(1, Function) \in Nat /\ SizeRead(1, Function) = Size(1, Function)
  <2>1. Passed(Function + 3, 1)
    BY <1>1 DEF Passed, Function
  <2> QED
    BY <1>1, <1>2, <2>1, SizeFacts DEF SizeRead, Kinds
<1>4. index_spaces[1][Function] = [i \in 1 .. Size(1, Function) |-> Entity(1, Function, i)]
  <2>1. index_spaces = [m \in Modules |-> [k \in Kinds |->
                          [i \in 1 .. SizeRead(m, k) |-> Entity(m, k, i)]]]
    BY <1>1 DEF PInv, Spaces
  <2> QED
    BY <1>2, <1>3, <2>1
<1>5. Len(index_spaces[1][Function]) = Size(1, Function)
  BY <1>3, <1>4
<1>6. start_error \in {"none", "ValueError", "IndexError"} /\ (start_error = "none" <=> LegalStart)
  BY <1>5 DEF start_error, LegalStart, InRange
<1>7. ASSUME LegalStart
      PROVE  index_spaces[1][Function][modules[1].start[1] + 1] =
               Entity(1, Function, modules[1].start[1] + 1)
  <2>1. modules[1].start \in Seq(Nat) /\ modules[1].start # << >>
    BY <1>1, <1>2, <1>7, ModulesFacts DEF IsModule, LegalStart, None
  <2>2. modules[1].start[1] \in Nat
    BY <2>1
  <2>3. modules[1].start[1] + 1 \in 1 .. Size(1, Function)
    BY <1>3, <1>7, <2>2 DEF LegalStart
  <2> QED
    BY <1>4, <2>3
<1> QED
  BY <1>1, <1>2, <1>6, <1>7

LEMMA StartRaisesKeeps ==
  ASSUME PInv, StartRaises
  PROVE  PInv'
<1>1. ~LegalStart /\ start_error \notin {"linking", "created"} /\ Raise(start_error)
  BY StartHere DEF StartRaises
<1> QED
  BY <1>1, IllegalRaises

LEMMA ReadStartSectionKeeps ==
  ASSUME PInv, ReadStartSection
  PROVE  PInv'
<1>1. /\ phase = 10 /\ at = 1 /\ 1 \in Modules /\ status = "linking" /\ modules \in Programs
      /\ LegalStart
      /\ index_spaces[1][Function][modules[1].start[1] + 1] =
           Entity(1, Function, modules[1].start[1] + 1)
  BY StartHere DEF ReadStartSection
<1>2. /\ UNCHANGED << modules, at, item, function_signatures, index_spaces, objects, exports,
                      numbered, status >>
      /\ start_function' = Entity(1, Function, modules[1].start[1] + 1)
      /\ phase' = 11
  BY <1>1 DEF ReadStartSection
<1>3. /\ Modules' = Modules
      /\ \A m, k : Size(m, k)' = Size(m, k)
      /\ \A m, x : Means(m, x)' = Means(m, x) /\ NameOf(m, x)' = NameOf(m, x)
      /\ \A m, b : Code(m, b)' = Code(m, b)
      /\ Linkable' <=> Linkable
  BY <1>2, SameModules
<1>4. /\ \A s \in 1 .. 9 : \A m \in Modules : Passed(s, m)' <=> Passed(s, m)
      /\ \A m \in Modules : \A x : ExportRead(m, x)' <=> ExportRead(m, x)
      /\ \A m \in Modules : \A b : BodyRead(m, b)' <=> BodyRead(m, b)
  BY <1>1, <1>2 DEF Passed, ExportRead, BodyRead
<1>5. \A m \in Modules : \A k \in Kinds : SizeRead(m, k)' = SizeRead(m, k)
  <2>1. \A k \in Kinds : k + 3 \in 1 .. 9
    BY DEF Kinds, Function, Table, Memory
  <2> QED
    BY <1>3, <1>4, <2>1 DEF SizeRead
<1>6. Position'
  <2>1. item = 0
    BY <1>1 DEF PInv, Position
  <2> QED
    BY <1>1, <1>2, <1>3, <2>1 DEF PInv, Position
<1>7. Checked'
  <2>1. \A s \in {1, 2, 3, 6, 7, 8} : \A m \in Modules : Passed(s, m)' <=> Passed(s, m)
    BY <1>4
  <2> QED
    BY <1>2, <1>3, <2>1 DEF PInv, Checked
<1>8. Spaces'
  <2>1. [m \in Modules |-> [k \in Kinds |-> [i \in 1 .. SizeRead(m, k)' |-> Entity(m, k, i)]]]
          = [m \in Modules |-> [k \in Kinds |-> [i \in 1 .. SizeRead(m, k) |-> Entity(m, k, i)]]]
    BY <1>5
  <2>2. /\ numbered = [k \in Kinds |-> << >>]
        /\ index_spaces = [m \in Modules |-> [k \in Kinds |->
                             [i \in 1 .. SizeRead(m, k) |-> Entity(m, k, i)]]]
    BY <1>1 DEF PInv, Spaces
  <2> QED
    BY <1>2, <1>3, <2>1, <2>2 DEF Spaces, Entity
<1>9. Attributes'
  BY <1>2, <1>3, <1>5 DEF PInv, Attributes, Entity
<1>10. Distinct'
  BY <1>2, <1>3, <1>4 DEF PInv, Distinct
<1>11. Named'
  <2>1. phase <= 11
    BY <1>1
  <2> QED
    BY <1>2, <1>3, <1>4, <2>1 DEF PInv, Named
<1>12. Started'
  BY <1>1, <1>2, <1>3 DEF Started, LegalStart, Entity
<1>13. Coded'
  <2>1. ASSUME NEW m \in Modules, NEW b \in DOMAIN modules[m].code, BodyRead(m, b)'
        PROVE  /\ modules[m].code[b].locals = 0
               /\ b <= Size(m, Function)'
               /\ \A n \in DOMAIN Code(m, b)' : Acceptable(Code(m, b)'[n], n, modules[m])
    BY <1>3, <1>4, <2>1 DEF PInv, Coded
  <2>2. ASSUME NEW m \in Modules, NEW i \in 1 .. SizeRead(m, Function)'
        PROVE  objects[Entity(m, Function, i)].code # None <=>
                 (i \in DOMAIN modules[m].code /\ BodyRead(m, i)')
    <3>1. Function \in Kinds
      BY DEF Kinds
    <3> QED
      BY <1>3, <1>4, <1>5, <3>1 DEF PInv, Coded
  <2> QED
    BY <1>2, <1>3, <2>1, <2>2 DEF Coded, Entity, None
<1>14. Numbered' /\ Built'
  BY <1>2 DEF Numbered, Built
<1>15. Outcome'
  BY <1>1, <1>2 DEF Outcome
<1> QED
  BY <1>6, <1>7, <1>8, <1>9, <1>10, <1>11, <1>12, <1>13, <1>14, <1>15 DEF PInv

(* The objects of the modules, each once.                                  *)
LEMMA AllObjectsFacts ==
  ASSUME NEW T, NEW k, Len(modules) \in Nat, \A m \in Modules : index_spaces[m][k] \in Seq(T)
  PROVE  /\ all_objects(k) \in Seq(T)
         /\ IsInjective(all_objects(k))
         /\ \A x : Has(all_objects(k), x) <=> \E m \in Modules : Has(index_spaces[m][k], x)
<1> DEFINE N == Len(modules)
           S == {d \in Seq(T) : IsInjective(d)}
           step == [n \in 1 .. N |-> [d \in S |-> AddKeys(d, index_spaces[n][k])]]
           Of[m \in 0 .. N] ==
             IF m = 0 THEN << >> ELSE AddKeys(Of[m - 1], index_spaces[m][k])
<1>1. N \in Nat /\ Modules = 1 .. N /\ << >> \in S
  <2>1. IsInjective(<< >>)
    BY DEF IsInjective
  <2> QED
    BY <2>1 DEF Modules
<1>2. step \in Steps(N, S)
  <2>1. ASSUME NEW n \in 1 .. N, NEW d \in S PROVE AddKeys(d, index_spaces[n][k]) \in S
    <3>1. d \in Seq(T) /\ index_spaces[n][k] \in Seq(T) /\ IsInjective(d)
      BY <1>1
    <3>2. AddKeys(d, index_spaces[n][k]) \in Seq(T) /\ IsInjective(AddKeys(d, index_spaces[n][k]))
      BY <3>1, AddKeysFacts
    <3> QED
      BY <3>2
  <2> HIDE DEF S
  <2> QED
    BY <2>1 DEF Steps
<1>3. PICK f : Recursive(f, N, S, << >>, step)
  <2> HIDE DEF N, S, step
  <2> QED
    BY <1>1, <1>2, Recursion, Zenon
<1> HIDE DEF S
<1>4. f = [m \in 0 .. N |-> IF m = 0 THEN << >> ELSE AddKeys(f[m - 1], index_spaces[m][k])]
  <2>1. ASSUME NEW m \in 0 .. N
        PROVE  f[m] = IF m = 0 THEN << >> ELSE AddKeys(f[m - 1], index_spaces[m][k])
    <3>0. /\ f \in [0 .. N -> S]
          /\ f[m] = IF m = 0 THEN << >> ELSE step[m][f[m - 1]]
      BY <1>3 DEF Recursive
    <3>1. CASE m = 0
      BY <3>0, <3>1
    <3>2. CASE m # 0
      <4>1. m \in 1 .. N /\ m - 1 \in 0 .. N
        BY <1>1, <3>2
      <4>2. f[m - 1] \in S
        BY <3>0, <4>1
      <4>3. f[m] = step[m][f[m - 1]]
        BY <3>0, <3>2
      <4> QED
        BY <3>2, <4>1, <4>2, <4>3
    <3> QED
      BY <3>1, <3>2
  <2>2. f \in [0 .. N -> S]
    BY <1>3 DEF Recursive
  <2> HIDE DEF N
  <2> QED
    BY <2>1, <2>2
<1>5. Of = [m \in 0 .. N |-> IF m = 0 THEN << >> ELSE AddKeys(Of[m - 1], index_spaces[m][k])]
  BY <1>4
<1>6. all_objects(k) = Of[N]
  BY DEF all_objects
<1> HIDE DEF Of, N, step
<1>7. Of[0] = << >> /\ \A m \in 1 .. N : Of[m] = AddKeys(Of[m - 1], index_spaces[m][k])
  <2>1. 0 \in 0 .. N /\ \A m \in 1 .. N : m \in 0 .. N /\ m # 0
    BY <1>1
  <2> QED
    BY <1>5, <2>1
<1> DEFINE Good(n) == /\ Of[n] \in Seq(T)
                      /\ IsInjective(Of[n])
                      /\ \A x : Has(Of[n], x) <=> \E m \in 1 .. n : Has(index_spaces[m][k], x)
           G == {n \in 0 .. N : Good(n)}
<1>8. 0 \in G
  <2>1. \A x : ~Has(<< >>, x)
    BY DEF Has
  <2> QED
    <3>1. << >> \in Seq(T) /\ IsInjective(<< >>)
      BY DEF IsInjective
    <3>2. \A x : ~\E m \in 1 .. 0 : Has(index_spaces[m][k], x)
      OBVIOUS
    <3>3. Good(0)
      BY <1>7, <2>1, <3>1, <3>2
    <3> QED
      BY <1>1, <3>3
<1>9. ASSUME NEW n \in Nat, n < N, n \in G PROVE n + 1 \in G
  <2>1. /\ n + 1 \in 1 .. N /\ n + 1 \in 0 .. N
        /\ \A m \in 1 .. n + 1 : m \in 1 .. n \/ m = n + 1
        /\ n + 1 \in 1 .. n + 1 /\ \A m \in 1 .. n : m \in 1 .. n + 1
    BY <1>1, <1>9
  <2>2. Good(n)
    BY <1>9
  <2>3. Of[n + 1] = AddKeys(Of[n], index_spaces[n + 1][k])
    <3>1. n + 1 - 1 = n
      BY <1>9
    <3> QED
      BY <1>7, <2>1, <3>1
  <2> DEFINE a == Of[n]
             s == index_spaces[n + 1][k]
             b == Of[n + 1]
  <2>4. a \in Seq(T) /\ IsInjective(a) /\ s \in Seq(T) /\ b = AddKeys(a, s)
    BY <1>1, <2>1, <2>2, <2>3
  <2>5. /\ b \in Seq(T) /\ IsInjective(b)
        /\ \A x : Has(b, x) <=> Has(a, x) \/ Has(s, x)
    <3> HIDE DEF a, s, b
    <3> QED
      BY <2>4, AddKeysFacts
  <2>6. ASSUME NEW x
        PROVE  Has(b, x) <=> \E m \in 1 .. n + 1 : Has(index_spaces[m][k], x)
    <3>1. Has(a, x) <=> \E m \in 1 .. n : Has(index_spaces[m][k], x)
      BY <2>2
    <3>2. Has(b, x) <=> Has(a, x) \/ Has(s, x)
      BY <2>5
    <3>3. (\E m \in 1 .. n + 1 : Has(index_spaces[m][k], x)) <=>
            (\E m \in 1 .. n : Has(index_spaces[m][k], x)) \/ Has(s, x)
      BY <2>1
    <3> HIDE DEF a, b, s
    <3> QED
      BY <3>1, <3>2, <3>3
  <2> QED
    BY <2>1, <2>5, <2>6
<1>10. N \in G
  <2> HIDE DEF G
  <2>1. N \in 0 .. N
    BY <1>1
  <2> QED
    BY <1>1, <1>8, <1>9, <2>1, SetInduction
<1>11. Good(N)
  BY <1>10
<1> QED
  BY <1>1, <1>6, <1>11

LEMMA MapModulesKeeps ==
  ASSUME PInv, MapModules
  PROVE  PInv'
<1>1. /\ phase = 11 /\ at = 1 /\ item = 0 /\ status = "linking" /\ modules \in Programs
      /\ Len(modules) \in Nat /\ DOMAIN modules = Modules /\ 1 \in Modules
  <2>1. phase = 11 /\ status = "linking" /\ modules \in Programs /\ at \in Modules
    BY ReadingFacts, PhaseFacts DEF MapModules
  <2> QED
    BY <2>1, ModulesFacts DEF PInv, Position
<1>2. /\ UNCHANGED << modules, at, item, function_signatures, objects, status >>
      /\ numbered' = [k \in Kinds |-> all_objects(k)]
      /\ index_spaces' = [m \in DOMAIN modules |-> [k \in Kinds |->
           [i \in DOMAIN index_spaces[m][k] |-> IdOf(numbered'[k], index_spaces[m][k][i])]]]
      /\ exports' = [f \in DOMAIN exports |->
           << exports[f][2], IdOf(numbered'[exports[f][2]], exports[f]) >>]
      /\ start_function' = IdOf(numbered'[Function], start_function)
      /\ phase' = 12
  BY <1>1 DEF MapModules, number
<1>3. /\ Modules' = Modules
      /\ \A m, k : Size(m, k)' = Size(m, k)
      /\ \A m, x : Means(m, x)' = Means(m, x) /\ NameOf(m, x)' = NameOf(m, x)
      /\ \A m, b : Code(m, b)' = Code(m, b)
      /\ Linkable' <=> Linkable
  BY <1>2, SameModules
<1>4. /\ \A s \in 1 .. 9 : \A m \in Modules : Passed(s, m)' /\ Passed(s, m)
      /\ \A m \in Modules : \A x : ExportRead(m, x)' /\ ExportRead(m, x)
      /\ \A m \in Modules : \A b \in Nat : b > 0 => ~BodyRead(m, b)' /\ ~BodyRead(m, b)
  BY <1>1, <1>2 DEF Passed, ExportRead, BodyRead, Modules
<1>5. \A m \in Modules : \A k \in Kinds :
        /\ SizeRead(m, k)' = Size(m, k) /\ SizeRead(m, k) = Size(m, k) /\ Size(m, k) \in Nat
  <2>1. \A k \in Kinds : k + 3 \in 1 .. 9
    BY DEF Kinds, Function, Table, Memory
  <2> QED
    BY <1>1, <1>3, <1>4, <2>1, SizeFacts DEF SizeRead
<1>6. ASSUME NEW m \in Modules, NEW k \in Kinds
      PROVE  index_spaces[m][k] = [i \in 1 .. Size(m, k) |-> Entity(m, k, i)]
  <2>1. index_spaces = [n \in Modules |-> [j \in Kinds |->
                           [i \in 1 .. SizeRead(n, j) |-> Entity(n, j, i)]]]
    BY <1>1 DEF PInv, Spaces
  <2>2. index_spaces[m][k] = [i \in 1 .. SizeRead(m, k) |-> Entity(m, k, i)]
    BY <2>1
  <2> QED
    BY <1>5, <2>2
<1> DEFINE T == {Entity(m, k, i) : m \in Modules, k \in Kinds, i \in Nat}
<1>7. ASSUME NEW k \in Kinds
      PROVE  /\ numbered'[k] \in Seq(T) /\ IsInjective(numbered'[k])
             /\ \A m \in Modules : \A i \in 1 .. Size(m, k) : Has(numbered'[k], Entity(m, k, i))
             /\ \A j \in 1 .. Len(numbered'[k]) :
                  \E m \in Modules : \E i \in 1 .. Size(m, k) : numbered'[k][j] = Entity(m, k, i)
  <2>1. ASSUME NEW m \in Modules PROVE index_spaces[m][k] \in Seq(T)
    <3>1. \A i \in 1 .. Size(m, k) : Entity(m, k, i) \in T
      BY <1>5
    <3> DEFINE space == index_spaces[m][k]
               n == Size(m, k)
    <3>2. n \in Nat /\ space = [i \in 1 .. n |-> Entity(m, k, i)]
      BY <1>5, <1>6
    <3>3. space = [i \in 1 .. n |-> space[i]] /\ \A i \in 1 .. n : space[i] \in T
      BY <3>1, <3>2
    <3> HIDE DEF T, space, n
    <3>4. space \in Seq(T)
      BY <3>2, <3>3
    <3> QED
      BY <3>4 DEF space
  <2>2. /\ all_objects(k) \in Seq(T)
        /\ IsInjective(all_objects(k))
        /\ \A x : Has(all_objects(k), x) <=> \E m \in Modules : Has(index_spaces[m][k], x)
    <3> HIDE DEF T
    <3> QED
      BY <1>1, <2>1, AllObjectsFacts
  <2>3. numbered'[k] = all_objects(k)
    BY <1>2
  <2>4. \A m \in Modules : \A x : Has(index_spaces[m][k], x) <=>
          \E i \in 1 .. Size(m, k) : x = Entity(m, k, i)
    <3> SUFFICES ASSUME NEW m \in Modules, NEW x
                 PROVE  Has(index_spaces[m][k], x) <=> \E i \in 1 .. Size(m, k) : x = Entity(m, k, i)
      OBVIOUS
    <3> DEFINE space == index_spaces[m][k]
    <3>1. /\ DOMAIN space = 1 .. Size(m, k)
          /\ \A i \in 1 .. Size(m, k) : space[i] = Entity(m, k, i)
      <4>1. space = [i \in 1 .. Size(m, k) |-> Entity(m, k, i)]
        BY <1>6
      <4> HIDE DEF space
      <4> QED
        BY <4>1
    <3> HIDE DEF space
    <3>2. Has(space, x) <=> \E i \in 1 .. Size(m, k) : x = Entity(m, k, i)
      BY <3>1 DEF Has
    <3> QED
      BY <3>2 DEF space
  <2>5. ASSUME NEW m \in Modules, NEW i \in 1 .. Size(m, k) PROVE Has(numbered'[k], Entity(m, k, i))
    <3>1. Has(index_spaces[m][k], Entity(m, k, i))
      BY <2>4
    <3> QED
      BY <2>2, <2>3, <3>1
  <2>6. ASSUME NEW j \in 1 .. Len(numbered'[k])
        PROVE  \E m \in Modules : \E i \in 1 .. Size(m, k) : numbered'[k][j] = Entity(m, k, i)
    <3>1. Has(numbered'[k], numbered'[k][j])
      <4>1. j \in DOMAIN numbered'[k]
        BY <2>2, <2>3
      <4> QED
        BY <4>1 DEF Has
    <3>2. \E m \in Modules : Has(index_spaces[m][k], numbered'[k][j])
      BY <2>2, <2>3, <3>1
    <3> QED
      BY <2>4, <3>2
  <2> QED
    BY <2>2, <2>3, <2>5, <2>6
<1> HIDE DEF T
<1>8. ASSUME NEW k \in Kinds, NEW m \in Modules, NEW i \in 1 .. Size(m, k)
      PROVE  /\ IdOf(numbered'[k], Entity(m, k, i)) \in 0 .. Len(numbered'[k]) - 1
             /\ numbered'[k][IdOf(numbered'[k], Entity(m, k, i)) + 1] = Entity(m, k, i)
  <2> DEFINE d == numbered'[k]
             e == Entity(m, k, i)
  <2>1. d \in Seq(T) /\ Has(d, e)
    BY <1>7
  <2> HIDE DEF d, e
  <2>2. IdOf(d, e) \in 0 .. Len(d) - 1 /\ d[IdOf(d, e) + 1] = e
    BY <2>1, IdOfFacts
  <2> QED
    BY <2>2 DEF d, e
<1>9. Numbered'
  <2>1. ASSUME NEW k \in Kinds
        PROVE  /\ IsInjective(numbered'[k])
               /\ Len(numbered'[k]) \in Nat
               /\ DOMAIN numbered'[k] = 1 .. Len(numbered'[k])
               /\ \A j \in 1 .. Len(numbered'[k]) :
                    \E m \in Modules : \E i \in 1 .. Size(m, k) : numbered'[k][j] = Entity(m, k, i)
    BY <1>7
  <2>2. ASSUME NEW k \in Kinds, NEW m \in Modules
        PROVE  /\ DOMAIN index_spaces'[m][k] = 1 .. Size(m, k)
               /\ Len(index_spaces'[m][k]) = Size(m, k)
               /\ \A i \in 1 .. Size(m, k) :
                    /\ index_spaces'[m][k][i] \in 0 .. Len(numbered'[k]) - 1
                    /\ numbered'[k][index_spaces'[m][k][i] + 1] = Entity(m, k, i)
    <3>1. /\ DOMAIN index_spaces[m][k] = 1 .. Size(m, k) /\ Size(m, k) \in Nat
          /\ \A i \in 1 .. Size(m, k) : index_spaces[m][k][i] = Entity(m, k, i)
      <4>1. index_spaces[m][k] = [i \in 1 .. Size(m, k) |-> Entity(m, k, i)]
        BY <1>6
      <4>2. Size(m, k) \in Nat
        BY <1>5
      <4> QED
        BY <4>1, <4>2
    <3>2. index_spaces'[m][k] =
            [i \in 1 .. Size(m, k) |-> IdOf(numbered'[k], index_spaces[m][k][i])]
      BY <1>1, <1>2, <3>1
    <3>3. \A i \in 1 .. Size(m, k) :
            index_spaces'[m][k][i] = IdOf(numbered'[k], Entity(m, k, i))
      BY <3>1, <3>2
    <3>4. DOMAIN index_spaces'[m][k] = 1 .. Size(m, k) /\ Len(index_spaces'[m][k]) = Size(m, k)
      BY <3>1, <3>2
    <3> QED
      BY <1>8, <3>3, <3>4
  <2>3. ASSUME NEW m \in Modules, NEW x \in DOMAIN modules[m].exports
        PROVE  LET value == exports'[NameOf(m, x)]
               IN  /\ value[1] = modules[m].exports[x].kind
                   /\ value[2] \in 0 .. Len(numbered'[value[1]]) - 1
                   /\ numbered'[value[1]][value[2] + 1] = Means(m, x)
    <3> DEFINE k == modules[m].exports[x].kind
               j == modules[m].exports[x].index
    <3>1. k \in Kinds /\ j < Size(m, k) /\ j \in Nat /\ Means(m, x) = Entity(m, k, j + 1)
      BY <1>1, <1>4, ExportFacts DEF PInv, Distinct, Means
    <3>2. NameOf(m, x) \in DOMAIN exports /\ exports[NameOf(m, x)] = Means(m, x)
      BY <1>1, <1>4 DEF PInv, Named
    <3>3. Means(m, x)[2] = k
      BY <3>1 DEF Entity
    <3>4. exports'[NameOf(m, x)] = << k, IdOf(numbered'[k], Means(m, x)) >>
      BY <1>2, <3>2, <3>3
    <3>5. j + 1 \in 1 .. Size(m, k)
      <4>1. Size(m, k) \in Nat
        BY <1>5, <3>1
      <4> HIDE DEF j, k
      <4> QED
        BY <3>1, <4>1
    <3>6. /\ IdOf(numbered'[k], Means(m, x)) \in 0 .. Len(numbered'[k]) - 1
          /\ numbered'[k][IdOf(numbered'[k], Means(m, x)) + 1] = Means(m, x)
      <4> HIDE DEF j, k
      <4> QED
        BY <1>8, <3>1, <3>5
    <3> HIDE DEF j
    <3> QED
      BY <3>4, <3>6
  <2>4. /\ start_function' \in 0 .. Len(numbered'[Function]) - 1
        /\ numbered'[Function][start_function' + 1] =
             Entity(1, Function, modules[1].start[1] + 1)
    <3>1. /\ modules[1].start # None /\ modules[1].start[1] < Size(1, Function)
          /\ start_function = Entity(1, Function, modules[1].start[1] + 1)
      BY <1>1 DEF PInv, Started
    <3>2. modules[1].start \in Seq(Nat) /\ modules[1].start # << >>
      BY <1>1, <3>1, ModulesFacts DEF IsModule, None
    <3>3. modules[1].start[1] \in Nat /\ Function \in Kinds
      BY <3>2 DEF Kinds
    <3>4. modules[1].start[1] + 1 \in 1 .. Size(1, Function)
      BY <1>1, <1>5, <3>1, <3>3
    <3> QED
      BY <1>1, <1>2, <1>8, <3>1, <3>3, <3>4
  <2> QED
    <3>1. (\A k \in Kinds :
             /\ IsInjective(numbered[k])
             /\ Len(numbered[k]) \in Nat
             /\ DOMAIN numbered[k] = 1 .. Len(numbered[k])
             /\ \A j \in 1 .. Len(numbered[k]) :
                  \E m \in Modules : \E i \in 1 .. Size(m, k) :
                    numbered[k][j] = Entity(m, k, i))'
      BY <1>3, <2>1 DEF Entity, Kinds, Function, Table, Memory
    <3>2. (\A k \in Kinds : \A m \in Modules :
             /\ DOMAIN index_spaces[m][k] = 1 .. Size(m, k)
             /\ Len(index_spaces[m][k]) = Size(m, k)
             /\ \A i \in 1 .. Size(m, k) :
                  Leads(k, index_spaces[m][k][i], Entity(m, k, i)))'
      BY <1>3, <2>2 DEF Leads, Entity, Kinds, Function, Table, Memory
    <3>3. (\A m \in Modules : \A x \in DOMAIN modules[m].exports :
             LET value == exports[NameOf(m, x)]
             IN  value[1] = modules[m].exports[x].kind /\ Leads(value[1], value[2], Means(m, x)))'
      <4>1. ASSUME NEW m \in Modules, NEW x \in DOMAIN modules[m].exports
            PROVE  LET value == exports[NameOf(m, x)]'
                   IN  /\ value[1] = modules[m].exports[x].kind
                       /\ value[2] \in 0 .. Len(numbered'[value[1]]) - 1
                       /\ numbered'[value[1]][value[2] + 1] = Means(m, x)'
        <5>1. exports[NameOf(m, x)]' = exports'[NameOf(m, x)]
          BY <1>3
        <5>2. Means(m, x)' = Means(m, x)
          BY <1>3
        <5> QED
          BY <2>3, <5>1, <5>2
      <4> QED
        <5>1. modules' = modules /\ Modules' = Modules
          BY <1>2, <1>3
        <5> QED
          BY <4>1, <5>1 DEF Leads
    <3>4. Leads(Function, start_function, Entity(1, Function, modules[1].start[1] + 1))'
      BY <1>2, <2>4 DEF Leads, Entity, Function
    <3> QED
      BY <3>1, <3>2, <3>3, <3>4 DEF Numbered
<1>10. Position'
  <2>1. Len(modules[1].code) \in Nat
    BY <1>1, BodyFacts
  <2> QED
    BY <1>1, <1>2, <1>3, <2>1 DEF Position
<1>11. Checked'
  <2>1. \A s \in {1, 2, 3, 6, 7, 8} : \A m \in Modules : Passed(s, m)
    BY <1>4
  <2> QED
    BY <1>2, <1>3, <2>1 DEF PInv, Checked
<1>12. Spaces' /\ Named'
  BY <1>2 DEF Spaces, Named
<1>13. Attributes'
  <2>1. \A m \in Modules : \A k \in Kinds : SizeRead(m, k)' = SizeRead(m, k)
    BY <1>5
  <2>2. UNCHANGED objects /\ Modules' = Modules /\ Kinds' = Kinds /\ Function' = Function
    BY <1>2, <1>3 DEF Kinds, Function, Table, Memory
  <2> QED
    BY <2>1, <2>2 DEF PInv, Attributes, Entity
<1>14. Distinct'
  BY <1>2, <1>3, <1>4 DEF PInv, Distinct
<1>15. Started'
  BY <1>1, <1>2, <1>3 DEF PInv, Started
<1>16. Coded'
  <2>1. ASSUME NEW m \in Modules, NEW b \in DOMAIN modules[m].code
        PROVE  ~BodyRead(m, b)'
    <3>1. b \in Nat /\ b > 0
      BY <1>1, BodyFacts
    <3> QED
      BY <1>4, <3>1
  <2>2. ASSUME NEW m \in Modules, NEW i \in 1 .. Size(m, Function)
        PROVE  objects[Entity(m, Function, i)].code = None /\ ~BodyRead(m, i)'
    <3>1. Function \in Kinds
      BY DEF Kinds
    <3>2. i \in Nat /\ i > 0 /\ i \in 1 .. SizeRead(m, Function)
      BY <1>5, <3>1
    <3>3. ~BodyRead(m, i) /\ ~BodyRead(m, i)'
      BY <1>4, <3>2
    <3> QED
      BY <3>2, <3>3 DEF PInv, Coded
  <2>3. \A m \in Modules : SizeRead(m, Function)' = Size(m, Function)
    BY <1>5 DEF Kinds
  <2> QED
    BY <1>2, <1>3, <2>1, <2>2, <2>3 DEF Coded, Entity, None
<1>17. Built' /\ Outcome'
  BY <1>1, <1>2 DEF Built, Outcome
<1> QED
  BY <1>9, <1>10, <1>11, <1>12, <1>13, <1>14, <1>15, <1>16, <1>17 DEF PInv

------------------------------------------------------------------------------
(* The bodies.                                                             *)

LEMMA FirstError ==
  ASSUME NEW last \in Nat, NEW errors, DOMAIN errors = 1 .. last
  PROVE  /\ first_error(errors) = "none" <=> \A n \in DOMAIN errors : errors[n] = "none"
         /\ first_error(errors) = "none"
              \/ \E n \in DOMAIN errors : first_error(errors) = errors[n]
<1> DEFINE failing == {n \in DOMAIN errors : errors[n] # "none"}
           first == CHOOSE n \in failing : \A k \in failing : n <= k
<1>1. first_error(errors) = IF failing = {} THEN "none" ELSE errors[first]
  BY DEF first_error
<1>2. CASE failing = {}
  BY <1>1, <1>2
<1>3. CASE failing # {}
  <2>1. \E n \in failing : \A k \in failing : n <= k
    <3>1. failing \in SUBSET Nat
      OBVIOUS
    <3> HIDE DEF failing
    <3> QED
      BY <1>3, <3>1, Least
  <2>2. first \in failing
    <3> HIDE DEF failing
    <3> QED
      BY <2>1
  <2> HIDE DEF first
  <2> QED
    BY <1>1, <1>3, <2>2
<1> QED
  BY <1>2, <1>3

(* What makes an instruction unacceptable, and in which pass.              *)
BodyErrors == {"ValueError", "IndexError", "struct.error", "TypeError", "endless"}

LEMMA InstructionErrors ==
  ASSUME NEW i \in Instructions, NEW n \in Nat, NEW M,
         Len(index_spaces[at][Function]) = Len(M.functions),
         Len(function_signatures[at]) = Len(M.types)
  PROVE  /\ immediates_error(i) \in BodyErrors \cup {"none"}
         /\ labels_error(i, n) \in BodyErrors \cup {"none"}
         /\ immediates_error(i) = "none" /\ labels_error(i, n) = "none" <=> Acceptable(i, n, M)
<1>1. i.op \in Operators
  BY DEF Instructions
<1>2. CASE i.op = "call"
  BY <1>2 DEF immediates_error, labels_error, Acceptable, InRange, BodyErrors
<1>3. CASE i.op = "call_indirect"
  BY <1>3 DEF immediates_error, labels_error, Acceptable, InRange, BodyErrors
<1>4. CASE i.op \in {"global", "float", "br_table", "else"}
  BY <1>4 DEF immediates_error, labels_error, Acceptable, InRange, BodyErrors
<1>5. CASE i.op = "loop"
  BY <1>5 DEF immediates_error, labels_error, Acceptable, InRange, BodyErrors
<1>6. CASE i.op = "other"
  BY <1>6 DEF immediates_error, labels_error, Acceptable, InRange, BodyErrors
<1> QED
  BY <1>1, <1>2, <1>3, <1>4, <1>5, <1>6 DEF Operators

LEMMA BodyHere ==
  ASSUME PInv, Reading("Code"), item < Len(Module.code)
  PROVE  /\ phase = 12 /\ status = "linking" /\ at \in Modules /\ modules \in Programs
         /\ item \in Nat /\ item + 1 \in DOMAIN modules[at].code
         /\ item < Len(modules[at].code) /\ Len(modules[at].code) \in Nat
         /\ Body.instructions = Code(at, item + 1)
         /\ Size(at, Function) \in Nat
         /\ code_error \in BodyErrors \cup {"none"}
         /\ code_error = "none" <=>
              /\ modules[at].code[item + 1].locals = 0
              /\ item < Size(at, Function)
              /\ \A n \in DOMAIN Code(at, item + 1) :
                   Acceptable(Code(at, item + 1)[n], n, modules[at])
         /\ item < Size(at, Function) => defined_function = Entity(at, Function, item + 1)
         /\ ~Passed(12, at)
<1>1. /\ phase = 12 /\ status = "linking" /\ at \in Modules /\ modules \in Programs
      /\ item \in Nat /\ Len(modules[at].code) \in Nat
  <2>1. phase = 12 /\ status = "linking" /\ at \in Modules /\ modules \in Programs
    BY ReadingFacts, PhaseFacts
  <2> QED
    BY <2>1, BodyFacts DEF PInv, Position
<1>2. /\ item + 1 \in DOMAIN modules[at].code /\ item < Len(modules[at].code)
      /\ modules[at].code[item + 1].locals \in Nat
      /\ Code(at, item + 1) \in Seq(Instructions)
  <2>1. /\ DOMAIN modules[at].code = 1 .. Len(modules[at].code)
        /\ \A b \in DOMAIN modules[at].code :
             modules[at].code[b].locals \in Nat /\ Code(at, b) \in Seq(Instructions)
    BY <1>1, BodyFacts
  <2> QED
    BY <1>1, <2>1 DEF Module
<1>3. Body.locals = modules[at].code[item + 1].locals /\ Body.instructions = Code(at, item + 1)
  BY DEF Body, Module, Code
<1>4. /\ Function \in Kinds /\ Size(at, Function) \in Nat
      /\ Len(index_spaces[at][Function]) = Size(at, Function)
      /\ \A i \in 1 .. Size(at, Function) :
           Leads(Function, index_spaces[at][Function][i], Entity(at, Function, i))
  <2>1. phase > 11 /\ Function \in Kinds
    BY <1>1 DEF Kinds
  <2> QED
    BY <1>1, <2>1, SizeFacts DEF PInv, Numbered
<1>5. /\ Len(index_spaces[at][Function]) = Len(modules[at].functions)
      /\ Len(function_signatures[at]) = Len(modules[at].types)
  <2>1. Passed(1, at)
    BY <1>1 DEF Passed
  <2> QED
    BY <1>1, <1>4, <2>1, SizeFacts DEF PInv, Checked
<1> DEFINE code == Code(at, item + 1)
           first == immediates_errors(code)
           second == labels_errors(code)
<1>6. /\ Len(code) \in Nat
      /\ DOMAIN code = 1 .. Len(code) /\ DOMAIN first = 1 .. Len(code)
      /\ DOMAIN second = 1 .. Len(code)
  BY <1>2 DEF immediates_errors, labels_errors
<1>7. ASSUME NEW n \in DOMAIN code
      PROVE  /\ first[n] \in BodyErrors \cup {"none"} /\ second[n] \in BodyErrors \cup {"none"}
             /\ first[n] = "none" /\ second[n] = "none" <=> Acceptable(code[n], n, modules[at])
  <2>1. code[n] \in Instructions /\ n \in Nat
    BY <1>2
  <2>2. first[n] = immediates_error(code[n]) /\ second[n] = labels_error(code[n], n)
    BY DEF immediates_errors, labels_errors
  <2> HIDE DEF code, first, second
  <2> QED
    BY <1>5, <2>1, <2>2, InstructionErrors
<1>8. /\ first_error(first) = "none" <=> \A n \in DOMAIN first : first[n] = "none"
      /\ first_error(first) = "none" \/ \E n \in DOMAIN first : first_error(first) = first[n]
      /\ first_error(second) = "none" <=> \A n \in DOMAIN second : second[n] = "none"
      /\ first_error(second) = "none" \/ \E n \in DOMAIN second : first_error(second) = second[n]
  <2> HIDE DEF code, first, second
  <2> QED
    BY <1>6, FirstError
<1>9. /\ first_error(first) \in BodyErrors \cup {"none"}
      /\ first_error(second) \in BodyErrors \cup {"none"}
      /\ first_error(first) = "none" /\ first_error(second) = "none" <=>
           \A n \in DOMAIN code : Acceptable(code[n], n, modules[at])
  <2> HIDE DEF code, first, second
  <2> QED
    BY <1>6, <1>7, <1>8
<1>10. code_error = IF Body.locals > 0 THEN "ValueError"
                    ELSE IF first_error(first) # "none" THEN first_error(first)
                    ELSE IF first_error(second) # "none" THEN first_error(second)
                    ELSE IF item < Size(at, Function) THEN "none" ELSE "IndexError"
  BY <1>3, <1>4 DEF code_error, InRange
<1>11. /\ code_error \in BodyErrors \cup {"none"}
       /\ code_error = "none" <=>
            /\ modules[at].code[item + 1].locals = 0
            /\ item < Size(at, Function)
            /\ \A n \in DOMAIN code : Acceptable(code[n], n, modules[at])
  <2>1. ~(Body.locals > 0) <=> modules[at].code[item + 1].locals = 0
    BY <1>2, <1>3
  <2> DEFINE legal == \A n \in DOMAIN code : Acceptable(code[n], n, modules[at])
             many == Body.locals > 0
             f == first_error(first)
             g == first_error(second)
  <2>2. f = "none" /\ g = "none" <=> legal
    BY <1>9
  <2>3. f \in BodyErrors \cup {"none"} /\ g \in BodyErrors \cup {"none"}
    BY <1>9
  <2> HIDE DEF legal, many, f, g
  <2>4. code_error = IF many THEN "ValueError"
                     ELSE IF f # "none" THEN f
                     ELSE IF g # "none" THEN g
                     ELSE IF item < Size(at, Function) THEN "none" ELSE "IndexError"
    BY <1>10 DEF many, f, g
  <2>5. code_error \in BodyErrors \cup {"none"}
    BY <2>3, <2>4 DEF BodyErrors
  <2>6. code_error = "none" <=> ~many /\ item < Size(at, Function) /\ legal
    BY <2>2, <2>4
  <2> QED
    BY <2>1, <2>5, <2>6 DEF legal, many
<1>12. ASSUME item < Size(at, Function) PROVE defined_function = Entity(at, Function, item + 1)
  <2>1. item + 1 \in 1 .. Size(at, Function)
    BY <1>1, <1>4, <1>12
  <2> QED
    BY <1>4, <2>1 DEF Leads, defined_function
<1>13. ~Passed(12, at)
  BY <1>1 DEF Passed, Modules
<1> HIDE DEF first, second
<1> QED
  BY <1>1, <1>2, <1>3, <1>4, <1>11, <1>12, <1>13

LEMMA BadBodyKeeps ==
  ASSUME PInv, Reading("Code"), item < Len(Module.code), code_error # "none", Raise(code_error)
  PROVE  PInv'
<1>1. /\ item \in Nat /\ item + 1 \in DOMAIN modules[at].code
      /\ item < Len(modules[at].code) /\ Len(modules[at].code) \in Nat
      /\ Size(at, Function) \in Nat
      /\ code_error \in BodyErrors \cup {"none"}
      /\ code_error = "none" <=>
           /\ modules[at].code[item + 1].locals = 0
           /\ item < Size(at, Function)
           /\ \A n \in DOMAIN Code(at, item + 1) :
                Acceptable(Code(at, item + 1)[n], n, modules[at])
  BY BodyHere
<1>2. ~LegalCode(at)
  <2>1. CASE item < Size(at, Function)
    BY <1>1, <2>1 DEF LegalCode
  <2>2. CASE ~(item < Size(at, Function))
    <3>1. Len(modules[at].code) # Size(at, Function)
      BY <1>1, <2>2
    <3> QED
      BY <3>1 DEF LegalCode
  <2> QED
    BY <2>1, <2>2
<1>3. code_error \notin {"linking", "created"}
  BY <1>1 DEF BodyErrors
<1> QED
  BY <1>2, <1>3, IllegalRaises

LEMMA BodyRaisesKeeps ==
  ASSUME PInv, BodyRaises
  PROVE  PInv'
BY BadBodyKeeps DEF BodyRaises

LEMMA BodyNeverEndsKeeps ==
  ASSUME PInv, BodyNeverEnds
  PROVE  PInv'
<1>1. Reading("Code") /\ item < Len(Module.code) /\ code_error # "none" /\ Raise(code_error)
  BY DEF BodyNeverEnds
<1> QED
  BY <1>1, BadBodyKeeps

LEMMA ReadBodyKeeps ==
  ASSUME PInv, ReadBody
  PROVE  PInv'
<1> DEFINE b0 == item + 1
           e == Entity(at, Function, b0)
           new == << finalized_code(Code(at, b0)) >>
<1>0. Reading("Code") /\ item < Len(Module.code) /\ code_error = "none"
  BY DEF ReadBody
<1>1. /\ phase = 12 /\ status = "linking" /\ at \in Modules /\ modules \in Programs
      /\ item \in Nat /\ b0 \in DOMAIN modules[at].code
      /\ item < Len(modules[at].code) /\ Len(modules[at].code) \in Nat
      /\ Body.instructions = Code(at, b0)
      /\ Size(at, Function) \in Nat
      /\ modules[at].code[b0].locals = 0
      /\ item < Size(at, Function)
      /\ \A n \in DOMAIN Code(at, b0) : Acceptable(Code(at, b0)[n], n, modules[at])
      /\ defined_function = e
      /\ ~Passed(12, at)
  BY <1>0, BodyHere
<1>2. /\ UNCHANGED << modules, phase, at, function_signatures, index_spaces, exports,
                      start_function, numbered, status >>
      /\ item' = b0
  BY DEF ReadBody
<1>3. objects' = [objects EXCEPT ![e]["code"] = new]
  BY <1>1 DEF ReadBody
<1>4. /\ Modules' = Modules
      /\ \A m, k : Size(m, k)' = Size(m, k)
      /\ \A m, y : Means(m, y)' = Means(m, y) /\ NameOf(m, y)' = NameOf(m, y)
      /\ \A m, b : Code(m, b)' = Code(m, b)
      /\ Linkable' <=> Linkable
  BY <1>2, SameModules
<1>5. /\ \A s, m : Passed(s, m)' <=> Passed(s, m)
      /\ \A m, x : ExportRead(m, x)' /\ ExportRead(m, x)
      /\ \A m, k : SizeRead(m, k)' = SizeRead(m, k)
  <2>1. \A s, m : Passed(s, m)' <=> Passed(s, m)
    BY <1>2 DEF Passed
  <2>2. \A m, x : ExportRead(m, x)' /\ ExportRead(m, x)
    BY <1>1, <1>2 DEF ExportRead, Passed
  <2> QED
    BY <1>4, <2>1, <2>2 DEF SizeRead
<1>6. ASSUME NEW m \in Modules, NEW y \in Nat
      PROVE  BodyRead(m, y)' <=> BodyRead(m, y) \/ (m = at /\ y = b0)
  <2>1. y <= b0 <=> y <= item \/ y = b0
    BY <1>1
  <2> QED
    BY <1>1, <1>2, <1>5, <2>1 DEF BodyRead
<1>7. /\ b0 \in 1 .. SizeRead(at, Function) /\ Function \in Kinds
      /\ \A m \in Modules : SizeRead(m, Function) = Size(m, Function) /\ Size(m, Function) \in Nat
  <2>1. \A m \in Modules : SizeRead(m, Function) = Size(m, Function)
    BY <1>1 DEF SizeRead, Passed, Function
  <2> QED
    BY <1>1, <2>1, SizeFacts DEF Kinds
<1>8. e \in DOMAIN objects /\ "code" \in DOMAIN objects[e]
  <2>1. e \in DOMAIN objects /\ e[2] = Function
    BY <1>1, <1>7 DEF PInv, Attributes, Entity
  <2> HIDE DEF e
  <2> QED
    BY <2>1 DEF PInv, Attributes
<1>9. /\ DOMAIN objects' = DOMAIN objects
      /\ \A d \in DOMAIN objects : DOMAIN (objects'[d]) = DOMAIN (objects[d])
      /\ objects'[e]["code"] = new
      /\ \A d \in DOMAIN objects : \A a \in DOMAIN objects[d] :
           ~(d = e /\ a = "code") => objects'[d][a] = objects[d][a]
  <2> HIDE DEF e, new
  <2> QED
    BY <1>3, <1>8, Assigned
<1>10. Position'
  BY <1>1, <1>2, <1>4 DEF PInv, Position
<1>11. Checked'
  BY <1>2, <1>4, <1>5 DEF PInv, Checked
<1>12. Spaces' /\ Named' /\ Built'
  BY <1>1, <1>2 DEF Spaces, Named, Built
<1>13. Attributes'
  BY <1>2, <1>4, <1>5, <1>9 DEF PInv, Attributes, Entity
<1>14. Distinct'
  BY <1>2, <1>4, <1>5 DEF PInv, Distinct
<1>15. Started'
  BY <1>1, <1>2, <1>4 DEF PInv, Started
<1>16. Numbered'
  BY <1>2, <1>4, ZenonT(40) DEF PInv, Numbered, Leads, Entity
<1>17. Outcome'
  BY <1>1, <1>2 DEF Outcome
<1>18. Coded'
  <2>1. ASSUME NEW m \in Modules, NEW b \in DOMAIN modules[m].code, BodyRead(m, b)'
        PROVE  /\ modules[m].code[b].locals = 0
               /\ b <= Size(m, Function)
               /\ \A n \in DOMAIN Code(m, b) : Acceptable(Code(m, b)[n], n, modules[m])
    <3>1. b \in Nat
      BY <1>1, BodyFacts
    <3>2. CASE BodyRead(m, b)
      BY <3>2 DEF PInv, Coded
    <3>3. CASE m = at /\ b = b0
      BY <1>1, <3>3
    <3> QED
      BY <1>6, <2>1, <3>1, <3>2, <3>3
  <2>2. ASSUME NEW m \in Modules, NEW i \in 1 .. SizeRead(m, Function)
        PROVE  objects'[Entity(m, Function, i)].code # None <=>
                 (i \in DOMAIN modules[m].code /\ BodyRead(m, i)')
    <3>1. i \in Nat
      BY <1>7
    <3>2. CASE m = at /\ i = b0
      <4>1. objects'[Entity(m, Function, i)].code = new /\ new # None
        BY <1>9, <3>2 DEF None
      <4>2. i \in DOMAIN modules[m].code /\ BodyRead(m, i)'
        BY <1>1, <1>6, <3>1, <3>2
      <4> HIDE DEF new
      <4> QED
        BY <4>1, <4>2
    <3>3. CASE ~(m = at /\ i = b0)
      <4>1. Entity(m, Function, i) # e
        BY <3>3 DEF Entity
      <4>2. /\ Entity(m, Function, i) \in DOMAIN objects
            /\ "code" \in DOMAIN objects[Entity(m, Function, i)]
        <5>1. Entity(m, Function, i) \in DOMAIN objects /\ Entity(m, Function, i)[2] = Function
          BY <1>7 DEF PInv, Attributes, Entity
        <5> QED
          BY <5>1 DEF PInv, Attributes
      <4>3. objects'[Entity(m, Function, i)].code = objects[Entity(m, Function, i)].code
        BY <1>9, <4>1, <4>2
      <4>4. BodyRead(m, i)' <=> BodyRead(m, i)
        BY <1>6, <3>1, <3>3
      <4> QED
        BY <4>3, <4>4 DEF PInv, Coded
    <3> QED
      BY <3>2, <3>3
  <2>3. \A m, b : Code(m, b)' = Code(m, b)
    BY <1>4
  <2> HIDE DEF e, b0, new
  <2>4. ASSUME NEW m \in Modules, NEW b \in DOMAIN modules[m].code, BodyRead(m, b)'
        PROVE  /\ modules[m].code[b].locals = 0
               /\ b <= Size(m, Function)'
               /\ \A n \in DOMAIN Code(m, b)' : Acceptable(Code(m, b)'[n], n, modules[m])
    BY <1>4, <2>1, <2>4
  <2>5. ASSUME NEW m \in Modules, NEW i \in 1 .. SizeRead(m, Function)'
        PROVE  objects'[Entity(m, Function, i)].code # None <=>
                 (i \in DOMAIN modules[m].code /\ BodyRead(m, i)')
    BY <1>5, <2>2, <2>3
  <2> QED
    BY <1>2, <1>4, <2>4, <2>5 DEF Coded, Entity, None
<1> QED
  BY <1>10, <1>11, <1>12, <1>13, <1>14, <1>15, <1>16, <1>17, <1>18 DEF PInv

------------------------------------------------------------------------------
(* The program is created.                                                 *)

LEMMA CreateHere ==
  ASSUME PInv, Reading("Create")
  PROVE  /\ phase = 13 /\ status = "linking" /\ modules \in Programs
         /\ item \in Nat /\ Len(numbered[Function]) \in Nat
<1>1. phase = 13 /\ status = "linking" /\ modules \in Programs
  BY ReadingFacts, PhaseFacts
<1>2. Function \in Kinds /\ phase > 11
  BY <1>1 DEF Kinds
<1> QED
  BY <1>1, <1>2 DEF PInv, Position, Numbered

(* Nothing that has been linked is changed any more.                       *)
LEMMA CreatingKeeps ==
  ASSUME PInv, phase = 13, item' \in Nat,
         UNCHANGED << modules, phase, at, function_signatures, index_spaces, objects,
                      exports, start_function, numbered >>,
         Built', Outcome'
  PROVE  PInv'
<1>1. /\ Modules' = Modules
      /\ \A m, k : Size(m, k)' = Size(m, k)
      /\ \A m, x : Means(m, x)' = Means(m, x) /\ NameOf(m, x)' = NameOf(m, x)
      /\ \A m, b : Code(m, b)' = Code(m, b)
  BY SameModules
<1>2. /\ \A s, m : Passed(s, m)' <=> Passed(s, m)
      /\ \A m, x : ExportRead(m, x)' <=> ExportRead(m, x)
      /\ \A m, b : BodyRead(m, b)' <=> BodyRead(m, b)
      /\ \A m, k : SizeRead(m, k)' = SizeRead(m, k)
  BY <1>1 DEF Passed, ExportRead, BodyRead, SizeRead
<1>3. Position'
  BY <1>1 DEF PInv, Position
<1>4. Checked'
  BY <1>1, <1>2 DEF PInv, Checked
<1>5. Spaces' /\ Named'
  BY DEF Spaces, Named
<1>6. Attributes'
  BY <1>1, <1>2 DEF PInv, Attributes, Entity
<1>7. Distinct'
  BY <1>1, <1>2 DEF PInv, Distinct
<1>8. Started'
  BY <1>1 DEF PInv, Started
<1>9. Numbered'
  BY <1>1, <1>2, ZenonT(40) DEF PInv, Numbered, Leads, Entity
<1>10. Coded'
  BY <1>1, <1>2 DEF PInv, Coded, Entity
<1> QED
  BY <1>3, <1>4, <1>5, <1>6, <1>7, <1>8, <1>9, <1>10 DEF PInv

LEMMA CreateFunctionKeeps ==
  ASSUME PInv, CreateFunction
  PROVE  PInv'
<1>1. /\ phase = 13 /\ status = "linking" /\ item \in Nat /\ Len(numbered[Function]) \in Nat
      /\ item < Len(numbered[Function])
      /\ objects[numbered[Function][item + 1]].code # None
  BY CreateHere DEF CreateFunction, Serialized
<1>2. /\ item' = item + 1
      /\ UNCHANGED << modules, phase, at, function_signatures, index_spaces, objects,
                      exports, start_function, numbered, status >>
  BY DEF CreateFunction
<1>3. Built'
  <2>1. \A j \in 1 .. item + 1 : j \in 1 .. item \/ j = item + 1
    BY <1>1
  <2>2. \A j \in 1 .. item : objects[numbered[Function][j]].code # None
    BY <1>1 DEF PInv, Built
  <2> QED
    BY <1>1, <1>2, <2>1, <2>2 DEF Built, Function, None
<1>4. Outcome'
  BY <1>1, <1>2 DEF Outcome
<1> QED
  BY <1>1, <1>2, <1>3, <1>4, CreatingKeeps

LEMMA CreateProgramKeeps ==
  ASSUME PInv, CreateProgram
  PROVE  PInv'
<1>1. /\ phase = 13 /\ status = "linking" /\ item \in Nat /\ Len(numbered[Function]) \in Nat
      /\ item = Len(numbered[Function])
  BY CreateHere DEF CreateProgram
<1>2. /\ item' = item /\ status' = "created"
      /\ UNCHANGED << modules, phase, at, function_signatures, index_spaces, objects,
                      exports, start_function, numbered >>
  BY DEF CreateProgram
<1>3. Built'
  BY <1>1, <1>2 DEF PInv, Built, Function, None
<1>4. Outcome'
  BY <1>1, <1>2 DEF Outcome, Function
<1> QED
  BY <1>1, <1>2, <1>3, <1>4, CreatingKeeps

LEMMA SerializeRaisesKeeps ==
  ASSUME PInv, SerializeRaises
  PROVE  PInv'
<1> DEFINE j == item + 1
<1>1. /\ phase = 13 /\ modules \in Programs /\ j \in 1 .. Len(numbered[Function])
      /\ objects[numbered[Function][j]].code = None
      /\ Raise("TypeError")
  BY CreateHere DEF SerializeRaises, Serialized
<1> HIDE DEF j
<1>2. Function \in Kinds /\ phase > 11
  BY <1>1 DEF Kinds
<1>3. PICK m \in Modules : \E i \in 1 .. Size(m, Function) :
        numbered[Function][j] = Entity(m, Function, i)
  BY <1>1, <1>2 DEF PInv, Numbered
<1>4. PICK i \in 1 .. Size(m, Function) : numbered[Function][j] = Entity(m, Function, i)
  BY <1>3
<1>5. SizeRead(m, Function) = Size(m, Function) /\ BodyRead(m, i)
  BY <1>1 DEF SizeRead, BodyRead, Passed, Function
<1>6. i \notin DOMAIN modules[m].code
  <2>1. objects[Entity(m, Function, i)].code = None
    BY <1>1, <1>4
  <2> QED
    BY <1>5, <2>1 DEF PInv, Coded
<1>7. ~LegalCode(m)
  <2>1. DOMAIN modules[m].code = 1 .. Len(modules[m].code) /\ Len(modules[m].code) \in Nat
    BY <1>1, BodyFacts
  <2>2. Size(m, Function) \in Nat
    BY <1>1, <1>2, SizeFacts
  <2> QED
    BY <1>6, <2>1, <2>2 DEF LegalCode
<1>8. ~Linkable
  BY <1>1, <1>7, LinkableIs
<1> QED
  BY <1>1, <1>8, RaiseKeeps

------------------------------------------------------------------------------
(* PInv is inductive.                                                      *)

LEMMA InitPInv ==
  ASSUME Init
  PROVE  PInv
<1>1. /\ modules \in Programs /\ phase = 1 /\ at = 1 /\ item = 0 /\ status = "linking"
      /\ Len(modules) \in Nat /\ DOMAIN modules = Modules /\ 1 \in Modules
  BY ModulesFacts DEF Init, Modules
<1>2. /\ \A s \in 1 .. 13 : \A m \in Modules : ~Passed(s, m)
      /\ \A m \in Modules : \A x : ~ExportRead(m, x)
      /\ \A m \in Modules : \A b : ~BodyRead(m, b)
  BY <1>1 DEF Passed, ExportRead, BodyRead, Modules
<1>3. \A m \in Modules : \A k \in Kinds : SizeRead(m, k) = 0
  <2>1. \A k \in Kinds : k + 3 \in 1 .. 13
    BY DEF Kinds, Function, Table, Memory
  <2> QED
    BY <1>2, <2>1 DEF SizeRead
<1>4. DOMAIN objects = {} /\ DOMAIN exports = {}
  BY DEF Init
<1>5. Position
  BY <1>1 DEF Position
<1>6. Checked
  <2>1. DOMAIN function_signatures = Modules
    BY <1>1 DEF Init
  <2>2. \A s \in {1, 2, 3, 6, 7, 8} : \A m \in Modules : ~Passed(s, m)
    BY <1>2
  <2> QED
    BY <2>1, <2>2 DEF Checked
<1>7. Spaces
  <2>1. ASSUME NEW m \in Modules, NEW k \in Kinds
        PROVE  << >> = [i \in 1 .. SizeRead(m, k) |-> Entity(m, k, i)]
    <3>1. << >> = [i \in 1 .. 0 |-> Entity(m, k, i)]
      OBVIOUS
    <3> QED
      BY <1>3, <3>1
  <2>2. index_spaces = [m \in Modules |-> [k \in Kinds |-> << >>]]
    BY <1>1 DEF Init
  <2>3. index_spaces = [m \in Modules |-> [k \in Kinds |->
                          [i \in 1 .. SizeRead(m, k) |-> Entity(m, k, i)]]]
    BY <2>1, <2>2
  <2>4. numbered = [k \in Kinds |-> << >>]
    BY DEF Init
  <2> QED
    BY <2>3, <2>4 DEF Spaces
<1>8. Attributes
  BY <1>3, <1>4 DEF Attributes
<1>9. Distinct
  BY <1>2 DEF Distinct
<1>10. Named
  BY <1>2, <1>4 DEF Named
<1>11. Started /\ Numbered /\ Built /\ Outcome
  BY <1>1 DEF Started, Numbered, Built, Outcome
<1>12. Coded
  <2>1. \A m \in Modules : SizeRead(m, Function) = 0
    BY <1>3 DEF Kinds
  <2> QED
    BY <1>2, <2>1 DEF Coded
<1> QED
  BY <1>5, <1>6, <1>7, <1>8, <1>9, <1>10, <1>11, <1>12 DEF PInv

LEMMA NextPInv ==
  ASSUME PInv, [Next]_vars
  PROVE  PInv'
<1>1. CASE ReadTypeSection
  BY <1>1, ReadTypeSectionKeeps
<1>2. CASE ReadImportSection
  BY <1>2, ReadImportSectionKeeps
<1>3. CASE ImportRaises
  BY <1>3, ImportRaisesKeeps
<1>4. CASE ReadFunctionSection
  BY <1>4, ReadFunctionSectionKeeps
<1>5. CASE FunctionRaises
  BY <1>5, FunctionRaisesKeeps
<1>6. CASE ReadTableSection
  BY <1>6, ReadTableSectionKeeps
<1>7. CASE ReadMemorySection
  BY <1>7, ReadMemorySectionKeeps
<1>8. CASE ReadGlobalSection
  BY <1>8, ReadGlobalSectionKeeps
<1>9. CASE ReadElementSection
  BY <1>9, ReadElementSectionKeeps
<1>10. CASE ReadDataSection
  BY <1>10, ReadDataSectionKeeps
<1>11. CASE ResolveExport
  BY <1>11, ResolveExportKeeps
<1>12. CASE ExportRaises
  BY <1>12, ExportRaisesKeeps
<1>13. CASE EndExports
  BY <1>13, EndExportsKeeps
<1>14. CASE ReadStartSection
  BY <1>14, ReadStartSectionKeeps
<1>15. CASE StartRaises
  BY <1>15, StartRaisesKeeps
<1>16. CASE MapModules
  BY <1>16, MapModulesKeeps
<1>17. CASE ReadBody
  BY <1>17, ReadBodyKeeps
<1>18. CASE BodyRaises
  BY <1>18, BodyRaisesKeeps
<1>19. CASE BodyNeverEnds
  BY <1>19, BodyNeverEndsKeeps
<1>20. CASE EndCode
  BY <1>20, EndCodeKeeps
<1>21. CASE CreateFunction
  BY <1>21, CreateFunctionKeeps
<1>22. CASE SerializeRaises
  BY <1>22, SerializeRaisesKeeps
<1>23. CASE CreateProgram
  BY <1>23, CreateProgramKeeps
<1>24. CASE UNCHANGED vars
  <2>1. UNCHANGED << modules, phase, at, item, function_signatures, index_spaces, objects,
                     exports, start_function, numbered, status >>
    BY <1>24 DEF vars
  <2>2. Outcome'
    <3>1. Linkable' <=> Linkable
      BY <2>1, SameModules
    <3> QED
      BY <2>1, <3>1 DEF PInv, Outcome
  <2> QED
    BY <2>1, <2>2, UnchangedKeeps
<1> QED
  BY <1>1, <1>2, <1>3, <1>4, <1>5, <1>6, <1>7, <1>8, <1>9, <1>10, <1>11, <1>12, <1>13, <1>14,
     <1>15, <1>16, <1>17, <1>18, <1>19, <1>20, <1>21, <1>22, <1>23, <1>24 DEF Next

LEMMA PInvHolds == Spec => []PInv
<1>1. Init => PInv
  BY InitPInv
<1>2. PInv /\ [Next]_vars => PInv'
  BY NextPInv
<1> QED
  BY <1>1, <1>2, PTL DEF Spec

------------------------------------------------------------------------------
(* The ids of the types and the code of the functions.  Both are kept by   *)
(* every step: the ids are given in the first phase only, the code when    *)
(* all numbers are known.                                                  *)

AllTypes == UNION {{modules[m].types[t] : t \in DOMAIN modules[m].types} : m \in Modules}

Typed ==
  /\ signatures \in Seq(AllTypes)
  /\ IsInjective(signatures)
  /\ \A m \in Modules : Passed(1, m) => \A t \in DOMAIN modules[m].types :
       /\ function_signatures[m][t] \in 0 .. Len(signatures) - 1
       /\ signatures[function_signatures[m][t] + 1] = modules[m].types[t]

Mapping(m, i) ==
  CASE i.op = "call" -> index_spaces[m][Function][i.index + 1]
    [] i.op = "call_indirect" -> function_signatures[m][i.index + 1]
    [] OTHER -> i.index
Final(m, b) ==
  [n \in DOMAIN Code(m, b) |-> [op |-> Code(m, b)[n].op, index |-> Mapping(m, Code(m, b)[n])]]

Resolved ==
  \A m \in Modules : \A i \in 1 .. SizeRead(m, Function) :
    objects[Entity(m, Function, i)].code # None =>
      objects[Entity(m, Function, i)].code = << Final(m, i) >>

LEMMA StepFacts ==
  ASSUME PInv, [Next]_vars
  PROVE  /\ \/ ReadTypeSection
            \/ /\ UNCHANGED << modules, signatures, function_signatures >>
               /\ phase > 1 \/ UNCHANGED << phase, at >>
         /\ \/ ReadBody
            \/ MapModules
            \/ phase' <= 11
            \/ /\ phase > 11 /\ phase' > 11
               /\ UNCHANGED << modules, index_spaces, function_signatures, objects >>
<1>1. phase \in 1 .. 13
  BY DEF PInv, Position
<1>2. /\ \A section \in {"Import", "Function", "Table", "Memory", "Global", "Element", "Data",
                         "Export", "Start"} :
           Phases[phase] = section => phase > 1 /\ phase < 11
      /\ Phases[phase] \in {"Code", "Create"} => phase > 11
      /\ Phases[phase] = "Map" => phase = 11
      /\ Phases[phase] = "Type" => phase = 1
  BY <1>1, PhaseFacts
<1> DEFINE Goal ==
      /\ \/ ReadTypeSection
         \/ /\ UNCHANGED << modules, signatures, function_signatures >>
            /\ phase > 1 \/ UNCHANGED << phase, at >>
      /\ \/ ReadBody
         \/ MapModules
         \/ phase' <= 11
         \/ /\ phase > 11 /\ phase' > 11
            /\ UNCHANGED << modules, index_spaces, function_signatures, objects >>
<1>3. CASE ReadTypeSection
  <2>1. phase = 1
    BY <1>2, <1>3 DEF ReadTypeSection, Reading
  <2>2. phase' <= 11
    BY <1>3, <2>1 DEF ReadTypeSection, NextModule
  <2> QED
    BY <1>3, <2>2
<1>4. CASE ReadImportSection \/ ImportRaises
  BY <1>1, <1>2, <1>4 DEF ReadImportSection, ImportRaises, Reading, NextModule, Raise
<1>5. CASE ReadFunctionSection \/ FunctionRaises
  BY <1>1, <1>2, <1>5 DEF ReadFunctionSection, FunctionRaises, Reading, NextModule, Raise
<1>6. CASE ReadTableSection \/ ReadMemorySection
  BY <1>1, <1>2, <1>6 DEF ReadTableSection, ReadMemorySection, Reading, NextModule
<1>7. CASE ReadGlobalSection \/ ReadElementSection \/ ReadDataSection
  <2>1. PICK section \in {"Global", "Element", "Data"} :
          \E n : ReadEmptySection(section, n) \/ SectionRaises(section, n)
    BY <1>7 DEF ReadGlobalSection, ReadElementSection, ReadDataSection
  <2> QED
    BY <1>1, <1>2, <2>1 DEF ReadEmptySection, SectionRaises, Reading, NextModule, Raise
<1>8. CASE ResolveExport
  BY <1>1, <1>2, <1>8 DEF ResolveExport, Reading
<1>9. CASE ExportRaises \/ EndExports
  BY <1>1, <1>2, <1>9 DEF ExportRaises, EndExports, Reading, NextModule, Raise
<1>10. CASE ReadStartSection \/ StartRaises
  BY <1>1, <1>2, <1>10 DEF ReadStartSection, StartRaises, Reading, Raise
<1>11. CASE MapModules
  BY <1>1, <1>2, <1>11 DEF MapModules, Reading
<1>12. CASE ReadBody
  BY <1>1, <1>2, <1>12 DEF ReadBody, Reading
<1>13. CASE BodyRaises \/ BodyNeverEnds \/ EndCode
  BY <1>1, <1>2, <1>13 DEF BodyRaises, BodyNeverEnds, EndCode, Reading, NextModule, Raise
<1>14. CASE CreateFunction \/ SerializeRaises \/ CreateProgram
  BY <1>1, <1>2, <1>14 DEF CreateFunction, SerializeRaises, CreateProgram, Reading, Raise
<1>15. CASE UNCHANGED vars
  BY <1>1, <1>15 DEF vars
<1> QED
  BY <1>3, <1>4, <1>5, <1>6, <1>7, <1>8, <1>9, <1>10, <1>11, <1>12, <1>13, <1>14, <1>15 DEF Next

LEMMA TypesFacts ==
  ASSUME modules \in Programs, NEW m \in Modules
  PROVE  /\ modules[m].types \in Seq(AllTypes)
         /\ Len(modules[m].types) \in Nat
         /\ DOMAIN modules[m].types = 1 .. Len(modules[m].types)
<1> DEFINE s == modules[m].types
           T == {s[t] : t \in DOMAIN s}
<1>1. IsList(s)
  BY ModulesFacts DEF IsModule
<1>2. s \in Seq(T)
  BY <1>1 DEF IsList
<1>3. T \subseteq AllTypes
  BY DEF AllTypes
<1> HIDE DEF s, T
<1> QED
  BY <1>2, <1>3 DEF s

LEMMA ReadTypesTyped ==
  ASSUME PInv, Typed, ReadTypeSection
  PROVE  Typed'
<1> DEFINE types == modules[at].types
<1>1. phase = 1 /\ at \in Modules /\ modules \in Programs
  BY ReadingFacts, PhaseFacts DEF ReadTypeSection
<1>2. types \in Seq(AllTypes)
  BY <1>1, TypesFacts
<1>3. /\ UNCHANGED modules /\ NextModule
      /\ signatures' = AddKeys(signatures, types)
      /\ function_signatures' = [function_signatures EXCEPT ![at] =
           [i \in DOMAIN types |-> IdOf(signatures', types[i])]]
      /\ DOMAIN function_signatures = Modules
  BY DEF ReadTypeSection, Module, PInv, Checked
<1>4. Modules' = Modules /\ AllTypes' = AllTypes
  BY <1>3 DEF Modules, AllTypes
<1> DEFINE new == signatures'
<1>5. /\ new \in Seq(AllTypes) /\ IsInjective(new)
      /\ \A x : Has(new, x) <=> Has(signatures, x) \/ Has(types, x)
      /\ Extends(signatures, new)
  <2>1. signatures \in Seq(AllTypes) /\ IsInjective(signatures)
    BY DEF Typed
  <2> HIDE DEF types
  <2> QED
    BY <1>2, <1>3, <2>1, AddKeysFacts, Zenon
<1>6. \A m \in Modules : Passed(1, m)' <=> Passed(1, m) \/ m = at
  <2>1. Position /\ phase \in 1 .. 9 \cup {12} /\ phase # 9 /\ phase # 12
    BY <1>1 DEF PInv
  <2> QED
    BY <1>1, <1>3, <2>1, NextModuleFacts
<1>7. ASSUME NEW m \in Modules, Passed(1, m)', NEW t \in DOMAIN modules[m].types
      PROVE  /\ function_signatures'[m][t] \in 0 .. Len(new) - 1
             /\ new[function_signatures'[m][t] + 1] = modules[m].types[t]
  <2>1. CASE m = at
    <3>1. function_signatures'[m][t] = IdOf(new, types[t])
      BY <1>3, <2>1
    <3>2. Has(new, types[t])
      BY <1>5, <2>1 DEF Has
    <3> HIDE DEF new, types
    <3>3. /\ IdOf(new, types[t]) \in 0 .. Len(new) - 1
          /\ new[IdOf(new, types[t]) + 1] = types[t]
      BY <1>5, <3>2, IdOfFacts
    <3> QED
      BY <2>1, <3>1, <3>3 DEF types
  <2>2. CASE m # at
    <3> DEFINE id == function_signatures[m][t]
    <3>1. function_signatures'[m][t] = id
      BY <1>3, <2>2
    <3>2. id \in 0 .. Len(signatures) - 1 /\ signatures[id + 1] = modules[m].types[t]
      BY <1>6, <1>7, <2>2 DEF Typed
    <3>3. signatures \in Seq(AllTypes)
      BY DEF Typed
    <3> HIDE DEF new, id
    <3>4. id + 1 \in DOMAIN signatures
      BY <3>2, <3>3
    <3>5. id + 1 \in DOMAIN new /\ new[id + 1] = signatures[id + 1]
      BY <1>5, <3>4 DEF Extends
    <3>6. id \in 0 .. Len(new) - 1
      BY <1>5, <3>2, <3>3, <3>5
    <3> QED
      BY <3>1, <3>2, <3>5, <3>6
  <2> QED
    BY <2>1, <2>2
<1>8. \A m \in Modules : Passed(1, m)' => \A t \in DOMAIN modules'[m].types :
        /\ function_signatures'[m][t] \in 0 .. Len(signatures') - 1
        /\ signatures'[function_signatures'[m][t] + 1] = modules'[m].types[t]
  BY <1>3, <1>7
<1>9. signatures' \in Seq(AllTypes') /\ IsInjective(signatures')
  BY <1>4, <1>5
<1>10. IsInjective(signatures)' <=> IsInjective(signatures')
  BY DEF IsInjective
<1> QED
  BY <1>4, <1>8, <1>9, <1>10 DEF Typed

LEMMA TypedHolds == Spec => []Typed
<1>1. Init => Typed
  <2> SUFFICES ASSUME Init PROVE Typed
    OBVIOUS
  <2>1. phase = 1 /\ at = 1 /\ signatures = << >>
    BY DEF Init
  <2>2. \A m \in Modules : ~Passed(1, m)
    BY <2>1 DEF Passed, Modules
  <2> QED
    BY <2>1, <2>2 DEF Typed, IsInjective
<1>2. PInv /\ Typed /\ [Next]_vars => Typed'
  <2> SUFFICES ASSUME PInv, Typed, [Next]_vars PROVE Typed'
    OBVIOUS
  <2>1. CASE ReadTypeSection
    BY <2>1, ReadTypesTyped
  <2>2. CASE /\ UNCHANGED << modules, signatures, function_signatures >>
             /\ phase > 1 \/ UNCHANGED << phase, at >>
    <3>1. Modules' = Modules /\ AllTypes' = AllTypes
      BY <2>2 DEF Modules, AllTypes
    <3>2. \A m \in Modules : Passed(1, m)' => Passed(1, m)
      BY <2>2 DEF Passed
    <3> QED
      BY <2>2, <3>1, <3>2 DEF Typed
  <2> QED
    BY <2>1, <2>2, StepFacts
<1> QED
  BY <1>1, <1>2, PInvHolds, PTL DEF Spec

(* No body has been read before the numbers were given.                    *)
Unread ==
  phase <= 11 \/ (phase = 12 /\ at = 1 /\ item = 0) =>
    \A m \in Modules : \A i \in 1 .. SizeRead(m, Function) :
      objects[Entity(m, Function, i)].code = None

LEMMA PInvUnread == PInv => Unread
<1> SUFFICES ASSUME PInv, phase <= 11 \/ (phase = 12 /\ at = 1 /\ item = 0),
                    NEW m \in Modules, NEW i \in 1 .. SizeRead(m, Function)
             PROVE  objects[Entity(m, Function, i)].code = None
  BY DEF Unread
<1>1. phase \in 1 .. 13 /\ modules \in Programs /\ Function \in Kinds
  BY DEF PInv, Position, Kinds
<1>2. m \in Nat /\ 1 <= m /\ i \in Nat /\ 1 <= i
  BY <1>1, ModulesFacts, SizeFacts DEF Modules
<1>3. ~BodyRead(m, i)
  BY <1>1, <1>2 DEF BodyRead, Passed
<1> QED
  BY <1>3 DEF PInv, Coded

LEMMA ReadBodyResolved ==
  ASSUME PInv, Resolved, ReadBody
  PROVE  Resolved'
<1> DEFINE b0 == item + 1
           e == Entity(at, Function, b0)
           new == << finalized_code(Code(at, b0)) >>
<1>1. /\ phase = 12 /\ at \in Modules /\ modules \in Programs /\ item \in Nat
      /\ Body.instructions = Code(at, b0)
      /\ item < Size(at, Function) /\ Size(at, Function) \in Nat
      /\ defined_function = e
  BY BodyHere DEF ReadBody
<1>2. /\ UNCHANGED << modules, phase, at, index_spaces, function_signatures >>
      /\ objects' = [objects EXCEPT ![e]["code"] = new]
  BY <1>1 DEF ReadBody
<1>3. /\ Modules' = Modules
      /\ \A m : SizeRead(m, Function)' = SizeRead(m, Function)
      /\ \A m, b : Final(m, b)' = Final(m, b)
  BY <1>2 DEF Modules, SizeRead, Size, Passed, Final, Mapping, Code
<1>4. \A m \in Modules : SizeRead(m, Function) = Size(m, Function)
  BY <1>1 DEF SizeRead, Passed, Function
<1>5. ASSUME NEW m \in Modules, NEW i \in 1 .. SizeRead(m, Function)
      PROVE  /\ Entity(m, Function, i) \in DOMAIN objects
             /\ "code" \in DOMAIN objects[Entity(m, Function, i)]
  <2>1. Entity(m, Function, i) \in DOMAIN objects /\ Entity(m, Function, i)[2] = Function
    <3>1. Function \in Kinds
      BY DEF Kinds
    <3> QED
      BY <3>1 DEF PInv, Attributes, Entity
  <2> QED
    BY <2>1 DEF PInv, Attributes
<1>6. /\ objects'[e]["code"] = new
      /\ \A d \in DOMAIN objects : \A a \in DOMAIN objects[d] :
           ~(d = e /\ a = "code") => objects'[d][a] = objects[d][a]
  <2>1. b0 \in 1 .. SizeRead(at, Function)
    BY <1>1, <1>4
  <2>2. e \in DOMAIN objects /\ "code" \in DOMAIN objects[e]
    BY <1>1, <1>5, <2>1
  <2> HIDE DEF e, new
  <2> QED
    BY <1>2, <2>2, Assigned
<1>7. new = << Final(at, b0) >>
  BY DEF finalized_code, map_index, Final, Mapping
<1>8. ASSUME NEW m \in Modules, NEW i \in 1 .. SizeRead(m, Function),
             objects'[Entity(m, Function, i)].code # None
      PROVE  objects'[Entity(m, Function, i)].code = << Final(m, i) >>
  <2>1. CASE m = at /\ i = b0
    BY <1>6, <1>7, <2>1
  <2>2. CASE ~(m = at /\ i = b0)
    <3>1. Entity(m, Function, i) # e
      BY <2>2 DEF Entity
    <3> HIDE DEF e, b0, new
    <3>2. objects'[Entity(m, Function, i)].code = objects[Entity(m, Function, i)].code
      BY <1>5, <1>6, <3>1
    <3> QED
      BY <1>8, <3>2 DEF Resolved
  <2> QED
    BY <2>1, <2>2
<1> HIDE DEF e, b0, new
<1> QED
  BY <1>3, <1>8 DEF Resolved, Entity, Function, None

LEMMA ResolvedHolds == Spec => []Resolved
<1>1. Init => Resolved
  <2> SUFFICES ASSUME Init PROVE Resolved
    OBVIOUS
  <2>1. PInv /\ phase = 1
    BY InitPInv DEF Init
  <2> QED
    BY <2>1, PInvUnread DEF Resolved, Unread
<1>2. PInv /\ PInv' /\ Unread' /\ Resolved /\ [Next]_vars => Resolved'
  <2> SUFFICES ASSUME PInv, PInv', Unread', Resolved, [Next]_vars PROVE Resolved'
    OBVIOUS
  <2>1. CASE ReadBody
    BY <2>1, ReadBodyResolved
  <2>2. CASE phase' <= 11 \/ (phase' = 12 /\ at' = 1 /\ item' = 0)
    BY <2>2 DEF Unread, Resolved, Entity, Function, None
  <2>3. CASE MapModules
    <3>1. phase = 11 /\ at = 1 /\ item = 0
      BY <2>3, ReadingFacts, PhaseFacts DEF MapModules, PInv, Position
    <3>2. phase' = 12 /\ at' = 1 /\ item' = 0
      BY <2>3, <3>1 DEF MapModules
    <3> QED
      BY <2>2, <3>2
  <2>4. CASE /\ phase > 11 /\ phase' > 11
             /\ UNCHANGED << modules, index_spaces, function_signatures, objects >>
    <3>1. Modules' = Modules /\ \A m, b : Final(m, b)' = Final(m, b)
      BY <2>4 DEF Modules, Final, Mapping, Code
    <3>2. \A m \in Modules : SizeRead(m, Function)' = SizeRead(m, Function)
      <4>1. phase \in 1 .. 13 /\ phase' \in 1 .. 13
        BY DEF PInv, Position
      <4> QED
        BY <2>4, <4>1 DEF SizeRead, Size, Passed, Function
    <3> QED
      BY <2>4, <3>1, <3>2 DEF Resolved, Entity, Function, None
  <2> QED
    BY <2>1, <2>2, <2>3, <2>4, StepFacts
<1> QED
  BY <1>1, <1>2, PInvHolds, PInvUnread, PTL DEF Spec

------------------------------------------------------------------------------
(* What PInv says of the properties.                                       *)

LEMMA PInvEntities ==
  ASSUME PInv
  PROVE  EntitiesKept
<1> SUFFICES ASSUME Mapped PROVE EntitiesKept
  BY DEF EntitiesKept
<1>1. /\ DOMAIN modules = Modules /\ phase \in 1 .. 13 /\ Function \in Kinds
  BY ModulesFacts DEF PInv, Position, Kinds
<1>2. phase > 11
  <2> SUFFICES ASSUME phase <= 11 PROVE FALSE
    BY <1>1
  <2>1. numbered[Function] = << >>
    BY <1>1 DEF PInv, Spaces
  <2> QED
    BY <2>1 DEF Mapped
<1>3. ASSUME NEW k \in Kinds
      PROVE  /\ IsInjective(numbered[k])
             /\ \A m \in DOMAIN modules : \A i \in DOMAIN index_spaces[m][k] :
                  numbered[k][index_spaces[m][k][i] + 1] = Entity(m, k, i)
  BY <1>1, <1>2, ZenonT(40) DEF PInv, Numbered, Leads
<1>4. ASSUME NEW m \in DOMAIN modules, NEW x \in DOMAIN modules[m].exports
      PROVE  LET entry == modules[m].exports[x]
                 value == exports[<< modules[m].name, entry.field >>]
             IN  numbered[value[1]][value[2] + 1] = Entity(m, entry.kind, entry.index + 1)
  <2>1. Leads(exports[NameOf(m, x)][1], exports[NameOf(m, x)][2], Means(m, x))
    BY <1>1, <1>2 DEF PInv, Numbered
  <2> QED
    BY <2>1 DEF Leads, NameOf, Means
<1>5. numbered[Function][start_function + 1] = Entity(1, Function, modules[1].start[1] + 1)
  BY <1>2 DEF PInv, Numbered, Leads
<1> QED
  BY <1>3, <1>4, <1>5 DEF EntitiesKept

LEMMA PInvCalls ==
  ASSUME PInv, Typed, Resolved
  PROVE  CallsResolve
<1> SUFFICES ASSUME NEW e \in DOMAIN objects, e[2] = Function, objects[e].code # None
             PROVE  LET code == modules[e[1]].code[e[3]].instructions
                        final == objects[e].code[1]
                    IN /\ e[3] \in DOMAIN modules[e[1]].code
                       /\ DOMAIN final = DOMAIN code
                       /\ \A n \in DOMAIN code :
                            /\ final[n].op = code[n].op
                            /\ code[n].op = "call" =>
                                 numbered[Function][final[n].index + 1] =
                                   Entity(e[1], Function, code[n].index + 1)
                            /\ code[n].op = "call_indirect" =>
                                 signatures[final[n].index + 1] =
                                   modules[e[1]].types[code[n].index + 1]
  BY DEF CallsResolve
<1>0. PICK m \in Modules, k \in Kinds : \E i \in 1 .. SizeRead(m, k) : e = Entity(m, k, i)
  BY DEF PInv, Attributes
<1>1. PICK i \in 1 .. SizeRead(m, k) : e = Entity(m, k, i)
  BY <1>0
<1>2. e[1] = m /\ e[2] = k /\ e[3] = i /\ k = Function
  BY <1>1 DEF Entity
<1>3. modules \in Programs /\ phase \in 1 .. 13 /\ Function \in Kinds
  BY DEF PInv, Position, Kinds
<1> DEFINE code == Code(m, i)
           final == objects[e].code[1]
<1>4. i \in DOMAIN modules[m].code /\ BodyRead(m, i) /\ objects[e].code = << Final(m, i) >>
  <2>1. i \in 1 .. SizeRead(m, Function) /\ e = Entity(m, Function, i)
    BY <1>1, <1>2
  <2> QED
    BY <2>1 DEF PInv, Coded, Resolved
<1>5. /\ code \in Seq(Instructions)
      /\ \A n \in DOMAIN code : Acceptable(code[n], n, modules[m])
  <2>1. code \in Seq(Instructions)
    BY <1>3, <1>4, BodyFacts
  <2> QED
    BY <1>4, <2>1 DEF PInv, Coded
<1>6. /\ phase > 11 /\ Passed(1, m)
      /\ Size(m, Function) = Len(modules[m].functions) /\ Size(m, Function) \in Nat
      /\ Len(modules[m].types) \in Nat
      /\ DOMAIN modules[m].types = 1 .. Len(modules[m].types)
  BY <1>3, <1>4, SizeFacts, TypesFacts DEF BodyRead, Passed
<1>7. final = Final(m, i)
  BY <1>4
<1>8. DOMAIN final = DOMAIN code
  BY <1>7 DEF Final
<1>9. ASSUME NEW n \in DOMAIN code
      PROVE  /\ final[n].op = code[n].op
             /\ code[n].op = "call" =>
                  numbered[Function][final[n].index + 1] = Entity(m, Function, code[n].index + 1)
             /\ code[n].op = "call_indirect" =>
                  signatures[final[n].index + 1] = modules[m].types[code[n].index + 1]
  <2>1. final[n].op = code[n].op /\ final[n].index = Mapping(m, code[n])
    BY <1>7 DEF Final
  <2>2. code[n].index \in Nat /\ Acceptable(code[n], n, modules[m])
    <3>1. code[n] \in Instructions
      BY <1>5
    <3> QED
      BY <1>5, <3>1 DEF Instructions
  <2> HIDE DEF code, final
  <2>3. ASSUME code[n].op = "call"
        PROVE  numbered[Function][final[n].index + 1] = Entity(m, Function, code[n].index + 1)
    <3>1. code[n].index + 1 \in 1 .. Size(m, Function)
      BY <1>6, <2>2, <2>3 DEF Acceptable
    <3>2. final[n].index = index_spaces[m][Function][code[n].index + 1]
      BY <2>1, <2>3 DEF Mapping
    <3> QED
      BY <1>3, <1>6, <3>1, <3>2 DEF PInv, Numbered, Leads
  <2>4. ASSUME code[n].op = "call_indirect"
        PROVE  signatures[final[n].index + 1] = modules[m].types[code[n].index + 1]
    <3>1. code[n].index + 1 \in DOMAIN modules[m].types
      BY <1>6, <2>2, <2>4 DEF Acceptable
    <3>2. final[n].index = function_signatures[m][code[n].index + 1]
      BY <2>1, <2>4 DEF Mapping
    <3> QED
      BY <1>6, <3>1, <3>2 DEF Typed
  <2> QED
    BY <2>1, <2>3, <2>4
<1>10. modules[e[1]].code[e[3]].instructions = code
  BY <1>2 DEF Code
<1> HIDE DEF code, final
<1>11. /\ e[3] \in DOMAIN modules[e[1]].code
       /\ \A n \in DOMAIN code :
            /\ final[n].op = code[n].op
            /\ code[n].op = "call" =>
                 numbered[Function][final[n].index + 1] =
                   Entity(e[1], Function, code[n].index + 1)
            /\ code[n].op = "call_indirect" =>
                 signatures[final[n].index + 1] = modules[e[1]].types[code[n].index + 1]
  BY <1>2, <1>4, <1>9
<1> QED
  BY <1>8, <1>10, <1>11 DEF final

LEMMA PInvCreated ==
  ASSUME PInv
  PROVE  CreatedIfLinkable
<1>1. CASE status \notin {"linking", "created"}
  BY <1>1 DEF PInv, Outcome, CreatedIfLinkable
<1>2. CASE status = "created"
  <2>1. /\ phase = 13 /\ item = Len(numbered[Function])
        /\ modules \in Programs /\ Function \in Kinds
    BY <1>2 DEF PInv, Outcome, Position, Kinds
  <2>2. /\ \A s \in 1 .. 12 : \A m \in Modules : Passed(s, m)
        /\ \A m \in Modules : \A x : ExportRead(m, x)
        /\ \A m \in Modules : \A b : BodyRead(m, b)
    BY <2>1 DEF Passed, ExportRead, BodyRead
  <2>3. LegalStart
    BY <2>1 DEF PInv, Started, LegalStart
  <2>4. ASSUME NEW m \in Modules PROVE Legal(m) /\ LegalExports(m)
    <3>1. \A s \in {1, 2, 3, 6, 7, 8} : Passed(s, m)
      BY <2>2
    <3>2. Legal(m)
      BY <3>1 DEF PInv, Checked, Legal
    <3>3. LegalExports(m)
      BY <2>2 DEF PInv, Distinct, LegalExports
    <3> QED
      BY <3>2, <3>3
  <2>5. ASSUME NEW m \in Modules PROVE LegalCode(m)
    <3>1. /\ Size(m, Function) \in Nat /\ SizeRead(m, Function) = Size(m, Function)
          /\ Len(modules[m].code) \in Nat
          /\ DOMAIN modules[m].code = 1 .. Len(modules[m].code)
      BY <2>1, SizeFacts, BodyFacts DEF SizeRead, Passed, Function
    <3>2. \A b \in DOMAIN modules[m].code :
            /\ modules[m].code[b].locals = 0
            /\ b <= Size(m, Function)
            /\ \A n \in DOMAIN Code(m, b) : Acceptable(Code(m, b)[n], n, modules[m])
      BY <2>2 DEF PInv, Coded
    <3>3. ASSUME NEW i \in 1 .. Size(m, Function) PROVE i \in DOMAIN modules[m].code
      <4> DEFINE n == index_spaces[m][Function][i]
      <4>1. Leads(Function, n, Entity(m, Function, i)) /\ Len(numbered[Function]) \in Nat
        BY <2>1 DEF PInv, Numbered
      <4> HIDE DEF n
      <4>2. n + 1 \in 1 .. item /\ numbered[Function][n + 1] = Entity(m, Function, i)
        BY <2>1, <4>1 DEF Leads
      <4>3. objects[numbered[Function][n + 1]].code # None
        BY <2>1, <4>2 DEF PInv, Built
      <4>4. objects[Entity(m, Function, i)].code # None
        BY <4>2, <4>3
      <4> QED
        BY <3>1, <4>4 DEF PInv, Coded
    <3>4. Len(modules[m].code) = Size(m, Function)
      <4>1. \A b \in 1 .. Len(modules[m].code) : b <= Size(m, Function)
        BY <3>1, <3>2
      <4>2. \A i \in 1 .. Size(m, Function) : i <= Len(modules[m].code)
        BY <3>1, <3>3
      <4>3. Len(modules[m].code) <= Size(m, Function)
        BY <3>1, <4>1
      <4>4. Size(m, Function) <= Len(modules[m].code)
        BY <3>1, <4>2
      <4> QED
        BY <3>1, <4>3, <4>4
    <3> QED
      BY <3>2, <3>4 DEF LegalCode
  <2>6. Linkable
    BY <2>1, <2>3, <2>4, <2>5, LinkableIs
  <2> QED
    BY <1>2, <2>6 DEF CreatedIfLinkable
<1>3. CASE status = "linking"
  BY <1>3 DEF CreatedIfLinkable
<1> QED
  BY <1>1, <1>2, <1>3

(* For every set of programs: the numbers that _map_modules gives lead     *)
(* back to what the modules' files mean by their own indices, through the  *)
(* export map and from the start function too, and each entity has one.    *)
THEOREM NumbersLeadBack == Spec => []EntitiesKept
BY PInvHolds, PInvEntities, PTL

(* A body goes to the function that its module's code section lists it     *)
(* for; every call in it leads to the function that module means, every    *)
(* indirect call to the signature.                                         *)
THEOREM CallsLeadBack == Spec => []CallsResolve
BY PInvHolds, TypedHolds, ResolvedHolds, PInvCalls, PTL

(* A program is created if and only if it is Linkable: any other ends in   *)
(* an exception or in a body that is never read to its end, and a Linkable *)
(* one in neither.                                                         *)
THEOREM Verdict == Spec => []CreatedIfLinkable
BY PInvHolds, PInvCreated, PTL

==============================================================================
