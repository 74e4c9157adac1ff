------------------------------ MODULE Numerics -------------------------------
(***************************************************************************)
(* What the numeric instructions of WebAssembly compute, as arithmetic on  *)
(* integers and on a small floating-point format: the reference that the   *)
(* functions of Arith are compared with.  Nothing here is translated from  *)
(* the code.                                                               *)
(*                                                                         *)
(* An integer of w bits is its signed value.  A float is a class, a sign   *)
(* and a magnitude counted in halves; a format has p significant bits.     *)
(* What a call comes to is a tuple: a value, or how it failed to give one. *)
(***************************************************************************)
EXTENDS Powers, Sequences

Value(x) == << "value", x >>
Trap == << "trap" >>

Lowest(w) == -Pow2[w - 1]
Ints(w) == Lowest(w) .. Pow2[w - 1] - 1

Unsigned(w, x) == x % Pow2[w]
AsSigned(w, u) == ((u + Pow2[w - 1]) % Pow2[w]) - Pow2[w - 1]

Abs(x) == IF x < 0 THEN -x ELSE x
Quotient(l, r) ==
  IF (l < 0) = (r < 0) THEN Abs(l) \div Abs(r) ELSE -(Abs(l) \div Abs(r))

RefDivS(w, l, r) ==
  IF r = 0 \/ (l = Lowest(w) /\ r = -1) THEN Trap ELSE Value(Quotient(l, r))
RefRemS(l, r) == IF r = 0 THEN Trap ELSE Value(l - (Quotient(l, r) * r))

(* An arithmetic shift right divides and rounds down. *)
RefShrS(w, l, r) == Value(l \div Pow2[Unsigned(w, r) % w])

RefRotl(w, l, r) ==
  LET s == Unsigned(w, r) % w
      u == Unsigned(w, l)
  IN  Value(AsSigned(w, ((u * Pow2[s]) % Pow2[w]) + (u \div Pow2[w - s])))
RefRotr(w, l, r) == RefRotl(w, l, w - (Unsigned(w, r) % w))

Bit(u, k) == (u \div Pow2[k]) % 2
RefClz(w, x) ==
  CHOOSE n \in 0 .. w : /\ \A k \in w - n .. w - 1 : Bit(Unsigned(w, x), k) = 0
                        /\ n < w => Bit(Unsigned(w, x), w - n - 1) = 1
RefCtz(w, x) ==
  CHOOSE n \in 0 .. w : /\ \A k \in 0 .. n - 1 : Bit(Unsigned(w, x), k) = 0
                        /\ n < w => Bit(Unsigned(w, x), n) = 1

------------------------------------------------------------------------------
(* Floats.                                                                 *)

NaN == [cls |-> "nan", neg |-> FALSE, mag |-> 0]
Inf(neg) == [cls |-> "inf", neg |-> neg, mag |-> 0]
Finite(neg, mag) == [cls |-> "finite", neg |-> neg, mag |-> mag]

IsFinite(f) == f.cls = "finite"
IsZero(f) == IsFinite(f) /\ f.mag = 0
Halves(f) == IF f.neg THEN -f.mag ELSE f.mag

(* The magnitude nearest to m that has p significant bits, ties to even.   *)
Exponent(p, m) == CHOOSE e \in 0 .. m : m < Pow2[p + e] /\ (e > 0 => m >= Pow2[p + e - 1])
RoundTo(p, m) ==
  LET q    == Pow2[Exponent(p, m)]
      low  == m \div q
      rest == 2 * (m % q)
  IN  (IF rest > q \/ (rest = q /\ low % 2 = 1) THEN low + 1 ELSE low) * q

(* Every float, those of p bits, and those of p bits up to a bound. *)
AnyFloat == {NaN, Inf(TRUE), Inf(FALSE)} \cup [cls : {"finite"}, neg : BOOLEAN, mag : Nat]
FloatsOf(p) == {f \in AnyFloat : IsFinite(f) => RoundTo(p, f.mag) = f.mag}
Magnitudes(p, bound) == {m \in 0 .. bound : RoundTo(p, m) = m}
Floats(p, bound) ==
  {NaN, Inf(TRUE), Inf(FALSE)} \cup {Finite(n, m) : n \in BOOLEAN, m \in Magnitudes(p, bound)}

(* IEEE less-than: false of a NaN, and the two zeros are equal. *)
Less(f, g) ==
  /\ f.cls # "nan" /\ g.cls # "nan"
  /\ \/ f.cls = "inf" /\ f.neg /\ ~(g.cls = "inf" /\ g.neg)
     \/ g.cls = "inf" /\ ~g.neg /\ ~(f.cls = "inf" /\ ~f.neg)
     \/ IsFinite(f) /\ IsFinite(g) /\ Halves(f) < Halves(g)

(* The integer a float is truncated to, and the trap when it has none.     *)
Toward0(f) == IF f.neg THEN -(f.mag \div 2) ELSE f.mag \div 2
RefTrunc(w, signed, f) ==
  LET range == IF signed THEN Ints(w) ELSE 0 .. Pow2[w] - 1 IN
  IF IsFinite(f) /\ Toward0(f) \in range THEN Value(AsSigned(w, Toward0(f))) ELSE Trap

RefConvert(p, x) == Finite(x < 0, RoundTo(p, 2 * Abs(x)))

RefMin(f, g) ==
  IF NaN \in {f, g} THEN NaN
  ELSE IF IsZero(f) /\ IsZero(g) THEN Finite(f.neg \/ g.neg, 0)
  ELSE IF Less(g, f) THEN g ELSE f
RefMax(f, g) ==
  IF NaN \in {f, g} THEN NaN
  ELSE IF IsZero(f) /\ IsZero(g) THEN Finite(f.neg /\ g.neg, 0)
  ELSE IF Less(f, g) THEN g ELSE f
RefNeg(f) == IF f = NaN THEN f ELSE [f EXCEPT !.neg = ~@]

(* Nearest integer, ties to even; a magnitude is in halves. *)
RefNearest(f) ==
  IF ~IsFinite(f) THEN f
  ELSE LET n == f.mag \div 2 IN
       [f EXCEPT !.mag = 2 * (IF f.mag % 2 = 1 /\ n % 2 = 1 THEN n + 1 ELSE n)]
==============================================================================
