------------------------------- MODULE Arith ---------------------------------
(***************************************************************************)
(* The numeric functions behind the instructions: vm/op/arith.h, and the   *)
(* older function objects of vm/op/functional_ex.h.                        *)
(*                                                                         *)
(* A call picks a function, its operand type and its operands, and what    *)
(* happens is its outcome: a value, a trap, an assert that fails or        *)
(* undefined behaviour.  Two things outlast a call: which compiler built   *)
(* the program (__GNUC__ selects the bit counters), and the floating-point *)
(* rounding mode of the thread, which `nearest' changes.                   *)
(*                                                                         *)
(* An integer of w bits is its signed value; wasm_uint arithmetic is taken *)
(* modulo 2^w.  Floats are those of Numerics, with unbounded exponents.    *)
(***************************************************************************)
EXTENDS Numerics, FiniteSets

CONSTANTS
  Bits32, Bits64,   \* the widths of the two integer (and float) sizes
  Prec32, Prec64,   \* the significant bits of the two float types
  Args              \* type -> the operands calls are made with

ASSUME FormatsAssumption ==
  /\ {Bits32, Bits64, Prec32, Prec64} \subseteq Nat \ {0}
  /\ Prec32 < Bits32 - 1 /\ Bits32 < Prec64 /\ Prec64 < Bits64 - 1
ASSUME ArgsAssumption ==
  /\ DOMAIN Args = {"i32", "i64", "f32", "f64"}
  /\ Args["i32"] \subseteq Ints(Bits32) /\ Args["i64"] \subseteq Ints(Bits64)
  /\ Args["f32"] \subseteq FloatsOf(Prec32) /\ Args["f64"] \subseteq FloatsOf(Prec64)

VARIABLES
  call,        \* [fn, type, args], fn = "none" between calls
  outcome,     \* what the last call came to
  mode,        \* std::fegetround()
  gnuc         \* __GNUC__ is defined

avars == << call, outcome, mode, gnuc >>

Undefined == << "undefined" >>
Aborted == << "aborted" >>

Bits(type) == IF type \in {"i32", "f32"} THEN Bits32 ELSE Bits64
Precision(type) == IF type = "f32" THEN Prec32 ELSE Prec64

------------------------------------------------------------------------------
(* Integers.                                                               *)

to_unsigned(w, x) == Unsigned(w, x)
to_signed(w, u) == AsSigned(w, u)
Not(w, u) == Pow2[w] - 1 - u
Bool(b) == Value(IF b THEN 1 ELSE 0)

(* The unsigned function, between the two reinterpretations. *)
decorate_signed(w, u) == Value(to_signed(w, u % Pow2[w]))

iabs_u(w, x) == IF x < 0 THEN (Not(w, to_unsigned(w, x)) + 1) % Pow2[w] ELSE to_unsigned(w, x)

add(w, l, r) == decorate_signed(w, to_unsigned(w, l) + to_unsigned(w, r))
sub(w, l, r) == decorate_signed(w, to_unsigned(w, l) - to_unsigned(w, r))
mul(w, l, r) == decorate_signed(w, to_unsigned(w, l) * to_unsigned(w, r))

(* The quotient of the magnitudes is negated as a signed number.           *)
div_s(w, l, r) ==
  LET l_u  == iabs_u(w, l)
      r_u  == iabs_u(w, r)
      quot == to_signed(w, l_u \div r_u)
  IN  IF \/ r = 0
         \/ r < 0 /\ l < 0 /\ r_u = 1 /\ (Not(w, l_u) + 1) % Pow2[w] = Pow2[w - 1]
      THEN Trap
      ELSE IF (l < 0) = (r < 0) THEN Value(quot)
      ELSE IF quot = Lowest(w) THEN Undefined ELSE Value(-quot)

(* Variant: no check of the divisor. *)
div_uUnchecked(w, l, r) ==
  Value(IF r = 0 THEN 0 ELSE to_signed(w, to_unsigned(w, l) \div to_unsigned(w, r)))
div_u(w, l, r) ==
  IF r = 0 THEN Trap ELSE Value(to_signed(w, to_unsigned(w, l) \div to_unsigned(w, r)))

(* Only an OverflowError is caught: a zero divisor still traps. *)
rem_s(w, l, r) ==
  LET quot == div_s(w, l, r) IN
  IF quot = Trap THEN (IF r = 0 THEN Trap ELSE Value(0))
  ELSE IF quot = Undefined THEN Undefined
  ELSE decorate_signed(w, to_unsigned(w, l)
                            - ((to_unsigned(w, quot[2]) * to_unsigned(w, r)) % Pow2[w]))

rem_u(w, l, r) ==
  IF r = 0 THEN Trap ELSE Value(to_signed(w, to_unsigned(w, l) % to_unsigned(w, r)))

Shift(w, r) == to_unsigned(w, r) % w

(* Variant: the count is not reduced. *)
shlByAll(w, l, r) == decorate_signed(w, to_unsigned(w, l) * Pow2[to_unsigned(w, r)])
shl(w, l, r) == decorate_signed(w, to_unsigned(w, l) * Pow2[Shift(w, r)])
shr_u(w, l, r) == Value(to_signed(w, to_unsigned(w, l) \div Pow2[Shift(w, r)]))

(* ~(~0u) is complemented before it is shifted: the mask that was to hold  *)
(* the copies of the sign bit is zero.                                     *)
shr_s(w, l, r) ==
  LET mask == IF l < 0 THEN Not(w, Not(w, 0)) \div Pow2[Shift(w, r)] ELSE 0
  IN  Value(to_signed(w, (to_unsigned(w, l) \div Pow2[Shift(w, r)]) + mask))

(* The other half is shifted by w - shift, which is the width at shift 0.  *)
RotateRight(w, l, r) ==
  LET s == Shift(w, r)
      u == to_unsigned(w, l)
  IN  IF s = 0 THEN Undefined
      ELSE Value(to_signed(w, (u \div Pow2[s]) + ((u * Pow2[w - s]) % Pow2[w])))
RotateLeft(w, l, r) ==
  LET s == Shift(w, r)
      u == to_unsigned(w, l)
  IN  IF s = 0 THEN Undefined
      ELSE Value(to_signed(w, ((u * Pow2[s]) % Pow2[w]) + (u \div Pow2[w - s])))

(* Without the builtins the loop tests one bit over and over.              *)
CountLeadingZeros(w, x) ==
  IF x = 0 \/ gnuc THEN Value(RefClz(w, x))
  ELSE IF Bit(to_unsigned(w, x), w - 1) = 1 THEN Value(0) ELSE Aborted
CountTrailingZeros(w, x) ==
  IF x = 0 \/ gnuc THEN Value(RefCtz(w, x)) ELSE Aborted
PopulationCount(w, x) ==
  Value(Cardinality({k \in 0 .. w - 1 : Bit(to_unsigned(w, x), k) = 1}))

eqz(x) == Bool(x = 0)

(* Comparisons.  The result of the signed ones has the operands' type.     *)
int_equal(w, l, r) == Bool(to_unsigned(w, l) = to_unsigned(w, r))
int_not_equal(w, l, r) == Bool(int_equal(w, l, r) = Value(0))
int_less(l, r) == Bool(l < r)
int_less_equal(w, l, r) == Bool(Value(1) \in {int_equal(w, l, r), int_less(l, r)})
int_greater(l, r) == int_less(r, l)
int_greater_equal(w, l, r) == Bool(Value(1) \in {int_equal(w, r, l), int_less(r, l)})

unsigned_comp == {"lt_u", "le_u", "gt_u", "ge_u"}
wrap_unsigned_comp(fn, w, l, r) ==
  LET a == to_unsigned(w, l)
      b == to_unsigned(w, r)
  IN  Bool(\/ fn = "lt_u" /\ a < b
           \/ fn = "le_u" /\ a <= b
           \/ fn = "gt_u" /\ a > b
           \/ fn = "ge_u" /\ a >= b)

------------------------------------------------------------------------------
(* Floats.  std::min and std::max return the left operand unless the       *)
(* right one compares less (greater).                                      *)

(* Variant: the comparison the other way round. *)
float_minFlipped(l, r) == Value(IF Less(l, r) THEN l ELSE r)
float_min(l, r) == Value(IF Less(r, l) THEN r ELSE l)
float_max(l, r) == Value(IF Less(l, r) THEN r ELSE l)

IntegralPart(v, up) ==
  LET n == (v.mag + IF up THEN 1 ELSE 0) \div 2
  IN  [v EXCEPT !.mag = 2 * n]
float_ceil(v) == Value(IF IsFinite(v) THEN IntegralPart(v, ~v.neg) ELSE v)
float_floor(v) == Value(IF IsFinite(v) THEN IntegralPart(v, v.neg) ELSE v)

(* -0 - v: where rounding is downward, a sum of opposite zeros is -0.       *)
float_neg(v) ==
  Value(IF v = NaN THEN v
        ELSE IF IsZero(v) THEN Finite(~v.neg \/ mode = "downward", 0)
        ELSE [v EXCEPT !.neg = ~@])

(* The guard's setround() ignores its argument, and its destructor calls   *)
(* the same function: the mode that nearbyint() runs in, and leaves.       *)
FloatNearbyRoundingGuard == "nearest"
float_nearest(v) == Value(RefNearest(v))
float_copysign(l, r) == Value(IF l = NaN THEN l ELSE [l EXCEPT !.neg = r.neg])

FloatComparisons == {"eq", "ne", "lt", "le", "gt", "ge"}
FloatEqual(l, r) == NaN \notin {l, r} /\ ~Less(l, r) /\ ~Less(r, l)
float_compare(fn, l, r) ==
  Bool(\/ fn = "eq" /\ FloatEqual(l, r)
       \/ fn = "ne" /\ ~FloatEqual(l, r)
       \/ fn = "lt" /\ Less(l, r)
       \/ fn = "gt" /\ Less(r, l)
       \/ fn = "le" /\ (Less(l, r) \/ FloatEqual(l, r))
       \/ fn = "ge" /\ (Less(r, l) \/ FloatEqual(l, r)))

------------------------------------------------------------------------------
(* Conversions.                                                            *)

Wrap(x) == Value(to_signed(Bits32, to_unsigned(Bits64, x) % Pow2[Bits32]))
sign_extend(x) == x
extend_u(x) == Value(to_unsigned(Bits32, x))

(* bit_count is the size of the float, whatever Integral is, and the lower *)
(* bound is the float nearest to -2^(bit_count - 1) - 1.  `truncated' is   *)
(* std::trunc(value).  The check is on the value when Integral is signed.  *)
(* The second assert compares a magnitude with the signed number.          *)
truncate_signed(w, type, v) ==
  LET bit_count == Bits(type)
      minm      == -RoundTo(Precision(type), 2 * (Pow2[bit_count - 1] + 1))
      truncated == Toward0(v)
      abs_val   == Abs(truncated)
  IN  IF ~IsFinite(v) THEN Trap
      ELSE IF ~(Halves(v) > minm /\ Halves(v) < Pow2[bit_count]) THEN Trap
      ELSE IF abs_val >= Pow2[w] THEN Undefined
      ELSE IF abs_val # truncated THEN Aborted
      ELSE Value(to_signed(w, abs_val))

(* Variant: the value, not what it is truncated to, is compared. *)
truncate_unsignedAtZero(w, type, v) ==
  IF ~IsFinite(v) \/ Halves(v) <= -1 \/ Toward0(v) >= Pow2[Bits(type)] THEN Trap
  ELSE IF Toward0(v) >= Pow2[w] THEN Undefined ELSE Value(to_signed(w, Toward0(v)))
truncate_unsigned(w, type, v) ==
  LET truncated == Toward0(v) IN
  IF ~IsFinite(v) THEN Trap
  ELSE IF ~(truncated > -1 /\ truncated < Pow2[Bits(type)]) THEN Trap
  ELSE IF truncated >= Pow2[w] THEN Undefined
  ELSE Value(to_signed(w, truncated))

(* The parameter types of these two are swapped: the argument is converted *)
(* to the f32 that demote takes, and to the f32 that promote returns.      *)
demote(v) == Value(IF IsFinite(v) THEN [v EXCEPT !.mag = RoundTo(Prec32, @)] ELSE v)
promote(v) == demote(v)

convert_s(w, p, x) == Value(Finite(x < 0, RoundTo(p, 2 * iabs_u(w, x))))
convert_u(w, p, x) == Value(Finite(FALSE, RoundTo(p, 2 * to_unsigned(w, x))))

------------------------------------------------------------------------------
(* functional_ex.h.                                                        *)

old_shl(w, l, r) == decorate_signed(w, to_unsigned(w, l) * Pow2[Shift(w, r)])
old_shr_u(w, l, r) == Value(to_signed(w, to_unsigned(w, l) \div Pow2[Shift(w, r)]))

(* A mask of ones is shifted left by bits - shift, the width at shift 0.   *)
old_shr_s(w, l, r) ==
  LET s     == Shift(w, r)
      lhs_u == to_unsigned(w, l) \div Pow2[s]
      mask  == (Not(w, 0) * Pow2[w - s]) % Pow2[w]
  IN  IF l >= 0 THEN Value(lhs_u)
      ELSE IF s = 0 THEN Undefined ELSE Value(to_signed(w, lhs_u + mask))

old_rrotate(w, l, r) == RotateRight(w, l, r)
old_lrotate(w, l, r) == RotateLeft(w, l, r)

(* The greatest value is tested where the least one overflows.             *)
old_divide(w, signed, l, r) ==
  IF signed /\ l = Pow2[w - 1] - 1 /\ r = -1 THEN Trap
  ELSE IF r = 0 THEN Trap
  ELSE IF ~signed THEN Value(to_signed(w, to_unsigned(w, l) \div to_unsigned(w, r)))
  ELSE IF l = Lowest(w) /\ r = -1 THEN Undefined
  ELSE Value(Quotient(l, r))

(* Variant: no exception for the overflow. *)
old_modulusUnguarded(w, signed, l, r) ==
  IF r = 0 THEN Trap
  ELSE IF ~signed THEN Value(to_signed(w, to_unsigned(w, l) % to_unsigned(w, r)))
  ELSE IF r = -1 /\ l = Lowest(w) THEN Undefined
  ELSE Value(l - (Quotient(l, r) * r))
old_modulus(w, signed, l, r) ==
  IF r = 0 THEN Trap
  ELSE IF ~signed THEN Value(to_signed(w, to_unsigned(w, l) % to_unsigned(w, r)))
  ELSE IF r = -1 /\ l = Lowest(w) THEN Value(0)
  ELSE Value(l - (Quotient(l, r) * r))

(* int_maxm is rounded to the float type, and a NaN passes both tests; the *)
(* value returned is a float still.                                        *)
(* Variant: the bounds themselves are refused. *)
old_truncInclusive(w, signed, type, v) ==
  LET max == 2 * (IF signed THEN Pow2[w - 1] - 1 ELSE Pow2[w] - 1)
  IN  IF ~(Halves(v) < max /\ Halves(v) > (IF signed THEN -Pow2[w] ELSE 0)) THEN Trap
      ELSE Value(IF IsFinite(v) THEN IntegralPart(v, FALSE) ELSE v)
old_trunc(w, signed, type, v) ==
  LET max  == 2 * (IF signed THEN Pow2[w - 1] - 1 ELSE Pow2[w] - 1)
      maxm == Finite(FALSE, RoundTo(Precision(type), max))
      minm == Finite(TRUE, IF signed THEN Pow2[w] ELSE 0)
  IN  IF Less(maxm, v) \/ Less(v, minm) THEN Trap
      ELSE Value(IF IsFinite(v) THEN IntegralPart(v, FALSE) ELSE v)

------------------------------------------------------------------------------
(* The tables that bind a name to its function.                            *)

IntegerBinary == {"add", "sub", "mul", "div_s", "div_u", "rem_s", "rem_u", "shl", "shr_u",
                  "shr_s", "rotl", "rotr", "eq", "ne", "lt_s", "le_s", "gt_s", "ge_s"}
                 \cup unsigned_comp
integer_binary(fn, w, l, r) ==
  CASE fn = "add" -> add(w, l, r)          [] fn = "sub" -> sub(w, l, r)
    [] fn = "mul" -> mul(w, l, r)
    [] fn = "div_s" -> div_s(w, l, r)      [] fn = "div_u" -> div_u(w, l, r)
    [] fn = "rem_s" -> rem_s(w, l, r)      [] fn = "rem_u" -> rem_u(w, l, r)
    [] fn = "shl" -> shl(w, l, r)          [] fn = "shr_u" -> shr_u(w, l, r)
    [] fn = "shr_s" -> shr_s(w, l, r)
    [] fn = "rotl" -> RotateLeft(w, l, r)  [] fn = "rotr" -> RotateRight(w, l, r)
    [] fn = "eq" -> int_equal(w, l, r)     [] fn = "ne" -> int_not_equal(w, l, r)
    [] fn = "lt_s" -> int_less(l, r)       [] fn = "le_s" -> int_less_equal(w, l, r)
    [] fn = "gt_s" -> int_greater(l, r)    [] fn = "ge_s" -> int_greater_equal(w, l, r)
    [] OTHER -> wrap_unsigned_comp(fn, w, l, r)

IntegerUnary == {"clz", "ctz", "popcnt", "eqz"}
integer_unary(fn, w, x) ==
  CASE fn = "clz" -> CountLeadingZeros(w, x)  [] fn = "ctz" -> CountTrailingZeros(w, x)
    [] fn = "popcnt" -> PopulationCount(w, x) [] OTHER -> eqz(x)

FloatBinary == {"min", "max", "copysign"} \cup FloatComparisons
float_binary(fn, l, r) ==
  CASE fn = "min" -> float_min(l, r)  [] fn = "max" -> float_max(l, r)
    [] fn = "copysign" -> float_copysign(l, r)
    [] OTHER -> float_compare(fn, l, r)

FloatUnary == {"ceil", "floor", "nearest", "neg"}
float_unary(fn, v) ==
  CASE fn = "ceil" -> float_ceil(v)  [] fn = "floor" -> float_floor(v)
    [] fn = "nearest" -> float_nearest(v) [] OTHER -> float_neg(v)

(* trunc_s, trunc_u and the conversions to float name the other type too.  *)
Truncations == {"trunc_s", "trunc_u"}
truncation(fn, w, type, v) ==
  IF fn = "trunc_s" THEN truncate_signed(w, type, v) ELSE truncate_unsigned(w, type, v)

conversion(fn, type, to, x) ==
  IF fn = "convert_s" THEN convert_s(Bits(type), Precision(to), x)
  ELSE convert_u(Bits(type), Precision(to), x)

SizeChanges == {<< "wrap", "i64" >>, << "extend_s", "i32" >>, << "extend_u", "i32" >>,
                << "demote", "f64" >>, << "promote", "f32" >>}
size_change(fn, x) ==
  CASE fn = "wrap" -> Wrap(x)  [] fn = "extend_s" -> Value(sign_extend(x))
    [] fn = "extend_u" -> extend_u(x) [] fn = "demote" -> demote(x) [] OTHER -> promote(x)

OldBinary == {"old_shl", "old_shr_u", "old_shr_s", "old_rrotate", "old_lrotate",
              "old_div_s", "old_div_u", "old_rem_s", "old_rem_u"}
old_binary(fn, w, l, r) ==
  CASE fn = "old_shl" -> old_shl(w, l, r)
    [] fn = "old_shr_u" -> old_shr_u(w, l, r)     [] fn = "old_shr_s" -> old_shr_s(w, l, r)
    [] fn = "old_rrotate" -> old_rrotate(w, l, r) [] fn = "old_lrotate" -> old_lrotate(w, l, r)
    [] fn = "old_div_s" -> old_divide(w, TRUE, l, r)
    [] fn = "old_div_u" -> old_divide(w, FALSE, l, r)
    [] fn = "old_rem_s" -> old_modulus(w, TRUE, l, r)
    [] OTHER -> old_modulus(w, FALSE, l, r)

------------------------------------------------------------------------------
NoCall == [fn |-> "none", type |-> "i32", args |-> << >>, to |-> "i32"]

AInit ==
  /\ call = NoCall /\ outcome = << >>
  /\ mode \in {"nearest", "downward"} /\ gnuc \in BOOLEAN

Make(fn, type, to, args, result) ==
  /\ call' = [fn |-> fn, type |-> type, args |-> args, to |-> to]
  /\ outcome' = result

Integer ==
  /\ call = NoCall
  /\ \E type \in {"i32", "i64"} :
       \/ \E fn \in IntegerBinary, l \in Args[type], r \in Args[type] :
            Make(fn, type, type, << l, r >>, integer_binary(fn, Bits(type), l, r))
       \/ \E fn \in IntegerUnary, x \in Args[type] :
            Make(fn, type, type, << x >>, integer_unary(fn, Bits(type), x))
  /\ UNCHANGED << mode, gnuc >>

Float ==
  /\ call = NoCall
  /\ \E type \in {"f32", "f64"} :
       \/ \E fn \in FloatBinary, l \in Args[type], r \in Args[type] :
            Make(fn, type, type, << l, r >>, float_binary(fn, l, r)) /\ UNCHANGED mode
       \/ \E fn \in FloatUnary, v \in Args[type] :
            /\ Make(fn, type, type, << v >>, float_unary(fn, v))
            /\ mode' = IF fn = "nearest" THEN FloatNearbyRoundingGuard ELSE mode
  /\ UNCHANGED gnuc

(* The conversions to float are taken in the default mode only: what they  *)
(* round to in another mode is not described.                              *)
Conversion ==
  /\ call = NoCall /\ mode = "nearest"
  /\ \/ \E fn \in Truncations, type \in {"f32", "f64"}, to \in {"i32", "i64"} :
          \E v \in Args[type] : Make(fn, type, to, << v >>, truncation(fn, Bits(to), type, v))
     \/ \E fn \in {"convert_s", "convert_u"}, type \in {"i32", "i64"}, to \in {"f32", "f64"} :
          \E x \in Args[type] : Make(fn, type, to, << x >>, conversion(fn, type, to, x))
     \/ \E c \in SizeChanges : \E x \in Args[c[2]] :
          Make(c[1], c[2], c[2], << x >>, size_change(c[1], x))
  /\ UNCHANGED << mode, gnuc >>

(* A call of the older generation.                                         *)
Functional ==
  /\ call = NoCall /\ mode = "nearest"
  /\ \/ \E fn \in OldBinary, type \in {"i32", "i64"} : \E l, r \in Args[type] :
          Make(fn, type, type, << l, r >>, old_binary(fn, Bits(type), l, r))
     \/ \E signed \in BOOLEAN, type \in {"f32", "f64"}, to \in {"i32", "i64"} :
          \E v \in Args[type] :
            Make(IF signed THEN "old_trunc_s" ELSE "old_trunc_u", type, to, << v >>,
                 old_trunc(Bits(to), signed, type, v))
  /\ UNCHANGED << mode, gnuc >>

(* The thread goes on to its next call. *)
Return == call # NoCall /\ call' = NoCall /\ outcome' = << >> /\ UNCHANGED << mode, gnuc >>

ANext == Integer \/ Float \/ Conversion \/ Functional \/ Return

ASpec == AInit /\ [][ANext]_avars

------------------------------------------------------------------------------
(* Properties.                                                             *)

Fn == call.fn
Arg(i) == call.args[i]
W == Bits(call.type)
Called(fns) == call # NoCall /\ Fn \in fns

RefInteger ==
  LET l == Arg(1)
      r == Arg(2)
      UnsignedOp(Op(_, _)) ==
        IF r = 0 THEN Trap ELSE Value(AsSigned(W, Op(Unsigned(W, l), Unsigned(W, r))))
      Div(a, b) == a \div b
      Mod(a, b) == a % b
  IN  CASE Fn = "add" -> Value(AsSigned(W, l + r))
        [] Fn = "sub" -> Value(AsSigned(W, l - r))
        [] Fn = "mul" -> Value(AsSigned(W, l * r))
        [] Fn \in {"div_s", "old_div_s"} -> RefDivS(W, l, r)
        [] Fn \in {"rem_s", "old_rem_s"} -> RefRemS(l, r)
        [] Fn \in {"div_u", "old_div_u"} -> UnsignedOp(Div)
        [] Fn \in {"rem_u", "old_rem_u"} -> UnsignedOp(Mod)
        [] Fn \in {"shl", "old_shl"} -> Value(AsSigned(W, l * Pow2[Unsigned(W, r) % W]))
        [] Fn \in {"shr_s", "old_shr_s"} -> RefShrS(W, l, r)
        [] Fn \in {"shr_u", "old_shr_u"} ->
             Value(AsSigned(W, Unsigned(W, l) \div Pow2[Unsigned(W, r) % W]))
        [] Fn \in {"rotl", "old_lrotate"} -> RefRotl(W, l, r)
        [] Fn \in {"rotr", "old_rrotate"} -> RefRotr(W, l, r)
        [] Fn = "clz" -> Value(RefClz(W, l))
        [] Fn = "ctz" -> Value(RefCtz(W, l))

Referenced == {"add", "sub", "mul", "div_s", "div_u", "rem_s", "rem_u", "shl", "shr_u", "shr_s",
               "rotl", "rotr", "clz", "ctz"}

(* The integer instructions of arith.h compute what the specification of   *)
(* WebAssembly says, for all operands but these: shr_s of a negative       *)
(* number never extends the sign, a rotation by a multiple of the width    *)
(* shifts by the width, the least integer divided by 1 is negated as a     *)
(* signed number, and without the builtins the bit counters fail.          *)
IntegersAgree ==
  Called(Referenced) =>
    (outcome = RefInteger <=>
       ~ \/ Fn = "shr_s" /\ Arg(1) < 0 /\ Shift(W, Arg(2)) # 0
         \/ Fn \in {"rotl", "rotr"} /\ Shift(W, Arg(2)) = 0
         \/ Fn \in {"div_s", "rem_s"} /\ Arg(1) = Lowest(W) /\ Arg(2) = 1
         \/ Fn = "clz" /\ ~gnuc /\ Arg(1) > 0
         \/ Fn = "ctz" /\ ~gnuc /\ Arg(1) # 0)

(* The older function objects err elsewhere: at a shift of zero, and in    *)
(* the division by -1 of the greatest integer, which traps, and of the     *)
(* least one, which does not (functional_ex.h).                            *)
OldIntegersAgree ==
  Called(OldBinary) =>
    (outcome = RefInteger <=>
       ~ \/ Fn = "old_shr_s" /\ Arg(1) < 0 /\ Shift(W, Arg(2)) = 0
         \/ Fn \in {"old_rrotate", "old_lrotate"} /\ Shift(W, Arg(2)) = 0
         \/ Fn = "old_div_s" /\ Arg(2) = -1 /\ Arg(1) \in {Lowest(W), Pow2[W - 1] - 1})

MinOf(a, b) == IF a < b THEN a ELSE b
MaxOf(a, b) == IF a < b THEN b ELSE a

(* A truncation returns the integer, or traps when there is none, only     *)
(* between bounds that the size of the float sets as well as that of the   *)
(* integer.  Signed, every number truncated below zero fails the assert,   *)
(* except where the check on the float's size has trapped before it        *)
(* (truncate_checked).                                                     *)
TruncationsAgree ==
  Called(Truncations) /\ IsFinite(Arg(1)) =>
    LET t  == Toward0(Arg(1))
        to == Bits(call.to)
        lo == MinOf(to, W)
        hi == MaxOf(to, W)
    IN  outcome = RefTrunc(to, Fn = "trunc_s", Arg(1)) <=>
          IF Fn = "trunc_u" THEN t < 0 \/ t < Pow2[lo] \/ t >= Pow2[hi]
          ELSE \/ 0 <= t /\ t < Pow2[lo - 1]
               \/ t >= Pow2[hi - 1]
               \/ Halves(Arg(1)) <= -Pow2[W] /\ t < Lowest(to)

(* The older truncation lets a NaN and the float just past the integers    *)
(* through where the bound was rounded up, and traps on a fraction past    *)
(* the last integer, which truncates into range (wasm_trunc).              *)
OldTruncationsAgree ==
  Called({"old_trunc_s", "old_trunc_u"}) =>
    LET v      == Arg(1)
        to     == Bits(call.to)
        signed == Fn = "old_trunc_s"
        least  == IF signed THEN Lowest(to) ELSE 0
        most   == IF signed THEN Pow2[to - 1] - 1 ELSE Pow2[to] - 1
        ref    == RefTrunc(to, signed, v)
        agree  == IF ref = Trap THEN outcome = Trap
                  ELSE outcome # Trap /\ AsSigned(to, Toward0(outcome[2])) = ref[2]
    IN  agree <=>
          ~ \/ v = NaN
            \/ IsFinite(v) /\ Halves(v) = 2 * (most + 1) /\ Precision(call.type) < to
            \/ IsFinite(v) /\ Halves(v) > 2 * most /\ Toward0(v) = most
            \/ IsFinite(v) /\ Halves(v) < 2 * least /\ Toward0(v) = least

(* min and max lose a NaN in the right operand and take the zeros for      *)
(* equal; neg loses the sign of zero where rounding is downward; the       *)
(* conversions round once and keep the sign.                               *)
FloatsAgree ==
  /\ Called({"min"}) =>
       (outcome = Value(RefMin(Arg(1), Arg(2))) <=>
          ~ \/ Arg(2) = NaN /\ Arg(1) # NaN
            \/ Arg(1) = Finite(FALSE, 0) /\ Arg(2) = Finite(TRUE, 0))
  /\ Called({"max"}) =>
       (outcome = Value(RefMax(Arg(1), Arg(2))) <=>
          ~ \/ Arg(2) = NaN /\ Arg(1) # NaN
            \/ Arg(1) = Finite(TRUE, 0) /\ Arg(2) = Finite(FALSE, 0))
  /\ Called({"neg"}) =>
       (outcome = Value(RefNeg(Arg(1))) <=> ~(mode = "downward" /\ Arg(1) = Finite(TRUE, 0)))
  /\ Called({"convert_s"}) => outcome = Value(RefConvert(Precision(call.to), Arg(1)))
  /\ Called({"convert_u"}) =>
       outcome = Value(RefConvert(Precision(call.to), Unsigned(W, Arg(1))))
==============================================================================
