------------------------------ MODULE Numbers ------------------------------
(***************************************************************************)
(* The numeric tower of icecreme (the num_* functions of vm.c and the      *)
(* numeric builtins of builtins.c): fixnums of a fixed width that overflow *)
(* into bigints, exact rationals, doubles, and complex numbers made of     *)
(* them.  GMP's integers and rationals are TLA+'s.  A fixnum has the       *)
(* bounds INT_MIN..INT_MAX, and a double few bits, so that both ends of    *)
(* each range are close together: a double is a multiple of 1/2 up to 4    *)
(* and a multiple of 2 beyond, written as its number of halves.            *)
(*                                                                         *)
(* The machine has two registers and applies any operation to them, so the *)
(* properties speak of every pair of numbers that computing can produce.   *)
(***************************************************************************)
EXTENDS Integers, Sequences, SequencesExt

CONSTANTS INT_MAX,      \* INT64_MAX
          WHOLE_FLOAT,  \* 1e15: from here on a whole double is written without ".0"
          G_DIGITS,     \* 1e17: from here on %.17g writes an exponent
          Radices,      \* bases that numbers are written in
          MaxMagnitude  \* registers hold numbers up to this magnitude only

ASSUME WidthIsSmall == INT_MAX \in Nat \ {0} /\ MaxMagnitude \in Nat

INT_MIN == -INT_MAX - 1

VARIABLES numX, numY   \* the two registers

numVars == <<numX, numY>>

-----------------------------------------------------------------------------
(* Values                                                                  *)

v_int(n) == <<"int", n>>
v_float(k) == <<"float", k>>
v_error == <<"error">>

Tag(v) == v[1]

Fits(n) == n \in INT_MIN..INT_MAX

AbsInt(n) == IF n < 0 THEN -n ELSE n

\* C's division truncates, TLA+'s \div rounds down.
TDiv(a, b) == (IF (a < 0) = (b < 0) THEN 1 ELSE -1) * (AbsInt(a) \div AbsInt(b))
TRem(a, b) == a - b * TDiv(a, b)
FDiv(a, b) == IF b > 0 THEN a \div b ELSE (-a) \div (-b)
FRem(a, b) == a - b * FDiv(a, b)

Divides(k, n) == \E q \in -AbsInt(n)..AbsInt(n) : q * k = n

GcdOf(a, b) ==
  IF a = 0 /\ b = 0 THEN 0
  ELSE CHOOSE g \in 1..(AbsInt(a) + AbsInt(b)) :
         /\ Divides(g, a) /\ Divides(g, b)
         /\ \A h \in (g + 1)..(AbsInt(a) + AbsInt(b)) :
              ~(Divides(h, a) /\ Divides(h, b))

make_bigint_from_mpz(z) == IF Fits(z) THEN v_int(z) ELSE <<"bigint", z>>

make_rational_from_mpq(n, d) ==
  LET s == IF d < 0 THEN -1 ELSE 1
      g == GcdOf(n, d)
      num == TDiv(s * n, g)
      den == TDiv(s * d, g)
  IN IF den = 1 THEN make_bigint_from_mpz(num) ELSE <<"rational", num, den>>

make_complex(re, im) ==
  IF im = v_int(0) THEN re ELSE <<"complex", re, im>>

to_complex_value(v) == IF Tag(v) = "complex" THEN v ELSE <<"complex", v, v_int(0)>>

is_exact_real(v) == Tag(v) \in {"int", "bigint", "rational"}

is_real_component(v) == is_exact_real(v) \/ Tag(v) = "float"

\* An exact real as a fraction.
Numer(v) == v[2]
value_to_mpq(v) == IF Tag(v) = "rational" THEN v[3] ELSE 1

\* The double nearest to n/d, in halves.
Nearest(n, d) ==
  LET s == IF d < 0 THEN -1 ELSE 1
      a == s * n
      b == s * d
  IN IF AbsInt(a) <= 4 * b THEN (4 * a + b) \div (2 * b)
     ELSE 4 * ((a + b) \div (2 * b))

as_double(v) ==
  IF Tag(v) = "float" THEN v[2] ELSE Nearest(Numer(v), value_to_mpq(v))

-----------------------------------------------------------------------------
(* Arithmetic.  num_* on two fixnums tries the machine operation first; an *)
(* overflow, like any bigint or rational, goes through GMP.                *)

RECURSIVE num_add(_, _), num_sub(_, _), num_mul(_, _), num_div(_, _), num_eq(_, _)

complex_add(a, b) == make_complex(num_add(a[2], b[2]), num_add(a[3], b[3]))

complex_sub(a, b) == make_complex(num_sub(a[2], b[2]), num_sub(a[3], b[3]))

complex_mul(a, b) ==
  make_complex(num_sub(num_mul(a[2], b[2]), num_mul(a[3], b[3])),
               num_add(num_mul(a[2], b[3]), num_mul(a[3], b[2])))

complex_div(a, b) ==
  LET denom == num_add(num_mul(b[2], b[2]), num_mul(b[3], b[3]))
      re == num_add(num_mul(a[2], b[2]), num_mul(a[3], b[3]))
      im == num_sub(num_mul(a[3], b[2]), num_mul(a[2], b[3]))
  IN IF as_double(denom) = 0 THEN v_error
     ELSE make_complex(num_div(re, denom), num_div(im, denom))

\* Fault: a sum that wraps around.
WrappingAdd(x, y) ==
  IF Tag(x) = "int" /\ Tag(y) = "int"
  THEN v_int(((Numer(x) + Numer(y) - INT_MIN) % (2 * INT_MAX + 2)) + INT_MIN)
  ELSE num_sub(x, num_sub(v_int(0), y))

num_add(x, y) ==
  CASE Tag(x) = "int" /\ Tag(y) = "int" /\ Fits(x[2] + y[2]) -> v_int(x[2] + y[2])
    [] "complex" \in {Tag(x), Tag(y)} ->
         complex_add(to_complex_value(x), to_complex_value(y))
    [] "float" \in {Tag(x), Tag(y)} ->
         v_float(Nearest(as_double(x) + as_double(y), 2))
    [] OTHER -> make_rational_from_mpq(
                  Numer(x) * value_to_mpq(y) + Numer(y) * value_to_mpq(x),
                  value_to_mpq(x) * value_to_mpq(y))

num_sub(x, y) ==
  CASE Tag(x) = "int" /\ Tag(y) = "int" /\ Fits(x[2] - y[2]) -> v_int(x[2] - y[2])
    [] "complex" \in {Tag(x), Tag(y)} ->
         complex_sub(to_complex_value(x), to_complex_value(y))
    [] "float" \in {Tag(x), Tag(y)} ->
         v_float(Nearest(as_double(x) - as_double(y), 2))
    [] OTHER -> make_rational_from_mpq(
                  Numer(x) * value_to_mpq(y) - Numer(y) * value_to_mpq(x),
                  value_to_mpq(x) * value_to_mpq(y))

num_mul(x, y) ==
  CASE Tag(x) = "int" /\ Tag(y) = "int" /\ Fits(x[2] * y[2]) -> v_int(x[2] * y[2])
    [] "complex" \in {Tag(x), Tag(y)} ->
         complex_mul(to_complex_value(x), to_complex_value(y))
    [] "float" \in {Tag(x), Tag(y)} ->
         v_float(Nearest(as_double(x) * as_double(y), 4))
    [] OTHER -> make_rational_from_mpq(Numer(x) * Numer(y),
                                       value_to_mpq(x) * value_to_mpq(y))

num_div(x, y) ==
  CASE "complex" \in {Tag(x), Tag(y)} ->
         complex_div(to_complex_value(x), to_complex_value(y))
    [] is_exact_real(x) /\ is_exact_real(y) ->
         IF Numer(y) = 0 THEN v_error
         ELSE make_rational_from_mpq(Numer(x) * value_to_mpq(y),
                                     value_to_mpq(x) * Numer(y))
    [] OTHER -> IF as_double(y) = 0 THEN v_error
                ELSE v_float(Nearest(as_double(x), as_double(y)))

-----------------------------------------------------------------------------
(* Comparison: exact against exact by value, otherwise as doubles.         *)

Compare(x, y) ==
  IF is_exact_real(x) /\ is_exact_real(y)
  THEN Numer(x) * value_to_mpq(y) - Numer(y) * value_to_mpq(x)
  ELSE as_double(x) - as_double(y)

num_lt(x, y) == Compare(x, y) < 0
num_gt(x, y) == Compare(x, y) > 0

num_le(x, y) == Compare(x, y) <= 0
num_ge(x, y) == Compare(x, y) >= 0

num_eq(x, y) ==
  IF "complex" \in {Tag(x), Tag(y)}
  THEN LET cx == to_complex_value(x)
           cy == to_complex_value(y)
       IN num_eq(cx[2], cy[2]) /\ num_eq(cx[3], cy[3])
  ELSE Compare(x, y) = 0

\* eqv? on numbers: the same tag and the same value.
creme_eqv(a, b) == Tag(a) = Tag(b) /\ a = b

-----------------------------------------------------------------------------
(* Integer division.  On two fixnums C's own / and % run, which the build  *)
(* leaves undefined for INT_MIN by -1; x86 traps.                          *)

Undefined(x, y) == x = v_int(INT_MIN) /\ y = v_int(-1)

IsInteger(v) == Tag(v) \in {"int", "bigint"}

bi_quotient(x, y) ==
  IF Numer(y) = 0 THEN v_error ELSE make_bigint_from_mpz(TDiv(Numer(x), Numer(y)))

bi_remainder(x, y) ==
  IF Numer(y) = 0 THEN v_error ELSE make_bigint_from_mpz(TRem(Numer(x), Numer(y)))

\* The remainder of C's %, moved to the divisor's side.
Adjusted(r, b) == r # 0 /\ (r < 0) # (b < 0)

bi_modulo(x, y) ==
  LET a == Numer(x)
      b == Numer(y)
      r == TRem(a, b)
  IN CASE b = 0 -> v_error
       [] Tag(x) = "int" /\ Tag(y) = "int" ->
            v_int(IF Adjusted(r, b) THEN r + b ELSE r)
       [] OTHER -> make_bigint_from_mpz(FRem(a, b))

bi_floor_quotient(x, y) ==
  LET a == Numer(x)
      b == Numer(y)
  IN CASE b = 0 -> v_error
       [] Tag(x) = "int" /\ Tag(y) = "int" ->
            v_int(IF Adjusted(TRem(a, b), b) THEN TDiv(a, b) - 1 ELSE TDiv(a, b))
       [] OTHER -> make_bigint_from_mpz(FDiv(a, b))

RECURSIVE Euclid(_, _)
Euclid(a, b) == IF b = 0 THEN a ELSE Euclid(b, a % b)

i64_gcd(a, b) == Euclid(AbsInt(a), AbsInt(b))

\* One step of the fold: fixnums by Euclid, and mpz_gcd from the first
\* bigint or INT_MIN on.
bi_gcd(x, y) ==
  IF Tag(x) = "int" /\ Tag(y) = "int" /\ INT_MIN \notin {x[2], y[2]}
  THEN v_int(i64_gcd(i64_gcd(0, x[2]), y[2]))
  ELSE make_bigint_from_mpz(GcdOf(Numer(x), Numer(y)))

bi_lcm(x, y) ==
  LET a == AbsInt(Numer(x))
      b == AbsInt(Numer(y))
  IN IF a = 0 \/ b = 0 THEN v_int(0)
     ELSE make_bigint_from_mpz(TDiv(a, GcdOf(a, b)) * b)

-----------------------------------------------------------------------------
(* Powers and roots                                                        *)

RECURSIVE Power(_, _)
Power(b, e) == IF e = 0 THEN 1 ELSE b * Power(b, e - 1)

bi_expt(x, y) ==
  CASE y[2] >= 0     -> make_bigint_from_mpz(Power(Numer(x), y[2]))
    [] Numer(x) = 0  -> v_error
    [] OTHER         -> make_rational_from_mpq(1, Power(Numer(x), AbsInt(y[2])))

\* The first guess is the root of the nearest double; the two corrections
\* square in the machine's integers, so the second is undefined when
\* (root + 1)^2 is beyond INT_MAX.
SqrtOverflows(x) ==
  Tag(x) = "int" /\ \E r \in 0..x[2] : r * r <= x[2] /\ (r + 1) * (r + 1) > INT_MAX

bi_exact_integer_sqrt(x) ==
  LET n == Numer(x)
      root == CHOOSE r \in 0..n : r * r <= n /\ (r + 1) * (r + 1) > n
  IN IF n < 0 THEN <<v_error, v_error>>
     ELSE <<make_bigint_from_mpz(root), make_bigint_from_mpz(n - root * root)>>

-----------------------------------------------------------------------------
(* Rounding and the other one-argument procedures                          *)

bi_floor(x) ==
  CASE IsInteger(x)      -> x
    [] Tag(x) = "float"  -> v_float(2 * FDiv(x[2], 2))
    [] OTHER             -> make_bigint_from_mpz(FDiv(x[2], x[3]))

bi_ceiling(x) ==
  CASE IsInteger(x)      -> x
    [] Tag(x) = "float"  -> v_float(-(2 * FDiv(-x[2], 2)))
    [] OTHER             -> make_bigint_from_mpz(-FDiv(-x[2], x[3]))

bi_truncate(x) ==
  CASE IsInteger(x)      -> x
    [] Tag(x) = "float"  -> v_float(2 * TDiv(x[2], 2))
    [] OTHER             -> make_bigint_from_mpz(TDiv(x[2], x[3]))

\* A rational half goes to the even neighbour; C's round() takes a double's
\* half away from zero.
bi_round(x) ==
  LET f == FDiv(x[2], x[3])
      twice == 2 * FRem(x[2], x[3])
  IN CASE IsInteger(x)     -> x
       [] Tag(x) = "float" -> v_float(2 * (IF x[2] < 0 THEN TDiv(x[2] - 1, 2)
                                           ELSE TDiv(x[2] + 1, 2)))
       [] OTHER -> make_bigint_from_mpz(
                     IF twice > x[3] \/ (twice = x[3] /\ f % 2 = 1) THEN f + 1 ELSE f)

bi_abs(x) ==
  CASE x = v_int(INT_MIN)   -> make_bigint_from_mpz(-INT_MIN)
    [] Tag(x) = "rational"  -> <<"rational", AbsInt(x[2]), x[3]>>
    [] Tag(x) = "bigint"    -> make_bigint_from_mpz(AbsInt(x[2]))
    [] OTHER                -> <<Tag(x), AbsInt(x[2])>>

bi_square(x) == num_mul(x, x)
bi_zero_p(x) == Tag(x) \in {"int", "float"} /\ x[2] = 0
bi_positive_p(x) == x[2] > 0
bi_negative_p(x) == x[2] < 0
bi_odd_p(x) == x[2] % 2 # 0
bi_even_p(x) == x[2] % 2 = 0
bi_min(x, y) == IF num_lt(y, x) THEN y ELSE x
bi_max(x, y) == IF num_gt(y, x) THEN y ELSE x
bi_numerator(x) == make_bigint_from_mpz(Numer(x))
bi_denominator(x) == make_bigint_from_mpz(value_to_mpq(x))

\* exact of a double truncates; out of a fixnum's range it is undefined.
bi_exact(x) == IF Tag(x) = "float" THEN v_int(TDiv(x[2], 2)) ELSE x

bi_inexact(x) == v_float(as_double(x))

bi_make_rectangular(x, y) == make_complex(x, y)
bi_real_part(x) == IF Tag(x) = "complex" THEN x[2] ELSE x
bi_imag_part(x) == IF Tag(x) = "complex" THEN x[3] ELSE v_int(0)

\* The folds of +, -, * and / over their arguments.
bi_plus(args) == FoldLeft(num_add, v_int(0), args)
bi_minus(args) == IF Len(args) = 1 THEN num_sub(v_int(0), args[1])
                  ELSE FoldLeft(num_sub, Head(args), Tail(args))
bi_star(args) == FoldLeft(num_mul, v_int(1), args)
bi_slash(args) == IF Len(args) = 1 THEN num_div(v_int(1), args[1])
                  ELSE FoldLeft(num_div, Head(args), Tail(args))

\* <, >, <=, >= and = of several arguments compare neighbours.
Chain(Op(_, _), args) == \A i \in 1..(Len(args) - 1) : Op(args[i], args[i + 1])
bi_num_lt(args) == Chain(num_lt, args)
bi_num_gt(args) == Chain(num_gt, args)
bi_num_le(args) == Chain(num_le, args)
bi_num_ge(args) == Chain(num_ge, args)
bi_num_eq(args) == Chain(num_eq, args)

bi_truncate_slash(x, y) == <<bi_quotient(x, y), bi_remainder(x, y)>>
bi_floor_slash(x, y) == <<bi_floor_quotient(x, y), bi_modulo(x, y)>>

bi_integer_p(x) == IsInteger(x) \/ (Tag(x) = "float" /\ x[2] % 2 = 0)
bi_exact_p(x) == is_exact_real(x)
bi_rational_p(x) == is_exact_real(x) \/ Tag(x) = "float"

\* The exact root of an exact perfect square, else a double.
bi_magnitude(x) ==
  LET sumsq == num_add(num_mul(x[2], x[2]), num_mul(x[3], x[3]))
      n == Numer(sumsq)
  IN IF Tag(x) # "complex" THEN bi_abs(x)
     ELSE IF IsInteger(sumsq) /\ \E r \in 0..n : r * r = n
     THEN make_bigint_from_mpz(CHOOSE r \in 0..n : r * r = n)
     ELSE v_float(CHOOSE k \in 0..(2 * as_double(sumsq) + 2) :
            /\ k * k <= 2 * as_double(sumsq)
            /\ (k + 1) * (k + 1) > 2 * as_double(sumsq))

\* libm's sqrt, here of k halves and rounded down to a half.
FloatSqrt(k) == Nearest(CHOOSE r \in 0..(2 * k + 1) : r * r <= 2 * k /\ (r + 1) * (r + 1) > 2 * k, 2)

\* A fixnum that is a square has an exact root.
bi_sqrt(x) ==
  LET n == x[2] IN
  CASE Tag(x) = "int" /\ n >= 0 /\ (\E r \in 0..n : r * r = n) -> v_int(CHOOSE r \in 0..n : r * r = n)
    [] as_double(x) < 0 -> make_complex(v_float(0), v_float(FloatSqrt(-as_double(x))))
    [] OTHER -> v_float(FloatSqrt(as_double(x)))

-----------------------------------------------------------------------------
(* Numbers as text: a sign, digits, and what follows the digits.           *)

Text(sign, digits, rest) == [sign |-> sign, digits |-> digits, rest |-> rest]
NoText == Text("", <<>>, <<>>)   \* number->string aborted

\* mpz_get_str and %lld.
Digits(n, radix) ==
  LET len == CHOOSE k \in 1..(n + 1) : radix^k > n /\ (k = 1 \/ radix^(k - 1) <= n)
  IN [i \in 1..len |-> (n \div radix^(len - i)) % radix]

mpz_get_str(n, radix) == Text(IF n < 0 THEN "-" ELSE "", Digits(AbsInt(n), radix), <<>>)

\* A double in halves: whole and small, with an exponent, or as it is.
FloatText(k) ==
  LET t == mpz_get_str(TDiv(k, 2), 10)
      sign == IF k < 0 THEN "-" ELSE ""
  IN CASE k % 2 = 0 /\ AbsInt(k) < 2 * WHOLE_FLOAT -> Text(sign, t.digits, <<".", 0>>)
       [] AbsInt(k) >= 2 * G_DIGITS -> Text(sign, t.digits, <<"e", 0>>)
       [] k % 2 = 0 -> t
       [] OTHER -> Text(sign, t.digits, <<".", 5>>)

\* Rationals and complex numbers have no text.
bi_number_to_string(v, radix) ==
  CASE radix \notin 2..36 -> NoText
    [] Tag(v) \in {"int", "bigint"} -> mpz_get_str(v[2], radix)
    [] Tag(v) = "float" /\ radix = 10 -> FloatText(v[2])
    [] OTHER -> NoText

\* strtoll takes a sign of either kind, mpz_set_str only a minus.
bi_string_to_number(t, radix) ==
  LET n == FoldLeft(LAMBDA m, d : m * radix + d, 0, t.digits)
      z == IF t.sign = "-" THEN -n ELSE n
      halves == 2 * n + (IF t.rest = <<".", 5>> THEN 1 ELSE 0)
  IN CASE radix \notin 2..36 -> v_error
       [] t.rest = <<>> /\ \A i \in DOMAIN t.digits : t.digits[i] < radix ->
            IF Fits(z) THEN v_int(z)
            ELSE IF t.sign = "+" THEN <<"bool", FALSE>> ELSE make_bigint_from_mpz(z)
       [] t.rest # <<>> /\ radix = 10 -> v_float(IF t.sign = "-" THEN -halves ELSE halves)
       [] OTHER -> <<"bool", FALSE>>

-----------------------------------------------------------------------------
(* The machine                                                             *)

RealInBounds(v) ==
  CASE Tag(v) = "rational" -> AbsInt(v[2]) <= INT_MAX /\ v[3] <= INT_MAX
    [] Tag(v) = "float"    -> AbsInt(v[2]) <= 2 * MaxMagnitude
    [] OTHER               -> AbsInt(v[2]) <= MaxMagnitude

InBounds(v) ==
  /\ v # v_error
  /\ IF Tag(v) = "complex"
     THEN \A part \in {v[2], v[3]} : Tag(part) = "int" /\ AbsInt(part[2]) <= 1
     ELSE RealInBounds(v)

Results(x, y) ==
  {bi_plus(<<x, y>>), bi_minus(<<x, y>>), bi_minus(<<x>>), bi_star(<<x, y>>),
   bi_slash(<<x, y>>), bi_square(x)}
  \cup (IF is_real_component(x) /\ is_real_component(y)
        THEN {bi_min(x, y), bi_max(x, y), bi_make_rectangular(x, y), bi_abs(x),
              bi_floor(x), bi_ceiling(x), bi_truncate(x), bi_round(x),
              bi_inexact(x), bi_sqrt(x)}
        ELSE {bi_real_part(x), bi_imag_part(y)})
  \cup (IF IsInteger(x) /\ IsInteger(y) /\ ~Undefined(x, y)
        THEN {bi_quotient(x, y), bi_remainder(x, y), bi_modulo(x, y),
              bi_floor_quotient(x, y), bi_gcd(x, y), bi_lcm(x, y)}
        ELSE {})
  \cup (IF bi_exact_p(x) THEN {bi_numerator(x), bi_denominator(x)} ELSE {})
  \cup (IF Tag(x) = "complex" THEN {bi_magnitude(x)} ELSE {})
  \cup (IF Tag(x) = "float" /\ Fits(TDiv(x[2], 2)) THEN {bi_exact(x)} ELSE {})

NumbersInit == numX = v_int(1) /\ numY = v_int(2)

Compute ==
  /\ \E v \in Results(numX, numY) : InBounds(v) /\ numX' = v
  /\ UNCHANGED numY

Swap == numX' = numY /\ numY' = numX

NumbersNext == Compute \/ Swap

-----------------------------------------------------------------------------
(* Properties                                                              *)

CanonicalReal(v) ==
  CASE Tag(v) = "int"      -> Fits(v[2])
    [] Tag(v) = "bigint"   -> ~Fits(v[2])
    [] Tag(v) = "rational" -> v[3] > 1 /\ GcdOf(v[2], v[3]) = 1
    [] Tag(v) = "float"    -> v[2] = Nearest(v[2], 2)

\* Every number a computation produces is in the one form value.h promises
\* for it: a bigint never fits a fixnum, a rational is in lowest terms and
\* never whole, a complex never has an exact zero imaginary part.
NumbersCanonical ==
  \A v \in {numX, numY} :
    IF Tag(v) = "complex"
    THEN v[3] # v_int(0) /\ CanonicalReal(v[2]) /\ CanonicalReal(v[3])
    ELSE CanonicalReal(v)

\* A value equals the fraction n/d.
Is(v, n, d) == is_exact_real(v) /\ Numer(v) * d = n * value_to_mpq(v)

\* Exact operands give the exact result, across the overflow of a fixnum in
\* either direction: no wrapped sum, no rounded quotient.
ExactResults ==
  LET x == numX
      y == numY
      dx == value_to_mpq(x)
      dy == value_to_mpq(y)
  IN is_exact_real(x) /\ is_exact_real(y) =>
       /\ Is(num_add(x, y), Numer(x) * dy + Numer(y) * dx, dx * dy)
       /\ Is(num_sub(x, y), Numer(x) * dy - Numer(y) * dx, dx * dy)
       /\ Is(num_mul(x, y), Numer(x) * Numer(y), dx * dy)
       /\ Numer(y) # 0 => Is(num_mul(num_div(x, y), y), Numer(x), dx)
       /\ num_add(bi_abs(x), bi_abs(num_sub(v_int(0), x))) = num_mul(v_int(2), bi_abs(x))

\* The three integer divisions and their remainders belong together:
\* x = q * y + r, with r smaller than y and on the side each one promises.
DivisionsAgree ==
  LET x == numX
      y == numY
      Rebuilt(q, r) == num_add(num_mul(q, y), r) = x
  IN IsInteger(x) /\ IsInteger(y) /\ Numer(y) # 0 /\ ~Undefined(x, y) =>
       /\ Rebuilt(bi_truncate_slash(x, y)[1], bi_truncate_slash(x, y)[2])
       /\ Rebuilt(bi_floor_slash(x, y)[1], bi_floor_slash(x, y)[2])
       /\ num_lt(bi_abs(bi_remainder(x, y)), bi_abs(y))
       /\ num_lt(bi_abs(bi_modulo(x, y)), bi_abs(y))
       /\ Numer(bi_modulo(x, y)) * Numer(y) >= 0
       /\ Numer(bi_remainder(x, y)) * Numer(x) >= 0
       /\ bi_even_p(x) <=> bi_modulo(x, v_int(2)) = v_int(0)
       /\ bi_odd_p(x) <=> bi_modulo(x, v_int(2)) = v_int(1)
       /\ num_mul(bi_gcd(x, y), bi_lcm(x, y)) = bi_abs(num_mul(x, y))

\* The order is one order: exactly one of <, =, > holds, <= and >= are their
\* unions, and rounding stays within one of the number it rounds.
OrderIsOne ==
  LET x == numX
      y == numY
      one == v_int(1)
  IN is_real_component(x) /\ is_real_component(y) =>
       /\ bi_rational_p(x) /\ bi_rational_p(y)
       /\ bi_num_lt(<<x, y>>) # bi_num_ge(<<x, y>>)
       /\ bi_num_gt(<<x, y>>) # bi_num_le(<<x, y>>)
       /\ bi_num_eq(<<x, y, x>>) = bi_num_le(<<x, y, x>>)
       /\ bi_num_le(<<bi_floor(x), x, bi_ceiling(x)>>)
       /\ bi_integer_p(x) = bi_num_eq(<<bi_floor(x), x>>)
       /\ is_exact_real(x) =>
            /\ num_le(num_sub(bi_ceiling(x), bi_floor(x)), one)
            /\ bi_round(x) \in {bi_floor(x), bi_ceiling(x)}

\* Exact numbers that are = are eqv?, so a key stored under one is found
\* under the other: it takes canonical forms on both sides.
EqualIsEqv ==
  is_exact_real(numX) /\ is_exact_real(numY) =>
    (num_eq(numX, numY) <=> creme_eqv(numX, numY))

\* exact-integer-sqrt and expt invert each other on non-negative integers.
RootsAndPowers ==
  IsInteger(numX) /\ Numer(numX) >= 0 =>
    LET r == bi_exact_integer_sqrt(numX)
    IN /\ ~SqrtOverflows(numX) =>
            num_add(bi_expt(r[1], v_int(2)), r[2]) = numX
       /\ Numer(numX) > 0 =>
            num_mul(bi_expt(numX, v_int(-2)), bi_square(numX)) = v_int(1)
       /\ Tag(bi_square(numX)) = "int" => bi_sqrt(bi_square(numX)) = numX

\* A number that has been written is read back, in every base and on both
\* sides of the fixnums' bounds; only a whole double of 16 or 17 digits comes
\* back exact.  Another base reads only its own digits.
TextReadsBack ==
  \A radix \in Radices :
    LET t == bi_number_to_string(numX, radix)
        back == bi_string_to_number(t, radix)
    IN IF t = NoText THEN Tag(numX) \in {"rational", "complex"} \/ (radix # 10 /\ Tag(numX) = "float")
       ELSE /\ num_eq(back, numX)
            /\ back = numX \/ AbsInt(numX[2]) \in (2 * WHOLE_FLOAT)..(2 * G_DIGITS - 1)
            /\ Tag(numX) = "int" /\ t.sign = "" => bi_string_to_number([t EXCEPT !.sign = "+"], radix) = numX
            /\ \A r \in Radices : bi_string_to_number(t, r) = <<"bool", FALSE>>
                 <=> \/ t.rest = <<>> /\ \E i \in DOMAIN t.digits : t.digits[i] >= r
                     \/ t.rest # <<>> /\ r # 10

\* The numeric tower of vm.c and builtins.c computes exactly, whatever
\* representations its operands have and whichever its result needs.
TowerIsExact ==
  NumbersCanonical /\ ExactResults /\ DivisionsAgree /\ OrderIsOne /\ EqualIsEqv /\ RootsAndPowers
  /\ TextReadsBack

=============================================================================
