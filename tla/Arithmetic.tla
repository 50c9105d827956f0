----------------------------- MODULE Arithmetic -----------------------------
(***************************************************************************)
(* The operators of arithmetic (lstring/add.c, mult.c, div.c,              *)
(* intdiv.c, mod.c, expose.c, neg.c, abs.c, inc.c, dec.c) on the three     *)
(* kinds of values a variable may hold: a long, a double and a text        *)
(* (lstring.c, _Lisnum ... Lrdnum).                                        *)
(*                                                                         *)
(* A value is n / d, d > 0.  A long is at most INTMAX, at least            *)
(* -INTMAX - 1.  Doubles are exact here: their 15 digits and their range   *)
(* (fprange.c) are left out.                                               *)
(***************************************************************************)
EXTENDS Integers, Sequences, SequencesExt, FiniteSetsExt

CONSTANT INTMAX

INTMIN == -INTMAX - 1
Value(type, n, d) == [type |-> type, n |-> n, d |-> d]
INT(n) == Value("int", n, 1)
REAL(n, d) == IF d < 0 THEN Value("real", -n, -d) ELSE Value("real", n, d)
\* A text that shows a whole number, one with a point or an exponent, and one
\* that shows none.
WHOLETEXT(n) == Value("whole", n, 1)
POINTTEXT(n, d) == Value("point", n, d)
NoNumber == Value("string", 0, 1)
Error == Value("error", 0, 1)
\* The fixed point divide of the machine has no result: the step abends.
Abend == Value("abend", 0, 1)

Abs(x) == IF x < 0 THEN -x ELSE x
Quot(a, b) == IF (a < 0) = (b < 0) THEN Abs(a) \div Abs(b) ELSE -(Abs(a) \div Abs(b))
\* The part of n / d in front of the point.
Ldectrunc(v) == Quot(v.n, v.d)
LFITSINT(n, d) == n >= INTMIN * d /\ n <= INTMAX * d
IsWhole(v) == v.n % v.d = 0

----------------------------------------------------------------------------
(* Reading and converting.                                                 *)

\* Lrdnum(): the sign is applied last, so that a text is never INTMIN.
Lrdnum(v) ==
  CASE v.type = "whole" -> IF Abs(v.n) <= INTMAX THEN INT(v.n) ELSE REAL(v.n, 1)
    [] v.type = "point" -> REAL(v.n, v.d)
    [] v.type = "string" -> Error
    [] OTHER -> v
Lrdreal(v) == IF v.type = "string" THEN Error ELSE REAL(v.n, v.d)
\* A long, from any number that is one.
Lrdint(v) ==
  IF v.type = "string" \/ ~ IsWhole(v) THEN Error
  ELSE IF LFITSINT(v.n, v.d) THEN INT(Quot(v.n, v.d)) ELSE Error

Bad(v) == v.type = "error"
Zero(v) == v.n = 0
\* Mutant: a sum beyond a long wraps around.
FittedWrapped(n) == INT(((n - INTMIN) % (2 * INTMAX + 2)) + INTMIN)
\* A long if it fits, else a double.
Fitted(n) == IF LFITSINT(n, 1) THEN INT(n) ELSE REAL(n, 1)
Ints(a, b) == a.type = "int" /\ b.type = "int"

----------------------------------------------------------------------------
(* The operators.                                                          *)

Sum(a, b, sign) ==
  LET n == (a.n * b.d) + (sign * b.n * a.d)
      d == a.d * b.d
  IN  IF Bad(a) \/ Bad(b) THEN Error
      ELSE IF Ints(a, b) THEN Fitted(n) ELSE REAL(n, d)
Ladd(A, B) == Sum(Lrdnum(A), Lrdnum(B), 1)
Lsub(A, B) == Sum(Lrdnum(A), Lrdnum(B), -1)

\* Longs whose product does not fit give its digits as a text.
Product(a, b) ==
  IF Bad(a) \/ Bad(b) THEN Error
  ELSE IF ~ Ints(a, b) THEN REAL(a.n * b.n, a.d * b.d)
  ELSE IF LFITSINT(a.n * b.n, 1) THEN INT(a.n * b.n) ELSE WHOLETEXT(a.n * b.n)
Lmult(A, B) == Product(Lrdnum(A), Lrdnum(B))

Quotient(a, b) ==
  IF Bad(a) \/ Bad(b) \/ Zero(b) THEN Error ELSE REAL(a.n * b.d, a.d * b.n)
Ldiv(A, B) == Quotient(Lrdreal(A), Lrdreal(B))
Lintdiv(A, B) ==
  LET q == Quotient(Lrdreal(A), Lrdreal(B)) IN IF Bad(q) THEN q ELSE Fitted(Ldectrunc(q))

\* Two longs with the remainder of C, all others by the quotient.
Remainder(a, b) ==
  LET q == Quotient(a, b)
  IN  IF Bad(q) THEN q
      ELSE REAL((a.n * b.d) - (Ldectrunc(q) * b.n * a.d), a.d * b.d)
Lmod(A, B) ==
  IF ~ Ints(A, B) THEN Remainder(Lrdreal(A), Lrdreal(B))
  ELSE IF Zero(B) THEN Error
  ELSE IF A.n = INTMIN /\ B.n = -1 THEN Abend
  ELSE INT(A.n - (Quot(A.n, B.n) * B.n))

Negated(v) ==
  IF Bad(v) THEN v ELSE IF v.type = "int" /\ v.n # INTMIN THEN INT(-v.n) ELSE REAL(-v.n, v.d)
Lneg(A) == Negated(Lrdnum(A))
Absolute(v) ==
  IF Bad(v) THEN v ELSE IF v.type = "int" /\ v.n # INTMIN THEN INT(Abs(v.n)) ELSE REAL(Abs(v.n), v.d)
Labs(A) == Absolute(Lrdnum(A))
\* The counter of a loop.
Stepped(v, up) ==
  IF Bad(v) THEN v
  ELSE IF v.type = "int" THEN Fitted(v.n + up) ELSE REAL(v.n + (up * v.d), v.d)
Linc(A) == Stepped(Lrdnum(A), 1)
Ldec(A) == Stepped(Lrdnum(A), -1)

\* ar is squared for every bit of the exponent, and taken where the bit is set.
RECURSIVE Squared(_, _, _)
Squared(bi, r, ar) ==
  IF bi = 0 THEN r
  ELSE LET taken == IF bi % 2 = 1 THEN [n |-> r.n * ar.n, d |-> r.d * ar.d] ELSE r
       IN  IF bi = 1 THEN taken
           ELSE Squared(bi \div 2, taken, [n |-> ar.n * ar.n, d |-> ar.d * ar.d])
Power(a, b) ==
  LET r == Squared(Abs(b.n), [n |-> 1, d |-> 1], [n |-> Abs(a.n), d |-> a.d])
      sign == IF a.n < 0 /\ b.n % 2 = 1 THEN -1 ELSE 1
  IN  IF Bad(a) \/ Bad(b) THEN Error
      ELSE IF b.n >= 0 THEN REAL(sign * r.n, r.d)
      ELSE IF r.n = 0 THEN Error ELSE REAL(sign * r.d, r.n)
Lexpose(A, B) == Power(Lrdreal(A), Lrdint(B))

\* MAX, MIN (builtin.c): compared as doubles; a whole number that fits is a long.
Extreme(args, Beats(_, _)) ==
  LET real(i) == Lrdreal(args[i])
      best == CHOOSE i \in DOMAIN args :
                /\ \A j \in 1 .. i - 1 : Beats(real(i), real(j))
                /\ \A j \in i + 1 .. Len(args) : ~ Beats(real(j), real(i))
  IN  IF \E i \in DOMAIN args : Bad(real(i)) THEN Error
      ELSE IF LFITSINT(args[best].n, args[best].d) /\ IsWhole(args[best])
        THEN INT(Quot(args[best].n, args[best].d))
      ELSE real(best)
R_max(args) == Extreme(args, LAMBDA a, b : a.n * b.d > b.n * a.d)
R_min(args) == Extreme(args, LAMBDA a, b : a.n * b.d < b.n * a.d)

\* A condition: 0 or 1, however it is written.
Lbool(v) ==
  IF v.type = "string" \/ v.n \notin {0, v.d} THEN Error ELSE INT(Quot(v.n, v.d))

\* AND, OR, XOR and NOT on the bits of longs, in two's complement.
Bits == {k \in 0 .. 30 : 2 ^ k <= INTMAX}
BitOf(n, k) == (n \div 2 ^ k) % 2
\* The number of those bits, and of the sign.
OfBits(Bit(_), negative) ==
  MapThenSumSet(LAMBDA k : Bit(k) * 2 ^ k, Bits) + IF negative THEN INTMIN ELSE 0
BitwiseOp(func, x, y) ==
  LET of(p, q) == CASE func = "AND" -> p * q
                    [] func = "OR" -> IF p + q > 0 THEN 1 ELSE 0
                    [] func = "XOR" -> (p + q) % 2
      sign(n) == IF n < 0 THEN 1 ELSE 0
  IN  INT(OfBits(LAMBDA k : of(BitOf(x, k), BitOf(y, k)), of(sign(x), sign(y)) = 1))
R_bitwise(func, args) ==
  IF \E i \in DOMAIN args : Bad(Lrdint(args[i])) THEN Error
  ELSE FoldLeft(LAMBDA v, arg : BitwiseOp(func, v.n, Lrdint(arg).n), Lrdint(args[1]), Tail(args))
R_not(v) ==
  IF Bad(Lrdint(v)) THEN Error ELSE INT(-(Lrdint(v).n) - 1)

\* CEIL, FLOOR: (long) of the whole number above or below.
Lceil(A) == LET r == Lrdreal(A) IN IF Bad(r) THEN r ELSE INT(-((-r.n) \div r.d))
Lfloor(A) == LET r == Lrdreal(A) IN IF Bad(r) THEN r ELSE INT(r.n \div r.d)
Lsign(A) ==
  LET r == Lrdreal(A) IN IF Bad(r) THEN r ELSE INT(IF r.n > 0 THEN 1 ELSE IF r.n < 0 THEN -1 ELSE 0)
R_abs_sign(func, v) == IF func = "ABS" THEN Labs(v) ELSE Lsign(v)
=============================================================================
