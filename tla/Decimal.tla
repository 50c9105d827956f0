------------------------------- MODULE Decimal -------------------------------
(***************************************************************************)
(* Numbers by their decimal digits (lstring/numfmt.c) for TRUNC,           *)
(* FORMAT and comparisons (trunc.c, format.c, equal.c).  d is an LDecNum:  *)
(* the digits num with the point in front, times 10^exp, and a sign.       *)
(*                                                                         *)
(* A text is a sequence of digits 0 .. 9, the blank and the signs below.   *)
(* NUMERIC DIGITS is a parameter (digits); a double is taken as the number *)
(* it was read from, so numbers have fewer than LDBLDIG digits.            *)
(***************************************************************************)
EXTENDS Integers, Sequences, SequencesExt, FiniteSets, FiniteSetsExt

BLANK == -1
POINT == 10
MINUS == 11
PLUS == 12
EXP == 13
Error == <<-2>>              \* the exec ends with a syntax error

Abs(x) == IF x < 0 THEN -x ELSE x
\* The digits of a whole number.
Figures(n) ==
  LET figures[k \in Nat] == IF k < 10 THEN <<k>> ELSE Append(figures[k \div 10], k % 10)
  IN  figures[n]

\* Ldecsplit() on coefficient * 10^e, which may have zeros in front.
Zero == [num |-> <<>>, exp |-> 0, neg |-> FALSE]
Ldecsplit(neg, coefficient, e) ==
  IF coefficient = 0 THEN Zero
  ELSE [num |-> Figures(coefficient), exp |-> Len(Figures(coefficient)) + e, neg |-> neg]

\* The guard digit decides; a carry out of the first digit makes it 1.
Ldecround(d, digits) ==
  LET n == Max({1, digits})
      kept == SubSeq(d.num, 1, n)
      notNine == {i \in 1 .. n : kept[i] # 9}
      last == Max(notNine)
  IN  IF Len(d.num) <= n THEN d
      ELSE IF d.num[n + 1] < 5 THEN [d EXCEPT !.num = kept]
      ELSE IF notNine = {} THEN [d EXCEPT !.num = <<1>>, !.exp = @ + 1]
      ELSE [d EXCEPT !.num = [i \in 1 .. n |-> IF i < last THEN kept[i]
                                               ELSE IF i = last THEN kept[i] + 1 ELSE 0]]

\* The figure at place i of 0.num.
Figure(d, i) == IF i \in DOMAIN d.num THEN d.num[i] ELSE 0
Sign(neg) == IF neg THEN <<MINUS>> ELSE <<>>

----------------------------------------------------------------------------
(* TRUNC.                                                                  *)

trunc_iszero(t, n) == \A i \in DOMAIN t.num : i <= t.exp + n => t.num[i] = 0
\* The places of t before the point, and n behind it.
Placed(t, n) ==
  LET whole == IF t.exp > 0 THEN [i \in 1 .. t.exp |-> Figure(t, i)] ELSE <<0>>
  IN  Sign(t.neg /\ ~ trunc_iszero(t, n)) \o whole
      \o IF n = 0 THEN <<>> ELSE <<POINT>> \o [i \in 1 .. n |-> Figure(t, t.exp + i)]
Ltrunc(number, n, digits) == Placed(Ldecround(number, digits), n)

----------------------------------------------------------------------------
(* FORMAT.  x is the number on its way: its digits, whether an exponent is *)
(* shown, the exponent e and the places before the point.                  *)

\* Round half up, keeping the digits of weight 10^w and above.
fmt_round(d, w) ==
  LET keep == d.exp - w
  IN  IF Len(d.num) <= keep THEN d
      ELSE IF keep >= 1 THEN Ldecround(d, keep)
      ELSE IF keep = 0 /\ d.num[1] >= 5 THEN [d EXCEPT !.num = <<1>>, !.exp = w + 1]
      ELSE Zero

\* ROUND: printf rounds to three places more, what it shows is rounded again.
Lround(number, n) == Placed(fmt_round(fmt_round(number, -(n + 3)), -n), n)

fmt_engineering(x) ==
  LET down == Abs(x.e) % 3
      \* e-- until e is a multiple of 3
      steps == IF x.e >= 0 THEN down ELSE (3 - down) % 3
  IN  [x EXCEPT !.e = @ - steps, !.point = @ + steps]
Exponential(d, e, engineering) ==
  LET x == [d |-> d, showexp |-> TRUE, e |-> e, point |-> 1]
  IN  IF engineering THEN fmt_engineering(x) ELSE x
Significant(num) == LET some == {i \in DOMAIN num : num[i] # 0} IN IF some = {} THEN 0 ELSE Max(some)

\* Is an exponent shown, by the places the number needs?
Shown(d, expp, expt) ==
  LET intp == IF d.exp > 0 THEN d.exp ELSE 1
      decp == Max({Significant(d.num) - d.exp, 0})
  IN  d.num # <<>> /\ expp # 0 /\ (expt = 0 \/ intp > expt \/ decp > 2 * expt)

Began(d, expp, expt, engineering) ==
  IF Shown(d, expp, expt) THEN Exponential(d, d.exp - 1, engineering)
  ELSE [d |-> d, showexp |-> FALSE, e |-> 0, point |-> IF d.exp > 0 THEN d.exp ELSE 1]

\* Mutant: a carry out of the first digit leaves the place where it was.
CarriedNot(x, after, expp, expt, engineering) == x
\* Rounded to `after` decimals, which may need a place more before the point.
Carried(x, after, expp, expt, engineering) ==
  LET places == x.d.exp - x.e
      again == Exponential(x.d, x.d.exp - 1, engineering)
  IN  IF x.d.num = <<>> \/ places <= x.point THEN x
      ELSE IF ~ x.showexp /\ expp # 0 /\ places > expt
        THEN [again EXCEPT !.d = fmt_round(@, again.e - after)]
      ELSE IF x.showexp THEN Exponential(x.d, x.e + places - 1, engineering)
      ELSE [x EXCEPT !.point = places]
Rounded(x, after, expp, expt, engineering) ==
  IF after < 0 THEN x
  ELSE Carried([x EXCEPT !.d = fmt_round(@, x.e - after)], after, expp, expt, engineering)

fmt_digit(d, w) == Figure(d, d.exp - w)
Exponent(e, expd) ==
  <<EXP, IF e < 0 THEN MINUS ELSE PLUS>>
  \o [i \in 1 .. expd |-> (Abs(e) \div 10 ^ (expd - i)) % 10]
Spread(x, before, after, expp) ==
  LET neg == x.d.neg /\ x.d.num # <<>>
      sign == IF neg THEN 1 ELSE 0
      blanks == IF before < 0 THEN 0 ELSE before - x.point - sign
      expd == Len(Figures(Abs(x.e)))
  IN  IF blanks < 0 \/ (x.showexp /\ expp > 0 /\ expd > expp) THEN Error
      ELSE [i \in 1 .. blanks |-> BLANK] \o Sign(neg)
           \o [i \in 1 .. x.point |-> fmt_digit(x.d, x.e + x.point - i)]
           \o (IF after > 0 THEN <<POINT>> \o [i \in 1 .. after |-> fmt_digit(x.d, x.e - i)] ELSE <<>>)
           \o (IF ~ x.showexp THEN <<>>
               ELSE IF x.e # 0 THEN Exponent(x.e, IF expp > 0 THEN expp ELSE expd)
               ELSE IF expp > 0 THEN [i \in 1 .. expp + 2 |-> BLANK] ELSE <<>>)

\* An omitted before, after, expp or expt is -1.
FormattedAs(x, before, after, expp) ==
  Spread(x, before, IF after < 0 THEN Max({Len(x.d.num) - (x.d.exp - x.e), 0}) ELSE after, expp)
FormatWith(d, before, after, expp, expt, engineering) ==
  FormattedAs(Rounded(Began(d, expp, expt, engineering), after, expp, expt, engineering),
              before, after, expp)
Lformat(number, before, after, expp, expt, digits, engineering) ==
  FormatWith(Ldecround(number, digits), before, after, expp,
             IF expt < 0 THEN digits ELSE expt, engineering)

----------------------------------------------------------------------------
(* Comparison, and a real as a text.                                       *)

\* num_cmp(): rounded to NUMERIC DIGITS, and what is left is compared.  The code
\* tells numbers far apart, or of opposite signs, without their digits.
Stripped(d) == [d EXCEPT !.num = SubSeq(@, 1, Significant(@))]
Signum(d) == IF d.num = <<>> THEN 0 ELSE IF d.neg THEN -1 ELSE 1
Larger(a, b) ==
  LET differ == {i \in 1 .. Max({Len(a.num), Len(b.num)}) : Figure(a, i) # Figure(b, i)}
  IN  IF a.exp # b.exp THEN (IF a.exp > b.exp THEN 1 ELSE -1)
      ELSE IF differ = {} THEN 0
      ELSE IF Figure(a, Min(differ)) > Figure(b, Min(differ)) THEN 1 ELSE -1
Compared(a, b) ==
  IF Signum(a) # Signum(b) THEN (IF Signum(a) > Signum(b) THEN 1 ELSE -1)
  ELSE IF Signum(a) = 0 THEN 0 ELSE Signum(a) * Larger(a, b)
num_cmp(a, b, digits) == Compared(Stripped(Ldecround(a, digits)), Stripped(Ldecround(b, digits)))

dec_scientific(d) ==
  <<d.num[1]>> \o (IF Len(d.num) > 1 THEN <<POINT>> \o Tail(d.num) ELSE <<>>)
  \o Exponent(d.exp - 1, Len(Figures(Abs(d.exp - 1))))
dec_plain(d) ==
  (IF d.exp <= 0 THEN <<0>> ELSE [i \in 1 .. d.exp |-> Figure(d, i)])
  \o IF Len(d.num) > d.exp THEN <<POINT>> \o [i \in 1 .. Len(d.num) - d.exp |-> Figure(d, d.exp + i)]
     ELSE <<>>
RealText(d, digits) ==
  IF d.num = <<>> THEN <<0>>
  ELSE Sign(d.neg) \o IF d.exp > digits \/ Len(d.num) - d.exp > 2 * digits
                        THEN dec_scientific(d) ELSE dec_plain(d)
Lreal2str(number, digits) == RealText(Stripped(Ldecround(number, digits)), digits)
=============================================================================
