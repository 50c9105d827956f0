---------------------------- MODULE Conversions ----------------------------
(***************************************************************************)
(* The conversions between numbers, bytes, hexadecimal and binary digits   *)
(* (lstring/?2?.c).  A byte is a number below HEX * HEX, a hexadecimal     *)
(* digit one below HEX, a bit 0 or 1; the blank in a text of digits is -1. *)
(* HEX and LONG, 16 and 4 in the code, are kept as parameters so that      *)
(* every number of a long can be tried.  An omitted length is -1.          *)
(***************************************************************************)
EXTENDS Integers, Sequences, SequencesExt, FiniteSets, FiniteSetsExt

CONSTANTS HEX,       \* values of a hexadecimal digit: 16, four bits
          BITS,      \* bits of a hexadecimal digit: 4
          LONG       \* bytes of a long: 4

BLANK == -1
Error == <<-2>>      \* the exec ends with a syntax error
BYTE == HEX * HEX
Modulus(n) == BYTE ^ n
LongMin == -(Modulus(LONG) \div 2)
LongMax == Modulus(LONG) \div 2 - 1

\* A number of n bytes as a long, from its unsigned value.
Value(base, digits) == FoldLeft(LAMBDA v, d : v * base + d, 0, digits)

Lc2x(bytes) ==
  [i \in 1 .. 2 * Len(bytes) |->
     LET b == bytes[(i + 1) \div 2] IN IF i % 2 = 1 THEN b \div HEX ELSE b % HEX]

\* X2C: groups of digits between blanks; an odd one gets a 0 in front.
Packed(digits) ==
  LET even == IF Len(digits) % 2 = 1 THEN <<0>> \o digits ELSE digits
  IN  [i \in 1 .. Len(even) \div 2 |-> HEX * even[2 * i - 1] + even[2 * i]]
Groups(text) ==
  LET from[i \in 1 .. Len(text) + 1] ==
        LET ends == {j \in i .. Len(text) : text[j] = BLANK}
            end == IF ends = {} THEN Len(text) + 1 ELSE Min(ends)
        IN  IF i > Len(text) THEN << >> ELSE <<SubSeq(text, i, end - 1)>> \o
              IF end >= Len(text) THEN << >> ELSE from[end + 1]
  IN  from[1]
Lx2c(text) == FoldLeft(LAMBDA bytes, g : bytes \o Packed(g), << >>, Groups(text))

\* X2B: the bits of every digit, from the highest.
Digits(text) == SelectSeq(text, LAMBDA c : c # BLANK)
Lx2b(text) ==
  LET digits == Digits(text)
  IN  [i \in 1 .. BITS * Len(digits) |->
         LET k == (i - 1) \div BITS
         IN  (digits[k + 1] \div (2 ^ (BITS - 1 - ((i - 1) % BITS)))) % 2]

\* B2X: from the right, BITS bits make a digit, the first may have fewer.
Lb2x(text) ==
  LET bits == Digits(text)
      n == (Len(bits) + BITS - 1) \div BITS
      Bits(k) == SubSeq(bits, Max({1, Len(bits) - (k + 1) * BITS + 1}), Len(bits) - k * BITS)
  IN  [i \in 1 .. n |-> Value(2, Bits(n - i))]

\* Mutant: a text as long as the length asked for keeps its sign even without one.
Lc2dSigned(bytes, length) ==
  LET n == IF length < 1 \/ length > LONG THEN LONG ELSE length
      fill == IF length >= 1 /\ bytes[1] >= BYTE \div 2 THEN BYTE - 1 ELSE 0
      m == IF n <= Len(bytes) THEN n ELSE Len(bytes)
      num == Value(BYTE, SubSeq(bytes, Len(bytes) - m + 1, Len(bytes)))
  IN  IF bytes = << >> \/ length = 0 THEN 0
      ELSE IF \E i \in 1 .. Len(bytes) - LONG : bytes[i] # fill THEN Error
      ELSE IF bytes[1] >= BYTE \div 2 THEN num - Modulus(m) ELSE num

\* C2D: at most LONG bytes count; more may only extend the sign.
Lc2d(bytes, length) ==
  LET n == IF length < 1 \/ length > LONG THEN LONG ELSE length
      byte(i) == bytes[Len(bytes) - i + 1]          \* the i-th from the right
      negative == n <= Len(bytes) /\ byte(n) >= BYTE \div 2
      lim == IF length < 1 \/ length > Len(bytes) THEN Len(bytes) ELSE length
      fill == IF length >= 1 /\ negative THEN BYTE - 1 ELSE 0
      m == IF n <= Len(bytes) THEN n ELSE Len(bytes)
      num == Value(BYTE, SubSeq(bytes, Len(bytes) - m + 1, Len(bytes)))
  IN  IF bytes = << >> \/ length = 0 THEN 0
      ELSE IF \E i \in LONG + 1 .. lim : byte(i) # fill THEN Error
      ELSE IF negative THEN num - Modulus(n) ELSE num

\* D2C: the bytes of the magnitude, complemented, until nothing is left or
\* the length is full; at least one.
Ld2c(number, length) ==
  LET negative == number < 0
      mag == IF negative THEN -number - 1 ELSE number
      n == IF length < 0 THEN 0 ELSE IF length > LONG THEN LONG ELSE length
      needed == Max({i \in 0 .. LONG : i = 0 \/ mag >= Modulus(i - 1)})
      some == Max({Min({IF n = 0 THEN LONG ELSE n, IF mag = 0 THEN 0 ELSE needed}), 1})
      size == Max({some, n})
      low(i) == (mag \div Modulus(i - 1)) % BYTE    \* the i-th from the right
  IN  IF length = 0 THEN << >>
      ELSE [k \in 1 .. size |->
              LET i == size - k + 1
                  b == IF i <= some THEN low(i) ELSE 0
              IN  IF negative THEN BYTE - 1 - b ELSE b]

\* Lright() on digits.
Right(digits, length, pad) ==
  [i \in 1 .. length |->
     IF i <= length - Len(digits) THEN pad ELSE digits[Len(digits) - length + i]]

\* D2X: a given length is made of whole bytes and cut, or filled with blanks.
Ld2x(number, length) ==
  IF length < 0
    THEN LET x == Lc2x(Ld2c(number, -1))
         IN  Right(x, Len(x) - (IF x[1] = 0 THEN 1 ELSE 0), BLANK)
    ELSE Right(Lc2x(Ld2c(number, (length \div 2) + (length % 2))), length, BLANK)

\* X2D: the sign of the leftmost digit kept is extended to whole bytes.
Lx2d(text, length) ==
  LET tmp == Digits(text)
      n == IF length > Len(tmp) THEN Len(tmp) + 1 ELSE length
      dig == Right(tmp, n, 0)
      whole == IF n % 2 = 1
                 THEN Right(dig, n + 1, IF dig[1] >= HEX \div 2 THEN HEX - 1 ELSE 0)
                 ELSE dig
  IN  IF length = 0 THEN 0
      ELSE IF length < 0 THEN Lc2d(Lx2c(text), -1)
      ELSE Lc2d(Lx2c(whole), (n + 1) \div 2)

\* C2U: the rightmost LONG bytes without a sign.
R_c2u(bytes) ==
  Value(BYTE, SubSeq(bytes, Len(bytes) - Min({LONG, Len(bytes)}) + 1, Len(bytes)))

\* XRANGE wraps from the last byte to 0.
Lxrange(start, stop) ==
  [i \in 1 .. (IF start <= stop THEN stop - start + 1 ELSE BYTE + 1 - (start - stop)) |->
     ((start + i) - 1) % BYTE]

\* D2P: the digits of the number with the sign behind, two to a byte, on the
\* left filled with zeros; P2D reads it back.  10 .. 15 are the signs A .. F.
Decimal(number) ==
  LET digits[n \in Nat] == IF n < 10 THEN <<n>> ELSE Append(digits[n \div 10], n % 10)
  IN  digits[IF number < 0 THEN -number ELSE number]
Ld2p(number, plen) ==
  LET nibbles == Append(Decimal(number), IF number < 0 THEN 13 ELSE 15)
      even == IF Len(nibbles) % 2 = 1 THEN <<0>> \o nibbles ELSE nibbles
      bytes == [i \in 1 .. Len(even) \div 2 |-> <<even[2 * i - 1], even[2 * i]>>]
  IN  IF plen < Len(bytes) THEN Error
      ELSE [i \in 1 .. plen - Len(bytes) |-> <<0, 0>>] \o bytes
Lp2d(packed) ==
  LET n == FoldLeft(LAMBDA v, b : v * 100 + b[1] * 10 + b[2], 0, Front(packed))
      v == n * 10 + Last(packed)[1]
  IN  IF Last(packed)[2] \in {11, 13} THEN -v
      ELSE IF Last(packed)[2] \in {10, 12, 15} THEN v ELSE Error

----------------------------------------------------------------------------
(* _Lisnum(): is a text a number, and a whole one or a real?  The text is  *)
(* a sequence of the characters " ", "-", "+", ".", "E", digits and others.*)
IsDigit(c) == c \in {"0", "1", "7"}
While(s, p, T(_)) ==
  LET stops == {q \in p .. Len(s) : ~ T(s[q])} IN IF stops = {} THEN Len(s) + 1 ELSE Min(stops)
Blanks(s, p) == While(s, p, LAMBDA c : c = " ")
Number(s, p) == While(s, p, IsDigit)
At(s, p, set) == p <= Len(s) /\ s[p] \in set

\* The text from its end on: p3 is behind the mantissa, p5 behind the exponent.
Ended(s, digits, real, p3, p5) ==
  IF ~ digits \/ p5 = 0 \/ Blanks(s, p5) <= Len(s) THEN "string"
  ELSE IF real \/ p5 > p3 THEN "real" ELSE "integer"
\* Behind an E and a sign: 0 if there are no digits.
Powered(s, p) == IF Number(s, p) = p THEN 0 ELSE Number(s, p)
Exponent(s, p) ==
  IF ~ At(s, p, {"E"}) THEN p ELSE Powered(s, IF At(s, p + 1, {"-", "+"}) THEN p + 2 ELSE p + 1)
Scaled(s, digits, real, p) == Ended(s, digits, real, p, Exponent(s, p))
\* Behind the digits in front of the point, which ends them at p.
Fraction(s, digits, p) ==
  IF At(s, p, {"."}) THEN Scaled(s, digits \/ Number(s, p + 1) > p + 1, TRUE, Number(s, p + 1))
  ELSE Scaled(s, digits, FALSE, p)
\* Blanks are skipped behind the sign, and behind the first digit.
Unsigned(s, p) ==
  IF p <= Len(s) /\ IsDigit(s[p]) THEN Fraction(s, TRUE, Number(s, Blanks(s, p + 1)))
  ELSE Fraction(s, FALSE, p)
AfterSign(s, p) == Unsigned(s, Blanks(s, IF At(s, p, {"-", "+"}) THEN p + 1 ELSE p))
_Lisnum(s) == AfterSign(s, Blanks(s, 1))
=============================================================================
