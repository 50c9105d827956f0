------------------------------ MODULE BuiltIns ------------------------------
(***************************************************************************)
(* The built-in functions on texts, words and bytes as an exec calls them  *)
(* (src/rxstr.c, rxword.c, rxconv.c): each takes its arguments apart,      *)
(* puts in the defaults and calls the library.                             *)
(***************************************************************************)
EXTENDS WordFunctions

CONSTANTS HEX, BITS, LONG       \* see Conversions

C == INSTANCE Conversions
D == INSTANCE Decimal

\* An omitted argument, and get_oi0(), get_oiv(), get_pad() on it.
None == <<>>
Given(arg) == arg # None
Or(arg, default) == IF Given(arg) THEN arg[1] ELSE default
Some(x) == <<x>>

R_SSoI(func, a, b, arg) ==
  LET l == Or(arg, 0)
  IN  CASE func = "ABBREV" -> Labbrev(a, b, l)
        [] func = "INDEX" -> Lindex(a, b, l)
        [] func \in {"FIND", "WORDPOS"} -> IF func = "FIND" THEN Lwordpos(b, a, l) ELSE Lwordpos(a, b, l)
        [] func = "LASTPOS" -> Llastpos(a, b, l)
        [] func = "POS" -> Lindex(b, a, l)
        [] func = "FPOS" -> fndpos(a, b, Or(arg, 1))

R_SIoC(func, s, n, arg) ==
  LET pad == Or(arg, BLANK)
  IN  CASE func = "CENTER" -> Lcenter(s, n, pad)
        [] func = "JUSTIFY" -> Ljustify(s, n, pad)
        [] func = "LEFT" -> Lsubstr(s, 1, n, pad)
        [] func = "RIGHT" -> Lright(s, n, pad)

R_SIoI(func, s, n, arg) ==
  LET l == Or(arg, -1)
  IN  CASE func = "DELSTR" -> Ldelstr(s, n, l)
        [] func = "DELWORD" -> Ldelword(s, n, l)
        [] func = "SUBWORD" -> Lsubword(s, n, l)

R_SSoIoIoC(func, a, b, n, l, pad) ==
  CASE func = "INSERT" -> Linsert(a, b, Or(n, 0), Or(l, -1), Or(pad, BLANK))
    [] func = "OVERLAY" -> Loverlay(a, b, Or(n, 0), Or(l, -1), Or(pad, BLANK))

R_substr(s, n, l, pad) == Lsubstr(s, n, Or(l, -1), Or(pad, BLANK))
R_strip(s, action, pad) == Lstrip(s, Or(action, "B"), Or(pad, BLANK))
R_filter(s, table, action) == Lfilter(s, table, Or(action, "D"))
R_compare(a, b, pad) == Lcompare(a, b, Or(pad, BLANK))
\* An omitted input table is all characters, an omitted output table empty.
R_translate(s, out, in, pad) ==
  IF Given(in) THEN Ltranslate(s, Or(out, Empty), in[1], Or(pad, BLANK))
  ELSE IF Given(out) THEN Ltranslate(s, out[1], [i \in 1 .. HEX * HEX |-> i - 1], Or(pad, BLANK))
  ELSE s
R_join(s, target, joiners) == IF Or(joiners, Empty) = Empty THEN Ljoin(s, target, <<BLANK>>) ELSE Ljoin(s, target, joiners[1])
R_verify(s, ref, match, start) == Lverify(s, ref, Or(match, "N") = "M", Or(start, 1))
R_space(s, n, pad) == Lspace(s, Or(n, 1), Or(pad, BLANK))

R_SI(func, s, n) ==
  CASE func = "WORD" -> Lword(s, n)
    [] func = "WORDLENGTH" -> Lwordlength(s, n)
    [] func = "WORDINDEX" -> Lwordindex(s, n)
R_S(func, s) ==
  CASE func = "LENGTH" -> Len(s)
    [] func = "WORDS" -> Lwords(s)
    [] func = "REVERSE" -> Lreverse(s)

----------------------------------------------------------------------------
(* On bytes and digits.                                                    *)

\* BITAND, BITOR, BITXOR: the rest of the longer text only with a pad.
BitOp(func, a, b) ==
  LET bit(x, k) == (x \div 2 ^ k) % 2
      of(x, y) == CASE func = "BITAND" -> x * y
                    [] func = "BITOR" -> Max({x, y})
                    [] func = "BITXOR" -> (x + y) % 2
  IN  FoldLeft(LAMBDA v, k : v + of(bit(a, k), bit(b, k)) * 2 ^ k, 0, [k \in 1 .. 2 * BITS |-> k - 1])
R_SoSoC(func, a, b, pad) ==
  LET long == IF Len(a) < Len(b) THEN b ELSE a
      short == IF Len(a) < Len(b) THEN a ELSE b
  IN  [i \in DOMAIN long |->
         IF i <= Len(short) THEN BitOp(func, a[i], b[i])
         ELSE IF Given(pad) THEN BitOp(func, long[i], pad[1]) ELSE long[i]]

R_SoI(func, s, n) ==
  CASE func = "C2D" -> C!Lc2d(s, Or(n, -1))
    [] func = "X2D" -> C!Lx2d(s, Or(n, -1))
R_IoI(func, number, n) ==
  CASE func = "D2C" -> C!Ld2c(number, Or(n, -1))
    [] func = "D2X" -> C!Ld2x(number, Or(n, -1))
Digits(func, s) ==
  CASE func = "B2X" -> C!Lb2x(s)
    [] func = "C2X" -> C!Lc2x(s)
    [] func = "X2B" -> C!Lx2b(s)
    [] func = "X2C" -> C!Lx2c(s)
R_xrange(start, stop) == C!Lxrange(Or(start, 0), Or(stop, HEX * HEX - 1))
R_d2p(number, plen) == C!Ld2p(number, IF plen = 0 THEN 6 ELSE plen)

----------------------------------------------------------------------------
(* DATATYPE: a text is a sequence of characters, see _Lisnum in            *)
(* Conversions; "@" stands for the special ones of a symbol.               *)

clower == {"a", "x"}
cUPPER == {"E"}
cdigits == {"0", "1", "7"}
chex == cdigits \union {"a", "E"}
crxsymb == {"@", "."}
Figure(c) == CASE c = "0" -> 0 [] c = "1" -> 1 [] c = "7" -> 7
Figures(s) == FoldLeft(LAMBDA v, c : IF c \in cdigits THEN 10 * v + Figure(c) ELSE v, 0, s)

\* Ldecsplit() on a text that is a number, whose exponent begins at `end`.
Place(s, c) == Min({i \in DOMAIN s : s[i] = c} \union {Len(s) + 1})
SplitAt(s, end, point) ==
  D!Ldecsplit(s[1] = "-", Figures(SubSeq(s, 1, end - 1)),
              (Figures(SubSeq(s, end + 1, Len(s))) * IF "-" \in Range(SubSeq(s, end, Len(s))) THEN -1 ELSE 1)
              - Cardinality({i \in point .. end - 1 : s[i] \in cdigits}))
Split(s) == SplitAt(s, Place(s, "E"), Place(s, "."))
dec_whole(d, digits) ==
  LET r == D!Ldecround(d, digits) IN \A i \in DOMAIN r.num : i > r.exp => r.num[i] = 0

\* Blanks only between groups of `group` digits, counted from the right.
Grouped(s, chars, group) ==
  /\ s[1] # " " /\ s[Len(s)] # " "
  /\ \A i \in DOMAIN s :
       IF s[i] = " " THEN Cardinality({j \in i .. Len(s) : s[j] # " "}) % group = 0 ELSE s[i] \in chars
Of(s, chars) == \A i \in DOMAIN s : s[i] \in chars
DatatypeOf(s, type, digits, number) ==
  IF s = Empty THEN type \in {"X", "B"}
  ELSE CASE type = "A" -> Of(s, clower \union cUPPER \union cdigits)
         [] type = "B" -> Grouped(s, {"0", "1"}, 4)
         [] type = "L" -> Of(s, clower)
         [] type = "M" -> Of(s, clower \union cUPPER)
         [] type = "N" -> number # "string"
         [] type = "S" -> Of(s, clower \union cUPPER \union cdigits \union crxsymb)
         [] type = "U" -> Of(s, cUPPER)
         [] type = "W" -> \/ number = "integer"
                          \/ number = "real" /\ dec_whole(Split(s), digits)
         [] type = "X" -> Grouped(s, chex, 2)
Ldatatype(s, type, digits) == DatatypeOf(s, type, digits, C!_Lisnum(s))
=============================================================================
