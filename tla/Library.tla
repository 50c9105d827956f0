------------------------------ MODULE Library ------------------------------
(***************************************************************************)
(* One call after another of the built-in functions on texts, words, bytes *)
(* and numbers, and of PARSE, each beside what its documentation says of   *)
(* the result (docs/books/ref/lang-builtin.typ, ext-kernel.typ).  The      *)
(* functions are pure: a behaviour is a call and its return.               *)
(***************************************************************************)
EXTENDS BuiltIns

CONSTANTS LONGEST,     \* bound: characters of a text
          INTMAX       \* see Arithmetic

VARIABLE call          \* the function, its arguments and its result

A == INSTANCE Arithmetic
Dates == INSTANCE Dates
T == INSTANCE Template
Doc == INSTANCE Documented
vars == <<call>>

Idle == [func |-> "none", args |-> <<>>, result |-> <<>>]
Ready == call.func = "none"
Called(func, args, result) == call' = [func |-> func, args |-> args, result |-> result]

TextsOver(chars, longest) == UNION {[1 .. n -> chars] : n \in 0 .. longest}
Texts == TextsOver({0, 1, 2}, LONGEST)
Letters == TextsOver({1, 2}, LONGEST + 1)
Needles == TextsOver({1, 2}, 3)
PAD == Some(9)

----------------------------------------------------------------------------
(* The calls.  Arguments for which the functions end the exec with an      *)
(* error before they do anything are left out.                             *)

CallSearch == Ready /\
  \/ \E func \in {"POS", "LASTPOS", "FPOS"}, needle \in Needles, s \in Letters,
        start \in {None} \union {Some(n) : n \in 1 .. LONGEST + 2} :
       Called(func, <<needle, s, start>>, R_SSoI(func, needle, s, start))
  \/ \E needle \in Needles, s \in Letters, start \in {None, Some(2)} :
       Called("INDEX", <<needle, s, start>>, R_SSoI("INDEX", s, needle, start))
  \/ \E a \in Letters, b \in Needles, n \in {None} \union {Some(k) : k \in 0 .. 3} :
       Called("ABBREV", <<a, b, n>>, R_SSoI("ABBREV", a, b, n))
  \/ \E needle \in Needles, s \in Letters :
       Called("COUNTSTR", <<needle, s>>, Lcountstr(needle, s))
  \/ \E old \in Needles, s \in Letters, new \in {<<>>, <<1>>, <<2, 1>>} :
       \/ Called("CHANGESTR", <<old, s, new>>, Lchangestr(old, s, new))
       \/ Called("FCHANGESTR", <<old, s, new>>, R_fchangestr(old, s, new))
  \/ \E a, b \in TextsOver({1, 9}, 3) : Called("COMPARE", <<a, b>>, R_compare(a, b, PAD))
  \/ \E s \in Texts, ref \in {<<>>, <<1>>, <<0, 2>>}, match \in {"N", "M"}, start \in {None, Some(2)} :
       Called("VERIFY", <<s, ref, match, start>>, R_verify(s, ref, Some(match), start))

CallText == Ready /\
  \/ \E s \in Texts, n \in 1 .. LONGEST + 2, l \in {None} \union {Some(k) : k \in 0 .. LONGEST + 1} :
       \/ Called("SUBSTR", <<s, n, l>>, R_substr(s, n, l, PAD))
       \/ l # Some(0) /\ Called("DELSTR", <<s, n, l>>, R_SIoI("DELSTR", s, n, l))
  \/ \E func \in {"LEFT", "RIGHT", "CENTER"}, s \in Texts, n \in 0 .. LONGEST + 3 :
       Called(func, <<s, n>>, R_SIoC(func, s, n, PAD))
  \/ \E func \in {"INSERT", "OVERLAY"}, new \in {<<>>, <<1>>, <<1, 2>>}, s \in TextsOver({5, 6}, 3),
        n \in {None} \union {Some(k) : k \in 0 .. 5}, l \in {None} \union {Some(k) : k \in 1 .. 3} :
       Called(func, <<new, s, n, l>>, R_SSoIoIoC(func, new, s, n, l, PAD))
  \/ \E s \in TextsOver({1, 2}, 2), n \in 0 .. 9 : Called("COPIES", <<s, n>>, Lcopies(s, n))
  \/ \E s \in Texts, action \in {"L", "T", "B"} :
       Called("STRIP", <<s, action>>, R_strip(s, Some(action), None))
  \/ \E s \in Texts, table \in {<<>>, <<1>>, <<0, 2>>}, action \in {"D", "K", "B"} :
       Called("FILTER", <<s, table, action>>, R_filter(s, table, Some(action)))
  \/ \E s \in Texts, in \in {<<1>>, <<2, 1, 2>>, <<0, 1>>}, out \in {<<>>, <<7>>, <<7, 8, 6>>} :
       Called("TRANSLATE", <<s, out, in>>, R_translate(s, Some(out), Some(in), PAD))
  \/ \E s \in Texts : Called("REVERSE", <<s>>, R_S("REVERSE", s))
  \/ \E s \in TextsOver({1, 2}, 3), target \in TextsOver({0, 5, 6}, 3), joiners \in {None, <<<<5, 6>>>>} :
       Called("JOIN", <<s, target, joiners>>, R_join(s, target, joiners))
  \/ \E a, b \in TextsOver({1, 2, 3}, 3) : a # <<>> /\ b # <<>> /\ Called("LCS", <<a, b>>, lcs(a, b))
  \/ \E s \in TextsOver({0, 1, 5}, LONGEST) : Called("MASKBLK", <<s>>, R_maskblk(s, 5, 9))

CallWord == Ready /\
  \/ \E s \in Texts : Called("WORDS", <<s>>, R_S("WORDS", s))
  \/ \E func \in {"WORD", "WORDINDEX", "WORDLENGTH"}, s \in Texts, n \in 1 .. 3 :
       Called(func, <<s, n>>, R_SI(func, s, n))
  \/ \E func \in {"SUBWORD", "DELWORD"}, s \in Texts, n \in 1 .. 3,
        l \in {None} \union {Some(k) : k \in 0 .. 3} :
       Called(func, <<s, n, l>>, R_SIoI(func, s, n, l))
  \/ \E func \in {"WORDPOS", "FIND"}, phrase \in TextsOver({0, 1, 2}, 3), s \in Texts, start \in {None, Some(2)} :
       Called(func, <<phrase, s, start>>,
              IF func = "FIND" THEN R_SSoI(func, s, phrase, start) ELSE R_SSoI(func, phrase, s, start))
  \/ \E s \in Texts, n \in {None} \union {Some(k) : k \in 0 .. 2} :
       Called("SPACE", <<s, n>>, R_space(s, n, PAD))
  \/ \E s \in Texts \union TextsOver({0, 1}, LONGEST + 2), n \in 0 .. 2 * LONGEST + 2 :
       Called("JUSTIFY", <<s, n>>, R_SIoC("JUSTIFY", s, n, PAD))
  \/ \E s \in Texts, n \in 1 .. 3 : Called("LASTWORD", <<s, n>>, R_lastword(s, n))
  \/ \E s \in Texts : Called("SPLIT", <<s>>, R_split(s, <<BLANK>>))

Bytes == TextsOver(0 .. HEX * HEX - 1, 1) \union TextsOver({0, 1, ((HEX * HEX) \div 2) - 1, (HEX * HEX) \div 2, HEX * HEX - 1}, LONG + 1)
Whole == C!LongMin .. C!LongMax
CallConversion == Ready /\
  \/ \E s \in Bytes, n \in {None} \union {Some(k) : k \in 0 .. LONG + 1} :
       Called("C2D", <<s, n>>, R_SoI("C2D", s, n))
  \/ \E s \in TextsOver(0 .. HEX - 1, LONG + 1), n \in {None} \union {Some(k) : k \in 0 .. 2 * LONG} :
       Called("X2D", <<s, n>>, R_SoI("X2D", s, n))
  \/ \E func \in {"D2C", "D2X"}, n \in Whole, l \in {None} \union {Some(k) : k \in 0 .. LONG + 1} :
       Called(func, <<n, l>>, R_IoI(func, n, l))
  \/ \E func \in {"B2X", "X2B"}, s \in TextsOver({0, 1}, 2 * BITS + 1) : Called(func, <<s>>, Digits(func, s))
  \/ \E s \in Bytes : Called("C2X", <<s>>, Digits("C2X", s))
  \/ \E s \in TextsOver({-1, 1, HEX - 1}, 5) :
       s # <<>> /\ s[1] # -1 /\ s[Len(s)] # -1 /\ Called("X2C", <<s>>, Digits("X2C", s))
  \/ \E s \in Bytes : Called("C2U", <<s>>, C!R_c2u(s))
  \/ \E n \in Whole, l \in 0 .. 3 : Called("D2P", <<n, l>>, R_d2p(n, l))
  \/ \E func \in {"BITAND", "BITOR", "BITXOR"}, a, b \in TextsOver({0, 5, 12}, 2), pad \in {None, Some(6)} :
       Called(func, <<a, b, pad>>, R_SoSoC(func, a, b, pad))
  \/ \E s \in TextsOver({" ", "-", ".", "E", "7", "x"}, LONGEST) : Called("DATATYPE", <<s>>, C!_Lisnum(s))
  \/ \E s \in TextsOver({" ", ".", "E", "7", "1"}, LONGEST), type \in {"W"}, digits \in {2, 9} :
       Called("DATATYPE of", <<s, type, digits>>, Ldatatype(s, type, digits))
  \/ \E s \in TextsOver({" ", "1", "7"}, LONGEST + 3), type \in {"B", "X"} :
       Called("DATATYPE of", <<s, type, 9>>, Ldatatype(s, type, 9))
  \/ \E s \in TextsOver({"x", "E", "7", "@", " "}, 3), type \in {"A", "L", "M", "N", "S", "U", "X"} :
       Called("DATATYPE of", <<s, type, 9>>, Ldatatype(s, type, 9))
  \/ \E from, to \in {None} \union {Some(k) : k \in 0 .. HEX * HEX - 1} :
       Called("XRANGE", <<from, to>>, R_xrange(from, to))

Coefficients == {0, 1, 5, 45, 95, 99, 149, 945, 949, 995, 999}
Number(neg, c, e) == D!Ldecsplit(neg, c, e)
CallNumber == Ready /\
  \/ \E c \in Coefficients, e \in -4 .. 1, neg \in BOOLEAN, digits \in {2, 9}, n \in 0 .. 3 :
       Called("TRUNC", <<neg, c, e, digits, n>>, D!Ltrunc(Number(neg, c, e), n, digits))
  \/ \E c \in Coefficients, e \in {-12} \union -4 .. 1, digits \in {2, 9}, after \in -1 .. 3, expp \in {-1, 0, 1},
        expt \in {-1, 0, 2}, engineering \in BOOLEAN, before \in {-1, 3} :
       LET neg == before = 3
       IN  Called("FORMAT", <<neg, c, e, digits, before, after, expp, expt, engineering>>,
                  D!Lformat(Number(neg, c, e), before, after, expp, expt, digits, engineering))
  \* A number with more than n + 3 decimals is rounded twice.
  \/ \E c \in Coefficients, e \in -4 .. 1, neg \in BOOLEAN, n \in 0 .. 3 :
       n + 3 >= -e /\ Called("ROUND", <<neg, c, e, n>>, D!Lround(Number(neg, c, e), n))
  \/ \E a, b \in Coefficients, e, f \in -1 .. 1, neg, minus \in BOOLEAN, digits \in {2, 9} :
       Called("COMPARED", <<neg, a, e, minus, b, f, digits>>,
              D!num_cmp(Number(neg, a, e), Number(minus, b, f), digits))
  \/ \E c \in Coefficients, e \in -8 .. 4, neg \in BOOLEAN, digits \in {2, 9} :
       Called("SHOWN", <<neg, c, e, digits>>, D!Lreal2str(Number(neg, c, e), digits))

\* A template of up to four parts; the targets are numbered.
Parts == {[kind |-> "target", arg |-> 0], [kind |-> "dot", arg |-> T!DOT],
          [kind |-> "text", arg |-> <<1>>], [kind |-> "text", arg |-> <<0, 2>>],
          [kind |-> "absolute", arg |-> 1], [kind |-> "absolute", arg |-> 3],
          [kind |-> "relative", arg |-> 1], [kind |-> "relative", arg |-> -1]}
Named(t) == [i \in DOMAIN t |-> IF t[i].kind = "target" THEN T!Token("target", i) ELSE t[i]]
Sources == {<<>>, <<0>>, <<1>>, <<0, 2>>, <<2, 0, 1>>, <<1, 1, 2>>, <<0, 1, 0, 2, 0>>, <<2, 0, 0, 2, 1>>,
            <<1, 0, 2, 0, 2, 1>>}
CallParse == Ready /\
  \E n \in 0 .. 4 : \E t \in [1 .. n -> Parts], s \in Sources :
    Called("PARSE", <<s, Named(t)>>,
           T!Parsed(s, Named(t), {i \in 1 .. n : t[i].kind = "target"}))

Longs == {A!INT(n) : n \in A!INTMIN .. INTMAX}
Doubles == {A!REAL(1, 2), A!REAL(-3, 2), A!REAL(5, 1), A!REAL(INTMAX + 1, 1), A!REAL(A!INTMIN - 1, 1)}
Written == {A!WHOLETEXT(n) : n \in {A!INTMIN - 1, A!INTMIN, -2, 0, INTMAX, INTMAX + 2}}
           \union {A!POINTTEXT(-2, 1), A!POINTTEXT(5, 2)} \union {A!NoNumber}
Values == Longs \union Doubles \union Written
\* CEIL and FLOOR of a number beyond a long: undefined in C, left out.
Rounding == {v \in Values : A!LFITSINT(v.n, v.d)}
CallArithmetic == Ready /\
  \/ \E a, b \in Values :
       \/ Called("+", <<a, b>>, A!Ladd(a, b))
       \/ Called("-", <<a, b>>, A!Lsub(a, b))
       \/ Called("*", <<a, b>>, A!Lmult(a, b))
       \/ Called("/", <<a, b>>, A!Ldiv(a, b))
       \/ Called("%", <<a, b>>, A!Lintdiv(a, b))
       \/ Called("//", <<a, b>>, A!Lmod(a, b))
       \/ Called("**", <<a, b>>, A!Lexpose(a, b))
  \/ \E a \in Values :
       \/ Called("negated", <<a>>, A!Lneg(a))
       \/ Called("counted up", <<a>>, A!Linc(a))
       \/ Called("counted down", <<a>>, A!Ldec(a))
       \/ Called("tested", <<a>>, A!Lbool(a))
       \/ Called("NOT", <<a>>, A!R_not(a))
       \/ \E func \in {"ABS", "SIGN"} : Called(func, <<a>>, A!R_abs_sign(func, a))
  \/ \E a \in Rounding : Called("CEIL", <<a>>, A!Lceil(a)) \/ Called("FLOOR", <<a>>, A!Lfloor(a))
  \/ \E n \in 1 .. 3 : \E args \in [1 .. n -> Doubles \union Written \union {A!INT(5), A!INT(-1)}] :
       Called("MAX", args, A!R_max(args)) \/ Called("MIN", args, A!R_min(args))
  \/ \E func \in {"AND", "OR", "XOR"}, a, b \in Values : Called(func, <<a, b>>, A!R_bitwise(func, <<a, b>>))

\* The dates, and the formats that can be read.
TODAY == 2026
Years == {1, 4, 100, 400, 1900, 1926, 1927, 1969, 1999, 2000, 2024, 2026, 2100, 9999}
Days == {[day |-> d, month |-> m, year |-> y] : d \in {1, 28, 29, 31}, m \in 1 .. 12, y \in Years}
Read == {"BASE", "JDN", "UNIX", "TIME", "JULIAN", "STANDARD", "ORDERED", "INTERNATIONAL", "EUROPEAN",
         "XEUROPEAN", "GERMAN", "USA", "XUSA", "DEC", "XDEC", "NORMAL", "SHORT", "LONG", "QUALIFIED"}
Shown == (Read \ {"GERMAN"}) \union {"CENTURY", "DAYS", "GERMAN", "MONTH", "WEEKDAY", "XGERMAN", "YEAR"}
\* The seconds of a date beyond the first days of 1902 and of 2038 are more than
\* a long: left out.
InSeconds(format, d) == format = "TIME" => d.year \in 1902 .. 2037
USECS == 3
Clock(t) == [sec |-> t \div USECS, usec |-> t % USECS]
CallDate == Ready /\
  \/ \E d \in Days, format2 \in Read, format1 \in {"JDN", "STANDARD"} :
       /\ d.day <= Doc!MonthLength(d.month, d.year) /\ InSeconds(format2, d)
       /\ Called("DATE", <<d, format1, format2>>,
                 Dates!Ldate(format1, Doc!GivenAs(format2, d), format2, TODAY))
  \/ \E d \in Days, format1 \in Shown :
       /\ d.day <= Doc!MonthLength(d.month, d.year) /\ InSeconds(format1, d)
       /\ Called("DATE", <<d, format1, "XEUROPEAN">>,
                 Dates!Ldate(format1, Doc!GivenAs("XEUROPEAN", d), "XEUROPEAN", TODAY))
  \/ \E n \in 1 .. 3, began \in 0 .. USECS - 1 :
     \E options \in [1 .. n -> {"E", "R"}], later \in [1 .. n -> {0, 1, USECS - 1, USECS, USECS + 2}] :
       LET now(k) == began + FoldLeft(LAMBDA v, x : v + x, 0, SubSeq(later, 1, k))
           readings == [k \in 1 .. n |-> [option |-> options[k], now |-> Clock(now(k))]]
       IN  Called("TIME", <<readings, Clock(began)>>, Dates!Ltime(readings, Clock(began), USECS))
  \/ \E hour \in 0 .. 23 : Called("TIME('C')", <<hour>>, Dates!Civil(hour))

Return == ~ Ready /\ call' = Idle

Init == call = Idle
Next == CallSearch \/ CallText \/ CallWord \/ CallConversion \/ CallNumber \/ CallParse
        \/ CallArithmetic \/ CallDate \/ Return
Spec == Init /\ [][Next]_vars

----------------------------------------------------------------------------
(* Properties: the call that was made returned what is documented.         *)

Arg(i) == call.args[i]

SearchAgrees(func, a, b, got) ==
  LET found == Doc!Occurrences(a, b)
      start == Doc!Default(Arg(3), 1)
  IN  CASE func \in {"POS", "FPOS", "INDEX"} -> got = Doc!First({p \in found : p >= start})
        [] func = "LASTPOS" ->
             got = Doc!Final({p \in found : p + Len(a) - 1 <= Doc!Default(Arg(3), Len(b))})
        [] func = "ABBREV" ->
             got = (/\ Len(b) <= Len(a) /\ Doc!Part(a, 1, Len(b)) = b
                    /\ Len(b) >= Doc!Default(Arg(3), Len(b)))
        [] func = "COUNTSTR" -> got = Cardinality(Doc!Places(a, b))
        [] func \in {"CHANGESTR", "FCHANGESTR"} -> got = Doc!Replaced(a, b, Arg(3))
        [] func = "COMPARE" ->
             got = Doc!First({i \in 1 .. Len(a) + Len(b) : Doc!Char(a, i, 9) # Doc!Char(b, i, 9)})
        [] func = "VERIFY" ->
             got = Doc!First({i \in DOMAIN a : /\ (\E j \in DOMAIN b : b[j] = a[i]) = (Arg(3) = "M")
                                               /\ i >= Doc!Default(Arg(4), 1)})

\* The searching functions find what is there: the first or the last place
\* that lies whole in the text, counted and replaced from the left without
\* overlap.
SearchesAgree ==
  call.func \in {"POS", "FPOS", "INDEX", "LASTPOS", "ABBREV", "COUNTSTR", "CHANGESTR",
                 "FCHANGESTR", "COMPARE", "VERIFY"}
    => SearchAgrees(call.func, Arg(1), Arg(2), call.result)

\* got is s with pads around it, or cut at both ends; at the right one more.
IsCentred(got, s, length) ==
  LET off == D!Abs(length - Len(s)) \div 2
  IN  Len(got) = length
      /\ got = IF length >= Len(s) THEN Doc!Filled(off, 9) \o s \o Doc!Filled(length - Len(s) - off, 9)
               ELSE Doc!Part(s, off + 1, off + length)
TextAgrees(func, s, got) ==
  CASE func = "SUBSTR" -> got = Doc!Taken(s, Arg(2), Doc!Default(Arg(3), Max({Len(s) - Arg(2) + 1, 0})), 9)
    [] func = "DELSTR" ->
         got = FlattenSeq([i \in DOMAIN s |->
                             IF i >= Arg(2) /\ i < Arg(2) + Doc!Default(Arg(3), Len(s)) THEN <<>> ELSE <<s[i]>>])
    [] func = "LEFT" -> got = Doc!Taken(s, 1, Arg(2), 9)
    [] func = "RIGHT" -> got = Doc!Taken(s, Len(s) - Arg(2) + 1, Arg(2), 9)
    [] func = "CENTER" -> IsCentred(got, s, Arg(2))
    [] func = "INSERT" ->
         got = Doc!Taken(Arg(2), 1, Doc!Default(Arg(3), 0), 9)
               \o Doc!Taken(s, 1, Doc!Default(Arg(4), Len(s)), 9)
               \o Doc!Part(Arg(2), Doc!Default(Arg(3), 0) + 1, Len(Arg(2)))
    [] func = "OVERLAY" ->
         LET n == Max({Doc!Default(Arg(3), 1), 1})
             length == Doc!Default(Arg(4), Len(s))
         IN  got = [i \in 1 .. Max({Len(Arg(2)), n + length - 1}) |->
                      IF i \in n .. n + length - 1 THEN Doc!Char(s, i - n + 1, 9)
                      ELSE Doc!Char(Arg(2), i, 9)]
    [] func = "COPIES" -> got = FlattenSeq([i \in 1 .. Arg(2) |-> s])
    [] func = "STRIP" ->
         LET kept == {i \in DOMAIN s : /\ Arg(2) = "T" \/ \E j \in 1 .. i : s[j] # BLANK
                                       /\ Arg(2) = "L" \/ \E j \in i .. Len(s) : s[j] # BLANK}
         IN  got = Doc!Part(s, Doc!First(kept), IF kept = {} THEN -1 ELSE Max(kept))
    [] func = "FILTER" ->
         got = FlattenSeq([i \in DOMAIN s |->
                 LET in == \E j \in DOMAIN Arg(2) : Arg(2)[j] = s[i]
                 IN  IF Arg(3) = "B" THEN <<IF in THEN BLANK ELSE s[i]>>
                     ELSE IF Arg(2) = <<>> \/ in = (Arg(3) = "K") THEN <<s[i]>> ELSE <<>>])
    [] func = "TRANSLATE" ->
         \A i \in DOMAIN s :
           LET at == Doc!First({j \in DOMAIN Arg(3) : Arg(3)[j] = s[i]})
           IN  got[i] = IF at = 0 THEN s[i] ELSE Doc!Char(Arg(2), at, 9)
    [] func = "REVERSE" -> \A i \in DOMAIN s : got[i] = s[Len(s) - i + 1] /\ Len(got) = Len(s)
    [] func = "JOIN" ->
         LET target == Arg(2)
             in == Range(IF Arg(3) = None THEN <<BLANK>> ELSE Arg(3)[1])
         IN  /\ Len(got) = Max({Len(s), Len(target)})
             /\ \A i \in DOMAIN got :
                  got[i] = IF i \in DOMAIN s /\ (i \notin DOMAIN target \/ target = <<>> \/ target[i] \in in)
                             THEN s[i] ELSE target[i]
    [] func = "LCS" ->
         /\ Doc!Subsequence(got, s) /\ Doc!Subsequence(got, Arg(2))
         /\ \A t \in Doc!Subsequences(s) : Doc!Subsequence(t, Arg(2)) => Len(t) <= Len(got)
    [] func = "MASKBLK" ->
         \A i \in DOMAIN s :
           got[i] = IF /\ s[i] = BLANK
                       /\ Cardinality({j \in 1 .. i : s[j] = 5}) % 2 = 1 THEN 9 ELSE s[i]

\* The functions that cut, fill and rearrange keep every character that they
\* should keep at its place, and pad up to the length asked for.
CutsAgree ==
  call.func \in {"SUBSTR", "DELSTR", "LEFT", "RIGHT", "CENTER", "INSERT", "OVERLAY", "COPIES",
                 "STRIP", "FILTER", "TRANSLATE", "LCS", "MASKBLK", "REVERSE", "JOIN"}
    => TextAgrees(call.func, Arg(1), call.result)

\* The gaps between the words of got, where pad is the blank.
Gaps(runs) == {runs[i + 1][1] - runs[i][2] - 1 : i \in 1 .. Len(runs) - 1}
IsJustified(got, words, length) ==
  LET short == [i \in DOMAIN Doc!Joined(words, <<BLANK>>) |->
                  IF Doc!Joined(words, <<BLANK>>)[i] = BLANK THEN 9 ELSE Doc!Joined(words, <<BLANK>>)[i]]
      runs == Doc!RunSeq(got, 9)
  IN  /\ Len(got) = length
      /\ IF Len(short) > length THEN got = Doc!Part(short, 1, length)
         ELSE /\ Doc!WordsOf(got, 9) = words
              /\ \A g, h \in Gaps(runs) : g - h <= 1
              /\ words # <<>> => runs[1][1] = 1
              /\ Len(words) > 1 => Last(runs)[2] = length
WordAgrees(func, s, words, runs, got) ==
  LET n == Arg(2)
      count == Len(words)
      until == Min({count, n + Doc!Default(Arg(3), count) - 1})      \* SUBWORD, DELWORD
  IN  CASE func = "WORDS" -> got = count
        [] func = "WORD" -> got = IF n <= count THEN words[n] ELSE <<>>
        [] func = "WORDINDEX" -> got = IF n <= count THEN runs[n][1] ELSE 0
        [] func = "WORDLENGTH" -> got = IF n <= count THEN Len(words[n]) ELSE 0
        [] func = "SUBWORD" ->
             got = IF n > until THEN <<>> ELSE Doc!Part(s, runs[n][1], runs[until][2])
        [] func = "DELWORD" ->
             got = IF n > count THEN s
                   ELSE Doc!Part(s, 1, runs[n][1] - 1)
                        \o IF until = count THEN <<>> ELSE Doc!Part(s, runs[until + 1][1], Len(s))
        [] func = "SPACE" -> got = Doc!Joined(words, Doc!Filled(Doc!Default(n, 1), 9))
        [] func = "JUSTIFY" -> IsJustified(got, words, n)
        [] func = "LASTWORD" -> got = IF n <= count THEN words[count - n + 1] ELSE <<>>
        [] func = "SPLIT" -> got = words
PhraseAgrees(phrase, words, start, got) ==
  got = Doc!First({n \in start .. Len(words) - Len(phrase) + 1 :
                     /\ phrase # <<>>
                     /\ \A i \in DOMAIN phrase : words[n + i - 1] = phrase[i]})

\* The functions on words count, find, cut and spread exactly the longest
\* runs without a blank, whatever blanks lie before, between and behind them.
WordsAgree ==
  /\ call.func \in {"WORDS", "WORD", "WORDINDEX", "WORDLENGTH", "SUBWORD", "DELWORD", "SPACE",
                    "JUSTIFY", "LASTWORD", "SPLIT"}
       => WordAgrees(call.func, Arg(1), Doc!WordsOf(Arg(1), BLANK), Doc!RunSeq(Arg(1), BLANK), call.result)
  /\ call.func \in {"WORDPOS", "FIND"}
       => PhraseAgrees(Doc!WordsOf(Arg(1), BLANK), Doc!WordsOf(Arg(2), BLANK),
                       Doc!Default(Arg(3), 1), call.result)

\* What a function makes of a text.
TextsAgree == SearchesAgree /\ CutsAgree /\ WordsAgree

\* The number that digits mean, and the last n of them, as a signed one.
Means(base, digits) ==
  FoldLeft(LAMBDA value, digit : base * value + digit, 0, digits)
SignedIn(base, digits, n) ==
  LET low == Doc!Part(Doc!Filled(n, 0) \o digits, Len(digits) + 1, Len(digits) + n)
      u == Means(base, low)
  IN  IF low[1] >= base \div 2 THEN u - base ^ n ELSE u
Fitting(n) == IF n \in Whole THEN n ELSE C!Error
\* Without a length the number has no sign, but for one that fills a long.
Unsigned(u) ==
  IF u >= C!Modulus(LONG) THEN C!Error ELSE IF u \in Whole THEN u ELSE u - C!Modulus(LONG)
BytesMean(s, n) ==
  IF n = <<>> THEN Unsigned(Means(HEX * HEX, s))
  ELSE IF n[1] = 0 \/ s = <<>> THEN 0
  ELSE Fitting(SignedIn(HEX * HEX, s, Min({n[1], Max({LONG, Len(s)})})))
DigitsMean(s, n) ==
  IF n = <<>> THEN Unsigned(Means(HEX, s))
  ELSE IF n[1] = 0 THEN 0 ELSE Fitting(SignedIn(HEX, s, n[1]))
\* Digits for number in length places; as few as can be without a length.
Spells(base, digits, number, length, most) ==
  /\ (Means(base, digits) - number) % (base ^ Len(digits)) = 0
  /\ length # <<>> => Len(digits) = Min({length[1], most})
  /\ length = <<>> /\ number >= 0 => Len(digits) = 1 \/ digits[1] # 0
Bit(x, k) == (x \div 2 ^ k) % 2 = 1
Combined(func, x, y, got) ==
  \A k \in 0 .. 2 * BITS - 1 :
    Bit(got, k) = CASE func = "BITAND" -> Bit(x, k) /\ Bit(y, k)
                    [] func = "BITOR" -> Bit(x, k) \/ Bit(y, k)
                    [] func = "BITXOR" -> Bit(x, k) # Bit(y, k)
IsNumeral(s) ==
  LET digits(t) == t # <<>> /\ \A i \in DOMAIN t : t[i] \in {"1", "7"}
      any(t) == t = <<>> \/ digits(t)
      part(i, j) == Doc!Part(s, i, j - 1)
      blank(t) == \A i \in DOMAIN t : t[i] = " "
      mantissa(t) == \/ digits(t)
                     \/ \E k \in DOMAIN t : /\ t[k] = "." /\ Len(t) > 1
                                            /\ any(Doc!Part(t, 1, k - 1)) /\ any(Doc!Part(t, k + 1, Len(t)))
      exponent(t) == \/ t = <<>>
                     \/ t[1] = "E" /\ digits(Tail(t))
                     \/ Len(t) > 2 /\ t[1] = "E" /\ t[2] = "-" /\ digits(Doc!Part(t, 3, Len(t)))
      N == 1 .. Len(s) + 1
  IN  \E a \in N, b \in N, c \in N, d \in N :
        /\ a <= b /\ b <= c /\ c <= d
        /\ blank(part(d, Len(s) + 1))
        /\ mantissa(part(b, c)) /\ exponent(part(c, d))
        /\ LET front == part(1, b)
           IN  \/ blank(front)
               \/ \E k \in DOMAIN front : front[k] = "-" /\ blank(Doc!Part(front, 1, k - 1))
                                          /\ blank(Doc!Part(front, k + 1, Len(front)))

\* Without the blanks behind a digit that begins the number: they are skipped.
Squeezed(s) ==
  LET begin == Doc!First({i \in DOMAIN s : s[i] \notin {" ", "-"}})
      from == Doc!First({i \in begin + 1 .. Len(s) : s[i] # " "})
  IN  IF begin = 0 \/ from = 0 THEN s
      ELSE IF s[begin] \in {"1", "7"} THEN Doc!Part(s, 1, begin) \o Doc!Part(s, from, Len(s)) ELSE s
ConversionAgrees(func, s, got) ==
  CASE func = "C2D" -> got = BytesMean(s, Arg(2))
    [] func = "X2D" -> got = DigitsMean(s, Arg(2))
    [] func = "D2C" -> Spells(HEX * HEX, got, s, Arg(2), LONG)
    [] func = "D2X" -> Spells(HEX, got, s, Arg(2), 2 * LONG)
    [] func = "X2B" -> Len(got) = BITS * Len(s) /\ Means(2, got) = Means(HEX, s)
    [] func = "B2X" -> Len(got) = (Len(s) + BITS - 1) \div BITS /\ Means(HEX, got) = Means(2, s)
    [] func = "C2X" -> C!Lx2c(got) = s /\ Len(got) = 2 * Len(s)
    [] func = "X2C" ->
         C!Lc2x(got) = FlattenSeq([i \in DOMAIN Doc!WordsOf(s, -1) |->
                         LET w == Doc!WordsOf(s, -1)[i] IN IF Len(w) % 2 = 1 THEN <<0>> \o w ELSE w])
    [] func = "C2U" -> got = Means(HEX * HEX, s) % C!Modulus(LONG)
    [] func = "D2P" ->
         IF Len(C!Decimal(s)) + 1 > 2 * (IF Arg(2) = 0 THEN 6 ELSE Arg(2))
           THEN got = C!Error
         ELSE C!Lp2d(got) = s /\ Len(got) = IF Arg(2) = 0 THEN 6 ELSE Arg(2)
    [] func \in {"BITAND", "BITOR", "BITXOR"} ->
         LET other == Arg(2)
         IN  /\ Len(got) = Max({Len(s), Len(other)})
             /\ \A i \in DOMAIN got :
                  IF i <= Len(s) /\ i <= Len(other) THEN Combined(func, s[i], other[i], got[i])
                  ELSE LET rest == IF i <= Len(s) THEN s[i] ELSE other[i]
                       IN  IF Arg(3) = None THEN got[i] = rest ELSE Combined(func, rest, Arg(3)[1], got[i])
    [] func = "XRANGE" ->
         /\ got[1] = Doc!Default(s, 0) /\ Last(got) = Doc!Default(Arg(2), HEX * HEX - 1)
         /\ Len(got) <= HEX * HEX /\ \A i \in 2 .. Len(got) : got[i] = (got[i - 1] + 1) % (HEX * HEX)
    [] func = "DATATYPE of" -> got = Doc!IsDatatype(s, Arg(2), Arg(3), IsNumeral(Squeezed(s)))
    [] func = "DATATYPE" -> (got # "string") = IsNumeral(Squeezed(s))

\* Every number, byte and digit converts to what it means, at the limits of a
\* long, at every sign and for every length, and an error replaces a wrong
\* number.
ConversionsAgree ==
  call.func \in {"C2D", "X2D", "D2C", "D2X", "X2B", "B2X", "C2X", "X2C", "C2U", "D2P", "BITAND",
                 "BITOR", "BITXOR", "DATATYPE", "DATATYPE of", "XRANGE"}
    => ConversionAgrees(call.func, Arg(1), call.result)

\* The number a text of figures, signs and an exponent shows.
Shows(text) ==
  LET at(c) == Doc!First({i \in DOMAIN text : text[i] = c})
      exp == at(D!EXP)
      mantissa == IF exp = 0 THEN text ELSE Doc!Part(text, 1, exp - 1)
      figures(t) == SelectSeq(t, LAMBDA c : c \in 0 .. 9)
      point == Doc!First({i \in DOMAIN mantissa : mantissa[i] = D!POINT})
      places == IF point = 0 THEN 0 ELSE Cardinality({i \in point + 1 .. Len(mantissa) : mantissa[i] \in 0 .. 9})
      e == IF exp = 0 THEN 0
           ELSE Means(10, figures(Doc!Part(text, exp + 2, Len(text))))
                * IF text[exp + 1] = D!MINUS THEN -1 ELSE 1
      whole == IF point = 0 THEN mantissa ELSE Doc!Part(mantissa, 1, point - 1)
  IN  [number |-> Doc!Norm(Means(10, figures(mantissa)), e - places),
       neg |-> \E i \in DOMAIN mantissa : mantissa[i] = D!MINUS,
       exponential |-> exp # 0, e |-> e, decimals |-> places, whole |-> Len(figures(whole)),
       front |-> Len(whole), lead |-> figures(mantissa)[1],
       blanks |-> Cardinality({i \in DOMAIN text : text[i] = D!BLANK})]
Worth(shown, number, neg) ==
  shown.number = number /\ shown.neg = (neg /\ number[1] # 0)

IsTruncated(shown, r, neg, n) ==
  /\ Worth(shown, Doc!CutAt(r, -n), neg) /\ shown.decimals = n
  /\ ~ shown.exponential /\ shown.whole = Doc!WholePlaces(r) /\ shown.blanks = 0

\* As FORMAT shows r: with an exponent where one is due, rounded where it
\* should be.
WantsExponent(r, after, expp, expt) ==
  /\ r[1] # 0 /\ expp # 0
  /\ \/ expt = 0
     \/ Doc!WholePlaces(r) > expt
     \/ after >= 0 /\ Doc!WholePlaces(Doc!RoundAt(r, -after)) > expt
     \/ Doc!DecimalPlaces(r) > 2 * expt
IsFormatted(shown, r, neg, after, expp, expt, engineering) ==
  LET wants == WantsExponent(r, after, expp, expt)
  IN  /\ shown.exponential = (wants /\ shown.e # 0)
      /\ Worth(shown, IF after < 0 THEN r ELSE Doc!RoundAt(r, shown.e - after), neg)
      /\ after >= 0 => shown.decimals = after
      /\ wants /\ ~ engineering => shown.whole = 1 /\ shown.lead # 0
      /\ wants /\ engineering => shown.e % 3 = 0 /\ shown.whole \in 1 .. 3 /\ shown.lead # 0
      /\ ~ wants => shown.whole = Max({1, Doc!WholePlaces(shown.number)})
\* free is the result with nothing said of `before` and of the exponent's
\* places: `before` is filled up with blanks, or one of them is too small.
Fits(got, free, shown, wants, before, expp) ==
  IF \/ before >= 0 /\ shown.front > before
     \/ shown.exponential /\ expp > 0 /\ Doc!Places10(D!Abs(shown.e)) > expp
    THEN got = D!Error
  ELSE got = Doc!Filled(IF before < 0 THEN 0 ELSE before - shown.front, D!BLANK) \o free
             \o Doc!Filled(IF wants /\ shown.e = 0 /\ expp > 0 THEN expp + 2 ELSE 0, D!BLANK)
FormatAgrees(got, free, r, neg, before, after, expp, expt, engineering) ==
  /\ IsFormatted(Shows(free), r, neg, after, expp, expt, engineering)
  /\ Fits(got, free, Shows(free), WantsExponent(r, after, expp, expt), before, expp)

RealAgrees(shown, r, neg, digits) ==
  /\ Worth(shown, r, neg)
  /\ shown.exponential = (r[1] # 0 /\ (Doc!WholePlaces(r) > digits \/ Doc!DecimalPlaces(r) > 2 * digits))
  /\ shown.exponential => shown.whole = 1 /\ shown.lead # 0 /\ shown.decimals < digits
NumberAgrees(func, neg, c, e, got) ==
  CASE func = "TRUNC" -> IsTruncated(Shows(got), Doc!Significant(c, e, Arg(4)), neg, Arg(5))
    [] func = "ROUND" ->
         LET shown == Shows(got)
             r == Doc!RoundAt(Doc!Norm(c, e), -Arg(4))
         IN  /\ Worth(shown, r, neg) /\ shown.decimals = Arg(4)
             /\ ~ shown.exponential /\ shown.whole = Doc!WholePlaces(r) /\ shown.blanks = 0
    [] func = "FORMAT" ->
         FormatAgrees(got, D!Lformat(Number(neg, c, e), -1, Arg(6), IF Arg(7) = 0 THEN 0 ELSE -1,
                                     Arg(8), Arg(4), Arg(9)),
                      Doc!Significant(c, e, Arg(4)), neg, Arg(5), Arg(6), Arg(7),
                      IF Arg(8) < 0 THEN Arg(4) ELSE Arg(8), Arg(9))
    [] func = "SHOWN" -> RealAgrees(Shows(got), Doc!Significant(c, e, Arg(4)), neg, Arg(4))
    [] func = "COMPARED" ->
         LET a == Doc!Significant(c, e, Arg(7))
             b == Doc!Significant(Arg(5), Arg(6), Arg(7))
             x == (IF neg THEN -1 ELSE 1) * a[1] * 10 ^ (a[2] + 1)
             y == (IF Arg(4) THEN -1 ELSE 1) * b[1] * 10 ^ (b[2] + 1)
         IN  got = IF x < y THEN -1 ELSE IF x > y THEN 1 ELSE 0

\* A number is rounded once to NUMERIC DIGITS, half up, and once more to the
\* places asked for; it is shown with an exponent exactly when one is due and
\* never with a digit that it does not have.
NumbersAgree ==
  call.func \in {"TRUNC", "ROUND", "FORMAT", "SHOWN", "COMPARED"}
    => NumberAgrees(call.func, Arg(1), Arg(2), Arg(3), call.result)

\* PARSE gives every target what the template promises, whatever triggers
\* stand before and behind it and wherever they are found.
ParseAgrees ==
  call.func = "PARSE" =>
    call.result = Doc!ParsedFrom(Arg(1), Arg(2), <<>>, 1, 1, [i \in DOMAIN call.result |-> <<-1>>])

\* The exact result of an operator on two numbers, as a fraction.
Frac(n, d) == IF d < 0 THEN <<-n, -d>> ELSE <<n, d>>
Same(v, f) == v.n * f[2] = f[1] * v.d
Times(a, n) == [k \in {"n", "d"} |-> FoldLeft(LAMBDA v, i : v * a[k], 1, [i \in 1 .. n |-> i])]
\* q is the whole part of a / b.
IsQuotient(q, a, b) ==
  LET rest == (a.n * b.d) - (q * b.n * a.d)          \* over a.d * b.d
  IN  /\ A!Abs(rest) < A!Abs(b.n) * a.d
      /\ rest = 0 \/ (rest < 0) = (a.n < 0)
IsLong(v) == v.type = "int" \/ (v.type = "whole" /\ A!Abs(v.n) <= INTMAX)
Whole1(v) == v.n % v.d = 0
Calculated(func, a, b, got) ==
  CASE func = "+" -> Same(got, Frac((a.n * b.d) + (b.n * a.d), a.d * b.d))
    [] func = "-" -> Same(got, Frac((a.n * b.d) - (b.n * a.d), a.d * b.d))
    [] func = "*" -> Same(got, Frac(a.n * b.n, a.d * b.d))
    [] func = "/" -> Same(got, Frac(a.n * b.d, a.d * b.n))
    [] func = "%" -> Whole1(got) /\ IsQuotient(got.n \div got.d, a, b)
    [] func = "//" ->
         LET q == A!Lintdiv(a, b)
         IN  Same(got, Frac((a.n * b.d) - ((q.n \div q.d) * b.n * a.d), a.d * b.d))
    [] func = "**" ->
         LET p == Times(a, A!Abs(b.n \div b.d))
         IN  Same(got, IF b.n >= 0 THEN <<p["n"], p["d"]>> ELSE Frac(p["d"], p["n"]))
Fails(func, a, b) ==
  \/ "string" \in {a.type, b.type}
  \/ func \in {"/", "%", "//"} /\ b.n = 0
  \/ func = "**" /\ (~ Whole1(b) \/ ~ A!LFITSINT(b.n, b.d) \/ (a.n = 0 /\ b.n < 0))
\* The machine has no remainder for the lowest long and -1.
DividesOut(func, a, b) == func = "//" /\ a = A!INT(A!INTMIN) /\ b = A!INT(-1)
OperatorAgrees(func, a, b, got) ==
  IF Fails(func, a, b) THEN got = A!Error
  ELSE IF DividesOut(func, a, b) THEN got = A!Abend
  ELSE /\ Calculated(func, a, b, got)
       /\ got.type = "int" => A!LFITSINT(got.n, 1)
       /\ (func \in {"+", "-", "*"} /\ IsLong(a) /\ IsLong(b)) =>
            (got.type = "int") = A!LFITSINT(got.n, got.d)
       /\ func = "%" => (got.type = "int") = A!LFITSINT(got.n, got.d)
OneAgrees(func, a, got) ==
  IF a.type = "string" THEN got = A!Error
  ELSE CASE func = "negated" -> Same(got, Frac(-a.n, a.d))
         [] func = "ABS" -> Same(got, Frac(A!Abs(a.n), a.d))
         [] func = "counted up" -> Same(got, Frac(a.n + a.d, a.d))
         [] func = "counted down" -> Same(got, Frac(a.n - a.d, a.d))
         [] func = "SIGN" -> got.type = "int" /\ got.n * A!Abs(a.n) = a.n /\ (got.n = 0) = (a.n = 0)
         [] func = "CEIL" -> got.type = "int" /\ got.n * a.d >= a.n /\ (got.n - 1) * a.d < a.n
         [] func = "FLOOR" -> got.type = "int" /\ got.n * a.d <= a.n /\ (got.n + 1) * a.d > a.n
         [] func = "tested" -> IF a.n = 0 \/ a.n = a.d THEN Same(got, Frac(a.n, a.d)) ELSE got = A!Error
         [] func = "NOT" -> IF Whole1(a) /\ A!LFITSINT(a.n, a.d) THEN got.n + (a.n \div a.d) = -1 ELSE got = A!Error
ExtremeAgrees(func, args, got) ==
  IF \E i \in DOMAIN args : args[i].type = "string" THEN got = A!Error
  ELSE /\ \E i \in DOMAIN args : Same(got, <<args[i].n, args[i].d>>)
       /\ \A i \in DOMAIN args :
            LET over == (got.n * args[i].d) - (args[i].n * got.d)
            IN  IF func = "MAX" THEN over >= 0 ELSE over <= 0
       /\ (got.type = "int") = (Whole1(got) /\ A!LFITSINT(got.n, got.d))
BitsAgree(func, a, b, got) ==
  IF \E v \in {a, b} : v.type = "string" \/ ~ Whole1(v) \/ ~ A!LFITSINT(v.n, v.d) THEN got = A!Error
  ELSE A!LFITSINT(got.n, 1) /\ Combined("BIT" \o func, a.n \div a.d, b.n \div b.d, got.n)

\* Arithmetic gives the exact result whichever of its three forms a number has,
\* stays a long as long as it fits and never wraps around, and // and % belong
\* together for every sign.
ArithmeticAgrees ==
  /\ call.func \in {"+", "-", "*", "/", "%", "//", "**"} =>
       OperatorAgrees(call.func, Arg(1), Arg(2), call.result)
  /\ call.func \in {"negated", "ABS", "SIGN", "CEIL", "FLOOR", "counted up", "counted down", "tested", "NOT"} =>
       OneAgrees(call.func, Arg(1), call.result)
  /\ call.func \in {"MAX", "MIN"} => ExtremeAgrees(call.func, call.args, call.result)
  /\ call.func \in {"AND", "OR", "XOR"} => BitsAgree(call.func, Arg(1), Arg(2), call.result)

\* What each reading shows is the time since the last R in front of it.
ElapsedAgrees(readings, began, got) ==
  \A k \in DOMAIN readings :
    LET time(t) == (t.sec * USECS) + t.usec
        resets == {i \in 1 .. k - 1 : readings[i].option = "R"}
        since == IF resets = {} THEN began ELSE readings[Max(resets)].now
    IN  time(got[k]) = time(readings[k].now) - time(since) /\ got[k].usec \in 0 .. USECS

\* A date that is read in one format is the same day in every other, for every
\* year of the calendar, and two digits are a year of the last hundred; the
\* clock shows the time since its last reset, however often it was read.
DatesAgree ==
  /\ call.func = "DATE" =>
       call.result = Doc!WrittenAs(Arg(2), IF Arg(3) \in {"EUROPEAN", "USA", "DEC"}
                                             THEN Doc!OfLastHundred(Arg(1), TODAY) ELSE Arg(1))
  /\ call.func = "TIME" => ElapsedAgrees(Arg(1), Arg(2), call.result)
  /\ call.func = "TIME('C')" =>
       /\ call.result.hour \in 1 .. 12
       /\ (call.result.hour % 12) + (IF call.result.pm THEN 12 ELSE 0) = Arg(1)
=============================================================================
