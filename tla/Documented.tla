----------------------------- MODULE Documented -----------------------------
(***************************************************************************)
(* What the reference book promises of the built-in functions and of PARSE *)
(* (docs/books/ref/lang-builtin.typ, lang-templates.typ), stated without the   *)
(* loops of the code: sets of positions, words as runs, numbers as         *)
(* integers.  Nothing here models code.                                    *)
(***************************************************************************)
EXTENDS Integers, Sequences, SequencesExt, FiniteSets, FiniteSetsExt

\* An optional argument is <<>> or <<value>>.
Default(arg, value) == IF arg = <<>> THEN value ELSE arg[1]
First(positions) == IF positions = {} THEN 0 ELSE Min(positions)
Final(positions) == IF positions = {} THEN 0 ELSE Max(positions)
Part(s, from, to) == [i \in 1 .. Max({to - from + 1, 0}) |-> s[from + i - 1]]

Occurrences(needle, s) ==
  {p \in 1 .. Len(s) : needle # <<>> /\ p + Len(needle) - 1 <= Len(s)
                       /\ \A i \in DOMAIN needle : s[p + i - 1] = needle[i]}
\* From the left, without overlap.
Places(needle, s) ==
  LET from[p \in Nat] ==
        LET later == {q \in Occurrences(needle, s) : q >= p}
        IN  IF later = {} THEN {} ELSE {Min(later)} \union from[Min(later) + Len(needle)]
  IN  from[1]
Replaced(old, s, new) ==
  LET places == Places(old, s)
      inside(i) == \E p \in places : i \in p .. p + Len(old) - 1
  IN  FlattenSeq([i \in DOMAIN s |-> IF i \in places THEN new ELSE IF inside(i) THEN <<>> ELSE <<s[i]>>])

\* Character i of s, and pad behind its end.
Char(s, i, pad) == IF i \in DOMAIN s THEN s[i] ELSE pad
Taken(s, from, length, pad) == [k \in 1 .. length |-> Char(s, from + k - 1, pad)]
Filled(n, pad) == [i \in 1 .. n |-> pad]

Subsequence(a, s) ==
  \E f \in [DOMAIN a -> DOMAIN s] :
    /\ \A i, j \in DOMAIN a : i < j => f[i] < f[j]
    /\ \A i \in DOMAIN a : a[i] = s[f[i]]
Subsequences(s) == {[i \in 1 .. Cardinality(K) |-> s[SetToSortSeq(K, LAMBDA x, y : x < y)[i]]] : K \in SUBSET DOMAIN s}

----------------------------------------------------------------------------
(* Words: the longest runs without a blank, as pairs of first and last.    *)

Runs(s, blank) ==
  {w \in (DOMAIN s) \X (DOMAIN s) :
     /\ w[1] <= w[2]
     /\ \A i \in w[1] .. w[2] : s[i] # blank
     /\ w[1] = 1 \/ s[w[1] - 1] = blank
     /\ w[2] = Len(s) \/ s[w[2] + 1] = blank}
RunSeq(s, blank) == SetToSortSeq(Runs(s, blank), LAMBDA v, w : v[1] < w[1])
WordsOf(s, blank) == [i \in DOMAIN RunSeq(s, blank) |->
                        Part(s, RunSeq(s, blank)[i][1], RunSeq(s, blank)[i][2])]
Joined(words, gap) ==
  FlattenSeq([i \in DOMAIN words |-> IF i = 1 THEN words[i] ELSE gap \o words[i]])

----------------------------------------------------------------------------
(* Numbers: coefficient and exponent of ten, without zeros at the end.     *)

RECURSIVE Norm(_, _)
Norm(c, e) == IF c = 0 THEN <<0, 0>> ELSE IF c % 10 = 0 THEN Norm(c \div 10, e + 1) ELSE <<c, e>>
RECURSIVE Places10(_)
Places10(n) == IF n < 10 THEN 1 ELSE 1 + Places10(n \div 10)
\* To the nearest multiple of 10^w, half up.
RoundAt(n, w) ==
  LET k == w - n[2]
  IN  IF k <= 0 \/ n[1] = 0 THEN n ELSE IF k > 6 THEN <<0, 0>>
      ELSE Norm((n[1] + 5 * 10 ^ (k - 1)) \div 10 ^ k, w)
CutAt(n, w) ==
  LET k == w - n[2]
  IN  IF k <= 0 THEN n ELSE IF k > 6 THEN <<0, 0>> ELSE Norm(n[1] \div 10 ^ k, w)
Significant(c, e, digits) == RoundAt(Norm(c, e), Places10(c) + e - digits)
\* Digits in front of the point and behind it.
WholePlaces(n) == Max({1, Places10(n[1]) + n[2]})
DecimalPlaces(n) == IF n[1] = 0 THEN 0 ELSE Max({0, -n[2]})

\* DATATYPE(s, type) under NUMERIC DIGITS digits.
IsDatatype(s, type, digits, numeral) ==
  LET groups == WordsOf(s, " ")
      of(chars) == s # <<>> /\ \A i \in DOMAIN s : s[i] \in chars
      grouped(chars, n) ==
        /\ \A i \in DOMAIN groups : (i = 1 \/ Len(groups[i]) % n = 0)
                                    /\ \A j \in DOMAIN groups[i] : groups[i][j] \in chars
        /\ s # <<>> => s[1] # " " /\ s[Len(s)] # " "
      figures(t) == FoldLeft(LAMBDA v, c : CASE c = "7" -> 10 * v + 7 [] c = "1" -> 10 * v + 1
                                            [] OTHER -> v, 0, t)
      e == First({i \in DOMAIN s : s[i] = "E"})
      mantissa == IF e = 0 THEN s ELSE Part(s, 1, e - 1)
      point == First({i \in DOMAIN s : s[i] = "."})
      decimals == IF point = 0 THEN 0
                  ELSE Cardinality({i \in DOMAIN mantissa : i > point /\ s[i] # " "})
      exponent == IF e = 0 THEN 0 ELSE figures(Part(s, e + 1, Len(s)))
  IN  CASE type = "A" -> of({"x", "E", "7"})
        [] type = "L" -> of({"x"})
        [] type = "M" -> of({"x", "E"})
        [] type = "U" -> of({"E"})
        [] type = "S" -> of({"x", "E", "7", "@"})
        [] type = "N" -> numeral
        [] type = "B" -> grouped({"1"}, 4)
        [] type = "X" -> grouped({"1", "7", "E"}, 2)
        [] type = "W" ->
             numeral /\ \/ point = 0 /\ e = 0
                        \/ Significant(figures(mantissa), exponent - decimals, digits)[2] >= 0

----------------------------------------------------------------------------
(* Dates: the calendar of Gregory, from the lengths of its months.         *)

IsLeap(y) == y % 4 = 0 /\ (y % 100 = 0 => y % 400 = 0)
MonthLength(m, y) == CASE m \in {1, 3, 5, 7, 8, 10, 12} -> 31
                       [] m \in {4, 6, 9, 11} -> 30
                       [] m = 2 -> IF IsLeap(y) THEN 29 ELSE 28
\* Days of the year up to this one, and days since 1 January 0001.
DayOfYear(d) == d.day + MapThenSumSet(LAMBDA m : MonthLength(m, d.year), 1 .. d.month - 1)
Elapsed(d) ==
  LET y == d.year - 1
  IN  365 * y + (y \div 4) - (y \div 100) + (y \div 400) + DayOfYear(d) - 1
NewYear(y) == [day |-> 1, month |-> 1, year |-> y]
Since1970(d) == Elapsed(d) - Elapsed(NewYear(1970))
\* 24 November 4714 BC.
Epoch == [day |-> 24, month |-> 11, year |-> -4713]
OfLastHundred(d, today) == [d EXCEPT !.year = CHOOSE y \in today - 99 .. today : y % 100 = @ % 100]

\* The parts of a date in the order in which the format has them.
WrittenAs(format, d) ==
  LET yy == d.year % 100
  IN  CASE format = "BASE" -> <<Elapsed(d)>>
        [] format = "JDN" -> <<Elapsed(d) - Elapsed(Epoch)>>
        [] format = "UNIX" -> <<Since1970(d)>>
        [] format = "TIME" -> <<Since1970(d) * 86400>>
        [] format = "CENTURY" -> <<Elapsed(d) - Elapsed(NewYear(d.year - yy)) + 1>>
        [] format = "DAYS" -> <<DayOfYear(d)>>
        [] format = "JULIAN" -> <<d.year * 1000 + DayOfYear(d)>>
        [] format = "STANDARD" -> <<d.year * 10000 + d.month * 100 + d.day>>
        [] format \in {"ORDERED", "INTERNATIONAL"} -> <<d.year, d.month, d.day>>
        [] format \in {"EUROPEAN", "GERMAN", "DEC"} -> <<d.day, d.month, yy>>
        [] format \in {"XEUROPEAN", "XGERMAN", "XDEC", "NORMAL", "SHORT", "LONG"} ->
             <<d.day, d.month, d.year>>
        [] format = "USA" -> <<d.month, d.day, yy>>
        [] format = "XUSA" -> <<d.month, d.day, d.year>>
        [] format = "QUALIFIED" -> <<(Elapsed(d) + 1) % 7, d.month, d.day, d.year>>
        [] format = "WEEKDAY" -> <<(Elapsed(d) + 1) % 7>>
        [] format = "MONTH" -> <<d.month>>
        [] format = "YEAR" -> <<d.year>>
\* German is read with four digits of the year.
GivenAs(format, d) == WrittenAs(IF format = "GERMAN" THEN "XGERMAN" ELSE format, d)

----------------------------------------------------------------------------
(* PARSE: a group of targets gets what lies between the point the last     *)
(* trigger left and the next trigger, a word each, the last one the rest.  *)

RECURSIVE Shared(_, _, _)
Shared(targets, data, got) ==
  LET some == {i \in DOMAIN data : data[i] # 0}
      begin == IF some = {} THEN Len(data) + 1 ELSE Min(some)
      blanks == {i \in begin .. Len(data) : data[i] = 0}
      end == IF blanks = {} THEN Len(data) + 1 ELSE Min(blanks)
      Give(text) == IF Head(targets) = 0 THEN got ELSE [got EXCEPT ![Head(targets)] = text]
  IN  CASE targets = <<>> -> got
        [] Len(targets) = 1 -> Give(data)
        [] Len(targets) > 1 ->
             Shared(Tail(targets), Part(data, end + 1, Len(data)), Give(Part(data, begin, end - 1)))

Within(n, s) == Max({1, Min({n, Len(s) + 1})})
RECURSIVE ParsedFrom(_, _, _, _, _, _)
\* group: the targets since the last trigger, which lies from `from` to `to`.
ParsedFrom(s, template, group, from, to, got) ==
  LET Data(start, trigger, behind) ==
        Part(s, start, IF behind <= start THEN Len(s) ELSE trigger - 1)
      On(start, trigger, behind) ==
        ParsedFrom(s, Tail(template), <<>>, trigger, behind,
                   Shared(group, Data(start, trigger, behind), got))
      t == Head(template)
      found == {p \in Occurrences(t.arg, s) : p >= to}
  IN  IF template = <<>> THEN Shared(group, Part(s, to, Len(s)), got)
      ELSE CASE t.kind \in {"target", "dot"} ->
                  ParsedFrom(s, Tail(template), Append(group, t.arg), from, to, got)
             [] t.kind = "text" ->
                  IF found = {} THEN On(to, Len(s) + 1, Len(s) + 1)
                  ELSE On(to, Min(found), Min(found) + Len(t.arg))
             [] t.kind = "absolute" -> On(to, Within(t.arg, s), Within(t.arg, s))
             [] t.kind = "relative" -> On(from, Within(from + t.arg, s), Within(from + t.arg, s))
=============================================================================
