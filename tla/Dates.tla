------------------------------- MODULE Dates -------------------------------
(***************************************************************************)
(* DATE and the clock of TIME (lstring/date.c, time.c).  A date on its     *)
(* way is its Julian day number.                                           *)
(*                                                                         *)
(* A written date is the sequence of its parts, in the order in which they *)
(* are written: numbers, a month by its number whether it is written as    *)
(* one or by its name, a day of the week by its number from Sunday, 0.     *)
(* Delimiters, leading zeros and how far a format's name may be shortened  *)
(* are left out; a year is four digits or, in the formats that say so, two.*)
(***************************************************************************)
EXTENDS Integers, Sequences, SequencesExt

\* Every division is of positive numbers, except in Quot.  m counts the months
\* from March, y the years from 4801 BC.
DayNumber(day, m, y) ==
  day + (((153 * m) + 2) \div 5) + (365 * y) + (y \div 4) - (y \div 100) + (y \div 400) - 32045
Winter(month) == (14 - month) \div 12
JULDAYNUM(day, month, year) ==
  DayNumber(day, month + 12 * Winter(month) - 3, year + 4800 - Winter(month))

\* l are the days left: of 400 years n, of the year i in them, of the month j.
InMonth(l, n, i, j) ==
  [day |-> l - ((2447 * j) \div 80), month |-> j + 2 - (12 * (j \div 11)),
   year |-> 100 * (n - 49) + i + (j \div 11)]
InYear(l, n, i) == InMonth(l, n, i, (80 * l) \div 2447)
YearOf(l) == (4000 * (l + 1)) \div 1461001
InCentury(l, n) == InYear(l - ((1461 * YearOf(l)) \div 4) + 31, n, YearOf(l))
Centuries(l) == (4 * l) \div 146097
FromJulian(JDN) ==
  InCentury(JDN + 68569 - ((146097 * Centuries(JDN + 68569) + 3) \div 4), Centuries(JDN + 68569))

UNIX == JULDAYNUM(1, 1, 1970)
Quot(a, b) == IF a < 0 THEN -((-a) \div b) ELSE a \div b

----------------------------------------------------------------------------
(* The date that is given.                                                 *)

parseStandardDate(number) ==
  [year |-> number \div 10000, month |-> (number % 10000) \div 100, day |-> number % 100]

\* Mutant: the last year of the window belongs to the last century.
FullYearBefore(yy, todayYear) == IF yy < todayYear % 100 THEN yy + 2000 ELSE yy + 1900
\* Two digits are a year up to todayYear.
FullYear(yy, todayYear) == IF yy <= todayYear % 100 THEN yy + 2000 ELSE yy + 1900

\* checkInputFormat: the formats that are numbers.
FromNumber(format2, n) ==
  CASE format2 = "UNIX" -> n[1] + UNIX
    [] format2 = "BASE" -> n[1] + 1721426
    [] format2 = "JDN" -> n[1]
    [] format2 = "JULIAN" -> JULDAYNUM(0, 1, n[1] \div 1000) + (n[1] % 1000)
    [] format2 = "STANDARD" ->
         LET d == parseStandardDate(n[1]) IN JULDAYNUM(d.day, d.month, d.year)
    [] format2 = "TIME" -> Quot(n[1], 86400) + UNIX
\* The formats of three parts.
FromParts(format2, p, todayYear) ==
  LET year == IF p[3] < 100 /\ format2 \in {"EUROPEAN", "DEC", "USA"}
                THEN FullYear(p[3], todayYear) ELSE p[3]
  IN  CASE format2 \in {"XEUROPEAN", "EUROPEAN", "NORMAL", "SHORT", "LONG", "DEC", "XDEC", "GERMAN"} ->
             JULDAYNUM(p[1], p[2], year)
        [] format2 \in {"USA", "XUSA", "QUALIFIED"} -> JULDAYNUM(p[2], p[1], year)
        [] format2 \in {"INTERNATIONAL", "ORDERED"} -> JULDAYNUM(p[3], p[2], p[1])
DateIn(format2, text, todayYear) ==
  CASE Len(text) = 1 -> FromNumber(format2, text)
    [] Len(text) = 3 -> FromParts(format2, text, todayYear)
    \* QUALIFIED: without the day of the week
    [] Len(text) = 4 -> FromParts(format2, Tail(text), todayYear)

----------------------------------------------------------------------------
(* The date that is returned.                                              *)

ToNumber(format1, JDN, year) ==
  CASE format1 = "BASE" -> JDN - 1721426
    [] format1 = "UNIX" -> JDN - UNIX
    [] format1 = "TIME" -> 86400 * (JDN - UNIX)
    [] format1 = "CENTURY" -> JDN + 1 - JULDAYNUM(1, 1, (year \div 100) * 100)
    [] format1 = "DAYS" -> JDN + 1 - JULDAYNUM(1, 1, year)
    [] format1 = "JDN" -> JDN
Numbers == {"BASE", "UNIX", "TIME", "CENTURY", "DAYS", "JDN"}
WeekDay(JDN) == (JDN + 1) % 7

ToParts(format1, JDN, d) ==
  CASE format1 \in {"XEUROPEAN", "XDEC", "XGERMAN", "LONG", "SHORT", "NORMAL"} ->
         <<d.day, d.month, d.year>>
    [] format1 \in {"EUROPEAN", "DEC", "GERMAN"} -> <<d.day, d.month, d.year % 100>>
    [] format1 = "USA" -> <<d.month, d.day, d.year % 100>>
    [] format1 = "XUSA" -> <<d.month, d.day, d.year>>
    [] format1 \in {"ORDERED", "INTERNATIONAL"} -> <<d.year, d.month, d.day>>
    [] format1 = "QUALIFIED" -> <<WeekDay(JDN), d.month, d.day, d.year>>
    [] format1 = "STANDARD" -> <<10000 * d.year + 100 * d.month + d.day>>
    [] format1 = "MONTH" -> <<d.month>>
    [] format1 = "WEEKDAY" -> <<WeekDay(JDN)>>
    [] format1 = "JULIAN" -> <<1000 * d.year + ((JDN + 1) - JULDAYNUM(1, 1, d.year))>>
    [] format1 = "YEAR" -> <<d.year>>
Returned(format1, JDN, d) ==
  IF format1 \in Numbers THEN <<ToNumber(format1, JDN, d.year)>> ELSE ToParts(format1, JDN, d)
DateOut(format1, JDN) == Returned(format1, JDN, FromJulian(JDN))
Ldate(format1, text, format2, todayYear) == DateOut(format1, DateIn(format2, text, todayYear))

----------------------------------------------------------------------------
(* The elapsed time.  A time is seconds and parts of a second, of which    *)
(* there are `usecs`.                                                      *)

\* timeval_subtract() carries into y, which is tv_start itself.
Carried(x, y, usecs) ==
  LET n == ((y.usec - x.usec) \div usecs) + 1
  IN  IF x.usec < y.usec THEN [sec |-> y.sec + n, usec |-> y.usec - (usecs * n)] ELSE y
Lent(x, y, usecs) ==
  LET n == (x.usec - y.usec) \div usecs
  IN  IF x.usec - y.usec > usecs THEN [sec |-> y.sec - n, usec |-> y.usec + (usecs * n)] ELSE y
Difference(x, start) ==
  [start |-> start, elapsed |-> [sec |-> x.sec - start.sec, usec |-> x.usec - start.usec]]
timeval_subtract(x, y, usecs) ==
  Difference(x, Lent(x, Carried(x, y, usecs), usecs))

Read(at, r, t) == [start |-> IF r.option = "R" THEN r.now ELSE t.start,
                   shown |-> Append(at.shown, t.elapsed)]
\* TIME('E') and TIME('R') one after another: readings are of the option and the
\* time of day; the result is what each has returned.
Ltime(readings, began, usecs) ==
  FoldLeft(LAMBDA at, r : Read(at, r, timeval_subtract(r.now, at.start, usecs)),
           [start |-> began, shown |-> <<>>], readings).shown

\* TIME('C'): the hour of half a day, and which half.
Civil(hour) == [hour |-> IF hour % 12 = 0 THEN 12 ELSE hour % 12, pm |-> hour > 11]
=============================================================================
