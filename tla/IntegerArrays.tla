---------------------------- MODULE IntegerArrays ----------------------------
(***************************************************************************)
(* The integer arrays and matrices, the bit arrays and the arrays of texts *)
(* of a fixed length, as they lie in storage: one row behind the other.    *)
(***************************************************************************)
EXTENDS Integers, Sequences, FiniteSets, FiniteSetsExt, SequencesExt, Functions, TLC

CONSTANT BYTE          \* bits of a byte

NUL == 0
----------------------------------------------------------------------------
(* Integer arrays: [rows, cols, hi, cell].                                 *)

\* Storage as it comes: garbage is what it held before.
ivnew(rows, garbage) ==
  [rows |-> Max({1, rows}), cols |-> 1, hi |-> 0, cell |-> [i \in 1 .. Max({1, rows}) |-> garbage]]
\* Where row and column of a matrix lie (and a wrong place).
imaddrByRows(a, row, col) == ((row - 1) * a.rows) + col
imaddr(a, row, col) == ((row - 1) * a.cols) + col
ivaddr(a, row) == row
RowAllowed(a, row) == row \in 1 .. a.rows * a.cols
CellAllowed(a, row, col) == row \in 1 .. a.rows /\ col \in 1 .. a.cols

\* The sieve of Sundaram: 2j + 1 is prime for the j not crossed out.
sundaram(lim) ==
  LET xlim == lim * 8
      noprime == {i + j + (2 * i * j) : i, j \in 1 .. xlim \div 2}
  IN  <<2>> \o SelectSeq([j \in 1 .. xlim |-> (j * 2) + 1], LAMBDA p : p \div 2 \notin noprime)
R_prime(n) == IF n = 0 THEN 0 ELSE sundaram(n)[n]
\* Option P: an odd number no prime found so far divides, the last left out.
NextPrime(found) ==
  LET last == found[Len(found)]
      tried == Range(Front(found))
      first == IF last = 2 THEN 3 ELSE last + 2
  IN  Min({j \in first .. 2 * first : j % 2 = 1 /\ \A p \in tried : j % p # 0})
PrimesFound[n \in Nat \ {0}] ==
  IF n = 1 THEN <<2>> ELSE Append(PrimesFound[n - 1], NextPrime(PrimesFound[n - 1]))
Fibonacci[n \in Nat \ {0}] == IF n <= 2 THEN 1 ELSE Fibonacci[n - 2] + Fibonacci[n - 1]
Contents(rows, option) ==
  CASE option = "E" -> [i \in 1 .. rows |-> i]
    [] option = "N" -> [i \in 1 .. rows |-> 0]
    [] option = "D" -> [i \in 1 .. rows |-> (rows + 1) - i]
    [] option = "F" -> [i \in 1 .. rows |-> Fibonacci[i]]
    [] option = "S" -> SubSeq(sundaram(rows), 1, rows)
    [] option = "P" -> PrimesFound[rows]
R_icreate(rows, option, garbage) ==
  IF option = " " THEN ivnew(rows, garbage)
  ELSE [ivnew(rows, garbage) EXCEPT !.hi = rows, !.cell = Contents(rows, option)]
R_imcreate(rows, cols) ==
  [ivnew(rows * cols, 0) EXCEPT !.rows = rows, !.cols = cols, !.hi = rows * cols]

\* ISET, IADD and ISUB by what becomes of the old value.
Stored(a, row, Op(_)) == [a EXCEPT !.cell[ivaddr(a, row)] = Op(@), !.hi = Max({@, row})]
R_iset(a, row, v) == Stored(a, row, LAMBDA old : v)
R_iadd(a, row, v) == Stored(a, row, LAMBDA old : old + v)
R_isub(a, row, v) == Stored(a, row, LAMBDA old : old - v)
R_imset(a, row, col, v) == [a EXCEPT !.cell[imaddr(a, row, col)] = v]
R_imadd(a, row, col, v) == [a EXCEPT !.cell[imaddr(a, row, col)] = @ + v]
R_imsub(a, row, col, v) == [a EXCEPT !.cell[imaddr(a, row, col)] = @ - v]
R_iminfix(a, v, rowcol, mode) ==
  FoldLeft(LAMBDA m, i : IF mode = "R" THEN R_imset(m, rowcol, i, v.cell[i])
                         ELSE R_imset(m, i, rowcol, v.cell[i]),
           a, [i \in 1 .. v.hi |-> i])
R_iappend(a, v) ==
  [ivnew(a.hi + v.hi, 0) EXCEPT
     !.cell = IF a.hi + v.hi = 0 THEN @ ELSE SubSeq(a.cell, 1, a.hi) \o SubSeq(v.cell, 1, v.hi),
     !.hi = a.hi + v.hi]
R_s2iarray(numbers) ==
  [ivnew(Len(numbers), 0) EXCEPT !.cell = IF numbers = << >> THEN @ ELSE numbers, !.hi = Len(numbers)]

\* A pass exchanges what is out of order k apart; passes go on until one finds
\* nothing, then for half the gap.
Pass(s, k) ==
  FoldLeft(LAMBDA z, i : IF z[i] > z[i + k] THEN [z EXCEPT ![i] = z[i + k], ![i + k] = z[i]] ELSE z,
           s, [i \in 1 .. Len(s) - k |-> i])
Passes(s, k) == FoldLeft(LAMBDA z, i : Pass(z, k), s, [i \in 1 .. Len(s) |-> i])
Gaps[n \in Nat] == IF n = 0 THEN << >> ELSE <<n>> \o Gaps[n \div 2]
Gapped(s) == FoldLeft(Passes, s, Gaps[Len(s) \div 2])
R_isort(a, mode) ==
  LET up == Gapped(SubSeq(a.cell, 1, a.hi))
      sorted == IF mode = "D" THEN Reverse(up) ELSE up
  IN  IF a.hi = 0 THEN a
      ELSE [a EXCEPT !.cell = [i \in DOMAIN @ |-> IF i <= a.hi THEN sorted[i] ELSE @[i]]]

FirstOf(a, from, Test(_)) ==
  Min({i \in Max({1, from}) .. a.hi : Test(a.cell[i])} \union {a.hi + 1})
Found(a, from, Test(_)) == IF FirstOf(a, from, Test) > a.hi THEN 0 ELSE FirstOf(a, from, Test)
R_isearch(a, value, from) == Found(a, from, LAMBDA v : v = value)
R_isearchnn(a, from) == Found(a, from, LAMBDA v : v > 0)
R_icmp(a, i, b, j) == IF a.cell[i] > b.cell[j] THEN 1 ELSE IF a.cell[i] = b.cell[j] THEN 0 ELSE -1

----------------------------------------------------------------------------
(* Bit arrays: [rows, byte], and texts: [rows, slen, memory].               *)

BitsCreate(rows) ==
  [rows |-> rows, byte |-> [b \in 1 .. ((rows + BYTE) - 1) \div BYTE |-> {}]]
bytex(index) == ((index - 1) \div BYTE) + 1
bitx(index) == (index - 1) % BYTE
BitsSet(a, index, iv) ==
  [a EXCEPT !.byte[bytex(index)] = IF iv = 1 THEN @ \union {bitx(index)} ELSE @ \ {bitx(index)}]
BitsGet(a, index) == bitx(index) \in a.byte[bytex(index)]

R_sfcreate(rows, slen) ==
  [rows |-> rows, slen |-> slen + 1, memory |-> [i \in 1 .. rows * (slen + 1) |-> NUL]]
SfRow(a, row) == (row - 1) * a.slen
R_sfset(a, row, string) ==
  LET kept == SubSeq(string, 1, Min({Len(string), a.slen - 1}))
      written == Append(kept, NUL)
  IN  [a EXCEPT !.memory =
         [i \in DOMAIN @ |-> IF i - SfRow(a, row) \in DOMAIN written
                             THEN written[i - SfRow(a, row)] ELSE @[i]]]
R_sfget(a, row) ==
  LET from == SfRow(a, row) + 1
      end == Min({i \in from .. Len(a.memory) : a.memory[i] = NUL})
  IN  SubSeq(a.memory, from, end - 1)
=============================================================================
