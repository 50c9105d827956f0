-------------------------- MODULE NumberOperations --------------------------
(***************************************************************************)
(* Integer, bit and fixed-string arrays in use, beside what an exec        *)
(* believes they hold.                                                     *)
(***************************************************************************)
EXTENDS IntegerArrays

CONSTANTS ivectormax,   \* arrays of a kind
          MAXROWS,      \* bound: rows of an array
          NUMBERS,      \* values an exec stores
          MAXSET,       \* bound: cells set in a matrix
          STRINGS       \* texts of a fixed-string array, tuples of characters

VARIABLES ivector,      \* the integer arrays made, by number
          bitarray,     \* the bit array, or None
          sfvector,     \* the fixed-string array, or None
          number,       \* integer array -> the values an exec believes it has
          bits, strings \* ... the bits on; ... row -> text

None == << >>
Numbers == DOMAIN ivector
NewNumber == Min(0 .. ivectormax - 1 \ Numbers)
Vector(n) == ivector[n].cols = 1
OnlyIntegers == bitarray = None /\ sfvector = None
\* Bounds: results of additions; an exec changes an array while it has one, and a
\* matrix while not more than MAXSET of its cells were set.
Bounded(v) == v \in Min(NUMBERS) .. Max(NUMBERS)
Alone(n) == Numbers = {n}
Changed(n) ==
  LET cell == ivector[n].cell IN Cardinality({i \in DOMAIN cell : cell[i] # 0})
Sparse(n) == Changed(n) < MAXSET

----------------------------------------------------------------------------
(* What is due.  A matrix is believed to be a sequence of rows.            *)

Primes(n) ==
  LET IsPrime(p) == p > 1 /\ \A d \in 2 .. p - 1 : p % d # 0
  IN  SubSeq(SelectSeq([p \in 1 .. (n * n) + 1 |-> p], IsPrime), 1, n)
Cells(a) == [i \in 1 .. a.hi |-> a.cell[i]]
AsRows(a) == [r \in 1 .. a.rows |-> SubSeq(a.cell, ((r - 1) * a.cols) + 1, r * a.cols)]
Filled(rows, option) ==
  CASE option = " " -> << >>
    [] option = "E" -> [i \in 1 .. rows |-> i]
    [] option = "N" -> [i \in 1 .. rows |-> 0]
    [] option = "D" -> Reverse([i \in 1 .. rows |-> i])
    [] option = "F" -> SubSeq(<<1, 1, 2, 3, 5, 8, 13>>, 1, rows)
    [] option \in {"S", "P"} -> Primes(rows)
SameNumbers(s, z) ==
  /\ Len(s) = Len(z)
  /\ \A x \in Range(s) \union Range(z) :
       Cardinality({i \in DOMAIN s : s[i] = x}) = Cardinality({i \in DOMAIN z : z[i] = x})
Ascending(s) == \A i, j \in DOMAIN s : i < j => s[i] <= s[j]

----------------------------------------------------------------------------
(* The functions.                                                          *)

NumberInit ==
  /\ ivector = << >> /\ number = << >>
  /\ bitarray = None /\ bits = {}
  /\ sfvector = None /\ strings = << >>

NewArray(a, x) ==
  /\ Cardinality(Numbers) < ivectormax
  /\ ivector' = (NewNumber :> a @@ ivector)
  /\ number' = (NewNumber :> x @@ number)
Update(n, a, x) == ivector' = [ivector EXCEPT ![n] = a] /\ number' = [number EXCEPT ![n] = x]
Others == UNCHANGED <<bitarray, bits, sfvector, strings>>

\* Option S writes one value behind an array of one row.
Create(rows, option) ==
  /\ Numbers = {} /\ (option = "S" => rows > 1)
  /\ \E garbage \in NUMBERS : NewArray(R_icreate(rows, option, garbage), Filled(rows, option))
CreateMatrix(rows, cols) ==
  /\ \A n \in Numbers : Vector(n)
  /\   NewArray(R_imcreate(rows, cols), [r \in 1 .. rows |-> [c \in 1 .. cols |-> 0]])
FromStrings(values) == NewArray(R_s2iarray(values), values)
\* A gap is what storage held: the exec cannot know.
SetCell(n, row, v) ==
  /\ Vector(n) /\ Alone(n) /\ RowAllowed(ivector[n], row) /\ row <= ivector[n].hi + 1
  /\ Update(n, R_iset(ivector[n], row, v),
            IF row > Len(number[n]) THEN Append(number[n], v) ELSE [number[n] EXCEPT ![row] = v])
AddCell(n, row, v) ==
  /\ Vector(n) /\ Alone(n) /\ RowAllowed(ivector[n], row) /\ row <= ivector[n].hi
  /\ \/ /\ Bounded(number[n][row] + v)
        /\ Update(n, R_iadd(ivector[n], row, v), [number[n] EXCEPT ![row] = @ + v])
     \/ /\ Bounded(number[n][row] - v)
        /\ Update(n, R_isub(ivector[n], row, v), [number[n] EXCEPT ![row] = @ - v])
MatrixCell(n, row, col, v) ==
  /\ ~ Vector(n) /\ Alone(n) /\ Sparse(n) /\ CellAllowed(ivector[n], row, col)
  /\ \/ Update(n, R_imset(ivector[n], row, col, v), [number[n] EXCEPT ![row][col] = v])
     \/ /\ Bounded(number[n][row][col] + v)
        /\ Update(n, R_imadd(ivector[n], row, col, v), [number[n] EXCEPT ![row][col] = @ + v])
     \/ /\ Bounded(number[n][row][col] - v)
        /\ Update(n, R_imsub(ivector[n], row, col, v), [number[n] EXCEPT ![row][col] = @ - v])
Infix(n, m, rowcol, mode) ==
  /\ ~ Vector(n) /\ Sparse(n) /\ Vector(m) /\ ivector[m].hi > 0
  /\ IF mode = "R" THEN CellAllowed(ivector[n], rowcol, ivector[m].hi)
     ELSE CellAllowed(ivector[n], ivector[m].hi, rowcol)
  /\ Update(n, R_iminfix(ivector[n], ivector[m], rowcol, mode),
            [r \in 1 .. ivector[n].rows |-> [c \in 1 .. ivector[n].cols |->
               IF mode = "R" /\ r = rowcol /\ c <= Len(number[m]) THEN number[m][c]
               ELSE IF mode = "C" /\ c = rowcol /\ r <= Len(number[m]) THEN number[m][r]
               ELSE number[n][r][c]]])
AppendArray(n, m) ==
  Vector(n) /\ Vector(m) /\ NewArray(R_iappend(ivector[n], ivector[m]), number[n] \o number[m])
Sort(n, mode) ==
  LET sorted == R_isort(ivector[n], mode)
      up == IF mode = "D" THEN Reverse(Cells(sorted)) ELSE Cells(sorted)
  IN  /\ Vector(n)
      /\ Update(n, sorted, IF SameNumbers(up, number[n]) /\ Ascending(up) THEN Cells(sorted) ELSE None)

Bit == bitarray # None
BitArray(rows) ==
  ~ Bit /\ Numbers = {} /\ sfvector = None /\ bitarray' = BitsCreate(rows) /\ UNCHANGED bits
SetBit(index, iv) ==
  /\ Bit /\ index \in 1 .. bitarray.rows
  /\ bitarray' = BitsSet(bitarray, index, iv)
  /\ bits' = IF iv = 1 THEN bits \union {index} ELSE bits \ {index}

Texts == sfvector # None
SfCreate(rows, slen) ==
  /\ ~ Texts /\ ~ Bit /\ Numbers = {}
  /\ sfvector' = R_sfcreate(rows, slen) /\ strings' = [r \in 1 .. rows |-> << >>]
SfSet(row, x) ==
  /\ Texts /\ row \in 1 .. sfvector.rows
  /\ sfvector' = R_sfset(sfvector, row, x)
  /\ strings' = [strings EXCEPT ![row] = SubSeq(x, 1, Min({Len(x), sfvector.slen - 1}))]
SfFree == Texts /\ sfvector' = None /\ strings' = << >>

Rows == 1 .. MAXROWS
IntegerStep ==
  \/ \E rows \in Rows, option \in {" ", "E", "N", "D", "F", "S", "P"} : Create(rows, option)
  \/ \E rows \in 1 .. 2, cols \in 2 .. 3 : CreateMatrix(rows, cols)
  \/ \E values \in {<< >>, <<1>>, <<2, 1>>} : FromStrings(values)
  \/ \E n \in Numbers, row \in Rows, v \in NUMBERS :
       SetCell(n, row, v) \/ AddCell(n, row, v) \/ \E col \in 1 .. 3 : MatrixCell(n, row, col, v)
  \/ \E n, m \in Numbers, rowcol \in 1 .. 3, mode \in {"R", "C"} : Infix(n, m, rowcol, mode)
  \/ \E n, m \in Numbers : AppendArray(n, m)
  \/ \E n \in Numbers, mode \in {"A", "D"} : Sort(n, mode)
NumberNext ==
  \/ OnlyIntegers /\ IntegerStep /\ Others
  \/ \E rows \in Rows : BitArray(rows) /\ UNCHANGED <<ivector, number, sfvector, strings>>
  \/ \E index \in Rows, iv \in {0, 1} : SetBit(index, iv) /\ UNCHANGED <<ivector, number, sfvector, strings>>
  \/ \E rows \in 1 .. 2, slen \in 1 .. 2 :
       SfCreate(rows, slen) /\ UNCHANGED <<ivector, number, bitarray, bits>>
  \/ \E row \in 1 .. 2, x \in STRINGS : SfSet(row, x) /\ UNCHANGED <<ivector, number, bitarray, bits>>
  \/ SfFree /\ UNCHANGED <<ivector, number, bitarray, bits>>

----------------------------------------------------------------------------

\* After any sequence of calls (rxiarray.c, #171, #386): an element, a bit or a
\* text is what was stored there last, whatever lies beside it in storage; the
\* count is that of the elements made; a search finds the first place at or
\* behind where it starts, or 0; a comparison agrees with the numbers.
NumbersHold ==
  /\ \A n \in Numbers :
       IF Vector(n)
       THEN /\ Cells(ivector[n]) = number[n] /\ ivector[n].hi <= ivector[n].rows
            /\ \A v \in NUMBERS, from \in 0 .. MAXROWS + 1 :
                 LET At(Test(_)) == {i \in DOMAIN number[n] : i >= from /\ Test(number[n][i])}
                     Agrees(found, S) == IF S = {} THEN found = 0 ELSE found = Min(S)
                 IN  /\ Agrees(R_isearch(ivector[n], v, from), At(LAMBDA x : x = v))
                     /\ Agrees(R_isearchnn(ivector[n], from), At(LAMBDA x : x > 0))
            /\ \A i, j \in DOMAIN number[n] :
                 R_icmp(ivector[n], i, ivector[n], j) = -R_icmp(ivector[n], j, ivector[n], i)
       ELSE AsRows(ivector[n]) = number[n]
  /\ Bit => \A i \in 1 .. bitarray.rows : BitsGet(bitarray, i) = (i \in bits)
  /\ Texts => \A r \in 1 .. sfvector.rows : R_sfget(sfvector, r) = strings[r]

\* PRIME(n) is the n-th prime, and 0 for 0 (rxiarray.c:113-158).
PrimesFollow ==
  Numbers = {} => \A n \in 0 .. 2 * MAXROWS : R_prime(n) = IF n = 0 THEN 0 ELSE Primes(n)[n]
=============================================================================
