-------------------------- MODULE ArrayOperations --------------------------
(***************************************************************************)
(* String arrays in use: every function of StringArrays, beside the        *)
(* sequences of texts an exec believes to have (text).                     *)
(***************************************************************************)
EXTENDS StringArrays

CONSTANTS TEXTS,       \* entries an exec makes
          MAXTEXTS     \* bound: entries of all arrays

VARIABLES sarray, text

\* Arrays 0 and 1 are worked with, number 2 holds a result until it is freed.
In == DOMAIN sarray
Count == FoldLeft(LAMBDA n, s : n + (IF s \in In THEN sarray[s].hi ELSE 0), 0, <<0, 1>>)
Room(n) == Count + n <= MAXTEXTS
NewNumber == New(sarray)
Working == sarraymax - 1 \notin In

----------------------------------------------------------------------------
(* What is due.                                                            *)

Insert(s, n, x) == SubSeq(s, 1, n) \o x \o SubSeq(s, n + 1, Len(s))
Delete(s, from, n) ==
  IF from > Len(s) THEN s ELSE SubSeq(s, 1, from - 1) \o SubSeq(s, from + n, Len(s))
Blank(n) == [i \in 1 .. n |-> Empty]
Key(x, offset) == SubSeq(x, offset, Len(x))
Ascending(s, offset) == \A i, j \in DOMAIN s : i < j => ~ Less(Key(s[j], offset), Key(s[i], offset))
SameTexts(s, z) ==
  /\ Len(s) = Len(z)
  /\ \A x \in Range(s) \union Range(z) :
       Cardinality({i \in DOMAIN s : s[i] = x}) = Cardinality({i \in DOMAIN z : z[i] = x})
Contents(a) == [i \in 1 .. a.hi |-> IF i \in DOMAIN a.item THEN a.item[i] ELSE Unset]
\* s in order; entries with the same key may come in any order, as made.
InOrder(s, made, mode, offset) ==
  LET up == IF mode = "D" THEN Reverse(made) ELSE made
  IN  IF SameTexts(s, made) /\ Ascending(up, offset) THEN made
      ELSE <<Unset>> \o s
Has(x, p) ==
  \E i \in 0 .. Len(x) - Len(p.text) : /\ SubSeq(x, i + 1, i + Len(p.text)) = p.text
                                       /\ p.at \in {0, i + 1}
Cut(x, from, length) == SubSeq(x, from, Min({Len(x), IF length = 0 THEN Len(x)
                                                      ELSE (from + length) - 1}))
WordsOf(x) == SelectSeq(R_split(x, <<BLANK>>), LAMBDA w : TRUE)

----------------------------------------------------------------------------
(* The functions.                                                          *)

Become(t) == sarray' = t
Due(s, x) == text' = (s :> x @@ text)
Update(s, a, x) == Become([sarray EXCEPT ![s] = a]) /\ Due(s, x)
Patterns == {<<[text |-> x, at |-> n]>> : x \in {<<1>>, <<2>>}, n \in {0, 1, 3}}
            \union {<<[text |-> <<2>>, at |-> 1], [text |-> <<1>>, at |-> 0]>>,
                    <<[text |-> Empty, at |-> 0]>>}

Create(rows) ==
  /\ Working /\ Cardinality(In) < 2 /\ Count <= MAXTEXTS /\ (rows > 0 => In = {})
  /\ Become(sarray_new(sarray, rows, Empty)) /\ Due(NewNumber, Empty)
Resize(s) ==
  sarray[s].cap = MINROWS /\ Update(s, R_sresize(sarray[s], MINROWS + 1), text[s])
Set(s, index, values) ==
  /\ R_ssetAllowed(sarray[s], index, values)
  /\ Room(Max({0, index - 1 + Len(values) - sarray[s].hi}))
  /\ Update(s, R_sset(sarray[s], index, values),
            LET old == text[s] \o Blank(Max({0, index - 1 - Len(text[s])}))
            IN  SubSeq(old, 1, index - 1) \o values
                \o SubSeq(old, index + Len(values), Len(old)))
\* Into an array with room for more than MAXTEXTS, which has no other beside it.
Fill(values) ==
  /\ In = {0} /\ sarray[0].hi = 0 /\ R_ssetAllowed(sarray[0], 1, values)
  /\ Update(0, R_sset(sarray[0], 1, values), values)
\* Of the entries up to the count: SSWAP takes any entry up to the capacity.
Swap(s, i, j) ==
  /\ Max({i, j}) <= sarray[s].hi
  /\ Update(s, [sarray[s] EXCEPT !.item = sswap(@, i, j)],
            [text[s] EXCEPT ![i] = text[s][j], ![j] = text[s][i]])
FreeArray(s, keep) ==
  /\ Become(R_sfree(sarray, s, keep))
  /\ text' = IF keep THEN [text EXCEPT ![s] = Empty] ELSE Restrict(text, In \ {s})

SortTo(s, a, mode, offset) == Update(s, a, InOrder(text[s], Contents(a), mode, offset))
QuickSort(s, mode, given, offset, chunk) ==
  SortTo(s, R_sqsort(sarray[s], mode, given, offset, 1, chunk), mode, offset)
ShellSort(s, mode, offset) == SortTo(s, R_shsort(sarray[s], mode, offset), mode, offset)
ReverseArray(s) == Update(s, sreverse(sarray[s]), Reverse(text[s]))

Drop(s, p) ==
  Update(s, R_sdrop(sarray[s], p),
         IF \E k \in DOMAIN p : p[k].text = Empty
           THEN SelectSeq([i \in DOMAIN text[s] |-> Trimmed(text[s][i])], LAMBDA x : x # Empty)
           ELSE SelectSeq(text[s], LAMBDA x : ~ \E k \in DOMAIN p : Has(x, p[k])))
Keep(s, p) ==
  Update(s, R_skeep(sarray[s], p),
         SelectSeq(text[s], LAMBDA x : \E k \in DOMAIN p : p[k].text # Empty /\ Has(x, p[k])))
KeepAnd(s, p) ==
  Update(s, R_skeepand(sarray[s], p),
         SelectSeq(text[s], LAMBDA x : \A k \in DOMAIN p : Has(x, p[k])))
DeleteEntries(s, from, n) ==
  /\ from <= sarray[s].cap
  /\ Update(s, R_sdel(sarray[s], from, n), Delete(text[s], from, n))
InsertEntries(s, after, n) ==
  Room(n) /\ Update(s, R_sinsert(sarray[s], after, n),
                    Insert(text[s], Min({after, Len(text[s])}), Blank(n)))
Paste(s, after, z, from, n) ==
  /\ s # z /\ Room(Max({0, Min({n, Len(text[z]) - from + 1})}))
  /\ Update(s, R_spaste(sarray[s], after, sarray[z], from, n),
            Insert(text[s], Min({after, Len(text[s])}),
                   SubSeq(text[z], from, Min({(from + n) - 1, Len(text[z])}))))
Copy(s, from, to, into, start, length) ==
  LET part == SubSeq(text[s], from, Min({to, Len(text[s])}))
      cut == [i \in DOMAIN part |-> IF start = 1 THEN part[i] ELSE Cut(part[i], start, length)]
  IN  /\ into >= 0 => Room(Len(part)) /\ \A i \in DOMAIN cut : cut[i] \in TEXTS
      /\ Become(R_scopy(sarray, s, from, to, into, start, length))
      /\ IF into >= 0 THEN Due(into, text[into] \o cut) ELSE Due(NewNumber, cut)
Extract(s, from, to) ==
  /\ Become(R_sextract(sarray, s, from, to))
  /\ Due(NewNumber, SubSeq(text[s], from, Min({to, Len(text[s])})))

MergeTo(s, z, t) ==
  /\ Become(t)
  /\ text' = [n \in DOMAIN t |->
       CASE n = NewNumber -> InOrder(text[s] \o text[z], Contents(t[n]), "A", 1)
         [] n \in {s, z} -> InOrder(text[n], Contents(t[n]), "A", 1)
         [] OTHER -> text[n]]
Merge(s, z) == MergeTo(s, z, R_smerge(sarray, s, z))
\* As documented, for arrays in ascending order.
Intersect(s, z) ==
  /\ Ascending(text[s], 1) /\ Ascending(text[z], 1)
  /\ LET x == IF Len(text[s]) < Len(text[z]) THEN s ELSE z
     IN  /\ Become(R_sintersect(sarray, s, z))
         /\ Due(NewNumber, SelectSeq(text[x], LAMBDA e : e \in Range(text[s]) \intersect Range(text[z])))
Difference(s, z) ==
  /\ Ascending(text[s], 1) /\ Ascending(text[z], 1)
  /\ Become(R_sdifference(sarray, s, z))
  /\ Due(NewNumber, SelectSeq(text[s], LAMBDA e : e \notin Range(text[z])))
Unify(s) ==
  /\ Ascending(text[s], 1)
  /\ Update(s, R_sunify(sarray[s]),
            [i \in DOMAIN text[s] |-> IF \E j \in 1 .. i - 1 : text[s][j] = text[s][i] THEN Empty
                                      ELSE text[s][i]])

\* In place only when the entries stay among TEXTS.
Map(s, t, place, Do(_)) ==
  LET made == [i \in DOMAIN text[s] |-> Do(text[s][i])]
  IN  /\ place = "N" => \A i \in DOMAIN made : made[i] \in TEXTS
      /\ Become(t) /\ IF place = "E" THEN Due(NewNumber, made) ELSE Due(s, made)
Substr(s, from, length, place) ==
  Map(s, R_ssubstr(sarray, s, from, length, place), place, LAMBDA x : Cut(x, from, length))
WordN(s, n, place) ==
  Map(s, R_sword(sarray, s, n, place), place,
      LAMBDA x : IF n <= Len(WordsOf(x)) THEN WordsOf(x)[n] ELSE Empty)
Upper(s, place) ==
  Map(s, R_supper(sarray, s, place), place, LAMBDA x : [i \in DOMAIN x |-> IF x[i] = 3 THEN 2 ELSE x[i]])
Change(s) ==
  Map(s, [sarray EXCEPT ![s] = R_schange(@, <<<<<<3>>, <<2>>>>, <<<<2, 0>>, Empty>>>>)], "N",
      LAMBDA x : IF Len(x) = 3 THEN <<1>> ELSE x)
Select(s, p) ==
  /\ Become(R_sselect(sarray, s, p))
  /\ Due(NewNumber, SelectSeq(text[s], LAMBDA x : \E k \in DOMAIN p :
       Has(IF p[k].from = 0 THEN x ELSE Cut(x, p[k].from, p[k].length), [text |-> p[k].text, at |-> 0])))

----------------------------------------------------------------------------
ArrayInit == sarray = << >> /\ text = << >>

\* Numbers 0 and 1 are in use and number 2 is free.  To bound the states, the
\* functions of one array make a new one only while number 1 is empty.
Ready == In = {0, 1}
Spare(s) == Ready /\ s = 0 /\ sarray[1].hi = 0

InArray(s) ==
  \/ Resize(s) \/ ReverseArray(s) \/ Unify(s) \/ Change(s)
  \/ \E index \in 1 .. 3, values \in {<<x>> : x \in TEXTS} \union {Empty, <<<<1>>, Empty>>} :
       Set(s, index, values)
  \/ \E i, j \in 1 .. 3 : i < j /\ Swap(s, i, j)
  \/ \E mode \in {"A", "D"}, offset \in {1, 3} :
       \/ ShellSort(s, mode, offset)
       \/ QuickSort(s, mode, offset # 1, offset, SPLIT)
  \/ \E p \in Patterns : Drop(s, p) \/ Keep(s, p) \/ KeepAnd(s, p)
  \/ \E from \in 1 .. 3, n \in 0 .. 2 : DeleteEntries(s, from, n)
  \/ \E after \in 0 .. 2, n \in 1 .. 2 : InsertEntries(s, after, n)
  \/ Upper(s, "N")
  \/ \E n \in 1 .. 2 : Substr(s, 3, n, "N") \/ WordN(s, n, "N")

ToNewArray(s) ==
  \/ \E from, to \in 1 .. 2 : Extract(s, from, to)
  \/ Upper(s, "E")
  \/ \E from \in {1, 3}, length \in 0 .. 2 : Substr(s, from, length, "E")
  \/ \E n \in 1 .. 2 : WordN(s, n, "E")
  \/ \E from \in {0, 1, 2}, x \in {<<1>>, <<2>>} :
       Select(s, <<[text |-> x, from |-> from, length |-> 2]>>)
  \/ Copy(s, 2, 3, -1, 1, 0) \/ Copy(s, 1, 2, -1, 2, 1)

ArrayNext ==
  \/ \E rows \in {0, MAXTEXTS + 1} : Create(rows)
  \/ \E values \in [1 .. MAXTEXTS + 1 -> TEXTS] : Fill(values)
  \/ \E s \in In, keep \in BOOLEAN : (Working \/ (s = sarraymax - 1 /\ ~ keep)) /\ FreeArray(s, keep)
  \/ Working /\ \E s \in In : InArray(s)
  \/ \E s \in In : Spare(s) /\ ToNewArray(s)
  \/ /\ Ready
     /\ \E s, z \in In :
          \/ Merge(s, z) \/ Intersect(s, z) \/ Difference(s, z)
          \/ \E after \in 0 .. 2, from, n \in 1 .. 2 : Paste(s, after, z, from, n)
          \/ \E from \in 1 .. 2 : Copy(s, from, 3, z, 1, 0) \/ Copy(s, from, 3, z, 3, 0)

\* After any sequence of calls every array holds, up to its count, the texts
\* the calls of its documentation leave (docs/books/ref/ext-array.typ): sorts
\* give the same texts in order, and what moves, copies, merges and compares
\* entries loses none and makes none up; behind the count nothing is left over
\* and the count is within the capacity, as every function reads the entries up
\* to the count without a test (rxsarray.c:135).  The searches answer from the
\* texts.
ArraysHold ==
  /\ DOMAIN sarray = DOMAIN text
  /\ \A s \in In :
       LET a == sarray[s]
       IN  /\ a.hi <= a.cap /\ DOMAIN a.item = 1 .. a.cap
           /\ Contents(a) = text[s]
           /\ \A i \in a.hi + 1 .. a.cap : a.item[i] = Unset
           /\ \A x \in {<<1>>, <<2, 0>>}, from \in 0 .. 2 :
                R_ssearch(a, x, from, "C") =
                  Min({i \in DOMAIN text[s] : i >= from /\ Has(text[s][i], [text |-> x, at |-> 0])}
                      \union {IF \E i \in DOMAIN text[s] : i >= from /\ Has(text[s][i], [text |-> x, at |-> 0])
                              THEN Len(text[s]) ELSE 0})
           /\ R_scount(a, <<<<1>>, <<2>>>>) =
                Len(SelectSeq(text[s], LAMBDA x : Has(x, [text |-> <<1>>, at |-> 0])))
                + Len(SelectSeq(text[s], LAMBDA x : Has(x, [text |-> <<2>>, at |-> 0])))
=============================================================================
