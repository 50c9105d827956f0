---------------------------- MODULE StringArrays ----------------------------
(***************************************************************************)
(* String arrays (src/rxsarray.c): tables of pointers to texts, with a     *)
(* capacity and a count.  An entry never set has no text; up to the count  *)
(* every entry has one.  t is the table sarray[], by array number; entries *)
(* count from 1.  What creates an array takes the first free number.       *)
(***************************************************************************)
EXTENDS WordFunctions, Functions, TLC

CONSTANTS sarraymax,   \* arrays at a time: 128
          MINROWS,     \* least capacity of an array: 100
          GROWTH,      \* entries added beyond what is needed: 100
          SMALL,       \* parts up to this size are sorted by bsort(): 25
          SPLIT        \* default of SQSORT's chunk: 1000

Unset == <<-1>>
sitem(x) == IF x = Unset THEN Empty ELSE x

\* strcmp() < 0.
Less(a, b) ==
  \E i \in DOMAIN b : /\ i > Len(a) \/ a[i] < b[i]
                      /\ \A j \in 1 .. i - 1 : j <= Len(a) /\ a[j] = b[j]
strstr(s, needle) == needle = Empty \/ Lindex(s, needle, 1) # LNOTFOUND

Free(t) == 0 .. sarraymax - 1 \ DOMAIN t
New(t) == Min(Free(t))
Array(rows) == LET n == Max({rows, MINROWS})
               IN  [cap |-> n, hi |-> 0, item |-> [i \in 1 .. n |-> Unset]]
snew(a, i, s) == [a EXCEPT !.item = [@ EXCEPT ![i] = s]]
\* A new array of the given room with these entries.
sarray_new(t, rows, s) ==
  New(t) :> [FoldLeft(LAMBDA a, i : snew(a, i, s[i]), Array(rows), [i \in DOMAIN s |-> i])
               EXCEPT !.hi = Len(s)] @@ t
Resized(a, n) ==
  [a EXCEPT !.cap = n, !.item = [i \in 1 .. n |-> IF i <= a.cap THEN @[i] ELSE Unset]]
sarray_room(a, need) == IF need > a.cap THEN Resized(a, need + GROWTH) ELSE a
R_sresize(a, imax) == IF imax <= a.hi THEN a ELSE Resized(a, imax)

\* SSET: values from index on; a gap behind the count is set to ''.
R_ssetAllowed(a, index, values) == index >= 1 /\ index - 1 + Len(values) <= a.cap
R_sset(a, index, values) ==
  [a EXCEPT !.hi = Max({@, index - 1 + Len(values)}),
            !.item = [i \in DOMAIN @ |->
              IF i \in index .. index - 1 + Len(values) THEN values[i - index + 1]
              ELSE IF i \in a.hi + 1 .. index - 1 /\ @[i] = Unset THEN Empty ELSE @[i]]]

\* The part of an entry the sorts compare, and SGET's answer.
sitemat(x, offs) == SubSeq(sitem(x), offs + 1, Len(sitem(x)))
sswap(item, i, j) == [item EXCEPT ![i] = item[j], ![j] = item[i]]

R_sfree(t, s, keep) ==
  IF s \notin DOMAIN t THEN t
  ELSE IF keep THEN [t EXCEPT ![s] = [@ EXCEPT !.hi = 0, !.item = [i \in DOMAIN @ |-> Unset]]]
  ELSE Restrict(t, DOMAIN t \ {s})

----------------------------------------------------------------------------
(* The sorts, on the entries item[first .. last], by what follows offs.    *)

Before(item, i, j, offs) == Less(sitemat(item[i], offs), sitemat(item[j], offs))
Span(from, to) == [i \in 1 .. (to - from) + 1 |-> from + i - 1]

\* bsort(): each place gets the least of the rest.
bsort(item, from, to, offs) ==
  LET least(x, i) == CHOOSE m \in i .. to :
                       \A j \in i .. to : IF j < m THEN Before(x, m, j, offs)
                                          ELSE ~ Before(x, j, m, offs)
  IN  IF from >= to THEN item
      ELSE FoldLeft(LAMBDA x, i : sswap(x, i, least(x, i)), item, Span(from, to))

\* sqsort(): around the first entry; small parts go to bsort().
Part(first, last, quick) == [first |-> first, last |-> last, quick |-> quick]
Parts(first, last, j) == <<Part(first, j - 1, (j - 1) - first > SMALL),
                           Part(j + 1, last, (last - j) + 1 > SMALL)>>
sqsort(item, from, to, offs) ==
  LET split[x \in Seq(Seq(Int)), first \in Int, last \in Int, i0 \in Int, j0 \in Int] ==
        LET i == Min({q \in i0 .. last : q = last \/ Before(x, first, q, offs)})
            j == Max({q \in first .. j0 : ~ Before(x, first, q, offs)})
        IN  IF i < j THEN split[sswap(x, i, j), first, last, i, j]
            ELSE [item |-> sswap(x, j, first), j |-> j]
      sort[x \in Seq(Seq(Int)), todo \in Seq([first : Int, last : Int, quick : BOOLEAN])] ==
        LET p == Head(todo)
            done == split[x, p.first, p.last, p.first, p.last]
        IN  CASE todo = << >> -> x
              [] todo # << >> /\ ~ p.quick -> sort[bsort(x, p.first, p.last, offs), Tail(todo)]
              [] todo # << >> /\ p.quick /\ p.first >= p.last -> sort[x, Tail(todo)]
              [] OTHER -> sort[done.item, Parts(p.first, p.last, done.j) \o Tail(todo)]
  IN  sort[item, <<Part(from, to, TRUE)>>]

\* shsort(): passes with a gap until one changes nothing, then half the gap.
shsort(entries, n, offs) ==
  LET pass(x, k) == FoldLeft(LAMBDA y, i : IF Before(y, i + k, i, offs) THEN sswap(y, i, i + k)
                                           ELSE y, x, Span(1, n - k))
      sort[x \in Seq(Seq(Int)), k \in Nat] ==
        IF k = 0 THEN x ELSE sort[pass(x, k), IF pass(x, k) = x THEN k \div 2 ELSE k]
  IN  sort[entries, n \div 2]

sreverse(a) ==
  [a EXCEPT !.item = [i \in DOMAIN @ |-> IF i <= a.hi THEN @[a.hi - i + 1] ELSE @[i]]]
Sorted(a, item, mode) ==
  IF mode = "D" THEN sreverse([a EXCEPT !.item = item]) ELSE [a EXCEPT !.item = item]

\* SQSORT: with more than two arguments, or for many entries, chunks of
\* `chunk` entries are sorted first, from the first entry on, and then all.
R_sqsort(a, mode, given, offset, from, chunk) ==
  LET to == a.hi
      chunked == to - 1 > chunk \/ given
      whole == ~ chunked \/ chunk < to
      chunks[x \in Seq(Seq(Int)), f \in Nat] ==
        IF f > to THEN x
        ELSE chunks[sqsort(x, f, Min({f + chunk - 1, to}), offset - 1), f + chunk]
      final(x) == IF whole THEN sqsort(x, from, to, offset - 1) ELSE x
  IN  Sorted(a, final(IF chunked THEN chunks[a.item, 1] ELSE a.item), mode)
R_shsort(a, mode, offset) == Sorted(a, shsort(a.item, a.hi, offset - 1), mode)

----------------------------------------------------------------------------
(* Entries that go, come and move.                                         *)

move_sitem(a, current, i) ==
  IF current = i THEN a ELSE [a EXCEPT !.item = [@ EXCEPT ![current] = a.item[i], ![i] = Unset]]
free_sitem(a, current) ==
  [a EXCEPT !.hi = current - 1,
            !.item = [i \in DOMAIN @ |-> IF i \in current .. a.hi THEN Unset ELSE @[i]]]
\* From entry `current` on, the entries of `candidates` that pass Keep move up.
Compacted(a, current, candidates, Keep(_)) ==
  LET step(x, i) == IF Keep(x.a.item[i])
                      THEN [a |-> move_sitem(x.a, x.current, i), current |-> x.current + 1] ELSE x
      done == FoldLeft(step, [a |-> a, current |-> current], candidates)
  IN  free_sitem(done.a, done.current)

\* A pattern is [text, at]; at 0 means anywhere.
Matches(s, p) == IF p.at = 0 THEN strstr(s, p.text) ELSE fndpos(p.text, s, p.at) = p.at
Hit(s, p) == Matches(s, p) /\ (p.at = 0 => p.text # Empty)
\* An empty pattern of SDROP takes the trailing blanks off every entry.
delblank(patterns) == \E k \in DOMAIN patterns : patterns[k].text = Empty
Trimmed(s) == Lstrip(s, "T", BLANK)
R_sdrop(a, patterns) ==
  LET cut(s) == IF delblank(patterns) THEN Trimmed(s) ELSE s
      b == [a EXCEPT !.item = [i \in DOMAIN @ |-> IF i <= a.hi THEN cut(@[i]) ELSE @[i]]]
  IN  Compacted(b, 1, Span(1, a.hi),
                LAMBDA s : /\ delblank(patterns) => s # Empty
                           /\ \A k \in DOMAIN patterns : ~ Hit(s, patterns[k]))
R_skeep(a, patterns) ==
  Compacted(a, 1, Span(1, a.hi), LAMBDA s : \E k \in DOMAIN patterns : Hit(s, patterns[k]))
R_skeepand(a, patterns) ==
  Compacted(a, 1, Span(1, a.hi), LAMBDA s : \A k \in DOMAIN patterns : Matches(s, patterns[k]))

R_sdel(a, from, dlines) ==
  IF dlines = 0 \/ from > a.hi THEN a
  ELSE Compacted(a, from, Span(from + dlines, a.hi), LAMBDA s : TRUE)

\* Mutant: the first one first.
ShiftedFirstFirst(a, from, n) ==
  LET down(x, i) == [x EXCEPT !.item = [@ EXCEPT ![i + n] = x.item[i], ![i] = Unset]]
  IN  FoldLeft(down, sarray_room(a, a.hi + n), Span(from + 1, a.hi))
\* The entries behind `from` move n places down, the last one first.
Shifted(a, from, n) ==
  LET down(x, i) == [x EXCEPT !.item = [@ EXCEPT ![i + n] = x.item[i], ![i] = Unset]]
  IN  FoldLeft(down, sarray_room(a, a.hi + n), Reverse(Span(from + 1, a.hi)))
sset(a, i, s) == snew(a, i, s)
R_sinsert(a, after, n) ==
  LET from == Min({after, a.hi})
  IN  [FoldLeft(LAMBDA x, i : sset(x, i, Empty), Shifted(a, from, n), Span(from + 1, from + n))
         EXCEPT !.hi = a.hi + n]

\* SPASTE: n entries of array b, from entry sfrom on, behind entry `after`.
R_spaste(a, after, b, sfrom, sinsert) ==
  LET from == Min({after, a.hi})
      n == IF sfrom + sinsert > b.hi THEN b.hi - sfrom + 1 ELSE sinsert
      paste(x, k) == sset(x, from + k, sitem(b.item[sfrom + k - 1]))
  IN  IF sfrom > b.hi \/ n <= 0 THEN a
      ELSE [FoldLeft(paste, Shifted(a, from, n), Span(1, n)) EXCEPT !.hi = a.hi + n]

\* SCOPY: entries from .. to of array s behind those of array into, or into a
\* new one; a start behind 1 cuts them, and only then a length does.
R_scopy(t, s, from, to, into, start, length) ==
  LET last == Min({to, t[s].hi})
      n == IF last >= from THEN last - from + 1 ELSE 0
      cut(x) == IF start <= 1 THEN x
                ELSE LET y == From(x, start, 0)
                     IN  IF length > 0 /\ length <= Len(y) THEN SubSeq(y, 1, length) ELSE y
      copied == [i \in 1 .. n |-> cut(t[s].item[from + i - 1])]
      b == sarray_room(t[into], t[into].hi + n)
      place(x, i) == snew(x, t[into].hi + i, copied[i])
  IN  IF into < 0 THEN sarray_new(t, n, copied)
      ELSE [t EXCEPT ![into] = [FoldLeft(place, b, Span(1, n)) EXCEPT !.hi = @ + n]]
R_sextract(t, s, from, to) ==
  LET last == Min({to, t[s].hi})
  IN  sarray_new(t, Max({(last - from) + 1, 0}), SubSeq(t[s].item, from, last))

----------------------------------------------------------------------------
(* Two arrays make a third one.                                            *)

\* SMERGE sorts both and takes the lesser head, of equal ones the second.
Merged(a, b) ==
  LET merge[i \in 1 .. a.hi + 1, j \in 1 .. b.hi + 1] ==
        IF i > a.hi /\ j > b.hi THEN Empty
        ELSE IF j > b.hi \/ (i <= a.hi /\ Less(a.item[i], b.item[j]))
          THEN <<a.item[i]>> \o merge[i + 1, j] ELSE <<b.item[j]>> \o merge[i, j + 1]
  IN  merge[1, 1]
ArrayInOrder(t, s) == [t EXCEPT ![s] = [@ EXCEPT !.item = sqsort(@, 1, t[s].hi, 0)]]
WithMerged(t, s1, s2) == sarray_new(t, t[s1].hi + t[s2].hi, Merged(t[s1], t[s2]))
R_smerge(t, s1, s2) == WithMerged(ArrayInOrder(ArrayInOrder(t, s1), s2), s1, s2)

\* For the entries of x, in their order, y is searched from where the last
\* one was found; the entries for which Want holds of found are the result.
Searched(x, y, wanted) ==
  LET from[i \in 1 .. x.hi + 1, lfj \in 1 .. y.hi + 1] ==
        LET stops == {j \in lfj .. y.hi : ~ Less(y.item[j], x.item[i])}
            j == Min(stops)
            found == stops # {} /\ y.item[j] = x.item[i]
        IN  IF i > x.hi THEN Empty
            ELSE (IF found = wanted THEN <<x.item[i]>> ELSE Empty)
                 \o from[i + 1, IF found THEN j ELSE lfj]
  IN  from[1, 1]
R_sintersect(t, s1, s2) ==
  LET x == IF t[s1].hi < t[s2].hi THEN s1 ELSE s2
      y == IF x = s1 THEN s2 ELSE s1
  IN  sarray_new(t, t[x].hi, Searched(t[x], t[y], TRUE))
R_sdifference(t, s1, s2) == sarray_new(t, t[s1].hi, Searched(t[s1], t[s2], FALSE))

\* SUNIFY: in a sorted array the repetitions of an entry become ''.
R_sunify(a) ==
  LET step(x, i) == IF x.a.item[i] # x.a.item[x.old] THEN [x EXCEPT !.old = i]
                    ELSE [x EXCEPT !.a = sset(@, i, Empty)]
  IN  FoldLeft(step, [a |-> a, old |-> 1], Span(2, a.hi)).a

----------------------------------------------------------------------------
(* Every entry is searched or changed.                                     *)

Every(a, Do(_)) == [i \in 1 .. a.hi |-> Do(a.item[i])]
\* In a new array, or each with sset() in its place.
InNew(t, s, Do(_)) == sarray_new(t, t[s].hi, Every(t[s], Do))
InPlace(t, s, Do(_)) ==
  [t EXCEPT ![s] = FoldLeft(LAMBDA a, i : sset(a, i, Do(a.item[i])), @, Span(1, @.hi))]
R_ssubstr(t, s, from, length, place) ==
  LET Do(x) == From(x, from, length)
  IN  IF place = "E" THEN InNew(t, s, Do) ELSE InPlace(t, s, Do)
R_sword(t, s, n, place) ==
  LET Do(x) == Lword(x, n) IN IF place = "E" THEN InNew(t, s, Do) ELSE InPlace(t, s, Do)
\* Lupper() with 3 for the small letter of 2.
Lupper(x) == [i \in DOMAIN x |-> IF x[i] = 3 THEN 2 ELSE x[i]]
R_supper(t, s, place) == IF place = "E" THEN InNew(t, s, Lupper) ELSE InPlace(t, s, Lupper)

\* SCHANGE: pairs <<old, new>>, the first one found and then those after it.
R_schange(a, pairs) ==
  LET change(x, p) == IF p[1] = Empty \/ ~ strstr(x, p[1]) THEN x ELSE Lchangestr(p[1], x, p[2])
  IN  [a EXCEPT !.item = [i \in DOMAIN @ |-> IF i <= a.hi THEN FoldLeft(change, @[i], pairs)
                                             ELSE @[i]]]

\* SSELECT: a pattern is [text, from, length]; from 0 looks anywhere.
R_sselect(t, s, patterns) ==
  LET hit(x, p) == /\ p.text # Empty
                   /\ strstr(IF p.from = 0 THEN x
                             ELSE From(x, p.from, IF p.length = 0 THEN 0 ELSE p.length), p.text)
  IN  sarray_new(t, t[s].hi, SelectSeq(SubSeq(t[s].item, 1, t[s].hi),
                                       LAMBDA x : \E k \in DOMAIN patterns : hit(x, patterns[k])))

R_ssearch(a, needle, from, mode) ==
  LET fold(x) == IF mode = "N" THEN Lupper(x) ELSE x
      hits == {i \in Max({from, 1}) .. a.hi : strstr(fold(a.item[i]), fold(needle))}
  IN  IF hits = {} THEN 0 ELSE Min(hits)
R_scount(a, needles) ==
  Cardinality({<<i, k>> \in (1 .. a.hi) \X DOMAIN needles : strstr(a.item[i], needles[k])})
=============================================================================
