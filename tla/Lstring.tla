------------------------------ MODULE Lstring ------------------------------
(***************************************************************************)
(* The string library (src/lstring) behind the built-in functions on texts *)
(* and words, and those of src/rxstr.c.  A text is a sequence of small     *)
(* numbers, 0 is the blank; positions count from 1, offsets from 0, as in  *)
(* the code.  An omitted length is -1, an omitted start 0.                 *)
(***************************************************************************)
EXTENDS Integers, Sequences, SequencesExt, FiniteSets, FiniteSetsExt

BLANK == 0
LREST == -1
LNOTFOUND == 0
Empty == <<>>

Lstrset(n, pad) == [i \in 1 .. n |-> pad]

\* _Lsubstr(): never padded; length 0 or too long is the rest.
From(s, start, length) ==
  SubSeq(s, start, IF length = 0 \/ length + start - 1 > Len(s) THEN Len(s)
                   ELSE start + length - 1)

Lsubstr(s, start, length, pad) ==
  LET off == Max({start - 1, 0})
      n == IF length < 0 THEN Len(s) - off ELSE length
  IN  [i \in 1 .. n |-> IF off + i <= Len(s) THEN s[off + i] ELSE pad]

\* LSKIPBLANKS, LSKIPWORD: from offset p to the next one where it stops.
SkipTo(s, p, Stop(_)) ==
  LET stops == {q \in p .. Len(s) - 1 : Stop(s[q + 1])}
  IN  IF stops = {} THEN Max({p, Len(s)}) ELSE Min(stops)
LSKIPBLANKS(s, p) == SkipTo(s, p, LAMBDA c : c # BLANK)
LSKIPWORD(s, p) == SkipTo(s, p, LAMBDA c : c = BLANK)

----------------------------------------------------------------------------
(* Searching.                                                              *)

\* How many characters of needle are found at offset p of s.
Agree(s, p, needle) ==
  LET bad == {i \in DOMAIN needle : p + i > Len(s) \/ s[p + i] # needle[i]}
  IN  IF bad = {} THEN Len(needle) ELSE Min(bad) - 1

\* Lindex(), and Lpos() with its arguments swapped: a partial match that
\* reaches the end of the haystack ends the search.
Lindex(haystack, needle, p) ==
  LET search[q \in 0 .. Len(haystack)] ==
        LET k == Agree(haystack, q, needle)
        IN  IF q >= Len(haystack) THEN LNOTFOUND
            ELSE IF k = Len(needle) THEN q + 1
            ELSE IF k > 0 /\ q + k >= Len(haystack) THEN LNOTFOUND ELSE search[q + 1]
      off == Max({p - 1, 0})
  IN  IF needle = Empty \/ Len(needle) > Len(haystack) \/ off > Len(haystack) THEN LNOTFOUND
      ELSE search[off]

fndpos(needle, haystack, start) ==
  LET found == {i \in Max({start - 1, 0}) .. Len(haystack) - Len(needle) :
                  Agree(haystack, i, needle) = Len(needle)}
  IN  IF needle = Empty \/ found = {} THEN LNOTFOUND ELSE Min(found) + 1

\* The last one is the first one of the two texts reversed.
Lreverse(s) == [i \in DOMAIN s |-> s[Len(s) - i + 1]]
Llastpos(needle, haystack, start) ==
  LET n == IF start >= Len(haystack) THEN Len(haystack) ELSE start
      p == Lindex(Lreverse(haystack), Lreverse(needle),
                  IF n > 0 THEN Len(haystack) - n + 1 ELSE n)
  IN  IF needle = Empty \/ p = LNOTFOUND THEN LNOTFOUND ELSE Len(haystack) - (p + Len(needle)) + 2

Lcountstr(target, source) ==
  LET count[q \in 0 .. Len(source) + 1] ==
        LET p == Lindex(source, target, q)
        IN  IF p = LNOTFOUND THEN 0 ELSE 1 + count[p + Len(target)]
  IN  count[0]

\* CHANGESTR with Lindex(), FCHANGESTR with fndpos().
Changed(old, s, new, Search(_, _, _)) ==
  LET from[pos \in 1 .. Len(s) + 1] ==
        LET p == Search(s, old, pos)
        IN  IF p = LNOTFOUND THEN From(s, pos, 0)
            ELSE (IF p = pos THEN Empty ELSE From(s, pos, p - pos)) \o new \o from[p + Len(old)]
  IN  IF old = Empty THEN s ELSE from[1]
Lchangestr(old, s, new) == Changed(old, s, new, Lindex)
R_fchangestr(old, s, new) == Changed(old, s, new, LAMBDA h, n, p : fndpos(n, h, p))

Labbrev(information, info, length) ==
  /\ Len(information) >= Len(info)
  /\ length <= 0 \/ Len(info) >= length
  /\ IsPrefix(info, information)

Lcompare(A, B, pad) ==
  LET long == IF Len(A) < Len(B) THEN B ELSE A
      short == IF Len(A) < Len(B) THEN A ELSE B
      differ == {i \in DOMAIN long : long[i] # IF i <= Len(short) THEN short[i] ELSE pad}
  IN  IF differ = {} THEN 0 ELSE Min(differ)

Lverify(s, ref, match, start) ==
  LET hits == {i \in Max({start, 1}) .. Len(s) : (s[i] \in Range(ref)) = match}
  IN  IF hits = {} THEN LNOTFOUND ELSE Min(hits)

----------------------------------------------------------------------------
(* Cutting and filling.                                                    *)

Ldelstr(s, start, length) ==
  LET off == Max({start - 1, 0})
  IN  IF off >= Len(s) THEN s
      ELSE (IF off > 0 THEN From(s, 1, off) ELSE Empty)
           \o (IF length > 0 /\ off + length < Len(s) THEN From(s, off + length + 1, 0) ELSE Empty)

Linsert(new, target, n, length, pad) ==
  LET want == IF length < 0 THEN Len(new) ELSE length
  IN  IF length = 0 THEN target
      ELSE (IF n >= 1 THEN Lsubstr(target, 1, n, pad) ELSE Empty) \o Lsubstr(new, 1, want, pad)
           \o (IF n <= Len(target) THEN From(target, n + 1, 0) ELSE Empty)

\* Mutant: the target is only filled up to where the new text begins.
LoverlayShort(new, target, n, length, pad) ==
  LET off == Max({n - 1, 0})
      over == Lsubstr(new, 1, IF length < 0 THEN Len(new) ELSE length, pad)
      under == IF off > Len(target) THEN Lsubstr(target, 1, off, pad) ELSE target
  IN  [i \in DOMAIN under |-> IF i \in off + 1 .. off + Len(over) THEN over[i - off] ELSE under[i]]
Loverlay(new, target, n, length, pad) ==
  LET off == Max({n - 1, 0})
      want == IF length < 0 THEN Len(new) ELSE length
      under == IF off + want > Len(target) THEN Lsubstr(target, 1, off + want, pad) ELSE target
      over == Lsubstr(new, 1, want, pad)
  IN  IF length = 0 THEN target
      ELSE [i \in DOMAIN under |-> IF i \in off + 1 .. off + want THEN over[i - off] ELSE under[i]]

Lright(s, length, pad) ==
  IF length > Len(s) THEN Lstrset(length - Len(s), pad) \o s
  ELSE IF length = 0 THEN Empty ELSE Lsubstr(s, Len(s) - length + 1, LREST, pad)

Lcenter(s, length, pad) ==
  LET i == length - Len(s)
      off == (IF i < 0 THEN -i ELSE i) \div 2
  IN  IF length <= 0 THEN Empty
      ELSE IF i < 0 THEN From(s, off + 1, length)
      ELSE [k \in 1 .. length |-> IF k \in off + 1 .. off + Len(s) THEN s[k - off] ELSE pad]

\* COPIES by doubling.
Lcopies(s, n) ==
  LET double[k \in 0 .. n] == IF k = 0 THEN s ELSE double[k - 1] \o double[k - 1]
      bits[k \in 0 .. n, left \in 0 .. n] ==
        IF left = 0 THEN Empty
        ELSE (IF left % 2 = 1 THEN double[k] ELSE Empty) \o bits[k + 1, left \div 2]
  IN  IF s = Empty \/ n = 0 THEN Empty ELSE bits[0, n]

Lstrip(s, action, pad) ==
  LET keep == {i \in DOMAIN s : s[i] # pad}
      first == IF action = "T" THEN 1 ELSE Min(keep)
      last == IF action = "L" THEN Len(s) ELSE Max(keep)
  IN  IF keep = {} THEN Empty ELSE SubSeq(s, first, last)

Lfilter(s, table, action) ==
  LET hit(c) == c \in Range(table)
  IN  IF s = Empty \/ table = Empty THEN s
      ELSE CASE action = "D" -> SelectSeq(s, LAMBDA c : ~ hit(c))
             [] action = "K" -> SelectSeq(s, hit)
             [] action = "B" -> [i \in DOMAIN s |-> IF hit(s[i]) THEN BLANK ELSE s[i]]

\* Of a character that occurs twice in tablein, the first place counts.
Ltranslate(s, out, in, pad) ==
  LET place(c) == Min({i \in DOMAIN in : in[i] = c})
      become(c) == IF c \notin Range(in) THEN c
                   ELSE IF place(c) > Len(out) THEN pad ELSE out[place(c)]
  IN  [i \in DOMAIN s |-> become(s[i])]

\* JOIN: where target has a joiner, the character of s.
Ljoin(s, target, joiners) ==
  IF s = Empty THEN target ELSE IF target = Empty THEN s
  ELSE [i \in 1 .. Max({Len(s), Len(target)}) |->
          IF i > Len(target) THEN s[i]
          ELSE IF i <= Len(s) /\ target[i] \in Range(joiners) THEN s[i] ELSE target[i]]

\* MASKBLK: between two delimiters, blanks become mask.
R_maskblk(s, delimiter, mask) ==
  LET quoted(i) == Cardinality({k \in 1 .. i - 1 : s[k] = delimiter}) % 2 = 1
  IN  [i \in DOMAIN s |-> IF s[i] = BLANK /\ BLANK # delimiter /\ quoted(i) THEN mask ELSE s[i]]

\* LCS: the table of lengths, and a way back through it.
lcs(a, b) ==
  LET c[i \in 0 .. Len(a), j \in 0 .. Len(b)] ==
        IF i = 0 \/ j = 0 THEN 0
        ELSE IF a[i] = b[j] THEN c[i - 1, j - 1] + 1 ELSE Max({c[i - 1, j], c[i, j - 1]})
      back[i \in 0 .. Len(a), j \in 0 .. Len(b)] ==
        IF i = 0 \/ j = 0 THEN Empty
        ELSE IF a[i] = b[j] THEN Append(back[i - 1, j - 1], a[i])
        ELSE IF c[i, j - 1] > c[i - 1, j] THEN back[i, j - 1] ELSE back[i - 1, j]
  IN  back[Len(a), Len(b)]
=============================================================================
