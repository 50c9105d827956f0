--------------------------- MODULE WordFunctions ---------------------------
(***************************************************************************)
(* The functions on words: lstring/word*.c, subword.c, delword.c,          *)
(* space.c, justify.c, and LASTWORD and SPLIT of src/rxstr.c.              *)
(***************************************************************************)
EXTENDS Lstring

\* Position of word n, 0 if there is none.
Lwordindex(s, n) ==
  LET from[p \in 0 .. Len(s), k \in 0 .. n] ==
        LET q == LSKIPBLANKS(s, p)
        IN  IF q >= Len(s) THEN 0 ELSE IF k = 1 THEN q + 1 ELSE from[LSKIPWORD(s, q), k - 1]
  IN  IF s = Empty \/ n <= 0 THEN 0 ELSE from[0, n]

Lwords(s) ==
  LET from[p \in 0 .. Len(s)] ==
        LET q == LSKIPBLANKS(s, p) IN IF q >= Len(s) THEN 0 ELSE 1 + from[LSKIPWORD(s, q)]
  IN  from[0]

Lwordlength(s, n) ==
  LET i == Lwordindex(s, n) IN IF i = 0 THEN 0 ELSE LSKIPWORD(s, i - 1) - i + 1
Lword(s, n) ==
  LET i == Lwordindex(s, n) IN IF i = 0 THEN Empty ELSE From(s, i, Lwordlength(s, n))

\* The offset behind `count` words from offset p on, and, but after the
\* last one, behind the blanks that follow.
Behind(s, p, count) ==
  LET from[q \in 0 .. Len(s), k \in 0 .. count] ==
        IF k = 0 THEN q
        ELSE LET e == LSKIPWORD(s, q)
             IN  IF e >= Len(s) \/ k = 1 THEN e
                 ELSE IF LSKIPBLANKS(s, e) >= Len(s) THEN Len(s) ELSE from[LSKIPBLANKS(s, e), k - 1]
  IN  from[p, count]

Lsubword(s, n, length) ==
  LET i == Lwordindex(s, n)
  IN  IF i = 0 \/ length = 0 THEN Empty
      ELSE Lstrip(From(s, i, IF length < 0 THEN 0 ELSE Behind(s, i - 1, length) - i + 1),
                  "T", BLANK)

\* What follows the last deleted word and its blanks stays.
Ldelword(s, n, length) ==
  LET i == Lwordindex(s, n)
      end == LSKIPBLANKS(s, Behind(s, i - 1, length))
  IN  IF i = 0 THEN s
      ELSE (IF i = 1 THEN Empty ELSE From(s, 1, i - 1))
           \o (IF length < 0 THEN Empty
               ELSE IF length = 0 THEN From(s, i, 0)
               ELSE IF end >= Len(s) THEN Empty ELSE From(s, end + 1, 0))

\* Lwordpos(): the phrase is compared character by character from the word at
\* offset lp (number n); k and p are the offsets in the phrase and in s.
Lwordpos(phrase, s, start) ==
  LET first == IF start > 0 THEN Lwordindex(s, start) - 1 ELSE LSKIPBLANKS(s, 0)
      lk == LSKIPBLANKS(phrase, 0)
      blank(t, i) == t[i + 1] = BLANK
      next(lp) == LSKIPBLANKS(s, LSKIPWORD(s, lp))
      at[lp \in 0 .. Len(s), k \in 0 .. Len(phrase), p \in 0 .. Len(s), n \in 1 .. Len(s) + 1] ==
        LET again == IF next(lp) >= Len(s) THEN 0 ELSE at[next(lp), lk, next(lp), n + 1]
            k2 == LSKIPBLANKS(phrase, k)
            p2 == LSKIPBLANKS(s, p)
        IN  CASE p >= Len(s) -> IF k2 >= Len(phrase) THEN n ELSE 0
              [] p < Len(s) /\ k >= Len(phrase) -> IF blank(s, p) THEN n ELSE again
              [] p < Len(s) /\ k < Len(phrase) /\ blank(phrase, k) ->
                   IF ~ blank(s, p) THEN again
                   ELSE IF k2 >= Len(phrase) THEN n
                   ELSE IF p2 >= Len(s) THEN 0 ELSE at[lp, k2, p2, n]
              [] OTHER -> IF phrase[k + 1] = s[p + 1] THEN at[lp, k + 1, p + 1, n] ELSE again
  IN  IF first < 0 \/ lk >= Len(phrase) THEN LNOTFOUND
      ELSE at[first, lk, first, IF start > 0 THEN start ELSE 1]

Lspace(s, n, pad) ==
  LET words[p \in 0 .. Len(s)] ==
        LET e == LSKIPWORD(s, p)
            q == LSKIPBLANKS(s, e)
        IN  SubSeq(s, p + 1, e) \o IF q >= Len(s) THEN Empty ELSE Lstrset(n, pad) \o words[q]
  IN  words[LSKIPBLANKS(s, 0)]

\* The gaps get `ins` pads each, and `extra` of them one more: the gap i does
\* when rstep, added up so far, has reached i.
Ljustify(s, length, pad) ==
  LET tmp == Lspace(s, 1, BLANK)
      spaces == Cardinality({i \in DOMAIN tmp : tmp[i] = BLANK})
      ins == length - (Len(tmp) - spaces)
      extra == ins % spaces
      \* r = (gaps filled + 1) * (spaces + 1) / (extra + 1)
      fill[i \in 1 .. spaces + 1, p \in 0 .. Len(tmp), done \in 0 .. spaces] ==
        LET e == LSKIPWORD(tmp, p)
            more == done < extra /\ ((done + 1) * (spaces + 1)) \div (extra + 1) <= i
        IN  SubSeq(tmp, p + 1, e)
            \o IF e >= Len(tmp) THEN Empty
               ELSE Lstrset((ins \div spaces) + (IF more THEN 1 ELSE 0), pad)
                    \o fill[i + 1, LSKIPBLANKS(tmp, e), IF more THEN done + 1 ELSE done]
  IN  IF length <= 0 THEN Empty
      ELSE IF tmp = Empty THEN Lstrset(length, pad)
      ELSE IF Len(tmp) > length
        THEN [i \in 1 .. length |-> IF tmp[i] = BLANK THEN pad ELSE tmp[i]]
      ELSE IF spaces = 0 THEN Lsubstr(tmp, 1, length, pad)
      ELSE fill[1, 0, 0]

\* LASTWORD: backwards over n words.
R_lastword(s, n) ==
  LET Back(p, Stop(_)) == LET stops == {q \in 0 .. p : Stop(s[q + 1])}
                          IN  IF stops = {} THEN -1 ELSE Max(stops)
      from[p \in -1 .. Len(s), k \in 0 .. n] ==
        LET e == Back(p, LAMBDA c : c # BLANK)
            b == Back(e, LAMBDA c : c = BLANK)
        IN  IF e < 0 THEN Empty ELSE IF k = 1 THEN SubSeq(s, b + 2, e + 1) ELSE from[b, k - 1]
  IN  IF s = Empty \/ n = 0 THEN Empty ELSE from[Len(s) - 1, n]

\* SPLIT: the pieces between delimiters, without the empty ones.
R_split(s, delimiters) ==
  LET isDelim(c) == c \in Range(delimiters)
      from[p \in 0 .. Len(s)] ==
        LET i == SkipTo(s, p, LAMBDA c : ~ isDelim(c))
            n == SkipTo(s, i, isDelim)
        IN  IF i >= Len(s) THEN Empty ELSE <<SubSeq(s, i + 1, n)>> \o from[n]
  IN  from[0]
=============================================================================
