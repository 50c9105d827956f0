---------------------------- MODULE Streams_proofs ----------------------------
(***************************************************************************)
(* Files implements Streams but for the calls in Departs, for any data     *)
(* sets, any number of streams and any size of the table:                  *)
(* StreamsImplemented.                                                     *)
(*                                                                         *)
(* Meets says that the streams of Streams took the step of a call.  There  *)
(* is a lemma for each call; those of the calls that read and write, or    *)
(* ask for a position, are here, the others and what the functions of      *)
(* rxfiles.c do to a stream, its positions and its lines in Files_proofs.  *)
(***************************************************************************)
EXTENDS Files_proofs

(* The functions with positions.                                            *)

(* What is known of a stream that is reached.                               *)
LEMMA ReachedIs ==
  ASSUME NEW s, NEW i, NEW n, NEW mode, Reached(s, i, n, mode)
  PROVE  /\ TableSound(Names, s, {}) /\ Seekable(s) /\ i \in Named(s) /\ n \in Names /\ s.file[i].name = n
  BY DEF Reached

LEMMA ReachedData ==
  ASSUME NEW s, NEW i, NEW n, NEW mode, Reached(s, i, n, mode)
  PROVE  s.data = [s.data EXCEPT ![n] = s.data[n]]
<1> DEFINE x == s.data[n]
           e == [data EXCEPT ![n] = x]
<1>1. s.data = e
  BY DEF Reached
<1>2. [e EXCEPT ![n] = x] = e
  OBVIOUS
<1> HIDE DEF e
<1> QED
  BY Zenon, <1>1, <1>2

LEMMA ReachedStream ==
  ASSUME NEW s, NEW i, NEW n, NEW mode, Reached(s, i, n, mode), NEW f, f = s.file[i].f
  PROVE  /\ f \in DOMAIN s.fp /\ s.fp[f].name = n /\ Content(s, f) = s.data[n] /\ s.data[n] \in Seq(Chars)
         /\ Seeks(s, i) => s.fp[f].mode \notin {"w", "a"}
<1>1. TableSound(Names, s, {}) /\ Seekable(s) /\ i \in Named(s) /\ n \in Names /\ s.file[i].name = n
  BY DEF Reached
<1>2. f \in DOMAIN s.fp
  BY <1>1, Live
<1>3. s.fp[f].name = n
  <2>1. n \notin Std
    BY <1>1, StdNamesApart
  <2>2. Has(s, i, f)
    BY <1>1 DEF TableSound, Owned
  <2> QED
    BY <1>1, <2>1, <2>2 DEF Has, SharedStderr, Std
<1>4. Content(s, f) = s.data[n]
  BY <1>3 DEF Content
<1>5. Content(s, f) \in Seq(Chars)
  BY <1>1, <1>2, ContentIs
<1>6. Seeks(s, i) => s.fp[f].mode \notin {"w", "a"}
  BY <1>1 DEF Seekable
<1> QED
  BY <1>2, <1>3, <1>4, <1>5, <1>6

LEMMA ReachedText ==
  ASSUME NEW s, NEW i, NEW n, Reached(s, i, n, "r")
  PROVE  s.data[n] = data[n]
<1>1. CASE i \in Named(Calling)
  BY <1>1 DEF Reached
<1>2. CASE i \notin Named(Calling)
  <2>1. ~ Truncates("r")
    BY DEF Truncates
  <2>2. s.data[n] = P!Text(data[n]) /\ data[n] # Absent
    BY <1>2, <2>1 DEF Reached
  <2> QED
    BY <2>2 DEF P!Text, Absent
<1> QED
  BY <1>1, <1>2

(* A stream whose positions moved.                                          *)
LEMMA MovedAre ==
  ASSUME TableSound(Names, Calling, {}), DataIs, NEW s, NEW i, NEW n, NEW mode, Reached(s, i, n, mode),
         NEW t, Moves(s, t, i), NEW d, t.data = [s.data EXCEPT ![n] = d] \/ (t.data = s.data /\ d = s.data[n]),
         NEW c, Become(t, c), c.handle = i, c.name = n
  PROVE  P!Leaves(StreamOf(t, i), d) /\ Like(s, t, i) /\ Seekable(Calling') /\ DataIs'
<1>1. TableSound(Names, s, {}) /\ Seekable(s) /\ i \in Named(s)
  BY ReachedIs
<1>2. Like(s, t, i) /\ Seekable(t)
  BY <1>1, MovesLike, MovesSeekable
<1>3. t.data = [s.data EXCEPT ![n] = d]
  BY ReachedData, Zenon
<1> QED
  BY <1>2, <1>3, LeavesAre

LEMMA AboutIs ==
  ASSUME NEW u, NEW r, NEW n, NameOf(u.s, r) = n
  PROVE  /\ About(u, r) = [None EXCEPT !.handle = u.i, !.name = n]
         /\ About(u, r).handle = u.i /\ About(u, r).name = n /\ About(u, r).raised = FALSE
  BY DEF About, None

(* LINES counts what it can read.                                           *)
NowFailed(s, i, func) == {Failed(s, i)} \union (IF func = "LINES" /\ Seeks(s, i) THEN {FALSE} ELSE {})
Rest(c, p) == SubSeq(c, p + 1, Len(c))
LinesIn(z) == P!Before(z, Len(z)) + (IF z # << >> /\ z[Len(z)] # LF THEN 1 ELSE 0)
LeftOf(func, z) == IF func = "CHARS" THEN Len(z) ELSE LinesIn(z)
LEMMA LinesAre ==
  ASSUME NEW s, NEW i, NEW n, NEW mode, Reached(s, i, n, mode), Seeks(s, i), NEW f, f = s.file[i].f,
         NEW l, l = SkipLines(prep_read(s, i), f, MaxChars + 1), Size(l.s) <= MaxChars,
         NEW z, z = Rest(s.data[n], s.file[i].rpos)
  PROVE  /\ Moves(s, l.s, i) /\ l.s.data = s.data /\ ~ Failed(l.s, i)
         /\ l.s.file[i].rpos = s.file[i].rpos /\ l.s.file[i].wpos = s.file[i].wpos
         /\ l.n = LinesIn(z)
<1> DEFINE c == s.data[n]
           p == prep_read(s, i)
           pos == s.file[i].rpos
<1>1. /\ TableSound(Names, s, {}) /\ i \in Named(s) /\ n \in Names /\ f \in DOMAIN s.fp
      /\ s.fp[f].name = n /\ Content(s, f) = c /\ c \in Seq(Chars)
      /\ s.fp[f].mode \notin {"w", "a"}
  <2>1. TableSound(Names, s, {}) /\ i \in Named(s) /\ n \in Names
    BY ReachedIs
  <2>2. /\ f \in DOMAIN s.fp /\ s.fp[f].name = n /\ Content(s, f) = s.data[n] /\ s.data[n] \in Seq(Chars)
        /\ Seeks(s, i) => s.fp[f].mode \notin {"w", "a"}
    BY ReachedStream
  <2> QED
    BY <2>1, <2>2
<1>2. /\ Moves(s, p, i) /\ p.data = s.data /\ ~ Failed(p, i) /\ p.fp[f].pos = pos
      /\ p.file[i].rpos = pos /\ p.file[i].wpos = s.file[i].wpos
  BY <1>1, PrepReadDoes
<1>13. l = SkipLines(p, f, MaxChars + 1) /\ z = SubSeq(c, pos + 1, Len(c))
  BY DEF Rest
<1> HIDE DEF p
<1>3. TableSound(Names, p, {}) /\ f \in DOMAIN p.fp /\ p.fp[f].mode \notin {"w", "a"} /\ Content(p, f) = c
  <2>1. Kept(s, p)
    BY <1>2 DEF Moves
  <2>2. p.fp[f].mode = s.fp[f].mode /\ p.fp[f].name = n
    BY <1>1, <2>1 DEF Kept
  <2>3. TableSound(Names, p, {}) /\ f \in DOMAIN p.fp
    BY <1>1, <2>1, KeptLive
  <2> QED
    BY <1>1, <1>2, <2>2, <2>3 DEF Content
<1>4. MaxChars + 1 \in Nat /\ MaxChars \in Nat
  BY FilesAssumption
<1>5. SkippedTo(p, f, l, MaxChars + 1)
  BY <1>3, <1>4, <1>13, SkipDoes
<1>6. Kept(p, l.s) /\ l.s.data = p.data /\ l.s.file = p.file /\ Skipped(c, pos, l.s.fp[f].pos, l.more, l.n, MaxChars + 1)
  BY <1>2, <1>3, <1>5 DEF SkippedTo
<1>7. Moves(p, l.s, i)
  BY <1>6, SameTableMoves
<1>8. Moves(s, l.s, i)
  BY <1>1, <1>2, <1>7, MovesThen
<1>9. Failed(l.s, i) = Failed(p, i)
  BY <1>6 DEF Failed
<1>10. Len(c) < MaxChars + 1
  <2>1. TableSound(Names, l.s, {}) /\ Names \subseteq P!Names
    BY <1>3, <1>6, KeptSound DEF TableSound, Typed
  <2>2. l.s.data[n] = c /\ c # Absent /\ Size(l.s) <= MaxChars
    BY <1>2, <1>6 DEF Reached
  <2>3. Len(c) <= MaxChars
    BY <1>1, <2>1, <2>2, ContentFits
  <2>4. Len(c) \in Nat
    BY <1>1, LenProperties
  <2> QED
    BY <1>4, <2>3, <2>4
<1>11. pos \in Nat /\ l.s.fp[f].pos \in Nat
  <2>1. pos \in Nat
    BY <1>1, Live DEF TableSound, Typed, IsSlot
  <2>2. l.s.fp[f].pos \in Nat
    BY <1>3, <1>6 DEF Kept, IsStream
  <2> QED
    BY <2>1, <2>2
<1>12. l.n = LinesIn(z)
  BY <1>1, <1>4, <1>6, <1>10, <1>11, <1>13, LinesLeft DEF LinesIn
<1> QED
  BY <1>2, <1>6, <1>8, <1>9, <1>12

(* What the reference sees of the stream.                                   *)
LEMMA StreamSees ==
  ASSUME NEW s, NEW i, NEW n, NEW mode, Reached(s, i, n, mode), NEW o, o = StreamOf(s, i)
  PROVE  /\ o.name = n /\ o.rpos = s.file[i].rpos /\ o.wpos = s.file[i].wpos
         /\ o.positions = Seeks(s, i) /\ o.appends = Appends(s, i) /\ o.failed = Failed(s, i)
<1>1. s.file[i].name = n
  BY ReachedIs
<1>2. PICK r, w, a, p, x : /\ r = s.file[i].rpos /\ w = s.file[i].wpos
                          /\ a = Appends(s, i) /\ p = Seeks(s, i) /\ x = Failed(s, i)
  BY Zenon
<1>3. o = Str(n, r, w, a, p, x)
  BY Zenon, <1>1, <1>2, StreamIs
<1>4. o.name = n /\ o.rpos = r /\ o.wpos = w /\ o.appends = a /\ o.positions = p /\ o.failed = x
  BY <1>3 DEF Str
<1> QED
  BY Zenon, <1>2, <1>4

(* A stream that is as it was but for its failure.                          *)
LEMMA FailedSet ==
  ASSUME NEW s, NEW i, NEW o, o = StreamOf(s, i), NEW x, NEW z, z = SetFailed(o, x)
  PROVE  /\ z.name = o.name /\ z.rpos = o.rpos /\ z.wpos = o.wpos /\ z.appends = o.appends
         /\ z.positions = o.positions /\ z.failed = x
         /\ x = Failed(s, i) => z = o
<1>1. PICK n, r, w, a, p, y : /\ n = s.file[i].name /\ r = s.file[i].rpos /\ w = s.file[i].wpos
                             /\ a = Appends(s, i) /\ p = Seeks(s, i) /\ y = Failed(s, i)
  BY Zenon
<1>2. o = Str(n, r, w, a, p, y)
  BY Zenon, <1>1, StreamIs
<1>3. z = Str(n, r, w, a, p, x)
  BY <1>2, StrSet DEF SetFailed
<1>4. o.name = n /\ o.rpos = r /\ o.wpos = w /\ o.appends = a /\ o.positions = p
  BY <1>2 DEF Str
<1>5. z.name = n /\ z.rpos = r /\ z.wpos = w /\ z.appends = a /\ z.positions = p /\ z.failed = x
  BY <1>3 DEF Str
<1> QED
  BY Zenon, <1>1, <1>2, <1>3, <1>4, <1>5

LEMMA CharsLinesAre ==
  ASSUME TableSound(Names, Calling, {}), DataIs, NEW s, NEW i, NEW n, Reached(s, i, n, "r"),
         NEW t, Moves(s, t, i), t.data = s.data, t.file[i].rpos = s.file[i].rpos, t.file[i].wpos = s.file[i].wpos,
         NEW func \in {"CHARS", "LINES"},
         NEW x, x = Failed(t, i), x \in NowFailed(s, i, func),
         NEW c, Become(t, c), c.handle = i, c.name = n, c.what = func, ~ c.raised,
         NEW z, z = Rest(s.data[n], s.file[i].rpos),
         Seeks(s, i) => c.value = LeftOf(func, z)
  PROVE  Meets
<1> DEFINE o == StreamOf(s, i)
<1>1. P!Leaves(StreamOf(t, i), s.data[n]) /\ Like(s, t, i) /\ Seekable(Calling') /\ DataIs'
  BY MovedAre
<1>2. P!This("r") = o /\ P!MayOpen("r")
  BY CallIs
<1>3. s.data[n] = data[n] /\ i \in Named(s)
  BY ReachedText, ReachedIs
<1>4. o.name = n /\ o.rpos = s.file[i].rpos /\ o.positions = Seeks(s, i) /\ o.failed = Failed(s, i)
  BY StreamSees
<1> HIDE DEF o
<1>5. StreamOf(t, i) = SetFailed(o, x)
  BY <1>1, <1>3, StreamChange DEF o
<1>7. call' = c
  BY DEF Become
<1> DEFINE Value == Seeks(s, i) => c.value = LeftOf(func, z)
<1>8. Value
  OBVIOUS
<1> HIDE DEF Value
<1>9. PICK ready : ready = SetFailed(o, x)
  OBVIOUS
<1>10. /\ ready.name = n /\ ready.rpos = s.file[i].rpos /\ ready.positions = Seeks(s, i)
       /\ x = Failed(s, i) => ready = o
  <2>1. o = StreamOf(s, i)
    BY DEF o
  <2>2. /\ ready.name = o.name /\ ready.rpos = o.rpos /\ ready.positions = o.positions
        /\ x = Failed(s, i) => ready = o
    BY <1>9, <2>1, FailedSet
  <2> QED
    BY Zenon, <1>4, <2>2
<1>11. P!CharsLines(ready)
  <2>1. P!LF = LF
    BY DEF LF
  <2>2. z = SubSeq(data[ready.name], ready.rpos + 1, Len(data[ready.name]))
    BY Zenon, <1>3, <1>10 DEF Rest
  <2>3. call'.what \in {"CHARS", "LINES"} /\ P!MayOpen("r") /\ ~ call'.raised
    BY <1>2, <1>7
  <2>4. ready.positions => call'.value = IF call'.what = "CHARS" THEN Len(z)
                                ELSE P!Before(z, Len(z)) + (IF z # << >> /\ z[Len(z)] # P!LF THEN 1 ELSE 0)
    BY Zenon, <1>7, <1>8, <1>10, <2>1 DEF Value, LeftOf, LinesIn
  <2>5. P!Leaves(ready, data[ready.name])
    BY Zenon, <1>1, <1>3, <1>5, <1>9, <1>10
  <2> QED
    BY Zenon, <2>2, <2>3, <2>4, <2>5 DEF P!CharsLines
<1>12. P!Next \/ Departs
  <2>1. CASE x = Failed(s, i)
    <3>1. P!CharsLines(P!This("r"))
      BY Zenon, <1>2, <1>10, <1>11, <2>1
    <3> QED
      BY <3>1 DEF P!Next
  <2>2. CASE x # Failed(s, i)
    <3>1. func = "LINES" /\ Seeks(s, i) /\ x = FALSE
      BY Zenon, <2>2 DEF NowFailed
    <3>2. ready = [P!This("r") EXCEPT !.failed = FALSE]
      BY Zenon, <1>2, <1>9, <3>1 DEF SetFailed
    <3>3. call'.what = "LINES" /\ P!This("r").positions
      BY Zenon, <1>2, <1>4, <1>7, <3>1
    <3>4. ForgetsFailure
      BY Zenon, <1>11, <3>2, <3>3 DEF ForgetsFailure
    <3> QED
      BY <3>4 DEF Departs
  <2> QED
    BY <2>1, <2>2
<1> QED
  BY <1>1, <1>12 DEF Meets

LEMMA CharsOf ==
  ASSUME TableSound(Names, Calling, {}), DataIs, NEW s, NEW i, NEW n, Reached(s, i, n, "r"), Seeks(s, i),
         NEW f, f = s.file[i].f,
         NEW c, c.handle = i, c.name = n, c.what = "CHARS", ~ c.raised,
         c.value = Max({Len(Content(s, f)) - s.file[i].rpos, 0}), Become(end_pos(s, i), c)
  PROVE  Meets
<1> DEFINE d == s.data[n]
           rpos == s.file[i].rpos
<1>1. TableSound(Names, s, {}) /\ i \in Named(s) /\ f \in DOMAIN s.fp /\ Content(s, f) = d /\ d \in Seq(Chars)
  BY ReachedIs, ReachedStream
<1>3. Len(d) \in Nat /\ rpos \in Nat
  BY <1>1, LenProperties, Live DEF TableSound, Typed, IsSlot
<1>4. PICK z : z = SubSeq(d, rpos + 1, Len(d))
  OBVIOUS
<1>5. PICK t : t = end_pos(s, i)
  OBVIOUS
<1>6. t = fseek(s, f, Len(d))
  BY <1>1, <1>5 DEF end_pos
<1>7. Kept(s, t) /\ t.data = s.data /\ t.file = s.file
  BY <1>1, <1>3, <1>6, SeekDoes
<1>8. Moves(s, t, i) /\ Failed(t, i) = Failed(s, i)
  BY <1>7, SameTableMoves DEF Failed
<1>9. c.value = Len(z)
  <2>1. Len(z) = IF rpos <= Len(d) THEN Len(d) - rpos ELSE 0
    <3> HIDE DEF d, rpos
    <3>1. Len(d) <= Len(d)
      BY <1>3
    <3> QED
      BY <1>1, <1>3, <1>4, <3>1, RestIs
  <2>2. c.value = Max({Len(d) - rpos, 0}) /\ Len(d) - rpos \in Int
    BY <1>1, <1>3
  <2> HIDE DEF d, rpos
  <2> QED
    BY <1>3, <2>1, <2>2, GreaterOf
<1>10. Seeks(s, i) => c.value = LeftOf("CHARS", z)
  BY <1>9 DEF LeftOf
<1>11. t.data = s.data /\ t.file[i].rpos = s.file[i].rpos /\ t.file[i].wpos = s.file[i].wpos
  BY <1>7
<1>12. z = Rest(s.data[n], s.file[i].rpos)
  BY <1>4 DEF Rest
<1>13. PICK x : x = Failed(t, i) /\ x = Failed(s, i)
  BY <1>8
<1>14. Become(t, c)
  BY <1>5
<1>15. PICK func \in {"CHARS", "LINES"} : func = "CHARS"
  OBVIOUS
<1>16. x \in NowFailed(s, i, func) /\ x = Failed(t, i)
  BY Zenon, <1>13 DEF NowFailed
<1>17. (Seeks(s, i) => c.value = LeftOf(func, z)) /\ c.what = func
  BY <1>10, <1>15
<1> HIDE DEF d, rpos
<1> QED
  BY <1>8, <1>11, <1>12, <1>14, <1>16, <1>17, CharsLinesAre

LEMMA LinesOf ==
  ASSUME TableSound(Names, Calling, {}), DataIs, NEW s, NEW i, NEW n, Reached(s, i, n, "r"), Seeks(s, i),
         NEW f, f = s.file[i].f,
         NEW l, l = SkipLines(prep_read(s, i), f, MaxChars + 1),
         NEW c, c.handle = i, c.name = n, c.what = "LINES", ~ c.raised, c.value = l.n, Become(l.s, c)
  PROVE  Meets
<1>1. Size(l.s) <= MaxChars
  BY DEF Become
<1>2. PICK z : z = Rest(s.data[n], s.file[i].rpos)
  OBVIOUS
<1>3. /\ Moves(s, l.s, i) /\ l.s.data = s.data /\ ~ Failed(l.s, i)
      /\ l.s.file[i].rpos = s.file[i].rpos /\ l.s.file[i].wpos = s.file[i].wpos
      /\ l.n = LinesIn(z)
  BY <1>1, <1>2, LinesAre
<1>4. Seeks(s, i) => c.value = LeftOf("LINES", z)
  BY <1>3 DEF LeftOf
<1>5. PICK t : t = l.s
  OBVIOUS
<1>6. Failed(t, i) = FALSE
  BY <1>3, <1>5 DEF Failed
<1>7. PICK x : x = Failed(t, i) /\ x = FALSE
  BY <1>6
<1>8. Moves(s, t, i) /\ t.data = s.data /\ t.file[i].rpos = s.file[i].rpos /\ t.file[i].wpos = s.file[i].wpos
  BY <1>3, <1>5
<1>9. Become(t, c)
  BY <1>5
<1>10. PICK func \in {"CHARS", "LINES"} : func = "LINES"
  OBVIOUS
<1>11. x \in NowFailed(s, i, func) /\ x = Failed(t, i)
  BY Zenon, <1>7, <1>10 DEF NowFailed
<1>12. (Seeks(s, i) => c.value = LeftOf(func, z)) /\ c.what = func
  BY <1>4, <1>10
<1> QED
  BY <1>2, <1>8, <1>9, <1>11, <1>12, CharsLinesAre

LEMMA CharsLinesOf ==
  ASSUME TableSound(Names, Calling, {}), DataIs, NEW s, NEW i, NEW n, Reached(s, i, n, "r"), NEW f, f = s.file[i].f,
         NEW l, l = SkipLines(prep_read(s, i), f, MaxChars + 1),
         NEW func \in {"CHARS", "LINES"},
         NEW c, c.handle = i, c.name = n, c.what = func, ~ c.raised,
         \/ ~ Seeks(s, i) /\ Become(s, c)
         \/ /\ Seeks(s, i) /\ func = "CHARS" /\ c.value = Max({Len(Content(s, f)) - s.file[i].rpos, 0})
            /\ Become(end_pos(s, i), c)
         \/ Seeks(s, i) /\ func = "LINES" /\ c.value = l.n /\ Become(l.s, c)
  PROVE  Meets
<1> DEFINE d == s.data[n]
           rpos == s.file[i].rpos
<1>1. TableSound(Names, s, {}) /\ i \in Named(s) /\ f \in DOMAIN s.fp /\ Content(s, f) = d /\ d \in Seq(Chars)
  BY ReachedIs, ReachedStream
<1>2. Moves(s, s, i)
  BY <1>1, MovesSelf
<1>3. Len(d) \in Nat /\ rpos \in Nat
  BY <1>1, LenProperties, Live DEF TableSound, Typed, IsSlot
<1>4. PICK z : z = SubSeq(d, rpos + 1, Len(d))
  OBVIOUS
<1> DEFINE value == LeftOf(func, z)
<1>5. CASE ~ Seeks(s, i) /\ Become(s, c)
  <2>1. Seeks(s, i) => c.value = value
    BY <1>5
  <2>2. PICK x : x = Failed(s, i) /\ x \in NowFailed(s, i, func)
    BY Zenon DEF NowFailed
  <2> QED
    BY <1>2, <1>4, <1>5, <2>1, <2>2, CharsLinesAre
<1>6. CASE /\ Seeks(s, i) /\ func = "CHARS" /\ c.value = Max({Len(Content(s, f)) - rpos, 0})
           /\ Become(end_pos(s, i), c)
  BY <1>6, CharsOf
<1>7. CASE Seeks(s, i) /\ func = "LINES" /\ c.value = l.n /\ Become(l.s, c)
  BY <1>7, LinesOf
<1> QED
  BY <1>5, <1>6, <1>7

LEMMA CharsLinesMeets ==
  ASSUME TableSound(Names, Calling, {}), Seekable(Calling), DataIs, Faults = {},
         NEW func \in {"CHARS", "LINES"}, NEW r \in Uses, R_charslines(func, r)
  PROVE  Meets
<1> DEFINE C(u) == [About(u, r) EXCEPT !.what = func]
           L(u) == SkipLines(prep_read(u.s, u.i), u.s.file[u.i].f, MaxChars + 1)
           Most(u) == Max({Len(Content(u.s, u.s.file[u.i].f)) - u.s.file[u.i].rpos, 0})
           Eof(u) == IF u.s.fp[u.s.file[u.i].f].eof THEN 0 ELSE 1
           c(u, v) == [C(u) EXCEPT !.value = v]
<1>1. PICK u \in Used(r, "r") :
        \/ Fails(u, r)
        \/ u.i >= 0 /\ ~ Seeks(u.s, u.i) /\ Become(u.s, c(u, Eof(u)))
        \/ u.i >= 0 /\ Seeks(u.s, u.i) /\ func = "CHARS" /\ Become(end_pos(u.s, u.i), c(u, Most(u)))
        \/ u.i >= 0 /\ Seeks(u.s, u.i) /\ func = "LINES" /\ Become(L(u).s, c(u, L(u).n))
  BY Zenon DEF R_charslines
<1>2. \/ u.i < 0 /\ ~ (u.i >= 0) /\ Left(u.s)
      \/ u.i >= 0 /\ ~ (u.i < 0) /\ u.i \in Nat /\ \E n \in Names : NameOf(u.s, r) = n /\ Reached(u.s, u.i, n, "r")
  <2>1. Opens("r") /\ \A n : UseMode("r", n) = "r"
    BY DEF Opens, UseMode
  <2> QED
    BY <1>1, <2>1, UsedReaches
<1>3. CASE Fails(u, r)
  BY <1>2, <1>3, FailsMeets DEF Fails
<1>4. CASE ~ Fails(u, r)
  <2>1. PICK n \in Names : NameOf(u.s, r) = n /\ Reached(u.s, u.i, n, "r")
    BY <1>1, <1>2, <1>4
  <2>2. \A v : c(u, v).handle = u.i /\ c(u, v).name = n /\ c(u, v).what = func /\ ~ c(u, v).raised /\ c(u, v).value = v
    BY <2>1 DEF About, None
  <2> HIDE DEF c
  <2>3. PICK s, i, f, l : s = u.s /\ i = u.i /\ f = s.file[i].f /\ l = SkipLines(prep_read(s, i), f, MaxChars + 1)
    BY Zenon
  <2>4. PICK v : /\ c(u, v).value = v
                 /\ \/ ~ Seeks(s, i) /\ Become(s, c(u, v))
                    \/ Seeks(s, i) /\ func = "CHARS" /\ v = Max({Len(Content(s, f)) - s.file[i].rpos, 0}) /\ Become(end_pos(s, i), c(u, v))
                    \/ Seeks(s, i) /\ func = "LINES" /\ v = l.n /\ Become(l.s, c(u, v))
    BY <1>1, <1>4, <2>2, <2>3, Zenon
  <2>5. PICK d : d = c(u, v)
    OBVIOUS
  <2>6. Reached(s, i, n, "r") /\ d.handle = i /\ d.name = n /\ d.what = func /\ ~ d.raised
    BY <2>1, <2>2, <2>3, <2>5
  <2>7. \/ ~ Seeks(s, i) /\ Become(s, d)
        \/ /\ Seeks(s, i) /\ func = "CHARS" /\ d.value = Max({Len(Content(s, f)) - s.file[i].rpos, 0})
           /\ Become(end_pos(s, i), d)
        \/ Seeks(s, i) /\ func = "LINES" /\ d.value = l.n /\ Become(l.s, d)
    BY <2>4, <2>5, Zenon
  <2> QED
    BY <2>3, <2>6, <2>7, CharsLinesOf
<1> QED
  BY <1>3, <1>4

(* What a read at the C position does to the state.                         *)
LEMMA TakesOnly ==
  ASSUME NEW s, TableSound(Names, s, {}), NEW f \in DOMAIN s.fp, NEW n \in Int
  PROVE  /\ Kept(s, fread(s, f, n).s) /\ fread(s, f, n).s.data = s.data /\ fread(s, f, n).s.file = s.file
         /\ Kept(s, fgets(s, f).s) /\ fgets(s, f).s.data = s.data /\ fgets(s, f).s.file = s.file
<1>1. CASE s.fp[f].mode \notin {"w", "a"}
  BY <1>1, ReadDoes, GetsDoes
<1>2. CASE s.fp[f].mode \in {"w", "a"}
  <2>1. fread(s, f, n).s = s /\ fgets(s, f).s = s
    BY <1>2 DEF fread, fgets, Took
  <2>2. Kept(s, s)
    BY KeptSelf
  <2> QED
    BY Zenon, <2>1, <2>2
<1> QED
  BY <1>1, <1>2

LEMMA ReadAre ==
  ASSUME TableSound(Names, Calling, {}), DataIs, NEW s, NEW i, NEW n, Reached(s, i, n, "r"),
         NEW t, Kept(s, t), t.data = s.data, t.file = s.file,
         NEW c, Become(t, c), c.handle = i, c.name = n, c.what = "READ"
  PROVE  Meets
<1>1. TableSound(Names, s, {}) /\ i \in Named(s)
  BY ReachedIs
<1>2. StreamOf(t, i) = StreamOf(s, i)
  BY <1>1, KeptStreams DEF SameStreams
<1>3. Moves(s, t, i)
  BY SameTableMoves
<1>4. P!Leaves(StreamOf(t, i), s.data[n]) /\ Seekable(Calling') /\ DataIs'
  BY <1>3, MovedAre
<1>5. P!This("r") = StreamOf(s, i) /\ P!MayOpen("r")
  BY CallIs
<1>6. PICK o : o = StreamOf(s, i)
  OBVIOUS
<1>7. o.name = n
  BY <1>6, StreamSees
<1>8. s.data[n] = data[n]
  BY ReachedText
<1>9. call'.what = "READ"
  BY DEF Become
<1>10. P!Leaves(o, data[o.name]) /\ P!This("r") = o
  BY Zenon, <1>2, <1>4, <1>5, <1>6, <1>7, <1>8
<1>11. P!Read
  BY Zenon, <1>5, <1>9, <1>10 DEF P!Read
<1> QED
  BY <1>4, <1>11 DEF Meets, P!Next

LEMMA ReadMeets ==
  ASSUME TableSound(Names, Calling, {}), Seekable(Calling), DataIs, Faults = {},
         NEW r \in Uses, NEW how, R_read(r, how)
  PROVE  Meets
<1> DEFINE Got(u) == IF how = "LINE" THEN fgets(u.s, u.s.file[u.i].f) ELSE fread(u.s, u.s.file[u.i].f, MaxChars + 1)
           C(u, v) == [About(u, r) EXCEPT !.what = "READ", !.value = v]
<1>1. PICK u \in Used(r, "r") : Fails(u, r) \/ (u.i >= 0 /\ Become(Got(u).s, C(u, Got(u).text)))
  BY DEF R_read
<1>2. \/ u.i < 0 /\ ~ (u.i >= 0) /\ Left(u.s)
      \/ u.i >= 0 /\ ~ (u.i < 0) /\ u.i \in Nat /\ \E n \in Names : NameOf(u.s, r) = n /\ Reached(u.s, u.i, n, "r")
  <2>1. Opens("r") /\ \A n : UseMode("r", n) = "r"
    BY DEF Opens, UseMode
  <2> QED
    BY <1>1, <2>1, UsedReaches
<1>3. CASE Fails(u, r)
  BY <1>2, <1>3, FailsMeets DEF Fails
<1>4. CASE ~ Fails(u, r)
  <2>1. PICK n \in Names : NameOf(u.s, r) = n /\ Reached(u.s, u.i, n, "r")
    BY <1>1, <1>2, <1>4
  <2>2. \A v : C(u, v).handle = u.i /\ C(u, v).name = n /\ C(u, v).what = "READ"
    BY <2>1 DEF About, None
  <2> HIDE DEF C
  <2>3. PICK s, i, f, t, c : s = u.s /\ i = u.i /\ f = s.file[i].f /\ t = Got(u).s /\ c = C(u, Got(u).text)
    BY Zenon
  <2>4. TableSound(Names, s, {}) /\ f \in DOMAIN s.fp /\ Reached(s, i, n, "r")
    BY <2>1, <2>3, ReachedIs, ReachedStream
  <2>5. t = fgets(s, f).s \/ t = fread(s, f, MaxChars + 1).s
    BY <2>3
  <2>6. MaxChars + 1 \in Int
    BY FilesAssumption
  <2>7. Kept(s, t) /\ t.data = s.data /\ t.file = s.file
    BY <2>4, <2>5, <2>6, TakesOnly
  <2>8. Become(t, c) /\ c.handle = i /\ c.name = n /\ c.what = "READ"
    BY Zenon, <1>1, <1>4, <2>2, <2>3
  <2> HIDE DEF Got
  <2> QED
    BY <2>4, <2>7, <2>8, ReadAre
<1> QED
  BY <1>3, <1>4

(* What a write at the C position does to the state.                        *)
LEMMA WritesOnly ==
  ASSUME NEW s, TableSound(Names, s, {}), NEW f \in DOMAIN s.fp, NEW t \in Seq(Chars), NEW take \in 0 .. Len(t),
         NEW u, u = fwrite(s, f, t, take), NEW n, n = s.fp[f].name, NEW c, c = Content(s, f), c \in Seq(Chars)
  PROVE  /\ Kept(s, u.s) /\ u.s.file = s.file
         /\ \/ u.s.data = s.data
            \/ \E p \in 0 .. Len(c) : u.s.data = PutIn(s.data, n, c, p, t, take)
<1>5. PICK p : p = WriteAt(s, f, c)
  OBVIOUS
<1>1. Kept(s, u.s) /\ u.s.file = s.file
  BY <1>5, WriteDoes
<1>2. CASE n \in Sysout \union Std
  <2>1. u.s.data = s.data
    BY <1>2, <1>5, WriteDoes
  <2> QED
    BY <1>1, <2>1
<1>3. CASE n \notin Sysout \union Std /\ (s.fp[f].mode = "r" \/ p > Len(c) \/ take = 0)
  <2>1. u.s = s
    BY <1>3, <1>5, WriteDoes
  <2> QED
    BY <1>1, <2>1
<1>4. CASE n \notin Sysout \union Std /\ ~(s.fp[f].mode = "r" \/ p > Len(c) \/ take = 0)
  <2>1. u.s.data = PutIn(s.data, n, c, p, t, take)
    BY <1>4, <1>5, WriteDoes
  <2>2. p \in Nat /\ Len(c) \in Nat
    <3>1. Len(c) \in Nat
      BY LenProperties
    <3>2. s.fp[f].pos \in Nat
      BY Parts
    <3> QED
      BY <1>5, <3>1, <3>2 DEF WriteAt
  <2>3. p \in 0 .. Len(c)
    BY <1>4, <2>2
  <2> QED
    BY Zenon, <1>1, <2>1, <2>3
<1> QED
  BY <1>2, <1>3, <1>4

LEMMA PutNothing ==
  ASSUME NEW c, NEW p, NEW t \in Seq(Chars)
  PROVE  P!Put(c, p, SubSeq(t, 1, 0)) = c /\ SubSeq(t, 1, 0) = << >>
<1>1. SubSeq(t, 1, 0) = << >>
  OBVIOUS
<1> QED
  BY <1>1 DEF P!Put

LEMMA WriteAre ==
  ASSUME TableSound(Names, Calling, {}), DataIs, NEW s, NEW i, NEW n, Reached(s, i, n, "w"),
         NEW text \in Seq(Chars), NEW take \in 0 .. Len(text), NEW f, f = s.file[i].f,
         NEW t, t = fwrite(s, f, text, take).s,
         NEW c, Become(t, c), c.handle = i, c.name = n, c.what = "WRITE", c.text = text
  PROVE  Meets
<1>1. TableSound(Names, s, {}) /\ i \in Named(s)
  BY ReachedIs
<1>2. f \in DOMAIN s.fp /\ s.fp[f].name = n /\ Content(s, f) = s.data[n] /\ s.data[n] \in Seq(Chars)
  BY ReachedStream
<1>3. PICK d : d = s.data[n] /\ d \in Seq(Chars)
  BY <1>2
<1>4. PICK u : u = fwrite(s, f, text, take) /\ t = u.s
  OBVIOUS
<1>5. /\ Kept(s, t) /\ t.file = s.file
      /\ \/ t.data = s.data
         \/ \E p \in 0 .. Len(d) : t.data = PutIn(s.data, n, d, p, text, take)
  BY <1>1, <1>2, <1>3, <1>4, WritesOnly
<1>6. Len(d) \in Nat /\ Len(text) \in Nat
  BY <1>3, LenProperties
<1>20. PICK p \in 0 .. Len(d), k \in 0 .. Len(text) :
        t.data = PutIn(s.data, n, d, p, text, k) \/ (t.data = s.data /\ P!Put(d, p, SubSeq(text, 1, k)) = d)
  <2>1. CASE t.data = s.data
    <3>1. P!Put(d, 0, SubSeq(text, 1, 0)) = d
      BY PutNothing
    <3>2. 0 \in 0 .. Len(d) /\ 0 \in 0 .. Len(text)
      BY <1>6
    <3> QED
      BY Zenon, <1>3, <2>1, <3>1, <3>2
  <2>2. CASE \E p \in 0 .. Len(d) : t.data = PutIn(s.data, n, d, p, text, take)
    <3>1. take \in 0 .. Len(text)
      OBVIOUS
    <3> QED
      BY Zenon, <2>2, <3>1
  <2> QED
    BY <1>5, <2>1, <2>2
<1>7. PICK e : /\ e = P!Put(d, p, SubSeq(text, 1, k))
               /\ t.data = [s.data EXCEPT ![n] = e] \/ (t.data = s.data /\ e = s.data[n])
  BY Zenon, <1>3, <1>20 DEF PutIn
<1>8. StreamOf(t, i) = StreamOf(s, i)
  BY <1>1, <1>5, KeptStreams DEF SameStreams
<1>9. Moves(s, t, i)
  BY <1>5, SameTableMoves
<1>10. P!Leaves(StreamOf(t, i), e) /\ Seekable(Calling') /\ DataIs'
  BY <1>7, <1>9, MovedAre
<1>11. P!This("w") = StreamOf(s, i) /\ (P!Found <=> i \in Named(Calling)) /\ P!MayOpen("w") /\ call'.name = n
  BY CallIs
<1>12. PICK o : o = StreamOf(s, i)
  OBVIOUS
<1>13. o.name = n
  BY <1>12, StreamSees
<1>14. d = IF P!Found THEN data[n] ELSE << >>
  BY <1>3, <1>11 DEF Reached, Truncates
<1>15. call'.what = "WRITE" /\ call'.text = text
  BY DEF Become
<1>16. P!Found \/ P!OpenAs(call'.name) = {}
  BY <1>11 DEF P!MayOpen
<1>17. P!Leaves(o, P!Put(d, p, SubSeq(call'.text, 1, k))) /\ k \in 0 .. Len(call'.text)
  BY Zenon, <1>7, <1>8, <1>10, <1>12, <1>15
<1>18. P!This("w") = o /\ d = IF P!Found THEN data[o.name] ELSE << >>
  BY <1>11, <1>12, <1>13, <1>14
<1>19. P!Write
  BY Zenon, <1>7, <1>15, <1>16, <1>17, <1>18 DEF P!Write
<1> QED
  BY <1>10, <1>19 DEF Meets, P!Next

LEMMA WriteMeets ==
  ASSUME TableSound(Names, Calling, {}), Seekable(Calling), DataIs, Faults = {},
         NEW r \in Uses, NEW text \in Seq(Chars), R_write(r, text)
  PROVE  Meets
<1> DEFINE C(u) == [About(u, r) EXCEPT !.what = "WRITE", !.text = text, !.value = Len(text)]
<1>1. PICK u \in Used(r, "w") :
        \/ Fails(u, r)
        \/ /\ u.i >= 0
           /\ \E take \in Taken(u.s.file[u.i].name, Len(text)) : Become(fwrite(u.s, u.s.file[u.i].f, text, take).s, C(u))
  BY DEF R_write
<1>2. \/ u.i < 0 /\ ~ (u.i >= 0) /\ Left(u.s)
      \/ u.i >= 0 /\ ~ (u.i < 0) /\ u.i \in Nat /\ \E n \in Names : NameOf(u.s, r) = n /\ Reached(u.s, u.i, n, "w")
  <2>1. Opens("w") /\ \A n : UseMode("w", n) = "w"
    BY DEF Opens, UseMode
  <2> QED
    BY <1>1, <2>1, UsedReaches
<1>3. CASE Fails(u, r)
  BY <1>2, <1>3, FailsMeets DEF Fails
<1>4. CASE ~ Fails(u, r)
  <2>1. PICK n \in Names : NameOf(u.s, r) = n /\ Reached(u.s, u.i, n, "w")
    BY <1>1, <1>2, <1>4
  <2>2. C(u).handle = u.i /\ C(u).name = n /\ C(u).what = "WRITE" /\ C(u).text = text
    BY <2>1 DEF About, None
  <2> HIDE DEF C
  <2>3. PICK take \in Taken(u.s.file[u.i].name, Len(text)) : Become(fwrite(u.s, u.s.file[u.i].f, text, take).s, C(u))
    BY <1>1, <1>4
  <2>4. take \in 0 .. Len(text)
    <3>1. Len(text) \in Nat
      BY LenProperties
    <3> QED
      BY <2>3, <3>1 DEF Taken
  <2>5. PICK s, i, f, t, c : s = u.s /\ i = u.i /\ f = s.file[i].f /\ t = fwrite(s, f, text, take).s /\ c = C(u)
    BY Zenon
  <2>6. Become(t, c) /\ c.handle = i /\ c.name = n /\ c.what = "WRITE" /\ c.text = text /\ Reached(s, i, n, "w")
    BY Zenon, <2>1, <2>2, <2>3, <2>5
  <2> QED
    BY <2>4, <2>5, <2>6, WriteAre
<1> QED
  BY <1>3, <1>4

LEMMA LineinOnly ==
  ASSUME NEW s, TableSound(Names, s, {}), NEW f \in DOMAIN s.fp, NEW length \in Nat, NEW t, t = Llinein(s, f, length).s
  PROVE  Kept(s, t) /\ t.data = s.data /\ t.file = s.file
<1> DEFINE Same(u) == Kept(s, u) /\ u.data = s.data /\ u.file = s.file
<1>1. PICK l : /\ Llinein(s, f, length) = l[length] /\ l[0] = Nothing(s)
               /\ \A j \in 1 .. length : l[j] = LineRead(f, length, l[j - 1], j)
  BY LineinSteps
<1>2. \A j \in 0 .. length : Same(l[j].s)
  <2> DEFINE T == {j \in 0 .. length : ~ Same(l[j].s)}
  <2> SUFFICES ASSUME T # {} PROVE FALSE
    OBVIOUS
  <2>1. T \subseteq Nat
    OBVIOUS
  <2> HIDE DEF T
  <2>2. PICK k \in T : \A j \in T : k <= j
    BY <2>1, LeastNat
  <2>3. k \in 0 .. length /\ ~ Same(l[k].s)
    BY DEF T
  <2>4. k # 0
    <3>1. l[0].s = s
      BY <1>1 DEF Nothing
    <3> QED
      BY <2>3, <3>1, KeptSelf
  <2>5. k - 1 \in 0 .. length /\ k \in 1 .. length
    BY <2>3, <2>4
  <2>6. k - 1 \notin T
    BY <2>2, <2>5
  <2>7. PICK x, g : x = l[k - 1] /\ g = fgets(x.s, f).s
    OBVIOUS
  <2>8. Same(x.s) /\ l[k] = LineRead(f, length, x, k)
    BY <1>1, <2>5, <2>6, <2>7 DEF T
  <2>9. TableSound(Names, x.s, {}) /\ f \in DOMAIN x.s.fp
    BY <2>8, KeptSound DEF Kept
  <2>10. l[k].s = g
    BY <2>7, <2>8 DEF LineRead
  <2>11. Kept(x.s, g) /\ g.data = x.s.data /\ g.file = x.s.file
    <3>1. 0 \in Int
      OBVIOUS
    <3> QED
      BY <2>7, <2>9, <3>1, TakesOnly
  <2>12. Kept(s, g)
    BY <2>8, <2>11, KeptThen
  <2> QED
    BY <2>3, <2>8, <2>10, <2>11, <2>12
<1> HIDE DEF Same
<1>3. length \in 0 .. length
  OBVIOUS
<1>4. Same(t)
  BY <1>1, <1>2, <1>3
<1> QED
  BY <1>4 DEF Same

LEMMA InputOnly ==
  ASSUME NEW s, TableSound(Names, s, {}), NEW f \in DOMAIN s.fp, NEW func, NEW length \in Nat,
         NEW t, t = Input(s, f, func, length).s
  PROVE  Kept(s, t) /\ t.data = s.data /\ t.file = s.file
<1>1. CASE length = 0
  <2>1. t = s
    BY <1>1 DEF Input
  <2> QED
    BY <2>1, KeptSelf
<1>2. CASE length # 0 /\ func = "CHARIN"
  <2>1. t = fread(s, f, length).s /\ length \in Int
    BY <1>2 DEF Input
  <2> QED
    BY <2>1, TakesOnly
<1>3. CASE length # 0 /\ func # "CHARIN"
  <2>1. t = Llinein(s, f, length).s
    BY <1>3 DEF Input
  <2> QED
    BY <2>1, LineinOnly
<1> QED
  BY <1>1, <1>2, <1>3

(* The outcome of a call on a stream.                                       *)
Turned(s, t, i, c, w) ==
  /\ Become(w, c) /\ Moves(s, w, i) /\ w.data = t.data
  /\ w.file[i].rpos = t.file[i].rpos /\ w.file[i].wpos = t.file[i].wpos
  /\ (c.raised => Failed(w, i)) /\ (~ c.raised => Failed(w, i) = Failed(t, i))
LEMMA OutcomeIs ==
  ASSUME NEW s, NEW i, TableSound(Names, s, {}), i \in Named(s), NEW t, Moves(s, t, i), NEW c, Outcome(t, i, c)
  PROVE  \E w : Turned(s, t, i, c, w)
<1>1. CASE c.raised
  <2>1. PICK w : w = NotReady(t, i)
    OBVIOUS
  <2>2. TableSound(Names, t, {}) /\ i \in Named(t)
    BY KeptLive DEF Moves
  <2>3. /\ Moves(t, w, i) /\ w.data = t.data /\ Failed(w, i)
        /\ w.file[i].rpos = t.file[i].rpos /\ w.file[i].wpos = t.file[i].wpos
    BY <2>1, <2>2, NotReadyDoes
  <2>4. Moves(s, w, i)
    BY <2>3, MovesThen
  <2>5. Become(w, c)
    BY <1>1, <2>1 DEF Outcome
  <2> QED
    BY <1>1, <2>3, <2>4, <2>5 DEF Turned
<1>2. CASE ~ c.raised
  <2>1. Become(t, c)
    BY <1>2 DEF Outcome
  <2> QED
    BY <1>2, <2>1 DEF Turned
<1> QED
  BY <1>1, <1>2

(* A read: the stream is placed and cleared, read and its position kept.    *)
Readied(s, i, f, off, p) ==
  /\ TableSound(Names, p, {}) /\ i \in Named(p) /\ f \in DOMAIN p.fp /\ p.file[i].f = f
  /\ Moves(s, p, i) /\ p.data = s.data /\ ~ Failed(p, i) /\ ~ p.fp[f].eof
  /\ p.file[i].rpos = off /\ p.file[i].wpos = s.file[i].wpos
  /\ Seeks(s, i) => p.fp[f].pos = off /\ p.fp[f].mode \notin {"w", "a"}
LEMMA ReadRuns ==
  ASSUME NEW s, NEW i, NEW n, NEW mode, Reached(s, i, n, mode), NEW f, f = s.file[i].f,
         NEW a, Kept(s, a), a.data = s.data, a.file = s.file, NEW off \in Nat,
         NEW p, p = prep_read([a EXCEPT !.file[i].rpos = off], i)
  PROVE  Readied(s, i, f, off, p) /\ Content(p, f) = s.data[n]
<1>1. TableSound(Names, s, {}) /\ i \in Named(s)
  BY ReachedIs
<1>2. f \in DOMAIN s.fp /\ s.fp[f].name = n /\ (Seeks(s, i) => s.fp[f].mode \notin {"w", "a"})
  BY ReachedStream
<1>3. PICK q : q = [a EXCEPT !.file[i].rpos = off]
  OBVIOUS
<1>4. TableSound(Names, a, {}) /\ i \in Named(a)
  BY <1>1, KeptLive
<1>5. /\ Moves(a, q, i) /\ q.data = a.data /\ Failed(q, i) = Failed(a, i)
      /\ q.file[i].rpos = off /\ q.file[i].wpos = a.file[i].wpos
  BY <1>3, <1>4, RposDoes
<1>6. Moves(s, a, i)
  BY SameTableMoves
<1>7. Moves(s, q, i)
  BY <1>1, <1>5, <1>6, MovesThen
<1>8. TableSound(Names, q, {}) /\ i \in Named(q) /\ q.file[i].f = f /\ (Seeks(q, i) <=> Seeks(s, i))
  BY <1>1, <1>7, KeptLive DEF Moves
<1>9. /\ Moves(q, p, i) /\ p.data = q.data /\ ~ Failed(p, i) /\ ~ p.fp[f].eof
      /\ p.file[i].rpos = q.file[i].rpos /\ p.file[i].wpos = q.file[i].wpos
      /\ Seeks(q, i) => p.fp[f].pos = q.file[i].rpos
  <2>1. p = prep_read(q, i)
    BY <1>3
  <2>2. /\ Moves(q, p, i) /\ p.data = q.data /\ ~ Failed(p, i) /\ ~ p.fp[q.file[i].f].eof
        /\ p.file[i].rpos = q.file[i].rpos /\ p.file[i].wpos = q.file[i].wpos
        /\ Seeks(q, i) => p.fp[q.file[i].f].pos = q.file[i].rpos
    <3>2. /\ Moves(q, prep_read(q, i), i) /\ prep_read(q, i).data = q.data /\ ~ Failed(prep_read(q, i), i)
          /\ ~ prep_read(q, i).fp[q.file[i].f].eof
          /\ prep_read(q, i).file[i].rpos = q.file[i].rpos /\ prep_read(q, i).file[i].wpos = q.file[i].wpos
          /\ Seeks(q, i) => prep_read(q, i).fp[q.file[i].f].pos = q.file[i].rpos
      <4> HIDE <1>3
      <4> QED
        BY <1>8, PrepReadDoes
    <3> QED
      BY Zenon, <2>1, <3>2
  <2> QED
    BY <1>8, <2>2
<1>10. Moves(s, p, i)
  BY <1>1, <1>7, <1>9, MovesThen
<1>11. TableSound(Names, p, {}) /\ i \in Named(p) /\ f \in DOMAIN p.fp /\ p.file[i].f = f
  BY <1>1, <1>10, KeptLive DEF Moves
<1>12. p.fp[f].mode = s.fp[f].mode /\ p.fp[f].name = n
  BY <1>2, <1>10 DEF Moves, Kept
<1>13. p.data = s.data /\ p.file[i].rpos = off /\ p.file[i].wpos = s.file[i].wpos
  BY <1>5, <1>9
<1>14. Seeks(s, i) => p.fp[f].pos = off
  BY <1>5, <1>8, <1>9
<1>15. Content(p, f) = s.data[n]
  BY <1>12, <1>13 DEF Content
<1> QED
  BY <1>2, <1>9, <1>10, <1>11, <1>12, <1>13, <1>14, <1>15 DEF Readied

Ended(s, t, i, q) ==
  /\ Moves(s, t, i) /\ t.data = s.data /\ ~ Failed(t, i)
  /\ t.file[i].wpos = s.file[i].wpos /\ t.file[i].rpos = q
LEMMA ReadEnds ==
  ASSUME NEW s, NEW i, TableSound(Names, s, {}), i \in Named(s), NEW f, NEW off, NEW p, Readied(s, i, f, off, p),
         NEW g, Kept(p, g), g.data = p.data, g.file = p.file, NEW t, t = done_read(g, i),
         NEW q, q = IF Seeks(s, i) THEN g.fp[f].pos ELSE off
  PROVE  Ended(s, t, i, q)
<1>1. /\ TableSound(Names, p, {}) /\ i \in Named(p) /\ p.file[i].f = f
      /\ Moves(s, p, i) /\ p.data = s.data /\ ~ Failed(p, i)
      /\ p.file[i].rpos = off /\ p.file[i].wpos = s.file[i].wpos
  BY DEF Readied
<1>2. TableSound(Names, g, {}) /\ i \in Named(g)
  BY <1>1, KeptLive
<1>3. /\ Moves(g, t, i) /\ t.data = g.data /\ Failed(t, i) = Failed(g, i)
      /\ t.file[i].rpos = (IF Seeks(g, i) THEN g.fp[g.file[i].f].pos ELSE g.file[i].rpos)
      /\ t.file[i].wpos = g.file[i].wpos
  BY <1>2, DoneReadDoes
<1>4. Moves(p, g, i)
  BY SameTableMoves
<1>5. Moves(s, g, i)
  BY <1>1, <1>4, MovesThen
<1>6. Moves(s, t, i)
  BY <1>3, <1>5, MovesThen
<1>7. Seeks(g, i) <=> Seeks(s, i)
  BY <1>5 DEF Moves
<1>8. ~ Failed(t, i)
  BY <1>1, <1>3 DEF Failed
<1>9. t.file[i].rpos = IF Seeks(s, i) THEN g.fp[f].pos ELSE off
  BY <1>1, <1>3, <1>7
<1> QED
  BY <1>1, <1>3, <1>6, <1>8, <1>9 DEF Ended

LinesRead(d, p, c, q) ==
  LET z == P!After(d, p)
  IN  /\ c.value = CASE c.length = 0 -> << >>
                     [] c.length = 1 -> P!OneLine(d, p)
                     [] OTHER -> P!OneLine(d, p) \o <<P!LF>> \o P!OneLine(d, z)
      /\ c.raised = (c.length = 1 /\ p >= Len(d))
      /\ q = CASE c.length = 0 -> p [] c.length = 1 -> z [] OTHER -> P!After(d, z)
(* The stream a read works on: one of length 0 forgets a failure.           *)
Cleared(o, length) == IF length = 0 THEN SetFailed(o, FALSE) ELSE o
NotedAs(o, z, length, q, x) ==
  /\ P!Noted(z, length > 0) = SetFailed(o, x)
  /\ [P!Noted(z, length > 0) EXCEPT !.rpos = q] = SetLine(o, q, x)
  /\ [P!Noted(z, length > 0) EXCEPT !.rpos = q] = SetRead(o, q, x)
  /\ [z EXCEPT !.failed = TRUE] = SetFailed(o, TRUE)
  /\ z.name = o.name /\ z.rpos = o.rpos /\ z.positions = o.positions
LEMMA NotedIs ==
  ASSUME NEW s, NEW i, NEW o, o = StreamOf(s, i), NEW c, call' = c, c.length \in Nat,
         NEW z, z = Cleared(o, c.length), NEW x \in BOOLEAN, c.raised = x, NEW q
  PROVE  NotedAs(o, z, c.length, q, x)
<1>1. PICK n, r, w, a, p, y : /\ n = s.file[i].name /\ r = s.file[i].rpos /\ w = s.file[i].wpos
                             /\ a = Appends(s, i) /\ p = Seeks(s, i) /\ y = Failed(s, i)
  BY Zenon
<1>2. o = Str(n, r, w, a, p, y)
  BY Zenon, <1>1, StreamIs
<1>3. PICK v : z = Str(n, r, w, a, p, v) /\ (c.length = 0 => v = FALSE)
  <2>1. CASE c.length = 0
    <3>1. z = [o EXCEPT !.failed = FALSE]
      BY <2>1 DEF Cleared, SetFailed
    <3>3. PICK k : k = FALSE
      OBVIOUS
    <3>4. z = [o EXCEPT !.failed = k]
      BY Zenon, <3>1, <3>3
    <3>5. z = Str(n, r, w, a, p, k)
      BY <1>2, <3>4, StrSet
    <3>2. z = Str(n, r, w, a, p, FALSE)
      BY Zenon, <3>3, <3>5
    <3> QED
      BY <3>2
  <2>2. CASE c.length # 0
    <3>1. z = o
      BY <2>2 DEF Cleared
    <3> QED
      BY Zenon, <1>2, <2>2, <3>1
  <2> QED
    BY <2>1, <2>2
<1>4. PICK m : m = P!Noted(z, c.length > 0)
  OBVIOUS
<1>5. m = Str(n, r, w, a, p, x)
  <2>1. m = [z EXCEPT !.failed = call'.raised \/ (z.failed /\ ~ (c.length > 0))]
    BY Zenon, <1>4 DEF P!Noted
  <2>2. z.failed = v
    BY <1>3 DEF Str
  <2>3. (call'.raised \/ (z.failed /\ ~ (c.length > 0))) = x
    <3>1. CASE c.length = 0
      <4>1. z.failed = FALSE
        BY <1>3, <2>2, <3>1
      <4>2. call'.raised = x
        OBVIOUS
      <4> QED
        BY Zenon, <4>1, <4>2
    <3>2. CASE c.length > 0
      BY Zenon, <3>2
    <3> QED
      BY <3>1, <3>2
  <2>4. m = [z EXCEPT !.failed = x]
    BY Zenon, <2>1, <2>3
  <2> QED
    BY <1>3, <2>4, StrSet
<1>6. [m EXCEPT !.rpos = q] = Str(n, q, w, a, p, x)
  BY <1>5, StrSet
<1>7. [z EXCEPT !.failed = TRUE] = Str(n, r, w, a, p, TRUE)
  <2>1. PICK k : k = TRUE
    OBVIOUS
  <2>2. [z EXCEPT !.failed = k] = Str(n, r, w, a, p, k)
    BY <1>3, StrSet
  <2> QED
    BY Zenon, <2>1, <2>2
<1>8. \A k : SetFailed(o, k) = Str(n, r, w, a, p, k)
  BY <1>2, StrSet DEF SetFailed
<1>9. SetLine(o, q, x) = Str(n, q, w, a, p, x)
  <2>1. PICK e : e = [o EXCEPT !.failed = x]
    OBVIOUS
  <2>2. e = Str(n, r, w, a, p, x)
    BY <1>2, <2>1, StrSet
  <2>3. SetLine(o, q, x) = [e EXCEPT !.rpos = q]
    BY Zenon, <2>1 DEF SetLine
  <2> QED
    BY <2>2, <2>3, StrSet
<1>10. SetRead(o, q, x) = Str(n, q, w, a, p, x)
  <2>1. PICK e : e = [o EXCEPT !.rpos = q]
    OBVIOUS
  <2>2. e = Str(n, q, w, a, p, y)
    BY <1>2, <2>1, StrSet
  <2>3. SetRead(o, q, x) = [e EXCEPT !.failed = x]
    BY Zenon, <2>1 DEF SetRead
  <2> QED
    BY <2>2, <2>3, StrSet
<1>11. z.name = o.name /\ z.rpos = o.rpos /\ z.positions = o.positions
  BY <1>2, <1>3 DEF Str
<1> QED
  BY Zenon, <1>4, <1>5, <1>6, <1>7, <1>8, <1>9, <1>10, <1>11 DEF NotedAs

LEMMA ReadyMeets ==
  ASSUME NEW o, P!This("r") = o, NEW c, call' = c, c.what \in {"LINEIN", "CHARIN"},
         NEW z, z = Cleared(o, c.length), P!LineIn(z) \/ P!CharIn(z)
  PROVE  P!Next \/ Departs
<1>1. CASE c.length = 0
  <2>1. z = [P!This("r") EXCEPT !.failed = FALSE]
    BY Zenon, <1>1 DEF Cleared, SetFailed
  <2>2. call'.what \in {"LINEIN", "CHARIN"} /\ call'.length = 0
    BY <1>1
  <2>3. ForgetsFailure
    BY Zenon, <2>1, <2>2 DEF ForgetsFailure
  <2> QED
    BY <2>3 DEF Departs
<1>2. CASE c.length # 0
  <2>1. z = P!This("r")
    BY Zenon, <1>2 DEF Cleared
  <2>2. P!LineIn(P!This("r")) \/ P!CharIn(P!This("r"))
    BY Zenon, <2>1
  <2> QED
    BY <2>2 DEF P!Next
<1> QED
  BY <1>1, <1>2

(* Two lines where none is left.                                            *)
NoLinesLeft(d, p, c, q) ==
  d \in Seq(Chars) /\ p \in Nat /\ c.length = 2 /\ p >= Len(d) /\ LinesRead(d, p, c, q)
NoLinesGot(p, c, q) == q = p /\ c.value = <<P!LF>> /\ c.raised = FALSE
LEMMA NoLinesAre ==
  ASSUME NEW d, NEW p, NEW q, NEW c, NoLinesLeft(d, p, c, q)
  PROVE  NoLinesGot(p, c, q)
<1>20. d \in Seq(Chars) /\ p \in Nat /\ c.length = 2 /\ p >= Len(d) /\ LinesRead(d, p, c, q)
  BY Zenon DEF NoLinesLeft
<1> USE <1>20
<1>1. P!After(d, p) = p
  BY DEF P!After
<1>2. P!OneLine(d, p) = << >>
  <2>1. ~ (p < p)
    OBVIOUS
  <2>2. P!OneLine(d, p) = SubSeq(d, p + 1, p)
    BY Zenon, <1>1, <2>1 DEF P!OneLine
  <2> QED
    BY <2>2
<1>3. PICK e : e = P!OneLine(d, p)
  OBVIOUS
<1>4. c.value = e \o <<P!LF>> \o e /\ c.raised = FALSE /\ q = p
  <2>1. /\ c.value = CASE c.length = 0 -> << >> [] c.length = 1 -> e [] OTHER -> e \o <<P!LF>> \o e
        /\ c.raised = (c.length = 1 /\ p >= Len(d))
        /\ q = CASE c.length = 0 -> p [] c.length = 1 -> p [] OTHER -> p
    BY Zenon, <1>1, <1>3 DEF LinesRead
  <2>2. c.length # 0 /\ c.length # 1
    OBVIOUS
  <2>3. c.raised = FALSE
    BY Zenon, <2>1, <2>2
  <2> QED
    BY <2>1, <2>2, <2>3
<1>5. e \o <<P!LF>> \o e = <<P!LF>>
  BY <1>2, <1>3
<1> QED
  BY Zenon, <1>4, <1>5 DEF NoLinesGot

LineStarts(d, start, rpos) == IF start = P!NONE THEN {rpos} ELSE P!LineAt(d, start)
LineInMay(s, i, c, d, starts, q) ==
  \/ ~ Seeks(s, i) /\ q = s.file[i].rpos
  \/ Seeks(s, i) /\ \E p \in starts : LinesRead(d, p, c, q)
  \/ Seeks(s, i) /\ starts = {} /\ c.value = << >> /\ c.raised = TRUE /\ q = s.file[i].rpos
LEMMA StartsNat ==
  ASSUME NEW s, NEW i, NEW n, NEW mode, Reached(s, i, n, mode), NEW d, d = s.data[n],
         NEW start, NEW starts, starts = LineStarts(d, start, s.file[i].rpos), NEW p \in starts
  PROVE  p \in Nat /\ Len(d) \in Nat
<1>1. TableSound(Names, s, {}) /\ i \in Named(s)
  BY ReachedIs
<1>2. s.file[i].rpos \in Nat
  BY <1>1, Live DEF TableSound, Typed, IsSlot
<1>3. d \in Seq(Chars)
  BY ReachedStream
<1>4. Len(d) \in Nat
  BY <1>3, LenProperties
<1>5. P!LineAt(d, start) \subseteq Nat
  BY <1>4 DEF P!LineAt
<1> QED
  BY <1>2, <1>4, <1>5 DEF LineStarts
LEMMA LineInAre ==
  ASSUME TableSound(Names, Calling, {}), DataIs, NEW s, NEW i, NEW n, Reached(s, i, n, "r"),
         NEW w, Moves(s, w, i), w.data = s.data, w.file[i].wpos = s.file[i].wpos,
         NEW q, w.file[i].rpos = q, NEW x, Failed(w, i) = x,
         NEW c, Become(w, c), c.handle = i, c.name = n, c.what = "LINEIN", c.raised = x, c.length \in {0, 1, 2},
         NEW d, d = s.data[n], NEW starts, starts = LineStarts(d, c.start, s.file[i].rpos),
         LineInMay(s, i, c, d, starts, q)
  PROVE  Meets
<1>1. d = data[n] /\ i \in Named(s)
  BY ReachedText, ReachedIs
<1>2. P!Leaves(StreamOf(w, i), d) /\ Like(s, w, i) /\ Seekable(Calling') /\ DataIs'
  BY MovedAre
<1>3. P!This("r") = StreamOf(s, i) /\ P!MayOpen("r")
  BY CallIs
<1>4. PICK o : o = StreamOf(s, i)
  OBVIOUS
<1>5. o.name = n /\ o.rpos = s.file[i].rpos /\ o.positions = Seeks(s, i)
  BY <1>4, StreamSees
<1>6. /\ StreamOf(w, i) = SetLine(o, q, x)
      /\ q = s.file[i].rpos => StreamOf(w, i) = SetFailed(o, x)
  BY <1>1, <1>2, <1>4, StreamChange
<1>7. call' = c
  BY DEF Become
<1>8. call'.raised = x /\ call'.what = "LINEIN"
  BY <1>7
<1>10. P!This("r") = o
  BY <1>3, <1>4
<1>14. PICK z : z = Cleared(o, c.length)
  OBVIOUS
<1>15. x \in BOOLEAN /\ c.length \in Nat
  <2>1. Failed(w, i) \in BOOLEAN
    BY DEF Failed
  <2>2. c.length \in Nat
    OBVIOUS
  <2> QED
    BY Zenon, <2>1, <2>2
<1>16. NotedAs(o, z, c.length, q, x)
  BY <1>4, <1>7, <1>14, <1>15, NotedIs
<1>17. /\ P!Noted(z, call'.length > 0) = SetFailed(o, x)
       /\ [P!Noted(z, call'.length > 0) EXCEPT !.rpos = q] = SetLine(o, q, x)
       /\ [z EXCEPT !.failed = TRUE] = SetFailed(o, TRUE)
       /\ z.name = n /\ z.rpos = s.file[i].rpos /\ z.positions = Seeks(s, i)
  BY Zenon, <1>5, <1>7, <1>16 DEF NotedAs
<1>9. d = data[z.name] /\ starts = P!ReadStarts(z, d)
  <2>1. P!ReadStarts(z, d) = IF call'.start = P!NONE THEN {z.rpos} ELSE P!LineAt(d, call'.start)
    BY Zenon DEF P!ReadStarts
  <2> QED
    BY Zenon, <1>1, <1>7, <1>17, <2>1 DEF LineStarts
<1>18. ASSUME P!LineIn(z) PROVE Meets
  <2>1. P!Next \/ Departs
    BY <1>7, <1>10, <1>14, <1>18, ReadyMeets
  <2> QED
    BY <1>2, <2>1 DEF Meets
<1>11. CASE ~ Seeks(s, i) /\ q = s.file[i].rpos
  <2>1. ~ z.positions
    BY <1>11, <1>17 DEF Seeks
  <2>2. P!Leaves(P!Noted(z, call'.length > 0), d)
    BY Zenon, <1>2, <1>6, <1>11, <1>17
  <2>3. P!LineIn(z)
    BY Zenon, <1>3, <1>8, <1>9, <2>1, <2>2 DEF P!LineIn
  <2> QED
    BY <1>18, <2>3
<1>12. CASE Seeks(s, i) /\ \E p \in starts : LinesRead(d, p, c, q)
  <2>1. z.positions /\ o.positions
    BY <1>5, <1>12, <1>17 DEF Seeks
  <2>2. PICK p \in starts : LinesRead(d, p, call', q)
    BY <1>7, <1>12
  <2>3. CASE c.length = 2 /\ p >= Len(d)
    <3>1. q = p /\ call'.value = <<LF>> /\ ~ call'.raised /\ x = FALSE
      <4>1. d \in Seq(Chars) /\ p \in Nat
        <5>1. d \in Seq(Chars)
          BY ReachedStream
        <5>2. p \in Nat
          BY <1>7, <2>2, StartsNat
        <5> QED
          BY <5>1, <5>2
      <4>2. LinesRead(d, p, c, q)
        BY <1>7, <2>2
      <4>3. q = p /\ c.value = <<P!LF>> /\ c.raised = FALSE
        <5>1. NoLinesLeft(d, p, c, q)
          BY Zenon, <2>3, <4>1, <4>2 DEF NoLinesLeft
        <5>2. NoLinesGot(p, c, q)
          BY <5>1, NoLinesAre
        <5> QED
          BY Zenon, <5>2 DEF NoLinesGot
      <4> QED
        BY <1>7, <4>3 DEF LF
    <3>2. P!Leaves([o EXCEPT !.rpos = p, !.failed = FALSE], d)
      <4>1. StreamOf(w, i) = SetRead(o, q, x)
        BY <1>1, <1>2, <1>4, StreamChange
      <4> QED
        BY Zenon, <1>2, <3>1, <4>1 DEF SetRead
    <3>3. d = data[o.name] /\ p \in P!ReadStarts(o, d)
      <4>1. P!ReadStarts(o, d) = IF call'.start = P!NONE THEN {o.rpos} ELSE P!LineAt(d, call'.start)
        BY Zenon DEF P!ReadStarts
      <4> QED
        BY Zenon, <1>1, <1>5, <1>7, <2>2, <4>1 DEF LineStarts
    <3>4. call'.length = 2
      BY <1>7, <2>3
    <3>5. MissesLines
      BY Zenon, <1>3, <1>8, <1>10, <2>1, <2>3, <3>1, <3>2, <3>3, <3>4 DEF MissesLines
    <3> QED
      BY <1>2, <3>5 DEF Meets, Departs
  <2>4. CASE ~ (c.length = 2 /\ p >= Len(d))
    <3>1. PICK y : y = P!After(d, p)
      OBVIOUS
    <3>2. /\ call'.value = (CASE call'.length = 0 -> << >>
                              [] call'.length = 1 -> P!OneLine(d, p)
                              [] OTHER -> P!OneLine(d, p) \o <<P!LF>> \o P!OneLine(d, y))
          /\ call'.raised = (call'.length = 1 /\ p >= Len(d))
          /\ q = CASE call'.length = 0 -> p [] call'.length = 1 -> y [] OTHER -> P!After(d, y)
      BY Zenon, <2>2, <3>1 DEF LinesRead
    <3>3. call'.value \in
            CASE call'.length = 0 -> {<< >>}
              [] call'.length = 1 -> {P!OneLine(d, p)}
              [] OTHER -> {P!OneLine(d, p) \o <<P!LF>> \o P!OneLine(d, y)} \union
                          (IF y >= Len(d) THEN {P!OneLine(d, p)} ELSE {})
      <4>1. PICK a, b, e : /\ a = P!OneLine(d, p) /\ b = P!OneLine(d, p) \o <<P!LF>> \o P!OneLine(d, y)
                           /\ e = IF y >= Len(d) THEN {P!OneLine(d, p)} ELSE {}
        BY Zenon
      <4>2. call'.value = CASE call'.length = 0 -> << >> [] call'.length = 1 -> a [] OTHER -> b
        BY Zenon, <3>2, <4>1
      <4>3. call'.value \in CASE call'.length = 0 -> {<< >>} [] call'.length = 1 -> {a} [] OTHER -> {b} \union e
        BY <4>2
      <4> QED
        BY Zenon, <4>1, <4>3
    <3>4. /\ call'.length > 0 /\ p >= Len(d) => call'.raised
          /\ call'.raised => call'.length > 0 /\ Len(d) <= IF call'.length = 1 THEN p ELSE y
      <4>1. call'.length \in {0, 1, 2} /\ (call'.length = 2 => ~ (p >= Len(d)))
        BY <1>7, <2>4
      <4>2. p \in Nat /\ Len(d) \in Nat
        BY <1>7, <2>2, StartsNat
      <4>3. call'.raised <=> call'.length = 1 /\ p >= Len(d)
        BY Zenon, <3>2
      <4>4. CASE call'.length = 1 /\ p >= Len(d)
        BY <4>2, <4>3, <4>4
      <4>5. CASE ~ (call'.length = 1 /\ p >= Len(d))
        <5>1. ~ (call'.length > 0 /\ p >= Len(d))
          BY <4>1, <4>2, <4>5
        <5> QED
          BY Zenon, <4>3, <4>5, <5>1
      <4> QED
        BY <4>4, <4>5
    <3>5. P!Leaves([P!Noted(z, call'.length > 0) EXCEPT
                      !.rpos = CASE call'.length = 0 -> p [] call'.length = 1 -> y [] OTHER -> P!After(d, y)], d)
      BY Zenon, <1>2, <1>6, <1>17, <3>2
    <3>6. P!LineIn(z)
      BY Zenon, <1>3, <1>8, <1>9, <2>1, <2>2, <3>1, <3>3, <3>4, <3>5 DEF P!LineIn
    <3> QED
      BY <1>18, <3>6
  <2> QED
    BY <2>3, <2>4
<1>13. CASE Seeks(s, i) /\ starts = {} /\ c.value = << >> /\ c.raised = TRUE /\ q = s.file[i].rpos
  <2>1. z.positions
    BY <1>13, <1>17 DEF Seeks
  <2>2. P!Leaves([z EXCEPT !.failed = TRUE], d)
    BY Zenon, <1>2, <1>6, <1>13, <1>17
  <2>3. call'.value = << >> /\ call'.raised /\ starts = {}
    BY <1>7, <1>8, <1>13
  <2>4. P!LineIn(z)
    BY Zenon, <1>3, <1>8, <1>9, <2>1, <2>2, <2>3 DEF P!LineIn
  <2> QED
    BY <1>18, <2>4
<1> QED
  BY <1>11, <1>12, <1>13 DEF LineInMay

CharsRead(d, p, c, q) ==
  LET t == SubSeq(d, p + 1, P!Min({p + c.length, Len(d)}))
  IN  c.value = t /\ c.raised = (Len(t) < c.length) /\ q = p + Len(t)
CharInMay(s, i, c, d, p, q) ==
  \/ ~ Seeks(s, i) /\ q = s.file[i].rpos
  \/ Seeks(s, i) /\ CharsRead(d, p, c, q)
CharStart(start, rpos) == IF start = P!NONE THEN rpos ELSE start - 1
LEMMA CharInAre ==
  ASSUME TableSound(Names, Calling, {}), DataIs, NEW s, NEW i, NEW n, Reached(s, i, n, "r"),
         NEW w, Moves(s, w, i), w.data = s.data, w.file[i].wpos = s.file[i].wpos,
         NEW q, w.file[i].rpos = q, NEW x, Failed(w, i) = x,
         NEW c, Become(w, c), c.handle = i, c.name = n, c.what = "CHARIN", c.raised = x,
         c.length \in Nat, c.start \in Nat,
         NEW d, d = s.data[n],
         NEW p, p = CharStart(c.start, s.file[i].rpos), CharInMay(s, i, c, d, p, q)
  PROVE  Meets
<1>1. d = data[n] /\ i \in Named(s)
  BY ReachedText, ReachedIs
<1>2. P!Leaves(StreamOf(w, i), d) /\ Like(s, w, i) /\ Seekable(Calling') /\ DataIs'
  BY MovedAre
<1>3. P!This("r") = StreamOf(s, i) /\ P!MayOpen("r")
  BY CallIs
<1>4. PICK o : o = StreamOf(s, i)
  OBVIOUS
<1>5. o.name = n /\ o.rpos = s.file[i].rpos /\ o.positions = Seeks(s, i)
  BY <1>4, StreamSees
<1>6. /\ StreamOf(w, i) = SetRead(o, q, x)
      /\ q = s.file[i].rpos => StreamOf(w, i) = SetFailed(o, x)
  BY <1>1, <1>2, <1>4, StreamChange
<1>7. call' = c
  BY DEF Become
<1>8. call'.raised = x /\ call'.what = "CHARIN"
  BY <1>7
<1>10. P!This("r") = o
  BY <1>3, <1>4
<1>14. PICK z : z = Cleared(o, c.length)
  OBVIOUS
<1>15. x \in BOOLEAN
  <2>1. Failed(w, i) \in BOOLEAN
    BY DEF Failed
  <2> QED
    BY Zenon, <2>1
<1>16. NotedAs(o, z, c.length, q, x)
  BY <1>4, <1>7, <1>14, <1>15, NotedIs
<1>17. /\ P!Noted(z, call'.length > 0) = SetFailed(o, x)
       /\ [P!Noted(z, call'.length > 0) EXCEPT !.rpos = q] = SetRead(o, q, x)
       /\ z.name = n /\ z.rpos = s.file[i].rpos /\ z.positions = Seeks(s, i)
  BY Zenon, <1>5, <1>7, <1>16 DEF NotedAs
<1>9. d = data[z.name] /\ p = IF call'.start = P!NONE THEN z.rpos ELSE call'.start - 1
  BY Zenon, <1>1, <1>7, <1>17 DEF CharStart
<1>18. ASSUME P!CharIn(z) PROVE Meets
  <2>1. P!Next \/ Departs
    BY <1>7, <1>10, <1>14, <1>18, ReadyMeets
  <2> QED
    BY <1>2, <2>1 DEF Meets
<1>11. CASE ~ Seeks(s, i) /\ q = s.file[i].rpos
  <2>1. ~ z.positions
    BY <1>11, <1>17 DEF Seeks
  <2>2. P!Leaves(P!Noted(z, call'.length > 0), d)
    BY Zenon, <1>2, <1>6, <1>11, <1>17
  <2>3. P!CharIn(z)
    BY Zenon, <1>3, <1>8, <1>9, <2>1, <2>2 DEF P!CharIn
  <2> QED
    BY <1>18, <2>3
<1>12. CASE Seeks(s, i) /\ CharsRead(d, p, c, q)
  <2>1. z.positions /\ o.positions
    BY <1>5, <1>12, <1>17 DEF Seeks
  <2>2. CharsRead(d, p, call', q)
    BY <1>7, <1>12
  <2>3. PICK t : t = SubSeq(d, p + 1, P!Min({p + call'.length, Len(d)}))
    OBVIOUS
  <2>4. call'.value = t /\ call'.raised = (Len(t) < call'.length) /\ q = p + Len(t)
    BY Zenon, <2>2, <2>3 DEF CharsRead
  <2>5. PICK beyond : beyond = P!Beyond(d)
    OBVIOUS
  <2>6. d \in Seq(Chars) /\ Len(d) \in Nat
    <3>1. d \in Seq(Chars)
      BY ReachedStream
    <3> QED
      BY <3>1, LenProperties
  <2>7. beyond => call'.start # P!NONE /\ p = c.start - 1 /\ p > Len(d) /\ p \in Nat
    <3>1. beyond => call'.start # P!NONE /\ call'.start - 1 > Len(d)
      BY <2>5 DEF P!Beyond
    <3>2. beyond => p = c.start - 1
      BY <1>7, <1>9, <3>1
    <3> QED
      BY <1>7, <2>6, <3>1, <3>2 DEF P!NONE
  <2>8. beyond => t = << >> /\ Len(t) = 0
    <3>1. SUFFICES ASSUME beyond PROVE t = << >>
      OBVIOUS
    <3>2. p \in Nat /\ p > Len(d)
      BY <2>7, <3>1
    <3>3. p + call'.length \in Nat /\ p + call'.length > Len(d)
      BY <1>7, <2>6, <3>2
    <3>4. P!Min({p + call'.length, Len(d)}) = Len(d)
      <4>1. PICK m \in Nat : m = p + call'.length /\ m > Len(d)
        BY <3>3
      <4>2. P!Min({m, Len(d)}) = Min({m, Len(d)})
        BY MinIs
      <4>3. Min({m, Len(d)}) = IF m <= Len(d) THEN m ELSE Len(d)
        BY <2>6, <4>1, LesserOf
      <4> QED
        BY <2>6, <4>1, <4>2, <4>3
    <3>5. t = SubSeq(d, p + 1, Len(d))
      BY Zenon, <2>3, <3>4
    <3> QED
      BY <2>6, <3>2, <3>5
  <2>9. CASE beyond /\ c.length = 0
    <3>1. t = << >> /\ Len(t) = 0 /\ q = p /\ p = call'.start - 1
      BY <1>7, <2>4, <2>7, <2>8, <2>9
    <3>2. call'.value = << >> /\ ~ call'.raised /\ x = FALSE
      <4>1. call'.value = << >>
        BY <2>4, <3>1
      <4>2. call'.raised = FALSE
        <5>1. (0 < 0) = FALSE
          OBVIOUS
        <5>2. Len(t) = 0 /\ call'.length = 0
          BY <1>7, <2>9, <3>1
        <5> QED
          BY Zenon, <2>4, <5>1, <5>2
      <4> QED
        BY Zenon, <1>8, <4>1, <4>2
    <3>3. P!Leaves([o EXCEPT !.rpos = call'.start - 1, !.failed = FALSE], d)
      BY Zenon, <1>2, <1>6, <3>1, <3>2 DEF SetRead
    <3>4. d = data[o.name] /\ P!Beyond(d) /\ call'.length = 0
      BY <1>1, <1>5, <1>7, <2>5, <2>9
    <3>5. MissesEnd
      BY Zenon, <1>3, <1>8, <1>10, <2>1, <3>2, <3>3, <3>4 DEF MissesEnd
    <3> QED
      BY <1>2, <3>5 DEF Meets, Departs
  <2>10. CASE ~ (beyond /\ c.length = 0)
    <3>1. call'.raised = (Len(t) < call'.length \/ P!Beyond(d))
      <4>1. beyond => Len(t) < call'.length
        BY <1>7, <2>8, <2>10
      <4> QED
        BY <2>4, <2>5, <4>1
    <3>2. P!Leaves([P!Noted(z, call'.length > 0) EXCEPT !.rpos = p + Len(t)], d)
      BY Zenon, <1>2, <1>6, <1>17, <2>4
    <3>3. P!CharIn(z)
      BY Zenon, <1>3, <1>8, <1>9, <2>1, <2>3, <2>4, <3>1, <3>2 DEF P!CharIn
    <3> QED
      BY <1>18, <3>3
  <2> QED
    BY <2>9, <2>10
<1> QED
  BY <1>11, <1>12 DEF CharInMay

LEMMA RaisedIs ==
  ASSUME NEW t, NEW w, NEW i, NEW b \in BOOLEAN, ~ Failed(t, i),
         b => Failed(w, i), ~ b => Failed(w, i) = Failed(t, i)
  PROVE  Failed(w, i) = b
  BY DEF Failed

AtIs(s, i, func, start, rpos, starts, off) ==
  \/ ~ Seeks(s, i) /\ off = rpos
  \/ Seeks(s, i) /\ func = "LINEIN" /\ off \in Nat /\ off \in starts
  \/ Seeks(s, i) /\ func = "LINEIN" /\ off = -1 /\ starts = {}
  \/ Seeks(s, i) /\ func = "CHARIN" /\ off \in Nat /\ off = CharStart(start, rpos)
LEMMA ReadAtDoes ==
  ASSUME NEW s, NEW i, NEW n, NEW mode, Reached(s, i, n, mode), NEW func \in {"LINEIN", "CHARIN"},
         NEW start \in Nat, NEW at, at = ReadAt(s, i, func, start), NEW rpos, rpos = s.file[i].rpos,
         NEW starts, starts = LineStarts(s.data[n], start, rpos)
  PROVE  /\ Kept(s, at.s) /\ at.s.data = s.data /\ at.s.file = s.file /\ rpos \in Nat
         /\ AtIs(s, i, func, start, rpos, starts, at.off)
<1>1. TableSound(Names, s, {}) /\ i \in Named(s) /\ i \in DOMAIN s.file
  BY ReachedIs, Live
<1>2. rpos \in Nat
  BY <1>1, Parts
<1>3. Kept(s, s)
  BY <1>1, KeptSelf
<1>4. P!NONE = 0 /\ LSTARTPOS = 0
  BY DEF P!NONE, LSTARTPOS
<1>5. CASE start = LSTARTPOS \/ ~ Seeks(s, i)
  <2>1. at.s = s /\ at.off = rpos
    BY <1>5 DEF ReadAt
  <2>2. starts = {rpos} \/ start # P!NONE
    BY DEF LineStarts
  <2>3. Kept(s, at.s) /\ at.s.data = s.data /\ at.s.file = s.file
    BY <1>3, <2>1
  <2>4. CASE ~ Seeks(s, i)
    BY <1>2, <2>1, <2>3, <2>4 DEF AtIs
  <2>5. CASE Seeks(s, i) /\ start = 0
    BY <1>2, <1>4, <2>1, <2>2, <2>3, <2>5 DEF AtIs, CharStart
  <2> QED
    BY <1>4, <1>5, <2>4, <2>5
<1>6. CASE start # LSTARTPOS /\ Seeks(s, i) /\ func = "CHARIN"
  <2>1. at.s = s /\ at.off = start - 1
    BY <1>6 DEF ReadAt
  <2>2. Kept(s, at.s) /\ at.s.data = s.data /\ at.s.file = s.file
    BY <1>3, <2>1
  <2>3. at.off \in Nat
    BY <1>4, <1>6, <2>1
  <2> QED
    BY <1>2, <1>4, <1>6, <2>1, <2>2, <2>3 DEF AtIs, CharStart
<1>7. CASE start # LSTARTPOS /\ Seeks(s, i) /\ func = "LINEIN"
  <2>1. at = line_offset(s, i, start) /\ starts = P!LineAt(s.data[n], start)
    BY <1>4, <1>7 DEF ReadAt, LineStarts
  <2>2. PICK f : f = s.file[i].f
    OBVIOUS
  <2>3. s.fp[s.file[i].f].mode \notin {"w", "a"} /\ Content(s, s.file[i].f) = s.data[n]
    BY <1>7, <2>2, ReachedStream
  <2>4. start \in Nat \ {0}
    BY <1>4, <1>7
  <2>5. /\ Kept(s, line_offset(s, i, start).s) /\ line_offset(s, i, start).s.data = s.data
        /\ line_offset(s, i, start).s.file = s.file
        /\ \/ /\ line_offset(s, i, start).off \in Nat
              /\ line_offset(s, i, start).off \in P!LineAt(Content(s, s.file[i].f), start)
           \/ line_offset(s, i, start).off = -1 /\ P!LineAt(Content(s, s.file[i].f), start) = {}
    BY <1>1, <2>3, <2>4, LineOffsetDoes
  <2>6. /\ Kept(s, at.s) /\ at.s.data = s.data /\ at.s.file = s.file
        /\ (at.off \in Nat /\ at.off \in starts) \/ (at.off = -1 /\ starts = {})
    BY Zenon, <2>1, <2>3, <2>5
  <2> QED
    BY <1>2, <1>7, <2>6 DEF AtIs
<1> QED
  BY <1>5, <1>6, <1>7

NoLine(got, f, length) == length > 0 /\ got.text = << >> /\ got.s.fp[f].eof
NoChar(got, length) == Len(got.text) < length
Prepared(a, i, off) == prep_read([a EXCEPT !.file[i].rpos = off], i)
LEMMA ShortIs ==
  ASSUME NEW got, NEW f, NEW length
  PROVE  NoLine(got, f, length) \in BOOLEAN /\ NoChar(got, length) \in BOOLEAN
  BY DEF NoLine, NoChar

LineRuns(s, i, f, off, p, d, length, got, c, q) ==
  /\ off \in Nat /\ Readied(s, i, f, off, p) /\ Seeks(s, i) /\ d = Content(p, f) /\ length \in {0, 1, 2}
  /\ got = Input(p, f, "LINEIN", length) /\ c.length = length /\ c.value = got.text
  /\ c.raised = NoLine(got, f, length) /\ q = got.s.fp[f].pos
LEMMA LineInputIs ==
  ASSUME NEW s, NEW i, NEW f, NEW off, NEW p, NEW d, NEW length, NEW got, NEW c, NEW q,
         LineRuns(s, i, f, off, p, d, length, got, c, q)
  PROVE  LinesRead(d, off, c, q)
<1>9. /\ off \in Nat /\ Readied(s, i, f, off, p) /\ Seeks(s, i) /\ d = Content(p, f) /\ length \in {0, 1, 2}
      /\ got = Input(p, f, "LINEIN", length) /\ c.length = length /\ c.value = got.text
      /\ c.raised = NoLine(got, f, length) /\ q = got.s.fp[f].pos
  BY Zenon DEF LineRuns
<1>1. /\ TableSound(Names, p, {}) /\ f \in DOMAIN p.fp /\ ~ p.fp[f].eof
      /\ p.fp[f].pos = off /\ p.fp[f].mode \notin {"w", "a"}
  BY <1>9 DEF Readied
<1> DEFINE x == P!After(d, off)
<1>2. CASE length = 0
  <2>1. got.s = p /\ got.text = << >>
    BY <1>9, <1>2 DEF Input
  <2>2. q = off /\ c.value = << >> /\ c.raised = FALSE
    BY <1>9, <1>1, <1>2, <2>1 DEF NoLine
  <2>3. c.raised = (c.length = 1 /\ off >= Len(d))
    <3>1. c.length # 1
      BY <1>9, <1>2
    <3> QED
      BY <1>9, <2>2, <3>1
  <2>4. c.length = 0
    BY <1>9, <1>2
  <2> QED
    BY <1>9, <2>2, <2>3, <2>4 DEF LinesRead
<1>3. CASE length = 1
  <2>1. got = Llinein(p, f, 1)
    BY <1>9, <1>3 DEF Input
  <2>2. /\ Llinein(p, f, 1).s.fp[f].pos = P!After(Content(p, f), p.fp[f].pos)
        /\ Llinein(p, f, 1).text = P!OneLine(Content(p, f), p.fp[f].pos)
        /\ ~ p.fp[f].eof => (Llinein(p, f, 1).text = << >> /\ Llinein(p, f, 1).s.fp[f].eof <=> p.fp[f].pos >= Len(Content(p, f)))
    BY <1>9, <1>1, LineinOne
  <2>3. /\ q = x /\ got.text = P!OneLine(d, off)
        /\ (got.text = << >> /\ got.s.fp[f].eof <=> off >= Len(d))
    BY <1>9, <1>1, <2>1, <2>2
  <2>4. c.raised = (c.length = 1 /\ off >= Len(d))
    <3>1. length > 0 /\ c.length = 1
      BY <1>9, <1>3
    <3> HIDE DEF x
    <3> QED
      BY <1>9, <2>3, <3>1 DEF NoLine
  <2>5. c.length = 1 /\ c.length # 0 /\ c.value = P!OneLine(d, off)
    BY <1>9, <1>3, <2>3
  <2> QED
    BY Zenon, <1>9, <2>3, <2>4, <2>5 DEF LinesRead
<1>4. CASE length = 2
  <2>1. got = Llinein(p, f, 2)
    BY <1>9, <1>4 DEF Input
  <2>2. PICK y : y = P!After(d, off)
    OBVIOUS
  <2>3. /\ q = P!After(d, x) /\ got.text = P!OneLine(d, off) \o <<LF>> \o P!OneLine(d, x) /\ got.text # << >>
    <3>1. got.s.fp[f].pos = P!After(d, y) /\ got.text = TwoLines(d, off, y) /\ got.text # << >>
      BY <1>9, <1>1, <2>1, <2>2, LineinTwo
    <3> QED
      BY Zenon, <1>9, <2>2, <3>1 DEF TwoLines
  <2>4. c.raised = (c.length = 1 /\ off >= Len(d))
    <3>1. c.length # 1
      BY <1>9, <1>4
    <3> HIDE DEF x
    <3> QED
      BY <1>9, <2>3, <3>1 DEF NoLine
  <2>5. c.length # 1 /\ c.length # 0
    BY <1>9, <1>4
  <2>6. P!LF = LF
    BY <1>9 DEF LF
  <2> QED
    BY Zenon, <1>9, <2>3, <2>4, <2>5, <2>6 DEF LinesRead
<1> QED
  BY <1>9, <1>2, <1>3, <1>4

LEMMA ReadGives ==
  ASSUME NEW N, NEW s, TableSound(N, s, {}), NEW f \in DOMAIN s.fp, NEW n \in Int,
         s.fp[f].mode \notin {"w", "a"}, NEW got, got = fread(s, f, n)
  PROVE  got.text = Next_n(s, f, n) /\ got.s.fp[f].pos = s.fp[f].pos + Len(got.text)
  BY ReadDoes

LEMMA CharInputIs ==
  ASSUME NEW s, NEW i, NEW f, NEW off \in Nat, NEW p, Readied(s, i, f, off, p), Seeks(s, i),
         NEW d, d = Content(p, f), d \in Seq(Chars), NEW length \in Nat, NEW got, got = Input(p, f, "CHARIN", length),
         NEW c, c.length = length, c.value = got.text, c.raised = NoChar(got, length),
         NEW q, q = got.s.fp[f].pos
  PROVE  CharsRead(d, off, c, q)
<1>1. /\ TableSound(Names, p, {}) /\ f \in DOMAIN p.fp
      /\ p.fp[f].pos = off /\ p.fp[f].mode \notin {"w", "a"}
  BY DEF Readied
<1>2. PICK e : e = Min({off + length, Len(d)})
  OBVIOUS
<1>3. P!Min({off + length, Len(d)}) = e
  BY <1>2, MinIs
<1>4. got.text = SubSeq(d, off + 1, e) /\ q = off + Len(got.text)
  <2>1. CASE length = 0
    <3>1. got.s = p /\ got.text = << >>
      BY <2>1 DEF Input
    <3>2. Len(d) \in Nat
      BY LenProperties
    <3>3. e \in Nat /\ e <= off
      BY <1>2, <2>1, <3>2, LesserOf
    <3>4. SubSeq(d, off + 1, e) = << >>
      BY <3>3
    <3>5. got.text = SubSeq(d, off + 1, e) /\ Len(got.text) = 0
      BY <3>1, <3>4
    <3>6. q = off
      BY <1>1, <3>1
    <3> QED
      BY <3>5, <3>6
  <2>2. CASE length # 0
    <3>1. got = fread(p, f, length) /\ length \in Int
      BY <2>2 DEF Input
    <3>2. got.text = Next_n(p, f, length) /\ q = p.fp[f].pos + Len(got.text)
      BY <1>1, <3>1, ReadGives
    <3>3. Next_n(p, f, length) = SubSeq(d, off + 1, e)
      BY Zenon, <1>1, <1>2 DEF Next_n
    <3> QED
      BY <1>1, <3>2, <3>3
  <2> QED
    BY <2>1, <2>2
<1>5. PICK t : t = SubSeq(d, off + 1, e)
  OBVIOUS
<1>6. t = SubSeq(d, off + 1, P!Min({off + c.length, Len(d)}))
  BY Zenon, <1>3, <1>5
<1>7. c.value = t /\ c.raised = (Len(t) < c.length) /\ q = off + Len(t)
  BY <1>4, <1>5 DEF NoChar
<1> QED
  BY Zenon, <1>6, <1>7 DEF CharsRead

Read(s, i, f, off, got, c, w) ==
  /\ Become(w, c) /\ Moves(s, w, i) /\ w.data = s.data /\ w.file[i].wpos = s.file[i].wpos
  /\ Failed(w, i) = c.raised /\ w.file[i].rpos = IF Seeks(s, i) THEN got.s.fp[f].pos ELSE off
ReadDone(s, i, n, f, off, p, got, c) ==
  /\ Readied(s, i, f, off, p) /\ Content(p, f) = s.data[n]
  /\ \E w : Read(s, i, f, off, got, c, w)
Reads(s, i, n, mode, f, a, off, p, func, length, got, c) ==
  /\ Reached(s, i, n, mode) /\ f = s.file[i].f /\ Kept(s, a) /\ a.data = s.data /\ a.file = s.file
  /\ off \in Nat /\ p = Prepared(a, i, off) /\ length \in Nat /\ got = Input(p, f, func, length)
  /\ c.raised \in BOOLEAN /\ Outcome(done_read(got.s, i), i, c)
LEMMA ReadOutcome ==
  ASSUME NEW s, NEW i, NEW n, NEW mode, NEW f, NEW a, NEW off, NEW p, NEW func, NEW length, NEW got, NEW c,
         Reads(s, i, n, mode, f, a, off, p, func, length, got, c)
  PROVE  ReadDone(s, i, n, f, off, p, got, c)
<1>12. /\ Reached(s, i, n, mode) /\ f = s.file[i].f /\ Kept(s, a) /\ a.data = s.data /\ a.file = s.file
       /\ off \in Nat /\ p = Prepared(a, i, off) /\ length \in Nat /\ got = Input(p, f, func, length)
       /\ c.raised \in BOOLEAN /\ Outcome(done_read(got.s, i), i, c)
  BY Zenon DEF Reads
<1>1. TableSound(Names, s, {}) /\ i \in Named(s)
  BY <1>12, ReachedIs
<1>2. Readied(s, i, f, off, p) /\ Content(p, f) = s.data[n]
  <2>1. p = prep_read([a EXCEPT !.file[i].rpos = off], i)
    BY <1>12 DEF Prepared
  <2> QED
    BY <1>12, <2>1, ReadRuns
<1>3. TableSound(Names, p, {}) /\ f \in DOMAIN p.fp
  BY <1>2 DEF Readied
<1>4. PICK g, t : g = got.s /\ t = done_read(g, i)
  BY Zenon
<1>5. Kept(p, g) /\ g.data = p.data /\ g.file = p.file
  BY <1>3, <1>4, <1>12, InputOnly
<1>6. /\ Moves(s, t, i) /\ t.data = s.data /\ ~ Failed(t, i) /\ t.file[i].wpos = s.file[i].wpos
      /\ t.file[i].rpos = IF Seeks(s, i) THEN g.fp[f].pos ELSE off
  <2>1. PICK q : q = IF Seeks(s, i) THEN g.fp[f].pos ELSE off
    OBVIOUS
  <2>2. Ended(s, t, i, q)
    BY <1>1, <1>2, <1>4, <1>5, <1>12, <2>1, ReadEnds
  <2> QED
    BY <2>1, <2>2 DEF Ended
<1>7. Outcome(t, i, c)
  BY Zenon, <1>4, <1>12
<1>8. PICK w : /\ Become(w, c) /\ Moves(s, w, i) /\ w.data = t.data
               /\ w.file[i].rpos = t.file[i].rpos /\ w.file[i].wpos = t.file[i].wpos
               /\ (c.raised => Failed(w, i)) /\ (~ c.raised => Failed(w, i) = Failed(t, i))
  <2>1. PICK w : Turned(s, t, i, c, w)
    BY <1>1, <1>6, <1>7, OutcomeIs
  <2> QED
    BY <2>1 DEF Turned
<1>9. PICK b \in BOOLEAN : b = c.raised
  BY <1>12
<1>10. Failed(w, i) = c.raised
  BY <1>6, <1>8, <1>9, RaisedIs
<1>11. w.data = s.data /\ w.file[i].wpos = s.file[i].wpos
       /\ w.file[i].rpos = IF Seeks(s, i) THEN got.s.fp[f].pos ELSE off
  BY <1>4, <1>6, <1>8
<1> QED
  <2>1. \E v : Read(s, i, f, off, got, c, v)
    BY <1>8, <1>10, <1>11 DEF Read
  <2> QED
    BY <1>2, <2>1 DEF ReadDone

LineGot(s, i, at, got, f, length, c) ==
  \/ at.off < 0 /\ c.value = << >> /\ c.raised = TRUE /\ Outcome(at.s, i, c)
  \/ /\ at.off >= 0 /\ c.value = got.text /\ c.raised = NoLine(got, f, length)
     /\ Outcome(done_read(got.s, i), i, c)
CharGot(s, i, at, got, length, c) ==
  \/ at.off < 0
  \/ /\ at.off >= 0 /\ c.value = got.text /\ c.raised = NoChar(got, length)
     /\ Outcome(done_read(got.s, i), i, c)
LineInCall(s, i, n, f, start, length, at, p, got, c) ==
  /\ Reached(s, i, n, "r") /\ f = s.file[i].f /\ start \in Nat /\ length \in {0, 1, 2}
  /\ at = ReadAt(s, i, "LINEIN", start) /\ p = Prepared(at.s, i, at.off) /\ got = Input(p, f, "LINEIN", length)
  /\ c.handle = i /\ c.name = n /\ c.what = "LINEIN" /\ c.start = start /\ c.length = length
  /\ LineGot(s, i, at, got, f, length, c)
LEMMA LineInOf ==
  ASSUME TableSound(Names, Calling, {}), DataIs, NEW s, NEW i, NEW n, NEW f, NEW start, NEW length,
         NEW at, NEW p, NEW got, NEW c, LineInCall(s, i, n, f, start, length, at, p, got, c)
  PROVE  Meets
<1>20. /\ Reached(s, i, n, "r") /\ f = s.file[i].f /\ start \in Nat /\ length \in {0, 1, 2}
       /\ at = ReadAt(s, i, "LINEIN", start) /\ p = Prepared(at.s, i, at.off) /\ got = Input(p, f, "LINEIN", length)
       /\ c.handle = i /\ c.name = n /\ c.what = "LINEIN" /\ c.start = start /\ c.length = length
       /\ LineGot(s, i, at, got, f, length, c)
  BY Zenon DEF LineInCall
<1> USE <1>20
<1>1. TableSound(Names, s, {}) /\ i \in Named(s)
  BY ReachedIs
<1>2. PICK d, rpos, starts : d = s.data[n] /\ rpos = s.file[i].rpos /\ starts = LineStarts(d, start, rpos)
  BY Zenon
<1>3. /\ Kept(s, at.s) /\ at.s.data = s.data /\ at.s.file = s.file /\ rpos \in Nat
      /\ \/ ~ Seeks(s, i) /\ at.off = rpos
         \/ Seeks(s, i) /\ at.off \in Nat /\ at.off \in starts
         \/ Seeks(s, i) /\ at.off = -1 /\ starts = {}
  <2>1. PICK func \in {"LINEIN", "CHARIN"} : func = "LINEIN"
    OBVIOUS
  <2>2. at = ReadAt(s, i, func, start) /\ starts = LineStarts(s.data[n], start, rpos) /\ rpos = s.file[i].rpos
    BY Zenon, <1>2, <2>1
  <2>3. Kept(s, at.s) /\ at.s.data = s.data /\ at.s.file = s.file /\ rpos \in Nat /\ AtIs(s, i, func, start, rpos, starts, at.off)
    BY <2>2, ReadAtDoes
  <2> QED
    BY Zenon, <2>1, <2>3 DEF AtIs
<1>4. starts = LineStarts(d, c.start, s.file[i].rpos)
  BY <1>2
<1>5. CASE at.off < 0 /\ c.value = << >> /\ c.raised = TRUE /\ Outcome(at.s, i, c)
  <2>1. Seeks(s, i) /\ starts = {}
    <3>1. at.off # rpos /\ at.off \notin Nat
      BY <1>3, <1>5
    <3> QED
      BY Zenon, <1>3, <3>1
  <2>2. PICK t : t = at.s
    OBVIOUS
  <2>3. Moves(s, t, i) /\ t.data = s.data /\ t.file = s.file /\ Outcome(t, i, c)
    BY <1>3, <1>5, <2>2, SameTableMoves
  <2>4. PICK w : /\ Become(w, c) /\ Moves(s, w, i) /\ w.data = t.data
                 /\ w.file[i].rpos = t.file[i].rpos /\ w.file[i].wpos = t.file[i].wpos
                 /\ (c.raised => Failed(w, i)) /\ (~ c.raised => Failed(w, i) = Failed(t, i))
    <3>1. PICK w : Turned(s, t, i, c, w)
      BY <1>1, <2>3, OutcomeIs
    <3> QED
      BY <3>1 DEF Turned
  <2>5. Failed(w, i) = TRUE
    BY <1>5, <2>4 DEF Failed
  <2>6. PICK x, q : x = Failed(w, i) /\ x = TRUE /\ x = c.raised /\ q = w.file[i].rpos /\ q = s.file[i].rpos
    BY <1>5, <2>3, <2>4, <2>5
  <2>7. w.data = s.data /\ w.file[i].wpos = s.file[i].wpos
    BY <2>3, <2>4
  <2> QED
    <3>1. LineInMay(s, i, c, d, starts, q)
      BY <1>5, <2>1, <2>6 DEF LineInMay
    <3> QED
      BY <1>2, <1>4, <2>4, <2>6, <2>7, <3>1, LineInAre
<1>6. CASE /\ at.off >= 0 /\ c.value = got.text
           /\ c.raised = NoLine(got, f, length)
           /\ Outcome(done_read(got.s, i), i, c)
  <2>1. PICK a : a = at.s
    OBVIOUS
  <2>9. at.off \in Nat /\ ((~ Seeks(s, i) /\ at.off = rpos) \/ (Seeks(s, i) /\ at.off \in starts))
    <3>1. at.off # -1
      BY <1>6
    <3>2. rpos \in Nat
      BY <1>3
    <3> QED
      BY Zenon, <1>3, <3>1, <3>2
  <2>10. PICK off \in Nat : off = at.off
    BY <2>9
  <2>2. Kept(s, a) /\ a.data = s.data /\ a.file = s.file /\ p = Prepared(a, i, off)
    BY Zenon, <1>3, <2>1, <2>10
  <2>3. c.raised \in BOOLEAN
    <3>1. NoLine(got, f, length) \in BOOLEAN
      BY ShortIs
    <3> QED
      BY Zenon, <1>6, <3>1
  <2>11. length \in Nat
    OBVIOUS
  <2>12. PICK func : func = "LINEIN"
    OBVIOUS
  <2>13. got = Input(p, f, func, length)
    BY Zenon, <2>12
  <2>14. Outcome(done_read(got.s, i), i, c)
    BY Zenon, <1>6
  <2>4. /\ Readied(s, i, f, off, p) /\ Content(p, f) = s.data[n]
        /\ \E w : Read(s, i, f, off, got, c, w)
    <3>1. PICK mode : mode = "r"
      OBVIOUS
    <3>2. Reached(s, i, n, mode)
      BY Zenon, <3>1
    <3>3. ReadDone(s, i, n, f, off, p, got, c)
      <4>1. Reads(s, i, n, mode, f, a, off, p, func, length, got, c)
        BY Zenon, <2>2, <2>3, <2>11, <2>13, <2>14, <3>2 DEF Reads
      <4> QED
        BY <4>1, ReadOutcome
    <3> QED
      BY Zenon, <3>3 DEF ReadDone
  <2>5. PICK w : /\ Become(w, c) /\ Moves(s, w, i) /\ w.data = s.data /\ w.file[i].wpos = s.file[i].wpos
                 /\ Failed(w, i) = c.raised /\ w.file[i].rpos = IF Seeks(s, i) THEN got.s.fp[f].pos ELSE off
    BY <2>4 DEF Read
  <2>6. PICK x, q : x = Failed(w, i) /\ x = c.raised /\ q = w.file[i].rpos
    BY <2>5
  <2>7. CASE ~ Seeks(s, i)
    <3>1. q = s.file[i].rpos
      BY <1>2, <2>9, <2>10, <2>5, <2>6, <2>7
    <3> QED
      <4>1. LineInMay(s, i, c, d, starts, q)
        BY <2>7, <3>1 DEF LineInMay
      <4> QED
        BY <1>2, <1>4, <2>5, <2>6, <4>1, LineInAre
  <2>8. CASE Seeks(s, i)
    <3>1. q = got.s.fp[f].pos
      BY <2>5, <2>6, <2>8
    <3>2. d = Content(p, f)
      BY <1>2, <2>4
    <3>3. LinesRead(d, off, c, q)
      <4>1. Readied(s, i, f, off, p)
        BY <2>4
      <4>2. c.value = got.text /\ c.raised = NoLine(got, f, length)
        BY Zenon, <1>6
      <4> QED
        <5>1. LineRuns(s, i, f, off, p, d, length, got, c, q)
          BY Zenon, <2>8, <2>10, <3>1, <3>2, <4>1, <4>2 DEF LineRuns
        <5> QED
          BY <5>1, LineInputIs
    <3>4. off \in starts
      BY Zenon, <2>8, <2>9, <2>10
    <3> QED
      <4>1. LineInMay(s, i, c, d, starts, q)
        BY <2>8, <3>3, <3>4 DEF LineInMay
      <4> QED
        BY <1>2, <1>4, <2>5, <2>6, <4>1, LineInAre
  <2> QED
    BY <2>7, <2>8
<1> QED
  BY Zenon, <1>5, <1>6 DEF LineGot

CharInCall(s, i, n, f, start, length, at, p, got, c) ==
  /\ Reached(s, i, n, "r") /\ f = s.file[i].f /\ start \in Nat /\ length \in Nat
  /\ at = ReadAt(s, i, "CHARIN", start) /\ p = Prepared(at.s, i, at.off) /\ got = Input(p, f, "CHARIN", length)
  /\ c.handle = i /\ c.name = n /\ c.what = "CHARIN" /\ c.start = start /\ c.length = length
  /\ CharGot(s, i, at, got, length, c)
LEMMA CharInOf ==
  ASSUME TableSound(Names, Calling, {}), DataIs, NEW s, NEW i, NEW n, NEW f, NEW start, NEW length,
         NEW at, NEW p, NEW got, NEW c, CharInCall(s, i, n, f, start, length, at, p, got, c)
  PROVE  Meets
<1>20. /\ Reached(s, i, n, "r") /\ f = s.file[i].f /\ start \in Nat /\ length \in Nat
       /\ at = ReadAt(s, i, "CHARIN", start) /\ p = Prepared(at.s, i, at.off) /\ got = Input(p, f, "CHARIN", length)
       /\ c.handle = i /\ c.name = n /\ c.what = "CHARIN" /\ c.start = start /\ c.length = length
       /\ CharGot(s, i, at, got, length, c)
  BY Zenon DEF CharInCall
<1> USE <1>20
<1>1. TableSound(Names, s, {}) /\ i \in Named(s)
  BY ReachedIs
<1>2. PICK d, rpos, starts, z : /\ d = s.data[n] /\ rpos = s.file[i].rpos /\ starts = LineStarts(d, start, rpos)
                                /\ z = CharStart(start, rpos)
  BY Zenon
<1>3. /\ Kept(s, at.s) /\ at.s.data = s.data /\ at.s.file = s.file /\ rpos \in Nat
      /\ \/ ~ Seeks(s, i) /\ at.off = rpos
         \/ Seeks(s, i) /\ at.off \in Nat /\ at.off = z
  <2>1. PICK func \in {"LINEIN", "CHARIN"} : func = "CHARIN"
    OBVIOUS
  <2>2. Kept(s, at.s) /\ at.s.data = s.data /\ at.s.file = s.file /\ rpos \in Nat /\ AtIs(s, i, func, start, rpos, starts, at.off)
    BY <1>2, <2>1, ReadAtDoes
  <2> QED
    BY <1>2, <2>1, <2>2 DEF AtIs, CharStart
<1>4. z = CharStart(c.start, s.file[i].rpos)
  BY <1>2
<1>5. /\ c.value = got.text /\ c.raised = NoChar(got, length) /\ Outcome(done_read(got.s, i), i, c)
  <2>1. ~ (at.off < 0)
    BY <1>3
  <2> QED
    BY Zenon, <2>1 DEF CharGot
<1>6. PICK a : a = at.s
  OBVIOUS
<1>14. PICK off \in Nat : off = at.off
  BY <1>3
<1>7. Kept(s, a) /\ a.data = s.data /\ a.file = s.file /\ p = Prepared(a, i, off)
  BY Zenon, <1>3, <1>6, <1>14
<1>8. c.raised \in BOOLEAN
  BY Zenon, <1>5, ShortIs
<1>15. PICK func : func = "CHARIN"
  OBVIOUS
<1>16. got = Input(p, f, func, length)
  BY Zenon, <1>15
<1>17. Outcome(done_read(got.s, i), i, c)
  BY <1>5
<1>9. /\ Readied(s, i, f, off, p) /\ Content(p, f) = s.data[n]
      /\ \E w : Read(s, i, f, off, got, c, w)
  <2>1. PICK mode : mode = "r"
    OBVIOUS
  <2>2. Reached(s, i, n, mode)
    BY Zenon, <2>1
  <2>3. ReadDone(s, i, n, f, off, p, got, c)
    <3>1. Reads(s, i, n, mode, f, a, off, p, func, length, got, c)
      BY Zenon, <1>7, <1>8, <1>16, <1>17, <2>2 DEF Reads
    <3> QED
      BY <3>1, ReadOutcome
  <2> QED
    BY Zenon, <2>3 DEF ReadDone
<1>10. PICK w : /\ Become(w, c) /\ Moves(s, w, i) /\ w.data = s.data /\ w.file[i].wpos = s.file[i].wpos
                /\ Failed(w, i) = c.raised /\ w.file[i].rpos = IF Seeks(s, i) THEN got.s.fp[f].pos ELSE off
  BY <1>9 DEF Read
<1>11. PICK x, q : x = Failed(w, i) /\ x = c.raised /\ q = w.file[i].rpos
  BY <1>10
<1>12. CASE ~ Seeks(s, i)
  <2>1. q = s.file[i].rpos
    BY <1>2, <1>3, <1>14, <1>10, <1>11, <1>12
  <2> QED
    <3>1. CharInMay(s, i, c, d, z, q)
      BY <1>12, <2>1 DEF CharInMay
    <3> QED
      BY <1>2, <1>4, <1>10, <1>11, <3>1, CharInAre
<1>13. CASE Seeks(s, i)
  <2>1. q = got.s.fp[f].pos
    BY <1>10, <1>11, <1>13
  <2>2. d = Content(p, f) /\ d \in Seq(Chars)
    BY <1>2, <1>9, ReachedStream
  <2>3. CharsRead(d, off, c, q)
    <3>1. Readied(s, i, f, off, p)
      BY <1>9
    <3>2. c.value = got.text /\ c.raised = NoChar(got, length)
      BY Zenon, <1>5
    <3> QED
      BY <1>13, <2>1, <2>2, <3>1, <3>2, CharInputIs
  <2>4. off = z
    BY <1>3, <1>14, <1>13
  <2> QED
    <3>1. CharInMay(s, i, c, d, z, q)
      BY <1>13, <2>3, <2>4 DEF CharInMay
    <3> QED
      BY <1>2, <1>4, <1>10, <1>11, <3>1, CharInAre
<1> QED
  BY <1>12, <1>13

(* LINEIN and CHARIN are steps of Streams.                                  *)
LEMMA CharLineInMeets ==
  ASSUME TableSound(Names, Calling, {}), Seekable(Calling), DataIs, Faults = {},
         NEW func \in {"LINEIN", "CHARIN"}, NEW r \in Uses, NEW start \in Nat, NEW length \in {0, 1, 2},
         R_charlinein(func, r, start, length)
  PROVE  Meets
<1> DEFINE C(u) == [About(u, r) EXCEPT !.what = func, !.start = start, !.length = length]
           D(u, v, x) == [C(u) EXCEPT !.value = v, !.raised = x]
           Short(u, got) == IF func = "CHARIN" THEN Len(got.text) < length
                            ELSE length > 0 /\ got.text = << >> /\ got.s.fp[u.s.file[u.i].f].eof
           Got(u, at) == Input(prep_read([at.s EXCEPT !.file[u.i].rpos = at.off], u.i), u.s.file[u.i].f, func, length)
<1>1. PICK u \in Used(r, "r") :
        \/ Fails(u, r)
        \/ /\ u.i >= 0
           /\ \E at \in {ReadAt(u.s, u.i, func, start)} :
                \/ at.off < 0 /\ Outcome(at.s, u.i, D(u, << >>, TRUE))
                \/ /\ at.off >= 0
                   /\ \E got \in {Got(u, at)} : Outcome(done_read(got.s, u.i), u.i, D(u, got.text, Short(u, got)))
  BY DEF R_charlinein
<1>2. \/ u.i < 0 /\ ~ (u.i >= 0) /\ Left(u.s)
      \/ u.i >= 0 /\ ~ (u.i < 0) /\ u.i \in Nat /\ \E n \in Names : NameOf(u.s, r) = n /\ Reached(u.s, u.i, n, "r")
  <2>1. Opens("r") /\ \A n : UseMode("r", n) = "r"
    BY DEF Opens, UseMode
  <2>2. u \in Used(r, "r")
    OBVIOUS
  <2> HIDE DEF C, D, Short, Got
  <2> QED
    BY <2>1, <2>2, UsedReaches
<1>3. CASE Fails(u, r)
  BY <1>2, <1>3, FailsMeets DEF Fails
<1>4. CASE ~ Fails(u, r)
  <2>1. PICK n \in Names : NameOf(u.s, r) = n /\ Reached(u.s, u.i, n, "r")
    BY <1>1, <1>2, <1>4
  <2>2. \A v, x : /\ D(u, v, x).handle = u.i /\ D(u, v, x).name = n /\ D(u, v, x).what = func
                  /\ D(u, v, x).start = start /\ D(u, v, x).length = length
                  /\ D(u, v, x).value = v /\ D(u, v, x).raised = x
    BY <2>1 DEF About, None
  <2> HIDE DEF C, D
  <2>3. PICK at : /\ at = ReadAt(u.s, u.i, func, start)
                  /\ \/ at.off < 0 /\ Outcome(at.s, u.i, D(u, << >>, TRUE))
                     \/ /\ at.off >= 0
                        /\ Outcome(done_read(Got(u, at).s, u.i), u.i, D(u, Got(u, at).text, Short(u, Got(u, at))))
    BY Zenon, <1>1, <1>4
  <2>4. PICK s, i, f, p, got : /\ s = u.s /\ i = u.i /\ f = s.file[i].f /\ p = Prepared(at.s, i, at.off)
                               /\ got = Input(p, f, func, length)
    BY Zenon
  <2>5. Got(u, at) = got
    BY Zenon, <2>4 DEF Prepared
  <2> HIDE DEF Got
  <2>6. PICK b : b = Short(u, got)
    OBVIOUS
  <2>7. PICK c : /\ \/ at.off < 0 /\ c = D(u, << >>, TRUE) /\ Outcome(at.s, i, c)
                    \/ at.off >= 0 /\ c = D(u, got.text, b) /\ Outcome(done_read(got.s, i), i, c)
    BY Zenon, <2>3, <2>4, <2>5, <2>6
  <2>8. /\ c.handle = i /\ c.name = n /\ c.what = func /\ c.start = start /\ c.length = length
        /\ \/ at.off < 0 /\ c.value = << >> /\ c.raised = TRUE /\ Outcome(at.s, i, c)
           \/ at.off >= 0 /\ c.value = got.text /\ c.raised = b /\ Outcome(done_read(got.s, i), i, c)
    <3>1. CASE at.off < 0 /\ c = D(u, << >>, TRUE) /\ Outcome(at.s, i, c)
      BY Zenon, <2>2, <2>4, <3>1
    <3>2. CASE at.off >= 0 /\ c = D(u, got.text, b) /\ Outcome(done_read(got.s, i), i, c)
      <4>1. PICK y : y = got.text /\ c = D(u, y, b)
        BY Zenon, <3>2
      <4>2. /\ c.handle = u.i /\ c.name = n /\ c.what = func /\ c.start = start /\ c.length = length
            /\ c.value = y /\ c.raised = b
        <5>1. PICK e : e = D(u, y, b) /\ c = e
          BY Zenon, <4>1
        <5>2. /\ e.handle = u.i /\ e.name = n /\ e.what = func /\ e.start = start /\ e.length = length
              /\ e.value = y /\ e.raised = b
          BY <2>2, <5>1
        <5> QED
          BY <5>1, <5>2
      <4>3. c.handle = i /\ c.value = got.text /\ Outcome(done_read(got.s, i), i, c)
        BY Zenon, <2>4, <3>2, <4>1, <4>2
      <4> QED
        BY Zenon, <3>2, <4>2, <4>3
    <3> QED
      BY Zenon, <2>7, <3>1, <3>2
  <2>9. Reached(s, i, n, "r") /\ at = ReadAt(s, i, func, start)
    BY Zenon, <2>1, <2>3, <2>4
  <2>10. CASE func = "LINEIN"
    <3>1. b = NoLine(got, f, length)
      BY Zenon, <2>4, <2>6, <2>10 DEF NoLine
    <3>2. LineGot(s, i, at, got, f, length, c)
      BY Zenon, <2>8, <3>1 DEF LineGot
    <3>3. LineInCall(s, i, n, f, start, length, at, p, got, c)
      BY Zenon, <2>4, <2>8, <2>9, <2>10, <3>2 DEF LineInCall
    <3> QED
      BY <3>3, LineInOf
  <2>11. CASE func = "CHARIN"
    <3>1. b = NoChar(got, length)
      BY Zenon, <2>6, <2>11 DEF NoChar
    <3>2. CharGot(s, i, at, got, length, c)
      BY Zenon, <2>8, <3>1 DEF CharGot
    <3>3. length \in Nat
      OBVIOUS
    <3>4. CharInCall(s, i, n, f, start, length, at, p, got, c)
      BY Zenon, <2>4, <2>8, <2>9, <2>11, <3>2, <3>3 DEF CharInCall
    <3> QED
      BY <3>4, CharInOf
  <2> QED
    BY <2>10, <2>11
<1> QED
  BY <1>3, <1>4

(* Where a stream is written that a call found or opened for it.            *)
LEMMA WrittenIs ==
  ASSUME TableSound(Names, Calling, {}), DataIs, NEW s, NEW i, NEW n, Reached(s, i, n, WriteMode(n)),
         NEW t, NEW c, Become(t, c), c.handle = i, c.name = n
  PROVE  /\ P!Written = StreamOf(s, i) /\ P!MayOpen("w") /\ P!Text(data[n]) = s.data[n]
<1>1. PICK mode : mode = WriteMode(n)
  OBVIOUS
<1>2. Reached(s, i, n, mode) /\ mode # "r"
  BY <1>1 DEF WriteMode
<1>3. P!This(mode) = StreamOf(s, i) /\ P!MayOpen("w") /\ call'.name = n
  BY <1>2, CallIs
<1>4. P!Absent = Absent
  BY DEF Absent
<1>5. P!Written = P!This(mode)
  BY Zenon, <1>1, <1>3, <1>4 DEF P!Written, WriteMode
<1>6. P!Text(data[n]) = s.data[n]
  <2>1. CASE i \in Named(Calling)
    <3>1. s.data[n] = data[n] /\ s.data[n] # Absent
      BY <1>2, <2>1 DEF Reached
    <3> QED
      BY <1>4, <3>1 DEF P!Text
  <2>2. CASE i \notin Named(Calling) /\ Truncates(mode)
    <3>1. s.data[n] = << >>
      BY <1>2, <2>2 DEF Reached
    <3>2. data[n] = Absent \/ n \in Sysout
      BY <1>1, <2>2 DEF WriteMode, Truncates
    <3>3. n \in Sysout => data[n] = << >>
      <4>1. n \in Names
        BY <1>2, ReachedIs
      <4>2. n \in DOMAIN Calling.data
        BY <4>1, StdNamesApart
      <4> QED
        BY <4>2 DEF TableSound, Typed, Calling
    <3> QED
      BY <1>4, <3>1, <3>2, <3>3 DEF P!Text
  <2>3. CASE i \notin Named(Calling) /\ ~ Truncates(mode)
    BY <1>2, <2>3 DEF Reached
  <2> QED
    BY <2>1, <2>2, <2>3
<1> QED
  BY <1>3, <1>5, <1>6

WriteStarts(func, start, d, wpos) ==
  IF start = P!NONE THEN {IF wpos = P!END THEN Len(d) ELSE wpos}
  ELSE IF func = "LINEOUT" THEN P!LineAt(d, start) ELSE {start - 1}
LEMMA StartsAre ==
  ASSUME NEW c, call' = c, NEW o, NEW d
  PROVE  P!Starts(o, d) = WriteStarts(c.what, c.start, d, o.wpos)
  BY Zenon DEF P!Starts, WriteStarts

(* What setting the write position does.                                    *)
Positioned(s, i, w, starts) ==
  /\ Moves(s, w.s, i) /\ w.s.data = s.data /\ w.s.file[i].rpos = s.file[i].rpos
  /\ Failed(w.s, i) = Failed(s, i)
  /\ \/ ~ Seeks(s, i) /\ w.ok = TRUE /\ w.s.file[i].wpos = s.file[i].wpos
     \/ Seeks(s, i) /\ w.ok = TRUE /\ w.s.file[i].wpos \in Nat /\ w.s.file[i].wpos \in starts
     \/ Seeks(s, i) /\ w.ok = FALSE /\ w.s.file[i].wpos = s.file[i].wpos /\ starts = {}
LEMMA SetWposDoes ==
  ASSUME NEW s, NEW i, NEW n, NEW mode, Reached(s, i, n, mode), NEW func \in {"LINEOUT", "CHAROUT"},
         NEW start \in Nat \ {0}, NEW w, w = set_wpos(s, i, func, start),
         NEW starts, starts = WriteStarts(func, start, s.data[n], s.file[i].wpos)
  PROVE  Positioned(s, i, w, starts)
<1>1. TableSound(Names, s, {}) /\ i \in Named(s) /\ i \in DOMAIN s.file
  BY ReachedIs, Live
<1>2. Moves(s, s, i)
  BY <1>1, MovesSelf
<1>3. starts = IF func = "LINEOUT" THEN P!LineAt(s.data[n], start) ELSE {start - 1}
  BY DEF WriteStarts, P!NONE
<1>4. CASE ~ Seeks(s, i)
  <2>1. w = [s |-> s, ok |-> TRUE]
    BY <1>4 DEF set_wpos
  <2>2. w.s = s /\ w.ok = TRUE
    BY <2>1
  <2> QED
    BY Zenon, <1>2, <1>4, <2>2 DEF Positioned
<1>5. CASE Seeks(s, i)
  <2>1. PICK l : l = IF func = "LINEOUT" THEN line_offset(s, i, start) ELSE [s |-> s, off |-> start - 1]
    OBVIOUS
  <2>2. /\ Kept(s, l.s) /\ l.s.data = s.data /\ l.s.file = s.file
        /\ (l.off \in Nat /\ l.off \in starts) \/ (l.off = -1 /\ starts = {})
    <3>1. CASE func = "LINEOUT"
      <4>1. PICK f : f = s.file[i].f
        OBVIOUS
      <4>2. s.fp[s.file[i].f].mode \notin {"w", "a"} /\ Content(s, s.file[i].f) = s.data[n]
        BY <1>5, <4>1, ReachedStream
      <4>3. /\ Kept(s, line_offset(s, i, start).s) /\ line_offset(s, i, start).s.data = s.data
            /\ line_offset(s, i, start).s.file = s.file
            /\ \/ /\ line_offset(s, i, start).off \in Nat
                  /\ line_offset(s, i, start).off \in P!LineAt(Content(s, s.file[i].f), start)
               \/ line_offset(s, i, start).off = -1 /\ P!LineAt(Content(s, s.file[i].f), start) = {}
        BY <1>1, <4>2, LineOffsetDoes
      <4>4. l = line_offset(s, i, start) /\ starts = P!LineAt(s.data[n], start)
        BY <1>3, <2>1, <3>1
      <4> QED
        BY Zenon, <4>2, <4>3, <4>4
    <3>2. CASE func = "CHAROUT"
      <4>1. l = [s |-> s, off |-> start - 1] /\ starts = {start - 1}
        BY <1>3, <2>1, <3>2
      <4>2. Kept(s, s)
        BY <1>1, KeptSelf
      <4>3. l.s = s /\ l.off = start - 1 /\ start - 1 \in Nat
        BY <4>1
      <4> QED
        BY <4>1, <4>2, <4>3
    <3> QED
      BY <3>1, <3>2
  <2>3. w = IF l.off < 0 THEN [s |-> l.s, ok |-> FALSE] ELSE [s |-> [l.s EXCEPT !.file[i].wpos = l.off], ok |-> TRUE]
    BY Zenon, <1>5, <2>1 DEF set_wpos
  <2>4. Moves(s, l.s, i)
    BY <2>2, SameTableMoves
  <2>5. CASE l.off = -1 /\ starts = {}
    <3>1. w.s = l.s /\ w.ok = FALSE
      BY <2>3, <2>5
    <3>2. Failed(l.s, i) = Failed(s, i)
      BY <2>2 DEF Failed
    <3> QED
      BY Zenon, <1>5, <2>2, <2>4, <2>5, <3>1, <3>2 DEF Positioned
  <2>6. CASE l.off \in Nat /\ l.off \in starts
    <3>1. PICK v \in Int : v = l.off /\ v >= -1 /\ ~ (v < 0)
      BY <2>6
    <3>2. PICK t : t = l.s
      OBVIOUS
    <3>3. TableSound(Names, t, {}) /\ i \in Named(t)
      BY <1>1, <2>2, <3>2, KeptLive
    <3>4. PICK z : z = [t EXCEPT !.file[i].wpos = v]
      OBVIOUS
    <3>5. /\ Moves(t, z, i) /\ z.data = t.data /\ Failed(z, i) = Failed(t, i)
          /\ z.file[i].rpos = t.file[i].rpos /\ z.file[i].wpos = v
      BY <3>1, <3>3, <3>4, WposDoes
    <3>6. w.s = z /\ w.ok = TRUE
      <4>1. w = [s |-> z, ok |-> TRUE]
        BY Zenon, <2>3, <3>1, <3>2, <3>4
      <4> QED
        BY <4>1
    <3>7. Moves(s, z, i)
      BY <1>1, <2>4, <3>2, <3>5, MovesThen
    <3>8. Failed(t, i) = Failed(s, i) /\ t.file[i].rpos = s.file[i].rpos /\ t.data = s.data
      BY <2>2, <3>2 DEF Failed
    <3> QED
      BY Zenon, <1>5, <2>6, <3>1, <3>5, <3>6, <3>7, <3>8 DEF Positioned
  <2> QED
    BY <2>2, <2>5, <2>6
<1> QED
  BY <1>4, <1>5

(* A call without a text, given what it may do to the stream.               *)
PositionMay(s, i, c, starts, q, x) ==
  \/ ~ Seeks(s, i) /\ q \in {s.file[i].wpos, P!END} /\ x = Failed(s, i) /\ c.raised = FALSE
  \/ Seeks(s, i) /\ c.start = P!NONE /\ c.raised = FALSE /\ q = P!END /\ x = Failed(s, i)
  \/ Seeks(s, i) /\ c.start # P!NONE /\ c.raised = FALSE /\ q \in starts /\ x = Failed(s, i)
  \/ Seeks(s, i) /\ c.start # P!NONE /\ c.raised = TRUE /\ starts = {} /\ q = s.file[i].wpos /\ x = TRUE
PositionCall(s, i, n, w, q, x, c, d, starts) ==
  /\ Reached(s, i, n, WriteMode(n)) /\ Moves(s, w, i) /\ w.data = s.data /\ w.file[i].rpos = s.file[i].rpos
  /\ q = w.file[i].wpos /\ x = Failed(w, i) /\ d = s.data[n]
  /\ Become(w, c) /\ c.handle = i /\ c.name = n /\ c.what \in {"LINEOUT", "CHAROUT"}
  /\ c.text = Absent /\ c.value = 0 /\ starts = WriteStarts(c.what, c.start, d, s.file[i].wpos)
  /\ PositionMay(s, i, c, starts, q, x)
(* A failure is not forgotten by a call that only sets the write position.  *)
LEMMA NotedStill ==
  ASSUME NEW s, NEW i, NEW o, o = StreamOf(s, i)
  PROVE  /\ call'.raised = FALSE => P!Noted(o, FALSE) = o
         /\ call'.raised = TRUE => [P!Noted(o, FALSE) EXCEPT !.wpos = o.wpos] = SetFailed(o, TRUE)
<1>1. PICK n, r, w, a, p, y : /\ n = s.file[i].name /\ r = s.file[i].rpos /\ w = s.file[i].wpos
                             /\ a = Appends(s, i) /\ p = Seeks(s, i) /\ y = Failed(s, i)
  BY Zenon
<1>2. o = Str(n, r, w, a, p, y)
  BY Zenon, <1>1, StreamIs
<1>3. o.failed = y /\ o.wpos = w
  BY <1>2 DEF Str
<1>4. y \in BOOLEAN
  BY <1>1 DEF Failed
<1>5. PICK k : k = (call'.raised \/ (o.failed /\ ~ FALSE))
  OBVIOUS
<1>6. P!Noted(o, FALSE) = [o EXCEPT !.failed = k]
  BY Zenon, <1>5 DEF P!Noted
<1>7. P!Noted(o, FALSE) = Str(n, r, w, a, p, k)
  <2>1. [o EXCEPT !.failed = k] = Str(n, r, w, a, p, k)
    BY <1>2, StrSet
  <2> QED
    BY Zenon, <1>6, <2>1
<1>8. call'.raised = FALSE => k = y
  BY <1>3, <1>4, <1>5
<1>9. call'.raised = TRUE => k = TRUE
  BY Zenon, <1>5
<1>10. [P!Noted(o, FALSE) EXCEPT !.wpos = o.wpos] = Str(n, r, w, a, p, k)
  <2>1. PICK z : z = P!Noted(o, FALSE)
    OBVIOUS
  <2>3. z = Str(n, r, w, a, p, k)
    BY Zenon, <1>7, <2>1
  <2>2. [z EXCEPT !.wpos = w] = Str(n, r, w, a, p, k)
    BY <2>3, StrSet
  <2> QED
    BY Zenon, <1>3, <2>1, <2>2
<1>11. SetFailed(o, TRUE) = Str(n, r, w, a, p, TRUE)
  <2>1. PICK x : x = TRUE
    OBVIOUS
  <2>2. SetFailed(o, x) = Str(n, r, w, a, p, x)
    BY <1>2, StrSet DEF SetFailed
  <2> QED
    BY Zenon, <2>1, <2>2
<1> QED
  BY Zenon, <1>2, <1>7, <1>8, <1>9, <1>10, <1>11
LEMMA PositionAre ==
  ASSUME TableSound(Names, Calling, {}), DataIs, NEW s, NEW i, NEW n, NEW w, NEW q, NEW x, NEW c, NEW d,
         NEW starts, PositionCall(s, i, n, w, q, x, c, d, starts)
  PROVE  Meets
<1>0. /\ Reached(s, i, n, WriteMode(n)) /\ Moves(s, w, i) /\ w.data = s.data /\ w.file[i].rpos = s.file[i].rpos
      /\ q = w.file[i].wpos /\ x = Failed(w, i) /\ d = s.data[n]
      /\ Become(w, c) /\ c.handle = i /\ c.name = n /\ c.what \in {"LINEOUT", "CHAROUT"}
      /\ c.text = Absent /\ c.value = 0 /\ starts = WriteStarts(c.what, c.start, d, s.file[i].wpos)
      /\ PositionMay(s, i, c, starts, q, x)
  BY Zenon DEF PositionCall
<1>1. PICK mode : mode = WriteMode(n) /\ Reached(s, i, n, mode)
  BY <1>0
<1>2. i \in Named(s)
  BY <1>1, ReachedIs
<1>3. P!Leaves(StreamOf(w, i), d) /\ Like(s, w, i) /\ Seekable(Calling') /\ DataIs'
  BY <1>0, <1>1, MovedAre
<1>4. P!Written = StreamOf(s, i) /\ P!MayOpen("w") /\ P!Text(data[n]) = d
  BY <1>0, WrittenIs
<1>5. PICK o : o = StreamOf(s, i)
  OBVIOUS
<1>6. o.name = n /\ o.wpos = s.file[i].wpos /\ o.positions = Seeks(s, i) /\ o.failed = Failed(s, i)
  <2>1. o.name = n /\ o.wpos = s.file[i].wpos
    BY <1>1, <1>5, StreamSees
  <2>2. o.positions = Seeks(s, i)
    BY <1>1, <1>5, StreamSees
  <2>3. o.failed = Failed(s, i)
    BY <1>1, <1>5, StreamSees
  <2> QED
    BY <2>1, <2>2, <2>3
<1>7. /\ x = Failed(s, i) => StreamOf(w, i) = SetWpos(o, q)
      /\ q = s.file[i].wpos => StreamOf(w, i) = SetFailed(o, x)
  <2>1. PICK y : y = w.file[i].rpos /\ y = s.file[i].rpos
    BY <1>0
  <2>2. w.file[i].wpos = q /\ Failed(w, i) = x /\ w.file[i].rpos = y
    BY <1>0, <2>1
  <2>3. /\ y = s.file[i].rpos /\ x = Failed(s, i) => StreamOf(w, i) = SetWpos(o, q)
        /\ y = s.file[i].rpos /\ q = s.file[i].wpos => StreamOf(w, i) = SetFailed(o, x)
    BY <1>2, <1>3, <1>5, <2>2, StreamChange
  <2> QED
    BY Zenon, <2>1, <2>3
<1>8. call' = c
  BY <1>0 DEF Become
<1>9. P!Text(data[o.name]) = d /\ starts = P!Starts(o, d)
  <2>1. P!Starts(o, d) = WriteStarts(c.what, c.start, d, o.wpos)
    BY <1>8, StartsAre
  <2>2. starts = WriteStarts(c.what, c.start, d, o.wpos)
    BY Zenon, <1>0, <1>6
  <2> QED
    BY Zenon, <1>4, <1>6, <2>1, <2>2
<1>10. call'.what \in {"LINEOUT", "CHAROUT"} /\ call'.text = P!Absent /\ call'.value = 0 /\ P!MayOpen("w")
  BY <1>0, <1>4, <1>8 DEF Absent
<1>11. P!Written = o
  BY <1>4, <1>5
<1>12. CASE ~ Seeks(s, i) /\ q \in {s.file[i].wpos, P!END} /\ x = Failed(s, i) /\ c.raised = FALSE
  <2>1. ~ o.positions
    BY <1>6, <1>12 DEF Seeks
  <2>2. q \in {o.wpos, P!END} /\ P!Leaves([o EXCEPT !.wpos = q], d) /\ ~ call'.raised
    BY Zenon, <1>3, <1>6, <1>7, <1>8, <1>12 DEF SetWpos
  <2>3. P!Position
    BY Zenon, <1>9, <1>10, <1>11, <2>1, <2>2 DEF P!Position
  <2> QED
    BY <1>3, <2>3 DEF Meets, P!Next
<1>13. CASE Seeks(s, i) /\ c.start = P!NONE /\ c.raised = FALSE /\ q = P!END /\ x = Failed(s, i)
  <2>1. o.positions
    BY <1>6, <1>13 DEF Seeks
  <2>2. call'.start = P!NONE /\ P!Leaves([o EXCEPT !.wpos = P!END], d) /\ ~ call'.raised
    BY Zenon, <1>3, <1>7, <1>8, <1>13 DEF SetWpos
  <2>3. P!Position
    BY Zenon, <1>9, <1>10, <1>11, <2>1, <2>2 DEF P!Position
  <2> QED
    BY <1>3, <2>3 DEF Meets, P!Next
<1>14. CASE Seeks(s, i) /\ c.start # P!NONE /\ c.raised = FALSE /\ q \in starts /\ x = Failed(s, i)
  <2>1. o.positions /\ call'.start # P!NONE /\ call'.raised = FALSE
    BY <1>6, <1>8, <1>14 DEF Seeks
  <2>2. P!Leaves([o EXCEPT !.wpos = q], d)
    BY Zenon, <1>3, <1>7, <1>14 DEF SetWpos
  <2>3. CASE c.what = "CHAROUT" /\ P!Beyond(d)
    <3>1. q = call'.start - 1
      BY <1>0, <1>8, <1>14, <2>3 DEF WriteStarts
    <3>2. call'.what = "CHAROUT" /\ ~ call'.raised
      BY <1>8, <2>1, <2>3
    <3>3. MissesEnd
      BY Zenon, <1>9, <1>10, <1>11, <2>1, <2>2, <2>3, <3>1, <3>2 DEF MissesEnd, Absent
    <3> QED
      BY <1>3, <3>3 DEF Meets, Departs
  <2>4. CASE ~ (c.what = "CHAROUT" /\ P!Beyond(d))
    <3>1. PICK beyond : beyond = IF call'.what = "CHAROUT" THEN P!Beyond(d) ELSE P!Starts(o, d) = {}
      OBVIOUS
    <3>2. q \in P!Starts(o, d)
      BY Zenon, <1>9, <1>14
    <3>3. ~ (P!Starts(o, d) = {})
      BY <3>2
    <3>4. beyond = FALSE
      <4>1. CASE call'.what = "CHAROUT"
        <5>1. P!Beyond(d) = FALSE
          BY Zenon, <1>8, <2>4, <4>1 DEF P!Beyond
        <5> QED
          BY Zenon, <3>1, <4>1, <5>1
      <4>2. CASE call'.what # "CHAROUT"
        BY Zenon, <3>1, <3>3, <4>2
      <4> QED
        BY <4>1, <4>2
    <3>5. P!Noted(o, FALSE) = o
      BY <1>5, <2>1, NotedStill
    <3>6. P!Leaves([P!Noted(o, FALSE) EXCEPT !.wpos = q], d)
      BY Zenon, <2>2, <3>5
    <3>7. q \in P!Starts(o, d) \union (IF beyond THEN {o.wpos} ELSE {})
      BY <3>2
    <3>8. call'.raised = beyond
      BY <2>1, <3>4
    <3>9. P!Position
      BY Zenon, <1>9, <1>10, <1>11, <2>1, <3>1, <3>6, <3>7, <3>8 DEF P!Position
    <3> QED
      BY <1>3, <3>9 DEF Meets, P!Next
  <2> QED
    BY <2>3, <2>4
<1>15. CASE Seeks(s, i) /\ c.start # P!NONE /\ c.raised = TRUE /\ starts = {} /\ q = s.file[i].wpos /\ x = TRUE
  <2>1. o.positions /\ call'.start # P!NONE /\ call'.raised = TRUE
    BY <1>6, <1>8, <1>15 DEF Seeks
  <2>2. PICK beyond : beyond = IF call'.what = "CHAROUT" THEN P!Beyond(d) ELSE P!Starts(o, d) = {}
    OBVIOUS
  <2>3. c.what # "CHAROUT"
    BY <1>0, <1>15 DEF WriteStarts
  <2>4. beyond = TRUE
    <3>1. P!Starts(o, d) = {}
      BY Zenon, <1>9, <1>15
    <3> QED
      BY <1>8, <2>2, <2>3, <3>1
  <2>5. [P!Noted(o, FALSE) EXCEPT !.wpos = o.wpos] = SetFailed(o, TRUE)
    BY <1>5, <2>1, NotedStill
  <2>6. P!Leaves([P!Noted(o, FALSE) EXCEPT !.wpos = o.wpos], d)
    BY Zenon, <1>3, <1>7, <1>15, <2>5
  <2>7. o.wpos \in P!Starts(o, d) \union (IF beyond THEN {o.wpos} ELSE {})
    BY <2>4
  <2>8. call'.raised = beyond
    BY <2>1, <2>4
  <2>9. P!Position
    BY Zenon, <1>9, <1>10, <1>11, <2>1, <2>2, <2>6, <2>7, <2>8 DEF P!Position
  <2> QED
    BY <1>3, <2>9 DEF Meets, P!Next
<1> QED
  BY Zenon, <1>0, <1>12, <1>13, <1>14, <1>15 DEF PositionMay

(* A call that sets the write position is a step of Streams.                *)
LEMMA PositionMeets ==
  ASSUME TableSound(Names, Calling, {}), Seekable(Calling), DataIs, Faults = {},
         NEW func \in {"LINEOUT", "CHAROUT"}, NEW r \in Uses, NEW start \in Nat,
         R_charlineout_position(func, r, start)
  PROVE  Meets
<1> DEFINE W(u) == IF start # LSTARTPOS THEN set_wpos(u.s, u.i, func, start)
                   ELSE [s |-> IF Seeks(u.s, u.i) THEN [u.s EXCEPT !.file[u.i].wpos = -1] ELSE u.s, ok |-> TRUE]
           C(u, x) == [About(u, r) EXCEPT !.what = func, !.start = start, !.raised = x]
<1>1. PICK u \in Used(r, "update") :
        Fails(u, r) \/ (u.i >= 0 /\ Outcome(W(u).s, u.i, C(u, ~ W(u).ok)))
  BY DEF R_charlineout_position
<1>2. \/ u.i < 0 /\ ~ (u.i >= 0) /\ Left(u.s)
      \/ /\ u.i >= 0 /\ ~ (u.i < 0) /\ u.i \in Nat
         /\ \E n \in Names : NameOf(u.s, r) = n /\ Reached(u.s, u.i, n, WriteMode(n))
  <2>1. Opens("update") /\ \A n : UseMode("update", n) = WriteMode(n)
    BY DEF Opens, UseMode
  <2>2. u \in Used(r, "update")
    OBVIOUS
  <2> HIDE DEF W, C
  <2> QED
    BY <2>1, <2>2, UsedReaches
<1>3. CASE Fails(u, r)
  BY <1>2, <1>3, FailsMeets DEF Fails
<1>4. CASE ~ Fails(u, r)
  <2>1. PICK n \in Names : NameOf(u.s, r) = n /\ Reached(u.s, u.i, n, WriteMode(n))
    BY <1>1, <1>2, <1>4
  <2>2. \A x : /\ C(u, x).handle = u.i /\ C(u, x).name = n /\ C(u, x).what = func /\ C(u, x).start = start
               /\ C(u, x).text = Absent /\ C(u, x).value = 0 /\ C(u, x).raised = x
    BY <2>1 DEF About, None
  <2> HIDE DEF C
  <2>3. PICK s, i, w : s = u.s /\ i = u.i /\ w = W(u)
    BY Zenon
  <2>4. PICK mode, d, starts : /\ mode = WriteMode(n) /\ d = s.data[n]
                               /\ starts = WriteStarts(func, start, d, s.file[i].wpos)
    BY Zenon
  <2>5. Reached(s, i, n, mode)
    BY Zenon, <2>1, <2>3, <2>4
  <2>6. TableSound(Names, s, {}) /\ i \in Named(s)
    BY <2>5, ReachedIs
  <2>7. P!NONE = 0 /\ LSTARTPOS = 0 /\ P!END = -1
    BY DEF P!NONE, LSTARTPOS, P!END
  <2>8. PICK t, k : /\ t = w.s /\ k = w.ok /\ k \in BOOLEAN /\ Moves(s, t, i) /\ t.data = s.data
                    /\ t.file[i].rpos = s.file[i].rpos /\ Failed(t, i) = Failed(s, i)
                    /\ \/ ~ Seeks(s, i) /\ k = TRUE /\ t.file[i].wpos \in {s.file[i].wpos, P!END}
                       \/ Seeks(s, i) /\ start = P!NONE /\ k = TRUE /\ t.file[i].wpos = P!END
                       \/ Seeks(s, i) /\ start # P!NONE /\ k = TRUE /\ t.file[i].wpos \in starts
                       \/ Seeks(s, i) /\ start # P!NONE /\ k = FALSE /\ t.file[i].wpos = s.file[i].wpos /\ starts = {}
    <3>1. CASE start # 0
      <4>1. w = set_wpos(s, i, func, start)
        BY <2>3, <2>7, <3>1
      <4>2. start \in Nat \ {0} /\ starts = WriteStarts(func, start, s.data[n], s.file[i].wpos)
        BY <2>4, <3>1
      <4>3. Positioned(s, i, w, starts)
        BY <2>5, <4>1, <4>2, SetWposDoes
      <4>4. start # P!NONE /\ TRUE \in BOOLEAN /\ FALSE \in BOOLEAN
        BY <2>7, <3>1
      <4> QED
        BY Zenon, <4>3, <4>4 DEF Positioned
    <3>2. CASE start = 0 /\ Seeks(s, i)
      <4>1. PICK v \in Int : v = -1 /\ v >= -1
        OBVIOUS
      <4>2. PICK t : t = [s EXCEPT !.file[i].wpos = v]
        OBVIOUS
      <4>3. /\ Moves(s, t, i) /\ t.data = s.data /\ Failed(t, i) = Failed(s, i)
            /\ t.file[i].rpos = s.file[i].rpos /\ t.file[i].wpos = v
        BY <2>6, <4>1, <4>2, WposDoes
      <4>4. w.s = t /\ w.ok = TRUE
        <5>1. w = [s |-> t, ok |-> TRUE]
          BY Zenon, <2>3, <2>7, <3>2, <4>1, <4>2
        <5> QED
          BY <5>1
      <4>5. start = P!NONE /\ TRUE \in BOOLEAN /\ v = P!END
        BY <2>7, <3>2, <4>1
      <4> QED
        BY Zenon, <3>2, <4>3, <4>4, <4>5
    <3>3. CASE start = 0 /\ ~ Seeks(s, i)
      <4>1. w = [s |-> s, ok |-> TRUE]
        BY Zenon, <2>3, <2>7, <3>3
      <4>2. w.s = s /\ w.ok = TRUE /\ TRUE \in BOOLEAN
        BY <4>1
      <4>3. Moves(s, s, i)
        BY <2>6, MovesSelf
      <4> QED
        BY Zenon, <3>3, <4>2, <4>3
    <3> QED
      BY <3>1, <3>2, <3>3
  <2> HIDE DEF W
  <2>9. PICK c : c = C(u, ~ k) /\ Outcome(t, i, c)
    BY Zenon, <1>1, <1>4, <2>3, <2>8
  <2>10. /\ c.handle = i /\ c.name = n /\ c.what = func /\ c.start = start
         /\ c.text = Absent /\ c.value = 0 /\ c.raised = ~ k
    BY <2>2, <2>3, <2>9
  <2>11. PICK v : Turned(s, t, i, c, v)
    BY <2>6, <2>8, <2>9, OutcomeIs
  <2>12. PICK q, x : q = v.file[i].wpos /\ x = Failed(v, i)
    BY Zenon
  <2>13. /\ Become(v, c) /\ Moves(s, v, i) /\ v.data = s.data /\ v.file[i].rpos = s.file[i].rpos
         /\ q = t.file[i].wpos /\ (c.raised => x) /\ (~ c.raised => x = Failed(s, i))
    BY Zenon, <2>8, <2>11, <2>12 DEF Turned
  <2>14. PositionMay(s, i, c, starts, q, x)
    <3>1. CASE k = TRUE
      <4>1. c.raised = FALSE
        BY <2>10, <3>1
      <4> QED
        BY Zenon, <2>8, <2>10, <2>13, <3>1, <4>1 DEF PositionMay
    <3>2. CASE k = FALSE
      <4>1. c.raised = TRUE
        BY <2>10, <3>2
      <4>2. x = TRUE
        BY <2>12, <2>13, <4>1 DEF Failed
      <4> QED
        BY Zenon, <2>8, <2>10, <2>13, <3>2, <4>1, <4>2 DEF PositionMay
    <3> QED
      BY <2>8, <3>1, <3>2
  <2>15. PositionCall(s, i, n, v, q, x, c, d, starts)
    BY Zenon, <2>4, <2>5, <2>10, <2>12, <2>13, <2>14 DEF PositionCall
  <2> QED
    BY <2>15, PositionAre
<1> QED
  BY <1>3, <1>4

(* LINEOUT and CHAROUT in Streams, one alternative at a time.               *)
OutText(func, text) == IF func = "LINEOUT" THEN text \o <<LF>> ELSE text
OutCalled(o, c, t) ==
  /\ call'.what \in {"LINEOUT", "CHAROUT"} /\ call'.text # P!Absent /\ P!MayOpen("w")
  /\ P!Written = o /\ P!Text(data[o.name]) = c /\ t = OutText(call'.what, call'.text)
OutBeyond(c) == call'.what = "CHAROUT" /\ P!Beyond(c)
OutWrites(o, c, t, p, k, at, q) ==
  /\ at = IF o.appends THEN Len(c) ELSE p
  /\ k < Len(t) => P!MayRefuse(o) \/ at > Len(c) \/ OutBeyond(c)
  /\ call'.value = IF call'.what = "CHAROUT" THEN Len(t) - k ELSE IF k = Len(t) THEN 0 ELSE 1
  /\ call'.raised = (call'.value # 0 \/ OutBeyond(c))
  /\ q \in (IF k > 0 \/ at <= Len(c) THEN {at + k} ELSE {p}) \union (IF k = 0 THEN {p, o.wpos} ELSE {})
  /\ P!Leaves([o EXCEPT !.wpos = q, !.failed = call'.raised], P!Put(c, at, SubSeq(t, 1, k)))
LEMMA OutOnce ==
  ASSUME NEW o, NEW c, NEW t, OutCalled(o, c, t), ~ o.positions, call'.value = 0, ~ call'.raised,
         P!Leaves([o EXCEPT !.failed = FALSE], c)
  PROVE  P!CharLineOut
  BY Zenon DEF P!CharLineOut, OutCalled
LEMMA OutNowhere ==
  ASSUME NEW o, NEW c, NEW t, OutCalled(o, c, t), o.positions, P!Starts(o, c) = {}, call'.value = 1, call'.raised,
         P!Leaves([o EXCEPT !.failed = TRUE], c)
  PROVE  P!CharLineOut
  BY Zenon DEF P!CharLineOut, OutCalled
OutDoes(o, c, t) ==
  LET Writes(p, k) ==
        LET at == IF o.appends THEN Len(c) ELSE p
            moved == IF k > 0 \/ at <= Len(c) THEN {at + k} ELSE {p}
            still == IF k = 0 THEN {p, o.wpos} ELSE {}
            beyond == call'.what = "CHAROUT" /\ P!Beyond(c)
        IN  /\ k < Len(t) => P!MayRefuse(o) \/ at > Len(c) \/ beyond
            /\ call'.value = IF call'.what = "CHAROUT" THEN Len(t) - k ELSE IF k = Len(t) THEN 0 ELSE 1
            /\ call'.raised = (call'.value # 0 \/ beyond)
            /\ \E q \in moved \union still :
                 P!Leaves([o EXCEPT !.wpos = q, !.failed = call'.raised], P!Put(c, at, SubSeq(t, 1, k)))
  IN  IF ~ o.positions
      THEN call'.value = 0 /\ ~ call'.raised /\ P!Leaves([o EXCEPT !.failed = FALSE], c)
      ELSE \/ \E p \in P!Starts(o, c), k \in 0 .. Len(t) : Writes(p, k)
           \/ P!Starts(o, c) = {} /\ call'.value = 1 /\ call'.raised /\ P!Leaves([o EXCEPT !.failed = TRUE], c)
LEMMA OutIs ==
  ASSUME call'.what \in {"LINEOUT", "CHAROUT"}, call'.text # P!Absent, P!MayOpen("w"),
         OutDoes(P!Written, P!Text(data[P!Written.name]), IF call'.what = "LINEOUT" THEN call'.text \o <<P!LF>> ELSE call'.text)
  PROVE  P!CharLineOut
  BY Zenon DEF P!CharLineOut, OutDoes

LEMMA OutThere ==
  ASSUME NEW o, NEW c, NEW t, OutCalled(o, c, t), o.positions, NEW p \in P!Starts(o, c), NEW k \in 0 .. Len(t),
         NEW at, NEW q, OutWrites(o, c, t, p, k, at, q)
  PROVE  P!CharLineOut
<1>1. P!LF = LF
  BY DEF LF
<1>2. t = IF call'.what = "LINEOUT" THEN call'.text \o <<P!LF>> ELSE call'.text
  BY Zenon, <1>1 DEF OutCalled, OutText
<1>3. /\ call'.what \in {"LINEOUT", "CHAROUT"} /\ call'.text # P!Absent /\ P!MayOpen("w")
      /\ P!Written = o /\ P!Text(data[o.name]) = c
  BY Zenon DEF OutCalled
<1>4. OutDoes(o, c, t)
  BY Zenon DEF OutDoes, OutWrites, OutBeyond
<1>5. OutDoes(P!Written, P!Text(data[P!Written.name]), IF call'.what = "LINEOUT" THEN call'.text \o <<P!LF>> ELSE call'.text)
  BY Zenon, <1>2, <1>3, <1>4
<1> QED
  BY <1>3, <1>5, OutIs

(* The slots that reopening changes.                                        *)
LEMMA EmptiedIs ==
  ASSUME NEW N, NEW s, TableSound(N, s, {}), NEW i \in Named(s), NEW t, t = Emptied(s, i)
  PROVE  /\ DOMAIN t.file = DOMAIN s.file /\ \A h \in DOMAIN s.file : h # i => t.file[h] = s.file[h]
         /\ t.file[i].rpos = s.file[i].rpos /\ t.file[i].wpos = s.file[i].wpos
<1> DEFINE e == s.file[i].f
           y == s.file[i]
           x == [name |-> y.name, f |-> NULL, rpos |-> y.rpos, wpos |-> y.wpos, flags |-> y.flags]
           streams == [f \in DOMAIN s.fp \ {e} |-> s.fp[f]]
<1>1. i \in DOMAIN s.file
  BY Live
<1>2. s = [data |-> s.data, fp |-> s.fp, file |-> s.file]
  BY Parts
<1>3. y = [name |-> y.name, f |-> y.f, rpos |-> y.rpos, wpos |-> y.wpos, flags |-> y.flags]
  BY <1>1, Parts
<1>4. x.rpos = y.rpos /\ x.wpos = y.wpos
  OBVIOUS
<1>5. [y EXCEPT !.f = NULL] = x
  BY <1>3
<1> HIDE DEF x
<1>6. t = [[s EXCEPT !.fp = streams] EXCEPT !.file[i].f = NULL]
  BY <1>2 DEF Emptied, fclose
<1> HIDE DEF streams
<1> DEFINE r == [s EXCEPT !.fp = streams]
<1>7. r = [data |-> s.data, fp |-> streams, file |-> s.file]
  BY <1>2
<1>8. t = [r EXCEPT !.file[i].f = NULL]
  BY <1>6
<1> HIDE DEF r
<1>9. [r EXCEPT !.file[i].f = NULL] = [r EXCEPT !.file[i] = x]
  BY <1>5, <1>7
<1>10. t.file = [s.file EXCEPT ![i] = x]
  BY <1>7, <1>8, <1>9
<1> QED
  BY <1>1, <1>4, <1>10

LEMMA AdoptedIs ==
  ASSUME NEW N, NEW s, NEW H, TableSound(N, s, H), NEW i \in DOMAIN s.file, NEW j \in DOMAIN s.file, i # j,
         NEW t, t = Adopted(s, i, j)
  PROVE  /\ t.fp = s.fp /\ \A h \in DOMAIN s.file : h # i /\ h # j => t.file[h] = s.file[h]
         /\ t.file[i].name = s.file[i].name /\ t.file[i].f = s.file[j].f
         /\ t.file[i].rpos = s.file[i].rpos /\ t.file[i].wpos = s.file[i].wpos
         /\ t.file[i].flags = s.file[i].flags \union (s.file[j].flags \intersect {"WRITE"})
<1> DEFINE e == s.file[j].f
           y == s.file[i]
           flags == y.flags \union (s.file[j].flags \intersect {"WRITE"})
           x == [name |-> y.name, f |-> e, rpos |-> y.rpos, wpos |-> y.wpos, flags |-> flags]
           a == [y EXCEPT !.f = e]
           p == [s EXCEPT !.file[i].f = e]
           q == [p EXCEPT !.file[i].flags = @ \union (s.file[j].flags \intersect {"WRITE"})]
<1>1. s = [data |-> s.data, fp |-> s.fp, file |-> s.file]
  BY Parts
<1>2. y = [name |-> y.name, f |-> y.f, rpos |-> y.rpos, wpos |-> y.wpos, flags |-> y.flags]
  BY Parts
<1>3. x.name = y.name /\ x.f = e /\ x.rpos = y.rpos /\ x.wpos = y.wpos /\ x.flags = flags
  OBVIOUS
<1>4. a = [name |-> y.name, f |-> e, rpos |-> y.rpos, wpos |-> y.wpos, flags |-> y.flags]
  BY <1>2
<1>5. [a EXCEPT !.flags = flags] = x /\ a.flags = y.flags
  <2> HIDE DEF flags, a, y
  <2>1. a.flags = y.flags
    BY <1>4
  <2>2. [a EXCEPT !.flags = flags] = x
    BY <1>4
  <2> QED
    BY <2>1, <2>2
<1> HIDE DEF a, x
<1>6. t = [q EXCEPT !.file[j] = Empty]
  BY DEF Adopted
<1>7. p = [data |-> s.data, fp |-> s.fp, file |-> [s.file EXCEPT ![i] = a]]
  BY <1>1 DEF a
<1> HIDE DEF p
<1>8. p.file[i] = a
  BY <1>7
<1>9. q = [p EXCEPT !.file[i] = x]
  <2>1. q = [p EXCEPT !.file[i].flags = flags]
    BY <1>5, <1>8
  <2> HIDE DEF flags, q
  <2> QED
    BY <1>5, <1>8, <2>1
<1> HIDE DEF q
<1>10. q = [data |-> s.data, fp |-> s.fp, file |-> [s.file EXCEPT ![i] = x]]
  <2>1. q = [data |-> s.data, fp |-> s.fp, file |-> [[s.file EXCEPT ![i] = a] EXCEPT ![i] = x]]
    BY <1>7, <1>9
  <2>2. [[s.file EXCEPT ![i] = a] EXCEPT ![i] = x] = [s.file EXCEPT ![i] = x]
    OBVIOUS
  <2> QED
    BY <2>1, <2>2
<1>11. t.fp = s.fp /\ t.file = [[s.file EXCEPT ![i] = x] EXCEPT ![j] = Empty]
  BY <1>6, <1>10
<1>12. t.file[i] = x /\ \A h \in DOMAIN s.file : h # i /\ h # j => t.file[h] = s.file[h]
  BY <1>11
<1> QED
  BY <1>3, <1>11, <1>12

(* What reopening a stream for update does, which was open to be read.      *)
Twice(s, i, n) == n \in Protected \/ \E j \in Named(s) \ {i} : s.file[j].name = n
Switched(s, i, n, x) ==
  /\ x = [s |-> x.s, ok |-> x.ok] /\ TableSound(Names, x.s, {}) /\ Seekable(x.s) /\ Like(s, x.s, i)
  /\ x.s.data = s.data /\ x.s.file[i].rpos = s.file[i].rpos /\ x.s.file[i].wpos = s.file[i].wpos
  /\ Failed(x.s, i) = Failed(s, i)
  /\ x.ok => x.s.fp[x.s.file[i].f].mode # "r"
  /\ ~ x.ok => Twice(s, i, n)
Renewed(c, i, n, t, j, m) ==
  /\ j # -1 /\ TableSound(Names, t, {i}) /\ Opened(c, t, j, n, m) /\ m \in {"r", "r+"}
  /\ m = "r" => ~ CanOpen(c, n, "r+")
LEMMA ReopenOpens ==
  ASSUME NEW c, NEW i, TableSound(Names, c, {i}), NEW n, CanOpen(c, n, "r"), Faults = {},
         NEW o \in open_file(c, n, "r+"),
         NEW new \in (IF o.i = -1 THEN open_file(o.s, n, "r") ELSE {o})
  PROVE  \E m : Renewed(c, i, n, new.s, new.i, m)
<1>1. Tried("r+") = {"r+"} /\ Tried("r") = {"r"} /\ "r+" \in Modes /\ "r" \in Modes
  BY DEF Tried, open_mode, Modes
<1>2. /\ TableSound(Names, o.s, {i})
      /\ \/ o.i = -1 /\ Grew(c, o.s) /\ ~ CanOpen(c, n, "r+")
         \/ o.i # -1 /\ Opened(c, o.s, o.i, n, "r+")
  BY <1>1, OpenIs
<1>3. CASE o.i # -1
  BY <1>2, <1>3 DEF Renewed
<1>4. CASE o.i = -1
  <2>1. new \in open_file(o.s, n, "r")
    BY <1>4
  <2>2. CanOpen(o.s, n, "r")
    BY <1>2, <1>4, GrewCanOpen
  <2>3. TableSound(Names, new.s, {i}) /\ new.i # -1 /\ Opened(o.s, new.s, new.i, n, "r")
    BY <1>1, <1>2, <2>1, <2>2, OpenIs
  <2>4. Opened(c, new.s, new.i, n, "r")
    BY <1>2, <1>4, <2>3, GrewThenOpened
  <2> QED
    BY <1>2, <1>4, <2>3, <2>4 DEF Renewed
<1> QED
  BY <1>3, <1>4

LEMMA OpenElsewhere ==
  ASSUME NEW s, TableSound(Names, s, {}), NEW i \in Named(s), NEW n \in Names,
         NEW f \in DOMAIN s.fp, s.fp[f].name = n, f # s.file[i].f
  PROVE  \E j \in Named(s) \ {i} : s.file[j].name = n
<1>1. n \notin Std
  BY StdNamesApart
<1>2. PICK j \in Named(s) : s.file[j].f = f
  BY <1>1 DEF TableSound, Owned
<1>3. Has(s, j, f)
  BY <1>2 DEF TableSound, Owned
<1>4. s.file[j].name = n
  BY <1>1, <1>3 DEF Has, Std
<1> QED
  BY <1>2, <1>4

LEMMA ReopenDoes ==
  ASSUME NEW s, TableSound(Names, s, {}), Seekable(s), NEW i \in Named(s), NEW n \in Names, n = s.file[i].name,
         s.data = [s.data EXCEPT ![n] = s.data[n]], "WRITE" \notin s.file[i].flags, Faults = {}, NEW x \in reopen_update(s, i)
  PROVE  Switched(s, i, n, x)
<1>1. n \notin Std /\ n # "" /\ n \in DOMAIN s.data
  BY StdNamesApart
<1>2. PICK e, c : e = s.file[i].f /\ c = Emptied(s, i)
  BY Zenon
<1>3. /\ TableSound(Names, c, {i}) /\ c.data = s.data /\ Named(c) = Named(s)
      /\ DOMAIN c.fp = DOMAIN s.fp \ {e} /\ \A f \in DOMAIN c.fp : c.fp[f] = s.fp[f]
      /\ c.file[i].name = n /\ c.file[i].flags = s.file[i].flags
  <2>1. s.file[i].name \notin Std
    BY <1>1
  <2> QED
    BY <1>2, <2>1, EmptiedSound
<1>4. /\ DOMAIN c.file = DOMAIN s.file /\ \A h \in DOMAIN s.file : h # i => c.file[h] = s.file[h]
      /\ c.file[i].rpos = s.file[i].rpos /\ c.file[i].wpos = s.file[i].wpos
  BY <1>2, EmptiedIs
<1>5. e \in DOMAIN s.fp /\ s.fp[e].name = n /\ s.fp[e].mode = "r"
  <2>1. Has(s, i, e)
    BY <1>2 DEF TableSound, Owned
  <2>2. ~ SharedStderr(s, i)
    BY <1>1 DEF SharedStderr, Std
  <2> QED
    BY <2>1, <2>2 DEF Has
<1>6. n \notin Sysout /\ s.data[n] # Absent
  BY <1>5 DEF TableSound, Allowed
<1>7. CanOpen(c, n, "r")
  <2>1. \A f \in DOMAIN s.fp : s.fp[f].name = n => s.fp[f].mode = "r"
    BY <1>5 DEF TableSound, Allowed
  <2>2. ~ InUse(c, n, "r")
    BY <1>3, <2>1 DEF InUse
  <2> QED
    BY <1>3, <1>6, <2>2 DEF CanOpen
<1>8. PICK o \in open_file(c, n, "r+") :
        x \in {Reopened(new.s, i, new.i) : new \in IF o.i = -1 THEN open_file(o.s, n, "r") ELSE {o}}
  BY Zenon, <1>2 DEF reopen_update, Emptied
<1>9. PICK new \in (IF o.i = -1 THEN open_file(o.s, n, "r") ELSE {o}) : x = Reopened(new.s, i, new.i)
  BY <1>8, Zenon
<1>10. PICK t, j, m : t = new.s /\ j = new.i /\ Renewed(c, i, n, t, j, m)
  <2>1. \E m : Renewed(c, i, n, new.s, new.i, m)
    BY <1>3, <1>7, ReopenOpens
  <2> QED
    BY Zenon, <2>1
<1>11. /\ j # -1 /\ TableSound(Names, t, {i}) /\ Opened(c, t, j, n, m) /\ m \in {"r", "r+"}
       /\ m = "r" => ~ CanOpen(c, n, "r+")
  BY <1>10 DEF Renewed
<1>12. /\ j \notin Named(c) /\ Named(t) = Named(c) \union {j} /\ j \in DOMAIN t.file
       /\ \A h \in Named(c) : t.file[h] = c.file[h]
       /\ t.file[j].name = n /\ ("WRITE" \in t.file[j].flags <=> m # "r")
       /\ t.file[j].f \notin DOMAIN c.fp /\ DOMAIN t.fp = DOMAIN c.fp \union {t.file[j].f}
       /\ \A g \in DOMAIN c.fp : t.fp[g] = c.fp[g]
       /\ t.fp[t.file[j].f].mode = m
       /\ t.data = [c.data EXCEPT ![n] = t.data[n]] /\ t.data[n] = c.data[n]
  BY <1>3, <1>6, <1>11 DEF Opened, Truncates
<1>13. PICK u : u = Adopted(t, i, j)
  OBVIOUS
<1>14. i \in DOMAIN t.file /\ i # j /\ t.file[i] = c.file[i] /\ j \in Named(t) \ {i} /\ i \in Named(t)
  BY <1>3, <1>12 DEF Named
<1>15. /\ u.fp = t.fp /\ \A h \in DOMAIN t.file : h # i /\ h # j => u.file[h] = t.file[h]
       /\ u.file[i].name = t.file[i].name /\ u.file[i].f = t.file[j].f
       /\ u.file[i].rpos = t.file[i].rpos /\ u.file[i].wpos = t.file[i].wpos
       /\ u.file[i].flags = t.file[i].flags \union (t.file[j].flags \intersect {"WRITE"})
  BY <1>11, <1>12, <1>13, <1>14, AdoptedIs
<1>16. TableSound(Names, u, {}) /\ u.data = t.data /\ Named(u) = Named(t) \ {j}
  <2>1. t.file[i].name \notin Std /\ "WRITE" \notin t.file[i].flags /\ t.file[j].name = t.file[i].name
    <3>1. t.file[i].name = n /\ t.file[i].flags = s.file[i].flags /\ t.file[j].name = n
      BY <1>3, <1>12, <1>14
    <3> QED
      BY <1>1, <3>1
  <2>2. TableSound(Names, t, {i}) /\ j \in Named(t) \ {i}
    BY <1>11, <1>14
  <2>3. TableSound(Names, u, {}) /\ u.data = t.data
    BY <1>13, <2>1, <2>2, AdoptedSound
  <2>4. Named(u) = Named(t) \ {j}
    BY <1>13, <2>1, <2>2, AdoptedSound
  <2> QED
    BY <2>3, <2>4
<1>17. Named(u) = Named(s) /\ u.data = s.data
  <2>1. Named(u) = Named(s)
    BY <1>3, <1>12, <1>16
  <2>2. s.data = [s.data EXCEPT ![n] = s.data[n]]
    OBVIOUS
  <2>3. u.data = [s.data EXCEPT ![n] = s.data[n]]
    BY <1>3, <1>12, <1>16, Zenon
  <2> QED
    BY <2>1, <2>2, <2>3
<1>18. ASSUME NEW h \in Named(s) \ {i}
       PROVE  /\ u.file[h] = s.file[h] /\ s.file[h].f \in DOMAIN s.fp
              /\ s.file[h].f \in DOMAIN u.fp /\ u.fp[s.file[h].f] = s.fp[s.file[h].f]
  <2>1. h \in DOMAIN s.file /\ s.file[h].f \in DOMAIN s.fp
    BY Live
  <2>2. s.file[h].f # e
    <3>1. s.file[i].name \notin Std
      BY <1>1
    <3>2. \A k \in Named(s) : s.file[k].f = s.file[i].f => k = i
      BY <3>1, OwnStream
    <3> QED
      BY <1>2, <3>2
  <2>3. t.file[h] = s.file[h] /\ h \in DOMAIN t.file /\ h # j
    BY <1>3, <1>4, <1>12, <2>1 DEF Named
  <2>4. u.file[h] = s.file[h]
    BY <1>15, <2>3
  <2>5. s.file[h].f \in DOMAIN c.fp
    BY <1>3, <2>1, <2>2
  <2> QED
    BY <1>3, <1>12, <1>15, <2>1, <2>4, <2>5
<1>19. \A h \in Named(s) \ {i} : StreamOf(u, h) = StreamOf(s, h)
  BY <1>18, SameSlot
<1>20. u.file[i].name = n /\ u.fp[u.file[i].f].mode = m /\ u.file[i].f \in DOMAIN u.fp
  BY <1>3, <1>12, <1>14, <1>15
<1>21. "SEEK" \in u.file[i].flags <=> "SEEK" \in s.file[i].flags
  BY <1>3, <1>14, <1>15
<1>22. "NOTREADY" \in u.file[i].flags <=> "NOTREADY" \in s.file[i].flags
  BY <1>3, <1>14, <1>15
<1>23. Seeks(u, i) = Seeks(s, i) /\ Failed(u, i) = Failed(s, i)
  BY <1>21, <1>22 DEF Seeks, Failed
<1>24. Appends(u, i) = Appends(s, i)
  <2>1. ~ (s.fp[s.file[i].f].mode \in {"a", "a+"}) /\ ~ (u.fp[u.file[i].f].mode \in {"a", "a+"})
    BY <1>2, <1>5, <1>11, <1>20
  <2>2. Appends(u, i) <=> Appends(s, i)
    BY <2>1 DEF Appends
  <2> QED
    BY <2>2 DEF Appends
<1>25. Like(s, u, i)
  BY <1>17, <1>18, <1>19, <1>20, <1>23, <1>24 DEF Like
<1>26. Seekable(u)
  <2> SUFFICES ASSUME NEW h \in Named(u)
               PROVE  /\ Seeks(u, h) <=> u.file[h].name \notin Sysout \union Std
                      /\ Seeks(u, h) => u.fp[u.file[h].f].mode \notin {"w", "a"}
    BY DEF Seekable
  <2>1. CASE h # i
    <3>1. u.file[h] = s.file[h] /\ u.fp[s.file[h].f] = s.fp[s.file[h].f]
      BY <1>17, <1>18, <2>1
    <3> QED
      BY <1>17, <3>1 DEF Seekable, Seeks
  <2>2. CASE h = i
    <3>1. u.fp[u.file[i].f].mode \notin {"w", "a"} /\ u.file[i].name = s.file[i].name
      BY <1>11, <1>20
    <3> QED
      BY <1>21, <2>2, <3>1 DEF Seekable, Seeks
  <2> QED
    BY <2>1, <2>2
<1>27. x = [s |-> u, ok |-> "WRITE" \in t.file[j].flags]
  BY <1>9, <1>10, <1>11, <1>13 DEF Reopened
<1>28. x.s = u /\ x = [s |-> x.s, ok |-> x.ok] /\ (x.ok <=> m # "r")
  <2>1. x.s = u /\ x = [s |-> x.s, ok |-> x.ok] /\ x.ok = ("WRITE" \in t.file[j].flags)
    BY <1>27
  <2>2. x.ok <=> "WRITE" \in t.file[j].flags
    BY <2>1
  <2>3. x.ok <=> m # "r"
    BY Zenon, <1>12, <2>2
  <2> QED
    BY <2>1, <2>3
<1>29. m = "r" => Twice(s, i, n)
  <2>1. SUFFICES ASSUME m = "r", n \notin Protected
                 PROVE  \E j_1 \in Named(s) \ {i} : s.file[j_1].name = n
    BY DEF Twice
  <2>2. InUse(c, n, "r+")
    BY <1>3, <1>6, <1>11, <2>1 DEF CanOpen
  <2>3. PICK f \in DOMAIN c.fp : c.fp[f].name = n
    BY <2>2 DEF InUse
  <2>4. f \in DOMAIN s.fp /\ s.fp[f].name = n /\ f # s.file[i].f
    BY <1>2, <1>3, <2>3
  <2> QED
    BY <2>4, OpenElsewhere
<1>30. x.s.fp[x.s.file[i].f].mode = m
  BY <1>20, <1>28
<1>31. u.file[i].rpos = s.file[i].rpos /\ u.file[i].wpos = s.file[i].wpos
  BY <1>4, <1>14, <1>15
<1> QED
  BY <1>16, <1>17, <1>23, <1>25, <1>26, <1>28, <1>29, <1>30, <1>31 DEF Switched

(* The reference may refuse a write to it then.                             *)
LEMMA TwiceOpen ==
  ASSUME TableSound(Names, Calling, {}), NEW s, NEW i, NEW n, NEW mode, Reached(s, i, n, mode), Twice(s, i, n),
         NEW o, o.name = n
  PROVE  P!MayRefuse(o)
<1>1. CASE n \in Protected
  BY <1>1 DEF P!MayRefuse
<1>2. CASE n \notin Protected
  <2>1. PICK j \in Named(s) \ {i} : s.file[j].name = n
    BY <1>2 DEF Twice
  <2>2. j \in Named(Calling) /\ StreamOf(s, j) = StreamOf(Calling, j)
    BY <2>1 DEF Reached
  <2>3. Calling.file[j].name = n
    BY <2>1, <2>2 DEF StreamOf
  <2>4. j \in P!OpenAs(n)
    BY <2>2, <2>3, OpenAsIn
  <2>5. i \in Named(Calling)
    BY <2>4 DEF Reached
  <2>6. StreamOf(s, i) = StreamOf(Calling, i) /\ s.file[i].name = n
    BY <2>5 DEF Reached
  <2>7. i \in P!OpenAs(n)
    <3>1. Calling.file[i].name = n
      BY <2>6 DEF StreamOf
    <3> QED
      BY <2>5, <3>1, OpenAsIn
  <2>8. IsFiniteSet(P!OpenAs(n))
    <3>1. PICK k \in Nat : DOMAIN Calling.file = 0 .. k - 1
      BY DEF TableSound, Typed
    <3>2. IsFiniteSet(0 .. k - 1)
      BY FS_Interval
    <3>3. P!OpenAs(n) \subseteq 0 .. k - 1
      BY <3>1, OpenAsIn DEF Named
    <3> QED
      BY <3>2, <3>3, FS_Subset
  <2>9. Cardinality({i, j}) = 2 /\ {i, j} \subseteq P!OpenAs(n)
    <3>1. IsFiniteSet({i}) /\ Cardinality({i}) = 1
      BY FS_Singleton
    <3>2. Cardinality({i} \union {j}) = 2
      BY <2>1, <3>1, FS_AddElement
    <3>3. {i} \union {j} = {i, j}
      OBVIOUS
    <3> QED
      BY <2>4, <2>7, <3>2, <3>3
  <2>10. 2 <= Cardinality(P!OpenAs(n)) /\ Cardinality(P!OpenAs(n)) \in Nat
    BY <2>8, <2>9, FS_Subset, FS_CardinalityType
  <2>11. P!Cardinality(P!OpenAs(n)) = Cardinality(P!OpenAs(n))
    BY Zenon DEF P!Cardinality, Cardinality
  <2> QED
    BY <2>10, <2>11 DEF P!MayRefuse
<1> QED
  BY <1>1, <1>2

(* What preparing a write does.                                             *)
WriteFrom(d, wpos) == IF wpos = -1 THEN Len(d) ELSE wpos
ToWrite(s, i, n, x) ==
  /\ TableSound(Names, x.s, {}) /\ Like(s, x.s, i) /\ Seekable(x.s) /\ x.s.data = s.data
  /\ x.s.file[i].rpos = s.file[i].rpos /\ ~ Failed(x.s, i)
  /\ ~ x.ok => Seeks(s, i) /\ Twice(s, i, n)
  /\ ~ (x.ok /\ Seeks(s, i)) => x.s.file[i].wpos = s.file[i].wpos
  /\ x.ok => x.s.fp[x.s.file[i].f].mode # "r"
  /\ x.ok /\ Seeks(s, i) =>
       /\ x.s.file[i].wpos = WriteFrom(s.data[n], s.file[i].wpos)
       /\ x.s.fp[x.s.file[i].f].pos = WriteFrom(s.data[n], s.file[i].wpos)
       /\ WriteFrom(s.data[n], s.file[i].wpos) \in Nat
LEMMA NamedStream ==
  ASSUME NEW s, TableSound(Names, s, {}), NEW i \in Named(s), NEW n \in Names, n = s.file[i].name
  PROVE  /\ s.file[i].f \in DOMAIN s.fp /\ s.fp[s.file[i].f].name = n
         /\ "WRITE" \in s.file[i].flags <=> s.fp[s.file[i].f].mode # "r"
         /\ n \in Sysout => "WRITE" \in s.file[i].flags
<1>1. n \notin Std
  BY StdNamesApart
<1>2. Has(s, i, s.file[i].f)
  BY DEF TableSound, Owned
<1>3. ~ SharedStderr(s, i)
  BY <1>1 DEF SharedStderr, Std
<1>4. /\ s.file[i].f \in DOMAIN s.fp /\ s.fp[s.file[i].f].name = n
      /\ "WRITE" \in s.file[i].flags <=> s.fp[s.file[i].f].mode # "r"
  BY <1>2, <1>3 DEF Has
<1>5. n \in Sysout => s.fp[s.file[i].f].mode # "r"
  BY <1>4 DEF TableSound, Allowed
<1> QED
  BY <1>4, <1>5

LEMMA PrepWriteDoes ==
  ASSUME NEW s, TableSound(Names, s, {}), Seekable(s), NEW i \in Named(s), NEW n \in Names, n = s.file[i].name,
         s.data = [s.data EXCEPT ![n] = s.data[n]], Faults = {}, NEW x \in prep_write(s, i)
  PROVE  ToWrite(s, i, n, x)
<1>1. PICK a : a = Ready(s, i)
  OBVIOUS
<1>2. PICK r \in (IF "WRITE" \in s.file[i].flags THEN {[s |-> a, ok |-> TRUE]} ELSE reopen_update(a, i)) :
        x = [r EXCEPT !.s = IF r.ok /\ Seeks(s, i) THEN AtWpos(@, i) ELSE @]
  BY Zenon, <1>1 DEF prep_write
<1>3. /\ Moves(s, a, i) /\ a.data = s.data /\ a.fp = s.fp /\ ~ Failed(a, i)
      /\ a.file[i].rpos = s.file[i].rpos /\ a.file[i].wpos = s.file[i].wpos
  BY <1>1, ReadyDoes
<1>4. TableSound(Names, a, {}) /\ i \in Named(a) /\ a.file[i].name = n
  <2>1. Kept(s, a)
    BY <1>3 DEF Moves
  <2> QED
    BY <2>1, KeptLive
<1>5. Like(s, a, i) /\ Seekable(a) /\ (Seeks(a, i) <=> Seeks(s, i))
  BY <1>3, MovesLike, MovesSeekable DEF Moves
<1>6. "WRITE" \in a.file[i].flags <=> "WRITE" \in s.file[i].flags
  <2>1. Kept(s, a) /\ i \in DOMAIN s.file
    BY <1>3, Live DEF Moves
  <2> QED
    BY <2>1 DEF Kept
<1>7. /\ r = [s |-> r.s, ok |-> r.ok] /\ TableSound(Names, r.s, {}) /\ Seekable(r.s) /\ Like(a, r.s, i)
      /\ r.s.data = a.data /\ r.s.file[i].rpos = a.file[i].rpos /\ r.s.file[i].wpos = a.file[i].wpos
      /\ Failed(r.s, i) = Failed(a, i)
      /\ (r.ok => r.s.fp[r.s.file[i].f].mode # "r") /\ (~ r.ok => Seeks(s, i) /\ Twice(a, i, n))
  <2>1. CASE "WRITE" \in s.file[i].flags
    <3>1. r = [s |-> a, ok |-> TRUE]
      BY <1>2, <2>1
    <3>2. r.s = a /\ r.ok = TRUE
      BY <3>1
    <3>3. a.fp[a.file[i].f].mode # "r"
      BY <1>4, <1>6, <2>1, NamedStream
    <3>4. Like(a, a, i)
      BY DEF Like
    <3> QED
      BY <1>4, <1>5, <3>1, <3>2, <3>3, <3>4
  <2>2. CASE "WRITE" \notin s.file[i].flags
    <3>1. r \in reopen_update(a, i)
      BY <1>2, <2>2
    <3>2. "WRITE" \notin a.file[i].flags /\ n = a.file[i].name /\ a.data = [a.data EXCEPT ![n] = a.data[n]]
      BY <1>3, <1>4, <1>6, <2>2
    <3>3. Switched(a, i, n, r)
      BY <1>4, <1>5, <3>1, <3>2, ReopenDoes
    <3>4. Seeks(s, i)
      <4>1. n \notin Sysout /\ n \notin Std
        BY <2>2, NamedStream, StdNamesApart
      <4> QED
        BY <4>1 DEF Seekable
    <3> QED
      BY <3>3, <3>4 DEF Switched
  <2> QED
    BY <2>1, <2>2
<1>8. PICK b : b = r.s
  OBVIOUS
<1>9. Like(s, b, i)
  BY <1>5, <1>7, <1>8, LikeThen
<1>10. ~ r.ok => Twice(s, i, n)
  <2>1. Named(a) = Named(s) /\ \A h \in Named(s) : a.file[h].name = s.file[h].name
    BY <1>5 DEF Like
  <2> QED
    BY <1>7, <2>1 DEF Twice
<1>11. ~ Failed(b, i) /\ b.data = s.data /\ b.file[i].rpos = s.file[i].rpos /\ b.file[i].wpos = s.file[i].wpos
  BY <1>3, <1>7, <1>8 DEF Failed
<1>12. i \in Named(b) /\ b.file[i].name = n /\ (Seeks(b, i) <=> Seeks(s, i))
  BY <1>9 DEF Like
<1>13. TableSound(Names, b, {}) /\ Seekable(b)
  BY <1>7, <1>8
<1>14. CASE ~ (r.ok /\ Seeks(s, i))
  <2>1. x.s = b /\ x.ok = r.ok
    BY <1>2, <1>7, <1>8, <1>14
  <2> QED
    BY <1>7, <1>8, <1>9, <1>10, <1>11, <1>13, <1>14, <2>1 DEF ToWrite
<1>15. CASE r.ok /\ Seeks(s, i)
  <2>1. PICK t : t = AtWpos(b, i)
    OBVIOUS
  <2>2. x.s = t /\ x.ok = r.ok
    BY <1>2, <1>7, <1>8, <1>15, <2>1
  <2>3. PICK f, w : f = b.file[i].f /\ w = WriteFrom(s.data[n], s.file[i].wpos)
    BY Zenon
  <2>4. Content(b, f) = s.data[n]
    <3>1. n = b.file[i].name
      BY <1>12
    <3>2. b.fp[b.file[i].f].name = n
      BY <1>12, <1>13, <3>1, NamedStream
    <3> QED
      BY <1>11, <2>3, <3>2 DEF Content
  <2>5. w = IF b.file[i].wpos = -1 THEN Len(Content(b, f)) ELSE b.file[i].wpos
    BY Zenon, <1>11, <2>3, <2>4 DEF WriteFrom
  <2>6. /\ Moves(b, t, i) /\ t.data = b.data /\ Failed(t, i) = Failed(b, i)
        /\ t.file[i].rpos = b.file[i].rpos /\ t.file[i].wpos = w /\ t.fp[f].pos = w /\ w \in Nat
    BY <1>12, <1>13, <2>1, <2>3, <2>5, AtWposDoes
  <2>7. TableSound(Names, t, {}) /\ t.file[i].f = f /\ t.fp[f].mode = b.fp[f].mode
    <3>1. Kept(b, t)
      BY <2>6 DEF Moves
    <3>2. TableSound(Names, t, {}) /\ t.file[i].f = f
      BY <1>12, <1>13, <2>3, <3>1, KeptLive
    <3>3. f \in DOMAIN b.fp
      BY <1>12, <1>13, <2>3, Live
    <3> QED
      BY <3>1, <3>2, <3>3 DEF Kept
  <2>8. Like(b, t, i) /\ Seekable(t)
    BY <1>12, <1>13, <2>6, MovesLike, MovesSeekable
  <2>9. Like(s, t, i)
    BY <1>9, <2>8, LikeThen
  <2>10. ~ Failed(t, i) /\ t.data = s.data /\ t.file[i].rpos = s.file[i].rpos
    BY <1>11, <2>6 DEF Failed
  <2>11. t.fp[t.file[i].f].mode # "r" /\ t.fp[t.file[i].f].pos = w
    BY <1>7, <1>8, <1>15, <2>3, <2>6, <2>7
  <2> QED
    BY <1>15, <2>2, <2>3, <2>6, <2>7, <2>8, <2>9, <2>10, <2>11 DEF ToWrite
<1> QED
  BY <1>14, <1>15


(* What a call with a text comes to: the state t it ends in, but for the mark *)
(* of a failure, the stream with the write position q and the data set d.    *)
OutEnd(s, i, n, b, t, c, d, q) ==
  /\ Reached(s, i, n, WriteMode(n)) /\ TableSound(Names, b, {}) /\ Like(s, b, i) /\ Seekable(b)
  /\ Moves(b, t, i) /\ Outcome(t, i, c) /\ t.data = [s.data EXCEPT ![n] = d]
  /\ t.file[i].rpos = s.file[i].rpos /\ t.file[i].wpos = q
  /\ c.handle = i /\ c.name = n /\ c.what \in {"LINEOUT", "CHAROUT"} /\ c.text # Absent
  /\ c.raised = TRUE \/ (c.raised = FALSE /\ ~ Failed(t, i))
OutMade(s, i, n, c, d, q, o) ==
  /\ OutCalled(o, s.data[n], OutText(c.what, c.text)) /\ call' = c
  /\ P!Leaves(SetWrite(o, q, c.raised), d)
  /\ q = s.file[i].wpos => P!Leaves(SetFailed(o, c.raised), d)
  /\ Seekable(Calling') /\ DataIs'
LEMMA OutEnds ==
  ASSUME TableSound(Names, Calling, {}), DataIs, NEW s, NEW i, NEW n, NEW b, NEW t, NEW c, NEW d, NEW q,
         OutEnd(s, i, n, b, t, c, d, q), NEW o, o = StreamOf(s, i)
  PROVE  OutMade(s, i, n, c, d, q, o)
<1>0. /\ Reached(s, i, n, WriteMode(n)) /\ TableSound(Names, b, {}) /\ Like(s, b, i) /\ Seekable(b)
      /\ Moves(b, t, i) /\ Outcome(t, i, c) /\ t.data = [s.data EXCEPT ![n] = d]
      /\ t.file[i].rpos = s.file[i].rpos /\ t.file[i].wpos = q
      /\ c.handle = i /\ c.name = n /\ c.what \in {"LINEOUT", "CHAROUT"} /\ c.text # Absent
      /\ c.raised = TRUE \/ (c.raised = FALSE /\ ~ Failed(t, i))
  BY Zenon DEF OutEnd
<1>1. PICK mode : mode = WriteMode(n) /\ Reached(s, i, n, mode)
  BY <1>0
<1>2. i \in Named(s) /\ i \in Named(b)
  BY <1>0, <1>1, ReachedIs DEF Like
<1>3. PICK v : Turned(b, t, i, c, v)
  BY <1>0, <1>2, OutcomeIs
<1>4. /\ Become(v, c) /\ Moves(b, v, i) /\ v.data = t.data
      /\ v.file[i].rpos = t.file[i].rpos /\ v.file[i].wpos = t.file[i].wpos
      /\ (c.raised => Failed(v, i)) /\ (~ c.raised => Failed(v, i) = Failed(t, i))
  BY Zenon, <1>3 DEF Turned
<1>5. Failed(v, i) = c.raised
  <2>1. CASE c.raised = TRUE
    BY <1>4, <2>1 DEF Failed
  <2>2. CASE c.raised = FALSE /\ ~ Failed(t, i)
    <3>1. Failed(v, i) = Failed(t, i)
      BY <1>4, <2>2
    <3>2. Failed(t, i) = FALSE
      BY <2>2 DEF Failed
    <3> QED
      BY <2>2, <3>1, <3>2
  <2> QED
    BY <1>0, <2>1, <2>2
<1>6. Like(s, v, i) /\ Seekable(v)
  BY <1>0, <1>2, <1>4, MovesLike, MovesSeekable, LikeThen
<1>7. v.data = [s.data EXCEPT ![n] = d]
  BY <1>0, <1>4
<1>8. P!Leaves(StreamOf(v, i), d) /\ Seekable(Calling') /\ DataIs'
  BY <1>0, <1>1, <1>4, <1>6, <1>7, LeavesAre
<1>9. /\ StreamOf(v, i) = SetWrite(o, q, c.raised)
      /\ q = s.file[i].wpos => StreamOf(v, i) = SetFailed(o, c.raised)
  <2>1. PICK y, x : y = s.file[i].rpos /\ x = c.raised
    BY Zenon
  <2>2. v.file[i].rpos = y /\ v.file[i].wpos = q /\ Failed(v, i) = x /\ y = s.file[i].rpos
    BY <1>0, <1>4, <1>5, <2>1
  <2>3. /\ StreamOf(v, i) = SetWrite(o, q, x)
        /\ q = s.file[i].wpos => StreamOf(v, i) = SetFailed(o, x)
    BY <1>2, <1>6, <2>2, StreamChange
  <2> QED
    BY <2>1, <2>3
<1>10. P!Written = StreamOf(s, i) /\ P!MayOpen("w") /\ P!Text(data[n]) = s.data[n]
  BY <1>0, <1>4, WrittenIs
<1>11. call' = c
  BY <1>4 DEF Become
<1>12. o.name = n
  BY <1>1, StreamSees
<1>13. call'.text # P!Absent
  BY <1>0, <1>11 DEF Absent
<1>14. OutCalled(o, s.data[n], OutText(c.what, c.text))
  BY Zenon, <1>0, <1>10, <1>11, <1>12, <1>13 DEF OutCalled
<1> QED
  BY Zenon, <1>8, <1>9, <1>11, <1>14 DEF OutMade

(* A stream with one position, and a line that is not there.                *)
LEMMA OutWhole ==
  ASSUME NEW s, NEW i, NEW n, NEW c, NEW d, NEW o, NEW q, OutMade(s, i, n, c, d, q, o),
         NEW mode, Reached(s, i, n, mode), o = StreamOf(s, i), ~ Seeks(s, i), q = s.file[i].wpos, d = s.data[n],
         c.value = 0, c.raised = FALSE
  PROVE  Meets
<1>1. ~ o.positions
  <2>1. o.positions = Seeks(s, i)
    BY StreamSees
  <2> QED
    BY <2>1
<1>2. PICK t : t = OutText(c.what, c.text)
  BY Zenon
<1>3. OutCalled(o, d, t) /\ call' = c /\ P!Leaves(SetFailed(o, FALSE), d) /\ Seekable(Calling') /\ DataIs'
  BY Zenon, <1>2 DEF OutMade
<1>4. P!Leaves([o EXCEPT !.failed = FALSE], d)
  BY Zenon, <1>3 DEF SetFailed
<1>5. call'.value = 0 /\ ~ call'.raised
  BY <1>3
<1>6. P!CharLineOut
  BY <1>1, <1>3, <1>4, <1>5, OutOnce
<1> QED
  BY <1>3, <1>6 DEF Meets, P!Next
LEMMA OutRefused ==
  ASSUME NEW s, NEW i, NEW n, NEW c, NEW d, NEW o, NEW q, OutMade(s, i, n, c, d, q, o),
         NEW mode, Reached(s, i, n, mode), o = StreamOf(s, i), Seeks(s, i), q = s.file[i].wpos, d = s.data[n],
         c.value = 1, c.raised = TRUE, WriteStarts(c.what, c.start, d, s.file[i].wpos) = {}
  PROVE  Meets
<1>1. o.positions /\ o.wpos = s.file[i].wpos
  <2>1. o.positions = Seeks(s, i)
    BY StreamSees
  <2>2. o.wpos = s.file[i].wpos
    BY StreamSees
  <2> QED
    BY <2>1, <2>2
<1>2. PICK t : t = OutText(c.what, c.text)
  BY Zenon
<1>3. OutCalled(o, d, t) /\ call' = c /\ P!Leaves(SetFailed(o, TRUE), d) /\ Seekable(Calling') /\ DataIs'
  BY Zenon, <1>2 DEF OutMade
<1>4. P!Leaves([o EXCEPT !.failed = TRUE], d)
  BY Zenon, <1>3 DEF SetFailed
<1>5. call'.value = 1 /\ call'.raised
  BY <1>3
<1>6. P!Starts(o, d) = {}
  BY Zenon, <1>1, <1>3, StartsAre
<1>7. P!CharLineOut
  BY <1>1, <1>3, <1>4, <1>5, <1>6, OutNowhere
<1> QED
  BY <1>3, <1>7 DEF Meets, P!Next

(* A write of the first k characters of t at p, or at the end.              *)
LeftOver(func, t, k) == IF func = "CHAROUT" THEN Len(t) - k ELSE IF k = Len(t) THEN 0 ELSE 1
OutPart(s, i, n, c, d, q, p, k, at, t) ==
  /\ Seeks(s, i) /\ t = OutText(c.what, c.text) /\ t \in Seq(Chars) /\ Len(t) # 0
  /\ p \in WriteStarts(c.what, c.start, s.data[n], s.file[i].wpos) /\ k \in 0 .. Len(t)
  /\ at > Len(s.data[n]) => k = 0
  /\ at = IF Appends(s, i) THEN Len(s.data[n]) ELSE p
  /\ k < Len(t) => Twice(s, i, n) \/ n \in Members \/ at > Len(s.data[n])
  /\ c.value = LeftOver(c.what, t, k) /\ c.raised = (c.value # 0)
  /\ q \in (IF k > 0 \/ at <= Len(s.data[n]) THEN {at + k} ELSE {p}) \union (IF k = 0 THEN {p, s.file[i].wpos} ELSE {})
  /\ d = P!Put(s.data[n], at, SubSeq(t, 1, k))
LEMMA OutPartMeets ==
  ASSUME TableSound(Names, Calling, {}), NEW s, NEW i, NEW n, NEW c, NEW d, NEW o, NEW q, OutMade(s, i, n, c, d, q, o),
         NEW mode, Reached(s, i, n, mode), o = StreamOf(s, i),
         NEW p, NEW k, NEW at, NEW t, OutPart(s, i, n, c, d, q, p, k, at, t)
  PROVE  Meets
<1>1. PICK e : e = s.data[n]
  OBVIOUS
<1>2. o.name = n /\ o.wpos = s.file[i].wpos /\ o.positions = Seeks(s, i) /\ o.appends = Appends(s, i)
  BY StreamSees
<1>3. /\ Seeks(s, i) /\ t = OutText(c.what, c.text) /\ t \in Seq(Chars) /\ Len(t) # 0
      /\ p \in WriteStarts(c.what, c.start, e, s.file[i].wpos) /\ k \in 0 .. Len(t)
      /\ at > Len(e) => k = 0
      /\ at = IF Appends(s, i) THEN Len(e) ELSE p
      /\ k < Len(t) => Twice(s, i, n) \/ n \in Members \/ at > Len(e)
      /\ c.value = LeftOver(c.what, t, k) /\ c.raised = (c.value # 0)
      /\ q \in (IF k > 0 \/ at <= Len(e) THEN {at + k} ELSE {p}) \union (IF k = 0 THEN {p, s.file[i].wpos} ELSE {})
      /\ d = P!Put(e, at, SubSeq(t, 1, k))
  BY Zenon, <1>1 DEF OutPart
<1>4. OutCalled(o, e, t) /\ call' = c /\ P!Leaves(SetWrite(o, q, c.raised), d) /\ Seekable(Calling') /\ DataIs'
  BY Zenon, <1>1, <1>3 DEF OutMade
<1>5. P!Leaves([o EXCEPT !.wpos = q, !.failed = call'.raised], P!Put(e, at, SubSeq(t, 1, k)))
  BY Zenon, <1>3, <1>4 DEF SetWrite
<1>6. p \in P!Starts(o, e)
  <2>1. call' = c
    BY <1>4
  <2>2. P!Starts(o, e) = WriteStarts(c.what, c.start, e, o.wpos)
    BY <2>1, StartsAre
  <2> QED
    BY Zenon, <1>2, <1>3, <2>2
<1>7. o.positions
  BY <1>2, <1>3 DEF Seeks
<1>8. Twice(s, i, n) \/ n \in Members => P!MayRefuse(o)
  <2>1. n \in Members => P!MayRefuse(o)
    BY <1>2 DEF P!MayRefuse
  <2>2. Twice(s, i, n) => P!MayRefuse(o)
    BY <1>2, TwiceOpen
  <2> QED
    BY <2>1, <2>2
<1>9. k < Len(t) => P!MayRefuse(o) \/ at > Len(e)
  BY Zenon, <1>3, <1>8
<1>10. call'.value = IF call'.what = "CHAROUT" THEN Len(t) - k ELSE IF k = Len(t) THEN 0 ELSE 1
  BY Zenon, <1>3, <1>4 DEF LeftOver
<1>11. at = IF o.appends THEN Len(e) ELSE p
  BY Zenon, <1>2, <1>3
<1>12. q \in (IF k > 0 \/ at <= Len(e) THEN {at + k} ELSE {p}) \union (IF k = 0 THEN {p, o.wpos} ELSE {})
  BY Zenon, <1>2, <1>3
<1>13. ASSUME call'.raised = (call'.value # 0 \/ OutBeyond(e)) PROVE Meets
  <2>1. OutWrites(o, e, t, p, k, at, q)
    BY Zenon, <1>5, <1>9, <1>10, <1>11, <1>12, <1>13 DEF OutWrites
  <2>2. P!CharLineOut
    BY <1>3, <1>4, <1>6, <1>7, <2>1, OutThere
  <2> QED
    BY <1>4, <2>2 DEF Meets, P!Next
<1>14. call'.raised = (call'.value # 0)
  BY Zenon, <1>3, <1>4
<1>15. CASE ~ OutBeyond(e)
  <2>1. call'.raised = (call'.value # 0 \/ OutBeyond(e))
    BY Zenon, <1>14, <1>15
  <2> QED
    BY <1>13, <2>1
<1>16. CASE call'.value # 0
  <2>1. call'.raised = (call'.value # 0 \/ OutBeyond(e))
    BY Zenon, <1>14, <1>16
  <2> QED
    BY <1>13, <2>1
<1>17. CASE OutBeyond(e) /\ call'.value = 0
  <2>1. call'.what = "CHAROUT" /\ P!Beyond(e)
    BY <1>17 DEF OutBeyond
  <2>2. e \in Seq(Chars) /\ Len(e) \in Nat /\ Len(t) \in Nat
    <3>1. e \in Seq(Chars)
      BY <1>1, ReachedStream
    <3> QED
      BY <1>3, <3>1, LenProperties
  <2>3. k = Len(t) /\ k > 0 /\ t = call'.text
    <3>1. Len(t) - k = 0
      BY Zenon, <1>10, <1>17, <2>1
    <3>2. t = call'.text
      <4>1. call' = c /\ call'.what # "LINEOUT"
        BY <1>4, <2>1
      <4> QED
        BY Zenon, <1>3, <4>1 DEF OutText
    <3> QED
      BY <1>3, <2>2, <3>1, <3>2
  <2>4. p = call'.start - 1 /\ p > Len(e)
    <3>1. call'.start # P!NONE /\ call'.start - 1 > Len(e)
      BY <2>1 DEF P!Beyond
    <3>2. P!Starts(o, e) = {call'.start - 1}
      BY <2>1, <3>1 DEF P!Starts
    <3> QED
      BY <1>6, <3>1, <3>2
  <2>5. o.appends /\ at = Len(e)
    <3>1. ~ (at > Len(e))
      BY <1>3, <2>3
    <3> QED
      BY <1>11, <2>4, <3>1
  <2>6. d = e \o call'.text /\ q = Len(e \o call'.text)
    <3>1. q = Len(e) + Len(t)
      BY <1>12, <2>2, <2>3, <2>5
    <3>2. SubSeq(t, 1, Len(t)) = t /\ SubSeq(e, 1, Len(e)) = e /\ t # << >>
      BY <1>3, <2>2
    <3>3. SubSeq(e, Len(e) + Len(t) + 1, Len(e)) = << >>
      <4>1. PICK m \in Nat, l \in Nat : m = Len(e) + Len(t) + 1 /\ l = Len(e) /\ m > l
        BY <2>2
      <4>2. SubSeq(e, m, l) = << >>
        BY <2>2, <4>1
      <4> QED
        BY Zenon, <4>1, <4>2
    <3>4. d = P!Put(e, Len(e), t)
      BY <1>3, <2>3, <2>5, <3>2
    <3>5. d = e \o t \o << >>
      BY Zenon, <3>2, <3>3, <3>4 DEF P!Put
    <3>6. e \o t \o << >> = e \o t /\ Len(e \o t) = Len(e) + Len(t)
      BY <1>3, <2>2
    <3> QED
      BY <2>3, <3>1, <3>5, <3>6
  <2>7. ~ call'.raised
    BY <1>14, <1>17
  <2>8. P!Leaves([o EXCEPT !.wpos = Len(e \o call'.text), !.failed = FALSE], e \o call'.text)
    <3>1. c.raised = FALSE
      BY <1>4, <1>14, <1>17
    <3> QED
      BY Zenon, <1>4, <2>6, <3>1 DEF SetWrite
  <2>9. MissesEnd
    <3>1. call'.text # P!Absent /\ P!MayOpen("w") /\ P!Written = o /\ P!Text(data[o.name]) = e
      BY Zenon, <1>4 DEF OutCalled
    <3> QED
      BY Zenon, <1>7, <1>17, <2>1, <2>5, <2>7, <2>8, <3>1 DEF MissesEnd, Absent
  <2> QED
    BY <1>4, <2>9 DEF Meets, Departs
<1> QED
  BY <1>15, <1>16, <1>17


(* What LINEOUT and CHAROUT do, their local names replaced.                 *)
OutCall(u, r, func, text, start, want) ==
  [About(u, r) EXCEPT !.what = func, !.start = start, !.text = text, !.value = want, !.raised = TRUE]
OutFrom(u, i, func, start) == IF start = LSTARTPOS THEN [s |-> u.s, ok |-> TRUE] ELSE set_wpos(u.s, i, func, start)
Wants(func, text) == IF func = "LINEOUT" THEN 1 ELSE Len(text)
Remains(func, want, t, k) == IF func = "CHAROUT" THEN want - k ELSE IF k = Len(t) THEN 0 ELSE 1
Settled(c, v) == [c EXCEPT !.value = v, !.raised = v # 0]
Goes(b, i, m, c, func, want, t) ==
  \E take \in Taken(m, Len(t)) :
  \E out \in {fwrite(b, b.file[i].f, t, take)} : Outcome(done_write(out.s, i), i, Settled(c, Remains(func, want, t, out.n)))
OutCases(i, s, w, c, func, want, t) ==
  \/ ~ w.ok /\ Outcome(w.s, i, c)
  \/ /\ w.ok
     /\ \E ready \in prep_write(w.s, i) :
          \/ ~ ready.ok /\ Outcome(ready.s, i, c)
          \/ /\ ready.ok
             /\ \E take \in Taken(s.file[i].name, Len(t)) :
                \E out \in {fwrite(ready.s, ready.s.file[i].f, t, take)} :
                  Outcome(done_write(out.s, i), i, Settled(c, Remains(func, want, t, out.n)))
LEMMA OutputIs ==
  ASSUME NEW u, NEW r, NEW func, NEW text, NEW start, Output(u, r, func, text, start),
         NEW i, i = u.i, NEW s, s = u.s, NEW t, t = OutText(func, text), NEW want, want = Wants(func, text),
         NEW w, w = OutFrom(u, i, func, start), NEW c, c = OutCall(u, r, func, text, start, want)
  PROVE  OutCases(i, s, w, c, func, want, t)
<1>1. OutCases(u.i, u.s, OutFrom(u, u.i, func, start), OutCall(u, r, func, text, start, Wants(func, text)), func,
               Wants(func, text), OutText(func, text))
  BY Zenon DEF Output, OutCases, OutText, Wants, OutFrom, OutCall, Remains, Settled
<1> QED
  BY Zenon, <1>1

(* Where a call with a text starts.                                         *)
OutAt(s, i, w, starts, d) ==
  /\ Moves(s, w.s, i) /\ w.s.data = s.data /\ w.s.file[i].rpos = s.file[i].rpos
  /\ \/ ~ Seeks(s, i) /\ w.ok = TRUE /\ w.s.file[i].wpos = s.file[i].wpos
     \/ /\ Seeks(s, i) /\ w.ok = TRUE /\ WriteFrom(d, w.s.file[i].wpos) \in starts
        /\ w.s.file[i].wpos \in {s.file[i].wpos, WriteFrom(d, w.s.file[i].wpos)}
     \/ Seeks(s, i) /\ w.ok = FALSE /\ w.s.file[i].wpos = s.file[i].wpos /\ starts = {}
LEMMA OutAtIs ==
  ASSUME NEW u, NEW s, s = u.s, NEW i, NEW n, NEW mode, Reached(s, i, n, mode), NEW func \in {"LINEOUT", "CHAROUT"},
         NEW start \in Nat, NEW w, w = OutFrom(u, i, func, start), NEW d, d = s.data[n],
         NEW starts, starts = WriteStarts(func, start, d, s.file[i].wpos)
  PROVE  OutAt(s, i, w, starts, d)
<1>1. P!NONE = 0 /\ LSTARTPOS = 0 /\ P!END = -1
  BY DEF P!NONE, LSTARTPOS, P!END
<1>2. CASE start = 0
  <2>1. w = [s |-> s, ok |-> TRUE]
    BY Zenon, <1>1, <1>2 DEF OutFrom
  <2>2. w.s = s /\ w.ok = TRUE
    BY <2>1
  <2>3. Moves(s, s, i)
    BY ReachedIs, MovesSelf
  <2>4. PICK v : v = s.file[i].wpos
    OBVIOUS
  <2>5. WriteFrom(d, v) \in starts
    <3>1. starts = {WriteFrom(d, v)}
      BY Zenon, <1>1, <1>2, <2>4 DEF WriteStarts, WriteFrom
    <3> QED
      BY <3>1
  <2> QED
    BY Zenon, <2>2, <2>3, <2>4, <2>5 DEF OutAt
<1>3. CASE start # 0
  <2>1. w = set_wpos(s, i, func, start) /\ start \in Nat \ {0}
    BY <1>1, <1>3 DEF OutFrom
  <2>2. Positioned(s, i, w, starts)
    BY <2>1, SetWposDoes
  <2>3. w.s.file[i].wpos \in Nat => WriteFrom(d, w.s.file[i].wpos) = w.s.file[i].wpos
    BY DEF WriteFrom
  <2>4. PICK v, x : v = w.s.file[i].wpos /\ x = WriteFrom(d, v)
    BY Zenon
  <2> QED
    BY Zenon, <2>2, <2>3, <2>4 DEF OutAt, Positioned
<1> QED
  BY <1>2, <1>3


(* The call, and the stream once it can be written.                         *)
OutBegin(s, i, n, c, func, start, d, t, want, starts) ==
  /\ Reached(s, i, n, WriteMode(n)) /\ d = s.data[n]
  /\ func \in {"LINEOUT", "CHAROUT"} /\ t \in Seq(Chars) /\ Len(t) \in Nat /\ Len(t) # 0
  /\ want = (IF func = "CHAROUT" THEN Len(t) ELSE 1)
  /\ starts = WriteStarts(func, start, d, s.file[i].wpos)
  /\ c.handle = i /\ c.name = n /\ c.what = func /\ c.start = start /\ c.text # Absent
  /\ t = OutText(func, c.text) /\ c.value = want /\ c.raised = TRUE
OutPrep(s, i, n, b, ok, starts, p) ==
  /\ TableSound(Names, b, {}) /\ Like(s, b, i) /\ Seekable(b) /\ b.data = s.data
  /\ b.file[i].rpos = s.file[i].rpos /\ ~ Failed(b, i) /\ i \in Named(b) /\ b.file[i].name = n
  /\ Seeks(b, i) = Seeks(s, i) /\ Appends(b, i) = Appends(s, i)
  /\ \/ ~ Seeks(s, i) /\ ok /\ b.file[i].wpos = s.file[i].wpos
     \/ Seeks(s, i) /\ ~ ok /\ Twice(s, i, n) /\ p \in starts /\ b.file[i].wpos \in {s.file[i].wpos, p}
     \/ /\ Seeks(s, i) /\ ok /\ p \in Nat /\ p \in starts
        /\ b.fp[b.file[i].f].mode # "r" /\ b.file[i].wpos = p /\ b.fp[b.file[i].f].pos = p
LEMMA OutReady ==
  ASSUME Faults = {}, NEW s, NEW i, NEW n, NEW mode, Reached(s, i, n, mode), NEW w, NEW starts, NEW d, d = s.data[n],
         OutAt(s, i, w, starts, d), w.ok, NEW x \in prep_write(w.s, i),
         NEW p, p = WriteFrom(d, w.s.file[i].wpos), NEW b, b = x.s, NEW ok, ok = x.ok
  PROVE  OutPrep(s, i, n, b, ok, starts, p)
<1>1. PICK a : a = w.s
  OBVIOUS
<1>2. /\ Moves(s, a, i) /\ a.data = s.data /\ a.file[i].rpos = s.file[i].rpos
      /\ \/ ~ Seeks(s, i) /\ w.ok = TRUE /\ a.file[i].wpos = s.file[i].wpos
         \/ Seeks(s, i) /\ w.ok = TRUE /\ p \in starts /\ a.file[i].wpos \in {s.file[i].wpos, p}
         \/ Seeks(s, i) /\ w.ok = FALSE /\ a.file[i].wpos = s.file[i].wpos /\ starts = {}
  BY Zenon, <1>1 DEF OutAt
<1>3. /\ TableSound(Names, s, {}) /\ Seekable(s) /\ i \in Named(s) /\ n \in Names /\ s.file[i].name = n
      /\ s.data = [s.data EXCEPT ![n] = s.data[n]]
  BY ReachedIs, ReachedData
<1>4. TableSound(Names, a, {}) /\ i \in Named(a) /\ a.file[i].name = n
  <2>1. Kept(s, a)
    BY <1>2 DEF Moves
  <2> QED
    BY <1>3, <2>1, KeptLive
<1>5. Like(s, a, i) /\ Seekable(a)
  BY <1>2, <1>3, MovesLike, MovesSeekable
<1>6. a.data = [a.data EXCEPT ![n] = a.data[n]] /\ a.data[n] = d /\ n = a.file[i].name
  BY <1>2, <1>3, <1>4
<1>7. x \in prep_write(a, i)
  BY <1>1
<1>8. ToWrite(a, i, n, x)
  BY <1>3, <1>4, <1>5, <1>6, <1>7, PrepWriteDoes
<1>9. PICK v : v = a.file[i].wpos /\ p = WriteFrom(d, v)
  BY <1>1
<1>10. /\ TableSound(Names, b, {}) /\ Like(a, b, i) /\ Seekable(b) /\ b.data = a.data
       /\ b.file[i].rpos = a.file[i].rpos /\ ~ Failed(b, i)
       /\ ~ ok => Seeks(a, i) /\ Twice(a, i, n)
       /\ ~ (ok /\ Seeks(a, i)) => b.file[i].wpos = v
       /\ ok => b.fp[b.file[i].f].mode # "r"
       /\ ok /\ Seeks(a, i) => b.file[i].wpos = p /\ b.fp[b.file[i].f].pos = p /\ p \in Nat
  BY Zenon, <1>6, <1>8, <1>9 DEF ToWrite
<1>11. Like(s, b, i)
  BY <1>3, <1>5, <1>10, LikeThen
<1>12. i \in Named(b) /\ b.file[i].name = n /\ Seeks(b, i) = Seeks(s, i) /\ Appends(b, i) = Appends(s, i)
  BY <1>3, <1>11 DEF Like
<1>13. Seeks(a, i) = Seeks(s, i)
  BY <1>5 DEF Like
<1>14. Twice(a, i, n) => Twice(s, i, n)
  <2>1. Named(a) = Named(s) /\ \A h \in Named(s) : a.file[h].name = s.file[h].name
    BY <1>5 DEF Like
  <2> QED
    BY <2>1 DEF Twice
<1>15. b.data = s.data /\ b.file[i].rpos = s.file[i].rpos
  BY <1>2, <1>10
<1>16. \/ ~ Seeks(s, i) /\ a.file[i].wpos = s.file[i].wpos
       \/ Seeks(s, i) /\ p \in starts /\ v \in {s.file[i].wpos, p}
  BY Zenon, <1>2, <1>9
<1>17. \/ ~ Seeks(s, i) /\ ok /\ b.file[i].wpos = s.file[i].wpos
       \/ Seeks(s, i) /\ ~ ok /\ Twice(s, i, n) /\ p \in starts /\ b.file[i].wpos \in {s.file[i].wpos, p}
       \/ /\ Seeks(s, i) /\ ok /\ p \in Nat /\ p \in starts
          /\ b.fp[b.file[i].f].mode # "r" /\ b.file[i].wpos = p /\ b.fp[b.file[i].f].pos = p
  <2>1. CASE ~ Seeks(s, i) /\ a.file[i].wpos = s.file[i].wpos
    BY Zenon, <1>9, <1>10, <1>13, <2>1
  <2>2. CASE Seeks(s, i) /\ p \in starts /\ v \in {s.file[i].wpos, p}
    <3>1. CASE ok
      BY Zenon, <1>10, <1>13, <2>2, <3>1
    <3>2. CASE ~ ok
      BY Zenon, <1>10, <1>14, <2>2, <3>2
    <3> QED
      BY <3>1, <3>2
  <2> QED
    BY <1>16, <2>1, <2>2
<1> QED
  BY Zenon, <1>10, <1>11, <1>12, <1>15, <1>17 DEF OutPrep

(* The position is nowhere, or the stream cannot be written.                *)
LEMMA OutNone ==
  ASSUME TableSound(Names, Calling, {}), DataIs, NEW s, NEW i, NEW n, NEW c, NEW func, NEW start, NEW d, NEW t,
         NEW want, NEW starts, OutBegin(s, i, n, c, func, start, d, t, want, starts),
         NEW w, OutAt(s, i, w, starts, d), ~ w.ok, NEW a, a = w.s, Outcome(a, i, c)
  PROVE  Meets
<1>1. /\ Reached(s, i, n, WriteMode(n)) /\ d = s.data[n]
      /\ func \in {"LINEOUT", "CHAROUT"} /\ want = (IF func = "CHAROUT" THEN Len(t) ELSE 1)
      /\ starts = WriteStarts(func, start, d, s.file[i].wpos)
      /\ c.handle = i /\ c.name = n /\ c.what = func /\ c.start = start /\ c.text # Absent
      /\ c.value = want /\ c.raised = TRUE
  BY Zenon DEF OutBegin
<1>2. /\ Moves(s, a, i) /\ a.data = s.data /\ a.file[i].rpos = s.file[i].rpos
      /\ Seeks(s, i) /\ a.file[i].wpos = s.file[i].wpos /\ starts = {}
  BY Zenon DEF OutAt
<1>3. func = "LINEOUT"
  <2>1. func # "LINEOUT" => starts # {}
    BY <1>1 DEF WriteStarts
  <2> QED
    BY <1>2, <2>1
<1>4. c.value = 1
  BY <1>1, <1>3
<1>5. PICK mode : mode = WriteMode(n) /\ Reached(s, i, n, mode)
  BY <1>1
<1>6. /\ TableSound(Names, s, {}) /\ Seekable(s) /\ i \in Named(s) /\ s.data = [s.data EXCEPT ![n] = d]
  BY <1>1, <1>5, ReachedIs, ReachedData
<1>7. Like(s, s, i)
  BY DEF Like
<1>8. PICK q, o : q = s.file[i].wpos /\ o = StreamOf(s, i)
  BY Zenon
<1>9. OutEnd(s, i, n, s, a, c, d, q)
  <2>1. a.data = [s.data EXCEPT ![n] = d]
    BY <1>2, <1>6
  <2> QED
    BY Zenon, <1>1, <1>2, <1>6, <1>7, <1>8, <2>1 DEF OutEnd
<1>10. OutMade(s, i, n, c, d, q, o)
  BY <1>8, <1>9, OutEnds
<1>11. WriteStarts(c.what, c.start, d, s.file[i].wpos) = {}
  BY Zenon, <1>1, <1>2
<1> QED
  BY <1>1, <1>2, <1>4, <1>5, <1>8, <1>10, <1>11, OutRefused
LEMMA OutStuck ==
  ASSUME TableSound(Names, Calling, {}), DataIs, NEW s, NEW i, NEW n, NEW c, NEW func, NEW start, NEW d, NEW t,
         NEW want, NEW starts, OutBegin(s, i, n, c, func, start, d, t, want, starts),
         NEW b, NEW ok, NEW p, OutPrep(s, i, n, b, ok, starts, p), ~ ok, Outcome(b, i, c)
  PROVE  Meets
<1>1. /\ Reached(s, i, n, WriteMode(n)) /\ d = s.data[n] /\ t \in Seq(Chars) /\ Len(t) \in Nat /\ Len(t) # 0
      /\ func \in {"LINEOUT", "CHAROUT"} /\ want = (IF func = "CHAROUT" THEN Len(t) ELSE 1)
      /\ starts = WriteStarts(func, start, d, s.file[i].wpos)
      /\ c.handle = i /\ c.name = n /\ c.what = func /\ c.start = start /\ c.text # Absent
      /\ t = OutText(func, c.text) /\ c.value = want /\ c.raised = TRUE
  BY Zenon DEF OutBegin
<1>2. /\ TableSound(Names, b, {}) /\ Like(s, b, i) /\ Seekable(b) /\ b.data = s.data
      /\ b.file[i].rpos = s.file[i].rpos /\ i \in Named(b)
      /\ Seeks(s, i) /\ Twice(s, i, n) /\ p \in starts /\ b.file[i].wpos \in {s.file[i].wpos, p}
  BY Zenon DEF OutPrep
<1>3. PICK mode : mode = WriteMode(n) /\ Reached(s, i, n, mode)
  BY <1>1
<1>4. s.data = [s.data EXCEPT ![n] = d]
  BY <1>1, <1>3, ReachedData
<1>5. Moves(b, b, i)
  BY <1>2, MovesSelf
<1>6. PICK q, o : q = b.file[i].wpos /\ o = StreamOf(s, i)
  BY Zenon
<1>7. OutEnd(s, i, n, b, b, c, d, q)
  <2>1. b.data = [s.data EXCEPT ![n] = d]
    BY <1>2, <1>4
  <2> QED
    BY Zenon, <1>1, <1>2, <1>5, <1>6, <2>1 DEF OutEnd
<1>8. OutMade(s, i, n, c, d, q, o)
  BY <1>6, <1>7, OutEnds
<1>9. PICK at : at = IF Appends(s, i) THEN Len(d) ELSE p
  OBVIOUS
<1>10. PICK k : k = 0
  OBVIOUS
<1>11. OutPart(s, i, n, c, d, q, p, k, at, t)
  <2>1. k \in 0 .. Len(t) /\ k # Len(t) /\ Len(t) - k = Len(t)
    BY <1>1, <1>10
  <2>2. c.value = LeftOver(c.what, t, k) /\ c.raised = (c.value # 0)
    <3>1. c.value = LeftOver(c.what, t, k)
      <4>1. CASE func = "CHAROUT"
        BY <1>1, <2>1, <4>1 DEF LeftOver
      <4>2. CASE func = "LINEOUT"
        BY <1>1, <2>1, <4>2 DEF LeftOver
      <4> QED
        BY <1>1, <4>1, <4>2
    <3>2. c.value # 0
      BY <1>1
    <3> QED
      BY <1>1, <3>1, <3>2
  <2>3. d = P!Put(d, at, SubSeq(t, 1, k))
    BY <1>1, <1>10, PutNothing
  <2>4. q \in (IF k > 0 \/ at <= Len(d) THEN {at + k} ELSE {p}) \union (IF k = 0 THEN {p, s.file[i].wpos} ELSE {})
    BY <1>2, <1>6, <1>10
  <2>5. p \in WriteStarts(c.what, c.start, d, s.file[i].wpos)
    BY Zenon, <1>1, <1>2
  <2>6. t = OutText(c.what, c.text) /\ Len(t) # 0 /\ k = 0
    BY <1>1, <1>10
  <2> QED
    BY Zenon, <1>1, <1>2, <1>9, <2>1, <2>2, <2>3, <2>4, <2>5, <2>6 DEF OutPart
<1> QED
  BY <1>3, <1>6, <1>8, <1>11, OutPartMeets


(* The write itself: what is taken, and where the stream is then.           *)
OutTook(b, i, n, t, take, at, x, m) ==
  /\ Moves(b, x, i) /\ x.file[i].rpos = b.file[i].rpos /\ Failed(x, i) = Failed(b, i)
  /\ n \in Sysout \union Std => m = Len(t) /\ x.data = b.data
  /\ ~ Seeks(b, i) => x.file[i].wpos = b.file[i].wpos
  /\ n \notin Sysout \union Std /\ Seeks(b, i) /\ b.fp[b.file[i].f].mode # "r" =>
       \/ /\ at > Len(b.data[n]) \/ take = 0
          /\ m = 0 /\ x.data = b.data /\ x.file[i].wpos = b.fp[b.file[i].f].pos
       \/ /\ ~ (at > Len(b.data[n]) \/ take = 0)
          /\ m = take /\ x.data = PutIn(b.data, n, b.data[n], at, t, take) /\ x.file[i].wpos = at + take
LEMMA OutTakes ==
  ASSUME NEW b, TableSound(Names, b, {}), NEW i \in Named(b), NEW n \in Names, n = b.file[i].name,
         NEW t \in Seq(Chars), NEW take \in 0 .. Len(t), NEW out, out = fwrite(b, b.file[i].f, t, take),
         NEW x, x = done_write(out.s, i), NEW at,
         at = IF Appends(b, i) THEN Len(b.data[n]) ELSE b.fp[b.file[i].f].pos
  PROVE  OutTook(b, i, n, t, take, at, x, out.n)
<1>1. PICK f : f = b.file[i].f
  OBVIOUS
<1>2. f \in DOMAIN b.fp /\ i \in DOMAIN b.file /\ b.fp[f].name = n
  BY <1>1, Live, NamedStream
<1>3. PICK e, k : e = Content(b, f) /\ k = WriteAt(b, f, e)
  BY Zenon
<1>4. e = b.data[n]
  BY <1>2, <1>3 DEF Content
<1>5. k = at
  BY <1>1, <1>2, <1>3, <1>4 DEF WriteAt, Appends
<1>6. out = fwrite(b, f, t, take)
  BY <1>1
<1>7. /\ Kept(b, out.s) /\ out.s.file = b.file
      /\ n \in Sysout \union Std => out.n = Len(t) /\ out.s = b
      /\ n \notin Sysout \union Std /\ (b.fp[f].mode = "r" \/ k > Len(e) \/ take = 0)
           => out.n = 0 /\ out.s = b
      /\ n \notin Sysout \union Std /\ ~(b.fp[f].mode = "r" \/ k > Len(e) \/ take = 0)
           => out.n = take /\ out.s.fp[f].pos = k + take /\ out.s.data = PutIn(b.data, n, e, k, t, take)
  BY <1>2, <1>3, <1>6, WriteDoes
<1>8. PICK v : v = out.s
  OBVIOUS
<1>9. TableSound(Names, v, {}) /\ i \in Named(v)
  BY <1>7, <1>8, KeptLive
<1>10. Moves(b, v, i)
  BY <1>7, <1>8 DEF Moves, Seeks
<1>11. x = done_write(v, i)
  BY <1>8
<1>12. /\ Moves(v, x, i) /\ x.data = v.data /\ Failed(x, i) = Failed(v, i)
       /\ x.file[i].rpos = v.file[i].rpos
       /\ x.file[i].wpos = IF Seeks(v, i) THEN v.fp[v.file[i].f].pos ELSE v.file[i].wpos
  BY <1>9, <1>11, DoneWriteDoes
<1>13. Moves(b, x, i)
  BY <1>10, <1>12, MovesThen
<1>14. v.file = b.file
  BY <1>7, <1>8
<1>15. x.file[i].rpos = b.file[i].rpos /\ Failed(x, i) = Failed(b, i) /\ Seeks(v, i) = Seeks(b, i)
  BY <1>12, <1>14 DEF Failed, Seeks
<1>16. x.file[i].wpos = IF Seeks(b, i) THEN v.fp[f].pos ELSE b.file[i].wpos
  BY <1>1, <1>12, <1>14, <1>15
<1>17. n \in Sysout \union Std => out.n = Len(t) /\ x.data = b.data
  BY <1>7, <1>8, <1>12
<1>18. n \notin Sysout \union Std /\ Seeks(b, i) /\ b.fp[f].mode # "r" =>
         \/ /\ at > Len(e) \/ take = 0
            /\ out.n = 0 /\ x.data = b.data /\ x.file[i].wpos = b.fp[f].pos
         \/ /\ ~ (at > Len(e) \/ take = 0)
            /\ out.n = take /\ x.data = PutIn(b.data, n, e, at, t, take) /\ x.file[i].wpos = at + take
  <2> SUFFICES ASSUME n \notin Sysout \union Std, Seeks(b, i), b.fp[f].mode # "r"
               PROVE  \/ /\ at > Len(e) \/ take = 0
                         /\ out.n = 0 /\ x.data = b.data /\ x.file[i].wpos = b.fp[f].pos
                      \/ /\ ~ (at > Len(e) \/ take = 0)
                         /\ out.n = take /\ x.data = PutIn(b.data, n, e, at, t, take) /\ x.file[i].wpos = at + take
    OBVIOUS
  <2>1. CASE at > Len(e) \/ take = 0
    <3>1. out.n = 0 /\ v = b
      BY <1>5, <1>7, <1>8, <2>1
    <3> QED
      BY <1>12, <1>16, <2>1, <3>1
  <2>2. CASE ~ (at > Len(e) \/ take = 0)
    <3>1. out.n = take /\ v.fp[f].pos = at + take /\ v.data = PutIn(b.data, n, e, at, t, take)
      BY <1>5, <1>7, <1>8, <2>2
    <3> QED
      BY <1>12, <1>16, <2>2, <3>1
  <2> QED
    BY <2>1, <2>2
<1> QED
  BY Zenon, <1>1, <1>4, <1>13, <1>15, <1>16, <1>17, <1>18 DEF OutTook

(* The call returns what is left of the text.                               *)
OutSettles(c, v, e) ==
  /\ e.handle = c.handle /\ e.name = c.name /\ e.what = c.what /\ e.start = c.start /\ e.text = c.text
  /\ e.value = v /\ e.raised = (v # 0)
LEMMA OutOne ==
  ASSUME TableSound(Names, Calling, {}), DataIs, NEW s, NEW i, NEW n, NEW c, NEW func, NEW start, NEW d, NEW t,
         NEW want, NEW starts, OutBegin(s, i, n, c, func, start, d, t, want, starts),
         NEW b, NEW ok, NEW p, OutPrep(s, i, n, b, ok, starts, p), ~ Seeks(s, i),
         NEW take, NEW at, NEW x, NEW m, OutTook(b, i, n, t, take, at, x, m),
         NEW e, OutSettles(c, Remains(func, want, t, m), e), Outcome(x, i, e)
  PROVE  Meets
<1>1. /\ Reached(s, i, n, WriteMode(n)) /\ d = s.data[n] /\ t \in Seq(Chars) /\ Len(t) \in Nat /\ Len(t) # 0
      /\ func \in {"LINEOUT", "CHAROUT"} /\ want = (IF func = "CHAROUT" THEN Len(t) ELSE 1)
      /\ starts = WriteStarts(func, start, d, s.file[i].wpos)
      /\ c.handle = i /\ c.name = n /\ c.what = func /\ c.start = start /\ c.text # Absent
      /\ t = OutText(func, c.text) /\ c.value = want /\ c.raised = TRUE
  BY Zenon DEF OutBegin
<1>2. /\ TableSound(Names, b, {}) /\ Like(s, b, i) /\ Seekable(b) /\ b.data = s.data
      /\ b.file[i].rpos = s.file[i].rpos /\ ~ Failed(b, i) /\ i \in Named(b)
      /\ Seeks(b, i) = Seeks(s, i) /\ b.file[i].wpos = s.file[i].wpos
  BY Zenon DEF OutPrep
<1>3. PICK mode : mode = WriteMode(n) /\ Reached(s, i, n, mode)
  BY <1>1
<1>4. s.data = [s.data EXCEPT ![n] = d] /\ n \in Sysout \union Std
  BY <1>1, <1>3, ReachedIs, ReachedData DEF Seekable
<1>5. /\ Moves(b, x, i) /\ x.file[i].rpos = b.file[i].rpos /\ Failed(x, i) = Failed(b, i)
      /\ m = Len(t) /\ x.data = b.data /\ x.file[i].wpos = b.file[i].wpos
  BY Zenon, <1>2, <1>4 DEF OutTook
<1>6. Remains(func, want, t, m) = 0
  BY <1>1, <1>5 DEF Remains
<1>7. /\ e.handle = i /\ e.name = n /\ e.what = func /\ e.text # Absent /\ e.value = 0 /\ e.raised = FALSE
  <2>1. /\ e.handle = c.handle /\ e.name = c.name /\ e.what = c.what /\ e.text = c.text
        /\ e.value = 0 /\ e.raised = (0 # 0)
    BY Zenon, <1>6 DEF OutSettles
  <2> QED
    BY <1>1, <2>1
<1>8. PICK q, o : q = x.file[i].wpos /\ o = StreamOf(s, i)
  BY Zenon
<1>9. OutEnd(s, i, n, b, x, e, d, q)
  <2>1. x.data = [s.data EXCEPT ![n] = d]
    BY <1>2, <1>4, <1>5
  <2>2. ~ Failed(x, i)
    BY <1>2, <1>5
  <2> QED
    BY Zenon, <1>1, <1>2, <1>5, <1>7, <1>8, <2>1, <2>2 DEF OutEnd
<1>10. OutMade(s, i, n, e, d, q, o)
  BY <1>8, <1>9, OutEnds
<1>11. q = s.file[i].wpos
  BY <1>2, <1>5, <1>8
<1> QED
  BY <1>1, <1>3, <1>7, <1>8, <1>10, <1>11, OutWhole
LEMMA OutGoes ==
  ASSUME TableSound(Names, Calling, {}), DataIs, NEW s, NEW i, NEW n, NEW c, NEW func, NEW start, NEW d, NEW t,
         NEW want, NEW starts, OutBegin(s, i, n, c, func, start, d, t, want, starts),
         NEW b, NEW ok, NEW p, OutPrep(s, i, n, b, ok, starts, p), Seeks(s, i), ok,
         NEW take \in 0 .. Len(t), take < Len(t) => n \in Members,
         NEW at, at = (IF Appends(b, i) THEN Len(b.data[n]) ELSE b.fp[b.file[i].f].pos),
         NEW x, NEW m, OutTook(b, i, n, t, take, at, x, m),
         NEW e, OutSettles(c, Remains(func, want, t, m), e), Outcome(x, i, e)
  PROVE  Meets
<1>1. /\ Reached(s, i, n, WriteMode(n)) /\ d = s.data[n] /\ t \in Seq(Chars) /\ Len(t) \in Nat /\ Len(t) # 0
      /\ func \in {"LINEOUT", "CHAROUT"} /\ want = (IF func = "CHAROUT" THEN Len(t) ELSE 1)
      /\ starts = WriteStarts(func, start, d, s.file[i].wpos)
      /\ c.handle = i /\ c.name = n /\ c.what = func /\ c.start = start /\ c.text # Absent
      /\ t = OutText(func, c.text) /\ c.value = want /\ c.raised = TRUE
  BY Zenon DEF OutBegin
<1>2. /\ TableSound(Names, b, {}) /\ Like(s, b, i) /\ Seekable(b) /\ b.data = s.data
      /\ b.file[i].rpos = s.file[i].rpos /\ ~ Failed(b, i) /\ i \in Named(b)
      /\ Seeks(b, i) = Seeks(s, i) /\ Appends(b, i) = Appends(s, i) /\ p \in Nat /\ p \in starts
      /\ b.fp[b.file[i].f].mode # "r" /\ b.file[i].wpos = p /\ b.fp[b.file[i].f].pos = p
  BY Zenon DEF OutPrep
<1>3. PICK mode : mode = WriteMode(n) /\ Reached(s, i, n, mode)
  BY <1>1
<1>4. s.data = [s.data EXCEPT ![n] = d] /\ n \notin Sysout \union Std
  BY <1>1, <1>3, ReachedIs, ReachedData DEF Seekable
<1>5. /\ Moves(b, x, i) /\ x.file[i].rpos = b.file[i].rpos /\ Failed(x, i) = Failed(b, i)
      /\ \/ /\ at > Len(b.data[n]) \/ take = 0
            /\ m = 0 /\ x.data = b.data /\ x.file[i].wpos = b.fp[b.file[i].f].pos
         \/ /\ ~ (at > Len(b.data[n]) \/ take = 0)
            /\ m = take /\ x.data = PutIn(b.data, n, b.data[n], at, t, take) /\ x.file[i].wpos = at + take
  BY Zenon, <1>2, <1>4 DEF OutTook
<1>6. b.data[n] = d /\ at = (IF Appends(s, i) THEN Len(d) ELSE p)
  BY <1>1, <1>2
<1>7. PICK q, o, k, new : q = x.file[i].wpos /\ o = StreamOf(s, i) /\ k = m /\ new = P!Put(d, at, SubSeq(t, 1, k))
  BY Zenon
<1>8. /\ k \in 0 .. Len(t) /\ (k < Len(t) => n \in Members \/ at > Len(d)) /\ (at > Len(d) => k = 0)
      /\ x.data = [s.data EXCEPT ![n] = new]
      /\ q \in (IF k > 0 \/ at <= Len(d) THEN {at + k} ELSE {p}) \union (IF k = 0 THEN {p, s.file[i].wpos} ELSE {})
  <2>1. CASE (at > Len(d) \/ take = 0) /\ m = 0 /\ x.data = b.data /\ x.file[i].wpos = b.fp[b.file[i].f].pos
    <3>1. k = 0 /\ q = p
      BY <1>2, <1>7, <2>1
    <3>2. new = d
      BY <1>1, <1>7, <3>1, PutNothing
    <3>3. take = 0 => n \in Members
      BY <1>1
    <3> QED
      BY <1>1, <1>2, <1>4, <2>1, <3>1, <3>2, <3>3
  <2>2. CASE /\ ~ (at > Len(d) \/ take = 0)
             /\ m = take /\ x.data = PutIn(b.data, n, d, at, t, take) /\ x.file[i].wpos = at + take
    <3>1. k = take /\ k > 0 /\ q = at + k
      BY <1>7, <2>2
    <3>2. x.data = [s.data EXCEPT ![n] = new]
      BY Zenon, <1>2, <1>7, <2>2, <3>1 DEF PutIn
    <3> QED
      BY <2>2, <3>1, <3>2
  <2> QED
    BY Zenon, <1>5, <1>6, <2>1, <2>2
<1>9. Remains(func, want, t, k) = LeftOver(func, t, k)
  BY <1>1 DEF Remains, LeftOver
<1>10. /\ e.handle = i /\ e.name = n /\ e.what = func /\ e.start = start /\ e.text = c.text /\ e.text # Absent
       /\ e.value = LeftOver(func, t, k) /\ e.raised = (e.value # 0)
  <2>1. PICK v : v = Remains(func, want, t, m)
    OBVIOUS
  <2>2. /\ e.handle = c.handle /\ e.name = c.name /\ e.what = c.what /\ e.start = c.start /\ e.text = c.text
        /\ e.value = v /\ e.raised = (v # 0)
    BY Zenon, <2>1 DEF OutSettles
  <2>3. v = LeftOver(func, t, k)
    BY Zenon, <1>7, <1>9, <2>1
  <2> QED
    BY Zenon, <1>1, <2>2, <2>3
<1>11. OutEnd(s, i, n, b, x, e, new, q)
  <2>1. e.raised = TRUE \/ (e.raised = FALSE /\ ~ Failed(x, i))
    <3>1. ~ Failed(x, i)
      BY <1>2, <1>5
    <3>2. e.raised = TRUE \/ e.raised = FALSE
      BY <1>10
    <3> QED
      BY <3>1, <3>2
  <2>2. x.file[i].rpos = s.file[i].rpos
    BY <1>2, <1>5
  <2> QED
    BY Zenon, <1>1, <1>2, <1>5, <1>7, <1>8, <1>10, <2>1, <2>2 DEF OutEnd
<1>12. OutMade(s, i, n, e, new, q, o)
  BY <1>7, <1>11, OutEnds
<1>13. OutPart(s, i, n, e, new, q, p, k, at, t)
  <2>1. p \in WriteStarts(e.what, e.start, d, s.file[i].wpos) /\ t = OutText(e.what, e.text)
    BY Zenon, <1>1, <1>2, <1>10
  <2>2. e.value = LeftOver(e.what, t, k) /\ e.raised = (e.value # 0)
    BY Zenon, <1>10
  <2> QED
    BY Zenon, <1>1, <1>6, <1>7, <1>8, <2>1, <2>2 DEF OutPart
<1> QED
  BY <1>3, <1>7, <1>12, <1>13, OutPartMeets


(* A call that writes a text is a step of Streams.                          *)
LEMMA CharLineOutMeets ==
  ASSUME TableSound(Names, Calling, {}), Seekable(Calling), DataIs, Faults = {},
         NEW func \in {"LINEOUT", "CHAROUT"}, NEW r \in Uses, NEW text \in Seq(Chars),
         func = "CHAROUT" => text # << >>, NEW start \in Nat, R_charlineout(func, r, text, start)
  PROVE  Meets
<1>1. PICK u \in Used(r, "update") : Fails(u, r) \/ (u.i >= 0 /\ Output(u, r, func, text, start))
  BY DEF R_charlineout
<1>2. \/ u.i < 0 /\ ~ (u.i >= 0) /\ Left(u.s)
      \/ /\ u.i >= 0 /\ ~ (u.i < 0) /\ u.i \in Nat
         /\ \E n \in Names : NameOf(u.s, r) = n /\ Reached(u.s, u.i, n, WriteMode(n))
  <2>1. Opens("update") /\ \A n : UseMode("update", n) = WriteMode(n)
    BY DEF Opens, UseMode
  <2>2. u \in Used(r, "update")
    OBVIOUS
  <2> QED
    BY <2>1, <2>2, UsedReaches
<1>3. CASE Fails(u, r)
  BY <1>2, <1>3, FailsMeets DEF Fails
<1>4. CASE ~ Fails(u, r)
  <2>1. PICK n \in Names : NameOf(u.s, r) = n /\ Reached(u.s, u.i, n, WriteMode(n))
    BY <1>1, <1>2, <1>4
  <2>2. PICK s, i, t, want : s = u.s /\ i = u.i /\ t = OutText(func, text) /\ want = Wants(func, text)
    BY Zenon
  <2>3. PICK w, c : w = OutFrom(u, i, func, start) /\ c = OutCall(u, r, func, text, start, want)
    BY Zenon
  <2>4. OutCases(i, s, w, c, func, want, t)
    <3>1. Output(u, r, func, text, start)
      BY <1>1, <1>4
    <3> QED
      BY <2>2, <2>3, <3>1, OutputIs
  <2>5. PICK mode, d, starts : /\ mode = WriteMode(n) /\ d = s.data[n]
                               /\ starts = WriteStarts(func, start, d, s.file[i].wpos)
    BY Zenon
  <2>6. Reached(s, i, n, mode) /\ Reached(s, i, n, WriteMode(n))
    BY Zenon, <2>1, <2>2, <2>5
  <2>7. OutAt(s, i, w, starts, d)
    BY <2>2, <2>3, <2>5, <2>6, OutAtIs
  <2>8. /\ t \in Seq(Chars) /\ Len(t) \in Nat /\ Len(t) # 0 /\ want = (IF func = "CHAROUT" THEN Len(t) ELSE 1)
        /\ text # Absent
    <3>1. LF \in Chars /\ text \o <<LF>> \in Seq(Chars) /\ Len(text \o <<LF>>) = Len(text) + 1
      BY DEF Chars
    <3>2. Len(text) \in Nat /\ (text # << >> => Len(text) # 0)
      OBVIOUS
    <3>3. text # Absent
      BY DEF Absent, P!Absent, Chars, LF, P!LF
    <3>4. CASE func = "LINEOUT"
      BY <2>2, <3>1, <3>2, <3>3, <3>4 DEF OutText, Wants
    <3>5. CASE func = "CHAROUT"
      BY <2>2, <3>1, <3>2, <3>3, <3>5 DEF OutText, Wants
    <3> QED
      BY <3>4, <3>5
  <2>9. /\ c.handle = i /\ c.name = n /\ c.what = func /\ c.start = start /\ c.text = text /\ c.value = want
        /\ c.raised = TRUE
    BY <2>1, <2>2, <2>3 DEF OutCall, About, None
  <2>10. \A v : OutSettles(c, v, Settled(c, v))
    BY <2>1, <2>2, <2>3 DEF OutCall, About, None, OutSettles, Settled
  <2>11. OutBegin(s, i, n, c, func, start, d, t, want, starts)
    <3>1. c.text # Absent /\ t = OutText(func, c.text)
      BY Zenon, <2>2, <2>8, <2>9
    <3> QED
      BY Zenon, <2>5, <2>6, <2>8, <2>9, <3>1 DEF OutBegin
  <2>12. CASE ~ w.ok /\ Outcome(w.s, i, c)
    <3>1. PICK a : a = w.s
      OBVIOUS
    <3> QED
      BY <2>7, <2>11, <2>12, <3>1, OutNone
  <2>13. CASE /\ w.ok
              /\ \E ready \in prep_write(w.s, i) :
                   \/ ~ ready.ok /\ Outcome(ready.s, i, c)
                   \/ /\ ready.ok
                      /\ \E take \in Taken(s.file[i].name, Len(t)) :
                         \E out \in {fwrite(ready.s, ready.s.file[i].f, t, take)} :
                           Outcome(done_write(out.s, i), i, Settled(c, Remains(func, want, t, out.n)))
    <3>1. PICK ready \in prep_write(w.s, i) :
            \/ ~ ready.ok /\ Outcome(ready.s, i, c)
            \/ /\ ready.ok
               /\ \E take \in Taken(s.file[i].name, Len(t)) :
                  \E out \in {fwrite(ready.s, ready.s.file[i].f, t, take)} :
                    Outcome(done_write(out.s, i), i, Settled(c, Remains(func, want, t, out.n)))
      BY <2>13
    <3>2. PICK b, ok, p : b = ready.s /\ ok = ready.ok /\ p = WriteFrom(d, w.s.file[i].wpos)
      BY Zenon
    <3>3. OutPrep(s, i, n, b, ok, starts, p)
      <4>1. ready \in prep_write(w.s, i)
        OBVIOUS
      <4>2. w.ok
        BY <2>13
      <4> QED
        BY <2>5, <2>6, <2>7, <3>2, <4>1, <4>2, OutReady
    <3>4. CASE ~ ok /\ Outcome(b, i, c)
      BY <2>11, <3>3, <3>4, OutStuck
    <3>5. CASE /\ ok
               /\ \E take \in Taken(s.file[i].name, Len(t)) :
                  \E out \in {fwrite(b, b.file[i].f, t, take)} :
                    Outcome(done_write(out.s, i), i, Settled(c, Remains(func, want, t, out.n)))
      <4>1. PICK take \in Taken(s.file[i].name, Len(t)) :
              \E out \in {fwrite(b, b.file[i].f, t, take)} :
                Outcome(done_write(out.s, i), i, Settled(c, Remains(func, want, t, out.n)))
        BY <3>5
      <4>2. PICK out : /\ out = fwrite(b, b.file[i].f, t, take)
                       /\ Outcome(done_write(out.s, i), i, Settled(c, Remains(func, want, t, out.n)))
        BY <4>1
      <4>3. PICK x, m, e : x = done_write(out.s, i) /\ m = out.n /\ e = Settled(c, Remains(func, want, t, m))
        BY Zenon
      <4>4. Outcome(x, i, e) /\ OutSettles(c, Remains(func, want, t, m), e)
        BY Zenon, <2>10, <4>2, <4>3
      <4>5. s.file[i].name = n
        BY <2>6, ReachedIs
      <4>6. take \in 0 .. Len(t) /\ (take < Len(t) => n \in Members)
        BY <2>8, <4>1, <4>5 DEF Taken
      <4>7. TableSound(Names, b, {}) /\ i \in Named(b) /\ n = b.file[i].name /\ n \in Names
        BY <3>3 DEF OutPrep
      <4>8. PICK at : at = (IF Appends(b, i) THEN Len(b.data[n]) ELSE b.fp[b.file[i].f].pos)
        OBVIOUS
      <4>9. OutTook(b, i, n, t, take, at, x, m)
        BY <2>8, <4>2, <4>3, <4>6, <4>7, <4>8, OutTakes
      <4>10. CASE ~ Seeks(s, i)
        BY <2>11, <3>3, <4>4, <4>9, <4>10, OutOne
      <4>11. CASE Seeks(s, i)
        BY <2>11, <3>3, <3>5, <4>4, <4>6, <4>8, <4>9, <4>11, OutGoes
      <4> QED
        BY <4>10, <4>11
    <3> QED
      BY Zenon, <3>1, <3>2, <3>4, <3>5
  <2> QED
    BY Zenon, <2>4, <2>12, <2>13 DEF OutCases
<1> QED
  BY <1>3, <1>4


(* What the proof of the refinement carries along.                          *)
StreamsInv == FilesInv /\ DataIs /\ (file # << >> => Seekable(Calling))

LEMMA InitStreams == RxInitFiles => StreamsInv
<1> SUFFICES ASSUME RxInitFiles PROVE StreamsInv
  OBVIOUS
<1>1. FilesInv
  BY InitInv
<1>2. DataIs
  BY DEF RxInitFiles, DataIs
<1>3. Seekable(Calling)
  <2>1. ASSUME NEW i \in Named(Calling) PROVE i \in {FSTDIN, FSTDOUT, FSTDERR}
    BY <2>1 DEF RxInitFiles, Named, Calling, Empty, Slot
  <2>2. ASSUME NEW i \in Named(Calling) PROVE Calling.file[i].name \in Std /\ ~ Seeks(Calling, i)
    <3>1. i \in 0 .. FILE_INC - 1
      BY <2>2 DEF RxInitFiles, Named, Calling
    <3>2. CASE i = FSTDIN
      BY <3>1, <3>2 DEF RxInitFiles, Calling, Slot, Std, Seeks, FSTDIN, FSTDOUT, FSTDERR
    <3>3. CASE i = FSTDOUT
      BY <3>1, <3>3 DEF RxInitFiles, Calling, Slot, Std, Seeks, FSTDIN, FSTDOUT, FSTDERR
    <3>4. CASE i = FSTDERR
      BY <3>1, <3>4 DEF RxInitFiles, Calling, Slot, Std, Seeks, FSTDIN, FSTDOUT, FSTDERR
    <3> QED
      BY <2>1, <2>2, <3>2, <3>3, <3>4
  <2> QED
    BY <2>2 DEF Seekable
<1> QED
  BY <1>1, <1>2, <1>3 DEF StreamsInv

(* A step of the stream functions is one of Streams.                        *)
LEMMA StepMeets ==
  ASSUME Faults = {}, StreamsInv, Next
  PROVE  (P!Next \/ Departs) /\ DataIs' /\ (file' # << >> => Seekable(Calling'))
<1> DEFINE Done == (P!Next \/ Departs) /\ DataIs' /\ (file' # << >> => Seekable(Calling'))
<1>1. file # << >> /\ TableSound(Names, Calling, {}) /\ Seekable(Calling) /\ DataIs /\ Faults = {}
  BY DEF StreamsInv, FilesInv, Next
<1>2. Meets => Done
  BY DEF Meets
<1>3. /\ LSTARTPOS \in Nat /\ 1 \in Nat /\ 2 \in Nat /\ 3 \in Nat
      /\ <<"x">> \in Seq(Chars) /\ << >> \in Seq(Chars) /\ <<"x">> # << >>
  BY DEF LSTARTPOS, P!NONE, Chars
<1> HIDE DEF Done
<1>4. ASSUME \E n \in Names : \/ \E mode \in {"r", "r+", "w", "a"} : R_open(n, mode, "none")
                              \/ \E alloc \in {"good", "bad"} : R_open(n, "w", alloc)
      PROVE  Done
  <2>1. PICK n \in Names : \/ \E mode \in {"r", "r+", "w", "a"} : R_open(n, mode, "none")
                           \/ \E alloc \in {"good", "bad"} : R_open(n, "w", alloc)
    BY <1>4
  <2>2. PICK mode \in {"r", "r+", "w", "a"}, alloc \in {"none", "good", "bad"} : R_open(n, mode, alloc)
    BY <2>1
  <2>3. Meets
    BY <1>1, <2>2, OpenMeets
  <2> QED
    BY <1>2, <2>3
<1>5. ASSUME NEW r \in Refs, \/ R_close(r) \/ R_eof(r) \/ R_stream_status(r)
                             \/ \E mode \in {"r", "w", "a+"} : R_stream_open(r, mode)
      PROVE  Done
  <2>1. CASE R_close(r)
    BY <1>1, <1>2, <2>1, CloseMeets
  <2>2. CASE R_eof(r)
    BY <1>1, <1>2, <2>2, EofMeets
  <2>3. CASE R_stream_status(r)
    BY <1>1, <1>2, <2>3, StatusMeets
  <2>4. CASE \E mode \in {"r", "w", "a+"} : R_stream_open(r, mode)
    BY <1>1, <1>2, <2>4, StreamOpenMeets
  <2> QED
    BY <1>5, <2>1, <2>2, <2>3, <2>4
<1>6. ASSUME NEW r \in Uses, \E func \in {"CHARS", "LINES"} : R_charslines(func, r) PROVE Done
  BY <1>1, <1>2, <1>6, CharsLinesMeets
<1>7. ASSUME NEW r \in Uses, NEW func \in {"LINEIN", "CHARIN"}, NEW start \in Nat, NEW length \in {0, 1, 2},
             R_charlinein(func, r, start, length)
      PROVE  Done
  BY <1>1, <1>2, <1>7, CharLineInMeets
<1>8. ASSUME NEW r \in Uses,
        \/ \E p \in {<<LSTARTPOS, 1>>, <<LSTARTPOS, 2>>, <<2, 1>>, <<3, 1>>} : R_charlinein("LINEIN", r, p[1], p[2])
        \/ \E p \in {<<LSTARTPOS, 2>>, <<1, 1>>, <<3, 0>>} : R_charlinein("CHARIN", r, p[1], p[2])
      PROVE  Done
  <2>1. \A p \in {<<LSTARTPOS, 1>>, <<LSTARTPOS, 2>>, <<2, 1>>, <<3, 1>>, <<1, 1>>, <<3, 0>>} :
          p[1] \in Nat /\ p[2] \in {0, 1, 2}
    BY <1>3
  <2>2. \E func \in {"LINEIN", "CHARIN"} :
        \E p \in {<<LSTARTPOS, 1>>, <<LSTARTPOS, 2>>, <<2, 1>>, <<3, 1>>, <<1, 1>>, <<3, 0>>} :
          R_charlinein(func, r, p[1], p[2])
    BY <1>8
  <2> QED
    BY <1>7, <2>1, <2>2
<1>9. ASSUME NEW r \in Uses, NEW func \in {"LINEOUT", "CHAROUT"}, NEW text \in Seq(Chars),
             func = "CHAROUT" => text # << >>, NEW start \in Nat, R_charlineout(func, r, text, start)
      PROVE  Done
  BY <1>1, <1>2, <1>9, CharLineOutMeets
<1>10. ASSUME NEW r \in Uses, NEW func \in {"LINEOUT", "CHAROUT"}, NEW start \in Nat,
              R_charlineout_position(func, r, start)
       PROVE  Done
  BY <1>1, <1>2, <1>10, PositionMeets
<1>11. ASSUME NEW r \in Uses,
          \/ R_charlineout("LINEOUT", r, <<"x">>, LSTARTPOS)
          \/ \E start \in {LSTARTPOS, 2, 3} : R_charlineout("LINEOUT", r, << >>, start)
          \/ \E start \in {LSTARTPOS, 2} : R_charlineout("CHAROUT", r, <<"x">>, start)
       PROVE  Done
  <2>1. CASE R_charlineout("LINEOUT", r, <<"x">>, LSTARTPOS)
    <3>1. PICK func \in {"LINEOUT", "CHAROUT"} : func = "LINEOUT"
      OBVIOUS
    <3> QED
      BY <1>3, <1>9, <2>1, <3>1
  <2>2. CASE \E start \in {LSTARTPOS, 2, 3} : R_charlineout("LINEOUT", r, << >>, start)
    <3>1. PICK func \in {"LINEOUT", "CHAROUT"} : func = "LINEOUT" /\ (func = "CHAROUT" => << >> # << >>)
      OBVIOUS
    <3>2. PICK start \in Nat : R_charlineout(func, r, << >>, start)
      BY <1>3, <2>2, <3>1
    <3> QED
      BY <1>3, <1>9, <3>1, <3>2
  <2>3. CASE \E start \in {LSTARTPOS, 2} : R_charlineout("CHAROUT", r, <<"x">>, start)
    <3>1. PICK func \in {"LINEOUT", "CHAROUT"} : func = "CHAROUT"
      OBVIOUS
    <3>2. PICK start \in Nat : R_charlineout(func, r, <<"x">>, start)
      BY <1>3, <2>3, <3>1
    <3> QED
      BY <1>3, <1>9, <3>1, <3>2
  <2> QED
    BY <1>11, <2>1, <2>2, <2>3
<1>12. ASSUME NEW r \in Uses,
          \/ \E start \in {LSTARTPOS, 3} : R_charlineout_position("LINEOUT", r, start)
          \/ R_charlineout_position("CHAROUT", r, 2)
       PROVE  Done
  <2>1. \E func \in {"LINEOUT", "CHAROUT"}, start \in Nat : R_charlineout_position(func, r, start)
    BY <1>3, <1>12
  <2> QED
    BY <1>10, <2>1
<1>13. ASSUME NEW r \in Uses, R_write(r, <<"x">>) PROVE Done
  BY <1>1, <1>2, <1>3, <1>13, WriteMeets
<1>14. ASSUME NEW r \in Uses, R_stream_reset(r) PROVE Done
  BY <1>1, <1>2, <1>14, ResetMeets
<1>15. ASSUME NEW r \in Uses, NEW how, R_read(r, how) PROVE Done
  BY <1>1, <1>2, <1>15, ReadMeets
<1>16. ASSUME NEW r \in Uses, NEW off \in Int, NEW whence \in {"TOF", "CUR", "EOF"}, R_seek(r, off, whence) PROVE Done
  BY <1>1, <1>2, <1>16, SeekMeets
<1>17. ASSUME NEW r \in Uses, R_seek(r, -1, "CUR") \/ R_seek(r, 0, "EOF") PROVE Done
  <2>1. -1 \in Int /\ 0 \in Int /\ "CUR" \in {"TOF", "CUR", "EOF"} /\ "EOF" \in {"TOF", "CUR", "EOF"}
    OBVIOUS
  <2> QED
    BY <1>16, <1>17, <2>1
<1>18. ASSUME RxDoneFiles PROVE Done
  <2>1. file' = << >>
    BY <1>18 DEF RxDoneFiles
  <2> QED
    BY <1>1, <1>18, <2>1, DoneMeets DEF Done
<1>19. ASSUME NEW r \in Uses,
          \/ \E func \in {"CHARS", "LINES"} : R_charslines(func, r)
          \/ \E p \in {<<LSTARTPOS, 1>>, <<LSTARTPOS, 2>>, <<2, 1>>, <<3, 1>>} :
               R_charlinein("LINEIN", r, p[1], p[2])
          \/ \E p \in {<<LSTARTPOS, 2>>, <<1, 1>>, <<3, 0>>} : R_charlinein("CHARIN", r, p[1], p[2])
          \/ R_charlineout("LINEOUT", r, <<"x">>, LSTARTPOS)
          \/ \E start \in {LSTARTPOS, 2, 3} : R_charlineout("LINEOUT", r, << >>, start)
          \/ \E start \in {LSTARTPOS, 2} : R_charlineout("CHAROUT", r, <<"x">>, start)
          \/ \E start \in {LSTARTPOS, 3} : R_charlineout_position("LINEOUT", r, start)
          \/ R_charlineout_position("CHAROUT", r, 2)
          \/ R_write(r, <<"x">>) \/ R_stream_reset(r)
          \/ \E how \in {"LINE", "FILE"} : R_read(r, how)
          \/ R_seek(r, -1, "CUR") \/ R_seek(r, 0, "EOF")
       PROVE  Done
  BY Zenon, <1>6, <1>8, <1>11, <1>12, <1>13, <1>14, <1>15, <1>17, <1>19
<1>20. ASSUME \E r \in Refs : \/ R_close(r) \/ R_eof(r) \/ R_stream_status(r)
                              \/ \E mode \in {"r", "w", "a+"} : R_stream_open(r, mode)
       PROVE  Done
  BY Zenon, <1>5, <1>20
<1>21. Done
  BY Zenon, <1>4, <1>18, <1>19, <1>20 DEF Next
<1> QED
  BY <1>21 DEF Done

LEMMA NextStreams ==
  Faults = {} /\ StreamsInv /\ [Next]_vars => StreamsInv' /\ [P!Next \/ Departs]_(P!vars)
<1> SUFFICES ASSUME Faults = {}, StreamsInv, [Next]_vars PROVE StreamsInv' /\ [P!Next \/ Departs]_(P!vars)
  OBVIOUS
<1>1. FilesInv'
  BY NextInv DEF StreamsInv
<1>2. CASE Next
  <2>1. (P!Next \/ Departs) /\ DataIs' /\ (file' # << >> => Seekable(Calling'))
    BY <1>2, StepMeets
  <2> QED
    BY <1>1, <2>1 DEF StreamsInv
<1>3. CASE UNCHANGED vars
  <2>1. data' = data /\ fp' = fp /\ file' = file /\ call' = call
    BY <1>3 DEF vars
  <2>2. Calling' = Calling /\ DataIs' /\ open' = open
    BY Zenon, <2>1 DEF Calling, DataIs, StreamsInv, open
  <2>3. StreamsInv'
    BY Zenon, <1>1, <2>1, <2>2 DEF StreamsInv
  <2> QED
    BY <2>1, <2>2, <2>3 DEF P!vars
<1> QED
  BY <1>2, <1>3

(* Whatever the C position, the end-of-file indicator and the reopening do, *)
(* a stream has the two positions of the reference, every function reads,   *)
(* writes, returns and raises what they say, and a handle stays that of its *)
(* stream (rxfiles.c, lang-builtin.typ:1570): every step is a step of the   *)
(* reference, changes nothing of it, or is one of the calls in Departs,     *)
(* where what the code does instead is said (lang-builtin.typ:1589-1605).   *)
THEOREM StreamsCorrect == ASSUME Faults = {} PROVE Spec => StreamsImplemented
<1>1. Faults = {}
  OBVIOUS
<1>2. StreamsInv /\ [Next]_vars => StreamsInv' /\ [P!Next \/ Departs]_(P!vars)
  BY <1>1, NextStreams
<1> QED
  BY <1>2, InitStreams, PTL DEF Spec, StreamsImplemented
=============================================================================
