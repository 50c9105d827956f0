-------------------------------- MODULE Files --------------------------------
(***************************************************************************)
(* The stream functions (src/rxfiles.c).  An open stream has a slot in the *)
(* table file[], whose number is its handle; the slot keeps a read and a   *)
(* write position, while the C stream below it has one position that every *)
(* function moves, and an end-of-file indicator.                           *)
(*                                                                         *)
(* A C function takes the state s to the next one, or, where it opens a    *)
(* stream, to the set of its outcomes; an action is one call of the exec.  *)
(* Line numbers (rline, wline) are kept by the code and read nowhere; they *)
(* are left out.                                                           *)
(***************************************************************************)
EXTENDS Integers, Sequences, SequencesExt, FiniteSets, FiniteSetsExt

CONSTANTS FILE_INC,                \* slots the table grows by (10 in the code)
          Plain, Members,          \* sequential data sets, members of libraries
          Protected, Sysout,       \* data sets that may only be read, SYSOUT
          Shared,                  \* STDERR writes to STDOUT's stream (SYSTSPRT)
          Faults,                  \* \subseteq {"busy", "stdout", "stdin"}
          MaxNames,                \* bound: data sets an exec uses
          MaxOpen, MaxChars        \* bounds: of them open, characters in all

ASSUME FilesAssumption == FILE_INC \in Nat /\ FILE_INC > 3 /\ MaxChars \in Nat
ASSUME NamesAssumption ==   \* no data set has no name or that of a standard stream
  {"", "<STDIN>", "<STDOUT>", "<STDERR>"} \intersect (Plain \union Members \union Protected \union Sysout) = {}
ASSUME KindsAssumption ==   \* data sets can be counted, and each is of one kind
  /\ IsFiniteSet(Plain \union Members \union Protected \union Sysout)
  /\ Plain \intersect (Members \union Protected \union Sysout) = {}
  /\ Members \intersect (Protected \union Sysout) = {} /\ Protected \intersect Sysout = {}

VARIABLES data,    \* data set -> its characters
          fp,      \* the C streams open, by number
          file,    \* the table of slots, from 0
          call     \* the last call and what it returned

open ==
  [h \in {i \in DOMAIN file : file[i].name # ""} |->
     [name |-> file[h].name, rpos |-> file[h].rpos, wpos |-> file[h].wpos,
      appends |-> file[h].f \in DOMAIN fp /\ fp[file[h].f].mode \in {"a", "a+"},
      positions |-> "SEEK" \in file[h].flags, failed |-> "NOTREADY" \in file[h].flags]]
P == INSTANCE Streams
vars == <<data, fp, file, call>>
View == <<data, fp, file>>
Std == {"<STDIN>", "<STDOUT>", "<STDERR>"}
LF == P!LF
Absent == P!Absent
Names == DOMAIN data \ Std       \* the data sets this exec uses
LSTARTPOS == P!NONE
NULL == 0
FSTDIN == 0
FSTDOUT == 1
FSTDERR == 2

----------------------------------------------------------------------------
(* The C library (external).  A data set that is written is not opened     *)
(* twice; a member cannot be extended, a SYSOUT only written.  With the    *)
(* fault "busy" another job may hold the data set while an open is tried.  *)

InUse(s, n, mode) == \E f \in DOMAIN s.fp : s.fp[f].name = n /\ ~ (mode = "r" /\ s.fp[f].mode = "r")
CanOpen(s, n, mode) ==
  /\ n \in Names /\ ~ InUse(s, n, mode)
  /\ n \in Sysout => mode \in {"w", "a"}
  /\ n \in Protected => mode = "r"
  /\ mode \in {"r", "r+"} => s.data[n] # Absent
  /\ n \in Members /\ mode \in {"a", "a+"} => s.data[n] = Absent
fopen(s, f, n, mode) ==
  [s EXCEPT !.fp = [g \in DOMAIN @ \union {f} |->
                      IF g = f THEN [name |-> n, mode |-> mode, pos |-> 0, eof |-> FALSE] ELSE @[g]],
            !.data[n] = IF mode \in {"w", "w+"} \/ @ = Absent THEN << >> ELSE @]
fclose(s, f) == [s EXCEPT !.fp = [g \in DOMAIN @ \ {f} |-> @[g]]]
fseek(s, f, off) == [s EXCEPT !.fp[f].pos = off, !.fp[f].eof = FALSE]
clearerr(s, f) == [s EXCEPT !.fp[f].eof = FALSE]
Content(s, f) == s.data[s.fp[f].name]

\* At most n characters; fewer are the end of the file.  A SYSOUT gives none.
Next_n(s, f, n) ==
  LET p == s.fp[f].pos
  IN  SubSeq(Content(s, f), p + 1, Min({p + n, Len(Content(s, f))}))
Took(s, f, t, n) ==
  [text |-> t,
   s |-> IF s.fp[f].mode \in {"w", "a"} THEN s
         ELSE [s EXCEPT !.fp[f].pos = @ + Len(t), !.fp[f].eof = @ \/ Len(t) < n]]
fread(s, f, n) == Took(s, f, Next_n(s, f, n), n)
\* Up to and with the end of the line.
LineEnds(c, p) == {i \in p + 1 .. Len(c) : c[i] = LF} \union {Max({p, Len(c)}) + 1}
fgets(s, f) == fread(s, f, Min(LineEnds(Content(s, f), s.fp[f].pos)) - s.fp[f].pos)
\* No more than take characters are taken, and none behind the end of the data set.
Wrote(s, f, p, t) ==
  [n |-> Len(t), s |-> [s EXCEPT !.data[s.fp[f].name] = P!Put(@, p, t), !.fp[f].pos = p + Len(t)]]
fwrite(s, f, t, take) ==
  LET end == Len(Content(s, f))
      p == IF s.fp[f].mode \in {"a", "a+"} THEN end ELSE s.fp[f].pos
  IN  IF s.fp[f].name \in Sysout \union Std THEN [n |-> Len(t), s |-> s]
      ELSE IF s.fp[f].mode = "r" \/ p > end \/ take = 0 THEN [n |-> 0, s |-> s]
      ELSE Wrote(s, f, p, SubSeq(t, 1, take))
\* What the library takes of k characters for data set n.
Taken(n, k) == IF n \in Members THEN 0 .. k ELSE {k}

----------------------------------------------------------------------------
(* The table.                                                              *)

Slot(name, f, wpos, flags) == [name |-> name, f |-> f, rpos |-> 0, wpos |-> wpos, flags |-> flags]
Empty == Slot("", NULL, -1, {})
Named(s) == {i \in DOMAIN s.file : s.file[i].name # ""}

\* The first slot that is free, or the first of those the table grows by.
find_empty(s) == Min(0 .. Cardinality(DOMAIN s.file) \ Named(s))
Grown(s) ==
  LET size == Cardinality(DOMAIN s.file)
      more == IF find_empty(s) = size THEN FILE_INC ELSE 0
  IN  [s EXCEPT !.file = [j \in 0 .. size + more - 1 |-> IF j < size THEN @[j] ELSE Empty]]

\* A handle, or a name: the first slot of that name.
ERR_FILE_NOT_OPENED == -59
ERR_CANT_OPEN_FILE == -57
find_file(s, r) ==
  LET found == {i \in Named(s) : IF r[1] = "handle" THEN i = r[2] ELSE s.file[i].name = r[2]}
  IN  IF found # {} THEN Min(found) ELSE IF r[1] = "handle" THEN ERR_FILE_NOT_OPENED ELSE -1

\* "w" and "a" are opened for update, so that what is written can be read back.
open_mode(mode) == CASE mode = "w" -> "w+" [] mode = "a" -> "a+" [] OTHER -> mode
mode_flags(mode) == IF mode = "r" THEN {} ELSE {"WRITE"}

open_file_as(s, n, mode) ==
  LET f == Min(1 .. Cardinality(DOMAIN s.fp) + 1 \ DOMAIN s.fp)
      i == find_empty(s)
      new == Slot(n, f, IF mode \in {"w", "w+"} THEN 0 ELSE -1, {"SEEK"} \union mode_flags(mode))
      opened == [s |-> [fopen(Grown(s), f, n, mode) EXCEPT !.file[i] = new], i |-> i]
      refused == [s |-> Grown(s), i |-> -1]
  IN  IF ~ CanOpen(s, n, mode) THEN {refused}
      ELSE {opened} \union (IF "busy" \in Faults THEN {refused} ELSE {})
\* SYSOUT and terminals cannot be updated: opened as asked, with one position.
OnePosition(o) == IF o.i = -1 THEN o ELSE [o EXCEPT !.s.file[o.i].flags = @ \ {"SEEK"}]
open_file(s, n, mode) ==
  UNION {IF o.i # -1 \/ open_mode(mode) = mode THEN {o}
         ELSE {OnePosition(again) : again \in open_file_as(o.s, n, mode)}
         : o \in open_file_as(s, n, open_mode(mode))}

\* STDERR may share STDOUT's stream, which STDOUT then closes.
close_file(s, i) ==
  LET closed == IF i # FSTDERR \/ s.file[i].f # s.file[FSTDOUT].f THEN fclose(s, s.file[i].f) ELSE s
  IN  [closed EXCEPT !.file[i] = Empty]

\* Mutant: what is not open is created.
open_for_writeAnew(s, n) == open_file(s, n, "w")
\* Never truncates: "r" tells whether there is something to keep.
open_for_write(s, n) ==
  UNION {open_file(IF probe.i = -1 THEN probe.s ELSE close_file(probe.s, probe.i), n,
                   IF probe.i = -1 THEN "w" ELSE "r+")
         : probe \in open_file(s, n, "r")}

\* Mutant: the other slot keeps it too.
AdoptedByBoth(s, i, j) == [s EXCEPT !.file[i].f = s.file[j].f, !.file[i].flags = @ \union (s.file[j].flags \intersect {"WRITE"})]
\* The C stream is replaced in the same slot; the new one comes through a slot of its own.
Adopted(s, i, j) ==
  [s EXCEPT !.file[i].f = s.file[j].f, !.file[i].flags = @ \union (s.file[j].flags \intersect {"WRITE"}),
            !.file[j] = Empty]
Reopened(s, i, j) ==
  IF j = -1 THEN [s |-> s, ok |-> FALSE]
  ELSE [s |-> Adopted(s, i, j), ok |-> "WRITE" \in s.file[j].flags]
\* For update, or if that fails as before, so that it can still be read.
reopen_update(s, i) ==
  LET n == s.file[i].name
      closed == [fclose(s, s.file[i].f) EXCEPT !.file[i].f = NULL]
  IN  UNION {{Reopened(new.s, i, new.i) : new \in IF o.i = -1 THEN open_file(o.s, n, "r") ELSE {o}}
             : o \in open_file(closed, n, "r+")}

----------------------------------------------------------------------------
(* Positions.                                                              *)

Seeks(s, i) == "SEEK" \in s.file[i].flags
end_pos(s, i) == fseek(s, s.file[i].f, Len(Content(s, s.file[i].f)))
Ready(s, i) == [s EXCEPT !.file[i].flags = @ \ {"NOTREADY"}]
NotReady(s, i) == [s EXCEPT !.file[i].flags = @ \union {"NOTREADY"}]

\* Whole lines are read, at most m; a last one that does not end counts as well.
Lskipline(l, f) ==
  LET got == fgets(l.s, f)
  IN  [s |-> got.s, n |-> IF got.text = << >> THEN l.n ELSE l.n + 1,
       more |-> got.text # << >> /\ Last(got.text) = LF]
SkipLines(s, f, m) ==
  LET line[k \in 0 .. m] ==
        IF k = 0 THEN [s |-> s, n |-> 0, more |-> TRUE]
        ELSE IF line[k - 1].more THEN Lskipline(line[k - 1], f) ELSE line[k - 1]
  IN  line[m]
\* The start of line n, -1 beyond the one after the last.
line_offset(s, i, n) ==
  LET there == SkipLines(fseek(s, s.file[i].f, 0), s.file[i].f, n - 1)
  IN  [s |-> there.s, off |-> IF there.more THEN there.s.fp[s.file[i].f].pos ELSE -1]

\* Mutant: reads on where the C stream is.
prep_readOn(s, i) == clearerr(Ready(s, i), s.file[i].f)
prep_read(s, i) ==
  LET f == s.file[i].f
  IN  clearerr(IF Seeks(s, i) THEN fseek(Ready(s, i), f, s.file[i].rpos) ELSE Ready(s, i), f)
done_read(s, i) == IF Seeks(s, i) THEN [s EXCEPT !.file[i].rpos = s.fp[s.file[i].f].pos] ELSE s

\* The first write without a position goes to the end.
AtWpos(s, i) ==
  LET wpos == IF s.file[i].wpos < 0 THEN Len(Content(s, s.file[i].f)) ELSE s.file[i].wpos
  IN  [fseek(s, s.file[i].f, wpos) EXCEPT !.file[i].wpos = wpos]
prep_write(s, i) ==
  {[r EXCEPT !.s = IF r.ok /\ Seeks(s, i) THEN AtWpos(@, i) ELSE @]
   : r \in IF "WRITE" \in s.file[i].flags THEN {[s |-> Ready(s, i), ok |-> TRUE]}
           ELSE reopen_update(Ready(s, i), i)}
done_write(s, i) == IF Seeks(s, i) THEN [s EXCEPT !.file[i].wpos = s.fp[s.file[i].f].pos] ELSE s

set_wpos(s, i, func, start) ==
  LET Set(l) == IF l.off < 0 THEN [s |-> l.s, ok |-> FALSE]
                ELSE [s |-> [l.s EXCEPT !.file[i].wpos = l.off], ok |-> TRUE]
  IN  IF ~ Seeks(s, i) THEN [s |-> s, ok |-> TRUE]
      ELSE Set(IF func = "LINEOUT" THEN line_offset(s, i, start) ELSE [s |-> s, off |-> start - 1])

----------------------------------------------------------------------------
(* The functions.  A stream is named by a handle or a name.                *)

\* Bounds: an exec uses what is open by its handle and leaves the terminal alone, but
\* closes STDERR (unless it uses a sequential data set, which has most states), asks for
\* names, and for a handle that is not open.  The faults "stdin"
\* and "stdout" let it write to STDIN and close STDOUT.
Uses == {<<"handle", h>> : h \in {k \in DOMAIN open : open[k].name \in Names}} \union
        {<<"name", n>> : n \in {m \in Names : \A h \in DOMAIN open : open[h].name # m}} \union
        (IF "stdin" \in Faults THEN {<<"handle", FSTDIN>>} ELSE {})
Refs == Uses \union {<<"name", n>> : n \in Names} \union {<<"handle", h>> : h \in {Max(DOMAIN file)} \union (IF Names \subseteq Plain THEN {} ELSE {FSTDERR})}
        \union (IF "stdout" \in Faults THEN {<<"handle", FSTDOUT>>} ELSE {})
NameOf(s, r) == IF r[1] = "name" THEN r[2] ELSE IF r[2] \in Named(s) THEN s.file[r[2]].name ELSE ""

None == [what |-> "", name |-> "", mode |-> "", handle |-> -1, old |-> -1, start |-> LSTARTPOS,
         length |-> 0, text |-> Absent, value |-> 0, raised |-> FALSE]
\* Bounds: characters in all data sets, streams open before another is.
Size(s) == Cardinality(UNION {{n} \X DOMAIN P!Text(s.data[n]) : n \in Names})
Become(s, c) ==
  /\ Size(s) <= MaxChars
  /\ \/ c.handle \in DOMAIN open \union {-1} \/ c.old # -1
     \/ Cardinality({h \in DOMAIN open : open[h].name \in Names}) < MaxOpen
  /\ data' = s.data /\ fp' = s.fp /\ file' = s.file /\ call' = c
\* The outcome of a call that may raise NOTREADY.
Outcome(s, i, c) == Become(IF c.raised THEN NotReady(s, i) ELSE s, c)
Calling == [data |-> data, fp |-> fp, file |-> file]

\* A stream that is not open is opened by most functions.
Used(r, how) ==
  LET i == find_file(Calling, r)
  IN  IF i # -1 THEN {[s |-> Calling, i |-> i]}
      ELSE {[o EXCEPT !.i = IF @ = -1 THEN ERR_CANT_OPEN_FILE ELSE @]
            : o \in IF how = "update" THEN open_for_write(Calling, r[2]) ELSE open_file(Calling, r[2], how)}
Fails(u, r) == u.i < 0 /\ Become(u.s, [None EXCEPT !.what = "ERROR", !.value = u.i])
About(u, r) == [None EXCEPT !.handle = u.i, !.name = NameOf(u.s, r)]

RxInitFiles ==
  /\ \E used \in SUBSET P!Names :
       /\ Cardinality(used) <= MaxNames
       /\ data \in [used \union Std -> {Absent, << >>, <<LF>>, <<"x", LF>>}]
  /\ \A n \in DOMAIN data : data[n] = << >> <=> n \in Sysout \union Std
  /\ fp = [f \in 1 .. (IF Shared THEN 2 ELSE 3) |->
             [name |-> <<"<STDIN>", "<STDOUT>", "<STDERR>">>[f], mode |-> IF f = 1 THEN "r" ELSE "w",
              pos |-> 0, eof |-> FALSE]]
  /\ file = [i \in 0 .. FILE_INC - 1 |->
               CASE i = FSTDIN -> Slot("<STDIN>", 1, -1, {})
                 [] i = FSTDOUT -> Slot("<STDOUT>", 2, -1, {"WRITE"})
                 [] i = FSTDERR -> Slot("<STDERR>", IF Shared THEN 2 ELSE 3, -1, {"WRITE"})
                 [] OTHER -> Empty]
  /\ call = None

\* With allocation information a data set that is not there is made first, for a
\* member its library.
R_open(n, mode, alloc) ==
  LET writes == mode \in {"w", "a", "w+", "a+"}
      made == IF writes /\ alloc = "good" /\ n \in Plain /\ data[n] = Absent
              THEN [Calling EXCEPT !.data[n] = << >>] ELSE Calling
      c == [None EXCEPT !.what = "OPEN", !.name = n, !.mode = open_mode(mode), !.value = alloc]
  IN  IF writes /\ alloc = "bad" THEN Become(Calling, c)
      ELSE \E o \in open_file(made, n, mode) :
             Become(o.s, [c EXCEPT !.handle = o.i,
                                   !.mode = IF o.i = -1 \/ Seeks(o.s, o.i) THEN @ ELSE mode])

R_close(r) ==
  LET i == find_file(Calling, r)
  IN  IF i < 0 THEN Become(Calling, [None EXCEPT !.what = "ERROR", !.value = ERR_FILE_NOT_OPENED])
      ELSE Become(close_file(Calling, i), [None EXCEPT !.what = "CLOSE", !.handle = i])

R_eof(r) ==
  LET i == find_file(Calling, r)
  IN  /\ i # ERR_FILE_NOT_OPENED
      /\ Become(Calling, [None EXCEPT !.what = "EOF",
                            !.value = IF i = -1 THEN -1 ELSE IF fp[file[i].f].eof THEN 1 ELSE 0])

\* A handle is no name to open by.
R_stream_open(r, mode) ==
  LET i == find_file(Calling, r)
      closed == IF i >= 0 THEN close_file(Calling, i) ELSE Calling
      c == [None EXCEPT !.what = "REOPEN", !.name = NameOf(Calling, r), !.old = i]
  IN  IF i = ERR_FILE_NOT_OPENED THEN Become(Calling, [None EXCEPT !.what = "ERROR", !.value = i])
      ELSE \E o \in open_file(closed, IF r[1] = "name" THEN r[2] ELSE "", mode) :
             Become(o.s, [c EXCEPT !.handle = o.i,
                                   !.mode = IF o.i # -1 /\ Seeks(o.s, o.i) THEN open_mode(mode) ELSE mode,
                                   !.value = IF o.i = -1 THEN ERR_CANT_OPEN_FILE ELSE 0])

R_stream_status(r) ==
  LET i == find_file(Calling, r)
  IN  /\ i # ERR_FILE_NOT_OPENED
      /\ Become(Calling, [None EXCEPT !.what = "STATUS", !.handle = i, !.name = NameOf(Calling, r),
                            !.value = IF i = -1 THEN "UNKNOWN"
                                      ELSE IF fp[file[i].f].eof \/ "NOTREADY" \in file[i].flags
                                           THEN "NOTREADY" ELSE "READY"])
R_stream_reset(r) ==
  LET i == find_file(Calling, r)
      t == [Ready(Calling, i) EXCEPT !.file[i].rpos = 0, !.file[i].wpos = 0]
  IN  /\ i >= 0
      /\ Become(IF Seeks(t, i) THEN fseek(t, file[i].f, 0) ELSE t,
                [None EXCEPT !.what = "RESET", !.handle = i])

R_charslines(func, r) ==
  \E u \in Used(r, "r") :
    LET i == u.i
        f == u.s.file[i].f
        c == [About(u, r) EXCEPT !.what = func]
    IN  \/ Fails(u, r)
        \/ /\ i >= 0 /\ ~ Seeks(u.s, i)
           /\ Become(u.s, [c EXCEPT !.value = IF u.s.fp[f].eof THEN 0 ELSE 1])
        \/ /\ i >= 0 /\ Seeks(u.s, i) /\ func = "CHARS"
           /\ Become(end_pos(u.s, i), [c EXCEPT !.value = Max({Len(Content(u.s, f)) - u.s.file[i].rpos, 0})])
        \/ /\ i >= 0 /\ Seeks(u.s, i) /\ func = "LINES"
           /\ \E lines \in {SkipLines(prep_read(u.s, i), f, MaxChars + 1)} : Become(lines.s, [c EXCEPT !.value = lines.n])

\* One line without its end; more lines with the ends between them.
Llinein(s, f, length) ==
  LET Line(x) == IF x # << >> /\ Last(x) = LF THEN Front(x) ELSE x
      More(text, l, k) == [s |-> l.s, text |-> text \o Line(l.text) \o (IF k < length THEN <<LF>> ELSE << >>)]
      read[k \in 0 .. length] ==
        IF k = 0 THEN [s |-> s, text |-> << >>] ELSE More(read[k - 1].text, fgets(read[k - 1].s, f), k)
  IN  read[length]

\* Where a read starts, and what it gets.
ReadAt(s, i, func, start) ==
  IF start = LSTARTPOS \/ ~ Seeks(s, i) THEN [s |-> s, off |-> s.file[i].rpos]
  ELSE IF func = "LINEIN" THEN line_offset(s, i, start) ELSE [s |-> s, off |-> start - 1]
Input(s, f, func, length) ==
  IF length = 0 THEN [s |-> s, text |-> << >>]
  ELSE IF func = "CHARIN" THEN fread(s, f, length) ELSE Llinein(s, f, length)

R_charlinein(func, r, start, length) ==
  \E u \in Used(r, "r") :
    LET i == u.i
        f == u.s.file[i].f
        c == [About(u, r) EXCEPT !.what = func, !.start = start, !.length = length]
        Short(got) == IF func = "CHARIN" THEN Len(got.text) < length
                      ELSE length > 0 /\ got.text = << >> /\ got.s.fp[f].eof
    IN  \/ Fails(u, r)
        \/ /\ i >= 0
           /\ \E at \in {ReadAt(u.s, i, func, start)} :
                \/ at.off < 0 /\ Outcome(at.s, i, [c EXCEPT !.value = << >>, !.raised = TRUE])
                \/ /\ at.off >= 0
                   /\ \E got \in {Input(prep_read([at.s EXCEPT !.file[i].rpos = at.off], i), f, func, length)} :
                        Outcome(done_read(got.s, i), i, [c EXCEPT !.value = got.text, !.raised = Short(got)])

\* All of the text or what the library takes of it, unless the position or the stream refuses.
Output(u, r, func, text, start) ==
  LET i == u.i
      t == IF func = "LINEOUT" THEN text \o <<LF>> ELSE text
      want == IF func = "LINEOUT" THEN 1 ELSE Len(text)
      Left(taken) == IF func = "CHAROUT" THEN want - taken ELSE IF taken = Len(t) THEN 0 ELSE 1
      w == IF start = LSTARTPOS THEN [s |-> u.s, ok |-> TRUE] ELSE set_wpos(u.s, i, func, start)
      c == [About(u, r) EXCEPT !.what = func, !.start = start, !.text = text, !.value = want, !.raised = TRUE]
  IN  \/ ~ w.ok /\ Outcome(w.s, i, c)
      \/ /\ w.ok
         /\ \E ready \in prep_write(w.s, i) :
              \/ ~ ready.ok /\ Outcome(ready.s, i, c)
              \/ /\ ready.ok
                 /\ \E take \in Taken(u.s.file[i].name, Len(t)) :
                    \E out \in {fwrite(ready.s, ready.s.file[i].f, t, take)} :
                      Outcome(done_write(out.s, i), i, [c EXCEPT !.value = Left(out.n), !.raised = Left(out.n) # 0])
R_charlineout(func, r, text, start) ==
  \E u \in Used(r, "update") : Fails(u, r) \/ (u.i >= 0 /\ Output(u, r, func, text, start))

\* No text: the write position is set, or put at the end again.
R_charlineout_position(func, r, start) ==
  \E u \in Used(r, "update") :
    LET i == u.i
        w == IF start # LSTARTPOS THEN set_wpos(u.s, i, func, start)
             ELSE [s |-> IF Seeks(u.s, i) THEN [u.s EXCEPT !.file[i].wpos = -1] ELSE u.s, ok |-> TRUE]
    IN  \/ Fails(u, r)
        \/ i >= 0 /\ Outcome(w.s, i, [About(u, r) EXCEPT !.what = func, !.start = start, !.raised = ~ w.ok])

\* READ, WRITE and SEEK work where the C stream is.
R_write(r, text) ==
  \E u \in Used(r, "w") :
    \/ Fails(u, r)
    \/ /\ u.i >= 0
       /\ \E take \in Taken(u.s.file[u.i].name, Len(text)) :
            Become(fwrite(u.s, u.s.file[u.i].f, text, take).s,
                   [About(u, r) EXCEPT !.what = "WRITE", !.text = text, !.value = Len(text)])
\* LREADFILE reads in blocks up to the end.
R_read(r, how) ==
  \E u \in Used(r, "r") :
    LET f == u.s.file[u.i].f
        got == IF how = "LINE" THEN fgets(u.s, f) ELSE fread(u.s, f, MaxChars + 1)
    IN  \/ Fails(u, r)
        \/ u.i >= 0 /\ Become(got.s, [About(u, r) EXCEPT !.what = "READ", !.value = got.text])
R_seek(r, off, whence) ==
  LET i == find_file(Calling, r)
      f == file[i].f
      from == CASE whence = "TOF" -> 0 [] whence = "CUR" -> fp[f].pos [] whence = "EOF" -> Len(Content(Calling, f))
      t == IF Seeks(Calling, i) /\ from + off >= 0 THEN fseek(Calling, f, from + off) ELSE Calling
  IN  IF i < 0 THEN Become(Calling, [None EXCEPT !.what = "ERROR", !.value = ERR_FILE_NOT_OPENED])
      ELSE Become(t, [None EXCEPT !.what = "SEEK", !.value = t.fp[f].pos])

\* The end of the interpreter: all streams but the standard ones are closed.
RxDoneFiles ==
  LET kept == {f \in DOMAIN fp : \A i \in Named(Calling) : file[i].f = f => file[i].name \in Std}
  IN  /\ file' = << >> /\ fp' = [f \in kept |-> fp[f]] /\ call' = [None EXCEPT !.what = "END"]
      /\ UNCHANGED data

Next ==
  /\ file # << >>
  /\ \/ \E n \in Names : \/ \E mode \in {"r", "r+", "w", "a"} : R_open(n, mode, "none")
                           \/ \E alloc \in {"good", "bad"} : R_open(n, "w", alloc)
     \/ \E r \in Refs : \/ R_close(r) \/ R_eof(r) \/ R_stream_status(r)
                          \/ \E mode \in {"r", "w", "a+"} : R_stream_open(r, mode)
     \/ \E r \in Uses :
          \/ \E func \in {"CHARS", "LINES"} : R_charslines(func, r)
          \/ \E p \in {<<LSTARTPOS, 1>>, <<LSTARTPOS, 2>>, <<2, 1>>, <<3, 1>>} :
               R_charlinein("LINEIN", r, p[1], p[2])
          \/ \E p \in {<<LSTARTPOS, 2>>, <<1, 1>>, <<3, 0>>} : R_charlinein("CHARIN", r, p[1], p[2])
          \/ R_charlineout("LINEOUT", r, <<"x">>, LSTARTPOS)
          \/ \E start \in {LSTARTPOS, 2, 3} : R_charlineout("LINEOUT", r, << >>, start)
          \/ \E start \in {LSTARTPOS, 2} : R_charlineout("CHAROUT", r, <<"x">>, start)
          \/ \E start \in {LSTARTPOS, 3} : R_charlineout_position("LINEOUT", r, start)
          \/ R_charlineout_position("CHAROUT", r, 2)
          \/ R_write(r, <<"x">>) \/ R_stream_reset(r)
          \/ \E how \in {"LINE", "FILE"} : R_read(r, how)
          \/ R_seek(r, -1, "CUR") \/ R_seek(r, 0, "EOF")
     \/ RxDoneFiles
Spec == RxInitFiles /\ [][Next]_vars

----------------------------------------------------------------------------
\* Every slot in use has a C stream of its own that is open on its data set, and every
\* C stream is some slot's, so that none is left open and none closed twice
\* (rxfiles.c:198-213, 316-366: adopting the stream of another slot, STDERR on STDOUT's
\* stream); a slot that is written has a stream that can be, and after RxDoneFiles() only
\* the standard streams are open.
FilesSound ==
  LET used == {i \in DOMAIN file : file[i].name # ""}
      Pair(i, j) == Shared /\ {i, j} = {FSTDOUT, FSTDERR} /\ file[FSTDERR].name = "<STDERR>"
  IN  /\ \A i \in used :
           /\ file[i].f \in DOMAIN fp
           /\ fp[file[i].f].name = file[i].name \/ Pair(FSTDOUT, i)
           /\ "WRITE" \in file[i].flags <=> fp[file[i].f].mode # "r"
           /\ file[i].wpos >= -1
           /\ \A j \in used \ {i} : file[i].f = file[j].f => Pair(i, j)
      /\ \A f \in DOMAIN fp : fp[f].name \in Std \/ \E i \in used : file[i].f = f

\* Where the code does not do as the reference says (README, section 7).
\* prep_read() forgets a failure although nothing is read after it: LINES counts, and a
\* length of 0 only sets the position (rxfiles.c:383, lang-builtin.typ:1601).
ForgetsFailure ==
  LET o == P!This("r")
  IN  /\ \/ call'.what = "LINES" /\ o.positions
         \/ call'.what \in {"LINEIN", "CHARIN"} /\ call'.length = 0
      /\ \E ready \in {[o EXCEPT !.failed = FALSE]} : P!CharsLines(ready) \/ P!LineIn(ready) \/ P!CharIn(ready)
\* A character position beyond the end is taken as it is if nothing is read or written
\* there, and by a stream that writes at its end whatever its position
\* (rxfiles.c:776, 817, lang-builtin.typ:1592).
MissesEnd ==
  LET Passed(o, c) == o.positions /\ P!Beyond(c) /\ ~ call'.raised
  IN  \/ /\ call'.what = "CHARIN" /\ call'.length = 0 /\ P!MayOpen("r")
         /\ \E o \in {P!This("r")} :
              /\ Passed(o, data[o.name]) /\ call'.value = << >>
              /\ P!Leaves([o EXCEPT !.rpos = call'.start - 1, !.failed = FALSE], data[o.name])
      \/ /\ call'.what = "CHAROUT" /\ call'.value = 0 /\ P!MayOpen("w")
         /\ \E o \in {P!Written} :
            \E c \in {P!Text(data[o.name])} :
              /\ Passed(o, c)
              /\ \/ /\ call'.text = Absent
                    /\ P!Leaves([o EXCEPT !.wpos = call'.start - 1], c)
                 \/ /\ call'.text # Absent /\ o.appends
                    /\ P!Leaves([o EXCEPT !.wpos = Len(c \o call'.text), !.failed = FALSE], c \o call'.text)
\* Two lines asked for where none is left are an empty string, a line end and no failure
\* (rxfiles.c:801, lang-builtin.typ:1591).
MissesLines ==
  /\ call'.what = "LINEIN" /\ call'.length = 2 /\ P!MayOpen("r") /\ call'.value = <<LF>> /\ ~ call'.raised
  /\ \E o \in {P!This("r")} :
     \E p \in P!ReadStarts(o, data[o.name]) :
       /\ o.positions /\ p >= Len(data[o.name])
       /\ P!Leaves([o EXCEPT !.rpos = p, !.failed = FALSE], data[o.name])
Departs == ForgetsFailure \/ MissesEnd \/ MissesLines

\* Whatever the C position, the end-of-file indicator and the reopening do, a stream has
\* the two positions of the reference, every function reads, writes, returns and raises
\* what they say, and a handle stays that of its stream (rxfiles.c, lang-builtin.typ:1570),
\* but for the calls of Departs.
StreamsImplemented == [][P!Next \/ Departs]_(P!vars)

\* A function that opens a stream to write to it keeps what the data set holds
\* (rxfiles.c:297-301), unless another job lets go of it between two opens; WRITE is the
\* exception that is documented.
ImplicitOpenKeeps ==
  [][call'.what \in {"LINEOUT", "CHAROUT"} =>
       \A n \in Names : data[n] # Absent => Len(data'[n]) >= Len(data[n])]_vars
=============================================================================
