------------------------------- MODULE Streams -------------------------------
(***************************************************************************)
(* What the reference promises of streams (docs/books/ref/lang-builtin.typ *)
(* 1570-1925): a stream has a read position and a write position of its    *)
(* own, and nothing else decides what a function reads, writes, returns    *)
(* and raises.  There is no C stream here, no slot and no reopening.       *)
(*                                                                         *)
(* call' is what an exec calls and what it gets back.  READ, WRITE and     *)
(* SEEK have a position that is not promised here: all that is said of     *)
(* them is that they leave the two positions alone.                        *)
(*                                                                         *)
(* NOTREADY is raised as lines 1589-1593 say, also for a start beyond the  *)
(* end with which nothing is read or written, and reported by STREAM until *)
(* the next actual read or write (1599-1605).  Where the code does not do  *)
(* so is in Files, not here.                                               *)
(***************************************************************************)
EXTENDS Integers, Sequences, FiniteSets, FiniteSetsExt

CONSTANTS Plain, Members, Protected, Sysout   \* kinds of data sets: see Files

VARIABLES data,     \* data set -> its characters
          open,     \* handle -> stream
          call      \* the last call

vars == <<data, open, call>>

LF == "LF"
Absent == <<"absent">>
NONE == 0              \* no start given: the first position is 1
END == -1              \* the write position of a data set nothing was written to yet
Names == Plain \union Members \union Protected \union Sysout

Stream(n, mode) ==
  [name |-> n, rpos |-> 0, wpos |-> IF mode \in {"w", "w+"} THEN 0 ELSE END,
   appends |-> mode \in {"a", "a+"}, positions |-> n \in Names \ Sysout, failed |-> FALSE]

OpenAs(n) == {h \in DOMAIN open : open[h].name = n}
Text(c) == IF c = Absent THEN << >> ELSE c

\* The stream a call is about: one that is open, or one the call opens.
Found == call'.handle \in DOMAIN open
This(mode) == IF Found THEN open[call'.handle] ELSE Stream(call'.name, mode)
\* A stream that an implicit open for writing makes is written from the start.
Written == This(IF data[call'.name] = Absent \/ call'.name \in Sysout THEN "w" ELSE "r+")
Leaves(o, c) ==
  /\ open' = [h \in DOMAIN open \union {call'.handle} |-> IF h = call'.handle THEN o ELSE open[h]]
  /\ data' = [data EXCEPT ![o.name] = c]
\* An implicit open for reading needs the data set, one for writing makes it; both keep it.
MayOpen(mode) ==
  Found \/ /\ OpenAs(call'.name) = {}
           /\ mode = "r" => data[call'.name] # Absent
Keeps == UNCHANGED <<data, open>>

\* A failure is reported until the next actual read or write.
Noted(o, actual) == [o EXCEPT !.failed = call'.raised \/ (@ /\ ~ actual)]
\* A character position beyond the end; the one after the last character is where the
\* next would come.
Beyond(c) == call'.start # NONE /\ call'.start - 1 > Len(c)

----------------------------------------------------------------------------
(* Lines of c; positions are offsets.                                      *)

Before(c, p) == Cardinality({i \in 1 .. p : c[i] = LF})
\* Where line k is, or where it would come: nowhere if it is beyond that.
LineAt(c, k) == {p \in 0 .. Len(c) : (p = 0 \/ c[p] = LF) /\ Before(c, p) = k - 1}
After(c, p) == IF p >= Len(c) THEN p ELSE Min({i \in p + 1 .. Len(c) : c[i] = LF} \union {Len(c)})
OneLine(c, p) ==
  LET q == After(c, p)
  IN  SubSeq(c, p + 1, IF p < q /\ c[q] = LF THEN q - 1 ELSE q)
Put(c, p, t) == IF t = << >> THEN c ELSE SubSeq(c, 1, p) \o t \o SubSeq(c, p + Len(t) + 1, Len(c))

----------------------------------------------------------------------------
(* Opening and closing.                                                    *)

Opened(mode, before) ==
  /\ call'.handle \notin DOMAIN before
  /\ open' = [h \in DOMAIN before \union {call'.handle} |->
                IF h = call'.handle THEN Stream(call'.name, mode) ELSE before[h]]
  /\ data' = [data EXCEPT ![call'.name] = IF mode \in {"w", "w+"} THEN << >> ELSE Text(@)]
\* Why an open may be refused.
Refusable(n, mode) ==
  \/ n \notin Names \/ OpenAs(n) # {}
  \/ mode \in {"r", "r+"} /\ (data[n] = Absent \/ n \in Sysout)
  \/ n \in Members /\ mode \in {"a", "a+"} /\ data[n] # Absent
  \/ n \in Sysout /\ mode \in {"w+", "a+"}
  \/ n \in Protected /\ mode # "r"
Without(h) == [k \in DOMAIN open \ {h} |-> open[k]]

Open ==
  /\ call'.what = "OPEN"
  /\ LET bad == call'.value = "bad" /\ call'.mode \notin {"r", "r+"}
     IN  IF call'.handle = -1 THEN (bad \/ Refusable(call'.name, call'.mode)) /\ Keeps
         ELSE ~ bad /\ Opened(call'.mode, open)
Close == call'.what = "CLOSE" /\ Found /\ open' = Without(call'.handle) /\ UNCHANGED data
\* STREAM(..., 'C', an open command): the stream is closed first.
Reopen ==
  /\ call'.what = "REOPEN"
  /\ LET before == IF call'.old = -1 THEN open ELSE Without(call'.old)
     IN  /\ IF call'.old = -1 THEN OpenAs(call'.name) = {} ELSE open[call'.old].name = call'.name
         /\ IF call'.handle # -1 THEN Opened(call'.mode, before)
            ELSE open' = before /\ UNCHANGED data

----------------------------------------------------------------------------
(* The functions with positions.                                           *)

CharsLines(o) ==
  /\ call'.what \in {"CHARS", "LINES"} /\ MayOpen("r") /\ ~ call'.raised
  /\ LET c == data[o.name]
         rest == SubSeq(c, o.rpos + 1, Len(c))
         ends == rest # << >> /\ rest[Len(rest)] # LF
     IN  /\ o.positions =>
              call'.value = IF call'.what = "CHARS" THEN Len(rest)
                            ELSE Before(rest, Len(rest)) + (IF ends THEN 1 ELSE 0)
         /\ Leaves(o, c)

\* Where a line is read: the read position or the line asked for.
ReadStarts(o, c) == IF call'.start = NONE THEN {o.rpos} ELSE LineAt(c, call'.start)
\* NOTREADY where no line is left; with more lines asked for than are left nothing is
\* said of it, nor of the places of those that are missing.
LineIn(o) ==
  /\ call'.what = "LINEIN" /\ MayOpen("r")
  /\ LET c == data[o.name]
         Reads(p) ==
           LET q == After(c, p)
           IN  /\ call'.value \in
                    CASE call'.length = 0 -> {<< >>}
                      [] call'.length = 1 -> {OneLine(c, p)}
                      [] OTHER -> {OneLine(c, p) \o <<LF>> \o OneLine(c, q)} \union
                                  (IF q >= Len(c) THEN {OneLine(c, p)} ELSE {})
               /\ call'.length > 0 /\ p >= Len(c) => call'.raised
               /\ call'.raised => call'.length > 0 /\ Len(c) <= IF call'.length = 1 THEN p ELSE q
               /\ Leaves([Noted(o, call'.length > 0) EXCEPT
                            !.rpos = CASE call'.length = 0 -> p
                                       [] call'.length = 1 -> q
                                       [] OTHER -> After(c, q)], c)
     IN  IF ~ o.positions THEN Leaves(Noted(o, call'.length > 0), c)
         ELSE \/ \E p \in ReadStarts(o, c) : Reads(p)
              \/ /\ ReadStarts(o, c) = {} /\ call'.value = << >> /\ call'.raised
                 /\ Leaves([o EXCEPT !.failed = TRUE], c)

CharIn(o) ==
  /\ call'.what = "CHARIN" /\ MayOpen("r")
  /\ LET c == data[o.name]
         p == IF call'.start = NONE THEN o.rpos ELSE call'.start - 1
         t == SubSeq(c, p + 1, Min({p + call'.length, Len(c)}))
     IN  IF ~ o.positions THEN Leaves(Noted(o, call'.length > 0), c)
         ELSE /\ call'.value = t /\ call'.raised = (Len(t) < call'.length \/ Beyond(c))
              /\ Leaves([Noted(o, call'.length > 0) EXCEPT !.rpos = p + Len(t)], c)

\* The library may refuse a write to a member, to what may only be read, and to a data
\* set that is open twice.
MayRefuse(o) == o.name \in Members \union Protected \/ Cardinality(OpenAs(o.name)) > 1

\* Where a write goes: the write position or the start asked for.
Starts(o, c) ==
  IF call'.start = NONE THEN {IF o.wpos = END THEN Len(c) ELSE o.wpos}
  ELSE IF call'.what = "LINEOUT" THEN LineAt(c, call'.start) ELSE {call'.start - 1}

CharLineOut ==
  /\ call'.what \in {"LINEOUT", "CHAROUT"} /\ call'.text # Absent /\ MayOpen("w")
  /\ LET o == Written
         c == Text(data[o.name])
         t == IF call'.what = "LINEOUT" THEN call'.text \o <<LF>> ELSE call'.text
         Writes(p, k) ==
           LET at == IF o.appends THEN Len(c) ELSE p
               moved == IF k > 0 \/ at <= Len(c) THEN {at + k} ELSE {p}
               still == IF k = 0 THEN {p, o.wpos} ELSE {}
               beyond == call'.what = "CHAROUT" /\ Beyond(c)
           IN  /\ k < Len(t) => MayRefuse(o) \/ at > Len(c) \/ beyond
               /\ call'.value = IF call'.what = "CHAROUT" THEN Len(t) - k ELSE IF k = Len(t) THEN 0 ELSE 1
               /\ call'.raised = (call'.value # 0 \/ beyond)
               /\ \E q \in moved \union still :
                    Leaves([o EXCEPT !.wpos = q, !.failed = call'.raised], Put(c, at, SubSeq(t, 1, k)))
     IN  IF ~ o.positions
         THEN /\ call'.value = 0 /\ ~ call'.raised
              /\ Leaves([o EXCEPT !.failed = FALSE], c)
         ELSE \/ \E p \in Starts(o, c), k \in 0 .. Len(t) : Writes(p, k)
              \/ /\ Starts(o, c) = {} /\ call'.value = 1 /\ call'.raised
                 /\ Leaves([o EXCEPT !.failed = TRUE], c)

\* Without a text nothing is written, and a failure is not forgotten.
Position ==
  /\ call'.what \in {"LINEOUT", "CHAROUT"} /\ call'.text = Absent /\ MayOpen("w")
  /\ call'.value = 0
  /\ LET o == Written
         c == Text(data[o.name])
         beyond == IF call'.what = "CHAROUT" THEN Beyond(c) ELSE Starts(o, c) = {}
     IN  IF ~ o.positions THEN \E q \in {o.wpos, END} : Leaves([o EXCEPT !.wpos = q], c) /\ ~ call'.raised
         ELSE \/ /\ call'.start = NONE /\ ~ call'.raised
                 /\ Leaves([o EXCEPT !.wpos = END], c)
              \/ /\ call'.start # NONE /\ call'.raised = beyond
                 /\ \E p \in Starts(o, c) \union (IF beyond THEN {o.wpos} ELSE {}) :
                      Leaves([Noted(o, FALSE) EXCEPT !.wpos = p], c)

Reset ==
  /\ call'.what = "RESET" /\ Found
  /\ open' = [open EXCEPT ![call'.handle] = [@ EXCEPT !.rpos = 0, !.wpos = 0, !.failed = FALSE]]
  /\ UNCHANGED data
\* A failure is reported until it is forgotten.
Status ==
  /\ call'.what = "STATUS" /\ Keeps
  /\ IF Found THEN open[call'.handle].failed => call'.value = "NOTREADY"
     ELSE call'.value = "UNKNOWN" /\ OpenAs(call'.name) = {}

----------------------------------------------------------------------------
(* The functions with a position of their own, and the rest.               *)

Read ==
  /\ call'.what = "READ" /\ MayOpen("r")
  /\ Leaves(This("r"), data[This("r").name])
Write ==
  /\ call'.what = "WRITE" /\ (Found \/ OpenAs(call'.name) = {})
  /\ LET o == This("w")
         c == IF Found THEN data[o.name] ELSE << >>
     IN  \E p \in 0 .. Len(c), k \in 0 .. Len(call'.text) : Leaves(o, Put(c, p, SubSeq(call'.text, 1, k)))
\* SEEK, EOF and FLUSH move no position, and an error changes nothing.
Others == call'.what \in {"SEEK", "EOF", "FLUSH", "ERROR"} /\ Keeps
Ends == call'.what = "END" /\ open' = [h \in {} |-> 0] /\ UNCHANGED data

Next == \/ Open \/ Close \/ Reopen \/ CharsLines(This("r")) \/ LineIn(This("r")) \/ CharIn(This("r"))
        \/ CharLineOut \/ Position \/ Reset \/ Status \/ Read \/ Write \/ Others \/ Ends
Spec == [][Next]_vars
=============================================================================
