----------------------------- MODULE DataStack -----------------------------
(***************************************************************************)
(* The data stack (src/stack.c, dqueue.c), the instructions and            *)
(* functions on it, and EXECIO (src/rxexecio.c), which moves records       *)
(* between a file, a stem and the topmost buffer.                          *)
(*                                                                         *)
(* rxStackList is the list of buffers, the topmost one last; a buffer is a *)
(* queue, its top last as well.  A stem is [hi, item]: its element 0 and   *)
(* those from 1 on.                                                        *)
(***************************************************************************)
EXTENDS Integers, Sequences, SequencesExt, FiniteSets, FiniteSetsExt

CONSTANTS RECORDS,     \* contents of records
          MAXBUFFERS, MAXSTEM,
          MAXRECORDS   \* bounds: MAXRECORDS in stack and file together

VARIABLES rxStackList, file, stem,
          due          \* what they should hold, told without the code

NoRecord == "none"
Buffer == Last(rxStackList)
WithBuffer(b) == Append(Front(rxStackList), b)
Records(list) == FlattenSeq(list)
Top(s) == Last(s)
Fits(n) == Len(Records(rxStackList)) + Len(file) + n <= MAXRECORDS
Options == [maxrecs : 0 .. 2, skip : 0 .. 1, startAT : 0 .. 1,
            filter : {"none", "DROP", "KEEP"}, text : {CHOOSE r \in RECORDS : TRUE}]

----------------------------------------------------------------------------
(* What is due: buffers from the topmost one down, each from its top down. *)

Passes(r, o) == o.filter # "none" => (r = o.text) = (o.filter = "KEEP")
Rest(s, n) == SubSeq(s, n + 1, Len(s))
\* Where the moving ends: behind the last record wanted, or with the last one.
Ends(s, o) ==
  {e \in o.skip .. Len(s) :
     o.maxrecs > 0 /\ Cardinality({i \in o.skip + 1 .. e : Passes(s[i], o)}) = o.maxrecs}
EndOf(s, o) == IF Ends(s, o) = {} THEN Len(s) ELSE Min(Ends(s, o))
Selected(s, o) == SelectSeq(SubSeq(s, o.skip + 1, EndOf(s, o)), LAMBDA r : Passes(r, o))
DueStem(s, start) ==
  [hi |-> start + Len(s),
   item |-> [i \in 1 .. MAXSTEM |-> IF i \in start + 1 .. start + Len(s) THEN s[i - start]
                                    ELSE due.stem.item[i]]]
NotEmpty(buffers) ==
  LET kept == {i \in DOMAIN buffers : i = Len(buffers) \/ \E j \in 1 .. i : buffers[j] # <<>>}
  IN  SubSeq(buffers, Min(kept), Len(buffers))

----------------------------------------------------------------------------
(* PUSH, QUEUE and PULL, MAKEBUF(), DROPBUF() and DESBUF().                *)

Queue2Stack(list, r) == Append(Front(list), <<r>> \o Last(list))
Push2Stack(list, r) == Append(Front(list), Append(Last(list), r))
rxqueue(list, r, mode) == IF mode = "FIFO" THEN Queue2Stack(list, r) ELSE Push2Stack(list, r)

RX_PUSH(r) ==
  /\ Fits(1)
  /\ rxStackList' = Push2Stack(rxStackList, r)
  /\ due' = [due EXCEPT !.stack = <<<<r>> \o @[1]>> \o Tail(@)]
  /\ UNCHANGED <<file, stem>>

RX_QUEUE(r) ==
  /\ Fits(1)
  /\ rxStackList' = Queue2Stack(rxStackList, r)
  /\ due' = [due EXCEPT !.stack = <<Append(@[1], r)>> \o Tail(@)]
  /\ UNCHANGED <<file, stem>>

\* Empty buffers but the lowest go, before and after; nothing left reads the
\* terminal.
EmptyDeleted(list) ==
  LET deleted[n \in 1 .. Len(list)] ==
        IF list[n] = <<>> /\ n > 1 THEN deleted[n - 1] ELSE SubSeq(list, 1, n)
  IN  deleted[Len(list)]
RX_PULL ==
  LET list == EmptyDeleted(rxStackList)
      s == NotEmpty(due.stack)
  IN  /\ rxStackList' = IF Last(list) = <<>> THEN list
                        ELSE EmptyDeleted(Append(Front(list), Front(Last(list))))
      /\ due' = [due EXCEPT !.stack = IF s[1] = <<>> THEN s
                                      ELSE NotEmpty(<<Tail(s[1])>> \o Tail(s))]
      /\ UNCHANGED <<file, stem>>

MAKEBUF ==
  /\ Len(rxStackList) < MAXBUFFERS
  /\ rxStackList' = Append(rxStackList, <<>>)
  /\ due' = [due EXCEPT !.stack = <<<<>>>> \o @]
  /\ UNCHANGED <<file, stem>>

\* The lowest buffer is emptied, never deleted.
R_dropbuf(n) ==
  /\ rxStackList' = IF n = 0 THEN rxStackList
                    ELSE IF n < Len(rxStackList)
                      THEN SubSeq(rxStackList, 1, Len(rxStackList) - n)
                    ELSE << <<>> >>
  /\ due' = [due EXCEPT !.stack = IF n >= Len(@) THEN << <<>> >> ELSE Rest(@, n)]
  /\ UNCHANGED <<file, stem>>
DESBUF ==
  /\ rxStackList' = << <<>> >>
  /\ due' = [due EXCEPT !.stack = << <<>> >>]
  /\ UNCHANGED <<file, stem>>

\* QUEUED('A'), ('T') and ('B').
R_queued(option) ==
  CASE option = "A" -> FoldLeft(LAMBDA n, b : n + Len(b), 0, rxStackList)
    [] option = "T" -> Len(Buffer)
    [] option = "B" -> Len(rxStackList)

----------------------------------------------------------------------------
(* EXECIO.  x is the state of its loops: what was moved, how often.        *)

filter(r, o) == CASE o.filter = "DROP" -> r # o.text
                  [] o.filter = "KEEP" -> r = o.text
                  [] OTHER -> TRUE
Full(count, o) == o.maxrecs > 0 /\ count >= o.maxrecs
\* Mutant: the records at the bottom are skipped.
skipStackBottom(b, n) == SubSeq(b, Min({n, Len(b)}) + 1, Len(b))
skipStack(b, n) == SubSeq(b, 1, Len(b) - Min({n, Len(b)}))

\* Records are pulled off the buffer until it is empty or there are enough.
Pulled(b, o) ==
  LET loop[n \in 0 .. Len(b), recs \in 0 .. Len(b)] ==
        IF n = 0 \/ Full(recs, o) THEN [left |-> n, out |-> <<>>]
        ELSE LET ok == filter(b[n], o)
                 next == loop[n - 1, IF ok THEN recs + 1 ELSE recs]
             IN  [next EXCEPT !.out = IF ok THEN <<b[n]>> \o @ ELSE @]
      x == loop[Len(b), 0]
  IN  [buffer |-> SubSeq(b, 1, x.left), out |-> x.out]
\* The same over the items from .. n of a file or a stem, which stay.
Read(s, n, o) ==
  LET loop[i \in 1 .. n + 1, recs \in 0 .. n] ==
        IF i > n \/ Full(recs, o) THEN <<>>
        ELSE IF filter(s[i], o) THEN <<s[i]>> \o loop[i + 1, recs + 1] ELSE loop[i + 1, recs]
  IN  loop[Min({o.skip, n}) + 1, 0]

setStem(out, startAT) ==
  [hi |-> Len(out) + startAT,
   item |-> [i \in 1 .. MAXSTEM |-> IF i - startAT \in DOMAIN out THEN out[i - startAT]
                                    ELSE stem.item[i]]]

\* DISKR: the file to a stem, or to the stack.
DISKR_STEM(o) ==
  LET out == Read(file, Len(file), o)
  IN  /\ Len(out) + o.startAT <= MAXSTEM
      /\ stem' = setStem(out, o.startAT)
      /\ due' = [due EXCEPT !.stem = DueStem(Selected(due.file, o), o.startAT)]
      /\ UNCHANGED <<rxStackList, file>>
DISKR(o, mode) ==
  LET out == Read(file, Len(file), o)
      s == Selected(due.file, o)
  IN  /\ Fits(Len(out))
      /\ rxStackList' = FoldLeft(LAMBDA list, r : rxqueue(list, r, mode), rxStackList, out)
      /\ due' = [due EXCEPT !.stack = <<IF mode = "FIFO" THEN @[1] \o s ELSE Reverse(s) \o @[1]>>
                                      \o Tail(@)]
      /\ UNCHANGED <<file, stem>>

\* DISKW, DISKA: the stack or a stem to the file.  DISKW has emptied the file
\* when it finds the stack empty (RC 8).
DISKW_STACK(o, append) ==
  LET x == Pulled(skipStack(Buffer, o.skip), o)
      old == IF append THEN file ELSE <<>>
      s == due.stack[1]
  IN  /\ IF Buffer = <<>> THEN file' = old /\ UNCHANGED rxStackList
                          ELSE file' = old \o x.out /\ rxStackList' = WithBuffer(x.buffer)
      /\ due' = [due EXCEPT !.file = (IF append THEN @ ELSE <<>>) \o Selected(s, o),
                            !.stack = <<Rest(s, EndOf(s, o))>> \o Tail(@)]
      /\ UNCHANGED stem
DISKW_STEM(o, append) ==
  LET out == Read(stem.item, stem.hi, o)
      old == IF append THEN file ELSE <<>>
  IN  /\ Fits(Len(out) - (Len(file) - Len(old)))
      /\ file' = old \o out
      /\ due' = [due EXCEPT !.file = (IF append THEN @ ELSE <<>>)
                                     \o Selected(SubSeq(due.stem.item, 1, due.stem.hi), o)]
      /\ UNCHANGED <<rxStackList, stem>>

\* FIFOR, LIFOR: the stack to a stem; FIFOW, LIFOW: a stem to the stack.
FIFOR(o) ==
  LET x == Pulled(skipStack(Buffer, o.skip), o)
      s == due.stack[1]
  IN  /\ Len(x.out) <= MAXSTEM
      /\ stem' = setStem(x.out, 0)
      /\ rxStackList' = WithBuffer(x.buffer)
      /\ due' = [due EXCEPT !.stem = DueStem(Selected(s, o), 0),
                            !.stack = <<Rest(s, EndOf(s, o))>> \o Tail(@)]
      /\ UNCHANGED file
FIFOW(o, mode) ==
  LET out == Read(stem.item, stem.hi, o)
      s == Selected(SubSeq(due.stem.item, 1, due.stem.hi), o)
  IN  /\ Fits(Len(out))
      /\ rxStackList' = FoldLeft(LAMBDA list, r : rxqueue(list, r, mode), rxStackList, out)
      /\ due' = [due EXCEPT !.stack = <<IF mode = "FIFO" THEN @[1] \o s ELSE Reverse(s) \o @[1]>>
                                      \o Tail(@)]
      /\ UNCHANGED <<file, stem>>

----------------------------------------------------------------------------
NoStem == [hi |-> 0, item |-> [i \in 1 .. MAXSTEM |-> NoRecord]]

StackInit ==
  /\ rxStackList = << <<>> >> /\ file = <<>> /\ stem = NoStem
  /\ due = [stack |-> << <<>> >>, file |-> <<>>, stem |-> NoStem]

StackNext ==
  \/ \E r \in RECORDS : RX_PUSH(r) \/ RX_QUEUE(r)
  \/ RX_PULL \/ MAKEBUF \/ DESBUF
  \/ \E n \in 0 .. 2 : R_dropbuf(n)
  \/ \E o \in Options :
       \/ DISKR_STEM(o)
       \/ /\ o.startAT = 0
          /\ \/ \E mode \in {"FIFO", "LIFO"} : DISKR(o, mode) \/ FIFOW(o, mode)
             \/ \E append \in BOOLEAN : DISKW_STACK(o, append) \/ DISKW_STEM(o, append)
             \/ FIFOR(o)

\* Stack, file and stem hold what the documentation of the instructions and of
\* EXECIO says (docs/books/ref/ext-dataset.typ:318): PULL takes the top of the topmost
\* buffer that is not empty; EXECIO moves the first records, as many as asked
\* for, of those that follow SKIP and pass the filter, in their order (onto
\* the stack in the reverse order for LIFO), and element 0 of a stem is the
\* number of the last one (rxexecio.c:210-357).
RecordsMoved ==
  /\ due.stack = Reverse([i \in DOMAIN rxStackList |-> Reverse(rxStackList[i])])
  /\ due.file = file /\ due.stem = stem
  /\ R_queued("A") = Len(FlattenSeq(due.stack)) /\ R_queued("B") = Len(due.stack)
  /\ R_queued("T") = Len(due.stack[1])
=============================================================================
