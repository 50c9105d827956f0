---------------------------- MODULE LinkedLists ----------------------------
(***************************************************************************)
(* Linked lists (src/rxll.c): entries chained both ways from the head      *)
(* of their list, which is used as an entry in front of the first one, and *)
(* a current entry per list.                                               *)
(*                                                                         *)
(* m is the storage: the links of heads and entries by address, the data   *)
(* of the entries, and last, count and current entry (llistcur) of each    *)
(* list.  An address that was freed has no links.                          *)
(***************************************************************************)
EXTENDS Integers, Sequences, SequencesExt, FiniteSets, Functions, TLC

CONSTANTS LLMAX,       \* llmax: lists at a time (32 in the code)
          MAXENTRY     \* bound: entries in storage

NULL == 0
END == -1              \* current: behind the last entry; as a link: an orphan
Root(l) == 100 + l
Entries == 1 .. MAXENTRY

Nothing == [k \in {} |-> NULL]
NoLists == [next |-> Nothing, previous |-> Nothing, data |-> Nothing,
            last |-> Nothing, count |-> Nothing, cur |-> Nothing]

Lists(m) == DOMAIN m.count
Room(m, n) == Cardinality(Entries \ DOMAIN m.data) >= n
NewEntry(m) == CHOOSE a \in Entries \ DOMAIN m.data :
                 \A b \in Entries \ DOMAIN m.data : a <= b
Orphans(m) == {a \in DOMAIN m.data : m.next[a] = END}

\* LLCREATE: the first free number; all in use is an error.
NewList(m) == CHOOSE l \in 0 .. LLMAX - 1 :
                l \notin Lists(m) /\ \A k \in 0 .. l - 1 : k \in Lists(m)
R_llcreate(m) ==
  LET l == NewList(m)
  IN  [m EXCEPT !.next = (Root(l) :> NULL) @@ @, !.previous = (Root(l) :> NULL) @@ @,
                !.last = (l :> NULL) @@ @, !.count = (l :> 0) @@ @, !.cur = (l :> Root(l)) @@ @]

Allocated(m, a, data) ==
  [m EXCEPT !.next = (a :> NULL) @@ @, !.previous = (a :> NULL) @@ @, !.data = (a :> data) @@ @]
Freed(m, a) ==
  [m EXCEPT !.next = Restrict(@, DOMAIN @ \ {a}), !.previous = Restrict(@, DOMAIN @ \ {a}),
            !.data = Restrict(@, DOMAIN @ \ {a})]

linknode(m, predecessor, node, successor) ==
  [m EXCEPT !.next = [@ EXCEPT ![predecessor] = node, ![node] = successor],
            !.previous[node] = predecessor]

Counted(m, l, a) == [m EXCEPT !.cur[l] = a, !.count[l] = @ + 1]

\* llnew(): a new entry at the end becomes the current one.
llnew(m, l, data) ==
  LET a == NewEntry(m)
      before == IF m.last[l] = NULL THEN Root(l) ELSE m.last[l]
  IN  [Counted(linknode(Allocated(m, a, data), before, a, NULL), l, a) EXCEPT !.last[l] = a]

\* unlinkll(): entry a leaves the list; the entry after it becomes the current
\* one, or the one before if there is none, or the head.
Emptied(m, l) ==
  [m EXCEPT !.next[Root(l)] = NULL, !.previous[Root(l)] = NULL, !.last[l] = NULL,
            !.cur[l] = Root(l)]
unlinkll(m, a, l) ==
  LET fwd == m.next[a]
      prev == m.previous[a]
      first == m.previous[m.cur[l]] = Root(l)
      m1 == [m EXCEPT !.next[IF first THEN Root(l) ELSE prev] = fwd]
      m2 == IF fwd = NULL THEN m1 ELSE [m1 EXCEPT !.previous[fwd] = prev]
      m3 == IF prev \in {NULL, Root(l)} THEN [m2 EXCEPT !.cur[l] = m2.next[Root(l)]]
            ELSE IF fwd = NULL THEN [m2 EXCEPT !.cur[l] = prev, !.last[l] = prev]
            ELSE [m2 EXCEPT !.cur[l] = fwd]
  IN  IF m.count[l] < 1 THEN Emptied(m, l)
      ELSE [IF m.count[l] = 1 THEN Emptied(m, l) ELSE m3 EXCEPT !.count[l] = @ - 1]

\* llStep(): the entry after or before; no entry is the head or NULL.
llStep(m, l, at, forward) ==
  IF forward
    THEN IF at \in {NULL, END} THEN NULL ELSE m.next[at]
    ELSE IF at = END THEN m.last[l]
         ELSE IF at \in {NULL, Root(l)} THEN Root(l) ELSE m.previous[at]

\* Mutant: the entry behind keeps its link to the one in front.
llLinkBeforeOneWay(m, l, node, where) ==
  LET at == IF where = Root(l) THEN m.next[Root(l)] ELSE where
      prev == IF at \in {NULL, END}
                THEN IF m.last[l] = NULL THEN Root(l) ELSE m.last[l]
                ELSE IF m.previous[at] = NULL THEN Root(l) ELSE m.previous[at]
  IN  IF at \in {NULL, END}
        THEN [linknode(m, prev, node, NULL) EXCEPT !.last[l] = node]
        ELSE linknode(m, prev, node, at)

\* llLinkBefore(): at the head means before the first entry, NULL and END at
\* the end.
llLinkBefore(m, l, node, where) ==
  LET at == IF where = Root(l) THEN m.next[Root(l)] ELSE where
      prev == IF at \in {NULL, END}
                THEN IF m.last[l] = NULL THEN Root(l) ELSE m.last[l]
                ELSE IF m.previous[at] = NULL THEN Root(l) ELSE m.previous[at]
  IN  IF at \in {NULL, END}
        THEN [linknode(m, prev, node, NULL) EXCEPT !.last[l] = node]
        ELSE [linknode(m, prev, node, at) EXCEPT !.previous[at] = node]

R_llinsert(m, l, data, at) ==
  LET a == NewEntry(m)
  IN  Counted(llLinkBefore(Allocated(m, a, data), l, a, at), l, a)

\* LLGET: where its option moves to; FIFO and LIFO take the entry away.
Moved(m, l, option) ==
  CASE option \in {"FIRST", "FIFO"} -> m.next[Root(l)]
    [] option \in {"LAST", "LIFO"} -> m.last[l]
    [] option = "NEXT" -> llStep(m, l, m.cur[l], TRUE)
    [] option = "PREVIOUS" -> llStep(m, l, m.cur[l], FALSE)
    [] option = "" -> IF m.cur[l] = Root(l) THEN m.next[Root(l)] ELSE m.cur[l]
R_llget(m, l, option) ==
  LET m1 == [m EXCEPT !.cur[l] = Moved(m, l, option)]
  IN  IF /\ option \in {"FIFO", "LIFO"} /\ m.next[Root(l)] # NULL
         /\ m1.cur[l] \notin {NULL, Root(l)}
        THEN Freed(unlinkll(m1, m1.cur[l], l), m1.cur[l]) ELSE m1

\* LLSET: FIRST, NEXT, PREVIOUS, LAST and a position; without a current entry
\* the answer is -8 and nothing moves.
Walk(m, l) ==
  LET from[a \in DOMAIN m.next \union {NULL}] ==
        IF a = NULL THEN <<>> ELSE <<a>> \o from[m.next[a]]
  IN  from[m.next[Root(l)]]
SetTo(m, l, option) ==
  CASE option = "FIRST" -> m.next[Root(l)]
    [] option = "NEXT" -> m.next[m.cur[l]]
    [] option = "PREVIOUS" ->
         IF m.previous[m.cur[l]] = Root(l) THEN NULL ELSE m.previous[m.cur[l]]
    [] option = "LAST" -> m.last[l]
R_llset(m, l, option) ==
  IF option \in {"NEXT", "PREVIOUS"} /\ m.cur[l] = NULL THEN m
  ELSE [m EXCEPT !.cur[l] = SetTo(m, l, option)]
R_llposition(m, l, n) ==
  IF m.next[Root(l)] = NULL THEN m
  ELSE [m EXCEPT !.cur[l] = IF n < 0 THEN END ELSE IF n = 0 THEN Root(l)
                            ELSE IF n <= Len(Walk(m, l)) THEN Walk(m, l)[n] ELSE m.last[l]]

\* LLDEL frees what it unlinks, LLDELINK keeps it as an orphan; an address
\* becomes the current entry first.
R_lldel(m, l) ==
  IF m.cur[l] = NULL \/ m.count[l] < 1 THEN m
  ELSE Freed(unlinkll(m, m.cur[l], l), m.cur[l])
R_lldelink(m, l) ==
  LET a == m.cur[l]
      m1 == unlinkll(m, a, l)
  IN  IF a = NULL THEN m ELSE [m1 EXCEPT !.next[a] = END, !.previous[a] = END]
At(m, l, a) == [m EXCEPT !.cur[l] = a]
R_lllink(m, l, orphan, at) == Counted(llLinkBefore(m, l, orphan, at), l, orphan)

\* LLCLEAR and LLFREE free what the chain of the list reaches.
RECURSIVE FreedAll(_, _)
FreedAll(m, s) == IF s = <<>> THEN m ELSE FreedAll(Freed(m, s[1]), Tail(s))
R_llclear(m, l) ==
  [Emptied(FreedAll(m, Walk(m, l)), l) EXCEPT !.count[l] = 0]
R_llfree(m, l) ==
  LET m1 == Freed(FreedAll(m, Walk(m, l)), Root(l))
  IN  [m1 EXCEPT !.last = Restrict(@, DOMAIN @ \ {l}), !.count = Restrict(@, DOMAIN @ \ {l}),
                 !.cur = Restrict(@, DOMAIN @ \ {l})]

\* LLCOPY, S2LL: entries from .. to of a list or an array, each through llnew().
Chosen(s, from, to) ==
  LET positions == {p \in DOMAIN s : p >= from /\ (to <= 0 \/ p <= to)}
  IN  [i \in 1 .. Cardinality(positions) |->
         s[CHOOSE p \in positions : Cardinality({q \in positions : q <= p}) = i]]
Added(m, l, values) == FoldLeft(LAMBDA x, v : llnew(x, l, v), m, values)
Values(m, l) == [i \in DOMAIN Walk(m, l) |-> m.data[Walk(m, l)[i]]]
R_llcopy(m, from, to, l1, l2) == Added(m, l2, Chosen(Values(m, l1), from, to))
=============================================================================
