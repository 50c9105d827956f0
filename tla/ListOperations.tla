--------------------------- MODULE ListOperations ---------------------------
(***************************************************************************)
(* Linked lists in use: every function of LinkedLists, beside what an exec *)
(* believes: the entries of each list in their order and its current one,  *)
(* which is an entry, the front, behind the last one or none.              *)
(***************************************************************************)
EXTENDS Integers, Sequences, SequencesExt, FiniteSets, FiniteSetsExt, Functions, TLC

CONSTANTS LLMAX, MAXENTRY,
          DATA,              \* contents of entries
          CAREFUL            \* no LLDEL or LLDELINK at the front of a list

VARIABLES lists,             \* the storage: see LinkedLists
          list               \* list number -> its entries and its current one

L == INSTANCE LinkedLists
FRONT == 0             \* in front of the first entry
BEHIND == -1           \* behind the last one
NONE == -2

ListInit == lists = L!NoLists /\ list = << >>

In == DOMAIN list
Entries(l) == list[l].entries
Current(l) == list[l].cur
At(l, a) == CHOOSE i \in DOMAIN Entries(l) : Entries(l)[i] = a
Believe(l, entries, cur) == list' = [list EXCEPT ![l] = [entries |-> entries, cur |-> cur]]
Either(s, other) == IF s = << >> THEN other ELSE s[1]
Without(l, a) == SelectSeq(Entries(l), LAMBDA b : b # a)
\* Where the list stands when entry a is gone: behind it, else before it.
AfterRemoval(l, a) ==
  LET i == At(l, a)  n == Len(Entries(l))
  IN  IF i < n THEN Entries(l)[i + 1] ELSE IF n > 1 THEN Entries(l)[i - 1] ELSE FRONT
\* A new entry a in front of entry b, or at the front or the end.
InsertedBefore(l, a, b) ==
  IF b \in {NONE, BEHIND} \/ Entries(l) = << >> THEN Append(Entries(l), a)
  ELSE LET i == IF b = FRONT THEN 1 ELSE At(l, b)
       IN  SubSeq(Entries(l), 1, i - 1) \o <<a>> \o SubSeq(Entries(l), i, Len(Entries(l)))
Addresses(l) == {Entries(l)[i] : i \in DOMAIN Entries(l)}

----------------------------------------------------------------------------
Create ==
  /\ Cardinality(In) < LLMAX
  /\ lists' = L!R_llcreate(lists)
  /\ list' = (L!NewList(lists) :> [entries |-> << >>, cur |-> FRONT]) @@ list
Add(l, d) ==
  /\ L!Room(lists, 1)
  /\ lists' = L!llnew(lists, l, d)
  /\ Believe(l, Append(Entries(l), L!NewEntry(lists)), L!NewEntry(lists))
\* LLINSERT before the current entry, or before an entry of the list.
Insert(l, d, b) ==
  /\ L!Room(lists, 1)
  /\ lists' = L!R_llinsert(lists, l, d, IF b = FRONT THEN lists.cur[l] ELSE b)
  /\ Believe(l, InsertedBefore(l, L!NewEntry(lists), IF b = FRONT THEN Current(l) ELSE b),
             L!NewEntry(lists))

NextOf(l) ==
  IF Current(l) = FRONT THEN Either(Entries(l), NONE)
  ELSE IF Current(l) \in {NONE, BEHIND} \/ Current(l) = Last(Entries(l)) THEN NONE
  ELSE Entries(l)[At(l, Current(l)) + 1]
PreviousOf(l) ==
  IF Current(l) = BEHIND THEN Last(Entries(l))
  ELSE IF Current(l) \in {FRONT, NONE} \/ Current(l) = Entries(l)[1] THEN FRONT
  ELSE Entries(l)[At(l, Current(l)) - 1]
Moved(l, option) ==
  CASE option = "FIRST" -> Either(Entries(l), NONE)
    [] option = "LAST" -> IF Entries(l) = << >> THEN NONE ELSE Last(Entries(l))
    [] option = "NEXT" -> NextOf(l)
    [] option = "PREVIOUS" -> PreviousOf(l)
    [] option = "" -> IF Current(l) = FRONT THEN Either(Entries(l), NONE) ELSE Current(l)
Get(l, option) ==
  /\ lists' = L!R_llget(lists, l, option)
  /\ Believe(l, Entries(l), Moved(l, option))
\* LLGET FIFO and LIFO take an entry away.
Take(l, option) ==
  LET s == Entries(l)
      rest == IF option = "FIFO" THEN Tail(s) ELSE Front(s)
  IN  /\ lists' = L!R_llget(lists, l, option)
      /\ IF s = << >> THEN Believe(l, s, NONE)
         ELSE Believe(l, rest, IF rest = << >> THEN FRONT
                               ELSE IF option = "FIFO" THEN rest[1] ELSE Last(rest))

\* LLSET; LLSET PREVIOUS of the first entry leaves no current one.
Set(l, option) ==
  /\ Current(l) # BEHIND
  /\ lists' = L!R_llset(lists, l, option)
  /\ Believe(l, Entries(l),
       IF option \in {"FIRST", "LAST"} THEN Moved(l, option)
       ELSE IF Current(l) = NONE THEN NONE
       ELSE IF option = "PREVIOUS" /\ PreviousOf(l) = FRONT THEN NONE ELSE Moved(l, option))
SetPosition(l, n) ==
  /\ lists' = L!R_llposition(lists, l, n)
  /\ Believe(l, Entries(l),
       IF Entries(l) = << >> THEN Current(l) ELSE IF n < 0 THEN BEHIND ELSE IF n = 0 THEN FRONT
       ELSE Entries(l)[Min({n, Len(Entries(l))})])
\* The address of an entry of the list, for LLGET, LLSET, LLSEARCH and others.
SetAddress(l, a) == lists' = L!At(lists, l, a) /\ Believe(l, Entries(l), a)

\* LLDEL and LLDELINK of the current entry; without one the answer is -8.
Removable(l) == Current(l) # BEHIND /\ (CAREFUL => Current(l) # FRONT)
Delete(l) ==
  /\ Removable(l)
  /\ lists' = L!R_lldel(lists, l)
  /\ IF Current(l) \in Addresses(l)
       THEN Believe(l, Without(l, Current(l)), AfterRemoval(l, Current(l)))
       ELSE Believe(l, Entries(l), Current(l))
Delink(l) ==
  /\ Removable(l) /\ Current(l) # FRONT
  /\ lists' = L!R_lldelink(lists, l)
  /\ IF Current(l) = NONE THEN Believe(l, Entries(l), NONE)
     ELSE Believe(l, Without(l, Current(l)), AfterRemoval(l, Current(l)))
\* LLLINK of an orphan of any list, before the current entry or another one.
Link(l, a, b) ==
  /\ lists' = L!R_lllink(lists, l, a, IF b = FRONT THEN lists.cur[l] ELSE b)
  /\ Believe(l, InsertedBefore(l, a, IF b = FRONT THEN Current(l) ELSE b), a)

Clear(l) == lists' = L!R_llclear(lists, l) /\ Believe(l, << >>, FRONT)
FreeList(l) == lists' = L!R_llfree(lists, l) /\ list' = Restrict(list, In \ {l})

\* LLCOPY into another list, S2LL of an array.
RECURSIVE Addresses2(_, _)
Addresses2(m, n) ==
  IF n = 0 THEN << >> ELSE <<L!NewEntry(m)>> \o Addresses2(L!Allocated(m, L!NewEntry(m), 0), n - 1)
Filled(l, n) == LET s == Addresses2(lists, n)
                IN  Believe(l, Entries(l) \o s, IF n = 0 THEN Current(l) ELSE Last(s))
Copy(l1, l2, from, to) ==
  LET n == Max({0, (IF to = 0 THEN Len(Entries(l1)) ELSE Min({to, Len(Entries(l1))})) - from + 1})
  IN  /\ l1 # l2 /\ L!Room(lists, n)
      /\ lists' = L!R_llcopy(lists, from, to, l1, l2)
      /\ Filled(l2, n)
FromArray(l, s, from, to) ==
  LET values == SubSeq(s, from, Min({to, Len(s)}))
  IN  /\ L!Room(lists, Len(values))
      /\ lists' = L!Added(lists, l, values)
      /\ Filled(l, Len(values))

ListNext ==
  \/ Create
  \/ \E l \in In :
       \/ Clear(l) \/ FreeList(l) \/ Delete(l) \/ Delink(l)
       \/ \E d \in DATA : Add(l, d) \/ \E b \in Addresses(l) \union {FRONT} : Insert(l, d, b)
       \/ \E option \in {"FIRST", "LAST", "NEXT", "PREVIOUS", ""} : Get(l, option)
       \/ \E option \in {"FIFO", "LIFO"} : Take(l, option)
       \/ \E option \in {"FIRST", "LAST", "NEXT", "PREVIOUS"} : Set(l, option)
       \/ \E n \in -1 .. 2 : SetPosition(l, n)
       \/ \E a \in Addresses(l) : SetAddress(l, a)
       \/ \E a \in L!Orphans(lists), b \in Addresses(l) \union {FRONT} : Link(l, a, b)
       \/ \E from, to \in 1 .. 2 : FromArray(l, <<1, 2>>, from, to)
       \/ \E k \in In, from \in 1 .. 2, to \in 0 .. 2 : Copy(k, l, from, to)

----------------------------------------------------------------------------
Position(l) ==
  CASE lists.cur[l] = L!Root(l) -> FRONT
    [] lists.cur[l] = L!NULL -> NONE
    [] lists.cur[l] = L!END -> BEHIND
    [] OTHER -> lists.cur[l]
Backward(l) ==
  LET from[a \in DOMAIN lists.next \union {L!NULL}] ==
        IF a \in {L!NULL, L!Root(l)} THEN << >> ELSE <<a>> \o from[lists.previous[a]]
  IN  from[lists.last[l]]

\* After entries were added, inserted, taken, deleted, delinked, linked into
\* another list and copied, at any position (rxll.c:74-651): each list is the
\* same entries forwards and backwards, in the order the calls left, the
\* current entry is the one the documentation names and never a deleted one,
\* the count is right, and an entry in storage is on one list or an orphan.
ListsSound ==
  /\ DOMAIN lists.count = In
  /\ \A l \in In :
       /\ L!Walk(lists, l) = Entries(l)
       /\ Backward(l) = Reverse(Entries(l))
       /\ lists.count[l] = Len(Entries(l))
       /\ Position(l) = Current(l)
  /\ \A a \in DOMAIN lists.data :
       Cardinality({l \in In : a \in Addresses(l)}) + (IF a \in L!Orphans(lists) THEN 1 ELSE 0) = 1

\* A list that was made and not freed keeps its head, for every later call to
\* use (rxll.c:565): LLDEL removes the current entry (ext-array.typ:1558) and
\* there is none at position 0.
HeadStays == \A l \in DOMAIN lists.count : L!Root(l) \in DOMAIN lists.next
=============================================================================
