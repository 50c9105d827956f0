------------------------------ MODULE BinTree ------------------------------
(***************************************************************************)
(* The threaded binary tree behind scopes, stems, literals and labels      *)
(* (src/bintree.c).  A leaf without a right child has a thread to its      *)
(* successor instead; BinBalance() and BinDel() flatten the tree into a    *)
(* list along the threads and build it anew.  Keys are numbers, compared   *)
(* as _Lstrcmp() compares texts; a leaf is named by its key.               *)
(***************************************************************************)
EXTENDS Integers, Sequences, FiniteSets, FiniteSetsExt, SequencesExt, TLC

CONSTANTS BALANCE_START, BALANCE_INC     \* 7 and 8 in the code

NULL == 0
NewTree == [leaf |-> [k \in {} |-> NULL], parent |-> NULL, items |-> 0,
            maxdepth |-> 0, balancedepth |-> BALANCE_START]

Leaf(left, right, threaded) == [left |-> left, right |-> right, isThreaded |-> threaded]
Keys(t) == DOMAIN t.leaf

\* The leaves a search for k passes, from x on; the last one is k if it is found.
Child(t, k, x) == IF k < x THEN t.leaf[x].left
                  ELSE IF t.leaf[x].isThreaded THEN NULL ELSE t.leaf[x].right
Path(t, k) ==
  LET from[x \in Keys(t) \union {NULL}] ==
        IF x = NULL THEN <<>> ELSE IF x = k THEN <<k>> ELSE <<x>> \o from[Child(t, k, x)]
  IN  from[t.parent]
BinFind(t, k) == Contains(Path(t, k), k)

\* Along the left links; along a thread, or down to the first of the right.
BinMin(t, x) ==
  LET min[y \in Keys(t) \union {NULL}] ==
        IF y = NULL \/ t.leaf[y].left = NULL THEN y ELSE min[t.leaf[y].left]
  IN  min[x]
BinSuccessor(t, x) ==
  IF t.leaf[x].isThreaded THEN t.leaf[x].right ELSE BinMin(t, t.leaf[x].right)

\* What a traversal meets, from the first leaf to BinMax().
Traversal(t) ==
  LET from[y \in Keys(t) \union {NULL}] ==
        IF y = NULL THEN <<>> ELSE <<y>> \o from[BinSuccessor(t, y)]
  IN  from[BinMin(t, t.parent)]

\* toLinked(): the same leaves as a doubly linked list; the last one keeps
\* its flag, the first one its left link, which is NULL.
Linked(t, s) ==
  [k \in Keys(t) |->
     LET i == CHOOSE i \in DOMAIN s : s[i] = k
     IN  [left |-> IF i = 1 THEN t.leaf[k].left ELSE s[i - 1],
          right |-> IF i = Len(s) THEN t.leaf[k].right ELSE s[i + 1],
          isThreaded |-> t.leaf[k].isThreaded /\ i = Len(s)]]

\* LeafConstruct() on the members first .. last of the list s: the middle one
\* is the root, of two the first.
Root(s, first, last) ==
  LET n == last - first + 1
  IN  IF n = 0 THEN NULL ELSE IF n <= 2 THEN s[first] ELSE s[first + n \div 2]
Built(leaf, s) ==
  LET built[first \in 1 .. Len(s) + 1, last \in 0 .. Len(s)] ==
        LET n == last - first + 1
            mid == first + n \div 2
            With(k, l, r) == k :> [leaf[k] EXCEPT !.left = l, !.right = r]
        IN  CASE n = 0 -> << >>
              [] n = 1 -> With(s[first], NULL, NULL)
              [] n = 2 -> With(s[first], NULL, s[last]) @@ With(s[last], NULL, NULL)
              [] OTHER -> With(s[mid], Root(s, first, mid - 1), Root(s, mid + 1, last))
                          @@ built[first, mid - 1] @@ built[mid + 1, last]
  IN  built[1, Len(s)]
Depth(n) ==
  LET below[m \in 0 .. n] ==
        IF m <= 1 THEN 0 ELSE IF m = 2 THEN 1
        ELSE 1 + Max({below[m \div 2], below[m - m \div 2 - 1]})
  IN  1 + below[n]

\* toThreaded(): the rightmost leaf of every left branch gets a thread to
\* the leaf the branch hangs on.
Threaded(leaf) ==
  LET rightmost[x \in DOMAIN leaf] ==
        IF leaf[x].right = NULL THEN x ELSE rightmost[leaf[x].right]
      upper == {x \in DOMAIN leaf : leaf[x].left # NULL}
      below == [x \in upper |-> rightmost[leaf[x].left]]
  IN  [k \in DOMAIN leaf |->
         IF \E x \in upper : below[x] = k
           THEN [leaf[k] EXCEPT !.right = CHOOSE x \in upper : below[x] = k, !.isThreaded = TRUE]
           ELSE leaf[k]]

\* The list s of some leaves of t becomes a tree again.
Rebuilt(t, leaf, s) ==
  [t EXCEPT !.leaf = Threaded(Built(leaf, s)), !.parent = Root(s, 1, Len(s)),
            !.maxdepth = Depth(Len(s)), !.balancedepth = Depth(Len(s)) + BALANCE_INC]

BinBalance(t) == Rebuilt(t, Linked(t, Traversal(t)), Traversal(t))

\* Mutant: the leaf it hangs on to the right keeps its thread's flag.
HungStillThreaded(t, k, at) ==
  IF at = NULL THEN [t EXCEPT !.leaf = k :> Leaf(NULL, NULL, TRUE), !.parent = k]
  ELSE IF k < at
    THEN [t EXCEPT !.leaf = (k :> Leaf(NULL, at, TRUE)) @@ [@ EXCEPT ![at].left = k]]
    ELSE [t EXCEPT !.leaf = (k :> Leaf(NULL, t.leaf[at].right, TRUE)) @@ [@ EXCEPT ![at].right = k]]

\* A new leaf hangs on the last one of the search, with a thread to its
\* successor: the leaf it hangs on, or where that one's thread went.
Hung(t, k, at) ==
  IF at = NULL THEN [t EXCEPT !.leaf = k :> Leaf(NULL, NULL, TRUE), !.parent = k]
  ELSE IF k < at
    THEN [t EXCEPT !.leaf = (k :> Leaf(NULL, at, TRUE)) @@ [@ EXCEPT ![at].left = k]]
    ELSE [t EXCEPT !.leaf = (k :> Leaf(NULL, t.leaf[at].right, TRUE))
                              @@ [@ EXCEPT ![at].right = k, ![at].isThreaded = FALSE]]

BinAdd(t, k) ==
  IF BinFind(t, k) THEN t
  ELSE LET path == Path(t, k)
           dep == Len(path)
           t1 == [Hung(t, k, IF path = <<>> THEN NULL ELSE Last(path)) EXCEPT !.items = @ + 1]
           t2 == [t1 EXCEPT !.maxdepth = dep]
       IN  IF dep <= t1.maxdepth THEN t1
           ELSE IF dep <= t2.balancedepth THEN t2 ELSE BinBalance(t2)

\* The leaf is taken out of the list and the rest built anew.
BinDel(t, k) ==
  IF ~ BinFind(t, k) THEN t
  ELSE LET s == Traversal(t)
           leaf == Linked(t, s)
           rest == SelectSeq(s, LAMBDA x : x # k)
           closed == [x \in Keys(t) \ {k} |->
                        [leaf[x] EXCEPT !.left = IF @ = k THEN leaf[k].left ELSE @,
                                        !.right = IF @ = k THEN leaf[k].right ELSE @]]
       IN  [Rebuilt(t, closed, rest) EXCEPT !.items = @ - 1]
=============================================================================
