--------------------------- MODULE TreeOperations ---------------------------
(***************************************************************************)
(* A threaded binary tree in use: leaves added and deleted in any order.   *)
(***************************************************************************)
EXTENDS Integers, Sequences, FiniteSets, FiniteSetsExt, SequencesExt

CONSTANTS BALANCE_START, BALANCE_INC, KEYS

VARIABLES tree, keys         \* the tree, and what it should hold

T == INSTANCE BinTree

TreeInit == tree = T!NewTree /\ keys = {}

AddLeaf(k) == tree' = T!BinAdd(tree, k) /\ keys' = keys \union {k}
DeleteLeaf(k) == tree' = T!BinDel(tree, k) /\ keys' = keys \ {k}
TreeNext == \E k \in KEYS : AddLeaf(k) \/ DeleteLeaf(k)

\* After leaves were added, deleted and the tree balanced in any order
\* (bintree.c:127-355): the traversal along right links and threads meets
\* every key once and in order, a search finds the keys and no other, items
\* counts them, every thread leads from the last leaf of a left branch up to
\* where it hangs, and no path is longer than maxdepth claims, which decides
\* when BinAdd() balances again.
TreeSound ==
  LET InOrder == SelectSeq([k \in 1 .. Max(KEYS) |-> k], LAMBDA k : k \in keys)
      Longest == Max({Len(T!Path(tree, k)) : k \in KEYS} \union {0})
  IN  /\ T!Traversal(tree) = InOrder
      /\ \A k \in KEYS : T!BinFind(tree, k) = (k \in keys)
      /\ tree.items = Cardinality(keys)
      /\ \A k \in keys :
           tree.leaf[k].isThreaded =>
             tree.leaf[k].right = Min({x \in keys : x > k} \union {IF k = Max(keys) THEN T!NULL ELSE Max(keys)})
      /\ Longest <= tree.maxdepth + 1 /\ tree.maxdepth <= tree.balancedepth
=============================================================================
