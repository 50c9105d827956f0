--------------------------- MODULE Memory_proofs ---------------------------
(***************************************************************************)
(* Proofs about what a copy of BREXX keeps in storage: the pool (Storage)  *)
(* and the hash map of the global variables (GlobalVariables).             *)
(***************************************************************************)
EXTENDS Storage, GlobalVariables, FiniteSetTheorems, TLAPS

-----------------------------------------------------------------------------
(* The pool: PoolSound and ReportedOnce, for any sizes of units, classes   *)
(* and chunks, any addresses malloc() has for them and any number of       *)
(* blocks.                                                                 *)
(*                                                                         *)
(* The operators of the pool are taken one by one: each keeps PoolOK of    *)
(* the pool it is given, for the blocks that are in use behind it.  The    *)
(* step of the program is then one of their compositions.                  *)

IsPool(p) ==
  /\ p = [chunks |-> p.chunks, cur |-> p.cur, end |-> p.end, class |-> p.class, free |-> p.free]
  /\ p.chunks \subseteq Nat /\ p.cur \in Nat /\ p.end \in Nat
  /\ DOMAIN p.class \subseteq Nat /\ p.class \in [DOMAIN p.class -> Classes]
  /\ p.free \in [Classes -> Seq(Nat)]

(* PoolSound for the pool p and the blocks used, with the types it needs.   *)
PoolOK(p, used) ==
  /\ IsPool(p) /\ p.cur <= p.end
  /\ BlocksApart(p)
  /\ FreeOnce(p, used)
  /\ NothingLost(p, used)
  /\ used \ Outside \subseteq DOMAIN p.class

PhaseInv ==
  /\ messages \in Nat /\ depth \in Nat
  /\ owned \in BOOLEAN /\ subtask \in BOOLEAN /\ outOfMemory \in BOOLEAN
  /\ phase \in {"init", "running", "reporting", "exiting", "leaving", "down"}
  /\ phase \in {"init", "running"} => messages = 0 /\ depth = 0
  /\ phase = "reporting" => messages = 0 /\ depth = 1 /\ outOfMemory
  /\ messages <= 1 /\ depth <= 2
  /\ phase \in {"init", "leaving", "down"} => ~ subtask
  /\ ~ owned => phase = "down"

BlocksInv ==
  /\ PoolOK(pool, DOMAIN inUse)
  /\ inUse \in [DOMAIN inUse -> Nat]
  /\ LargeEnough(pool, inUse)

(* The inductive invariant. *)
StorageInv == BlocksInv /\ PhaseInv

-----------------------------------------------------------------------------
(* A size has a class as long as it is one of the pool's, and fits it.      *)
LEMMA ClassFits ==
  ASSUME NEW size \in Nat, size <= POOL_MAXSIZE
  PROVE  ClassOf(size) \in Classes /\ size <= POOL_STEP * ClassOf(size)
<1> USE StorageAssumption
<1> DEFINE n == (size + POOL_STEP - 1) \div POOL_STEP
<1>1. /\ n \in Nat
      /\ POOL_STEP * n <= size + POOL_STEP - 1
      /\ size + POOL_STEP - 1 < POOL_STEP * n + POOL_STEP
  OBVIOUS
<1> QED
  BY <1>1 DEF ClassOf, Classes, POOL_MAXSIZE

LEMMA EmptyIsPool == IsPool(NoPool)
<1>1. <<>> \in [{} -> Classes] /\ DOMAIN <<>> = {}
  OBVIOUS
<1>2. [cls \in Classes |-> <<>>] \in [Classes -> Seq(Nat)]
  OBVIOUS
<1> QED
  BY <1>1, <1>2 DEF IsPool, NoPool

-----------------------------------------------------------------------------
(* The operators of the pool. *)

(* Cutting a block off the rest: the block is new, and in use behind it.    *)
LEMMA CutKeeps ==
  ASSUME NEW p, NEW used, PoolOK(p, used), NEW cls \in Classes, p.cur + 1 + cls <= p.end
  PROVE  LET q == CutOff(p, cls)
         IN  /\ PoolOK(q, used \union {p.cur})
             /\ p.cur \notin used /\ p.cur \notin DOMAIN p.class
             /\ q.class = With(p.class, p.cur, cls)
             /\ q.cur = p.cur + 1 + cls /\ q.chunks = p.chunks
             /\ q.end = p.end /\ q.free = p.free
<1> USE StorageAssumption DEF Classes
<1> DEFINE q == CutOff(p, cls)
<1>1. /\ p.chunks \subseteq Nat /\ p.cur \in Nat /\ p.end \in Nat
      /\ DOMAIN p.class \subseteq Nat /\ p.class \in [DOMAIN p.class -> Classes]
      /\ p.free \in [Classes -> Seq(Nat)]
  BY DEF PoolOK, IsPool
<1>2. q = [chunks |-> p.chunks, cur |-> p.cur + 1 + cls, end |-> p.end,
           class |-> With(p.class, p.cur, cls), free |-> p.free]
  <2>1. p \in [chunks : {p.chunks}, cur : {p.cur}, end : {p.end}, class : {p.class}, free : {p.free}]
    BY DEF PoolOK, IsPool
  <2> HIDE DEF Classes
  <2>2. CutOff(p, cls) = [[p EXCEPT !.class = With(p.class, p.cur, cls)] EXCEPT !.cur = p.cur + 1 + cls]
    BY <2>1 DEF CutOff
  <2>3. [p EXCEPT !.class = With(p.class, p.cur, cls)] =
          [chunks |-> p.chunks, cur |-> p.cur, end |-> p.end,
           class |-> With(p.class, p.cur, cls), free |-> p.free]
    BY <2>1
  <2> QED
    BY <2>2, <2>3
<1> HIDE DEF q
<1>3. /\ q.chunks = p.chunks /\ q.cur = p.cur + 1 + cls /\ q.end = p.end
      /\ q.class = With(p.class, p.cur, cls) /\ q.free = p.free
  BY <1>2
<1>4. p.cur \notin DOMAIN p.class
  <2> SUFFICES ASSUME p.cur \in DOMAIN p.class PROVE FALSE
    OBVIOUS
  <2>1. p.class[p.cur] \in Nat
    BY <1>1
  <2>2. p.cur + 1 + p.class[p.cur] <= p.cur \/ p.end <= p.cur
    BY DEF PoolOK, BlocksApart
  <2> QED
    BY <1>1, <2>1, <2>2
<1>5. p.cur \notin used
  BY <1>1, <1>4 DEF PoolOK
<1>6. /\ DOMAIN q.class = DOMAIN p.class \union {p.cur}
      /\ q.class[p.cur] = cls
      /\ \A b \in DOMAIN p.class : q.class[b] = p.class[b]
      /\ q.class \in [DOMAIN q.class -> Classes]
  BY <1>1, <1>3, <1>4 DEF With
<1>7. IsPool(q) /\ q.cur <= q.end
  <2>1. q = [chunks |-> q.chunks, cur |-> q.cur, end |-> q.end, class |-> q.class, free |-> q.free]
    BY <1>2
  <2>2. q.chunks \subseteq Nat /\ q.cur \in Nat /\ q.end \in Nat /\ q.cur <= q.end
    BY <1>1, <1>3
  <2>3. DOMAIN q.class \subseteq Nat
    BY <1>1, <1>6
  <2> HIDE DEF Classes
  <2>4. q.class \in [DOMAIN q.class -> Classes] /\ q.free \in [Classes -> Seq(Nat)]
    BY <1>1, <1>3, <1>6
  <2> QED
    BY <2>1, <2>2, <2>3, <2>4 DEF IsPool
<1>8. BlocksApart(q)
  <2>1. \E c \in p.chunks : c + 1 <= p.cur /\ p.end = c + POOL_CHUNK
    BY <1>1 DEF PoolOK, BlocksApart
  <2>2. \A c, d \in q.chunks : c < d => c + POOL_CHUNK <= d
    BY <1>3 DEF PoolOK, BlocksApart
  <2>3. \A b \in DOMAIN q.class :
          \E c \in q.chunks : c + 1 <= b /\ b + 1 + q.class[b] <= c + POOL_CHUNK
    BY <1>1, <1>3, <1>6, <2>1 DEF PoolOK, BlocksApart
  <2>4. \A b \in DOMAIN p.class : b + 1 + p.class[b] <= p.cur \/ p.cur + 1 + cls <= b
    BY <1>1 DEF PoolOK, BlocksApart
  <2>5. \A a, b \in DOMAIN q.class : a < b => a + 1 + q.class[a] <= b
    BY <1>1, <1>6, <2>4 DEF PoolOK, BlocksApart
  <2>6. \A b \in DOMAIN q.class : b + 1 + q.class[b] <= q.cur \/ q.end <= b
    <3>1. ASSUME NEW b \in DOMAIN p.class
          PROVE  b + 1 + q.class[b] <= q.cur \/ q.end <= b
      <4>1. b + 1 + p.class[b] <= p.cur \/ p.end <= b
        BY DEF PoolOK, BlocksApart
      <4>2. q.class[b] = p.class[b] /\ p.class[b] \in Nat /\ b \in Nat
        BY <1>1, <1>6
      <4> QED
        BY <1>1, <1>3, <4>1, <4>2
    <3>2. p.cur + 1 + q.class[p.cur] <= q.cur
      BY <1>1, <1>3, <1>6
    <3> QED
      BY <1>6, <3>1, <3>2
  <2>7. \E c \in q.chunks : c + 1 <= q.cur /\ q.end = c + POOL_CHUNK
    BY <1>1, <1>3, <2>1
  <2> QED
    BY <2>2, <2>3, <2>5, <2>6, <2>7 DEF BlocksApart
<1>9. FreeOnce(q, used \union {p.cur})
  <2> SUFFICES ASSUME NEW k \in Classes, NEW i \in DOMAIN p.free[k]
               PROVE  LET b == p.free[k][i]
                      IN  /\ b \in DOMAIN q.class /\ q.class[b] = k
                          /\ b \notin used \union {p.cur}
                          /\ \A j \in DOMAIN p.free[k] : p.free[k][j] = b => i = j
    BY <1>3 DEF FreeOnce
  <2>1. LET b == p.free[k][i]
        IN  /\ b \in DOMAIN p.class /\ p.class[b] = k
            /\ b \notin used
            /\ \A j \in DOMAIN p.free[k] : p.free[k][j] = b => i = j
    BY DEF PoolOK, FreeOnce
  <2> QED
    BY <1>4, <1>6, <2>1
<1>10. NothingLost(q, used \union {p.cur})
  <2>1. ASSUME NEW c \in q.chunks, NEW u \in c + 1 .. c + POOL_CHUNK - 1
        PROVE  \/ \E b \in DOMAIN q.class : u \in Extent(q, b)
               \/ u \in q.cur .. q.end - 1
               \/ u = c + POOL_CHUNK - 1
    <3>1. c \in p.chunks /\ c \in Nat /\ u \in Nat
      BY <1>1, <1>3
    <3>2. CASE \E b \in DOMAIN p.class : u \in Extent(p, b)
      BY <1>6, <3>2 DEF Extent
    <3>3. CASE u \in p.cur .. p.end - 1
      <4>1. CASE u < p.cur + 1 + cls
        BY <1>1, <1>6, <3>1, <3>3, <4>1 DEF Extent
      <4> QED
        BY <1>1, <1>3, <3>1, <3>3, <4>1
    <3> QED
      BY <3>1, <3>2, <3>3 DEF PoolOK, NothingLost
  <2>2. ASSUME NEW b \in DOMAIN q.class
        PROVE  b \in used \union {p.cur} \/ \E i \in DOMAIN q.free[q.class[b]] : q.free[q.class[b]][i] = b
    BY <1>3, <1>6 DEF PoolOK, NothingLost
  <2> QED
    BY <2>1, <2>2 DEF NothingLost
<1>11. (used \union {p.cur}) \ Outside \subseteq DOMAIN q.class
  BY <1>6 DEF PoolOK
<1> QED
  BY <1>3, <1>4, <1>5, <1>7, <1>8, <1>9, <1>10, <1>11 DEF PoolOK, q

(* Giving a block back: it is listed in its class, once.                    *)
LEMMA PushKeeps ==
  ASSUME NEW p, NEW used, PoolOK(p, used), NEW block \in DOMAIN p.class, block \in used
  PROVE  LET q == poolPush(p, block)
         IN  /\ PoolOK(q, used \ {block})
             /\ q.class = p.class /\ q.cur = p.cur /\ q.chunks = p.chunks /\ q.end = p.end
<1> DEFINE q == poolPush(p, block)
<1> DEFINE c == p.class[block]
<1>1. /\ p = [chunks |-> p.chunks, cur |-> p.cur, end |-> p.end, class |-> p.class, free |-> p.free]
      /\ DOMAIN p.class \subseteq Nat /\ p.class \in [DOMAIN p.class -> Classes]
      /\ p.free \in [Classes -> Seq(Nat)] /\ c \in Classes /\ block \in Nat
  BY DEF PoolOK, IsPool
<1>2. q = [chunks |-> p.chunks, cur |-> p.cur, end |-> p.end, class |-> p.class,
           free |-> [p.free EXCEPT ![c] = Append(@, block)]]
  <2>1. p \in [chunks : {p.chunks}, cur : {p.cur}, end : {p.end}, class : {p.class}, free : {p.free}]
    BY <1>1
  <2> QED
    BY <2>1 DEF poolPush
<1> HIDE DEF q, c
<1>3. /\ q.chunks = p.chunks /\ q.cur = p.cur /\ q.end = p.end /\ q.class = p.class
      /\ q.free = [p.free EXCEPT ![c] = Append(@, block)]
  BY <1>2
<1>4. /\ p.free[c] \in Seq(Nat) /\ Len(p.free[c]) \in Nat
      /\ q.free[c] = Append(p.free[c], block)
      /\ DOMAIN q.free[c] = 1 .. Len(p.free[c]) + 1
      /\ DOMAIN p.free[c] = 1 .. Len(p.free[c])
      /\ \A i \in DOMAIN p.free[c] : q.free[c][i] = p.free[c][i]
      /\ q.free[c][Len(p.free[c]) + 1] = block
  BY <1>1, <1>3
<1>5. \A cls \in Classes \ {c} : q.free[cls] = p.free[cls]
  BY <1>1, <1>3
<1>6. IsPool(q) /\ q.cur <= q.end
  BY <1>1, <1>2, <1>3, <1>4 DEF PoolOK, IsPool
<1>7. BlocksApart(q)
  BY <1>3 DEF PoolOK, BlocksApart
<1>8. FreeOnce(q, used \ {block})
  <2> SUFFICES ASSUME NEW cls \in Classes, NEW i \in DOMAIN q.free[cls]
               PROVE  LET b == q.free[cls][i]
                      IN  /\ b \in DOMAIN p.class /\ p.class[b] = cls
                          /\ b \notin used \ {block}
                          /\ \A j \in DOMAIN q.free[cls] : q.free[cls][j] = b => i = j
    BY <1>3 DEF FreeOnce
  <2>1. \A k \in DOMAIN p.free[c] : p.free[c][k] # block
    BY <1>1 DEF PoolOK, FreeOnce
  <2>2. CASE cls # c
    BY <1>5, <2>2 DEF PoolOK, FreeOnce
  <2>3. CASE cls = c /\ i = Len(p.free[c]) + 1
    <3>1. q.free[cls][i] = block /\ p.class[block] = cls
      BY <1>4, <2>3 DEF c
    <3>2. ASSUME NEW j \in DOMAIN q.free[cls], q.free[cls][j] = block
          PROVE  i = j
      <4>1. j \in DOMAIN p.free[c] \/ j = Len(p.free[c]) + 1
        BY <1>4, <2>3
      <4> QED
        BY <1>4, <2>1, <2>3, <3>2, <4>1
    <3> QED
      BY <3>1, <3>2
  <2>4. CASE cls = c /\ i \in DOMAIN p.free[c]
    <3>1. q.free[cls][i] = p.free[c][i] /\ p.free[c][i] # block
      BY <1>4, <2>1, <2>4
    <3>2. \A j \in DOMAIN q.free[cls] : q.free[cls][j] = p.free[c][i] => i = j
      <4> SUFFICES ASSUME NEW j \in DOMAIN q.free[c], q.free[c][j] = p.free[c][i]
                   PROVE  i = j
        BY <2>4
      <4>1. j \in DOMAIN p.free[c]
        <5>1. j \in DOMAIN p.free[c] \/ j = Len(p.free[c]) + 1
          BY <1>4
        <5> QED
          BY <1>4, <3>1, <5>1
      <4>2. p.free[c][j] = p.free[c][i]
        BY <1>4, <4>1
      <4> QED
        BY <1>1, <2>4, <4>1, <4>2 DEF PoolOK, FreeOnce
    <3> QED
      BY <1>1, <2>4, <3>1, <3>2 DEF PoolOK, FreeOnce
  <2> QED
    BY <1>4, <2>2, <2>3, <2>4
<1>9. NothingLost(q, used \ {block})
  <2>1. ASSUME NEW b \in DOMAIN p.class
        PROVE  b \in used \ {block} \/ \E i \in DOMAIN q.free[p.class[b]] : q.free[p.class[b]][i] = b
    <3>1. CASE b = block
      BY <1>4, <3>1 DEF c
    <3>2. CASE b # block
      <4>1. b \in used \/ \E i \in DOMAIN p.free[p.class[b]] : p.free[p.class[b]][i] = b
        BY DEF PoolOK, NothingLost
      <4>2. p.class[b] \in Classes
        BY <1>1
      <4> QED
        <5>1. CASE p.class[b] = c
          <6>1. \A i \in DOMAIN p.free[c] : i \in DOMAIN q.free[c] /\ q.free[c][i] = p.free[c][i]
            BY <1>4
          <6> QED
            BY <3>2, <4>1, <5>1, <6>1
        <5>2. CASE p.class[b] # c
          BY <1>5, <3>2, <4>1, <4>2, <5>2
        <5> QED
          BY <5>1, <5>2
    <3> QED
      BY <3>1, <3>2
  <2> QED
    BY <1>3, <2>1 DEF PoolOK, NothingLost, Extent
<1> QED
  BY <1>3, <1>6, <1>7, <1>8, <1>9 DEF PoolOK, q

(* Taking the top of a list: the block was not in use, and is on no list    *)
(* behind it.                                                               *)
LEMMA PopKeeps ==
  ASSUME NEW p, NEW used, PoolOK(p, used), NEW c \in Classes, p.free[c] # <<>>
  PROVE  LET q == Popped(p, c)
             top == p.free[c][Len(p.free[c])]
         IN  /\ PoolOK(q, used \union {top})
             /\ top \in DOMAIN p.class \ used /\ p.class[top] = c /\ q.class = p.class
<1> DEFINE q == Popped(p, c)
<1> DEFINE n == Len(p.free[c])
<1> DEFINE top == p.free[c][n]
<1>1. /\ p \in [chunks : {p.chunks}, cur : {p.cur}, end : {p.end}, class : {p.class}, free : {p.free}]
      /\ p.chunks \subseteq Nat /\ p.cur \in Nat /\ p.end \in Nat
      /\ DOMAIN p.class \subseteq Nat /\ p.class \in [DOMAIN p.class -> Classes]
      /\ p.free \in [Classes -> Seq(Nat)]
  BY DEF PoolOK, IsPool
<1>2. p.free[c] \in Seq(Nat) /\ n \in Nat \ {0} /\ DOMAIN p.free[c] = 1 .. n
  BY <1>1
<1>3. q = [chunks |-> p.chunks, cur |-> p.cur, end |-> p.end, class |-> p.class,
           free |-> [p.free EXCEPT ![c] = SubSeq(@, 1, n - 1)]]
  <2>1. q = [p EXCEPT !.free = [p.free EXCEPT ![c] = SubSeq(@, 1, n - 1)]]
    BY <1>1 DEF Popped
  <2> QED
    BY <1>1, <2>1
<1> HIDE DEF q, n, top
<1>4. /\ SubSeq(p.free[c], 1, n - 1) \in Seq(Nat)
      /\ DOMAIN SubSeq(p.free[c], 1, n - 1) = 1 .. n - 1
      /\ \A i \in 1 .. n - 1 : SubSeq(p.free[c], 1, n - 1)[i] = p.free[c][i]
  BY <1>2 DEF n
<1>5. /\ q.chunks = p.chunks /\ q.cur = p.cur /\ q.end = p.end /\ q.class = p.class
      /\ q.free = [p.free EXCEPT ![c] = SubSeq(@, 1, n - 1)]
  BY <1>3
<1>6. /\ q.free[c] = SubSeq(p.free[c], 1, n - 1)
      /\ \A k \in Classes \ {c} : q.free[k] = p.free[k]
  BY <1>1, <1>5
<1>7. IsPool(q) /\ q.cur <= q.end
  BY <1>1, <1>3, <1>4, <1>5, <1>6 DEF PoolOK, IsPool
<1>8. BlocksApart(q)
  BY <1>5 DEF PoolOK, BlocksApart
<1>9. /\ top \in DOMAIN p.class /\ p.class[top] = c /\ top \notin used
      /\ \A i \in 1 .. n - 1 : p.free[c][i] # top
  <2> USE DEF top
  <2>1. n \in DOMAIN p.free[c]
    BY <1>2
  <2>2. /\ top \in DOMAIN p.class /\ p.class[top] = c /\ top \notin used
        /\ \A i \in DOMAIN p.free[c] : p.free[c][i] = top => n = i
    BY <2>1 DEF PoolOK, FreeOnce
  <2> QED
    BY <1>2, <2>2
<1>10. FreeOnce(q, used \union {top})
  <2> SUFFICES ASSUME NEW k \in Classes, NEW i \in DOMAIN q.free[k]
               PROVE  LET b == q.free[k][i]
                      IN  /\ b \in DOMAIN p.class /\ p.class[b] = k
                          /\ b \notin used \union {top}
                          /\ \A j \in DOMAIN q.free[k] : q.free[k][j] = b => i = j
    <3>1. q.class = p.class
      BY <1>5
    <3> QED
      BY <3>1 DEF FreeOnce
  <2>1. CASE k # c
    <3>1. q.free[k] = p.free[k]
      BY <1>6, <2>1
    <3> QED
      BY <1>9, <2>1, <3>1 DEF PoolOK, FreeOnce
  <2>2. CASE k = c
    <3>1. DOMAIN q.free[k] = 1 .. n - 1 /\ \A j \in 1 .. n - 1 : q.free[k][j] = p.free[k][j]
      BY <1>4, <1>6, <2>2
    <3>2. 1 .. n - 1 \subseteq DOMAIN p.free[k]
      BY <1>2, <2>2
    <3>3. i \in DOMAIN p.free[k] /\ q.free[k][i] = p.free[k][i] /\ p.free[k][i] # top
      BY <1>9, <2>2, <3>1, <3>2
    <3>4. LET b == p.free[k][i]
          IN  /\ b \in DOMAIN p.class /\ p.class[b] = k
              /\ b \notin used
              /\ \A j \in DOMAIN p.free[k] : p.free[k][j] = b => i = j
      BY <3>3 DEF PoolOK, FreeOnce
    <3> QED
      BY <3>1, <3>2, <3>3, <3>4
  <2> QED
    BY <2>1, <2>2
<1>11. NothingLost(q, used \union {top})
  <2>1. ASSUME NEW b \in DOMAIN p.class, b # top, b \notin used
        PROVE  \E i \in DOMAIN q.free[p.class[b]] : q.free[p.class[b]][i] = b
    <3>1. p.class[b] \in Classes
      BY <1>1
    <3>2. PICK i \in DOMAIN p.free[p.class[b]] : p.free[p.class[b]][i] = b
      BY <2>1 DEF PoolOK, NothingLost
    <3> USE DEF top
    <3>3. CASE p.class[b] # c
      BY <1>6, <3>1, <3>2, <3>3
    <3>4. CASE p.class[b] = c
      <4>1. i \in 1 .. n - 1
        BY <1>2, <2>1, <3>2, <3>4
      <4>2. DOMAIN q.free[c] = 1 .. n - 1 /\ q.free[c][i] = p.free[c][i]
        BY <1>4, <1>6, <4>1
      <4> QED
        BY <3>2, <3>4, <4>1, <4>2
    <3> QED
      BY <3>3, <3>4
  <2> QED
    <3>1. \A k \in q.chunks : \A u \in k + 1 .. k + POOL_CHUNK - 1 :
            \/ \E b \in DOMAIN q.class : u \in Extent(q, b)
            \/ u \in q.cur .. q.end - 1
            \/ u = k + POOL_CHUNK - 1
      BY <1>5 DEF PoolOK, NothingLost, Extent
    <3>2. q.class = p.class
      BY <1>5
    <3>3. ASSUME NEW b \in DOMAIN q.class, b \notin used \union {top}
          PROVE  \E i \in DOMAIN q.free[q.class[b]] : q.free[q.class[b]][i] = b
      <4>1. b \in DOMAIN p.class /\ b # top /\ b \notin used
        BY <3>2, <3>3
      <4> QED
        BY <2>1, <3>2, <4>1
    <3>4. \A b \in DOMAIN q.class :
            \/ b \in used \union {top}
            \/ \E i \in DOMAIN q.free[q.class[b]] : q.free[q.class[b]][i] = b
      BY <3>3
    <3> QED
      BY Zenon, <3>1, <3>4 DEF NothingLost
<1> QED
  BY <1>5, <1>7, <1>8, <1>9, <1>10, <1>11 DEF PoolOK, q, n, top

(* The rest of a chunk, too small for what is asked for, is listed: nothing *)
(* of it is left but a last unit.                                           *)
LEMMA RestKeeps ==
  ASSUME NEW p, NEW used, PoolOK(p, used), NEW cls \in Classes, Rest(p) < 1 + cls
  PROVE  LET q == RestListed(p)
         IN  /\ PoolOK(q, used)
             /\ q.chunks = p.chunks /\ q.end = p.end /\ q.cur \in {q.end - 1, q.end}
             /\ \A b \in DOMAIN p.class : b \in DOMAIN q.class /\ q.class[b] = p.class[b]
<1> USE StorageAssumption
<1>1. p.cur \in Nat /\ p.end \in Nat /\ p.cur <= p.end /\ Rest(p) = p.end - p.cur
  BY DEF PoolOK, IsPool, Rest
<1>2. CASE Rest(p) >= 2
  <2> DEFINE r == CutOff(p, Rest(p) - 1)
  <2>1. Rest(p) - 1 \in Classes /\ p.cur + 1 + (Rest(p) - 1) <= p.end
    BY <1>1, <1>2 DEF Classes
  <2>2. /\ PoolOK(r, used \union {p.cur})
        /\ p.cur \notin used
        /\ r.class = With(p.class, p.cur, Rest(p) - 1)
        /\ r.cur = p.cur + 1 + (Rest(p) - 1) /\ r.chunks = p.chunks /\ r.end = p.end
        /\ p.cur \notin DOMAIN p.class
    BY <2>1, CutKeeps
  <2> HIDE DEF r
  <2>3. p.cur \in DOMAIN r.class
    BY <2>2 DEF With
  <2> DEFINE more == used \union {p.cur}
  <2> HIDE DEF more
  <2>4. /\ PoolOK(poolPush(r, p.cur), more \ {p.cur})
        /\ poolPush(r, p.cur).class = r.class /\ poolPush(r, p.cur).cur = r.cur
        /\ poolPush(r, p.cur).chunks = r.chunks /\ poolPush(r, p.cur).end = r.end
    <3>1. PoolOK(r, more) /\ p.cur \in more
      BY <2>2 DEF more
    <3> QED
      BY <2>3, <3>1, PushKeeps
  <2>5. more \ {p.cur} = used
    BY <2>2 DEF more
  <2>6. RestListed(p) = poolPush(r, p.cur)
    BY <1>2 DEF RestListed, r
  <2>7. \A b \in DOMAIN p.class : b \in DOMAIN r.class /\ r.class[b] = p.class[b]
    BY <2>2 DEF With
  <2>8. r.cur = r.end
    BY <1>1, <2>2
  <2> QED
    BY <2>2, <2>4, <2>5, <2>6, <2>7, <2>8
<1>3. CASE Rest(p) < 2
  <2>1. RestListed(p) = p
    BY <1>1, <1>3 DEF RestListed
  <2> QED
    BY <1>1, <1>3, <2>1
<1> QED
  BY <1>1, <1>2, <1>3

(* A new chunk lies in vacant storage; the rest of the one before is gone.  *)
LEMMA ChunkKeeps ==
  ASSUME NEW p, NEW used, PoolOK(p, used), p.cur \in {p.end - 1, p.end}, NEW place \in Vacant(p)
  PROVE  LET q == [p EXCEPT !.chunks = @ \union {place}, !.cur = place + 1, !.end = place + POOL_CHUNK]
         IN  /\ PoolOK(q, used) /\ q.class = p.class
             /\ q.cur = place + 1 /\ q.end = place + POOL_CHUNK /\ q.free = p.free
<1> USE StorageAssumption
<1> DEFINE q == [p EXCEPT !.chunks = @ \union {place}, !.cur = place + 1, !.end = place + POOL_CHUNK]
<1>1. /\ p \in [chunks : {p.chunks}, cur : {p.cur}, end : {p.end}, class : {p.class}, free : {p.free}]
      /\ p.chunks \subseteq Nat /\ p.cur \in Nat /\ p.end \in Nat
      /\ DOMAIN p.class \subseteq Nat /\ p.class \in [DOMAIN p.class -> Classes]
      /\ p.free \in [Classes -> Seq(Nat)]
  BY DEF PoolOK, IsPool
<1>2. place \in Nat /\ \A c \in p.chunks : place + POOL_CHUNK <= c \/ c + POOL_CHUNK <= place
  BY DEF Vacant
<1>3. q = [chunks |-> p.chunks \union {place}, cur |-> place + 1, end |-> place + POOL_CHUNK,
           class |-> p.class, free |-> p.free]
  <2> DEFINE more == p.chunks \union {place}
             first == place + 1
             last == place + POOL_CHUNK
  <2>1. p \in [chunks : {p.chunks}, cur : {p.cur}, end : {p.end}, class : {p.class}, free : {p.free}]
    BY <1>1
  <2> DEFINE q1 == [p EXCEPT !.chunks = more]
             q2 == [q1 EXCEPT !.cur = first]
             q3 == [q2 EXCEPT !.end = last]
  <2>2. q = q3
    BY <1>1
  <2> HIDE DEF more, first, last
  <2>3. q1 = [chunks |-> more, cur |-> p.cur, end |-> p.end, class |-> p.class, free |-> p.free]
    BY <2>1
  <2> HIDE DEF q1
  <2>4. q2 = [chunks |-> more, cur |-> first, end |-> p.end, class |-> p.class, free |-> p.free]
    BY <2>3
  <2> HIDE DEF q2
  <2>5. q3 = [chunks |-> more, cur |-> first, end |-> last, class |-> p.class, free |-> p.free]
    BY <2>4
  <2> QED
    BY <2>2, <2>5 DEF more, first, last, q1, q2
<1> HIDE DEF q
<1>4. /\ q.chunks = p.chunks \union {place} /\ q.cur = place + 1 /\ q.end = place + POOL_CHUNK
      /\ q.class = p.class /\ q.free = p.free
  BY <1>3
<1>5. IsPool(q) /\ q.cur <= q.end
  BY <1>1, <1>2, <1>3, <1>4 DEF IsPool
<1>6. BlocksApart(q)
  <2>1. \A c, d \in q.chunks : c < d => c + POOL_CHUNK <= d
    BY <1>1, <1>2, <1>4 DEF PoolOK, BlocksApart
  <2>2. \A b \in DOMAIN q.class : b + 1 + q.class[b] <= q.cur \/ q.end <= b
    <3> SUFFICES ASSUME NEW b \in DOMAIN p.class
                 PROVE  b + 1 + p.class[b] <= place + 1 \/ place + POOL_CHUNK <= b
      BY <1>4
    <3>1. PICK c \in p.chunks : c + 1 <= b /\ b + 1 + p.class[b] <= c + POOL_CHUNK
      BY DEF PoolOK, BlocksApart
    <3>2. p.class[b] \in Nat /\ b \in Nat /\ c \in Nat
      BY <1>1 DEF Classes
    <3> QED
      BY <1>2, <3>1, <3>2
  <2>3. \E c \in q.chunks : c + 1 <= q.cur /\ q.end = c + POOL_CHUNK
    BY <1>2, <1>4
  <2> QED
    BY <1>4, <2>1, <2>2, <2>3 DEF PoolOK, BlocksApart
<1>7. FreeOnce(q, used)
  BY <1>4 DEF PoolOK, FreeOnce
<1>8. NothingLost(q, used)
  <2>1. ASSUME NEW c \in q.chunks, NEW u \in c + 1 .. c + POOL_CHUNK - 1
        PROVE  \/ \E b \in DOMAIN q.class : u \in Extent(q, b)
               \/ u \in q.cur .. q.end - 1
               \/ u = c + POOL_CHUNK - 1
    <3>1. CASE c = place
      BY <1>2, <1>4, <3>1
    <3>2. CASE c \in p.chunks /\ u \in p.cur .. p.end - 1
      <4>1. u = p.end - 1 /\ p.cur # p.end
        BY <1>1, <3>2
      <4>2. PICK d \in p.chunks : d + 1 <= p.cur /\ p.end = d + POOL_CHUNK
        BY <4>1 DEF PoolOK, BlocksApart
      <4>3. c \in Nat /\ d \in Nat /\ u \in Nat
        BY <1>1, <3>2
      <4>4. c = d
        <5>1. (c < d => c + POOL_CHUNK <= d) /\ (d < c => d + POOL_CHUNK <= c)
          BY <3>2 DEF PoolOK, BlocksApart
        <5> QED
          BY <4>1, <4>2, <4>3, <5>1
      <4> QED
        BY <1>1, <4>1, <4>2, <4>3, <4>4
    <3>3. CASE c \in p.chunks /\ u \notin p.cur .. p.end - 1
      BY <1>4, <3>3 DEF PoolOK, NothingLost, Extent
    <3> QED
      BY <1>4, <3>1, <3>2, <3>3
  <2> QED
    BY <1>4, <2>1 DEF PoolOK, NothingLost
<1> QED
  BY <1>4, <1>5, <1>6, <1>7, <1>8 DEF PoolOK, q

(* Whatever poolAlloc() hands out was not in use, and has the class.        *)
LEMMA AllocKeeps ==
  ASSUME NEW p, NEW used, PoolOK(p, used), NEW cls \in Classes, NEW a \in poolAlloc(p, cls)
  PROVE  /\ PoolOK(a.pool, used \union {a.block})
         /\ a.block \in Nat \ used /\ a.block \in DOMAIN a.pool.class
         /\ a.pool.class[a.block] = cls
         /\ \A b \in DOMAIN p.class : b \in DOMAIN a.pool.class /\ a.pool.class[b] = p.class[b]
<1> USE StorageAssumption
<1>1. CASE p.free[cls] # <<>>
  <2>1. a = [block |-> p.free[cls][Len(p.free[cls])], pool |-> Popped(p, cls)]
    BY <1>1 DEF poolAlloc
  <2>2. a.block = p.free[cls][Len(p.free[cls])] /\ a.pool = Popped(p, cls)
    BY <2>1
  <2>3. DOMAIN p.class \subseteq Nat
    BY DEF PoolOK, IsPool
  <2>4. /\ PoolOK(Popped(p, cls), used \union {a.block})
        /\ a.block \in DOMAIN p.class \ used /\ p.class[a.block] = cls
        /\ Popped(p, cls).class = p.class
    BY <1>1, <2>2, PopKeeps
  <2> QED
    BY <2>2, <2>3, <2>4
<1>2. CASE p.free[cls] = <<>> /\ Rest(p) >= 1 + cls
  <2>1. a = [block |-> p.cur, pool |-> CutOff(p, cls)]
    BY <1>2 DEF poolAlloc
  <2>2. a.block = p.cur /\ a.pool = CutOff(p, cls)
    BY <2>1
  <2>3. p.cur \in Nat /\ p.end \in Nat /\ cls \in Nat
    BY DEF PoolOK, IsPool, Classes
  <2>4. p.cur + 1 + cls <= p.end
    BY <1>2, <2>3 DEF Rest
  <2> QED
    <3>1. /\ PoolOK(CutOff(p, cls), used \union {p.cur})
          /\ p.cur \notin used /\ p.cur \notin DOMAIN p.class
          /\ CutOff(p, cls).class = With(p.class, p.cur, cls)
      BY <2>4, CutKeeps
    <3> QED
      BY <2>2, <2>3, <3>1 DEF With
<1>3. CASE p.free[cls] = <<>> /\ ~ (Rest(p) >= 1 + cls)
  <2>1. PICK place \in Vacant(p) : a = [block |-> place + 1, pool |-> CutOff(poolNewChunk(p, place), cls)]
    BY <1>3 DEF poolAlloc
  <2>2. a.block = place + 1 /\ a.pool = CutOff(poolNewChunk(p, place), cls) /\ place \in Nat
    BY <2>1 DEF Vacant
  <2> DEFINE r == RestListed(p)
  <2> DEFINE q == poolNewChunk(p, place)
  <2>3. Rest(p) < 1 + cls
    BY <1>3 DEF PoolOK, IsPool, Rest, Classes
  <2>4. /\ PoolOK(r, used)
        /\ r.chunks = p.chunks /\ r.end = p.end /\ r.cur \in {r.end - 1, r.end}
        /\ \A b \in DOMAIN p.class : b \in DOMAIN r.class /\ r.class[b] = p.class[b]
    BY <2>3, RestKeeps
  <2>5. place \in Vacant(r)
    BY <2>4 DEF Vacant
  <2>6. /\ PoolOK(q, used) /\ q.class = r.class
        /\ q.cur = place + 1 /\ q.end = place + POOL_CHUNK
    BY <2>4, <2>5, ChunkKeeps DEF poolNewChunk
  <2> HIDE DEF r, q
  <2>7. q.cur + 1 + cls <= q.end
    BY <2>2, <2>6 DEF Classes
  <2>8. /\ PoolOK(CutOff(q, cls), used \union {q.cur})
        /\ q.cur \notin used /\ CutOff(q, cls).class = With(q.class, q.cur, cls)
        /\ q.cur \notin DOMAIN q.class
    BY <2>6, <2>7, CutKeeps
  <2>9. a.pool = CutOff(q, cls)
    BY <2>2 DEF q
  <2> QED
    BY <2>2, <2>4, <2>6, <2>8, <2>9 DEF With
<1> QED
  BY <1>1, <1>2, <1>3

-----------------------------------------------------------------------------
(* The operations on the blocks. *)

(* A block of the C library is none of the pool's. *)
LEMMA OutsideKeeps ==
  ASSUME NEW p, NEW sizes, NEW name \in Outside, NEW size \in Nat,
         PoolOK(p, DOMAIN sizes), sizes \in [DOMAIN sizes -> Nat], LargeEnough(p, sizes)
  PROVE  LET more == With(sizes, name, size)
         IN  /\ PoolOK(p, DOMAIN more) /\ more \in [DOMAIN more -> Nat] /\ LargeEnough(p, more)
<1> DEFINE more == With(sizes, name, size)
<1>1. /\ DOMAIN more = DOMAIN sizes \union {name}
      /\ more \in [DOMAIN more -> Nat]
      /\ \A b \in DOMAIN more \ Outside : b \in DOMAIN sizes /\ more[b] = sizes[b]
  BY DEF With
<1>2. name \notin DOMAIN p.class
  BY StorageAssumption DEF PoolOK, IsPool
<1> HIDE DEF more
<1>3. FreeOnce(p, DOMAIN more)
  BY <1>1, <1>2 DEF PoolOK, FreeOnce
<1>4. NothingLost(p, DOMAIN more)
  BY <1>1 DEF PoolOK, NothingLost
<1>5. LargeEnough(p, more)
  BY <1>1 DEF LargeEnough
<1> QED
  BY <1>1, <1>3, <1>4, <1>5 DEF PoolOK, more

LEMMA MallocBlocks ==
  ASSUME BlocksInv, NEW task, NEW size \in Nat, malloc_or_die(task, size)
  PROVE  BlocksInv'
<1> USE StorageAssumption
<1>1. CASE /\ FromPool(task, size)
           /\ \E a \in poolAlloc(pool, ClassOf(size)) :
                pool' = a.pool /\ inUse' = With(inUse, a.block, size)
  <2>1. PICK a \in poolAlloc(pool, ClassOf(size)) :
          pool' = a.pool /\ inUse' = With(inUse, a.block, size)
    BY <1>1
  <2>2. ClassOf(size) \in Classes /\ size <= POOL_STEP * ClassOf(size)
    BY <1>1, ClassFits DEF FromPool
  <2>3. /\ PoolOK(pool', DOMAIN inUse \union {a.block})
        /\ a.block \in DOMAIN pool'.class /\ pool'.class[a.block] = ClassOf(size)
        /\ \A b \in DOMAIN pool.class : b \in DOMAIN pool'.class /\ pool'.class[b] = pool.class[b]
    <3>1. PoolOK(pool, DOMAIN inUse)
      BY DEF BlocksInv
    <3>2. /\ PoolOK(a.pool, DOMAIN inUse \union {a.block})
          /\ a.block \in DOMAIN a.pool.class /\ a.pool.class[a.block] = ClassOf(size)
          /\ \A b \in DOMAIN pool.class : b \in DOMAIN a.pool.class /\ a.pool.class[b] = pool.class[b]
      BY <2>2, <3>1, AllocKeeps
    <3> QED
      BY <2>1, <3>2
  <2>4. /\ DOMAIN inUse' = DOMAIN inUse \union {a.block}
        /\ inUse' \in [DOMAIN inUse' -> Nat]
        /\ \A b \in DOMAIN inUse' : inUse'[b] = IF b = a.block THEN size ELSE inUse[b]
    BY <2>1 DEF With, BlocksInv
  <2>5. LargeEnough(pool', inUse')
    BY <2>2, <2>3, <2>4 DEF LargeEnough, BlocksInv
  <2> QED
    BY <2>3, <2>4, <2>5 DEF BlocksInv
<1>2. CASE /\ FromPool(task, size) /\ NeedsChunk(pool, ClassOf(size))
           /\ pool' = RestListed(pool)
           /\ UNCHANGED inUse
  <2>1. ClassOf(size) \in Classes /\ Rest(pool) < 1 + ClassOf(size)
    BY <1>2, ClassFits DEF FromPool, NeedsChunk
  <2>2. /\ PoolOK(pool', DOMAIN inUse)
        /\ \A b \in DOMAIN pool.class : b \in DOMAIN pool'.class /\ pool'.class[b] = pool.class[b]
    BY <1>2, <2>1, RestKeeps DEF BlocksInv
  <2> QED
    BY <1>2, <2>2 DEF BlocksInv, LargeEnough
<1>3. CASE /\ \E name \in Outside \ DOMAIN inUse : inUse' = With(inUse, name, size)
           /\ UNCHANGED pool
  <2>1. PICK name \in Outside \ DOMAIN inUse : inUse' = With(inUse, name, size)
    BY <1>3
  <2> QED
    BY <1>3, <2>1, OutsideKeeps DEF BlocksInv
<1>4. CASE UNCHANGED <<pool, inUse>>
  BY <1>4 DEF BlocksInv
<1> QED
  BY <1>1, <1>2, <1>3, <1>4 DEF malloc_or_die

LEMMA ReallocBlocks ==
  ASSUME BlocksInv, NEW task, NEW block, NEW size \in Nat, realloc_or_die(task, block, size)
  PROVE  BlocksInv'
<1> USE StorageAssumption
<1>0. block \in DOMAIN inUse /\ size + 1 \in Nat
  BY DEF realloc_or_die
<1>1. CASE /\ isPoolBlock(block) /\ size + 1 <= POOL_STEP * pool.class[block]
           /\ inUse' = [inUse EXCEPT ![block] = size + 1]
           /\ UNCHANGED pool
  BY <1>0, <1>1 DEF BlocksInv, LargeEnough
<1>2. CASE /\ isPoolBlock(block) /\ FromPool(task, size + 1)
           /\ \E a \in poolAlloc(pool, ClassOf(size + 1)) :
                /\ pool' = poolPush(a.pool, block)
                /\ inUse' = With(Without(inUse, block), a.block, size + 1)
  <2>1. PICK a \in poolAlloc(pool, ClassOf(size + 1)) :
          /\ pool' = poolPush(a.pool, block)
          /\ inUse' = With(Without(inUse, block), a.block, size + 1)
    BY <1>2
  <2>2. ClassOf(size + 1) \in Classes /\ size + 1 <= POOL_STEP * ClassOf(size + 1)
    BY <1>0, <1>2, ClassFits DEF FromPool
  <2>3. /\ PoolOK(a.pool, DOMAIN inUse \union {a.block})
        /\ a.block \notin DOMAIN inUse
        /\ a.block \in DOMAIN a.pool.class /\ a.pool.class[a.block] = ClassOf(size + 1)
        /\ \A b \in DOMAIN pool.class : b \in DOMAIN a.pool.class /\ a.pool.class[b] = pool.class[b]
    BY <2>2, AllocKeeps DEF BlocksInv
  <2>4. block \in DOMAIN a.pool.class
    BY <1>2, <2>3 DEF isPoolBlock
  <2> DEFINE used == DOMAIN inUse \union {a.block}
             q == a.pool
  <2>5. PoolOK(pool', used \ {block}) /\ pool'.class = a.pool.class
    <3>1. PoolOK(q, used) /\ block \in DOMAIN q.class /\ block \in used /\ pool' = poolPush(q, block)
      BY <1>0, <2>1, <2>3, <2>4
    <3> HIDE DEF used, q
    <3>2. PoolOK(pool', used \ {block}) /\ pool'.class = q.class
      BY <3>1, PushKeeps
    <3> QED
      BY <3>2 DEF q
  <2>6. /\ DOMAIN inUse' = used \ {block}
        /\ inUse' \in [DOMAIN inUse' -> Nat]
        /\ \A b \in DOMAIN inUse' : inUse'[b] = IF b = a.block THEN size + 1 ELSE inUse[b]
    BY <1>0, <2>1, <2>3 DEF With, Without, BlocksInv
  <2>7. LargeEnough(pool', inUse')
    BY <2>2, <2>3, <2>5, <2>6 DEF LargeEnough, BlocksInv
  <2> QED
    BY <2>5, <2>6, <2>7 DEF BlocksInv
<1>3. CASE /\ FromPool(task, size + 1) /\ NeedsChunk(pool, ClassOf(size + 1))
           /\ pool' = RestListed(pool)
           /\ UNCHANGED inUse
  <2>1. ClassOf(size + 1) \in Classes /\ Rest(pool) < 1 + ClassOf(size + 1)
    BY <1>0, <1>3, ClassFits DEF FromPool, NeedsChunk
  <2>2. /\ PoolOK(pool', DOMAIN inUse)
        /\ \A b \in DOMAIN pool.class : b \in DOMAIN pool'.class /\ pool'.class[b] = pool.class[b]
    BY <1>3, <2>1, RestKeeps DEF BlocksInv
  <2> QED
    BY <1>3, <2>2 DEF BlocksInv, LargeEnough
<1>4. CASE /\ isPoolBlock(block)
           /\ \E name \in Outside \ DOMAIN inUse :
                inUse' = With(Without(inUse, block), name, size + 1)
           /\ pool' = poolPush(pool, block)
  <2>1. PICK name \in Outside \ DOMAIN inUse :
          inUse' = With(Without(inUse, block), name, size + 1)
    BY <1>4
  <2>2. /\ PoolOK(pool', DOMAIN inUse \ {block}) /\ pool'.class = pool.class
    BY <1>0, <1>4, PushKeeps DEF BlocksInv, isPoolBlock
  <2>3. DOMAIN Without(inUse, block) = DOMAIN inUse \ {block}
    BY DEF Without
  <2>4. /\ Without(inUse, block) \in [DOMAIN inUse \ {block} -> Nat]
        /\ LargeEnough(pool', Without(inUse, block))
    BY <2>2 DEF Without, BlocksInv, LargeEnough
  <2> QED
    BY <1>0, <2>1, <2>2, <2>3, <2>4, OutsideKeeps DEF BlocksInv
<1>5. CASE /\ ~ isPoolBlock(block)
           /\ inUse' = [inUse EXCEPT ![block] = size + 1]
           /\ UNCHANGED pool
  BY <1>0, <1>5 DEF BlocksInv, LargeEnough, isPoolBlock
<1>6. CASE UNCHANGED <<pool, inUse>>
  BY <1>6 DEF BlocksInv
<1> QED
  BY <1>1, <1>2, <1>3, <1>4, <1>5, <1>6 DEF realloc_or_die

LEMMA FreeBlocks ==
  ASSUME BlocksInv, NEW block, free_or_die(block)
  PROVE  BlocksInv'
<1>1. /\ block \in DOMAIN inUse
      /\ DOMAIN inUse' = DOMAIN inUse \ {block}
      /\ inUse' \in [DOMAIN inUse' -> Nat]
      /\ \A b \in DOMAIN inUse' : inUse'[b] = inUse[b]
  BY DEF free_or_die, Without, BlocksInv
<1>2. CASE isPoolBlock(block)
  <2>1. PoolOK(pool', DOMAIN inUse \ {block}) /\ pool'.class = pool.class
    BY <1>1, <1>2, PushKeeps DEF BlocksInv, isPoolBlock, free_or_die
  <2> QED
    BY <1>1, <2>1 DEF BlocksInv, LargeEnough
<1>3. CASE ~ isPoolBlock(block)
  <2>1. pool' = pool
    BY <1>3 DEF free_or_die
  <2>2. PoolOK(pool, DOMAIN inUse \ {block})
    BY <1>3 DEF BlocksInv, PoolOK, FreeOnce, NothingLost, isPoolBlock
  <2> QED
    BY <1>1, <2>1, <2>2 DEF BlocksInv, LargeEnough
<1> QED
  BY <1>2, <1>3

(* The end of a copy gives the chunks back whole.                           *)
LEMMA TermBlocks ==
  ASSUME BlocksInv, BmemTerm
  PROVE  BlocksInv'
<1> USE StorageAssumption
<1>1. PoolOK(NoPool, DOMAIN inUse \ DOMAIN pool.class)
  <2>1. /\ NoPool.chunks = {} /\ NoPool.cur = 0 /\ NoPool.end = 0 /\ DOMAIN NoPool.class = {}
        /\ NoPool.free = [cls \in Classes |-> <<>>]
    BY DEF NoPool
  <2>2. IsPool(NoPool)
    BY EmptyIsPool
  <2>3. BlocksApart(NoPool) /\ FreeOnce(NoPool, DOMAIN inUse \ DOMAIN pool.class)
    BY <2>1 DEF BlocksApart, FreeOnce
  <2>4. NothingLost(NoPool, DOMAIN inUse \ DOMAIN pool.class)
    BY <2>1 DEF NothingLost
  <2>5. (DOMAIN inUse \ DOMAIN pool.class) \ Outside \subseteq DOMAIN NoPool.class
    BY DEF BlocksInv, PoolOK
  <2> QED
    BY <2>1, <2>2, <2>3, <2>4, <2>5 DEF PoolOK
<1>2. /\ pool' = NoPool
      /\ DOMAIN inUse' = DOMAIN inUse \ DOMAIN pool.class
      /\ inUse' \in [DOMAIN inUse' -> Nat]
  BY DEF BmemTerm, BlocksInv
<1>3. LargeEnough(pool', inUse')
  BY <1>2 DEF LargeEnough, BlocksInv
<1> QED
  BY <1>1, <1>2, <1>3 DEF BlocksInv

-----------------------------------------------------------------------------
(* Out of memory: the main task is running, or reporting the first time it  *)
(* was; the subtask only runs while the pool has its owner.                 *)
LEMMA ExhaustedPhase ==
  ASSUME PhaseInv, NEW task \in {"main", "subtask"}, memoryExhausted(task), UNCHANGED owned,
         Running(task) \/ (task = "main" /\ phase = "reporting")
  PROVE  PhaseInv'
<1>1. CASE owned /\ task # "main" /\ subtask' = FALSE
           /\ UNCHANGED <<granted, outOfMemory, phase, messages, depth>>
  BY <1>1 DEF PhaseInv
<1>2. CASE /\ task = "main"
           /\ outOfMemory' = TRUE
           /\ depth' = depth + 1
           /\ LET first == phase \in {"running", "reporting"} /\ ~ outOfMemory
              IN  /\ phase' = IF phase = "init" THEN "down" ELSE IF first THEN "reporting" ELSE "exiting"
                  /\ messages' = IF first THEN messages ELSE messages + 1
           /\ UNCHANGED subtask
  <2>1. phase \in {"init", "running", "reporting"}
    BY <1>2 DEF Running
  <2>2. CASE phase = "init"
    BY <1>2, <2>2 DEF PhaseInv
  <2>3. CASE phase = "running"
    BY <1>2, <2>3 DEF PhaseInv
  <2>4. CASE phase = "reporting"
    BY <1>2, <2>4 DEF PhaseInv
  <2> QED
    BY <2>1, <2>2, <2>3, <2>4
<1>3. owned \/ task = "main"
  BY DEF PhaseInv, Running
<1> QED
  BY <1>1, <1>2, <1>3 DEF memoryExhausted

LEMMA CalmPhase == PhaseInv /\ Calm => PhaseInv'
BY DEF PhaseInv, Calm

-----------------------------------------------------------------------------
LEMMA StorageInitInv == Init => StorageInv
<1> SUFFICES ASSUME Init PROVE StorageInv
  OBVIOUS
<1> USE DEF Init
<1>1. PhaseInv
  <2>1. owned \in BOOLEAN /\ subtask \in BOOLEAN /\ outOfMemory \in BOOLEAN
    BY Zenon
  <2>2. messages \in Nat /\ depth \in Nat /\ messages <= 1 /\ depth <= 2
    OBVIOUS
  <2>3. owned /\ ~ subtask
    OBVIOUS
  <2> QED
    BY <2>1, <2>2, <2>3 DEF PhaseInv
<1>2. IsPool(pool)
  BY EmptyIsPool
<1>3. /\ pool.chunks = {} /\ pool.cur = 0 /\ pool.end = 0 /\ DOMAIN pool.class = {}
      /\ pool.free = [cls \in Classes |-> <<>>] /\ DOMAIN inUse = {}
  BY DEF NoPool
<1>4. PoolOK(pool, DOMAIN inUse)
  BY <1>2, <1>3 DEF PoolOK, BlocksApart, FreeOnce, NothingLost
<1>5. inUse \in [DOMAIN inUse -> Nat] /\ LargeEnough(pool, inUse)
  BY <1>3 DEF LargeEnough
<1> QED
  BY <1>1, <1>4, <1>5 DEF StorageInv, BlocksInv

LEMMA StorageStepInv == StorageInv /\ [Next]_vars => StorageInv'
<1> SUFFICES ASSUME StorageInv, [Next]_vars PROVE StorageInv'
  OBVIOUS
<1>0. BlocksInv /\ PhaseInv
  BY DEF StorageInv
<1>a. ASSUME UNCHANGED <<pool, inUse>> PROVE BlocksInv'
  BY <1>0, <1>a DEF BlocksInv
<1>1. ASSUME NEW task \in {"main", "subtask"}, NEW size \in Sizes, malloc_or_die(task, size)
      PROVE  StorageInv'
  <2>1. size \in Nat
    BY StorageAssumption
  <2>2. Calm \/ (memoryExhausted(task) /\ UNCHANGED owned)
    BY <1>1 DEF malloc_or_die
  <2>3. Running(task)
    BY <1>1 DEF malloc_or_die
  <2> QED
    BY <1>0, <1>1, <2>1, <2>2, <2>3, MallocBlocks, CalmPhase, ExhaustedPhase DEF StorageInv
<1>2. ASSUME NEW size \in Sizes, NEW block \in DOMAIN inUse, realloc_or_die("main", block, size)
      PROVE  StorageInv'
  <2>1. size \in Nat
    BY StorageAssumption
  <2>2. Calm \/ (memoryExhausted("main") /\ UNCHANGED owned)
    BY <1>2 DEF realloc_or_die
  <2>3. Running("main")
    BY <1>2 DEF realloc_or_die
  <2>4. PhaseInv'
    BY <1>0, <2>2, <2>3, CalmPhase, ExhaustedPhase
  <2>5. BlocksInv'
    BY <1>0, <1>2, <2>1, ReallocBlocks
  <2> QED
    BY <2>4, <2>5 DEF StorageInv
<1>3. ASSUME NEW block \in DOMAIN inUse, free_or_die(block)
      PROVE  StorageInv'
  <2>1. Calm
    BY <1>3 DEF free_or_die
  <2> QED
    BY <1>0, <1>3, <2>1, FreeBlocks, CalmPhase DEF StorageInv
<1>4. CASE Report
  BY <1>0, <1>4, <1>a DEF Report, PhaseInv, StorageInv
<1>5. CASE ReportFails
  <2>1. PhaseInv'
    BY <1>0, <1>5, ExhaustedPhase DEF ReportFails
  <2> QED
    BY <1>5, <1>a, <2>1 DEF ReportFails, StorageInv
<1>6. CASE RxRun
  BY <1>0, <1>6, <1>a DEF RxRun, Phase, Alone, PhaseInv, StorageInv
<1>7. CASE Privilege
  BY <1>0, <1>7, <1>a DEF Privilege, Alone, PhaseInv, StorageInv
<1>8. CASE Subtask
  BY <1>0, <1>8, <1>a DEF Subtask, Alone, PhaseInv, StorageInv
<1>9. CASE Ends
  BY <1>0, <1>9, <1>a DEF Ends, Phase, Alone, PhaseInv, StorageInv
<1>10. CASE RunExit
  BY <1>0, <1>10, <1>a DEF RunExit, Phase, Alone, PhaseInv, StorageInv
<1>11. CASE BmemTerm
  <2>1. PhaseInv'
    BY <1>0, <1>11 DEF BmemTerm, Phase, PhaseInv
  <2> QED
    BY <1>0, <1>11, <2>1, TermBlocks DEF StorageInv
<1>12. CASE UNCHANGED vars
  BY <1>0, <1>12, <1>a DEF vars, PhaseInv, StorageInv
<1> QED
  BY <1>1, <1>2, <1>3, <1>4, <1>5, <1>6, <1>7, <1>8, <1>9, <1>10, <1>11, <1>12
  DEF Next, Allocate, Reallocate, Free

(* Whatever order blocks of all sizes are taken, moved and given back in,   *)
(* by whichever task, and whenever malloc() refuses a chunk: no two blocks  *)
(* share storage, none is handed out twice, each has the room that was      *)
(* asked for and no storage is lost.                                        *)
THEOREM PoolCorrect == Spec => []PoolSound
<1>1. StorageInv => PoolSound
  BY DEF StorageInv, BlocksInv, PoolOK, PoolSound
<1> QED
  BY <1>1, StorageInitInv, StorageStepInv, PTL DEF Spec

(* An exec that runs out of memory writes one message, and reporting it     *)
(* does not start over.                                                     *)
THEOREM ReportCorrect == Spec => []ReportedOnce
<1>1. StorageInv => ReportedOnce
  BY DEF StorageInv, PhaseInv, ReportedOnce
<1> QED
  BY <1>1, StorageInitInv, StorageStepInv, PTL DEF Spec

-----------------------------------------------------------------------------
(* The global variables hold what was stored, for any number of buckets,   *)
(* any names and any amount of storage.  What the proof needs to know of   *)
(* the hash is that it is a number.                                        *)

Buckets == 0 .. MAPSIZE - 1
Blocks == 1 .. MAXBLOCKS
Keys == {Lupper(name) : name \in NAMES}
Pair == [key : Keys, data : Blocks]
At(map, c, i) == c \in Buckets /\ i \in 1 .. Len(map[c])

\* Each pair is in the bucket of its key, no two have the same key or the
\* same block.
MapSound(map) ==
  /\ map \in [Buckets -> Seq(Pair)]
  /\ \A c, i : At(map, c, i) => getBucket(map[c][i].key) = c
  /\ \A c, i, j : At(map, c, i) /\ At(map, c, j) /\ map[c][i].key = map[c][j].key => i = j
  /\ \A c, d, i, j : At(map, c, i) /\ At(map, d, j) /\ map[c][i].data = map[d][j].data
       => c = d /\ i = j

HeapSound(heap) ==
  /\ heap = [b \in DOMAIN heap |-> heap[b]]
  /\ DOMAIN heap \subseteq Blocks
  /\ \A b \in DOMAIN heap : heap[b] \in Seq(LINES)

\* The blocks are those of the pairs and some others.
Accounted(map, heap, others) ==
  /\ DOMAIN heap = Kept(map) \union others
  /\ Kept(map) \intersect others = {}

\* The pairs are what the exec believes it stored, and nothing stored is empty.
Believed(map, heap, believed) ==
  /\ believed = [k \in DOMAIN believed |-> believed[k]]
  /\ \A key \in DOMAIN believed : \E c, i : At(map, c, i) /\ map[c][i].key = key
  /\ \A c, i : At(map, c, i) =>
       /\ map[c][i].key \in DOMAIN believed
       /\ heap[map[c][i].data] = believed[map[c][i].key]
       /\ believed[map[c][i].key] # << >>

Sound(map, heap, others, believed) ==
  /\ MapSound(map)
  /\ HeapSound(heap)
  /\ Accounted(map, heap, others)
  /\ Believed(map, heap, believed)

Globals(map, heap, code, lost) == [map |-> map, heap |-> heap, code |-> code, lost |-> lost]
IsGlobals(g) == g = Globals(g.map, g.heap, g.code, g.lost)

Others(code, lost) == ({code} \ {NULL}) \union lost

Good(g, believed) ==
  /\ IsGlobals(g)
  /\ g.code \in Blocks \union {NULL}
  /\ g.lost \subseteq Blocks
  /\ g.code \notin g.lost
  /\ IF g.map = Closed
     THEN /\ HeapSound(g.heap)
          /\ DOMAIN g.heap = Others(g.code, g.lost)
          /\ believed = << >>
     ELSE Sound(g.map, g.heap, Others(g.code, g.lost), believed)

GlobalInv == Good(globals, stored)

----------------------------------------------------------------------------
(* The hash map.                                                           *)

\* Every name has a bucket.
LEMMA BucketOfKey ==
  ASSUME NEW key \in Keys
  PROVE  getBucket(key) \in Buckets
<1>1. hashKey(key) \in Nat
  BY GlobalAssumption DEF Keys
<1>2. MAPSIZE \in Nat /\ MAPSIZE > 0
  BY GlobalAssumption
<1>3. \A n \in Nat : n % MAPSIZE \in 0 .. MAPSIZE - 1
  BY <1>2
<1> QED
  BY <1>1, <1>3 DEF getBucket, Buckets

\* A map that is open is not the freed one.
LEMMA OpenMap ==
  ASSUME NEW map, MapSound(map)
  PROVE  /\ DOMAIN map = Buckets
         /\ map # Closed
         /\ \A c \in Buckets : map[c] \in Seq(Pair) /\ Len(map[c]) \in Nat /\ DOMAIN map[c] = 1 .. Len(map[c])
         /\ \A c, i : At(map, c, i) => map[c][i] \in Pair
<1>1. map \in [Buckets -> Seq(Pair)]
  BY DEF MapSound
<1>2. \A s \in Seq(Pair) : Len(s) \in Nat /\ DOMAIN s = 1 .. Len(s) /\ \A i \in 1 .. Len(s) : s[i] \in Pair
  OBVIOUS
<1>3. 0 \in Buckets /\ DOMAIN map = Buckets
  BY <1>1, GlobalAssumption DEF Buckets
<1>4. DOMAIN Closed = {}
  BY DEF Closed
<1>5. map # Closed
  BY <1>3, <1>4
<1> QED
  BY <1>1, <1>2, <1>3, <1>5 DEF At

\* Looking for the only pair of a key.
LEMMA SearchFinds ==
  ASSUME NEW list \in Seq(Pair), NEW key, NEW i \in 1 .. Len(list), list[i].key = key,
         \A j \in 1 .. Len(list) : list[j].key = key => j = i
  PROVE  listSearch(list, key) = i
<1> DEFINE I == {j \in 1 .. Len(list) : list[j].key = key}
<1>1. I = {i}
  OBVIOUS
<1>2. Min({i}) = i
  BY DEF Min
<1>3. listSearch(list, key) = IF I # {} THEN Min(I) ELSE 0
  BY DEF listSearch, SelectInSeq
<1> HIDE DEF I
<1> QED
  BY <1>1, <1>2, <1>3

LEMMA SearchFails ==
  ASSUME NEW list \in Seq(Pair), NEW key, \A j \in 1 .. Len(list) : list[j].key # key
  PROVE  listSearch(list, key) = 0
<1> DEFINE I == {j \in 1 .. Len(list) : list[j].key = key}
<1>1. I = {}
  OBVIOUS
<1>2. listSearch(list, key) = IF I # {} THEN Min(I) ELSE 0
  BY DEF listSearch, SelectInSeq
<1> HIDE DEF I
<1> QED
  BY <1>1, <1>2

\* The pair of a key is found wherever it is.
LEMMA GetFinds ==
  ASSUME NEW map, MapSound(map), NEW key, NEW c, NEW i,
         At(map, c, i), map[c][i].key = key
  PROVE  /\ getBucket(key) = c
         /\ listSearch(map[c], key) = i
         /\ hashMapGet(map, key) = map[c][i].data
         /\ hashMapHas(map, key)
         /\ \A d, j : At(map, d, j) /\ map[d][j].key = key => d = c /\ j = i
<1>1. getBucket(key) = c
  BY DEF MapSound
<1>2. \A d, j : At(map, d, j) /\ map[d][j].key = key => d = c /\ j = i
  BY <1>1 DEF MapSound
<1>3. map[c] \in Seq(Pair) /\ Len(map[c]) \in Nat /\ i \in 1 .. Len(map[c]) /\ c \in Buckets
  BY OpenMap DEF At
<1>4. \A j \in 1 .. Len(map[c]) : map[c][j].key = key => j = i
  BY <1>2, <1>3 DEF At
<1>5. listSearch(map[c], key) = i
  BY <1>3, <1>4, SearchFinds
<1>6. i # 0
  BY <1>3
<1> QED
  BY <1>1, <1>2, <1>5, <1>6 DEF hashMapGet, hashMapHas

LEMMA GetFails ==
  ASSUME NEW map, MapSound(map), NEW key \in Keys,
         \A c, i : At(map, c, i) => map[c][i].key # key
  PROVE  /\ listSearch(map[getBucket(key)], key) = 0
         /\ hashMapGet(map, key) = NULL
         /\ ~ hashMapHas(map, key)
<1> DEFINE c == getBucket(key)
<1>1. c \in Buckets
  BY BucketOfKey
<1>2. map[c] \in Seq(Pair)
  BY <1>1, OpenMap
<1>3. \A j \in 1 .. Len(map[c]) : map[c][j].key # key
  BY <1>1 DEF At
<1>4. listSearch(map[c], key) = 0
  BY <1>2, <1>3, SearchFails
<1> QED
  BY <1>4 DEF hashMapGet, hashMapHas

\* map with the pair of key and block put at a place, and the block of the
\* pair that was there.
Put(map, new, key, block, old) ==
  \E c, i :
    /\ At(new, c, i) /\ new[c][i] = [key |-> key, data |-> block]
    /\ \A d, j : At(new, d, j) <=> At(map, d, j) \/ (d = c /\ j = i)
    /\ \A d, j : At(map, d, j) /\ ~ (d = c /\ j = i) => new[d][j] = map[d][j]
    /\ \A d, j : At(map, d, j) /\ map[d][j].key = key => d = c /\ j = i
    /\ IF At(map, c, i) THEN map[c][i].key = key /\ old = map[c][i].data ELSE old = NULL
    /\ c = getBucket(key)

\* hashMapSet() puts the pair where its key was, or at the end of its bucket.
LEMMA SetPuts ==
  ASSUME NEW map, MapSound(map), NEW key \in Keys, NEW block \in Blocks
  PROVE  /\ hashMapSet(map, key, block) \in [Buckets -> Seq(Pair)]
         /\ Put(map, hashMapSet(map, key, block), key, block, hashMapGet(map, key))
<1> DEFINE c == getBucket(key)
           list == map[c]
           pair == [key |-> key, data |-> block]
           at == listSearch(list, key)
           new == hashMapSet(map, key, block)
<1>1. c \in Buckets /\ map \in [Buckets -> Seq(Pair)]
  BY BucketOfKey DEF MapSound
<1>2. list \in Seq(Pair) /\ Len(list) \in Nat
  BY <1>1, OpenMap
<1>3. pair \in Pair
  BY DEF Pair
<1>4. CASE \E i \in 1 .. Len(list) : list[i].key = key
  <2>1. PICK i \in 1 .. Len(list) : list[i].key = key
    BY <1>4
  <2>2. At(map, c, i)
    BY <1>1 DEF At
  <2>3. at = i /\ hashMapGet(map, key) = map[c][i].data
        /\ \A d, j : At(map, d, j) /\ map[d][j].key = key => d = c /\ j = i
    BY <2>1, <2>2, GetFinds
  <2>4. at # 0
    BY <2>3
  <2>5. new = [map EXCEPT ![c] = [@ EXCEPT ![i].data = block]]
    BY <2>3, <2>4 DEF hashMapSet
  <2>6. [list[i] EXCEPT !.data = block] = pair
    <3>1. list[i] \in Pair
      BY <1>2
    <3>2. \A r \in Pair : [r EXCEPT !.data = block] = [key |-> r.key, data |-> block]
      BY DEF Pair
    <3> QED
      BY <2>1, <3>1, <3>2
  <2> DEFINE put == [list EXCEPT ![i] = pair]
  <2>7. put \in Seq(Pair) /\ Len(put) = Len(list) /\ put[i] = pair
        /\ \A j \in 1 .. Len(list) : j # i => put[j] = list[j]
    BY <1>2, <1>3
  <2>8. new = [map EXCEPT ![c] = put]
    BY <2>5, <2>6
  <2> HIDE DEF put, new, pair
  <2>9. new \in [Buckets -> Seq(Pair)] /\ new[c] = put /\ \A d \in Buckets : d # c => new[d] = map[d]
    BY <1>1, <2>7, <2>8
  <2>10. \A d, j : At(new, d, j) <=> At(map, d, j)
    BY <2>9, <2>7 DEF At
  <2>11. \A d, j : At(map, d, j) /\ ~ (d = c /\ j = i) => new[d][j] = map[d][j]
    BY <2>9, <2>7 DEF At
  <2>12. new[c][i] = pair
    BY <2>9, <2>7
  <2> QED
    <3>1. Put(map, new, key, block, hashMapGet(map, key))
      BY <2>1, <2>2, <2>3, <2>10, <2>11, <2>12 DEF Put, pair
    <3> QED
      BY <3>1, <2>9 DEF new
<1>5. CASE \A i \in 1 .. Len(list) : list[i].key # key
  <2>1. \A d, j : At(map, d, j) => map[d][j].key # key
    BY <1>5 DEF MapSound, At
  <2>2. at = 0 /\ hashMapGet(map, key) = NULL
    BY <2>1, GetFails
  <2> DEFINE put == Append(list, pair)
             i == Len(list) + 1
  <2>3. new = [map EXCEPT ![c] = put]
    BY <2>2 DEF hashMapSet, listPush
  <2>4. put \in Seq(Pair) /\ Len(put) = i /\ put[i] = pair
        /\ \A j \in 1 .. Len(list) : put[j] = list[j]
    BY <1>2, <1>3
  <2> HIDE DEF put, new, pair
  <2>5. new \in [Buckets -> Seq(Pair)] /\ new[c] = put /\ \A d \in Buckets : d # c => new[d] = map[d]
    BY <1>1, <2>3, <2>4
  <2>6. \A d, j : At(new, d, j) <=> At(map, d, j) \/ (d = c /\ j = i)
    BY <1>1, <1>2, <2>4, <2>5 DEF At
  <2>7. \A d, j : At(map, d, j) /\ ~ (d = c /\ j = i) => new[d][j] = map[d][j]
    BY <2>4, <2>5 DEF At
  <2>8. At(new, c, i) /\ new[c][i] = pair /\ ~ At(map, c, i)
    BY <1>1, <1>2, <2>4, <2>5 DEF At
  <2> HIDE DEF i
  <2>9. Put(map, new, key, block, hashMapGet(map, key))
    BY <2>1, <2>2, <2>6, <2>7, <2>8 DEF Put, pair
  <2> QED
    BY <2>9, <2>5 DEF new
<1> QED
  BY <1>4, <1>5

\* The blocks the map holds are those of its pairs.
LEMMA KeptBlocks ==
  ASSUME NEW map, MapSound(map)
  PROVE  \A x : x \in Kept(map) <=> \E c, i : At(map, c, i) /\ x = map[c][i].data
<1>1. Kept(map) = UNION {{map[b][i].data : i \in DOMAIN map[b]} : b \in DOMAIN map}
  BY OpenMap DEF Kept
<1>2. \A x : x \in Kept(map) <=> \E b \in DOMAIN map : \E i \in DOMAIN map[b] : x = map[b][i].data
  BY <1>1
<1> QED
  BY <1>2, OpenMap DEF At

----------------------------------------------------------------------------
(* Blocks of storage.                                                      *)

\* While there is room, a block can be had.
LEMMA FreshBlock ==
  ASSUME NEW used, used \subseteq Blocks, Cardinality(used) < MAXBLOCKS
  PROVE  \E b \in Blocks : b \notin used
<1>1. IsFiniteSet(Blocks) /\ Cardinality(Blocks) = MAXBLOCKS
  BY FS_Interval, GlobalAssumption DEF Blocks
<1>2. CASE used = Blocks
  BY <1>1, <1>2, GlobalAssumption
<1> QED
  BY <1>2

\* A block got.
LEMMA Malloc ==
  ASSUME NEW heap, HeapSound(heap), NEW b \in Blocks, NEW text \in Seq(LINES)
  PROVE  /\ HeapSound(LPMALLOC(heap, b, text))
         /\ DOMAIN LPMALLOC(heap, b, text) = DOMAIN heap \union {b}
         /\ LPMALLOC(heap, b, text)[b] = text
         /\ \A x \in DOMAIN heap : x # b => LPMALLOC(heap, b, text)[x] = heap[x]
<1>1. LPMALLOC(heap, b, text) = [x \in DOMAIN heap \union {b} |-> IF x = b THEN text ELSE heap[x]]
  BY DEF LPMALLOC, Extended
<1> QED
  BY <1>1 DEF HeapSound

\* A block given back.
LEMMA FreeTakes ==
  ASSUME NEW heap, HeapSound(heap), NEW b \in Blocks \union {NULL}
  PROVE  /\ HeapSound(LPFREE(heap, b))
         /\ DOMAIN LPFREE(heap, b) = DOMAIN heap \ {b}
         /\ \A x \in DOMAIN heap : x # b => LPFREE(heap, b)[x] = heap[x]
<1>1. CASE b = NULL
  <2>1. LPFREE(heap, b) = heap
    BY <1>1 DEF LPFREE
  <2>2. b \notin DOMAIN heap
    BY <1>1, GlobalAssumption DEF HeapSound, NULL, Blocks
  <2> QED
    BY <2>1, <2>2
<1>2. CASE b # NULL
  <2>1. LPFREE(heap, b) = [x \in DOMAIN heap \ {b} |-> heap[x]]
    BY <1>2 DEF LPFREE, Restrict
  <2> QED
    BY <2>1 DEF HeapSound
<1> QED
  BY <1>1, <1>2

\* A block nobody else has, at hand.
LEMMA MallocSound ==
  ASSUME NEW map, NEW heap, NEW others, NEW believed,
         Sound(map, heap, others, believed),
         NEW b \in Blocks, b \notin DOMAIN heap, NEW text \in Seq(LINES)
  PROVE  Sound(map, LPMALLOC(heap, b, text), others \union {b}, believed)
<1> DEFINE new == LPMALLOC(heap, b, text)
<1>1. MapSound(map) /\ HeapSound(heap) /\ Accounted(map, heap, others) /\ Believed(map, heap, believed)
  BY DEF Sound
<1>2. /\ HeapSound(new) /\ DOMAIN new = DOMAIN heap \union {b}
      /\ \A x \in DOMAIN heap : x # b => new[x] = heap[x]
  BY <1>1, Malloc
<1> HIDE DEF new
<1>3. Accounted(map, new, others \union {b})
  BY <1>1, <1>2 DEF Accounted
<1>4. \A c, i : At(map, c, i) => map[c][i].data \in DOMAIN heap /\ map[c][i].data # b
  BY <1>1, KeptBlocks DEF Accounted
<1>5. Believed(map, new, believed)
  BY <1>1, <1>2, <1>4 DEF Believed
<1> QED
  BY <1>1, <1>2, <1>3, <1>5 DEF Sound, new

\* A pair put into a sound map leaves a sound one.
LEMMA PutSound ==
  ASSUME NEW map, MapSound(map), NEW new \in [Buckets -> Seq(Pair)],
         NEW key, NEW block, block \notin Kept(map), NEW old, Put(map, new, key, block, old)
  PROVE  /\ MapSound(new)
         /\ Kept(new) = (Kept(map) \ {old}) \union {block}
         /\ old \in Kept(map) \union {NULL}
<1>1. PICK c, i :
        /\ At(new, c, i) /\ new[c][i] = [key |-> key, data |-> block]
        /\ \A d, j : At(new, d, j) <=> At(map, d, j) \/ (d = c /\ j = i)
        /\ \A d, j : At(map, d, j) /\ ~ (d = c /\ j = i) => new[d][j] = map[d][j]
        /\ \A d, j : At(map, d, j) /\ map[d][j].key = key => d = c /\ j = i
        /\ IF At(map, c, i) THEN map[c][i].key = key /\ old = map[c][i].data ELSE old = NULL
        /\ c = getBucket(key)
  BY DEF Put
<1>2. \A x : x \in Kept(map) <=> \E d, j : At(map, d, j) /\ x = map[d][j].data
  BY KeptBlocks
<1>3. new[c][i].key = key /\ new[c][i].data = block
  BY <1>1
<1>4. ASSUME NEW d, NEW j, At(new, d, j), ~ (d = c /\ j = i)
      PROVE  At(map, d, j) /\ new[d][j] = map[d][j] /\ new[d][j].key # key /\ new[d][j].data # block
  <2>1. At(map, d, j) /\ new[d][j] = map[d][j]
    BY <1>1, <1>4
  <2> QED
    BY <1>1, <1>2, <1>4, <2>1
<1>5. \A d, j : At(new, d, j) => getBucket(new[d][j].key) = d
  <2> SUFFICES ASSUME NEW d, NEW j, At(new, d, j)  PROVE  getBucket(new[d][j].key) = d
    OBVIOUS
  <2>1. CASE d = c /\ j = i
    BY <2>1, <1>1, <1>3
  <2>2. CASE ~ (d = c /\ j = i)
    BY <2>2, <1>4 DEF MapSound
  <2> QED
    BY <2>1, <2>2
<1>6. \A d, e, j, k : At(new, d, j) /\ At(new, e, k) =>
         /\ d = e /\ new[d][j].key = new[e][k].key => j = k
         /\ new[d][j].data = new[e][k].data => d = e /\ j = k
  <2> SUFFICES ASSUME NEW d, NEW e, NEW j, NEW k, At(new, d, j), At(new, e, k)
               PROVE  /\ d = e /\ new[d][j].key = new[e][k].key => j = k
                      /\ new[d][j].data = new[e][k].data => d = e /\ j = k
    OBVIOUS
  <2>1. CASE d = c /\ j = i
    BY <2>1, <1>3, <1>4
  <2>2. CASE e = c /\ k = i
    BY <2>2, <1>3, <1>4
  <2>3. CASE ~ (d = c /\ j = i) /\ ~ (e = c /\ k = i)
    <3>1. At(map, d, j) /\ new[d][j] = map[d][j] /\ At(map, e, k) /\ new[e][k] = map[e][k]
      BY <2>3, <1>4
    <3> QED
      BY <3>1 DEF MapSound
  <2> QED
    BY <2>1, <2>2, <2>3
<1>7. MapSound(new)
  BY <1>5, <1>6 DEF MapSound
<1>8. \A x : x \in Kept(new) <=> \E d, j : At(new, d, j) /\ x = new[d][j].data
  BY <1>7, KeptBlocks
<1>9. \A d, j : At(map, d, j) => map[d][j].data # NULL
  BY OpenMap DEF Pair, Blocks, NULL
<1>10. ASSUME NEW x
       PROVE  x \in Kept(new) <=> x \in (Kept(map) \ {old}) \union {block}
  <2>1. CASE x = block
    BY <2>1, <1>8, <1>1, <1>3
  <2>2. CASE x # block
    <3>1. ASSUME x \in Kept(new)  PROVE  x \in Kept(map) /\ x # old
      <4>1. PICK d, j : At(new, d, j) /\ x = new[d][j].data
        BY <3>1, <1>8
      <4>2. ~ (d = c /\ j = i)
        BY <4>1, <2>2, <1>3
      <4>3. At(map, d, j) /\ x = map[d][j].data
        BY <4>1, <4>2, <1>1
      <4>4. x # old
        <5>1. CASE At(map, c, i)
          BY <5>1, <4>2, <4>3, <1>1 DEF MapSound
        <5>2. CASE ~ At(map, c, i)
          BY <5>2, <4>3, <1>1, <1>9
        <5> QED
          BY <5>1, <5>2
      <4> QED
        BY <4>3, <4>4, <1>2
    <3>2. x \in Kept(map) /\ x # old => x \in Kept(new)
      BY <2>2, <1>8, <1>1, <1>2, <1>3, <1>9
    <3> QED
      BY <2>2, <3>1, <3>2
  <2> QED
    BY <2>1, <2>2
<1>11. old \in Kept(map) \union {NULL}
  BY <1>1, <1>2
<1> QED
  BY <1>7, <1>10, <1>11

\* What is stored replaces what was stored under the key, whose block goes back.
LEMMA SwapSound ==
  ASSUME NEW map, NEW heap, NEW others, NEW believed,
         NEW key \in Keys, NEW block \in Blocks,
         Sound(map, heap, others \union {block}, believed), block \notin others, heap[block] # << >>,
         NEW freed, freed = IF hashMapGet(map, key) = block THEN NULL ELSE hashMapGet(map, key)
  PROVE  Sound(hashMapSet(map, key, block), LPFREE(heap, freed), others, Extended(believed, key, heap[block]))
<1> DEFINE new == hashMapSet(map, key, block)
           old == hashMapGet(map, key)
           left == LPFREE(heap, freed)
           now == Extended(believed, key, heap[block])
<1>1. /\ MapSound(map) /\ HeapSound(heap) /\ Accounted(map, heap, others \union {block})
      /\ Believed(map, heap, believed)
  BY DEF Sound
<1>2. new \in [Buckets -> Seq(Pair)] /\ Put(map, new, key, block, old)
  BY <1>1, SetPuts
<1>3. block \notin Kept(map) /\ block # NULL
  BY <1>1 DEF Accounted, Blocks, NULL
<1> HIDE DEF new, old
<1>4. MapSound(new) /\ Kept(new) = (Kept(map) \ {old}) \union {block} /\ old \in Kept(map) \union {NULL}
  BY <1>1, <1>2, <1>3, PutSound
<1>5. freed = old /\ old \in Blocks \union {NULL}
  BY <1>1, <1>3, <1>4 DEF old, Accounted, HeapSound
<1>6. /\ HeapSound(left) /\ DOMAIN left = DOMAIN heap \ {old}
      /\ \A x \in DOMAIN heap : x # old => left[x] = heap[x]
  BY <1>1, <1>5, FreeTakes
<1> HIDE DEF left
<1>7. NULL \notin DOMAIN heap
  BY <1>1, GlobalAssumption DEF HeapSound, Blocks, NULL
<1>8. Accounted(new, left, others)
  BY <1>1, <1>3, <1>4, <1>6, <1>7 DEF Accounted
<1>9. PICK c, i :
        /\ At(new, c, i) /\ new[c][i] = [key |-> key, data |-> block]
        /\ \A d, j : At(new, d, j) <=> At(map, d, j) \/ (d = c /\ j = i)
        /\ \A d, j : At(map, d, j) /\ ~ (d = c /\ j = i) => new[d][j] = map[d][j]
        /\ \A d, j : At(map, d, j) /\ map[d][j].key = key => d = c /\ j = i
        /\ IF At(map, c, i) THEN map[c][i].key = key /\ old = map[c][i].data ELSE old = NULL
        /\ c = getBucket(key)
  BY <1>2 DEF Put
<1>10. now = [k \in DOMAIN believed \union {key} |-> IF k = key THEN heap[block] ELSE believed[k]]
  BY DEF Extended
<1> HIDE DEF now
<1>11. \A d, j : At(map, d, j) => map[d][j].data \in Kept(map)
  BY <1>1, KeptBlocks
<1>12. ASSUME NEW d, NEW j, At(new, d, j)
       PROVE  /\ new[d][j].key \in DOMAIN now
              /\ left[new[d][j].data] = now[new[d][j].key]
              /\ now[new[d][j].key] # << >>
  <2>1. CASE d = c /\ j = i
    <3>1. new[d][j].key = key /\ new[d][j].data = block
      BY <2>1, <1>9
    <3>2. block \in DOMAIN heap /\ block # old
      BY <1>1, <1>3, <1>4 DEF Accounted
    <3>3. left[block] = heap[block]
      BY <3>2, <1>6
    <3>4. key \in DOMAIN now /\ now[key] = heap[block]
      BY <1>10
    <3> QED
      BY <3>1, <3>3, <3>4
  <2>2. CASE ~ (d = c /\ j = i)
    <3>1. At(map, d, j) /\ new[d][j] = map[d][j] /\ map[d][j].key # key
      BY <2>2, <1>9, <1>12
    <3>2. map[d][j].data # old
      <4>1. CASE At(map, c, i)
        BY <4>1, <2>2, <3>1, <1>1, <1>9 DEF MapSound
      <4>2. CASE ~ At(map, c, i)
        BY <4>2, <3>1, <1>1, <1>7, <1>9, <1>11 DEF Accounted
      <4> QED
        BY <4>1, <4>2
    <3>3. left[map[d][j].data] = heap[map[d][j].data]
      BY <3>1, <3>2, <1>1, <1>6, <1>11 DEF Accounted
    <3>4. /\ map[d][j].key \in DOMAIN believed
          /\ heap[map[d][j].data] = believed[map[d][j].key]
          /\ believed[map[d][j].key] # << >>
      BY <3>1, <1>1 DEF Believed
    <3>5. map[d][j].key \in DOMAIN now /\ now[map[d][j].key] = believed[map[d][j].key]
      BY <3>1, <3>4, <1>10
    <3> QED
      BY <3>1, <3>3, <3>4, <3>5
  <2> QED
    BY <2>1, <2>2
<1>13. ASSUME NEW k \in DOMAIN now
       PROVE  \E d, j : At(new, d, j) /\ new[d][j].key = k
  <2>1. CASE k = key
    BY <2>1, <1>9
  <2>2. CASE k # key
    <3>1. PICK d, j : At(map, d, j) /\ map[d][j].key = k
      BY <2>2, <1>1, <1>10, <1>13 DEF Believed
    <3>2. CASE d = c /\ j = i
      BY <3>1, <3>2, <2>2, <1>9
    <3>3. CASE ~ (d = c /\ j = i)
      BY <3>1, <3>3, <1>9
    <3> QED
      BY <3>2, <3>3
  <2> QED
    BY <2>1, <2>2
<1>14. now = [k \in DOMAIN now |-> now[k]]
  BY <1>10
<1>15. Believed(new, left, now)
  BY <1>12, <1>13, <1>14 DEF Believed
<1> QED
  BY <1>4, <1>6, <1>8, <1>15 DEF Sound, new, left, now

----------------------------------------------------------------------------
(* Records.                                                                *)

\* The parts of the state of the global variables.
LEMMA Parts ==
  ASSUME NEW m, NEW h, NEW c, NEW l
  PROVE  /\ IsGlobals(Globals(m, h, c, l))
         /\ Globals(m, h, c, l).map = m /\ Globals(m, h, c, l).heap = h
         /\ Globals(m, h, c, l).code = c /\ Globals(m, h, c, l).lost = l
  BY DEF Globals, IsGlobals

\* What an update of one part leaves and changes.
LEMMA Updated ==
  ASSUME NEW g, IsGlobals(g), NEW x
  PROVE  /\ [g EXCEPT !.map = x] = Globals(x, g.heap, g.code, g.lost)
         /\ [g EXCEPT !.heap = x] = Globals(g.map, x, g.code, g.lost)
         /\ [g EXCEPT !.code = x] = Globals(g.map, g.heap, x, g.lost)
         /\ [g EXCEPT !.lost = x] = Globals(g.map, g.heap, g.code, x)
<1>1. g \in [map : {g.map}, heap : {g.heap}, code : {g.code}, lost : {g.lost}]
  BY DEF IsGlobals, Globals
<1>2. [g EXCEPT !.map = x] = Globals(x, g.heap, g.code, g.lost)
  BY <1>1 DEF Globals
<1>3. [g EXCEPT !.heap = x] = Globals(g.map, x, g.code, g.lost)
  BY <1>1 DEF Globals
<1>4. [g EXCEPT !.code = x] = Globals(g.map, g.heap, x, g.lost)
  BY <1>1 DEF Globals
<1>5. [g EXCEPT !.lost = x] = Globals(g.map, g.heap, g.code, x)
  BY <1>1 DEF Globals
<1> QED
  BY <1>2, <1>3, <1>4, <1>5

\* An update of map and storage.
LEMMA UpdatedMap ==
  ASSUME NEW g, IsGlobals(g), NEW x, NEW y
  PROVE  [g EXCEPT !.map = x, !.heap = y] = Globals(x, y, g.code, g.lost)
<1> DEFINE r == [g EXCEPT !.map = x]
<1>1. r = Globals(x, g.heap, g.code, g.lost)
  BY Updated
<1>2. [g EXCEPT !.map = x, !.heap = y] = [r EXCEPT !.heap = y]
  OBVIOUS
<1> HIDE DEF r
<1>3. [r EXCEPT !.heap = y] = Globals(x, y, g.code, g.lost)
  BY <1>1 DEF Globals
<1> QED
  BY <1>2, <1>3

\* An update of storage and module.
LEMMA UpdatedCode ==
  ASSUME NEW g, IsGlobals(g), NEW x, NEW y
  PROVE  [g EXCEPT !.heap = x, !.code = y] = Globals(g.map, x, y, g.lost)
<1> DEFINE r == [g EXCEPT !.heap = x]
<1>1. r = Globals(g.map, x, g.code, g.lost)
  BY Updated
<1>2. [g EXCEPT !.heap = x, !.code = y] = [r EXCEPT !.code = y]
  OBVIOUS
<1> HIDE DEF r
<1>3. [r EXCEPT !.code = y] = Globals(g.map, x, y, g.lost)
  BY <1>1 DEF Globals
<1> QED
  BY <1>2, <1>3

\* An update of storage and what is lost.
LEMMA UpdatedLost ==
  ASSUME NEW g, IsGlobals(g), NEW x, NEW y
  PROVE  [g EXCEPT !.heap = x, !.lost = y] = Globals(g.map, x, g.code, y)
<1> DEFINE r == [g EXCEPT !.heap = x]
<1>1. r = Globals(g.map, x, g.code, g.lost)
  BY Updated
<1>2. [g EXCEPT !.heap = x, !.lost = y] = [r EXCEPT !.lost = y]
  OBVIOUS
<1> HIDE DEF r
<1>3. [r EXCEPT !.lost = y] = Globals(g.map, x, g.code, y)
  BY <1>1 DEF Globals
<1> QED
  BY <1>2, <1>3

----------------------------------------------------------------------------
(* The steps.                                                              *)

\* A map made anew.
LEMMA NewGood ==
  Good([map |-> hashMapNew, heap |-> << >>, code |-> NULL, lost |-> {}], << >>)
<1> DEFINE g == Globals(hashMapNew, << >>, NULL, {})
<1>1. IsGlobals(g) /\ g.map = hashMapNew /\ g.heap = << >> /\ g.code = NULL /\ g.lost = {}
  BY Parts
<1> HIDE DEF g
<1>2. hashMapNew \in [Buckets -> Seq(Pair)]
  BY DEF hashMapNew, Buckets
<1>3. \A c, i : ~ At(hashMapNew, c, i)
  BY DEF At, hashMapNew, Buckets
<1>4. MapSound(hashMapNew)
  BY <1>2, <1>3 DEF MapSound
<1>5. Kept(hashMapNew) = {} /\ hashMapNew # Closed
  BY <1>3, <1>4, KeptBlocks, OpenMap
<1>6. DOMAIN << >> = {} /\ << >> = [x \in DOMAIN << >> |-> << >>[x]]
  OBVIOUS
<1>7. HeapSound(<< >>) /\ Accounted(hashMapNew, << >>, {}) /\ Believed(hashMapNew, << >>, << >>)
  BY <1>3, <1>5, <1>6 DEF HeapSound, Accounted, Believed
<1>8. Others(NULL, {}) = {}
  BY DEF Others
<1>9. Good(g, << >>)
  BY <1>1, <1>4, <1>5, <1>7, <1>8 DEF Good, Sound
<1> QED
  BY <1>9 DEF g, Globals

\* The block a step gets is one nobody has.
LEMMA FreshIsNew ==
  ASSUME GlobalInv, Room
  PROVE  /\ Fresh \in Blocks /\ Fresh \notin DOMAIN globals.heap
         /\ Fresh \notin Others(globals.code, globals.lost)
<1>1. Sound(globals.map, globals.heap, Others(globals.code, globals.lost), stored)
  BY DEF GlobalInv, Good, Room
<1>2. DOMAIN globals.heap \subseteq Blocks
  BY <1>1 DEF Sound, HeapSound
<1>3. \E b \in Blocks : b \notin DOMAIN globals.heap
  BY <1>2, FreshBlock DEF Room
<1>4. Fresh \in Blocks /\ Fresh \notin DOMAIN globals.heap
  BY <1>3 DEF Fresh, Blocks
<1> QED
  BY <1>1, <1>4 DEF Sound, Accounted

\* What replaces a value.
LEMMA SwappedParts ==
  ASSUME NEW g, IsGlobals(g), NEW key, NEW b
  PROVE  Swapped(g, key, b) =
           Globals(hashMapSet(g.map, key, b),
                   LPFREE(g.heap, IF hashMapGet(g.map, key) = b THEN NULL ELSE hashMapGet(g.map, key)),
                   g.code, g.lost)
<1> DEFINE map == hashMapSet(g.map, key, b)
           heap == LPFREE(g.heap, IF hashMapGet(g.map, key) = b THEN NULL ELSE hashMapGet(g.map, key))
<1>1. Swapped(g, key, b) = [g EXCEPT !.map = map, !.heap = heap]
  BY DEF Swapped
<1> HIDE DEF map, heap
<1>2. [g EXCEPT !.map = map, !.heap = heap] = Globals(map, heap, g.code, g.lost)
  BY UpdatedMap
<1> QED
  BY <1>1, <1>2 DEF map, heap

\* SETG keeps the invariant.
LEMMA SetgGood ==
  ASSUME GlobalInv, Room, NEW name \in NAMES, NEW text \in Seq(LINES), text # << >>
  PROVE  Good(R_setg(globals, name, text), Extended(stored, Lupper(name), text))
<1> DEFINE key == Lupper(name)
           heap == LPMALLOC(globals.heap, Fresh, text)
           others == Others(globals.code, globals.lost)
           g == Globals(globals.map, heap, globals.code, globals.lost)
           freed == IF hashMapGet(globals.map, key) = Fresh THEN NULL ELSE hashMapGet(globals.map, key)
<1>1. Sound(globals.map, globals.heap, others, stored) /\ IsGlobals(globals)
  BY DEF GlobalInv, Good, Room
<1>2. Fresh \in Blocks /\ Fresh \notin DOMAIN globals.heap /\ Fresh \notin others
  BY FreshIsNew
<1>3. Sound(globals.map, heap, others \union {Fresh}, stored)
  BY <1>1, <1>2, MallocSound
<1>4. heap[Fresh] = text
  <2>1. PICK h, b : h = globals.heap /\ b = Fresh
    OBVIOUS
  <2>2. HeapSound(h) /\ b \in Blocks
    BY <1>1, <1>2, <2>1 DEF Sound
  <2>3. LPMALLOC(h, b, text)[b] = text
    BY <2>2, Malloc
  <2> QED
    BY <2>1, <2>3
<1>5. key \in Keys
  BY DEF Keys
<1>6. R_setg(globals, name, text) = Swapped(g, key, Fresh)
  <2>1. [globals EXCEPT !.heap = heap] = g
    BY <1>1, Updated
  <2>2. R_setg(globals, name, text) = Swapped([globals EXCEPT !.heap = heap], key, Fresh)
    BY DEF R_setg
  <2> QED
    BY <2>1, <2>2
<1>7. IsGlobals(g) /\ g.map = globals.map /\ g.heap = heap /\ g.code = globals.code /\ g.lost = globals.lost
  BY Parts
<1> HIDE DEF g, heap, others, key
<1> DEFINE map == hashMapSet(globals.map, key, Fresh)
           left == LPFREE(heap, freed)
<1>8. Swapped(g, key, Fresh) = Globals(map, left, globals.code, globals.lost)
  BY <1>7, SwappedParts
<1>9. Sound(map, left, others, Extended(stored, key, text))
  BY <1>2, <1>3, <1>4, <1>5, SwapSound
<1> HIDE DEF map, left
<1>10. map # Closed
  BY <1>9, OpenMap DEF Sound
<1>11. /\ globals.code \in Blocks \union {NULL} /\ globals.lost \subseteq Blocks
       /\ globals.code \notin globals.lost
  BY DEF GlobalInv, Good
<1>12. Good(Globals(map, left, globals.code, globals.lost), Extended(stored, key, text))
  BY <1>9, <1>10, <1>11, Parts DEF Good, others
<1> QED
  BY <1>6, <1>8, <1>12 DEF key

\* A value no pair was found for keeps its block.
LEMMA SetgLostGood ==
  ASSUME GlobalInv, Room, NEW text \in Seq(LINES)
  PROVE  Good(R_setgLost(globals, text), stored)
<1> DEFINE heap == LPMALLOC(globals.heap, Fresh, text)
           lost == globals.lost \union {Fresh}
<1>1. Sound(globals.map, globals.heap, Others(globals.code, globals.lost), stored) /\ IsGlobals(globals)
  BY DEF GlobalInv, Good, Room
<1>2. /\ Fresh \in Blocks /\ Fresh \notin DOMAIN globals.heap
      /\ Fresh \notin Others(globals.code, globals.lost)
  BY FreshIsNew
<1>3. Sound(globals.map, heap, Others(globals.code, globals.lost) \union {Fresh}, stored)
  BY <1>1, <1>2, MallocSound
<1>4. Others(globals.code, lost) = Others(globals.code, globals.lost) \union {Fresh}
  BY DEF Others
<1>5. /\ globals.code \in Blocks \union {NULL} /\ lost \subseteq Blocks
      /\ globals.code \notin lost /\ globals.map # Closed
  BY <1>2, GlobalAssumption DEF GlobalInv, Good, Room, Others, Blocks, NULL
<1>6. R_setgLost(globals, text) = [globals EXCEPT !.heap = heap, !.lost = lost]
  BY DEF R_setgLost
<1> HIDE DEF heap, lost
<1>7. PICK g, h, l : g = globals /\ h = heap /\ l = lost
  OBVIOUS
<1>8. IsGlobals(g)
  BY <1>1, <1>7
<1>9. [g EXCEPT !.heap = h, !.lost = l] = Globals(g.map, h, g.code, l)
  BY <1>8, UpdatedLost
<1>10. /\ Sound(g.map, h, Others(g.code, l), stored)
       /\ g.code \in Blocks \union {NULL} /\ l \subseteq Blocks
       /\ g.code \notin l /\ g.map # Closed
  BY <1>3, <1>4, <1>5, <1>7
<1>11. Good(Globals(g.map, h, g.code, l), stored)
  BY <1>10, Parts DEF Good
<1> QED
  BY <1>6, <1>7, <1>9, <1>11

\* Storage changed in blocks no pair has.
LEMMA OthersSound ==
  ASSUME NEW map, NEW heap, NEW others, NEW believed, Sound(map, heap, others, believed),
         NEW new, HeapSound(new), DOMAIN new = DOMAIN heap,
         \A x \in DOMAIN heap \ others : new[x] = heap[x]
  PROVE  Sound(map, new, others, believed)
<1>1. MapSound(map) /\ HeapSound(heap) /\ Accounted(map, heap, others) /\ Believed(map, heap, believed)
  BY DEF Sound
<1>2. \A d, j : At(map, d, j) => map[d][j].data \in DOMAIN heap \ others
  BY <1>1, KeptBlocks DEF Accounted
<1>3. Accounted(map, new, others) /\ Believed(map, new, believed)
  BY <1>1, <1>2 DEF Accounted, Believed
<1> QED
  BY <1>1, <1>3 DEF Sound

\* A block of its own given back.
LEMMA FreeSound ==
  ASSUME NEW map, NEW heap, NEW others, NEW believed, NEW b \in Blocks,
         Sound(map, heap, others \union {b}, believed), b \notin others
  PROVE  Sound(map, LPFREE(heap, b), others, believed)
<1> DEFINE new == LPFREE(heap, b)
<1>1. /\ MapSound(map) /\ HeapSound(heap) /\ Accounted(map, heap, others \union {b})
      /\ Believed(map, heap, believed)
  BY DEF Sound
<1>2. HeapSound(new) /\ DOMAIN new = DOMAIN heap \ {b} /\ \A x \in DOMAIN heap : x # b => new[x] = heap[x]
  BY <1>1, FreeTakes
<1> HIDE DEF new
<1>3. \A d, j : At(map, d, j) => map[d][j].data \in DOMAIN heap /\ map[d][j].data # b
  BY <1>1, KeptBlocks DEF Accounted
<1>4. Accounted(map, new, others) /\ Believed(map, new, believed)
  BY <1>1, <1>2, <1>3 DEF Accounted, Believed
<1> QED
  BY <1>1, <1>2, <1>4 DEF Sound, new

\* A module is being collected in a block of its own.
Collecting(g, believed) ==
  /\ IsGlobals(g)
  /\ g.code \in Blocks /\ g.lost \subseteq Blocks /\ g.code \notin g.lost
  /\ g.map # Closed
  /\ Sound(g.map, g.heap, g.lost \union {g.code}, believed)

LEMMA CollectingGood ==
  ASSUME NEW g, NEW believed
  PROVE  /\ Collecting(g, believed) => Good(g, believed)
         /\ Good(g, believed) /\ g.map # Closed /\ g.code # NULL => Collecting(g, believed)
<1>1. g.code \in Blocks => g.code # NULL
  BY GlobalAssumption DEF Blocks, NULL
<1>2. g.code # NULL => Others(g.code, g.lost) = g.lost \union {g.code}
  BY DEF Others
<1>3. Collecting(g, believed) => Good(g, believed)
  BY <1>1, <1>2 DEF Collecting, Good
<1>4. Good(g, believed) /\ g.map # Closed /\ g.code # NULL => Collecting(g, believed)
  BY <1>2 DEF Collecting, Good
<1> QED
  BY <1>3, <1>4

\* The block of the module written anew.
LEMMA CodeWritten ==
  ASSUME NEW g, NEW believed, Collecting(g, believed),
         NEW heap, HeapSound(heap), DOMAIN heap = DOMAIN g.heap,
         \A x \in DOMAIN heap : x # g.code => heap[x] = g.heap[x]
  PROVE  Collecting(Globals(g.map, heap, g.code, g.lost), believed)
<1>1. Sound(g.map, heap, g.lost \union {g.code}, believed)
  BY OthersSound DEF Collecting
<1>2. PICK r : r = Globals(g.map, heap, g.code, g.lost)
  OBVIOUS
<1>3. IsGlobals(r) /\ r.map = g.map /\ r.heap = heap /\ r.code = g.code /\ r.lost = g.lost
  BY <1>2, Parts
<1>4. Collecting(r, believed)
  BY <1>1, <1>3 DEF Collecting
<1> QED
  BY <1>2, <1>4

\* A line that opens a module gives it an empty block.
LEMMA OpenedModule ==
  ASSUME GlobalInv, Room, NEW line, line.open
  PROVE  /\ Collecting(Opened(globals, line), stored)
         /\ Opened(globals, line).heap[Opened(globals, line).code] = << >>
<1> DEFINE b == IF globals.code = NULL THEN Fresh ELSE globals.code
           heap == LPMALLOC(LPFREE(globals.heap, globals.code), b, << >>)
<1>1. Opened(globals, line) = [globals EXCEPT !.heap = heap, !.code = b]
  BY DEF Opened
<1>2. PICK g, new, c : g = globals /\ new = heap /\ c = b
  OBVIOUS
<1>3. /\ Good(g, stored) /\ IsGlobals(g) /\ g.map # Closed
      /\ Sound(g.map, g.heap, Others(g.code, g.lost), stored)
  BY <1>2 DEF GlobalInv, Good, Room
<1>4. [g EXCEPT !.heap = new, !.code = c] = Globals(g.map, new, c, g.lost)
  BY <1>3, UpdatedCode
<1>5. << >> \in Seq(LINES)
  OBVIOUS
<1>6. HeapSound(g.heap) /\ g.code \in Blocks \union {NULL}
  BY <1>3 DEF Good, Sound
<1>7. c \in Blocks
  BY <1>2, <1>3, <1>6, FreshIsNew
<1>8. /\ HeapSound(LPFREE(g.heap, g.code)) /\ DOMAIN LPFREE(g.heap, g.code) = DOMAIN g.heap \ {g.code}
      /\ \A x \in DOMAIN g.heap : x # g.code => LPFREE(g.heap, g.code)[x] = g.heap[x]
  BY <1>6, FreeTakes
<1>9. PICK left : left = LPFREE(g.heap, g.code)
  OBVIOUS
<1>10. new = LPMALLOC(left, c, << >>)
  BY <1>2, <1>9
<1>11. /\ HeapSound(new) /\ DOMAIN new = DOMAIN left \union {c} /\ new[c] = << >>
       /\ \A x \in DOMAIN left : x # c => new[x] = left[x]
  <2>1. HeapSound(left)
    BY <1>8, <1>9
  <2>2. new = [x \in DOMAIN left \union {c} |-> IF x = c THEN << >> ELSE left[x]]
    BY <1>10 DEF LPMALLOC, Extended
  <2> QED
    BY <1>5, <1>7, <2>1, <2>2 DEF HeapSound
<1>12. CASE globals.code = NULL
  <2>1. c = Fresh /\ c \notin DOMAIN g.heap /\ c \notin Others(g.code, g.lost) /\ g.code = NULL
    BY <1>2, <1>12, FreshIsNew
  <2>2. left = g.heap
    BY <1>9, <2>1 DEF LPFREE
  <2>3. Sound(g.map, new, Others(g.code, g.lost) \union {c}, stored)
    BY <1>3, <1>5, <1>7, <1>10, <2>1, <2>2, MallocSound
  <2>4. Others(g.code, g.lost) = g.lost
    BY <2>1 DEF Others
  <2>5. c \notin g.lost /\ g.lost \subseteq Blocks
    BY <1>3, <2>1, <2>4 DEF Good
  <2>6. Collecting(Globals(g.map, new, c, g.lost), stored)
    <3>1. PICK r : r = Globals(g.map, new, c, g.lost)
      OBVIOUS
    <3>2. IsGlobals(r) /\ r.map = g.map /\ r.heap = new /\ r.code = c /\ r.lost = g.lost
      BY <3>1, Parts
    <3>3. Collecting(r, stored)
      BY <1>3, <1>7, <2>3, <2>4, <2>5, <3>2 DEF Collecting
    <3> QED
      BY <3>1, <3>3
  <2> QED
    BY <1>1, <1>2, <1>4, <1>11, <2>6, Parts
<1>13. CASE globals.code # NULL
  <2>1. c = g.code /\ Collecting(g, stored)
    BY <1>2, <1>3, <1>13, CollectingGood
  <2>2. c \in DOMAIN g.heap
    BY <2>1 DEF Collecting, Sound, Accounted
  <2>3. DOMAIN new = DOMAIN g.heap /\ \A x \in DOMAIN new : x # g.code => new[x] = g.heap[x]
    BY <1>8, <1>9, <1>11, <2>1, <2>2
  <2>4. Collecting(Globals(g.map, new, g.code, g.lost), stored)
    BY <1>11, <2>1, <2>3, CodeWritten
  <2> QED
    BY <1>1, <1>2, <1>4, <1>11, <2>1, <2>4, Parts
<1> QED
  BY <1>12, <1>13

\* A line is added to the module.
LEMMA CollectedLine ==
  ASSUME NEW g, NEW believed, Collecting(g, believed),
         NEW line, line.text \in LINES
  PROVE  /\ Collecting(Collected(g, line), believed)
         /\ Collected(g, line).code = g.code
         /\ Collected(g, line).heap[g.code] = Append(g.heap[g.code], line.text)
<1>1. /\ IsGlobals(g) /\ HeapSound(g.heap) /\ g.code \in DOMAIN g.heap
  BY DEF Collecting, Sound, Accounted
<1> DEFINE heap == [g.heap EXCEPT ![g.code] = Append(@, line.text)]
<1>2. Collected(g, line) = [g EXCEPT !.heap = heap]
  BY DEF Collected
<1>3. Append(g.heap[g.code], line.text) \in Seq(LINES)
  BY <1>1 DEF HeapSound
<1>4. heap = [x \in DOMAIN g.heap |-> IF x = g.code THEN Append(g.heap[g.code], line.text) ELSE g.heap[x]]
  BY <1>1
<1> HIDE DEF heap
<1>5. /\ HeapSound(heap) /\ DOMAIN heap = DOMAIN g.heap
      /\ heap[g.code] = Append(g.heap[g.code], line.text)
      /\ \A x \in DOMAIN heap : x # g.code => heap[x] = g.heap[x]
  BY <1>1, <1>3, <1>4 DEF HeapSound
<1>6. Collecting(Globals(g.map, heap, g.code, g.lost), believed)
  BY <1>5, CodeWritten
<1>7. [g EXCEPT !.heap = heap] = Globals(g.map, heap, g.code, g.lost)
  BY <1>1, Updated
<1>8. PICK r : r = Globals(g.map, heap, g.code, g.lost)
  OBVIOUS
<1>9. r.heap = heap /\ r.code = g.code
  BY <1>8, Parts
<1>10. Collected(g, line) = r
  BY <1>2, <1>7, <1>8
<1> QED
  BY <1>5, <1>6, <1>8, <1>9, <1>10

\* The end of a module stores it under its name, if that is one, and leaves no module.
LEMMA ModuleEnds ==
  ASSUME NEW g, NEW believed, Collecting(g, believed), g.heap[g.code] # << >>,
         NEW line, line.as \in NAMES \/ ~ ValidName(line.as)
  PROVE  Good(SegmentEnd(g, line),
              IF ValidName(line.as) THEN Extended(believed, Lupper(line.as), g.heap[g.code]) ELSE believed)
<1>1. /\ IsGlobals(g) /\ g.code \in Blocks /\ g.lost \subseteq Blocks /\ g.code \notin g.lost
      /\ Sound(g.map, g.heap, g.lost \union {g.code}, believed) /\ g.map # Closed
  BY DEF Collecting
<1>2. NULL \notin g.lost /\ Others(NULL, g.lost) = g.lost
  BY <1>1, GlobalAssumption DEF Others, Blocks, NULL
<1>3. CASE ValidName(line.as)
  <2> DEFINE key == Lupper(line.as)
             freed == IF hashMapGet(g.map, key) = g.code THEN NULL ELSE hashMapGet(g.map, key)
             map == hashMapSet(g.map, key, g.code)
             heap == LPFREE(g.heap, freed)
             now == Extended(believed, key, g.heap[g.code])
  <2>1. key \in Keys
    BY <1>3 DEF Keys
  <2>2. Sound(map, heap, g.lost, now)
    BY <1>1, <2>1, SwapSound
  <2>3. SegmentEnd(g, line) = [Swapped(g, key, g.code) EXCEPT !.code = NULL]
    BY <1>3 DEF SegmentEnd
  <2>4. Swapped(g, key, g.code) = Globals(map, heap, g.code, g.lost)
    BY <1>1, SwappedParts
  <2> HIDE DEF map, heap, now
  <2>5. PICK r : r = Globals(map, heap, g.code, g.lost)
    OBVIOUS
  <2>6. IsGlobals(r) /\ r.map = map /\ r.heap = heap /\ r.lost = g.lost
    BY <2>5, Parts
  <2>7. [r EXCEPT !.code = NULL] = Globals(map, heap, NULL, g.lost)
    BY <2>5 DEF Globals
  <2>8. map # Closed
    BY <2>2, OpenMap DEF Sound
  <2>9. PICK e : e = Globals(map, heap, NULL, g.lost)
    OBVIOUS
  <2>10. IsGlobals(e) /\ e.map = map /\ e.heap = heap /\ e.code = NULL /\ e.lost = g.lost
    BY <2>9, Parts
  <2>11. Good(e, now)
    BY <1>1, <1>2, <2>2, <2>8, <2>10 DEF Good
  <2>12. SegmentEnd(g, line) = e
    BY <2>3, <2>4, <2>5, <2>7, <2>9
  <2> QED
    BY <1>3, <2>11, <2>12 DEF now
<1>4. CASE ~ ValidName(line.as)
  <2> DEFINE heap == LPFREE(g.heap, g.code)
  <2>1. Sound(g.map, heap, g.lost, believed)
    BY <1>1, FreeSound
  <2>2. SegmentEnd(g, line) = [[g EXCEPT !.heap = heap] EXCEPT !.code = NULL]
    BY <1>4 DEF SegmentEnd
  <2> HIDE DEF heap
  <2>3. [g EXCEPT !.heap = heap] = Globals(g.map, heap, g.code, g.lost)
    BY <1>1, Updated
  <2>4. PICK r : r = Globals(g.map, heap, g.code, g.lost)
    OBVIOUS
  <2>5. IsGlobals(r) /\ r.map = g.map /\ r.heap = heap /\ r.lost = g.lost
    BY <2>4, Parts
  <2>6. [r EXCEPT !.code = NULL] = Globals(g.map, heap, NULL, g.lost)
    BY <2>4 DEF Globals
  <2>7. PICK e : e = Globals(g.map, heap, NULL, g.lost)
    OBVIOUS
  <2>8. IsGlobals(e) /\ e.map = g.map /\ e.heap = heap /\ e.code = NULL /\ e.lost = g.lost
    BY <2>7, Parts
  <2>9. Good(e, believed)
    BY <1>1, <1>2, <2>1, <2>8 DEF Good
  <2>10. SegmentEnd(g, line) = e
    BY <2>2, <2>3, <2>4, <2>6, <2>7
  <2> QED
    BY <1>4, <2>9, <2>10
<1> QED
  BY <1>3, <1>4

\* A line of ADDRESS DYNREXX keeps the invariant.
LEMMA DynrexxGood ==
  ASSUME GlobalInv, Room, NEW line, Dynrexx(line),
         line.text \in LINES, line.as \in NAMES \/ ~ ValidName(line.as)
  PROVE  GlobalInv'
<1> DEFINE opened == Opened(globals, line)
           before == IF globals.code = NULL \/ line.open THEN << >> ELSE globals.heap[globals.code]
<1>1. globals' = DYNREXX(globals, line)
  BY DEF Dynrexx
<1>2. CASE line.open \/ globals.code # NULL
  <2>1. Collecting(opened, stored) /\ opened.heap[opened.code] = before
    <3>1. CASE line.open
      BY <3>1, OpenedModule
    <3>2. CASE ~ line.open
      <4>1. opened = globals /\ globals.code # NULL
        BY <1>2, <3>2 DEF Opened
      <4>2. Collecting(globals, stored)
        BY <4>1, CollectingGood DEF GlobalInv, Room
      <4> QED
        BY <3>2, <4>1, <4>2
    <3> QED
      BY <3>1, <3>2
  <2> HIDE DEF opened
  <2>2. PICK g : g = Collected(opened, line)
    OBVIOUS
  <2>3. Collecting(g, stored) /\ g.code = opened.code /\ g.heap[g.code] = Append(before, line.text)
    <3>1. PICK o, s : o = opened /\ s = stored
      OBVIOUS
    <3>2. Collecting(o, s) /\ g = Collected(o, line)
      BY <2>1, <2>2, <3>1
    <3>3. Collecting(g, s) /\ g.code = o.code /\ g.heap[o.code] = Append(o.heap[o.code], line.text)
      BY <3>2, CollectedLine
    <3> QED
      BY <2>1, <3>1, <3>3
  <2>4. opened.code # NULL
    BY <2>1, GlobalAssumption DEF Collecting, Blocks, NULL
  <2>5. before \in Seq(LINES)
    BY <2>1 DEF Collecting, Sound, Accounted, HeapSound
  <2> HIDE DEF before
  <2>6. /\ Append(before, line.text) # << >>
        /\ Append(before, line.text) = before \o <<line.text>>
    BY <2>5
  <2>7. LinesOf(line) = Append(before, line.text)
    BY <2>6 DEF LinesOf, before
  <2>8. CASE line.close
    <3>1. globals' = SegmentEnd(g, line)
      BY <1>1, <2>2, <2>4, <2>8 DEF DYNREXX, opened
    <3>2. stored' = IF ValidName(line.as) THEN Extended(stored, Lupper(line.as), g.heap[g.code]) ELSE stored
      BY <1>2, <2>3, <2>7, <2>8 DEF Dynrexx
    <3>3. g.heap[g.code] # << >>
      BY <2>3, <2>6
    <3>4. Good(SegmentEnd(g, line),
               IF ValidName(line.as) THEN Extended(stored, Lupper(line.as), g.heap[g.code]) ELSE stored)
      BY <2>3, <3>3, ModuleEnds
    <3> QED
      BY <3>1, <3>2, <3>4 DEF GlobalInv
  <2>9. CASE ~ line.close
    <3>1. globals' = g /\ stored' = stored
      BY <1>1, <2>2, <2>4, <2>9 DEF DYNREXX, Dynrexx, opened
    <3> QED
      BY <2>3, <3>1, CollectingGood DEF GlobalInv
  <2> QED
    BY <2>8, <2>9
<1>3. CASE ~ (line.open \/ globals.code # NULL)
  <2>1. globals' = globals /\ stored' = stored
    BY <1>1, <1>3 DEF DYNREXX, Dynrexx, Opened
  <2> QED
    BY <2>1 DEF GlobalInv
<1> QED
  BY <1>2, <1>3

\* A module no pair was found for keeps its block.
LEMMA DynrexxLostGood ==
  ASSUME GlobalInv, Room, NEW line, DynrexxLost(line), line.text \in LINES
  PROVE  GlobalInv'
<1>1. PICK o, s : o = Opened(globals, line) /\ s = stored
  OBVIOUS
<1>2. o.code # NULL /\ globals' = SegmentEndLost(Collected(o, line)) /\ stored' = s
  BY <1>1 DEF DynrexxLost
<1>3. Collecting(o, s)
  <2>1. CASE line.open
    BY <1>1, <2>1, OpenedModule
  <2>2. CASE ~ line.open
    <3>1. o = globals /\ globals.code # NULL
      BY <1>1, <1>2, <2>2 DEF Opened
    <3> QED
      BY <1>1, <3>1, CollectingGood DEF GlobalInv, Room
  <2> QED
    BY <2>1, <2>2
<1>4. PICK g : g = Collected(o, line)
  OBVIOUS
<1>5. Collecting(g, s)
  BY <1>3, <1>4, CollectedLine
<1>6. /\ IsGlobals(g) /\ g.code \in Blocks /\ g.lost \subseteq Blocks /\ g.code \notin g.lost
      /\ Sound(g.map, g.heap, g.lost \union {g.code}, s) /\ g.map # Closed
  BY <1>5 DEF Collecting
<1>7. PICK l : l = g.lost \union {g.code}
  OBVIOUS
<1>8. l \subseteq Blocks /\ NULL \notin l /\ Others(NULL, l) = l
  BY <1>6, <1>7, GlobalAssumption DEF Others, Blocks, NULL
<1>9. PICK e : e = Globals(g.map, g.heap, NULL, l)
  OBVIOUS
<1>10. IsGlobals(e) /\ e.map = g.map /\ e.heap = g.heap /\ e.code = NULL /\ e.lost = l
  BY <1>9, Parts
<1>11. Good(e, s)
  BY <1>6, <1>7, <1>8, <1>10 DEF Good
<1>12. SegmentEndLost(g) = e
  <2>1. SegmentEndLost(g) = [[g EXCEPT !.lost = l] EXCEPT !.code = NULL]
    BY <1>7 DEF SegmentEndLost
  <2>2. PICK m, h, c, x : m = g.map /\ h = g.heap /\ c = g.code /\ x = g.lost
    OBVIOUS
  <2>3. g = Globals(m, h, c, x)
    BY <1>6, <2>2 DEF IsGlobals
  <2>4. [g EXCEPT !.lost = l] = Globals(m, h, c, l)
    BY <2>3 DEF Globals
  <2>5. PICK r : r = Globals(m, h, c, l)
    OBVIOUS
  <2>6. [r EXCEPT !.code = NULL] = Globals(m, h, NULL, l)
    BY <2>5 DEF Globals
  <2>7. e = Globals(m, h, NULL, l)
    BY <1>9, <2>2
  <2> QED
    BY <2>1, <2>4, <2>5, <2>6, <2>7
<1> QED
  BY <1>2, <1>4, <1>11, <1>12 DEF GlobalInv

\* The end of a copy gives the blocks of the map back.
LEMMA FreedGood ==
  ASSUME GlobalInv, hashMapFree
  PROVE  GlobalInv'
<1> DEFINE heap == Restrict(globals.heap, DOMAIN globals.heap \ Kept(globals.map))
<1>1. /\ globals' = [globals EXCEPT !.map = Closed, !.heap = heap] /\ stored' = << >>
      /\ globals.map # Closed
  BY DEF hashMapFree
<1>2. heap = [x \in DOMAIN globals.heap \ Kept(globals.map) |-> globals.heap[x]]
  BY DEF Restrict
<1>3. /\ IsGlobals(globals) /\ HeapSound(globals.heap)
      /\ Accounted(globals.map, globals.heap, Others(globals.code, globals.lost))
  BY <1>1 DEF GlobalInv, Good, Sound
<1>4. HeapSound(heap) /\ DOMAIN heap = Others(globals.code, globals.lost)
  <2>1. DOMAIN heap = Others(globals.code, globals.lost)
    BY <1>2, <1>3 DEF Accounted
  <2>2. \A x \in DOMAIN heap : x \in DOMAIN globals.heap /\ heap[x] = globals.heap[x]
    BY <1>2
  <2>3. heap = [x \in DOMAIN heap |-> heap[x]]
    BY <1>2
  <2> HIDE DEF heap
  <2> QED
    BY <1>3, <2>1, <2>2, <2>3 DEF HeapSound
<1> HIDE DEF heap
<1>5. PICK g, h : g = globals /\ h = heap
  OBVIOUS
<1>6. [g EXCEPT !.map = Closed, !.heap = h] = Globals(Closed, h, g.code, g.lost)
  BY <1>3, <1>5, UpdatedMap
<1>7. PICK e : e = Globals(Closed, h, g.code, g.lost)
  OBVIOUS
<1>8. IsGlobals(e) /\ e.map = Closed /\ e.heap = h /\ e.code = g.code /\ e.lost = g.lost
  BY <1>7, Parts
<1>9. g.code \in Blocks \union {NULL} /\ g.lost \subseteq Blocks /\ g.code \notin g.lost
  BY <1>5 DEF GlobalInv, Good
<1>10. Good(e, << >>)
  BY <1>4, <1>5, <1>8, <1>9 DEF Good
<1>11. globals' = e
  BY <1>1, <1>5, <1>6, <1>7
<1> QED
  BY <1>1, <1>10, <1>11 DEF GlobalInv

\* Every step keeps the invariant.
LEMMA StepGood ==
  ASSUME GlobalInv, [GlobalNext]_<<globals, stored>>
  PROVE  GlobalInv'
<1>1. CASE UNCHANGED <<globals, stored>>
  BY <1>1 DEF GlobalInv
<1>2. ASSUME Room, NEW name \in NAMES, NEW text \in Values, Setg(name, text)
      PROVE  GlobalInv'
  <2>1. PICK x \in LINES : text = <<x>>
    BY DEF Values
  <2>2. text \in Seq(LINES) /\ text # << >>
    BY <2>1
  <2>3. Good(R_setg(globals, name, text), Extended(stored, Lupper(name), text))
    BY <1>2, <2>2, SetgGood
  <2> QED
    BY <1>2, <2>3 DEF Setg, GlobalInv
<1>3. ASSUME Room, NEW name \in NAMES, NEW text \in Values, SetgLost(name, text)
      PROVE  GlobalInv'
  <2>1. \A x \in LINES : <<x>> \in Seq(LINES)
    OBVIOUS
  <2>2. text \in Seq(LINES)
    BY <2>1 DEF Values
  <2>3. Good(R_setgLost(globals, text), stored)
    BY <1>3, <2>2, SetgLostGood
  <2> QED
    BY <1>3, <2>3 DEF SetgLost, GlobalInv
<1>4. ASSUME Room, NEW open \in BOOLEAN, NEW close \in BOOLEAN, NEW x \in LINES,
             NEW as \in NAMES \union {<< >>},
             NEW line \in {[open |-> open, close |-> close, text |-> x, as |-> IF close THEN as ELSE << >>]},
             Dynrexx(line) \/ DynrexxLost(line)
      PROVE  GlobalInv'
  <2>1. line = [open |-> open, close |-> close, text |-> x, as |-> IF close THEN as ELSE << >>]
    BY <1>4
  <2>2. line.text \in LINES /\ line.as \in NAMES \union {<< >>}
    BY <2>1, <1>4
  <2>3. ~ ValidName(<< >>)
    BY DEF ValidName
  <2>4. line.as \in NAMES \/ ~ ValidName(line.as)
    BY <2>2, <2>3
  <2>5. CASE Dynrexx(line)
    BY <1>4, <2>2, <2>4, <2>5, DynrexxGood
  <2>6. CASE DynrexxLost(line)
    BY <1>4, <2>2, <2>6, DynrexxLostGood
  <2> QED
    BY <1>4, <2>5, <2>6
<1>5. CASE NextCopy
  <2>1. stored = << >>
    BY <1>5 DEF NextCopy, GlobalInv, Good
  <2> QED
    BY <1>5, <2>1, NewGood DEF NextCopy, GlobalInv
<1>6. CASE hashMapFree
  BY <1>6, FreedGood
<1> QED
  BY <1>1, <1>2, <1>3, <1>4, <1>5, <1>6 DEF GlobalNext

----------------------------------------------------------------------------
(* What an exec relies on.                                                 *)

\* As many blocks as pairs.
LEMMA BlockPerPair ==
  ASSUME NEW map, MapSound(map)
  PROVE  Cardinality(Kept(map)) = Cardinality(UNION {{<<b, i>> : i \in DOMAIN map[b]} : b \in DOMAIN map})
<1> DEFINE pairs == UNION {{<<b, i>> : i \in DOMAIN map[b]} : b \in DOMAIN map}
           f == [p \in pairs |-> map[p[1]][p[2]].data]
<1>1. \A p : p \in pairs <=> \E b \in DOMAIN map : \E i \in DOMAIN map[b] : p = <<b, i>>
  OBVIOUS
<1> HIDE DEF pairs
<1>2. \A p : p \in pairs <=> \E c, i : At(map, c, i) /\ p = <<c, i>>
  BY <1>1, OpenMap DEF At
<1>3. \A x : x \in Kept(map) <=> \E c, i : At(map, c, i) /\ x = map[c][i].data
  BY KeptBlocks
<1>4. \A c, i : At(map, c, i) => <<c, i>> \in pairs /\ f[<<c, i>>] = map[c][i].data
  BY <1>2
<1>5. \A p \in pairs : p = <<p[1], p[2]>> /\ At(map, p[1], p[2])
  BY <1>2
<1> HIDE DEF f
<1>6. f \in [pairs -> Kept(map)]
  BY <1>3, <1>5 DEF f
<1>7. \A p, q \in pairs : f[p] = f[q] => p = q
  <2> SUFFICES ASSUME NEW p \in pairs, NEW q \in pairs, f[p] = f[q]  PROVE  p = q
    OBVIOUS
  <2>1. PICK c, i : At(map, c, i) /\ p = <<c, i>>
    BY <1>2
  <2>2. PICK d, j : At(map, d, j) /\ q = <<d, j>>
    BY <1>2
  <2>3. map[c][i].data = map[d][j].data
    BY <2>1, <2>2, <1>4
  <2> QED
    BY <2>1, <2>2, <2>3 DEF MapSound
<1>8. \A x \in Kept(map) : \E p \in pairs : f[p] = x
  <2> SUFFICES ASSUME NEW x \in Kept(map)  PROVE  \E p \in pairs : f[p] = x
    OBVIOUS
  <2>1. PICK c, i : At(map, c, i) /\ x = map[c][i].data
    BY <1>3
  <2>2. <<c, i>> \in pairs /\ f[<<c, i>>] = x
    BY <2>1, <1>4
  <2> QED
    BY <2>2
<1>9. f \in Injection(pairs, Kept(map)) /\ f \in Surjection(pairs, Kept(map))
  BY <1>6, <1>7, <1>8 DEF Injection, Surjection, IsInjective
<1>10. Kept(map) \subseteq Blocks
  BY <1>3, OpenMap DEF Pair
<1>11. IsFiniteSet(Blocks)
  BY FS_Interval, GlobalAssumption DEF Blocks
<1>12. IsFiniteSet(Kept(map))
  BY <1>10, <1>11, FS_Subset
<1>13. Cardinality(pairs) = Cardinality(Kept(map))
  BY <1>9, <1>12, FS_Injection
<1> QED
  BY <1>13 DEF pairs

\* GETG and the call of a stored exec get what was stored.
LEMMA StoredIsFound ==
  ASSUME NEW g, NEW believed, NEW others, Sound(g.map, g.heap, others, believed),
         NEW name \in NAMES
  PROVE  /\ R_getg(g, name) = IF Lupper(name) \in DOMAIN believed THEN believed[Lupper(name)] ELSE << >>
         /\ RxLoadRX(g, name) <=> Lupper(name) \in DOMAIN believed
<1> DEFINE key == Lupper(name)
<1>1. MapSound(g.map) /\ Believed(g.map, g.heap, believed) /\ Accounted(g.map, g.heap, others)
      /\ HeapSound(g.heap)
  BY DEF Sound
<1>2. key \in Keys
  BY DEF Keys
<1> HIDE DEF key
<1>3. CASE key \in DOMAIN believed
  <2>1. PICK c, i : At(g.map, c, i) /\ g.map[c][i].key = key
    BY <1>1, <1>3 DEF Believed
  <2>2. hashMapGet(g.map, key) = g.map[c][i].data /\ hashMapHas(g.map, key)
    BY <1>1, <2>1, GetFinds
  <2>3. g.heap[g.map[c][i].data] = believed[key] /\ believed[key] # << >>
    BY <1>1, <2>1 DEF Believed
  <2>4. g.map[c][i].data # NULL
    BY <1>1, <2>1, OpenMap DEF Pair, Blocks, NULL
  <2>5. R_getg(g, name) = believed[key]
    BY <2>2, <2>3, <2>4 DEF R_getg, key
  <2>6. RxLoadRX(g, name)
    BY <2>2, <2>3, <2>5 DEF RxLoadRX, key
  <2> QED
    BY <1>3, <2>5, <2>6 DEF key
<1>4. CASE key \notin DOMAIN believed
  <2>1. \A c, i : At(g.map, c, i) => g.map[c][i].key # key
    BY <1>1, <1>4 DEF Believed
  <2>2. hashMapGet(g.map, key) = NULL /\ ~ hashMapHas(g.map, key)
    BY <1>1, <1>2, <2>1, GetFails
  <2>3. R_getg(g, name) = << >> /\ ~ RxLoadRX(g, name)
    BY <2>2 DEF R_getg, RxLoadRX, key
  <2> QED
    BY <1>4, <2>3 DEF key
<1> QED
  BY <1>3, <1>4

LEMMA GoodIsKept ==
  ASSUME GlobalInv
  PROVE  GlobalsKept
<1> DEFINE Due(name) == IF Lupper(name) \in DOMAIN stored THEN stored[Lupper(name)] ELSE << >>
           pairs == UNION {{<<b, i>> : i \in DOMAIN globals.map[b]} : b \in DOMAIN globals.map}
           others == Others(globals.code, globals.lost)
<1>1. CASE globals.map = Closed
  <2>1. Kept(globals.map) = {}
    BY <1>1 DEF Kept
  <2>2. DOMAIN globals.map = {}
    BY <1>1 DEF Closed
  <2>3. pairs = {}
    BY <2>2
  <2>4. DOMAIN globals.heap = others
    BY <1>1 DEF GlobalInv, Good
  <2>5. DOMAIN globals.heap = Kept(globals.map) \union ({globals.code} \ {NULL}) \union globals.lost
    BY <2>1, <2>4 DEF Others
  <2> QED
    BY <1>1, <2>1, <2>3, <2>5 DEF GlobalsKept
<1>2. CASE globals.map # Closed
  <2>1. Sound(globals.map, globals.heap, others, stored)
    BY <1>2 DEF GlobalInv, Good
  <2>2. DOMAIN globals.heap = Kept(globals.map) \union ({globals.code} \ {NULL}) \union globals.lost
    BY <2>1 DEF Sound, Accounted, Others
  <2>3. PICK g, believed, rest : g = globals /\ believed = stored /\ rest = others
    OBVIOUS
  <2>4. Sound(g.map, g.heap, rest, believed)
    BY <2>1, <2>3
  <2>5. ASSUME NEW name \in NAMES
        PROVE  R_getg(globals, name) = Due(name) /\ RxLoadRX(globals, name) = (Lupper(name) \in DOMAIN stored)
    <3>1. R_getg(g, name) = IF Lupper(name) \in DOMAIN believed THEN believed[Lupper(name)] ELSE << >>
      BY <2>4, StoredIsFound
    <3>2. RxLoadRX(g, name) <=> Lupper(name) \in DOMAIN believed
      BY <2>4, StoredIsFound
    <3>3. RxLoadRX(g, name) = (Lupper(name) \in DOMAIN believed)
      BY <3>2 DEF RxLoadRX
    <3> QED
      BY <2>3, <3>1, <3>3
  <2>6. MapSound(globals.map)
    BY <2>1 DEF Sound
  <2>7. Cardinality(Kept(globals.map)) = Cardinality(pairs)
    BY <2>6, BlockPerPair
  <2> QED
    BY <2>2, <2>5, <2>7 DEF GlobalsKept
<1> QED
  BY <1>1, <1>2

\* However SETG, ADDRESS DYNREXX and copies of BREXX follow each other, GETG and the
\* call of a stored exec get what was last stored under the name, every value has a
\* block of its own that is not freed, and no block stays behind but those of a module
\* still collected and of values no pair was found for (hashmap.c:112-143,
\* rxmvs.c:496-535, hostenv.c:300-358).
THEOREM GlobalsCorrect == GlobalSpec => []GlobalsKept
<1>1. GlobalInit => GlobalInv
  BY NewGood DEF GlobalInit, GlobalInv
<1>2. GlobalInv /\ [GlobalNext]_<<globals, stored>> => GlobalInv'
  BY StepGood
<1>3. GlobalInv => GlobalsKept
  BY GoodIsKept
<1> QED
  BY <1>1, <1>2, <1>3, PTL DEF GlobalSpec
=============================================================================
