------------------------------ MODULE Storage ------------------------------
(***************************************************************************)
(* The storage of a copy of BREXX (src/bmem.c): a pool of chunks for       *)
(* the small blocks of the main task, and the C library for all others:    *)
(* the large ones, those of the NJE subtask and those taken under          *)
(* PRIVILEGE('ON').  When the storage is used up the exec ends with one    *)
(* message, built from a reserve, or goes on in its SYNTAX handler         *)
(* (RxMemoryError() and RxRun() in src/rexx.c, main() in                   *)
(* src/brexx.c).                                                           *)
(*                                                                         *)
(* The pool counts in units of POOL_STEP bytes; the header of a block is   *)
(* one, and the link of a chunk.  malloc() may return NULL at any time.    *)
(* The reserve is only ever given back, and left out.                      *)
(***************************************************************************)
EXTENDS Integers, Sequences, FiniteSets

CONSTANTS
  POOL_STEP,        \* bytes of a unit
  POOL_CLASSES,     \* units of the largest block of the pool
  POOL_CHUNK,       \* units of a chunk
  Places,           \* bound: the addresses malloc() has for a chunk
  Outside,          \* bound: the blocks that are not in the pool
  Sizes,            \* bound: the sizes asked for
  MaxInUse          \* bound: the blocks the program has at a time

ASSUME StorageAssumption ==
  /\ POOL_STEP \in Nat \ {0} /\ POOL_CLASSES \in Nat \ {0}
  /\ POOL_CHUNK \in Nat /\ POOL_CHUNK >= POOL_CLASSES + 2
  /\ Places \subseteq Nat /\ Outside \intersect Nat = {} /\ Sizes \subseteq Nat

VARIABLES
  pool,             \* chunks, the rest cur .. end - 1 of the newest one, the headers cut off so
                    \* far (class: address -> size class) and the lists of free blocks of each
                    \* class, the top at the end
  inUse,            \* the blocks the program has: address or name -> bytes asked for
  owned,            \* poolOwner # 0
  granted,          \* _authorisedGranted
  outOfMemory,
  phase,            \* where the main task is
  subtask,          \* the subtask is running
  messages,         \* error messages of the exec so far
  depth             \* calls of memoryExhausted() within each other, up to 3

vars == <<pool, inUse, owned, granted, outOfMemory, phase, subtask, messages, depth>>

Classes == 1 .. POOL_CLASSES
POOL_MAXSIZE == POOL_STEP * POOL_CLASSES
\* The size class of a block: at least one unit.
ClassOf(size) == LET n == (size + POOL_STEP - 1) \div POOL_STEP IN IF n = 0 THEN 1 ELSE n
With(f, x, y) == [z \in DOMAIN f \union {x} |-> IF z = x THEN y ELSE f[z]]
Without(f, x) == [z \in DOMAIN f \ {x} |-> f[z]]

----------------------------------------------------------------------------
(* The pool.                                                               *)

NoPool == [chunks |-> {}, cur |-> 0, end |-> 0, class |-> <<>>, free |-> [cls \in Classes |-> <<>>]]
Rest(p) == p.end - p.cur

poolPush(p, block) == [p EXCEPT !.free[p.class[block]] = Append(@, block)]
\* Mutant: the block that is handed out stays on its list.
PoppedNot(p, cls) == p
Popped(p, cls) == [p EXCEPT !.free[cls] = SubSeq(@, 1, Len(@) - 1)]
\* A new block, cut off the rest.
CutOff(p, cls) == [p EXCEPT !.class = With(@, p.cur, cls), !.cur = @ + 1 + cls]

\* Mutant: the rest of a chunk is given up.
RestListedNot(p) == p
\* The rest, too small for a block of the class asked for, goes onto a free
\* list as one block, if it has room for a header and a unit.
RestListed(p) == IF Rest(p) >= 2 THEN poolPush(CutOff(p, Rest(p) - 1), p.cur) ELSE p
poolNewChunk(p, place) ==
  [RestListed(p) EXCEPT !.chunks = @ \union {place}, !.cur = place + 1, !.end = place + POOL_CHUNK]
Vacant(p) == {place \in Places : \A c \in p.chunks : place + POOL_CHUNK <= c \/ c + POOL_CHUNK <= place}

\* What poolAlloc() may hand out, and the pool behind it.
poolAlloc(p, cls) ==
  IF p.free[cls] # <<>>
    THEN {[block |-> p.free[cls][Len(p.free[cls])], pool |-> Popped(p, cls)]}
  ELSE IF Rest(p) >= 1 + cls
    THEN {[block |-> p.cur, pool |-> CutOff(p, cls)]}
  ELSE {[block |-> place + 1, pool |-> CutOff(poolNewChunk(p, place), cls)] : place \in Vacant(p)}
\* The pool when malloc() has no storage for a chunk.
NeedsChunk(p, cls) == p.free[cls] = <<>> /\ Rest(p) < 1 + cls

----------------------------------------------------------------------------
(* Out of memory.                                                          *)

Running(task) == IF task = "main" THEN phase \in {"init", "running"} ELSE subtask

\* Mutant: nothing remembers that the error is being reported.
memoryExhaustedForgets(task) ==
  /\ task = "main" /\ granted' = FALSE /\ depth' = depth + 1
  /\ LET first == phase \in {"running", "reporting"}
     IN  phase' = (IF phase = "init" THEN "down" ELSE IF first THEN "reporting" ELSE "exiting")
         /\ messages' = IF first THEN messages ELSE messages + 1
  /\ UNCHANGED <<outOfMemory, subtask>>
\* The subtask ends alone.  The main task leaves PRIVILEGE and gives the
\* reserve back, and reports the error; while it is reported, or with no exec
\* running, a fixed text is all.
memoryExhausted(task) ==
  \/ /\ owned /\ task # "main"
     /\ subtask' = FALSE
     /\ UNCHANGED <<granted, outOfMemory, phase, messages, depth>>
  \/ /\ ~ owned \/ task = "main"
     /\ outOfMemory' = TRUE
     /\ granted' = FALSE /\ depth' = depth + 1
     /\ LET first == phase \in {"running", "reporting"} /\ ~ outOfMemory
        IN  /\ phase' = IF phase = "init" THEN "down" ELSE IF first THEN "reporting" ELSE "exiting"
            /\ messages' = IF first THEN messages ELSE messages + 1
     /\ UNCHANGED subtask

\* RxMemoryError() reports through Lerror(): the SYNTAX handler goes on with
\* the exec, or the message is written and the exec left.  The report needs
\* storage itself.
Report ==
  /\ phase = "reporting"
  /\ \/ phase' = "running" /\ UNCHANGED messages
     \/ phase' = "exiting" /\ messages' = messages + 1
  /\ depth' = 0
  /\ UNCHANGED <<pool, inUse, owned, granted, outOfMemory, subtask>>
ReportFails ==
  /\ phase = "reporting" /\ depth < 3
  /\ memoryExhausted("main")
  /\ UNCHANGED <<pool, inUse, owned>>

----------------------------------------------------------------------------
(* malloc_or_die(), realloc_or_die(), free_or_die().                       *)

\* The pool serves the task that set it up, and not under PRIVILEGE('ON').
FromPool(task, size) == size <= POOL_MAXSIZE /\ owned /\ ~ granted /\ task = "main"
Calm == UNCHANGED <<owned, granted, outOfMemory, phase, subtask, messages, depth>>

malloc_or_die(task, size) ==
  /\ Running(task) /\ Cardinality(DOMAIN inUse) < MaxInUse
  /\ \/ /\ FromPool(task, size)
        /\ \E a \in poolAlloc(pool, ClassOf(size)) :
             pool' = a.pool /\ inUse' = With(inUse, a.block, size)
        /\ Calm
     \/ /\ FromPool(task, size) /\ NeedsChunk(pool, ClassOf(size))
        /\ pool' = RestListed(pool)
        /\ memoryExhausted(task) /\ UNCHANGED <<inUse, owned>>
     \/ /\ ~ FromPool(task, size)
        /\ \E name \in Outside \ DOMAIN inUse : inUse' = With(inUse, name, size)
        /\ UNCHANGED pool /\ Calm
     \/ /\ ~ FromPool(task, size)
        /\ memoryExhausted(task) /\ UNCHANGED <<pool, inUse, owned>>

isPoolBlock(block) == block \in DOMAIN pool.class

\* A block of the pool stays where it is as long as its class has room; then
\* it moves, into the pool or out of it.
realloc_or_die(task, block, size) ==
  /\ Running(task) /\ block \in DOMAIN inUse
  /\ \/ /\ isPoolBlock(block) /\ size + 1 <= POOL_STEP * pool.class[block]
        /\ inUse' = [inUse EXCEPT ![block] = size + 1]
        /\ UNCHANGED pool /\ Calm
     \/ /\ isPoolBlock(block) /\ size + 1 > POOL_STEP * pool.class[block]
        /\ \/ /\ FromPool(task, size + 1)
              /\ \E a \in poolAlloc(pool, ClassOf(size + 1)) :
                   /\ pool' = poolPush(a.pool, block)
                   /\ inUse' = With(Without(inUse, block), a.block, size + 1)
              /\ Calm
           \/ /\ FromPool(task, size + 1) /\ NeedsChunk(pool, ClassOf(size + 1))
              /\ pool' = RestListed(pool)
              /\ memoryExhausted(task) /\ UNCHANGED <<inUse, owned>>
           \/ /\ ~ FromPool(task, size + 1)
              /\ \E name \in Outside \ DOMAIN inUse :
                   inUse' = With(Without(inUse, block), name, size + 1)
              /\ pool' = poolPush(pool, block)
              /\ Calm
           \/ /\ ~ FromPool(task, size + 1)
              /\ memoryExhausted(task) /\ UNCHANGED <<pool, inUse, owned>>
     \/ /\ ~ isPoolBlock(block)
        /\ \/ inUse' = [inUse EXCEPT ![block] = size + 1] /\ Calm
           \/ memoryExhausted(task) /\ UNCHANGED <<inUse, owned>>
        /\ UNCHANGED pool

\* A block of the pool goes onto the list of its class.  Blocks of the pool
\* reach the main task only.
free_or_die(block) ==
  /\ phase \in {"init", "running", "leaving"}
  /\ block \in DOMAIN inUse
  /\ inUse' = Without(inUse, block)
  /\ pool' = IF isPoolBlock(block) THEN poolPush(pool, block) ELSE pool
  /\ Calm

----------------------------------------------------------------------------
(* The life of a copy.                                                     *)

\* BmemInit() has just run.
Init ==
  /\ pool = NoPool /\ inUse = <<>>
  /\ owned = TRUE /\ granted = FALSE /\ outOfMemory = FALSE
  /\ phase = "init" /\ subtask = FALSE /\ messages = 0 /\ depth = 0

Phase(from, to) == phase = from /\ phase' = to
Alone == UNCHANGED <<pool, inUse, outOfMemory, messages, depth>>
\* RxRun() sets its exit trap.
RxRun == Phase("init", "running") /\ Alone /\ UNCHANGED <<owned, granted, subtask>>
Privilege ==
  phase = "running" /\ granted' = ~ granted /\ Alone /\ UNCHANGED <<owned, phase, subtask>>
Subtask ==
  /\ phase = "running" /\ ~ subtask /\ subtask' = TRUE
  /\ Alone /\ UNCHANGED <<owned, granted, phase>>
\* The exec ends; run_exit ends the subtask and leaves PRIVILEGE.
Ends == Phase("running", "exiting") /\ Alone /\ UNCHANGED <<owned, granted, subtask>>
RunExit ==
  /\ Phase("exiting", "leaving") /\ subtask' = FALSE /\ granted' = FALSE
  /\ Alone /\ UNCHANGED <<owned>>
\* The chunks go back whole, whatever is still in use in them.
BmemTerm ==
  /\ Phase("leaving", "down")
  /\ pool' = NoPool /\ owned' = FALSE
  /\ inUse' = [b \in DOMAIN inUse \ DOMAIN pool.class |-> inUse[b]]
  /\ UNCHANGED <<granted, outOfMemory, subtask, messages, depth>>

Allocate == \E task \in {"main", "subtask"}, size \in Sizes : malloc_or_die(task, size)
Reallocate ==
  \E size \in Sizes, block \in DOMAIN inUse : realloc_or_die("main", block, size)
Free == \E block \in DOMAIN inUse : free_or_die(block)
Next == Allocate \/ Reallocate \/ Free \/ Report \/ ReportFails \/ RxRun \/ Privilege \/ Subtask
        \/ Ends \/ RunExit \/ BmemTerm
Spec == Init /\ [][Next]_vars

----------------------------------------------------------------------------
(* Properties.                                                             *)

Extent(p, block) == block .. block + p.class[block]
\* Blocks and the rest of the newest chunk lie in the chunks and do not
\* overlap.
BlocksApart(p) ==
  /\ \A c, d \in p.chunks : c < d => c + POOL_CHUNK <= d
  /\ \A b \in DOMAIN p.class :
       \E c \in p.chunks : c + 1 <= b /\ b + 1 + p.class[b] <= c + POOL_CHUNK
  /\ \A a, b \in DOMAIN p.class : a < b => a + 1 + p.class[a] <= b
  /\ \A b \in DOMAIN p.class : b + 1 + p.class[b] <= p.cur \/ p.end <= b
  /\ p.cur = p.end \/ \E c \in p.chunks : c + 1 <= p.cur /\ p.end = c + POOL_CHUNK
\* A block is handed out once: what is listed as free is listed once, in the
\* list of its class, and is not in use.
FreeOnce(p, used) ==
  \A cls \in Classes : \A i \in DOMAIN p.free[cls] :
    LET block == p.free[cls][i]
    IN  /\ block \in DOMAIN p.class /\ p.class[block] = cls
        /\ block \notin used
        /\ \A j \in DOMAIN p.free[cls] : p.free[cls][j] = block => i = j
\* The program never writes beyond its block.
LargeEnough(p, sizes) ==
  \A b \in DOMAIN sizes \ Outside : b \in DOMAIN p.class /\ sizes[b] <= POOL_STEP * p.class[b]
\* No storage is lost: every unit of a chunk is its link or part of a block
\* or of the rest, but for a last one too small for a block; every block is
\* in use or on its list.
NothingLost(p, used) ==
  /\ \A c \in p.chunks : \A u \in c + 1 .. c + POOL_CHUNK - 1 :
       \/ \E b \in DOMAIN p.class : u \in Extent(p, b)
       \/ u \in p.cur .. p.end - 1
       \/ u = c + POOL_CHUNK - 1
  /\ \A b \in DOMAIN p.class :
       \/ b \in used
       \/ \E i \in DOMAIN p.free[p.class[b]] : p.free[p.class[b]][i] = b

\* Whatever order blocks of all sizes are taken, moved and given back in, by
\* whichever task, no two blocks share storage, none is handed out twice, each
\* has the room that was asked for, and no storage is lost.
PoolSound ==
  /\ BlocksApart(pool) /\ FreeOnce(pool, DOMAIN inUse)
  /\ LargeEnough(pool, inUse) /\ NothingLost(pool, DOMAIN inUse)

\* An exec that runs out of memory writes one error message, not one for
\* every block it cannot have while it reports the first; running out again
\* ends the exec, the report does not start over until the stack is used up.
ReportedOnce == messages <= 1 /\ depth <= 2
=============================================================================
