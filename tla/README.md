# BREXX/370: a TLA+ model

BREXX/370 is a REXX interpreter for MVS 3.8j. This project models two kinds of
its code. The first is the state that several tasks, several copies of BREXX or
an abend share, where the order of the steps decides: the authorisation of the
job step, the NJE listener, the chain of environment blocks, conditions, the
storage. The second is the sequential core, where a long sequence of legal calls
or one odd boundary decides: the compiler with its stack machine, variables,
the collections an exec keeps data in, the streams, and the functions on texts,
numbers and dates. It holds TLA+ modules translated from the C and assembler source, TLC
configurations that check them on small instances, and theorems proved with
TLAPS for instances of any size. Paths below are relative to the repository.

Contents: 1 inventory, 2 modules and how they correspond to the code, 3 what
the runs show, 4 bounds, 5 fairness, 6 proofs, 7 where the code and its
documentation disagree, 8 what is not modelled, 9 plan.

## 1 Inventory

| Part | Source | State it keeps | Operations | Status |
|---|---|---|---|---|
| Authorisation of the job step | `src/privilege.c` | `authCount`, `authSwitched`, `authGen`, JSCBAUTH, the holders' flags | `authTake`, `authDrop`, `authReset`, `authNative` | modelled, proved |
| PRIVILEGE and service calls | `src/privilege.c`, `src/hostenv.c`, `src/rxmvs.c` | `_authorisedGranted`, `savedKey`, PSW key | `privilege`, `privTake`, `privKeyBack`, `privDrop`, `RxNoPriv` | modelled, proved |
| NJE38 listener | `src/rxnje.c`, `src/subtask.c`, `src/dqueue.c` | `SUBTASK_INFO`, the message queue, the ECB | `__NJEREGISTER`, `__NJERECEIVE`, `__NJESEND`, `__NJEDEREGISTER`, `RxNjeReset`, the subtask | modelled, proved |
| ENVBLOCK chain and variable routine | `src/rxvarcom.c`, `asm/rxexcom.asm` | ECTENVBK, X'130' and X'13C' of each block, `xc_published`, `xc_active` | `RxXcPub`, `RxXcRst`, `BRXEXCOM`, `RxXcom` | partly, proved |
| Life of a copy of BREXX | `src/brexx.c`, `src/rexx.c` | `stage`, `exitTrapSet`, the jump buffers | start, run, `run_exit`, recovery of an abend | partly |
| Storage | `src/bmem.c`, `src/rexx.c` | free lists, chunks, `outOfMemory` | allocate, move, free, out of memory | modelled, proved |
| Conditions and traps | `src/error.c`, `src/rxattn.c` | trap and delay masks per level, `TrapPend`, `RxAttn` | `SIGNAL ON`, `CALL ON`, raise, the deferred call | modelled, proved |
| Interpreter | `src/interpre.c` | the `_proc` levels, the code and value stacks | call, return, `INTERPRET`, `SIGNAL`, `EXIT`, the operation codes | partly |
| Compiler | `src/compile.c`, `src/expr.c`, `src/template.c` | the code under construction, open loops, labels, loads of a clause | a clause, an expression, a template | partly |
| Variables and scopes | `src/variable.c` | a scope per level, shared variables, the cache of a literal | assign, load, `DROP`, `EXPOSE`, `VALUE`, leave a routine | partly |
| Threaded binary tree | `src/bintree.c` | leaves, threads, `items`, `balancedepth` | add, find, delete, rebuild | modelled |
| Linked lists | `src/rxll.c` | lists with a current entry | `LLADD`, `LLDEL`, `LLGET`, ... | partly |
| String arrays | `src/rxsarray.c` | tables of texts with a count | `SSET`, `SINSERT`, `SSORT`, `SMERGE`, ... | partly |
| Numeric arrays | `src/rxiarray.c` | integer, bit and fixed-string arrays | `ICREATE`, `ISET`, `BSET`, `FSET`, ... | partly |
| Data stack, EXECIO | `src/stack.c`, `src/dqueue.c`, `src/rxexecio.c` | a list of queues, a file's position | `QUEUE`, `PUSH`, `PULL`, `MAKEBUF`, `DISKR`, `DISKW` | partly |
| Streams | `src/rxfiles.c` | slots with two positions over C streams with one | `OPEN`, `CLOSE`, `STREAM`, `LINEIN`, `LINEOUT`, `CHARIN`, `READ`, `SEEK`, ... | partly |
| Global variables | `map/hashmap.c`, `map/list.c`, `src/rxmvs.c`, `src/hostenv.c` | a hash map, values in storage | `SETG`, `GETG`, `ADDRESS DYNREXX` | modelled |
| Text, number, date functions | `lstring/`, `src/builtin.c`, ... | none | some 80 functions and operators, `PARSE` | partly |
| Host commands | `src/hostenv.c`, `src/address.c` | the CPPL, `rxReturnCode` | `ADDRESS` environments | partly |
| MVS and TSO functions | `src/rxmvs.c` and others | `env_block`, tables of handles | some 150 built-in functions | partly |
| Vendored and contributed | `regex/`, `asm/vtoc*.asm` | | | not modelled |

How the parts interact. One copy of BREXX is one program on one task: `main()`
makes the environment, `RxRun()` compiles and interprets, built-in functions
call MVS services. Three things break out of this:

* the **job step** has one authorisation bit (JSCBAUTH), which `PRIVILEGE`, the
  service calls, `__NJESEND` and the NJE subtask all need. They share it through
  the counter of `privilege.c`;
* the **NJE subtask** is a second task in the same address space. It shares the
  `SUBTASK_INFO` and the message queue with the exec, without a lock, and takes its
  storage past the pool of the main task;
* **several copies** of BREXX may run under one ECT (nested execs, screens of
  ISPF). They are chained from ECTENVBK by a word in each copy's ENVBLOCK, so
  that an external program that asks for variables reaches the right one.

Across all three runs the way out: an abend, an attention or an exhausted
storage leaves by `longjmp` or through the ESTAE exit, past the code that would
have given things back. `main()` and `run_exit` then reset: attention exit,
chain, subtask, privilege and authorisation, in this order.

Within one task, what is shared over time is what goes wrong: the stack of the
machine keeps pointers to variables that a function called meanwhile may change;
the code is shared by the levels of a recursion; a literal remembers the leaf of
a tree in which another instruction frees leaves; a list or an array is reached by
a number the exec keeps after it was freed; a stream's C position is moved by
every function that looks at it.

Correctness, per part. *Authorisation*: the bit is on exactly while somebody
holds it or it was on before; whatever vanished in an abend, the reset gives
back what BREXX switched on and nothing else. *PRIVILEGE*: the task is in key 0
only under PRIVILEGE('ON'); a service that is restricted runs authorised.
*Listener*: no message is lost, doubled or reordered; the exec does not run
authorised because the subtask is; every call returns; the exec can always
end. *Chain*: it holds the running execs and only them, in whatever order they
end; a request is answered by the exec it is for. *Conditions*: a raised
condition runs its trap once or is ignored for a reason. *Storage*: a block goes
back where it came from, none is listed twice or lost, out of memory is reported
once. *Compiler and machine*: the code displays what the text of the program
means. *Variables*: a name finds what the scope rules of REXX say, cache or no
cache. *Collections*: what was put there last is found there, in the documented
order, whatever calls came between. *Streams*: a read and a write position each,
whatever the C stream below them does. *Functions*: the result the reference book
promises, at every boundary.

## 2 Modules and the code

### Authorisation, tasks, chain, conditions

**`AuthLease`** is the abstract specification of the authorisation: leases are
taken out and returned, and the step is authorised exactly while one is out.

**`Authorisation`** is `authTake`, `authDrop`, `authReset` and `authNative`.
Each runs under `authMtx`, so each is one action. A holder is a flag in its
owner's storage holding the generation of its take (`held[h]`). A flag may be
dropped at any time: `MayTake` is the only thing asked of the callers. That
`AuthDrop` of a flag of an old generation does nothing is what makes the code
survive a vanished stack frame. Properties: `CountIsHolders`, `ResetGivesBack`,
`ImplementsLeases`.

**`Privilege`** EXTENDS it with the main task: PRIVILEGE('ON'/'OFF'), a service
call in its phases (`privTake`, the service, `privKeyBack`, `privDrop`), and
`RxNoPriv` which may come in the middle of any of them. `__NJESEND` and the
subtask are the other holders, and free. `keyZero` saves the current key as the
code does, with the danger of saving key 0. `PrivInv` is its type invariant with:
the key follows the privilege, a restricted service runs authorised, and a call
leaves the privilege as it found it.

**`NjeListener`** EXTENDS it with the two tasks of `rxnje.c`. `main.pc` and
`subtask.pc` are the places where a task touches shared storage; `info` is the
`SUBTASK_INFO`, `queue` the DQueue as it lies in storage (head, tail, items, and
the links and the data of each element), `nje` the external NJE38 with the user's
registration, messages and ECB. The subtask's way is `subtaskTake` (`Park`,
`Take`, `Retest`), the NJERLY call (`Call`, `Drain`, `Wait`), `queueMsg` and the drop;
the main task's are `R_njerecv` with `watchSubtask`,
`recvLeave` (`LeaveTest`, `Post`, `LeaveDrop`), `joinSubtask`, `RxNjeReset`.
`dqueue.c` has no lock, so `DQAdd2Head` of the subtask (`NewElem`, `LinkHead`,
`CountUp`, `SetHead`, `SetTail`) and `DQPop` with `DQDel` of the main task (`Pop`,
`Unlink`, `Untail`, `CountDown`) are steps of one access each, the count a load and a
store, and the two may overlap whenever the protocol lets them. Beside each other
stand the order of the messages and the list they should make (`MessagesInOrder`). An
element is known by its message; storage given back by FREE is not used again. What
goes wrong is a constant, `Faults`, so that each run says what it allows. `NjeInv`
is its type invariant with: only the ECB of a registered user is posted, and no
message is slept on.

**`ExecChain`** is the abstract specification of the chain: a stack of claims to
ECTENVBK of which any member may leave, and a request that goes to the exec it
names, or to the newest one started under the input stack element that is on
top.

**`EnvChain`** is the code: `RxXcPub` reads ECTENVBK into X'13C' and stores its
own block, `XcUnlink` walks the chain for the block above and mends it, and
`BRXEXCOM` walks it for the copy whose X'130' is on top. A block is known by its
address, and a freed address may be handed out again. The life of a copy
(`RxMvsInitialize`, `RxXcPub`, `RunExit`, `MainReset`, `RxMvsTerminate`) allows an
abend at any stage. `Chain` reads the abstract sequence of claims off the
pointers; `EC` is the refinement. `ChainInv` is its type invariant with: an exec
that ended is not in the chain, and the chain has no cycle.

**`Conditions`** is `error.c` with the levels of `interpre.c`, for any REXX
program. `procs` is `_proc[0.._rx_proc]` reduced to what concerns traps; a new
level copies the one below (`NewLevel`), a return gives nothing back but the end
of a DELAY (`I_ReturnProc`), and the end of an INTERPRET gives nothing back at all
(`RxDoneInterStr`). `pc` is what the interpreter finds at Rxcip, which matters
because OP_NEWCLAUSE and OP_EXIT are the only places that look at the attention
and at `TrapPend` (`ReadClause`), and because a routine is entered behind its
OP_NEWCLAUSE. `RxSignalCondition`, `Rerror` and `RxHaltTrap` are operators from
the levels to an `Outcome`, for they return or jump: an action applies one and
`Becomes` what it says. What a program may do depends on where in a clause it is:
ON and OFF are a clause of their own, a failing command is the last instruction of
one, files, variables, functions and INTERPRET are reached within expressions.
`CondInv` is its type invariant with: a DELAY ends unless it is one of two named
cases, and the program owes no call when it ends.

**`Storage`** is `bmem.c`: the chunks of the pool, one free list per size class,
the C library behind both, and the way out of memory through `memoryExhausted()`,
`RxMemoryError()` and the frame of `RxRun()` and `main()`. `class` says of a unit
of a chunk which block starts there, so that a free list that holds a block twice, a
block on the list of another class, or two blocks over one another is a state, not
an exception. PRIVILEGE and the subtask change where a block is taken from, not
where it goes back to: that is found from its address.

### Programs

**`Compiler`** is `compile.c` and `expr.c` as functions from the clauses of a
program to code: a record holds the code, the open loops and the loads of the
clause (`exp_load`), as the C globals do. Positions are indices of the code and
are patched where the C patches (`CODEFIXUP`). What `exp_snapshot` and the
in-place assignment of `C_expr` decide about copies is in it; it is the part of the
compiler a test does not reach.

**`Machine`** is `RxInterpret()`: one action per operation code or family of
them. The stack holds pointers: to a variable, to a literal, to the temporary of
that place (`_tmpstr`). An operator stores its result through the pointer below.

**`Programs`** says what a program means by its text alone (`Meaning`), and holds
the families of programs. `CodeMeansProgram` compares what the machine has
displayed and queued when it stops, and whether it stopped by an error.

### Variables

**`Variables`** is `variable.c` with the instructions of the interpreter that use
it: scopes, the heap of variables with their `exposed` owner, `RxVarFind` with its
cache in each literal, `RxVarSet`, `RxVarExpose`, `RxVarDel`, `RxScopeFree`.

**`Scopes`** is the abstract specification: each level reads a value under each
name and has some names in common with the level that called it. It has no
cache, no leaf and no owner. It marks as "quirk" where the interpreter is known to
differ from the language.

**`ScopedVariables`** composes the two: `ScopesImplemented` is the refinement,
with the readings and sharings computed from the trees.

### Collections

Each of the following holds one collection beside an account of what the calls
should have left; **`Collections`** composes them for one run, a behaviour of which
uses one of them.

**`BinTree`** is `bintree.c` on records of links (`BinAdd`, `BinDel`, `BinBalance`
with its list and its rebuilt tree); **`TreeOperations`** adds, deletes and looks
up in any order beside a set of keys.
**`LinkedLists`** is `rxll.c` on entries by address; **`ListOperations`** calls its
functions in any order beside a sequence and a current place.
**`StringArrays`** is `rxsarray.c`; **`ArrayOperations`** its functions beside
sequences, the results of the sorts as sorted permutations, those of the set
operations as sets.
**`IntegerArrays`** is `rxiarray.c` as it lies in storage, a matrix by rows, a bit
array in bytes; **`NumberOperations`** its functions beside plain functions from
indices to values, and the sieves of PRIME.
**`DataStack`** is `stack.c`, `dqueue.c` and `rxexecio.c`: the list of queues, and
the loops of DISKR and DISKW; `due` is what the call should have moved.
**`GlobalVariables`** is the hash map with its buckets, pairs and keys as blocks of
storage, and `SETG`, `GETG`, `ADDRESS DYNREXX` on it. The storage of a new pair may be
refused, to SETG (`SetgLost`) and at the end of a module (`DynrexxLost`); neither
caller looks at what `hashMapSet` returns. `stored` is what the exec asked to be kept.

### Streams

**`Files`** is `rxfiles.c`: the table of slots (`file`), the C streams below them
(`fp`, one position, a mode and an end-of-file indicator each) and the contents of the
data sets. A C function that opens something gives the set of its outcomes; an
action is a call of the exec. The C library is external: which opens it refuses
(a data set in use, a member extended, a SYSOUT updated), and that it may take only
part of what is written to a member.
**`Streams`** is what the reference book says: a stream has two positions, and no
C stream, slot or reopening exists. `open` maps the one to the other; a C position
has no image in `Streams`, which is the point. `call` is the last call with its answer.
`Streams` says when NOTREADY is raised and forgotten in the words of the book, not as the
code does it: a start beyond the end raises it even if nothing is read or written there,
and only an actual read or write takes it back. The calls in which `rxfiles.c` does
otherwise are named in `Files`, as steps from the image of a state to that of the next one:
`ForgetsFailure`, `MissesEnd`, `MissesLines`, together `Departs`. `StreamsImplemented` says that
every call is one of `Streams`, or one of these; section 7 quotes the book for each.
Two things the book leaves open are left open in `Streams`: where the read position goes, and
whether NOTREADY is raised, when fewer lines are left than LINEIN asked for, but some; and
everything about the one position of a SYSOUT.

### Functions

Texts are sequences of small numbers. A call and its return are two steps of
**`Library`**; its properties compare the result with **`Documented`**, which
states what the reference book promises, without the loops of the code.

**`Lstring`** (search, cut, pad, translate, compare), **`WordFunctions`**,
**`Conversions`** (C2D, D2C, X2D, ..., with bytes of any width), **`Decimal`** (numbers by
their digits: TRUNC, FORMAT, ROUND, comparison), **`Arithmetic`** (the operators on
longs, numbers as texts and doubles), **`Dates`**, **`Template`** (the code of PARSE and
the operation codes that run it) and **`BuiltIns`** (the argument handling of
`builtin.c` in front of them) are the code.

The theorems are in **`Authorisation_proofs`**, **`Privilege_proofs`**,
**`NjeListener_proofs`**, **`EnvChain_proofs`**, **`Conditions_proofs`**,
**`Memory_proofs`** (of `Storage` and `GlobalVariables`), **`Files_proofs`** and
**`Streams_proofs`**, which extends it (section 6).

A definition whose comment says "Mutant" is a version of the next one with a
plausible bug; it is used by nothing and shows, put in its place, that a property
notices.

## 3 Runs

| Run | Question | States |
|---|---|---|
| `Privilege` | Do PRIVILEGE, the services and their cleanup keep the counter, the key and the authorisation right, beside two other holders? | 532 |
| `NjeSafety` | Two tasks, faults of every kind, calls that hang among them: is the exec ever authorised because of the subtask, a free ECB posted, a message slept on? | 443,000 |
| `NjeEnd` | Does every `__NJERECEIVE` and `__NJEDEREGISTER` return, and every exec end with the authorisation given back? Do messages pass the queue without a lock, each once and in order, while no call hangs? | 122,000 |
| `EnvChain` | Three copies at reused addresses, abends, CLISTs and another environment: does the chain implement `ExecChain`? | 26,900 |
| `Conditions` | Whatever a program does with traps, calls, INTERPRET and attentions: is a CALL ON routine called, never inside itself, and does its DELAY end? | 337,000 |
| `Program` | 2,900 programs, compiled and run: does the code do what the text means, and does every clause find the stack as its loops left it? | 292,000 |
| `Variables` | Any four instructions after six beginnings: are caches, leaves and shared variables sound, and do they implement `Scopes`? | 70,900 |
| `Storage` | Blocks of every class, two tasks, PRIVILEGE, storage refused anywhere: is a block ever listed twice, lost, or out of memory reported twice? | 492,000 |
| `Collections` | Any sequence of calls on the tree, lists, arrays, the stack with EXECIO and the global variables: is there what was put there? | 54,700 |
| `Files` | Any sequence of the stream functions on a data set of each kind: do they read, write, return and raise what `Streams` promises, but for the calls of `Departs`? | 17,300 |
| `Library` | 80 functions and operators and PARSE on every argument within the bounds: is the result what the reference book says? | 238,000 |
| `Iterate` | A statement of the repository the code does not keep; see 7. | |

`Privilege` and `NjeSafety` check in addition `KeepsAuthContract`, that the tasks
use the counter as `Authorisation` demands. What is proved of `Authorisation`
thereby holds in them.

What the properties add to the obvious:

* `CodeMeansProgram` compares two different things: code that shares temporaries,
  assigns in place and leaves loop data on the stack, and a meaning that has
  only values and variables. The families cross every kind of loop with
  every kind of way out, and operands with functions that change them.
  `StackBalanced` says where in the program it went wrong.
* `ScopesImplemented` compares after every instruction, at every level and for
  every name, what a search through tree, cache and owner finds with what the
  abstract scopes read. `VariablesSound` says why it holds: `NothingDangles` and
  `MarksGivenBack`.
* `PoolSound` says that the units of the chunks are divided among the
  blocks in use, the free lists and the rest of the newest chunk, each unit once, with
  nothing left out (`NothingLost`); `ReportedOnce` bounds the recursion of out of memory.
* `StreamsImplemented` follows every call: what it returned, which position it moved,
  whether it raised NOTREADY, whatever READ, SEEK or CHARS did to the C stream before,
  with four named kinds of calls in which the code does not do as the book says. TLC refutes
  the property when one of them is left out of `Departs`.
  `FilesSound` says that no C stream is lost or shared on the way.
* `TreeSound`, `ListsSound`, `ArraysHold`, `RecordsMoved`, `NumbersHold` and
  `GlobalsKept` each relate a structure with pointers, counts and capacities to a set,
  a sequence or a function kept beside it over the whole sequence of calls.
* `TextsAgree`, `ConversionsAgree`, `NumbersAgree`, `ParseAgrees`, `ArithmeticAgrees` and
  `DatesAgree` relate a result to its definition in `Documented`.

## 4 Bounds

* `MaxGen` bounds `authGen`. A flag is current or stale and nothing else is
  asked of it, so two generations show a stale flag, three a flag stale twice.
  The proofs have no such bound in their invariant.
* `Privilege` has the three holders there are. `NjeListener` has two (without
  PRIVILEGE, which no function of the listener calls).
* `MaxMsgs = 2` gives one message that is popped while another is added, into a
  queue that was empty or held one, which are the cases of `dqueue.c`.
* The 300 rounds of `recvLeave` and the timeouts are a choice: giving up is
  possible as soon as the loop has been entered, going on as well.
* `EnvChain` has three blocks: one above, one in the middle, one below. Two input
  stack elements: the exec's and a CLIST's. `MaxHops` = the number of blocks;
  the 256 of `rxexcom.asm` are a guard against a cycle, which `NoCycle` excludes.
* `Conditions`: `MaxLevel = 2` is the number of levels up to which the program calls
  and interprets; the routines of traps come on top, one for each condition, so
  four levels occur: an INTERPRET or a function, the routine of one trap, and
  within it that of another. `MaxSets = 3` ON and OFF clauses: two traps, and one set
  again or turned off. ERROR has no label, so that the error of a missing label
  occurs with SYNTAX trapped and without.
* `Apf` and `Sends` say whether the step was authorised before and whether the
  exec uses `__NJESEND`. `NjeEnd` has neither; see 7 and 8 for why.
* `Program`: two loops, one in the other; three levels of recursion, each with a loop
  that is open; expressions of three operators; `EXP_LOADS = 2` (32 in the code), so
  that the list of loads fills up within them. A named jump over a loop that
  only counts is left out of the passing families and is the run `Iterate`; a step of
  two signs in one recursive loop is left out likewise (7, `RecursiveBy`).
* `Variables`: one simple variable, one stem and one derived name (`A.X`, whose tail
  is the simple one), three levels, four instructions after up to two assignments:
  an exposed name dropped by the routine and looked up by its caller needs four.
* `Storage`: a unit of two bytes, three classes (sixteen in the code) so that each
  class is asked for in several sizes; chunks of six units, so that a rest of every size
  is left over; a third chunk is always refused; three blocks in use.
* `Collections`: seven keys with `BALANCE_START = 2`, so that rebuilding occurs at
  several sizes; two lists with three entries in all; three string arrays with three
  texts in all, capacities that grow by one from two and parts of at most one entry
  in the quick sort, so that growing and splitting occur at once; three records, two
  buffers, stems up to two; three buckets and three blocks of storage; numeric
  arrays of two kinds with up to three rows, matrices with up to two cells set, bytes of
  two bits. `CAREFUL` leaves out what frees a list's head (7, `HeadStays`). A behaviour
  has one kind of numeric array at a time.
* `Files`: one data set of each kind in turn, which is not there, empty, or has one or
  two characters, of which one may end a line; two characters in all, one stream open
  beside the standard ones, whose handles, like the name and a handle that is not open,
  the exec may use. Two characters give an empty line, a line and a position behind the
  end; a table that grows by four has one free slot, so that reopening makes it grow.
  `Faults` is empty; 7 says what the others do.
* `Library`: texts of up to four characters from two or three kinds (a blank, letters
  that match or do not); a hexadecimal digit has four values and a long two bytes
  (`HEX`, `BITS`, `LONG`), so that every byte pattern up to twice a long is
  enumerated; longs are -8..7 (`INTMAX`), so that each operator meets its overflow;
  decimal numbers of up to four digits with exponents on both sides of the point;
  templates of up to four parts; days on both sides of every rule of the calendar.

## 5 Fairness

`FairSpec` of `NjeListener` asks: the subtask is dispatched (`WF(Subtask)`), as MVS
does with a ready task, except while NJE38 hangs (a fault `NjeEnd` does not
have); the main task goes on with what it has begun (`WF(MainGoesOn)`), but the
exec is never forced to call anything. The ends of the counted loops
(`StartedUp`, `WaitOver`, `LeaveGivesUp`) get strong fairness: the loops of
`rxnje.c` count their rounds, so their ends come although watching the subtask
is enabled again and again. Nothing is assumed of NJE38, of messages, or of
faults.

`Conditions` asks that the interpreter reads the next clause and that a clause
comes to its end (an expression has finitely many operations). Nothing is assumed of
what the program does within its clauses or which clause follows.

The other modules state no liveness. Their operations are single steps of one
task, or a loop over a finite structure whose end the safety properties imply.

## 6 Proofs

What TLC shows on a small instance, the following modules prove for every value of
the constants. Each finds the inductive invariant its properties need; TLC has checked
that one on the instance of the run as well.

| Module | Theorem | Property | Hypothesis beside the assumptions |
|---|---|---|---|
| `Authorisation_proofs` | `CountCorrect`, `ResetCorrect`, `LeasesImplemented` | `CountIsHolders`, `ResetGivesBack`, `ImplementsLeases` | |
| `Privilege_proofs` | `ContractKept`, `AuthorisationHolds` | `KeepsAuthContract`, and thereby the three above | |
| | `PrivilegeCorrect`, `CleanupCorrect` | `PrivInv`, `NoPrivLeavesNothing` | |
| `NjeListener_proofs` | `TasksKeepContract`, `TasksAuthorised` | `KeepsAuthContract`, and thereby the three above | |
| | `ExecCorrect` | `ExecAuthorisedBriefly` | |
| | `MessagesCorrect` | `MessagesInOrder` | `~Apf`, `~Sends`, no "hang" |
| | `PostsCorrect` | `PostOnlyRegistered` | no "oom" in `Faults` |
| | `WakeupsCorrect` | `NoLostWakeup` | no "nje" in `Faults` |
| | `ListenerCorrect` | `NjeInv` | neither |
| | `EndCorrect` | `AuthGivenBack` | `~Apf`, `~Sends`, no "hang" |
| `EnvChain_proofs` | `ChainCorrect`, `EctRestored` | `ChainInv`, `EctComesBack` | `Nested` |
| | `ChainImplements` | `ImplementsExecChain` | `Nested` |
| `Conditions_proofs` | `CondCorrect`, `NoRoutineTwice`, `CallersCorrect` | `CondInv`, `NoRoutineInterruptsItself`, `CallerKeepsItsTraps` | |
| `Memory_proofs` | `PoolCorrect`, `ReportCorrect` | `PoolSound`, `ReportedOnce` | |
| | `GlobalsCorrect` | `GlobalsKept` | |
| `Files_proofs` | `FilesCorrect`, `KeepsData` | `FilesSound`, `ImplicitOpenKeeps` | `Faults = {}` |
| `Streams_proofs` | `StreamsCorrect` | `StreamsImplemented`: `Streams` or `Departs` | `Faults = {}` |

**Assumptions on constants.** Sets of holders and of blocks are finite, and the
holders that are named are different (`HoldersFinite`, `SubAndSend`,
`PrivHeldIsHolder`); `sub`, `NoBlock`, `foreign` and the like are not the values they
are told apart from (`ForeignIsNoBlock`, `CallAssumption`); the hops of `rxexcom.asm` are no
fewer than the copies (`HopsSuffice`, with 256 in the code: more than 256 copies
under one ECT are not covered); bounds are numbers; the pool's units, classes and
chunks fit each other as the macros of `bmem.c` do (`StorageAssumption`). The hash of
a name is a number (`GlobalAssumption`): `hashKey()` folds over the characters, which
is an induction over data. The table of streams grows by more slots than the standard
streams need (`FilesAssumption`, 10 in the code), and no data set is called like one of
them or has no name (`NamesAssumption`); the data sets can be counted and each is of one
kind, sequential, member, protected or SYSOUT (`KindsAssumption`). TLC evaluates each in the run of its module.

**Authorisation.** Neither `CountIsHolders` nor `SwitchedWhileHeld` is inductive
alone. A drop switches off when the count is 1; that this is the last holder needs
the count to be right; that the count stays right through a reset needs
`held[h] <= authGen`, or a flag of the future would become current. `AuthInv` is the
conjunction of the three. The lemmas are about cardinality; the refinement maps a
take that counts to `Acquire`, a drop that counts to `Release`, and a stale drop to a
stutter.

**Composition.** `Privilege` and `NjeListener` do not repeat this. Each proves that
every step of its tasks is a step of `AuthNext` or none (`KeepsAuthContract`); the
theorems about the counter then hold of it. The step lemmas of `PrivIndInv` and
`NjeIndInv` get `AuthInv'` in this way too.

**PRIVILEGE.** `PrivInv` does not say what the flag of PRIVILEGE holds, nor what the
key is in the middle of a call. `PrivIndInv` adds that the flag is set exactly while
PRIVILEGE('ON') is in effect, unless the step was authorised before, and that the key
saved is never key 0, which `keyZero` would otherwise give back as the user's.

**Listener.** `NjeIndInv` rests on one fact of the protocol: what `receiving` and
`joining` say of where the main task is, and `authHeld` of where the subtask is; a
subtask that may not call does not get past the test after its take. `PostInv` and
`WakeInv` are about the ECB; `EndInv` says why no subtask is left over. There is one
step lemma per action.

For the messages there is a second invariant, `QueueInv`, on top of it. It says what the
queue looks like in the middle of each statement of `dqueue.c`: the elements that are
linked are the messages first to last, less what the statement under way has
not written yet (`List`), and the registers of the two tasks hold what they read. That at most one of
the two statements is under way, but for a pop that finds the queue empty, is its heart:
an element is added either while the subtask holds the authorisation, and then the exec is not
in `R_njerecv` behind `recvLeave()`, or at the registration, and then it is the first. Both need
that `recvLeave()` does not give up while the flag is set, and that the flag is set when the
subtask is authorised. So `MessagesCorrect` supposes that no call hangs, that the step was
not authorised before, and that no `__NJESEND` authorises it, and section 7 has what
happens otherwise. The hypotheses are needed, TLC violates the conclusions without them:

* "oom": `recvLeave()` reads `nje_ecb`, the subtask runs out of storage in
  `queueMsg()`, and `njeSubtaskFailed()` (`src/rxnje.c:729-751`) deregisters with the
  authorisation it still has; then `recvLeave()` posts an ECB that is NJE38's again
  (section 7);
* "nje": after a fetch that NJE38 refused, the subtask goes to NJE_WAIT although a
  message is there whose post it has cleared; it is fetched with the next one;
* `Sends`, `Apf`: section 7, `recvLeave()` and the flag that is lost. A call that
  hangs is given up after 300 rounds, and its late answer may come after the end, or
  put a message into the queue while the exec takes one out.

**Chain.** `XcUnlink` and `BRXEXCOM` walk. `ChainIndInv` names the two lists they
find, the execs above another environment's value and those below it, as functions
from positions to blocks, with the words that link them (`ChainIs`). What a walk meets
hop by hop is an induction, made here by the least hop that would be wrong (`LeastNat`,
from the well-foundedness of the numbers), because the prover cannot instantiate the
induction theorems. `WithoutListed` and `Unlinked` say that taking the block out of the
middle leaves the list of the others. `Nested` is needed: without it the block of an
exec that ends stays in the part of the chain the walk does not reach (section 7).

**Refinement of the chain.** The second half of `EnvChain_proofs` reads the same two lists as the
sequence of claims (`ChainReads`: a walk ends where its list ends) and follows every
step: `RxXcPub` puts a claim on top, a reset of a published copy removes one from
anywhere, a reset of another copy and the rest of the life of a block are stutters,
another environment's value joins and leaves, a request is refused or answered.
`NewestFound` is the heart: the first hop of `BRXEXCOM` whose X'130' is on top is the
newest exec of the abstract chain of which this is true. `RefIndInv` adds to
`ChainIndInv` what stutters need: a copy is active exactly while it is published, and
the words of one that is not are 0.

**Conditions.** What the interpreter does to its levels is stated of sequences of
levels, without a state: mark, take, push, call, return, cut. `CondIndInv` has three
parts: the levels are well-formed (`Sound`); somebody ends each DELAY - the routine it
runs in, the routine that was called from it, or the call that is pending, which will
be made from the top (`Owed`); while a routine runs it is the only one of its condition,
is not pending again, and everything above runs in its DELAY (`Alone`). The last gives
`NoRoutineInterruptsItself`, whose own statement is about a step.

**Storage.** Each operator of the pool keeps `PoolOK` of the pool it is given
(`CutKeeps`, `PopKeeps`, `PushKeeps`, `RestKeeps`, `ChunkKeeps`); a step is one of their
compositions. `PoolSound` needs beside itself only types and that the rest of the
newest chunk is in no block. `PhaseInv` bounds the messages by where the copy is.

**Global variables.** `GlobalsKept` is about names, so it does not say in which bucket a
pair is. `GlobalInv` does: each pair is in the bucket of its key, no two have the same
key or the same block, the blocks are those of the pairs, of a module being collected and
of lost values, and the pairs are what the exec believes it stored (`Sound`, a statement
about a map, its storage and some other blocks, so that it can be used in the middle of
a step). `Put` says what `hashMapSet()` does in one formula for both of its cases,
a pair replaced and a pair appended; `SwapSound` is SETG: looking the old value up
before the new one takes its place is what the proof needs there.

**Streams.** `FilesSound` says that slots and C streams belong to each other one to one. In
the middle of a call they do not: a stream is closed before its slot is free, `reopen_update()`
opens the new stream in a slot of its own and moves it into the old one. `TableSound` is
therefore said of a table, its streams and a set of streams that are somebody's for the
moment, in four parts: every slot and stream is well-formed (`Typed`), a stream has one slot,
but for STDERR on STDOUT's stream (`Owned`), the standard slots hold what `RxInitFiles()` put there or
nothing (`StdPlaced`), and no data set is open twice unless both only read (`Allowed`).
Opening, closing, emptying a slot and adopting a stream each keep it (`OpenedSound`,
`CloseSound`, `EmptiedSound`, `AdoptedSound`). Everything else only moves positions and flags
and loses no character (`Kept`, which composes, `KeptThen`, and keeps `TableSound`, `KeptSound`).
The loops that read lines are recursive functions of the number of lines; that each value is
as claimed is shown by the least number for which it would not be (`SkipKeeps`,
`LineinKeeps`). `Faults = {}` is needed: section 7 has a trace for each of the three faults.
`KeepsData` is what the book calls "an implicit open never truncates", from the same
lemmas: "w" is only opened after "r" was refused, and without another job "r" is refused only
for a data set that is not there, or cannot be read at all. TLC has checked
`ImplicitOpenKeeps` on the instance of `Files`; the run leaves it out, as the theorem says more.

**Refinement of the streams.** `Streams` has for each stream two positions, and `Files` one C
position that belongs to either or to neither. `StreamsInv` is what the steps need of a
state before a call: `FilesInv`, that the data sets are a function (`DataIs`), and that exactly
the streams of data sets that are no SYSOUT can be positioned, and are not open as "w" or "a",
which cannot be read (`Seekable`).
It says nothing of the C position and of the end-of-file indicator, so the proof shows that no
function relies on where an earlier call left them. A call goes
through states that have no image in `Streams`: opened and not yet positioned, positioned
and not yet written, written and the position not yet kept. Each C function has a lemma that
says which fields of which streams it changes (`AbsOf` is the image of a state in the middle
of a call), and a lemma per call (`*Meets`) puts them together to one step of `Streams`, to
one of the calls of `Departs`, or to none. What is proved is therefore not that the code keeps the book, but
that it keeps it everywhere except in those calls, and what it does in them. Most work are the two directions in which a line is found: `linein()` looks for a line
feed from the C position on, `Streams` says a line by its number. That both reach the same
place is again shown by the least number of lines for which they would not (`SkipDoes`,
`LineAtIs`).
For writing, `reopen_update()` is the difficult case: the stream moves to another C stream,
is another kind of stream to the C library, and must be the same to the exec.

**Only model-checked.** Liveness (`CallsReturn`, `EndIsReached`, `PendingIsServed`)
is out of the prover's reach. So is what recursive definitions compute: `Compiler`,
`Machine` and `Programs`, `Template`, `Library` with its modules, `LinkedLists` (freeing
and copying fold over the entries). `VariablesSound` has no theorem because it is not true
without the bounds of its run: section 7 has the nine instructions on three levels that break
it. `ScopesImplemented` rests on it. `TreeSound`, `ArraysHold`, `RecordsMoved` and
`NumbersHold` fold over keys, texts, records or bits; the records an EXECIO is due to move
are a `SelectSeq`, of which the prover knows no definition.

## 7 Where code and documentation disagree

One run expects a violation:

* `Iterate`. `docs/books/ref/lang-instr.typ:167-168`: ITERATE with a name goes on with
  the next pass of that loop. `C_iterate()` and `C_leave()` (`src/compile.c:1040`, 1081)
  pop the variables of the loops they pass only when those have a control variable.
  The count of a `DO 3` in between stays on the stack, and the outer loop, which
  finds its limit by the distance from the top, takes that count for it.

Each of the following is shown by TLC with the `.cfg` of a run, changed as the bold words
say: the constants given, and the property in the place of those of the run.

* **`MCNjeEnd`, `Faults = {"nje"}`, `TakeReturnsHeld`.** The comment at `src/rxnje.c:651` says
  `subtaskTake()` returns 0 with the authorisation held. The drop at the end of `recvLeave()` (252) may come
  between the take (659) and the second test (662), and a new `__NJERECEIVE` may
  set `receiving` again in time: the test passes, the flag is gone. The next NJERLY call
  is unauthorised. When an `__NJESEND` is under way it works by accident,
  and the subtask can then wait in NJE_WAIT without the flag, where nobody wakes it.
* **The same with `AbendIsReal`.** `inc/rxnje.h:20` says -2 means an
  abend. `watchSubtask()` (`src/rxnje.c:225`) asks whether the subtask has finished before it
  asks whether it has ended; one that finishes in between is reported as abended.
* **The same with `MsgEventHasData`.** `docs/books/ref/ext-nje.typ:135`: #MSG has
  a text. The first messages are queued after the authorisation is given back, so
  `recvLeave()` does not wait for them; `DQAdd2Head` (`src/dqueue.c:36`) counts before it
  links, and the exec can see the count without the element.
* **`MCNjeSafety`, `MessagesInOrder`;** also with `Faults = {"hang"}` and `Sends = FALSE`.
  `ext-nje.typ:197`: #MSG is a message that arrived, with its text. After a call that NJE38 did
  not complete in time, `recvLeave()` gives up (`src/rxnje.c:244`), and when the call comes
  back, the subtask adds its message while the exec pops another. `DQDel` and `DQAdd2Head` both
  load the count and store it (`src/dqueue.c:36`, 76-79): the count stays one too high for
  good, and a later `__NJERECEIVE` returns #MSG without a text, at once, whatever its timeout.
* **`MCNjeEnd`, `Apf = TRUE` or `Sends = TRUE`, no faults, `MessagesInOrder`.** The same
  without any fault. In a step that was authorised before, the flag that `recvLeave()` waits
  for is always 0; after an `__NJESEND` the subtask may be authorised by its flag alone and
  have lost its own (the first of this list).
* **`MCNjeEnd`, `Apf = TRUE`, no faults, `CHECK_DEADLOCK FALSE`, `DeregisterReturns`.** The comment at `src/rxnje.c:452`: the
  subtask is parked outside of `__NJERECEIVE`. In a step that was authorised before,
  its flag is always 0, `recvLeave()` (246) does not wake it, and `__NJEDEREGISTER`
  waits for ever.
* **`MCEnvChain`, `Nested = FALSE`, `PredecessorRuns`.** `docs/books/guide/ug-restrict.typ:102`: at its
  end the block leaves the chain. It does not when another environment's value is in
  ECTENVBK at that moment (`src/rxvarcom.c:167`); the word of the copy above then leads
  to freed storage.
* **`MCConditions`, `Used` and `Labels` = {"ERROR", "HALT"}, `MaxSets = 2`, `DelayEnds`.** `docs/books/ref/lang-instr.typ:64-69`: the routine of
  CALL ON is called after the clause, afterwards the trap is on again. `TrapPend` has
  one place, but `RxSignalCondition()` marks the DELAY before it looks
  (`src/error.c:116-117`). Of two conditions before one OP_NEWCLAUSE the second is never
  called and stays in DELAY: with CALL ON ERROR and CALL ON HALT, a PA1 during a failing
  command makes the exec ignore every later PA1. The other way into a DELAY without end
  needs one condition: raised in an argument of an internal function, it is called inside
  the function, and the return of its routine ends the DELAY of the function's level only.
  `nested` records both; `DelayEndsUnlessNested` says there is no third.
* **`MCConditions`, `Used` and `Labels` = {"NOTREADY"}, `MaxSets = 1`, `TakenTrapIsOff`.** `src/error.c:125` and
  `lang-instr.typ:331-332`: a trap taken by SIGNAL is off. Inside an INTERPRET the bit is
  cleared in the INTERPRET's level, which the jump leaves. An error handler that meets
  the condition again is entered again.
* **`MCProgram`, `Programs <- RecursiveBy`, `CodeMeansProgram`.** `lang-instr.typ:99-102`: BY is the step of its
  loop. OP_BYINIT (`src/interpre.c:1393`) writes the comparison for the sign of the step into
  the code, which the levels of a recursion share: a routine that calls itself with a
  step of the other sign changes the loop that called it. BY without TO patches
  position 0 of the code (`src/compile.c:753`).
* **`MCVariables`, `Lists <- MCElement`, `Begun <- MCStemSet`, `MaxOps = 5`, `EntryChangesNothing`.** `docs/books/ref/lang-vars.typ:24`,
  `lang-instr.typ:250-253`: after `A. = 1` every A.X is 1, and EXPOSE shares variables.
  `PROCEDURE EXPOSE A.X` makes the element with no value (`src/variable.c:675`), so that
  A.X is "A.X" from then on, for the caller too.
* **`MCVariables`, `Lists <- MCElement`, `Begun <- MCElementSet`, `Assigned = {}`, `MaxLevel = 3`, `MaxOps = 11`, `NothingDangles`.**
  The comment at `src/variable.c:681`, `to who it belongs`: the mark of an exposed
  variable keeps a routine from freeing what is not its own. DROP of the stem in an
  INTERPRET resets an exposed element and leaves its mark (`src/variable.c:76-92`); the
  next routine that exposes it takes the old mark for its own, the return from a second
  one below it clears it, and DROP or the return in the first frees the element that
  the caller's stem still holds.
* **`MCCollections`, `CAREFUL = FALSE`, `HeadStays`.** `docs/books/ref/ext-array.typ:1558`: LLDEL deletes
  the current entry. After LLGET PREVIOUS from the first entry the current entry is the
  head of the list (`src/rxll.c:609`), and LLDEL frees it.
* **`MCFiles`, `Faults = {"stdin"}`, `FilesSound`.** The comments at `src/rxfiles.c:329-331`
  and 340: a handle stays valid, the stream at least readable. LINEOUT to handle 0
  closes STDIN to reopen it for update, which no name of a data set can do: the slot
  stays in use without a C stream, and the next read of it uses NULL.
* **`MCFiles`, `Faults = {"stdout"}`, `FilesSound`.** After CLOSE of STDOUT, STDERR on
  the same C stream (SYSTSPRT, `src/rxfiles.c:319`) writes to a stream that is closed,
  and its own CLOSE closes it again, as the slot it compares with has no stream any more.
* **`MCFiles`, `Faults = {"busy"}`, `ImplicitOpenKeeps`.** The comment at `src/rxfiles.c:298`: an implicit open never truncates.
  When another job holds the data set while "r" is tried and lets go of it, the "w+"
  that follows (311) empties it.

* **`MCFiles`, `[][P!Next]_(P!vars)`,** or `Departs` with one disjunct less.
  `docs/books/ref/lang-builtin.typ:1589-1593`: NOTREADY "is raised when CHARIN returns fewer
  characters than asked for, when LINEIN finds no more lines, when a start position lies beyond
  the end, ..."; 1599-1602: STREAM "then reports NOTREADY until the next actual read or write".
  Four kinds of calls do not do so:
  - *CHARIN of length 0 with a start behind the end* sets the position and raises nothing
    (`src/rxfiles.c:776`, 799-802 asks for `length > 0`; `MissesEnd`).
  - *CHAROUT with a start behind the end* takes the position as it is
    (`src/rxfiles.c:816-819`). Without a text nothing is raised, and a stream opened to append
    writes the text at its end and raises nothing either; with a text on another stream the
    position is refused when it is to be written at, which raises it (`MissesEnd`).
  - *LINES, and CHARIN or LINEIN of length 0*, go through `prep_read()`, which takes
    NOTREADY back (`src/rxfiles.c:383`) although nothing is read (`ForgetsFailure`).
  - *LINEIN of two lines where none is left* returns a line end, which is not the empty string
    that line 801 of `src/rxfiles.c` asks for, and raises nothing (`MissesLines`).

* **`MCNjeEnd`, `Faults = {"oom"}`, `PostOnlyRegistered`.** The comment at
  `src/rxnje.c:738`: the ECB is gone with the registration, `__NJERECEIVE` must not post it.
  A subtask that runs out of storage clears `nje_ecb` and deregisters, but `recvLeave()`
  (245) may have read the address before, and posts it then. Met while proving `NjeInv`, which has "oom" among its hypotheses.

Seen while modelling, without a configuration; the guard or abstraction that keeps it
out of the runs is named where there is one.

* ON and OFF clauses in a string of INTERPRET have no effect after it
  (`lang-instr.typ:157`), and SIGNAL out of a string leaves its level standing
  (`lang-instr.typ:327-328`).
* A second SYNTAX after a caught out of memory ends the exec with the fixed text:
  `outOfMemory` is never reset (`src/bmem.c`).
* Numbers: `_Lisnum()` (`lstring/lstring.c:482-488`) takes blanks within a number, '1 2' is
  12 (`docs/books/ref/lang-terms.typ:45-50`); ROUND rounds twice, ROUND(0.4996,0) is 1
  (`ext-kernel.typ:616-618`; the run has at most three decimals more than are asked for);
  FORMAT('0.9996') under DIGITS 3 is "1"; MAX(,3) reads an omitted argument, MAX(123.6)
  under DIGITS 3 is 123 (`src/builtin.c:512-536`); the lowest long `//` -1 ends in a divide
  exception (`lstring/mod.c:28`; `DividesOut`); D2C(-129) is '7F'x; D2X with a length over 8
  pads with blanks.
* Texts: DELSTR(s,n,0) deletes the rest (`lstring/delstr.c:39`, `lang-builtin.typ:662`);
  INSERT and OVERLAY of length 0 behind the end do not pad; SOUNDEX keeps a first
  character that is no letter.
* Dates: TIME('E') can show a second as 1000000 microseconds (`lstring/time.c:55`);
  DATE accepts days that do not exist, and the TIME format leaves the range of a long
  in 2038 (`InSeconds`); TIME('L') reads the clock twice, a second apart at worst.
* Collections: `ICREATE(1,'S')` writes one element behind the array
  (`src/rxiarray.c:144-150`; guard of `Create`); ISET two places behind the count
  leaves what the storage held in between (guarded); SETG and DYNREXX ignore a refused
  pair, and the value or the module is lost (`SetgLost`; `src/hostenv.c:346`, `DynrexxLost`).
* Streams: WRITE to a stream opened to read returns the length although nothing is
  written (`src/rxfiles.c:911-912`); LINES leaves the end-of-file
  indicator that STREAM reports (`Streams` promises nothing of it); a call without a name uses handle 0 or 1 even when
  they are closed (guarded: calls name their stream); STREAM(handle,'C','READ') closes the
  stream and then fails, as a handle is no name to open.
* Variables: a literal 'A.I' in quotes in front of the symbol A.I makes the scanner
  take the symbol for one without a tail (`src/compile.c:367-436`,
  `src/nextsymb.c:609-619`; `lang-vars.typ:8-16`).

Quirks that the models keep as they are, because the language leaves them open or the
book is silent. *Variables* (marked in `Scopes`): EXPOSE or DROP of a stem never set gives
it the value "A."; EXPOSE A.1 A. shares only the element; DROP of an element leaves it
with its name for a value; DROP of a stem with exposed elements leaves these to the
caller; DROP (list) of an exposed element gives it the name before substitution;
VALUE('A.',v) does not assign the elements. *Arrays*: SSWAP may put an unset entry
below the count; SPASTE of an array into itself pastes ''; SINTERSECT and SDIFFERENCE ask
for sorted arrays. *EXECIO* looks at the top buffer only; START counts for DISKR STEM
only; DISKW from an empty stack returns 8 and leaves the file open after it.

## 8 Not modelled

* *Privilege, tasks.* `keyZero()` failing (MODESET has no such answer in problem state
  after SVC 244); an abend inside the cleanup, or between `mtxlock` and `mtxunlk` of
  `authMtx`; within a task, steps that touch no shared storage; publishing and unlinking
  in `EnvChain` are one step each, so copies that are dispatched in parallel under one
  ECT are not covered (two loads and stores that lose a block would need that); a BREXX
  without an ECT (batch), where nothing is published; `Sends = TRUE` in the liveness run:
  `__NJEDEREGISTER` can then hang by the lost take described in 7, the same defect seen
  from its other end; `__NJEINIT` and the queries of the node, the SHVBLOCK requests
  (`XcFetch`, `XcStore`, ...).
* *Storage.* The debugging versions (`mem_malloc`, ...), the probe of `privAlloc()`
  (`src/bmem.c:203-216`), the reserve itself (it is only given back) and the contents of
  blocks.
* *Compiler and interpreter.* The scanner and the line table, ADDRESS and the
  instructions that only hand their operands on, NUMERIC, TRACE with its interactive
  level, load modules called as functions; `Conditions` and `Machine` are not composed:
  in the first a clause may do anything, in the second there are no traps.
* *Variables.* Named pools, `RxVar2Str` and `RxScanVarTree`, tails of several parts.
* *Collections.* `rxmatrix.c` (doubles), reading and writing data sets, I2S and
  S2HASH, ISET and IGET of a matrix by a plain index; LLDEL at the end of a list,
  unlinking from an empty one and LLCOPY onto itself; SQSORT with a chunk of 0 (it does
  not end); records that cannot be written (RC 20); `hashMapDelete` has no caller.
* *Streams.* How a name becomes a data set or a DD (`rxdsn.c`), FLUSH, line numbers
  (kept, read nowhere), the binary modes, records (a position is a byte), two execs.
* *Functions.* Doubles are exact fractions here: the last digits of a C double
  (`lstring/fprange.c`) are left out, so are ties of `printf`; CEIL and FLOOR beyond a long
  (undefined in C); the mathematical functions, RANDOM, SOUNDEX, HASHVALUE, encryption;
  delimiters and abbreviated format names of dates.
* *The rest.* `rxdsn.c`, `rxtcp.c`, `rxfss.c` with `fss/`, `rxvsamio.c`, `rxtso.c`, `dsio.c`
  and the assembler programs hand a call to a service of MVS, TSO, VSAM or TCP/IP and
  its answer to the exec; what could go wrong lies in services that are not in the
  repository. `regex/` is vendored, `asm/vtoc*.asm` contributed and not part of the
  interpreter.

## 9 Plan

What is left to prove:

1. `DataStack`: `RecordsMoved`, with functions of its own in the place of `SelectSeq` and `FoldLeft`,
   whose values can then be found by the least number, as those of `Files` are;
2. `Variables`: a version of `VariablesSound` that holds without bounds. The mark of an exposed
   element would have to be known to be that of a level that still stands;
3. `BinTree`: that a leaf hung keeps the order of the keys, as far as the links can be
   reasoned about without a recursive height.
