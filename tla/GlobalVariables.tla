--------------------------- MODULE GlobalVariables ---------------------------
(***************************************************************************)
(* The global variables of SETG and GETG: a hash map from names to values  *)
(* in storage, which also holds the execs of ADDRESS DYNREXX.              *)
(***************************************************************************)
EXTENDS Integers, Sequences, FiniteSets, Functions, SequencesExt

CONSTANTS MAPSIZE,      \* buckets (INITIAL_MAP_SIZE)
          NAMES,        \* names an exec uses, tuples of character codes
          LINES,        \* values, and lines of a module
          MAXBLOCKS     \* bound: blocks of storage

VARIABLES globals,      \* [map, heap, code, lost]: buckets, blocks in storage, the
                        \* module being collected, values no bucket took
          stored        \* what an exec believes it stored: name -> value

NULL == 0
Extended(f, x, value) == [y \in DOMAIN f \union {x} |-> IF y = x THEN value ELSE f[y]]
Closed == << >>         \* the map, freed
CaseOf == 64            \* between a small letter and its capital (EBCDIC)
Lupper(name) == [i \in DOMAIN name |-> IF name[i] < 193 /\ name[i] >= 129 THEN name[i] + CaseOf ELSE name[i]]
UNDERLINE == 109

----------------------------------------------------------------------------
(* The hash map.                                                           *)

\* The sum of the digits, taken once.
digitalRoot[n \in Nat] == (n % 10) + (IF n < 10 THEN 0 ELSE digitalRoot[n \div 10])
Rooted(n) == n \div digitalRoot[n]
Multiplied(n) == n * digitalRoot[n]
Added(n) == n + digitalRoot[n]
hashKey(key) ==
  LET sum == FoldLeft(LAMBDA s, c : s + c, 0, key)
  IN  IF sum = 0 THEN 0 ELSE Rooted(Added(Multiplied(sum)))

ASSUME GlobalAssumption ==
  /\ MAPSIZE \in Nat \ {0} /\ MAXBLOCKS \in Nat
  /\ \A name \in NAMES : hashKey(Lupper(name)) \in Nat

hashMapNew == [b \in 0 .. MAPSIZE - 1 |-> << >>]
getBucket(key) == hashKey(key) % MAPSIZE
listSearch(list, key) == SelectInSeq(list, LAMBDA pair : pair.key = key)
listPush(list, pair) == Append(list, pair)
hashMapGet(map, key) ==
  LET list == map[getBucket(key)]
      at == listSearch(list, key)
  IN  IF at = 0 THEN NULL ELSE list[at].data
hashMapHas(map, key) == listSearch(map[getBucket(key)], key) # 0
hashMapSet(map, key, data) ==
  [map EXCEPT ![getBucket(key)] =
     LET at == listSearch(@, key)
     IN  IF at # 0 THEN [@ EXCEPT ![at].data = data]
         ELSE listPush(@, [key |-> key, data |-> data])]
Kept(map) == IF map = Closed THEN {}
             ELSE UNION {{map[b][i].data : i \in DOMAIN map[b]} : b \in DOMAIN map}

----------------------------------------------------------------------------
(* SETG, GETG and DYNREXX.                                                 *)

Fresh == CHOOSE b \in 1 .. MAXBLOCKS : b \notin DOMAIN globals.heap
LPMALLOC(heap, b, text) == Extended(heap, b, text)
LPFREE(heap, b) == IF b = NULL THEN heap ELSE Restrict(heap, DOMAIN heap \ {b})

\* The value replaced is looked up afterwards: the new one is freed.
SwappedLate(g, key, b) ==
  LET map == hashMapSet(g.map, key, b)
  IN  [g EXCEPT !.map = map, !.heap = LPFREE(@, hashMapGet(map, key))]
\* The value replaced is looked up before the new one takes its place.
Swapped(g, key, b) ==
  LET old == hashMapGet(g.map, key)
  IN  [g EXCEPT !.map = hashMapSet(@, key, b),
                !.heap = LPFREE(@, IF old = b THEN NULL ELSE old)]
R_setg(g, name, text) ==
  Swapped([g EXCEPT !.heap = LPMALLOC(@, Fresh, text)], Lupper(name), Fresh)
\* No storage for the pair: SETG does not look at the return code of the map.
R_setgLost(g, text) ==
  [g EXCEPT !.heap = LPMALLOC(@, Fresh, text), !.lost = @ \union {Fresh}]
R_getg(g, name) ==
  LET data == hashMapGet(g.map, Lupper(name))
  IN  IF data = NULL THEN << >> ELSE g.heap[data]
RxLoadRX(g, name) == hashMapHas(g.map, Lupper(name)) /\ R_getg(g, name) # << >>

\* A line of ADDRESS DYNREXX: it may open a module, end it, or both; an end
\* names the module.
Opened(g, line) ==
  IF ~ line.open THEN g
  ELSE LET b == IF g.code = NULL THEN Fresh ELSE g.code
       IN  [g EXCEPT !.heap = LPMALLOC(LPFREE(@, g.code), b, << >>), !.code = b]
Collected(g, line) == [g EXCEPT !.heap[g.code] = Append(@, line.text)]
ValidName(name) ==
  /\ name # << >>
  /\ \A i \in 1 .. Len(name) : i <= 2 => name[i] = UNDERLINE
SegmentEnd(g, line) ==
  [IF ValidName(line.as) THEN Swapped(g, Lupper(line.as), g.code)
   ELSE [g EXCEPT !.heap = LPFREE(@, g.code)] EXCEPT !.code = NULL]
\* No storage for the pair: neither does DYNREXX, and the module is lost.
SegmentEndLost(g) == [g EXCEPT !.lost = @ \union {g.code}, !.code = NULL]
DYNREXX(g, line) ==
  LET opened == Opened(g, line)
  IN  IF opened.code = NULL THEN g
      ELSE IF line.close THEN SegmentEnd(Collected(opened, line), line)
      ELSE Collected(opened, line)

----------------------------------------------------------------------------
(* The steps.                                                              *)

GlobalInit ==
  /\ globals = [map |-> hashMapNew, heap |-> << >>, code |-> NULL, lost |-> {}]
  /\ stored = << >>

Room == globals.map # Closed /\ Cardinality(DOMAIN globals.heap) < MAXBLOCKS
Values == {<<x>> : x \in LINES}
Setg(name, text) ==
  /\ globals' = R_setg(globals, name, text)
  /\ stored' = Extended(stored, Lupper(name), text)
SetgLost(name, text) ==
  /\ ~ hashMapHas(globals.map, Lupper(name))
  /\ globals' = R_setgLost(globals, text) /\ UNCHANGED stored

\* What an exec believes of a module is its lines from the last opening one.
LinesOf(line) ==
  (IF globals.code = NULL \/ line.open THEN << >> ELSE globals.heap[globals.code]) \o <<line.text>>
TwoLines == globals.code # NULL => Len(globals.heap[globals.code]) < 2
Dynrexx(line) ==
  /\ (line.open \/ TwoLines)
  /\ globals' = DYNREXX(globals, line)
  /\ stored' = IF line.close /\ ValidName(line.as) /\ (line.open \/ globals.code # NULL)
               THEN Extended(stored, Lupper(line.as), LinesOf(line))
               ELSE stored

DynrexxLost(line) ==
  LET opened == Opened(globals, line)
  IN  /\ line.open \/ TwoLines
      /\ line.close /\ ValidName(line.as) /\ opened.code # NULL
      /\ ~ hashMapHas(globals.map, Lupper(line.as))
      /\ globals' = SegmentEndLost(Collected(opened, line)) /\ UNCHANGED stored

\* The end of a copy, and the next one.
hashMapFree ==
  /\ globals.map # Closed
  /\ globals' = [globals EXCEPT !.map = Closed, !.heap = Restrict(@, DOMAIN @ \ Kept(globals.map))]
  /\ stored' = << >>
NextCopy ==
  /\ globals.map = Closed
  /\ globals' = [map |-> hashMapNew, heap |-> << >>, code |-> NULL, lost |-> {}]
  /\ UNCHANGED stored

GlobalNext ==
  \/ Room /\ \E name \in NAMES, text \in Values : Setg(name, text) \/ SetgLost(name, text)
  \/ Room /\ \E open, close \in BOOLEAN, x \in LINES, as \in NAMES \union {<< >>} :
       \E line \in {[open |-> open, close |-> close, text |-> x, as |-> IF close THEN as ELSE << >>]} :
         Dynrexx(line) \/ DynrexxLost(line)
  \/ hashMapFree
  \/ NextCopy

GlobalSpec == GlobalInit /\ [][GlobalNext]_<<globals, stored>>

\* A, a, AB and BA, which share a bucket, and a name for DYNREXX.
MCNames == {<<193>>, <<129>>, <<193, 194>>, <<194, 193>>, <<109, 109, 129>>}

----------------------------------------------------------------------------

\* After any sequence of SETG, ADDRESS DYNREXX and runs (hashmap.c:112-143,
\* rxmvs.c:496-535, hostenv.c:300-358): GETG and the call of a stored exec
\* get what was last stored under the name in any case, names that share a
\* bucket keep apart, every value has a block of its own that is not freed,
\* and no block stays behind but those no pair was found for and a module
\* still being collected.
GlobalsKept ==
  LET Due(name) == IF Lupper(name) \in DOMAIN stored THEN stored[Lupper(name)] ELSE << >>
      pairs == UNION {{<<b, i>> : i \in DOMAIN globals.map[b]} : b \in DOMAIN globals.map}
  IN  /\ DOMAIN globals.heap = Kept(globals.map) \union ({globals.code} \ {NULL}) \union globals.lost
      /\ globals.map # Closed =>
           \A name \in NAMES : /\ R_getg(globals, name) = Due(name)
                               /\ RxLoadRX(globals, name) = (Lupper(name) \in DOMAIN stored)
      /\ Cardinality(Kept(globals.map)) = Cardinality(pairs)
=============================================================================
