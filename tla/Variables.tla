----------------------------- MODULE Variables -----------------------------
(***************************************************************************)
(* Variables of an exec (src/variable.c and the instructions of            *)
(* src/interpre.c that use it): a scope per PROCEDURE, variables           *)
(* shared by PROCEDURE EXPOSE, stems with their elements, DROP, variable   *)
(* pools, and the cache that remembers with each literal of the program    *)
(* the leaf it was found in last.                                          *)
(*                                                                         *)
(* A text is a sequence of atoms, so that a derived name is a              *)
(* concatenation: A.X with X = 1 is <<"A.", "1">>.  A scope is a function  *)
(* from names to variables here; the tree behind it is BinTree.tla.        *)
(***************************************************************************)
EXTENDS Integers, Sequences, FiniteSets, FiniteSetsExt, SequencesExt, TLC

CONSTANTS
  Assigned,      \* the assignments of a program: pairs of a symbol and a value
  Begun,         \* sequences of them the program begins with
  Lists,         \* what PROCEDURE EXPOSE may be followed by
  MaxLevel,      \* bound: nested calls
  MaxOps         \* bound: instructions of the program

X == <<"X">>
A == <<"A.">>
Simple == {X, A}                                  \* literals without a tail
Compound == {<<"A.", "X">>}                       \* literals with one: A.X
Literals == Simple \union Compound

NO_CACHE == -1
NO_PROC == -1
Null == <<>>           \* LISNULL: a variable that holds nothing yet
None == <<>>              \* no variable
NoLeaf == [id |-> NO_CACHE, tree |-> 0]

VARIABLES
  heap,      \* the variables: value, stem (elements by index), exposed
  trees,     \* trees[l]: the scope made for level l, names to variables
  levels,    \* the levels of the program: id, and the scope each one uses
  cache,     \* the IdentInfo of each simple literal: id and leaf
  ops        \* how many instructions have run

vars == <<heap, trees, levels, cache, ops>>

\* What the functions of variable.c work on; id is Rx_id, top is _rx_proc.
State == [heap |-> heap, trees |-> trees, cache |-> cache,
          id |-> Last(levels).id, top |-> Len(levels) - 1,
          cur |-> Last(levels).scope]

Empty == [n \in {} |-> 0]
Variable(value) == [value |-> value, stem |-> Empty, exposed |-> NO_PROC]

\* MALLOC: an address nobody has, told by what it is made for.
Fresh(s, tree, name) ==
  <<tree, name, CHOOSE k \in 0 .. Cardinality(DOMAIN s.heap) :
                  /\ <<tree, name, k>> \notin DOMAIN s.heap
                  /\ \A j \in 0 .. k - 1 : <<tree, name, j>> \in DOMAIN s.heap>>
Malloc(s, v, var) == [s EXCEPT !.heap = (v :> var) @@ @]

\* ++_procidcnt: a number no level and no literal has; the least will do.
NewId ==
  LET used == {levels[l].id : l \in DOMAIN levels} \union {cache[l].id : l \in Simple}
  IN  CHOOSE i \in 0 .. Cardinality(used) : i \notin used /\ \A j \in 0 .. i - 1 : j \in used

\* BinAdd() to a scope or to the elements of a stem.
BinAdd(s, tree, name, v) == [s EXCEPT !.trees[tree] = (name :> v) @@ @]
AddElement(s, stem, idx, v) ==
  [s EXCEPT !.heap[stem].stem = (idx :> v) @@ @]

SetValue(s, v, value) == [s EXCEPT !.heap[v].value = value]

\* A cached leaf counts while the level it was found in runs.
Hit(s, lit) == s.id # NO_CACHE /\ s.cache[lit].id = s.id
Cached(s, lit) == s.trees[s.cache[lit].tree][lit]
Remember(s, lit, tree) ==
  [s EXCEPT !.cache[lit] = IF s.id = NO_CACHE THEN NoLeaf ELSE [id |-> s.id, tree |-> tree]]
NoCache(s, lit) == [s EXCEPT !.cache[lit] = NoLeaf]

\* Search of a tree; a leaf found is remembered with the literal.
Search(s, tree, lit) ==
  IF lit \in DOMAIN s.trees[tree] THEN Remember(s, lit, tree) ELSE s
Found(s, tree, lit) ==
  IF lit \in DOMAIN s.trees[tree] THEN s.trees[tree][lit] ELSE None

\* The stem of a compound symbol and what is known of it afterwards.
StemSearch(s, tree, lit) ==
  IF Hit(s, lit) THEN s
  ELSE IF lit \in DOMAIN s.trees[tree] THEN Remember(s, lit, tree) ELSE NoCache(s, lit)
StemFound(s, tree, lit) == IF Hit(s, lit) THEN Cached(s, lit) ELSE Found(s, tree, lit)

\* The tail: a constant is itself, a variable stands for its value in the
\* scope of the level that runs, an unset one for its name.
TailSearch(s, part) ==
  IF part \notin Simple \/ Hit(s, part) THEN s ELSE Search(s, s.cur, part)
TailValue(s, part) ==
  IF part \notin Simple THEN part
  ELSE IF Hit(s, part) THEN s.heap[Cached(s, part)].value
  ELSE IF Found(s, s.cur, part) # None THEN s.heap[Found(s, s.cur, part)].value
  ELSE part

\* RxVarFind(): the variable, its stem when there is only that, or nothing.
Result(s, found, stem, name, elementOf) ==
  [s |-> s, found |-> found, var |-> elementOf, stem |-> stem, name |-> name,
   notfound |-> IF stem # None /\ s.heap[stem].value # Null
                  THEN s.heap[stem].value ELSE name]

Element(s, stem, name) ==
  IF stem # None /\ Tail(name) \in DOMAIN s.heap[stem].stem
    THEN s.heap[stem].stem[Tail(name)] ELSE None

RxVarFind(s, tree, lit) ==
  IF lit \in Simple
    THEN Result(Search(s, tree, lit), Found(s, tree, lit) # None, None, lit, Found(s, tree, lit))
    ELSE LET stem == StemFound(s, tree, <<lit[1]>>)
             s1 == StemSearch(s, tree, <<lit[1]>>)
             name == <<lit[1]>> \o TailValue(s1, Tail(lit))
             s2 == TailSearch(s1, Tail(lit))
             var == Element(s2, stem, name)
         IN  Result(s2, var # None, stem, name, var)

\* VarFindName(): by the text of a name, past the cache, in one scope.
VarFindName(s, tree, name) ==
  IF Len(name) = 1
    THEN Result(s, Found(s, tree, name) # None, None, name, Found(s, tree, name))
    ELSE LET stem == Found(s, tree, <<name[1]>>)
             part == Found(s, tree, Tail(name))
             full == <<name[1]>> \o IF part # None THEN s.heap[part].value ELSE Tail(name)
             var == Element(s, stem, full)
         IN  Result(s, var # None, stem, full, var)

\* RxVarAdd(): a new variable; an element starts with the value of its stem.
AddedStem(s, tree, name, stem) ==
  LET v == Fresh(s, tree, name)
  IN  IF stem # None THEN s ELSE BinAdd(Malloc(s, v, Variable(Null)), tree, name, v)

RxVarAdd(s, tree, f) ==
  LET v == Fresh(s, tree, f.name)
      s1 == IF Len(f.name) = 1 THEN s ELSE AddedStem(s, tree, <<f.name[1]>>, f.stem)
      stem == s1.trees[tree][<<f.name[1]>>]
  IN  [var |-> v,
       s |-> IF Len(f.name) = 1 THEN BinAdd(Malloc(s, v, Variable(Null)), tree, f.name, v)
             ELSE AddElement(Malloc(s1, v, Variable(s1.heap[stem].value)),
                             stem, Tail(f.name), v)]

\* The literal of a simple variable just added knows its leaf.
RememberNew(s, tree, lit) == IF lit \in Simple THEN Remember(s, lit, tree) ELSE s

\* RxVarFree(): the owner's level is told when a borrowed one goes away.
FreeElementTooLate(s, v) ==   \* mutant: as if the level had been left before
  IF s.heap[v].exposed = NO_PROC
    THEN [s EXCEPT !.heap = [w \in DOMAIN @ \ {v} |-> @[w]]]
  ELSE IF s.heap[v].exposed = s.top THEN [s EXCEPT !.heap[v].exposed = NO_PROC]
  ELSE s

FreeElement(s, v) ==
  IF s.heap[v].exposed = NO_PROC
    THEN [s EXCEPT !.heap = [w \in DOMAIN @ \ {v} |-> @[w]]]
  ELSE IF s.heap[v].exposed = s.top - 1 THEN [s EXCEPT !.heap[v].exposed = NO_PROC]
  ELSE s

ElementsOf(s, v) == {s.heap[v].stem[i] : i \in DOMAIN s.heap[v].stem}

RxScopeFreeElements(s, v) ==
  LET gone == FoldSet(LAMBDA w, t : FreeElement(t, w), s, ElementsOf(s, v))
  IN  [gone EXCEPT !.heap[v].stem = Empty]

RxVarFree(s, v) ==
  IF s.heap[v].exposed = NO_PROC THEN FreeElement(RxScopeFreeElements(s, v), v)
  ELSE FreeElement(s, v)

RxScopeFree(s, tree) ==
  LET gone == FoldSet(LAMBDA v, t : RxVarFree(t, v), s,
                      {s.trees[tree][n] : n \in DOMAIN s.trees[tree]})
  IN  [gone EXCEPT !.trees = [l \in DOMAIN @ \ {tree} |-> @[l]]]

BinDel(s, tree, name) ==
  [RxVarFree(s, s.trees[tree][name]) EXCEPT
     !.trees[tree] = [n \in DOMAIN @ \ {name} |-> @[n]]]

\* RxVarDel() and OP_DROP: a variable of one's own goes away; a borrowed one,
\* and every element, is set to its name.
RxVarDel(s, tree, lit, f) ==
  IF lit \notin Simple THEN SetValue(s, f.var, f.name)
  ELSE IF s.heap[f.var].exposed >= 0
    THEN RxScopeFreeElements(
           IF s.heap[f.var].value = Null THEN s ELSE SetValue(s, f.var, lit), f.var)
  ELSE NoCache(BinDel(s, tree, lit), lit)

\* RxVarDelName(): DROP of a list of names.  A borrowed element gets the name
\* as it was written.
RxVarDelNameStale(s, tree, name, f) ==   \* mutant: the literal keeps its leaf
  IF s.heap[f.var].exposed >= 0
    THEN RxScopeFreeElements(SetValue(s, f.var, name), f.var)
  ELSE IF Len(name) > 1 THEN SetValue(s, f.var, f.name)
  ELSE BinDel(s, tree, name)

RxVarDelName(s, tree, name, f) ==
  IF s.heap[f.var].exposed >= 0
    THEN RxScopeFreeElements(SetValue(s, f.var, name), f.var)
  ELSE IF Len(name) > 1 THEN SetValue(s, f.var, f.name)
  ELSE NoCache(BinDel(s, tree, name), name)

\* RxVarExpose(): from the scope of the level below into the new one.
ExposedHere(s, lit) ==
  LET f == RxVarFind(s, s.cur, lit)
  IN  f.found \/ (f.stem # None /\ s.heap[f.stem].exposed # NO_PROC)

AsOld(s) == [s EXCEPT !.id = NO_CACHE]

Exposable(s, old, lit) ==
  LET f == RxVarFind(AsOld(s), old, lit)
      added == RxVarAdd(f.s, old, f)
      found == IF f.found THEN [s |-> f.s, var |-> f.var]
               ELSE [s |-> SetValue(added.s, added.var, f.name), var |-> added.var]
  IN  [s |-> [found.s EXCEPT !.id = s.id,
                !.heap[found.var].exposed = IF @ = NO_PROC THEN s.top - 1 ELSE @],
       var |-> found.var, name |-> f.name]

Linked(s, lit, e) ==
  IF lit \in Simple THEN BinAdd(e.s, s.cur, lit, e.var)
  ELSE LET s1 == AddedStem(e.s, s.cur, <<lit[1]>>, Found(e.s, s.cur, <<lit[1]>>))
       IN  AddElement(s1, Found(s1, s.cur, <<lit[1]>>), Tail(e.name), e.var)

RxVarExpose(s, old, lit) ==
  LET f == RxVarFind(s, s.cur, lit)
  IN  IF ExposedHere(s, lit) THEN f.s ELSE Linked(s, lit, Exposable(f.s, old, lit))

\* The variables after EXPOSE, one by one; (lit) is lit and what it names.
ExposeNamed(s, old, lit) ==
  LET f == RxVarFind(s, old, lit)
      name == s.heap[f.var].value
  IN  IF f.found /\ name \in Literals THEN RxVarExpose(f.s, old, name) ELSE f.s

ExposeOne(s, old, e) ==
  LET s1 == RxVarExpose(s, old, e.lit)
  IN  IF e.ind THEN ExposeNamed(s1, old, e.lit) ELSE s1

-----------------------------------------------------------------------------
Count == ops < MaxOps /\ ops' = ops + 1

\* An instruction leaves the state s; one that changes nothing is not a step.
Install(s) ==
  /\ heap' = s.heap /\ trees' = s.trees /\ cache' = s.cache
  /\ <<heap', trees', cache'>> # <<heap, trees, cache>>
  /\ Count

\* OP_CREATE: the variable a clause assigns to, found or made.
Created(s, tree, lit) ==
  LET f == RxVarFind(s, tree, lit)
      added == RxVarAdd(f.s, tree, f)
  IN  IF lit \in Simple /\ Hit(s, lit) THEN [s |-> s, var |-> Cached(s, lit)]
      ELSE IF f.found THEN [s |-> f.s, var |-> f.var]
      ELSE [s |-> RememberNew(added.s, tree, lit), var |-> added.var]

\* OP_ASSIGNSTEM: the elements that exist get the value of their stem.
RxScopeAssignOwn(s, v) ==   \* mutant: borrowed elements keep their value
  FoldSet(LAMBDA w, t : IF s.heap[w].exposed = NO_PROC THEN SetValue(t, w, s.heap[v].value) ELSE t,
          s, ElementsOf(s, v))

RxScopeAssign(s, v) ==
  FoldSet(LAMBDA w, t : SetValue(t, w, s.heap[v].value), s, ElementsOf(s, v))

Assignment(s, lit, value) ==
  LET c == Created(s, s.cur, lit)
      s1 == SetValue(c.s, c.var, value)
  IN  IF lit = A THEN RxScopeAssign(s1, c.var) ELSE s1

\* The exec has run some assignments when the instructions looked at begin.
Init ==
  \E begun \in Begun :
    LET s0 == [heap |-> Empty, trees |-> (0 :> Empty), cache |-> [l \in Simple |-> NoLeaf],
               id |-> 0, top |-> 0, cur |-> 0]
        s == FoldLeft(LAMBDA t, a : Assignment(t, a[1], a[2]), s0, begun)
    IN  /\ heap = s.heap /\ trees = s.trees /\ cache = s.cache
        /\ levels = <<[id |-> 0, scope |-> 0]>>
        /\ ops = 0

Assign(lit, value) ==
  /\ Install(Assignment(State, lit, value))
  /\ UNCHANGED levels

\* OP_LOAD: shows a value, and fills the cache.
Load(lit) ==
  /\ ~(lit \in Simple /\ Hit(State, lit))
  /\ Install(RxVarFind(State, State.cur, lit).s)
  /\ UNCHANGED levels

Dropped(s, tree, lit) ==
  LET f == IF lit \in Simple /\ Hit(s, lit)
             THEN Result(s, TRUE, None, lit, Cached(s, lit)) ELSE RxVarFind(s, tree, lit)
      s1 == IF f.found THEN RxVarDel(f.s, tree, lit, f) ELSE f.s
  IN  IF lit \in Simple THEN NoCache(s1, lit) ELSE s1

Drop(lit) ==
  /\ Install(Dropped(State, State.cur, lit))
  /\ UNCHANGED levels

\* OP_DROPIND: one name of a list.
DropInd(name) ==
  LET f == VarFindName(State, State.cur, name)
  IN  /\ f.found
      /\ Install(RxVarDelName(f.s, State.cur, name, f))
      /\ UNCHANGED levels

\* RxSetSpecialVar(): RC, SIGL and the control variables of a template are
\* set by RxVarSet().
RxVarSet(s, tree, lit, value) ==
  LET f == RxVarFind(s, tree, lit)
      added == RxVarAdd(f.s, tree, f)
  IN  IF lit \in Simple /\ Hit(s, lit) THEN SetValue(s, Cached(s, lit), value)
      ELSE IF f.found THEN SetValue(f.s, f.var, value)
      ELSE RememberNew(SetValue(added.s, added.var, value), tree, lit)

SetVariable(lit, value) ==
  /\ Install(RxVarSet(State, State.cur, lit, value))
  /\ UNCHANGED levels

\* VALUE(name, value, level): RxPoolSet() in the scope of any level.
RxPoolSet(l, name, value) ==
  LET tree == levels[l].scope
      f == VarFindName(State, tree, name)
      added == RxVarAdd(f.s, tree, f)
  IN  /\ Install(IF f.found THEN SetValue(f.s, f.var, value)
                 ELSE SetValue(added.s, added.var, value))
      /\ UNCHANGED levels

\* A routine without PROCEDURE, and an INTERPRET, use the scope of their caller.
CallPlain ==
  /\ Len(levels) <= MaxLevel
  /\ levels' = Append(levels, Last(levels))
  /\ Count
  /\ UNCHANGED <<heap, trees, cache>>

\* OP_PROC: a new id, a new scope, and the variables exposed into it.
CallProcedure(list) ==
  LET l == Len(levels)
      s == [State EXCEPT !.id = NewId, !.top = l, !.cur = l,
                         !.trees = (l :> Empty) @@ @]
  IN  /\ Len(levels) <= MaxLevel
          /\ levels' = Append(levels, [id |-> NewId, scope |-> l])
      /\ Install(FoldLeft(LAMBDA t, e : ExposeOne(t, Last(levels).scope, e), s, list))

\* I_ReturnProc(): what the level had of its own is freed.
I_ReturnProc ==
  /\ Len(levels) > 1
  /\ levels' = Front(levels)
  /\ IF Last(levels).scope # levels[Len(levels) - 1].scope
       THEN Install(RxScopeFree(State, State.cur))
       ELSE Count /\ UNCHANGED <<heap, trees, cache>>

Next ==
  \/ \E a \in Assigned : Assign(a[1], a[2])
  \/ \E a \in Assigned : SetVariable(a[1], a[2])
  \/ \E lit \in Literals : Load(lit)
  \/ \E lit \in Literals : Drop(lit)
  \/ \E lit \in Literals : DropInd(lit)
  \/ \E l \in DOMAIN levels, a \in Assigned : RxPoolSet(l, a[1], a[2])
  \/ CallPlain
  \/ \E list \in Lists : CallProcedure(list)
  \/ I_ReturnProc

Spec == Init /\ [][Next]_vars
=============================================================================
