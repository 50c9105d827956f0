-------------------------- MODULE ScopedVariables --------------------------
(***************************************************************************)
(* What Variables.tla is right about: the caches, the sharing of variables *)
(* between scopes, and that together they are the scopes of a REXX program *)
(* (Scopes.tla).                                                           *)
(***************************************************************************)
EXTENDS Variables

VARIABLES reading, own, shared, done   \* what Scopes.tla is about, seen in each state

Tails == {a[2] : a \in {b \in Assigned : b[1] = X}} \union {X}
Elements == {A \o t : t \in Tails}
Names == Elements \union Simple

\* The variable a name means in the scope of level l, and what it reads.
\* At the level that runs, the way of a LOAD: the cache first.
RootOf(l, lit) ==
  LET tree == IF l = Len(levels) /\ cache[lit].id = levels[l].id THEN cache[lit].tree
              ELSE levels[l].scope
  IN  IF tree \in DOMAIN trees /\ lit \in DOMAIN trees[tree] THEN trees[tree][lit] ELSE None

VarOf(l, n) ==
  LET a == RootOf(l, A)
  IN  IF n \in Simple THEN RootOf(l, n)
      ELSE IF a # None /\ Tail(n) \in DOMAIN heap[a].stem THEN heap[a].stem[Tail(n)]
      ELSE None

Read(l, n) ==
  LET v == IF n \in Elements /\ VarOf(l, n) = None THEN RootOf(l, A) ELSE VarOf(l, n)
  IN  IF v \notin DOMAIN heap \/ heap[v].value = Null THEN n ELSE heap[v].value

InCommon(l, n) ==
  \/ levels[l].scope = levels[l - 1].scope
  \/ VarOf(l, n) # None /\ VarOf(l, n) = VarOf(l - 1, n)
  \/ /\ n \in Elements /\ VarOf(l, n) = None /\ VarOf(l - 1, n) = None
     /\ RootOf(l, A) # None /\ RootOf(l, A) = RootOf(l - 1, A)

Readings == [l \in DOMAIN levels |-> [n \in Names |-> Read(l, n)]]
Sharing == [l \in DOMAIN levels |-> {n \in Names : l > 1 /\ InCommon(l, n)}]

Owned == [l \in DOMAIN levels |-> {n \in Elements : VarOf(l, n) # None}]

SeenInit ==
  /\ Init
  /\ reading = Readings /\ own = Owned /\ shared = Sharing /\ done = <<"begin">>

Look(instruction) ==
  /\ reading' = Readings' /\ own' = Owned' /\ shared' = Sharing'
  /\ done' = instruction

SeenNext ==
  \/ \E a \in Assigned : Assign(a[1], a[2]) /\ Look(<<"assign", a[1], a[2]>>)
  \/ \E a \in Assigned : SetVariable(a[1], a[2]) /\ Look(<<"set", Len(levels), a[1], a[2]>>)
  \/ \E lit \in Literals : Load(lit) /\ Look(<<"load">>)
  \/ \E lit \in Literals : Drop(lit) /\ Look(<<"drop", lit>>)
  \/ \E lit \in Literals : DropInd(lit) /\ Look(<<"dropind", lit>>)
  \/ \E l \in DOMAIN levels, a \in Assigned :
       RxPoolSet(l, a[1], a[2]) /\ Look(<<"set", l, a[1], a[2]>>)
  \/ CallPlain /\ Look(<<"nest">>)
  \/ \E list \in Lists : CallProcedure(list) /\ Look(<<"enter", list>>)
  \/ I_ReturnProc /\ Look(<<"leave">>)

SeenSpec == SeenInit /\ [][SeenNext]_<<vars, reading, own, shared, done>>

Abstract == INSTANCE Scopes WITH Stem <- A, Symbols <- Literals

\* The detailed machine is a REXX program's scopes.
ScopesImplemented == Abstract!Spec

\* Nothing is used after it was freed: what a scope or a stem holds exists,
\* and a literal whose cache counts was found in a leaf that is still there,
\* with the variable a search would find now.
NothingDangles ==
  /\ \A l \in DOMAIN trees : \A n \in DOMAIN trees[l] :
       /\ trees[l][n] \in DOMAIN heap
       /\ ElementsOf(State, trees[l][n]) \subseteq DOMAIN heap
  /\ \A lit \in Simple : Hit(State, lit) =>
       /\ cache[lit].tree \in DOMAIN trees /\ lit \in DOMAIN trees[cache[lit].tree]
       /\ Cached(State, lit) = Found(State, State.cur, lit)

\* A variable marked as exposed is shared by two levels that still run, the
\* one it belongs to and the one above; leaving the routine took the mark away
\* from all others.  (Elements are left out: DROP of the stem in an INTERPRET
\* loses the mark of an exposed one, see README.)
MarksGivenBack ==
  \A l \in DOMAIN trees, n \in Simple :
    LET p == heap[trees[l][n]].exposed
        Has(k) == k \in DOMAIN levels /\ n \in DOMAIN trees[levels[k].scope]
                  /\ trees[levels[k].scope][n] = trees[l][n]
    IN  n \in DOMAIN trees[l] /\ p # NO_PROC => Has(p + 1) /\ Has(p + 2)

\* Caches, leaves and shared variables are sound whatever was dropped, exposed and
\* left before.
VariablesSound == NothingDangles /\ MarksGivenBack

\* Entering a routine gives no variable of the program another value.
EntryChangesNothing ==
  [][Len(levels') > Len(levels) =>
       \A l \in DOMAIN levels, n \in Names : reading'[l][n] = reading[l][n]]_vars

\* For a .cfg.
One(lit) == [ind |-> FALSE, lit |-> lit]
Ind(lit) == [ind |-> TRUE, lit |-> lit]
MCStemSet == {<<<<A, <<"1">>>>>>}
MCElement == {<<One(<<"A.", "X">>)>>}
MCElementSet == {<<<<X, <<"1">>>>, <<<<"A.", "X">>, <<"1">>>>>>}
MCAssigned == {<<X, <<"A.", "X">>>>, <<A, <<"1">>>>, <<<<"A.", "X">>, <<"1">>>>}
MCBegun == {<<>>, <<<<X, <<"A.", "X">>>>>>, <<<<A, <<"1">>>>>>,
            <<<<X, <<"A.", "X">>>>, <<<<"A.", "X">>, <<"1">>>>>>,
            <<<<X, <<"A.", "X">>>>, <<A, <<"1">>>>>>,
            <<<<A, <<"1">>>>, <<<<"A.", "X">>, <<"1">>>>>>}
MCLists == LET AX == <<"A.", "X">> IN
  {<<>>, <<One(X)>>, <<One(A)>>, <<One(AX)>>, <<One(X), One(AX)>>, <<One(AX), One(A)>>, <<Ind(X)>>}
=============================================================================
