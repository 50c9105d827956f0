------------------------------- MODULE Scopes -------------------------------
(***************************************************************************)
(* What the variables of a REXX program are, without trees, caches and     *)
(* marks: every level of the program reads a value under every name, and   *)
(* shares some names with the level that called it (docs/books/ref,        *)
(* PROCEDURE and DROP).  A name never set reads as itself, an element as   *)
(* its stem when that was given a value.  Variables.tla implements this.   *)
(*                                                                         *)
(* Where the interpreter is known to differ from the language, this says   *)
(* what it does, and "quirk".                                              *)
(***************************************************************************)
EXTENDS Naturals, FiniteSets, SequencesExt

CONSTANTS Simple,           \* the names without a tail
          Stem,             \* one of them: the stem
          Elements,         \* the derived names that begin with it
          Symbols           \* what the program text can name

VARIABLES reading,          \* reading[l][n]: what level l reads under n
          own,              \* own[l]: the elements with a value of their own
          shared,           \* shared[l]: the names l has in common with l - 1
          done              \* the instruction that led here

absvars == <<reading, own, shared, done>>

Names == Simple \union Elements
OfStem == Elements \union {Stem}
Levels == DOMAIN shared
Top == Len(shared)

\* Levels k and l have n in common: so has every level between them.
Common(k, l, n) ==
  \A m \in Levels : (m > k /\ m <= l) \/ (m > l /\ m <= k) => n \in shared[m]

\* The name a symbol stands for: its tail is replaced by its value.
Derived(at, sym) == IF sym \in Simple THEN sym ELSE Stem \o at[Tail(sym)]

\* A level gives the names in F a value; who has them in common reads it.
Gives(l, F, v) ==
  \A k \in Levels, n \in Names :
    reading'[k][n] = IF n \in F /\ Common(k, l, n) THEN v ELSE reading[k][n]

Becomes(l, n) ==
  own' = [k \in Levels |-> IF n \in Elements /\ Common(k, l, n) THEN own[k] \union {n} ELSE own[k]]

Init == Len(reading) = 1 /\ shared = <<{}>> /\ Len(own) = 1

\* An assignment to the stem is one to all its elements.
Assign(sym, v) ==
  LET n == Derived(Last(reading), sym)
  IN  /\ done' = <<"assign", sym, v>>
      /\ Gives(Top, IF n = Stem THEN OfStem ELSE {n}, v)
      /\ Becomes(Top, n) /\ UNCHANGED shared

\* Quirk: VALUE() gives the value of a stem only to the elements with no own.
Set(l, sym, v) ==
  LET n == Derived(reading[l], sym)
  IN  /\ done' = <<"set", l, sym, v>>
      /\ Gives(l, IF n = Stem THEN OfStem \ own[l] ELSE {n}, v)
      /\ Becomes(l, n) /\ UNCHANGED shared

Load == done' = <<"load">> /\ UNCHANGED <<reading, own, shared>>

\* DROP of the stem: the levels from p on, which have all of it in common,
\* forget it (quirk: when it was exposed its elements read as the stem).
\* Quirk: single elements that p shared stay as they are in the caller.
Forget(p) ==
  /\ \A k \in Levels : k > p => OfStem \subseteq shared[k]
  /\ p > 1 => ~(OfStem \subseteq shared[p])
  /\ shared' = [shared EXCEPT ![p] = @ \ OfStem]
  /\ own' = [k \in Levels |-> IF k >= p THEN {} ELSE own[k]]
  /\ \E exposed \in BOOLEAN : \A k \in Levels, n \in Names :
       reading'[k][n] = IF k < p \/ n \notin OfStem THEN reading[k][n]
                        ELSE IF exposed THEN Stem ELSE n

\* Quirk: an element stays set, to its own name, and one that has no value of
\* its own goes on reading that of the stem.
Drop(sym) ==
  LET n == Derived(Last(reading), sym)
  IN  /\ done' = <<"drop", sym>>
      /\ IF n = Stem THEN \E p \in Levels : Forget(p)
         ELSE /\ UNCHANGED <<own, shared>>
              /\ IF n \in Elements /\ n \notin Last(own) THEN UNCHANGED reading
                 ELSE Gives(Top, {n}, n)

\* Quirk: DROP of a list sets an element that was exposed to the name in the list.
DropInd(sym) ==
  LET n == Derived(Last(reading), sym)
  IN  /\ done' = <<"dropind", sym>>
      /\ IF n \in Elements
           THEN UNCHANGED <<own, shared>> /\ \E v \in {n, sym} : Gives(Top, {n}, v)
           ELSE IF n = Stem THEN \E p \in Levels : Forget(p)
           ELSE UNCHANGED <<own, shared>> /\ Gives(Top, {n}, n)

\* What a list after EXPOSE adds to the names shared.  The tail of a symbol is
\* that of the routine, which sees its caller's variable once it is exposed.
\* Quirk: a stem after one of its elements adds nothing.
Seen(S) == [n \in Simple |-> IF n \in S THEN Last(reading)[n] ELSE n]
AddName(S, sym) ==
  LET n == Derived(Seen(S), sym)
  IN  IF n = Stem THEN IF S \cap OfStem = {} THEN S \union OfStem ELSE S
      ELSE S \union {n}
AddItem(S, item) ==
  LET T == AddName(S, item.lit)
      value == Last(reading)[Derived(Seen(T), item.lit)]
  IN  IF item.ind /\ value \in Symbols THEN AddName(T, value) ELSE T

\* A routine with PROCEDURE shares S and reads nothing else of its caller.
\* Quirk: an element exposed that has no value of its own is given its name,
\* and a stem never set its own name; both levels read that from then on.
Given(n, S) ==
  IF n \in Elements \ Last(own) /\ n \in S
    THEN IF OfStem \subseteq S
           THEN {Last(reading)[n]} \union (IF Last(reading)[n] = n THEN {Stem} ELSE {})
           ELSE {n}
    ELSE {Last(reading)[n]}

Enter(list) ==
  LET S == FoldLeft(AddItem, {}, list)
  IN  /\ done' = <<"enter", list>>
      /\ shared' = Append(shared, S)
      /\ Len(reading') = Top + 1
      /\ \A n \in Names :
           /\ reading'[Top][n] \in Given(n, S)
           /\ \A k \in Levels : reading'[k][n] =
                IF Common(k, Top, n) THEN reading'[Top][n] ELSE reading[k][n]
           /\ reading'[Top + 1][n] = IF n \in S THEN reading'[Top][n] ELSE n
      /\ Len(own') = Top + 1
      /\ \A k \in Levels, n \in Elements : n \in own'[k] <=>
           n \in own[k] \/ (n \in S /\ ~(OfStem \subseteq S) /\ Common(k, Top, n))
      /\ own'[Top + 1] = S \cap own'[Top]

\* A routine without PROCEDURE, or an INTERPRET, has everything in common.
Nest ==
  /\ done' = <<"nest">>
  /\ shared' = Append(shared, Names)
  /\ reading' = Append(reading, Last(reading))
  /\ own' = Append(own, Last(own))

\* The caller finds its variables, and what was done to those it shared.
Leave ==
  /\ done' = <<"leave">>
  /\ Top > 1
  /\ shared' = Front(shared)
  /\ reading' = Front(reading)
  /\ own' = Front(own)

\* What the instruction done' says is what happened.
Next ==
  \/ done'[1] = "assign" /\ Assign(done'[2], done'[3])
  \/ done'[1] = "set" /\ done'[2] \in Levels /\ Set(done'[2], done'[3], done'[4])
  \/ done'[1] = "load" /\ Load
  \/ done'[1] = "drop" /\ Drop(done'[2])
  \/ done'[1] = "dropind" /\ DropInd(done'[2])
  \/ done'[1] = "enter" /\ Enter(done'[2])
  \/ done'[1] = "nest" /\ Nest
  \/ done'[1] = "leave" /\ Leave

Spec == Init /\ [][Next]_absvars
=============================================================================
