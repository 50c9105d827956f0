------------------------------- MODULE Programs -------------------------------
(***************************************************************************)
(* What a program means, by its text alone: values and variables, no code  *)
(* and no stack.  It is the abstract specification the compiler and the    *)
(* machine together implement, and the families of programs on which the   *)
(* model checker compares the two.                                         *)
(***************************************************************************)
EXTENDS Machine

-----------------------------------------------------------------------------
(* The meaning of a program.  m is what the program did so far: the         *)
(* variables of each scope, the arguments of the running routine, what was *)
(* displayed, the value of the last expression, and how the last clause    *)
(* ended: "next", "leave" or "iterate" (with the name of a loop), "return",*)
(* "exit" or "error".                                                      *)

Local(m) == m.sc[Len(m.sc)]
Assigned(m, name, v) == [m EXCEPT !.sc[Len(m.sc)] = (name :> v) @@ @]
With(m, v) == [m EXCEPT !.v = v]
Ended(m, how) == [m EXCEPT !.how = how]
Stopped(m) == m.how # "next"

Routine(name) == CHOOSE r \in ToSet(program.routines) : r.name = name
IsRoutine(name) == \E r \in ToSet(program.routines) : r.name = name

RECURSIVE Evaluated(_, _), Arguments(_, _, _), Called(_, _, _), Continued(_), Clause(_, _), Clauses(_, _),
          Repeated(_, _, _, _)

\* The operands from left to right, each with the value it has at that moment.
Evaluated(e, m) ==
  CASE Stopped(m)     -> m
    [] e[1] = "lit"   -> With(m, e[2])
    [] e[1] = "var"   -> With(m, IF e[2] \in DOMAIN Local(m) THEN Local(m)[e[2]] ELSE e[2])
    [] e[1] \in {"NEG", "NOT"} ->
         LET a == Evaluated(e[2], m)
         IN  IF Stopped(a) THEN a
             ELSE IF e[1] = "NEG" THEN With(a, 0 - a.v)
             ELSE IF a.v \in {0, 1} THEN With(a, 1 - a.v) ELSE Ended(a, "error")
    [] e[1] = "bin"   -> LET a == Evaluated(e[3], m)
                             b == Evaluated(e[4], a)
                         IN  IF Stopped(b) THEN b
                             ELSE IF Defined(e[2], a.v, b.v) THEN With(b, Binary(e[2], a.v, b.v))
                             ELSE Ended(b, "error")
    [] e[1] = "fn"    -> LET c == Called(e[2], e[3], m)
                         IN  IF c.how = "none" THEN Ended(c, "error") ELSE c

\* The values of the arguments there are, from the i-th on.
Arguments(args, i, m) ==
  IF i > Len(args) THEN [m |-> m, given |-> <<>>]
  ELSE LET a == IF args[i] = None THEN m ELSE Evaluated(args[i], m)
           rest == Arguments(args, i + 1, a)
       IN  [rest EXCEPT !.given = IF args[i] = None THEN @ ELSE (i :> a.v) @@ @]

\* A call ends with a value, with "none" or by stopping the program.
Called(name, args, m) ==
  LET a == Arguments(args, 1, m)
      argument(n) == IF n \in DOMAIN m.arg THEN m.arg[n] ELSE 0
      r == Routine(name)
      new == [a.m EXCEPT !.arg = a.given, !.sc = IF r.procedure THEN Append(@, <<>>) ELSE @]
      b == Continued(Clauses(r.body, new))
      back == [b EXCEPT !.arg = m.arg, !.sc = IF r.procedure THEN Front(@) ELSE @]
  IN  IF Stopped(a.m) THEN a.m
      ELSE IF ~IsRoutine(name)
        THEN With(a.m, IF name = "ARG" THEN argument(a.given[1])
                       ELSE IF a.given[1] < 0 THEN 0 - a.given[1] ELSE a.given[1])
      ELSE IF b.how = "return" THEN Ended(back, "next") ELSE back

\* SIGNAL goes on at a label, at the level it is in.
Continued(m) ==
  IF m.how = "signal"
    THEN IF IsRoutine(m.name) THEN Continued(Clauses(Routine(m.name).body, Ended(m, "next")))
         ELSE Ended(m, "error")
    ELSE m

\* A loop repeats with the limits its header gave it.
Repeated(h, body, lim, m) ==
  LET w == IF h.while = None THEN With(m, 1) ELSE Evaluated(h.while, m)
      i == Local(w)[h.var]
      over == \/ w.v = 0
              \/ "to" \in DOMAIN lim /\ (IF lim["by"] < 0 THEN i < lim["to"] ELSE i > lim["to"])
              \/ "for" \in DOMAIN lim /\ lim["for"] = 0
      b == Clauses(body, w)
      mine == b.how \in {"leave", "iterate"} /\ b.name \in {NoName, h.var}
      u == IF h.until = None THEN With(Ended(b, "next"), 0) ELSE Evaluated(h.until, Ended(b, "next"))
      n == IF h.var = NoName THEN u ELSE Assigned(u, h.var, Local(u)[h.var] + lim["by"])
      next == IF "for" \in DOMAIN lim THEN [lim EXCEPT !["for"] = @ - 1] ELSE lim
  IN  IF Stopped(w) \/ over THEN w
      ELSE IF Stopped(b) /\ ~mine THEN b
      ELSE IF b.how = "leave" THEN Ended(b, "next")
      ELSE IF Stopped(u) \/ u.v = 1 THEN u
      ELSE Repeated(h, body, next, n)

Clauses(body, m) ==
  IF body = <<>> \/ Stopped(m) THEN m ELSE Clauses(Tail(body), Clause(Head(body), m))

\* A condition is 0 or 1.
Tested(e, m) ==
  LET c == Evaluated(e, m) IN IF ~Stopped(c) /\ c.v \notin {0, 1} THEN Ended(c, "error") ELSE c

RECURSIVE Chosen(_, _, _), Header(_, _, _)

Chosen(whens, otherwise, m) ==
  LET c == Tested(Head(whens)[1], m)
  IN  IF whens = <<>>
        THEN IF otherwise = <<>> THEN Ended(m, "error") ELSE Clauses(Head(otherwise), m)
      ELSE IF Stopped(c) THEN c
      ELSE IF c.v = 1 THEN Clause(Head(whens)[2], c)
      ELSE Chosen(Tail(whens), otherwise, c)

\* The phrases of a loop, evaluated once, in the order they are written.
Header(phrases, lim, m) ==
  LET e == Evaluated(Head(phrases)[2], m)
  IN  IF phrases = <<>> \/ Stopped(m) THEN [m |-> m, lim |-> lim]
      ELSE IF Head(phrases)[1] = "for" /\ ~Stopped(e) /\ e.v < 0
        THEN [m |-> Ended(e, "error"), lim |-> lim]
      ELSE Header(Tail(phrases), (Head(phrases)[1] :> e.v) @@ lim, e)

Clause(s, m) ==
  LET e == Evaluated(s[Len(s)], m)
  IN  CASE s[1] = "nop"     -> m
        [] s[1] = "assign"  -> IF Stopped(e) THEN e ELSE Assigned(e, s[2], e.v)
        [] s[1] = "say"     -> IF Stopped(e) THEN e ELSE [e EXCEPT !.out = Append(@, e.v)]
        [] s[1] = "drop"    -> [m EXCEPT !.sc[Len(m.sc)] = [n \in DOMAIN @ \ {s[2]} |-> @[n]]]
        [] s[1] = "signal"  -> [Ended(m, "signal") EXCEPT !.name = s[2]]
        [] s[1] = "push"    -> IF Stopped(e) THEN e ELSE [e EXCEPT !.queue = <<e.v>> \o @]
        [] s[1] = "queue"   -> IF Stopped(e) THEN e ELSE [e EXCEPT !.queue = Append(@, e.v)]
        [] s[1] = "arg"     -> [m EXCEPT !.sc[Len(m.sc)] =
                                  [i \in ToSet(s[2]) |->
                                     LET n == CHOOSE k \in DOMAIN s[2] : s[2][k] = i
                                     IN  IF n \in DOMAIN m.arg THEN m.arg[n] ELSE 0] @@ @]
        [] s[1] = "block"   -> Clauses(s[2], m)
        [] s[1] \in {"leave", "iterate"} -> [Ended(m, s[1]) EXCEPT !.name = s[2]]
        [] s[1] = "exit"    -> IF s[2] = None THEN Ended(m, "exit")
                               ELSE IF Stopped(e) THEN e ELSE Ended(e, "exit")
        [] s[1] = "return"  -> IF s[2] = None THEN Ended(m, "none")
                               ELSE IF Stopped(e) THEN e ELSE Ended(e, "return")
        [] s[1] = "select"  -> Chosen(s[2], s[3], m)
        [] s[1] = "if"      -> LET c == Tested(s[2], m)
                               IN  IF Stopped(c) THEN c
                                   ELSE IF c.v = 1 THEN Clause(s[3], c)
                                   ELSE IF s[4] = None THEN c ELSE Clause(s[4], c)
        [] s[1] = "call"    -> LET c == Called(s[2], s[3], m)
                               IN  IF c.how = "next" THEN Assigned(c, "RESULT", c.v)
                                   ELSE IF c.how = "none"
                                   THEN Ended([c EXCEPT !.sc[Len(c.sc)] =
                                                 [n \in DOMAIN @ \ {"RESULT"} |-> @[n]]], "next")
                                   ELSE c
        [] s[1] = "do"      -> LET h == s[2]
                                   a == IF h.var = NoName THEN m ELSE Clause(<<"assign", h.var, h.from>>, m)
                                   p == Header(h.phrases, ("by" :> 1), a)
                               IN  IF Stopped(p.m) THEN p.m ELSE Repeated(h, s[3], p.lim, p.m)

Meaning ==
  Continued(Clauses(program.main,
    [sc |-> <<<<>>>>, arg |-> <<>>, queue |-> <<>>, out |-> <<>>, v |-> 0, how |-> "next",
     name |-> NoName]))

-----------------------------------------------------------------------------
(* Programs                                                                *)

V(n) == <<"var", n>>
L(v) == <<"lit", v>>
F(n, args) == <<"fn", n, args>>
Bin(op, a, b) == <<"bin", op, a, b>>
Say(e) == <<"say", e>>
Set(n, e) == <<"assign", n, e>>
Return(e) == <<"return", e>>
End == <<"exit", None>>     \* a program without it goes on into its routines

H(var, from, phrases) ==
  [var |-> var, from |-> from, phrases |-> phrases, while |-> None, until |-> None]

\* The headers of a loop over a variable, or without one.
Headers(v) ==
  LET c == H(v, L(1), <<>>)
  IN  { H(v, L(1), <<<<"to", L(2)>>>>),
        H(v, L(1), <<<<"for", L(2)>>>>),
        H(v, L(2), <<<<"by", L(-1)>>, <<"to", L(1)>>>>),
        H(v, L(1), <<<<"to", L(9)>>, <<"for", L(3)>>, <<"by", L(2)>>>>),
        H(v, L(1), <<<<"by", L(2)>>, <<"for", L(2)>>>>),
        [c EXCEPT !.while = <<"bin", "GT", L(3), V(v)>>],
        [c EXCEPT !.phrases = <<<<"to", L(3)>>>>, !.until = <<"bin", "EQ", V(v), L(2)>>] }

Unnamed ==
  LET forever == H(NoName, None, <<>>)
  IN  { H(NoName, None, <<<<"for", L(2)>>>>), H(NoName, None, <<<<"for", L(0)>>>>),
        [forever EXCEPT !.while = Bin("GT", L(3), V("n"))],
        [forever EXCEPT !.until = Bin("GT", V("n"), L(2))] }

\* The ways out of two loops, and what takes them.
Jumps == ({"leave", "iterate"} \X {NoName, "i", "j"}) \cup {<<"exit", None>>, Return(None)}

Conditions == {Bin("EQ", V("n"), L(2)), Bin("GT", V("n"), L(1))}

\* A loop in a loop with a jump; n counts the times the bodies began
\* or ended, so that every loop ends.
Nested(outer, inner, jump, cond) ==
  [main |-> <<Set("n", L(0)),
              <<"do", outer,
                <<<<"do", inner, <<Set("n", Bin("ADD", V("n"), L(1))), Say(V("n")),
                                   <<"if", Bin("GT", V("n"), L(5)), <<"exit", None>>, None>>,
                                   <<"if", cond, jump, Say(L(7))>>, Say(L(8))>>>>,
                  Set("n", Bin("ADD", V("n"), L(1)))>>>>,
              Say(V("n"))>>,
   routines |-> <<>>]

\* A named jump has a loop of that name to go to, and none with a count and
\* without a name in between.
Sound(outer, inner, jump) ==
  jump[1] \in {"leave", "iterate"} /\ jump[2] # NoName =>
    \/ inner.var = jump[2]
    \/ outer.var = jump[2] /\ ~(inner.var = NoName /\ inner.phrases # <<>>)

LoopPrograms ==
  { Nested(p[1], p[2], p[3], p[4]) :
      p \in { q \in (Headers("i") \cup Unnamed) \X (Headers("j") \cup Unnamed) \X Jumps \X Conditions :
                Sound(q[1], q[2], q[3]) } }

\* A function that changes a variable of its caller and one that does not.
Step == [name |-> "F", procedure |-> FALSE,
         body |-> <<Set("a", Bin("ADD", V("a"), L(1))), Return(Bin("ADD", V("a"), F("ARG", <<L(1)>>)))>>]
Pure == [name |-> "G", procedure |-> TRUE,
         body |-> <<Set("a", F("ARG", <<L(2)>>)), Set("x", V("a")), Return(Bin("SUB", V("x"), L(1)))>>]

Leaves == {V("a"), L(2), V("x"), F("F", <<V("a")>>)}
Small == Leaves \cup {Bin("SUB", l, r) : l \in Leaves, r \in Leaves}
                \cup {<<"NEG", V("a")>>, F("ABS", <<V("x")>>), F("G", <<None, V("x")>>),
                      F("F", <<F("F", <<V("x")>>)>>)}

\* A target that is an operand as well, and a function in between.
ExpressionPrograms ==
  { [main |-> <<Set("a", L(1)), Set("x", L(-4)), s, Say(V("a")), Say(V("x")), End>>,
     routines |-> <<Step, Pure>>] :
      s \in {Set("x", e) : e \in Small \cup {Bin("ADD", l, r) : l \in Small, r \in Small}}
            \cup {Say(Bin("ADD", l, r)) : l \in Small, r \in Small} }

-----------------------------------------------------------------------------
(* Calls, recursion, choices                                               *)

\* f(n) counts down, in a loop of each level.
Recursion(header) ==
  [main |-> <<<<"do", header, <<Say(V("i")), Say(F("F", <<V("i")>>))>>>>, <<"call", "F", <<L(1)>>>>, Say(V("RESULT")), End>>,
   routines |-> <<[name |-> "F", procedure |-> TRUE, body |->
     <<Set("k", F("ARG", <<L(1)>>)), <<"if", Bin("EQ", V("k"), L(0)), Return(L(0)), None>>,
       <<"do", H("j", L(1), <<<<"to", V("k")>>>>),
         <<<<"if", Bin("EQ", V("j"), L(2)), Return(Bin("ADD", L(5), V("j"))), None>>,
           Say(V("j")), <<"if", Bin("EQ", F("F", <<Bin("SUB", V("k"), L(1))>>), L(7)),
                            <<"leave", "j">>, None>>>>>>,
       Return(Bin("CONCAT", F("ARG", <<L(1)>>), V("j")))>>]>>]

Choice(v, other) ==
  [main |-> <<Set("a", L(v)), <<"do", H("i", L(1), <<<<"to", L(2)>>>>),
              <<<<"select", <<<<Bin("EQ", V("a"), L(1)), <<"block", <<Say(L(1)), <<"iterate", NoName>>>>>>>>,
                              <<Bin("EQ", F("F", <<V("a")>>), L(5)), Say(V("a"))>>,
                              <<Bin("GT", V("a"), L(3)), <<"leave", "i">>>>>>, other>>>>>>,
              <<"call", "P", <<None, V("a")>>>>, Say(V("a")), <<"nop">>, End>>,
   routines |-> <<Step, [name |-> "P", procedure |-> FALSE,
                         body |-> <<Set("a", F("ARG", <<L(2)>>)), <<"call", "ABS", <<L(-3)>>>>,
                                    Say(V("RESULT")), Return(None)>>]>>]

\* A limit, a step or a count that calls a function, and one that is wrong.
Limits(phrases) ==
  [main |-> <<Set("a", L(0)),
              <<"do", H("a", V("a"), phrases), <<Say(V("a"))>>>>,
              Say(V("a")), End>>,
   routines |-> <<Step>>]

Phrases ==
  {<<"to", F("F", <<L(2)>>)>>, <<"by", F("F", <<L(1)>>)>>, <<"for", F("F", <<V("a")>>)>>, <<"for", L(-1)>>,
   <<"to", Bin("ADD", V("a"), L(3))>>}

CallPrograms ==
  {Recursion(h) : h \in Headers("i")}
    \cup {Choice(v, o) : v \in 0..4, o \in {<<>>, <<<<Say(L(0))>>>>}}
    \cup {Limits(<<p>>) : p \in {q \in Phrases : q[1] # "by"}}
    \cup {Limits(<<p[1], p[2]>>) : p \in {q \in Phrases \X Phrases : q[1][1] # q[2][1]
                                            /\ {q[1][1], q[2][1]} # {"by"}}}

\* The next iteration of a loop, from within a loop that only counts.
CountedIterate ==
  {[main |-> <<<<"do", H("i", L(1), <<<<"to", L(4)>>>>),
                 <<Say(V("i")), <<"do", H(NoName, None, <<<<"for", L(n)>>>>), <<<<"iterate", "i">>>>>>>>>>,
               End>>,
    routines |-> <<>>] : n \in 1..3}

\* A loop with a step, which calls the routine it is in with another step.
RecursiveBy ==
  {[main |-> <<<<"call", "F", <<L(1)>>>>, End>>,
    routines |-> <<[name |-> "F", procedure |-> TRUE, body |->
      <<Set("d", F("ARG", <<L(1)>>)),
        <<"do", H("i", V("d"), <<<<"by", V("d")>>, <<"to", Bin("ADD", Bin("ADD", V("d"), V("d")), V("d"))>>>>),
          <<Say(V("i")), <<"if", Bin("EQ", V("i"), L(1)), <<"call", "F", <<L(step)>>>>, None>>>>>>,
        Return(None)>>]>>] : step \in {2, -1}}

\* SIGNAL out of loops, out of a routine called in the middle of an expression,
\* and to a label that is not there.
Jumping(header, target) ==
  [main |-> <<Set("n", L(1)), <<"do", header, <<Set("n", Bin("ADD", V("n"), L(1))),
                Say(Bin("ADD", V("n"), F("S", <<V("n"), L(3)>>))),
                <<"if", Bin("GT", V("n"), L(2)), <<"signal", "E">>, None>>>>>>, End>>,
   routines |-> <<[name |-> "S", procedure |-> FALSE, body |->
                     <<<<"arg", <<"p", "q", "r">>>>, <<"queue", V("p")>>, <<"push", V("q")>>, <<"queue", V("r")>>,
                       <<"do", H("k", L(1), <<<<"for", V("q")>>>>),
                         <<<<"drop", "p">>, <<"signal", target>>>>>>, Return(L(8))>>],
                  [name |-> "T", procedure |-> FALSE, body |-> <<Say(V("q")), <<"drop", "z">>, Return(V("q"))>>],
                  [name |-> "E", procedure |-> FALSE, body |-> <<Say(V("n")), End>>]>>]

JumpPrograms == {Jumping(h, t) : h \in Headers("i") \cup Unnamed, t \in {"T", "E", "U"}}

\* Every operator, on operands it takes and on some it does not.
OperatorPrograms ==
  {[main |-> <<Set("a", L(v)), Set("x", Bin(op, V("a"), L(w))), Say(V("x")),
               Say(Bin(op, <<"NOT", Bin("GE", V("a"), L(w))>>, Bin("LE", V("a"), V("x")))),
               Say(<<"NOT", V("a")>>), End>>,
    routines |-> <<>>] : op \in Operators, v \in {-3, 0, 1, 7}, w \in {-2, 0, 1}}

AllPrograms == JumpPrograms \cup OperatorPrograms \cup LoopPrograms \cup ExpressionPrograms \cup CallPrograms

-----------------------------------------------------------------------------
(* Properties                                                              *)

\* A program that ends has displayed what its text says it displays, and it
\* is stopped by an error exactly when its text has one: whatever the code
\* leaves on the stack, in temporaries and in the variables it assigns in place.
EndsAsMeant(m) == out' = m.out /\ queue' = m.queue /\ ((state' = "error") <=> (m.how = "error"))

CodeMeansProgram == [][state' # "run" => EndsAsMeant(Meaning)]_vars

\* Where a clause begins, the stack holds what the open loops of the level need
\* and nothing else: a LEAVE, an ITERATE, a RETURN from within a loop or
\* a call in between has not left or taken anything.
StackBalanced ==
  state = "run" /\ code[Rxcip][1] = "NEWCLAUSE" =>
    Top - (IF proc = <<>> THEN 0
           ELSE Last(proc).stack + Cardinality(DOMAIN Last(proc).arg)
                + (IF Last(proc).calltype = "FUNCTION" THEN 0 ELSE 1)) = Operand(1)

=============================================================================
