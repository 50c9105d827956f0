------------------------------ MODULE Compiler ------------------------------
(***************************************************************************)
(* The compiler of BREXX/370 (src/compile.c, src/expr.c): from the clauses *)
(* of a program to code for the stack machine of module Machine, in one    *)
(* pass.  A program is given as the tree the recursive descent sees; the   *)
(* scanner, the line table and the trace bytes are left out.  One element  *)
(* of the code is an operation with its operands, and a position is an     *)
(* index of the code.                                                      *)
(*                                                                         *)
(* The state of a compilation is a record: the code, the type and the      *)
(* first position of the expression under construction (exp_ct, exp_pos),  *)
(* the loads a function call would have to copy (exp_load), the loops that *)
(* are open (Loop), the position of the last clause and the labels.        *)
(*                                                                         *)
(* Expressions   <<"var", name>>  <<"lit", value>>  <<"NEG", e>>           *)
(*               <<"NOT", e>>  <<"bin", operator, left, right>>            *)
(*               <<"fn", name, args>>                                      *)
(* Clauses       <<"assign", name, e>>  <<"say", e>>  <<"nop">>            *)
(*               <<"do", header, body>>  <<"leave", name>>                 *)
(*               <<"iterate", name>>  <<"if", e, clause, else>>            *)
(*               <<"select", whens, otherwise>>  <<"call", name, args>>    *)
(*               <<"return", e>>  <<"exit", e>>  <<"block", body>>         *)
(*               <<"signal", name>>  <<"drop", name>>  <<"push", e>>       *)
(*               <<"queue", e>>  <<"arg", names>>                          *)
(* An expression, an argument or an ELSE that is not there is None, a name *)
(* NoName; a body is a sequence of clauses, and OTHERWISE a sequence of    *)
(* at most one body.                                                       *)
(***************************************************************************)
EXTENDS Naturals, Sequences, SequencesExt, TLC

CONSTANT EXP_LOADS      \* the loads remembered for one clause

ASSUME LoadsAssumption == EXP_LOADS \in Nat

None == <<"none">>
NoName == ""

-----------------------------------------------------------------------------
(* Code                                                                    *)

\* The position of the next operation, CompileCodeLen.
CompileCodeLen(c) == Len(c.code) + 1

CodeAdd(c, op) == [c EXCEPT !.code = Append(@, op)]

\* The position an operation jumps to is filled in when it is known.
CODEFIXUP(c, at) == [c EXCEPT !.code[at] = <<@[1], CompileCodeLen(c)>>]

\* The stack the open loops hold: what ought to be there at every clause.
Held(c) == FoldLeft(LAMBDA n, lc : n + lc.noofvars, 0, c.Loop)

\* A clause begins.  No second one at the same place.
CreateClause(c) ==
  IF c.clause # 0 /\ c.clause = CompileCodeLen(c) - 1 THEN c
  ELSE [CodeAdd(c, <<"NEWCLAUSE", Held(c)>>) EXCEPT !.clause = CompileCodeLen(c)]

-----------------------------------------------------------------------------
(* Expressions                                                             *)

\* A load is followed by a NOP, which a call further on turns into a copy.
exp_loadmark(c) ==
  IF Len(c.exp_load) < EXP_LOADS
    THEN CodeAdd([c EXCEPT !.exp_load = Append(@, CompileCodeLen(c))], <<"NOP">>)
    ELSE CodeAdd(c, <<"COPY2TMP">>)

\* Wrong: the loads are forgotten, but none becomes a copy.
exp_snapshotForgets(c) == [c EXCEPT !.exp_load = <<>>]

\* A function is called: the variables loaded so far keep their value.
exp_snapshot(c) ==
  LET marked == {c.exp_load[i] : i \in DOMAIN c.exp_load}
  IN  [c EXCEPT !.exp_load = <<>>,
                !.code = [p \in DOMAIN @ |->
                            IF p \in marked /\ @[p] = <<"NOP">> THEN <<"COPY2TMP">> ELSE @[p]]]

\* An operator leaves its result below its operands: in a temporary pushed
\* before them, or in the variable to be assigned if nothing came before.
InsTmp(c, pos) ==
  IF c.exp_ct = "assign" /\ c.exp_pos = pos
    THEN [c EXCEPT !.exp_ct = "normal"]
    ELSE [c EXCEPT !.code = InsertAt(@, pos, <<"PUSHTMP">>),
                   !.exp_load = [i \in DOMAIN @ |-> IF @[i] >= pos THEN @[i] + 1 ELSE @[i]]]

\* The CALL itself: the arguments there are and the last of them.
CallOperation(name, args, calltype) ==
  LET given == {i \in DOMAIN args : args[i] # None}
  IN  <<"CALL", name, IF given = {} THEN 0 ELSE CHOOSE i \in given : \A j \in given : j <= i,
        given, calltype>>

RECURSIVE Exp(_, _), ExpArgs(_, _)

\* The arguments of a function, within the expression that calls it.
ExpArgs(c, args) ==
  IF args = <<>> THEN c
  ELSE ExpArgs(IF Head(args) = None THEN c ELSE Exp(c, Head(args)), Tail(args))

\* The result of a function goes where that of an operator would.
ResultPlace(c) ==
  IF c.exp_ct = "assign" /\ c.exp_pos = CompileCodeLen(c)
    THEN [c EXCEPT !.exp_ct = "normal"]
    ELSE CodeAdd(c, <<"PUSHTMP">>)

C_function(c, e) ==
  CodeAdd(ExpArgs(ResultPlace(exp_snapshot(c)), e[3]), CallOperation(e[2], e[3], "FUNCTION"))

\* Exp0 to Exp8: the levels differ in the operators they take.
Exp(c, e) ==
  CASE e[1] = "var" -> exp_loadmark(CodeAdd(c, <<"LOAD", e[2]>>))
    [] e[1] = "lit" -> CodeAdd(c, <<"PUSH", e[2]>>)
    [] e[1] = "fn"  -> C_function(c, e)
    [] e[1] \in {"NEG", "NOT"} -> CodeAdd(InsTmp(Exp(c, e[2]), CompileCodeLen(c)), <<e[1]>>)
    [] e[1] = "bin" -> CodeAdd(InsTmp(Exp(Exp(c, e[3]), e[4]), CompileCodeLen(c)), <<e[2]>>)

\* An expression of a clause; the value of one that is to be assigned is
\* copied, unless the last operator has put it in place already.
InPlace(c) ==
  CASE c.exp_ct = "assign" -> CodeAdd(c, <<"COPY">>)
    [] c.exp_ct = "tmp"    -> CodeAdd(c, <<"COPY2TMP">>)
    [] c.exp_ct = "normal" -> c

C_expr(c, calltype, e) ==
  InPlace(Exp([c EXCEPT !.exp_ct = calltype, !.exp_pos = CompileCodeLen(c)], e))

-----------------------------------------------------------------------------
(* Clauses without an inner clause                                         *)

Taken(c) == IF c.exp_ct = "normal" THEN CodeAdd(c, <<"POP", 1>>) ELSE c

C_assign(c, name, e) == Taken(C_expr(CodeAdd(c, <<"CREATE", name>>), "assign", e))

C_say(c, e) == CodeAdd(C_expr(c, "normal", e), <<"SAY">>)

C_exit(c, e) ==
  CodeAdd(IF e = None THEN CodeAdd(c, <<"PUSH", 0>>) ELSE C_expr(c, "normal", e), <<"EXIT">>)

C_return(c, e) ==
  IF e = None THEN CodeAdd(c, <<"RETURN">>)
  ELSE CodeAdd(C_expr(c, "normal", e), <<"RETURNF">>)

C_signal(c, name) == CodeAdd(c, <<"SIGNAL", name>>)

C_drop(c, name) == CodeAdd(c, <<"DROP", name>>)

C_push(c, e) == CodeAdd(C_expr(c, "normal", e), <<"RX_PUSH">>)

C_queue(c, e) == CodeAdd(C_expr(c, "normal", e), <<"RX_QUEUE">>)

\* ARG with a template of one name for each argument.
C_arg(c, names) ==
  LET one(d, ai) == [d EXCEPT !.code = @ \o <<<<"LOADARG", ai>>, <<"COPY2TMP">>,
                                              <<"CREATE", names[ai]>>, <<"PVAR">>, <<"POP", 1>>>>]
  IN  FoldLeft(one, c, [ai \in DOMAIN names |-> ai])

\* Room for the result, then each argument an expression of its own.
C_call(c, name, args) ==
  LET arg(d, a) == IF a = None THEN d ELSE C_expr(d, "normal", a)
  IN  CodeAdd(FoldLeft(arg, CodeAdd(c, <<"PUSHTMP">>), args),
              CallOperation(name, args, "PROCEDURE"))

\* The loop a LEAVE or ITERATE means, from the innermost outwards: the
\* innermost one, or the one with this control variable.  The variables of
\* the loops with another control variable are popped on the way.
Meant(c, name) == {i \in DOMAIN c.Loop : name \in {NoName, c.Loop[i].ctrlvar}}

\* Wrong: only the loop that is innermost is popped.
PoppedForOne(c, name, to) ==
  IF name = NoName \/ to = Len(c.Loop) \/ Last(c.Loop).ctrlvar = NoName THEN c
  ELSE CodeAdd(c, <<"POP", 1>>)

PoppedFor(c, name, to) ==
  LET above == IF name = NoName THEN <<>> ELSE SubSeq(c.Loop, to + 1, Len(c.Loop))
      pop == FoldLeft(LAMBDA p, lc : IF lc.ctrlvar = NoName THEN p ELSE p + lc.noofvars, 0, above)
  IN  IF pop = 0 THEN c ELSE CodeAdd(c, <<"POP", pop>>)

C_iterate(c, name) ==
  LET to == Max(Meant(c, name))
  IN  IF Meant(c, name) = {} THEN [c EXCEPT !.error = TRUE]
      ELSE CodeAdd(PoppedFor(c, name, to), <<"JMP", c.Loop[to].Citerate>>)

C_leave(c, name) ==
  LET to == Max(Meant(c, name))
  IN  IF Meant(c, name) = {} THEN [c EXCEPT !.error = TRUE]
      ELSE CodeAdd(PoppedFor(c, name, to), <<"JMP", c.Loop[to].Cleave>>)

-----------------------------------------------------------------------------
(* DO                                                                      *)

\* A header is a record: the control variable (var) and its first value
\* (from), the phrases <<"to", e>>, <<"by", e>> and <<"for", e>> in the order
\* they are written, a WHILE or an UNTIL.  A count alone is a FOR without a
\* variable, and FOREVER is nothing at all.

\* The phrases are evaluated once and stay on the stack while the loop runs.
DoPhrase(c, ph) ==
  CASE ph[1] = "to"  -> C_expr(c, "tmp", ph[2])
    [] ph[1] = "by"  -> CodeAdd(C_expr(c, "normal", ph[2]), <<"BYINIT", 0>>)
    [] ph[1] = "for" -> CodeAdd(C_expr(c, "normal", ph[2]), <<"FORINIT">>)

\* Which of the phrases is of this kind, 0 if none is: idxTO, idxBY, idxFOR.
Idx(h, kind) ==
  IF \E i \in DOMAIN h.phrases : h.phrases[i][1] = kind
    THEN CHOOSE i \in DOMAIN h.phrases : h.phrases[i][1] = kind
    ELSE 0

\* The header up to the first position of the loop (body_p), with LEAVE's jump
\* and, where there is a control variable, ITERATE's.
LoopBegin(c, h) ==
  LET named == h.var # NoName
      jumps == <<<<"JMP", CompileCodeLen(c) + (IF named THEN 3 ELSE 2)>>, <<"JMP", 0>>>>
                 \o (IF named THEN <<<<"JMP", 0>>>> ELSE <<>>)
      steps == {p \in DOMAIN c.code : c.code[p] = <<"BYINIT", 0>>}
  IN  [c EXCEPT !.code = @ \o jumps,
                !.Loop = Append(@,
                  [Citerate |-> CompileCodeLen(c) + 2, Cleave |-> CompileCodeLen(c) + 1,
                   noofvars |-> Len(h.phrases), ctrlvar |-> h.var,
                   body_p |-> CompileCodeLen(c) + Len(jumps), untilend |-> 0,
                   pat |-> IF Idx(h, "by") = 0 THEN 0
                           ELSE CHOOSE p \in steps : \A q \in steps : q <= p])]

DoInit(c, h) ==
  LoopBegin(FoldLeft(DoPhrase, IF h.var = NoName THEN c ELSE C_assign(c, h.var, h.from), h.phrases), h)

\* WHILE is tested where the loop begins.  UNTIL has its code there too, jumped
\* over the first time, and ITERATE goes to it.
UntilBegin(c) == [CodeAdd(c, <<"JMP", 0>>) EXCEPT !.Loop[Len(c.Loop)].Citerate = CompileCodeLen(c) + 1]

UntilEnd(c) ==
  LET loop == Last(c.Loop)
  IN  [CODEFIXUP(CodeAdd(CodeAdd(c, <<"JT", loop.Cleave>>), <<"JMP", 0>>), loop.body_p)
         EXCEPT !.Loop[Len(c.Loop)].untilend = CompileCodeLen(c) + 1]

DoCondition(c, h) ==
  CASE h.while # None -> CodeAdd(C_expr(c, "normal", h.while), <<"JF", Last(c.Loop).Cleave>>)
    [] h.until # None -> UntilEnd(C_expr(UntilBegin(c), "normal", h.until))
    [] OTHER          -> c

\* The tests of TO and FOR.  The comparison of TO is the position a BY patches.
DoTests(c, h) ==
  LET n == Len(h.phrases)
      loop == Last(c.Loop)
      d == CodeAdd(CodeAdd(c, <<"DUP", n - Idx(h, "to")>>), <<"LOAD", h.var>>)
      x == IF Idx(h, "by") = 0 THEN d
           ELSE [d EXCEPT !.code[loop.pat] = <<"BYINIT", CompileCodeLen(d)>>]
      t == IF Idx(h, "to") = 0 THEN c
           ELSE CodeAdd(CodeAdd(x, <<"TGE">>), <<"JF", loop.Cleave>>)
  IN  CodeAdd(IF Idx(h, "for") = 0 THEN t
              ELSE CodeAdd(t, <<"DECFOR", n - Idx(h, "for"), loop.Cleave>>),
              <<"NEWCLAUSE", Held(c)>>)

\* The next value of the control variable.
DoNext(h) ==
  IF Idx(h, "by") = 0
    THEN <<<<"LOAD", h.var>>, <<"INC">>>>
    ELSE <<<<"LOAD", h.var>>, <<"DUP", 0>>, <<"DUP", Len(h.phrases) - Idx(h, "by") + 2>>,
           <<"ADD">>, <<"POP", 1>>>>

\* Behind the body: UNTIL, the next value, back to the beginning, and what
\* the phrases left on the stack.
AfterUntil(c, h) ==
  IF h.until = None THEN c
  ELSE CODEFIXUP(CodeAdd(c, <<"JMP", Last(c.Loop).body_p + 1>>), Last(c.Loop).untilend)

AfterNext(c, h) ==
  IF h.var = NoName THEN c
  ELSE [CODEFIXUP(c, Last(c.Loop).Cleave + 1) EXCEPT !.code = @ \o DoNext(h)]

LoopEnd(c, h) ==
  LET e == CODEFIXUP(CodeAdd(c, <<"JMP", Last(c.Loop).body_p>>), Last(c.Loop).Cleave)
      d == [e EXCEPT !.Loop = Front(@)]
  IN  IF h.phrases = <<>> THEN d ELSE CodeAdd(d, <<"POP", Len(h.phrases)>>)

RECURSIVE C_instr(_, _), C_block(_, _), C_when(_, _, _, _)

\* An error ends the compilation.
C_block(c, body) == IF c.error \/ body = <<>> THEN c ELSE C_block(C_instr(c, Head(body)), Tail(body))

C_do(c, h, body) ==
  LoopEnd(AfterNext(AfterUntil(C_block(DoTests(DoCondition(DoInit(c, h), h), h), body), h), h), h)

-----------------------------------------------------------------------------
(* IF and SELECT                                                           *)

\* nxt is the jump over THEN, end the one over ELSE.
IfElse(c, nxt, no) ==
  IF no = None THEN CODEFIXUP(c, nxt)
  ELSE CODEFIXUP(C_instr(CreateClause(CODEFIXUP(CodeAdd(c, <<"JMP", 0>>), nxt)), no), CompileCodeLen(c))

IfThen(c, yes, no) ==
  IfElse(C_instr(CreateClause(CodeAdd(c, <<"JF", 0>>)), yes), CompileCodeLen(c), no)

C_if(c, cond, yes, no) == IfThen(C_expr(c, "normal", cond), yes, no)

\* One WHEN after the other; nxt is the jump of the one before, which comes here
\* if its condition was not met.  The error of a SELECT without OTHERWISE
\* is raised behind the last of them.
WhenThen(c, whens, otherwise, jmp2end) ==
  C_when(CodeAdd(C_instr(CreateClause(CodeAdd(c, <<"JF", 0>>)), Head(whens)[2]), <<"JMP", jmp2end>>),
         Tail(whens), otherwise, [nxt |-> CompileCodeLen(c), jmp2end |-> jmp2end])

C_when(c, whens, otherwise, j) ==
  LET o == CreateClause(CODEFIXUP(c, j.nxt))
  IN  IF whens # <<>>
        THEN WhenThen(C_expr(o, "normal", Head(whens)[1]), whens, otherwise, j.jmp2end)
        ELSE IF otherwise = <<>> THEN CodeAdd(o, <<"RAISE">>)
             ELSE C_block(o, Head(otherwise))

C_select(c, whens, otherwise) ==
  CODEFIXUP(C_when(CodeAdd(CodeAdd(c, <<"JMP", 0>>), <<"JMP", 0>>), whens, otherwise,
                   [nxt |-> CompileCodeLen(c), jmp2end |-> CompileCodeLen(c) + 1]),
            CompileCodeLen(c) + 1)

\* A clause.  The loads of the clause before are forgotten.
ClauseOf(c, s) ==
      CASE s[1] = "assign"  -> C_assign(c, s[2], s[3])
        [] s[1] = "say"     -> C_say(c, s[2])
        [] s[1] = "nop"     -> CodeAdd(c, <<"NOP">>)
        [] s[1] = "do"      -> C_do(c, s[2], s[3])
        [] s[1] = "block"   -> C_block(c, s[2])
        [] s[1] = "leave"   -> C_leave(c, s[2])
        [] s[1] = "iterate" -> C_iterate(c, s[2])
        [] s[1] = "if"      -> C_if(c, s[2], s[3], s[4])
        [] s[1] = "select"  -> C_select(c, s[2], s[3])
        [] s[1] = "call"    -> C_call(c, s[2], s[3])
        [] s[1] = "return"  -> C_return(c, s[2])
        [] s[1] = "exit"    -> C_exit(c, s[2])
        [] s[1] = "signal"  -> C_signal(c, s[2])
        [] s[1] = "drop"    -> C_drop(c, s[2])
        [] s[1] = "push"    -> C_push(c, s[2])
        [] s[1] = "queue"   -> C_queue(c, s[2])
        [] s[1] = "arg"     -> C_arg(c, s[2])

C_instr(c, s) == ClauseOf(CreateClause([c EXCEPT !.exp_load = <<>>]), s)

-----------------------------------------------------------------------------
(* Programs: a main part and routines, each behind its label               *)

\* A routine: its name, whether PROCEDURE follows the label, its clauses.
C_routine(c, r) ==
  LET n == CreateClause(c)
      l == [n EXCEPT !.labels = (r.name :> n.clause) @@ @]
  IN  C_block(IF r.procedure THEN CodeAdd(l, <<"PROC">>) ELSE l, r.body)

RxCompile(program) ==
  LET none == [code |-> <<>>, exp_ct |-> "normal", exp_pos |-> 0, exp_load |-> <<>>,
               Loop |-> <<>>, clause |-> 0, labels |-> <<>>, error |-> FALSE]
      c == FoldLeft(C_routine, C_block(none, program.main), program.routines)
  IN  CodeAdd(CodeAdd(c, <<"PUSH", 0>>), <<"EXIT">>)

=============================================================================
