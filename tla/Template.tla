------------------------------ MODULE Template ------------------------------
(***************************************************************************)
(* PARSE: C_template() (src/template.c) compiles a template into           *)
(* triggers and targets, with jumps that run the trigger behind a group of *)
(* targets before the group; OP_PARSE .. OP_TR_END (src/interpre.c)        *)
(* run them.                                                               *)
(*                                                                         *)
(* A template is a sequence of tokens: a target, a dot, a text  *)
(* to look for, an absolute or a relative position.                        *)
(***************************************************************************)
EXTENDS Lstring, TLC

\* Targets are numbered.
NOTARGET == -1
DOT == 0
Token(kind, arg) == [kind |-> kind, arg |-> arg]
Instr(op, arg) == [op |-> op, arg |-> arg]

\* The compiler: the code so far, the target not yet written (dot for a dot),
\* and the places of the jumps still to be fixed, 0 for none.
Start == [code |-> <<Instr("PARSE", 0)>>, target |-> NOTARGET,
          pre |-> 0, post |-> 0, dest |-> 0]
Emit(c, op, arg) == [c EXCEPT !.code = Append(@, Instr(op, arg))]
Here(c) == Len(c.code) + 1
CODEFIXUP(c, at) == [c EXCEPT !.code[at].arg = Here(c)]

wordparse_begin(c) ==
  IF c.pre # 0 THEN c
  ELSE LET c1 == Emit(c, "JMP", 0)
       IN  [CODEFIXUP(c1, Len(c1.code)) EXCEPT !.pre = Len(c1.code), !.dest = Here(c1)]
wordparse_end(c) ==
  IF c.pre = 0 THEN c
  ELSE LET c1 == Emit(c, "JMP", 0)
       IN  [CODEFIXUP(c1, c.pre) EXCEPT !.post = Len(c1.code), !.pre = 0]
wordparse_invoke(c) ==
  IF c.dest = 0 \/ c.post = 0 THEN c
  ELSE LET c1 == Emit(c, "JMP", c.dest)
       IN  [CODEFIXUP(c1, c.post) EXCEPT !.post = 0, !.dest = 0]

\* The pending target is written behind the trigger that ends its data.
Written(c) ==
  IF c.target = NOTARGET THEN c
  ELSE [Emit(c, IF c.target = DOT THEN "PDOT" ELSE "PVAR", c.target) EXCEPT !.target = NOTARGET]

Trigger(c, op, arg) == Written(wordparse_invoke(Emit(wordparse_end(c), op, arg)))
Target(c, name) ==
  LET c1 == wordparse_begin(c)
      c2 == IF c1.target = NOTARGET THEN c1 ELSE Written(Emit(c1, "TR_SPACE", 0))
  IN  [c2 EXCEPT !.target = name]
Compiled(c, t) ==
  CASE t.kind \in {"target", "dot"} -> Target(c, t.arg)
    [] t.kind = "text" -> Trigger(c, "TR_LIT", t.arg)
    [] t.kind = "absolute" -> Trigger(c, "TR_ABS", t.arg)
    [] t.kind = "relative" -> Trigger(c, "TR_REL", t.arg)
AtEnd(c) ==
  LET c1 == wordparse_end(c)
  IN  IF c1.target = NOTARGET THEN c1
      ELSE Written(wordparse_invoke(Emit(c1, "TR_END", 0)))
C_template(template) == AtEnd(FoldLeft(Compiled, Start, template)).code

----------------------------------------------------------------------------
(* The machine.  Positions count from 1; vars is what the targets got.     *)

Registers(vars) ==
  [word_start |-> 1, word_end |-> 0, DataStart |-> 1, DataEnd |-> 1,
   BreakStart |-> 1, BreakEnd |-> 1, vars |-> vars]

\* The next word up to DataEnd, and DataStart behind the blank that follows.
I_trigger_space(r, text) ==
  LET start == Min({LSKIPBLANKS(text, r.word_start - 1), r.DataEnd - 1})
      end == Min({LSKIPWORD(text, start), r.DataEnd - 1})
  IN  [r EXCEPT !.word_start = start + 1, !.word_end = end + 1, !.DataStart = end + 2]

Bounded(n, text) == Max({1, Min({n, Len(text) + 1})})
\* From where the data starts up to the trigger, or to the end of the text if
\* the trigger is not behind it.
Selected(r, start, breakStart, breakEnd, text) ==
  LET end == IF breakEnd <= start THEN Len(text) + 1 ELSE breakStart
  IN  [r EXCEPT !.word_start = start, !.DataStart = start, !.word_end = end, !.DataEnd = end,
                !.BreakStart = breakStart, !.BreakEnd = breakEnd]

I_trigger_litteral(r, lit, text) ==
  LET p == Lindex(text, lit, r.BreakEnd)
      SourceEnd == Len(text) + 1
  IN  IF p > 0 THEN Selected(r, r.BreakEnd, p, p + Len(lit), text)
      ELSE Selected(r, r.BreakEnd, SourceEnd, SourceEnd, text)
TR_ABS(r, n, text) == Selected(r, r.BreakEnd, Bounded(n, text), Bounded(n, text), text)
\* Mutant: counted from the end of the last match.
TR_RELBehind(r, n, text) ==
  LET at == Bounded(r.BreakEnd + n, text) IN Selected(r, r.BreakEnd, at, at, text)
TR_REL(r, n, text) ==
  LET at == Bounded(r.BreakStart + n, text) IN Selected(r, r.BreakStart, at, at, text)
TR_END(r, text) == Selected(r, r.BreakEnd, Len(text) + 1, Len(text) + 1, text)

Word(r, text) ==
  IF r.word_end > r.word_start THEN From(text, r.word_start, r.word_end - r.word_start) ELSE Empty
PVAR(r, name, text) ==
  [r EXCEPT !.vars = IF name = DOT THEN @ ELSE [@ EXCEPT ![name] = Word(r, text)],
            !.word_start = r.DataStart, !.word_end = r.DataEnd]

Step(r, i, text) ==
  CASE i.op \in {"PARSE", "JMP"} -> r
    [] i.op \in {"PVAR", "PDOT"} -> PVAR(r, i.arg, text)
    [] i.op = "TR_SPACE" -> I_trigger_space(r, text)
    [] i.op = "TR_LIT" -> I_trigger_litteral(r, i.arg, text)
    [] i.op = "TR_ABS" -> TR_ABS(r, i.arg, text)
    [] i.op = "TR_REL" -> TR_REL(r, i.arg, text)
    [] i.op = "TR_END" -> TR_END(r, text)

RECURSIVE Ran(_, _, _, _)
Ran(code, pc, r, text) ==
  IF pc > Len(code) THEN r
  ELSE Ran(code, IF code[pc].op = "JMP" THEN code[pc].arg ELSE pc + 1,
           Step(r, code[pc], text), text)

\* What PARSE leaves in the variables of names.
Parsed(text, template, names) ==
  Ran(C_template(template), 1, Registers([n \in names |-> <<-1>>]), text).vars
=============================================================================
