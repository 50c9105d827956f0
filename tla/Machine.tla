------------------------------- MODULE Machine -------------------------------
(***************************************************************************)
(* The stack machine of RxInterpret() (src/interpre.c) on the code of      *)
(* module Compiler: a stack of pointers to values, one temporary value for *)
(* each place of the stack (_tmpstr), the levels of the calls (_proc) and  *)
(* a scope of variables for each PROCEDURE.  An operation leaves its       *)
(* result where the pointer below its operands points, be it a temporary   *)
(* or a variable, which is what makes the order of the operations and the  *)
(* depth of the stack matter.                                              *)
(*                                                                         *)
(* Values are numbers.  Traps, SIGL, attention and INTERPRET are in module *)
(* Conditions, the search for a variable in module Variables, PARSE in     *)
(* module Template.                                                        *)
(***************************************************************************)
EXTENDS Compiler, Integers

CONSTANTS Programs,     \* the programs to be compiled and run
          StckSize      \* STCK_SIZE, the places of the stack

VARIABLES program,      \* the one that runs
          code,         \* its code, which BYINIT changes
          labels,       \* where its routines begin
          Rxcip,        \* the next operation
          RxStck,       \* the stack of pointers, its length is RxStckTop + 1
          tmpstr,       \* the temporary of each place of the stack
          scopes,       \* the variables of each scope
          proc,         \* the levels above the main program
          queue,        \* the data stack: its first line is the next one pulled
          out,          \* what SAY displayed
          state         \* "run", "exit" or "error"

vars == <<program, code, labels, Rxcip, RxStck, tmpstr, scopes, proc, queue, out, state>>

-----------------------------------------------------------------------------
(* Pointers: to a literal, to a temporary, to a variable of a scope        *)

Lit(v) == [at |-> "lit", value |-> v]
Tmp(i) == [at |-> "tmp", place |-> i]
Var(s, n) == [at |-> "var", scope |-> s, name |-> n]

Value(p) ==
  CASE p.at = "lit" -> p.value
    [] p.at = "tmp" -> tmpstr[p.place]
    [] p.at = "var" -> scopes[p.scope][p.name]

Top == Len(RxStck)
STACKP(i) == RxStck[Top - i]
STACKTOP == STACKP(0)
Popped(n) == SubSeq(RxStck, 1, Top - n)

\* The scope of the running level: its own behind a PROCEDURE, else its caller's.
VarScope == Len(scopes)

\* Lstrcpy() to what a pointer points to.
Store(p, v) ==
  IF p.at = "tmp"
    THEN /\ tmpstr' = [tmpstr EXCEPT ![p.place] = v]
         /\ UNCHANGED scopes
    ELSE /\ scopes' = [scopes EXCEPT ![p.scope] = (p.name :> v) @@ @]
         /\ UNCHANGED tmpstr

Operation(name) == state = "run" /\ code[Rxcip][1] = name
Operand(i) == code[Rxcip][i + 1]
Next1 == Rxcip' = Rxcip + 1

Fixed == UNCHANGED <<program, labels>>
Quiet == Fixed /\ UNCHANGED <<code, proc, queue, out, state>>

\* A result below n operands.
Result(n, v) ==
  /\ Store(STACKP(n), v)
  /\ RxStck' = Popped(n)
  /\ Next1 /\ Quiet

\* One more pointer on the stack; the last place is never used.
Pushed(p) ==
  /\ IF Top + 1 < StckSize
       THEN RxStck' = Append(RxStck, p) /\ Next1 /\ UNCHANGED state
       ELSE state' = "error" /\ UNCHANGED <<RxStck, Rxcip>>
  /\ Fixed /\ UNCHANGED <<code, tmpstr, scopes, proc, queue, out>>

Jumped(to) == Rxcip' = to

-----------------------------------------------------------------------------
(* Operations on the stack                                                 *)

OP_NEWCLAUSE ==
  /\ Operation("NEWCLAUSE")
  /\ Next1 /\ Quiet /\ UNCHANGED <<RxStck, tmpstr, scopes>>

OP_NOP ==
  /\ Operation("NOP")
  /\ Next1 /\ Quiet /\ UNCHANGED <<RxStck, tmpstr, scopes>>

OP_PUSH == Operation("PUSH") /\ Pushed(Lit(Operand(1)))

OP_PUSHTMP == Operation("PUSHTMP") /\ Pushed(Tmp(Top + 1))

OP_DUP == Operation("DUP") /\ Pushed(STACKP(Operand(1)))

\* A variable without a value stands for its name.
OP_LOAD ==
  /\ Operation("LOAD")
  /\ Pushed(IF Operand(1) \in DOMAIN scopes[VarScope]
              THEN Var(VarScope, Operand(1)) ELSE Lit(Operand(1)))

\* The variable to be assigned, made if it is not there.
OP_CREATE ==
  /\ Operation("CREATE")
  /\ RxStck' = Append(RxStck, Var(VarScope, Operand(1)))
  /\ scopes' = [scopes EXCEPT ![VarScope] = @ @@ (Operand(1) :> 0)]
  /\ Next1 /\ Quiet /\ UNCHANGED tmpstr

OP_POP ==
  /\ Operation("POP")
  /\ RxStck' = Popped(Operand(1))
  /\ Next1 /\ Quiet /\ UNCHANGED <<tmpstr, scopes>>

OP_COPY ==
  /\ Operation("COPY")
  /\ Store(STACKP(1), Value(STACKTOP))
  /\ RxStck' = Popped(2)
  /\ Next1 /\ Quiet

\* The top of the stack becomes the temporary of its place.
ToTemporary ==
  /\ tmpstr' = [tmpstr EXCEPT ![Top] = Value(STACKTOP)]
  /\ RxStck' = [RxStck EXCEPT ![Top] = Tmp(Top)]
  /\ UNCHANGED scopes

OP_COPY2TMP ==
  /\ Operation("COPY2TMP")
  /\ ToTemporary /\ Next1 /\ Quiet

-----------------------------------------------------------------------------
(* Operators                                                               *)

Flag(b) == IF b THEN 1 ELSE 0

\* Whole numbers are divided towards zero; the remainder has the sign of
\* the dividend.
Abs(a) == IF a < 0 THEN 0 - a ELSE a
Quotient(a, b) == IF (a < 0) = (b < 0) THEN Abs(a) \div Abs(b) ELSE 0 - (Abs(a) \div Abs(b))
Remainder(a, b) == a - b * Quotient(a, b)

Arithmetic(op, a, b) ==
  CASE op = "ADD"  -> a + b
    [] op = "SUB"  -> a - b
    [] op = "MUL"  -> a * b
    [] op = "IDIV" -> Quotient(a, b)
    [] op = "MOD"  -> Remainder(a, b)

Comparison(op, a, b) ==
  Flag(CASE op = "EQ" -> a = b
         [] op = "NE" -> a # b
         [] op = "GT" -> a > b
         [] op = "GE" -> a >= b
         [] op = "LT" -> a < b
         [] op = "LE" -> a <= b)

Logical(op, a, b) ==
  CASE op = "AND" -> a * b
    [] op = "OR"  -> Flag(a + b > 0)
    [] op = "XOR" -> Flag(a # b)

\* The concatenation of two numbers, the second one of one digit.
Concat(a, b) == 10 * a + b

Defined(op, a, b) ==
  /\ op \in {"IDIV", "MOD"} => b # 0
  /\ op \in {"AND", "OR", "XOR"} => {a, b} \subseteq {0, 1}

Binary(op, a, b) ==
  CASE op \in {"ADD", "SUB", "MUL", "IDIV", "MOD"} -> Arithmetic(op, a, b)
    [] op \in {"EQ", "NE", "GT", "GE", "LT", "LE"} -> Comparison(op, a, b)
    [] op \in {"AND", "OR", "XOR"}                 -> Logical(op, a, b)
    [] op = "CONCAT"                               -> Concat(a, b)

Operators == {"ADD", "SUB", "MUL", "IDIV", "MOD", "EQ", "NE", "GT", "GE", "LT", "LE",
              "AND", "OR", "XOR", "CONCAT"}

\* A run-time error that nothing traps ends the program.
Error ==
  /\ state' = "error"
  /\ Fixed /\ UNCHANGED <<code, Rxcip, RxStck, tmpstr, scopes, proc, queue, out>>

OP_Binary ==
  /\ \E op \in Operators : Operation(op)
  /\ LET op == code[Rxcip][1] a == Value(STACKP(1)) b == Value(STACKTOP)
     IN  IF Defined(op, a, b) THEN Result(2, Binary(op, a, b)) ELSE Error

OP_NEG == Operation("NEG") /\ Result(1, 0 - Value(STACKTOP))

OP_NOT ==
  /\ Operation("NOT")
  /\ IF Value(STACKTOP) \in {0, 1} THEN Result(1, 1 - Value(STACKTOP)) ELSE Error

\* The comparisons of a loop need no place for their result.
OP_Compare ==
  /\ Operation("TGE") \/ Operation("TLE")
  /\ tmpstr' = [tmpstr EXCEPT ![Top - 1] =
                  Flag(IF Operation("TGE") THEN Value(STACKP(1)) >= Value(STACKTOP)
                                           ELSE Value(STACKP(1)) <= Value(STACKTOP))]
  /\ RxStck' = Append(Popped(2), Tmp(Top - 1))
  /\ Next1 /\ Quiet /\ UNCHANGED scopes

OP_INC ==
  /\ Operation("INC")
  /\ Store(STACKTOP, Value(STACKTOP) + 1)
  /\ RxStck' = Popped(1)
  /\ Next1 /\ Quiet

-----------------------------------------------------------------------------
(* Variables, arguments and the data stack                                 *)

\* A variable that was never set is no error.
OP_DROP ==
  /\ Operation("DROP")
  /\ scopes' = [scopes EXCEPT ![VarScope] = [n \in DOMAIN @ \ {Operand(1)} |-> @[n]]]
  /\ Next1 /\ Quiet /\ UNCHANGED <<RxStck, tmpstr>>

\* An argument that is not there is empty, which is 0 here.
OP_LOADARG ==
  /\ Operation("LOADARG")
  /\ IF proc # <<>> /\ Operand(1) \in DOMAIN Last(proc).arg
       THEN RxStck' = Append(RxStck, Last(proc).arg[Operand(1)]) /\ UNCHANGED tmpstr
       ELSE /\ RxStck' = Append(RxStck, Tmp(Top + 1))
            /\ tmpstr' = [tmpstr EXCEPT ![Top + 1] = 0]
  /\ Next1 /\ Quiet /\ UNCHANGED scopes

\* The only name of a template takes all of the source.
OP_PVAR ==
  /\ Operation("PVAR")
  /\ Store(STACKTOP, Value(STACKP(1)))
  /\ RxStck' = Popped(1)
  /\ Next1 /\ Quiet

\* Push2Stack() adds where PullFromStack() takes, Queue2Stack() at the other end.
OP_RX_PUSH ==
  /\ Operation("RX_PUSH") \/ Operation("RX_QUEUE")
  /\ queue' = IF Operation("RX_PUSH") THEN <<Value(STACKTOP)>> \o queue
                                      ELSE Append(queue, Value(STACKTOP))
  /\ RxStck' = Popped(1)
  /\ Next1 /\ Fixed /\ UNCHANGED <<code, tmpstr, scopes, proc, out, state>>

-----------------------------------------------------------------------------
(* Jumps and loops                                                         *)

OP_JMP ==
  /\ Operation("JMP")
  /\ Jumped(Operand(1))
  /\ Quiet /\ UNCHANGED <<RxStck, tmpstr, scopes>>

\* Lbool() takes 0 and 1 only.
OP_JF_JT ==
  /\ Operation("JF") \/ Operation("JT")
  /\ IF Value(STACKTOP) \notin {0, 1}
       THEN state' = "error" /\ UNCHANGED <<Rxcip, RxStck>>
       ELSE /\ Jumped(IF Value(STACKTOP) = Flag(Operation("JT")) THEN Operand(1) ELSE Rxcip + 1)
            /\ RxStck' = Popped(1)
            /\ UNCHANGED state
  /\ Fixed /\ UNCHANGED <<code, tmpstr, scopes, proc, queue, out>>

\* SIGNAL leaves all loops and expressions of the level, not the level.
OP_SIGNAL ==
  /\ Operation("SIGNAL")
  /\ IF Operand(1) \in DOMAIN labels
       THEN /\ RxStck' = SubSeq(RxStck, 1, IF proc = <<>> THEN 0 ELSE Last(proc).stacktop)
            /\ Jumped(labels[Operand(1)])
            /\ Quiet /\ UNCHANGED <<tmpstr, scopes>>
       ELSE Error

\* The sign of the step decides the comparison, which is changed in the code.
\* A loop with a step but no limit has no comparison: the first operation of
\* the code is overwritten, which is a NEWCLAUSE nobody comes back to.
OP_BYINIT ==
  /\ Operation("BYINIT")
  /\ ToTemporary
  /\ code' = [code EXCEPT ![IF Operand(1) = 0 THEN 1 ELSE Operand(1)] =
                  <<IF Value(STACKTOP) < 0 THEN "TLE" ELSE "TGE">>]
  /\ Next1 /\ Fixed /\ UNCHANGED <<proc, queue, out, state>>

OP_FORINIT ==
  /\ Operation("FORINIT")
  /\ ToTemporary
  /\ IF Value(STACKTOP) < 0 THEN state' = "error" /\ UNCHANGED Rxcip
                            ELSE Next1 /\ UNCHANGED state
  /\ Fixed /\ UNCHANGED <<code, proc, queue, out>>

OP_DECFOR ==
  /\ Operation("DECFOR")
  /\ LET a == STACKP(Operand(1))
     IN  /\ Jumped(IF Value(a) = 0 THEN Operand(2) ELSE Rxcip + 1)
         /\ Store(a, Value(a) - 1)
  /\ Quiet /\ UNCHANGED RxStck

-----------------------------------------------------------------------------
(* Calls                                                                   *)

\* Where the argument i of a call is: the last one is on top.
Place(given, i) == Top - Cardinality({j \in given : j > i})

\* A built-in function reads its arguments, unless one is where its result
\* goes: of that it takes a copy first, for it clears the result.
Builtins == {"ABS", "ARG"}

ArgValue(n) ==
  IF proc = <<>> \/ n \notin DOMAIN Last(proc).arg THEN 0 ELSE Value(Last(proc).arg[n])

Builtin(name, args) ==
  CASE name = "ABS" -> IF args[1] < 0 THEN 0 - args[1] ELSE args[1]
    [] name = "ARG" -> ArgValue(args[1])

I_CallBuiltin ==
  /\ Operation("CALL") /\ Operand(1) \in Builtins /\ Operand(1) \notin DOMAIN labels
  /\ LET given == Operand(3)
         st == Top - Cardinality(given)
         v == Builtin(Operand(1), [i \in given |-> Value(RxStck[Place(given, i)])])
     IN  IF Operand(4) = "PROCEDURE"
           THEN /\ scopes' = [scopes EXCEPT ![VarScope] = ("RESULT" :> v) @@ @]
                /\ tmpstr' = [tmpstr EXCEPT ![st] = v]
                /\ RxStck' = SubSeq(RxStck, 1, st - 1)
           ELSE /\ Store(RxStck[st], v)
                /\ RxStck' = SubSeq(RxStck, 1, st)
  /\ Next1 /\ Quiet

\* I_MakeArgs() and I_EnterRoutine(): the arguments are passed by value, the
\* level remembers where to go on, where the result goes and what the
\* stack will be.
I_CallRoutine ==
  /\ Operation("CALL") /\ Operand(1) \in DOMAIN labels
  /\ LET given == Operand(3)
         st == Top - Cardinality(given)
         entry == labels[Operand(1)] + 1
         own == code[entry][1] = "PROC"
     IN  /\ tmpstr' = [i \in DOMAIN tmpstr |->
                         IF i \in (st + 1)..Top THEN Value(RxStck[i]) ELSE tmpstr[i]]
         /\ RxStck' = [i \in DOMAIN RxStck |-> IF i > st THEN Tmp(i) ELSE RxStck[i]]
         /\ proc' = Append(proc,
              [calltype |-> Operand(4), ip |-> Rxcip + 1, arg |-> [i \in given |-> Tmp(Place(given, i))],
               r |-> RxStck[st], stack |-> IF Operand(4) = "FUNCTION" THEN st ELSE st - 1,
               stacktop |-> Top, private |-> own])
         /\ scopes' = IF own THEN Append(scopes, <<>>) ELSE scopes
         /\ Rxcip' = IF own THEN entry + 1 ELSE entry
  /\ Fixed /\ UNCHANGED <<code, queue, out, state>>

\* I_ReturnProc(): the stack and the scope of the caller, which then gets the
\* value: f is what to do with the variables.
I_ReturnProc(variables) ==
  /\ Rxcip' = Last(proc).ip
  /\ RxStck' = SubSeq(RxStck, 1, Last(proc).stack)
  /\ proc' = Front(proc)
  /\ scopes' = variables
  /\ Fixed /\ UNCHANGED <<code, queue, out>>

Callers == IF Last(proc).private THEN Front(scopes) ELSE scopes

\* A routine that returns nothing drops RESULT.
OP_RETURN ==
  /\ Operation("RETURN")
  /\ IF proc = <<>> \/ Last(proc).calltype = "FUNCTION"
       THEN /\ state' = IF proc = <<>> THEN "exit" ELSE "error"
            /\ Fixed /\ UNCHANGED <<code, Rxcip, RxStck, tmpstr, scopes, proc, queue, out>>
       ELSE /\ I_ReturnProc([Callers EXCEPT ![Len(Callers)] =
                               [n \in DOMAIN @ \ {"RESULT"} |-> @[n]]])
            /\ UNCHANGED <<tmpstr, state>>

\* The value of a function goes to the place its call kept for it, that of a
\* CALL to RESULT.
OP_RETURNF ==
  /\ Operation("RETURNF")
  /\ LET v == Value(STACKTOP)
         r == Last(proc).r
     IN  IF proc = <<>>
           THEN /\ state' = "exit"
                /\ Fixed /\ UNCHANGED <<code, Rxcip, RxStck, tmpstr, scopes, proc, queue, out>>
           ELSE /\ UNCHANGED state
                /\ IF Last(proc).calltype = "PROCEDURE"
                     THEN /\ I_ReturnProc([Callers EXCEPT ![Len(Callers)] = ("RESULT" :> v) @@ @])
                          /\ UNCHANGED tmpstr
                     ELSE IF r.at = "tmp"
                     THEN I_ReturnProc(Callers) /\ tmpstr' = [tmpstr EXCEPT ![r.place] = v]
                     ELSE /\ I_ReturnProc([Callers EXCEPT ![r.scope] = (r.name :> v) @@ @])
                          /\ UNCHANGED tmpstr

-----------------------------------------------------------------------------
(* The rest                                                                *)

OP_SAY ==
  /\ Operation("SAY")
  /\ out' = Append(out, Value(STACKTOP))
  /\ RxStck' = Popped(1)
  /\ Next1 /\ Fixed /\ UNCHANGED <<code, tmpstr, scopes, proc, queue, state>>

OP_EXIT ==
  /\ Operation("EXIT")
  /\ state' = "exit"
  /\ RxStck' = <<>>
  /\ Fixed /\ UNCHANGED <<code, Rxcip, tmpstr, scopes, proc, queue, out>>

OP_RAISE == Operation("RAISE") /\ Error

-----------------------------------------------------------------------------

\* A program is compiled and begins at its first operation.
Init ==
  /\ program \in Programs
  /\ LET c == RxCompile(program)
     IN  code = c.code /\ labels = c.labels /\ state = IF c.error THEN "error" ELSE "run"
  /\ Rxcip = 1 /\ RxStck = <<>> /\ tmpstr = [i \in 1..StckSize |-> 0]
  /\ scopes = <<<<>>>> /\ proc = <<>> /\ queue = <<>> /\ out = <<>>

Next ==
  \/ OP_NEWCLAUSE \/ OP_NOP \/ OP_PUSH \/ OP_PUSHTMP \/ OP_DUP \/ OP_LOAD
  \/ OP_CREATE \/ OP_POP \/ OP_COPY \/ OP_COPY2TMP
  \/ OP_Binary \/ OP_NEG \/ OP_NOT \/ OP_Compare \/ OP_INC
  \/ OP_DROP \/ OP_LOADARG \/ OP_PVAR \/ OP_RX_PUSH
  \/ OP_JMP \/ OP_SIGNAL \/ OP_JF_JT \/ OP_BYINIT \/ OP_FORINIT \/ OP_DECFOR
  \/ I_CallBuiltin \/ I_CallRoutine \/ OP_RETURN \/ OP_RETURNF
  \/ OP_SAY \/ OP_EXIT \/ OP_RAISE

Spec == Init /\ [][Next]_vars

=============================================================================
