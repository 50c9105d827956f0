----------------------------- MODULE Conditions -----------------------------
(***************************************************************************)
(* src/error.c (RxHaltTrap, RxSignalCondition, Rerror) and the part        *)
(* of src/interpre.c that keeps the levels of the interpreter: call,       *)
(* return, INTERPRET, SIGNAL, the setting of traps, the call of a CALL ON  *)
(* routine at the end of a clause, and the attention of src/rxattn.c.      *)
(*                                                                         *)
(* The REXX program is any program: in a clause it may raise what its      *)
(* traps wait for, call, return, interpret, jump, or end the clause.  A    *)
(* level is the part of RxProc that concerns traps.  Variables, values,    *)
(* arguments, code positions, TRACE and NUMERIC are left out; a code       *)
(* position is reduced to what the interpreter does when it goes on there. *)
(***************************************************************************)
EXTENDS Naturals, Sequences, FiniteSets, FiniteSetsExt, SequencesExt

CONSTANTS
  Used,                 \* conditions the program sets traps for
  Labels,               \* conditions whose trap label exists
  MaxLevel,             \* bound: no call, INTERPRET or ON/OFF above it
  MaxSets               \* bound of the ON and OFF clauses executed

Conds == {"ERROR", "FAILURE", "HALT", "NOTREADY", "NOVALUE", "SYNTAX"}
CallConds == Conds \ {"NOVALUE", "SYNTAX"}      \* CALL ON takes these only
none == "none"

ASSUME CondsAssumption == Used \subseteq Conds /\ Labels \subseteq Conds
ASSUME BoundsAssumption == MaxLevel \in Nat \ {0} /\ MaxSets \in Nat

VARIABLES
  procs,                \* _proc[0.._rx_proc], the running level last
  pc,                   \* what Rxcip points at
  trapPend,             \* TrapPend.cnd
  attn,                 \* RxAttn, set by the attention exit
  sets,                 \* number of ON and OFF clauses executed (a bound)
  again,                \* history: conditions set again since the outermost
                        \* routine running for them was called
  nested                \* history: conditions that lost their end of DELAY

vars == <<procs, pc, trapPend, attn, sets, again, nested>>

(* newclause, exitop, interend: at OP_NEWCLAUSE, OP_EXIT, OP_INTER_END;     *)
(* start: in a clause none of whose instructions has run; clause: inside    *)
(* one; over: its instructions are done.                                    *)
Ended == {"exit", "return", "error"}
Positions == {"newclause", "exitop", "interend", "start", "clause", "over"}
InClause == pc \in {"start", "clause"}

Level == [calltype : {"program", "procedure", "function", "interpret"},
          code : {"file", "string"}, ip : Positions,
          condition : SUBSET Conds, callcond : SUBSET CallConds,
          delayed : SUBSET CallConds, trapcall : CallConds \cup {none}]

Root == [calltype |-> "program", code |-> "file", ip |-> "newclause",
         condition |-> {}, callcond |-> {}, delayed |-> {}, trapcall |-> none]

Init ==
  /\ procs = <<Root>>
  /\ pc = "newclause"
  /\ trapPend = none
  /\ attn = FALSE
  /\ sets = 0
  /\ again = {}
  /\ nested = {}

Running == Last(procs)

-----------------------------------------------------------------------------
(* The levels.  A new one is a copy of the one below, traps included; the   *)
(* caller goes on at ip when it is left.                                    *)
NewLevel(ps, ct, code, ip) ==
  [Last(ps) EXCEPT !.calltype = ct, !.code = code, !.ip = ip, !.trapcall = none]

I_MakeArgs(ps, ct, ip) == Append(ps, NewLevel(ps, ct, "file", ip))

I_RoutineLevel(ps) == Max({1} \cup {i \in 1..Len(ps) : ps[i].calltype # "interpret"})

(* RxDoneInterStr() once per INTERPRET around the running clause: NUMERIC   *)
(* and TRACE go back to the routine, its traps are those it had before.     *)
LeaveInterprets(ps) == SubSeq(ps, 1, I_RoutineLevel(ps))

\* Mutant: the trap stays in DELAY when its routine returns.
I_ReturnProcDelayed(ps) == Front(ps)

I_ReturnProc(ps) ==
  LET trap == Last(ps).trapcall
  IN  [Front(ps) EXCEPT ![Len(ps) - 1].delayed = @ \ {trap}]

-----------------------------------------------------------------------------
(* Raising a condition.  The outcome is the levels, TrapPend and where the  *)
(* interpreter goes on: at "after" when RxSignalCondition() comes back.     *)
Outcome(ps, pend, at) == [procs |-> ps, pend |-> pend, pc |-> at]

\* Mutant: the trap is disabled in the callers as well.
TakenEverywhere(ps, pend, c) ==
  Outcome(LeaveInterprets([i \in DOMAIN ps |-> [ps[i] EXCEPT !.condition = @ \ {c}]]),
          pend, "newclause")

(* A trap taken by SIGNAL is disabled, the longjmp leaves the INTERPRETs.   *)
Taken(ps, pend, c) ==
  Outcome(LeaveInterprets([ps EXCEPT ![Len(ps)].condition = @ \ {c}]), pend, "newclause")

(* Rerror() of an error at run time.  SYNTAX ON without its label fails in  *)
(* RxSignalCondition(), which disables it, and ends the program as well.    *)
Rerror(ps, pend) ==
  IF "SYNTAX" \in Last(ps).condition \cap Labels
  THEN Taken(ps, pend, "SYNTAX")
  ELSE Outcome(ps, pend, "error")

RxSignalCondition(ps, pend, c, after) ==
  LET pr == Last(ps)
  IN  IF c \in pr.condition \cap pr.callcond \cap pr.delayed
      THEN Outcome(ps, pend, after)
      ELSE IF c \notin Labels THEN Rerror(ps, pend)
      ELSE IF c \in pr.callcond
      THEN Outcome([ps EXCEPT ![Len(ps)].delayed = @ \cup {c}],
                   IF pend = none THEN c ELSE pend, after)
      ELSE Taken(ps, pend, c)

RxHaltTrap(ps, pend, after) ==
  IF "HALT" \in Last(ps).condition
  THEN RxSignalCondition(ps, pend, "HALT", after)
  ELSE Rerror(ps, pend)

(* What an outcome does to the state.  A condition that is marked delayed   *)
(* while TrapPend is taken by another has no routine to end its DELAY.      *)
Shut(o) ==
  IF Len(o.procs) = Len(procs)
  THEN (Last(o.procs).delayed \ Running.delayed) \ {o.pend}
  ELSE {}

Becomes(o) ==
  /\ procs' = o.procs
  /\ trapPend' = o.pend
  /\ pc' = o.pc
  /\ nested' = nested \cup Shut(o)

(* A level made while a call is pending copies its DELAY; the routine will  *)
(* be called from the copy or from a level above, and end the DELAY there.  *)
Inherits == nested' = nested \cup ({trapPend} \ {none})

-----------------------------------------------------------------------------
(* OP_NEWCLAUSE and OP_EXIT: the attention first, then the pending call.    *)
Attend == IF attn THEN RxHaltTrap(procs, trapPend, "read")
                  ELSE Outcome(procs, trapPend, "read")

\* Mutant: only the level that raised the condition is marked.
I_CallTrapUnmarked(o, ip) ==
  Outcome(Append(o.procs, [NewLevel(o.procs, "procedure", "file", ip)
                             EXCEPT !.trapcall = o.pend]), none, "start")

(* The DELAY is marked here too: the level that raised the condition may be *)
(* an INTERPRET that is over.  Rxcip-- makes ip the instruction just read.  *)
I_CallTrap(o, ip) ==
  LET delayed == [o.procs EXCEPT ![Len(o.procs)].delayed = @ \cup {o.pend}]
      level == [NewLevel(delayed, "procedure", "file", ip) EXCEPT !.trapcall = o.pend]
  IN  Outcome(Append(delayed, level), none, "start")

RoutineRuns(c) == \E i \in DOMAIN procs : procs[i].trapcall = c

ReadClause(o, ip, next) ==
  /\ nested' = nested \cup Shut(o)
  /\ attn' = FALSE
  /\ LET then == IF o.pc = "read" /\ o.pend # none THEN I_CallTrap(o, ip) ELSE o
     IN  /\ procs' = then.procs
         /\ trapPend' = then.pend
         /\ pc' = IF then.pc = "read" THEN next ELSE then.pc
         /\ again' = IF then.pc = "start" /\ ~RoutineRuns(o.pend)
                     THEN again \ {o.pend} ELSE again
  /\ UNCHANGED sets

\* Mutant: routines do not look for what is pending.
OP_NEWCLAUSERoot ==
  /\ pc = "newclause"
  /\ IF Len(procs) = 1 THEN ReadClause(Attend, "newclause", "start")
     ELSE pc' = "start" /\ UNCHANGED <<procs, trapPend, attn, sets, again, nested>>

OP_NEWCLAUSE == pc = "newclause" /\ ReadClause(Attend, "newclause", "start")

OP_EXIT == pc = "exitop" /\ ReadClause(Attend, "exitop", "exit")

-----------------------------------------------------------------------------
(* The clauses of the program.                                              *)

(* SIGNAL|CALL ON|OFF condition: any of them ends a DELAY; OFF leaves the   *)
(* way the condition was trapped as it was.                                 *)
Trap(level, c, how) ==
  [level EXCEPT !.delayed = @ \ {c},
                !.condition = IF how = "off" THEN @ \ {c} ELSE @ \cup {c},
                !.callcond = CASE how = "call" -> @ \cup {c}
                               [] how = "signal" -> @ \ {c}
                               [] OTHER -> @]

I_SetTrap(c, how) ==
  /\ pc = "start" /\ sets < MaxSets /\ Len(procs) <= MaxLevel
  /\ how = "call" => c \in CallConds
  /\ procs' = [procs EXCEPT ![Len(procs)] = Trap(@, c, how)]
  /\ pc' = "over"
  /\ sets' = sets + 1
  /\ again' = IF RoutineRuns(c) THEN again \cup {c} ELSE again
  /\ UNCHANGED <<trapPend, attn, nested>>

(* A host command that fails is the last instruction of its clause; a       *)
(* negative return code is FAILURE, or ERROR when FAILURE is not trapped.   *)
RxExecuteCmd(negative) ==
  LET c == IF negative /\ "FAILURE" \in Running.condition THEN "FAILURE" ELSE "ERROR"
  IN  /\ InClause
      /\ c \in Running.condition
      /\ Becomes(RxSignalCondition(procs, trapPend, c, "over"))
      /\ UNCHANGED <<attn, sets, again>>

(* notready() of a file function, or a variable without a value, inside an  *)
(* expression; only when it is trapped.                                     *)
RaiseInExpression(c) ==
  /\ InClause
  /\ c \in Running.condition
  /\ Becomes(RxSignalCondition(procs, trapPend, c, "clause"))
  /\ UNCHANGED <<attn, sets, again>>

RunTimeError ==
  /\ InClause
  /\ Becomes(Rerror(procs, trapPend))
  /\ UNCHANGED <<attn, sets, again>>

(* An internal routine: a CALL is the end of its clause, a function call is *)
(* inside an expression.  The OP_NEWCLAUSE at the label is skipped.         *)
I_CallFunction(ct) ==
  /\ InClause /\ Len(procs) < MaxLevel
  /\ procs' = I_MakeArgs(procs, ct, IF ct = "procedure" THEN "over" ELSE "clause")
  /\ pc' = "start"
  /\ Inherits
  /\ UNCHANGED <<trapPend, attn, sets, again>>

(* RETURN and RETURN expression: the INTERPRETs are left, then the routine. *)
OP_RETURN(value) ==
  LET level == I_RoutineLevel(procs)
      ct == procs[level].calltype
  IN  /\ InClause
      /\ IF ct = "function" /\ ~value THEN Becomes(Rerror(procs, trapPend))
         ELSE IF level = 1
         THEN Becomes(Outcome(procs, trapPend, "return"))
         ELSE Becomes(Outcome(I_ReturnProc(LeaveInterprets(procs)), trapPend, procs[level].ip))
      /\ UNCHANGED <<attn, sets, again>>

(* INTERPRET of a string that compiles, empty or not, or that does not; the *)
(* error of the compilation is raised at the level of the INTERPRET.        *)
RxInitInterStr ==
  /\ InClause /\ Len(procs) < MaxLevel
  /\ \/ /\ procs' = Append(procs, NewLevel(procs, "interpret", "string", "over"))
        /\ pc' \in {"newclause", "interend"}
        /\ Inherits
        /\ UNCHANGED trapPend
     \/ Becomes(Rerror(procs, trapPend))
  /\ UNCHANGED <<attn, sets, again>>

RxDoneInterStr ==
  /\ pc = "interend"
  /\ Becomes(Outcome(Front(procs), trapPend, Running.ip))
  /\ UNCHANGED <<attn, sets, again>>

(* SIGNAL label: the level stays, its code is the file's from here on.      *)
OP_SIGNAL ==
  /\ InClause
  /\ procs' = [procs EXCEPT ![Len(procs)].code = "file"]
  /\ pc' = "newclause"
  /\ UNCHANGED <<trapPend, attn, sets, again, nested>>

(* EXIT expression *)
C_exit ==
  /\ InClause
  /\ pc' = "exitop"
  /\ UNCHANGED <<procs, trapPend, attn, sets, again, nested>>

(* The next clause, or the end of the program or of the string.             *)
EndClause ==
  /\ pc \in {"start", "clause", "over"}
  /\ pc' \in {"newclause", IF Running.code = "string" THEN "interend" ELSE "exitop"}
  /\ UNCHANGED <<procs, trapPend, attn, sets, again, nested>>

(* PA1: the exit of asm/rxstax.asm sets the flag, at any instruction.      *)
RxAttn ==
  /\ ~attn /\ pc \notin Ended
  /\ attn' = TRUE
  /\ UNCHANGED <<procs, pc, trapPend, sets, again, nested>>

-----------------------------------------------------------------------------
Next ==
  \/ OP_NEWCLAUSE
  \/ OP_EXIT
  \/ \E c \in Used, how \in {"call", "signal", "off"} : I_SetTrap(c, how)
  \/ \E negative \in BOOLEAN : RxExecuteCmd(negative)
  \/ \E c \in {"NOTREADY", "NOVALUE"} : RaiseInExpression(c)
  \/ RunTimeError
  \/ \E ct \in {"procedure", "function"} : I_CallFunction(ct)
  \/ \E value \in BOOLEAN : OP_RETURN(value)
  \/ RxInitInterStr
  \/ RxDoneInterStr
  \/ OP_SIGNAL
  \/ C_exit
  \/ EndClause
  \/ RxAttn

(* A clause is finite, and the interpreter reads the next one: nothing is   *)
(* assumed of what the program does in it.                                  *)
Fairness == WF_vars(OP_NEWCLAUSE \/ OP_EXIT) /\ WF_vars(EndClause \/ RxDoneInterStr)

Spec == Init /\ [][Next]_vars /\ Fairness

-----------------------------------------------------------------------------
(* Type correctness: only conditions CALL ON takes are trapped by a call,   *)
(* in DELAY or pending, and the program's own level is never left.          *)
TypeOK ==
  /\ procs \in Seq(Level) /\ procs # <<>>
  /\ procs[1].calltype = "program"
  /\ pc \in Positions \cup Ended
  /\ trapPend \in CallConds \cup {none}
  /\ attn \in BOOLEAN
  /\ sets \in 0..MaxSets
  /\ again \subseteq Conds /\ nested \subseteq CallConds

(* "In DELAY a second ERROR is ignored" (src/test/callon.rexx:71): while a  *)
(* CALL ON routine runs, however deep in calls and INTERPRETs, it is not    *)
(* called again, unless some ON or OFF for the condition was executed since *)
(* (I_SetTrap() ends the DELAY).                                            *)
NoRoutineInterruptsItself ==
  [][ \A c \in CallConds :
        (RoutineRuns(c) /\ Len(procs') > Len(procs) /\ Last(procs').trapcall = c)
          => c \in again ]_vars

(* "A caller keeps its own" (src/error.c:125): what a routine, a trap      *)
(* or an INTERPRET does changes no trap of the levels the running routine   *)
(* was called from, whether it returns, jumps or is left by a condition.    *)
CallerKeepsItsTraps ==
  [][ \A i \in 1 .. I_RoutineLevel(procs) - 1 :
        /\ procs'[i].condition = procs[i].condition
        /\ procs'[i].callcond = procs[i].callcond ]_vars

InDelay(i) == procs[i].condition \cap procs[i].callcond \cap procs[i].delayed

(* "Afterwards the trap is on again" (src/docs/books/ref/lang-instr.typ:    *)
(* 69): a condition in DELAY has its call pending or its routine running.   *)
DelayEnds ==
  \A i \in DOMAIN procs : \A c \in InDelay(i) :
    trapPend = c \/ RoutineRuns(c)

(* The same for every condition but those that were marked delayed while    *)
(* the call for another was pending, or were pending when a level was made. *)
DelayEndsUnlessNested ==
  \A i \in DOMAIN procs : \A c \in InDelay(i) \ nested :
    trapPend = c \/ RoutineRuns(c)

(* "The end of the program has no OP_NEWCLAUSE" (src/interpre.c:1657):     *)
(* a program that ends by EXIT, or at its end, owes no routine its call.    *)
ExitOwesNoCall == pc = "exit" => trapPend = none

(* What holds of the traps, their delays and the pending call.              *)
CondInv == TypeOK /\ DelayEndsUnlessNested /\ ExitOwesNoCall

(* An attention is looked at, and a pending routine called, whatever the    *)
(* program does in its clauses, unless the program ends first.              *)
PendingIsServed ==
  /\ attn ~> (~attn \/ pc \in Ended)
  /\ \A c \in CallConds : trapPend = c ~> (trapPend # c \/ pc \in Ended)

(* "A trap taken by SIGNAL is disabled" (src/error.c:125): after the       *)
(* step that goes to the label of a condition its trap is off.              *)
TakenTrapIsOff ==
  [][ \A c \in Conds :
        (RaiseInExpression(c) /\ c \notin Running.callcond /\ pc' = "newclause")
          => c \notin Last(procs').condition ]_vars
=============================================================================
