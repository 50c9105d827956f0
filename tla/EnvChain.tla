------------------------------ MODULE EnvChain ------------------------------
(***************************************************************************)
(* src/rxvarcom.c (RxXcPub, RxXcRst, RxXcom), asm/rxexcom.asm              *)
(* (BRXEXCOM) and the life of an ENVBLOCK in src/rxmvs.c: the chain        *)
(* of ENVBLOCKs from ECTENVBK through X'13C', kept by several copies of    *)
(* BREXX under one ECT, and the way a request for variables takes through  *)
(* it.                                                                     *)
(*                                                                         *)
(* A copy is known by the address of its ENVBLOCK, which the storage       *)
(* manager may give to a later copy.  Publishing and unlinking are single  *)
(* steps: the copies under one ECT take turns.  Another environment        *)
(* (REKX/370) may put its own value into ECTENVBK and restore what it      *)
(* found.  Without an ECT (batch) nothing is published; not modelled.      *)
(***************************************************************************)
EXTENDS Naturals, Sequences, SequencesExt, FiniteSets, FiniteSetsExt

CONSTANTS
  Blocks,               \* addresses RxMvsInitialize() can get for env_block
  Elements,             \* addresses of input stack elements
  foreign,              \* what another environment puts into ECTENVBK
  NoBlock,              \* a zero word
  MaxHops,              \* XC_MAXHOPS, 256
  MaxDepth,             \* bound of the input stack
  Nested                \* no exec ends under another environment's value

off == "off"            \* the other environment has not put its value in
Pointers == Blocks \cup {foreign, NoBlock}

ASSUME HopsSuffice ==
  IsFiniteSet(Blocks) /\ MaxHops \in Nat /\ MaxHops >= Cardinality(Blocks)
ASSUME ForeignIsNoBlock ==
  foreign \notin Blocks /\ NoBlock \notin Blocks /\ foreign # NoBlock /\ off \notin Pointers

VARIABLES
  phase,                \* per block: where the copy is in main() and RxRun()
  stkWord,              \* per block: X'130', the element on top at the start
  prevWord,             \* per block: X'13C', the chain word
  published,            \* per copy: xc_published
  active,               \* per copy: xc_active
  ectenvbk,             \* ECT+X'30'
  found,                \* ECTENVBK before the first copy
  saved,                \* what the other environment found, if it is on
  stack,                \* the input stack, the element on top last
  answer                \* who answered the last request

vars == <<phase, stkWord, prevWord, published, active, ectenvbk, found, saved,
          stack, answer>>
copyVars == <<stkWord, prevWord, published, active>>

(* free: no storage; up: RxMvsInitialize() is through; run: RxInterpret(); *)
(* over: run_exit of RxRun() is through; reset: the reset of main() is.    *)
Phases == {"free", "up", "run", "over", "reset"}
nobody == [by |-> NoBlock, rc |-> -1]

XcTopStack == Last(stack)
XcIsEnv(e) == e \in Blocks /\ phase[e] # "free"

Init ==
  /\ phase = [b \in Blocks |-> "free"]
  /\ stkWord = [b \in Blocks |-> NoBlock]
  /\ prevWord = [b \in Blocks |-> NoBlock]
  /\ published = [b \in Blocks |-> FALSE]
  /\ active = [b \in Blocks |-> FALSE]
  /\ found \in {NoBlock, foreign}
  /\ ectenvbk = found
  /\ saved = off
  /\ stack \in {<<e>> : e \in Elements}
  /\ answer = nobody

-----------------------------------------------------------------------------
(* The walk XcUnlink() and BRXEXCOM make: hop n is at the block n chain      *)
(* words down, as long as every block before it is one.                      *)
Next13C(e) == IF e \in Blocks THEN prevWord[e] ELSE NoBlock
Walk(from) ==
  LET at[n \in 0..MaxHops] == IF n = 0 THEN from ELSE Next13C(at[n - 1])
  IN at
At == Walk(ectenvbk)
Hops ==
  LET at == At
  IN {n \in 0..(MaxHops - 1) : \A k \in 0..n : XcIsEnv(at[k])}

(* The copies whose blocks another environment's value hides.               *)
Covered ==
  LET under == Walk(saved)
  IN IF saved = off THEN {} ELSE {under[n] : n \in 0..MaxHops} \cap Blocks

RxXcPub(b) ==
  /\ phase[b] = "up" /\ ~active[b]
  /\ phase' = [phase EXCEPT ![b] = "run"]
  /\ stkWord' = [stkWord EXCEPT ![b] = XcTopStack]
  /\ prevWord' = [prevWord EXCEPT ![b] = ectenvbk]
  /\ ectenvbk' = b
  /\ published' = [published EXCEPT ![b] = TRUE]
  /\ active' = [active EXCEPT ![b] = TRUE]
  /\ UNCHANGED <<found, saved, stack, answer>>

(* Mutant of XcUnlink(): ECTENVBK is cleared, as if nothing were below. *)
XcUnlinkZero(b) ==
  /\ ectenvbk' = IF ectenvbk = b THEN NoBlock ELSE ectenvbk
  /\ prevWord' = [prevWord EXCEPT ![b] = NoBlock]

(* XcUnlink(), and the chain word RxXcRst() clears after it.                *)
XcUnlink(b) ==
  LET above == {n \in Hops : prevWord[At[n]] = b}
  IN \/ /\ ectenvbk = b
        /\ ectenvbk' = prevWord[b]
        /\ prevWord' = [prevWord EXCEPT ![b] = NoBlock]
     \/ /\ ectenvbk # b /\ above # {}
        /\ prevWord' = [prevWord EXCEPT ![At[Min(above)]] = prevWord[b],
                                        ![b] = NoBlock]
        /\ UNCHANGED ectenvbk
     \/ /\ ectenvbk # b /\ above = {}
        /\ prevWord' = [prevWord EXCEPT ![b] = NoBlock]
        /\ UNCHANGED ectenvbk

RxXcRst(b) ==
  /\ \/ ~published[b] /\ UNCHANGED <<stkWord, prevWord, ectenvbk>>
     \/ /\ published[b]
        /\ XcUnlink(b)
        /\ stkWord' = [stkWord EXCEPT ![b] = NoBlock]
  /\ published' = [published EXCEPT ![b] = FALSE]
  /\ active' = [active EXCEPT ![b] = FALSE]

-----------------------------------------------------------------------------
(* The life of a copy in main(): the block is made with its words 0, the    *)
(* exec runs (or does not compile), run_exit of RxRun() resets, main()      *)
(* resets again, then frees the block.  An abend the ESTAE exit caught goes *)
(* from anywhere to the reset of main().                                    *)
MayEnd(b) == Nested => b \notin Covered

RxMvsInitialize(b) ==
  /\ phase[b] = "free"
  /\ phase' = [phase EXCEPT ![b] = "up"]
  /\ stkWord' = [stkWord EXCEPT ![b] = NoBlock]
  /\ prevWord' = [prevWord EXCEPT ![b] = NoBlock]
  /\ published' = [published EXCEPT ![b] = FALSE]
  /\ active' = [active EXCEPT ![b] = FALSE]
  /\ UNCHANGED <<ectenvbk, found, saved, stack, answer>>

RunExit(b) ==
  /\ phase[b] \in {"up", "run"} /\ MayEnd(b)
  /\ phase' = [phase EXCEPT ![b] = "over"]
  /\ RxXcRst(b)
  /\ UNCHANGED <<found, saved, stack, answer>>

(* Mutant of MainReset(): main() leaves the reset to RxRun(), which an      *)
(* abend does not reach.                                                    *)
MainResetNone(b) ==
  /\ phase[b] \in {"up", "run", "over"} /\ MayEnd(b)
  /\ phase' = [phase EXCEPT ![b] = "reset"]
  /\ UNCHANGED <<copyVars, ectenvbk, found, saved, stack, answer>>

MainReset(b) ==
  /\ phase[b] \in {"up", "run", "over"} /\ MayEnd(b)
  /\ phase' = [phase EXCEPT ![b] = "reset"]
  /\ RxXcRst(b)
  /\ UNCHANGED <<found, saved, stack, answer>>

RxMvsTerminate(b) ==
  /\ phase[b] = "reset"
  /\ phase' = [phase EXCEPT ![b] = "free"]
  /\ UNCHANGED <<copyVars, ectenvbk, found, saved, stack, answer>>

-----------------------------------------------------------------------------
(* BRXEXCOM entered at copy c with R0 = r0: the copy whose C code runs.     *)
(* The stub of the copy it jumps to finds its own block in step 1.          *)
BRXEXCOM(c, r0) ==
  LET owners == {n \in Hops : stkWord[At[n]] = XcTopStack}
  IN IF r0 = c /\ stkWord[c] = XcTopStack THEN c
     ELSE IF owners = {} THEN NoBlock
     ELSE At[Min(owners)]

(* Mutant of RxXcom(): the request is answered by the copy entered. *)
RxXcomFirst(c, r0, fifth) ==
  IF ~active[c] THEN [by |-> NoBlock, rc |-> -1]
  ELSE IF fifth \notin {NoBlock, r0} THEN [by |-> NoBlock, rc |-> 28]
  ELSE [by |-> c, rc |-> 0]

(* RxXcom() of the copy BRXEXCOM finds; fifth is the block in the list.     *)
RxXcom(c, r0, fifth) ==
  LET d == BRXEXCOM(c, r0)
  IN IF d = NoBlock \/ ~active[d] THEN [by |-> NoBlock, rc |-> -1]
     ELSE IF fifth \notin {NoBlock, d} THEN [by |-> NoBlock, rc |-> 28]
     ELSE [by |-> d, rc |-> 0]

Ask(c, r0, fifth) ==
  /\ phase[c] \in {"run", "over", "reset"}
  /\ answer' = RxXcom(c, r0, fifth)
  /\ UNCHANGED <<phase, copyVars, ectenvbk, found, saved, stack>>

(* TSO: a CLIST starts, and ends.                                           *)
ClistStarts(e) ==
  /\ Len(stack) < MaxDepth /\ e \notin ToSet(stack)
  /\ stack' = Append(stack, e)
  /\ UNCHANGED <<phase, copyVars, ectenvbk, found, saved, answer>>

ClistEnds ==
  /\ Len(stack) > 1
  /\ stack' = Front(stack)
  /\ UNCHANGED <<phase, copyVars, ectenvbk, found, saved, answer>>

(* Another environment that starts after the first copy, and puts back what *)
(* it found, with the care BREXX takes: only when its value is still there. *)
ForeignStarts ==
  /\ found = NoBlock /\ saved = off
  /\ saved' = ectenvbk
  /\ ectenvbk' = foreign
  /\ UNCHANGED <<phase, copyVars, found, stack, answer>>

ForeignEnds ==
  /\ saved # off /\ ectenvbk = foreign
  /\ ectenvbk' = saved
  /\ saved' = off
  /\ UNCHANGED <<phase, copyVars, found, stack, answer>>

CopySteps(b) ==
  \/ RxMvsInitialize(b)
  \/ RxXcPub(b)
  \/ RunExit(b)
  \/ MainReset(b)
  \/ RxMvsTerminate(b)

Next ==
  \/ \E b \in Blocks : CopySteps(b)
  \/ \E c \in Blocks : \E r0 \in {c, NoBlock}, fifth \in Blocks \cup {NoBlock} :
       Ask(c, r0, fifth)
  \/ \E e \in Elements : ClistStarts(e)
  \/ ClistEnds
  \/ ForeignStarts
  \/ ForeignEnds

Spec == Init /\ [][Next]_vars

-----------------------------------------------------------------------------
(* The types of the variables; the chain word of a block is a block, the    *)
(* other environment's value or 0, never an input stack element (X'130' and *)
(* X'13C' of rxvarcom.c are two words of the same block).                   *)
ChainTypeOK ==
  /\ phase \in [Blocks -> Phases]
  /\ stkWord \in [Blocks -> Elements \cup {NoBlock}]
  /\ prevWord \in [Blocks -> Pointers]
  /\ published \in [Blocks -> BOOLEAN]
  /\ active \in [Blocks -> BOOLEAN]
  /\ ectenvbk \in Pointers
  /\ found \in {NoBlock, foreign}
  /\ saved \in Pointers \cup {off}
  /\ stack \in Seq(Elements) /\ stack # <<>>
  /\ answer \in [by : Blocks \cup {NoBlock}, rc : {0, -1, 28}]

Through(b) == phase[b] \in {"free", "over", "reset"}

(* At the end of an exec, also after an abend BREXX caught, its block leaves *)
(* the chain (ug-restrict.typ): below a running exec there is no block of a *)
(* copy that is through with it, whose storage is about to be freed or is   *)
(* somebody else's by now.                                                  *)
PredecessorRuns ==
  \A b, c \in Blocks : Through(b) /\ published[c] => prevWord[c] # b

(* The same of the whole chain: neither does ECTENVBK lead to such a block, *)
(* which IKJCT441 reads without a test of its own.                          *)
EndedLeavesChain ==
  PredecessorRuns /\ \A b \in Blocks : Through(b) => ectenvbk # b

(* ECTENVBK - and with it RxXcPub() and RxXcRst() of every copy, in         *)
(* whatever order they come - returns to the value the first copy found     *)
(* when no exec runs and the other environment has left.                    *)
EctComesBack ==
  (saved = off /\ \A b \in Blocks : ~published[b]) => ectenvbk = found

(* The walk down the chain ends (rxexcom.asm allows a cycle and cuts it off *)
(* after 256 blocks): no block is met twice, so no running exec is cut off. *)
NoCycle ==
  \A m, n \in Hops : At[m] = At[n] => m = n

(* What holds of the chain word by word. *)
ChainInv == ChainTypeOK /\ EndedLeavesChain /\ NoCycle

(* The chain as a whole: ECTENVBK and what lies below it, and below the     *)
(* other environment's value what that has found.                           *)
Down(from) ==
  LET at == Walk(from)
      n == Max({0} \cup {k \in 1..(MaxHops + 1) : at[k - 1] # NoBlock})
  IN [k \in 1..n |-> at[k - 1]]
Chain == Down(ectenvbk) \o (IF saved = off THEN <<>> ELSE Down(saved))

(* The copies together keep the promise of ExecChain: an exec joins and     *)
(* leaves wherever it stands in the chain, and a request reaches the newest *)
(* running exec whose input stack element is on top, or the one it names,   *)
(* through whichever copy it comes in.                                      *)
EC == INSTANCE ExecChain WITH claims <- Chain, element <- stkWord,
                              top <- XcTopStack, answeredBy <- answer.by
ImplementsExecChain == EC!ChainSpec
=============================================================================
