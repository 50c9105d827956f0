----------------------------- MODULE ExecChain ------------------------------
(***************************************************************************)
(* What the variable routine of BREXX promises to a program that asks for  *)
(* the variables of an exec (docs/books/guide/ug-restrict.typ,             *)
(* internals/architecture.md 5.6), whatever the number of copies of BREXX  *)
(* under one ECT and the order in which they start and end.                *)
(*                                                                         *)
(* The environments that claim ECTENVBK are a stack of which any member    *)
(* may leave; the input stack of TSO grows and shrinks beside it.  A       *)
(* request is answered by the exec it names when that exec's input stack   *)
(* element is on top, otherwise by the newest exec of which this is true,  *)
(* as far as another environment does not hide it.                         *)
(***************************************************************************)
EXTENDS Naturals, Sequences, SequencesExt

CONSTANTS
  Blocks,               \* addresses of ENVBLOCKs
  Elements,             \* addresses of input stack elements
  foreign,              \* the value another environment puts into ECTENVBK
  NoBlock               \* ECTENVBK = 0, and R0 = 0

VARIABLES
  claims,               \* who claims ECTENVBK, the newest first
  element,              \* the element that was on top when the exec started
  top,                  \* the element on top now
  answeredBy            \* the exec that answered the last request

chainVars == <<claims, element, top, answeredBy>>

Running == ToSet(claims) \ {foreign}
Hidden(i) == \E j \in 1..(i - 1) : claims[j] = foreign

(* The newest exec whose element is on top, if nothing foreign is above it. *)
Newest ==
  LET owners == {i \in DOMAIN claims : claims[i] # foreign /\ ~Hidden(i)
                                       /\ element[claims[i]] = top}
  IN IF owners = {} THEN NoBlock
     ELSE claims[CHOOSE i \in owners : \A j \in owners : i <= j]

ChainInit ==
  /\ claims \in {<<>>, <<foreign>>}
  /\ element = [b \in Blocks |-> NoBlock]
  /\ top \in Elements
  /\ answeredBy = NoBlock

Start(b) ==
  /\ b \notin Running
  /\ claims' = <<b>> \o claims
  /\ element' = [element EXCEPT ![b] = top]
  /\ UNCHANGED <<top, answeredBy>>

End(b) ==
  /\ b \in Running
  /\ claims' = RemoveAt(claims, CHOOSE i \in DOMAIN claims : claims[i] = b)
  /\ element' = [element EXCEPT ![b] = NoBlock]
  /\ UNCHANGED <<top, answeredBy>>

ForeignClaims ==
  /\ claims' = <<foreign>> \o claims
  /\ UNCHANGED <<element, top, answeredBy>>

ForeignLeaves ==
  /\ claims # <<>> /\ Head(claims) = foreign
  /\ claims' = Tail(claims)
  /\ UNCHANGED <<element, top, answeredBy>>

InputChanges ==
  /\ top' \in Elements
  /\ UNCHANGED <<claims, element, answeredBy>>

(* The request names the exec r0, or none. *)
Request(r0) ==
  /\ answeredBy' = IF r0 \in Running /\ element[r0] = top THEN r0 ELSE Newest
  /\ UNCHANGED <<claims, element, top>>

(* The parameter list is wrong, nobody answers. *)
Refused ==
  /\ answeredBy' = NoBlock
  /\ UNCHANGED <<claims, element, top>>

ChainNext ==
  \/ \E b \in Blocks : Start(b) \/ End(b)
  \/ ForeignClaims \/ ForeignLeaves \/ InputChanges \/ Refused
  \/ \E r0 \in Blocks \cup {NoBlock} : Request(r0)

ChainSpec == ChainInit /\ [][ChainNext]_chainVars
=============================================================================
