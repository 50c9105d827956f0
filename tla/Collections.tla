---------------------------- MODULE Collections ----------------------------
(***************************************************************************)
(* What BREXX keeps data in: the binary tree of its variables, the linked  *)
(* lists, the string arrays, the data stack with EXECIO, the global        *)
(* variables and the integer, bit and fixed-string arrays.  They share no  *)
(* state, so a behaviour uses one of them, chosen at the start (part).     *)
(***************************************************************************)
EXTENDS GlobalVariables

CONSTANTS BALANCE_START, BALANCE_INC, KEYS,                              \* tree
          LLMAX, MAXENTRY, DATA, CAREFUL,                                \* lists
          sarraymax, MINROWS, GROWTH, SMALL, SPLIT, MAXTEXTS,            \* arrays
          RECORDS, MAXBUFFERS, MAXSTEM, MAXRECORDS,                      \* stack
          ivectormax, MAXROWS, MAXSET, BYTE                                   \* numbers

VARIABLES part, tree, keys, lists, list, sarray, text, rxStackList, file, stem, due,
          ivector, number, bitarray, bits, sfvector, strings

vars == <<part, tree, keys, lists, list, sarray, text, rxStackList, file, stem, due, globals, stored,
          ivector, number, bitarray, bits, sfvector, strings>>

\* 0 is the blank, 3 the small letter of 2; what the functions in place make of
\* these texts are these texts.
TEXTS == {<< >>, <<1>>, <<2, 0, 1>>, <<3, 0, 1>>}

NUMBERS == {-1, 2}
\* Texts for the rows of a fixed-string array, the last one too long.
STRINGS == {<< >>, <<1>>, <<1, 2, 1>>}

Tree == INSTANCE TreeOperations
Lists == INSTANCE ListOperations
Arrays == INSTANCE ArrayOperations
Stack == INSTANCE DataStack
Numbers == INSTANCE NumberOperations

Init ==
  /\ part \in {"tree", "lists", "arrays", "stack", "globals", "numbers"}
  /\ Tree!TreeInit /\ Lists!ListInit /\ Arrays!ArrayInit /\ Stack!StackInit
  /\ GlobalInit /\ Numbers!NumberInit

treeVars == <<tree, keys>>
listVars == <<lists, list>>
arrayVars == <<sarray, text>>
stackVars == <<rxStackList, file, stem, due>>
globalVars == <<globals, stored>>
numberVars == <<ivector, number, bitarray, bits, sfvector, strings>>

TreeStep ==
  /\ part = "tree" /\ Tree!TreeNext
  /\ UNCHANGED <<part, listVars, arrayVars, stackVars, globalVars, numberVars>>
ListStep ==
  /\ part = "lists" /\ Lists!ListNext
  /\ UNCHANGED <<part, treeVars, arrayVars, stackVars, globalVars, numberVars>>
ArrayStep ==
  /\ part = "arrays" /\ Arrays!ArrayNext
  /\ UNCHANGED <<part, treeVars, listVars, stackVars, globalVars, numberVars>>
StackStep ==
  /\ part = "stack" /\ Stack!StackNext
  /\ UNCHANGED <<part, treeVars, listVars, arrayVars, globalVars, numberVars>>
GlobalStep ==
  /\ part = "globals" /\ GlobalNext
  /\ UNCHANGED <<part, treeVars, listVars, arrayVars, stackVars, numberVars>>
NumberStep ==
  /\ part = "numbers" /\ Numbers!NumberNext
  /\ UNCHANGED <<part, treeVars, listVars, arrayVars, stackVars, globalVars>>
Next == NumberStep \/ GlobalStep \/ TreeStep \/ ListStep \/ ArrayStep \/ StackStep

Spec == Init /\ [][Next]_vars

----------------------------------------------------------------------------
(* What the parts promise, beside GlobalsKept; see their modules.           *)

\* The tree of variables, literals and labels finds what was added and not
\* deleted, in order along its threads (bintree.c).
TreeSound == Tree!TreeSound

\* A linked list is what the calls made of it, forwards and backwards (rxll.c).
ListsSound == Lists!ListsSound

\* A string array holds what the calls made of it (rxsarray.c).
ArraysHold == Arrays!ArraysHold

\* Stack and EXECIO move the records asked for, in the order asked for
\* (rxexecio.c, stack.c).
RecordsMoved == Stack!RecordsMoved

\* An element, a bit or a row is what was stored there last, and PRIME gives
\* the primes (rxiarray.c).
NumbersHold == Numbers!NumbersHold /\ Numbers!PrimesFollow

\* A linked list in use keeps its head (rxll.c:565, ext-array.typ:1558).
HeadStays == Lists!HeadStays
=============================================================================
