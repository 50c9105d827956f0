\* Two conditions a CALL ON can trap, one raised in a clause and one at its
\* end by an attention, and SYNTAX. The program may end.
CONSTANTS
  Used = {"NOTREADY", "ERROR", "HALT", "SYNTAX"}
  Labels = {"NOTREADY", "HALT", "SYNTAX"}
  MaxLevel = 2
  MaxSets = 3
SPECIFICATION Spec
CHECK_DEADLOCK FALSE
INVARIANTS
  CondInv
PROPERTIES
  NoRoutineInterruptsItself
  CallerKeepsItsTraps
  PendingIsServed
