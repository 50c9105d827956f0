\* Every program of the families, compiled and run.
SPECIFICATION Spec
CONSTANTS
  EXP_LOADS = 2
  StckSize = 48
  Programs <- AllPrograms
INVARIANTS
  StackBalanced
\* A program ends.
PROPERTIES
  CodeMeansProgram
CHECK_DEADLOCK FALSE
