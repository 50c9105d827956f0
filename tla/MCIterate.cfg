\* Iterate
SPECIFICATION Spec
CONSTANTS
  EXP_LOADS = 2
  StckSize = 48
  Programs <- CountedIterate
\* A program ends.
PROPERTIES
  CodeMeansProgram
CHECK_DEADLOCK FALSE
