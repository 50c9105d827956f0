\* A sequential data set and a SYSOUT, a table that grows by four slots.
CONSTANTS
  FILE_INC = 4
  Plain = {"d"}
  Members = {"m"}
  Protected = {"p"}
  Sysout = {"s"}
  MaxNames = 1
  Shared = TRUE
  Faults = {}
  MaxOpen = 1
  MaxChars = 2
SPECIFICATION Spec
VIEW View
INVARIANTS FilesSound
PROPERTIES StreamsImplemented
\* The interpreter ends.
CHECK_DEADLOCK FALSE
