CONSTANTS
  BALANCE_START = 2  BALANCE_INC = 1  KEYS = {1, 2, 3, 4, 5, 6, 7}
  LLMAX = 2  MAXENTRY = 3  DATA = {1, 2}  CAREFUL = TRUE
  sarraymax = 3  MINROWS = 2  GROWTH = 1  SMALL = 1  SPLIT = 2  MAXTEXTS = 3
  RECORDS = {"a", "b"}  MAXBUFFERS = 2  MAXSTEM = 2  MAXRECORDS = 3
  MAPSIZE = 3  MAXBLOCKS = 3  NAMES <- MCNames  LINES = {"x", "y"}
  ivectormax = 2  MAXROWS = 3  MAXSET = 2  BYTE = 2
SPECIFICATION Spec
INVARIANTS TreeSound ListsSound ArraysHold RecordsMoved GlobalsKept NumbersHold
