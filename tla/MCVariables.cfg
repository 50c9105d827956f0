SPECIFICATION SeenSpec
CONSTANTS
  Assigned <- MCAssigned
  Lists <- MCLists
  MaxLevel = 2
  MaxOps = 4
  Begun <- MCBegun
INVARIANTS VariablesSound
CHECK_DEADLOCK FALSE
PROPERTY ScopesImplemented
