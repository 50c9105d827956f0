\* A unit of two bytes and three classes, so that every class is asked for in
\* several sizes; chunks of six units, so that a rest of every size is left;
\* a third chunk is always refused.
CONSTANTS
  POOL_STEP = 2
  POOL_CLASSES = 3
  POOL_CHUNK = 6
  Places = {0, 6}
  Outside = {x}
  Sizes = {1, 3, 6}
  MaxInUse = 3
SPECIFICATION Spec
INVARIANTS PoolSound ReportedOnce
\* The process ends.
CHECK_DEADLOCK FALSE
