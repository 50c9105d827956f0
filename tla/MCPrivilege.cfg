\* PRIVILEGE and two other holders, as in the code: __NJESEND, the NJE subtask.
\* MaxGen 3: an exec that ends twice, with flags left from each generation.
CONSTANTS
  privHeld = privHeld
  Holders = {privHeld, sendHeld, subtaskHeld}
  MaxGen = 3
  NoCall = NoCall
  Thrown = Thrown
SPECIFICATION Spec
INVARIANTS PrivInv CountIsHolders
PROPERTIES ImplementsLeases ResetGivesBack KeepsAuthContract NoPrivLeavesNothing
