\* Three copies of BREXX, two input stack elements, another environment that
\* comes and goes inside the execs it finds.
CONSTANTS
  Blocks = {b1, b2, b3}
  Elements = {e1, e2}
  foreign = foreign
  NoBlock = NoBlock
  MaxHops = 3
  MaxDepth = 2
  Nested = TRUE
SPECIFICATION Spec
INVARIANTS
  ChainInv
  EctComesBack
PROPERTIES
  ImplementsExecChain
