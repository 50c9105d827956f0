\* An exec without __NJESEND: nothing authorises the step but the subtask.  Two
\* messages, so that the queue holds one while the other is added or popped.
CONSTANTS
  sub = sub
  send = send
  Holders = {sub, send}
  MaxGen = 2
  MaxMsgs = 2
  Apf = FALSE
  Sends = FALSE
  Faults = {"stop", "nje", "denied", "attach", "oom", "subAbend", "mainAbend"}
SPECIFICATION FairSpec
INVARIANTS AuthGivenBack MessagesInOrder
PROPERTIES CallsReturn EndIsReached
