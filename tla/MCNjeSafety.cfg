\* Two messages, so that one is added to the queue while another is popped; calls that
\* NJE38 does not complete, so that recvLeave() and RxNjeReset() take the
\* authorisation away from a subtask that runs on.  MaxGen 2: one authReset()
\* ends the exec.  The faults left out are those of MCNjeEnd.
CONSTANTS
  sub = sub
  send = send
  Holders = {sub, send}
  MaxGen = 2
  MaxMsgs = 2
  Apf = FALSE
  Sends = TRUE
  Faults = {"stop", "denied", "attach", "subAbend", "mainAbend", "hang"}
SPECIFICATION Spec
INVARIANTS NjeInv ExecAuthorisedBriefly
PROPERTIES KeepsAuthContract
