----------------------------- MODULE NjeListener -----------------------------
(***************************************************************************)
(* src/rxnje.c: the two tasks that receive NJE38 messages.                 *)
(*                                                                         *)
(* The MAIN TASK runs the exec and the functions __NJEREGISTER,            *)
(* __NJERECEIVE, __NJESEND and __NJEDEREGISTER, and RxNjeReset() when the  *)
(* exec ends.  The SUBTASK registers the user with NJE38, waits for        *)
(* messages and queues them.  They share the SUBTASK_INFO (volatile flags, *)
(* no lock), the DQueue of messages (no lock), the ECB of the user and the *)
(* authorisation of the job step, which is counted under authMtx           *)
(* (Authorisation).  Each NJERLY call of the subtask needs the step to be  *)
(* authorised; the exec must not run authorised because of it.  So the     *)
(* subtask takes the authorisation only while the main task is inside      *)
(* __NJERECEIVE or waits for the subtask to end, and __NJERECEIVE waits,   *)
(* before it returns, until the subtask has given it back.                 *)
(*                                                                         *)
(* Granularity: a step reads or writes the shared storage once, or several *)
(* times where the code between has no other task to fear; authTake(),     *)
(* authDrop() and authReset() are atomic (the mutex), the statements of    *)
(* dqueue.c are not: DQAdd2Head() of the subtask and DQPop() of the main   *)
(* task go on side by side.  The Init state is the one after __NJEINIT.    *)
(* NJERLY and NJE38 are external: modelled by what rxnje.c asks of them    *)
(* and does with their return codes.                                       *)
(***************************************************************************)
EXTENDS Authorisation, Integers, Sequences

CONSTANTS
  sub,          \* SUBTASK_INFO.authHeld, one of Holders
  send,         \* the flag in the frame of R_njesend(), one of Holders
  MaxMsgs,      \* bound on the messages NJE38 gets for the user
  Apf,          \* the step is authorised when BREXX starts
  Sends,        \* the exec calls __NJESEND
  Faults        \* what may go wrong, a subset of AllFaults

AllFaults == {"stop",       \* NJE38 stops: NJE_WAIT returns 8
              "nje",        \* NJERLY refuses a call
              "denied",     \* RAKF denies SVC244 after the registration
              "attach",     \* the subtask cannot be attached
              "oom",        \* the subtask runs out of memory
              "subAbend",   \* the subtask abends
              "mainAbend",  \* the main task abends
              "hang"}       \* NJE38 does not complete a call in time

ASSUME SubAndSend == sub \in Holders /\ send \in Holders /\ sub # send
ASSUME SwitchesBoolean == Apf \in BOOLEAN /\ Sends \in BOOLEAN
ASSUME MaxMsgsNat == MaxMsgs \in Nat
ASSUME FaultsKnown == Faults \subseteq AllFaults

VARIABLES
  main,         \* the main task
  subtask,      \* the subtask
  info,         \* SUBTASK_INFO
  queue,        \* the DQueue, and its elements by the message they are made for
  nje           \* NJE38: the user's registration, messages and ECB

protoVars == <<main, subtask, info, queue, nje>>
vars == <<authVars, protoVars>>

(* Return codes and events; NoRC is the 0 that lastRC starts with. *)
NoRC == "0"
RCs == {NoRC, "stop 8", "posted 32", "nje error", "not authorised", "abend",
        "out of memory", "attach failed", "null"}
Events == {"none", "msg", "stop", "timeout", "error"}

(* DQPop() and DQDel(), before each access to what the subtask may write.   *)
PopPCs == {"popping", "unlink", "unlinked", "untail", "untailed", "uncount", "uncounted"}

MainPCs ==
  {"exec",                             \* the exec runs
   "starting", "startWatch",           \* __NJERECEIVE waits for isRunning
   "waiting", "waitWatch",             \* ... waits for a message
   "leaving", "posting", "leaveCheck", "leaveWatch",   \* recvLeave()
   "dropping", "result"} \cup PopPCs \cup
  {"sending",                          \* __NJESEND runs the NJE38 command
   "joining",                          \* __NJEDEREGISTER waits for the subtask
   "resetJoin", "noPriv", "ended"}     \* RxNjeReset(), RxNoPriv()

InReceive == main.pc \in {"starting", "startWatch", "waiting", "waitWatch", "leaving",
                          "posting", "leaveCheck", "leaveWatch", "dropping"}

(* DQAdd2Head(), likewise. *)
AddPCs == {"next", "link", "linked", "count", "counted", "head", "tail"}

SubPCs == AddPCs \cup
  {"none",                             \* not attached
   "park", "take", "retest",           \* subtaskTake()
   "call", "drop",                     \* callNjerly()
   "failed",                           \* errorRunning is set, lastRC not yet
   "loop",                             \* the loop over NJE_WAIT
   "clear", "drain", "wait",           \* NJE_WAIT and the fetches around it
   "waitDrop", "stopped",              \* stopRunning is set, lastRC not yet
   "leave", "ended"}

Funcs == {"REGISTER", "GETECB", "GETMSG", "WAIT", "DEREGISTER"}

Init ==
  /\ AuthInit /\ native = Apf
  /\ main = [pc |-> "exec", ending |-> FALSE, event |-> "none", rc |-> NoRC, load |-> 0]
  /\ subtask = [pc |-> "none", fn |-> "REGISTER", rc |-> NoRC, msg |-> 0, load |-> 0,
                drained |-> FALSE, abended |-> FALSE]
  /\ info = [known |-> FALSE, thread |-> FALSE, receiving |-> FALSE, joining |-> FALSE,
             stopRunning |-> FALSE, errorRunning |-> FALSE, isRunning |-> FALSE,
             finished |-> FALSE, ecb |-> FALSE, lastRC |-> NoRC]
  /\ queue = [items |-> 0, head |-> 0, tail |-> 0,
              elem |-> [m \in 1..MaxMsgs |-> [dat |-> 0, prev |-> 0, next |-> 0]]]
  /\ nje = [registered |-> FALSE, posted |-> FALSE, stop |-> FALSE, sent |-> 0,
            msgs |-> <<>>, delivered |-> <<>>]

MainGoes(to) == main' = [main EXCEPT !.pc = to]
SubGoes(to) == subtask' = [subtask EXCEPT !.pc = to]

(* A field of the queue is read into a register, to be used in a later step.*)
MainLoads(x, to) == main' = [main EXCEPT !.pc = to, !.load = x]
SubLoads(x, to) == subtask' = [subtask EXCEPT !.pc = to, !.load = x]

(* Back to the exec with an event, for #STOP and #ERROR with _RC; "null" is *)
(* a #MSG without a message.                                                *)
Return(event, rc) ==
  main' = [main EXCEPT !.pc = "exec", !.event = event, !.rc = rc, !.load = 0]

Rac == IF "denied" \in Faults THEN BOOLEAN ELSE {TRUE}

-----------------------------------------------------------------------------
(* The main task: the exec calls a function.                                *)

(* __NJEREGISTER: refused without access to SVC 244 (authAvailable()).      *)
NjeRegister(rac) ==
  /\ main.pc = "exec" /\ ~info.known
  /\ jscbAuth \/ rac
  /\ info' = [info EXCEPT !.known = TRUE]
  /\ UNCHANGED <<authVars, main, subtask, queue, nje>>

(* __NJERECEIVE up to the wait for isRunning. *)
NjeReceive ==
  /\ main.pc = "exec" /\ info.known
  /\ \/ /\ info.stopRunning
        /\ Return("stop", info.lastRC)
        /\ UNCHANGED <<subtask, info>>
     \/ /\ ~info.stopRunning /\ info.errorRunning
        /\ Return("error", info.lastRC)
        /\ UNCHANGED <<subtask, info>>
     \/ /\ ~info.stopRunning /\ ~info.errorRunning
        /\ \/ info.thread /\ UNCHANGED subtask
           \/ ~info.thread /\ subtask' = [subtask EXCEPT !.pc = "park", !.fn = "REGISTER"]
        /\ info' = [info EXCEPT !.receiving = TRUE, !.thread = TRUE]
        /\ main' = [main EXCEPT !.pc = "starting", !.event = "none"]
     \/ /\ ~info.stopRunning /\ ~info.errorRunning
        /\ "attach" \in Faults /\ ~info.thread
        /\ Return("error", "attach failed")
        /\ UNCHANGED <<subtask, info>>
  /\ UNCHANGED <<authVars, queue, nje>>

(* __NJESEND: the NJE38 command runs with the step authorised. *)
NjeSend(rac) ==
  /\ Sends /\ main.pc = "exec"
  /\ AuthTake(send, rac, TRUE)
  /\ main' = [main EXCEPT !.pc = IF TakeGranted(rac, TRUE) THEN "sending" ELSE "exec",
                          !.event = "none"]
  /\ UNCHANGED <<subtask, info, queue, nje>>

NjeSendDone ==
  /\ main.pc = "sending"
  /\ AuthDrop(send)
  /\ MainGoes("exec")
  /\ UNCHANGED <<subtask, info, queue, nje>>

(* Mutant: the subtask may not deregister while it is waited for. *)
NjeDeregisterNoJoining ==
  /\ main.pc = "exec" /\ info.known
  /\ info' = [info EXCEPT !.stopRunning = TRUE]
  /\ main' = [main EXCEPT !.pc = IF info.thread THEN "joining" ELSE "exec",
                          !.event = "none"]
  /\ UNCHANGED <<authVars, subtask, queue, nje>>

(* __NJEDEREGISTER up to the wait for the end of the subtask. *)
NjeDeregister ==
  /\ main.pc = "exec" /\ info.known
  /\ info' = [info EXCEPT !.joining = info.thread, !.stopRunning = TRUE]
  /\ main' = [main EXCEPT !.pc = IF info.thread THEN "joining" ELSE "exec",
                          !.event = "none"]
  /\ UNCHANGED <<authVars, subtask, queue, nje>>

(* Mutant: without RxNjeReset() (#505). *)
ExecEndsNoReset ==
  /\ main.pc = "exec"
  /\ main' = [main EXCEPT !.pc = "noPriv", !.ending = TRUE, !.event = "none"]
  /\ UNCHANGED <<authVars, subtask, info, queue, nje>>

(* The exec ends, or abends wherever it is; both run RxNjeReset().  With a  *)
(* subtask it begins with recvLeave(), for the receive an abend interrupted. *)
ExecEnds ==
  /\ \/ main.pc = "exec"
     \/ "mainAbend" \in Faults /\ ~main.ending /\ main.pc # "ended"
  /\ main' = [main EXCEPT !.pc = IF info.thread THEN "leaving" ELSE "noPriv",
                          !.ending = TRUE, !.event = "none", !.load = 0]
  /\ info' = [info EXCEPT !.receiving = IF info.thread THEN FALSE ELSE @]
  /\ UNCHANGED <<authVars, subtask, queue, nje>>

-----------------------------------------------------------------------------
(* The main task inside __NJERECEIVE. *)

Watching(from) ==
  CASE from = "starting" -> "startWatch"
    [] from = "waiting"  -> "waitWatch"
    [] OTHER             -> "leaveWatch"

(* watchSubtask(), its tests in the order of the code: the flags first ...  *)
WatchFlags(from, at) ==
  /\ main.pc = at
  /\ MainGoes(IF info.thread /\ ~info.finished /\ ~info.errorRunning
              THEN Watching(from) ELSE from)
  /\ UNCHANGED <<authVars, subtask, info, queue, nje>>

(* ... then subtaskEnded(), and the cleanup for a subtask that died.        *)
WatchEnded(from) ==
  /\ main.pc = Watching(from)
  /\ MainGoes(from)
  /\ IF subtask.pc = "ended"
       THEN /\ info' = [info EXCEPT !.lastRC = "abend", !.errorRunning = TRUE]
            /\ AuthDrop(sub)
       ELSE UNCHANGED <<authVars, info>>
  /\ UNCHANGED <<subtask, queue, nje>>

Watch ==
  \/ \E at \in {"starting", "waiting"} : WatchFlags(at, at)
  \/ WatchFlags("leaving", "leaveCheck")
  \/ \E from \in {"starting", "waiting", "leaving"} : WatchEnded(from)

(* The first loop ends when the subtask is up, or after a second; the wait  *)
(* is left out when a message is there or the timeout is below 100 ms.      *)
StartedUp ==
  /\ main.pc = "starting"
  /\ \/ MainGoes("waiting") /\ queue.items = 0 /\ UNCHANGED info
     \/ MainGoes("leaving") /\ info' = [info EXCEPT !.receiving = FALSE]
  /\ UNCHANGED <<authVars, subtask, queue, nje>>

(* The second loop ends with a message, the end of the subtask, or the      *)
(* timeout; recvLeave() begins.                                             *)
WaitOver ==
  /\ main.pc = "waiting"
  /\ MainGoes("leaving")
  /\ info' = [info EXCEPT !.receiving = FALSE]
  /\ UNCHANGED <<authVars, subtask, queue, nje>>

(* Mutant: recvLeave() does not wait for the subtask. *)
LeaveTestNoWait ==
  /\ main.pc = "leaving"
  /\ MainGoes("dropping")
  /\ UNCHANGED <<authVars, subtask, info, queue, nje>>

(* The loop of recvLeave(): while the subtask holds the authorisation, its  *)
(* ECB is posted.  In a step that was authorised anyway it never holds it,  *)
(* so the loop is left at once.                                             *)
LeaveTest ==
  /\ main.pc = "leaving"
  /\ MainGoes(IF held[sub] = 0 THEN "dropping"
              ELSE IF info.ecb /\ ~info.stopRunning /\ ~info.errorRunning THEN "posting"
              ELSE "leaveCheck")
  /\ UNCHANGED <<authVars, subtask, info, queue, nje>>

(* Mutant: the rounds do not end for a subtask that abended. *)
LeaveGivesUpOnHang ==
  /\ main.pc = "leaving" /\ held[sub] # 0 /\ "hang" \in Faults
  /\ MainGoes("dropping")
  /\ UNCHANGED <<authVars, subtask, info, queue, nje>>

(* Its 300 rounds are used up only if NJE38 does not complete a call, or    *)
(* for a subtask that abended when errorRunning was already set, which      *)
(* watchSubtask() passes over.                                              *)
LeaveGivesUp ==
  /\ main.pc = "leaving" /\ held[sub] # 0
  /\ "hang" \in Faults \/ (subtask.pc = "ended" /\ (info.errorRunning \/ info.finished))
  /\ MainGoes("dropping")
  /\ UNCHANGED <<authVars, subtask, info, queue, nje>>

Post ==
  /\ main.pc = "posting"
  /\ MainGoes("leaveCheck")
  /\ nje' = [nje EXCEPT !.posted = TRUE]
  /\ UNCHANGED <<authVars, subtask, info, queue>>

(* The last statement of recvLeave(); RxNjeReset() then asks the subtask to *)
(* end.                                                                     *)
LeaveDrop ==
  /\ main.pc = "dropping"
  /\ AuthDrop(sub)
  /\ IF main.ending
       THEN /\ info' = [info EXCEPT !.joining = TRUE, !.stopRunning = TRUE]
            /\ MainGoes("resetJoin")
       ELSE MainGoes("result") /\ UNCHANGED info
  /\ UNCHANGED <<subtask, queue, nje>>

ReceiveResult ==
  /\ main.pc = "result"
  /\ IF info.stopRunning THEN Return("stop", info.lastRC)
     ELSE IF info.errorRunning THEN Return("error", info.lastRC)
     ELSE IF queue.items > 0 THEN MainGoes("popping")
     ELSE Return("timeout", NoRC)
  /\ UNCHANGED <<authVars, subtask, info, queue, nje>>

(* DQPop(): NULL when there is no tail, although the items were counted.    *)
(* An element is known by the message it was made for, 0 is NULL; what      *)
(* FREE() gives back is not used for another element.                       *)
Pop ==
  /\ main.pc = "popping"
  /\ IF queue.tail = 0
       THEN Return("msg", "null") /\ UNCHANGED <<queue, nje>>
       ELSE LET dat == queue.elem[queue.tail].dat IN
            /\ main' = [main EXCEPT !.pc = "unlink", !.rc = IF dat = 0 THEN "null" ELSE NoRC]
            /\ nje' = [nje EXCEPT !.delivered = IF dat = 0 THEN @ ELSE Append(@, dat)]
            /\ queue' = [queue EXCEPT !.elem[queue.tail].dat = 0]
  /\ UNCHANGED <<authVars, subtask, info>>

(* DQDel() of the tail: the next of the element before it, or the head ...  *)
Unlink ==
  LET e == queue.tail IN
  /\ \/ /\ main.pc = "unlink"
        /\ MainLoads(queue.elem[e].prev, "unlinked")
        /\ UNCHANGED queue
     \/ /\ main.pc = "unlinked"
        /\ queue' = IF main.load # 0
                      THEN [queue EXCEPT !.elem[main.load].next = queue.elem[e].next]
                      ELSE [queue EXCEPT !.head = queue.elem[e].next]
        /\ MainGoes("untail")
  /\ UNCHANGED <<authVars, subtask, info, nje>>

(* ... then the prev of the element after it, or the tail ...               *)
Untail ==
  LET e == queue.tail
      after == queue.elem[e].next
  IN
  /\ \/ /\ main.pc = "untail"
        /\ MainLoads(queue.elem[e].prev, "untailed")
        /\ UNCHANGED queue
     \/ /\ main.pc = "untailed"
        /\ queue' = IF after # 0 THEN [queue EXCEPT !.elem[after].prev = main.load]
                    ELSE [queue EXCEPT !.tail = main.load]
        /\ MainGoes("uncount")
  /\ UNCHANGED <<authVars, subtask, info, nje>>

(* ... and items--, a load and a store.                                     *)
CountDown ==
  /\ \/ /\ main.pc = "uncount"
        /\ MainLoads(queue.items, "uncounted")
        /\ UNCHANGED queue
     \/ /\ main.pc = "uncounted"
        /\ queue' = [queue EXCEPT !.items = main.load - 1]
        /\ Return("msg", main.rc)
  /\ UNCHANGED <<authVars, subtask, info, nje>>

(* joinSubtask() of a subtask that has ended. *)
Joined ==
  /\ main.pc \in {"joining", "resetJoin"}
  /\ subtask.pc = "ended"
  /\ info' = [info EXCEPT !.thread = FALSE, !.joining = FALSE,
                          !.errorRunning = @ \/ ~info.finished,
                          !.lastRC = IF info.finished THEN @ ELSE "abend"]
  /\ AuthDrop(sub)
  /\ MainGoes(IF main.ending THEN "noPriv" ELSE "exec")
  /\ UNCHANGED <<subtask, queue, nje>>

(* RxNjeReset() waits 5 seconds for a subtask that does not end: one whose  *)
(* call NJE38 does not complete, or one in NJE_WAIT that recvLeave() did    *)
(* not post, for it waits without holding the authorisation.                *)
ResetGivesUp ==
  /\ main.pc = "resetJoin" /\ ("hang" \in Faults \/ subtask.pc = "wait")
  /\ AuthDrop(sub)
  /\ MainGoes("noPriv")
  /\ UNCHANGED <<subtask, info, queue, nje>>

RxNoPriv ==
  /\ main.pc = "noPriv" /\ authGen < MaxGen
  /\ AuthReset
  /\ MainGoes("ended")
  /\ UNCHANGED <<subtask, info, queue, nje>>

-----------------------------------------------------------------------------
(* The subtask. *)

(* subtaskTake(), the test: a wait call gives up when the subtask is to end *)
(* and needs a receive, every other call may also run while the main task   *)
(* waits for the end of the subtask.  Otherwise it sleeps and tests again.  *)
MayCall(fn) == IF fn = "WAIT" THEN info.receiving ELSE info.receiving \/ info.joining

Park ==
  /\ subtask.pc = "park"
  /\ \/ /\ subtask.fn = "WAIT" /\ (info.stopRunning \/ info.errorRunning)
        /\ SubGoes("loop")
     \/ /\ ~(subtask.fn = "WAIT" /\ (info.stopRunning \/ info.errorRunning))
        /\ MayCall(subtask.fn)
        /\ SubGoes("take")
  /\ UNCHANGED <<authVars, main, info, queue, nje>>

(* A subtask that is refused goes on with NJE_NOT_AUTH. *)
Take(rac) ==
  /\ subtask.pc = "take"
  /\ AuthTake(sub, rac, TRUE)
  /\ IF TakeGranted(rac, TRUE)
       THEN SubGoes("retest")
       ELSE subtask' = [subtask EXCEPT !.rc = "not authorised",
                                       !.pc = IF subtask.fn = "DEREGISTER" THEN "leave"
                                              ELSE "failed"]
  /\ info' = [info EXCEPT !.errorRunning =
                 @ \/ (~TakeGranted(rac, TRUE) /\ subtask.fn # "DEREGISTER")]
  /\ UNCHANGED <<main, queue, nje>>

(* Mutants: no second test; a second test that does not give back. *)
RetestNone ==
  /\ subtask.pc = "retest"
  /\ SubGoes(IF subtask.fn = "WAIT" THEN "clear" ELSE "call")
  /\ UNCHANGED <<authVars, main, info, queue, nje>>

RetestKeeps ==
  /\ subtask.pc = "retest"
  /\ SubGoes(IF ~MayCall(subtask.fn) THEN "park"
             ELSE IF subtask.fn = "WAIT" THEN "clear" ELSE "call")
  /\ UNCHANGED <<authVars, main, info, queue, nje>>

(* The second test: the main task may have left before it could see the     *)
(* holder.                                                                  *)
Retest ==
  /\ subtask.pc = "retest"
  /\ IF MayCall(subtask.fn)
       THEN /\ SubGoes(IF subtask.fn = "WAIT" THEN "clear" ELSE "call")
            /\ UNCHANGED authVars
       ELSE /\ SubGoes("park")
            /\ AuthDrop(sub)
  /\ UNCHANGED <<main, info, queue, nje>>

(* NJERLY (external).  It cannot be called without the authorisation: the   *)
(* call then abends, see Unauthorised.                                      *)
Njerly(fn, rc) ==
  \/ /\ fn = "REGISTER" /\ rc = NoRC
     /\ nje' = [nje EXCEPT !.registered = TRUE]
     /\ subtask' = [subtask EXCEPT !.pc = "drop", !.rc = rc]
  \/ /\ fn = "GETECB" /\ rc = NoRC
     /\ subtask' = [subtask EXCEPT !.pc = "drop", !.rc = rc]
     /\ UNCHANGED nje
  \/ /\ fn = "GETMSG" /\ rc = NoRC
     /\ IF nje.msgs = <<>>
          THEN subtask' = [subtask EXCEPT !.pc = "drop", !.rc = rc, !.msg = 0] /\ UNCHANGED nje
          ELSE /\ subtask' = [subtask EXCEPT !.pc = "drop", !.rc = rc, !.msg = Head(nje.msgs)]
               /\ nje' = [nje EXCEPT !.msgs = Tail(@)]
  \/ /\ fn = "DEREGISTER" /\ rc = NoRC
     /\ nje' = [nje EXCEPT !.registered = FALSE, !.msgs = <<>>, !.posted = FALSE]
     /\ subtask' = [subtask EXCEPT !.pc = "drop", !.rc = rc]
  \/ /\ "nje" \in Faults /\ rc = "nje error"
     /\ subtask' = [subtask EXCEPT !.pc = "drop", !.rc = rc]
     /\ UNCHANGED nje

Call ==
  /\ subtask.pc = "call" /\ (jscbAuth \/ "hang" \in Faults)
  /\ \E rc \in {NoRC, "nje error"} : Njerly(subtask.fn, rc)
  /\ UNCHANGED <<authVars, main, info, queue>>

(* The end of callNjerly(), and what subtask() does with the return code:   *)
(* a failed REGISTER leaves at once, any other failure deregisters first    *)
(* (Failed); the user's ECB is known from GETECB on.                        *)
Drop ==
  /\ subtask.pc = "drop"
  /\ AuthDrop(sub)
  /\ \/ /\ subtask.fn # "DEREGISTER" /\ subtask.rc # NoRC
        /\ SubGoes("failed")
        /\ info' = [info EXCEPT !.errorRunning = TRUE]
     \/ /\ subtask.fn = "REGISTER" /\ subtask.rc = NoRC
        /\ subtask' = [subtask EXCEPT !.pc = "park", !.fn = "GETECB"]
        /\ UNCHANGED info
     \/ /\ subtask.fn = "GETECB" /\ subtask.rc = NoRC
        /\ subtask' = [subtask EXCEPT !.pc = "park", !.fn = "GETMSG"]
        /\ info' = [info EXCEPT !.ecb = TRUE]
     \/ /\ subtask.fn = "GETMSG" /\ subtask.rc = NoRC /\ subtask.msg # 0
        /\ SubGoes("next")
        /\ UNCHANGED info
     \/ /\ subtask.fn = "GETMSG" /\ subtask.rc = NoRC /\ subtask.msg = 0
        /\ SubGoes("loop")
        /\ info' = [info EXCEPT !.isRunning = TRUE]
     \/ /\ subtask.fn = "DEREGISTER"
        /\ SubGoes("leave")
        /\ UNCHANGED info
  /\ UNCHANGED <<main, queue, nje>>

(* lastRC after errorRunning, then the deregistration, in which nobody      *)
(* posts the ECB.                                                           *)
Failed ==
  /\ subtask.pc = "failed"
  /\ info' = [info EXCEPT !.lastRC = subtask.rc, !.ecb = FALSE, !.isRunning = FALSE]
  /\ subtask' = [subtask EXCEPT !.pc = IF subtask.fn = "REGISTER" THEN "leave" ELSE "park",
                                !.fn = "DEREGISTER"]
  /\ UNCHANGED <<authVars, main, queue, nje>>

(* queueMsg(): DQAdd2Head() fills the new element ...                       *)
NewElem ==
  /\ subtask.pc = "next"
  /\ queue' = [queue EXCEPT !.elem[subtask.msg] =
                 [dat |-> subtask.msg, prev |-> 0, next |-> queue.head]]
  /\ SubGoes("link")
  /\ UNCHANGED <<authVars, main, info, nje>>

(* ... makes it the prev of the head, if there is one ...                   *)
LinkHead ==
  /\ \/ /\ subtask.pc = "link"
        /\ SubLoads(queue.head, "linked")
        /\ UNCHANGED queue
     \/ /\ subtask.pc = "linked"
        /\ queue' = IF subtask.load = 0 THEN queue
                    ELSE [queue EXCEPT !.elem[subtask.load].prev = subtask.msg]
        /\ SubGoes("count")
  /\ UNCHANGED <<authVars, main, info, nje>>

(* ... counts it, a load and a store, before it is linked ...               *)
CountUp ==
  /\ \/ /\ subtask.pc = "count"
        /\ SubLoads(queue.items, "counted")
        /\ UNCHANGED queue
     \/ /\ subtask.pc = "counted"
        /\ queue' = [queue EXCEPT !.items = subtask.load + 1]
        /\ SubGoes("head")
  /\ UNCHANGED <<authVars, main, info, nje>>

(* ... and makes it the head ...                                            *)
SetHead ==
  /\ subtask.pc = "head"
  /\ queue' = [queue EXCEPT !.head = subtask.msg]
  /\ SubGoes("tail")
  /\ UNCHANGED <<authVars, main, info, nje>>

(* ... and the tail, if there is none.  The message that was there before   *)
(* the loop began ends the start-up.                                        *)
SetTail ==
  /\ subtask.pc = "tail"
  /\ queue' = [queue EXCEPT !.tail = IF @ = 0 THEN subtask.msg ELSE @]
  /\ subtask' = [subtask EXCEPT !.msg = 0, !.load = 0,
                                !.pc = IF subtask.fn = "WAIT" THEN "drain" ELSE "loop"]
  /\ info' = [info EXCEPT !.isRunning = @ \/ subtask.fn # "WAIT"]
  /\ UNCHANGED <<authVars, main, nje>>

(* The test of the loop: to end, to sleep, or to wait for messages.         *)
Loop ==
  /\ subtask.pc = "loop"
  /\ \/ /\ info.stopRunning \/ info.errorRunning
        /\ info' = [info EXCEPT !.isRunning = FALSE, !.ecb = FALSE]
        /\ subtask' = [subtask EXCEPT !.pc = "park", !.fn = "DEREGISTER"]
     \/ /\ ~info.stopRunning /\ ~info.errorRunning /\ info.receiving
        /\ subtask' = [subtask EXCEPT !.pc = "park", !.fn = "WAIT", !.drained = FALSE]
        /\ UNCHANGED info
  /\ UNCHANGED <<authVars, main, queue, nje>>

(* Mutant: the ECB is cleared after the first fetch found nothing. *)
DrainThenClear ==
  /\ subtask.pc = "drain" /\ jscbAuth
  /\ \/ /\ subtask.rc # "clear" /\ nje.msgs # <<>>
        /\ subtask' = [subtask EXCEPT !.pc = "next", !.msg = Head(nje.msgs),
                                      !.drained = TRUE]
        /\ nje' = [nje EXCEPT !.msgs = Tail(@)]
     \/ /\ subtask.rc # "clear" /\ nje.msgs = <<>>
        /\ subtask' = IF subtask.rc = "none" /\ ~subtask.drained
                        THEN [subtask EXCEPT !.rc = "clear"]
                        ELSE [subtask EXCEPT !.pc = "waitDrop", !.rc = NoRC]
        /\ UNCHANGED nje
     \/ /\ subtask.rc = "clear"
        /\ SubGoes("wait")
        /\ nje' = [nje EXCEPT !.posted = FALSE]
  /\ UNCHANGED <<authVars, main, info, queue>>

(* The ECB is cleared before the messages are fetched. *)
Clear ==
  /\ subtask.pc = "clear"
  /\ nje' = [nje EXCEPT !.posted = FALSE]
  /\ subtask' = [subtask EXCEPT !.pc = "drain", !.drained = FALSE, !.rc = "none"]
  /\ UNCHANGED <<authVars, main, info, queue>>

(* drainMessages(), before NJE_WAIT (rc "none") and after one that returned *)
(* 0.  If the first finds a message, NJE_WAIT is left out.                  *)
Drain ==
  /\ subtask.pc = "drain" /\ jscbAuth
  /\ \/ /\ nje.msgs # <<>>
        /\ subtask' = [subtask EXCEPT !.pc = "next", !.msg = Head(nje.msgs),
                                      !.drained = TRUE]
        /\ nje' = [nje EXCEPT !.msgs = Tail(@)]
     \/ /\ nje.msgs = <<>> \/ "nje" \in Faults
        /\ IF subtask.rc = "none" /\ ~subtask.drained
             THEN SubGoes("wait")
             ELSE subtask' = [subtask EXCEPT !.pc = "waitDrop", !.rc = NoRC]
        /\ UNCHANGED nje
  /\ UNCHANGED <<authVars, main, info, queue>>

(* NJE_WAIT (external) returns when the ECB is posted, 8 when NJE38 has     *)
(* stopped, 0 when it has messages, 32 when somebody else posted.  A stop   *)
(* ends it also if Clear removed the post.                                  *)
Wait(rc) ==
  /\ subtask.pc = "wait" /\ (nje.posted \/ nje.stop)
  /\ \/ rc = "stop 8" /\ nje.stop
     \/ rc = NoRC /\ ~nje.stop /\ nje.msgs # <<>>
     \/ rc = "posted 32" /\ ~nje.stop
     \/ rc = "nje error" /\ "nje" \in Faults
  /\ subtask' = [subtask EXCEPT !.pc = IF rc = NoRC THEN "drain" ELSE "waitDrop", !.rc = rc]
  /\ UNCHANGED <<authVars, main, info, queue, nje>>

WaitDrop ==
  /\ subtask.pc = "waitDrop"
  /\ AuthDrop(sub)
  /\ \/ /\ subtask.rc = "stop 8"
        /\ SubGoes("stopped")
        /\ info' = [info EXCEPT !.stopRunning = TRUE]
     \/ /\ subtask.rc = "posted 32"
        /\ SubGoes("loop")
        /\ info' = [info EXCEPT !.lastRC = IF info.stopRunning THEN "posted 32" ELSE @]
     \/ /\ subtask.rc = "nje error"
        /\ SubGoes("failed")
        /\ info' = [info EXCEPT !.errorRunning = TRUE]
     \/ /\ subtask.rc = NoRC
        /\ SubGoes("loop")
        /\ UNCHANGED info
  /\ UNCHANGED <<main, queue, nje>>

Stopped ==
  /\ subtask.pc = "stopped"
  /\ info' = [info EXCEPT !.lastRC = "stop 8"]
  /\ SubGoes("loop")
  /\ UNCHANGED <<authVars, main, queue, nje>>

Leave ==
  /\ subtask.pc = "leave"
  /\ \/ ~info.finished /\ info' = [info EXCEPT !.finished = TRUE] /\ UNCHANGED subtask
     \/ info.finished /\ SubGoes("ended") /\ UNCHANGED info
  /\ UNCHANGED <<authVars, main, queue, nje>>

(* njeSubtaskFailed(): MALLOC in queueMsg() or in DQAdd2Head() fails.  The   *)
(* deregistration uses the authorisation the subtask has, if it has it.     *)
OutOfMemory ==
  /\ "oom" \in Faults /\ subtask.pc = "next"
  /\ info' = [info EXCEPT !.lastRC = "out of memory", !.errorRunning = TRUE,
                          !.isRunning = FALSE, !.ecb = FALSE]
  /\ subtask' = [subtask EXCEPT !.pc = IF held[sub] # 0 THEN "call" ELSE "park",
                                !.fn = "DEREGISTER", !.msg = 0]
  /\ UNCHANGED <<authVars, main, queue, nje>>

(* An abend in NJERLY or while a message is queued, which the thread        *)
(* recovery keeps from the main task.                                       *)
SubEnds == subtask' = [subtask EXCEPT !.pc = "ended", !.abended = TRUE, !.load = 0]

SubAbend ==
  /\ "subAbend" \in Faults /\ subtask.pc \in {"call", "drain", "wait"} \cup AddPCs
  /\ SubEnds
  /\ UNCHANGED <<authVars, main, info, queue, nje>>

(* NJERLY without the authorisation: S102, S047 or SA03. *)
Unauthorised ==
  /\ subtask.pc \in {"call", "drain"} /\ ~jscbAuth
  /\ SubEnds
  /\ UNCHANGED <<authVars, main, info, queue, nje>>

-----------------------------------------------------------------------------
(* NJE38 (external): a message for the registered user, and its stop; both  *)
(* post the ECB.                                                            *)
MessageArrives ==
  /\ nje.registered /\ ~nje.stop /\ nje.sent < MaxMsgs
  /\ nje' = [nje EXCEPT !.sent = @ + 1, !.msgs = Append(@, nje.sent + 1), !.posted = TRUE]
  /\ UNCHANGED <<authVars, main, subtask, info, queue>>

Nje38Stops ==
  /\ "stop" \in Faults /\ nje.registered /\ ~nje.stop
  /\ nje' = [nje EXCEPT !.stop = TRUE, !.posted = TRUE]
  /\ UNCHANGED <<authVars, main, subtask, info, queue>>

-----------------------------------------------------------------------------
(* The exec decides what to call; everything else the main task does by     *)
(* itself.                                                                  *)
Exec ==
  \/ \E rac \in Rac : NjeRegister(rac) \/ NjeSend(rac)
  \/ NjeReceive \/ NjeDeregister \/ ExecEnds

MainGoesOn ==
  \/ NjeSendDone \/ Watch \/ StartedUp \/ WaitOver \/ LeaveTest \/ LeaveGivesUp \/ Post \/ LeaveDrop
  \/ ReceiveResult \/ Pop \/ Unlink \/ Untail \/ CountDown \/ Joined \/ ResetGivesUp \/ RxNoPriv

SubtaskGoesOn ==
  \/ Park \/ (\E rac \in Rac : Take(rac)) \/ Retest \/ Call \/ Drop \/ Failed
  \/ NewElem \/ LinkHead \/ CountUp \/ SetHead \/ SetTail \/ Loop \/ Clear \/ Drain
  \/ (\E rc \in RCs : Wait(rc)) \/ WaitDrop \/ Stopped \/ Leave
  \/ OutOfMemory \/ Unauthorised

(* A subtask that is left when BREXX ends is abended by MVS (A03). *)
Subtask == main.pc # "ended" /\ SubtaskGoesOn

(* BREXX has ended. *)
Terminated == main.pc = "ended" /\ UNCHANGED vars

Next ==
  \/ Exec \/ MainGoesOn \/ Subtask \/ SubAbend
  \/ MessageArrives \/ Nje38Stops \/ Terminated

Spec == Init /\ [][Next]_vars

-----------------------------------------------------------------------------
TypeOK ==
  /\ AuthTypeOK
  /\ main \in [pc : MainPCs, ending : BOOLEAN, event : Events, rc : RCs, load : Int]
  /\ subtask \in [pc : SubPCs, fn : Funcs, rc : RCs \cup {"none"}, msg : 0..MaxMsgs,
                  load : Int, drained : BOOLEAN, abended : BOOLEAN]
  /\ info \in [known : BOOLEAN, thread : BOOLEAN, receiving : BOOLEAN, joining : BOOLEAN,
               stopRunning : BOOLEAN, errorRunning : BOOLEAN, isRunning : BOOLEAN,
               finished : BOOLEAN, ecb : BOOLEAN, lastRC : RCs]
  /\ queue \in [items : Int, head : 0..MaxMsgs, tail : 0..MaxMsgs,
                elem : [1..MaxMsgs -> [dat : 0..MaxMsgs, prev : 0..MaxMsgs, next : 0..MaxMsgs]]]
  /\ nje.sent \in 0..MaxMsgs /\ nje.msgs \in Seq(1..MaxMsgs)
  /\ nje.delivered \in Seq(1..MaxMsgs)

(* While the exec runs, or takes a message from the DQueue (which has no    *)
(* lock), the subtask holds the authorisation at most between a take that   *)
(* came too late and the test that follows it: no NJERLY call that holds    *)
(* it, and no queueMsg() of one, overlaps with the exec.                    *)
ExecAuthorisedBriefly ==
  /\ main.pc \in {"exec", "result"} \cup PopPCs /\ held[sub] # 0 => subtask.pc = "retest"
  /\ main.pc = "exec" /\ jscbAuth /\ ~native => subtask.pc = "retest"

(* When the exec has ended, normally or by an abend, the subtask has ended  *)
(* before and the step is authorised only if it was at the start (#505).    *)
AuthGivenBack ==
  main.pc = "ended" => jscbAuth = native /\ subtask.pc \in {"none", "ended"}

(* recvLeave() posts no ECB of a user who is deregistered: the storage is   *)
(* NJE38's again.  It reads nje_ecb and the flags before it posts.          *)
PostOnlyRegistered == main.pc = "posting" => nje.registered \/ subtask.pc = "ended"

(* A message that comes between the fetches and NJE_WAIT is not slept on:   *)
(* clearing the ECB, which drops the stale post of the last receive, never  *)
(* drops the post of a message that nobody has fetched.                     *)
NoLostWakeup == subtask.pc = "wait" /\ nje.msgs # <<>> => nje.posted

(* What holds of the two tasks and the ECB between them. *)
NjeInv == TypeOK /\ PostOnlyRegistered /\ NoLostWakeup

(* The DQueue is the list of the messages first..last, the first its tail.  *)
QueueHolds(first, last) ==
  /\ queue.items = last + 1 - first
  /\ queue.head = IF first > last THEN 0 ELSE last
  /\ queue.tail = IF first > last THEN 0 ELSE first
  /\ \A m \in first..last :
       queue.elem[m] = [dat |-> m, prev |-> IF m = last THEN 0 ELSE m + 1,
                        next |-> IF m = first THEN 0 ELSE m - 1]

(* The message the subtask has fetched, and those NJE38 still has. *)
Rest == (IF subtask.msg = 0 THEN <<>> ELSE <<subtask.msg>>) \o nje.msgs

(* Although the DQueue has no lock, the messages NJE38 got reach the exec   *)
(* in their order, none twice and none left out, and when neither task is   *)
(* inside dqueue.c its count and its links are those of what it holds; the  *)
(* unfetched rest is lost only with the registration, a fetched message     *)
(* only with the subtask.  The protocol keeps a pop that found a message    *)
(* from overlapping with an add - as long as recvLeave() does not give up   *)
(* and the subtask has a flag of its own to wait for.                       *)
MessagesInOrder ==
  LET d == Len(nje.delivered)
      last == IF queue.head = 0 THEN d ELSE queue.head
  IN
  /\ \A i \in 1..d : nje.delivered[i] = i
  /\ /\ ~subtask.abended /\ ~main.ending
     /\ subtask.pc \notin AddPCs /\ main.pc \notin PopPCs
     => QueueHolds(d + 1, last)
        /\ (~info.errorRunning =>
              /\ \A i \in 1..Len(Rest) : Rest[i] = last + i
              /\ nje.registered => last + Len(Rest) = nje.sent)

(* The two tasks keep the contract of the counter, so what is proved of     *)
(* Authorisation holds here.                                                *)
KeepsAuthContract == AuthSpec

-----------------------------------------------------------------------------
(* Statements of comments, documentation and tests that the code misses.    *)

(* subtaskTake() "returns 0 with the authorization held" (rxnje.c:651)      *)
TakeReturnsHeld == subtask.pc \in {"call", "clear"} => native \/ held[sub] = authGen

(* NJE_SUBTASK_ABEND: "the subtask ended by an abend" (rxnje.h:20)          *)
AbendIsReal == info.lastRC = "abend" => subtask.abended

(* #MSG comes with "_DATA: the text of a message" (docs/books/ref/ext-nje)  *)
MsgEventHasData == main.event = "msg" => main.rc = NoRC

-----------------------------------------------------------------------------
(* Each task goes on with what it has begun; the loops of __NJERECEIVE are  *)
(* counted, so their ends come although watching is possible for ever.      *)
Fairness ==
  /\ WF_vars(Subtask)
  /\ WF_vars(MainGoesOn)
  /\ SF_vars(StartedUp) /\ SF_vars(WaitOver) /\ SF_vars(LeaveGivesUp)

FairSpec == Spec /\ Fairness

(* Every __NJERECEIVE returns. *)
ReceiveReturns == InReceive /\ ~main.ending ~> main.pc = "exec" \/ main.ending

(* __NJEDEREGISTER returns: the subtask always gets as far as its end, and  *)
(* joinSubtask() does not wait for ever.                                    *)
DeregisterReturns == main.pc = "joining" ~> main.pc # "joining"
CallsReturn == ReceiveReturns /\ DeregisterReturns

(* The end of the exec is reached, whatever the subtask does. *)
EndIsReached == main.ending ~> main.pc = "ended"
==============================================================================
