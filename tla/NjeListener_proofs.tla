------------------------- MODULE NjeListener_proofs -------------------------
(***************************************************************************)
(* Proofs about NjeListener, for any number of messages, of generations    *)
(* and of other holders, and whatever goes wrong unless a theorem says     *)
(* otherwise.                                                              *)
(*                                                                         *)
(* Every statement rests on one fact of the protocol: what the flags       *)
(* receiving and joining say of where the main task is, and the flag       *)
(* authHeld of where the subtask is.  A subtask that may not call does not *)
(* get past the test after its take.                                       *)
(***************************************************************************)
EXTENDS NjeListener, Authorisation_proofs

(* Messages, pointers to their elements (0 is NULL) and counts.             *)
Msgs == 1..MaxMsgs
Refs == 0..MaxMsgs
Numbers == Int

(* The records. *)
MainRec == [pc : MainPCs, ending : BOOLEAN, event : Events, rc : RCs, load : Numbers]
SubRec == [pc : SubPCs, fn : Funcs, rc : RCs \cup {"none"}, msg : Refs, load : Numbers,
           drained : BOOLEAN, abended : BOOLEAN]
InfoRec == [known : BOOLEAN, thread : BOOLEAN, receiving : BOOLEAN, joining : BOOLEAN,
            stopRunning : BOOLEAN, errorRunning : BOOLEAN, isRunning : BOOLEAN,
            finished : BOOLEAN, ecb : BOOLEAN, lastRC : RCs]
ElemRec == [dat : Refs, prev : Refs, next : Refs]
QueueRec == [items : Numbers, head : Refs, tail : Refs, elem : [Msgs -> ElemRec]]
NjeRec == [registered : BOOLEAN, posted : BOOLEAN, stop : BOOLEAN, sent : Refs,
           msgs : Seq(Msgs), delivered : Seq(Msgs)]
Shape == main \in MainRec /\ subtask \in SubRec /\ info \in InfoRec
         /\ queue \in QueueRec /\ nje \in NjeRec

(* Where the main task is when it ends, receives or joins; while it takes   *)
(* the tail of the queue away, there is one.                                *)
MainInv ==
  /\ main.ending => main.pc \in {"leaving", "posting", "leaveCheck", "leaveWatch", "dropping",
                                 "resetJoin", "noPriv", "ended"}
  /\ main.pc \in {"resetJoin", "noPriv", "ended"} => main.ending
  /\ info.receiving =>
       info.thread /\ main.pc \in {"starting", "startWatch", "waiting", "waitWatch"}
  /\ info.joining => info.stopRunning /\ (main.pc = "joining" \/ main.ending)
  /\ main.pc \in {"joining", "resetJoin"} => info.stopRunning
  /\ ~info.thread => subtask.pc = "none" \/ (subtask.pc = "ended" /\ info.stopRunning)
  /\ main.pc \in {"unlink", "unlinked", "untail", "untailed"} => queue.tail # 0
  /\ main.pc = "untailed" => main.load \in Refs

(* Which function the subtask is about. *)
SubInv ==
  /\ subtask.pc = "none" => subtask.fn = "REGISTER"
  /\ subtask.pc \in {"clear", "drain", "wait", "waitDrop"} => subtask.fn = "WAIT"
  /\ subtask.pc \in AddPCs \cup {"loop", "stopped"} => subtask.fn \in {"GETMSG", "WAIT"}
  /\ subtask.pc \in {"call", "drop"} => subtask.fn # "WAIT"
  /\ subtask.pc = "drop" => subtask.rc \in {NoRC, "nje error"}
  /\ subtask.pc = "failed" => subtask.rc \in RCs
  /\ subtask.pc \in AddPCs => subtask.msg # 0
  /\ subtask.msg # 0 => subtask.pc \in AddPCs \cup {"drop", "ended"}
  /\ subtask.pc = "drop" /\ subtask.msg # 0 => subtask.fn = "GETMSG" /\ subtask.rc = NoRC
  /\ subtask.fn \in {"GETECB", "GETMSG", "WAIT"} => nje.registered
  /\ subtask.pc = "drop" /\ subtask.fn = "REGISTER" /\ subtask.rc = NoRC => nje.registered
  /\ info.ecb => subtask.fn \in {"GETMSG", "WAIT"}

(* The flags of the counter: nobody else takes, __NJESEND holds only while  *)
(* it runs (or was thrown away), and the subtask only on its way from a     *)
(* take to a drop; while the exec runs, no further than its second test.    *)
HeldInv ==
  /\ \A h \in Holders \ {sub, send} : held[h] = 0
  /\ ~main.ending /\ main.pc # "sending" => held[send] = 0
  /\ held[sub] # 0 =>
       /\ info.thread
       /\ subtask.pc \in AddPCs \cup {"retest", "call", "drop", "clear", "drain", "wait",
                                      "waitDrop", "ended"}
       /\ subtask.pc \in AddPCs => subtask.fn = "WAIT"
       /\ main.pc \in PopPCs \cup {"exec", "sending", "result"} => subtask.pc = "retest"

(* While recvLeave() is about to post, the subtask does not get as far as   *)
(* the call that deregisters - unless it runs out of memory.                *)
PostInv ==
  "oom" \notin Faults /\ main.pc = "posting" =>
    /\ ~info.receiving /\ ~info.joining /\ nje.registered
    /\ subtask.fn \in {"GETMSG", "WAIT"}
       \/ (subtask.fn = "DEREGISTER" /\ subtask.pc = "park")

(* A message that is not fetched has posted - unless NJE38 refused a fetch. *)
WakeInv == "nje" \notin Faults => NoLostWakeup

(* In a step that nothing authorises but the subtask, and with an NJE38     *)
(* that completes its calls: a subtask that has come to NJE_WAIT holds the  *)
(* authorisation, so recvLeave() does not end before it has woken it up;    *)
(* after that the subtask does not come there again.                        *)
EndInv ==
  ~Apf /\ ~Sends /\ "hang" \notin Faults =>
    /\ ~native /\ held[send] = 0
    /\ subtask.fn = "WAIT" /\ subtask.pc \in AddPCs \cup {"wait", "waitDrop"}
         => held[sub] # 0
    /\ subtask.fn = "WAIT" /\ held[sub] # 0
         /\ main.pc \in {"dropping", "resetJoin", "noPriv", "ended"}
       => subtask.pc \in {"retest", "ended"}
    /\ main.pc \in {"noPriv", "ended"} => subtask.pc \in {"none", "ended"}

(* The inductive invariant, of the two tasks and with the counter.          *)
TasksInv == Shape /\ MainInv /\ SubInv /\ HeldInv /\ PostInv /\ WakeInv /\ EndInv
NjeIndInv == AuthInv /\ TasksInv

LEMMA RefsAre ==
  /\ 0 \in Refs /\ 0 \in Numbers
  /\ \A m \in Msgs : m \in Refs /\ m \in Numbers /\ m # 0
  /\ \A r \in Refs : r \in Numbers /\ (r # 0 => r \in Msgs)
  /\ \A n \in Numbers : n + 1 \in Numbers /\ n - 1 \in Numbers
BY MaxMsgsNat DEF Msgs, Refs, Numbers

-----------------------------------------------------------------------------
(* What the common steps do to the fields the invariant speaks of.          *)
MainIs(pc, ending) == main' \in MainRec /\ main'.pc = pc /\ main'.ending = ending

SubIs(pc, fn, rc, msg) ==
  /\ subtask' \in SubRec
  /\ subtask'.pc = pc /\ subtask'.fn = fn /\ subtask'.rc = rc /\ subtask'.msg = msg

InfoIs(thread, receiving, joining, stopRunning, errorRunning, ecb) ==
  /\ info' \in InfoRec
  /\ info'.thread = thread /\ info'.receiving = receiving /\ info'.joining = joining
  /\ info'.stopRunning = stopRunning /\ info'.errorRunning = errorRunning /\ info'.ecb = ecb

NjeIs(registered, posted, sent, msgs, delivered) ==
  /\ nje' \in NjeRec
  /\ nje'.registered = registered /\ nje'.posted = posted /\ nje'.sent = sent
  /\ nje'.msgs = msgs /\ nje'.delivered = delivered

LEMMA MainMoves ==
  ASSUME Shape, NEW to \in MainPCs, MainGoes(to)
  PROVE  MainIs(to, main.ending)
BY DEF Shape, MainRec, MainGoes, MainIs

LEMMA Returns ==
  ASSUME Shape, NEW event \in Events, NEW rc \in RCs, Return(event, rc)
  PROVE  MainIs("exec", main.ending)
BY RefsAre DEF Shape, MainRec, Return, MainIs, MainPCs

LEMMA SubMoves ==
  ASSUME Shape, NEW to \in SubPCs, SubGoes(to)
  PROVE  SubIs(to, subtask.fn, subtask.rc, subtask.msg)
BY DEF Shape, SubRec, SubGoes, SubIs

(* A drop takes the flag away, a refused take leaves none.                  *)
LEMMA DropHeld ==
  ASSUME AuthInv, NEW h \in Holders, AuthDrop(h)
  PROVE  native' = native /\ held'[h] = 0 /\ \A g \in Holders \ {h} : held'[g] = held[g]
BY DEF AuthInv, AuthTypeOK, AuthDrop

LEMMA TakeHeld ==
  ASSUME AuthInv, NEW h \in Holders, NEW rac, AuthTake(h, rac, TRUE)
  PROVE  /\ native' = native /\ \A g \in Holders \ {h} : held'[g] = held[g]
         /\ ~TakeGranted(rac, TRUE) => held'[h] = 0
BY DEF AuthInv, AuthTypeOK, AuthTake

(* An assignment to a field of an element, wherever the pointer goes.       *)
LEMMA ElemTyped ==
  ASSUME NEW q \in QueueRec, NEW m, NEW x \in Refs
  PROVE  /\ [q EXCEPT !.elem[m].dat = x] \in QueueRec
         /\ [q EXCEPT !.elem[m].prev = x] \in QueueRec
         /\ [q EXCEPT !.elem[m].next = x] \in QueueRec
BY DEF QueueRec, ElemRec

(* A fetch: the first message NJE38 has goes to the subtask.                *)
LEMMA Fetches ==
  ASSUME Shape, nje.msgs # <<>>, nje' = [nje EXCEPT !.msgs = Tail(@)]
  PROVE  /\ Head(nje.msgs) \in Msgs /\ Head(nje.msgs) # 0
         /\ NjeIs(nje.registered, nje.posted, nje.sent, Tail(nje.msgs), nje.delivered)
<1>1. nje.msgs \in Seq(Msgs)
  BY DEF Shape, NjeRec
<1>2. Head(nje.msgs) \in Msgs
  BY <1>1
<1> DEFINE rest == Tail(nje.msgs)
<1>3. rest \in Seq(Msgs) /\ nje' = [nje EXCEPT !.msgs = rest]
  BY <1>1
<1> HIDE DEF rest
<1>4. NjeIs(nje.registered, nje.posted, nje.sent, rest, nje.delivered)
  BY <1>3 DEF Shape, NjeRec, NjeIs
<1> QED
  BY <1>2, <1>4, RefsAre DEF rest

(* In a step that only the subtask can have authorised, it holds the        *)
(* authorisation while the step has it.                                     *)
LEMMA OnlySubHolds ==
  ASSUME AuthInv, HeldInv, jscbAuth, ~native, held[send] = 0
  PROVE  held[sub] # 0
<1>1. CurrentHolders # {} /\ authGen # 0
  BY DEF AuthInv, AuthTypeOK, SwitchedWhileHeld
<1>2. PICK h \in Holders : held[h] # 0
  BY <1>1 DEF CurrentHolders
<1> QED
  BY <1>2 DEF HeldInv

-----------------------------------------------------------------------------
LEMMA TasksInit ==
  ASSUME Init
  PROVE  NjeIndInv
<1>1. Shape
  <2>1. main \in MainRec /\ subtask \in SubRec
    BY RefsAre DEF Init, MainRec, SubRec, MainPCs, SubPCs, Funcs, RCs, NoRC, Events
  <2>2. info \in InfoRec /\ nje \in NjeRec
    BY RefsAre DEF Init, InfoRec, NjeRec, RCs, NoRC
  <2>3. queue \in QueueRec
    BY RefsAre DEF Init, QueueRec, ElemRec, Msgs
  <2> QED
    BY <2>1, <2>2, <2>3 DEF Shape
<1>2. AuthInv
  BY InitInv DEF Init
<1>3. \A h \in Holders : held[h] = 0
  BY DEF Init, AuthInit
<1>4. MainInv /\ SubInv /\ HeldInv
  BY <1>3, SubAndSend DEF Init, MainInv, SubInv, HeldInv, AddPCs, PopPCs
<1>5. PostInv /\ WakeInv /\ EndInv
  BY <1>3, SubAndSend DEF Init, PostInv, WakeInv, NoLostWakeup, EndInv
<1> QED
  BY <1>1, <1>2, <1>4, <1>5 DEF NjeIndInv, TasksInv

-----------------------------------------------------------------------------
(* The steps of the main task.                                              *)

LEMMA RegisterKeeps ==
  ASSUME NjeIndInv, NEW rac, NjeRegister(rac)
  PROVE  TasksInv'
<1> USE DEF NjeIndInv, TasksInv, AddPCs, PopPCs
<1>1. /\ InfoIs(info.thread, info.receiving, info.joining, info.stopRunning,
                info.errorRunning, info.ecb)
      /\ UNCHANGED <<native, held, main, subtask, queue, nje>>
  BY DEF Shape, InfoRec, InfoIs, NjeRegister, authVars
<1>2. Shape' /\ MainInv'
  BY <1>1 DEF InfoIs, Shape, MainInv
<1>3. SubInv'
  BY <1>1 DEF InfoIs, SubInv, MainInv
<1>4. HeldInv' /\ EndInv'
  BY <1>1 DEF InfoIs, HeldInv, EndInv, MainInv, SubInv
<1>5. PostInv' /\ WakeInv'
  BY <1>1 DEF InfoIs, PostInv, WakeInv, NoLostWakeup, MainInv, SubInv
<1> QED
  BY <1>2, <1>3, <1>4, <1>5

LEMMA ReceiveKeeps ==
  ASSUME NjeIndInv, NjeReceive
  PROVE  TasksInv'
<1> USE DEF NjeIndInv, TasksInv, AddPCs, PopPCs
<1>1. /\ UNCHANGED <<native, held, queue, nje>>
      /\ main.pc = "exec"
  BY DEF NjeReceive, authVars
<1>2. CASE /\ Return("stop", info.lastRC) \/ Return("error", info.lastRC) \/ Return("error", "attach failed")
           /\ UNCHANGED <<subtask, info>>
  <2>1. /\ UNCHANGED <<subtask, info>>
        /\ MainIs("exec", main.ending)
    BY <1>2, Returns DEF Shape, InfoRec, Events, RCs
  <2>2. Shape' /\ MainInv'
    BY <1>1, <1>2, <2>1 DEF MainIs, Shape, MainInv
  <2>3. SubInv'
    BY <1>1, <1>2, <2>1 DEF MainIs, SubInv, MainInv
  <2>4. HeldInv' /\ EndInv'
    BY <1>1, <1>2, <2>1 DEF MainIs, HeldInv, EndInv, MainInv, SubInv
  <2>5. PostInv' /\ WakeInv'
    BY <1>1, <1>2, <2>1 DEF MainIs, PostInv, WakeInv, NoLostWakeup, MainInv, SubInv
  <2> QED
    BY <2>2, <2>3, <2>4, <2>5
<1>3. CASE /\ info.thread /\ UNCHANGED subtask
           /\ ~info.stopRunning /\ ~info.errorRunning
           /\ info' = [info EXCEPT !.receiving = TRUE, !.thread = TRUE]
           /\ main' = [main EXCEPT !.pc = "starting", !.event = "none"]
  <2>1. /\ ~info.stopRunning /\ ~info.errorRunning
        /\ MainIs("starting", main.ending)
        /\ InfoIs(TRUE, TRUE, info.joining, FALSE, FALSE, info.ecb)
        /\ info.thread
        /\ UNCHANGED subtask
    BY <1>3 DEF Shape, InfoRec, MainRec, MainPCs, Events, InfoIs, MainIs
  <2>2. Shape' /\ MainInv'
    BY <1>1, <2>1 DEF MainIs, InfoIs, Shape, MainInv
  <2>3. SubInv'
    BY <1>1, <2>1 DEF MainIs, InfoIs, SubInv, MainInv
  <2>4. HeldInv' /\ EndInv'
    BY <1>1, <2>1 DEF MainIs, InfoIs, HeldInv, EndInv, MainInv, SubInv
  <2>5. PostInv' /\ WakeInv'
    BY <1>1, <2>1 DEF MainIs, InfoIs, PostInv, WakeInv, NoLostWakeup, MainInv, SubInv
  <2> QED
    BY <2>2, <2>3, <2>4, <2>5
<1>4. CASE /\ ~info.thread /\ subtask' = [subtask EXCEPT !.pc = "park", !.fn = "REGISTER"]
           /\ ~info.stopRunning /\ ~info.errorRunning
           /\ info' = [info EXCEPT !.receiving = TRUE, !.thread = TRUE]
           /\ main' = [main EXCEPT !.pc = "starting", !.event = "none"]
  <2>1. /\ ~info.stopRunning /\ ~info.errorRunning
        /\ MainIs("starting", main.ending)
        /\ InfoIs(TRUE, TRUE, info.joining, FALSE, FALSE, info.ecb)
        /\ ~info.thread
        /\ SubIs("park", "REGISTER", subtask.rc, subtask.msg)
    BY <1>4 DEF Shape, InfoRec, MainRec, SubRec, MainPCs, SubPCs, Funcs, Events, InfoIs,
       MainIs, SubIs
  <2>2. Shape' /\ MainInv'
    BY <1>1, <2>1 DEF MainIs, SubIs, InfoIs, Shape, MainInv
  <2>3. SubInv'
    BY <1>1, <2>1 DEF MainIs, SubIs, InfoIs, SubInv, MainInv
  <2>4. HeldInv' /\ EndInv'
    BY <1>1, <2>1 DEF MainIs, SubIs, InfoIs, HeldInv, EndInv, MainInv, SubInv
  <2>5. PostInv' /\ WakeInv'
    BY <1>1, <2>1 DEF MainIs, SubIs, InfoIs, PostInv, WakeInv, NoLostWakeup, MainInv, SubInv
  <2> QED
    BY <2>2, <2>3, <2>4, <2>5
<1> QED
  BY <1>1, <1>2, <1>3, <1>4 DEF NjeReceive

LEMMA SendKeeps ==
  ASSUME NjeIndInv, NEW rac, NjeSend(rac)
  PROVE  TasksInv'
<1> USE DEF NjeIndInv, TasksInv, AddPCs, PopPCs
<1>1. /\ UNCHANGED <<subtask, info, queue, nje>>
      /\ Sends
      /\ main.pc = "exec"
      /\ native' = native
      /\ \A h \in Holders \ {send} : held'[h] = held[h]
      /\ ~TakeGranted(rac, TRUE) => held'[send] = 0
  BY TakeHeld, SubAndSend DEF NjeSend
<1>2. CASE TakeGranted(rac, TRUE)
  <2>1. /\ MainIs("sending", main.ending)
    BY <1>2 DEF NjeSend, Shape, MainRec, MainPCs, Events, MainIs
  <2>2. Shape' /\ MainInv'
    BY <1>1, <1>2, <2>1 DEF MainIs, Shape, MainInv
  <2>3. SubInv'
    BY <1>1, <1>2, <2>1 DEF MainIs, SubInv, MainInv
  <2>4. HeldInv' /\ EndInv'
    BY <1>1, <1>2, <2>1, SubAndSend DEF MainIs, HeldInv, EndInv, MainInv, SubInv
  <2>5. PostInv' /\ WakeInv'
    BY <1>1, <1>2, <2>1 DEF MainIs, PostInv, WakeInv, NoLostWakeup, MainInv, SubInv
  <2> QED
    BY <2>2, <2>3, <2>4, <2>5
<1>3. CASE ~TakeGranted(rac, TRUE)
  <2>1. /\ MainIs("exec", main.ending)
        /\ held'[send] = 0
    BY <1>1, <1>3 DEF NjeSend, Shape, MainRec, MainPCs, Events, MainIs
  <2>2. Shape' /\ MainInv'
    BY <1>1, <1>3, <2>1 DEF MainIs, Shape, MainInv
  <2>3. SubInv'
    BY <1>1, <1>3, <2>1 DEF MainIs, SubInv, MainInv
  <2>4. HeldInv' /\ EndInv'
    BY <1>1, <1>3, <2>1, SubAndSend DEF MainIs, HeldInv, EndInv, MainInv, SubInv
  <2>5. PostInv' /\ WakeInv'
    BY <1>1, <1>3, <2>1 DEF MainIs, PostInv, WakeInv, NoLostWakeup, MainInv, SubInv
  <2> QED
    BY <2>2, <2>3, <2>4, <2>5
<1> QED
  BY <1>1, <1>2, <1>3

LEMMA SendDoneKeeps ==
  ASSUME NjeIndInv, NjeSendDone
  PROVE  TasksInv'
<1> USE DEF NjeIndInv, TasksInv, AddPCs, PopPCs
<1>1. /\ UNCHANGED <<subtask, info, queue, nje>>
      /\ main.pc = "sending"
      /\ MainIs("exec", main.ending)
      /\ native' = native
      /\ held'[send] = 0
      /\ \A h \in Holders \ {send} : held'[h] = held[h]
  BY DropHeld, MainMoves, SubAndSend DEF NjeSendDone, MainPCs
<1>2. Shape' /\ MainInv'
  BY <1>1 DEF MainIs, Shape, MainInv
<1>3. SubInv'
  BY <1>1 DEF MainIs, SubInv, MainInv
<1>4. HeldInv' /\ EndInv'
  BY <1>1, SubAndSend DEF MainIs, HeldInv, EndInv, MainInv, SubInv
<1>5. PostInv' /\ WakeInv'
  BY <1>1 DEF MainIs, PostInv, WakeInv, NoLostWakeup, MainInv, SubInv
<1> QED
  BY <1>2, <1>3, <1>4, <1>5

LEMMA DeregisterKeeps ==
  ASSUME NjeIndInv, NjeDeregister
  PROVE  TasksInv'
<1> USE DEF NjeIndInv, TasksInv, AddPCs, PopPCs
<1>1. /\ UNCHANGED <<native, held, subtask, queue, nje>>
      /\ main.pc = "exec"
  BY DEF NjeDeregister, authVars
<1>2. CASE info.thread = TRUE
  <2>1. /\ MainIs("joining", main.ending)
        /\ InfoIs(TRUE, info.receiving, TRUE, TRUE, info.errorRunning, info.ecb)
    BY <1>2 DEF NjeDeregister, Shape, MainRec, InfoRec, MainPCs, Events, MainIs, InfoIs
  <2>2. Shape' /\ MainInv'
    BY <1>1, <1>2, <2>1 DEF MainIs, InfoIs, Shape, MainInv
  <2>3. SubInv'
    BY <1>1, <1>2, <2>1 DEF MainIs, InfoIs, SubInv, MainInv
  <2>4. HeldInv' /\ EndInv'
    BY <1>1, <1>2, <2>1 DEF MainIs, InfoIs, HeldInv, EndInv, MainInv, SubInv
  <2>5. PostInv' /\ WakeInv'
    BY <1>1, <1>2, <2>1 DEF MainIs, InfoIs, PostInv, WakeInv, NoLostWakeup, MainInv, SubInv
  <2> QED
    BY <2>2, <2>3, <2>4, <2>5
<1>3. CASE info.thread = FALSE
  <2>1. /\ MainIs("exec", main.ending)
        /\ InfoIs(FALSE, info.receiving, FALSE, TRUE, info.errorRunning, info.ecb)
    BY <1>3 DEF NjeDeregister, Shape, MainRec, InfoRec, MainPCs, Events, MainIs, InfoIs
  <2>2. Shape' /\ MainInv'
    BY <1>1, <1>3, <2>1 DEF MainIs, InfoIs, Shape, MainInv
  <2>3. SubInv'
    BY <1>1, <1>3, <2>1 DEF MainIs, InfoIs, SubInv, MainInv
  <2>4. HeldInv' /\ EndInv'
    BY <1>1, <1>3, <2>1 DEF MainIs, InfoIs, HeldInv, EndInv, MainInv, SubInv
  <2>5. PostInv' /\ WakeInv'
    BY <1>1, <1>3, <2>1 DEF MainIs, InfoIs, PostInv, WakeInv, NoLostWakeup, MainInv, SubInv
  <2> QED
    BY <2>2, <2>3, <2>4, <2>5
<1> QED
  BY <1>1, <1>2, <1>3 DEF Shape, InfoRec

LEMMA ExecEndsKeeps ==
  ASSUME NjeIndInv, ExecEnds
  PROVE  TasksInv'
<1> USE DEF NjeIndInv, TasksInv, AddPCs, PopPCs
<1>1. /\ UNCHANGED <<native, held, subtask, queue, nje>>
      /\ main.pc # "ended" /\ ~main.ending
  BY DEF ExecEnds, authVars, MainInv
<1>2. CASE info.thread = TRUE
  <2>1. /\ MainIs("leaving", TRUE)
        /\ InfoIs(info.thread, FALSE, info.joining, info.stopRunning, info.errorRunning,
                  info.ecb)
    BY <1>2, RefsAre DEF ExecEnds, Shape, MainRec, InfoRec, MainPCs, Events, MainIs, InfoIs
  <2>2. Shape' /\ MainInv'
    BY <1>1, <1>2, <2>1 DEF MainIs, InfoIs, Shape, MainInv
  <2>3. SubInv'
    BY <1>1, <1>2, <2>1 DEF MainIs, InfoIs, SubInv, MainInv
  <2>4. HeldInv' /\ EndInv'
    BY <1>1, <1>2, <2>1 DEF MainIs, InfoIs, HeldInv, EndInv, MainInv, SubInv
  <2>5. PostInv' /\ WakeInv'
    BY <1>1, <1>2, <2>1 DEF MainIs, InfoIs, PostInv, WakeInv, NoLostWakeup, MainInv, SubInv
  <2> QED
    BY <2>2, <2>3, <2>4, <2>5
<1>3. CASE info.thread = FALSE
  <2>1. /\ MainIs("noPriv", TRUE)
        /\ InfoIs(FALSE, info.receiving, info.joining, info.stopRunning, info.errorRunning,
                  info.ecb)
        /\ info.receiving = FALSE
    BY <1>3, RefsAre DEF ExecEnds, Shape, MainRec, InfoRec, MainPCs, Events, MainIs, InfoIs, MainInv
  <2>2. Shape' /\ MainInv'
    BY <1>1, <1>3, <2>1 DEF MainIs, InfoIs, Shape, MainInv
  <2>3. SubInv'
    BY <1>1, <1>3, <2>1 DEF MainIs, InfoIs, SubInv, MainInv
  <2>4. HeldInv' /\ EndInv'
    BY <1>1, <1>3, <2>1 DEF MainIs, InfoIs, HeldInv, EndInv, MainInv, SubInv
  <2>5. PostInv' /\ WakeInv'
    BY <1>1, <1>3, <2>1 DEF MainIs, InfoIs, PostInv, WakeInv, NoLostWakeup, MainInv, SubInv
  <2> QED
    BY <2>2, <2>3, <2>4, <2>5
<1> QED
  BY <1>1, <1>2, <1>3 DEF Shape, InfoRec

(* watchSubtask(). *)

LEMMA WatchFlagsKeeps ==
  ASSUME NjeIndInv, NEW from, NEW at,
         <<from, at>> \in {<<"starting", "starting">>, <<"waiting", "waiting">>, <<"leaving", "leaveCheck">>},
         WatchFlags(from, at)
  PROVE  TasksInv'
<1> USE DEF NjeIndInv, TasksInv, AddPCs, PopPCs
<1>1. /\ UNCHANGED <<native, held, subtask, info, queue, nje>>
  BY DEF WatchFlags, authVars
<1>2. CASE from = "starting" /\ at = "starting"
  <2>1. /\ main.pc = "starting"
        /\ MainIs("starting", main.ending) \/ MainIs("startWatch", main.ending)
    BY <1>2, MainMoves DEF WatchFlags, MainPCs, Watching
  <2>2. Shape' /\ MainInv'
    BY <1>1, <1>2, <2>1 DEF MainIs, Shape, MainInv
  <2>3. SubInv'
    BY <1>1, <1>2, <2>1 DEF MainIs, SubInv, MainInv
  <2>4. HeldInv' /\ EndInv'
    BY <1>1, <1>2, <2>1 DEF MainIs, HeldInv, EndInv, MainInv, SubInv
  <2>5. PostInv' /\ WakeInv'
    BY <1>1, <1>2, <2>1 DEF MainIs, PostInv, WakeInv, NoLostWakeup, MainInv, SubInv
  <2> QED
    BY <2>2, <2>3, <2>4, <2>5
<1>3. CASE from = "waiting" /\ at = "waiting"
  <2>1. /\ main.pc = "waiting"
        /\ MainIs("waiting", main.ending) \/ MainIs("waitWatch", main.ending)
    BY <1>3, MainMoves DEF WatchFlags, MainPCs, Watching
  <2>2. Shape' /\ MainInv'
    BY <1>1, <1>3, <2>1 DEF MainIs, Shape, MainInv
  <2>3. SubInv'
    BY <1>1, <1>3, <2>1 DEF MainIs, SubInv, MainInv
  <2>4. HeldInv' /\ EndInv'
    BY <1>1, <1>3, <2>1 DEF MainIs, HeldInv, EndInv, MainInv, SubInv
  <2>5. PostInv' /\ WakeInv'
    BY <1>1, <1>3, <2>1 DEF MainIs, PostInv, WakeInv, NoLostWakeup, MainInv, SubInv
  <2> QED
    BY <2>2, <2>3, <2>4, <2>5
<1>4. CASE from = "leaving" /\ at = "leaveCheck"
  <2>1. /\ main.pc = "leaveCheck"
        /\ MainIs("leaving", main.ending) \/ MainIs("leaveWatch", main.ending)
    BY <1>4, MainMoves DEF WatchFlags, MainPCs, Watching
  <2>2. Shape' /\ MainInv'
    BY <1>1, <1>4, <2>1 DEF MainIs, Shape, MainInv
  <2>3. SubInv'
    BY <1>1, <1>4, <2>1 DEF MainIs, SubInv, MainInv
  <2>4. HeldInv' /\ EndInv'
    BY <1>1, <1>4, <2>1 DEF MainIs, HeldInv, EndInv, MainInv, SubInv
  <2>5. PostInv' /\ WakeInv'
    BY <1>1, <1>4, <2>1 DEF MainIs, PostInv, WakeInv, NoLostWakeup, MainInv, SubInv
  <2> QED
    BY <2>2, <2>3, <2>4, <2>5
<1> QED
  BY <1>1, <1>2, <1>3, <1>4

LEMMA WatchEndedKeeps ==
  ASSUME NjeIndInv, NEW from \in {"starting", "waiting", "leaving"},
         WatchEnded(from)
  PROVE  TasksInv'
<1> USE DEF NjeIndInv, TasksInv, AddPCs, PopPCs
<1>1. /\ UNCHANGED <<subtask, queue, nje>>
      /\ \/ main.pc = "startWatch" /\ MainIs("starting", main.ending)
         \/ main.pc = "waitWatch" /\ MainIs("waiting", main.ending)
         \/ main.pc = "leaveWatch" /\ MainIs("leaving", main.ending)
  BY MainMoves DEF WatchEnded, MainPCs, Watching
<1>2. CASE subtask.pc = "ended"
  <2>1. /\ native' = native
        /\ held'[sub] = 0
        /\ \A h \in Holders \ {sub} : held'[h] = held[h]
        /\ InfoIs(info.thread, info.receiving, info.joining, info.stopRunning, TRUE,
                  info.ecb)
    BY <1>2, DropHeld, SubAndSend DEF WatchEnded, Shape, InfoRec, RCs, InfoIs
  <2>2. Shape' /\ MainInv'
    BY <1>1, <1>2, <2>1 DEF MainIs, InfoIs, Shape, MainInv
  <2>3. SubInv'
    BY <1>1, <1>2, <2>1 DEF MainIs, InfoIs, SubInv, MainInv
  <2>4. HeldInv' /\ EndInv'
    BY <1>1, <1>2, <2>1, SubAndSend DEF MainIs, InfoIs, HeldInv, EndInv, MainInv, SubInv
  <2>5. PostInv' /\ WakeInv'
    BY <1>1, <1>2, <2>1 DEF MainIs, InfoIs, PostInv, WakeInv, NoLostWakeup, MainInv, SubInv
  <2> QED
    BY <2>2, <2>3, <2>4, <2>5
<1>3. CASE subtask.pc # "ended"
  <2>1. /\ UNCHANGED <<native, held, info>>
    BY <1>3 DEF WatchEnded, authVars
  <2>2. Shape' /\ MainInv'
    BY <1>1, <1>3, <2>1 DEF MainIs, Shape, MainInv
  <2>3. SubInv'
    BY <1>1, <1>3, <2>1 DEF MainIs, SubInv, MainInv
  <2>4. HeldInv' /\ EndInv'
    BY <1>1, <1>3, <2>1, SubAndSend DEF MainIs, HeldInv, EndInv, MainInv, SubInv
  <2>5. PostInv' /\ WakeInv'
    BY <1>1, <1>3, <2>1 DEF MainIs, PostInv, WakeInv, NoLostWakeup, MainInv, SubInv
  <2> QED
    BY <2>2, <2>3, <2>4, <2>5
<1> QED
  BY <1>1, <1>2, <1>3

LEMMA StartedUpKeeps ==
  ASSUME NjeIndInv, StartedUp
  PROVE  TasksInv'
<1> USE DEF NjeIndInv, TasksInv, AddPCs, PopPCs
<1>1. /\ UNCHANGED <<native, held, subtask, queue, nje>>
      /\ main.pc = "starting"
  BY DEF StartedUp, authVars
<1>2. CASE /\ MainGoes("waiting")
           /\ UNCHANGED info
  <2>1. /\ MainIs("waiting", main.ending)
        /\ UNCHANGED info
    BY <1>2, MainMoves DEF MainPCs
  <2>2. Shape' /\ MainInv'
    BY <1>1, <2>1 DEF MainIs, Shape, MainInv
  <2>3. SubInv'
    BY <1>1, <2>1 DEF MainIs, SubInv, MainInv
  <2>4. HeldInv' /\ EndInv'
    BY <1>1, <2>1 DEF MainIs, HeldInv, EndInv, MainInv, SubInv
  <2>5. PostInv' /\ WakeInv'
    BY <1>1, <2>1 DEF MainIs, PostInv, WakeInv, NoLostWakeup, MainInv, SubInv
  <2> QED
    BY <2>2, <2>3, <2>4, <2>5
<1>3. CASE /\ MainGoes("leaving")
           /\ info' = [info EXCEPT !.receiving = FALSE]
  <2>1. /\ MainIs("leaving", main.ending)
        /\ InfoIs(info.thread, FALSE, info.joining, info.stopRunning, info.errorRunning,
                  info.ecb)
    BY <1>3, MainMoves DEF MainPCs, Shape, InfoRec, InfoIs
  <2>2. Shape' /\ MainInv'
    BY <1>1, <2>1 DEF MainIs, InfoIs, Shape, MainInv
  <2>3. SubInv'
    BY <1>1, <2>1 DEF MainIs, InfoIs, SubInv, MainInv
  <2>4. HeldInv' /\ EndInv'
    BY <1>1, <2>1 DEF MainIs, InfoIs, HeldInv, EndInv, MainInv, SubInv
  <2>5. PostInv' /\ WakeInv'
    BY <1>1, <2>1 DEF MainIs, InfoIs, PostInv, WakeInv, NoLostWakeup, MainInv, SubInv
  <2> QED
    BY <2>2, <2>3, <2>4, <2>5
<1> QED
  BY <1>1, <1>2, <1>3 DEF StartedUp

LEMMA WaitOverKeeps ==
  ASSUME NjeIndInv, WaitOver
  PROVE  TasksInv'
<1> USE DEF NjeIndInv, TasksInv, AddPCs, PopPCs
<1>1. /\ UNCHANGED <<native, held, subtask, queue, nje>>
      /\ main.pc = "waiting"
      /\ MainIs("leaving", main.ending)
      /\ InfoIs(info.thread, FALSE, info.joining, info.stopRunning, info.errorRunning,
                info.ecb)
  BY MainMoves DEF WaitOver, authVars, MainPCs, Shape, InfoRec, InfoIs
<1>2. Shape' /\ MainInv'
  BY <1>1 DEF MainIs, InfoIs, Shape, MainInv
<1>3. SubInv'
  BY <1>1 DEF MainIs, InfoIs, SubInv, MainInv
<1>4. HeldInv' /\ EndInv'
  BY <1>1 DEF MainIs, InfoIs, HeldInv, EndInv, MainInv, SubInv
<1>5. PostInv' /\ WakeInv'
  BY <1>1 DEF MainIs, InfoIs, PostInv, WakeInv, NoLostWakeup, MainInv, SubInv
<1> QED
  BY <1>2, <1>3, <1>4, <1>5

LEMMA LeaveTestKeeps ==
  ASSUME NjeIndInv, LeaveTest
  PROVE  TasksInv'
<1> USE DEF NjeIndInv, TasksInv, AddPCs, PopPCs
<1>1. /\ UNCHANGED <<native, held, subtask, info, queue, nje>>
      /\ main.pc = "leaving"
  BY DEF LeaveTest, authVars
<1>2. CASE held[sub] = 0
  <2>1. /\ MainIs("dropping", main.ending)
    BY <1>2, MainMoves DEF LeaveTest, MainPCs
  <2>2. Shape' /\ MainInv'
    BY <1>1, <1>2, <2>1 DEF MainIs, Shape, MainInv
  <2>3. SubInv'
    BY <1>1, <1>2, <2>1 DEF MainIs, SubInv, MainInv
  <2>4. HeldInv' /\ EndInv'
    BY <1>1, <1>2, <2>1 DEF MainIs, HeldInv, EndInv, MainInv, SubInv
  <2>5. PostInv' /\ WakeInv'
    BY <1>1, <1>2, <2>1 DEF MainIs, PostInv, WakeInv, NoLostWakeup, MainInv, SubInv
  <2> QED
    BY <2>2, <2>3, <2>4, <2>5
<1>3. CASE held[sub] # 0 /\ info.ecb /\ ~info.stopRunning /\ ~info.errorRunning
  <2>1. /\ MainIs("posting", main.ending)
    BY <1>3, MainMoves DEF LeaveTest, MainPCs
  <2>2. Shape' /\ MainInv'
    BY <1>1, <1>3, <2>1 DEF MainIs, Shape, MainInv
  <2>3. SubInv'
    BY <1>1, <1>3, <2>1 DEF MainIs, SubInv, MainInv
  <2>4. HeldInv' /\ EndInv'
    BY <1>1, <1>3, <2>1 DEF MainIs, HeldInv, EndInv, MainInv, SubInv
  <2>5. PostInv' /\ WakeInv'
    BY <1>1, <1>3, <2>1 DEF MainIs, PostInv, WakeInv, NoLostWakeup, MainInv, SubInv
  <2> QED
    BY <2>2, <2>3, <2>4, <2>5
<1>4. CASE held[sub] # 0 /\ ~(info.ecb /\ ~info.stopRunning /\ ~info.errorRunning)
  <2>1. /\ MainIs("leaveCheck", main.ending)
    BY <1>4, MainMoves DEF LeaveTest, MainPCs
  <2>2. Shape' /\ MainInv'
    BY <1>1, <1>4, <2>1 DEF MainIs, Shape, MainInv
  <2>3. SubInv'
    BY <1>1, <1>4, <2>1 DEF MainIs, SubInv, MainInv
  <2>4. HeldInv' /\ EndInv'
    BY <1>1, <1>4, <2>1 DEF MainIs, HeldInv, EndInv, MainInv, SubInv
  <2>5. PostInv' /\ WakeInv'
    BY <1>1, <1>4, <2>1 DEF MainIs, PostInv, WakeInv, NoLostWakeup, MainInv, SubInv
  <2> QED
    BY <2>2, <2>3, <2>4, <2>5
<1> QED
  BY <1>1, <1>2, <1>3, <1>4

LEMMA LeaveGivesUpKeeps ==
  ASSUME NjeIndInv, LeaveGivesUp
  PROVE  TasksInv'
<1> USE DEF NjeIndInv, TasksInv, AddPCs, PopPCs
<1>1. /\ UNCHANGED <<native, held, subtask, info, queue, nje>>
      /\ main.pc = "leaving"
      /\ "hang" \in Faults \/ subtask.pc = "ended"
      /\ MainIs("dropping", main.ending)
  BY MainMoves DEF LeaveGivesUp, authVars, MainPCs
<1>2. Shape' /\ MainInv'
  BY <1>1 DEF MainIs, Shape, MainInv
<1>3. SubInv'
  BY <1>1 DEF MainIs, SubInv, MainInv
<1>4. HeldInv' /\ EndInv'
  BY <1>1 DEF MainIs, HeldInv, EndInv, MainInv, SubInv
<1>5. PostInv' /\ WakeInv'
  BY <1>1 DEF MainIs, PostInv, WakeInv, NoLostWakeup, MainInv, SubInv
<1> QED
  BY <1>2, <1>3, <1>4, <1>5

LEMMA PostKeeps ==
  ASSUME NjeIndInv, Post
  PROVE  TasksInv'
<1> USE DEF NjeIndInv, TasksInv, AddPCs, PopPCs
<1>1. /\ UNCHANGED <<native, held, subtask, info, queue>>
      /\ main.pc = "posting"
      /\ MainIs("leaveCheck", main.ending)
      /\ NjeIs(nje.registered, TRUE, nje.sent, nje.msgs, nje.delivered)
  BY MainMoves DEF Post, authVars, MainPCs, Shape, NjeRec, NjeIs
<1>2. Shape' /\ MainInv'
  BY <1>1 DEF MainIs, NjeIs, Shape, MainInv
<1>3. SubInv'
  BY <1>1 DEF MainIs, NjeIs, SubInv, MainInv
<1>4. HeldInv' /\ EndInv'
  BY <1>1 DEF MainIs, NjeIs, HeldInv, EndInv, MainInv, SubInv
<1>5. PostInv' /\ WakeInv'
  BY <1>1 DEF MainIs, NjeIs, PostInv, WakeInv, NoLostWakeup, MainInv, SubInv
<1> QED
  BY <1>2, <1>3, <1>4, <1>5

LEMMA LeaveDropKeeps ==
  ASSUME NjeIndInv, LeaveDrop
  PROVE  TasksInv'
<1> USE DEF NjeIndInv, TasksInv, AddPCs, PopPCs
<1>1. /\ UNCHANGED <<subtask, queue, nje>>
      /\ main.pc = "dropping"
      /\ native' = native
      /\ held'[sub] = 0
      /\ \A h \in Holders \ {sub} : held'[h] = held[h]
  BY DropHeld, SubAndSend DEF LeaveDrop
<1>2. CASE main.ending
  <2>1. /\ MainIs("resetJoin", main.ending)
        /\ InfoIs(info.thread, info.receiving, TRUE, TRUE, info.errorRunning, info.ecb)
    BY <1>2, MainMoves DEF LeaveDrop, MainPCs, Shape, InfoRec, InfoIs
  <2>2. Shape' /\ MainInv'
    BY <1>1, <1>2, <2>1 DEF MainIs, InfoIs, Shape, MainInv
  <2>3. SubInv'
    BY <1>1, <1>2, <2>1 DEF MainIs, InfoIs, SubInv, MainInv
  <2>4. HeldInv' /\ EndInv'
    BY <1>1, <1>2, <2>1, SubAndSend DEF MainIs, InfoIs, HeldInv, EndInv, MainInv, SubInv
  <2>5. PostInv' /\ WakeInv'
    BY <1>1, <1>2, <2>1 DEF MainIs, InfoIs, PostInv, WakeInv, NoLostWakeup, MainInv, SubInv
  <2> QED
    BY <2>2, <2>3, <2>4, <2>5
<1>3. CASE ~main.ending
  <2>1. /\ MainIs("result", main.ending)
        /\ UNCHANGED info
    BY <1>3, MainMoves DEF LeaveDrop, MainPCs
  <2>2. Shape' /\ MainInv'
    BY <1>1, <1>3, <2>1 DEF MainIs, Shape, MainInv
  <2>3. SubInv'
    BY <1>1, <1>3, <2>1 DEF MainIs, SubInv, MainInv
  <2>4. HeldInv' /\ EndInv'
    BY <1>1, <1>3, <2>1, SubAndSend DEF MainIs, HeldInv, EndInv, MainInv, SubInv
  <2>5. PostInv' /\ WakeInv'
    BY <1>1, <1>3, <2>1 DEF MainIs, PostInv, WakeInv, NoLostWakeup, MainInv, SubInv
  <2> QED
    BY <2>2, <2>3, <2>4, <2>5
<1> QED
  BY <1>1, <1>2, <1>3

LEMMA ReceiveResultKeeps ==
  ASSUME NjeIndInv, ReceiveResult
  PROVE  TasksInv'
<1> USE DEF NjeIndInv, TasksInv, AddPCs, PopPCs
<1>1. /\ UNCHANGED <<native, held, subtask, info, queue, nje>>
      /\ main.pc = "result"
      /\ MainIs("exec", main.ending) \/ MainIs("popping", main.ending)
  BY Returns, MainMoves DEF ReceiveResult, authVars, MainPCs, Shape, InfoRec, Events, RCs, NoRC
<1>2. Shape' /\ MainInv'
  BY <1>1 DEF MainIs, Shape, MainInv
<1>3. SubInv'
  BY <1>1 DEF MainIs, SubInv, MainInv
<1>4. HeldInv' /\ EndInv'
  BY <1>1 DEF MainIs, HeldInv, EndInv, MainInv, SubInv
<1>5. PostInv' /\ WakeInv'
  BY <1>1 DEF MainIs, PostInv, WakeInv, NoLostWakeup, MainInv, SubInv
<1> QED
  BY <1>2, <1>3, <1>4, <1>5

LEMMA PopKeeps ==
  ASSUME NjeIndInv, Pop
  PROVE  TasksInv'
<1> USE DEF NjeIndInv, TasksInv, AddPCs, PopPCs
<1>1. /\ UNCHANGED <<native, held, subtask, info>>
      /\ main.pc = "popping"
  BY DEF Pop, authVars
<1>2. CASE queue.tail = 0
  <2>1. /\ UNCHANGED <<queue, nje>>
        /\ MainIs("exec", main.ending)
    BY <1>2, Returns DEF Pop, Events, RCs
  <2>2. Shape' /\ MainInv'
    BY <1>1, <2>1 DEF MainIs, Shape, MainInv
  <2>3. SubInv'
    BY <1>1, <2>1 DEF MainIs, SubInv, MainInv
  <2>4. HeldInv' /\ EndInv'
    BY <1>1, <2>1 DEF MainIs, HeldInv, EndInv, MainInv, SubInv
  <2>5. PostInv' /\ WakeInv'
    BY <1>1, <2>1 DEF MainIs, PostInv, WakeInv, NoLostWakeup, MainInv, SubInv
  <2> QED
    BY <2>2, <2>3, <2>4, <2>5
<1>3. CASE queue.tail # 0
  <2> DEFINE dat == queue.elem[queue.tail].dat
             all == IF dat = 0 THEN nje.delivered ELSE Append(nje.delivered, dat)
  <2>1. /\ main' = [main EXCEPT !.pc = "unlink", !.rc = IF dat = 0 THEN "null" ELSE NoRC]
        /\ nje' = [nje EXCEPT !.delivered = all]
        /\ queue' = [queue EXCEPT !.elem[queue.tail].dat = 0]
    BY <1>3 DEF Pop
  <2>2. dat \in Refs
    BY <1>3, RefsAre DEF Shape, QueueRec, ElemRec
  <2>3. all \in Seq(Msgs)
    <3>1. nje.delivered \in Seq(Msgs)
      BY DEF Shape, NjeRec
    <3>2. dat # 0 => dat \in Msgs
      BY <2>2, RefsAre
    <3> HIDE DEF dat
    <3> QED
      BY <3>1, <3>2
  <2>4. /\ queue' \in QueueRec /\ queue'.tail = queue.tail
    <3>1. queue \in QueueRec
      BY DEF Shape
    <3>2. queue' \in QueueRec
      BY <2>1, <3>1, ElemTyped, RefsAre
    <3> QED
      BY <2>1, <3>1, <3>2 DEF QueueRec
  <2> HIDE DEF dat, all
  <2>5. MainIs("unlink", main.ending)
    BY <2>1 DEF Shape, MainRec, MainIs, MainPCs, RCs, NoRC
  <2>6. NjeIs(nje.registered, nje.posted, nje.sent, nje.msgs, all)
    BY <2>1, <2>3 DEF Shape, NjeRec, NjeIs
  <2>7. Shape' /\ MainInv'
    BY <1>1, <1>3, <2>4, <2>5, <2>6 DEF MainIs, NjeIs, Shape, MainInv
  <2>8. SubInv'
    BY <1>1, <2>5, <2>6 DEF MainIs, NjeIs, SubInv, MainInv
  <2>9. HeldInv' /\ EndInv'
    BY <1>1, <2>5, <2>6 DEF MainIs, NjeIs, HeldInv, EndInv, MainInv, SubInv
  <2>10. PostInv' /\ WakeInv'
    BY <1>1, <2>5, <2>6 DEF MainIs, NjeIs, PostInv, WakeInv, NoLostWakeup, MainInv, SubInv
  <2> QED
    BY <2>7, <2>8, <2>9, <2>10
<1> QED
  BY <1>2, <1>3

LEMMA UnlinkKeeps ==
  ASSUME NjeIndInv, Unlink
  PROVE  TasksInv'
<1> USE DEF NjeIndInv, TasksInv, AddPCs, PopPCs
<1>1. /\ UNCHANGED <<native, held, subtask, info, nje>>
      /\ main.pc \in {"unlink", "unlinked"}
      /\ queue' \in QueueRec /\ queue'.tail = queue.tail
      /\ MainIs("unlinked", main.ending) \/ MainIs("untail", main.ending)
  <2>1. queue \in QueueRec /\ queue.tail \in Msgs
    BY RefsAre DEF Unlink, Shape, QueueRec, MainInv
  <2>2. queue.elem[queue.tail].prev \in Refs /\ queue.elem[queue.tail].next \in Refs
    BY <2>1 DEF QueueRec, ElemRec
  <2>3. CASE main.pc = "unlink"
    BY <2>1, <2>2, <2>3, RefsAre DEF Unlink, MainLoads, authVars, Shape, MainRec, MainIs, MainPCs
  <2>4. CASE main.pc = "unlinked"
    <3>1. MainIs("untail", main.ending)
      BY <2>4, MainMoves DEF Unlink, MainPCs
    <3>2. queue' \in QueueRec
      <4> DEFINE x == queue.elem[queue.tail].next
      <4>1. CASE main.load # 0
        <5>1. queue' = [queue EXCEPT !.elem[main.load].next = x] /\ x \in Refs
          BY <2>2, <2>4, <4>1 DEF Unlink
        <5> HIDE DEF x
        <5> QED
          BY <2>1, <5>1, ElemTyped
      <4>2. CASE main.load = 0
        <5>1. queue' = [queue EXCEPT !.head = x] /\ x \in Refs
          BY <2>2, <2>4, <4>2 DEF Unlink
        <5> HIDE DEF x
        <5> QED
          BY <2>1, <5>1 DEF QueueRec
      <4> QED
        BY <4>1, <4>2
    <3>3. queue'.tail = queue.tail
      BY <2>1, <2>4 DEF Unlink, QueueRec
    <3> QED
      BY <2>4, <3>1, <3>2, <3>3 DEF Unlink, authVars
  <2> QED
    BY <2>3, <2>4 DEF Unlink
<1>2. Shape' /\ MainInv'
  BY <1>1 DEF MainIs, Shape, MainInv
<1>3. SubInv'
  BY <1>1 DEF MainIs, SubInv, MainInv
<1>4. HeldInv' /\ EndInv'
  BY <1>1 DEF MainIs, HeldInv, EndInv, MainInv, SubInv
<1>5. PostInv' /\ WakeInv'
  BY <1>1 DEF MainIs, PostInv, WakeInv, NoLostWakeup, MainInv, SubInv
<1> QED
  BY <1>2, <1>3, <1>4, <1>5

LEMMA UntailKeeps ==
  ASSUME NjeIndInv, Untail
  PROVE  TasksInv'
<1> USE DEF NjeIndInv, TasksInv, AddPCs, PopPCs
<1>1. /\ UNCHANGED <<native, held, subtask, info, nje>>
      /\ main.pc \in {"untail", "untailed"}
      /\ queue' \in QueueRec
      /\ \/ MainIs("uncount", main.ending)
         \/ MainIs("untailed", main.ending) /\ main'.load \in Refs /\ queue'.tail # 0
  <2>1. queue \in QueueRec /\ queue.tail \in Msgs
    BY RefsAre DEF Untail, Shape, QueueRec, MainInv
  <2>2. queue.elem[queue.tail].prev \in Refs
    BY <2>1 DEF QueueRec, ElemRec
  <2>3. CASE main.pc = "untail"
    BY <2>1, <2>2, <2>3, RefsAre DEF Untail, MainLoads, authVars, Shape, MainRec, MainIs, MainPCs
  <2>4. CASE main.pc = "untailed"
    <3>1. MainIs("uncount", main.ending) /\ main.load \in Refs
      BY <2>4, MainMoves DEF Untail, MainPCs, MainInv
    <3>2. queue' \in QueueRec
      <4> DEFINE after == queue.elem[queue.tail].next
      <4>1. CASE after # 0
        <5>1. queue' = [queue EXCEPT !.elem[after].prev = main.load]
          BY <2>4, <4>1 DEF Untail
        <5> HIDE DEF after
        <5> QED
          BY <2>1, <3>1, <5>1, ElemTyped
      <4>2. CASE after = 0
        <5>1. queue' = [queue EXCEPT !.tail = main.load]
          BY <2>4, <4>2 DEF Untail
        <5> QED
          BY <2>1, <3>1, <5>1 DEF QueueRec
      <4> QED
        BY <4>1, <4>2
    <3> QED
      BY <2>4, <3>1, <3>2 DEF Untail, authVars
  <2> QED
    BY <2>3, <2>4 DEF Untail
<1>2. Shape' /\ MainInv'
  BY <1>1 DEF MainIs, Shape, MainInv
<1>3. SubInv'
  BY <1>1 DEF MainIs, SubInv, MainInv
<1>4. HeldInv' /\ EndInv'
  BY <1>1 DEF MainIs, HeldInv, EndInv, MainInv, SubInv
<1>5. PostInv' /\ WakeInv'
  BY <1>1 DEF MainIs, PostInv, WakeInv, NoLostWakeup, MainInv, SubInv
<1> QED
  BY <1>2, <1>3, <1>4, <1>5

LEMMA CountDownKeeps ==
  ASSUME NjeIndInv, CountDown
  PROVE  TasksInv'
<1> USE DEF NjeIndInv, TasksInv, AddPCs, PopPCs
<1>1. /\ UNCHANGED <<native, held, subtask, info, nje>>
      /\ main.pc \in {"uncount", "uncounted"}
      /\ queue' \in QueueRec
      /\ MainIs("uncounted", main.ending) \/ MainIs("exec", main.ending)
  <2>1. queue \in QueueRec /\ main.load \in Numbers /\ main.rc \in RCs /\ queue.items \in Numbers
    BY DEF Shape, QueueRec, MainRec
  <2>2. CASE main.pc = "uncount"
    BY <2>1, <2>2 DEF CountDown, MainLoads, authVars, Shape, MainRec, MainIs, MainPCs
  <2>3. CASE main.pc = "uncounted"
    BY <2>1, <2>3, RefsAre, Returns DEF CountDown, authVars, QueueRec, Events
  <2> QED
    BY <2>2, <2>3 DEF CountDown
<1>2. Shape' /\ MainInv'
  BY <1>1 DEF MainIs, Shape, MainInv
<1>3. SubInv'
  BY <1>1 DEF MainIs, SubInv, MainInv
<1>4. HeldInv' /\ EndInv'
  BY <1>1 DEF MainIs, HeldInv, EndInv, MainInv, SubInv
<1>5. PostInv' /\ WakeInv'
  BY <1>1 DEF MainIs, PostInv, WakeInv, NoLostWakeup, MainInv, SubInv
<1> QED
  BY <1>2, <1>3, <1>4, <1>5

LEMMA JoinedKeeps ==
  ASSUME NjeIndInv, Joined
  PROVE  TasksInv'
<1> USE DEF NjeIndInv, TasksInv, AddPCs, PopPCs
<1>1. /\ UNCHANGED <<subtask, queue, nje>>
      /\ main.pc \in {"joining", "resetJoin"} /\ subtask.pc = "ended"
      /\ native' = native
      /\ held'[sub] = 0
      /\ \A h \in Holders \ {sub} : held'[h] = held[h]
      /\ InfoIs(FALSE, info.receiving, FALSE, info.stopRunning, info'.errorRunning,
                info.ecb)
      /\ info.errorRunning => info'.errorRunning
  BY DropHeld, SubAndSend DEF Joined, Shape, InfoRec, RCs, InfoIs
<1>2. CASE main.ending
  <2>1. /\ MainIs("noPriv", main.ending)
    BY <1>2, MainMoves DEF Joined, MainPCs
  <2>2. Shape' /\ MainInv'
    BY <1>1, <1>2, <2>1 DEF MainIs, InfoIs, Shape, MainInv
  <2>3. SubInv'
    BY <1>1, <1>2, <2>1 DEF MainIs, InfoIs, SubInv, MainInv
  <2>4. HeldInv' /\ EndInv'
    BY <1>1, <1>2, <2>1, SubAndSend DEF MainIs, InfoIs, HeldInv, EndInv, MainInv, SubInv
  <2>5. PostInv' /\ WakeInv'
    BY <1>1, <1>2, <2>1 DEF MainIs, InfoIs, PostInv, WakeInv, NoLostWakeup, MainInv, SubInv
  <2> QED
    BY <2>2, <2>3, <2>4, <2>5
<1>3. CASE ~main.ending
  <2>1. /\ MainIs("exec", main.ending)
    BY <1>3, MainMoves DEF Joined, MainPCs
  <2>2. Shape' /\ MainInv'
    BY <1>1, <1>3, <2>1 DEF MainIs, InfoIs, Shape, MainInv
  <2>3. SubInv'
    BY <1>1, <1>3, <2>1 DEF MainIs, InfoIs, SubInv, MainInv
  <2>4. HeldInv' /\ EndInv'
    BY <1>1, <1>3, <2>1, SubAndSend DEF MainIs, InfoIs, HeldInv, EndInv, MainInv, SubInv
  <2>5. PostInv' /\ WakeInv'
    BY <1>1, <1>3, <2>1 DEF MainIs, InfoIs, PostInv, WakeInv, NoLostWakeup, MainInv, SubInv
  <2> QED
    BY <2>2, <2>3, <2>4, <2>5
<1> QED
  BY <1>1, <1>2, <1>3

LEMMA ResetGivesUpKeeps ==
  ASSUME NjeIndInv, ResetGivesUp
  PROVE  TasksInv'
<1> USE DEF NjeIndInv, TasksInv, AddPCs, PopPCs
<1>1. /\ UNCHANGED <<subtask, info, queue, nje>>
      /\ main.pc = "resetJoin"
      /\ "hang" \in Faults \/ subtask.pc = "wait"
      /\ native' = native
      /\ held'[sub] = 0
      /\ \A h \in Holders \ {sub} : held'[h] = held[h]
      /\ MainIs("noPriv", main.ending)
  BY DropHeld, MainMoves, SubAndSend DEF ResetGivesUp, MainPCs
<1>2. Shape' /\ MainInv'
  BY <1>1 DEF MainIs, Shape, MainInv
<1>3. SubInv'
  BY <1>1 DEF MainIs, SubInv, MainInv
<1>4. HeldInv' /\ EndInv'
  BY <1>1, SubAndSend DEF MainIs, HeldInv, EndInv, MainInv, SubInv
<1>5. PostInv' /\ WakeInv'
  BY <1>1 DEF MainIs, PostInv, WakeInv, NoLostWakeup, MainInv, SubInv
<1> QED
  BY <1>2, <1>3, <1>4, <1>5

LEMMA NoPrivKeeps ==
  ASSUME NjeIndInv, RxNoPriv
  PROVE  TasksInv'
<1> USE DEF NjeIndInv, TasksInv, AddPCs, PopPCs
<1>1. /\ UNCHANGED <<native, held, subtask, info, queue, nje>>
      /\ main.pc = "noPriv"
      /\ MainIs("ended", main.ending)
  BY ResetEmpties, MainMoves DEF RxNoPriv, MainPCs
<1>2. Shape' /\ MainInv'
  BY <1>1 DEF MainIs, Shape, MainInv
<1>3. SubInv'
  BY <1>1 DEF MainIs, SubInv, MainInv
<1>4. HeldInv' /\ EndInv'
  BY <1>1 DEF MainIs, HeldInv, EndInv, MainInv, SubInv
<1>5. PostInv' /\ WakeInv'
  BY <1>1 DEF MainIs, PostInv, WakeInv, NoLostWakeup, MainInv, SubInv
<1> QED
  BY <1>2, <1>3, <1>4, <1>5

(***************************************************************************)
(* The steps of the subtask.                                               *)
(***************************************************************************)

LEMMA ParkKeeps ==
  ASSUME NjeIndInv, Park
  PROVE  TasksInv'
<1> USE DEF NjeIndInv, TasksInv, AddPCs, PopPCs
<1>1. /\ UNCHANGED <<native, held, main, info, queue, nje>>
      /\ subtask.pc = "park"
  BY DEF Park, authVars
<1>2. CASE /\ subtask.fn = "WAIT" /\ (info.stopRunning \/ info.errorRunning)
           /\ SubGoes("loop")
  <2>1. /\ subtask.fn = "WAIT"
        /\ SubIs("loop", subtask.fn, subtask.rc, subtask.msg)
    BY <1>2, SubMoves DEF SubPCs
  <2>2. Shape' /\ MainInv'
    BY <1>1, <2>1 DEF SubIs, Shape, MainInv
  <2>3. SubInv'
    BY <1>1, <2>1 DEF SubIs, SubInv, MainInv
  <2>4. HeldInv' /\ EndInv'
    BY <1>1, <2>1 DEF SubIs, HeldInv, EndInv, MainInv, SubInv
  <2>5. PostInv' /\ WakeInv'
    BY <1>1, <2>1 DEF SubIs, PostInv, WakeInv, NoLostWakeup, MainInv, SubInv
  <2> QED
    BY <2>2, <2>3, <2>4, <2>5
<1>3. CASE /\ MayCall(subtask.fn)
           /\ SubGoes("take")
  <2>1. /\ SubIs("take", subtask.fn, subtask.rc, subtask.msg)
        /\ info.receiving \/ info.joining
    BY <1>3, SubMoves DEF SubPCs, MayCall
  <2>2. Shape' /\ MainInv'
    BY <1>1, <2>1 DEF SubIs, Shape, MainInv
  <2>3. SubInv'
    BY <1>1, <2>1 DEF SubIs, SubInv, MainInv
  <2>4. HeldInv' /\ EndInv'
    BY <1>1, <2>1 DEF SubIs, HeldInv, EndInv, MainInv, SubInv
  <2>5. PostInv' /\ WakeInv'
    BY <1>1, <2>1 DEF SubIs, PostInv, WakeInv, NoLostWakeup, MainInv, SubInv
  <2> QED
    BY <2>2, <2>3, <2>4, <2>5
<1> QED
  BY <1>1, <1>2, <1>3 DEF Park

LEMMA TakeKeeps ==
  ASSUME NjeIndInv, NEW rac, Take(rac)
  PROVE  TasksInv'
<1> USE DEF NjeIndInv, TasksInv, AddPCs, PopPCs
<1>1. /\ UNCHANGED <<main, queue, nje>>
      /\ subtask.pc = "take"
      /\ native' = native
      /\ \A h \in Holders \ {sub} : held'[h] = held[h]
  BY TakeHeld, SubAndSend DEF Take
<1>2. CASE TakeGranted(rac, TRUE)
  <2>1. /\ SubIs("retest", subtask.fn, subtask.rc, subtask.msg)
        /\ InfoIs(info.thread, info.receiving, info.joining, info.stopRunning,
                  info.errorRunning, info.ecb)
    BY <1>2, SubMoves DEF Take, SubPCs, Shape, InfoRec, InfoIs
  <2>2. Shape' /\ MainInv'
    BY <1>1, <1>2, <2>1 DEF SubIs, InfoIs, Shape, MainInv
  <2>3. SubInv'
    BY <1>1, <1>2, <2>1 DEF SubIs, InfoIs, SubInv, MainInv
  <2>4. HeldInv'
    BY <1>1, <1>2, <2>1, SubAndSend DEF SubIs, InfoIs, HeldInv, MainInv, SubInv
  <2>5. EndInv'
    BY <1>1, <1>2, <2>1, SubAndSend DEF SubIs, InfoIs, EndInv, HeldInv, MainInv, SubInv
  <2>6. PostInv' /\ WakeInv'
    BY <1>1, <1>2, <2>1 DEF SubIs, InfoIs, PostInv, WakeInv, NoLostWakeup, MainInv, SubInv
  <2> QED
    BY <2>2, <2>3, <2>4, <2>5, <2>6
<1>3. CASE ~TakeGranted(rac, TRUE)
  <2>1. /\ held'[sub] = 0
        /\ \/ SubIs("leave", subtask.fn, "not authorised", subtask.msg) /\ subtask.fn = "DEREGISTER"
           \/ SubIs("failed", subtask.fn, "not authorised", subtask.msg)
                /\ subtask.fn # "DEREGISTER"
        /\ InfoIs(info.thread, info.receiving, info.joining, info.stopRunning,
                  info'.errorRunning, info.ecb)
        /\ info.errorRunning => info'.errorRunning
        /\ subtask'.rc \in RCs
    <3>1. held'[sub] = 0
      BY <1>3, TakeHeld, SubAndSend DEF Take
    <3>2. /\ \/ SubIs("leave", subtask.fn, "not authorised", subtask.msg) /\ subtask.fn = "DEREGISTER"
             \/ SubIs("failed", subtask.fn, "not authorised", subtask.msg)
                  /\ subtask.fn # "DEREGISTER"
          /\ subtask'.rc \in RCs
      BY <1>3 DEF Take, Shape, SubRec, SubPCs, RCs, SubIs
    <3>3. /\ InfoIs(info.thread, info.receiving, info.joining, info.stopRunning,
                    info'.errorRunning, info.ecb)
          /\ info.errorRunning => info'.errorRunning
      BY <1>3 DEF Take, Shape, InfoRec, InfoIs
    <3> QED
      BY <3>1, <3>2, <3>3
  <2>2. Shape' /\ MainInv'
    BY <1>1, <1>3, <2>1 DEF SubIs, InfoIs, Shape, MainInv
  <2>3. SubInv'
    BY <1>1, <1>3, <2>1 DEF SubIs, InfoIs, SubInv, MainInv
  <2>4. HeldInv'
    BY <1>1, <1>3, <2>1, SubAndSend DEF SubIs, InfoIs, HeldInv, MainInv, SubInv
  <2>5. EndInv'
    BY <1>1, <1>3, <2>1, SubAndSend DEF SubIs, InfoIs, EndInv, HeldInv, MainInv, SubInv
  <2>6. PostInv' /\ WakeInv'
    BY <1>1, <1>3, <2>1 DEF SubIs, InfoIs, PostInv, WakeInv, NoLostWakeup, MainInv, SubInv
  <2> QED
    BY <2>2, <2>3, <2>4, <2>5, <2>6
<1> QED
  BY <1>1, <1>2, <1>3

LEMMA SecondTestKeeps ==
  ASSUME NjeIndInv, Retest
  PROVE  TasksInv'
<1> USE DEF NjeIndInv, TasksInv, AddPCs, PopPCs
<1>1. /\ UNCHANGED <<main, info, queue, nje>>
      /\ subtask.pc = "retest"
  BY DEF Retest
<1>2. CASE ~MayCall(subtask.fn)
  <2>1. /\ native' = native
        /\ held'[sub] = 0
        /\ \A h \in Holders \ {sub} : held'[h] = held[h]
        /\ SubIs("park", subtask.fn, subtask.rc, subtask.msg)
    BY <1>2, DropHeld, SubMoves, SubAndSend DEF Retest, SubPCs
  <2>2. Shape' /\ MainInv'
    BY <1>1, <1>2, <2>1 DEF SubIs, Shape, MainInv
  <2>3. SubInv'
    BY <1>1, <1>2, <2>1 DEF SubIs, SubInv, MainInv
  <2>4. HeldInv' /\ EndInv'
    BY <1>1, <1>2, <2>1, SubAndSend DEF SubIs, HeldInv, EndInv, MainInv, SubInv
  <2>5. PostInv' /\ WakeInv'
    BY <1>1, <1>2, <2>1 DEF SubIs, PostInv, WakeInv, NoLostWakeup, MainInv, SubInv
  <2> QED
    BY <2>2, <2>3, <2>4, <2>5
<1>3. CASE MayCall(subtask.fn) /\ subtask.fn = "WAIT"
  <2>1. /\ UNCHANGED <<native, held>>
        /\ info.receiving
        /\ SubIs("clear", subtask.fn, subtask.rc, subtask.msg)
    BY <1>3, SubMoves DEF Retest, SubPCs, authVars, MayCall
  <2>2. Shape' /\ MainInv'
    BY <1>1, <1>3, <2>1 DEF SubIs, Shape, MainInv
  <2>3. SubInv'
    BY <1>1, <1>3, <2>1 DEF SubIs, SubInv, MainInv
  <2>4. HeldInv' /\ EndInv'
    BY <1>1, <1>3, <2>1, SubAndSend DEF SubIs, HeldInv, EndInv, MainInv, SubInv
  <2>5. PostInv' /\ WakeInv'
    BY <1>1, <1>3, <2>1 DEF SubIs, PostInv, WakeInv, NoLostWakeup, MainInv, SubInv
  <2> QED
    BY <2>2, <2>3, <2>4, <2>5
<1>4. CASE MayCall(subtask.fn) /\ subtask.fn # "WAIT"
  <2>1. /\ UNCHANGED <<native, held>>
        /\ info.receiving \/ info.joining
        /\ SubIs("call", subtask.fn, subtask.rc, subtask.msg)
    BY <1>4, SubMoves DEF Retest, SubPCs, authVars, MayCall
  <2>2. Shape' /\ MainInv'
    BY <1>1, <1>4, <2>1 DEF SubIs, Shape, MainInv
  <2>3. SubInv'
    BY <1>1, <1>4, <2>1 DEF SubIs, SubInv, MainInv
  <2>4. HeldInv' /\ EndInv'
    BY <1>1, <1>4, <2>1, SubAndSend DEF SubIs, HeldInv, EndInv, MainInv, SubInv
  <2>5. PostInv' /\ WakeInv'
    BY <1>1, <1>4, <2>1 DEF SubIs, PostInv, WakeInv, NoLostWakeup, MainInv, SubInv
  <2> QED
    BY <2>2, <2>3, <2>4, <2>5
<1> QED
  BY <1>1, <1>2, <1>3, <1>4

(* callNjerly(). *)

LEMMA CallKeeps ==
  ASSUME NjeIndInv, Call
  PROVE  TasksInv'
<1> USE DEF NjeIndInv, TasksInv, AddPCs, PopPCs
<1>1. /\ UNCHANGED <<native, held, main, info, queue>>
      /\ subtask.pc = "call"
      /\ subtask.fn # "WAIT" /\ subtask.msg = 0
  BY DEF Call, authVars, SubInv
<1>2. CASE /\ subtask.fn = "REGISTER"
           /\ subtask' = [subtask EXCEPT !.pc = "drop", !.rc = NoRC]
           /\ nje' = [nje EXCEPT !.registered = TRUE]
  <2>1. /\ subtask.fn = "REGISTER"
        /\ SubIs("drop", subtask.fn, NoRC, subtask.msg)
        /\ NjeIs(TRUE, nje.posted, nje.sent, nje.msgs, nje.delivered)
    BY <1>2 DEF Shape, SubRec, NjeRec, SubPCs, RCs, NoRC, SubIs, NjeIs
  <2>2. Shape' /\ MainInv'
    BY <1>1, <2>1 DEF SubIs, NjeIs, Shape, MainInv
  <2>3. SubInv'
    BY <1>1, <2>1 DEF SubIs, NjeIs, SubInv, MainInv
  <2>4. HeldInv' /\ EndInv'
    BY <1>1, <2>1 DEF SubIs, NjeIs, HeldInv, EndInv, MainInv, SubInv
  <2>5. PostInv' /\ WakeInv'
    BY <1>1, <2>1 DEF SubIs, NjeIs, PostInv, WakeInv, NoLostWakeup, MainInv, SubInv
  <2> QED
    BY <2>2, <2>3, <2>4, <2>5
<1>3. CASE /\ subtask.fn = "GETECB"
           /\ subtask' = [subtask EXCEPT !.pc = "drop", !.rc = NoRC]
           /\ UNCHANGED nje
  <2>1. /\ subtask.fn = "GETECB" /\ UNCHANGED nje
        /\ SubIs("drop", subtask.fn, NoRC, subtask.msg)
    BY <1>3 DEF Shape, SubRec, NjeRec, SubPCs, RCs, NoRC, SubIs, NjeIs
  <2>2. Shape' /\ MainInv'
    BY <1>1, <2>1 DEF SubIs, Shape, MainInv
  <2>3. SubInv'
    BY <1>1, <2>1 DEF SubIs, SubInv, MainInv
  <2>4. HeldInv' /\ EndInv'
    BY <1>1, <2>1 DEF SubIs, HeldInv, EndInv, MainInv, SubInv
  <2>5. PostInv' /\ WakeInv'
    BY <1>1, <2>1 DEF SubIs, PostInv, WakeInv, NoLostWakeup, MainInv, SubInv
  <2> QED
    BY <2>2, <2>3, <2>4, <2>5
<1>4. CASE /\ subtask.fn = "GETMSG"
           /\ subtask' = [subtask EXCEPT !.pc = "drop", !.rc = NoRC, !.msg = 0]
           /\ UNCHANGED nje
  <2>1. /\ subtask.fn = "GETMSG" /\ UNCHANGED nje
        /\ SubIs("drop", subtask.fn, NoRC, 0)
    BY <1>4, RefsAre DEF Shape, SubRec, NjeRec, SubPCs, RCs, NoRC, SubIs, NjeIs
  <2>2. Shape' /\ MainInv'
    BY <1>1, <2>1 DEF SubIs, Shape, MainInv
  <2>3. SubInv'
    BY <1>1, <2>1 DEF SubIs, SubInv, MainInv
  <2>4. HeldInv' /\ EndInv'
    BY <1>1, <2>1 DEF SubIs, HeldInv, EndInv, MainInv, SubInv
  <2>5. PostInv' /\ WakeInv'
    BY <1>1, <2>1 DEF SubIs, PostInv, WakeInv, NoLostWakeup, MainInv, SubInv
  <2> QED
    BY <2>2, <2>3, <2>4, <2>5
<1>5. CASE /\ subtask.fn = "GETMSG" /\ nje.msgs # <<>>
           /\ subtask' = [subtask EXCEPT !.pc = "drop", !.rc = NoRC, !.msg = Head(nje.msgs)]
           /\ nje' = [nje EXCEPT !.msgs = Tail(@)]
  <2>1. /\ subtask.fn = "GETMSG" /\ Head(nje.msgs) \in Msgs
        /\ SubIs("drop", subtask.fn, NoRC, Head(nje.msgs))
        /\ NjeIs(nje.registered, nje.posted, nje.sent, Tail(nje.msgs), nje.delivered)
    <3>1. PICK m \in Msgs : m = Head(nje.msgs)
      BY <1>5, Fetches
    <3>2. subtask' = [subtask EXCEPT !.pc = "drop", !.rc = NoRC, !.msg = m] /\ m \in Refs
      BY <1>5, <3>1, RefsAre
    <3>3. SubIs("drop", subtask.fn, NoRC, m)
      BY <3>2 DEF Shape, SubRec, SubPCs, RCs, NoRC, SubIs
    <3>4. NjeIs(nje.registered, nje.posted, nje.sent, Tail(nje.msgs), nje.delivered)
      BY <1>5, Fetches
    <3> QED
      BY <1>5, <3>1, <3>3, <3>4
  <2>2. Shape' /\ MainInv'
    BY <1>1, <2>1 DEF SubIs, NjeIs, Shape, MainInv
  <2>3. SubInv'
    BY <1>1, <2>1 DEF SubIs, NjeIs, SubInv, MainInv
  <2>4. HeldInv' /\ EndInv'
    BY <1>1, <2>1 DEF SubIs, NjeIs, HeldInv, EndInv, MainInv, SubInv
  <2>5. PostInv' /\ WakeInv'
    BY <1>1, <2>1 DEF SubIs, NjeIs, PostInv, WakeInv, NoLostWakeup, MainInv, SubInv
  <2> QED
    BY <2>2, <2>3, <2>4, <2>5
<1>6. CASE /\ subtask.fn = "DEREGISTER"
           /\ subtask' = [subtask EXCEPT !.pc = "drop", !.rc = NoRC]
           /\ nje' = [nje EXCEPT !.registered = FALSE, !.msgs = <<>>, !.posted = FALSE]
  <2>1. /\ subtask.fn = "DEREGISTER"
        /\ SubIs("drop", subtask.fn, NoRC, subtask.msg)
        /\ NjeIs(FALSE, FALSE, nje.sent, <<>>, nje.delivered)
    <3> DEFINE none == <<>>
    <3>1. none \in Seq(Msgs)
          /\ nje' = [nje EXCEPT !.registered = FALSE, !.msgs = none, !.posted = FALSE]
      BY <1>6
    <3> HIDE DEF none
    <3>2. NjeIs(FALSE, FALSE, nje.sent, none, nje.delivered)
      BY <3>1 DEF Shape, NjeRec, NjeIs
    <3>3. SubIs("drop", subtask.fn, NoRC, subtask.msg)
      BY <1>6 DEF Shape, SubRec, SubPCs, RCs, NoRC, SubIs
    <3> QED
      BY <1>6, <3>2, <3>3 DEF none
  <2>2. Shape' /\ MainInv'
    BY <1>1, <2>1 DEF SubIs, NjeIs, Shape, MainInv
  <2>3. SubInv'
    BY <1>1, <2>1 DEF SubIs, NjeIs, SubInv, MainInv
  <2>4. HeldInv' /\ EndInv'
    BY <1>1, <2>1 DEF SubIs, NjeIs, HeldInv, EndInv, MainInv, SubInv
  <2>5. PostInv' /\ WakeInv'
    BY <1>1, <2>1 DEF SubIs, NjeIs, PostInv, WakeInv, NoLostWakeup, MainInv, SubInv
  <2> QED
    BY <2>2, <2>3, <2>4, <2>5
<1>7. CASE /\ subtask' = [subtask EXCEPT !.pc = "drop", !.rc = "nje error"]
           /\ UNCHANGED nje
  <2>1. /\ UNCHANGED nje /\ "nje error" # NoRC
        /\ SubIs("drop", subtask.fn, "nje error", subtask.msg)
    BY <1>7 DEF Shape, SubRec, NjeRec, SubPCs, RCs, NoRC, SubIs, NjeIs
  <2>2. Shape' /\ MainInv'
    BY <1>1, <2>1 DEF SubIs, Shape, MainInv
  <2>3. SubInv'
    BY <1>1, <2>1 DEF SubIs, SubInv, MainInv
  <2>4. HeldInv' /\ EndInv'
    BY <1>1, <2>1 DEF SubIs, HeldInv, EndInv, MainInv, SubInv
  <2>5. PostInv' /\ WakeInv'
    BY <1>1, <2>1 DEF SubIs, PostInv, WakeInv, NoLostWakeup, MainInv, SubInv
  <2> QED
    BY <2>2, <2>3, <2>4, <2>5
<1> QED
  BY <1>1, <1>2, <1>3, <1>4, <1>5, <1>6, <1>7 DEF Call, Njerly

LEMMA DropKeeps ==
  ASSUME NjeIndInv, Drop
  PROVE  TasksInv'
<1> USE DEF NjeIndInv, TasksInv, AddPCs, PopPCs
<1>1. /\ UNCHANGED <<main, queue, nje>>
      /\ subtask.pc = "drop"
      /\ native' = native
      /\ held'[sub] = 0
      /\ \A h \in Holders \ {sub} : held'[h] = held[h]
  BY DropHeld, SubAndSend DEF Drop
<1>2. HeldInv'
  BY <1>1, SubAndSend DEF HeldInv
<1>3. CASE /\ subtask.fn # "DEREGISTER" /\ subtask.rc # NoRC
           /\ SubGoes("failed")
           /\ info' = [info EXCEPT !.errorRunning = TRUE]
  <2>1. /\ subtask.fn # "DEREGISTER" /\ subtask.rc # NoRC /\ subtask.rc \in RCs
        /\ SubIs("failed", subtask.fn, subtask.rc, subtask.msg)
        /\ InfoIs(info.thread, info.receiving, info.joining, info.stopRunning, TRUE,
                  info.ecb)
    BY <1>3, <1>1, SubMoves DEF Shape, SubRec, InfoRec, SubPCs, Funcs, RCs, NoRC, SubIs,
       InfoIs, SubInv
  <2>2. Shape' /\ MainInv'
    BY <1>1, <2>1 DEF SubIs, InfoIs, Shape, MainInv
  <2>3. SubInv'
    BY <1>1, <2>1 DEF SubIs, InfoIs, SubInv, MainInv
  <2>4. EndInv'
    BY <1>1, <2>1, SubAndSend DEF SubIs, EndInv
  <2>5. PostInv' /\ WakeInv'
    BY <1>1, <2>1 DEF SubIs, InfoIs, PostInv, WakeInv, NoLostWakeup, MainInv, SubInv
  <2> QED
    BY <1>2, <2>2, <2>3, <2>4, <2>5
<1>4. CASE /\ subtask.fn = "REGISTER" /\ subtask.rc = NoRC
           /\ subtask' = [subtask EXCEPT !.pc = "park", !.fn = "GETECB"]
           /\ UNCHANGED info
  <2>1. /\ subtask.fn = "REGISTER" /\ subtask.rc = NoRC /\ UNCHANGED info
        /\ SubIs("park", "GETECB", subtask.rc, subtask.msg)
    BY <1>4, <1>1, SubMoves DEF Shape, SubRec, InfoRec, SubPCs, Funcs, RCs, NoRC, SubIs,
       InfoIs, SubInv
  <2>2. Shape' /\ MainInv'
    BY <1>1, <2>1 DEF SubIs, Shape, MainInv
  <2>3. SubInv'
    BY <1>1, <2>1 DEF SubIs, SubInv, MainInv
  <2>4. EndInv'
    BY <1>1, <2>1, SubAndSend DEF SubIs, EndInv
  <2>5. PostInv' /\ WakeInv'
    BY <1>1, <2>1 DEF SubIs, PostInv, WakeInv, NoLostWakeup, MainInv, SubInv
  <2> QED
    BY <1>2, <2>2, <2>3, <2>4, <2>5
<1>5. CASE /\ subtask.fn = "GETECB" /\ subtask.rc = NoRC
           /\ subtask' = [subtask EXCEPT !.pc = "park", !.fn = "GETMSG"]
           /\ info' = [info EXCEPT !.ecb = TRUE]
  <2>1. /\ subtask.fn = "GETECB" /\ subtask.rc = NoRC
        /\ InfoIs(info.thread, info.receiving, info.joining, info.stopRunning,
                  info.errorRunning, TRUE)
        /\ SubIs("park", "GETMSG", subtask.rc, subtask.msg)
    BY <1>5, <1>1, SubMoves DEF Shape, SubRec, InfoRec, SubPCs, Funcs, RCs, NoRC, SubIs,
       InfoIs, SubInv
  <2>2. Shape' /\ MainInv'
    BY <1>1, <2>1 DEF SubIs, InfoIs, Shape, MainInv
  <2>3. SubInv'
    BY <1>1, <2>1 DEF SubIs, InfoIs, SubInv, MainInv
  <2>4. EndInv'
    BY <1>1, <2>1, SubAndSend DEF SubIs, EndInv
  <2>5. PostInv' /\ WakeInv'
    BY <1>1, <2>1 DEF SubIs, InfoIs, PostInv, WakeInv, NoLostWakeup, MainInv, SubInv
  <2> QED
    BY <1>2, <2>2, <2>3, <2>4, <2>5
<1>6. CASE /\ subtask.fn = "GETMSG" /\ subtask.rc = NoRC /\ subtask.msg # 0
           /\ SubGoes("next")
           /\ UNCHANGED info
  <2>1. /\ subtask.fn = "GETMSG" /\ subtask.msg # 0 /\ UNCHANGED info
        /\ SubIs("next", subtask.fn, subtask.rc, subtask.msg)
    BY <1>6, <1>1, SubMoves DEF Shape, SubRec, InfoRec, SubPCs, Funcs, RCs, NoRC, SubIs,
       InfoIs, SubInv
  <2>2. Shape' /\ MainInv'
    BY <1>1, <2>1 DEF SubIs, Shape, MainInv
  <2>3. SubInv'
    BY <1>1, <2>1 DEF SubIs, SubInv, MainInv
  <2>4. EndInv'
    BY <1>1, <2>1, SubAndSend DEF SubIs, EndInv
  <2>5. PostInv' /\ WakeInv'
    BY <1>1, <2>1 DEF SubIs, PostInv, WakeInv, NoLostWakeup, MainInv, SubInv
  <2> QED
    BY <1>2, <2>2, <2>3, <2>4, <2>5
<1>7. CASE /\ subtask.fn = "GETMSG" /\ subtask.rc = NoRC /\ subtask.msg = 0
           /\ SubGoes("loop")
           /\ info' = [info EXCEPT !.isRunning = TRUE]
  <2>1. /\ subtask.fn = "GETMSG" /\ subtask.msg = 0
        /\ InfoIs(info.thread, info.receiving, info.joining, info.stopRunning,
                  info.errorRunning, info.ecb)
        /\ SubIs("loop", subtask.fn, subtask.rc, subtask.msg)
    BY <1>7, <1>1, SubMoves DEF Shape, SubRec, InfoRec, SubPCs, Funcs, RCs, NoRC, SubIs,
       InfoIs, SubInv
  <2>2. Shape' /\ MainInv'
    BY <1>1, <2>1 DEF SubIs, InfoIs, Shape, MainInv
  <2>3. SubInv'
    BY <1>1, <2>1 DEF SubIs, InfoIs, SubInv, MainInv
  <2>4. EndInv'
    BY <1>1, <2>1, SubAndSend DEF SubIs, EndInv
  <2>5. PostInv' /\ WakeInv'
    BY <1>1, <2>1 DEF SubIs, InfoIs, PostInv, WakeInv, NoLostWakeup, MainInv, SubInv
  <2> QED
    BY <1>2, <2>2, <2>3, <2>4, <2>5
<1>8. CASE /\ subtask.fn = "DEREGISTER"
           /\ SubGoes("leave")
           /\ UNCHANGED info
  <2>1. /\ subtask.fn = "DEREGISTER" /\ UNCHANGED info
        /\ SubIs("leave", subtask.fn, subtask.rc, subtask.msg)
    BY <1>8, <1>1, SubMoves DEF Shape, SubRec, InfoRec, SubPCs, Funcs, RCs, NoRC, SubIs,
       InfoIs, SubInv
  <2>2. Shape' /\ MainInv'
    BY <1>1, <2>1 DEF SubIs, Shape, MainInv
  <2>3. SubInv'
    BY <1>1, <2>1 DEF SubIs, SubInv, MainInv
  <2>4. EndInv'
    BY <1>1, <2>1, SubAndSend DEF SubIs, EndInv
  <2>5. PostInv' /\ WakeInv'
    BY <1>1, <2>1 DEF SubIs, PostInv, WakeInv, NoLostWakeup, MainInv, SubInv
  <2> QED
    BY <1>2, <2>2, <2>3, <2>4, <2>5
<1> QED
  BY <1>1, <1>3, <1>4, <1>5, <1>6, <1>7, <1>8 DEF Drop

LEMMA FailedKeeps ==
  ASSUME NjeIndInv, Failed
  PROVE  TasksInv'
<1> USE DEF NjeIndInv, TasksInv, AddPCs, PopPCs
<1>1. /\ UNCHANGED <<native, held, main, queue, nje>>
      /\ subtask.pc = "failed"
      /\ InfoIs(info.thread, info.receiving, info.joining, info.stopRunning,
                info.errorRunning, FALSE)
  BY DEF Failed, authVars, Shape, InfoRec, InfoIs, SubInv
<1>2. CASE subtask.fn = "REGISTER"
  <2>1. /\ SubIs("leave", "DEREGISTER", subtask.rc, subtask.msg)
    BY <1>2 DEF Failed, Shape, SubRec, SubPCs, Funcs, SubIs
  <2>2. Shape' /\ MainInv'
    BY <1>1, <1>2, <2>1 DEF SubIs, InfoIs, Shape, MainInv
  <2>3. SubInv'
    BY <1>1, <1>2, <2>1 DEF SubIs, InfoIs, SubInv, MainInv
  <2>4. HeldInv' /\ EndInv'
    BY <1>1, <1>2, <2>1 DEF SubIs, InfoIs, HeldInv, EndInv, MainInv, SubInv
  <2>5. PostInv' /\ WakeInv'
    BY <1>1, <1>2, <2>1 DEF SubIs, InfoIs, PostInv, WakeInv, NoLostWakeup, MainInv, SubInv
  <2> QED
    BY <2>2, <2>3, <2>4, <2>5
<1>3. CASE subtask.fn # "REGISTER"
  <2>1. /\ SubIs("park", "DEREGISTER", subtask.rc, subtask.msg)
    BY <1>3 DEF Failed, Shape, SubRec, SubPCs, Funcs, SubIs
  <2>2. Shape' /\ MainInv'
    BY <1>1, <1>3, <2>1 DEF SubIs, InfoIs, Shape, MainInv
  <2>3. SubInv'
    BY <1>1, <1>3, <2>1 DEF SubIs, InfoIs, SubInv, MainInv
  <2>4. HeldInv' /\ EndInv'
    BY <1>1, <1>3, <2>1 DEF SubIs, InfoIs, HeldInv, EndInv, MainInv, SubInv
  <2>5. PostInv' /\ WakeInv'
    BY <1>1, <1>3, <2>1 DEF SubIs, InfoIs, PostInv, WakeInv, NoLostWakeup, MainInv, SubInv
  <2> QED
    BY <2>2, <2>3, <2>4, <2>5
<1> QED
  BY <1>1, <1>2, <1>3

(* queueMsg(). *)

LEMMA NewElemKeeps ==
  ASSUME NjeIndInv, NewElem
  PROVE  TasksInv'
<1> USE DEF NjeIndInv, TasksInv, AddPCs, PopPCs
<1>1. /\ UNCHANGED <<native, held, main, info, nje>>
      /\ subtask.pc = "next"
      /\ queue' \in QueueRec /\ queue'.tail = queue.tail
      /\ SubIs("link", subtask.fn, subtask.rc, subtask.msg)
  <2>1. queue \in QueueRec /\ subtask.msg \in Refs /\ queue.head \in Refs
    BY RefsAre DEF Shape, QueueRec, SubRec
  <2>2. [dat |-> subtask.msg, prev |-> 0, next |-> queue.head] \in ElemRec
    BY <2>1, RefsAre DEF ElemRec
  <2>3. queue' \in QueueRec /\ queue'.tail = queue.tail
    BY <2>1, <2>2 DEF NewElem, QueueRec
  <2> QED
    BY <2>3, SubMoves DEF NewElem, authVars, SubPCs
<1>2. Shape' /\ MainInv'
  BY <1>1 DEF SubIs, Shape, MainInv
<1>3. SubInv'
  BY <1>1 DEF SubIs, SubInv, MainInv
<1>4. HeldInv' /\ EndInv'
  BY <1>1 DEF SubIs, HeldInv, EndInv, MainInv, SubInv
<1>5. PostInv' /\ WakeInv'
  BY <1>1 DEF SubIs, PostInv, WakeInv, NoLostWakeup, MainInv, SubInv
<1> QED
  BY <1>2, <1>3, <1>4, <1>5

LEMMA LinkHeadKeeps ==
  ASSUME NjeIndInv, LinkHead
  PROVE  TasksInv'
<1> USE DEF NjeIndInv, TasksInv, AddPCs, PopPCs
<1>1. /\ UNCHANGED <<native, held, main, info, nje>>
      /\ subtask.pc \in {"link", "linked"}
      /\ queue' \in QueueRec /\ queue'.tail = queue.tail
      /\ \/ SubIs("linked", subtask.fn, subtask.rc, subtask.msg)
         \/ SubIs("count", subtask.fn, subtask.rc, subtask.msg)
  <2>1. queue \in QueueRec /\ subtask.msg \in Refs /\ queue.head \in Numbers
    BY RefsAre DEF Shape, QueueRec, SubRec
  <2>2. CASE subtask.pc = "link"
    BY <2>1, <2>2 DEF LinkHead, SubLoads, authVars, Shape, SubRec, SubIs, SubPCs
  <2>3. CASE subtask.pc = "linked"
    <3>1. queue' \in QueueRec
      <4>1. CASE subtask.load # 0
        <5>1. queue' = [queue EXCEPT !.elem[subtask.load].prev = subtask.msg]
          BY <2>3, <4>1 DEF LinkHead
        <5> QED
          BY <2>1, <5>1, ElemTyped
      <4>2. CASE subtask.load = 0
        BY <2>1, <2>3, <4>2 DEF LinkHead
      <4> QED
        BY <4>1, <4>2
    <3>2. queue'.tail = queue.tail
      BY <2>1, <2>3 DEF LinkHead, QueueRec
    <3> QED
      BY <2>3, <3>1, <3>2, SubMoves DEF LinkHead, authVars, SubPCs
  <2> QED
    BY <2>2, <2>3 DEF LinkHead
<1>2. Shape' /\ MainInv'
  BY <1>1 DEF SubIs, Shape, MainInv
<1>3. SubInv'
  BY <1>1 DEF SubIs, SubInv, MainInv
<1>4. HeldInv' /\ EndInv'
  BY <1>1 DEF SubIs, HeldInv, EndInv, MainInv, SubInv
<1>5. PostInv' /\ WakeInv'
  BY <1>1 DEF SubIs, PostInv, WakeInv, NoLostWakeup, MainInv, SubInv
<1> QED
  BY <1>2, <1>3, <1>4, <1>5

LEMMA CountUpKeeps ==
  ASSUME NjeIndInv, CountUp
  PROVE  TasksInv'
<1> USE DEF NjeIndInv, TasksInv, AddPCs, PopPCs
<1>1. /\ UNCHANGED <<native, held, main, info, nje>>
      /\ subtask.pc \in {"count", "counted"}
      /\ queue' \in QueueRec /\ queue'.tail = queue.tail
      /\ \/ SubIs("counted", subtask.fn, subtask.rc, subtask.msg)
         \/ SubIs("head", subtask.fn, subtask.rc, subtask.msg)
  <2>1. queue \in QueueRec /\ subtask.load \in Numbers /\ queue.items \in Numbers
    BY RefsAre DEF Shape, QueueRec, SubRec
  <2>2. CASE subtask.pc = "count"
    BY <2>1, <2>2 DEF CountUp, SubLoads, authVars, Shape, SubRec, SubIs, SubPCs
  <2>3. CASE subtask.pc = "counted"
    BY <2>1, <2>3, RefsAre, SubMoves DEF CountUp, authVars, SubPCs, QueueRec
  <2> QED
    BY <2>2, <2>3 DEF CountUp
<1>2. Shape' /\ MainInv'
  BY <1>1 DEF SubIs, Shape, MainInv
<1>3. SubInv'
  BY <1>1 DEF SubIs, SubInv, MainInv
<1>4. HeldInv' /\ EndInv'
  BY <1>1 DEF SubIs, HeldInv, EndInv, MainInv, SubInv
<1>5. PostInv' /\ WakeInv'
  BY <1>1 DEF SubIs, PostInv, WakeInv, NoLostWakeup, MainInv, SubInv
<1> QED
  BY <1>2, <1>3, <1>4, <1>5

LEMMA SetHeadKeeps ==
  ASSUME NjeIndInv, SetHead
  PROVE  TasksInv'
<1> USE DEF NjeIndInv, TasksInv, AddPCs, PopPCs
<1>1. /\ UNCHANGED <<native, held, main, info, nje>>
      /\ subtask.pc = "head"
      /\ queue' \in QueueRec /\ queue'.tail = queue.tail
      /\ SubIs("tail", subtask.fn, subtask.rc, subtask.msg)
  BY SubMoves DEF SetHead, authVars, Shape, QueueRec, SubRec, SubPCs
<1>2. Shape' /\ MainInv'
  BY <1>1 DEF SubIs, Shape, MainInv
<1>3. SubInv'
  BY <1>1 DEF SubIs, SubInv, MainInv
<1>4. HeldInv' /\ EndInv'
  BY <1>1 DEF SubIs, HeldInv, EndInv, MainInv, SubInv
<1>5. PostInv' /\ WakeInv'
  BY <1>1 DEF SubIs, PostInv, WakeInv, NoLostWakeup, MainInv, SubInv
<1> QED
  BY <1>2, <1>3, <1>4, <1>5

LEMMA SetTailKeeps ==
  ASSUME NjeIndInv, SetTail
  PROVE  TasksInv'
<1> USE DEF NjeIndInv, TasksInv, AddPCs, PopPCs
<1>1. /\ UNCHANGED <<native, held, main, nje>>
      /\ subtask.pc = "tail"
      /\ queue' \in QueueRec /\ (queue.tail # 0 => queue'.tail = queue.tail)
      /\ \/ SubIs("drain", subtask.fn, subtask.rc, 0) /\ subtask.fn = "WAIT"
         \/ SubIs("loop", subtask.fn, subtask.rc, 0) /\ subtask.fn # "WAIT"
      /\ InfoIs(info.thread, info.receiving, info.joining, info.stopRunning,
                info.errorRunning, info.ecb)
  <2>1. queue' \in QueueRec /\ (queue.tail # 0 => queue'.tail = queue.tail)
    BY DEF SetTail, Shape, QueueRec, SubRec
  <2>2. InfoIs(info.thread, info.receiving, info.joining, info.stopRunning,
               info.errorRunning, info.ecb)
    BY DEF SetTail, Shape, InfoRec, InfoIs
  <2>3. \/ SubIs("drain", subtask.fn, subtask.rc, 0) /\ subtask.fn = "WAIT"
        \/ SubIs("loop", subtask.fn, subtask.rc, 0) /\ subtask.fn # "WAIT"
    BY RefsAre DEF SetTail, Shape, SubRec, SubPCs, SubIs
  <2> QED
    BY <2>1, <2>2, <2>3 DEF SetTail, authVars
<1>2. Shape' /\ MainInv'
  BY <1>1 DEF SubIs, InfoIs, Shape, MainInv
<1>3. SubInv'
  BY <1>1 DEF SubIs, InfoIs, SubInv, MainInv
<1>4. HeldInv' /\ EndInv'
  BY <1>1 DEF SubIs, InfoIs, HeldInv, EndInv, MainInv, SubInv
<1>5. PostInv' /\ WakeInv'
  BY <1>1 DEF SubIs, InfoIs, PostInv, WakeInv, NoLostWakeup, MainInv, SubInv
<1> QED
  BY <1>2, <1>3, <1>4, <1>5

(* The loop over NJE_WAIT. *)

LEMMA LoopKeeps ==
  ASSUME NjeIndInv, Loop
  PROVE  TasksInv'
<1> USE DEF NjeIndInv, TasksInv, AddPCs, PopPCs
<1>1. /\ UNCHANGED <<native, held, main, queue, nje>>
      /\ subtask.pc = "loop"
  BY DEF Loop, authVars
<1>2. CASE /\ info.stopRunning \/ info.errorRunning
           /\ info' = [info EXCEPT !.isRunning = FALSE, !.ecb = FALSE]
           /\ subtask' = [subtask EXCEPT !.pc = "park", !.fn = "DEREGISTER"]
  <2>1. /\ SubIs("park", "DEREGISTER", subtask.rc, subtask.msg)
        /\ InfoIs(info.thread, info.receiving, info.joining, info.stopRunning,
                  info.errorRunning, FALSE)
    BY <1>2 DEF Shape, SubRec, InfoRec, SubPCs, Funcs, SubIs, InfoIs
  <2>2. Shape' /\ MainInv'
    BY <1>1, <2>1 DEF SubIs, InfoIs, Shape, MainInv
  <2>3. SubInv'
    BY <1>1, <2>1 DEF SubIs, InfoIs, SubInv, MainInv
  <2>4. HeldInv' /\ EndInv'
    BY <1>1, <2>1 DEF SubIs, InfoIs, HeldInv, EndInv, MainInv, SubInv
  <2>5. PostInv' /\ WakeInv'
    BY <1>1, <2>1 DEF SubIs, InfoIs, PostInv, WakeInv, NoLostWakeup, MainInv, SubInv
  <2> QED
    BY <2>2, <2>3, <2>4, <2>5
<1>3. CASE /\ info.receiving
           /\ subtask' = [subtask EXCEPT !.pc = "park", !.fn = "WAIT", !.drained = FALSE]
           /\ UNCHANGED info
  <2>1. /\ info.receiving /\ UNCHANGED info
        /\ SubIs("park", "WAIT", subtask.rc, subtask.msg)
    BY <1>3 DEF Shape, SubRec, InfoRec, SubPCs, Funcs, SubIs, InfoIs
  <2>2. Shape' /\ MainInv'
    BY <1>1, <2>1 DEF SubIs, Shape, MainInv
  <2>3. SubInv'
    BY <1>1, <2>1 DEF SubIs, SubInv, MainInv
  <2>4. HeldInv' /\ EndInv'
    BY <1>1, <2>1 DEF SubIs, HeldInv, EndInv, MainInv, SubInv
  <2>5. PostInv' /\ WakeInv'
    BY <1>1, <2>1 DEF SubIs, PostInv, WakeInv, NoLostWakeup, MainInv, SubInv
  <2> QED
    BY <2>2, <2>3, <2>4, <2>5
<1> QED
  BY <1>1, <1>2, <1>3 DEF Loop

LEMMA ClearKeeps ==
  ASSUME NjeIndInv, Clear
  PROVE  TasksInv'
<1> USE DEF NjeIndInv, TasksInv, AddPCs, PopPCs
<1>1. /\ UNCHANGED <<native, held, main, info, queue>>
      /\ subtask.pc = "clear"
      /\ SubIs("drain", subtask.fn, "none", subtask.msg)
      /\ NjeIs(nje.registered, FALSE, nje.sent, nje.msgs, nje.delivered)
  BY DEF Clear, authVars, Shape, SubRec, NjeRec, SubPCs, RCs, SubIs, NjeIs
<1>2. Shape' /\ MainInv'
  BY <1>1 DEF SubIs, NjeIs, Shape, MainInv
<1>3. SubInv'
  BY <1>1 DEF SubIs, NjeIs, SubInv, MainInv
<1>4. HeldInv' /\ EndInv'
  BY <1>1 DEF SubIs, NjeIs, HeldInv, EndInv, MainInv, SubInv
<1>5. PostInv' /\ WakeInv'
  BY <1>1 DEF SubIs, NjeIs, PostInv, WakeInv, NoLostWakeup, MainInv, SubInv
<1> QED
  BY <1>2, <1>3, <1>4, <1>5

LEMMA DrainKeeps ==
  ASSUME NjeIndInv, Drain
  PROVE  TasksInv'
<1> USE DEF NjeIndInv, TasksInv, AddPCs, PopPCs
<1>1. /\ UNCHANGED <<native, held, main, info, queue>>
      /\ subtask.pc = "drain" /\ subtask.fn = "WAIT" /\ subtask.msg = 0
      /\ ~native /\ held[send] = 0 => held[sub] # 0
  BY OnlySubHolds DEF Drain, authVars, SubInv
<1>2. CASE /\ nje.msgs # <<>>
           /\ subtask' = [subtask EXCEPT !.pc = "next", !.msg = Head(nje.msgs),
                                                !.drained = TRUE]
           /\ nje' = [nje EXCEPT !.msgs = Tail(@)]
  <2>1. /\ NjeIs(nje.registered, nje.posted, nje.sent, Tail(nje.msgs), nje.delivered)
        /\ Head(nje.msgs) \in Msgs /\ Head(nje.msgs) # 0
        /\ SubIs("next", subtask.fn, subtask.rc, Head(nje.msgs))
    <3>1. nje.msgs # <<>> /\ nje' = [nje EXCEPT !.msgs = Tail(@)]
      BY <1>2
    <3>2. /\ Head(nje.msgs) \in Msgs /\ Head(nje.msgs) # 0
          /\ NjeIs(nje.registered, nje.posted, nje.sent, Tail(nje.msgs), nje.delivered)
      BY <3>1, Fetches
    <3>3. SubIs("next", subtask.fn, subtask.rc, Head(nje.msgs))
      <4>1. PICK m \in Msgs : m = Head(nje.msgs)
        BY <3>2
      <4>2. subtask' = [subtask EXCEPT !.pc = "next", !.msg = m, !.drained = TRUE] /\ m \in Refs
        BY <1>2, <4>1, RefsAre
      <4>3. SubIs("next", subtask.fn, subtask.rc, m)
        BY <4>2 DEF Shape, SubRec, SubPCs, SubIs
      <4> QED
        BY <4>1, <4>3
    <3> QED
      BY <3>2, <3>3
  <2>2. Shape' /\ MainInv'
    BY <1>1, <2>1 DEF SubIs, NjeIs, Shape, MainInv
  <2>3. SubInv'
    BY <1>1, <2>1 DEF SubIs, NjeIs, SubInv, MainInv
  <2>4. HeldInv' /\ EndInv'
    BY <1>1, <2>1 DEF SubIs, NjeIs, HeldInv, EndInv, MainInv, SubInv
  <2>5. PostInv' /\ WakeInv'
    BY <1>1, <2>1 DEF SubIs, NjeIs, PostInv, WakeInv, NoLostWakeup, MainInv, SubInv
  <2> QED
    BY <2>2, <2>3, <2>4, <2>5
<1>3. CASE /\ nje.msgs = <<>> \/ "nje" \in Faults
           /\ SubGoes("wait")
           /\ UNCHANGED nje
  <2>1. /\ nje.msgs = <<>> \/ "nje" \in Faults
        /\ UNCHANGED nje
        /\ SubIs("wait", subtask.fn, subtask.rc, subtask.msg)
    BY <1>3, SubMoves DEF SubPCs
  <2>2. Shape' /\ MainInv'
    BY <1>1, <2>1 DEF SubIs, Shape, MainInv
  <2>3. SubInv'
    BY <1>1, <2>1 DEF SubIs, SubInv, MainInv
  <2>4. HeldInv' /\ EndInv'
    BY <1>1, <2>1 DEF SubIs, HeldInv, EndInv, MainInv, SubInv
  <2>5. PostInv' /\ WakeInv'
    BY <1>1, <2>1 DEF SubIs, PostInv, WakeInv, NoLostWakeup, MainInv, SubInv
  <2> QED
    BY <2>2, <2>3, <2>4, <2>5
<1>4. CASE /\ subtask' = [subtask EXCEPT !.pc = "waitDrop", !.rc = NoRC]
           /\ UNCHANGED nje
  <2>1. /\ UNCHANGED nje
        /\ SubIs("waitDrop", subtask.fn, NoRC, subtask.msg)
    BY <1>4 DEF Shape, SubRec, NjeRec, SubPCs, RCs, NoRC, SubIs, NjeIs
  <2>2. Shape' /\ MainInv'
    BY <1>1, <2>1 DEF SubIs, Shape, MainInv
  <2>3. SubInv'
    BY <1>1, <2>1 DEF SubIs, SubInv, MainInv
  <2>4. HeldInv' /\ EndInv'
    BY <1>1, <2>1 DEF SubIs, HeldInv, EndInv, MainInv, SubInv
  <2>5. PostInv' /\ WakeInv'
    BY <1>1, <2>1 DEF SubIs, PostInv, WakeInv, NoLostWakeup, MainInv, SubInv
  <2> QED
    BY <2>2, <2>3, <2>4, <2>5
<1> QED
  BY <1>1, <1>2, <1>3, <1>4 DEF Drain

LEMMA WaitKeeps ==
  ASSUME NjeIndInv, NEW rc \in RCs, Wait(rc)
  PROVE  TasksInv'
<1> USE DEF NjeIndInv, TasksInv, AddPCs, PopPCs
<1>1. /\ UNCHANGED <<native, held, main, info, queue, nje>>
      /\ subtask.pc = "wait"
  BY DEF Wait, authVars
<1>2. CASE rc = NoRC
  <2>1. /\ SubIs("drain", subtask.fn, rc, subtask.msg)
    BY <1>2 DEF Wait, Shape, SubRec, SubPCs, SubIs
  <2>2. Shape' /\ MainInv'
    BY <1>1, <1>2, <2>1 DEF SubIs, Shape, MainInv
  <2>3. SubInv'
    BY <1>1, <1>2, <2>1 DEF SubIs, SubInv, MainInv
  <2>4. HeldInv' /\ EndInv'
    BY <1>1, <1>2, <2>1 DEF SubIs, HeldInv, EndInv, MainInv, SubInv
  <2>5. PostInv' /\ WakeInv'
    BY <1>1, <1>2, <2>1 DEF SubIs, PostInv, WakeInv, NoLostWakeup, MainInv, SubInv
  <2> QED
    BY <2>2, <2>3, <2>4, <2>5
<1>3. CASE rc # NoRC
  <2>1. /\ SubIs("waitDrop", subtask.fn, rc, subtask.msg)
    BY <1>3 DEF Wait, Shape, SubRec, SubPCs, SubIs
  <2>2. Shape' /\ MainInv'
    BY <1>1, <1>3, <2>1 DEF SubIs, Shape, MainInv
  <2>3. SubInv'
    BY <1>1, <1>3, <2>1 DEF SubIs, SubInv, MainInv
  <2>4. HeldInv' /\ EndInv'
    BY <1>1, <1>3, <2>1 DEF SubIs, HeldInv, EndInv, MainInv, SubInv
  <2>5. PostInv' /\ WakeInv'
    BY <1>1, <1>3, <2>1 DEF SubIs, PostInv, WakeInv, NoLostWakeup, MainInv, SubInv
  <2> QED
    BY <2>2, <2>3, <2>4, <2>5
<1> QED
  BY <1>1, <1>2, <1>3

LEMMA WaitDropKeeps ==
  ASSUME NjeIndInv, WaitDrop
  PROVE  TasksInv'
<1> USE DEF NjeIndInv, TasksInv, AddPCs, PopPCs
<1>1. /\ UNCHANGED <<main, queue, nje>>
      /\ subtask.pc = "waitDrop"
      /\ native' = native
      /\ held'[sub] = 0
      /\ \A h \in Holders \ {sub} : held'[h] = held[h]
  BY DropHeld, SubAndSend DEF WaitDrop
<1>2. CASE /\ SubGoes("stopped")
           /\ info' = [info EXCEPT !.stopRunning = TRUE]
  <2>1. /\ InfoIs(info.thread, info.receiving, info.joining, TRUE, info.errorRunning,
                  info.ecb)
        /\ SubIs("stopped", subtask.fn, subtask.rc, subtask.msg)
    BY <1>2, SubMoves DEF Shape, SubRec, InfoRec, SubPCs, RCs, NoRC, SubIs, InfoIs
  <2>2. Shape' /\ MainInv'
    BY <1>1, <2>1 DEF SubIs, InfoIs, Shape, MainInv
  <2>3. SubInv'
    BY <1>1, <2>1 DEF SubIs, InfoIs, SubInv, MainInv
  <2>4. HeldInv' /\ EndInv'
    BY <1>1, <2>1, SubAndSend DEF SubIs, InfoIs, HeldInv, EndInv, MainInv, SubInv
  <2>5. PostInv' /\ WakeInv'
    BY <1>1, <2>1 DEF SubIs, InfoIs, PostInv, WakeInv, NoLostWakeup, MainInv, SubInv
  <2> QED
    BY <2>2, <2>3, <2>4, <2>5
<1>3. CASE /\ SubGoes("loop")
           /\ info' = [info EXCEPT !.lastRC = IF info.stopRunning THEN "posted 32" ELSE @]
  <2>1. /\ InfoIs(info.thread, info.receiving, info.joining, info.stopRunning,
                  info.errorRunning, info.ecb)
        /\ SubIs("loop", subtask.fn, subtask.rc, subtask.msg)
    BY <1>3, SubMoves DEF Shape, SubRec, InfoRec, SubPCs, RCs, NoRC, SubIs, InfoIs
  <2>2. Shape' /\ MainInv'
    BY <1>1, <2>1 DEF SubIs, InfoIs, Shape, MainInv
  <2>3. SubInv'
    BY <1>1, <2>1 DEF SubIs, InfoIs, SubInv, MainInv
  <2>4. HeldInv' /\ EndInv'
    BY <1>1, <2>1, SubAndSend DEF SubIs, InfoIs, HeldInv, EndInv, MainInv, SubInv
  <2>5. PostInv' /\ WakeInv'
    BY <1>1, <2>1 DEF SubIs, InfoIs, PostInv, WakeInv, NoLostWakeup, MainInv, SubInv
  <2> QED
    BY <2>2, <2>3, <2>4, <2>5
<1>4. CASE /\ subtask.rc = "nje error"
           /\ SubGoes("failed")
           /\ info' = [info EXCEPT !.errorRunning = TRUE]
  <2>1. /\ subtask.rc \in RCs
        /\ InfoIs(info.thread, info.receiving, info.joining, info.stopRunning, TRUE,
                  info.ecb)
        /\ SubIs("failed", subtask.fn, subtask.rc, subtask.msg)
    BY <1>4, SubMoves DEF Shape, SubRec, InfoRec, SubPCs, RCs, NoRC, SubIs, InfoIs
  <2>2. Shape' /\ MainInv'
    BY <1>1, <2>1 DEF SubIs, InfoIs, Shape, MainInv
  <2>3. SubInv'
    BY <1>1, <2>1 DEF SubIs, InfoIs, SubInv, MainInv
  <2>4. HeldInv' /\ EndInv'
    BY <1>1, <2>1, SubAndSend DEF SubIs, InfoIs, HeldInv, EndInv, MainInv, SubInv
  <2>5. PostInv' /\ WakeInv'
    BY <1>1, <2>1 DEF SubIs, InfoIs, PostInv, WakeInv, NoLostWakeup, MainInv, SubInv
  <2> QED
    BY <2>2, <2>3, <2>4, <2>5
<1>5. CASE /\ SubGoes("loop")
           /\ UNCHANGED info
  <2>1. /\ UNCHANGED info
        /\ SubIs("loop", subtask.fn, subtask.rc, subtask.msg)
    BY <1>5, SubMoves DEF Shape, SubRec, InfoRec, SubPCs, RCs, NoRC, SubIs, InfoIs
  <2>2. Shape' /\ MainInv'
    BY <1>1, <2>1 DEF SubIs, Shape, MainInv
  <2>3. SubInv'
    BY <1>1, <2>1 DEF SubIs, SubInv, MainInv
  <2>4. HeldInv' /\ EndInv'
    BY <1>1, <2>1, SubAndSend DEF SubIs, HeldInv, EndInv, MainInv, SubInv
  <2>5. PostInv' /\ WakeInv'
    BY <1>1, <2>1 DEF SubIs, PostInv, WakeInv, NoLostWakeup, MainInv, SubInv
  <2> QED
    BY <2>2, <2>3, <2>4, <2>5
<1> QED
  BY <1>1, <1>2, <1>3, <1>4, <1>5 DEF WaitDrop

LEMMA StoppedKeeps ==
  ASSUME NjeIndInv, Stopped
  PROVE  TasksInv'
<1> USE DEF NjeIndInv, TasksInv, AddPCs, PopPCs
<1>1. /\ UNCHANGED <<native, held, main, queue, nje>>
      /\ subtask.pc = "stopped"
      /\ InfoIs(info.thread, info.receiving, info.joining, info.stopRunning,
                info.errorRunning, info.ecb)
      /\ SubIs("loop", subtask.fn, subtask.rc, subtask.msg)
  BY SubMoves DEF Stopped, authVars, Shape, InfoRec, RCs, InfoIs, SubPCs
<1>2. Shape' /\ MainInv'
  BY <1>1 DEF SubIs, InfoIs, Shape, MainInv
<1>3. SubInv'
  BY <1>1 DEF SubIs, InfoIs, SubInv, MainInv
<1>4. HeldInv' /\ EndInv'
  BY <1>1 DEF SubIs, InfoIs, HeldInv, EndInv, MainInv, SubInv
<1>5. PostInv' /\ WakeInv'
  BY <1>1 DEF SubIs, InfoIs, PostInv, WakeInv, NoLostWakeup, MainInv, SubInv
<1> QED
  BY <1>2, <1>3, <1>4, <1>5

(* The end of the subtask. *)

LEMMA LeaveKeeps ==
  ASSUME NjeIndInv, Leave
  PROVE  TasksInv'
<1> USE DEF NjeIndInv, TasksInv, AddPCs, PopPCs
<1>1. /\ UNCHANGED <<native, held, main, queue, nje>>
      /\ subtask.pc = "leave"
      /\ InfoIs(info.thread, info.receiving, info.joining, info.stopRunning,
                info.errorRunning, info.ecb)
  BY DEF Leave, authVars, Shape, InfoRec, InfoIs
<1>2. CASE UNCHANGED subtask
  <2>2. Shape' /\ MainInv'
    BY <1>1, <1>2 DEF InfoIs, Shape, MainInv
  <2>3. SubInv'
    BY <1>1, <1>2 DEF InfoIs, SubInv, MainInv
  <2>4. HeldInv' /\ EndInv'
    BY <1>1, <1>2 DEF InfoIs, HeldInv, EndInv, MainInv, SubInv
  <2>5. PostInv' /\ WakeInv'
    BY <1>1, <1>2 DEF InfoIs, PostInv, WakeInv, NoLostWakeup, MainInv, SubInv
  <2> QED
    BY <2>2, <2>3, <2>4, <2>5
<1>3. CASE SubGoes("ended")
  <2>1. /\ SubIs("ended", subtask.fn, subtask.rc, subtask.msg)
    BY <1>3, SubMoves DEF SubPCs
  <2>2. Shape' /\ MainInv'
    BY <1>1, <2>1 DEF SubIs, InfoIs, Shape, MainInv
  <2>3. SubInv'
    BY <1>1, <2>1 DEF SubIs, InfoIs, SubInv, MainInv
  <2>4. HeldInv' /\ EndInv'
    BY <1>1, <2>1 DEF SubIs, InfoIs, HeldInv, EndInv, MainInv, SubInv
  <2>5. PostInv' /\ WakeInv'
    BY <1>1, <2>1 DEF SubIs, InfoIs, PostInv, WakeInv, NoLostWakeup, MainInv, SubInv
  <2> QED
    BY <2>2, <2>3, <2>4, <2>5
<1> QED
  BY <1>1, <1>2, <1>3 DEF Leave

LEMMA OutOfMemoryKeeps ==
  ASSUME NjeIndInv, OutOfMemory
  PROVE  TasksInv'
<1> USE DEF NjeIndInv, TasksInv, AddPCs, PopPCs
<1>1. /\ UNCHANGED <<native, held, main, queue, nje>>
      /\ subtask.pc = "next" /\ "oom" \in Faults
      /\ InfoIs(info.thread, info.receiving, info.joining, info.stopRunning, TRUE, FALSE)
  BY DEF OutOfMemory, authVars, Shape, InfoRec, RCs, InfoIs
<1>2. CASE held[sub] # 0
  <2>1. /\ SubIs("call", "DEREGISTER", subtask.rc, 0)
    BY <1>2, RefsAre DEF OutOfMemory, Shape, SubRec, SubPCs, Funcs, SubIs
  <2>2. Shape' /\ MainInv'
    BY <1>1, <1>2, <2>1 DEF SubIs, InfoIs, Shape, MainInv
  <2>3. SubInv'
    BY <1>1, <1>2, <2>1 DEF SubIs, InfoIs, SubInv, MainInv
  <2>4. HeldInv' /\ EndInv'
    BY <1>1, <1>2, <2>1 DEF SubIs, InfoIs, HeldInv, EndInv, MainInv, SubInv
  <2>5. PostInv' /\ WakeInv'
    BY <1>1, <1>2, <2>1 DEF SubIs, InfoIs, PostInv, WakeInv, NoLostWakeup, MainInv, SubInv
  <2> QED
    BY <2>2, <2>3, <2>4, <2>5
<1>3. CASE held[sub] = 0
  <2>1. /\ SubIs("park", "DEREGISTER", subtask.rc, 0)
    BY <1>3, RefsAre DEF OutOfMemory, Shape, SubRec, SubPCs, Funcs, SubIs
  <2>2. Shape' /\ MainInv'
    BY <1>1, <1>3, <2>1 DEF SubIs, InfoIs, Shape, MainInv
  <2>3. SubInv'
    BY <1>1, <1>3, <2>1 DEF SubIs, InfoIs, SubInv, MainInv
  <2>4. HeldInv' /\ EndInv'
    BY <1>1, <1>3, <2>1 DEF SubIs, InfoIs, HeldInv, EndInv, MainInv, SubInv
  <2>5. PostInv' /\ WakeInv'
    BY <1>1, <1>3, <2>1 DEF SubIs, InfoIs, PostInv, WakeInv, NoLostWakeup, MainInv, SubInv
  <2> QED
    BY <2>2, <2>3, <2>4, <2>5
<1> QED
  BY <1>1, <1>2, <1>3

LEMMA SubEndsKeeps ==
  ASSUME NjeIndInv, subtask.pc \in {"call", "drain", "wait"} \cup AddPCs,
         SubEnds, UNCHANGED <<authVars, main, info, queue, nje>>
  PROVE  TasksInv'
<1> USE DEF NjeIndInv, TasksInv, AddPCs, PopPCs
<1>1. /\ UNCHANGED <<native, held, main, info, queue, nje>>
      /\ subtask.pc \in {"call", "drain", "wait"} \cup AddPCs
      /\ SubIs("ended", subtask.fn, subtask.rc, subtask.msg)
  BY RefsAre DEF SubEnds, authVars, Shape, SubRec, SubPCs, SubIs
<1>2. Shape' /\ MainInv'
  BY <1>1 DEF SubIs, Shape, MainInv
<1>3. SubInv'
  BY <1>1 DEF SubIs, SubInv, MainInv
<1>4. HeldInv' /\ EndInv'
  BY <1>1 DEF SubIs, HeldInv, EndInv, MainInv, SubInv
<1>5. PostInv' /\ WakeInv'
  BY <1>1 DEF SubIs, PostInv, WakeInv, NoLostWakeup, MainInv, SubInv
<1> QED
  BY <1>2, <1>3, <1>4, <1>5

(***************************************************************************)
(* The steps of NJE38.                                                     *)
(***************************************************************************)

LEMMA MessageArrivesKeeps ==
  ASSUME NjeIndInv, MessageArrives
  PROVE  TasksInv'
<1> USE DEF NjeIndInv, TasksInv, AddPCs, PopPCs
<1>1. /\ UNCHANGED <<native, held, main, subtask, info, queue>>
      /\ nje.registered /\ nje.sent < MaxMsgs
      /\ NjeIs(nje.registered, TRUE, nje.sent + 1, Append(nje.msgs, nje.sent + 1),
                                                          nje.delivered)
  <2> DEFINE k == nje.sent + 1
             a == Append(nje.msgs, k)
  <2>1. /\ nje.msgs \in Seq(Msgs) /\ k \in Msgs /\ k \in Refs
        /\ nje' = [nje EXCEPT !.sent = k, !.msgs = a, !.posted = TRUE]
    BY MaxMsgsNat DEF MessageArrives, Shape, NjeRec, Msgs, Refs
  <2> HIDE DEF k
  <2>2. a \in Seq(Msgs)
    BY <2>1
  <2> HIDE DEF a
  <2>3. NjeIs(nje.registered, TRUE, k, a, nje.delivered)
    BY <2>1, <2>2 DEF Shape, NjeRec, NjeIs
  <2> QED
    BY <2>3 DEF MessageArrives, authVars, a, k
<1>2. Shape' /\ MainInv'
  BY <1>1 DEF NjeIs, Shape, MainInv
<1>3. SubInv'
  BY <1>1 DEF NjeIs, SubInv, MainInv
<1>4. HeldInv' /\ EndInv'
  BY <1>1 DEF NjeIs, HeldInv, EndInv, MainInv, SubInv
<1>5. PostInv' /\ WakeInv'
  BY <1>1 DEF NjeIs, PostInv, WakeInv, NoLostWakeup, MainInv, SubInv
<1> QED
  BY <1>2, <1>3, <1>4, <1>5

LEMMA Nje38StopsKeeps ==
  ASSUME NjeIndInv, Nje38Stops
  PROVE  TasksInv'
<1> USE DEF NjeIndInv, TasksInv, AddPCs, PopPCs
<1>1. /\ UNCHANGED <<native, held, main, subtask, info, queue>>
      /\ NjeIs(nje.registered, TRUE, nje.sent, nje.msgs, nje.delivered)
  BY DEF Nje38Stops, authVars, Shape, NjeRec, NjeIs
<1>2. Shape' /\ MainInv'
  BY <1>1 DEF NjeIs, Shape, MainInv
<1>3. SubInv'
  BY <1>1 DEF NjeIs, SubInv, MainInv
<1>4. HeldInv' /\ EndInv'
  BY <1>1 DEF NjeIs, HeldInv, EndInv, MainInv, SubInv
<1>5. PostInv' /\ WakeInv'
  BY <1>1 DEF NjeIs, PostInv, WakeInv, NoLostWakeup, MainInv, SubInv
<1> QED
  BY <1>2, <1>3, <1>4, <1>5

LEMMA StutterKeeps ==
  ASSUME NjeIndInv, UNCHANGED vars
  PROVE  TasksInv'
<1> USE DEF NjeIndInv, TasksInv, AddPCs, PopPCs
<1>1. /\ UNCHANGED <<native, held, main, subtask, info, queue, nje>>
  BY DEF vars, authVars, protoVars
<1>2. Shape' /\ MainInv'
  BY <1>1 DEF Shape, MainInv
<1>3. SubInv'
  BY <1>1 DEF SubInv, MainInv
<1>4. HeldInv' /\ EndInv'
  BY <1>1 DEF HeldInv, EndInv, MainInv, SubInv
<1>5. PostInv' /\ WakeInv'
  BY <1>1 DEF PostInv, WakeInv, NoLostWakeup, MainInv, SubInv
<1> QED
  BY <1>2, <1>3, <1>4, <1>5

-----------------------------------------------------------------------------
(* All steps together, once with the assignments of the counter: every take *)
(* of the two tasks is one the counter's contract allows.                   *)
LEMMA StepCounts ==
  ASSUME NjeIndInv, [Next]_vars
  PROVE  [AuthNext]_authVars
<1> USE DEF NjeIndInv, TasksInv, AddPCs, PopPCs
<1>1. /\ sub \in Holders /\ send \in Holders /\ authGen # 0
      /\ Rac \subseteq BOOLEAN /\ TRUE \in BOOLEAN
  BY SubAndSend DEF AuthInv, AuthTypeOK, Rac
<1>2. ASSUME AuthDrop(sub) \/ AuthDrop(send) PROVE [AuthNext]_authVars
  BY <1>1, <1>2 DEF AuthNext
<1>3. ASSUME NEW rac \in Rac, NjeSend(rac) PROVE [AuthNext]_authVars
  <2>1. MayTake(send)
    BY <1>1, <1>3 DEF NjeSend, HeldInv, MainInv, MayTake
  <2> QED
    BY <1>1, <1>3, <2>1 DEF NjeSend, AuthNext
<1>4. ASSUME NEW rac \in Rac, Take(rac) PROVE [AuthNext]_authVars
  <2>1. MayTake(sub)
    BY <1>1, <1>4 DEF Take, HeldInv, MayTake
  <2> QED
    BY <1>1, <1>4, <2>1 DEF Take, AuthNext
<1>5. ASSUME RxNoPriv PROVE [AuthNext]_authVars
  BY <1>5 DEF RxNoPriv, AuthNext
<1>6. CASE Exec
  BY <1>3, <1>6 DEF Exec, NjeRegister, NjeReceive, NjeDeregister, ExecEnds
<1>7. CASE MainGoesOn
  BY <1>2, <1>5, <1>7 DEF MainGoesOn, NjeSendDone, Watch, WatchFlags, WatchEnded, StartedUp,
     WaitOver, LeaveTest, LeaveGivesUp, Post, LeaveDrop, ReceiveResult, Pop, Unlink, Untail,
     CountDown, Joined, ResetGivesUp
<1>8. CASE Subtask
  BY <1>2, <1>4, <1>8 DEF Subtask, SubtaskGoesOn, Park, Retest, Call, Drop, Failed, NewElem, LinkHead,
     CountUp, SetHead, SetTail, Loop, Clear, Drain, Wait, WaitDrop, Stopped, Leave, OutOfMemory, Unauthorised
<1>9. CASE SubAbend \/ MessageArrives \/ Nje38Stops \/ Terminated \/ UNCHANGED vars
  BY <1>9 DEF SubAbend, MessageArrives, Nje38Stops, Terminated, vars
<1> QED
  BY <1>6, <1>7, <1>8, <1>9 DEF Next

LEMMA StepKeeps ==
  ASSUME NjeIndInv, [Next]_vars
  PROVE  NjeIndInv'
<1>1. AuthInv'
  BY StepCounts, StepInv DEF NjeIndInv
<1> SUFFICES TasksInv'
  BY <1>1 DEF NjeIndInv
<1>2. CASE Exec
  BY <1>2, RegisterKeeps, SendKeeps, ReceiveKeeps, DeregisterKeeps, ExecEndsKeeps DEF Exec
<1>3. CASE Watch
  <2>1. ASSUME NEW at \in {"starting", "waiting"}, WatchFlags(at, at) PROVE TasksInv'
    <3>1. <<at, at>> \in {<<"starting", "starting">>, <<"waiting", "waiting">>,
                          <<"leaving", "leaveCheck">>}
      OBVIOUS
    <3> QED
      BY <2>1, <3>1, WatchFlagsKeeps
  <2>2. ASSUME WatchFlags("leaving", "leaveCheck") PROVE TasksInv'
    BY <2>2, WatchFlagsKeeps
  <2> QED
    BY <1>3, <2>1, <2>2, WatchEndedKeeps DEF Watch
<1>4. CASE MainGoesOn
  BY <1>3, <1>4, SendDoneKeeps, StartedUpKeeps, WaitOverKeeps, LeaveTestKeeps, LeaveGivesUpKeeps,
     PostKeeps, LeaveDropKeeps, ReceiveResultKeeps, PopKeeps, UnlinkKeeps, UntailKeeps,
     CountDownKeeps, JoinedKeeps, ResetGivesUpKeeps, NoPrivKeeps DEF MainGoesOn
<1>5. CASE Subtask
  <2>1. CASE OutOfMemory \/ Unauthorised
    BY <2>1, OutOfMemoryKeeps, SubEndsKeeps DEF Unauthorised
  <2> QED
    BY <1>5, <2>1, ParkKeeps, TakeKeeps, SecondTestKeeps, CallKeeps, DropKeeps, FailedKeeps,
       NewElemKeeps, LinkHeadKeeps, CountUpKeeps, SetHeadKeeps, SetTailKeeps, LoopKeeps, ClearKeeps,
       DrainKeeps, WaitKeeps, WaitDropKeeps, StoppedKeeps, LeaveKeeps DEF Subtask, SubtaskGoesOn
<1>6. CASE SubAbend
  BY <1>6, SubEndsKeeps DEF SubAbend
<1>7. CASE MessageArrives \/ Nje38Stops \/ Terminated \/ UNCHANGED vars
  BY <1>7, MessageArrivesKeeps, Nje38StopsKeeps, StutterKeeps DEF Terminated
<1> QED
  BY <1>2, <1>4, <1>5, <1>6, <1>7 DEF Next

LEMMA NjeAlways == Spec => []NjeIndInv
<1>1. NjeIndInv /\ [Next]_vars => NjeIndInv'
  BY StepKeeps
<1> QED
  BY <1>1, TasksInit, PTL DEF Spec

-----------------------------------------------------------------------------
(* The two tasks never break the contract of the authorisation's counter:   *)
(* none takes what it holds, whoever abends, hangs or is cleaned up for.    *)
THEOREM TasksKeepContract == Spec => KeepsAuthContract
<1>1. Init => AuthInit
  BY DEF Init
<1>2. NjeIndInv /\ [Next]_vars => [AuthNext]_authVars
  BY StepCounts
<1> QED
  BY <1>1, <1>2, NjeAlways, PTL DEF Spec, KeepsAuthContract, AuthSpec

(* So the count of the holders is right while the two tasks take and drop,  *)
(* and whatever a cleanup drops for a task that died, it gives back no      *)
(* lease of the other.                                                      *)
THEOREM TasksAuthorised == Spec => []CountIsHolders /\ ImplementsLeases /\ ResetGivesBack
<1>1. AuthInv => CountIsHolders
  BY DEF AuthInv
<1>2. Spec => AuthSpec
  BY TasksKeepContract DEF KeepsAuthContract
<1> QED
  BY <1>1, <1>2, Invariance, LeasesImplemented, ResetCorrect, PTL

(* Every field of the two tasks, the SUBTASK_INFO, the queue with its       *)
(* pointers and NJE38 keeps its type: no pointer of the DQueue, torn or     *)
(* not, is one of a freed queue or of nothing.                              *)
THEOREM TypeCorrect == Spec => []TypeOK
<1>1. NjeIndInv => TypeOK
  BY DEF NjeIndInv, AuthInv, TasksInv, Shape, MainRec, SubRec, InfoRec, QueueRec, ElemRec, NjeRec,
         Msgs, Refs, Numbers, TypeOK
<1> QED
  BY <1>1, NjeAlways, PTL

(* While the exec runs, or takes a message from the queue without a lock,   *)
(* the subtask holds the authorisation at most between a take that came too *)
(* late and the test that follows it.                                       *)
THEOREM ExecCorrect == Spec => []ExecAuthorisedBriefly
<1>1. NjeIndInv => ExecAuthorisedBriefly
  <2> SUFFICES ASSUME NjeIndInv PROVE ExecAuthorisedBriefly
    OBVIOUS
  <2>1. main.pc \in {"exec", "result"} \cup PopPCs /\ held[sub] # 0 => subtask.pc = "retest"
    BY DEF NjeIndInv, TasksInv, HeldInv
  <2>2. main.pc = "exec" => held[send] = 0
    BY DEF NjeIndInv, TasksInv, HeldInv, MainInv
  <2>3. main.pc = "exec" /\ jscbAuth /\ ~native => held[sub] # 0
    BY <2>2, OnlySubHolds DEF NjeIndInv, TasksInv
  <2> QED
    BY <2>1, <2>3 DEF ExecAuthorisedBriefly
<1> QED
  BY <1>1, NjeAlways, PTL

-----------------------------------------------------------------------------
(***************************************************************************)
(* The messages.  The queue has no lock: that its links are right is the   *)
(* work of the protocol, as long as it works: the step is not authorised   *)
(* without the subtask (then the flag says whether it is inside NJERLY or  *)
(* queueMsg()), and NJE38 completes its calls (then recvLeave() does not   *)
(* give up).                                                               *)
(***************************************************************************)
Calm == ~Apf /\ ~Sends /\ "hang" \notin Faults

Unlinking == {"unlink", "unlinked"}
Removing == Unlinking \cup {"untail", "untailed"}

(* Where the main task is in DQDel() and the subtask in DQAdd2Head().       *)
PopAt == IF main.pc \in PopPCs \ {"popping"} THEN main.pc ELSE "none"
AddAt == IF subtask.pc \in AddPCs THEN subtask.pc ELSE "none"

(* The newest message of a queue after d deliveries.                        *)
LastOf(q, d) == IF q.head = 0 THEN d ELSE q.head

(* The links of a message k of the queue, and of the one that is taken out. *)
LinksOf(q, d, at, add, m, k) ==
  /\ q.elem[k].dat = k
  /\ q.elem[k].next = IF k # d + 1 THEN k - 1 ELSE IF at \in Unlinking THEN d ELSE 0
  /\ q.elem[k].prev = IF k # LastOf(q, d) THEN k + 1
                      ELSE IF add \in {"count", "counted", "head"} THEN m ELSE 0

RemovalOf(q, d, at, ml) ==
  /\ at \in Removing => d # 0 /\ q.elem[d].next = 0
                        /\ q.elem[d].prev = IF LastOf(q, d) = d THEN 0 ELSE d + 1
  /\ at \in Unlinking => q.head # 0
  /\ at \in {"unlinked", "untailed"} => ml = q.elem[d].prev
  /\ at = "uncounted" => ml = q.items

AdditionOf(q, d, at, add, m, sl) ==
  /\ m # 0 => m = IF add = "tail" THEN LastOf(q, d) ELSE LastOf(q, d) + 1
  /\ add # "none" => at = "none" /\ m # 0
  /\ add \in {"link", "linked", "count", "counted", "head"} =>
       q.elem[m].dat = m /\ q.elem[m].prev = 0 /\ q.elem[m].next = q.head
  /\ add = "linked" => sl = q.head
  /\ add = "counted" => sl = q.items
  /\ add = "tail" => q.head = m

(* The queue q of the messages from d + 1 on, while the main task is at     *)
(* 'at' of a removal, the subtask at 'add' of the addition of m, and their  *)
(* registers are ml and sl.                                                 *)
List(q, d, at, ml, add, m, sl) ==
  /\ LastOf(q, d) >= d
  /\ q.head # 0 => q.head > d \/ at \in Unlinking
  /\ q.items = (LastOf(q, d) - d) + (IF at # "none" THEN 1 ELSE 0) + (IF add = "head" THEN 1 ELSE 0)
  /\ q.tail = IF at \in Removing THEN d
              ELSE IF LastOf(q, d) = d \/ (add = "tail" /\ LastOf(q, d) = d + 1) THEN 0
              ELSE d + 1
  /\ \A k \in d + 1 .. LastOf(q, d) : LinksOf(q, d, at, add, m, k)
  /\ RemovalOf(q, d, at, ml)
  /\ AdditionOf(q, d, at, add, m, sl)

(* Before the first message is in the queue it has no tail, so nothing is   *)
(* taken out.                                                               *)
InFirst == subtask.fn \in {"REGISTER", "GETECB"} \/ (subtask.fn = "GETMSG" /\ subtask.pc # "loop")
FirstInv == InFirst => queue.tail = 0 /\ PopAt = "none"

(* A subtask that abended inside queueMsg() may leave half an element: then *)
(* the flag or errorRunning keeps the main task from the queue.             *)
Broken == subtask.pc = "ended" /\ subtask.msg # 0
BrokenInv ==
  Broken =>
    /\ subtask.abended /\ PopAt = "none"
    /\ \/ queue.tail = 0
       \/ info.errorRunning /\ main.pc # "popping"
       \/ held[sub] # 0 /\ (main.pc = "dropping" => info.errorRunning)
FinishInv == info.finished => subtask.msg = 0 /\ subtask.pc \in {"leave", "ended"}

ListInv ==
  ~Broken => List(queue, Len(nje.delivered), PopAt, main.load, AddAt, subtask.msg, subtask.load)

(* The messages NJE38 still has follow the last one the subtask fetched,    *)
(* until it runs out of memory and is about to deregister.                  *)
Taken == IF subtask.msg # 0 THEN subtask.msg ELSE LastOf(queue, Len(nje.delivered))
Dropped == subtask.fn = "DEREGISTER" /\ info.errorRunning
SentInv ==
  ~Dropped =>
    /\ \A i \in 1 .. Len(nje.msgs) : nje.msgs[i] = Taken + i
    /\ nje.registered \/ subtask.fn = "REGISTER" => Taken + Len(nje.msgs) = nje.sent

DeliveredInv == \A i \in 1 .. Len(nje.delivered) : nje.delivered[i] = i

QueueInv ==
  /\ DeliveredInv
  /\ ~main.ending => FirstInv /\ BrokenInv /\ FinishInv /\ ListInv /\ SentInv

(* What a step leaves alone of the list.                                    *)
LEMMA ListStays ==
  ASSUME ListInv, UNCHANGED queue, nje'.delivered = nje.delivered, subtask'.msg = subtask.msg,
         PopAt' = PopAt, AddAt' = AddAt, PopAt = "none" \/ main'.load = main.load,
         AddAt = "none" \/ subtask'.load = subtask.load, Broken => Broken'
  PROVE  ListInv'
<1> DEFINE q == queue
           d == Len(nje.delivered)
           at == PopAt
           add == AddAt
           m == subtask.msg
<1> SUFFICES ASSUME ~Broken' PROVE List(q, d, at, main'.load, add, m, subtask'.load)
  BY DEF ListInv
<1>1. List(q, d, at, main.load, add, m, subtask.load)
  BY DEF ListInv
<1>2. (at = "none" \/ main'.load = main.load) /\ (add = "none" \/ subtask'.load = subtask.load)
  OBVIOUS
<1> HIDE DEF q, d, at, add, m
<1>3. RemovalOf(q, d, at, main'.load)
  BY <1>1, <1>2 DEF List, RemovalOf, Removing, Unlinking
<1>4. AdditionOf(q, d, at, add, m, subtask'.load)
  BY <1>1, <1>2 DEF List, AdditionOf
<1> QED
  BY <1>1, <1>3, <1>4 DEF List

LEMMA SentStays ==
  ASSUME SentInv, Taken' = Taken, nje'.msgs = nje.msgs, nje'.sent = nje.sent,
         nje'.registered = nje.registered, Dropped => Dropped',
         subtask'.fn = "REGISTER" => subtask.fn = "REGISTER"
  PROVE  SentInv'
BY DEF SentInv

(* Where numbers are.                                                       *)
LEMMA QueueTypes ==
  ASSUME Shape
  PROVE  /\ MaxMsgs \in Nat /\ Len(nje.delivered) \in Nat /\ Len(nje.msgs) \in Nat
         /\ queue.items \in Int /\ queue.head \in 0..MaxMsgs /\ queue.tail \in 0..MaxMsgs
         /\ subtask.msg \in 0..MaxMsgs /\ nje.sent \in 0..MaxMsgs
         /\ DOMAIN queue.elem = 1..MaxMsgs
<1>1. nje.delivered \in Seq(Msgs) /\ nje.msgs \in Seq(Msgs)
  BY DEF Shape, NjeRec
<1>2. Len(nje.delivered) \in Nat /\ Len(nje.msgs) \in Nat
  BY <1>1
<1>3. /\ queue.items \in Int /\ queue.head \in 0..MaxMsgs /\ queue.tail \in 0..MaxMsgs
      /\ DOMAIN queue.elem = 1..MaxMsgs
  BY DEF Shape, QueueRec, Refs, Msgs, Numbers
<1>4. subtask.msg \in 0..MaxMsgs /\ nje.sent \in 0..MaxMsgs
  BY DEF Shape, SubRec, NjeRec, Refs
<1> QED
  BY <1>2, <1>3, <1>4, MaxMsgsNat

(* While the subtask adds, the main task is in no removal, and finds no     *)
(* tail if it is about to pop.                                              *)
LEMMA Excluded ==
  ASSUME NjeIndInv, FirstInv, Calm, subtask.pc \in AddPCs
  PROVE  PopAt = "none" /\ (main.pc = "popping" => queue.tail = 0)
<1>1. subtask.fn \in {"GETMSG", "WAIT"} /\ subtask.pc # "loop"
  BY DEF NjeIndInv, TasksInv, SubInv, AddPCs
<1>2. CASE subtask.fn = "GETMSG"
  BY <1>1, <1>2 DEF FirstInv, InFirst
<1>3. CASE subtask.fn = "WAIT"
  <2>1. held[sub] # 0
    BY <1>3 DEF NjeIndInv, TasksInv, EndInv, Calm
  <2>2. main.pc \in PopPCs => subtask.pc = "retest"
    BY <2>1 DEF NjeIndInv, TasksInv, HeldInv
  <2>3. subtask.pc # "retest"
    BY DEF AddPCs
  <2> QED
    BY <2>2, <2>3 DEF PopAt, PopPCs
<1> QED
  BY <1>1, <1>2, <1>3

-----------------------------------------------------------------------------
(* A pop that finds a tail takes the oldest message.                        *)
LEMMA PopMoves ==
  ASSUME NjeIndInv, QueueInv, Calm, Pop, queue.tail # 0
  PROVE  QueueInv'
<1> DEFINE q == queue
           r == queue'
           d == Len(nje.delivered)
           m == subtask.msg
           dat == q.elem[q.tail].dat
<1>1. Shape /\ main.pc = "popping" /\ ~main.ending
  BY DEF NjeIndInv, TasksInv, MainInv, Pop
<1>2. FirstInv /\ BrokenInv /\ FinishInv /\ ListInv /\ SentInv /\ DeliveredInv
  BY <1>1 DEF QueueInv
<1>3. /\ main'.pc = "unlink" /\ main'.ending = main.ending
      /\ nje' = [nje EXCEPT !.delivered = IF dat = 0 THEN @ ELSE Append(@, dat)]
      /\ r = [q EXCEPT !.elem[q.tail].dat = 0]
      /\ UNCHANGED <<subtask, info, held>>
  BY <1>1 DEF Pop, Shape, MainRec, authVars
<1>4. PopAt = "none" /\ PopAt' = "unlink"
  BY <1>1, <1>3 DEF PopAt, PopPCs
<1>5. subtask.pc \notin AddPCs
  BY <1>1, <1>2, Excluded
<1>6. ~InFirst
  BY <1>2 DEF FirstInv
<1>7. ~Broken
  <2>1. held[sub] # 0 /\ main.pc = "popping" => subtask.pc = "retest"
    BY DEF NjeIndInv, TasksInv, HeldInv, PopPCs
  <2> QED
    BY <1>1, <1>2, <2>1 DEF BrokenInv, Broken
<1>8. List(q, d, "none", main.load, "none", m, subtask.load)
  BY <1>2, <1>4, <1>5, <1>7 DEF ListInv, AddAt
<1>9. /\ d \in Nat /\ MaxMsgs \in Nat /\ q.head \in 0..MaxMsgs /\ q.tail \in 1..MaxMsgs
      /\ q.items \in Int /\ m \in 0..MaxMsgs
  BY <1>1, QueueTypes
<1>10. /\ r.items = q.items /\ r.head = q.head /\ r.tail = q.tail
       /\ \A k \in 1..MaxMsgs : r.elem[k].next = q.elem[k].next /\ r.elem[k].prev = q.elem[k].prev
                                /\ (k # q.tail => r.elem[k].dat = q.elem[k].dat)
  BY <1>1, <1>3 DEF Shape, QueueRec, ElemRec, Msgs
<1>11. nje.delivered \in Seq(Msgs)
  BY <1>1 DEF Shape, NjeRec
<1> HIDE DEF q, r, m
<1>12. q.tail = d + 1 /\ q.head > d /\ LastOf(q, d) = q.head
  <2> HIDE DEF d
  <2> QED
    BY <1>8, <1>9 DEF List, LastOf, Removing, Unlinking
<1>13. \A k \in d + 1 .. q.head : LinksOf(q, d, "none", "none", m, k)
  BY <1>8, <1>12 DEF List
<1>14. dat = d + 1 /\ q.elem[d + 1].next = 0 /\ LinksOf(q, d, "none", "none", m, d + 1)
  <2> HIDE DEF d
  <2>1. d + 1 \in d + 1 .. q.head
    BY <1>9, <1>12
  <2> QED
    BY <1>9, <1>12, <1>13, <2>1 DEF LinksOf, Unlinking
<1>15. /\ nje'.delivered = Append(nje.delivered, d + 1)
       /\ nje'.msgs = nje.msgs /\ nje'.sent = nje.sent /\ nje'.registered = nje.registered
  <2>1. dat # 0 /\ dat = d + 1
    BY <1>9, <1>14
  <2> HIDE DEF d, dat
  <2> QED
    BY <1>1, <1>3, <2>1 DEF Shape, NjeRec
<1>16. Len(nje'.delivered) = d + 1 /\ DeliveredInv'
  <2>1. Len(nje'.delivered) = d + 1 /\ \A i \in 1 .. d + 1 :
          nje'.delivered[i] = IF i = d + 1 THEN d + 1 ELSE nje.delivered[i]
    BY <1>11, <1>15
  <2>2. \A i \in 1 .. d : nje.delivered[i] = i
    BY <1>2 DEF DeliveredInv
  <2>3. \A i \in 1 .. d + 1 : nje'.delivered[i] = i
    <3> HIDE DEF d
    <3> QED
      BY <1>9, <2>1, <2>2
  <2> QED
    BY <2>1, <2>3 DEF DeliveredInv
<1>17. List(r, d + 1, "unlink", main'.load, "none", m, subtask'.load) /\ LastOf(r, d + 1) = q.head
  <2> HIDE DEF d, dat
  <2>1. LastOf(r, d + 1) = q.head
    BY <1>9, <1>10, <1>12 DEF LastOf
  <2>2. ASSUME NEW k \in d + 2 .. q.head PROVE LinksOf(r, d + 1, "unlink", "none", m, k)
    <3>1. k \in d + 1 .. q.head /\ k \in 1..MaxMsgs /\ k # q.tail
      BY <1>9, <1>12
    <3> QED
      BY <1>9, <1>10, <1>12, <1>13, <2>1, <3>1 DEF LinksOf, Unlinking
  <2>3. RemovalOf(r, d + 1, "unlink", main'.load)
    <3>1. q.elem[d + 1].next = 0 /\ q.elem[d + 1].prev = IF d + 1 # q.head THEN d + 2 ELSE 0
      BY <1>9, <1>12, <1>14 DEF LinksOf
    <3> QED
      BY <1>9, <1>10, <1>12, <2>1, <3>1 DEF RemovalOf, Removing, Unlinking
  <2>4. AdditionOf(r, d + 1, "unlink", "none", m, subtask'.load)
    BY <1>8, <1>12, <2>1 DEF List, AdditionOf
  <2> QED
    BY <1>8, <1>9, <1>10, <1>12, <2>1, <2>2, <2>3, <2>4 DEF List, Removing, Unlinking
<1>18. ListInv' /\ SentInv'
  <2>1. Taken' = Taken
    BY <1>3, <1>12, <1>16, <1>17 DEF Taken, q, r
  <2>2. SentInv'
    BY <1>2, <1>3, <1>15, <2>1, SentStays DEF Dropped
  <2>3. AddAt' = "none"
    BY <1>3, <1>5 DEF AddAt
  <2> QED
    BY <1>3, <1>4, <1>16, <1>17, <2>2, <2>3 DEF ListInv, r, m
<1>19. FirstInv' /\ BrokenInv' /\ FinishInv'
  BY <1>2, <1>3, <1>6, <1>7 DEF FirstInv, InFirst, BrokenInv, Broken, FinishInv
<1> QED
  BY <1>16, <1>18, <1>19 DEF QueueInv

-----------------------------------------------------------------------------
(* The rest of a removal: DQDel() of an element that is not in the list any *)
(* more leaves the list of the others.                                      *)
LEMMA Removed ==
  ASSUME NjeIndInv, QueueInv, Calm, main.pc \in PopPCs \ {"popping"}
  PROVE  /\ ~main.ending /\ PopAt = main.pc /\ AddAt = "none" /\ ~InFirst /\ ~Broken
         /\ FinishInv /\ SentInv /\ DeliveredInv
         /\ List(queue, Len(nje.delivered), main.pc, main.load, "none", subtask.msg, subtask.load)
<1>1. ~main.ending
  BY DEF NjeIndInv, TasksInv, MainInv, PopPCs
<1>2. FirstInv /\ BrokenInv /\ FinishInv /\ ListInv /\ SentInv /\ DeliveredInv
  BY <1>1 DEF QueueInv
<1>3. PopAt = main.pc /\ PopAt # "none"
  BY DEF PopAt, PopPCs
<1>4. subtask.pc \notin AddPCs
  BY <1>2, <1>3, Excluded
<1>5. ~InFirst /\ ~Broken
  BY <1>2, <1>3 DEF FirstInv, BrokenInv
<1>6. AddAt = "none"
  BY <1>4 DEF AddAt
<1> QED
  BY <1>1, <1>2, <1>3, <1>5, <1>6 DEF ListInv

LEMMA RemovalKeeps ==
  ASSUME NjeIndInv, QueueInv, Calm, main.pc \in PopPCs \ {"popping"},
         UNCHANGED <<subtask, info, nje>>, main'.ending = main.ending,
         LastOf(queue', Len(nje.delivered)) = LastOf(queue, Len(nje.delivered)),
         List(queue', Len(nje.delivered), PopAt', main'.load, "none", subtask.msg, subtask.load)
  PROVE  QueueInv'
<1>1. ~InFirst /\ ~Broken /\ AddAt = "none" /\ FinishInv /\ SentInv /\ DeliveredInv
  BY Removed
<1>2. SentInv'
  BY <1>1, SentStays DEF Taken, Dropped
<1>3. AddAt' = "none"
  BY <1>1 DEF AddAt
<1> QED
  BY <1>1, <1>2, <1>3 DEF QueueInv, FirstInv, InFirst, BrokenInv, Broken, FinishInv, ListInv,
     DeliveredInv

LEMMA UnlinkMoves ==
  ASSUME NjeIndInv, QueueInv, Calm, Unlink
  PROVE  QueueInv'
<1> DEFINE q == queue
           r == queue'
           d == Len(nje.delivered)
           ml == main.load
           m == subtask.msg
           sl == subtask.load
<1>1. /\ Shape /\ main.pc \in {"unlink", "unlinked"} /\ main.pc \in PopPCs \ {"popping"}
      /\ UNCHANGED <<subtask, info, nje>>
  BY DEF NjeIndInv, TasksInv, Unlink, PopPCs
<1>2. List(q, d, main.pc, ml, "none", m, sl) /\ q.tail # 0
  BY <1>1, Removed DEF NjeIndInv, TasksInv, MainInv
<1>3. /\ d \in Nat /\ MaxMsgs \in Nat /\ q.head \in 0..MaxMsgs /\ q.tail \in 0..MaxMsgs
      /\ q.items \in Int /\ m \in 0..MaxMsgs
  BY <1>1, QueueTypes
<1>4. main'.ending = main.ending
  BY <1>1 DEF Unlink, MainLoads, MainGoes, Shape, MainRec
<1>5. CASE main.pc = "unlink"
  <2>1. r = q /\ main'.pc = "unlinked" /\ main'.load = q.elem[q.tail].prev
    BY <1>1, <1>5 DEF Unlink, MainLoads, Shape, MainRec
  <2>2. PopAt' = "unlinked"
    BY <2>1 DEF PopAt, PopPCs
  <2>3. List(q, d, "unlinked", q.elem[q.tail].prev, "none", m, sl)
    <3> HIDE DEF q, d, m, ml, sl
    <3> QED
      BY <1>2, <1>5 DEF List, LinksOf, RemovalOf, AdditionOf, Removing, Unlinking
  <2> QED
    BY <1>1, <1>4, <2>1, <2>2, <2>3, RemovalKeeps
<1>6. CASE main.pc = "unlinked"
  <2>1. /\ main'.pc = "untail" /\ main'.load = ml
        /\ r = IF ml # 0 THEN [q EXCEPT !.elem[ml].next = q.elem[q.tail].next]
               ELSE [q EXCEPT !.head = q.elem[q.tail].next]
    BY <1>1, <1>6 DEF Unlink, MainGoes, Shape, MainRec
  <2>2. PopAt' = "untail"
    BY <2>1 DEF PopAt, PopPCs
  <2>3. /\ q.tail = d /\ d # 0 /\ q.elem[d].next = 0 /\ q.head # 0 /\ q.head >= d
        /\ q.elem[d].prev = IF q.head = d THEN 0 ELSE d + 1
        /\ ml = q.elem[d].prev /\ LastOf(q, d) = q.head
    <3> HIDE DEF q, d, m, ml, sl
    <3> QED
      BY <1>2, <1>3, <1>6 DEF List, RemovalOf, LastOf, Removing, Unlinking
  <2>4. /\ r.items = q.items /\ r.tail = q.tail
        /\ r.head = IF ml = 0 THEN 0 ELSE q.head
        /\ \A k \in 1..MaxMsgs :
             /\ r.elem[k].dat = q.elem[k].dat /\ r.elem[k].prev = q.elem[k].prev
             /\ r.elem[k].next = IF k = ml THEN 0 ELSE q.elem[k].next
    BY <1>1, <1>3, <2>1, <2>3 DEF Shape, QueueRec, ElemRec, Msgs
  <2>5. LastOf(r, d) = LastOf(q, d)
    <3> HIDE DEF q, r, d, m, ml, sl
    <3> QED
      BY <1>3, <2>3, <2>4 DEF LastOf
  <2>6. List(r, d, "untail", ml, "none", m, sl)
    <3> HIDE DEF q, r, d, m, ml, sl
    <3>1. ASSUME NEW k \in d + 1 .. LastOf(q, d) PROVE LinksOf(r, d, "untail", "none", m, k)
      <4>1. k \in 1..MaxMsgs /\ LinksOf(q, d, "unlinked", "none", m, k)
        BY <1>2, <1>3, <1>6, <2>3 DEF List
      <4> QED
        BY <1>3, <2>3, <2>4, <2>5, <4>1 DEF LinksOf, Unlinking
    <3>2. d \in 1..MaxMsgs
      BY <1>3, <2>3
    <3>3. RemovalOf(r, d, "untail", ml)
      BY <1>3, <2>3, <2>4, <2>5, <3>2 DEF RemovalOf, Removing, Unlinking
    <3>4. AdditionOf(r, d, "untail", "none", m, sl)
      BY <1>2, <1>6, <2>5 DEF List, AdditionOf
    <3> QED
      BY <1>2, <1>3, <1>6, <2>3, <2>4, <2>5, <3>1, <3>3, <3>4 DEF List, Removing, Unlinking
  <2> QED
    BY <1>1, <1>4, <2>1, <2>2, <2>5, <2>6, RemovalKeeps
<1> QED
  BY <1>1, <1>5, <1>6

LEMMA UntailMoves ==
  ASSUME NjeIndInv, QueueInv, Calm, Untail
  PROVE  QueueInv'
<1> DEFINE q == queue
           r == queue'
           d == Len(nje.delivered)
           ml == main.load
           m == subtask.msg
           sl == subtask.load
<1>1. /\ Shape /\ main.pc \in {"untail", "untailed"} /\ main.pc \in PopPCs \ {"popping"}
      /\ UNCHANGED <<subtask, info, nje>>
  BY DEF NjeIndInv, TasksInv, Untail, PopPCs
<1>2. List(q, d, main.pc, ml, "none", m, sl)
  BY <1>1, Removed
<1>3. /\ d \in Nat /\ MaxMsgs \in Nat /\ q.head \in 0..MaxMsgs /\ q.tail \in 0..MaxMsgs
      /\ q.items \in Int /\ m \in 0..MaxMsgs
  BY <1>1, QueueTypes
<1>4. main'.ending = main.ending
  BY <1>1 DEF Untail, MainLoads, MainGoes, Shape, MainRec
<1>5. /\ q.tail = d /\ d # 0 /\ q.elem[d].next = 0
      /\ q.elem[d].prev = IF LastOf(q, d) = d THEN 0 ELSE d + 1
      /\ main.pc = "untailed" => ml = q.elem[d].prev
  <2> HIDE DEF q, d, m, ml, sl
  <2> QED
    BY <1>1, <1>2 DEF List, RemovalOf, Removing
<1>6. CASE main.pc = "untail"
  <2>1. r = q /\ main'.pc = "untailed" /\ main'.load = q.elem[q.tail].prev
    BY <1>1, <1>6 DEF Untail, MainLoads, Shape, MainRec
  <2>2. PopAt' = "untailed"
    BY <2>1 DEF PopAt, PopPCs
  <2>3. List(q, d, "untailed", q.elem[q.tail].prev, "none", m, sl)
    <3> HIDE DEF q, d, m, ml, sl
    <3> QED
      BY <1>2, <1>5, <1>6 DEF List, LinksOf, RemovalOf, AdditionOf, Removing, Unlinking
  <2> QED
    BY <1>1, <1>4, <2>1, <2>2, <2>3, RemovalKeeps
<1>7. CASE main.pc = "untailed"
  <2>1. main'.pc = "uncount" /\ main'.load = ml /\ r = [q EXCEPT !.tail = ml]
    BY <1>1, <1>5, <1>7 DEF Untail, MainGoes, Shape, MainRec
  <2>2. PopAt' = "uncount"
    BY <2>1 DEF PopAt, PopPCs
  <2>3. r.items = q.items /\ r.head = q.head /\ r.elem = q.elem /\ r.tail = ml
    BY <1>1, <2>1 DEF Shape, QueueRec
  <2>4. LastOf(r, d) = LastOf(q, d)
    BY <2>3 DEF LastOf
  <2>5. List(r, d, "uncount", ml, "none", m, sl)
    <3> HIDE DEF q, r, d, m, ml, sl
    <3>1. \A k \in d + 1 .. LastOf(r, d) : LinksOf(r, d, "uncount", "none", m, k)
      BY <1>2, <1>7, <2>3, <2>4 DEF List, LinksOf, Unlinking
    <3> QED
      BY <1>2, <1>5, <1>7, <2>3, <2>4, <3>1 DEF List, RemovalOf, AdditionOf, Removing, Unlinking
  <2> QED
    BY <1>1, <1>4, <2>1, <2>2, <2>4, <2>5, RemovalKeeps
<1> QED
  BY <1>1, <1>6, <1>7

LEMMA CountDownMoves ==
  ASSUME NjeIndInv, QueueInv, Calm, CountDown
  PROVE  QueueInv'
<1> DEFINE q == queue
           r == queue'
           d == Len(nje.delivered)
           ml == main.load
           m == subtask.msg
           sl == subtask.load
<1>1. /\ Shape /\ main.pc \in {"uncount", "uncounted"} /\ main.pc \in PopPCs \ {"popping"}
      /\ UNCHANGED <<subtask, info, nje>>
  BY DEF NjeIndInv, TasksInv, CountDown, PopPCs
<1>2. List(q, d, main.pc, ml, "none", m, sl)
  BY <1>1, Removed
<1>3. q.items \in Int /\ d \in Nat /\ q.head \in 0..MaxMsgs /\ MaxMsgs \in Nat
  BY <1>1, QueueTypes
<1>4. main'.ending = main.ending
  BY <1>1 DEF CountDown, MainLoads, Return, Shape, MainRec
<1>5. CASE main.pc = "uncount"
  <2>1. r = q /\ main'.pc = "uncounted" /\ main'.load = q.items
    BY <1>1, <1>5 DEF CountDown, MainLoads, Shape, MainRec
  <2>2. PopAt' = "uncounted"
    BY <2>1 DEF PopAt, PopPCs
  <2>3. List(q, d, "uncounted", q.items, "none", m, sl)
    <3> HIDE DEF q, d, m, ml, sl
    <3> QED
      BY <1>2, <1>5 DEF List, LinksOf, RemovalOf, AdditionOf, Removing, Unlinking
  <2> QED
    BY <1>1, <1>4, <2>1, <2>2, <2>3, RemovalKeeps
<1>6. CASE main.pc = "uncounted"
  <2>1. main'.pc = "exec" /\ r = [q EXCEPT !.items = ml - 1]
    BY <1>1, <1>6 DEF CountDown, Return, Shape, MainRec
  <2>2. PopAt' = "none"
    BY <2>1 DEF PopAt, PopPCs
  <2>3. r.items = ml - 1 /\ r.head = q.head /\ r.elem = q.elem /\ r.tail = q.tail
    BY <1>1, <2>1 DEF Shape, QueueRec
  <2>4. LastOf(r, d) = LastOf(q, d) /\ LastOf(q, d) \in Int
    BY <1>3, <2>3 DEF LastOf
  <2>5. List(r, d, "none", main'.load, "none", m, sl)
    <3> HIDE DEF q, r, d, m, ml, sl
    <3>1. \A k \in d + 1 .. LastOf(r, d) : LinksOf(r, d, "none", "none", m, k)
      BY <1>2, <1>6, <2>3, <2>4 DEF List, LinksOf, Unlinking
    <3>2. ml = q.items /\ q.items = LastOf(q, d) - d + 1
      BY <1>2, <1>3, <1>6, <2>4 DEF List, RemovalOf
    <3>3. r.items = LastOf(r, d) - d
      BY <1>3, <2>3, <2>4, <3>2
    <3>4. RemovalOf(r, d, "none", main'.load) /\ AdditionOf(r, d, "none", "none", m, sl)
      BY <1>2, <2>3, <2>4 DEF List, RemovalOf, AdditionOf, Removing, Unlinking
    <3> QED
      BY <1>2, <1>3, <1>6, <2>3, <2>4, <3>1, <3>3, <3>4 DEF List, Removing, Unlinking
  <2> QED
    BY <1>1, <1>4, <2>1, <2>2, <2>4, <2>5, RemovalKeeps
<1> QED
  BY <1>1, <1>5, <1>6

-----------------------------------------------------------------------------
(* The addition.                                                            *)
LEMMA EndingMoves ==
  ASSUME QueueInv, main'.ending, nje'.delivered = nje.delivered
  PROVE  QueueInv'
BY DEF QueueInv, DeliveredInv

LEMMA Added ==
  ASSUME NjeIndInv, QueueInv, Calm, ~main.ending, subtask.pc \in AddPCs
  PROVE  /\ PopAt = "none" /\ AddAt = subtask.pc /\ subtask.msg # 0 /\ ~info.finished
         /\ FirstInv /\ SentInv /\ DeliveredInv
         /\ List(queue, Len(nje.delivered), "none", main.load, subtask.pc, subtask.msg, subtask.load)
<1>1. FirstInv /\ BrokenInv /\ FinishInv /\ ListInv /\ SentInv /\ DeliveredInv
  BY DEF QueueInv
<1>2. PopAt = "none"
  BY <1>1, Excluded
<1>3. AddAt = subtask.pc /\ subtask.pc \notin {"leave", "ended"}
  BY DEF AddAt, AddPCs
<1>4. subtask.msg # 0 /\ ~info.finished /\ ~Broken
  BY <1>1, <1>3 DEF NjeIndInv, TasksInv, SubInv, FinishInv, Broken
<1> QED
  BY <1>1, <1>2, <1>3, <1>4 DEF ListInv

(* The steps that go on with the same message.                              *)
LEMMA AdditionKeeps ==
  ASSUME NjeIndInv, QueueInv, Calm, ~main.ending, subtask.pc \in AddPCs,
         UNCHANGED <<main, nje, info>>, subtask'.pc \in AddPCs,
         subtask'.fn = subtask.fn, subtask'.msg = subtask.msg, queue'.tail = queue.tail,
         List(queue', Len(nje.delivered), "none", main.load, subtask'.pc, subtask.msg, subtask'.load)
  PROVE  QueueInv'
<1>1. /\ PopAt = "none" /\ subtask.msg # 0 /\ ~info.finished
      /\ FirstInv /\ SentInv /\ DeliveredInv
  BY Added
<1>2. SentInv'
  BY <1>1, SentStays DEF Taken, Dropped
<1>3. PopAt' = "none" /\ AddAt' = subtask'.pc
  BY <1>1 DEF PopAt, AddAt
<1>4. InFirst' => InFirst
  BY DEF InFirst, AddPCs
<1>5. subtask'.pc # "ended"
  BY DEF AddPCs
<1> QED
  BY <1>1, <1>2, <1>3, <1>4, <1>5 DEF QueueInv, FirstInv, BrokenInv, Broken, FinishInv,
     ListInv, DeliveredInv

LEMMA NewElemMoves ==
  ASSUME NjeIndInv, QueueInv, Calm, NewElem
  PROVE  QueueInv'
<1> DEFINE q == queue
           r == queue'
           d == Len(nje.delivered)
           ml == main.load
           m == subtask.msg
<1>1. /\ Shape /\ subtask.pc = "next" /\ subtask.pc \in AddPCs /\ UNCHANGED <<main, info, nje>>
      /\ r = [q EXCEPT !.elem[m] = [dat |-> m, prev |-> 0, next |-> q.head]]
  BY DEF NjeIndInv, TasksInv, NewElem, AddPCs
<1>2. CASE main.ending
  BY <1>1, <1>2, EndingMoves
<1>3. CASE ~main.ending
  <2>1. List(q, d, "none", ml, "next", m, subtask.load) /\ m # 0
    BY <1>1, <1>3, Added
  <2>2. /\ d \in Nat /\ MaxMsgs \in Nat /\ q.head \in 0..MaxMsgs /\ q.tail \in 0..MaxMsgs
        /\ q.items \in Int /\ m \in 0..MaxMsgs
    BY <1>1, QueueTypes
  <2>3. /\ subtask'.pc = "link" /\ subtask'.fn = subtask.fn /\ subtask'.msg = m
        /\ subtask'.load = subtask.load
    BY <1>1 DEF NewElem, SubGoes, Shape, SubRec
  <2>4. /\ r.items = q.items /\ r.head = q.head /\ r.tail = q.tail
        /\ r.elem[m] = [dat |-> m, prev |-> 0, next |-> q.head]
        /\ \A k \in 1..MaxMsgs : k # m => r.elem[k] = q.elem[k]
    BY <1>1, <2>1, <2>2 DEF Shape, QueueRec, Msgs
  <2>5. List(r, d, "none", ml, "link", m, subtask.load)
    <3> HIDE DEF q, r, d, m, ml
    <3>1. LastOf(r, d) = LastOf(q, d) /\ LastOf(q, d) \in Nat /\ m = LastOf(q, d) + 1
      BY <2>1, <2>2, <2>4 DEF List, AdditionOf, LastOf
    <3>2. ASSUME NEW k \in d + 1 .. LastOf(q, d) PROVE LinksOf(r, d, "none", "link", m, k)
      <4>1. k \in 1..MaxMsgs /\ k # m /\ LinksOf(q, d, "none", "next", m, k)
        BY <2>1, <2>2, <3>1 DEF List
      <4> QED
        BY <2>4, <3>1, <4>1 DEF LinksOf, Unlinking
    <3>3. AdditionOf(r, d, "none", "link", m, subtask.load)
      BY <2>1, <2>4, <3>1 DEF AdditionOf
    <3> QED
      BY <2>1, <2>4, <3>1, <3>2, <3>3 DEF List, RemovalOf, Removing, Unlinking
  <2> QED
    BY <1>1, <1>3, <2>3, <2>4, <2>5, AdditionKeeps DEF AddPCs
<1> QED
  BY <1>2, <1>3

LEMMA LinkHeadMoves ==
  ASSUME NjeIndInv, QueueInv, Calm, LinkHead
  PROVE  QueueInv'
<1> DEFINE q == queue
           r == queue'
           d == Len(nje.delivered)
           ml == main.load
           m == subtask.msg
           sl == subtask.load
<1>1. /\ Shape /\ subtask.pc \in {"link", "linked"} /\ subtask.pc \in AddPCs
      /\ UNCHANGED <<main, info, nje>>
  BY DEF NjeIndInv, TasksInv, LinkHead, AddPCs
<1>2. CASE main.ending
  BY <1>1, <1>2, EndingMoves
<1>3. CASE ~main.ending
  <2>1. List(q, d, "none", ml, subtask.pc, m, sl) /\ m # 0
    BY <1>1, <1>3, Added
  <2>2. /\ d \in Nat /\ MaxMsgs \in Nat /\ q.head \in 0..MaxMsgs /\ q.tail \in 0..MaxMsgs
        /\ q.items \in Int /\ m \in 0..MaxMsgs
    BY <1>1, QueueTypes
  <2>3. subtask'.fn = subtask.fn /\ subtask'.msg = m
    BY <1>1 DEF LinkHead, SubGoes, SubLoads, Shape, SubRec
  <2>4. CASE subtask.pc = "link"
    <3>1. r = q /\ subtask'.pc = "linked" /\ subtask'.load = q.head
      BY <1>1, <2>4 DEF LinkHead, SubLoads, Shape, SubRec
    <3>2. List(q, d, "none", ml, "linked", m, q.head)
      <4> HIDE DEF q, d, m, ml, sl
      <4> QED
        BY <2>1, <2>4 DEF List, LinksOf, RemovalOf, AdditionOf
    <3> QED
      BY <1>1, <1>3, <2>3, <3>1, <3>2, AdditionKeeps DEF AddPCs
  <2>5. CASE subtask.pc = "linked"
    <3>1. /\ subtask'.pc = "count" /\ subtask'.load = sl
          /\ r = IF sl = 0 THEN q ELSE [q EXCEPT !.elem[sl].prev = m]
      BY <1>1, <2>5 DEF LinkHead, SubGoes, Shape, SubRec
    <3>2. sl = q.head /\ LastOf(q, d) \in Nat /\ m = LastOf(q, d) + 1
      <4> HIDE DEF q, d, m, ml, sl
      <4> QED
        BY <2>1, <2>2, <2>5 DEF List, AdditionOf, LastOf
    <3>3. /\ r.items = q.items /\ r.head = q.head /\ r.tail = q.tail
          /\ \A k \in 1..MaxMsgs :
               /\ r.elem[k].dat = q.elem[k].dat /\ r.elem[k].next = q.elem[k].next
               /\ r.elem[k].prev = IF k = q.head THEN m ELSE q.elem[k].prev
      BY <1>1, <2>2, <3>1, <3>2 DEF Shape, QueueRec, ElemRec, Msgs
    <3>4. List(r, d, "none", ml, "count", m, sl)
      <4> HIDE DEF q, r, d, m, ml, sl
      <4>1. LastOf(r, d) = LastOf(q, d) /\ (q.head # 0 => q.head = LastOf(q, d))
        BY <3>3 DEF LastOf
      <4>2. ASSUME NEW k \in d + 1 .. LastOf(q, d) PROVE LinksOf(r, d, "none", "count", m, k)
        <5>1. k \in 1..MaxMsgs /\ q.head = LastOf(q, d) /\ LinksOf(q, d, "none", "linked", m, k)
          BY <2>1, <2>2, <2>5, <3>2 DEF List, LastOf
        <5> QED
          BY <3>3, <4>1, <5>1 DEF LinksOf, Unlinking
      <4>3. m \in 1..MaxMsgs /\ m # q.head
        BY <2>1, <2>2, <3>2, <4>1
      <4>4. AdditionOf(r, d, "none", "count", m, sl)
        BY <2>1, <2>5, <3>3, <4>1, <4>3 DEF List, AdditionOf
      <4> QED
        BY <2>1, <2>5, <3>3, <4>1, <4>2, <4>4 DEF List, RemovalOf, Removing, Unlinking
    <3> QED
      BY <1>1, <1>3, <2>3, <3>1, <3>3, <3>4, AdditionKeeps DEF AddPCs
  <2> QED
    BY <1>1, <2>4, <2>5
<1> QED
  BY <1>2, <1>3

LEMMA CountUpMoves ==
  ASSUME NjeIndInv, QueueInv, Calm, CountUp
  PROVE  QueueInv'
<1> DEFINE q == queue
           r == queue'
           d == Len(nje.delivered)
           ml == main.load
           m == subtask.msg
           sl == subtask.load
<1>1. /\ Shape /\ subtask.pc \in {"count", "counted"} /\ subtask.pc \in AddPCs
      /\ UNCHANGED <<main, info, nje>>
  BY DEF NjeIndInv, TasksInv, CountUp, AddPCs
<1>2. CASE main.ending
  BY <1>1, <1>2, EndingMoves
<1>3. CASE ~main.ending
  <2>1. List(q, d, "none", ml, subtask.pc, m, sl)
    BY <1>1, <1>3, Added
  <2>2. d \in Nat /\ q.head \in 0..MaxMsgs /\ MaxMsgs \in Nat /\ q.items \in Int
    BY <1>1, QueueTypes
  <2>3. subtask'.fn = subtask.fn /\ subtask'.msg = m
    BY <1>1 DEF CountUp, SubGoes, SubLoads, Shape, SubRec
  <2>4. CASE subtask.pc = "count"
    <3>1. r = q /\ subtask'.pc = "counted" /\ subtask'.load = q.items
      BY <1>1, <2>4 DEF CountUp, SubLoads, Shape, SubRec
    <3>2. List(q, d, "none", ml, "counted", m, q.items)
      <4> HIDE DEF q, d, m, ml, sl
      <4> QED
        BY <2>1, <2>4 DEF List, LinksOf, RemovalOf, AdditionOf
    <3> QED
      BY <1>1, <1>3, <2>3, <3>1, <3>2, AdditionKeeps DEF AddPCs
  <2>5. CASE subtask.pc = "counted"
    <3>1. subtask'.pc = "head" /\ r = [q EXCEPT !.items = sl + 1]
      BY <1>1, <2>5 DEF CountUp, SubGoes, Shape, SubRec
    <3>2. r.items = sl + 1 /\ r.head = q.head /\ r.elem = q.elem /\ r.tail = q.tail
      BY <1>1, <3>1 DEF Shape, QueueRec
    <3>3. List(r, d, "none", ml, "head", m, subtask'.load)
      <4> HIDE DEF q, r, d, m, ml, sl
      <4>1. LastOf(r, d) = LastOf(q, d) /\ LastOf(q, d) \in Nat
        BY <2>2, <3>2 DEF LastOf
      <4>2. sl = q.items /\ q.items = LastOf(q, d) - d
        BY <2>1, <2>2, <2>5, <4>1 DEF List, AdditionOf
      <4>3. r.items = LastOf(r, d) - d + 1
        BY <2>2, <3>2, <4>1, <4>2
      <4>4. \A k \in d + 1 .. LastOf(r, d) : LinksOf(r, d, "none", "head", m, k)
        BY <2>1, <2>5, <3>2, <4>1 DEF List, LinksOf
      <4>5. AdditionOf(r, d, "none", "head", m, subtask'.load)
        BY <2>1, <2>5, <3>2, <4>1 DEF List, AdditionOf
      <4> QED
        BY <2>1, <2>2, <2>5, <3>2, <4>1, <4>3, <4>4, <4>5 DEF List, RemovalOf, Removing, Unlinking
    <3> QED
      BY <1>1, <1>3, <2>3, <3>1, <3>2, <3>3, AdditionKeeps DEF AddPCs
  <2> QED
    BY <1>1, <2>4, <2>5
<1> QED
  BY <1>2, <1>3

LEMMA SetHeadMoves ==
  ASSUME NjeIndInv, QueueInv, Calm, SetHead
  PROVE  QueueInv'
<1> DEFINE q == queue
           r == queue'
           d == Len(nje.delivered)
           ml == main.load
           m == subtask.msg
<1>1. /\ Shape /\ subtask.pc = "head" /\ subtask.pc \in AddPCs /\ UNCHANGED <<main, info, nje>>
      /\ r = [q EXCEPT !.head = m]
  BY DEF NjeIndInv, TasksInv, SetHead, AddPCs
<1>2. CASE main.ending
  BY <1>1, <1>2, EndingMoves
<1>3. CASE ~main.ending
  <2>1. List(q, d, "none", ml, "head", m, subtask.load) /\ m # 0
    BY <1>1, <1>3, Added
  <2>2. /\ d \in Nat /\ MaxMsgs \in Nat /\ q.head \in 0..MaxMsgs /\ q.tail \in 0..MaxMsgs
        /\ q.items \in Int /\ m \in 0..MaxMsgs
    BY <1>1, QueueTypes
  <2>3. subtask'.pc = "tail" /\ subtask'.fn = subtask.fn /\ subtask'.msg = m
    BY <1>1 DEF SetHead, SubGoes, Shape, SubRec
  <2>4. r.items = q.items /\ r.head = m /\ r.tail = q.tail /\ r.elem = q.elem
    BY <1>1 DEF Shape, QueueRec
  <2>5. List(r, d, "none", ml, "tail", m, subtask'.load)
    <3> HIDE DEF q, r, d, m, ml
    <3>1. /\ LastOf(q, d) \in Nat /\ m = LastOf(q, d) + 1 /\ LastOf(r, d) = m
          /\ LastOf(q, d) >= d /\ (q.head # 0 => q.head = LastOf(q, d) /\ q.head > d)
          /\ (q.head = 0 => LastOf(q, d) = d)
      BY <2>1, <2>2, <2>4 DEF List, AdditionOf, LastOf, Unlinking
    <3>2. q.elem[m].dat = m /\ q.elem[m].prev = 0 /\ q.elem[m].next = q.head
      BY <2>1 DEF List, AdditionOf
    <3>3. ASSUME NEW k \in d + 1 .. m PROVE LinksOf(r, d, "none", "tail", m, k)
      <4>1. CASE k = m
        BY <2>2, <2>4, <3>1, <3>2, <4>1 DEF LinksOf, Unlinking
      <4>2. CASE k # m
        <5>1. k \in d + 1 .. LastOf(q, d)
          BY <2>2, <3>1, <4>2
        <5>2. LinksOf(q, d, "none", "head", m, k)
          BY <2>1, <5>1 DEF List
        <5> QED
          BY <2>2, <2>4, <3>1, <4>2, <5>1, <5>2 DEF LinksOf, Unlinking
      <4> QED
        BY <4>1, <4>2
    <3>4. AdditionOf(r, d, "none", "tail", m, subtask'.load)
      BY <2>4, <3>1 DEF AdditionOf
    <3>5. r.items = LastOf(r, d) - d
      BY <2>1, <2>2, <2>4, <3>1 DEF List
    <3>6. r.tail = IF m = d + 1 THEN 0 ELSE d + 1
      BY <2>1, <2>2, <2>4, <3>1 DEF List, Removing, Unlinking
    <3>7. RemovalOf(r, d, "none", ml)
      BY DEF RemovalOf, Removing, Unlinking
    <3>8. m >= d /\ m # d /\ r.head > d /\ (LastOf(r, d) - d) + 0 + 0 = LastOf(r, d) - d
      BY <2>2, <2>4, <3>1
    <3>9. LastOf(r, d) >= d /\ \A k \in d + 1 .. LastOf(r, d) : LinksOf(r, d, "none", "tail", m, k)
      BY <3>1, <3>3, <3>8
    <3>10. r.tail = IF LastOf(r, d) = d \/ LastOf(r, d) = d + 1 THEN 0 ELSE d + 1
      BY <3>1, <3>6, <3>8
    <3> QED
      BY <3>4, <3>5, <3>7, <3>8, <3>9, <3>10 DEF List, Removing, Unlinking
  <2> QED
    BY <1>1, <1>3, <2>3, <2>4, <2>5, AdditionKeeps DEF AddPCs
<1> QED
  BY <1>2, <1>3

LEMMA SetTailMoves ==
  ASSUME NjeIndInv, QueueInv, Calm, SetTail
  PROVE  QueueInv'
<1> DEFINE q == queue
           r == queue'
           d == Len(nje.delivered)
           ml == main.load
           m == subtask.msg
<1>1. /\ Shape /\ subtask.pc = "tail" /\ subtask.pc \in AddPCs /\ UNCHANGED <<main, nje>>
      /\ r = [q EXCEPT !.tail = IF @ = 0 THEN m ELSE @]
  BY DEF NjeIndInv, TasksInv, SetTail, AddPCs
<1>2. CASE main.ending
  BY <1>1, <1>2, EndingMoves
<1>3. CASE ~main.ending
  <2>1. /\ List(q, d, "none", ml, "tail", m, subtask.load) /\ m # 0 /\ PopAt = "none"
        /\ ~info.finished /\ SentInv /\ DeliveredInv
    BY <1>1, <1>3, Added
  <2>2. /\ d \in Nat /\ MaxMsgs \in Nat /\ q.head \in 0..MaxMsgs /\ q.tail \in 0..MaxMsgs
        /\ q.items \in Int /\ m \in 0..MaxMsgs
    BY <1>1, QueueTypes
  <2>3. /\ subtask'.pc = IF subtask.fn = "WAIT" THEN "drain" ELSE "loop"
        /\ subtask'.fn = subtask.fn /\ subtask'.msg = 0
        /\ info'.finished = info.finished /\ info'.errorRunning = info.errorRunning
    BY <1>1 DEF SetTail, Shape, SubRec, InfoRec
  <2>4. r.items = q.items /\ r.head = q.head /\ r.elem = q.elem
        /\ r.tail = IF q.tail = 0 THEN m ELSE q.tail
    BY <1>1 DEF Shape, QueueRec
  <2>5. List(r, d, "none", ml, "none", 0, subtask'.load) /\ LastOf(r, d) = m
    <3> HIDE DEF q, r, d, m, ml
    <3>1. /\ LastOf(r, d) = LastOf(q, d) /\ q.head = m /\ LastOf(q, d) = m /\ m > d
      BY <2>1, <2>2, <2>4 DEF List, AdditionOf, LastOf, Unlinking
    <3>2. \A k \in d + 1 .. LastOf(r, d) : LinksOf(r, d, "none", "none", 0, k)
      BY <2>1, <2>4, <3>1 DEF List, LinksOf
    <3>3. AdditionOf(r, d, "none", "none", 0, subtask'.load)
      BY DEF AdditionOf
    <3>4. r.tail = d + 1
      BY <2>1, <2>2, <2>4, <3>1 DEF List, Removing, Unlinking
    <3> QED
      BY <2>1, <2>2, <2>4, <3>1, <3>2, <3>3, <3>4 DEF List, RemovalOf, Removing, Unlinking
  <2>6. PopAt' = "none" /\ AddAt' = "none"
    BY <1>1, <2>1, <2>3 DEF PopAt, AddAt, AddPCs
  <2>7. Taken' = Taken
    BY <1>1, <2>1, <2>3, <2>5 DEF Taken
  <2>8. SentInv'
    BY <1>1, <2>1, <2>3, <2>7, SentStays DEF Dropped
  <2>9. subtask.fn \in {"GETMSG", "WAIT"}
    BY <1>1 DEF NjeIndInv, TasksInv, SubInv
  <2>10. ~InFirst' /\ ~Broken' /\ ~info'.finished
    BY <2>1, <2>3, <2>9 DEF InFirst, Broken
  <2>11. ListInv'
    BY <1>1, <2>3, <2>5, <2>6 DEF ListInv
  <2> QED
    BY <1>1, <2>1, <2>8, <2>10, <2>11 DEF QueueInv, FirstInv, BrokenInv, FinishInv, DeliveredInv
<1> QED
  BY <1>2, <1>3

LEMMA OutOfMemoryMoves ==
  ASSUME NjeIndInv, QueueInv, Calm, OutOfMemory
  PROVE  QueueInv'
<1> DEFINE q == queue
           d == Len(nje.delivered)
           ml == main.load
           m == subtask.msg
<1>1. /\ Shape /\ subtask.pc = "next" /\ subtask.pc \in AddPCs /\ UNCHANGED <<main, queue, nje>>
  BY DEF NjeIndInv, TasksInv, OutOfMemory, AddPCs
<1>2. CASE main.ending
  BY <1>1, <1>2, EndingMoves
<1>3. CASE ~main.ending
  <2>1. /\ List(q, d, "none", ml, "next", m, subtask.load) /\ m # 0 /\ PopAt = "none"
        /\ ~info.finished /\ DeliveredInv
    BY <1>1, <1>3, Added
  <2>2. /\ subtask'.pc \in {"call", "park"} /\ subtask'.fn = "DEREGISTER" /\ subtask'.msg = 0
        /\ info'.finished = info.finished /\ info'.errorRunning
    BY <1>1 DEF OutOfMemory, Shape, SubRec, InfoRec
  <2>3. PopAt' = "none" /\ AddAt' = "none"
    BY <1>1, <2>1, <2>2 DEF PopAt, AddAt, AddPCs
  <2>4. List(q, d, "none", ml, "none", 0, subtask'.load)
    <3> HIDE DEF q, d, m, ml
    <3> QED
      BY <2>1 DEF List, LinksOf, RemovalOf, AdditionOf
  <2>5. ListInv'
    BY <1>1, <2>2, <2>3, <2>4 DEF ListInv
  <2>6. ~InFirst' /\ ~Broken' /\ ~info'.finished /\ Dropped'
    BY <2>1, <2>2 DEF InFirst, Broken, Dropped
  <2> QED
    BY <1>1, <2>1, <2>5, <2>6 DEF QueueInv, FirstInv, BrokenInv, FinishInv, SentInv, DeliveredInv
<1> QED
  BY <1>2, <1>3

-----------------------------------------------------------------------------
(* The steps that leave the queue alone.                                    *)
LEMMA QueueStays ==
  ASSUME QueueInv, ~main.ending, UNCHANGED queue, nje'.delivered = nje.delivered,
         PopAt' = PopAt, PopAt = "none" \/ main'.load = main.load,
         AddAt' = AddAt, AddAt = "none" \/ subtask'.load = subtask.load,
         subtask'.msg = subtask.msg, InFirst' => InFirst, Broken => Broken',
         BrokenInv', FinishInv', SentInv'
  PROVE  QueueInv'
<1>1. FirstInv /\ ListInv /\ DeliveredInv
  BY DEF QueueInv
<1>2. ListInv'
  BY <1>1, ListStays
<1>3. FirstInv' /\ DeliveredInv'
  BY <1>1 DEF FirstInv, DeliveredInv
<1> QED
  BY <1>2, <1>3 DEF QueueInv

(* The main task outside DQDel(): to pop it needs a test that finds no      *)
(* error and no flag, and what gives the flag of a broken subtask back sets *)
(* errorRunning.                                                            *)
LEMMA MainStays ==
  ASSUME NjeIndInv, QueueInv, Calm, UNCHANGED <<queue, subtask>>,
         UNCHANGED <<nje.delivered, nje.msgs, nje.sent, nje.registered>>,
         info'.finished = info.finished, info.errorRunning => info'.errorRunning,
         main.pc \notin PopPCs \ {"popping"}, main'.pc \notin PopPCs \ {"popping"},
         main'.ending \/ ~main.ending,
         main'.pc = "popping" => ~info.errorRunning /\ (Broken => held[sub] = 0),
         Broken /\ queue.tail # 0 /\ ~main'.ending =>
           info'.errorRunning \/ (held'[sub] = held[sub] /\ main'.pc # "dropping")
  PROVE  QueueInv'
<1>1. CASE main'.ending
  BY <1>1, EndingMoves
<1>2. CASE ~main'.ending
  <2>1. ~main.ending /\ BrokenInv /\ FinishInv /\ SentInv
    BY <1>2 DEF QueueInv
  <2>2. PopAt = "none" /\ PopAt' = "none"
    BY DEF PopAt
  <2>3. AddAt' = AddAt /\ subtask'.load = subtask.load
    BY DEF AddAt
  <2>4. SentInv'
    BY <2>1, SentStays DEF Taken, Dropped
  <2>5. (Broken <=> Broken') /\ (InFirst' => InFirst) /\ FinishInv'
    BY <2>1 DEF Broken, InFirst, FinishInv
  <2>6. BrokenInv'
    BY <1>2, <2>1, <2>2 DEF BrokenInv, Broken
  <2> QED
    BY <2>1, <2>2, <2>3, <2>4, <2>5, <2>6, QueueStays
<1> QED
  BY <1>1, <1>2

LEMMA ExecMoves ==
  ASSUME NjeIndInv, QueueInv, Calm, Exec, ~NjeReceive
  PROVE  QueueInv'
<1>1. Shape
  BY DEF NjeIndInv, TasksInv
<1>2. CASE \E rac \in Rac : NjeRegister(rac)
  BY <1>1, <1>2, MainStays DEF NjeRegister, Shape, InfoRec, authVars, PopPCs
<1>3. ASSUME NEW rac \in Rac, NjeSend(rac) PROVE QueueInv'
  BY <1>3 DEF NjeSend, Calm
<1>4. CASE NjeDeregister
  <2>1. /\ UNCHANGED <<held, subtask, queue, nje>> /\ main.pc = "exec"
        /\ main'.pc \in {"joining", "exec"} /\ main'.ending = main.ending
        /\ info'.finished = info.finished /\ info'.errorRunning = info.errorRunning
    BY <1>1, <1>4 DEF NjeDeregister, Shape, MainRec, InfoRec, authVars
  <2> QED
    BY <2>1, MainStays DEF PopPCs, NjeIndInv, TasksInv, MainInv
<1>5. CASE ExecEnds
  BY <1>1, <1>5, EndingMoves DEF ExecEnds, Shape, MainRec
<1> QED
  BY <1>2, <1>3, <1>4, <1>5 DEF Exec

LEMMA ReceiveMoves ==
  ASSUME NjeIndInv, QueueInv, Calm, NjeReceive
  PROVE  QueueInv'
<1>1. /\ Shape /\ main.pc = "exec" /\ ~main.ending /\ UNCHANGED <<held, queue, nje>>
      /\ main'.pc \in {"exec", "starting"} /\ main'.ending = main.ending
      /\ info'.finished = info.finished /\ info'.errorRunning = info.errorRunning
  BY DEF NjeIndInv, TasksInv, MainInv, NjeReceive, Return, Shape, MainRec, InfoRec, authVars
<1>2. CASE UNCHANGED subtask
  BY <1>1, <1>2, MainStays DEF PopPCs
<1>3. CASE subtask' # subtask
  <2>1. /\ ~info.thread /\ ~info.stopRunning
        /\ subtask' = [subtask EXCEPT !.pc = "park", !.fn = "REGISTER"]
    BY <1>3 DEF NjeReceive
  <2>2. subtask.pc = "none" /\ subtask.fn = "REGISTER" /\ subtask.msg = 0
    BY <2>1 DEF NjeIndInv, TasksInv, MainInv, SubInv, AddPCs
  <2>3. subtask'.pc = "park" /\ subtask'.fn = "REGISTER" /\ subtask'.msg = subtask.msg
    BY <1>1, <2>1 DEF Shape, SubRec
  <2>4. FinishInv /\ SentInv
    BY <1>1 DEF QueueInv
  <2>5. PopAt = "none" /\ PopAt' = "none" /\ AddAt = "none" /\ AddAt' = "none"
    BY <1>1, <2>2, <2>3 DEF PopAt, PopPCs, AddAt, AddPCs
  <2>6. ~Broken /\ ~Broken' /\ InFirst /\ FinishInv' /\ ~Dropped
    BY <1>1, <2>2, <2>3, <2>4 DEF Broken, InFirst, FinishInv, Dropped
  <2>7. SentInv'
    BY <1>1, <2>2, <2>3, <2>4, <2>6, SentStays DEF Taken
  <2> QED
    BY <1>1, <2>3, <2>5, <2>6, <2>7, QueueStays DEF BrokenInv
<1> QED
  BY <1>2, <1>3

LEMMA WatchMoves ==
  ASSUME NjeIndInv, QueueInv, Calm, Watch
  PROVE  QueueInv'
<1>1. Shape
  BY DEF NjeIndInv, TasksInv
<1>2. ASSUME NEW from \in {"starting", "waiting", "leaving"},
             NEW at \in {"starting", "waiting", "leaveCheck"}, WatchFlags(from, at)
      PROVE  QueueInv'
  <2>1. /\ main.pc = at /\ main'.pc \in {"starting", "waiting", "leaving", "startWatch",
                                         "waitWatch", "leaveWatch"}
        /\ main'.ending = main.ending /\ UNCHANGED <<held, subtask, info, queue, nje>>
    BY <1>1, <1>2 DEF WatchFlags, Watching, MainGoes, Shape, MainRec, authVars
  <2>2. main'.ending \/ ~main.ending
    BY <1>1, <2>1 DEF Shape, MainRec
  <2> QED
    BY <2>1, <2>2, MainStays DEF PopPCs
<1>3. ASSUME NEW from \in {"starting", "waiting", "leaving"}, WatchEnded(from) PROVE QueueInv'
  <2>1. /\ main.pc \in {"startWatch", "waitWatch", "leaveWatch"} /\ main'.pc = from
        /\ main'.ending = main.ending /\ UNCHANGED <<subtask, queue, nje>>
    BY <1>1, <1>3 DEF WatchEnded, Watching, MainGoes, Shape, MainRec
  <2>2. main'.ending \/ ~main.ending
    BY <1>1, <2>1 DEF Shape, MainRec
  <2>3. /\ info'.finished = info.finished /\ (info.errorRunning => info'.errorRunning)
        /\ subtask.pc = "ended" => info'.errorRunning
    BY <1>1, <1>3 DEF WatchEnded, Shape, InfoRec
  <2> QED
    BY <2>1, <2>2, <2>3, MainStays DEF PopPCs, Broken
<1> QED
  BY <1>2, <1>3 DEF Watch

LEMMA MainMovesOn ==
  ASSUME NjeIndInv, QueueInv, Calm,
         \/ NjeSendDone \/ StartedUp \/ WaitOver \/ LeaveTest \/ LeaveGivesUp \/ Post
         \/ LeaveDrop \/ ReceiveResult
  PROVE  QueueInv'
<1>1. Shape /\ AuthInv /\ (~main.ending => BrokenInv /\ FinishInv)
  BY DEF NjeIndInv, TasksInv, QueueInv
<1>2. CASE NjeSendDone
  <2>1. /\ main.pc = "sending" /\ main'.pc = "exec" /\ main'.ending = main.ending
        /\ ~main.ending /\ UNCHANGED <<subtask, info, queue, nje>>
    BY <1>1, <1>2 DEF NjeSendDone, MainGoes, Shape, MainRec, NjeIndInv, TasksInv, MainInv
  <2>2. held'[sub] = held[sub]
    BY <1>1, <1>2, DropHeld, SubAndSend DEF NjeSendDone
  <2> QED
    BY <2>1, <2>2, MainStays DEF PopPCs
<1>3. CASE StartedUp \/ WaitOver
  <2>1. /\ main.pc \in {"starting", "waiting"} /\ main'.pc \in {"waiting", "leaving"}
        /\ main'.ending = main.ending /\ UNCHANGED <<held, subtask, queue, nje>>
        /\ info'.finished = info.finished /\ info'.errorRunning = info.errorRunning
    BY <1>1, <1>3 DEF StartedUp, WaitOver, MainGoes, Shape, MainRec, InfoRec, authVars
  <2> QED
    BY <2>1, MainStays DEF PopPCs, NjeIndInv, TasksInv, MainInv
<1>4. CASE LeaveTest \/ LeaveGivesUp
  <2>1. /\ main.pc = "leaving" /\ main'.pc \in {"dropping", "posting", "leaveCheck"}
        /\ main'.ending = main.ending /\ UNCHANGED <<held, subtask, info, queue, nje>>
    BY <1>1, <1>4 DEF LeaveTest, LeaveGivesUp, MainGoes, Shape, MainRec, authVars
  <2>2. main'.ending \/ ~main.ending
    BY <1>1, <2>1 DEF Shape, MainRec
  <2>3. ASSUME Broken, queue.tail # 0, ~main'.ending, main'.pc = "dropping"
        PROVE  info'.errorRunning
    <3>1. BrokenInv /\ FinishInv
      BY <1>1, <2>1, <2>3
    <3>2. info.errorRunning \/ held[sub] # 0
      BY <2>3, <3>1 DEF BrokenInv
    <3>3. ~info.finished
      BY <2>3, <3>1 DEF FinishInv, Broken
    <3>4. held[sub] # 0 => LeaveGivesUp
      BY <1>1, <1>4, <2>3 DEF LeaveTest, MainGoes, Shape, MainRec
    <3> QED
      BY <2>1, <3>2, <3>3, <3>4 DEF LeaveGivesUp, Calm
  <2> QED
    BY <2>1, <2>2, <2>3, MainStays DEF PopPCs
<1>5. CASE Post
  <2>1. /\ main.pc = "posting" /\ main'.pc = "leaveCheck" /\ main'.ending = main.ending
        /\ UNCHANGED <<held, subtask, info, queue>>
        /\ UNCHANGED <<nje.delivered, nje.msgs, nje.sent, nje.registered>>
    BY <1>1, <1>5 DEF Post, MainGoes, Shape, MainRec, NjeRec, authVars
  <2>2. main'.ending \/ ~main.ending
    BY <1>1, <2>1 DEF Shape, MainRec
  <2> QED
    BY <2>1, <2>2, MainStays DEF PopPCs
<1>6. CASE LeaveDrop
  <2>1. /\ main.pc = "dropping" /\ main'.pc \in {"resetJoin", "result"}
        /\ main'.ending = main.ending /\ UNCHANGED <<subtask, queue, nje>>
        /\ info'.finished = info.finished /\ info'.errorRunning = info.errorRunning
    BY <1>1, <1>6 DEF LeaveDrop, MainGoes, Shape, MainRec, InfoRec
  <2>2. main'.ending \/ ~main.ending
    BY <1>1, <2>1 DEF Shape, MainRec
  <2>3. Broken /\ queue.tail # 0 /\ ~main'.ending => info'.errorRunning
    BY <1>1, <2>1 DEF BrokenInv
  <2> QED
    BY <2>1, <2>2, <2>3, MainStays DEF PopPCs
<1>7. CASE ReceiveResult
  <2>1. /\ main.pc = "result" /\ main'.pc \in {"exec", "popping"}
        /\ main'.ending = main.ending /\ UNCHANGED <<held, subtask, info, queue, nje>>
        /\ main'.pc = "popping" => ~info.errorRunning
    BY <1>1, <1>7 DEF ReceiveResult, Return, MainGoes, Shape, MainRec, authVars
  <2>2. Broken => held[sub] = 0
    BY <2>1 DEF Broken, NjeIndInv, TasksInv, HeldInv
  <2>3. ~main.ending
    BY <2>1 DEF NjeIndInv, TasksInv, MainInv
  <2> QED
    BY <2>1, <2>2, <2>3, MainStays DEF PopPCs
<1> QED
  BY <1>2, <1>3, <1>4, <1>5, <1>6, <1>7

LEMMA MainLeaves ==
  ASSUME NjeIndInv, QueueInv, Calm,
         \/ Pop /\ queue.tail = 0
         \/ Joined \/ ResetGivesUp \/ RxNoPriv
  PROVE  QueueInv'
<1>1. Shape /\ (~main.ending => BrokenInv /\ FinishInv)
  BY DEF NjeIndInv, TasksInv, QueueInv
<1>2. CASE Pop /\ queue.tail = 0
  <2>1. /\ main.pc = "popping" /\ main'.pc = "exec" /\ main'.ending = main.ending
        /\ UNCHANGED <<held, subtask, info, queue, nje>>
    BY <1>1, <1>2 DEF Pop, Return, Shape, MainRec, authVars
  <2> QED
    BY <2>1, MainStays DEF PopPCs, NjeIndInv, TasksInv, MainInv
<1>3. CASE Joined
  <2>1. /\ main.pc \in {"joining", "resetJoin"} /\ main'.pc \in {"noPriv", "exec"}
        /\ main'.ending = main.ending /\ UNCHANGED <<subtask, queue, nje>>
        /\ info'.finished = info.finished /\ (info.errorRunning => info'.errorRunning)
        /\ ~info.finished => info'.errorRunning
    BY <1>1, <1>3 DEF Joined, MainGoes, Shape, MainRec, InfoRec
  <2>2. main'.ending \/ ~main.ending
    BY <1>1, <2>1 DEF Shape, MainRec
  <2>3. Broken /\ queue.tail # 0 /\ ~main'.ending => info'.errorRunning
    BY <1>1, <2>1 DEF FinishInv, Broken
  <2> QED
    BY <2>1, <2>2, <2>3, MainStays DEF PopPCs
<1>4. CASE ResetGivesUp \/ RxNoPriv
  <2>1. main'.ending /\ UNCHANGED nje
    BY <1>1, <1>4 DEF ResetGivesUp, RxNoPriv, MainGoes, Shape, MainRec, NjeIndInv, TasksInv,
       MainInv
  <2> QED
    BY <2>1, EndingMoves
<1> QED
  BY <1>2, <1>3, <1>4

-----------------------------------------------------------------------------
(* The subtask outside queueMsg().                                          *)
LEMMA SubStays ==
  ASSUME NjeIndInv, QueueInv, UNCHANGED <<main, queue>>, nje'.delivered = nje.delivered,
         subtask.pc \notin AddPCs \cup {"ended"}, subtask'.pc \notin AddPCs,
         subtask'.pc = "ended" => subtask.msg = 0,
         subtask'.msg = subtask.msg, ~main.ending => (InFirst' => InFirst),
         FinishInv => FinishInv', SentInv => SentInv'
  PROVE  QueueInv'
<1>1. CASE main.ending
  BY <1>1, EndingMoves
<1>2. CASE ~main.ending
  <2>1. FinishInv' /\ SentInv'
    BY <1>2 DEF QueueInv
  <2>2. /\ PopAt' = PopAt /\ main'.load = main.load /\ AddAt = "none" /\ AddAt' = "none"
    BY DEF PopAt, AddAt
  <2>3. ~Broken /\ ~Broken'
    BY DEF Broken
  <2> QED
    BY <1>2, <2>1, <2>2, <2>3, QueueStays DEF BrokenInv
<1> QED
  BY <1>1, <1>2

(* What leaves NJE38 alone, too.                                            *)
LEMMA SubGoesOnStays ==
  ASSUME NjeIndInv, QueueInv, UNCHANGED <<main, queue>>,
         UNCHANGED <<nje.delivered, nje.msgs, nje.sent, nje.registered>>,
         subtask.pc \notin AddPCs \cup {"ended"}, subtask'.pc \notin AddPCs,
         subtask'.pc = "ended" => subtask.msg = 0,
         subtask'.msg = subtask.msg,
         subtask'.fn \in {"DEREGISTER", "WAIT"}
           \/ (subtask'.fn = subtask.fn /\ subtask.pc # "loop")
           \/ (subtask.fn = "REGISTER" /\ subtask'.fn = "GETECB")
           \/ (subtask.fn = "GETECB" /\ subtask'.fn = "GETMSG"),
         subtask.fn = "DEREGISTER" => subtask'.fn = "DEREGISTER",
         info.errorRunning => info'.errorRunning,
         info'.finished = info.finished \/ (subtask.msg = 0 /\ subtask'.pc = "leave"),
         subtask.pc = "leave" => subtask'.pc \in {"leave", "ended"}
  PROVE  QueueInv'
<1>1. InFirst' => InFirst
  BY DEF InFirst
<1>2. FinishInv => FinishInv'
  BY DEF FinishInv
<1>3. SentInv => SentInv'
  <2>1. Taken' = Taken /\ (subtask'.fn = "REGISTER" => subtask.fn = "REGISTER")
    BY DEF Taken
  <2>2. Dropped => Dropped'
    BY DEF Dropped
  <2> QED
    BY <2>1, <2>2, SentStays
<1> QED
  BY <1>1, <1>2, <1>3, SubStays

LEMMA TakesMove ==
  ASSUME NjeIndInv, QueueInv, Park \/ (\E rac \in Rac : Take(rac)) \/ Retest
  PROVE  QueueInv'
<1>1. /\ Shape /\ UNCHANGED <<main, queue, nje>> /\ subtask.pc \in {"park", "take", "retest"}
      /\ subtask'.pc \in {"loop", "take", "retest", "leave", "failed", "clear", "call", "park"}
      /\ subtask'.msg = subtask.msg /\ subtask'.fn = subtask.fn
      /\ info'.finished = info.finished /\ (info.errorRunning => info'.errorRunning)
  BY DEF NjeIndInv, TasksInv, Park, Take, Retest, SubGoes, Shape, SubRec, InfoRec
<1> QED
  BY <1>1, SubGoesOnStays DEF AddPCs

LEMMA FailedMoves ==
  ASSUME NjeIndInv, QueueInv, Failed \/ Loop
  PROVE  QueueInv'
<1>1. /\ Shape /\ UNCHANGED <<main, queue, nje>> /\ subtask.pc \in {"failed", "loop"}
      /\ subtask'.pc \in {"leave", "park"} /\ subtask'.msg = subtask.msg
      /\ subtask'.fn \in {"DEREGISTER", "WAIT"}
      /\ subtask.fn = "DEREGISTER" => subtask'.fn = "DEREGISTER"
      /\ info'.finished = info.finished /\ info'.errorRunning = info.errorRunning
  BY DEF NjeIndInv, TasksInv, SubInv, Failed, Loop, Shape, SubRec, InfoRec
<1> QED
  BY <1>1, SubGoesOnStays DEF AddPCs

LEMMA WaitsMove ==
  ASSUME NjeIndInv, QueueInv,
         Clear \/ (\E rc \in RCs : Wait(rc)) \/ WaitDrop \/ Stopped \/ Leave
  PROVE  QueueInv'
<1>1. Shape /\ SubInv
  BY DEF NjeIndInv, TasksInv
<1>2. CASE Clear \/ (\E rc \in RCs : Wait(rc)) \/ WaitDrop \/ Stopped
  <2>1. /\ UNCHANGED <<main, queue>> /\ subtask.pc \in {"clear", "wait", "waitDrop", "stopped"}
        /\ subtask'.pc \in {"drain", "waitDrop", "stopped", "loop", "failed"}
        /\ subtask'.msg = subtask.msg /\ subtask'.fn = subtask.fn
    BY <1>1, <1>2 DEF Clear, Wait, WaitDrop, Stopped, SubGoes, Shape, SubRec
  <2>2. info'.finished = info.finished /\ (info.errorRunning => info'.errorRunning)
    BY <1>1, <1>2 DEF Clear, Wait, WaitDrop, Stopped, Shape, InfoRec
  <2>3. UNCHANGED <<nje.delivered, nje.msgs, nje.sent, nje.registered>>
    BY <1>1, <1>2 DEF Clear, Wait, WaitDrop, Stopped, Shape, NjeRec
  <2> QED
    BY <2>1, <2>2, <2>3, SubGoesOnStays DEF AddPCs
<1>3. CASE Leave
  <2>1. /\ UNCHANGED <<main, queue, nje>> /\ subtask.pc = "leave"
        /\ subtask'.pc \in {"leave", "ended"}
        /\ subtask'.msg = subtask.msg /\ subtask'.fn = subtask.fn
        /\ info'.finished = info.finished \/ subtask'.pc = "leave"
        /\ info'.errorRunning = info.errorRunning
    BY <1>1, <1>3 DEF Leave, SubGoes, Shape, SubRec, InfoRec
  <2>2. subtask.msg = 0
    BY <1>1, <2>1 DEF SubInv, AddPCs
  <2> QED
    BY <2>1, <2>2, SubGoesOnStays DEF AddPCs
<1> QED
  BY <1>2, <1>3

(* A fetch: the first message that NJE38 still has follows the last one.    *)
LEMMA Fetched ==
  ASSUME NjeIndInv, QueueInv, UNCHANGED <<main, info, queue>>,
         subtask.msg = 0, subtask.pc \in {"call", "drain"}, nje.msgs # <<>>,
         nje' = [nje EXCEPT !.msgs = Tail(@)],
         subtask'.msg = Head(nje.msgs), subtask'.fn = subtask.fn,
         subtask.fn \in {"GETMSG", "WAIT"}, subtask'.pc \in {"drop", "next"},
         subtask'.pc = "next" => PopAt = "none"
  PROVE  QueueInv'
<1> DEFINE q == queue
           d == Len(nje.delivered)
           s == nje.msgs
           m == Head(s)
<1>1. /\ Shape /\ nje'.delivered = nje.delivered /\ nje'.sent = nje.sent
      /\ nje'.registered = nje.registered /\ nje'.msgs = Tail(s) /\ m # 0
  BY Fetches DEF NjeIndInv, TasksInv, NjeIs
<1>2. CASE main.ending
  BY <1>1, <1>2, EndingMoves
<1>3. CASE ~main.ending
  <2>1. FirstInv /\ BrokenInv /\ FinishInv /\ ListInv /\ SentInv /\ DeliveredInv
    BY <1>3 DEF QueueInv
  <2>2. PopAt' = PopAt /\ AddAt = "none" /\ AddAt' \in {"none", "next"}
        /\ (AddAt' # "none" => PopAt = "none")
    BY DEF PopAt, AddAt, AddPCs
  <2>3. ~Broken /\ ~Broken' /\ (InFirst' => InFirst) /\ ~Dropped /\ ~Dropped'
    BY DEF Broken, InFirst, Dropped
  <2>4. List(q, d, PopAt, main.load, "none", 0, subtask.load)
    BY <2>1, <2>2, <2>3 DEF ListInv
  <2>5. s \in Seq(Msgs) /\ Len(s) \in Nat /\ Taken \in Nat /\ Taken = LastOf(q, d)
    BY <1>1, QueueTypes DEF Shape, NjeRec, Taken, LastOf
  <2>6. \A i \in 1 .. Len(s) : s[i] = Taken + i
    BY <2>1, <2>3 DEF SentInv
  <2>7. /\ Len(s) > 0 /\ m = s[1] /\ Len(Tail(s)) = Len(s) - 1
        /\ \A i \in 1 .. Len(s) - 1 : Tail(s)[i] = s[i + 1]
    BY <2>5
  <2>8. m = Taken + 1 /\ \A i \in 1 .. Len(s) - 1 : Tail(s)[i] = m + i
    <3> DEFINE rest == Tail(s)
               n == Len(s)
    <3> HIDE DEF s, m, rest, n
    <3>1. n \in Nat /\ n > 0 /\ m = s[1] /\ \A i \in 1 .. n - 1 : rest[i] = s[i + 1]
      BY <2>5, <2>7 DEF rest, n
    <3>2. Taken \in Nat /\ \A i \in 1 .. n : s[i] = Taken + i
      BY <2>5, <2>6 DEF n
    <3>3. m = Taken + 1
      BY <3>1, <3>2
    <3>4. ASSUME NEW i \in 1 .. n - 1 PROVE rest[i] = m + i
      <4>1. i + 1 \in 1 .. n
        BY <3>1
      <4> QED
        BY <3>1, <3>2, <3>3, <4>1
    <3> QED
      BY <3>3, <3>4 DEF rest, n
  <2>9. Taken' = m
    BY <1>1 DEF Taken
  <2>10. SentInv'
    <3>1. nje.registered \/ subtask.fn = "REGISTER" => Taken + Len(s) = nje.sent
      BY <2>1, <2>3 DEF SentInv
    <3>2. \A i \in 1 .. Len(nje'.msgs) : nje'.msgs[i] = Taken' + i
      BY <1>1, <2>7, <2>8, <2>9
    <3>3. Taken' + Len(nje'.msgs) = Taken + Len(s)
      <4> HIDE DEF s, m
      <4> QED
        BY <1>1, <2>5, <2>7, <2>8, <2>9
    <3> QED
      BY <1>1, <3>1, <3>2, <3>3 DEF SentInv
  <2>11. List(q, d, PopAt, main.load, AddAt', m, subtask'.load)
    <3>1. \A k \in d + 1 .. LastOf(q, d) : LinksOf(q, d, PopAt, AddAt', m, k)
      BY <2>2, <2>4 DEF List, LinksOf
    <3>2. AdditionOf(q, d, PopAt, AddAt', m, subtask'.load)
      BY <1>1, <2>2, <2>5, <2>8 DEF AdditionOf
    <3> HIDE DEF q, d, s, m
    <3> QED
      BY <2>2, <2>4, <3>1, <3>2 DEF List
  <2>12. ListInv'
    BY <1>1, <2>2, <2>11 DEF ListInv
  <2>13. FirstInv' /\ DeliveredInv' /\ FinishInv'
    BY <1>1, <2>1, <2>2, <2>3 DEF FirstInv, DeliveredInv, FinishInv
  <2> QED
    BY <2>3, <2>10, <2>12, <2>13 DEF QueueInv, BrokenInv
<1> QED
  BY <1>2, <1>3

LEMMA DrainMoves ==
  ASSUME NjeIndInv, QueueInv, Calm, Drain
  PROVE  QueueInv'
<1>1. /\ UNCHANGED <<main, info, queue>> /\ Shape /\ SubInv
      /\ subtask.pc = "drain" /\ subtask.fn = "WAIT" /\ subtask.msg = 0
  BY DEF NjeIndInv, TasksInv, Drain, SubInv, AddPCs
<1>2. CASE /\ nje.msgs # <<>>
           /\ subtask' = [subtask EXCEPT !.pc = "next", !.msg = Head(nje.msgs),
                                                !.drained = TRUE]
           /\ nje' = [nje EXCEPT !.msgs = Tail(@)]
  <2>1. nje' = [nje EXCEPT !.msgs = Tail(@)] /\ nje.msgs # <<>>
    BY <1>2
  <2>2. PICK m : m = Head(nje.msgs)
    OBVIOUS
  <2>3. subtask' = [subtask EXCEPT !.pc = "next", !.msg = m, !.drained = TRUE]
    BY <1>2, <2>2
  <2>4. subtask'.pc = "next" /\ subtask'.msg = m /\ subtask'.fn = subtask.fn
    BY <1>1, <2>3 DEF Shape, SubRec
  <2>5. held[sub] # 0
    BY OnlySubHolds DEF NjeIndInv, TasksInv, EndInv, Calm, Drain
  <2>6. PopAt = "none"
    BY <1>1, <2>5 DEF NjeIndInv, TasksInv, HeldInv, PopAt
  <2> QED
    BY <1>1, <2>1, <2>2, <2>4, <2>6, Fetched
<1>3. CASE UNCHANGED nje /\ (SubGoes("wait")
             \/ subtask' = [subtask EXCEPT !.pc = "waitDrop", !.rc = NoRC])
  <2>1. subtask'.pc \in {"wait", "waitDrop"} /\ subtask'.msg = subtask.msg
        /\ subtask'.fn = subtask.fn
    BY <1>1, <1>3 DEF SubGoes, Shape, SubRec
  <2> QED
    BY <1>1, <1>3, <2>1, SubGoesOnStays DEF AddPCs
<1> QED
  BY <1>2, <1>3 DEF Drain

LEMMA CallMoves ==
  ASSUME NjeIndInv, QueueInv, Call
  PROVE  QueueInv'
<1>1. /\ UNCHANGED <<main, info, queue>> /\ Shape /\ subtask.pc = "call" /\ subtask.msg = 0
      /\ subtask.fn # "WAIT"
  BY DEF NjeIndInv, TasksInv, Call, SubInv, AddPCs
<1>2. CASE /\ subtask.fn = "REGISTER"
           /\ subtask' = [subtask EXCEPT !.pc = "drop", !.rc = NoRC]
           /\ nje' = [nje EXCEPT !.registered = TRUE]
  <2>1. /\ subtask'.pc = "drop" /\ subtask'.msg = subtask.msg /\ subtask'.fn = subtask.fn
        /\ nje'.delivered = nje.delivered /\ nje'.msgs = nje.msgs /\ nje'.sent = nje.sent
    BY <1>1, <1>2 DEF Shape, SubRec, NjeRec
  <2>2. SentInv => SentInv'
    BY <1>1, <1>2, <2>1 DEF SentInv, Taken, Dropped
  <2> QED
    BY <1>1, <1>2, <2>1, <2>2, SubStays DEF AddPCs, InFirst, FinishInv
<1>3. CASE subtask' = [subtask EXCEPT !.pc = "drop", !.rc = subtask'.rc] /\ UNCHANGED nje
  <2>1. subtask'.pc = "drop" /\ subtask'.msg = subtask.msg /\ subtask'.fn = subtask.fn
    BY <1>1, <1>3 DEF Shape, SubRec
  <2> QED
    BY <1>1, <1>3, <2>1, SubGoesOnStays DEF AddPCs
<1>4. CASE /\ subtask' = [subtask EXCEPT !.pc = "drop", !.rc = NoRC, !.msg = 0]
           /\ UNCHANGED nje
  <2>1. subtask'.pc = "drop" /\ subtask'.msg = subtask.msg /\ subtask'.fn = subtask.fn
    BY <1>1, <1>4 DEF Shape, SubRec
  <2> QED
    BY <1>1, <1>4, <2>1, SubGoesOnStays DEF AddPCs
<1>5. CASE /\ subtask.fn = "GETMSG" /\ nje.msgs # <<>>
           /\ subtask' = [subtask EXCEPT !.pc = "drop", !.rc = NoRC, !.msg = Head(nje.msgs)]
           /\ nje' = [nje EXCEPT !.msgs = Tail(@)]
  <2>1. nje' = [nje EXCEPT !.msgs = Tail(@)] /\ nje.msgs # <<>> /\ subtask.fn = "GETMSG"
    BY <1>5
  <2>2. PICK m : m = Head(nje.msgs)
    OBVIOUS
  <2>3. subtask' = [subtask EXCEPT !.pc = "drop", !.rc = NoRC, !.msg = m]
    BY <1>5, <2>2
  <2>4. subtask'.pc = "drop" /\ subtask'.msg = m /\ subtask'.fn = subtask.fn
    BY <1>1, <2>3 DEF Shape, SubRec
  <2> QED
    BY <1>1, <2>1, <2>2, <2>4, Fetched
<1>6. CASE /\ subtask.fn = "DEREGISTER"
           /\ subtask' = [subtask EXCEPT !.pc = "drop", !.rc = NoRC]
           /\ nje' = [nje EXCEPT !.registered = FALSE, !.msgs = <<>>, !.posted = FALSE]
  <2>1. /\ subtask'.pc = "drop" /\ subtask'.msg = subtask.msg /\ subtask'.fn = "DEREGISTER"
        /\ nje'.delivered = nje.delivered /\ nje'.msgs = <<>> /\ ~nje'.registered
    BY <1>1, <1>6 DEF Shape, SubRec, NjeRec
  <2>2. SentInv'
    BY <2>1 DEF SentInv
  <2> QED
    BY <1>1, <2>1, <2>2, SubStays DEF AddPCs, InFirst, FinishInv
<1>7. PICK rc \in {NoRC, "nje error"} : Njerly(subtask.fn, rc)
  BY DEF Call
<1>8. CASE subtask' = [subtask EXCEPT !.pc = "drop", !.rc = rc] /\ UNCHANGED nje
  <2>1. subtask'.rc = rc
    BY <1>1, <1>8 DEF Shape, SubRec
  <2> QED
    BY <1>3, <1>8, <2>1
<1> QED
  BY <1>2, <1>4, <1>5, <1>6, <1>7, <1>8 DEF Njerly

LEMMA DropMoves ==
  ASSUME NjeIndInv, QueueInv, Drop
  PROVE  QueueInv'
<1>1. /\ UNCHANGED <<main, queue, nje>> /\ Shape /\ SubInv /\ subtask.pc = "drop"
  BY DEF NjeIndInv, TasksInv, Drop
<1>2. CASE /\ subtask.fn = "GETMSG" /\ subtask.rc = NoRC /\ subtask.msg # 0
           /\ SubGoes("next") /\ UNCHANGED info
  <2>1. /\ subtask'.pc = "next" /\ subtask'.msg = subtask.msg /\ subtask'.fn = subtask.fn
        /\ subtask'.load = subtask.load
    BY <1>1, <1>2 DEF SubGoes, Shape, SubRec
  <2>2. CASE main.ending
    BY <1>1, <2>2, EndingMoves
  <2>3. CASE ~main.ending
    <3>1. FirstInv /\ FinishInv /\ ListInv /\ SentInv /\ DeliveredInv
      BY <2>3 DEF QueueInv
    <3>2. PopAt = "none" /\ PopAt' = "none" /\ AddAt = "none" /\ AddAt' = "next"
      BY <1>1, <1>2, <2>1, <3>1 DEF FirstInv, InFirst, PopAt, AddAt, AddPCs
    <3>3. ~Broken /\ ~Broken' /\ InFirst
      BY <1>1, <1>2, <2>1 DEF Broken, InFirst
    <3>4. SentInv'
      BY <1>1, <1>2, <2>1, <3>1, SentStays DEF Taken, Dropped
    <3>5. ListInv'
      BY <1>1, <1>2, <2>1, <3>1, <3>2, <3>3 DEF ListInv, List, LinksOf, RemovalOf, AdditionOf
    <3>6. FirstInv' /\ FinishInv' /\ DeliveredInv'
      BY <1>1, <1>2, <2>1, <3>1, <3>2, <3>3 DEF FirstInv, FinishInv, DeliveredInv
    <3> QED
      BY <3>3, <3>4, <3>5, <3>6 DEF QueueInv, BrokenInv
  <2> QED
    BY <2>2, <2>3
<1>3. CASE ~(subtask.fn = "GETMSG" /\ subtask.rc = NoRC /\ subtask.msg # 0)
  <2>1. /\ subtask'.pc \in {"failed", "park", "loop", "leave"} /\ subtask'.msg = subtask.msg
        /\ \/ subtask'.fn = subtask.fn
           \/ subtask.fn = "REGISTER" /\ subtask'.fn = "GETECB"
           \/ subtask.fn = "GETECB" /\ subtask'.fn = "GETMSG"
        /\ info'.finished = info.finished /\ (info.errorRunning => info'.errorRunning)
    BY <1>1, <1>3 DEF Drop, SubGoes, Shape, SubRec, InfoRec
  <2> QED
    BY <1>1, <2>1, SubGoesOnStays DEF AddPCs
<1> QED
  BY <1>2, <1>3 DEF Drop

(* An abend.  Inside queueMsg() the subtask holds the authorisation, or it  *)
(* was about to queue the first message and there is no tail.               *)
LEMMA SubEndsMoves ==
  ASSUME NjeIndInv, QueueInv, Calm, SubEnds, UNCHANGED <<held, main, info, queue, nje>>,
         subtask.pc \in {"call", "drain", "wait"} \cup AddPCs
  PROVE  QueueInv'
<1>1. /\ Shape /\ SubInv /\ subtask'.pc = "ended" /\ subtask'.abended
      /\ subtask'.msg = subtask.msg /\ subtask'.fn = subtask.fn
  BY DEF NjeIndInv, TasksInv, SubEnds, Shape, SubRec
<1>2. CASE main.ending
  BY <1>2, EndingMoves
<1>3. CASE ~main.ending
  <2>1. FirstInv /\ FinishInv /\ ListInv /\ SentInv /\ DeliveredInv
    BY <1>3 DEF QueueInv
  <2>2. /\ ~Broken /\ (InFirst' => InFirst) /\ ~info.finished
        /\ PopAt' = PopAt /\ AddAt' = "none" /\ (Broken' <=> subtask.msg # 0)
    BY <1>1, <2>1 DEF Broken, InFirst, FinishInv, PopAt, AddAt, AddPCs
  <2>3. SentInv'
    BY <1>1, <2>1, SentStays DEF Taken, Dropped
  <2>4. ListInv'
    <3>1. CASE subtask.msg # 0
      BY <2>2, <3>1 DEF ListInv
    <3>2. CASE subtask.msg = 0
      <4>1. AddAt = "none"
        BY <1>1, <3>2 DEF SubInv, AddAt
      <4> QED
        BY <1>1, <2>1, <2>2, <4>1, ListStays
    <3> QED
      BY <3>1, <3>2
  <2>5. BrokenInv'
    <3> SUFFICES ASSUME subtask.msg # 0
                 PROVE  /\ PopAt = "none"
                        /\ queue.tail = 0 \/ (held[sub] # 0 /\ main.pc # "dropping")
      BY <1>1, <2>2 DEF BrokenInv
    <3>1. subtask.pc \in AddPCs /\ subtask.fn \in {"GETMSG", "WAIT"} /\ subtask.pc # "loop"
      BY <1>1 DEF SubInv, AddPCs
    <3>2. PopAt = "none"
      BY <2>1, <3>1, Excluded
    <3>3. CASE subtask.fn = "GETMSG"
      BY <2>1, <3>1, <3>2, <3>3 DEF FirstInv, InFirst
    <3>4. CASE subtask.fn = "WAIT"
      BY <3>1, <3>2, <3>4 DEF NjeIndInv, TasksInv, EndInv, Calm, AddPCs
    <3> QED
      BY <3>1, <3>3, <3>4
  <2>6. FirstInv' /\ FinishInv' /\ DeliveredInv'
    BY <1>1, <2>1, <2>2 DEF FirstInv, FinishInv, DeliveredInv
  <2> QED
    BY <2>3, <2>4, <2>5, <2>6 DEF QueueInv
<1> QED
  BY <1>2, <1>3

(* NJE38. *)
LEMMA ArrivalMoves ==
  ASSUME NjeIndInv, QueueInv, MessageArrives
  PROVE  QueueInv'
<1> DEFINE s == nje.msgs
           n == nje.sent + 1
<1>1. /\ Shape /\ nje.registered /\ UNCHANGED <<held, main, subtask, info, queue>>
      /\ nje' = [nje EXCEPT !.sent = @ + 1, !.msgs = Append(@, nje.sent + 1), !.posted = TRUE]
  BY DEF NjeIndInv, TasksInv, MessageArrives, authVars
<1>2. PICK more : more = Append(s, n)
  OBVIOUS
<1>3. nje' = [nje EXCEPT !.sent = n, !.msgs = more, !.posted = TRUE]
  BY <1>1, <1>2
<1>4. /\ nje'.delivered = nje.delivered /\ nje'.sent = n /\ nje'.msgs = Append(s, n)
      /\ nje'.registered = nje.registered
  BY <1>1, <1>2, <1>3 DEF Shape, NjeRec
<1>5. CASE main.ending
  BY <1>1, <1>4, <1>5, EndingMoves
<1>6. CASE ~main.ending
  <2>1. FirstInv /\ BrokenInv /\ FinishInv /\ ListInv /\ SentInv /\ DeliveredInv
    BY <1>6 DEF QueueInv
  <2>2. /\ FinishInv' /\ Taken' = Taken /\ (Dropped <=> Dropped')
        /\ PopAt' = PopAt /\ AddAt' = AddAt /\ (Broken <=> Broken') /\ (InFirst' <=> InFirst)
    BY <1>1, <1>4, <2>1 DEF InFirst, Broken, FinishInv, Taken, Dropped, PopAt, AddAt
  <2>4. BrokenInv'
    BY <1>1, <2>1, <2>2 DEF BrokenInv
  <2>3. SentInv'
    <3> SUFFICES ASSUME ~Dropped
                 PROVE  /\ \A i \in 1 .. Len(nje'.msgs) : nje'.msgs[i] = Taken + i
                        /\ Taken + Len(nje'.msgs) = nje'.sent
      BY <2>2 DEF SentInv
    <3>1. /\ s \in Seq(Msgs) /\ Len(s) \in Nat /\ Taken \in Nat /\ nje.sent \in Nat
          /\ \A i \in 1 .. Len(s) : s[i] = Taken + i
          /\ Taken + Len(s) = nje.sent
      BY <1>1, <2>1, QueueTypes DEF Shape, NjeRec, Taken, LastOf, SentInv
    <3>2. /\ Len(nje'.msgs) = Len(s) + 1
          /\ \A i \in 1 .. Len(s) + 1 : nje'.msgs[i] = IF i = Len(s) + 1 THEN n ELSE s[i]
      BY <1>4, <3>1
    <3>3. n = Taken + (Len(s) + 1)
      BY <3>1
    <3>4. ASSUME NEW i \in 1 .. Len(s) + 1 PROVE nje'.msgs[i] = Taken + i
      <4>1. CASE i = Len(s) + 1
        BY <3>2, <3>3, <4>1
      <4>2. CASE i # Len(s) + 1
        <5>1. i \in 1 .. Len(s)
          BY <3>1, <4>2
        <5> QED
          BY <3>1, <3>2, <4>2, <5>1
      <4> QED
        BY <4>1, <4>2
    <3> QED
      BY <1>4, <3>2, <3>3, <3>4
  <2> QED
    BY <1>1, <1>4, <1>6, <2>2, <2>3, <2>4, QueueStays
<1> QED
  BY <1>5, <1>6

LEMMA StopMoves ==
  ASSUME NjeIndInv, QueueInv, Nje38Stops \/ UNCHANGED vars
  PROVE  QueueInv'
<1>1. /\ UNCHANGED <<held, main, subtask, info, queue>>
      /\ UNCHANGED <<nje.delivered, nje.msgs, nje.sent, nje.registered>>
  BY DEF Nje38Stops, vars, authVars, protoVars, NjeIndInv, TasksInv, Shape, NjeRec
<1>2. CASE main.ending
  BY <1>1, <1>2, EndingMoves
<1>3. CASE ~main.ending
  <2>1. BrokenInv /\ FinishInv /\ SentInv
    BY <1>3 DEF QueueInv
  <2>2. SentInv'
    BY <1>1, <2>1, SentStays DEF Taken, Dropped
  <2>3. /\ FinishInv' /\ PopAt' = PopAt /\ AddAt' = AddAt /\ (Broken <=> Broken')
        /\ (InFirst' <=> InFirst)
    BY <1>1, <2>1 DEF InFirst, Broken, FinishInv, PopAt, AddAt
  <2>4. BrokenInv'
    BY <1>1, <2>1, <2>3 DEF BrokenInv
  <2> QED
    BY <1>1, <1>3, <2>2, <2>3, <2>4, QueueStays
<1> QED
  BY <1>2, <1>3

-----------------------------------------------------------------------------
LEMMA QueueInit ==
  ASSUME Init
  PROVE  QueueInv
<1>1. /\ main.pc = "exec" /\ subtask.pc = "none" /\ subtask.fn = "REGISTER" /\ subtask.msg = 0
      /\ ~info.finished /\ queue.items = 0 /\ queue.head = 0 /\ queue.tail = 0
      /\ nje.sent = 0 /\ nje.msgs = <<>> /\ nje.delivered = <<>>
  BY DEF Init
<1>2. PopAt = "none" /\ AddAt = "none" /\ LastOf(queue, 0) = 0 /\ Len(nje.delivered) = 0
      /\ Taken = 0
  BY <1>1 DEF PopAt, AddAt, PopPCs, AddPCs, LastOf, Taken
<1>3. List(queue, 0, "none", main.load, "none", 0, subtask.load)
  BY <1>1, <1>2 DEF List, RemovalOf, AdditionOf, Removing, Unlinking
<1> QED
  BY <1>1, <1>2, <1>3 DEF QueueInv, DeliveredInv, FirstInv, BrokenInv, Broken, FinishInv, ListInv,
     SentInv

LEMMA QueueMoves ==
  ASSUME NjeIndInv, QueueInv, Calm, [Next]_vars
  PROVE  QueueInv'
<1>1. CASE Exec
  BY <1>1, ExecMoves, ReceiveMoves
<1>2. CASE MainGoesOn
  BY <1>2, WatchMoves, MainMovesOn, MainLeaves, PopMoves, UnlinkMoves, UntailMoves,
     CountDownMoves DEF MainGoesOn
<1>3. CASE Unauthorised \/ SubAbend
  BY <1>3, SubEndsMoves DEF Unauthorised, SubAbend, authVars
<1>4. CASE Subtask
  BY <1>3, <1>4, TakesMove, FailedMoves, WaitsMove, DrainMoves, CallMoves, DropMoves, NewElemMoves,
     LinkHeadMoves, CountUpMoves, SetHeadMoves, SetTailMoves, OutOfMemoryMoves
  DEF Subtask, SubtaskGoesOn
<1>5. CASE MessageArrives
  BY <1>5, ArrivalMoves
<1>6. CASE Nje38Stops \/ Terminated \/ UNCHANGED vars
  BY <1>6, StopMoves DEF Terminated, vars
<1> QED
  BY <1>1, <1>2, <1>3, <1>4, <1>5, <1>6 DEF Next

(* What the invariant says of the messages.                                 *)
LEMMA QueueInOrder ==
  ASSUME NjeIndInv, QueueInv
  PROVE  MessagesInOrder
<1> DEFINE q == queue
           d == Len(nje.delivered)
           last == IF q.head = 0 THEN d ELSE q.head
           m == subtask.msg
<1>1. Shape /\ SubInv /\ DeliveredInv
  BY DEF NjeIndInv, TasksInv, QueueInv
<1>2. ASSUME ~subtask.abended, ~main.ending, subtask.pc \notin AddPCs, main.pc \notin PopPCs
      PROVE  /\ QueueHolds(d + 1, last)
             /\ ~info.errorRunning =>
                  /\ \A i \in 1 .. Len(Rest) : Rest[i] = last + i
                  /\ nje.registered => last + Len(Rest) = nje.sent
  <2>1. FirstInv /\ BrokenInv /\ ListInv /\ SentInv
    BY <1>2 DEF QueueInv
  <2>2. PopAt = "none" /\ AddAt = "none" /\ ~Broken
    BY <1>2, <2>1 DEF PopAt, AddAt, BrokenInv
  <2>3. List(q, d, "none", main.load, "none", m, subtask.load)
    BY <2>1, <2>2 DEF ListInv
  <2>4. /\ d \in Nat /\ MaxMsgs \in Nat /\ q.head \in 0..MaxMsgs /\ q.items \in Int
        /\ m \in 0..MaxMsgs /\ nje.sent \in Nat
    BY <1>1, QueueTypes
  <2>5. last = LastOf(q, d) /\ last \in Nat /\ last >= d /\ (q.head # 0 => last > d)
    <3> HIDE DEF d, q
    <3> QED
      BY <2>3, <2>4 DEF LastOf, List, Unlinking
  <2>6. QueueHolds(d + 1, last)
    <3>1. q.items = last - d /\ q.tail = IF last = d THEN 0 ELSE d + 1
      <4> HIDE DEF d, q, m, last
      <4> QED
        BY <2>3, <2>4, <2>5 DEF List, Removing, Unlinking
    <3>2. ASSUME NEW k \in d + 1 .. last
          PROVE  q.elem[k] = [dat |-> k, prev |-> IF k = last THEN 0 ELSE k + 1,
                              next |-> IF k = d + 1 THEN 0 ELSE k - 1]
      <4>1. k \in Msgs
        <5> HIDE DEF d
        <5> QED
          BY <2>4, <2>5 DEF Msgs
      <4>2. q.elem[k] \in ElemRec
        BY <1>1, <4>1 DEF Shape, QueueRec
      <4>3. LinksOf(q, d, "none", "none", m, k)
        BY <2>3, <2>5 DEF List
      <4> HIDE DEF d, q, m, last
      <4> QED
        BY <2>5, <4>2, <4>3 DEF LinksOf, ElemRec, Unlinking
    <3>3. (d + 1 > last <=> last = d) /\ last + 1 - (d + 1) = last - d
          /\ q.head = IF d + 1 > last THEN 0 ELSE last
      <4> HIDE DEF d
      <4> QED
        BY <2>4, <2>5
    <3> QED
      BY <3>1, <3>2, <3>3 DEF QueueHolds
  <2>7. ASSUME ~info.errorRunning
        PROVE  /\ \A i \in 1 .. Len(Rest) : Rest[i] = last + i
               /\ nje.registered => last + Len(Rest) = nje.sent
    <3>1. /\ \A i \in 1 .. Len(nje.msgs) : nje.msgs[i] = Taken + i
          /\ nje.registered => Taken + Len(nje.msgs) = nje.sent
      BY <2>1, <2>7 DEF SentInv, Dropped
    <3>2. nje.msgs \in Seq(Msgs) /\ Len(nje.msgs) \in Nat
      BY <1>1 DEF Shape, NjeRec
    <3>3. CASE m = 0
      <4>1. Rest = nje.msgs /\ Taken = last
        BY <2>5, <3>2, <3>3 DEF Rest, Taken
      <4> QED
        BY <3>1, <4>1
    <3>4. CASE m # 0
      <4>1. m = last + 1 /\ Taken = m
        BY <2>3, <2>5, <3>4 DEF List, AdditionOf, Taken
      <4>2. m \in Msgs /\ <<m>> \in Seq(Msgs) /\ Rest = <<m>> \o nje.msgs
        BY <2>4, <3>4 DEF Msgs, Rest
      <4>3. /\ Len(Rest) = Len(nje.msgs) + 1
            /\ \A i \in 1 .. Len(nje.msgs) + 1 :
                 Rest[i] = IF i = 1 THEN m ELSE nje.msgs[i - 1]
        BY <3>2, <4>2
      <4>4. ASSUME NEW i \in 1 .. Len(nje.msgs) + 1 PROVE Rest[i] = last + i
        <5>1. CASE i = 1
          BY <4>1, <4>3, <5>1
        <5>2. CASE i # 1
          <6>1. i - 1 \in 1 .. Len(nje.msgs)
            BY <3>2, <5>2
          <6>2. nje.msgs[i - 1] = m + (i - 1)
            BY <3>1, <4>1, <6>1
          <6> HIDE DEF last, m
          <6> QED
            BY <2>5, <3>2, <4>1, <4>3, <5>2, <6>2
        <5> QED
          BY <5>1, <5>2
      <4>5. nje.registered => last + Len(Rest) = nje.sent
        <5>1. Len(Rest) = Len(nje.msgs) + 1 /\ last \in Nat /\ Taken = last + 1
          BY <2>5, <4>1, <4>3
        <5>2. \A n \in Nat : last + (n + 1) = (last + 1) + n
          BY <2>5
        <5>3. last + Len(Rest) = Taken + Len(nje.msgs)
          BY <3>2, <5>1, <5>2
        <5> QED
          BY <3>1, <5>3
      <4> QED
        BY <4>3, <4>4, <4>5
    <3> QED
      BY <3>3, <3>4
  <2> QED
    BY <2>6, <2>7
<1> QED
  BY <1>1, <1>2 DEF MessagesInOrder, DeliveredInv

(* The exec gets the messages in the order in which NJE38 got them, none    *)
(* twice and none left out, and whenever neither task is inside dqueue.c    *)
(* its count and its links are those of the messages in it - although the   *)
(* pop of __NJERECEIVE and the add of the subtask are several unlocked      *)
(* steps each.  It takes a step that nothing else authorises, where the     *)
(* subtask has a flag for recvLeave() to wait for, and an NJE38 that        *)
(* completes its calls, so that recvLeave() does not give up: otherwise the *)
(* two overlap.                                                             *)
THEOREM MessagesCorrect ==
  ~Apf /\ ~Sends /\ "hang" \notin Faults => (Spec => []MessagesInOrder)
<1> SUFFICES ASSUME Calm PROVE Spec => []MessagesInOrder
  BY DEF Calm
<1>1. NjeIndInv /\ QueueInv => MessagesInOrder
  BY QueueInOrder
<1>2. Init => QueueInv
  BY QueueInit
<1>3. NjeIndInv /\ QueueInv /\ [Next]_vars => QueueInv'
  BY QueueMoves
<1> QED
  BY <1>1, <1>2, <1>3, NjeAlways, PTL DEF Spec

-----------------------------------------------------------------------------
(* recvLeave() posts no ECB of a user who is deregistered, whatever goes    *)
(* wrong but that the subtask runs out of memory.                           *)
THEOREM PostsCorrect == "oom" \notin Faults => (Spec => []PostOnlyRegistered)
<1> SUFFICES ASSUME "oom" \notin Faults PROVE Spec => []PostOnlyRegistered
  OBVIOUS
<1>1. NjeIndInv => PostOnlyRegistered
  BY DEF NjeIndInv, TasksInv, PostInv, PostOnlyRegistered
<1> QED
  BY <1>1, NjeAlways, PTL

(* A message that comes between the fetches and NJE_WAIT is not slept on,   *)
(* whatever goes wrong but that NJE38 refuses the fetch.                    *)
THEOREM WakeupsCorrect == "nje" \notin Faults => (Spec => []NoLostWakeup)
<1> SUFFICES ASSUME "nje" \notin Faults PROVE Spec => []NoLostWakeup
  OBVIOUS
<1>1. NjeIndInv => NoLostWakeup
  BY DEF NjeIndInv, TasksInv, WakeInv
<1> QED
  BY <1>1, NjeAlways, PTL

(* Both, and the types, while the subtask has memory and NJE38 refuses no   *)
(* call: what the run checks of the two tasks and the ECB between them.     *)
THEOREM ListenerCorrect == Faults \cap {"oom", "nje"} = {} => (Spec => []NjeInv)
<1> SUFFICES ASSUME Faults \cap {"oom", "nje"} = {} PROVE Spec => []NjeInv
  OBVIOUS
<1>1. Spec => []PostOnlyRegistered
  BY PostsCorrect
<1>2. Spec => []NoLostWakeup
  BY WakeupsCorrect
<1>3. Spec => []TypeOK
  BY TypeCorrect
<1> QED
  BY <1>1, <1>2, <1>3, PTL DEF NjeInv

(* RxNoPriv() is the last word on the authorisation: nobody takes it when   *)
(* BREXX has ended.                                                         *)
Settled == main.pc = "ended" => jscbAuth = native

LEMMA SettledKeeps ==
  ASSUME NjeIndInv, Settled, [Next]_vars
  PROVE  Settled'
<1> SUFFICES ASSUME main'.pc = "ended" PROVE jscbAuth' = native'
  BY DEF Settled
<1>1. Shape /\ AuthInv
  BY DEF NjeIndInv, TasksInv
<1>2. CASE UNCHANGED <<main, authVars>>
  BY <1>2 DEF Settled, authVars
<1>3. CASE RxNoPriv
  BY <1>1, <1>3, ResetEmpties DEF RxNoPriv
<1>4. CASE main'.pc # "ended"
  BY <1>4
<1>5. CASE Exec
  <2>1. main'.pc # "ended" \/ UNCHANGED <<main, authVars>>
    BY <1>1, <1>5 DEF Exec, NjeRegister, NjeReceive, NjeSend, NjeDeregister, ExecEnds, Return,
       Shape, MainRec
  <2> QED
    BY <1>2, <2>1
<1>6. ASSUME MainGoesOn, ~RxNoPriv PROVE main'.pc # "ended"
  BY <1>1, <1>6 DEF MainGoesOn, NjeSendDone, Watch, WatchFlags, WatchEnded, Watching, StartedUp,
     WaitOver, LeaveTest, LeaveGivesUp, Post, LeaveDrop, ReceiveResult, Pop, Unlink, Untail,
     CountDown, Joined, ResetGivesUp, MainGoes, MainLoads, Return, Shape, MainRec
<1>7. CASE Subtask
  <2>1. main.pc # "ended" /\ UNCHANGED main
    BY <1>7 DEF Subtask, SubtaskGoesOn, Park, Take, Retest, Call, Drop, Failed, NewElem,
       LinkHead, CountUp, SetHead, SetTail, Loop, Clear, Drain, Wait, WaitDrop, Stopped, Leave, OutOfMemory, Unauthorised
  <2> QED
    BY <2>1
<1>8. CASE SubAbend \/ MessageArrives \/ Nje38Stops \/ Terminated \/ UNCHANGED vars
  BY <1>2, <1>8 DEF SubAbend, MessageArrives, Nje38Stops, Terminated, vars, protoVars
<1> QED
  BY <1>3, <1>4, <1>5, <1>6, <1>7, <1>8 DEF Next

(* When the exec has ended, however it ended, the step is authorised only   *)
(* if it was at the start and no subtask is left over - in a step that only *)
(* the subtask authorises, and if NJE38 completes the calls it began.       *)
THEOREM EndCorrect ==
  ~Apf /\ ~Sends /\ "hang" \notin Faults => (Spec => []AuthGivenBack)
<1> SUFFICES ASSUME ~Apf, ~Sends, "hang" \notin Faults PROVE Spec => []AuthGivenBack
  OBVIOUS
<1>1. NjeIndInv /\ Settled => AuthGivenBack
  BY DEF NjeIndInv, TasksInv, EndInv, Settled, AuthGivenBack
<1>2. Init => Settled
  BY DEF Init, Settled
<1>3. NjeIndInv /\ Settled /\ [Next]_vars => Settled'
  BY SettledKeeps
<1>4. Spec => []NjeIndInv
  BY NjeAlways
<1> QED
  BY <1>1, <1>2, <1>3, <1>4, PTL DEF Spec
==============================================================================
