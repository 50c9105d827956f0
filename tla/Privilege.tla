------------------------------ MODULE Privilege ------------------------------
(***************************************************************************)
(* src/privilege.c, PRIVILEGE and the service calls that need it:          *)
(* privilege(), keyZero(), privTake(), privDrop(), privKeyBack() and       *)
(* RxNoPriv(), over the authorisation counter of Authorisation.            *)
(*                                                                         *)
(* The main task runs the exec.  PRIVILEGE('ON') authorises the step and   *)
(* puts the task into key 0 in problem state; ADDRESS COMMAND 'CP ...',    *)
(* SYSVAR('SYSCP') and their like run a CP command, ADDRESS CONSOLE,       *)
(* CONSOLE() and MVSVAR('NJENODE') another restricted service, each        *)
(* between privTake() and privDrop().  A call may be thrown away half way: *)
(* by an abend, or by the longjmp that ends the exec or enters its SYNTAX  *)
(* handler when the storage is used up; both go through RxNoPriv().  The   *)
(* other holders take and give back the authorisation at any time.         *)
(***************************************************************************)
EXTENDS Authorisation

CONSTANTS
  privHeld,             \* the static flag of privilege(), one of Holders
  NoCall,               \* no service call in progress
  Thrown                \* RxNoPriv() is cleaning up after a call, or the exec

ASSUME PrivHeldIsHolder == privHeld \in Holders

VARIABLES
  authorisedGranted,    \* _authorisedGranted: PRIVILEGE('ON') is in effect
  key,                  \* PSW key of the main task
  savedKey,             \* the key keyZero(0) goes back to
  call                  \* the service call in progress, NoCall or Thrown

privVars == <<authorisedGranted, key, savedKey, call>>
vars == <<authVars, privVars>>

KeyZero == 0
KeyUser == 8            \* PSWKEY8

Services == {"cp", "other"}
Phases == {"run", "keyBack", "end"}

(* before is what the call found, kept to say what it must leave.           *)
Call(service, ok, taken) ==
  [service |-> service, phase |-> "run", ok |-> ok, taken |-> taken,
   before |-> [granted |-> authorisedGranted, key |-> key]]

Calls ==
  [service : Services, phase : Phases, ok : BOOLEAN, taken : BOOLEAN,
   before : [granted : BOOLEAN, key : {KeyZero, KeyUser}]]

ASSUME CallAssumption == NoCall # Thrown /\ NoCall \notin Calls /\ Thrown \notin Calls

Init ==
  /\ AuthInit
  /\ authorisedGranted = FALSE
  /\ key = KeyUser
  /\ savedKey = KeyUser
  /\ call = NoCall

-----------------------------------------------------------------------------
keyZero(on) ==
  /\ key' = IF on THEN KeyZero ELSE savedKey
  /\ savedKey' = IF on THEN key ELSE savedKey

(* privilege(1).  authCheck() asks RAKF even where authTake() need not.     *)
PrivilegeGranted(rac, svc) == authorisedGranted \/ (rac /\ TakeGranted(rac, svc))

(* Mutant of privilege(1): without its test of _authorisedGranted. *)
privilegeOnTwice(rac, svc) ==
  \/ ~rac /\ UNCHANGED <<authVars, authorisedGranted, key, savedKey>>
  \/ /\ rac
     /\ AuthTake(privHeld, rac, svc)
     /\ \/ ~TakeGranted(rac, svc) /\ UNCHANGED <<authorisedGranted, key, savedKey>>
        \/ TakeGranted(rac, svc) /\ authorisedGranted' = TRUE /\ keyZero(TRUE)

privilegeOn(rac, svc) ==
  \/ /\ authorisedGranted \/ ~rac
     /\ UNCHANGED <<authVars, authorisedGranted, key, savedKey>>
  \/ /\ ~authorisedGranted /\ rac
     /\ AuthTake(privHeld, rac, svc)
     /\ \/ ~TakeGranted(rac, svc) /\ UNCHANGED <<authorisedGranted, key, savedKey>>
        \/ TakeGranted(rac, svc) /\ authorisedGranted' = TRUE /\ keyZero(TRUE)

(* privilege(0) *)
privilegeOff ==
  \/ ~authorisedGranted /\ UNCHANGED <<authVars, authorisedGranted, key, savedKey>>
  \/ /\ authorisedGranted
     /\ keyZero(FALSE)
     /\ AuthDrop(privHeld)
     /\ authorisedGranted' = FALSE

-----------------------------------------------------------------------------
(* PRIVILEGE('ON') and PRIVILEGE('OFF') of the exec *)
PrivilegeOn(rac, svc) ==
  /\ call = NoCall
  /\ privilegeOn(rac, svc)
  /\ UNCHANGED call

PrivilegeOff ==
  /\ call = NoCall
  /\ privilegeOff
  /\ UNCHANGED call

(* privTake(): nothing to do under PRIVILEGE('ON') or in a step that is     *)
(* authorised without any holder.                                           *)
privTake(service, rac, svc) ==
  /\ call = NoCall
  /\ \/ /\ authorisedGranted \/ authNative
        /\ call' = Call(service, TRUE, FALSE)
        /\ UNCHANGED <<authVars, authorisedGranted, key, savedKey>>
     \/ /\ ~authorisedGranted /\ ~authNative
        /\ privilegeOn(rac, svc)
        /\ call' = Call(service, PrivilegeGranted(rac, svc), authorisedGranted')

(* RXCPCMD ends with MODESET KEY=NZERO, whatever the key was.  A service    *)
(* that was refused is not run.                                             *)
RunService ==
  /\ call \notin {NoCall, Thrown} /\ call.phase = "run"
  /\ IF call.ok /\ call.service = "cp"
       THEN /\ key' = KeyUser
            /\ call' = [call EXCEPT !.phase = "keyBack"]
       ELSE /\ call' = [call EXCEPT !.phase = "end"]
            /\ UNCHANGED key
  /\ UNCHANGED <<authVars, authorisedGranted, savedKey>>

privKeyBack ==
  /\ call \notin {NoCall, Thrown} /\ call.phase = "keyBack"
  /\ call' = [call EXCEPT !.phase = "end"]
  /\ IF ~call.taken /\ authorisedGranted
       THEN keyZero(TRUE)
       ELSE UNCHANGED <<key, savedKey>>
  /\ UNCHANGED <<authVars, authorisedGranted>>

privDrop ==
  /\ call \notin {NoCall, Thrown} /\ call.phase = "end"
  /\ call' = NoCall
  /\ \/ call.taken /\ privilegeOff
     \/ ~call.taken /\ UNCHANGED <<authVars, authorisedGranted, key, savedKey>>

(* Mutant of RxNoPriv(): it only resets the counter. *)
RxNoPrivResetOnly ==
  /\ call # Thrown
  /\ call' = Thrown
  /\ UNCHANGED <<authVars, authorisedGranted, key, savedKey>>

(* RxNoPriv(), whose caller has thrown the call in progress away: first     *)
(* privilege(0), then authReset(), each under the mutex.                    *)
RxNoPriv ==
  /\ call # Thrown
  /\ privilegeOff
  /\ call' = Thrown

RxNoPrivReset ==
  /\ call = Thrown
  /\ authGen < MaxGen
  /\ AuthReset
  /\ call' = NoCall
  /\ UNCHANGED <<authorisedGranted, key, savedKey>>

-----------------------------------------------------------------------------
(* The other tasks and frames: __NJESEND, the NJE subtask. *)
OtherHolder(h, rac, svc) ==
  /\ \/ MayTake(h) /\ AuthTake(h, rac, svc)
     \/ AuthDrop(h)
  /\ UNCHANGED privVars

Next ==
  \/ \E rac, svc \in BOOLEAN : PrivilegeOn(rac, svc)
  \/ PrivilegeOff
  \/ \E service \in Services, rac, svc \in BOOLEAN : privTake(service, rac, svc)
  \/ RunService \/ privKeyBack \/ privDrop
  \/ RxNoPriv \/ RxNoPrivReset
  \/ \E h \in Holders \ {privHeld}, rac, svc \in BOOLEAN : OtherHolder(h, rac, svc)

Spec == Init /\ [][Next]_vars

-----------------------------------------------------------------------------
PrivTypeOK ==
  /\ AuthTypeOK
  /\ authorisedGranted \in BOOLEAN
  /\ key \in {KeyZero, KeyUser}
  /\ savedKey \in {KeyZero, KeyUser}
  /\ call \in {NoCall, Thrown} \union Calls

(* Between the service calls the task is in key 0 exactly under             *)
(* PRIVILEGE('ON'), and the key to go back to is always the user's: key 0   *)
(* is never saved as it (#542), or PRIVILEGE('OFF') would leave key 0 on.   *)
KeyFollowsPrivilege ==
  /\ call = NoCall => key = (IF authorisedGranted THEN KeyZero ELSE KeyUser)
  /\ savedKey = KeyUser

(* A restricted service runs only in an authorised step (S047 otherwise),   *)
(* although the subtask may give its authorisation back in the middle of    *)
(* the call: that is why authNative() wants a step without any holder.      *)
ServiceIsAuthorised == call \notin {NoCall, Thrown} /\ call.ok => jscbAuth

(* A service call leaves PRIVILEGE as it found it: it neither ends a        *)
(* PRIVILEGE('ON') of the exec (#544) nor leaves one behind.                *)
CallLeavesPrivilege ==
  call \notin {NoCall, Thrown} => authorisedGranted = (call.before.granted # call.taken)

(* What holds between and in the service calls of the task: types, the key, *)
(* the authorisation of the services and the exec's own PRIVILEGE.          *)
PrivInv ==
  PrivTypeOK /\ KeyFollowsPrivilege /\ ServiceIsAuthorised /\ CallLeavesPrivilege

(* Whatever an abend or an exhausted storage threw away, RxNoPriv() leaves  *)
(* the user's key and a step that is authorised only if it was before       *)
(* (#191, #505): the FREEMAINs that follow must not run in key 0.           *)
NoPrivLeavesNothing ==
  [][RxNoPrivReset => key' = KeyUser /\ ~authorisedGranted' /\ jscbAuth' = native]_vars

(* The main task keeps the contract of the counter, so what is proved of    *)
(* Authorisation holds here.                                                *)
KeepsAuthContract == AuthSpec
==============================================================================
