-------------------------- MODULE Privilege_proofs --------------------------
(***************************************************************************)
(* Proofs about Privilege: the main task keeps the contract of the         *)
(* authorisation counter, so that what Authorisation_proofs establishes    *)
(* holds for PRIVILEGE; PrivInv; and what RxNoPriv() leaves.               *)
(*                                                                         *)
(* PrivInv is not inductive: it does not say what the flag of PRIVILEGE    *)
(* holds, nor what the key is in the middle of a service call.             *)
(***************************************************************************)
EXTENDS Privilege, Authorisation_proofs

InCall == call \notin {NoCall, Thrown}

(* The flag of privilege() is set exactly while PRIVILEGE('ON') is in       *)
(* effect, but in a step that was authorised anyway, where nobody holds     *)
(* anything.  The cleanup resets the counter only after PRIVILEGE('OFF').   *)
FlagFollowsPrivilege ==
  /\ ~authorisedGranted => held[privHeld] # authGen
  /\ authorisedGranted => native \/ held[privHeld] = authGen
  /\ call = Thrown => ~authorisedGranted

(* The key throughout: only a service call under PRIVILEGE('ON'), or one    *)
(* that took it, may have key 8 while PRIVILEGE('ON') is in effect.         *)
KeyInv ==
  /\ savedKey = KeyUser
  /\ ~authorisedGranted => key = KeyUser
  /\ authorisedGranted =>
       key = KeyZero \/ (InCall /\ (call.taken \/ call.phase = "keyBack"))
  /\ InCall /\ call.phase = "keyBack" => key = KeyUser

CallInv ==
  InCall =>
    /\ call.ok => native \/ authorisedGranted
    /\ authorisedGranted = (call.before.granted # call.taken)

(* The inductive invariant. *)
PrivIndInv ==
  /\ AuthInv
  /\ PrivTypeOK
  /\ FlagFollowsPrivilege
  /\ KeyInv
  /\ CallInv

-----------------------------------------------------------------------------
(* privilege(1) is a take of the flag of PRIVILEGE, or nothing; what it     *)
(* leaves when it was off before.                                           *)
LEMMA OnTakes ==
  ASSUME PrivIndInv, NEW rac \in BOOLEAN, NEW svc \in BOOLEAN, privilegeOn(rac, svc)
  PROVE  /\ [AuthNext]_authVars
         /\ native' = native
         /\ authorisedGranted' = PrivilegeGranted(rac, svc)
         /\ \/ UNCHANGED <<authVars, authorisedGranted, key, savedKey>>
            \/ /\ ~authorisedGranted /\ authGen' = authGen
               /\ \/ ~authorisedGranted' /\ held'[privHeld] # authGen
                     /\ UNCHANGED <<key, savedKey>>
                  \/ /\ authorisedGranted' /\ (native \/ held'[privHeld] = authGen)
                     /\ key' = KeyZero /\ savedKey' = key
<1> USE PrivHeldIsHolder
<1>1. CASE /\ authorisedGranted \/ ~rac
           /\ UNCHANGED <<authVars, authorisedGranted, key, savedKey>>
  BY <1>1 DEF PrivilegeGranted, authVars, PrivIndInv, PrivTypeOK
<1>2. CASE /\ ~authorisedGranted /\ rac
           /\ AuthTake(privHeld, rac, svc)
           /\ \/ ~TakeGranted(rac, svc) /\ UNCHANGED <<authorisedGranted, key, savedKey>>
              \/ TakeGranted(rac, svc) /\ authorisedGranted' = TRUE /\ keyZero(TRUE)
  <2>1. MayTake(privHeld)
    BY <1>2 DEF PrivIndInv, FlagFollowsPrivilege, MayTake
  <2>2. AuthNext
    BY <1>2, <2>1 DEF AuthNext
  <2>3. held \in [Holders -> Nat] /\ authGen \in Nat \ {0}
    BY DEF PrivIndInv, AuthInv, AuthTypeOK
  <2>4. /\ native' = native /\ authGen' = authGen
        /\ authorisedGranted' = PrivilegeGranted(rac, svc)
    BY <1>2 DEF AuthTake, PrivilegeGranted, PrivIndInv, PrivTypeOK
  <2>5. CASE ~TakeGranted(rac, svc)
    <3>1. held' = [held EXCEPT ![privHeld] = 0]
      BY <1>2, <2>5 DEF AuthTake
    <3> QED
      BY <1>2, <2>2, <2>3, <2>4, <2>5, <3>1
  <2>6. CASE TakeGranted(rac, svc)
    <3>1. native \/ held'[privHeld] = authGen
      <4>1. CASE authCount > 0 \/ authSwitched \/ (NeedsSvc /\ rac /\ svc)
        BY <1>2, <2>3, <2>6, <4>1 DEF AuthTake
      <4>2. CASE ~(authCount > 0 \/ authSwitched \/ (NeedsSvc /\ rac /\ svc))
        <5>1. authCount = 0 /\ jscbAuth /\ ~authSwitched
          BY <2>6, <4>2 DEF TakeGranted, NeedsSvc, PrivIndInv, AuthInv, AuthTypeOK
        <5> QED
          BY <5>1 DEF PrivIndInv, AuthInv, SwitchedWhileHeld
      <4> QED
        BY <4>1, <4>2
    <3> QED
      BY <1>2, <2>2, <2>4, <2>6, <3>1 DEF keyZero
  <2> QED
    BY <2>5, <2>6
<1> QED
  BY <1>1, <1>2 DEF privilegeOn

(* privilege(0) is a drop of the flag of PRIVILEGE, or nothing; PRIVILEGE   *)
(* is off behind it, and the key the user's.                                *)
LEMMA OffDrops ==
  ASSUME PrivIndInv, privilegeOff
  PROVE  /\ [AuthNext]_authVars
         /\ native' = native /\ authGen' = authGen
         /\ authorisedGranted' = FALSE
         /\ held'[privHeld] # authGen
         /\ key' = KeyUser /\ savedKey' = KeyUser
<1> USE PrivHeldIsHolder
<1>0. held \in [Holders -> Nat] /\ authGen \in Nat \ {0} /\ authorisedGranted \in BOOLEAN
  BY DEF PrivIndInv, PrivTypeOK, AuthInv, AuthTypeOK
<1>1. CASE ~authorisedGranted /\ UNCHANGED <<authVars, authorisedGranted, key, savedKey>>
  BY <1>0, <1>1 DEF PrivIndInv, FlagFollowsPrivilege, KeyInv, authVars
<1>2. CASE /\ authorisedGranted
           /\ keyZero(FALSE)
           /\ AuthDrop(privHeld)
           /\ authorisedGranted' = FALSE
  <2>1. AuthNext
    BY <1>2 DEF AuthNext
  <2>2. /\ held' = [held EXCEPT ![privHeld] = 0]
        /\ native' = native /\ authGen' = authGen
    BY <1>2 DEF AuthDrop
  <2>3. key' = KeyUser /\ savedKey' = KeyUser
    BY <1>2 DEF keyZero, PrivIndInv, KeyInv
  <2> QED
    BY <1>0, <1>2, <2>1, <2>2, <2>3
<1> QED
  BY <1>1, <1>2 DEF privilegeOff

(* Whoever else takes or drops leaves the flag of PRIVILEGE alone.          *)
LEMMA OthersLeaveFlag ==
  ASSUME PrivIndInv, NEW h \in Holders \ {privHeld}, NEW rac \in BOOLEAN, NEW svc \in BOOLEAN,
         OtherHolder(h, rac, svc)
  PROVE  /\ [AuthNext]_authVars
         /\ native' = native /\ authGen' = authGen /\ held'[privHeld] = held[privHeld]
         /\ UNCHANGED privVars
<1>0. held \in [Holders -> Nat] /\ privHeld \in Holders
  BY PrivHeldIsHolder DEF PrivIndInv, AuthInv, AuthTypeOK
<1>1. CASE MayTake(h) /\ AuthTake(h, rac, svc)
  <2>1. AuthNext
    BY <1>1 DEF AuthNext
  <2>2. native' = native /\ authGen' = authGen /\ held'[privHeld] = held[privHeld]
    BY <1>0, <1>1 DEF AuthTake
  <2> QED
    BY <2>1, <2>2 DEF OtherHolder
<1>2. CASE AuthDrop(h)
  <2>1. AuthNext
    BY <1>2 DEF AuthNext
  <2>2. native' = native /\ authGen' = authGen /\ held'[privHeld] = held[privHeld]
    BY <1>0, <1>2 DEF AuthDrop
  <2> QED
    BY <2>1, <2>2 DEF OtherHolder
<1> QED
  BY <1>1, <1>2 DEF OtherHolder

-----------------------------------------------------------------------------
LEMMA PrivInitInv == Init => PrivIndInv
<1> SUFFICES ASSUME Init PROVE PrivIndInv
  OBVIOUS
<1> USE DEF Init
<1>1. AuthInv
  BY InitInv
<1>2. PrivTypeOK
  BY <1>1 DEF PrivTypeOK, AuthInv
<1>3. FlagFollowsPrivilege /\ KeyInv /\ CallInv
  BY CallAssumption, PrivHeldIsHolder
  DEF FlagFollowsPrivilege, KeyInv, CallInv, InCall, AuthInit
<1> QED
  BY <1>1, <1>2, <1>3 DEF PrivIndInv

(* Every step of the main task and of the others keeps the contract of the  *)
(* counter, and the invariant.                                              *)
LEMMA PrivStepInv == PrivIndInv /\ [Next]_vars => PrivIndInv' /\ [AuthNext]_authVars
<1> SUFFICES ASSUME PrivIndInv, [Next]_vars
             PROVE  PrivIndInv' /\ [AuthNext]_authVars
  OBVIOUS
<1> USE CallAssumption
<1>0. /\ authorisedGranted \in BOOLEAN
      /\ key \in {KeyZero, KeyUser} /\ savedKey \in {KeyZero, KeyUser}
      /\ call \in {NoCall, Thrown} \union Calls
      /\ native \in BOOLEAN /\ authGen \in Nat \ {0}
      /\ \A h \in Holders : held[h] \in Nat /\ held[h] <= authGen
  BY DEF PrivIndInv, PrivTypeOK, AuthInv, AuthTypeOK
<1>a. ASSUME [AuthNext]_authVars PROVE AuthInv' /\ AuthTypeOK'
  BY <1>a, StepInv DEF PrivIndInv, AuthInv
<1>1. ASSUME NEW rac \in BOOLEAN, NEW svc \in BOOLEAN, PrivilegeOn(rac, svc)
      PROVE  PrivIndInv' /\ [AuthNext]_authVars
  <2>1. call = NoCall /\ call' = NoCall /\ privilegeOn(rac, svc)
    BY <1>1 DEF PrivilegeOn
  <2>2. [AuthNext]_authVars
    BY <2>1, OnTakes
  <2>3. PrivTypeOK'
    <3>1. PrivilegeGranted(rac, svc) \in BOOLEAN
      BY Zenon DEF PrivilegeGranted
    <3>2. authorisedGranted' \in BOOLEAN
      BY <2>1, <3>1, OnTakes
    <3>3. key' \in {KeyZero, KeyUser} /\ savedKey' \in {KeyZero, KeyUser}
      BY <1>0, <2>1, OnTakes
    <3> QED
      BY <1>0, <1>a, <2>1, <2>2, <3>2, <3>3 DEF PrivTypeOK
  <2>4. FlagFollowsPrivilege'
    BY <2>1, OnTakes DEF PrivIndInv, FlagFollowsPrivilege, authVars
  <2>5. KeyInv' /\ CallInv'
    BY <2>1, OnTakes DEF PrivIndInv, KeyInv, CallInv, InCall
  <2> QED
    BY <1>a, <2>2, <2>3, <2>4, <2>5 DEF PrivIndInv
<1>2. CASE PrivilegeOff
  <2>1. call = NoCall /\ call' = NoCall /\ privilegeOff
    BY <1>2 DEF PrivilegeOff
  <2>2. [AuthNext]_authVars
    BY <2>1, OffDrops
  <2>3. PrivTypeOK'
    BY <1>a, <2>1, <2>2, OffDrops DEF PrivTypeOK
  <2>4. FlagFollowsPrivilege' /\ KeyInv' /\ CallInv'
    BY <2>1, OffDrops DEF FlagFollowsPrivilege, KeyInv, CallInv, InCall
  <2> QED
    BY <1>a, <2>2, <2>3, <2>4 DEF PrivIndInv
<1>3. ASSUME NEW service \in Services, NEW rac \in BOOLEAN, NEW svc \in BOOLEAN,
             privTake(service, rac, svc)
      PROVE  PrivIndInv' /\ [AuthNext]_authVars
  <2>1. CASE /\ authorisedGranted \/ authNative
             /\ call' = Call(service, TRUE, FALSE)
             /\ UNCHANGED <<authVars, authorisedGranted, key, savedKey>>
    <3>1. call' \in Calls /\ call'.taken = FALSE /\ call'.phase = "run" /\ call'.ok
          /\ call'.before.granted = authorisedGranted
      BY <1>0, <2>1 DEF Call, Calls, Phases
    <3>2. native \/ authorisedGranted
      <4>1. CASE authNative
        BY <4>1, HoldersCountable
        DEF authNative, PrivIndInv, AuthInv, CountIsHolders, SwitchedWhileHeld, AuthTypeOK
      <4> QED
        BY <2>1, <4>1
    <3>3. call = NoCall /\ [AuthNext]_authVars
      BY <1>3, <2>1 DEF privTake, authVars
    <3>4. PrivTypeOK'
      BY <1>a, <2>1, <3>1, <3>3 DEF PrivTypeOK, PrivIndInv
    <3>5. FlagFollowsPrivilege'
      BY <2>1, <3>1, <3>3 DEF FlagFollowsPrivilege, PrivIndInv, authVars
    <3>6. KeyInv'
      BY <1>0, <2>1, <3>1, <3>3 DEF KeyInv, InCall, PrivIndInv
    <3>7. CallInv'
      <4>1. call'.before.granted = authorisedGranted' /\ authorisedGranted' \in BOOLEAN
        BY <1>0, <2>1, <3>1
      <4>2. native' = native /\ authorisedGranted' = authorisedGranted
        BY <2>1 DEF authVars
      <4> QED
        BY <3>1, <3>2, <4>1, <4>2, Zenon DEF CallInv
    <3> QED
      BY <1>a, <3>3, <3>4, <3>5, <3>6, <3>7 DEF PrivIndInv
  <2>2. CASE /\ ~authorisedGranted /\ ~authNative
             /\ privilegeOn(rac, svc)
             /\ call' = Call(service, PrivilegeGranted(rac, svc), authorisedGranted')
    <3>0. authorisedGranted' \in BOOLEAN /\ PrivilegeGranted(rac, svc) \in BOOLEAN
      <4>1. PrivilegeGranted(rac, svc) \in BOOLEAN
        BY Zenon DEF PrivilegeGranted
      <4> QED
        BY <2>2, <4>1, OnTakes
    <3>1. /\ call' \in Calls /\ call'.taken = authorisedGranted'
          /\ call'.phase = "run" /\ call'.ok = PrivilegeGranted(rac, svc)
          /\ call'.before.granted = FALSE
      BY <1>0, <2>2, <3>0 DEF Call, Calls, Phases
    <3>2. call = NoCall /\ [AuthNext]_authVars
      BY <1>3, <2>2, OnTakes DEF privTake
    <3>3. PrivTypeOK'
      BY <1>0, <1>a, <2>2, <3>0, <3>1, <3>2, OnTakes DEF PrivTypeOK
    <3>4. FlagFollowsPrivilege'
      BY <2>2, <3>1, OnTakes DEF PrivIndInv, FlagFollowsPrivilege, authVars
    <3>5. KeyInv'
      BY <2>2, <3>1, <3>2, OnTakes DEF PrivIndInv, KeyInv, InCall
    <3>6. CallInv'
      BY <2>2, <3>0, <3>1, OnTakes DEF CallInv, InCall
    <3> QED
      BY <1>a, <3>2, <3>3, <3>4, <3>5, <3>6 DEF PrivIndInv
  <2> QED
    BY <1>3, <2>1, <2>2 DEF privTake
<1>4. CASE RunService
  <2>1. InCall /\ call \in Calls /\ call.phase = "run"
    BY <1>0, <1>4 DEF RunService, InCall
  <2>2. UNCHANGED <<authVars, authorisedGranted, savedKey>> /\ [AuthNext]_authVars
    BY <1>4 DEF RunService, authVars
  <2>3. /\ call' \in Calls
        /\ call'.ok = call.ok /\ call'.taken = call.taken /\ call'.before = call.before
        /\ \/ key' = KeyUser /\ call'.phase = "keyBack"
           \/ key' = key /\ call'.phase = "end"
    BY <1>4, <2>1 DEF RunService, Calls, Phases
  <2>4. PrivTypeOK'
    BY <1>0, <1>a, <2>2, <2>3 DEF PrivTypeOK
  <2>5. FlagFollowsPrivilege'
    BY <2>1, <2>2, <2>3 DEF FlagFollowsPrivilege, PrivIndInv, authVars
  <2>6. KeyInv' /\ CallInv'
    BY <2>1, <2>2, <2>3 DEF KeyInv, CallInv, InCall, PrivIndInv, authVars
  <2> QED
    BY <1>a, <2>2, <2>4, <2>5, <2>6 DEF PrivIndInv
<1>5. CASE privKeyBack
  <2>1. InCall /\ call \in Calls /\ call.phase = "keyBack"
    BY <1>0, <1>5 DEF privKeyBack, InCall
  <2>2. UNCHANGED <<authVars, authorisedGranted>> /\ [AuthNext]_authVars
    BY <1>5 DEF privKeyBack, authVars
  <2>3. /\ call' \in Calls /\ call'.phase = "end"
        /\ call'.ok = call.ok /\ call'.taken = call.taken /\ call'.before = call.before
    BY <1>5, <2>1 DEF privKeyBack, Calls, Phases
  <2>4. \/ ~call.taken /\ authorisedGranted /\ key' = KeyZero /\ savedKey' = key
        \/ (call.taken \/ ~authorisedGranted) /\ UNCHANGED <<key, savedKey>>
    BY <1>5 DEF privKeyBack, keyZero
  <2>5. savedKey' = KeyUser
    BY <2>1, <2>4 DEF PrivIndInv, KeyInv
  <2>6. PrivTypeOK'
    BY <1>0, <1>a, <2>2, <2>3, <2>4 DEF PrivTypeOK
  <2>7. FlagFollowsPrivilege'
    BY <2>1, <2>2, <2>3 DEF FlagFollowsPrivilege, PrivIndInv, authVars
  <2>8. KeyInv' /\ CallInv'
    BY <1>0, <2>1, <2>2, <2>3, <2>4, <2>5 DEF KeyInv, CallInv, InCall, PrivIndInv, authVars
  <2> QED
    BY <1>a, <2>2, <2>6, <2>7, <2>8 DEF PrivIndInv
<1>6. CASE privDrop
  <2>1. InCall /\ call \in Calls /\ call.phase = "end" /\ call' = NoCall
    BY <1>0, <1>6 DEF privDrop, InCall
  <2>2. CASE privilegeOff
    BY <1>a, <2>1, <2>2, OffDrops
    DEF PrivIndInv, PrivTypeOK, FlagFollowsPrivilege, KeyInv, CallInv, InCall
  <2>3. CASE ~call.taken /\ UNCHANGED <<authVars, authorisedGranted, key, savedKey>>
    <3>1. [AuthNext]_authVars
      BY <2>3 DEF authVars
    <3>2. PrivTypeOK'
      BY <1>0, <1>a, <2>1, <2>3, <3>1 DEF PrivTypeOK
    <3>3. FlagFollowsPrivilege' /\ KeyInv' /\ CallInv'
      BY <2>1, <2>3 DEF FlagFollowsPrivilege, KeyInv, CallInv, InCall, PrivIndInv, authVars
    <3> QED
      BY <1>a, <3>1, <3>2, <3>3 DEF PrivIndInv
  <2> QED
    BY <1>6, <2>2, <2>3 DEF privDrop
<1>7. CASE RxNoPriv
  <2>1. privilegeOff /\ call' = Thrown
    BY <1>7 DEF RxNoPriv
  <2> QED
    BY <1>a, <2>1, OffDrops
    DEF PrivIndInv, PrivTypeOK, FlagFollowsPrivilege, KeyInv, CallInv, InCall
<1>8. CASE RxNoPrivReset
  <2>1. /\ call = Thrown /\ call' = NoCall /\ AuthReset
        /\ UNCHANGED <<authorisedGranted, key, savedKey>> /\ [AuthNext]_authVars
    BY <1>8 DEF RxNoPrivReset, AuthNext
  <2>2. authGen' = authGen + 1 /\ held' = held /\ native' = native
    BY <2>1, ResetEmpties DEF PrivIndInv
  <2>3. PrivTypeOK'
    BY <1>0, <1>a, <2>1 DEF PrivTypeOK
  <2>4. FlagFollowsPrivilege'
    BY <1>0, <2>1, <2>2, PrivHeldIsHolder DEF FlagFollowsPrivilege, PrivIndInv
  <2>5. KeyInv' /\ CallInv'
    BY <2>1 DEF FlagFollowsPrivilege, KeyInv, CallInv, InCall, PrivIndInv
  <2> QED
    BY <1>a, <2>1, <2>3, <2>4, <2>5 DEF PrivIndInv
<1>9. ASSUME NEW h \in Holders \ {privHeld}, NEW rac \in BOOLEAN, NEW svc \in BOOLEAN,
             OtherHolder(h, rac, svc)
      PROVE  PrivIndInv' /\ [AuthNext]_authVars
  <2>1. /\ [AuthNext]_authVars
        /\ native' = native /\ authGen' = authGen /\ held'[privHeld] = held[privHeld]
        /\ UNCHANGED <<authorisedGranted, key, savedKey, call>>
    BY <1>9, OthersLeaveFlag DEF privVars
  <2>2. PrivTypeOK'
    BY <1>0, <1>a, <2>1 DEF PrivTypeOK
  <2>3. FlagFollowsPrivilege' /\ KeyInv' /\ CallInv'
    BY <2>1 DEF FlagFollowsPrivilege, KeyInv, CallInv, InCall, PrivIndInv
  <2> QED
    BY <1>a, <2>1, <2>2, <2>3 DEF PrivIndInv
<1>10. CASE UNCHANGED vars
  <2>1. UNCHANGED <<authVars, native, authGen, held, authorisedGranted, key, savedKey, call>>
    BY <1>10 DEF vars, authVars, privVars
  <2>2. PrivTypeOK'
    BY <1>0, <1>a, <2>1 DEF PrivTypeOK
  <2>3. FlagFollowsPrivilege' /\ KeyInv' /\ CallInv'
    BY <2>1 DEF FlagFollowsPrivilege, KeyInv, CallInv, InCall, PrivIndInv
  <2> QED
    BY <1>a, <2>1, <2>2, <2>3 DEF PrivIndInv
<1> QED
  BY <1>1, <1>2, <1>3, <1>4, <1>5, <1>6, <1>7, <1>8, <1>9, <1>10 DEF Next

-----------------------------------------------------------------------------
(* The strengthened invariant gives the one TLC checks. *)
LEMMA IndInvImpliesPrivInv == PrivIndInv => PrivInv
<1> SUFFICES ASSUME PrivIndInv PROVE PrivInv
  OBVIOUS
<1> USE CallAssumption
<1>1. KeyFollowsPrivilege
  BY DEF PrivIndInv, KeyInv, InCall, KeyFollowsPrivilege
<1>2. ServiceIsAuthorised
  <2> SUFFICES ASSUME InCall, call.ok PROVE jscbAuth
    BY DEF ServiceIsAuthorised, InCall
  <2>1. native \/ authorisedGranted
    BY DEF PrivIndInv, CallInv
  <2>2. ASSUME ~native PROVE CurrentHolders # {}
    BY <2>1, <2>2, PrivHeldIsHolder DEF PrivIndInv, FlagFollowsPrivilege, CurrentHolders
  <2> QED
    BY <2>2 DEF PrivIndInv, AuthInv, SwitchedWhileHeld
<1>3. CallLeavesPrivilege
  BY DEF PrivIndInv, CallInv, InCall, CallLeavesPrivilege
<1> QED
  BY <1>1, <1>2, <1>3 DEF PrivIndInv, PrivInv

(* PRIVILEGE and the service calls keep the contract of the counter: the    *)
(* static flag of privilege() is never taken twice, whatever an abend or an *)
(* exhausted storage threw away, and whatever the others hold meanwhile.    *)
THEOREM ContractKept == Spec => KeepsAuthContract
<1>1. Init => AuthInit
  BY DEF Init
<1> QED
  BY <1>1, PrivInitInv, PrivStepInv, PTL DEF Spec, KeepsAuthContract, AuthSpec

(* The key, the authorisation of the services and the exec's own PRIVILEGE, *)
(* in every interleaving with the other holders.                            *)
THEOREM PrivilegeCorrect == Spec => []PrivInv
<1> QED
  BY PrivInitInv, PrivStepInv, IndInvImpliesPrivInv, PTL DEF Spec

(* So the counter of PRIVILEGE, __NJESEND and the subtask is right, the     *)
(* leases are kept and authReset() gives back what BREXX took, in the       *)
(* program that uses them.                                                  *)
THEOREM AuthorisationHolds == Spec => []CountIsHolders /\ ImplementsLeases /\ ResetGivesBack
<1>1. AuthInv => CountIsHolders
  BY DEF AuthInv
<1>2. Spec => AuthSpec
  BY ContractKept DEF KeepsAuthContract
<1> QED
  BY <1>1, <1>2, Invariance, LeasesImplemented, ResetCorrect, PTL

(* RxNoPriv() leaves the user's key, PRIVILEGE off, and the step as BREXX   *)
(* found it, wherever the service call or the exec was thrown away.         *)
THEOREM CleanupCorrect == Spec => NoPrivLeavesNothing
<1>1. PrivIndInv /\ [Next]_vars =>
        [RxNoPrivReset => key' = KeyUser /\ ~authorisedGranted' /\ jscbAuth' = native]_vars
  <2> SUFFICES ASSUME PrivIndInv, RxNoPrivReset
               PROVE  key' = KeyUser /\ ~authorisedGranted' /\ jscbAuth' = native
    OBVIOUS
  <2>1. AuthReset /\ UNCHANGED <<authorisedGranted, key, savedKey>> /\ call = Thrown
    BY DEF RxNoPrivReset
  <2>2. ~authorisedGranted /\ key = KeyUser
    BY <2>1 DEF PrivIndInv, FlagFollowsPrivilege, KeyInv
  <2> QED
    BY <2>1, <2>2, ResetEmpties DEF PrivIndInv
<1> QED
  BY <1>1, PrivInitInv, PrivStepInv, PTL DEF Spec, NoPrivLeavesNothing
=============================================================================
