---------------------------- MODULE Authorisation ----------------------------
(***************************************************************************)
(* src/privilege.c, the authorisation of the job step: authTake(),         *)
(* authDrop(), authReset() and authNative().                               *)
(*                                                                         *)
(* Each of the four runs under authMtx, so each is one action.  A holder   *)
(* is a flag in its caller's storage: the SUBTASK_INFO of the NJE subtask, *)
(* the stack frame of __NJESEND, the static flag of PRIVILEGE.  The flag   *)
(* holds the generation of its take, 0 when it holds nothing.  The frame   *)
(* of a holder may vanish in an abend: its flag then stays as it is, and a *)
(* later holder may be laid over it, so a drop of a flag of an earlier     *)
(* generation is a step the component must survive.                        *)
(***************************************************************************)
EXTENDS Naturals, FiniteSets

CONSTANTS
  Holders,       \* the flags
  MaxGen         \* bound on authGen, an int of the code that never wraps here

ASSUME HoldersFinite == IsFiniteSet(Holders)
ASSUME MaxGenNat == MaxGen \in Nat \ {0}

VARIABLES
  native,        \* JSCBAUTH as it was when BREXX started; never changes
  jscbAuth,      \* JSCBAUTH: what __isauth() (TESTAUTH) answers
  authCount,     \* number of holders
  authSwitched,  \* SVC 244 switched the step, so SVC 244 switches it back
  authGen,       \* current generation
  held           \* the holders' flags

authVars == <<native, jscbAuth, authCount, authSwitched, authGen, held>>

AuthInit ==
  /\ native \in BOOLEAN
  /\ jscbAuth = native
  /\ authCount = 0
  /\ authSwitched = FALSE
  /\ authGen = 1
  /\ held = [h \in Holders |-> 0]

(* The flags that count: a flag of an earlier generation counts for nothing. *)
CurrentHolders == {h \in Holders : held[h] = authGen}

(* Mutant: without its test of the count. *)
authNativeAnyHolder == jscbAuth

authNative == authCount = 0 /\ jscbAuth

-----------------------------------------------------------------------------
(* authTake() issues SVC 244 only for the first holder of a step that is    *)
(* not authorised.  rac is the answer of rac_check(FACILITY, SVC244, READ), *)
(* svc whether TESTAUTH finds the SVC to have taken effect.                 *)
NeedsSvc == authCount = 0 /\ ~jscbAuth
TakeGranted(rac, svc) == NeedsSvc => rac /\ svc

AuthTake(h, rac, svc) ==
  LET switches == NeedsSvc /\ rac /\ svc
      counts   == TakeGranted(rac, svc) /\ (authCount > 0 \/ authSwitched \/ switches)
  IN  /\ jscbAuth' = (jscbAuth \/ switches)
      /\ authSwitched' = (authSwitched \/ switches)
      /\ authCount' = IF counts THEN authCount + 1 ELSE authCount
      /\ held' = [held EXCEPT ![h] = IF counts THEN authGen ELSE 0]
      /\ UNCHANGED <<native, authGen>>

(* Mutant of authDrop(): without the test of the generation.                *)
AuthDropAnyGen(h) ==
  LET counts == held[h] # 0 /\ authCount > 0
      last   == counts /\ authCount = 1 /\ authSwitched
  IN  /\ authCount' = IF counts THEN authCount - 1 ELSE authCount
      /\ jscbAuth' = (jscbAuth /\ ~last)
      /\ authSwitched' = (authSwitched /\ ~last)
      /\ held' = [held EXCEPT ![h] = 0]
      /\ UNCHANGED <<native, authGen>>

AuthDrop(h) ==
  LET counts == held[h] = authGen /\ authCount > 0
      last   == counts /\ authCount = 1 /\ authSwitched
  IN  /\ authCount' = IF counts THEN authCount - 1 ELSE authCount
      /\ jscbAuth' = (jscbAuth /\ ~last)
      /\ authSwitched' = (authSwitched /\ ~last)
      /\ held' = [held EXCEPT ![h] = 0]
      /\ UNCHANGED <<native, authGen>>

(* Mutants of authReset(): the generation does not end; the SVC is left out. *)
AuthResetSameGen ==
  /\ jscbAuth' = (jscbAuth /\ ~authSwitched)
  /\ authSwitched' = FALSE
  /\ authCount' = 0
  /\ UNCHANGED <<native, held, authGen>>

AuthResetNoSvc ==
  /\ authSwitched' = FALSE
  /\ authCount' = 0
  /\ authGen' = authGen + 1
  /\ UNCHANGED <<native, jscbAuth, held>>

AuthReset ==
  /\ jscbAuth' = (jscbAuth /\ ~authSwitched)
  /\ authSwitched' = FALSE
  /\ authCount' = 0
  /\ authGen' = authGen + 1
  /\ UNCHANGED <<native, held>>

-----------------------------------------------------------------------------
(* The callers' side of the contract: a holder does not take what it holds. *)
(* Any flag may be dropped at any time, held or not, stale or not.          *)
MayTake(h) == held[h] # authGen

AuthNext ==
  \/ \E h \in Holders, rac, svc \in BOOLEAN : MayTake(h) /\ AuthTake(h, rac, svc)
  \/ \E h \in Holders : AuthDrop(h)
  \/ authGen < MaxGen /\ AuthReset

AuthSpec == AuthInit /\ [][AuthNext]_authVars

-----------------------------------------------------------------------------
(* Types; no flag carries a generation that has not begun, so a later       *)
(* authReset() cannot turn a stale flag into a current one.                 *)
AuthTypeOK ==
  /\ native \in BOOLEAN
  /\ jscbAuth \in BOOLEAN
  /\ authCount \in Nat
  /\ authSwitched \in BOOLEAN
  /\ authGen \in Nat \ {0}
  /\ held \in [Holders -> Nat]
  /\ \A h \in Holders : held[h] <= authGen

(* The count is the number of flags of the current generation: no holder is *)
(* counted twice, none that a cleanup dropped is dropped again, and no lost *)
(* frame of an earlier generation is counted.                               *)
CountIsHolders == authCount = Cardinality(CurrentHolders)

(* SVC 244 has the step authorised exactly while somebody holds it, and a   *)
(* step that was authorised anyway has no holders who could switch it off.  *)
SwitchedWhileHeld ==
  /\ authSwitched <=> CurrentHolders # {}
  /\ jscbAuth <=> native \/ authSwitched
  /\ native => ~authSwitched

(* The inductive invariant of the component. *)
AuthInv == AuthTypeOK /\ CountIsHolders /\ SwitchedWhileHeld

(* authReset() leaves the step as BREXX found it, whoever still held it:    *)
(* the end of an exec, also after an abend, gives the authorisation back.   *)
ResetGivesBack == [][authGen' # authGen => jscbAuth' = native]_authVars

(* The counter with its generations implements the leases: in particular a  *)
(* drop of a stale flag is no release, and whoever is cleaned up for (a     *)
(* subtask that died) cannot give back what another still holds.            *)
Lease == INSTANCE AuthLease WITH leases <- CurrentHolders, authorised <- jscbAuth
ImplementsLeases == Lease!LeaseSpec
==============================================================================
