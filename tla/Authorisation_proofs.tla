------------------------ MODULE Authorisation_proofs ------------------------
(***************************************************************************)
(* Proofs about Authorisation, for any finite set of holders and any bound *)
(* on the generations: the inductive invariant AuthInv, what authReset()   *)
(* leaves, and that the counter implements the leases of AuthLease.        *)
(*                                                                         *)
(* The counter is tied to the SET of current holders.  Each step changes   *)
(* that set by one member or empties it, which the first lemmas say; the   *)
(* arithmetic of the counter is then that of Cardinality.                  *)
(***************************************************************************)
EXTENDS Authorisation, FiniteSetTheorems, TLAPS

(* The current holders can be counted. *)
LEMMA HoldersCountable ==
  /\ IsFiniteSet(CurrentHolders)
  /\ Cardinality(CurrentHolders) \in Nat
  /\ Cardinality(CurrentHolders) = 0 <=> CurrentHolders = {}
<1>1. CurrentHolders \in SUBSET Holders
  BY DEF CurrentHolders
<1>2. IsFiniteSet(CurrentHolders)
  BY <1>1, HoldersFinite, FS_Subset
<1> QED
  BY <1>2, FS_CardinalityType, FS_EmptySet

(* authTake() adds its flag to the current holders, or leaves them as they  *)
(* are: when it is refused, and in a step that was authorised anyway.       *)
LEMMA TakeAdds ==
  ASSUME AuthInv, NEW h \in Holders, NEW rac \in BOOLEAN, NEW svc \in BOOLEAN,
         MayTake(h), AuthTake(h, rac, svc)
  PROVE  /\ h \notin CurrentHolders
         /\ authGen' = authGen /\ native' = native
         /\ held' \in [Holders -> Nat] /\ \A g \in Holders : held'[g] <= authGen
         /\ \/ /\ ~native
               /\ CurrentHolders' = CurrentHolders \cup {h}
               /\ authCount' = authCount + 1
               /\ authSwitched' = TRUE /\ jscbAuth' = TRUE
            \/ /\ CurrentHolders' = CurrentHolders
               /\ UNCHANGED <<authCount, authSwitched, jscbAuth>>
<1> USE DEF AuthInv, AuthTypeOK
<1>1. h \notin CurrentHolders
  BY DEF MayTake, CurrentHolders
<1>2. authCount = 0 <=> CurrentHolders = {}
  BY HoldersCountable DEF CountIsHolders
<1>3. CASE TakeGranted(rac, svc) /\ (authCount > 0 \/ authSwitched \/ (NeedsSvc /\ rac /\ svc))
  <2>1. held' = [held EXCEPT ![h] = authGen]
    BY <1>3 DEF AuthTake
  <2>2. authCount' = authCount + 1
    BY <1>3 DEF AuthTake
  <2>3. authSwitched' = TRUE /\ jscbAuth' = TRUE /\ ~native
    <3>1. CASE NeedsSvc
      BY <1>3, <3>1 DEF AuthTake, TakeGranted, NeedsSvc, SwitchedWhileHeld
    <3>2. CASE ~NeedsSvc
      BY <1>2, <1>3, <3>2 DEF AuthTake, TakeGranted, NeedsSvc, SwitchedWhileHeld
    <3> QED
      BY <3>1, <3>2
  <2>4. CurrentHolders' = CurrentHolders \cup {h}
    BY <2>1 DEF CurrentHolders, AuthTake
  <2> QED
    BY <1>1, <2>1, <2>2, <2>3, <2>4 DEF AuthTake
<1>4. CASE ~(TakeGranted(rac, svc) /\ (authCount > 0 \/ authSwitched \/ (NeedsSvc /\ rac /\ svc)))
  <2>1. held' = [held EXCEPT ![h] = 0]
    BY <1>4 DEF AuthTake
  <2>2. authCount' = authCount
    BY <1>4 DEF AuthTake
  <2>3. ~(NeedsSvc /\ rac /\ svc)
    BY <1>4 DEF TakeGranted
  <2>4. authSwitched' = authSwitched /\ jscbAuth' = jscbAuth
    BY <2>3 DEF AuthTake
  <2>5. CurrentHolders' = CurrentHolders
    BY <1>1, <2>1 DEF CurrentHolders, AuthTake
  <2> QED
    BY <1>1, <2>1, <2>2, <2>4, <2>5 DEF AuthTake
<1> QED
  BY <1>3, <1>4

(* authDrop() removes its flag from the current holders if it is one of     *)
(* them; the last one switches the step off.                                *)
LEMMA DropRemoves ==
  ASSUME AuthInv, NEW h \in Holders, AuthDrop(h)
  PROVE  /\ authGen' = authGen /\ native' = native
         /\ held' \in [Holders -> Nat] /\ \A g \in Holders : held'[g] <= authGen
         /\ CurrentHolders' = CurrentHolders \ {h}
         /\ authCount' = Cardinality(CurrentHolders \ {h})
         /\ authSwitched' = (CurrentHolders \ {h} # {})
         /\ jscbAuth' = (native \/ CurrentHolders \ {h} # {})
<1> USE DEF AuthInv, AuthTypeOK
<1>1. held' = [held EXCEPT ![h] = 0] /\ authGen' = authGen /\ native' = native
  BY DEF AuthDrop
<1>2. CurrentHolders' = CurrentHolders \ {h}
  BY <1>1 DEF CurrentHolders
<1>3. /\ IsFiniteSet(CurrentHolders \ {h})
      /\ Cardinality(CurrentHolders \ {h}) =
           IF h \in CurrentHolders THEN authCount - 1 ELSE authCount
  BY HoldersCountable, FS_RemoveElement DEF CountIsHolders
<1>4. Cardinality(CurrentHolders \ {h}) = 0 <=> CurrentHolders \ {h} = {}
  BY <1>3, FS_EmptySet
<1>5. CASE h \in CurrentHolders
  <2>1. held[h] = authGen /\ authCount > 0
    BY <1>5, HoldersCountable DEF CurrentHolders, CountIsHolders
  <2>2. authSwitched /\ ~native /\ jscbAuth
    BY <1>5 DEF SwitchedWhileHeld
  <2>3. authCount' = authCount - 1
    BY <2>1 DEF AuthDrop
  <2>4. authSwitched' = (authCount # 1) /\ jscbAuth' = (authCount # 1)
    BY <2>1, <2>2 DEF AuthDrop
  <2>5. authCount # 1 <=> CurrentHolders \ {h} # {}
    BY <1>3, <1>4, <1>5, <2>1
  <2> QED
    BY <1>1, <1>2, <1>3, <1>5, <2>2, <2>3, <2>4, <2>5
<1>6. CASE h \notin CurrentHolders
  <2>1. held[h] # authGen
    BY <1>6 DEF CurrentHolders
  <2>2. authCount' = authCount /\ authSwitched' = authSwitched /\ jscbAuth' = jscbAuth
    BY <2>1 DEF AuthDrop
  <2>3. CurrentHolders \ {h} = CurrentHolders
    BY <1>6
  <2> QED
    BY <1>1, <1>2, <1>3, <1>6, <2>2, <2>3 DEF SwitchedWhileHeld
<1> QED
  BY <1>5, <1>6

(* authReset() begins a generation of which no flag is left. *)
LEMMA ResetEmpties ==
  ASSUME AuthInv, AuthReset
  PROVE  /\ CurrentHolders' = {}
         /\ authCount' = 0 /\ authSwitched' = FALSE /\ jscbAuth' = native
         /\ authGen' = authGen + 1 /\ UNCHANGED <<native, held>>
<1> USE DEF AuthInv, AuthTypeOK
<1>1. authGen' = authGen + 1 /\ UNCHANGED <<native, held>>
  BY DEF AuthReset
<1>2. CurrentHolders' = {}
  BY <1>1 DEF CurrentHolders
<1>3. jscbAuth' = native
  BY DEF AuthReset, SwitchedWhileHeld
<1> QED
  BY <1>1, <1>2, <1>3 DEF AuthReset

-----------------------------------------------------------------------------
LEMMA InitInv == AuthInit => AuthInv
<1> SUFFICES ASSUME AuthInit PROVE AuthInv
  OBVIOUS
<1> USE DEF AuthInit
<1>1. AuthTypeOK
  <2>1. native \in BOOLEAN /\ jscbAuth \in BOOLEAN /\ authSwitched \in BOOLEAN
    BY Zenon
  <2>2. authCount \in Nat /\ authGen \in Nat \ {0}
    OBVIOUS
  <2>3. held \in [Holders -> Nat] /\ \A h \in Holders : held[h] <= authGen
    OBVIOUS
  <2> QED
    BY <2>1, <2>2, <2>3 DEF AuthTypeOK
<1>2. CurrentHolders = {}
  BY DEF CurrentHolders
<1>3. CountIsHolders
  BY <1>2, HoldersCountable DEF CountIsHolders
<1>4. SwitchedWhileHeld
  BY <1>2 DEF SwitchedWhileHeld
<1> QED
  BY <1>1, <1>3, <1>4 DEF AuthInv

LEMMA StepInv == AuthInv /\ [AuthNext]_authVars => AuthInv'
<1> SUFFICES ASSUME AuthInv, [AuthNext]_authVars PROVE AuthInv'
  OBVIOUS
<1>0. /\ authCount \in Nat /\ authGen \in Nat \ {0}
      /\ held \in [Holders -> Nat] /\ \A h \in Holders : held[h] <= authGen
  BY DEF AuthInv, AuthTypeOK
<1>1. ASSUME NEW h \in Holders, NEW rac \in BOOLEAN, NEW svc \in BOOLEAN,
             MayTake(h), AuthTake(h, rac, svc)
      PROVE  AuthInv'
  <2>1. AuthTypeOK'
    <3>1. /\ native' \in BOOLEAN /\ jscbAuth' \in BOOLEAN /\ authSwitched' \in BOOLEAN
      BY <1>1, TakeAdds, Zenon DEF AuthInv, AuthTypeOK
    <3>2. authCount' \in Nat /\ authGen' \in Nat \ {0}
      <4>1. authGen' = authGen /\ (authCount' = authCount + 1 \/ authCount' = authCount)
        BY <1>1, TakeAdds
      <4> QED
        BY <1>0, <4>1
    <3>3. held' \in [Holders -> Nat] /\ \A g \in Holders : held'[g] <= authGen'
      BY <1>1, TakeAdds
    <3> QED
      BY <3>1, <3>2, <3>3 DEF AuthTypeOK
  <2>2. CountIsHolders'
    <3>1. CASE CurrentHolders' = CurrentHolders \cup {h} /\ authCount' = authCount + 1
      <4>1. h \notin CurrentHolders
        BY <1>1, TakeAdds
      <4>2. Cardinality(CurrentHolders \cup {h}) = Cardinality(CurrentHolders) + 1
        BY <4>1, HoldersCountable, FS_AddElement
      <4> QED
        BY <3>1, <4>2 DEF AuthInv, CountIsHolders
    <3>2. CASE CurrentHolders' = CurrentHolders /\ authCount' = authCount
      BY <3>2 DEF AuthInv, CountIsHolders
    <3> QED
      BY <1>1, <3>1, <3>2, TakeAdds
  <2>3. SwitchedWhileHeld'
    <3>1. CASE CurrentHolders' = CurrentHolders \cup {h}
      BY <1>1, <3>1, TakeAdds DEF AuthInv, SwitchedWhileHeld
    <3>2. CASE CurrentHolders' = CurrentHolders
      BY <1>1, <3>2, TakeAdds DEF AuthInv, SwitchedWhileHeld
    <3> QED
      BY <1>1, <3>1, <3>2, TakeAdds
  <2> QED
    BY <2>1, <2>2, <2>3 DEF AuthInv
<1>2. ASSUME NEW h \in Holders, AuthDrop(h)
      PROVE  AuthInv'
  <2>1. Cardinality(CurrentHolders \ {h}) \in Nat
    BY HoldersCountable, FS_RemoveElement, FS_CardinalityType
  <2>2. AuthTypeOK'
    <3>1. native' \in BOOLEAN /\ jscbAuth' \in BOOLEAN /\ authSwitched' \in BOOLEAN
      BY <1>2, DropRemoves, Zenon DEF AuthInv, AuthTypeOK
    <3>2. authCount' \in Nat /\ authGen' \in Nat \ {0}
      BY <1>2, <2>1, DropRemoves, Zenon DEF AuthInv, AuthTypeOK
    <3>3. held' \in [Holders -> Nat] /\ \A g \in Holders : held'[g] <= authGen'
      BY <1>2, DropRemoves
    <3> QED
      BY <3>1, <3>2, <3>3 DEF AuthTypeOK
  <2>3. CountIsHolders'
    BY <1>2, DropRemoves DEF CountIsHolders
  <2>4. SwitchedWhileHeld'
    <3>1. native => CurrentHolders = {}
      BY DEF AuthInv, SwitchedWhileHeld
    <3> QED
      BY <1>2, <3>1, DropRemoves DEF AuthInv, AuthTypeOK, SwitchedWhileHeld
  <2> QED
    BY <2>2, <2>3, <2>4 DEF AuthInv
<1>3. CASE AuthReset
  <2>1. AuthTypeOK'
    <3>0. authCount' = 0 /\ authGen' = authGen + 1 /\ held' = held
      BY <1>3, ResetEmpties
    <3>1. native' \in BOOLEAN /\ jscbAuth' \in BOOLEAN /\ authSwitched' \in BOOLEAN
      BY <1>3, ResetEmpties, Zenon DEF AuthInv, AuthTypeOK
    <3>2. authCount' \in Nat /\ authGen' \in Nat \ {0}
      BY <1>0, <3>0
    <3>3. held' \in [Holders -> Nat] /\ \A g \in Holders : held'[g] <= authGen'
      BY <1>0, <3>0
    <3> QED
      BY <3>1, <3>2, <3>3 DEF AuthTypeOK
  <2>2. CountIsHolders'
    BY <1>3, ResetEmpties, FS_EmptySet DEF CountIsHolders
  <2>3. SwitchedWhileHeld'
    <3>1. CurrentHolders' = {} /\ authSwitched' = FALSE
      BY <1>3, ResetEmpties
    <3>2. jscbAuth' = native /\ native' = native /\ native \in BOOLEAN
      BY <1>3, ResetEmpties DEF AuthInv, AuthTypeOK
    <3> QED
      BY <3>1, <3>2, Zenon DEF SwitchedWhileHeld
  <2> QED
    BY <2>1, <2>2, <2>3 DEF AuthInv
<1>4. CASE UNCHANGED authVars
  BY <1>4 DEF authVars, AuthInv, AuthTypeOK, CountIsHolders, SwitchedWhileHeld, CurrentHolders
<1> QED
  BY <1>1, <1>2, <1>3, <1>4 DEF AuthNext

(* The counter counts the flags of the current generation, and SVC 244 has  *)
(* the step authorised exactly while there is one: in every interleaving of *)
(* takes, drops of any flag, stale or not, and resets.                      *)
THEOREM Invariance == AuthSpec => []AuthInv
<1> QED
  BY InitInv, StepInv, PTL DEF AuthSpec

(* AuthInv is the conjunction of the three invariants that TLC checks.      *)
THEOREM CountCorrect == AuthSpec => [](AuthTypeOK /\ CountIsHolders /\ SwitchedWhileHeld)
<1>1. AuthInv => AuthTypeOK /\ CountIsHolders /\ SwitchedWhileHeld
  BY DEF AuthInv
<1> QED
  BY <1>1, Invariance, PTL

(* After authReset() the step is authorised only if BREXX found it so.      *)
THEOREM ResetCorrect == AuthSpec => ResetGivesBack
<1>1. AuthInv /\ [AuthNext]_authVars => [authGen' # authGen => jscbAuth' = native]_authVars
  <2> SUFFICES ASSUME AuthInv, AuthNext, authGen' # authGen
               PROVE  jscbAuth' = native
    BY DEF authVars
  <2>1. AuthReset
    BY DEF AuthNext, AuthTake, AuthDrop
  <2> QED
    BY <2>1, ResetEmpties
<1> QED
  BY <1>1, Invariance, PTL DEF AuthSpec, ResetGivesBack

-----------------------------------------------------------------------------
(* The counter implements the leases: a take is an Acquire or nothing, a    *)
(* drop is a Release or nothing (a stale flag releases nothing), and a      *)
(* reset is Revoke.                                                         *)
THEOREM LeasesImplemented == AuthSpec => ImplementsLeases
<1> USE DEF Lease!LeaseInit, Lease!LeaseNext, Lease!leaseVars
<1>1. AuthInit => Lease!LeaseInit
  BY DEF AuthInit, CurrentHolders
<1>2. AuthInv /\ [AuthNext]_authVars => [Lease!LeaseNext]_(Lease!leaseVars)
  <2> SUFFICES ASSUME AuthInv, [AuthNext]_authVars
               PROVE  Lease!LeaseNext \/ UNCHANGED Lease!leaseVars
    OBVIOUS
  <2>1. ASSUME NEW h \in Holders, NEW rac \in BOOLEAN, NEW svc \in BOOLEAN,
               MayTake(h), AuthTake(h, rac, svc)
        PROVE  Lease!LeaseNext \/ UNCHANGED Lease!leaseVars
    <3>1. CASE CurrentHolders' = CurrentHolders \cup {h} /\ ~native /\ jscbAuth' = TRUE
      BY <2>1, <3>1, TakeAdds DEF Lease!Acquire
    <3>2. CASE CurrentHolders' = CurrentHolders /\ jscbAuth' = jscbAuth
      BY <2>1, <3>2, TakeAdds
    <3> QED
      BY <2>1, <3>1, <3>2, TakeAdds
  <2>2. ASSUME NEW h \in Holders, AuthDrop(h)
        PROVE  Lease!LeaseNext \/ UNCHANGED Lease!leaseVars
    <3>1. CASE h \in CurrentHolders
      <4>1. ~native
        BY <3>1 DEF AuthInv, SwitchedWhileHeld
      <4> QED
        BY <2>2, <3>1, <4>1, DropRemoves DEF AuthInv, AuthTypeOK, Lease!Release
    <3>2. CASE h \notin CurrentHolders
      <4>1. CurrentHolders \ {h} = CurrentHolders
        BY <3>2
      <4> QED
        BY <2>2, <4>1, DropRemoves DEF AuthInv, AuthTypeOK, SwitchedWhileHeld
    <3> QED
      BY <3>1, <3>2
  <2>3. CASE AuthReset
    BY <2>3, ResetEmpties DEF Lease!Revoke
  <2>4. CASE UNCHANGED authVars
    BY <2>4 DEF authVars, CurrentHolders
  <2> QED
    BY <2>1, <2>2, <2>3, <2>4 DEF AuthNext
<1> QED
  BY <1>1, <1>2, Invariance, PTL DEF AuthSpec, ImplementsLeases, Lease!LeaseSpec
==============================================================================
