------------------------------ MODULE AuthLease ------------------------------
(***************************************************************************)
(* What the authorisation counter of src/privilege.c promises, without     *)
(* its counter, its generations and its mutex.                             *)
(*                                                                         *)
(* JSCBAUTH belongs to the job step.  Whoever needs it takes out a lease;  *)
(* the step is authorised exactly while a lease is out, unless it was      *)
(* authorised before BREXX started (APF, or an earlier SVC 244), in which  *)
(* case no lease is ever taken out and nothing is ever switched off.       *)
(***************************************************************************)
CONSTANT Holders      \* the flags that can hold a lease

VARIABLES
  native,             \* the step was authorised when BREXX started
  leases,             \* the leases that are out
  authorised          \* JSCBAUTH

leaseVars == <<native, leases, authorised>>

LeaseInit ==
  /\ native \in BOOLEAN
  /\ leases = {}
  /\ authorised = native

(* A service call may be refused; then nothing changes (a stuttering step). *)
Acquire(h) ==
  /\ ~native
  /\ h \notin leases
  /\ leases' = leases \cup {h}
  /\ authorised' = TRUE
  /\ UNCHANGED native

Release(h) ==
  /\ h \in leases
  /\ leases' = leases \ {h}
  /\ authorised' = (leases' # {})
  /\ UNCHANGED native

(* The end of an exec takes back every lease at once. *)
Revoke ==
  /\ leases' = {}
  /\ authorised' = native
  /\ UNCHANGED native

LeaseNext ==
  \/ \E h \in Holders : Acquire(h) \/ Release(h)
  \/ Revoke

LeaseSpec == LeaseInit /\ [][LeaseNext]_leaseVars
==============================================================================
