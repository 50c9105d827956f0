-------------------------- MODULE Conditions_proofs --------------------------
(***************************************************************************)
(* Proofs about Conditions, for any program, any depth of calls and        *)
(* INTERPRETs and any number of ON and OFF clauses.                        *)
(*                                                                         *)
(* What the interpreter does to its levels is stated of sequences of       *)
(* levels, without a state: raising a condition, taking a trap, calling    *)
(* a routine, returning.  The invariant says who ends each DELAY, and that *)
(* a routine runs on levels in DELAY.                                      *)
(***************************************************************************)
EXTENDS Conditions, NaturalsInduction, WellFoundedInduction, TLAPS

(* The levels: the first is the program's and never an INTERPRET's; a level *)
(* goes on inside code, never at the end of a string; no INTERPRET is the   *)
(* routine of a condition.                                                  *)
Sound(ps) ==
  /\ ps \in Seq(Level) /\ ps # <<>>
  /\ ps[1].calltype = "program"
  /\ \A i \in 1 .. Len(ps) :
       /\ ps[i].ip \in {"newclause", "exitop", "clause", "over"}
       /\ ps[i].code = "string" => ps[i].calltype = "interpret"
       /\ ps[i].calltype = "interpret" => ps[i].trapcall = none

(* Who ends the DELAY of a level: the routine it runs in, the routine it    *)
(* called, or the one it is about to call.                                  *)
Owed(ps, pend, lost) ==
  \A i \in 1 .. Len(ps) : \A c \in ps[i].delayed \ lost :
    \/ \E j \in 1 .. i : ps[j].trapcall = c
    \/ i < Len(ps) /\ ps[i + 1].trapcall = c
    \/ i = Len(ps) /\ pend = c

(* While a routine runs and nothing was set for its condition since, it is  *)
(* the only one for it, it is not pending again, and all levels from it on  *)
(* are in its DELAY.                                                        *)
Alone(ps, pend, set) ==
  \A j \in 1 .. Len(ps) : ps[j].trapcall \in CallConds \ set =>
    /\ pend # ps[j].trapcall
    /\ \A i \in j .. Len(ps) : ps[j].trapcall \in ps[i].delayed
    /\ \A k \in 1 .. Len(ps) : ps[k].trapcall = ps[j].trapcall => k = j

Levels(ps, pend, lost, set) ==
  /\ Sound(ps) /\ pend \in CallConds \cup {none}
  /\ Owed(ps, pend, lost) /\ Alone(ps, pend, set)

CondIndInv ==
  /\ Levels(procs, trapPend, nested, again)
  /\ pc \in Positions \cup Ended
  /\ attn \in BOOLEAN /\ sets \in 0 .. MaxSets
  /\ again \subseteq Conds /\ nested \subseteq CallConds
  /\ pc = "interend" => Running.calltype = "interpret"
  /\ ExitOwesNoCall

-----------------------------------------------------------------------------
(* Sequences of levels.                                                     *)

(* A set of numbers that is bounded and not empty has a greatest one.       *)
LEMMA Greatest ==
  ASSUME NEW T, NEW n \in Nat, T \subseteq 0 .. n, T # {}
  PROVE  Max(T) \in T /\ \A m \in T : m <= Max(T)
<1> DEFINE R == OpToRel(<, Nat)
           U == {n - m : m \in T}
<1>1. IsWellFoundedOn(R, Nat)
  BY NatLessThanWellFounded
<1>2. U \subseteq Nat /\ U # {}
  <2>1. \A m \in T : n - m \in Nat
    OBVIOUS
  <2>2. PICK m \in T : TRUE
    OBVIOUS
  <2>3. n - m \in U
    BY <2>2
  <2> QED
    BY <2>1, <2>3
<1>3. PICK u \in U : \A v \in U : ~(<<v, u>> \in R)
  <2> HIDE DEF R, U
  <2> QED
    BY <1>1, <1>2, WFMin
<1>4. R = {ss \in Nat \X Nat : ss[1] < ss[2]}
  BY Zenon DEF OpToRel
<1>5. \A v \in U : ~(v < u)
  <2> HIDE DEF R, U
  <2> QED
    BY <1>2, <1>3, <1>4
<1>6. PICK g \in T : u = n - g
  OBVIOUS
<1>7. \A m \in T : g >= m
  BY <1>5, <1>6
<1> QED
  BY <1>6, <1>7 DEF Max

(* The level of the routine: the levels above it are INTERPRETs in it.      *)
LEMMA RoutineLevel ==
  ASSUME NEW ps, Sound(ps)
  PROVE  /\ I_RoutineLevel(ps) \in 1 .. Len(ps)
         /\ ps[I_RoutineLevel(ps)].calltype # "interpret"
         /\ \A i \in 1 .. Len(ps) :
              i > I_RoutineLevel(ps) => ps[i].calltype = "interpret"
<1> DEFINE T == {1} \cup {i \in 1 .. Len(ps) : ps[i].calltype # "interpret"}
<1>1. Len(ps) \in Nat /\ Len(ps) >= 1 /\ ps[1].calltype # "interpret"
  BY DEF Sound
<1>2. T \subseteq 0 .. Len(ps) /\ T # {}
  BY <1>1
<1>3. I_RoutineLevel(ps) = Max(T)
  BY DEF I_RoutineLevel
<1>4. Max(T) \in T /\ \A m \in T : m <= Max(T)
  <2> HIDE DEF T
  <2> QED
    BY <1>1, <1>2, Greatest
<1>5. PICK k : k = I_RoutineLevel(ps)
  OBVIOUS
<1>6. k \in T /\ \A m \in T : m <= k
  BY Zenon, <1>3, <1>4, <1>5
<1>7. k \in 1 .. Len(ps) /\ ps[k].calltype # "interpret"
  BY <1>1, <1>6
<1>8. \A i \in 1 .. Len(ps) : i > k => ps[i].calltype = "interpret"
  BY <1>6, <1>7
<1> QED
  BY <1>5, <1>7, <1>8

(* The parts of a level.                                                    *)
LEMMA Fields ==
  ASSUME NEW ps \in Seq(Level), NEW i \in 1 .. Len(ps)
  PROVE  /\ ps[i] \in Level
         /\ ps[i].delayed \subseteq CallConds
         /\ ps[i].condition \subseteq Conds
<1>1. ps[i] \in Level
  OBVIOUS
<1> QED
  BY <1>1 DEF Level

(* The levels up to k, when all above are INTERPRETs: what LeaveInterprets  *)
(* and RxDoneInterStr leave.                                                *)
LEMMA Cut ==
  ASSUME NEW ps, NEW pend, NEW lost, NEW set, Levels(ps, pend, lost, set),
         NEW k \in 1 .. Len(ps),
         \A i \in 1 .. Len(ps) : i > k => ps[i].calltype = "interpret"
  PROVE  /\ Levels(SubSeq(ps, 1, k), pend, lost, set)
         /\ Len(SubSeq(ps, 1, k)) = k
         /\ \A i \in 1 .. k : SubSeq(ps, 1, k)[i] = ps[i]
<1> DEFINE qs == SubSeq(ps, 1, k)
<1>1. ps \in Seq(Level) /\ Len(ps) \in Nat
  BY DEF Levels, Sound
<1>2. qs \in Seq(Level) /\ Len(qs) = k /\ \A i \in 1 .. k : qs[i] = ps[i]
  BY <1>1
<1> HIDE DEF qs
<1>3. Sound(qs)
  BY <1>2 DEF Levels, Sound
<1>4. Owed(qs, pend, lost)
  <2> SUFFICES ASSUME NEW i \in 1 .. k, NEW c \in qs[i].delayed \ lost
               PROVE  \/ \E j \in 1 .. i : qs[j].trapcall = c
                      \/ i < k /\ qs[i + 1].trapcall = c
                      \/ i = k /\ pend = c
    BY <1>2 DEF Owed
  <2>1. i \in 1 .. Len(ps) /\ c \in ps[i].delayed \ lost
    BY <1>2
  <2>2. c # none
    <3>1. ps[i].delayed \subseteq CallConds
      BY <1>1, <2>1, Fields
    <3> QED
      BY <2>1, <3>1 DEF CallConds, Conds, none
  <2>3. CASE \E j \in 1 .. i : ps[j].trapcall = c
    BY <1>2, <2>3
  <2>4. CASE i < Len(ps) /\ ps[i + 1].trapcall = c
    <3>1. i + 1 \in 1 .. Len(ps) /\ ps[i + 1].calltype # "interpret"
      BY <1>1, <2>2, <2>4 DEF Levels, Sound
    <3>2. i + 1 <= k
      BY <3>1
    <3> QED
      BY <1>2, <2>4, <3>2
  <2>5. CASE i = Len(ps) /\ pend = c
    BY <2>5
  <2> QED
    BY <2>1, <2>3, <2>4, <2>5 DEF Levels, Owed
<1>5. Alone(qs, pend, set)
  BY <1>2 DEF Levels, Alone
<1> QED
  BY <1>2, <1>3, <1>4, <1>5 DEF Levels, qs

(* Another level in the place of the last.                                  *)
LEMMA Replaced ==
  ASSUME NEW ps, Sound(ps), NEW l \in Level,
         l.calltype = Last(ps).calltype, l.ip = Last(ps).ip,
         l.trapcall = Last(ps).trapcall, l.code \in {"file", Last(ps).code}
  PROVE  LET qs == [ps EXCEPT ![Len(ps)] = l]
         IN  /\ Sound(qs)
             /\ Len(qs) = Len(ps) /\ Last(qs) = l /\ qs[Len(ps)] = l
             /\ \A i \in 1 .. Len(ps) : i # Len(ps) => qs[i] = ps[i]
             /\ \A i \in 1 .. Len(ps) : qs[i].trapcall = ps[i].trapcall
             /\ I_RoutineLevel(qs) = I_RoutineLevel(ps)
<1> DEFINE qs == [ps EXCEPT ![Len(ps)] = l]
<1>1. ps \in Seq(Level) /\ Len(ps) \in Nat /\ Len(ps) >= 1
  BY DEF Sound
<1>2. /\ qs \in Seq(Level) /\ Len(qs) = Len(ps) /\ qs[Len(ps)] = l
      /\ \A i \in 1 .. Len(ps) : i # Len(ps) => qs[i] = ps[i]
  BY <1>1
<1> HIDE DEF qs
<1>3. \A i \in 1 .. Len(ps) : /\ qs[i].calltype = ps[i].calltype
                              /\ qs[i].ip = ps[i].ip
                              /\ qs[i].trapcall = ps[i].trapcall
                              /\ qs[i].code \in {"file", ps[i].code}
  BY <1>1, <1>2 DEF Last
<1>4. Sound(qs)
  BY <1>1, <1>2, <1>3 DEF Sound
<1>5. I_RoutineLevel(qs) = I_RoutineLevel(ps)
  <2>1. {i \in 1 .. Len(qs) : qs[i].calltype # "interpret"}
          = {i \in 1 .. Len(ps) : ps[i].calltype # "interpret"}
    BY <1>2, <1>3
  <2> QED
    BY <2>1 DEF I_RoutineLevel
<1> QED
  BY <1>2, <1>3, <1>4, <1>5 DEF Last, qs

(* The last level with fewer conditions in DELAY, none of them one whose    *)
(* routine runs, and any traps: what ON, OFF, SIGNAL and a taken trap do.   *)
LEMMA Reset ==
  ASSUME NEW ps, NEW pend, NEW lost, NEW set, NEW new,
         Levels(ps, pend, lost, set), NEW l \in Level,
         l.calltype = Last(ps).calltype, l.ip = Last(ps).ip,
         l.trapcall = Last(ps).trapcall, l.code \in {"file", Last(ps).code},
         l.delayed \subseteq Last(ps).delayed, set \subseteq new,
         \A i \in 1 .. Len(ps) :
           ps[i].trapcall \in Last(ps).delayed \ l.delayed => ps[i].trapcall \in new
  PROVE  Levels([ps EXCEPT ![Len(ps)] = l], pend, lost, new)
<1> DEFINE qs == [ps EXCEPT ![Len(ps)] = l]
<1>1. Sound(ps) /\ ps \in Seq(Level) /\ Len(ps) \in Nat /\ Len(ps) >= 1
  BY DEF Levels, Sound
<1>2. /\ Sound(qs) /\ Len(qs) = Len(ps) /\ qs[Len(ps)] = l
      /\ \A i \in 1 .. Len(ps) : i # Len(ps) => qs[i] = ps[i]
      /\ \A i \in 1 .. Len(ps) : qs[i].trapcall = ps[i].trapcall
  BY <1>1, Replaced
<1> HIDE DEF qs
<1>3. \A i \in 1 .. Len(ps) : qs[i].delayed \subseteq ps[i].delayed
  BY <1>2 DEF Last
<1>4. Owed(qs, pend, lost)
  <2> SUFFICES ASSUME NEW i \in 1 .. Len(ps), NEW c \in qs[i].delayed \ lost
               PROVE  \/ \E j \in 1 .. i : qs[j].trapcall = c
                      \/ i < Len(ps) /\ qs[i + 1].trapcall = c
                      \/ i = Len(ps) /\ pend = c
    BY <1>2 DEF Owed
  <2>1. c \in ps[i].delayed \ lost
    BY <1>3
  <2>2. \/ \E j \in 1 .. i : ps[j].trapcall = c
        \/ i < Len(ps) /\ ps[i + 1].trapcall = c
        \/ i = Len(ps) /\ pend = c
    BY <2>1 DEF Levels, Owed
  <2> QED
    BY <1>1, <1>2, <2>2
<1>5. Alone(qs, pend, new)
  <2> SUFFICES ASSUME NEW j \in 1 .. Len(ps), qs[j].trapcall \in CallConds \ new
               PROVE  /\ pend # qs[j].trapcall
                      /\ \A i \in j .. Len(ps) : qs[j].trapcall \in qs[i].delayed
                      /\ \A k \in 1 .. Len(ps) :
                           qs[k].trapcall = qs[j].trapcall => k = j
    BY <1>2 DEF Alone
  <2>1. ps[j].trapcall \in CallConds \ set /\ ps[j].trapcall = qs[j].trapcall
    BY <1>2
  <2>2. /\ pend # ps[j].trapcall
        /\ \A i \in j .. Len(ps) : ps[j].trapcall \in ps[i].delayed
        /\ \A k \in 1 .. Len(ps) : ps[k].trapcall = ps[j].trapcall => k = j
    BY <2>1 DEF Levels, Alone
  <2>3. ps[j].trapcall \in l.delayed
    BY <1>1, <2>1, <2>2 DEF Last
  <2> QED
    BY <1>1, <1>2, <2>1, <2>2, <2>3
<1> QED
  BY <1>2, <1>4, <1>5 DEF Levels, qs

(* The last level with one more condition in DELAY, whose call is pending   *)
(* from now on unless another is: then that DELAY has lost its end.         *)
LEMMA Marked ==
  ASSUME NEW ps, NEW pend, NEW lost, NEW set, Levels(ps, pend, lost, set),
         NEW c \in CallConds, c \notin Last(ps).delayed
  PROVE  LET pended == IF pend = none THEN c ELSE pend
         IN  Levels([ps EXCEPT ![Len(ps)].delayed = @ \cup {c}], pended,
                    lost \cup ({c} \ {pended}), set)
<1> DEFINE pended == IF pend = none THEN c ELSE pend
           l == [Last(ps) EXCEPT !.delayed = @ \cup {c}]
           qs == [ps EXCEPT ![Len(ps)] = l]
<1>1. Sound(ps) /\ ps \in Seq(Level) /\ Len(ps) \in Nat /\ Len(ps) >= 1
  BY DEF Levels, Sound
<1>2. Last(ps) \in Level
  BY <1>1 DEF Last
<1>3. /\ l \in Level /\ l.calltype = Last(ps).calltype /\ l.ip = Last(ps).ip
      /\ l.trapcall = Last(ps).trapcall /\ l.code = Last(ps).code
      /\ l.delayed = Last(ps).delayed \cup {c}
  BY <1>2 DEF Level
<1>4. [ps EXCEPT ![Len(ps)].delayed = @ \cup {c}] = qs
  BY <1>1 DEF Last
<1> HIDE DEF l
<1>5. /\ Sound(qs) /\ Len(qs) = Len(ps) /\ qs[Len(ps)] = l
      /\ \A i \in 1 .. Len(ps) : i # Len(ps) => qs[i] = ps[i]
      /\ \A i \in 1 .. Len(ps) : qs[i].trapcall = ps[i].trapcall
  BY <1>1, <1>3, Replaced
<1> HIDE DEF qs
<1>6. Owed(qs, pended, lost \cup ({c} \ {pended}))
  <2> SUFFICES ASSUME NEW i \in 1 .. Len(ps),
                      NEW d \in qs[i].delayed \ (lost \cup ({c} \ {pended}))
               PROVE  \/ \E j \in 1 .. i : qs[j].trapcall = d
                      \/ i < Len(ps) /\ qs[i + 1].trapcall = d
                      \/ i = Len(ps) /\ pended = d
    BY <1>5 DEF Owed
  <2>1. CASE d \in ps[i].delayed
    <3>1. \/ \E j \in 1 .. i : ps[j].trapcall = d
          \/ i < Len(ps) /\ ps[i + 1].trapcall = d
          \/ i = Len(ps) /\ pend = d
      BY <2>1 DEF Levels, Owed
    <3>2. d # none
      BY <1>1, <2>1, Fields DEF CallConds, Conds, none
    <3> QED
      BY <1>1, <1>5, <3>1, <3>2
  <2>2. CASE d \notin ps[i].delayed
    <3>1. i = Len(ps)
      BY <1>1, <1>5, <2>2
    <3>2. d = c
      BY <1>1, <1>3, <1>5, <2>2, <3>1 DEF Last
    <3> QED
      BY <3>1, <3>2
  <2> QED
    BY <2>1, <2>2
<1>7. Alone(qs, pended, set)
  <2> SUFFICES ASSUME NEW j \in 1 .. Len(ps), ps[j].trapcall \in CallConds \ set
               PROVE  /\ pended # ps[j].trapcall
                      /\ \A i \in j .. Len(ps) : ps[j].trapcall \in qs[i].delayed
                      /\ \A k \in 1 .. Len(ps) :
                           ps[k].trapcall = ps[j].trapcall => k = j
    BY <1>5 DEF Alone
  <2>1. /\ pend # ps[j].trapcall
        /\ \A i \in j .. Len(ps) : ps[j].trapcall \in ps[i].delayed
        /\ \A k \in 1 .. Len(ps) : ps[k].trapcall = ps[j].trapcall => k = j
    BY DEF Levels, Alone
  <2>2. ps[j].trapcall \in Last(ps).delayed /\ ps[j].trapcall # c
    BY <1>1, <2>1 DEF Last
  <2>3. \A i \in j .. Len(ps) : ps[j].trapcall \in qs[i].delayed
    BY <1>1, <1>3, <1>5, <2>1, <2>2
  <2> QED
    BY <2>1, <2>2, <2>3
<1>8. pended \in CallConds \cup {none}
  BY DEF Levels
<1> QED
  BY <1>4, <1>5, <1>6, <1>7, <1>8 DEF Levels

(* A level pushed on the others, with the traps and the DELAY of its        *)
(* caller: that of a routine, a function or an INTERPRET.  What is pending  *)
(* will be called from there or from above, not from the caller.            *)
LEMMA Pushed ==
  ASSUME NEW ps, NEW pend, NEW lost, NEW set, Levels(ps, pend, lost, set),
         NEW ct \in {"procedure", "function", "interpret"},
         NEW code \in {"file", "string"}, code = "string" => ct = "interpret",
         NEW ip \in {"newclause", "exitop", "clause", "over"}
  PROVE  /\ Levels(Append(ps, NewLevel(ps, ct, code, ip)), pend,
                   lost \cup ({pend} \ {none}), set)
         /\ Len(Append(ps, NewLevel(ps, ct, code, ip))) = Len(ps) + 1
         /\ Last(Append(ps, NewLevel(ps, ct, code, ip))).calltype = ct
         /\ Last(Append(ps, NewLevel(ps, ct, code, ip))).trapcall = none
         /\ \A i \in 1 .. Len(ps) : Append(ps, NewLevel(ps, ct, code, ip))[i] = ps[i]
<1> DEFINE l == NewLevel(ps, ct, code, ip)
           qs == Append(ps, l)
           n == Len(ps)
<1>1. Sound(ps) /\ ps \in Seq(Level) /\ n \in Nat /\ n >= 1
  BY DEF Levels, Sound
<1>2. Last(ps) \in Level /\ Last(ps) = ps[n]
  BY <1>1 DEF Last
<1>3. /\ l \in Level /\ l.calltype = ct /\ l.ip = ip /\ l.code = code
      /\ l.trapcall = none /\ l.delayed = ps[n].delayed
  BY <1>2 DEF NewLevel, Level, Positions
<1> HIDE DEF l
<1>4. /\ qs \in Seq(Level) /\ Len(qs) = n + 1 /\ qs[n + 1] = l
      /\ \A i \in 1 .. n : qs[i] = ps[i]
  BY <1>1, <1>3
<1> HIDE DEF qs
<1>5. Sound(qs)
  <2>1. \A i \in 1 .. n + 1 : i \in 1 .. n \/ i = n + 1
    BY <1>1
  <2> QED
    BY <1>1, <1>3, <1>4, <2>1 DEF Sound
<1>6. Owed(qs, pend, lost \cup ({pend} \ {none}))
  <2> SUFFICES ASSUME NEW i \in 1 .. n + 1,
                      NEW c \in qs[i].delayed \ (lost \cup ({pend} \ {none}))
               PROVE  \/ \E j \in 1 .. i : qs[j].trapcall = c
                      \/ i < n + 1 /\ qs[i + 1].trapcall = c
    BY <1>4 DEF Owed
  <2> DEFINE k == IF i = n + 1 THEN n ELSE i
  <2>1. k \in 1 .. n /\ k <= i /\ c \in ps[k].delayed \ lost
    BY <1>1, <1>3, <1>4
  <2>2. c # none
    BY <1>1, <2>1, Fields DEF CallConds, Conds, none
  <2>3. \/ \E j \in 1 .. k : ps[j].trapcall = c
        \/ k < n /\ ps[k + 1].trapcall = c
    BY <2>1, <2>2 DEF Levels, Owed
  <2>4. CASE \E j \in 1 .. k : ps[j].trapcall = c
    BY <1>1, <1>4, <2>1, <2>4
  <2>5. CASE k < n /\ ps[k + 1].trapcall = c
    BY <1>1, <1>4, <2>1, <2>5
  <2> QED
    BY <2>3, <2>4, <2>5
<1>7. Alone(qs, pend, set)
  <2> SUFFICES ASSUME NEW j \in 1 .. n + 1, qs[j].trapcall \in CallConds \ set
               PROVE  /\ pend # qs[j].trapcall
                      /\ \A i \in j .. n + 1 : qs[j].trapcall \in qs[i].delayed
                      /\ \A k \in 1 .. n + 1 : qs[k].trapcall = qs[j].trapcall => k = j
    BY <1>4 DEF Alone
  <2>1. j \in 1 .. n /\ qs[j] = ps[j] /\ qs[j].trapcall # none
    BY <1>1, <1>3, <1>4 DEF CallConds, Conds, none
  <2>2. /\ pend # ps[j].trapcall
        /\ \A i \in j .. n : ps[j].trapcall \in ps[i].delayed
        /\ \A k \in 1 .. n : ps[k].trapcall = ps[j].trapcall => k = j
    BY <2>1 DEF Levels, Alone
  <2>3. ps[j].trapcall \in ps[n].delayed
    BY <1>1, <2>1, <2>2
  <2>4. \A i \in j .. n + 1 : qs[j].trapcall \in qs[i].delayed
    BY <1>1, <1>3, <1>4, <2>1, <2>2, <2>3
  <2>5. \A k \in 1 .. n + 1 : qs[k].trapcall = qs[j].trapcall => k = j
    BY <1>1, <1>3, <1>4, <2>1, <2>2
  <2> QED
    BY <2>1, <2>2, <2>4, <2>5
<1> QED
  BY <1>3, <1>4, <1>5, <1>6, <1>7 DEF Levels, Last, qs, l

(* The call of the pending routine: its DELAY is marked in the level it     *)
(* interrupts and copied into its own, and it owes the end of both.         *)
Outermost(ps, pend, set) ==
  IF \E i \in 1 .. Len(ps) : ps[i].trapcall = pend THEN set ELSE set \ {pend}

LEMMA Called ==
  ASSUME NEW ps, NEW pend, NEW lost, NEW set, Levels(ps, pend, lost, set),
         pend # none, NEW ip \in {"newclause", "exitop"}
  PROVE  LET o == I_CallTrap(Outcome(ps, pend, "read"), ip)
         IN  /\ Levels(o.procs, none, lost, Outermost(ps, pend, set))
             /\ Len(o.procs) = Len(ps) + 1 /\ Last(o.procs).trapcall = pend
             /\ \A i \in 1 .. Len(ps) : /\ o.procs[i].condition = ps[i].condition
                                        /\ o.procs[i].callcond = ps[i].callcond
             /\ o.pend = none /\ o.pc = "start"
<1> DEFINE m == [Last(ps) EXCEPT !.delayed = @ \cup {pend}]
           ms == [ps EXCEPT ![Len(ps)] = m]
           l == [NewLevel(ms, "procedure", "file", ip) EXCEPT !.trapcall = pend]
           qs == Append(ms, l)
           n == Len(ps)
           later == Outermost(ps, pend, set)
<1>1. Sound(ps) /\ ps \in Seq(Level) /\ n \in Nat /\ n >= 1 /\ pend \in CallConds
  BY DEF Levels, Sound
<1>2. Last(ps) \in Level /\ Last(ps) = ps[n]
  BY <1>1 DEF Last
<1>3. /\ m \in Level /\ m.calltype = Last(ps).calltype /\ m.ip = Last(ps).ip
      /\ m.trapcall = Last(ps).trapcall /\ m.code = Last(ps).code
      /\ m.delayed = Last(ps).delayed \cup {pend}
      /\ m.condition = Last(ps).condition /\ m.callcond = Last(ps).callcond
  BY <1>1, <1>2 DEF Level
<1>4. [ps EXCEPT ![Len(ps)].delayed = @ \cup {pend}] = ms
  BY <1>1 DEF Last
<1> HIDE DEF m
<1>5. /\ Sound(ms) /\ Len(ms) = n /\ ms[n] = m
      /\ \A i \in 1 .. n : i # n => ms[i] = ps[i]
      /\ \A i \in 1 .. n : ms[i].trapcall = ps[i].trapcall
  BY <1>1, <1>3, Replaced
<1> HIDE DEF ms
<1>6. Last(ms) = m /\ ms \in Seq(Level)
  BY <1>5 DEF Last, Sound
<1>7. /\ l \in Level /\ l.calltype = "procedure" /\ l.ip = ip /\ l.code = "file"
      /\ l.trapcall = pend /\ l.delayed = m.delayed
  BY <1>1, <1>3, <1>6 DEF NewLevel, Level, Positions
<1> HIDE DEF l
<1>8. /\ qs \in Seq(Level) /\ Len(qs) = n + 1 /\ qs[n + 1] = l
      /\ \A i \in 1 .. n : qs[i] = ms[i]
  BY <1>1, <1>5, <1>6, <1>7
<1>9. I_CallTrap(Outcome(ps, pend, "read"), ip) = Outcome(qs, none, "start")
  BY <1>4 DEF I_CallTrap, Outcome, l
<1> HIDE DEF qs
<1>10. Sound(qs)
  <2>1. \A i \in 1 .. n + 1 : i \in 1 .. n \/ i = n + 1
    BY <1>1
  <2> QED
    BY <1>1, <1>5, <1>7, <1>8, <2>1 DEF Sound
<1>11. Owed(qs, none, lost)
  <2> SUFFICES ASSUME NEW i \in 1 .. n + 1, NEW c \in qs[i].delayed \ lost
               PROVE  \/ \E j \in 1 .. i : qs[j].trapcall = c
                      \/ i < n + 1 /\ qs[i + 1].trapcall = c
    BY <1>8 DEF Owed
  <2> DEFINE k == IF i = n + 1 THEN n ELSE i
  <2>1. k \in 1 .. n /\ k <= i /\ (c \in ps[k].delayed \/ (c = pend /\ k = n))
    <3>1. k \in 1 .. n /\ k <= i
      BY <1>1
    <3>2. CASE i = n \/ i = n + 1
      <4>1. c \in m.delayed /\ k = n
        BY <1>1, <1>5, <1>7, <1>8, <3>2
      <4> QED
        BY <1>2, <1>3, <3>1, <4>1
    <3>3. CASE i # n /\ i # n + 1
      <4>1. i \in 1 .. n /\ k = i
        BY <1>1, <3>3
      <4>2. c \in ps[i].delayed
        BY <1>5, <1>8, <3>3, <4>1
      <4>3. c \in ps[k].delayed
        BY Zenon, <4>1, <4>2
      <4> QED
        BY Zenon, <3>1, <4>3
    <3> QED
      BY <3>2, <3>3
  <2>2. CASE c = pend /\ k = n
    <3>1. qs[n + 1].trapcall = c
      BY <1>7, <1>8, <2>2
    <3>2. CASE i = n + 1
      BY <1>1, <3>1, <3>2
    <3>3. CASE i # n + 1
      BY <1>1, <2>2, <3>1, <3>3
    <3> QED
      BY <3>2, <3>3
  <2>3. CASE c \in ps[k].delayed /\ ~(c = pend /\ k = n)
    <3>1. \/ \E j \in 1 .. k : ps[j].trapcall = c
          \/ k < n /\ ps[k + 1].trapcall = c
      BY <2>1, <2>3 DEF Levels, Owed
    <3>2. CASE \E j \in 1 .. k : ps[j].trapcall = c
      BY <1>1, <1>5, <1>8, <2>1, <3>2
    <3>3. CASE k < n /\ ps[k + 1].trapcall = c
      BY <1>1, <1>5, <1>8, <2>1, <3>3
    <3> QED
      BY <3>1, <3>2, <3>3
  <2> QED
    BY Zenon, <2>1, <2>2, <2>3
<1>12. Alone(qs, none, later)
  <2> SUFFICES ASSUME NEW j \in 1 .. n + 1, qs[j].trapcall \in CallConds \ later
               PROVE  /\ none # qs[j].trapcall
                      /\ \A i \in j .. n + 1 : qs[j].trapcall \in qs[i].delayed
                      /\ \A k \in 1 .. n + 1 : qs[k].trapcall = qs[j].trapcall => k = j
    BY <1>8 DEF Alone
  <2>1. none # qs[j].trapcall
    BY DEF CallConds, Conds, none
  <2>2. \A i \in 1 .. n : qs[i].trapcall = ps[i].trapcall
    BY <1>5, <1>8
  <2>3. ASSUME NEW i \in 1 .. n, ps[i].trapcall \in CallConds \ later
        PROVE  ps[i].trapcall \in CallConds \ set /\ ps[i].trapcall # pend
    BY <2>3 DEF Levels, Alone, Outermost
  <2>4. CASE j \in 1 .. n
    <3>1. ps[j].trapcall \in CallConds \ set /\ ps[j].trapcall # pend
      BY <2>2, <2>3, <2>4
    <3>2. /\ \A i \in j .. n : ps[j].trapcall \in ps[i].delayed
          /\ \A k \in 1 .. n : ps[k].trapcall = ps[j].trapcall => k = j
      BY <2>4, <3>1 DEF Levels, Alone
    <3>3. ps[j].trapcall \in m.delayed
      BY <1>1, <1>2, <1>3, <2>4, <3>2
    <3>4. \A i \in j .. n + 1 : qs[j].trapcall \in qs[i].delayed
      BY <1>1, <1>5, <1>7, <1>8, <2>2, <2>4, <3>2, <3>3
    <3>5. \A k \in 1 .. n + 1 : qs[k].trapcall = qs[j].trapcall => k = j
      BY <1>1, <1>7, <1>8, <2>2, <2>4, <3>1, <3>2
    <3> QED
      BY <2>1, <3>4, <3>5
  <2>5. CASE j = n + 1
    <3>1. qs[j].trapcall = pend /\ pend \in l.delayed
      BY <1>3, <1>7, <1>8, <2>5
    <3>2. \A k \in 1 .. n : ps[k].trapcall # pend
      BY <2>2, <2>3, <2>5, <3>1
    <3> QED
      BY <1>1, <1>8, <2>1, <2>2, <2>5, <3>1, <3>2
  <2> QED
    BY <1>1, <2>4, <2>5
<1>13. none \in CallConds \cup {none}
  OBVIOUS
<1>14. \A i \in 1 .. n : /\ qs[i].condition = ps[i].condition
                         /\ qs[i].callcond = ps[i].callcond
  BY <1>2, <1>3, <1>5, <1>8
<1> QED
  BY <1>7, <1>8, <1>9, <1>10, <1>11, <1>12, <1>13, <1>14 DEF Levels, Last, Outcome

(* The return of a routine: the DELAY it owes its caller ends.              *)
LEMMA Returned ==
  ASSUME NEW ps, NEW pend, NEW lost, NEW set, Levels(ps, pend, lost, set),
         I_RoutineLevel(ps) # 1
  PROVE  LET k == I_RoutineLevel(ps)
             rs == I_ReturnProc(LeaveInterprets(ps))
         IN  /\ Levels(rs, pend, lost, set)
             /\ Len(rs) = k - 1
             /\ \A i \in 1 .. k - 1 : /\ rs[i].condition = ps[i].condition
                                      /\ rs[i].callcond = ps[i].callcond
<1> DEFINE k == I_RoutineLevel(ps)
           qs == LeaveInterprets(ps)
           fs == Front(qs)
           trap == qs[k].trapcall
           l == [fs[k - 1] EXCEPT !.delayed = @ \ {trap}]
           rs == [fs EXCEPT ![k - 1] = l]
<1>1. Sound(ps) /\ ps \in Seq(Level) /\ Len(ps) \in Nat
  BY DEF Levels, Sound
<1>2. k \in 2 .. Len(ps) /\ k \in 1 .. Len(ps)
  BY <1>1, RoutineLevel
<1>3. /\ Levels(qs, pend, lost, set) /\ Len(qs) = k
      /\ \A i \in 1 .. k : qs[i] = ps[i]
  BY <1>1, <1>2, RoutineLevel, Cut DEF LeaveInterprets
<1>4. Sound(qs) /\ qs \in Seq(Level)
  BY <1>3 DEF Levels, Sound
<1> HIDE DEF k, qs
<1>5. /\ fs \in Seq(Level) /\ Len(fs) = k - 1
      /\ \A i \in 1 .. k - 1 : fs[i] = qs[i]
  BY <1>2, <1>3, <1>4 DEF Front
<1>6. I_ReturnProc(qs) = rs
  BY <1>2, <1>3, <1>5 DEF I_ReturnProc, Last
<1> HIDE DEF fs
<1>7. fs[k - 1] \in Level
  BY <1>2, <1>5
<1>8. /\ l \in Level /\ l.calltype = fs[k - 1].calltype /\ l.ip = fs[k - 1].ip
      /\ l.trapcall = fs[k - 1].trapcall /\ l.code = fs[k - 1].code
      /\ l.condition = fs[k - 1].condition /\ l.callcond = fs[k - 1].callcond
      /\ l.delayed = fs[k - 1].delayed \ {trap}
  BY <1>7 DEF Level
<1> HIDE DEF l
<1>9. /\ rs \in Seq(Level) /\ Len(rs) = k - 1 /\ rs[k - 1] = l
      /\ \A i \in 1 .. k - 1 : i # k - 1 => rs[i] = qs[i]
  BY <1>2, <1>5, <1>8
<1> HIDE DEF rs
<1>10. \A i \in 1 .. k - 1 :
         /\ rs[i].calltype = qs[i].calltype /\ rs[i].ip = qs[i].ip
         /\ rs[i].trapcall = qs[i].trapcall /\ rs[i].code = qs[i].code
         /\ rs[i].condition = qs[i].condition /\ rs[i].callcond = qs[i].callcond
         /\ rs[i].delayed \subseteq qs[i].delayed
  BY <1>2, <1>5, <1>8, <1>9
<1>11. Sound(rs)
  BY <1>2, <1>3, <1>4, <1>9, <1>10 DEF Sound
<1>12. Owed(rs, pend, lost)
  <2> SUFFICES ASSUME NEW i \in 1 .. k - 1, NEW c \in rs[i].delayed \ lost
               PROVE  \/ \E j \in 1 .. i : rs[j].trapcall = c
                      \/ i < k - 1 /\ rs[i + 1].trapcall = c
    BY <1>9 DEF Owed
  <2>1. i \in 1 .. k /\ i # k /\ c \in qs[i].delayed \ lost
    BY <1>2, <1>10
  <2>2. \/ \E j \in 1 .. i : qs[j].trapcall = c
        \/ i < k /\ qs[i + 1].trapcall = c
    BY <1>3, <2>1 DEF Levels, Owed
  <2>3. CASE i = k - 1
    <3>1. c # trap
      BY <1>5, <1>8, <1>9, <2>3
    <3>2. i + 1 = k
      BY <1>2, <2>3
    <3>3. \E j \in 1 .. i : qs[j].trapcall = c
      BY <2>2, <3>1, <3>2
    <3> QED
      BY <1>2, <1>10, <3>3
  <2>4. CASE i # k - 1
    BY <1>2, <1>10, <2>2, <2>4
  <2> QED
    BY <2>3, <2>4
<1>13. Alone(rs, pend, set)
  <2> SUFFICES ASSUME NEW j \in 1 .. k - 1, rs[j].trapcall \in CallConds \ set
               PROVE  /\ pend # rs[j].trapcall
                      /\ \A i \in j .. k - 1 : rs[j].trapcall \in rs[i].delayed
                      /\ \A h \in 1 .. k - 1 : rs[h].trapcall = rs[j].trapcall => h = j
    BY <1>9 DEF Alone
  <2>1. j \in 1 .. k /\ j # k /\ qs[j].trapcall = rs[j].trapcall
    BY <1>2, <1>10
  <2>2. /\ pend # qs[j].trapcall
        /\ \A i \in j .. k : qs[j].trapcall \in qs[i].delayed
        /\ \A h \in 1 .. k : qs[h].trapcall = qs[j].trapcall => h = j
    BY <1>3, <2>1 DEF Levels, Alone
  <2>3. qs[j].trapcall # trap
    BY <1>2, <2>1, <2>2
  <2>4. \A i \in j .. k - 1 : qs[j].trapcall \in rs[i].delayed
    BY <1>2, <1>5, <1>8, <1>9, <2>2, <2>3
  <2>5. \A h \in 1 .. k - 1 : rs[h].trapcall = rs[j].trapcall => h = j
    BY <1>2, <1>10, <2>1, <2>2
  <2> QED
    BY <2>1, <2>2, <2>4, <2>5
<1> QED
  BY <1>2, <1>3, <1>6, <1>9, <1>10, <1>11, <1>12, <1>13 DEF Levels, k, qs

-----------------------------------------------------------------------------
(* Raising a condition.                                                     *)

Lost(ps, o) ==
  IF Len(o.procs) = Len(ps)
  THEN (Last(o.procs).delayed \ Last(ps).delayed) \ {o.pend}
  ELSE {}

(* What is promised of an outcome at the levels ps: the levels stay sound,  *)
(* the callers of the running routine keep their traps, and when the clause *)
(* goes on no level was left.                                               *)
Follows(o, ps, after, lost, set) ==
  /\ Levels(o.procs, o.pend, lost \cup Lost(ps, o), set)
  /\ Lost(ps, o) \subseteq CallConds
  /\ o.pc \in {after, "newclause", "error"}
  /\ Len(o.procs) \in I_RoutineLevel(ps) .. Len(ps)
  /\ \A i \in 1 .. I_RoutineLevel(ps) - 1 :
       /\ o.procs[i].condition = ps[i].condition
       /\ o.procs[i].callcond = ps[i].callcond
  /\ o.pc \notin {"newclause", "error"} =>
       /\ Len(o.procs) = Len(ps)
       /\ \A i \in 1 .. Len(ps) : o.procs[i].trapcall = ps[i].trapcall

LEMMA SameFollows ==
  ASSUME NEW ps, NEW pend, NEW lost, NEW set, Levels(ps, pend, lost, set),
         NEW after, NEW at \in {after, "error"}
  PROVE  Follows(Outcome(ps, pend, at), ps, after, lost, set)
<1>1. Sound(ps) /\ Len(ps) \in Nat
  BY DEF Levels, Sound
<1>2. I_RoutineLevel(ps) \in 1 .. Len(ps)
  BY <1>1, RoutineLevel
<1>3. Lost(ps, Outcome(ps, pend, at)) = {}
  BY DEF Lost, Outcome
<1>4. lost \cup {} = lost
  OBVIOUS
<1> DEFINE o == Outcome(ps, pend, at)
<1>5. o.procs = ps /\ o.pend = pend /\ o.pc = at
  BY DEF Outcome
<1>6. Len(ps) \in I_RoutineLevel(ps) .. Len(ps)
  BY <1>1, <1>2
<1> HIDE DEF o
<1> QED
  BY <1>3, <1>4, <1>5, <1>6 DEF Follows, o

LEMMA TakenFollows ==
  ASSUME NEW ps, NEW pend, NEW lost, NEW set, Levels(ps, pend, lost, set),
         NEW after, NEW c
  PROVE  Follows(Taken(ps, pend, c), ps, after, lost, set)
<1> DEFINE l == [Last(ps) EXCEPT !.condition = @ \ {c}]
           qs == [ps EXCEPT ![Len(ps)] = l]
           k == I_RoutineLevel(ps)
           rs == LeaveInterprets(qs)
<1>1. Sound(ps) /\ ps \in Seq(Level) /\ Len(ps) \in Nat /\ Len(ps) >= 1
  BY DEF Levels, Sound
<1>2. Last(ps) \in Level
  BY <1>1 DEF Last
<1>3. /\ l \in Level /\ l.calltype = Last(ps).calltype /\ l.ip = Last(ps).ip
      /\ l.trapcall = Last(ps).trapcall /\ l.code = Last(ps).code
      /\ l.delayed = Last(ps).delayed
  BY <1>2 DEF Level
<1>4. Taken(ps, pend, c) = Outcome(rs, pend, "newclause")
  BY <1>1 DEF Taken, Last
<1> HIDE DEF l
<1>5. Levels(qs, pend, lost, set)
  BY <1>3, Reset
<1>6. /\ Len(qs) = Len(ps) /\ qs[Len(ps)] = l
      /\ \A i \in 1 .. Len(ps) : i # Len(ps) => qs[i] = ps[i]
      /\ I_RoutineLevel(qs) = k
  BY <1>1, <1>3, Replaced
<1>7. k \in 1 .. Len(ps)
  BY <1>1, RoutineLevel
<1> HIDE DEF qs, k
<1>8. Sound(qs)
  BY <1>5 DEF Levels
<1>9. \A i \in 1 .. Len(qs) : i > k => qs[i].calltype = "interpret"
  BY <1>6, <1>8, RoutineLevel
<1>10. /\ Levels(rs, pend, lost, set) /\ Len(rs) = k
       /\ \A i \in 1 .. k : rs[i] = qs[i]
  BY <1>5, <1>6, <1>7, <1>9, Cut DEF LeaveInterprets
<1> HIDE DEF rs
<1>11. Lost(ps, Outcome(rs, pend, "newclause")) = {}
  <2>1. CASE Len(rs) = Len(ps)
    BY <1>3, <1>6, <1>7, <1>10, <2>1 DEF Lost, Outcome, Last
  <2>2. CASE Len(rs) # Len(ps)
    BY <2>2 DEF Lost, Outcome
  <2> QED
    BY <2>1, <2>2
<1>12. lost \cup {} = lost
  OBVIOUS
<1>13. \A i \in 1 .. k - 1 : rs[i] = ps[i]
  BY <1>1, <1>6, <1>7, <1>10
<1>14. k \in k .. Len(ps)
  BY <1>1, <1>7
<1> DEFINE o == Outcome(rs, pend, "newclause")
<1>15. o.procs = rs /\ o.pend = pend /\ o.pc = "newclause"
  BY DEF Outcome
<1> HIDE DEF o
<1> QED
  BY <1>4, <1>10, <1>11, <1>12, <1>13, <1>14, <1>15 DEF Follows, k, o

LEMMA ErrorFollows ==
  ASSUME NEW ps, NEW pend, NEW lost, NEW set, Levels(ps, pend, lost, set),
         NEW after
  PROVE  Follows(Rerror(ps, pend), ps, after, lost, set)
BY SameFollows, TakenFollows DEF Rerror

(* A condition that is trapped: in DELAY it is ignored, CALL ON marks it,   *)
(* SIGNAL ON takes it, and without its label it is an error.                *)
LEMMA SignalFollows ==
  ASSUME NEW ps, NEW pend, NEW lost, NEW set, Levels(ps, pend, lost, set),
         NEW after, NEW c \in Last(ps).condition
  PROVE  Follows(RxSignalCondition(ps, pend, c, after), ps, after, lost, set)
<1> DEFINE pr == Last(ps)
           pended == IF pend = none THEN c ELSE pend
           qs == [ps EXCEPT ![Len(ps)].delayed = @ \cup {c}]
<1>1. Sound(ps) /\ ps \in Seq(Level) /\ Len(ps) \in Nat /\ Len(ps) >= 1
  BY DEF Levels, Sound
<1>2. pr \in Level /\ pr = ps[Len(ps)]
  BY <1>1 DEF Last
<1>3. CASE c \in pr.callcond /\ c \in pr.delayed
  <2>1. c \in pr.condition \cap pr.callcond \cap pr.delayed
    BY <1>3
  <2>2. RxSignalCondition(ps, pend, c, after) = Outcome(ps, pend, after)
    BY <2>1 DEF RxSignalCondition
  <2> QED
    BY <2>2, SameFollows
<1>4. CASE ~(c \in pr.callcond /\ c \in pr.delayed) /\ c \notin Labels
  <2>1. RxSignalCondition(ps, pend, c, after) = Rerror(ps, pend)
    BY <1>4 DEF RxSignalCondition
  <2> QED
    BY <2>1, ErrorFollows
<1>5. CASE c \in pr.callcond /\ c \notin pr.delayed /\ c \in Labels
  <2>1. RxSignalCondition(ps, pend, c, after) = Outcome(qs, pended, after)
    BY <1>5 DEF RxSignalCondition
  <2>2. c \in CallConds
    <3>1. pr.callcond \subseteq CallConds
      BY <1>2 DEF Level
    <3> QED
      BY <1>5, <3>1
  <2>3. Levels(qs, pended, lost \cup ({c} \ {pended}), set)
    BY <1>5, <2>2, Marked
  <2> DEFINE m == [pr EXCEPT !.delayed = @ \cup {c}]
  <2>4. qs = [ps EXCEPT ![Len(ps)] = m]
    BY <1>1 DEF Last
  <2>5. /\ m \in Level /\ m.calltype = pr.calltype /\ m.ip = pr.ip
        /\ m.trapcall = pr.trapcall /\ m.code = pr.code
        /\ m.delayed = pr.delayed \cup {c}
    BY <1>2, <2>2 DEF Level
  <2> HIDE DEF m
  <2>6. /\ Len(qs) = Len(ps) /\ Last(qs) = m
        /\ \A i \in 1 .. Len(ps) : i # Len(ps) => qs[i] = ps[i]
        /\ \A i \in 1 .. Len(ps) : qs[i].trapcall = ps[i].trapcall
    BY <1>1, <2>4, <2>5, Replaced
  <2> HIDE DEF qs, pended
  <2>7. Lost(ps, Outcome(qs, pended, after)) = {c} \ {pended}
    BY <1>5, <2>5, <2>6 DEF Lost, Outcome
  <2>8. I_RoutineLevel(ps) \in 1 .. Len(ps)
    BY <1>1, RoutineLevel
  <2>9. \A i \in 1 .. I_RoutineLevel(ps) - 1 : qs[i] = ps[i]
    BY <1>1, <2>6, <2>8
  <2>10. Len(qs) \in I_RoutineLevel(ps) .. Len(ps)
    BY <1>1, <2>6, <2>8
  <2> DEFINE o == Outcome(qs, pended, after)
  <2>11. o.procs = qs /\ o.pend = pended /\ o.pc = after
    BY DEF Outcome
  <2> HIDE DEF o
  <2> QED
    BY <2>1, <2>2, <2>3, <2>6, <2>7, <2>9, <2>10, <2>11 DEF Follows, o
<1>6. CASE c \notin pr.callcond /\ c \in Labels
  <2>1. RxSignalCondition(ps, pend, c, after) = Taken(ps, pend, c)
    BY <1>6 DEF RxSignalCondition
  <2> QED
    BY <2>1, TakenFollows
<1> QED
  BY <1>3, <1>4, <1>5, <1>6

LEMMA HaltFollows ==
  ASSUME NEW ps, NEW pend, NEW lost, NEW set, Levels(ps, pend, lost, set),
         NEW after
  PROVE  Follows(RxHaltTrap(ps, pend, after), ps, after, lost, set)
BY SignalFollows, ErrorFollows DEF RxHaltTrap

-----------------------------------------------------------------------------
(* The steps.  Each keeps the invariant, the traps of the callers, and      *)
(* calls no routine that is running.                                        *)

CallersKeep ==
  \A i \in 1 .. I_RoutineLevel(procs) - 1 :
    /\ procs'[i].condition = procs[i].condition
    /\ procs'[i].callcond = procs[i].callcond

CallsNoneAgain ==
  \A c \in CallConds :
    (RoutineRuns(c) /\ Len(procs') > Len(procs) /\ Last(procs').trapcall = c)
      => c \in again

StepKeeps == CondIndInv' /\ CallersKeep /\ CallsNoneAgain

(* A step whose levels are not more than before calls nobody; one that      *)
(* keeps the levels of the callers keeps their traps.                       *)
LEMMA ShortStep ==
  ASSUME CondIndInv, CondIndInv', Len(procs') <= Len(procs), CallersKeep
  PROVE  StepKeeps
<1>1. Len(procs) \in Nat /\ Len(procs') \in Nat
  BY DEF CondIndInv, Levels, Sound
<1> QED
  BY <1>1 DEF StepKeeps, CallsNoneAgain

(* What a condition raised in a clause, or an error, makes of the state.    *)
LEMMA BecomesKeeps ==
  ASSUME CondIndInv, NEW o, NEW after \in {"clause", "over"},
         Follows(o, procs, after, nested, again),
         Becomes(o), UNCHANGED <<attn, sets, again>>
  PROVE  StepKeeps
<1>1. procs' = o.procs /\ trapPend' = o.pend /\ pc' = o.pc /\ again' = again
  BY DEF Becomes
<1>2. nested' = nested \cup Lost(procs, o)
  BY DEF Becomes, Shut, Lost, Running
<1>3. Levels(procs', trapPend', nested', again')
  BY <1>1, <1>2 DEF Follows
<1>4. pc' \in {"clause", "over", "newclause", "error"}
  BY <1>1 DEF Follows
<1>5. attn' = attn /\ sets' = sets /\ nested' \subseteq CallConds
  BY <1>2 DEF Follows, CondIndInv
<1>6. CondIndInv'
  BY <1>1, <1>3, <1>4, <1>5
  DEF CondIndInv, Positions, Ended, ExitOwesNoCall
<1>7. Len(procs) \in Nat /\ I_RoutineLevel(procs) \in 1 .. Len(procs)
  BY RoutineLevel DEF CondIndInv, Levels, Sound
<1>8. Len(procs') <= Len(procs)
  BY <1>1, <1>7 DEF Follows
<1>9. CallersKeep
  BY <1>1 DEF CallersKeep, Follows
<1> QED
  BY <1>6, <1>8, <1>9, ShortStep

LEMMA ErrorKeeps ==
  ASSUME CondIndInv, Becomes(Rerror(procs, trapPend)), UNCHANGED <<attn, sets, again>>
  PROVE  StepKeeps
<1>1. Levels(procs, trapPend, nested, again)
  BY DEF CondIndInv
<1>2. Follows(Rerror(procs, trapPend), procs, "over", nested, again)
  BY <1>1, ErrorFollows
<1> QED
  BY <1>2, BecomesKeeps

LEMMA SignalKeeps ==
  ASSUME CondIndInv, NEW c \in Running.condition, NEW after \in {"clause", "over"},
         Becomes(RxSignalCondition(procs, trapPend, c, after)),
         UNCHANGED <<attn, sets, again>>
  PROVE  StepKeeps
<1>1. Levels(procs, trapPend, nested, again)
  BY DEF CondIndInv
<1>2. c \in Last(procs).condition
  BY DEF Running
<1>3. Follows(RxSignalCondition(procs, trapPend, c, after), procs, after, nested, again)
  BY <1>1, <1>2, SignalFollows
<1> QED
  BY <1>3, BecomesKeeps

(* OP_NEWCLAUSE and OP_EXIT: the attention, then the call of what is        *)
(* pending.  A routine that runs is not pending, unless it was set again.   *)
LEMMA ReadKeeps ==
  ASSUME CondIndInv, NEW ip \in {"newclause", "exitop"},
         NEW next \in {"start", "exit"}, ReadClause(Attend, ip, next)
  PROVE  StepKeeps
<1> DEFINE o == Attend
           then == I_CallTrap(o, ip)
           new == IF RoutineRuns(o.pend) THEN again ELSE again \ {o.pend}
           called == o.pc = "read" /\ o.pend # none
<1>1. /\ Levels(procs, trapPend, nested, again) /\ Sound(procs)
      /\ procs \in Seq(Level) /\ Len(procs) \in Nat /\ DOMAIN procs = 1 .. Len(procs)
  BY DEF CondIndInv, Levels, Sound
<1>2. Follows(o, procs, "read", nested, again)
  <2>1. CASE attn
    BY <1>1, <2>1, HaltFollows DEF Attend
  <2>2. CASE ~attn
    BY <1>1, <2>2, SameFollows DEF Attend
  <2> QED
    BY <2>1, <2>2
<1>3. /\ nested' = nested \cup Lost(procs, o) /\ attn' = FALSE /\ sets' = sets
      /\ called =>
           procs' = then.procs /\ trapPend' = then.pend /\ pc' = "start" /\ again' = new
      /\ ~called =>
           /\ procs' = o.procs /\ trapPend' = o.pend
           /\ pc' = IF o.pc = "read" THEN next ELSE o.pc
           /\ again' = IF pc' = "start" /\ o.pc # "read" /\ ~RoutineRuns(o.pend)
                       THEN again \ {o.pend} ELSE again
  <2>1. then.pc = "start"
    BY DEF I_CallTrap, Outcome
  <2>2. o.pc \in {"read", "newclause", "error"}
    BY <1>2 DEF Follows
  <2> HIDE DEF o, then
  <2>3. nested' = nested \cup Lost(procs, o) /\ attn' = FALSE /\ sets' = sets
    BY DEF ReadClause, Shut, Lost, Running, o
  <2>4. CASE called
    BY <2>1, <2>3, <2>4 DEF ReadClause, o, then
  <2>5. CASE ~called
    BY <2>2, <2>3, <2>5 DEF ReadClause, o, then
  <2> QED
    BY <2>3, <2>4, <2>5
<1>4. nested' \subseteq CallConds /\ attn' \in BOOLEAN /\ sets' \in 0 .. MaxSets
  BY <1>2, <1>3 DEF Follows, CondIndInv
<1>5. I_RoutineLevel(procs) \in 1 .. Len(procs)
  BY <1>1, RoutineLevel
<1> HIDE DEF o
<1>6. CASE called
  <2>1. /\ Levels(o.procs, o.pend, nested', again)
        /\ Len(o.procs) = Len(procs)
        /\ \A i \in 1 .. Len(procs) : o.procs[i].trapcall = procs[i].trapcall
    BY <1>2, <1>3, <1>6 DEF Follows
  <2>2. new = Outermost(o.procs, o.pend, again)
    BY <1>1, <2>1 DEF RoutineRuns, Outermost
  <2>3. then = I_CallTrap(Outcome(o.procs, o.pend, "read"), ip)
    BY DEF I_CallTrap, Outcome
  <2> HIDE DEF then, new
  <2>4. /\ Levels(then.procs, none, nested', new)
        /\ Len(then.procs) = Len(procs) + 1 /\ Last(then.procs).trapcall = o.pend
        /\ \A i \in 1 .. Len(procs) : /\ then.procs[i].condition = o.procs[i].condition
                                      /\ then.procs[i].callcond = o.procs[i].callcond
        /\ then.pend = none
    <3>1. PICK ps, pend, lost, set :
            /\ ps = o.procs /\ pend = o.pend /\ lost = nested' /\ set = again
            /\ pend # none /\ Levels(ps, pend, lost, set)
      BY <1>6, <2>1
    <3>2. new = Outermost(ps, pend, set)
      BY <2>2, <3>1
    <3> DEFINE q == I_CallTrap(Outcome(ps, pend, "read"), ip)
    <3>3. /\ Levels(q.procs, none, lost, Outermost(ps, pend, set))
          /\ Len(q.procs) = Len(ps) + 1 /\ Last(q.procs).trapcall = pend
          /\ \A i \in 1 .. Len(ps) : /\ q.procs[i].condition = ps[i].condition
                                     /\ q.procs[i].callcond = ps[i].callcond
          /\ q.pend = none /\ q.pc = "start"
      BY <3>1, Called
    <3>4. then = q
      BY <2>3, <3>1
    <3> HIDE DEF q
    <3> QED
      BY <2>1, <3>1, <3>2, <3>3, <3>4
  <2>5. Levels(procs', trapPend', nested', again')
    BY <1>3, <1>6, <2>4
  <2>6. again' \subseteq Conds
    BY <1>3, <1>6 DEF CondIndInv, new
  <2>7. CondIndInv'
    BY <1>3, <1>4, <1>6, <2>5, <2>6 DEF CondIndInv, Positions, Ended, ExitOwesNoCall
  <2>8. CallersKeep
    BY <1>1, <1>2, <1>3, <1>5, <1>6, <2>4 DEF CallersKeep, Follows
  <2>9. CallsNoneAgain
    <3> SUFFICES ASSUME NEW c \in CallConds, RoutineRuns(c),
                        Last(procs').trapcall = c
                 PROVE  c \in again
      BY DEF CallsNoneAgain
    <3>1. o.pend = c
      BY <1>3, <1>6, <2>4
    <3>2. PICK i \in 1 .. Len(procs) : o.procs[i].trapcall = c
      BY <1>1, <2>1 DEF RoutineRuns
    <3> QED
      BY <2>1, <3>1, <3>2 DEF Levels, Alone
  <2> QED
    BY <2>7, <2>8, <2>9 DEF StepKeeps
<1>7. CASE ~called
  <2>1. /\ procs' = o.procs /\ trapPend' = o.pend
        /\ pc' = IF o.pc = "read" THEN next ELSE o.pc
    BY <1>3, <1>7
  <2>2. o.pc \in {"read", "newclause", "error"}
    BY <1>2 DEF Follows
  <2>3. again' = again
    BY <1>3, <1>7, <2>1, <2>2
  <2>4. Levels(procs', trapPend', nested', again')
    BY <1>2, <1>3, <2>1, <2>3 DEF Follows
  <2>5. pc' \in {"start", "exit", "newclause", "error"}
    BY <2>1, <2>2
  <2>6. pc' = "exit" => trapPend' = none
    BY <1>7, <2>1, <2>2
  <2>7. CondIndInv'
    BY <1>4, <2>3, <2>4, <2>5, <2>6 DEF CondIndInv, Positions, Ended, ExitOwesNoCall
  <2>8. Len(procs') <= Len(procs)
    BY <1>1, <1>2, <1>5, <2>1 DEF Follows
  <2>9. CallersKeep
    BY <1>2, <2>1 DEF CallersKeep, Follows
  <2> QED
    BY <2>7, <2>8, <2>9, ShortStep
<1> QED
  BY <1>6, <1>7

LEMMA SetTrapKeeps ==
  ASSUME CondIndInv, NEW c \in Used, NEW how \in {"call", "signal", "off"},
         I_SetTrap(c, how)
  PROVE  StepKeeps
<1> DEFINE pr == Last(procs)
           l == Trap(pr, c, how)
<1>1. /\ Levels(procs, trapPend, nested, again) /\ Sound(procs)
      /\ procs \in Seq(Level) /\ Len(procs) \in Nat /\ Len(procs) >= 1
  BY DEF CondIndInv, Levels, Sound
<1>2. pr \in Level /\ pr = procs[Len(procs)]
  BY <1>1 DEF Last
<1>3. c \in Conds /\ (how = "call" => c \in CallConds)
  BY CondsAssumption DEF I_SetTrap
<1>4. /\ l \in Level /\ l.calltype = pr.calltype /\ l.ip = pr.ip
      /\ l.trapcall = pr.trapcall /\ l.code = pr.code
      /\ l.delayed = pr.delayed \ {c}
  <2>1. CASE how = "call"
    BY <1>2, <1>3, <2>1 DEF Trap, Level
  <2>2. CASE how = "signal"
    BY <1>2, <1>3, <2>2 DEF Trap, Level
  <2>3. CASE how = "off"
    BY <1>2, <1>3, <2>3 DEF Trap, Level
  <2> QED
    BY <2>1, <2>2, <2>3
<1> HIDE DEF l
<1>5. procs' = [procs EXCEPT ![Len(procs)] = l]
  BY <1>1, <1>2 DEF I_SetTrap, l
<1>6. /\ pc' = "over" /\ sets' = sets + 1 /\ sets < MaxSets
      /\ again' = IF RoutineRuns(c) THEN again \cup {c} ELSE again
      /\ trapPend' = trapPend /\ attn' = attn /\ nested' = nested
  BY DEF I_SetTrap
<1>7. /\ again \subseteq again'
      /\ \A i \in 1 .. Len(procs) :
           procs[i].trapcall \in pr.delayed \ l.delayed => procs[i].trapcall \in again'
  <2>1. DOMAIN procs = 1 .. Len(procs)
    BY <1>1
  <2> QED
    BY <1>4, <1>6, <2>1 DEF RoutineRuns
<1>8. Levels([procs EXCEPT ![Len(procs)] = l], trapPend, nested, again')
  <2> HIDE DEF pr
  <2>1. PICK ps, pend, lost, set, new :
          /\ ps = procs /\ pend = trapPend /\ lost = nested /\ set = again
          /\ new = again' /\ Last(ps) = pr
    BY DEF pr
  <2>2. Levels([ps EXCEPT ![Len(ps)] = l], pend, lost, new)
    <3>1. /\ Levels(ps, pend, lost, set) /\ set \subseteq new
          /\ l.delayed \subseteq Last(ps).delayed
          /\ \A i \in 1 .. Len(ps) :
               ps[i].trapcall \in Last(ps).delayed \ l.delayed => ps[i].trapcall \in new
      BY <1>1, <1>4, <1>7, <2>1
    <3> QED
      BY <1>4, <2>1, <3>1, Reset
  <2> QED
    BY <2>1, <2>2
<1>9. Levels(procs', trapPend', nested', again')
  BY <1>5, <1>6, <1>8
<1>10. sets' \in 0 .. MaxSets /\ again' \subseteq Conds
  BY <1>3, <1>6, BoundsAssumption DEF CondIndInv
<1>11. CondIndInv'
  BY <1>6, <1>9, <1>10 DEF CondIndInv, Positions, ExitOwesNoCall
<1>12. /\ Len(procs') = Len(procs)
       /\ \A i \in 1 .. Len(procs) : i # Len(procs) => procs'[i] = procs[i]
  BY <1>1, <1>4, <1>5
<1>13. CallersKeep
  <2>1. I_RoutineLevel(procs) \in 1 .. Len(procs)
    BY <1>1, RoutineLevel
  <2> QED
    BY <1>1, <1>12, <2>1 DEF CallersKeep
<1> QED
  BY <1>1, <1>11, <1>12, <1>13, ShortStep

(* A routine, a function or an INTERPRET is called.                         *)
LEMMA PushKeeps ==
  ASSUME CondIndInv, NEW ct \in {"procedure", "function", "interpret"},
         NEW code \in {"file", "string"}, code = "string" => ct = "interpret",
         NEW ip \in {"newclause", "exitop", "clause", "over"},
         procs' = Append(procs, NewLevel(procs, ct, code, ip)), Inherits,
         pc' \in {"start", "newclause", "interend"},
         pc' = "interend" => ct = "interpret",
         UNCHANGED <<trapPend, attn, sets, again>>
  PROVE  StepKeeps
<1>1. /\ Levels(procs, trapPend, nested, again) /\ Sound(procs)
      /\ procs \in Seq(Level) /\ Len(procs) \in Nat /\ Len(procs) >= 1
  BY DEF CondIndInv, Levels, Sound
<1>2. /\ Levels(procs', trapPend, nested', again) /\ Len(procs') = Len(procs) + 1
      /\ Last(procs').calltype = ct /\ Last(procs').trapcall = none
      /\ \A i \in 1 .. Len(procs) : procs'[i] = procs[i]
  BY <1>1, Pushed DEF Inherits
<1>3. Levels(procs', trapPend', nested', again')
  BY <1>2
<1>4. nested' \subseteq CallConds
  BY <1>1 DEF Inherits, CondIndInv, Levels
<1>5. pc' = "interend" => Running'.calltype = "interpret"
  BY <1>2 DEF Running
<1>6. CondIndInv'
  BY <1>3, <1>4, <1>5 DEF CondIndInv, Positions, ExitOwesNoCall
<1>7. CallersKeep
  <2>1. I_RoutineLevel(procs) \in 1 .. Len(procs)
    BY <1>1, RoutineLevel
  <2> QED
    BY <1>1, <1>2, <2>1 DEF CallersKeep
<1>8. CallsNoneAgain
  BY <1>2 DEF CallsNoneAgain, CallConds, Conds, none
<1> QED
  BY <1>6, <1>7, <1>8 DEF StepKeeps

LEMMA CallKeeps ==
  ASSUME CondIndInv, NEW ct \in {"procedure", "function"}, I_CallFunction(ct)
  PROVE  StepKeeps
<1> DEFINE ip == IF ct = "procedure" THEN "over" ELSE "clause"
<1>1. /\ procs' = Append(procs, NewLevel(procs, ct, "file", ip)) /\ Inherits
      /\ pc' = "start" /\ UNCHANGED <<trapPend, attn, sets, again>>
  BY DEF I_CallFunction, I_MakeArgs
<1>2. ip \in {"newclause", "exitop", "clause", "over"}
  OBVIOUS
<1> HIDE DEF ip
<1> QED
  BY <1>1, <1>2, PushKeeps

LEMMA InterpretKeeps ==
  ASSUME CondIndInv, RxInitInterStr
  PROVE  StepKeeps
<1>1. CASE /\ procs' = Append(procs, NewLevel(procs, "interpret", "string", "over"))
           /\ pc' \in {"newclause", "interend"} /\ Inherits /\ UNCHANGED trapPend
  BY <1>1, PushKeeps DEF RxInitInterStr
<1>2. CASE Becomes(Rerror(procs, trapPend))
  BY <1>2, ErrorKeeps DEF RxInitInterStr
<1> QED
  BY <1>1, <1>2 DEF RxInitInterStr

(* What leaves levels and raises nothing: nested' is nested, as the level   *)
(* that goes on has no more conditions in DELAY than before.                *)
LEMMA LeaveKeeps ==
  ASSUME CondIndInv, NEW rs, NEW ip \in {"newclause", "exitop", "clause", "over"},
         Levels(rs, trapPend, nested, again), Len(rs) < Len(procs),
         I_RoutineLevel(procs) - 1 <= Len(rs),
         \A i \in 1 .. I_RoutineLevel(procs) - 1 :
           rs[i].condition = procs[i].condition /\ rs[i].callcond = procs[i].callcond,
         Becomes(Outcome(rs, trapPend, ip)), UNCHANGED <<attn, sets, again>>
  PROVE  StepKeeps
<1>1. /\ procs' = rs /\ trapPend' = trapPend /\ pc' = ip
      /\ nested' = nested \cup Shut(Outcome(rs, trapPend, ip))
  BY DEF Becomes, Outcome
<1>2. Shut(Outcome(rs, trapPend, ip)) = {}
  <2>1. Outcome(rs, trapPend, ip).procs = rs
    BY DEF Outcome
  <2>2. Len(rs) # Len(procs)
    BY DEF CondIndInv, Levels, Sound
  <2> QED
    BY <2>1, <2>2 DEF Shut
<1>3. nested' = nested
  BY <1>1, <1>2
<1>4. CondIndInv'
  BY <1>1, <1>3 DEF CondIndInv, Positions, ExitOwesNoCall
<1>5. Len(procs') <= Len(procs)
  BY <1>1 DEF CondIndInv, Levels, Sound
<1>6. CallersKeep
  BY <1>1 DEF CallersKeep
<1> QED
  BY <1>4, <1>5, <1>6, ShortStep

LEMMA ReturnKeeps ==
  ASSUME CondIndInv, NEW value \in BOOLEAN, OP_RETURN(value)
  PROVE  StepKeeps
<1> DEFINE level == I_RoutineLevel(procs)
           rs == I_ReturnProc(LeaveInterprets(procs))
<1>1. /\ Levels(procs, trapPend, nested, again) /\ Sound(procs)
      /\ procs \in Seq(Level) /\ Len(procs) \in Nat /\ Len(procs) >= 1
  BY DEF CondIndInv, Levels, Sound
<1>2. level \in 1 .. Len(procs)
  BY <1>1, RoutineLevel
<1>3. CASE Becomes(Rerror(procs, trapPend))
  BY <1>3, ErrorKeeps DEF OP_RETURN
<1>4. CASE Becomes(Outcome(procs, trapPend, "return"))
  <2>1. /\ procs' = procs /\ trapPend' = trapPend /\ pc' = "return"
        /\ nested' = nested \cup Shut(Outcome(procs, trapPend, "return"))
    BY <1>4 DEF Becomes, Outcome
  <2>2. Shut(Outcome(procs, trapPend, "return")) = {}
    BY DEF Shut, Outcome, Running
  <2>3. nested' = nested /\ UNCHANGED <<attn, sets, again>>
    BY <2>1, <2>2 DEF OP_RETURN
  <2>4. CondIndInv'
    BY <2>1, <2>3 DEF CondIndInv, Ended, ExitOwesNoCall
  <2>5. CallersKeep
    BY <2>1 DEF CallersKeep
  <2> QED
    BY <1>1, <2>1, <2>4, <2>5, ShortStep
<1>5. CASE level # 1 /\ Becomes(Outcome(rs, trapPend, procs[level].ip))
  <2>1. /\ Levels(rs, trapPend, nested, again) /\ Len(rs) = level - 1
        /\ \A i \in 1 .. level - 1 : /\ rs[i].condition = procs[i].condition
                                     /\ rs[i].callcond = procs[i].callcond
    BY <1>1, <1>5, Returned
  <2>2. PICK ip : ip = procs[level].ip
    OBVIOUS
  <2>3. ip \in {"newclause", "exitop", "clause", "over"}
    BY <1>1, <1>2, <2>2 DEF Sound
  <2>4. Becomes(Outcome(rs, trapPend, ip)) /\ UNCHANGED <<attn, sets, again>>
    BY <1>5, <2>2 DEF OP_RETURN
  <2>5. Len(rs) < Len(procs) /\ level - 1 <= Len(rs)
    BY <1>1, <1>2, <2>1
  <2> HIDE DEF rs
  <2>6. PICK qs : qs = rs
    OBVIOUS
  <2> QED
    BY <2>1, <2>3, <2>4, <2>5, <2>6, LeaveKeeps
<1> QED
  BY <1>3, <1>4, <1>5 DEF OP_RETURN

LEMMA DoneKeeps ==
  ASSUME CondIndInv, RxDoneInterStr
  PROVE  StepKeeps
<1> DEFINE n == Len(procs)
           k == n - 1
<1>1. /\ Levels(procs, trapPend, nested, again) /\ Sound(procs)
      /\ procs \in Seq(Level) /\ n \in Nat /\ n >= 1
  BY DEF CondIndInv, Levels, Sound
<1>2. procs[n].calltype = "interpret"
  BY DEF CondIndInv, RxDoneInterStr, Running, Last
<1>3. n # 1
  BY <1>1, <1>2 DEF Sound
<1>4. k \in 1 .. n /\ \A i \in 1 .. n : i > k => procs[i].calltype = "interpret"
  <2>1. PICK m \in Nat : m = n /\ m >= 2
    BY <1>1, <1>3
  <2>2. m - 1 \in 1 .. m /\ \A i \in 1 .. m : i > m - 1 => i = m
    BY <2>1
  <2> QED
    BY <1>2, <2>1, <2>2
<1>5. /\ Levels(Front(procs), trapPend, nested, again) /\ Len(Front(procs)) = k
      /\ \A i \in 1 .. k : Front(procs)[i] = procs[i]
  BY <1>1, <1>4, Cut DEF Front
<1>6. I_RoutineLevel(procs) \in 1 .. n /\ I_RoutineLevel(procs) # n
  BY <1>1, <1>2, RoutineLevel
<1>7. PICK ip, rs : ip = Running.ip /\ rs = Front(procs)
  OBVIOUS
<1>8. ip \in {"newclause", "exitop", "clause", "over"}
  BY <1>1, <1>7 DEF Sound, Running, Last
<1>9. Becomes(Outcome(rs, trapPend, ip)) /\ UNCHANGED <<attn, sets, again>>
  BY <1>7 DEF RxDoneInterStr
<1>10. /\ Levels(rs, trapPend, nested, again) /\ Len(rs) < Len(procs)
       /\ I_RoutineLevel(procs) - 1 <= Len(rs)
       /\ \A i \in 1 .. I_RoutineLevel(procs) - 1 :
            rs[i].condition = procs[i].condition /\ rs[i].callcond = procs[i].callcond
  BY <1>1, <1>5, <1>6, <1>7
<1> QED
  BY <1>8, <1>9, <1>10, LeaveKeeps

LEMMA JumpKeeps ==
  ASSUME CondIndInv, OP_SIGNAL
  PROVE  StepKeeps
<1> DEFINE pr == Last(procs)
           l == [pr EXCEPT !.code = "file"]
<1>1. /\ Levels(procs, trapPend, nested, again) /\ Sound(procs)
      /\ procs \in Seq(Level) /\ Len(procs) \in Nat /\ Len(procs) >= 1
  BY DEF CondIndInv, Levels, Sound
<1>2. pr \in Level /\ pr = procs[Len(procs)]
  BY <1>1 DEF Last
<1>3. /\ l \in Level /\ l.calltype = pr.calltype /\ l.ip = pr.ip
      /\ l.trapcall = pr.trapcall /\ l.code = "file" /\ l.delayed = pr.delayed
  BY <1>2 DEF Level
<1>4. procs' = [procs EXCEPT ![Len(procs)] = l]
  BY <1>1, <1>2 DEF OP_SIGNAL
<1> HIDE DEF l
<1>5. Levels([procs EXCEPT ![Len(procs)] = l], trapPend, nested, again)
  BY <1>1, <1>3, Reset
<1>6. pc' = "newclause" /\ UNCHANGED <<trapPend, attn, sets, again, nested>>
  BY DEF OP_SIGNAL
<1>7. Levels(procs', trapPend', nested', again')
  BY <1>4, <1>5, <1>6
<1>8. CondIndInv'
  BY <1>6, <1>7 DEF CondIndInv, Positions, ExitOwesNoCall
<1>9. /\ Len(procs') = Len(procs)
      /\ \A i \in 1 .. Len(procs) : i # Len(procs) => procs'[i] = procs[i]
  BY <1>1, <1>3, <1>4
<1>10. CallersKeep
  <2>1. I_RoutineLevel(procs) \in 1 .. Len(procs)
    BY <1>1, RoutineLevel
  <2> QED
    BY <1>1, <1>9, <2>1 DEF CallersKeep
<1> QED
  BY <1>1, <1>8, <1>9, <1>10, ShortStep

(* Steps that leave the levels as they are, and stuttering.                 *)
LEMMA SameLevels ==
  ASSUME CondIndInv, UNCHANGED <<procs, trapPend, sets, again, nested>>,
         attn' \in BOOLEAN, pc' \in Positions \cup Ended,
         pc' = "interend" => Running.calltype = "interpret",
         pc' = "exit" => pc = "exit"
  PROVE  StepKeeps
<1>1. CondIndInv'
  BY DEF CondIndInv, ExitOwesNoCall, Running
<1>2. Len(procs') <= Len(procs)
  BY DEF CondIndInv, Levels, Sound
<1>3. CallersKeep
  BY DEF CallersKeep
<1> QED
  BY <1>1, <1>2, <1>3, ShortStep

LEMMA EndClauseKeeps ==
  ASSUME CondIndInv, EndClause
  PROVE  StepKeeps
<1>1. Running.code = "string" => Running.calltype = "interpret"
  BY DEF CondIndInv, Levels, Sound, Running, Last
<1> QED
  BY <1>1, SameLevels DEF EndClause, CondIndInv, Positions

LEMMA StepLemma ==
  ASSUME CondIndInv, [Next]_vars
  PROVE  StepKeeps
<1>1. CASE OP_NEWCLAUSE
  BY <1>1, ReadKeeps DEF OP_NEWCLAUSE
<1>2. CASE OP_EXIT
  BY <1>2, ReadKeeps DEF OP_EXIT
<1>3. ASSUME NEW c \in Used, NEW how \in {"call", "signal", "off"}, I_SetTrap(c, how)
      PROVE  StepKeeps
  BY <1>3, SetTrapKeeps
<1>4. ASSUME NEW negative \in BOOLEAN, RxExecuteCmd(negative)
      PROVE  StepKeeps
  <2>1. PICK c : /\ c \in Running.condition
                 /\ Becomes(RxSignalCondition(procs, trapPend, c, "over"))
                 /\ UNCHANGED <<attn, sets, again>>
    BY <1>4 DEF RxExecuteCmd
  <2> QED
    BY <2>1, SignalKeeps
<1>5. ASSUME NEW c \in {"NOTREADY", "NOVALUE"}, RaiseInExpression(c)
      PROVE  StepKeeps
  BY <1>5, SignalKeeps DEF RaiseInExpression
<1>6. CASE RunTimeError
  BY <1>6, ErrorKeeps DEF RunTimeError
<1>7. ASSUME NEW ct \in {"procedure", "function"}, I_CallFunction(ct)
      PROVE  StepKeeps
  BY <1>7, CallKeeps
<1>8. ASSUME NEW value \in BOOLEAN, OP_RETURN(value)
      PROVE  StepKeeps
  BY <1>8, ReturnKeeps
<1>9. CASE RxInitInterStr
  BY <1>9, InterpretKeeps
<1>10. CASE RxDoneInterStr
  BY <1>10, DoneKeeps
<1>11. CASE OP_SIGNAL
  BY <1>11, JumpKeeps
<1>12. CASE C_exit
  BY <1>12, SameLevels DEF C_exit, CondIndInv, Positions
<1>13. CASE EndClause
  BY <1>13, EndClauseKeeps
<1>14. CASE RxAttn
  BY <1>14, SameLevels DEF RxAttn, CondIndInv
<1>15. CASE UNCHANGED vars
  BY <1>15, SameLevels DEF vars, CondIndInv
<1> QED
  BY <1>1, <1>2, <1>3, <1>4, <1>5, <1>6, <1>7, <1>8, <1>9, <1>10, <1>11,
     <1>12, <1>13, <1>14, <1>15 DEF Next

LEMMA InitLemma ==
  ASSUME Init
  PROVE  CondIndInv
<1>1. Root \in Level
  BY DEF Root, Level, Positions, Conds, CallConds
<1>2. /\ procs \in Seq(Level) /\ Len(procs) = 1 /\ procs[1] = Root /\ procs # <<>>
      /\ \A i \in 1 .. Len(procs) : procs[i] = Root
  BY <1>1 DEF Init
<1>3. Sound(procs)
  BY <1>2 DEF Sound, Root
<1>4. Owed(procs, trapPend, nested)
  BY <1>2 DEF Owed, Root
<1>5. Alone(procs, trapPend, again)
  BY <1>2 DEF Alone, Root, CallConds, Conds, none
<1>6. Levels(procs, trapPend, nested, again)
  BY <1>3, <1>4, <1>5 DEF Levels, Init
<1>7. sets \in 0 .. MaxSets
  BY BoundsAssumption DEF Init
<1> QED
  BY <1>6, <1>7 DEF CondIndInv, Init, Positions, ExitOwesNoCall

(* What a program does with its traps keeps the invariant: the levels are   *)
(* sound, each DELAY has who ends it, and a running routine is alone.       *)
THEOREM Inductive == Spec => []CondIndInv
<1>1. CondIndInv /\ [Next]_vars => CondIndInv'
  BY StepLemma DEF StepKeeps
<1> QED
  BY InitLemma, <1>1, PTL DEF Spec

-----------------------------------------------------------------------------
(* Type correctness, a delay whose condition was not marked behind another  *)
(* is ended by a routine that runs or is pending (DelayEndsUnlessNested),   *)
(* and a program that reaches its EXIT owes no routine its call.            *)
THEOREM CondCorrect == Spec => []CondInv
<1>1. CondIndInv => CondInv
  <2> SUFFICES ASSUME CondIndInv PROVE CondInv
    OBVIOUS
  <2>1. Sound(procs) /\ Owed(procs, trapPend, nested)
    BY DEF CondIndInv, Levels
  <2>2. TypeOK
    BY <2>1 DEF TypeOK, CondIndInv, Levels, Sound
  <2>3. DelayEndsUnlessNested
    <3>1. DOMAIN procs = 1 .. Len(procs) /\ Len(procs) \in Nat
      BY <2>1 DEF Sound
    <3> SUFFICES ASSUME NEW i \in 1 .. Len(procs), NEW c \in InDelay(i) \ nested,
                        ~RoutineRuns(c)
                 PROVE  trapPend = c
      BY <3>1 DEF DelayEndsUnlessNested
    <3>2. c \in procs[i].delayed \ nested
      BY DEF InDelay
    <3>3. \A j \in 1 .. Len(procs) : procs[j].trapcall # c
      BY <3>1 DEF RoutineRuns
    <3>4. \/ \E j \in 1 .. i : procs[j].trapcall = c
          \/ i < Len(procs) /\ procs[i + 1].trapcall = c
          \/ i = Len(procs) /\ trapPend = c
      BY <2>1, <3>2 DEF Owed
    <3>5. ~ \E j \in 1 .. i : procs[j].trapcall = c
      BY <3>1, <3>3
    <3>6. ~(i < Len(procs) /\ procs[i + 1].trapcall = c)
      BY <3>1, <3>3
    <3> QED
      BY <3>4, <3>5, <3>6
  <2>4. ExitOwesNoCall
    BY DEF CondIndInv
  <2> QED
    BY <2>2, <2>3, <2>4 DEF CondInv
<1> QED
  BY Inductive, <1>1, PTL

(* In DELAY a second ERROR is ignored: however deep the program calls and   *)
(* interprets, no CALL ON routine interrupts itself, unless the condition   *)
(* was set by an ON or OFF since.                                           *)
THEOREM NoRoutineTwice == Spec => NoRoutineInterruptsItself
<1>1. CondIndInv /\ [Next]_vars => CallsNoneAgain
  BY StepLemma DEF StepKeeps
<1>2. Spec => [][CallsNoneAgain]_vars
  BY Inductive, <1>1, PTL DEF Spec
<1> QED
  BY <1>2, PTL DEF NoRoutineInterruptsItself, CallsNoneAgain

(* A caller keeps its own traps, whatever the routine it called does.       *)
THEOREM CallersCorrect == Spec => CallerKeepsItsTraps
<1>1. CondIndInv /\ [Next]_vars => CallersKeep
  BY StepLemma DEF StepKeeps
<1>2. Spec => [][CallersKeep]_vars
  BY Inductive, <1>1, PTL DEF Spec
<1> QED
  BY <1>2, PTL DEF CallerKeepsItsTraps, CallersKeep
=============================================================================
