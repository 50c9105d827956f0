----------------------------- MODULE Files_proofs -----------------------------
(***************************************************************************)
(* Proofs about Files, for any data sets, any number of streams and any    *)
(* size of the table: FilesSound and ImplicitOpenKeeps.                    *)
(*                                                                         *)
(* Most functions of the C library and of rxfiles.c move positions and     *)
(* flags only.  Kept says so of two states, and that no data set loses     *)
(* what it held; it is all that is needed of them, however many lines they *)
(* read.  What opens, closes and replaces streams is taken one by one.     *)
(*                                                                         *)
(* The second half is about what the exec sees of a stream: its two        *)
(* positions, its lines, and how it is found or opened; the calls that     *)
(* open, close and clear a stream are taken here.  Streams_proofs rests on *)
(* it.                                                                     *)
(***************************************************************************)
EXTENDS Files, FiniteSetTheorems, SequenceTheorems, NaturalsInduction, WellFoundedInduction, TLAPS

Chars == {LF, "x"}                          \* what the exec writes
Sound0(d) == d \in Seq(Chars) \/ d = Absent

IsState(s) == s = [data |-> s.data, fp |-> s.fp, file |-> s.file]
IsStream(x) ==
  /\ x = [name |-> x.name, mode |-> x.mode, pos |-> x.pos, eof |-> x.eof]
  /\ x.pos \in Nat
IsSlot(x) ==
  /\ x = [name |-> x.name, f |-> x.f, rpos |-> x.rpos, wpos |-> x.wpos, flags |-> x.flags]
  /\ x.rpos \in Nat /\ x.wpos \in Int /\ x.wpos >= -1

(* The state s of an exec that uses the data sets N.                        *)
Typed(N, s) ==
  /\ IsState(s)
  /\ DOMAIN s.data = N \union Std /\ N \subseteq P!Names
  /\ \A n \in N \union Std : Sound0(s.data[n])
  /\ \A n \in Sysout \union Std : n \in DOMAIN s.data => s.data[n] = << >>
  /\ \A f \in DOMAIN s.fp : IsStream(s.fp[f])
  /\ DOMAIN s.fp \subseteq Nat \ {NULL} /\ IsFiniteSet(DOMAIN s.fp)
  /\ \E k \in Nat : k > FSTDERR + 1 /\ DOMAIN s.file = 0 .. k - 1
  /\ \A i \in DOMAIN s.file : IsSlot(s.file[i])

SharedStderr(s, i) == Shared /\ i = FSTDERR /\ s.file[FSTDERR].name = "<STDERR>"

(* Slot i has the C stream f, with the name and the mode it should have.    *)
Has(s, i, f) ==
  /\ f \in DOMAIN s.fp
  /\ s.fp[f].name = s.file[i].name \/ (SharedStderr(s, i) /\ s.fp[f].name = "<STDOUT>")
  /\ "WRITE" \in s.file[i].flags <=> s.fp[f].mode # "r"

(* The slots have the C streams, but for those of H, which have none now.   *)
Owned(s, H) ==
  /\ \A i \in H : i \in Named(s) /\ i \notin {FSTDIN, FSTDOUT}
  /\ \A i \in Named(s) \ H : Has(s, i, s.file[i].f)
  /\ \A i, j \in Named(s) \ H : i # j /\ s.file[i].f = s.file[j].f =>
       Shared /\ {i, j} = {FSTDOUT, FSTDERR} /\ s.file[FSTDERR].name = "<STDERR>"
  /\ \A f \in DOMAIN s.fp : s.fp[f].name \in Std \/ \E i \in Named(s) \ H : s.file[i].f = f

(* Where the standard streams are.                                          *)
StdPlaced(s) ==
  /\ s.file[FSTDIN].name = "<STDIN>" /\ s.file[FSTDOUT].name = "<STDOUT>"
  /\ \A i \in DOMAIN s.file : s.file[i].name \in Std =>
       i \in {FSTDIN, FSTDOUT} \/ (i = FSTDERR /\ s.file[i].name = "<STDERR>")

(* What the C library allows: a data set that is written is open once.      *)
Allowed(N, s) ==
  /\ \A f \in DOMAIN s.fp : s.fp[f].name \in N \union Std
  /\ \A f \in DOMAIN s.fp : s.fp[f].name \in N => s.data[s.fp[f].name] # Absent
  /\ \A f \in DOMAIN s.fp : s.fp[f].name \in Sysout => s.fp[f].mode # "r"
  /\ \A f, g \in DOMAIN s.fp : f # g /\ s.fp[f].name = s.fp[g].name /\ s.fp[f].name \in N =>
       s.fp[f].mode = "r"

TableSound(N, s, H) == Typed(N, s) /\ Owned(s, H) /\ StdPlaced(s) /\ Allowed(N, s)

(* The invariant.  After RxDoneFiles() there is no table.                   *)
FilesInv ==
  IF file = << >> THEN \A f \in DOMAIN fp : fp[f].name \in Std
  ELSE TableSound(Names, Calling, {})

NoLoss(s, t) ==
  \A n \in DOMAIN s.data : s.data[n] # Absent =>
    t.data[n] # Absent /\ Len(s.data[n]) <= Len(t.data[n])

(* From s to t positions, flags and what was written changed, and no data   *)
(* set lost anything.                                                       *)
Kept(s, t) ==
  /\ IsState(t)
  /\ DOMAIN t.data = DOMAIN s.data /\ NoLoss(s, t)
  /\ \A n \in DOMAIN s.data : Sound0(t.data[n])
  /\ \A n \in Sysout \union Std : n \in DOMAIN s.data => t.data[n] = s.data[n]
  /\ DOMAIN t.fp = DOMAIN s.fp
  /\ \A f \in DOMAIN s.fp :
       IsStream(t.fp[f]) /\ t.fp[f].name = s.fp[f].name /\ t.fp[f].mode = s.fp[f].mode
  /\ DOMAIN t.file = DOMAIN s.file
  /\ \A i \in DOMAIN s.file :
       /\ IsSlot(t.file[i])
       /\ t.file[i].name = s.file[i].name /\ t.file[i].f = s.file[i].f
       /\ "WRITE" \in t.file[i].flags <=> "WRITE" \in s.file[i].flags

-----------------------------------------------------------------------------
(* Numbers and sequences.                                                   *)

(* A set of numbers that is not empty has a least one.                      *)
LEMMA LeastNat ==
  ASSUME NEW T, T \subseteq Nat, T # {}
  PROVE  Min(T) \in T /\ \A m \in T : Min(T) <= m
<1> DEFINE R == OpToRel(<, Nat)
<1>1. IsWellFoundedOn(R, Nat)
  BY NatLessThanWellFounded
<1>2. PICK n \in T : \A m \in T : ~(<<m, n>> \in R)
  <2> HIDE DEF R
  <2> QED
    BY <1>1, WFMin
<1>3. R = {ss \in Nat \X Nat : ss[1] < ss[2]}
  BY Zenon DEF OpToRel
<1>4. \A m \in T : ~(m < n)
  <2> HIDE DEF R
  <2> QED
    BY <1>2, <1>3
<1>5. \E x \in T : \A y \in T : x <= y
  BY <1>4
<1> QED
  BY <1>5 DEF Min

LEMMA LesserOf ==
  ASSUME NEW a \in Int, NEW b \in Int
  PROVE  Min({a, b}) = IF a <= b THEN a ELSE b
<1>1. \E x \in {a, b} : \A y \in {a, b} : x <= y
  OBVIOUS
<1> QED
  BY <1>1 DEF Min

LEMMA GreaterOf ==
  ASSUME NEW a \in Int, NEW b \in Int
  PROVE  Max({a, b}) = IF a >= b THEN a ELSE b
<1>1. \E x \in {a, b} : \A y \in {a, b} : x >= y
  OBVIOUS
<1> QED
  BY <1>1 DEF Max

(* What is put into a data set is no shorter than what was there.           *)
LEMMA PutKeeps ==
  ASSUME NEW c \in Seq(Chars), NEW p \in 0 .. Len(c), NEW t \in Seq(Chars)
  PROVE  P!Put(c, p, t) \in Seq(Chars) /\ Len(c) <= Len(P!Put(c, p, t))
<1>1. CASE t = << >>
  BY <1>1 DEF P!Put
<1>2. CASE t # << >>
  <2> DEFINE before == SubSeq(c, 1, p)
             after == SubSeq(c, p + Len(t) + 1, Len(c))
  <2>1. Len(c) \in Nat /\ p \in Nat /\ Len(t) \in Nat /\ DOMAIN c = 1 .. Len(c)
    OBVIOUS
  <2>2. before \in Seq(Chars) /\ Len(before) = p
    <3>1. \A i \in 1 .. p : c[i] \in Chars
      BY <2>1
    <3> QED
      BY <2>1, <3>1, SubSeqProperties
  <2>3. after \in Seq(Chars) /\ Len(after) = IF p + Len(t) + 1 <= Len(c) THEN Len(c) - p - Len(t) ELSE 0
    <3>1. \A i \in p + Len(t) + 1 .. Len(c) : c[i] \in Chars
      BY <2>1
    <3>2. p + Len(t) + 1 \in Int
      BY <2>1
    <3> DEFINE m == p + Len(t) + 1
    <3> HIDE DEF m
    <3>3. SubSeq(c, m, Len(c)) \in Seq(Chars) /\ Len(SubSeq(c, m, Len(c))) = IF m <= Len(c) THEN Len(c) - m + 1 ELSE 0
      BY <2>1, <3>1, <3>2, SubSeqProperties DEF m
    <3> QED
      BY <2>1, <3>3 DEF m
  <2> HIDE DEF before, after
  <2>4. before \o t \in Seq(Chars) /\ Len(before \o t) = p + Len(t)
    BY <2>2, ConcatProperties
  <2>5. before \o t \o after \in Seq(Chars) /\ Len(before \o t \o after) = p + Len(t) + Len(after)
    BY <2>3, <2>4, ConcatProperties
  <2>6. P!Put(c, p, t) = before \o t \o after
    BY <1>2 DEF P!Put, before, after
  <2> HIDE DEF P!Put
  <2>7. Len(c) <= p + Len(t) + Len(after)
    <3>1. \A a, q, b, l \in Int :
            l = (IF q + b + 1 <= a THEN a - q - b ELSE 0) => a <= q + b + l
      OBVIOUS
    <3>2. Len(after) \in Int
      BY <2>3, LenProperties
    <3>3. Len(c) \in Int /\ p \in Int /\ Len(t) \in Int
      BY <2>1
    <3>4. Len(after) = IF p + Len(t) + 1 <= Len(c) THEN Len(c) - p - Len(t) ELSE 0
      BY <2>3
    <3> QED
      BY <3>1, <3>2, <3>3, <3>4
  <2> QED
    BY <2>5, <2>6, <2>7
<1> QED
  BY <1>1, <1>2

(* What is read is characters.                                              *)
LEMMA ReadsChars ==
  ASSUME NEW c \in Seq(Chars), NEW p \in Nat, NEW n \in Int
  PROVE  SubSeq(c, p + 1, Min({p + n, Len(c)})) \in Seq(Chars)
<1>1. Len(c) \in Nat /\ DOMAIN c = 1 .. Len(c)
  OBVIOUS
<1>2. Min({p + n, Len(c)}) \in Int /\ Min({p + n, Len(c)}) <= Len(c)
  BY <1>1, LesserOf
<1> DEFINE m == Min({p + n, Len(c)})
<1> HIDE DEF m
<1>3. \A i \in p + 1 .. m : c[i] \in Chars
  BY <1>1, <1>2 DEF m
<1>4. p + 1 \in Int /\ m \in Int
  BY <1>2 DEF m
<1>5. SubSeq(c, p + 1, m) \in Seq(Chars)
  BY <1>3, <1>4, SubSeqProperties
<1> QED
  BY <1>5 DEF m

-----------------------------------------------------------------------------
(* Kept.                                                                    *)

LEMMA KeptSelf ==
  ASSUME NEW N, NEW s, NEW H, TableSound(N, s, H)
  PROVE  Kept(s, s)
<1>1. \A n \in DOMAIN s.data : Sound0(s.data[n])
  BY DEF TableSound, Typed
<1>2. NoLoss(s, s)
  BY <1>1 DEF NoLoss, Sound0
<1> QED
  BY <1>1, <1>2 DEF TableSound, Typed, Kept

LEMMA KeptThen ==
  ASSUME NEW N, NEW s, NEW H, TableSound(N, s, H), NEW t, NEW u, Kept(s, t), Kept(t, u)
  PROVE  Kept(s, u)
<1>1. DOMAIN u.data = DOMAIN s.data /\ \A n \in DOMAIN s.data : Sound0(u.data[n])
  BY DEF Kept
<1>2. NoLoss(s, u)
  <2> SUFFICES ASSUME NEW n \in DOMAIN s.data, s.data[n] # Absent
               PROVE  u.data[n] # Absent /\ Len(s.data[n]) <= Len(u.data[n])
    BY DEF NoLoss
  <2>1. Sound0(s.data[n]) /\ Sound0(t.data[n]) /\ Sound0(u.data[n])
    BY DEF TableSound, Typed, Kept
  <2>2. t.data[n] # Absent /\ Len(s.data[n]) <= Len(t.data[n])
    BY DEF Kept, NoLoss
  <2>3. u.data[n] # Absent /\ Len(t.data[n]) <= Len(u.data[n])
    BY <2>2 DEF Kept, NoLoss
  <2>4. s.data[n] \in Seq(Chars) /\ t.data[n] \in Seq(Chars) /\ u.data[n] \in Seq(Chars)
    BY <2>1, <2>2, <2>3 DEF Sound0
  <2>5. Len(s.data[n]) \in Nat /\ Len(t.data[n]) \in Nat /\ Len(u.data[n]) \in Nat
    BY <2>4, LenProperties
  <2> QED
    BY <2>2, <2>3, <2>5
<1>3. \A n \in Sysout \union Std : n \in DOMAIN s.data => u.data[n] = s.data[n]
  BY DEF Kept
<1>4. /\ DOMAIN u.fp = DOMAIN s.fp
      /\ \A f \in DOMAIN s.fp :
           IsStream(u.fp[f]) /\ u.fp[f].name = s.fp[f].name /\ u.fp[f].mode = s.fp[f].mode
  BY DEF Kept
<1>5. /\ DOMAIN u.file = DOMAIN s.file
      /\ \A i \in DOMAIN s.file :
           /\ IsSlot(u.file[i])
           /\ u.file[i].name = s.file[i].name /\ u.file[i].f = s.file[i].f
           /\ "WRITE" \in u.file[i].flags <=> "WRITE" \in s.file[i].flags
  BY DEF Kept
<1> QED
  BY <1>1, <1>2, <1>3, <1>4, <1>5 DEF Kept

(* What is kept stays sound.                                                *)
LEMMA KeptSound ==
  ASSUME NEW N, NEW s, NEW H, TableSound(N, s, H), NEW t, Kept(s, t)
  PROVE  TableSound(N, t, H)
<1>1. Typed(N, t)
  <2>1. IsState(t) /\ DOMAIN t.data = N \union Std /\ N \subseteq P!Names
    BY DEF TableSound, Typed, Kept
  <2>2. \A n \in N \union Std : Sound0(t.data[n])
    BY DEF TableSound, Typed, Kept
  <2>3. \A n \in Sysout \union Std : n \in DOMAIN t.data => t.data[n] = << >>
    BY DEF TableSound, Typed, Kept
  <2>4. /\ \A f \in DOMAIN t.fp : IsStream(t.fp[f])
        /\ DOMAIN t.fp \subseteq Nat \ {NULL} /\ IsFiniteSet(DOMAIN t.fp)
    BY DEF TableSound, Typed, Kept
  <2>5. /\ \E k \in Nat : k > FSTDERR + 1 /\ DOMAIN t.file = 0 .. k - 1
        /\ \A i \in DOMAIN t.file : IsSlot(t.file[i])
    BY DEF TableSound, Typed, Kept
  <2> QED
    BY <2>1, <2>2, <2>3, <2>4, <2>5 DEF Typed
<1>2. /\ Named(t) = Named(s)
      /\ \A i \in Named(s) : i \in DOMAIN s.file
  BY DEF Kept, Named
<1>3. FSTDERR \in DOMAIN s.file
  BY DEF TableSound, Typed, FSTDERR
<1>4. \A i : SharedStderr(t, i) <=> SharedStderr(s, i)
  BY <1>3 DEF SharedStderr, Kept
<1>5. Owned(t, H)
  <2>1. \A i \in H : i \in Named(t) /\ i \notin {FSTDIN, FSTDOUT}
    BY <1>2 DEF TableSound, Owned
  <2>2. ASSUME NEW i \in Named(t) \ H PROVE Has(t, i, t.file[i].f)
    <3>1. Has(s, i, s.file[i].f) /\ i \in DOMAIN s.file
      BY <1>2, <2>2 DEF TableSound, Owned
    <3>2. t.file[i].f = s.file[i].f /\ t.file[i].name = s.file[i].name
          /\ ("WRITE" \in t.file[i].flags <=> "WRITE" \in s.file[i].flags)
      BY <3>1 DEF Kept
    <3> QED
      BY <3>1, <3>2, <1>4 DEF Has, Kept
  <2>3. ASSUME NEW i \in Named(t) \ H, NEW j \in Named(t) \ H, i # j, t.file[i].f = t.file[j].f
        PROVE  Shared /\ {i, j} = {FSTDOUT, FSTDERR} /\ t.file[FSTDERR].name = "<STDERR>"
    <3>1. s.file[i].f = s.file[j].f /\ t.file[FSTDERR].name = s.file[FSTDERR].name
      BY <1>2, <1>3, <2>3 DEF Kept
    <3> QED
      BY <1>2, <2>3, <3>1 DEF TableSound, Owned
  <2>4. ASSUME NEW f \in DOMAIN t.fp
        PROVE  t.fp[f].name \in Std \/ \E i \in Named(t) \ H : t.file[i].f = f
    <3>1. f \in DOMAIN s.fp /\ t.fp[f].name = s.fp[f].name
      BY <2>4 DEF Kept
    <3>2. \A i \in Named(s) : t.file[i].f = s.file[i].f
      BY <1>2 DEF Kept
    <3>3. s.fp[f].name \in Std \/ \E i \in Named(s) \ H : s.file[i].f = f
      BY <3>1 DEF TableSound, Owned
    <3> QED
      BY <1>2, <3>1, <3>2, <3>3
  <2> QED
    BY <2>1, <2>2, <2>3, <2>4 DEF Owned
<1>6. StdPlaced(t)
  <2>1. {FSTDIN, FSTDOUT} \subseteq DOMAIN s.file
    BY DEF TableSound, Typed, FSTDERR, FSTDIN, FSTDOUT
  <2> QED
    BY <2>1 DEF TableSound, StdPlaced, Kept
<1>7. Allowed(N, t)
  <2>1. \A f \in DOMAIN t.fp : t.fp[f].name \in N \union Std
    BY DEF TableSound, Allowed, Kept
  <2>2. \A f \in DOMAIN t.fp : t.fp[f].name \in N => t.data[t.fp[f].name] # Absent
    BY DEF TableSound, Allowed, Kept, NoLoss, Typed
  <2>3. \A f \in DOMAIN t.fp : t.fp[f].name \in Sysout => t.fp[f].mode # "r"
    BY DEF TableSound, Allowed, Kept
  <2>4. \A f, g \in DOMAIN t.fp : f # g /\ t.fp[f].name = t.fp[g].name /\ t.fp[f].name \in N =>
          t.fp[f].mode = "r"
    BY DEF TableSound, Allowed, Kept
  <2> QED
    BY <2>1, <2>2, <2>3, <2>4 DEF Allowed
<1> QED
  BY <1>1, <1>5, <1>6, <1>7 DEF TableSound

(* A stream with another position, a slot with other positions and flags.   *)
LEMMA StreamKept ==
  ASSUME NEW N, NEW s, NEW H, TableSound(N, s, H), NEW f \in DOMAIN s.fp, NEW x, IsStream(x),
         x.name = s.fp[f].name, x.mode = s.fp[f].mode
  PROVE  Kept(s, [s EXCEPT !.fp[f] = x])
<1> DEFINE t == [s EXCEPT !.fp[f] = x]
<1>1. s = [data |-> s.data, fp |-> s.fp, file |-> s.file]
  BY DEF TableSound, Typed, IsState
<1>2. t.data = s.data /\ t.file = s.file /\ t.fp = [s.fp EXCEPT ![f] = x]
      /\ t = [data |-> t.data, fp |-> t.fp, file |-> t.file]
  BY <1>1
<1> HIDE DEF t
<1>3. Kept(s, s)
  BY KeptSelf
<1>4. /\ DOMAIN t.fp = DOMAIN s.fp
      /\ \A g \in DOMAIN s.fp :
           IsStream(t.fp[g]) /\ t.fp[g].name = s.fp[g].name /\ t.fp[g].mode = s.fp[g].mode
  BY <1>2 DEF TableSound, Typed
<1>5. Kept(s, t)
  BY <1>2, <1>3, <1>4 DEF Kept, NoLoss, IsState
<1> QED
  BY <1>5 DEF t

LEMMA SlotKept ==
  ASSUME NEW N, NEW s, NEW H, TableSound(N, s, H), NEW i \in DOMAIN s.file, NEW x, IsSlot(x),
         x.name = s.file[i].name, x.f = s.file[i].f,
         "WRITE" \in x.flags <=> "WRITE" \in s.file[i].flags
  PROVE  Kept(s, [s EXCEPT !.file[i] = x])
<1> DEFINE t == [s EXCEPT !.file[i] = x]
<1>1. s = [data |-> s.data, fp |-> s.fp, file |-> s.file]
  BY DEF TableSound, Typed, IsState
<1>2. t.data = s.data /\ t.fp = s.fp /\ t.file = [s.file EXCEPT ![i] = x]
      /\ t = [data |-> t.data, fp |-> t.fp, file |-> t.file]
  BY <1>1
<1> HIDE DEF t
<1>3. Kept(s, s)
  BY KeptSelf
<1>4. /\ DOMAIN t.file = DOMAIN s.file
      /\ \A j \in DOMAIN s.file :
           /\ IsSlot(t.file[j])
           /\ t.file[j].name = s.file[j].name /\ t.file[j].f = s.file[j].f
           /\ "WRITE" \in t.file[j].flags <=> "WRITE" \in s.file[j].flags
  BY <1>2 DEF TableSound, Typed
<1>5. Kept(s, t)
  BY <1>2, <1>3, <1>4 DEF Kept, NoLoss, IsState
<1> QED
  BY <1>5 DEF t

-----------------------------------------------------------------------------
(* The C library on a stream that is open.                                  *)

LEMMA Parts ==
  ASSUME NEW N, NEW s, NEW H, TableSound(N, s, H)
  PROVE  /\ s = [data |-> s.data, fp |-> s.fp, file |-> s.file]
         /\ \A f \in DOMAIN s.fp :
              /\ s.fp[f] = [name |-> s.fp[f].name, mode |-> s.fp[f].mode,
                            pos |-> s.fp[f].pos, eof |-> s.fp[f].eof]
              /\ s.fp[f].pos \in Nat
         /\ \A i \in DOMAIN s.file :
              /\ s.file[i] = [name |-> s.file[i].name, f |-> s.file[i].f, rpos |-> s.file[i].rpos,
                              wpos |-> s.file[i].wpos, flags |-> s.file[i].flags]
              /\ s.file[i].rpos \in Nat /\ s.file[i].wpos \in Int /\ s.file[i].wpos >= -1
  BY DEF TableSound, Typed, IsState, IsStream, IsSlot

LEMMA ContentIs ==
  ASSUME NEW N, NEW s, NEW H, TableSound(N, s, H), NEW f \in DOMAIN s.fp
  PROVE  Content(s, f) \in Seq(Chars) /\ Len(Content(s, f)) \in Nat /\ s.fp[f].name \in DOMAIN s.data
<1>1. s.fp[f].name \in N \union Std /\ DOMAIN s.data = N \union Std
  BY DEF TableSound, Typed, Allowed
<1>2. Sound0(s.data[s.fp[f].name])
  BY <1>1 DEF TableSound, Typed
<1>3. s.data[s.fp[f].name] # Absent
  <2>1. CASE s.fp[f].name \in N
    BY <2>1 DEF TableSound, Allowed
  <2>2. CASE s.fp[f].name \in Std
    <3>1. s.data[s.fp[f].name] = << >>
      BY <1>1, <2>2 DEF TableSound, Typed
    <3> QED
      BY <3>1 DEF Absent, P!Absent
  <2> QED
    BY <1>1, <2>1, <2>2
<1>4. Content(s, f) \in Seq(Chars)
  BY <1>2, <1>3 DEF Content, Sound0
<1> QED
  BY <1>1, <1>4, LenProperties

(* Changing fields of a stream is changing the stream.                      *)
Moved(s, f, pos, eof) == [s EXCEPT !.fp[f].pos = pos, !.fp[f].eof = eof]

LEMMA MovedIs ==
  ASSUME NEW N, NEW s, NEW H, TableSound(N, s, H), NEW f \in DOMAIN s.fp, NEW pos, NEW eof
  PROVE  Moved(s, f, pos, eof) =
           [s EXCEPT !.fp[f] = [name |-> s.fp[f].name, mode |-> s.fp[f].mode, pos |-> pos, eof |-> eof]]
<1>1. s = [data |-> s.data, fp |-> s.fp, file |-> s.file]
  BY Parts
<1>2. s.fp[f] = [name |-> s.fp[f].name, mode |-> s.fp[f].mode, pos |-> s.fp[f].pos, eof |-> s.fp[f].eof]
  BY Parts
<1> DEFINE x == s.fp[f]
           y == [name |-> x.name, mode |-> x.mode, pos |-> pos, eof |-> x.eof]
           z == [name |-> x.name, mode |-> x.mode, pos |-> pos, eof |-> eof]
<1>3. [x EXCEPT !.pos = pos] = y /\ [y EXCEPT !.eof = eof] = z
  BY <1>2
<1> DEFINE a == [s EXCEPT !.fp[f].pos = pos]
           b == [a EXCEPT !.fp[f].eof = eof]
<1>4. a = [s EXCEPT !.fp[f] = y]
  <2> HIDE DEF y
  <2> QED
    BY <1>3
<1>5. b = [s EXCEPT !.fp[f] = z]
  <2> HIDE DEF a, z
  <2>1. a.fp[f] = y
    <3> HIDE DEF y
    <3> QED
      BY <1>1, <1>4
  <2>2. b = [a EXCEPT !.fp[f] = z]
    <3> HIDE DEF y
    <3> QED
      BY <1>3, <2>1
  <2>3. [[s EXCEPT !.fp[f] = y] EXCEPT !.fp[f] = z] = [s EXCEPT !.fp[f] = z]
    <3> HIDE DEF y
    <3> QED
      BY <1>1
  <2> QED
    BY <1>4, <2>2, <2>3
<1> QED
  BY <1>5 DEF Moved

LEMMA ClearIs ==
  ASSUME NEW N, NEW s, NEW H, TableSound(N, s, H), NEW f \in DOMAIN s.fp, NEW no, no = FALSE
  PROVE  clearerr(s, f) =
           [s EXCEPT !.fp[f] = [name |-> s.fp[f].name, mode |-> s.fp[f].mode, pos |-> s.fp[f].pos, eof |-> no]]
<1> DEFINE w == [name |-> s.fp[f].name, mode |-> s.fp[f].mode, pos |-> s.fp[f].pos, eof |-> no]
<1>1. [s.fp[f] EXCEPT !.eof = no] = w
  <2>1. s.fp[f] = [name |-> s.fp[f].name, mode |-> s.fp[f].mode, pos |-> s.fp[f].pos, eof |-> s.fp[f].eof]
    BY Parts
  <2> QED
    BY <2>1
<1> HIDE DEF w
<1>2. [s EXCEPT !.fp[f].eof = no] = [s EXCEPT !.fp[f] = w]
  BY <1>1
<1>3. clearerr(s, f) = [s EXCEPT !.fp[f].eof = no]
  BY Zenon DEF clearerr
<1> QED
  BY <1>2, <1>3 DEF w

LEMMA SeekKeeps ==
  ASSUME NEW N, NEW s, NEW H, TableSound(N, s, H), NEW f \in DOMAIN s.fp, NEW off \in Nat
  PROVE  Kept(s, fseek(s, f, off))
<1>0. PICK no : no = FALSE
  OBVIOUS
<1> DEFINE x == [name |-> s.fp[f].name, mode |-> s.fp[f].mode, pos |-> off, eof |-> no]
<1>1. IsStream(x) /\ x.name = s.fp[f].name /\ x.mode = s.fp[f].mode
  BY DEF IsStream
<1>2. fseek(s, f, off) = [s EXCEPT !.fp[f] = x]
  <2>1. fseek(s, f, off) = Moved(s, f, off, no)
    BY <1>0, Zenon DEF fseek, Moved
  <2>2. Moved(s, f, off, no) = [s EXCEPT !.fp[f] = x]
    BY MovedIs
  <2> QED
    BY <2>1, <2>2
<1> HIDE DEF x
<1>3. Kept(s, [s EXCEPT !.fp[f] = x])
  BY <1>1, StreamKept
<1> QED
  BY <1>2, <1>3

LEMMA ClearKeeps ==
  ASSUME NEW N, NEW s, NEW H, TableSound(N, s, H), NEW f \in DOMAIN s.fp
  PROVE  Kept(s, clearerr(s, f))
<1>0. PICK no : no = FALSE
  OBVIOUS
<1> DEFINE x == [name |-> s.fp[f].name, mode |-> s.fp[f].mode, pos |-> s.fp[f].pos, eof |-> no]
<1>1. IsStream(x) /\ x.name = s.fp[f].name /\ x.mode = s.fp[f].mode
  BY Parts DEF IsStream
<1>2. clearerr(s, f) = [s EXCEPT !.fp[f] = x]
  BY <1>0, ClearIs
<1> HIDE DEF x
<1>3. Kept(s, [s EXCEPT !.fp[f] = x])
  BY <1>1, StreamKept
<1> QED
  BY <1>2, <1>3

LEMMA ReadKeeps ==
  ASSUME NEW N, NEW s, NEW H, TableSound(N, s, H), NEW f \in DOMAIN s.fp, NEW n \in Int
  PROVE  Kept(s, fread(s, f, n).s) /\ fread(s, f, n).text \in Seq(Chars)
<1> DEFINE text == Next_n(s, f, n)
<1>1. text \in Seq(Chars) /\ Len(text) \in Nat
  <2>1. text \in Seq(Chars)
    BY ContentIs, Parts, ReadsChars DEF Next_n
  <2> QED
    BY <2>1, LenProperties
<1> HIDE DEF text
<1>2. fread(s, f, n).text = text
  BY DEF fread, Took, text
<1> DEFINE x == [name |-> s.fp[f].name, mode |-> s.fp[f].mode, pos |-> s.fp[f].pos + Len(text),
                 eof |-> s.fp[f].eof \/ Len(text) < n]
<1>3. IsStream(x) /\ x.name = s.fp[f].name /\ x.mode = s.fp[f].mode
  <2>1. s.fp[f].pos \in Nat
    BY Parts
  <2> QED
    BY <1>1, <2>1 DEF IsStream
<1>4. fread(s, f, n).s = s \/ fread(s, f, n).s = [s EXCEPT !.fp[f] = x]
  <2>1. fread(s, f, n).s = IF s.fp[f].mode \in {"w", "a"} THEN s
          ELSE [s EXCEPT !.fp[f].pos = @ + Len(text), !.fp[f].eof = @ \/ Len(text) < n]
    BY DEF fread, Took, text
  <2>2. [s EXCEPT !.fp[f].pos = @ + Len(text), !.fp[f].eof = @ \/ Len(text) < n]
          = [s EXCEPT !.fp[f].pos = s.fp[f].pos + Len(text), !.fp[f].eof = s.fp[f].eof \/ Len(text) < n]
    <3> DEFINE r == [s EXCEPT !.fp[f].pos = s.fp[f].pos + Len(text)]
    <3>1. r.fp[f].eof = s.fp[f].eof
      BY Parts
    <3> HIDE DEF r
    <3>2. [r EXCEPT !.fp[f].eof = @ \/ Len(text) < n] = [r EXCEPT !.fp[f].eof = s.fp[f].eof \/ Len(text) < n]
      BY <3>1
    <3> QED
      BY <3>2 DEF r
  <2>3. [s EXCEPT !.fp[f].pos = s.fp[f].pos + Len(text), !.fp[f].eof = s.fp[f].eof \/ Len(text) < n]
          = Moved(s, f, s.fp[f].pos + Len(text), s.fp[f].eof \/ Len(text) < n)
    BY DEF Moved
  <2>4. Moved(s, f, s.fp[f].pos + Len(text), s.fp[f].eof \/ Len(text) < n) = [s EXCEPT !.fp[f] = x]
    BY MovedIs
  <2> QED
    BY <2>1, <2>2, <2>3, <2>4
<1> HIDE DEF x
<1>5. Kept(s, [s EXCEPT !.fp[f] = x])
  BY <1>3, StreamKept
<1>6. Kept(s, s)
  BY KeptSelf
<1> QED
  BY <1>1, <1>2, <1>4, <1>5, <1>6

LEMMA GetsKeeps ==
  ASSUME NEW N, NEW s, NEW H, TableSound(N, s, H), NEW f \in DOMAIN s.fp
  PROVE  Kept(s, fgets(s, f).s) /\ fgets(s, f).text \in Seq(Chars)
<1> DEFINE c == Content(s, f)
           p == s.fp[f].pos
<1>1. Len(c) \in Nat /\ p \in Nat
  BY ContentIs, Parts
<1>2. Min(LineEnds(c, p)) \in Int
  <2>1. LineEnds(c, p) \subseteq Nat /\ LineEnds(c, p) # {}
    BY <1>1, GreaterOf DEF LineEnds
  <2> QED
    BY <2>1, LeastNat
<1> DEFINE n == Min(LineEnds(c, p)) - p
<1>3. n \in Int
  BY <1>1, <1>2
<1>4. fgets(s, f) = fread(s, f, n)
  BY DEF fgets
<1> HIDE DEF n
<1> QED
  BY <1>3, <1>4, ReadKeeps

LEMMA WriteKeeps ==
  ASSUME NEW N, NEW s, NEW H, TableSound(N, s, H), NEW f \in DOMAIN s.fp,
         NEW t \in Seq(Chars), NEW take \in 0 .. Len(t)
  PROVE  Kept(s, fwrite(s, f, t, take).s)
<1> DEFINE c == Content(s, f)
           name == s.fp[f].name
           p == IF s.fp[f].mode \in {"a", "a+"} THEN Len(c) ELSE s.fp[f].pos
           w == SubSeq(t, 1, take)
<1>1. c \in Seq(Chars) /\ Len(c) \in Nat /\ p \in Nat /\ name \in DOMAIN s.data /\ c = s.data[name]
  BY ContentIs, Parts DEF Content
<1>2. w \in Seq(Chars) /\ Len(w) \in Nat
  <2>1. \A k \in 1 .. take : t[k] \in Chars
    OBVIOUS
  <2>2. w \in Seq(Chars)
    BY <2>1, SubSeqProperties
  <2> QED
    BY <2>2, LenProperties
<1>3. CASE name \notin Sysout \union Std /\ s.fp[f].mode # "r" /\ p <= Len(c) /\ take # 0
  <2> DEFINE new == P!Put(c, p, w)
             x == [name |-> name, mode |-> s.fp[f].mode, pos |-> p + Len(w), eof |-> s.fp[f].eof]
  <2>1. new \in Seq(Chars) /\ Len(c) <= Len(new)
    <3> HIDE DEF c, p, w
    <3>1. p \in 0 .. Len(c)
      BY <1>1, <1>3
    <3> QED
      BY <1>1, <1>2, <3>1, PutKeeps
  <2>2. IsStream(x) /\ x.name = s.fp[f].name /\ x.mode = s.fp[f].mode
    BY <1>1, <1>2 DEF IsStream
  <2> DEFINE r == [s EXCEPT !.fp[f] = x]
             u == [r EXCEPT !.data[name] = new]
  <2>3. fwrite(s, f, t, take).s = Wrote(s, f, p, w).s
    <3>1. ~(p > Len(c))
      BY <1>1, <1>3
    <3>2. fwrite(s, f, t, take) = Wrote(s, f, p, w)
      BY <1>3, <3>1 DEF fwrite
    <3> QED
      BY <3>2
  <2>4. Wrote(s, f, p, w).s = [s EXCEPT !.data[name] = P!Put(@, p, w), !.fp[f].pos = p + Len(w)]
    BY DEF Wrote
  <2> HIDE DEF p, w
  <2>5. Wrote(s, f, p, w).s = u
    <3> DEFINE v == [s EXCEPT !.data[name] = P!Put(@, p, w)]
    <3>1. v = [s EXCEPT !.data[name] = new] /\ v.fp = s.fp /\ v.file = s.file
          /\ v = [data |-> v.data, fp |-> v.fp, file |-> v.file]
      <4>1. s = [data |-> s.data, fp |-> s.fp, file |-> s.file]
        BY Parts
      <4> QED
        BY <1>1, <4>1
    <3>2. s.fp[f] = [name |-> name, mode |-> s.fp[f].mode, pos |-> s.fp[f].pos, eof |-> s.fp[f].eof]
      BY Parts
    <3>3. [s.fp[f] EXCEPT !.pos = p + Len(w)] = x
      BY <3>2
    <3> HIDE DEF v, x, new
    <3>4. [v EXCEPT !.fp[f].pos = p + Len(w)] = [v EXCEPT !.fp[f] = x]
      BY <3>1, <3>3
    <3>5. [[s EXCEPT !.data[name] = new] EXCEPT !.fp[f] = x] = [r EXCEPT !.data[name] = new]
      <4>1. s = [data |-> s.data, fp |-> s.fp, file |-> s.file]
        BY Parts
      <4> QED
        BY <4>1
    <3> QED
      BY <2>4, <3>1, <3>4, <3>5 DEF v
  <2>6. Kept(s, r)
    <3> HIDE DEF x
    <3> QED
      BY <2>2, StreamKept
  <2>7. r = [data |-> s.data, fp |-> r.fp, file |-> r.file]
    BY Parts
  <2> HIDE DEF r, new
  <2>8. /\ u.data = [s.data EXCEPT ![name] = new] /\ u.fp = r.fp /\ u.file = r.file
        /\ IsState(u)
    BY <2>7 DEF IsState
  <2> HIDE DEF u
  <2>9. Kept(s, s)
    BY KeptSelf
  <2>10. new # Absent
    BY <2>1 DEF Absent, P!Absent, Chars, LF, P!LF
  <2>11. NoLoss(s, u)
    BY <1>1, <2>1, <2>8, <2>9, <2>10 DEF NoLoss, Kept
  <2>12. \A n \in DOMAIN s.data : Sound0(u.data[n])
    BY <1>1, <2>1, <2>8, <2>9 DEF Sound0, Kept
  <2>13. \A n \in Sysout \union Std : n \in DOMAIN s.data => u.data[n] = s.data[n]
    BY <1>3, <2>8
  <2>14. DOMAIN u.data = DOMAIN s.data
    BY <2>8
  <2>15. Kept(s, u)
    BY <2>6, <2>8, <2>11, <2>12, <2>13, <2>14 DEF Kept
  <2> QED
    BY <2>3, <2>5, <2>15
<1>4. CASE ~(name \notin Sysout \union Std /\ s.fp[f].mode # "r" /\ p <= Len(c) /\ take # 0)
  <2>1. fwrite(s, f, t, take).s = s
    BY <1>1, <1>4 DEF fwrite
  <2> QED
    BY <2>1, KeptSelf
<1> QED
  BY <1>3, <1>4

-----------------------------------------------------------------------------
(* Positions and flags of a slot.                                           *)

LEMMA FlagsKept ==
  ASSUME NEW N, NEW s, NEW H, TableSound(N, s, H), NEW i \in DOMAIN s.file, NEW v,
         "WRITE" \in v <=> "WRITE" \in s.file[i].flags
  PROVE  Kept(s, [s EXCEPT !.file[i].flags = v])
<1> DEFINE y == s.file[i]
           x == [name |-> y.name, f |-> y.f, rpos |-> y.rpos, wpos |-> y.wpos, flags |-> v]
<1>1. y = [name |-> y.name, f |-> y.f, rpos |-> y.rpos, wpos |-> y.wpos, flags |-> y.flags]
      /\ y.rpos \in Nat /\ y.wpos \in Int /\ y.wpos >= -1
  BY Parts
<1>2. IsSlot(x)
  BY <1>1 DEF IsSlot
<1>3. [y EXCEPT !.flags = v] = x
  BY <1>1
<1>4. x.name = y.name /\ x.f = y.f /\ x.flags = v
  OBVIOUS
<1> HIDE DEF x
<1>5. [s EXCEPT !.file[i].flags = v] = [s EXCEPT !.file[i] = x]
  BY <1>3
<1>6. Kept(s, [s EXCEPT !.file[i] = x])
  BY <1>2, <1>4, SlotKept
<1> QED
  BY <1>5, <1>6

LEMMA RposKept ==
  ASSUME NEW N, NEW s, NEW H, TableSound(N, s, H), NEW i \in DOMAIN s.file, NEW v \in Nat
  PROVE  Kept(s, [s EXCEPT !.file[i].rpos = v])
<1> DEFINE y == s.file[i]
           x == [name |-> y.name, f |-> y.f, rpos |-> v, wpos |-> y.wpos, flags |-> y.flags]
<1>1. y = [name |-> y.name, f |-> y.f, rpos |-> y.rpos, wpos |-> y.wpos, flags |-> y.flags]
      /\ y.rpos \in Nat /\ y.wpos \in Int /\ y.wpos >= -1
  BY Parts
<1>2. IsSlot(x)
  BY <1>1 DEF IsSlot
<1>3. [y EXCEPT !.rpos = v] = x
  BY <1>1
<1>4. x.name = y.name /\ x.f = y.f /\ x.flags = y.flags
  OBVIOUS
<1> HIDE DEF x
<1>5. [s EXCEPT !.file[i].rpos = v] = [s EXCEPT !.file[i] = x]
  BY <1>3
<1>6. Kept(s, [s EXCEPT !.file[i] = x])
  BY <1>2, <1>4, SlotKept
<1> QED
  BY <1>5, <1>6

LEMMA WposKept ==
  ASSUME NEW N, NEW s, NEW H, TableSound(N, s, H), NEW i \in DOMAIN s.file,
         NEW v \in Int, v >= -1
  PROVE  Kept(s, [s EXCEPT !.file[i].wpos = v])
<1> DEFINE y == s.file[i]
           x == [name |-> y.name, f |-> y.f, rpos |-> y.rpos, wpos |-> v, flags |-> y.flags]
<1>1. y = [name |-> y.name, f |-> y.f, rpos |-> y.rpos, wpos |-> y.wpos, flags |-> y.flags]
      /\ y.rpos \in Nat /\ y.wpos \in Int /\ y.wpos >= -1
  BY Parts
<1>2. IsSlot(x)
  BY <1>1 DEF IsSlot
<1>3. [y EXCEPT !.wpos = v] = x
  BY <1>1
<1>4. x.name = y.name /\ x.f = y.f /\ x.flags = y.flags
  OBVIOUS
<1> HIDE DEF x
<1>5. [s EXCEPT !.file[i].wpos = v] = [s EXCEPT !.file[i] = x]
  BY <1>3
<1>6. Kept(s, [s EXCEPT !.file[i] = x])
  BY <1>2, <1>4, SlotKept
<1> QED
  BY <1>5, <1>6

(* A slot in use has its stream, also after what keeps it.                  *)
LEMMA Live ==
  ASSUME NEW N, NEW s, TableSound(N, s, {}), NEW i \in Named(s)
  PROVE  i \in DOMAIN s.file /\ s.file[i].f \in DOMAIN s.fp
         /\ ("WRITE" \in s.file[i].flags <=> s.fp[s.file[i].f].mode # "r")
  BY DEF TableSound, Owned, Has, Named

LEMMA KeptLive ==
  ASSUME NEW N, NEW s, TableSound(N, s, {}), NEW i \in Named(s), NEW t, Kept(s, t)
  PROVE  /\ TableSound(N, t, {}) /\ i \in Named(t) /\ t.file[i].name = s.file[i].name
         /\ t.file[i].f = s.file[i].f /\ t.file[i].f \in DOMAIN t.fp
<1>1. i \in DOMAIN s.file
  BY Live
<1>2. TableSound(N, t, {})
  BY KeptSound
<1>3. t.file[i].name = s.file[i].name /\ t.file[i].f = s.file[i].f /\ i \in DOMAIN t.file
  BY <1>1 DEF Kept
<1>4. i \in Named(t)
  BY <1>3 DEF Named
<1> QED
  BY <1>2, <1>3, <1>4, Live

LEMMA ReadyKeeps ==
  ASSUME NEW N, NEW s, NEW H, TableSound(N, s, H), NEW i \in DOMAIN s.file
  PROVE  Kept(s, Ready(s, i)) /\ Kept(s, NotReady(s, i))
<1> DEFINE v == s.file[i].flags \ {"NOTREADY"}
           w == s.file[i].flags \union {"NOTREADY"}
<1>1. ("WRITE" \in v <=> "WRITE" \in s.file[i].flags) /\ ("WRITE" \in w <=> "WRITE" \in s.file[i].flags)
  OBVIOUS
<1>2. Ready(s, i) = [s EXCEPT !.file[i].flags = v]
  BY DEF Ready
<1>3. NotReady(s, i) = [s EXCEPT !.file[i].flags = w]
  BY DEF NotReady
<1> HIDE DEF v, w
<1>4. Kept(s, [s EXCEPT !.file[i].flags = v])
  BY <1>1, FlagsKept
<1>5. Kept(s, [s EXCEPT !.file[i].flags = w])
  BY <1>1, FlagsKept
<1> QED
  BY <1>2, <1>3, <1>4, <1>5

LEMMA DoneKeeps ==
  ASSUME NEW N, NEW s, TableSound(N, s, {}), NEW i \in Named(s)
  PROVE  Kept(s, done_read(s, i)) /\ Kept(s, done_write(s, i))
<1>1. i \in DOMAIN s.file /\ s.file[i].f \in DOMAIN s.fp
  BY Live
<1> DEFINE pos == s.fp[s.file[i].f].pos
<1>2. pos \in Nat
  BY <1>1, Parts
<1>3. done_read(s, i) = s \/ done_read(s, i) = [s EXCEPT !.file[i].rpos = pos]
  BY DEF done_read
<1>4. done_write(s, i) = s \/ done_write(s, i) = [s EXCEPT !.file[i].wpos = pos]
  BY DEF done_write
<1> HIDE DEF pos
<1>5. Kept(s, [s EXCEPT !.file[i].rpos = pos])
  BY <1>1, <1>2, RposKept
<1>6. Kept(s, [s EXCEPT !.file[i].wpos = pos])
  BY <1>1, <1>2, WposKept
<1>7. Kept(s, s)
  BY KeptSelf
<1> QED
  BY <1>3, <1>4, <1>5, <1>6, <1>7

LEMMA PrepReadKeeps ==
  ASSUME NEW N, NEW s, TableSound(N, s, {}), NEW i \in Named(s)
  PROVE  Kept(s, prep_read(s, i))
<1> DEFINE f == s.file[i].f
           r == Ready(s, i)
           t == IF Seeks(s, i) THEN fseek(r, f, s.file[i].rpos) ELSE r
<1>1. i \in DOMAIN s.file /\ s.file[i].rpos \in Nat
  BY Live, Parts
<1>2. Kept(s, r)
  BY <1>1, ReadyKeeps
<1> HIDE DEF r
<1>3. TableSound(N, r, {}) /\ f \in DOMAIN r.fp
  BY <1>2, KeptLive
<1>4. Kept(r, t)
  BY <1>1, <1>3, SeekKeeps, KeptSelf
<1>5. prep_read(s, i) = clearerr(t, f)
  BY DEF prep_read, r
<1> HIDE DEF t
<1>6. Kept(s, t)
  BY <1>2, <1>4, KeptThen
<1>7. TableSound(N, t, {}) /\ f \in DOMAIN t.fp
  BY <1>6, KeptLive
<1>8. Kept(t, clearerr(t, f))
  BY <1>7, ClearKeeps
<1> QED
  BY <1>5, <1>6, <1>8, KeptThen

LEMMA EndKeeps ==
  ASSUME NEW N, NEW s, TableSound(N, s, {}), NEW i \in Named(s)
  PROVE  Kept(s, end_pos(s, i)) /\ Kept(s, AtWpos(s, i))
<1> DEFINE f == s.file[i].f
           e == Len(Content(s, f))
           w == IF s.file[i].wpos < 0 THEN e ELSE s.file[i].wpos
<1>1. i \in DOMAIN s.file /\ f \in DOMAIN s.fp /\ s.file[i].wpos \in Int
  BY Live, Parts
<1>2. e \in Nat /\ w \in Nat
  BY <1>1, ContentIs
<1>3. end_pos(s, i) = fseek(s, f, e)
  BY DEF end_pos
<1>4. AtWpos(s, i) = [fseek(s, f, w) EXCEPT !.file[i].wpos = w]
  BY DEF AtWpos
<1> HIDE DEF e, w
<1>5. Kept(s, fseek(s, f, e)) /\ Kept(s, fseek(s, f, w))
  BY <1>1, <1>2, SeekKeeps
<1> DEFINE t == fseek(s, f, w)
<1> HIDE DEF t
<1>6. TableSound(N, t, {}) /\ i \in DOMAIN t.file
  BY <1>5, KeptLive, Live DEF t
<1>7. Kept(t, [t EXCEPT !.file[i].wpos = w])
  BY <1>2, <1>6, WposKept
<1>8. Kept(s, [t EXCEPT !.file[i].wpos = w])
  BY <1>5, <1>7, KeptThen DEF t
<1> QED
  BY <1>3, <1>4, <1>5, <1>8 DEF t

-----------------------------------------------------------------------------
(* Reading lines, however many: by the first that would be wrong.           *)

Start(s) == [s |-> s, n |-> 0, more |-> TRUE]
NextLine(f, l) == IF l.more THEN Lskipline(l, f) ELSE l

(* The lines that are skipped, one after the other.                         *)
LEMMA SkipSteps ==
  ASSUME NEW s, NEW f, NEW m \in Nat
  PROVE  \E l : /\ SkipLines(s, f, m) = l[m] /\ l[0] = Start(s)
               /\ \A j \in 1 .. m : l[j] = NextLine(f, l[j - 1])
<1> DEFINE Is(l, k) == l = [j \in 0 .. k |-> IF j = 0 THEN Start(s) ELSE NextLine(f, l[j - 1])]
<1>1. \A k \in Nat : \E l : Is(l, k)
  <2> DEFINE T == {k \in Nat : ~ \E l : Is(l, k)}
  <2> SUFFICES ASSUME T # {} PROVE FALSE
    OBVIOUS
  <2> HIDE DEF Is
  <2>1. T \subseteq Nat
    OBVIOUS
  <2> HIDE DEF T
  <2>2. PICK k \in T : \A j \in T : k <= j
    BY <2>1, LeastNat
  <2>3. k \in Nat /\ ~ \E l : Is(l, k)
    BY DEF T
  <2>4. CASE k = 0
    <3> DEFINE l == [j \in 0 .. 0 |-> Start(s)]
    <3>1. Is(l, 0)
      BY DEF Is
    <3> QED
      BY <2>3, <2>4, <3>1
  <2>5. CASE k # 0
    <3>1. k - 1 \in Nat /\ k - 1 \notin T
      BY <2>2, <2>3, <2>5
    <3>2. PICK l : Is(l, k - 1)
      BY <3>1 DEF T
    <3> DEFINE g == [j \in 0 .. k |-> IF j = k THEN NextLine(f, l[k - 1]) ELSE l[j]]
    <3>3. Is(g, k)
      <4>1. \A j \in 0 .. k - 1 : l[j] = IF j = 0 THEN Start(s) ELSE NextLine(f, l[j - 1])
        BY <3>1, <3>2 DEF Is
      <4>2. \A j \in 0 .. k : g[j] = IF j = 0 THEN Start(s) ELSE NextLine(f, g[j - 1])
        BY <2>3, <2>5, <3>1, <4>1
      <4>3. g = [j \in 0 .. k |-> IF j = 0 THEN Start(s) ELSE NextLine(f, g[j - 1])]
        BY <4>2
      <4> QED
        BY <4>3 DEF Is
    <3> QED
      BY <2>3, <3>3
  <2> QED
    BY <2>4, <2>5
<1>2. PICK g : Is(g, m)
  BY <1>1
<1> DEFINE l == CHOOSE h : Is(h, m)
<1>3. Is(l, m)
  <2> HIDE DEF Is
  <2> QED
    BY <1>2
<1>4. SkipLines(s, f, m) = l[m]
  BY DEF SkipLines, Start, NextLine
<1> HIDE DEF l
<1>5. l[0] = Start(s) /\ \A j \in 1 .. m : l[j] = NextLine(f, l[j - 1])
  BY <1>3
<1> HIDE DEF Is
<1> QED
  BY <1>4, <1>5

LEMMA SkipKeeps ==
  ASSUME NEW N, NEW s, NEW H, TableSound(N, s, H), NEW f \in DOMAIN s.fp, NEW m \in Nat
  PROVE  Kept(s, SkipLines(s, f, m).s)
<1>5. PICK l : /\ SkipLines(s, f, m) = l[m] /\ l[0] = Start(s)
                  /\ \A j \in 1 .. m : l[j] = NextLine(f, l[j - 1])
  BY SkipSteps
<1>6. \A j \in 0 .. m : Kept(s, l[j].s)
  <2> DEFINE T == {j \in 0 .. m : ~ Kept(s, l[j].s)}
  <2> SUFFICES ASSUME T # {} PROVE FALSE
    OBVIOUS
  <2>1. T \subseteq Nat
    OBVIOUS
  <2> HIDE DEF T
  <2>2. PICK k \in T : \A j \in T : k <= j
    BY <2>1, LeastNat
  <2>3. k \in 0 .. m /\ ~ Kept(s, l[k].s)
    BY DEF T
  <2>4. k # 0
    <3>1. l[0].s = s
      BY <1>5 DEF Start
    <3> QED
      BY <2>3, <3>1, KeptSelf
  <2>5. k - 1 \in 0 .. m /\ k \in 1 .. m
    BY <2>3, <2>4
  <2>6. k - 1 \notin T
    BY <2>2, <2>5
  <2> DEFINE x == l[k - 1]
  <2>7. Kept(s, x.s) /\ l[k] = NextLine(f, x)
    BY <1>5, <2>5, <2>6 DEF T
  <2> HIDE DEF x
  <2>8. TableSound(N, x.s, H) /\ f \in DOMAIN x.s.fp
    BY <2>7, KeptSound DEF Kept
  <2>9. Kept(x.s, fgets(x.s, f).s)
    BY <2>8, GetsKeeps
  <2>10. l[k].s = fgets(x.s, f).s \/ l[k].s = x.s
    BY <2>7 DEF NextLine, Lskipline
  <2>11. Kept(s, fgets(x.s, f).s)
    BY <2>7, <2>9, KeptThen
  <2> QED
    BY <2>3, <2>7, <2>10, <2>11
<1> QED
  BY <1>5, <1>6

LEMMA LineOffsetKeeps ==
  ASSUME NEW N, NEW s, TableSound(N, s, {}), NEW i \in Named(s), NEW n \in Nat \ {0}
  PROVE  Kept(s, line_offset(s, i, n).s) /\ line_offset(s, i, n).off \in Nat \union {-1}
<1> DEFINE f == s.file[i].f
           r == fseek(s, f, 0)
           l == SkipLines(r, f, n - 1)
<1>1. f \in DOMAIN s.fp /\ 0 \in Nat /\ n - 1 \in Nat
  BY Live
<1>2. Kept(s, r)
  BY <1>1, SeekKeeps
<1> HIDE DEF r
<1>3. TableSound(N, r, {}) /\ f \in DOMAIN r.fp
  BY <1>2, KeptLive
<1>4. Kept(r, l.s)
  BY <1>1, <1>3, SkipKeeps
<1>5. line_offset(s, i, n) = [s |-> l.s, off |-> IF l.more THEN l.s.fp[f].pos ELSE -1]
  BY DEF line_offset, r
<1> HIDE DEF l
<1>6. Kept(s, l.s)
  BY <1>2, <1>4, KeptThen
<1>7. TableSound(N, l.s, {}) /\ f \in DOMAIN l.s.fp
  BY <1>6, KeptLive
<1>8. l.s.fp[f].pos \in Nat
  BY <1>7, Parts
<1> QED
  BY <1>5, <1>6, <1>8

Nothing(s) == [s |-> s, text |-> << >>]
LineRead(f, length, l, k) ==
  LET got == fgets(l.s, f)
      x == got.text
  IN  [s |-> got.s,
       text |-> l.text \o (IF x # << >> /\ Last(x) = LF THEN Front(x) ELSE x)
                  \o (IF k < length THEN <<LF>> ELSE << >>)]

LEMMA LineinSteps ==
  ASSUME NEW s, NEW f, NEW length \in Nat
  PROVE  \E l : /\ Llinein(s, f, length) = l[length] /\ l[0] = Nothing(s)
               /\ \A j \in 1 .. length : l[j] = LineRead(f, length, l[j - 1], j)
<1> DEFINE Is(l, k) == l = [j \in 0 .. k |-> IF j = 0 THEN Nothing(s) ELSE LineRead(f, length, l[j - 1], j)]
<1>1. \A k \in Nat : \E l : Is(l, k)
  <2> DEFINE T == {k \in Nat : ~ \E l : Is(l, k)}
  <2> SUFFICES ASSUME T # {} PROVE FALSE
    OBVIOUS
  <2> HIDE DEF Is
  <2>1. T \subseteq Nat
    OBVIOUS
  <2> HIDE DEF T
  <2>2. PICK k \in T : \A j \in T : k <= j
    BY <2>1, LeastNat
  <2>3. k \in Nat /\ ~ \E l : Is(l, k)
    BY DEF T
  <2>4. CASE k = 0
    <3> DEFINE l == [j \in 0 .. 0 |-> Nothing(s)]
    <3>1. Is(l, 0)
      BY DEF Is
    <3> QED
      BY <2>3, <2>4, <3>1
  <2>5. CASE k # 0
    <3>1. k - 1 \in Nat /\ k - 1 \notin T
      BY <2>2, <2>3, <2>5
    <3>2. PICK l : Is(l, k - 1)
      BY <3>1 DEF T
    <3> DEFINE g == [j \in 0 .. k |-> IF j = k THEN LineRead(f, length, l[k - 1], k) ELSE l[j]]
    <3>3. Is(g, k)
      <4>1. \A j \in 0 .. k - 1 : l[j] = IF j = 0 THEN Nothing(s) ELSE LineRead(f, length, l[j - 1], j)
        BY <3>1, <3>2 DEF Is
      <4>2. \A j \in 0 .. k : g[j] = IF j = 0 THEN Nothing(s) ELSE LineRead(f, length, g[j - 1], j)
        BY <2>3, <2>5, <3>1, <4>1
      <4>3. g = [j \in 0 .. k |-> IF j = 0 THEN Nothing(s) ELSE LineRead(f, length, g[j - 1], j)]
        BY <4>2
      <4> QED
        BY <4>3 DEF Is
    <3> QED
      BY <2>3, <3>3
  <2> QED
    BY <2>4, <2>5
<1>2. PICK g : Is(g, length)
  BY <1>1
<1> DEFINE l == CHOOSE h : Is(h, length)
<1>3. Is(l, length)
  <2> HIDE DEF Is
  <2> QED
    BY <1>2
<1>4. Llinein(s, f, length) = l[length]
  BY DEF Llinein, Nothing, LineRead
<1> HIDE DEF l
<1>5. l[0] = Nothing(s) /\ \A j \in 1 .. length : l[j] = LineRead(f, length, l[j - 1], j)
  BY <1>3
<1> HIDE DEF Is
<1> QED
  BY <1>4, <1>5

LEMMA LineinKeeps ==
  ASSUME NEW N, NEW s, NEW H, TableSound(N, s, H), NEW f \in DOMAIN s.fp, NEW length \in Nat
  PROVE  Kept(s, Llinein(s, f, length).s)
<1>5. PICK l : /\ Llinein(s, f, length) = l[length] /\ l[0] = Nothing(s)
                  /\ \A j \in 1 .. length : l[j] = LineRead(f, length, l[j - 1], j)
  BY LineinSteps
<1>6. \A j \in 0 .. length : Kept(s, l[j].s)
  <2> DEFINE T == {j \in 0 .. length : ~ Kept(s, l[j].s)}
  <2> SUFFICES ASSUME T # {} PROVE FALSE
    OBVIOUS
  <2>1. T \subseteq Nat
    OBVIOUS
  <2> HIDE DEF T
  <2>2. PICK k \in T : \A j \in T : k <= j
    BY <2>1, LeastNat
  <2>3. k \in 0 .. length /\ ~ Kept(s, l[k].s)
    BY DEF T
  <2>4. k # 0
    <3>1. l[0].s = s
      BY <1>5 DEF Nothing
    <3> QED
      BY <2>3, <3>1, KeptSelf
  <2>5. k - 1 \in 0 .. length /\ k \in 1 .. length
    BY <2>3, <2>4
  <2>6. k - 1 \notin T
    BY <2>2, <2>5
  <2> DEFINE x == l[k - 1]
  <2>7. Kept(s, x.s) /\ l[k] = LineRead(f, length, x, k)
    BY <1>5, <2>5, <2>6 DEF T
  <2> HIDE DEF x
  <2>8. TableSound(N, x.s, H) /\ f \in DOMAIN x.s.fp
    BY <2>7, KeptSound DEF Kept
  <2>9. Kept(x.s, fgets(x.s, f).s)
    BY <2>8, GetsKeeps
  <2>10. l[k].s = fgets(x.s, f).s
    BY <2>7 DEF LineRead
  <2>11. Kept(s, fgets(x.s, f).s)
    BY <2>7, <2>9, KeptThen
  <2> QED
    BY <2>3, <2>10, <2>11
<1> QED
  BY <1>5, <1>6

-----------------------------------------------------------------------------
(* The positions a call gives.                                              *)

LEMMA SetWposKeeps ==
  ASSUME NEW N, NEW s, TableSound(N, s, {}), NEW i \in Named(s), NEW func, NEW start \in Nat \ {0}
  PROVE  Kept(s, set_wpos(s, i, func, start).s)
<1> DEFINE l == IF func = "LINEOUT" THEN line_offset(s, i, start) ELSE [s |-> s, off |-> start - 1]
<1>1. Kept(s, l.s) /\ l.off \in Int /\ (l.off < 0 \/ l.off >= 0)
  <2>1. CASE func = "LINEOUT"
    BY <2>1, LineOffsetKeeps
  <2>2. CASE func # "LINEOUT"
    BY <2>2, KeptSelf
  <2> QED
    BY <2>1, <2>2
<1>2. \/ set_wpos(s, i, func, start).s = s
      \/ l.off < 0 /\ set_wpos(s, i, func, start).s = l.s
      \/ l.off >= 0 /\ set_wpos(s, i, func, start).s = [l.s EXCEPT !.file[i].wpos = l.off]
  <2>1. CASE ~ Seeks(s, i)
    BY <2>1 DEF set_wpos
  <2>2. CASE Seeks(s, i) /\ l.off < 0
    <3>1. set_wpos(s, i, func, start) = [s |-> l.s, ok |-> FALSE]
      BY <2>2 DEF set_wpos
    <3> QED
      BY <2>2, <3>1
  <2>3. CASE Seeks(s, i) /\ ~(l.off < 0)
    <3>1. set_wpos(s, i, func, start) = [s |-> [l.s EXCEPT !.file[i].wpos = l.off], ok |-> TRUE]
      BY <2>3 DEF set_wpos
    <3> QED
      BY <1>1, <2>3, <3>1
  <2> QED
    BY <2>1, <2>2, <2>3
<1> HIDE DEF l
<1>3. TableSound(N, l.s, {}) /\ i \in DOMAIN l.s.file
  BY <1>1, KeptLive, Live
<1>4. l.off >= 0 => Kept(l.s, [l.s EXCEPT !.file[i].wpos = l.off])
  BY <1>1, <1>3, WposKept
<1>5. l.off >= 0 => Kept(s, [l.s EXCEPT !.file[i].wpos = l.off])
  BY <1>1, <1>4, KeptThen
<1> QED
  BY <1>1, <1>2, <1>5, KeptSelf

LEMMA ReadAtKeeps ==
  ASSUME NEW N, NEW s, TableSound(N, s, {}), NEW i \in Named(s), NEW func, NEW start \in Nat
  PROVE  Kept(s, ReadAt(s, i, func, start).s) /\ ReadAt(s, i, func, start).off \in Nat \union {-1}
<1>1. CASE start = LSTARTPOS \/ ~ Seeks(s, i)
  <2>1. ReadAt(s, i, func, start) = [s |-> s, off |-> s.file[i].rpos]
    BY <1>1 DEF ReadAt
  <2>2. s.file[i].rpos \in Nat
    BY Live, Parts
  <2> QED
    BY <2>1, <2>2, KeptSelf
<1>2. CASE ~(start = LSTARTPOS \/ ~ Seeks(s, i)) /\ func = "LINEIN"
  <2>1. ReadAt(s, i, func, start) = line_offset(s, i, start)
    BY <1>2 DEF ReadAt
  <2>2. start \in Nat \ {0}
    BY <1>2 DEF LSTARTPOS, P!NONE
  <2> QED
    BY <2>1, <2>2, LineOffsetKeeps
<1>3. CASE ~(start = LSTARTPOS \/ ~ Seeks(s, i)) /\ func # "LINEIN"
  <2>1. ReadAt(s, i, func, start) = [s |-> s, off |-> start - 1]
    BY <1>3 DEF ReadAt
  <2> QED
    BY <2>1, KeptSelf
<1> QED
  BY <1>1, <1>2, <1>3

LEMMA InputKeeps ==
  ASSUME NEW N, NEW s, NEW H, TableSound(N, s, H), NEW f \in DOMAIN s.fp, NEW func, NEW length \in Nat
  PROVE  Kept(s, Input(s, f, func, length).s)
<1>1. CASE length = 0
  <2>1. Input(s, f, func, length) = [s |-> s, text |-> << >>]
    BY <1>1 DEF Input
  <2> QED
    BY <2>1, KeptSelf
<1>2. CASE length # 0 /\ func = "CHARIN"
  <2>1. Input(s, f, func, length) = fread(s, f, length)
    BY <1>2 DEF Input
  <2> QED
    BY <2>1, ReadKeeps
<1>3. CASE length # 0 /\ func # "CHARIN"
  <2>1. Input(s, f, func, length) = Llinein(s, f, length)
    BY <1>3 DEF Input
  <2> QED
    BY <2>1, LineinKeeps
<1> QED
  BY <1>1, <1>2, <1>3

-----------------------------------------------------------------------------
(* Opening.                                                                 *)

(* From s to t the table grew, and nothing else.                            *)
Grew(s, t) ==
  /\ t.data = s.data /\ t.fp = s.fp /\ Named(t) = Named(s) /\ IsState(t)
  /\ DOMAIN s.file \subseteq DOMAIN t.file
  /\ \A i \in DOMAIN s.file : t.file[i] = s.file[i]
  /\ \A i \in DOMAIN t.file \ DOMAIN s.file : t.file[i] = Empty
  /\ \E k \in Nat : k > FSTDERR + 1 /\ DOMAIN t.file = 0 .. k - 1

LEMMA EmptyIsSlot == IsSlot(Empty) /\ Empty.name = ""
  BY DEF Empty, Slot, IsSlot, NULL

LEMMA GrewSound ==
  ASSUME NEW N, NEW s, NEW H, TableSound(N, s, H), NEW t, Grew(s, t)
  PROVE  TableSound(N, t, H)
<1>1. Typed(N, t)
  <2>1. \A i \in DOMAIN t.file : IsSlot(t.file[i])
    BY EmptyIsSlot DEF TableSound, Typed, Grew
  <2> QED
    BY <2>1 DEF TableSound, Typed, Grew
<1>2. FSTDERR \in DOMAIN s.file /\ FSTDIN \in DOMAIN s.file /\ FSTDOUT \in DOMAIN s.file
  BY DEF TableSound, Typed, FSTDERR, FSTDIN, FSTDOUT
<1>3. \A i \in Named(s) : i \in DOMAIN s.file /\ t.file[i] = s.file[i]
  BY DEF Grew, Named
<1>4. \A i, f : i \in Named(s) => (Has(t, i, f) <=> Has(s, i, f))
  BY <1>2, <1>3 DEF Has, SharedStderr, Grew
<1>5. Owned(t, H)
  <2>1. \A i \in H : i \in Named(t) /\ i \notin {FSTDIN, FSTDOUT}
    BY DEF TableSound, Owned, Grew
  <2>2. \A i \in Named(t) \ H : Has(t, i, t.file[i].f)
    BY <1>3, <1>4 DEF TableSound, Owned, Grew
  <2>3. \A i, j \in Named(t) \ H : i # j /\ t.file[i].f = t.file[j].f =>
          Shared /\ {i, j} = {FSTDOUT, FSTDERR} /\ t.file[FSTDERR].name = "<STDERR>"
    BY <1>2, <1>3 DEF TableSound, Owned, Grew
  <2>4. \A f \in DOMAIN t.fp : t.fp[f].name \in Std \/ \E i \in Named(t) \ H : t.file[i].f = f
    BY <1>3 DEF TableSound, Owned, Grew
  <2> QED
    BY <2>1, <2>2, <2>3, <2>4 DEF Owned
<1>6. StdPlaced(t)
  <2>1. \A i \in DOMAIN t.file : t.file[i].name \in Std => i \in DOMAIN s.file
    BY EmptyIsSlot DEF Grew, Std
  <2> QED
    BY <1>2, <2>1 DEF TableSound, StdPlaced, Grew
<1>7. Allowed(N, t)
  BY DEF TableSound, Allowed, Grew
<1> QED
  BY <1>1, <1>5, <1>6, <1>7 DEF TableSound

(* The first free slot is one no stream has, and the table reaches it.      *)
LEMMA GrownIs ==
  ASSUME NEW N, NEW s, NEW H, TableSound(N, s, H)
  PROVE  /\ Grew(s, Grown(s))
         /\ find_empty(s) \in DOMAIN Grown(s).file /\ find_empty(s) \notin Named(s)
         /\ Grown(s).file[find_empty(s)].name = ""
<1>1. PICK k \in Nat : k > FSTDERR + 1 /\ DOMAIN s.file = 0 .. k - 1
  BY DEF TableSound, Typed
<1>2. Cardinality(DOMAIN s.file) = k
  <2>1. Cardinality(0 .. k - 1) = IF 0 > k - 1 THEN 0 ELSE (k - 1) - 0 + 1
    BY FS_Interval
  <2> QED
    BY <1>1, <2>1 DEF FSTDERR
<1> DEFINE e == find_empty(s)
           free == 0 .. k \ Named(s)
<1>3. e \in free
  <2>0. \A j \in Named(s) : j \in 0 .. k - 1
    BY <1>1 DEF Named
  <2>1. free \subseteq Nat /\ k \in free
    BY <1>1, <2>0
  <2>2. e = Min(free)
    BY <1>2 DEF find_empty
  <2> HIDE DEF free
  <2> QED
    BY <2>1, <2>2, LeastNat
<1> DEFINE more == IF e = k THEN FILE_INC ELSE 0
           t == Grown(s)
<1>4. more \in Nat /\ e \in 0 .. k + more - 1
  BY <1>1, <1>3, FilesAssumption
<1>5. t = [s EXCEPT !.file = [j \in 0 .. k + more - 1 |-> IF j < k THEN s.file[j] ELSE Empty]]
  BY <1>2 DEF Grown
<1> HIDE DEF more, e
<1>6. s = [data |-> s.data, fp |-> s.fp, file |-> s.file]
  BY Parts
<1> DEFINE g == [j \in 0 .. k + more - 1 |-> IF j < k THEN s.file[j] ELSE Empty]
<1>7. t = [data |-> s.data, fp |-> s.fp, file |-> g]
  <2> HIDE DEF g
  <2>1. t = [s EXCEPT !.file = g]
    BY <1>5 DEF g
  <2> QED
    BY <1>6, <2>1
<1>8. t.data = s.data /\ t.fp = s.fp /\ t.file = g /\ IsState(t)
  BY <1>7 DEF IsState
<1> HIDE DEF t
<1>9. DOMAIN s.file \subseteq DOMAIN t.file /\ \A i \in DOMAIN s.file : t.file[i] = s.file[i]
  BY <1>1, <1>4, <1>8
<1>10. \A i \in DOMAIN t.file \ DOMAIN s.file : t.file[i] = Empty
  BY <1>1, <1>4, <1>8
<1>11. Named(t) = Named(s)
  BY <1>9, <1>10, EmptyIsSlot DEF Named
<1>12. k + more > FSTDERR + 1 /\ DOMAIN t.file = 0 .. (k + more) - 1 /\ k + more \in Nat
  BY <1>1, <1>4, <1>8 DEF FSTDERR
<1>13. Grew(s, t)
  BY <1>8, <1>9, <1>10, <1>11, <1>12 DEF Grew
<1>14. e \in DOMAIN t.file /\ e \notin Named(s) /\ t.file[e].name = ""
  <2>1. e \in DOMAIN t.file
    BY <1>4, <1>12
  <2> QED
    BY <1>3, <1>11, <2>1 DEF Named
<1> QED
  BY <1>13, <1>14 DEF t, e

Modes == {"r", "r+", "w", "w+", "a", "a+"}
Truncates(mode) == mode \in {"w", "w+"}

(* From s to t data set n was opened, in slot i that was free.              *)
Opened(s, t, i, n, mode) ==
  /\ i \notin Named(s) /\ Named(t) = Named(s) \union {i} /\ i \in DOMAIN t.file
  /\ \A j \in Named(s) : t.file[j] = s.file[j]
  /\ t.file[i].name = n /\ ("WRITE" \in t.file[i].flags <=> mode # "r")
  /\ t.file[i].rpos = 0 /\ t.file[i].wpos = (IF Truncates(mode) THEN 0 ELSE -1)
  /\ "NOTREADY" \notin t.file[i].flags
  /\ t.file[i].f \notin DOMAIN s.fp /\ DOMAIN t.fp = DOMAIN s.fp \union {t.file[i].f}
  /\ \A g \in DOMAIN s.fp : t.fp[g] = s.fp[g]
  /\ t.fp[t.file[i].f].name = n /\ t.fp[t.file[i].f].mode = mode
  /\ DOMAIN t.data = DOMAIN s.data
  /\ \A m \in DOMAIN s.data : m # n => t.data[m] = s.data[m]
  /\ t.data[n] = IF Truncates(mode) \/ s.data[n] = Absent THEN << >> ELSE s.data[n]
  /\ t.data = [s.data EXCEPT ![n] = t.data[n]]

LEMMA StdNamed ==
  ASSUME NEW N, NEW s, NEW H, TableSound(N, s, H)
  PROVE  /\ {FSTDIN, FSTDOUT, FSTDERR} \subseteq DOMAIN s.file
         /\ FSTDIN \in Named(s) /\ FSTDOUT \in Named(s)
<1>1. {FSTDIN, FSTDOUT, FSTDERR} \subseteq DOMAIN s.file
  BY DEF TableSound, Typed, FSTDIN, FSTDOUT, FSTDERR
<1>2. s.file[FSTDIN].name = "<STDIN>" /\ s.file[FSTDOUT].name = "<STDOUT>"
  BY DEF TableSound, StdPlaced
<1> QED
  BY <1>1, <1>2 DEF Named

LEMMA FreshStream ==
  ASSUME NEW N, NEW s, NEW H, TableSound(N, s, H)
  PROVE  Min(1 .. Cardinality(DOMAIN s.fp) + 1 \ DOMAIN s.fp) \in Nat \ ({0} \union DOMAIN s.fp)
<1> DEFINE c == Cardinality(DOMAIN s.fp)
           free == 1 .. c + 1 \ DOMAIN s.fp
<1>1. IsFiniteSet(DOMAIN s.fp) /\ c \in Nat
  BY FS_CardinalityType DEF TableSound, Typed
<1>2. free # {}
  <2> SUFFICES ASSUME 1 .. c + 1 \subseteq DOMAIN s.fp PROVE FALSE
    OBVIOUS
  <2>1. Cardinality(1 .. c + 1) <= c
    BY <1>1, FS_Subset
  <2> HIDE DEF c
  <2>2. Cardinality(1 .. c + 1) = IF 1 > c + 1 THEN 0 ELSE (c + 1) - 1 + 1
    BY <1>1, FS_Interval
  <2> QED
    BY <1>1, <2>1, <2>2
<1>3. free \subseteq Nat
  BY <1>1
<1> HIDE DEF free
<1>4. Min(free) \in free
  BY <1>2, <1>3, LeastNat
<1> QED
  BY <1>4, <1>1 DEF free

(* A state with a stream more, in a slot that had none, is sound.           *)
LEMMA OpenedSound ==
  ASSUME NEW N, NEW s, NEW H, TableSound(N, s, H), NEW t, NEW i, NEW n \in N \ Std, NEW mode \in Modes,
         n # "", Opened(s, t, i, n, mode), IsState(t),
         \E k \in Nat : k > FSTDERR + 1 /\ DOMAIN t.file = 0 .. k - 1,
         \A j \in DOMAIN t.file : IsSlot(t.file[j]),
         IsStream(t.fp[t.file[i].f]), t.file[i].f \in Nat \ {NULL},
         n \in Sysout => mode # "r",
         \A f \in DOMAIN s.fp : s.fp[f].name = n => s.fp[f].mode = "r" /\ mode = "r"
  PROVE  TableSound(N, t, H)
<1> DEFINE f == t.file[i].f
<1>1. /\ i \notin Named(s) /\ Named(t) = Named(s) \union {i}
      /\ \A j \in Named(s) : t.file[j] = s.file[j]
      /\ t.file[i].name = n /\ ("WRITE" \in t.file[i].flags <=> mode # "r")
      /\ f \notin DOMAIN s.fp /\ DOMAIN t.fp = DOMAIN s.fp \union {f}
      /\ \A g \in DOMAIN s.fp : t.fp[g] = s.fp[g]
      /\ t.fp[f].name = n /\ t.fp[f].mode = mode
  BY DEF Opened
<1>2. /\ DOMAIN t.data = DOMAIN s.data
      /\ \A m \in DOMAIN s.data : m # n => t.data[m] = s.data[m]
      /\ t.data[n] = << >> \/ (t.data[n] = s.data[n] /\ s.data[n] # Absent)
  <2>1. t.data[n] = IF Truncates(mode) \/ s.data[n] = Absent THEN << >> ELSE s.data[n]
    BY DEF Opened
  <2>2. t.data[n] = << >> \/ (t.data[n] = s.data[n] /\ s.data[n] # Absent)
    BY <2>1, Zenon
  <2> QED
    BY <2>2 DEF Opened
<1>3. Typed(N, t)
  <2>1. DOMAIN t.data = N \union Std /\ N \subseteq P!Names
    BY <1>2 DEF TableSound, Typed
  <2>2. ASSUME NEW m \in N \union Std PROVE Sound0(t.data[m])
    <3>1. Sound0(s.data[m]) /\ m \in DOMAIN s.data
      BY <2>1, <1>2 DEF TableSound, Typed
    <3>2. Sound0(<< >>)
      BY EmptySeq DEF Sound0
    <3>3. t.data[m] = s.data[m] \/ t.data[m] = << >>
      BY <1>2, <3>1
    <3> QED
      BY <3>1, <3>2, <3>3
  <2>3. \A m \in Sysout \union Std : m \in DOMAIN t.data => t.data[m] = << >>
    BY <1>2 DEF TableSound, Typed
  <2>4. \A g \in DOMAIN t.fp : IsStream(t.fp[g])
    BY <1>1 DEF TableSound, Typed
  <2>5. DOMAIN t.fp \subseteq Nat \ {NULL}
    BY <1>1 DEF TableSound, Typed
  <2>6. IsFiniteSet(DOMAIN t.fp)
    <3>1. IsFiniteSet(DOMAIN s.fp)
      BY DEF TableSound, Typed
    <3>2. IsFiniteSet(DOMAIN s.fp \union {f})
      BY <3>1, FS_AddElement
    <3> QED
      BY <1>1, <3>2
  <2> QED
    BY <2>1, <2>2, <2>3, <2>4, <2>5, <2>6 DEF Typed
<1>4. FSTDIN \in Named(s) /\ FSTDOUT \in Named(s)
  BY StdNamed
<1>5. \A j \in H : j \in Named(s) /\ j \notin {FSTDIN, FSTDOUT}
  BY DEF TableSound, Owned
<1>6. \A j \in Named(s) \ H : Has(s, j, s.file[j].f)
  BY DEF TableSound, Owned
<1>7. \A j \in Named(s) \ H : s.file[j].f \in DOMAIN s.fp
  BY <1>6 DEF Has
<1>8. Owned(t, H)
  <2>1. \A j \in H : j \in Named(t) /\ j \notin {FSTDIN, FSTDOUT}
    BY <1>1, <1>5
  <2>2. ASSUME NEW j \in Named(t) \ H PROVE Has(t, j, t.file[j].f)
    <3>1. CASE j = i
      BY <1>1, <3>1 DEF Has
    <3>2. CASE j # i
      <4>1. j \in Named(s) \ H /\ t.file[j] = s.file[j]
        BY <1>1, <2>2, <3>2
      <4>2. SharedStderr(s, j) => SharedStderr(t, j)
        BY <4>1 DEF SharedStderr
      <4>3. Has(s, j, s.file[j].f)
        BY <1>6, <4>1
      <4> QED
        BY <1>1, <4>1, <4>2, <4>3 DEF Has
    <3> QED
      BY <3>1, <3>2
  <2>3. ASSUME NEW j \in Named(t) \ H, NEW k \in Named(t) \ H, j # k, t.file[j].f = t.file[k].f
        PROVE  Shared /\ {j, k} = {FSTDOUT, FSTDERR} /\ t.file[FSTDERR].name = "<STDERR>"
    <3>0. \A h \in Named(t) \ H : h # i => h \in Named(s) \ H /\ t.file[h].f \in DOMAIN s.fp
      BY <1>1, <1>7
    <3>1. j # i /\ k # i
      BY <1>1, <2>3, <3>0
    <3>2. j \in Named(s) \ H /\ k \in Named(s) \ H /\ s.file[j].f = s.file[k].f
      BY <1>1, <2>3, <3>1
    <3>3. Shared /\ {j, k} = {FSTDOUT, FSTDERR} /\ s.file[FSTDERR].name = "<STDERR>"
      BY <2>3, <3>2 DEF TableSound, Owned
    <3>4. FSTDERR \in {j, k}
      BY <3>3
    <3>5. t.file[FSTDERR] = s.file[FSTDERR]
      BY <1>1, <3>2, <3>4
    <3> QED
      BY <3>3, <3>5
  <2>4. ASSUME NEW g \in DOMAIN t.fp
        PROVE  t.fp[g].name \in Std \/ \E j \in Named(t) \ H : t.file[j].f = g
    <3>1. CASE g = f
      BY <1>1, <1>5, <3>1
    <3>2. CASE g # f
      <4>1. g \in DOMAIN s.fp /\ t.fp[g] = s.fp[g]
        BY <1>1, <2>4, <3>2
      <4>2. s.fp[g].name \in Std \/ \E j \in Named(s) \ H : s.file[j].f = g
        BY <4>1 DEF TableSound, Owned
      <4> QED
        BY <1>1, <4>1, <4>2
    <3> QED
      BY <3>1, <3>2
  <2> QED
    BY <2>1, <2>2, <2>3, <2>4 DEF Owned
<1>9. StdPlaced(t)
  <2>1. t.file[FSTDIN].name = "<STDIN>" /\ t.file[FSTDOUT].name = "<STDOUT>"
    BY <1>1, <1>4 DEF TableSound, StdPlaced
  <2>2. ASSUME NEW j \in DOMAIN t.file, t.file[j].name \in Std
        PROVE  j \in {FSTDIN, FSTDOUT} \/ (j = FSTDERR /\ t.file[j].name = "<STDERR>")
    <3>1. j # i /\ t.file[j].name # ""
      BY <1>1, <2>2 DEF Std
    <3>2. j \in Named(s) /\ t.file[j] = s.file[j] /\ j \in DOMAIN s.file
      BY <1>1, <3>1 DEF Named
    <3> QED
      BY <2>2, <3>2 DEF TableSound, StdPlaced
  <2> QED
    BY <2>1, <2>2 DEF StdPlaced
<1>10. Allowed(N, t)
  <2>1. \A g \in DOMAIN t.fp : t.fp[g].name \in N \union Std
    BY <1>1 DEF TableSound, Allowed
  <2>2. ASSUME NEW g \in DOMAIN t.fp, t.fp[g].name \in N PROVE t.data[t.fp[g].name] # Absent
    <3>1. << >> # Absent
      BY DEF Absent, P!Absent
    <3>2. CASE t.fp[g].name = n
      BY <1>2, <3>1, <3>2
    <3>3. CASE t.fp[g].name # n
      <4>1. g \in DOMAIN s.fp /\ t.fp[g] = s.fp[g]
        BY <1>1, <3>3
      <4>2. s.data[s.fp[g].name] # Absent /\ s.fp[g].name \in DOMAIN s.data
        BY <2>2, <4>1 DEF TableSound, Allowed, Typed
      <4> QED
        BY <1>2, <3>3, <4>1, <4>2
    <3> QED
      BY <3>2, <3>3
  <2>3. ASSUME NEW g \in DOMAIN t.fp, t.fp[g].name \in Sysout PROVE t.fp[g].mode # "r"
    <3>1. CASE g = f
      BY <1>1, <2>3, <3>1
    <3>2. CASE g # f
      <4>1. g \in DOMAIN s.fp /\ t.fp[g] = s.fp[g]
        BY <1>1, <3>2
      <4> QED
        BY <2>3, <4>1 DEF TableSound, Allowed
    <3> QED
      BY <3>1, <3>2
  <2>4. ASSUME NEW g \in DOMAIN t.fp, NEW h \in DOMAIN t.fp,
               g # h, t.fp[g].name = t.fp[h].name, t.fp[g].name \in N
        PROVE  t.fp[g].mode = "r"
    <3>1. CASE g = f
      BY <1>1, <2>4, <3>1
    <3>2. CASE h = f
      BY <1>1, <2>4, <3>2
    <3>3. CASE g # f /\ h # f
      <4>1. g \in DOMAIN s.fp /\ h \in DOMAIN s.fp /\ t.fp[g] = s.fp[g] /\ t.fp[h] = s.fp[h]
        BY <1>1, <3>3
      <4> QED
        BY <2>4, <4>1 DEF TableSound, Allowed
    <3> QED
      BY <3>1, <3>2, <3>3
  <2> QED
    BY <2>1, <2>2, <2>3, <2>4 DEF Allowed
<1> QED
  BY <1>3, <1>8, <1>9, <1>10 DEF TableSound

LEMMA OpenAsIs ==
  ASSUME NEW s, NEW H, TableSound(Names, s, H), NEW n, NEW mode \in Modes, Faults = {},
         NEW o \in open_file_as(s, n, mode)
  PROVE  /\ o = [s |-> o.s, i |-> o.i] /\ TableSound(Names, o.s, H)
         /\ \/ o.i = -1 /\ Grew(s, o.s) /\ ~ CanOpen(s, n, mode)
            \/ o.i # -1 /\ Opened(s, o.s, o.i, n, mode) /\ CanOpen(s, n, mode) /\ Seeks(o.s, o.i)
<1> DEFINE g == Grown(s)
           i == find_empty(s)
           f == Min(1 .. Cardinality(DOMAIN s.fp) + 1 \ DOMAIN s.fp)
           new == Slot(n, f, IF mode \in {"w", "w+"} THEN 0 ELSE -1, {"SEEK"} \union mode_flags(mode))
           t == [fopen(g, f, n, mode) EXCEPT !.file[i] = new]
<1>1. Grew(s, g) /\ i \in DOMAIN g.file /\ i \notin Named(s) /\ g.file[i].name = ""
  BY GrownIs
<1>2. TableSound(Names, g, H)
  BY <1>1, GrewSound
<1>3. f \in Nat \ {NULL} /\ f \notin DOMAIN s.fp
  BY FreshStream DEF NULL
<1>4. CASE ~ CanOpen(s, n, mode)
  <2>1. o = [s |-> g, i |-> -1]
    BY <1>4 DEF open_file_as
  <2>2. o.s = g /\ o.i = -1
    BY <2>1
  <2> QED
    BY <1>1, <1>2, <1>4, <2>1, <2>2
<1>5. CASE CanOpen(s, n, mode)
  <2>1. o = [s |-> t, i |-> i]
    BY <1>5 DEF open_file_as
  <2>2. n \in Names /\ n \notin Std /\ n # "" /\ n \in DOMAIN s.data
    <3>1. n \in Names
      BY <1>5 DEF CanOpen
    <3>2. n \in P!Names /\ n \in DOMAIN s.data
      BY <3>1 DEF TableSound, Typed
    <3> QED
      BY <3>1, <3>2, NamesAssumption DEF P!Names, Std
  <2> DEFINE x == [name |-> n, mode |-> mode, pos |-> 0, eof |-> FALSE]
             d == IF mode \in {"w", "w+"} \/ s.data[n] = Absent THEN << >> ELSE s.data[n]
             streams == [h \in DOMAIN s.fp \union {f} |-> IF h = f THEN x ELSE s.fp[h]]
  <2>3. /\ x.name = n /\ x.mode = mode /\ IsStream(x)
        /\ IsSlot(new) /\ new.name = n /\ new.f = f /\ ("WRITE" \in new.flags <=> mode # "r")
        /\ new.rpos = 0 /\ new.wpos = (IF Truncates(mode) THEN 0 ELSE -1)
        /\ "SEEK" \in new.flags /\ "NOTREADY" \notin new.flags
    BY DEF IsStream, IsSlot, Slot, mode_flags, Truncates
  <2>4. g = [data |-> s.data, fp |-> s.fp, file |-> g.file]
    BY <1>1 DEF Grew, IsState
  <2> HIDE DEF x, d, new, f, i, g
  <2>5. fopen(g, f, n, mode) = [data |-> [s.data EXCEPT ![n] = d], fp |-> streams, file |-> g.file]
    <3>1. g.fp = s.fp /\ g.data = s.data
      BY <2>4
    <3> DEFINE r == [g EXCEPT !.fp = streams]
    <3>2. fopen(g, f, n, mode) = [r EXCEPT !.data[n] = IF mode \in {"w", "w+"} \/ @ = Absent THEN << >> ELSE @]
      BY <3>1 DEF fopen, x
    <3>3. r = [data |-> s.data, fp |-> streams, file |-> g.file]
      <4> HIDE DEF streams
      <4> QED
        BY <2>4
    <3> HIDE DEF r, streams
    <3>4. [r EXCEPT !.data[n] = IF mode \in {"w", "w+"} \/ @ = Absent THEN << >> ELSE @] = [r EXCEPT !.data[n] = d]
      BY <3>3 DEF d
    <3>5. [r EXCEPT !.data[n] = d] = [data |-> [s.data EXCEPT ![n] = d], fp |-> streams, file |-> g.file]
      BY <3>3
    <3> QED
      BY <3>2, <3>4, <3>5
  <2>6. t = [data |-> [s.data EXCEPT ![n] = d], fp |-> streams, file |-> [g.file EXCEPT ![i] = new]]
    <3> HIDE DEF streams
    <3> QED
      BY <2>5
  <2>7. t.data = [s.data EXCEPT ![n] = d] /\ t.fp = streams /\ t.file = [g.file EXCEPT ![i] = new] /\ IsState(t)
    BY <2>6 DEF IsState
  <2> HIDE DEF t
  <2>8. DOMAIN t.fp = DOMAIN s.fp \union {f} /\ t.fp[f] = x /\ \A h \in DOMAIN s.fp : t.fp[h] = s.fp[h]
    BY <1>3, <2>7
  <2>9. DOMAIN t.file = DOMAIN g.file /\ t.file[i] = new /\ \A j \in DOMAIN g.file : j # i => t.file[j] = g.file[j]
    BY <1>1, <2>7 DEF g, i
  <2>10. \A j \in DOMAIN s.file : j \in DOMAIN g.file /\ g.file[j] = s.file[j]
    BY <1>1 DEF Grew, g
  <2>11. Named(g) = Named(s) /\ i \notin Named(g)
    BY <1>1 DEF Grew, g, i
  <2>12. Named(t) = Named(s) \union {i} /\ i \in DOMAIN t.file
    <3>1. i \in DOMAIN t.file
      BY <1>1, <2>9 DEF g, i
    <3>2. \A j \in DOMAIN t.file : j \in Named(t) <=> j \in Named(g) \/ j = i
      BY <2>2, <2>3, <2>9 DEF Named
    <3>3. Named(t) \subseteq DOMAIN t.file /\ Named(g) \subseteq DOMAIN t.file
      BY <2>9 DEF Named
    <3> QED
      BY <2>11, <3>1, <3>2, <3>3
  <2>13. Opened(s, t, i, n, mode)
    <3>1. \A j \in Named(s) : t.file[j] = s.file[j]
      <4>1. \A j \in Named(s) : j \in DOMAIN s.file /\ j # i
        BY <2>11 DEF Named
      <4> QED
        BY <2>9, <2>10, <4>1
    <3>2. /\ t.file[i].name = n /\ t.file[i].f = f /\ ("WRITE" \in t.file[i].flags <=> mode # "r")
          /\ t.file[i].rpos = 0 /\ t.file[i].wpos = (IF Truncates(mode) THEN 0 ELSE -1)
          /\ "NOTREADY" \notin t.file[i].flags
      BY <2>3, <2>9
    <3>3. DOMAIN t.data = DOMAIN s.data /\ t.data[n] = d /\ t.data = [s.data EXCEPT ![n] = d]
          /\ \A m \in DOMAIN s.data : m # n => t.data[m] = s.data[m]
      BY <2>2, <2>7
    <3>4. t.fp[t.file[i].f].name = n /\ t.fp[t.file[i].f].mode = mode
      BY <2>3, <2>8, <3>2
    <3>5. t.file[i].f \notin DOMAIN s.fp /\ DOMAIN t.fp = DOMAIN s.fp \union {t.file[i].f}
      BY <1>3, <2>8, <3>2 DEF f
    <3>6. t.data[n] = IF Truncates(mode) \/ s.data[n] = Absent THEN << >> ELSE s.data[n]
      BY <3>3 DEF d, Truncates
    <3> QED
      BY <2>8, <2>11, <2>12, <3>1, <3>2, <3>3, <3>4, <3>5, <3>6 DEF Opened
  <2>14. TableSound(Names, t, H)
    <3>1. \E k \in Nat : k > FSTDERR + 1 /\ DOMAIN t.file = 0 .. k - 1
      BY <1>2, <2>9 DEF TableSound, Typed, g
    <3>2. \A j \in DOMAIN t.file : IsSlot(t.file[j])
      BY <1>2, <2>3, <2>9 DEF TableSound, Typed, g
    <3>3. IsStream(t.fp[t.file[i].f]) /\ t.file[i].f \in Nat \ {NULL}
      BY <1>3, <2>3, <2>8, <2>9 DEF f
    <3>4. n \in Sysout => mode # "r"
      BY <1>5 DEF CanOpen
    <3>5. \A h \in DOMAIN s.fp : s.fp[h].name = n => s.fp[h].mode = "r" /\ mode = "r"
      BY <1>5 DEF CanOpen, InUse
    <3>6. n \in Names \ Std
      BY <2>2
    <3> QED
      BY <2>2, <2>7, <2>13, <3>1, <3>2, <3>3, <3>4, <3>5, <3>6, OpenedSound
  <2>15. i # -1
    <3>1. i \in DOMAIN g.file
      BY <1>1 DEF g, i
    <3> QED
      BY <1>2, <3>1 DEF TableSound, Typed, g
  <2>16. o.s = t /\ o.i = i
    BY <2>1 DEF t, i
  <2>17. o = [s |-> t, i |-> i]
    BY <2>1 DEF t, i
  <2>18. Seeks(t, i)
    BY <2>3, <2>9 DEF Seeks
  <2> QED
    BY <1>5, <2>13, <2>14, <2>15, <2>16, <2>17, <2>18
<1> QED
  BY <1>4, <1>5

LEMMA GrewThenOpened ==
  ASSUME NEW N, NEW s, NEW H, TableSound(N, s, H), NEW g, Grew(s, g), NEW t, NEW i, NEW n, NEW mode,
         Opened(g, t, i, n, mode)
  PROVE  Opened(s, t, i, n, mode)
<1>1. g.data = s.data /\ g.fp = s.fp /\ Named(g) = Named(s)
  BY DEF Grew
<1>2. \A j \in Named(s) : g.file[j] = s.file[j]
  BY DEF Grew, Named
<1> QED
  BY <1>1, <1>2 DEF Opened

LEMMA GrewTwice ==
  ASSUME NEW s, NEW g, NEW t, Grew(s, g), Grew(g, t)
  PROVE  Grew(s, t)
<1>1. \A i \in DOMAIN s.file : t.file[i] = s.file[i]
  BY DEF Grew
<1>2. \A i \in DOMAIN t.file \ DOMAIN s.file : t.file[i] = Empty
  BY DEF Grew
<1> QED
  BY <1>1, <1>2 DEF Grew

LEMMA GrewCanOpen ==
  ASSUME NEW s, NEW t, Grew(s, t), NEW n, NEW mode
  PROVE  CanOpen(t, n, mode) <=> CanOpen(s, n, mode)
  BY DEF Grew, CanOpen, InUse

(* A stream with one position is opened as well as one with two.            *)
LEMMA OnePositionOpened ==
  ASSUME NEW s, NEW H, NEW n, NEW mode, NEW o, o = [s |-> o.s, i |-> o.i], o.i # -1,
         TableSound(Names, o.s, H), Opened(s, o.s, o.i, n, mode)
  PROVE  LET one == OnePosition(o)
         IN  /\ one = [s |-> one.s, i |-> o.i] /\ one.i = o.i
             /\ TableSound(Names, one.s, H) /\ Opened(s, one.s, o.i, n, mode) /\ ~ Seeks(one.s, o.i)
<1> DEFINE t == o.s
           i == o.i
           v == t.file[i].flags \ {"SEEK"}
           u == [t EXCEPT !.file[i].flags = v]
<1>1. i \in DOMAIN t.file
  BY DEF Opened
<1>2. t = [data |-> t.data, fp |-> t.fp, file |-> t.file]
  BY Parts
<1>3. /\ "WRITE" \in v <=> "WRITE" \in t.file[i].flags
      /\ "SEEK" \notin v /\ ("NOTREADY" \in v <=> "NOTREADY" \in t.file[i].flags)
  OBVIOUS
<1>4. OnePosition(o) = [o EXCEPT !.s = u]
  BY <1>2 DEF OnePosition
<1> HIDE DEF v
<1>5. Kept(t, u)
  BY <1>1, <1>3, FlagsKept
<1>6. TableSound(Names, u, H)
  BY <1>5, KeptSound
<1>7. u.data = t.data /\ u.fp = t.fp /\ u.file = [t.file EXCEPT ![i].flags = v]
  BY <1>2
<1>8. OnePosition(o) = [s |-> u, i |-> i]
  <2> HIDE DEF u
  <2> QED
    BY <1>4
<1> HIDE DEF u
<1>9. \A j \in DOMAIN t.file : j # i => u.file[j] = t.file[j]
  BY <1>7
<1>10. u.file[i].name = t.file[i].name /\ u.file[i].f = t.file[i].f
       /\ ("WRITE" \in u.file[i].flags <=> "WRITE" \in t.file[i].flags) /\ DOMAIN u.file = DOMAIN t.file
  BY <1>1, <1>5 DEF Kept
<1>13. u.file[i].rpos = t.file[i].rpos /\ u.file[i].wpos = t.file[i].wpos /\ u.file[i].flags = v
  <2>1. t.file[i] = [name |-> t.file[i].name, f |-> t.file[i].f, rpos |-> t.file[i].rpos,
                     wpos |-> t.file[i].wpos, flags |-> t.file[i].flags]
    BY <1>1, Parts
  <2> QED
    BY <1>1, <1>7, <2>1
<1>11. Named(u) = Named(t)
  BY <1>5 DEF Kept, Named
<1>12. Opened(s, u, i, n, mode)
  <2>1. \A j \in Named(s) : j \in DOMAIN t.file /\ j # i
    BY DEF Opened, Named
  <2>2. \A j \in Named(s) : u.file[j] = s.file[j]
    BY <1>9, <2>1 DEF Opened
  <2>3. /\ u.file[i].rpos = 0 /\ u.file[i].wpos = (IF Truncates(mode) THEN 0 ELSE -1)
        /\ "NOTREADY" \notin u.file[i].flags
    BY <1>3, <1>13 DEF Opened
  <2> QED
    BY <1>7, <1>10, <1>11, <2>2, <2>3 DEF Opened
<1>14. ~ Seeks(u, i)
  BY <1>3, <1>13 DEF Seeks
<1> QED
  BY <1>6, <1>8, <1>12, <1>14

Tried(mode) == {mode, open_mode(mode)}

LEMMA TriedModes ==
  ASSUME NEW mode \in Modes
  PROVE  /\ open_mode(mode) \in Modes
         /\ open_mode(mode) # "r" <=> mode # "r"
         /\ Truncates(open_mode(mode)) <=> Truncates(mode)
  BY DEF open_mode, Modes, Truncates

(* A stream has two positions unless it could only be opened as asked.      *)
OpenedAs(s, n, mode, o, m) ==
  IF Seeks(o.s, o.i) THEN m = open_mode(mode)
  ELSE m = mode /\ mode # open_mode(mode) /\ ~ CanOpen(s, n, open_mode(mode))

LEMMA OpenIs ==
  ASSUME NEW s, NEW H, TableSound(Names, s, H), NEW n, NEW mode \in Modes, Faults = {},
         NEW o \in open_file(s, n, mode)
  PROVE  /\ o = [s |-> o.s, i |-> o.i] /\ TableSound(Names, o.s, H)
         /\ \/ o.i = -1 /\ Grew(s, o.s) /\ \A m \in Tried(mode) : ~ CanOpen(s, n, m)
            \/ o.i # -1 /\ \E m \in Tried(mode) :
                 Opened(s, o.s, o.i, n, m) /\ CanOpen(s, n, m) /\ OpenedAs(s, n, mode, o, m)
<1> DEFINE m == open_mode(mode)
<1>1. m \in Modes
  BY TriedModes
<1>2. PICK a \in open_file_as(s, n, m) :
        IF a.i # -1 \/ m = mode THEN o = a
        ELSE o \in {OnePosition(again) : again \in open_file_as(a.s, n, mode)}
  BY Zenon DEF open_file
<1>3. /\ a = [s |-> a.s, i |-> a.i] /\ TableSound(Names, a.s, H)
      /\ \/ a.i = -1 /\ Grew(s, a.s) /\ ~ CanOpen(s, n, m)
         \/ a.i # -1 /\ Opened(s, a.s, a.i, n, m) /\ CanOpen(s, n, m) /\ Seeks(a.s, a.i)
  BY <1>1, OpenAsIs
<1> HIDE DEF m
<1>4. CASE a.i # -1 \/ m = mode
  BY <1>2, <1>3, <1>4 DEF Tried, OpenedAs, m
<1>5. CASE ~(a.i # -1 \/ m = mode)
  <2>1. PICK b \in open_file_as(a.s, n, mode) : o = OnePosition(b)
    BY <1>2, <1>5
  <2>2. /\ b = [s |-> b.s, i |-> b.i] /\ TableSound(Names, b.s, H)
        /\ \/ b.i = -1 /\ Grew(a.s, b.s) /\ ~ CanOpen(a.s, n, mode)
           \/ b.i # -1 /\ Opened(a.s, b.s, b.i, n, mode) /\ CanOpen(a.s, n, mode)
    BY <1>3, OpenAsIs
  <2>3. Grew(s, a.s) /\ ~ CanOpen(s, n, m)
    BY <1>3, <1>5
  <2>4. CASE b.i = -1
    <3>1. o = b
      BY <2>1, <2>4 DEF OnePosition
    <3>2. Grew(s, b.s) /\ ~ CanOpen(s, n, mode)
      BY <2>2, <2>3, <2>4, GrewTwice, GrewCanOpen
    <3>3. \A k \in Tried(mode) : ~ CanOpen(s, n, k)
      BY <2>3, <3>2 DEF Tried, m
    <3> QED
      BY <2>2, <2>4, <3>1, <3>2, <3>3
  <2>5. CASE b.i # -1
    <3>1. Opened(s, b.s, b.i, n, mode) /\ CanOpen(s, n, mode)
      BY <2>2, <2>3, <2>5, GrewThenOpened, GrewCanOpen
    <3>2. /\ o = [s |-> o.s, i |-> b.i] /\ o.i = b.i
          /\ TableSound(Names, o.s, H) /\ Opened(s, o.s, b.i, n, mode) /\ ~ Seeks(o.s, b.i)
      BY <2>1, <2>2, <2>5, <3>1, OnePositionOpened
    <3>3. mode \in Tried(mode)
      BY DEF Tried
    <3>4. OpenedAs(s, n, mode, o, mode)
      BY <1>5, <2>3, <3>2 DEF OpenedAs, m
    <3> QED
      BY <2>5, <3>1, <3>2, <3>3, <3>4
  <2> QED
    BY <2>4, <2>5
<1> QED
  BY <1>4, <1>5

-----------------------------------------------------------------------------
(* Closing.                                                                 *)

LEMMA CloseSound ==
  ASSUME NEW N, NEW s, TableSound(N, s, {}), NEW i \in Named(s), i \notin {FSTDIN, FSTDOUT}
  PROVE  LET t == close_file(s, i)
         IN  /\ TableSound(N, t, {}) /\ t.data = s.data /\ Named(t) = Named(s) \ {i}
             /\ \A f \in DOMAIN t.fp : f \in DOMAIN s.fp /\ t.fp[f] = s.fp[f]
             /\ \A j \in Named(s) \ {i} : t.file[j] = s.file[j]
             /\ s.file[i].name \notin Std => DOMAIN t.fp = DOMAIN s.fp \ {s.file[i].f}
<1> DEFINE e == s.file[i].f
           shared == i = FSTDERR /\ e = s.file[FSTDOUT].f
           gone == IF shared THEN {} ELSE {e}
           t == close_file(s, i)
<1>1. i \in DOMAIN s.file /\ e \in DOMAIN s.fp
  BY Live
<1>2. s = [data |-> s.data, fp |-> s.fp, file |-> s.file]
  BY Parts
<1>3. /\ t.data = s.data /\ t.file = [s.file EXCEPT ![i] = Empty] /\ IsState(t)
      /\ DOMAIN t.fp = DOMAIN s.fp \ gone /\ \A f \in DOMAIN t.fp : t.fp[f] = s.fp[f]
  <2>1. CASE shared
    <3>1. t = [s EXCEPT !.file[i] = Empty]
      BY <2>1 DEF close_file
    <3> QED
      BY <1>2, <2>1, <3>1 DEF IsState
  <2>2. CASE ~shared
    <3> DEFINE streams == [f \in DOMAIN s.fp \ {e} |-> s.fp[f]]
    <3>1. t = [[s EXCEPT !.fp = streams] EXCEPT !.file[i] = Empty]
      BY <1>2, <2>2 DEF close_file, fclose
    <3>2. gone = {e}
      BY <2>2
    <3> HIDE DEF streams, t, gone
    <3>3. t.data = s.data /\ t.file = [s.file EXCEPT ![i] = Empty] /\ IsState(t) /\ t.fp = streams
      BY <1>2, <3>1 DEF IsState
    <3> QED
      BY <3>2, <3>3 DEF streams
  <2> QED
    BY <2>1, <2>2
<1> HIDE DEF t
<1>4. FSTDIN \in Named(s) /\ FSTDOUT \in Named(s) /\ FSTDERR \in DOMAIN s.file
  BY StdNamed
<1>5. DOMAIN t.file = DOMAIN s.file /\ t.file[i] = Empty /\ \A j \in DOMAIN s.file : j # i => t.file[j] = s.file[j]
  BY <1>1, <1>3
<1>6. Named(t) = Named(s) \ {i}
  BY <1>5, EmptyIsSlot DEF Named
<1>7. \A j \in Named(s) \ {i} : j \in DOMAIN s.file /\ t.file[j] = s.file[j]
  BY <1>5 DEF Named
<1>8. \A j \in Named(s) : Has(s, j, s.file[j].f)
  BY DEF TableSound, Owned
<1>9. \A j \in Named(s) : j # i /\ s.file[j].f = e =>
        shared /\ j = FSTDOUT /\ Shared /\ s.file[i].name = "<STDERR>"
  <2> SUFFICES ASSUME NEW j \in Named(s), j # i, s.file[j].f = e
               PROVE  shared /\ j = FSTDOUT /\ Shared /\ s.file[i].name = "<STDERR>"
    OBVIOUS
  <2>1. Shared /\ {i, j} = {FSTDOUT, FSTDERR} /\ s.file[FSTDERR].name = "<STDERR>"
    BY DEF TableSound, Owned
  <2>2. i = FSTDERR /\ j = FSTDOUT
    BY <2>1 DEF FSTDOUT, FSTDERR
  <2> QED
    BY <2>1, <2>2
<1>10. Owned(t, {})
  <2>1. ASSUME NEW j \in Named(t) PROVE Has(t, j, t.file[j].f)
    <3>1. j \in Named(s) /\ j # i /\ t.file[j] = s.file[j]
      BY <1>6, <1>7, <2>1
    <3>2. Has(s, j, s.file[j].f)
      BY <1>8, <3>1
    <3>3. s.file[j].f \notin gone
      BY <1>9, <3>1
    <3>4. SharedStderr(s, j) => SharedStderr(t, j)
      BY <3>1 DEF SharedStderr
    <3> QED
      BY <1>3, <3>1, <3>2, <3>3, <3>4 DEF Has
  <2>2. ASSUME NEW j \in Named(t), NEW k \in Named(t), j # k, t.file[j].f = t.file[k].f
        PROVE  Shared /\ {j, k} = {FSTDOUT, FSTDERR} /\ t.file[FSTDERR].name = "<STDERR>"
    <3>1. j \in Named(s) /\ k \in Named(s) /\ j # i /\ k # i
          /\ t.file[j] = s.file[j] /\ t.file[k] = s.file[k]
      BY <1>6, <1>7, <2>2
    <3>2. Shared /\ {j, k} = {FSTDOUT, FSTDERR} /\ s.file[FSTDERR].name = "<STDERR>"
      BY <2>2, <3>1 DEF TableSound, Owned
    <3>3. FSTDERR \in {j, k}
      BY <3>2
    <3> QED
      BY <3>1, <3>2, <3>3
  <2>3. ASSUME NEW f \in DOMAIN t.fp
        PROVE  t.fp[f].name \in Std \/ \E j \in Named(t) : t.file[j].f = f
    <3>1. f \in DOMAIN s.fp /\ f \notin gone /\ t.fp[f] = s.fp[f]
      BY <1>3
    <3>2. s.fp[f].name \in Std \/ \E j \in Named(s) : s.file[j].f = f
      BY <3>1 DEF TableSound, Owned
    <3>3. CASE s.fp[f].name \in Std
      BY <3>1, <3>3
    <3>4. CASE \E j \in Named(s) : s.file[j].f = f
      <4>1. PICK j \in Named(s) : s.file[j].f = f
        BY <3>4
      <4>2. CASE j # i
        BY <1>6, <1>7, <4>1, <4>2
      <4>3. CASE j = i
        <5>1. shared
          BY <3>1, <4>1, <4>3
        <5>2. FSTDOUT \in Named(t) /\ t.file[FSTDOUT].f = f
          BY <1>4, <1>6, <1>7, <4>1, <4>3, <5>1
        <5> QED
          BY <5>2
      <4> QED
        BY <4>2, <4>3
    <3> QED
      BY <3>2, <3>3, <3>4
  <2> QED
    BY <2>1, <2>2, <2>3 DEF Owned
<1>11. Typed(N, t)
  <2>1. IsFiniteSet(DOMAIN t.fp)
    <3>1. IsFiniteSet(DOMAIN s.fp)
      BY DEF TableSound, Typed
    <3>2. DOMAIN t.fp \subseteq DOMAIN s.fp
      BY <1>3
    <3> QED
      BY <3>1, <3>2, FS_Subset
  <2>2. /\ \A f \in DOMAIN t.fp : IsStream(t.fp[f])
        /\ DOMAIN t.fp \subseteq Nat \ {NULL}
    BY <1>3 DEF TableSound, Typed
  <2>3. /\ \E k \in Nat : k > FSTDERR + 1 /\ DOMAIN t.file = 0 .. k - 1
        /\ \A j \in DOMAIN t.file : IsSlot(t.file[j])
    BY <1>5, EmptyIsSlot DEF TableSound, Typed
  <2> QED
    BY <1>3, <2>1, <2>2, <2>3 DEF TableSound, Typed
<1>12. StdPlaced(t)
  <2>1. t.file[FSTDIN].name = "<STDIN>" /\ t.file[FSTDOUT].name = "<STDOUT>"
    BY <1>4, <1>7 DEF TableSound, StdPlaced
  <2>2. ASSUME NEW j \in DOMAIN t.file, t.file[j].name \in Std
        PROVE  j \in {FSTDIN, FSTDOUT} \/ (j = FSTDERR /\ t.file[j].name = "<STDERR>")
    <3>1. j # i
      BY <1>5, <2>2, EmptyIsSlot DEF Std
    <3>2. j \in DOMAIN s.file /\ t.file[j] = s.file[j]
      BY <1>5, <2>2, <3>1
    <3> QED
      BY <2>2, <3>2 DEF TableSound, StdPlaced
  <2> QED
    BY <2>1, <2>2 DEF StdPlaced
<1>13. Allowed(N, t)
  <2>1. \A f \in DOMAIN t.fp : f \in DOMAIN s.fp /\ t.fp[f] = s.fp[f]
    BY <1>3
  <2> QED
    BY <1>3, <2>1 DEF TableSound, Allowed
<1>14. s.file[i].name \notin Std => DOMAIN t.fp = DOMAIN s.fp \ {e}
  <2> SUFFICES ASSUME s.file[i].name \notin Std PROVE ~ shared
    BY <1>3
  <2> SUFFICES ASSUME shared PROVE FALSE
    OBVIOUS
  <2>1. FSTDOUT # i /\ s.file[FSTDOUT].f = e
    OBVIOUS
  <2>2. s.file[i].name = "<STDERR>"
    BY <1>4, <1>9, <2>1
  <2> QED
    BY <2>2 DEF Std
<1> QED
  BY <1>3, <1>6, <1>7, <1>10, <1>11, <1>12, <1>13, <1>14 DEF t, TableSound

-----------------------------------------------------------------------------
(* Replacing a stream.                                                      *)

(* A stream of a data set is that of one slot.                              *)
LEMMA OwnStream ==
  ASSUME NEW N, NEW s, NEW H, TableSound(N, s, H), NEW i \in Named(s) \ H, s.file[i].name \notin Std,
         NEW j \in Named(s) \ H, s.file[j].f = s.file[i].f
  PROVE  j = i
<1> SUFFICES ASSUME j # i PROVE FALSE
  OBVIOUS
<1>1. {i, j} = {FSTDOUT, FSTDERR} /\ s.file[FSTDERR].name = "<STDERR>"
  BY DEF TableSound, Owned
<1>2. s.file[FSTDOUT].name = "<STDOUT>"
  BY DEF TableSound, StdPlaced
<1>3. i \in {FSTDOUT, FSTDERR}
  BY <1>1
<1> QED
  BY <1>1, <1>2, <1>3 DEF Std

(* The stream is closed, its slot stays.                                    *)
Emptied(s, i) == [fclose(s, s.file[i].f) EXCEPT !.file[i].f = NULL]

LEMMA EmptiedSound ==
  ASSUME NEW N, NEW s, TableSound(N, s, {}), NEW i \in Named(s), s.file[i].name \notin Std
  PROVE  LET t == Emptied(s, i)
         IN  /\ TableSound(N, t, {i}) /\ t.data = s.data /\ Named(t) = Named(s)
             /\ DOMAIN t.fp = DOMAIN s.fp \ {s.file[i].f} /\ \A f \in DOMAIN t.fp : t.fp[f] = s.fp[f]
             /\ t.file[i].name = s.file[i].name /\ t.file[i].flags = s.file[i].flags
<1> DEFINE e == s.file[i].f
           y == s.file[i]
           x == [name |-> y.name, f |-> NULL, rpos |-> y.rpos, wpos |-> y.wpos, flags |-> y.flags]
           streams == [f \in DOMAIN s.fp \ {e} |-> s.fp[f]]
           t == Emptied(s, i)
<1>1. i \in DOMAIN s.file /\ e \in DOMAIN s.fp
  BY Live
<1>2. s = [data |-> s.data, fp |-> s.fp, file |-> s.file]
  BY Parts
<1>3. y = [name |-> y.name, f |-> y.f, rpos |-> y.rpos, wpos |-> y.wpos, flags |-> y.flags]
      /\ y.rpos \in Nat /\ y.wpos \in Int /\ y.wpos >= -1
  BY <1>1, Parts
<1>4. IsSlot(x) /\ x.name = y.name /\ x.flags = y.flags /\ x.f = NULL
  BY <1>3 DEF IsSlot
<1>5. [y EXCEPT !.f = NULL] = x
  BY <1>3
<1> HIDE DEF x
<1>6. t.data = s.data /\ t.fp = streams /\ t.file = [s.file EXCEPT ![i] = x] /\ IsState(t)
  <2>1. t = [[s EXCEPT !.fp = streams] EXCEPT !.file[i].f = NULL]
    BY <1>2 DEF Emptied, fclose
  <2> HIDE DEF streams, t
  <2> DEFINE r == [s EXCEPT !.fp = streams]
  <2>2. r = [data |-> s.data, fp |-> streams, file |-> s.file]
    BY <1>2
  <2> HIDE DEF r
  <2>3. [r EXCEPT !.file[i].f = NULL] = [r EXCEPT !.file[i] = x]
    BY <1>5, <2>2
  <2>4. t = [r EXCEPT !.file[i] = x]
    BY <2>1, <2>3 DEF r
  <2>5. t = [data |-> s.data, fp |-> streams, file |-> [s.file EXCEPT ![i] = x]]
    BY <2>2, <2>4
  <2> QED
    BY <2>5 DEF IsState
<1> HIDE DEF t
<1>7. DOMAIN t.fp = DOMAIN s.fp \ {e} /\ \A f \in DOMAIN t.fp : f \in DOMAIN s.fp /\ t.fp[f] = s.fp[f]
  BY <1>6
<1>8. DOMAIN t.file = DOMAIN s.file /\ t.file[i] = x /\ \A j \in DOMAIN s.file : j # i => t.file[j] = s.file[j]
  BY <1>1, <1>6
<1>9. \A j \in DOMAIN s.file : t.file[j].name = s.file[j].name
  BY <1>4, <1>8
<1>10. Named(t) = Named(s)
  BY <1>8, <1>9 DEF Named
<1>11. FSTDIN \in DOMAIN s.file /\ FSTDOUT \in DOMAIN s.file /\ FSTDERR \in DOMAIN s.file
  BY StdNamed
<1>12. i \notin {FSTDIN, FSTDOUT}
  BY DEF TableSound, StdPlaced, Std
<1>13. \A j \in Named(s) : s.file[j].f = e => j = i
  BY OwnStream
<1>14. \A j \in Named(s) : j \in DOMAIN s.file
  BY DEF Named
<1>15. Owned(t, {i})
  <2>1. ASSUME NEW j \in Named(t) \ {i} PROVE Has(t, j, t.file[j].f)
    <3>1. j \in Named(s) /\ t.file[j] = s.file[j] /\ s.file[j].f # e
      BY <1>8, <1>10, <1>13, <1>14, <2>1
    <3>2. Has(s, j, s.file[j].f)
      BY <3>1 DEF TableSound, Owned
    <3>3. SharedStderr(s, j) => SharedStderr(t, j)
      BY <1>9, <1>11 DEF SharedStderr
    <3> QED
      BY <1>7, <3>1, <3>2, <3>3 DEF Has
  <2>2. ASSUME NEW j \in Named(t) \ {i}, NEW k \in Named(t) \ {i}, j # k, t.file[j].f = t.file[k].f
        PROVE  Shared /\ {j, k} = {FSTDOUT, FSTDERR} /\ t.file[FSTDERR].name = "<STDERR>"
    <3>1. j \in Named(s) /\ k \in Named(s) /\ t.file[j] = s.file[j] /\ t.file[k] = s.file[k]
      BY <1>8, <1>10, <1>14, <2>2
    <3>2. Shared /\ {j, k} = {FSTDOUT, FSTDERR} /\ s.file[FSTDERR].name = "<STDERR>"
      BY <2>2, <3>1 DEF TableSound, Owned
    <3> QED
      BY <1>9, <1>11, <3>2
  <2>3. ASSUME NEW f \in DOMAIN t.fp
        PROVE  t.fp[f].name \in Std \/ \E j \in Named(t) \ {i} : t.file[j].f = f
    <3>1. f \in DOMAIN s.fp /\ f # e /\ t.fp[f] = s.fp[f]
      BY <1>7
    <3>2. s.fp[f].name \in Std \/ \E j \in Named(s) : s.file[j].f = f
      BY <3>1 DEF TableSound, Owned
    <3>3. CASE s.fp[f].name \in Std
      BY <3>1, <3>3
    <3>4. CASE \E j \in Named(s) : s.file[j].f = f
      <4>1. PICK j \in Named(s) : s.file[j].f = f
        BY <3>4
      <4>2. j # i
        BY <3>1, <4>1
      <4> QED
        BY <1>8, <1>10, <1>14, <4>1, <4>2
    <3> QED
      BY <3>2, <3>3, <3>4
  <2> QED
    BY <1>10, <1>12, <2>1, <2>2, <2>3 DEF Owned
<1>16. Typed(N, t)
  <2>1. IsFiniteSet(DOMAIN t.fp)
    <3>1. IsFiniteSet(DOMAIN s.fp)
      BY DEF TableSound, Typed
    <3>2. DOMAIN t.fp \subseteq DOMAIN s.fp
      BY <1>7
    <3> QED
      BY <3>1, <3>2, FS_Subset
  <2>2. /\ \A f \in DOMAIN t.fp : IsStream(t.fp[f])
        /\ DOMAIN t.fp \subseteq Nat \ {NULL}
    BY <1>7 DEF TableSound, Typed
  <2>3. /\ \E k \in Nat : k > FSTDERR + 1 /\ DOMAIN t.file = 0 .. k - 1
        /\ \A j \in DOMAIN t.file : IsSlot(t.file[j])
    BY <1>4, <1>8 DEF TableSound, Typed
  <2> QED
    BY <1>6, <2>1, <2>2, <2>3 DEF TableSound, Typed
<1>17. StdPlaced(t)
  BY <1>8, <1>9, <1>11 DEF TableSound, StdPlaced
<1>18. Allowed(N, t)
  BY <1>6, <1>7 DEF TableSound, Allowed
<1> QED
  BY <1>4, <1>6, <1>7, <1>8, <1>10, <1>15, <1>16, <1>17, <1>18 DEF t, TableSound

(* The stream of slot j goes to slot i, which has none.                     *)
LEMMA AdoptedSound ==
  ASSUME NEW N, NEW s, NEW i, TableSound(N, s, {i}), s.file[i].name \notin Std, "WRITE" \notin s.file[i].flags,
         NEW j \in Named(s) \ {i}, s.file[j].name = s.file[i].name
  PROVE  LET t == Adopted(s, i, j)
         IN  /\ TableSound(N, t, {}) /\ t.data = s.data /\ Named(t) = Named(s) \ {j}
             /\ i \in Named(t) /\ t.file[i].name = s.file[i].name
<1> DEFINE e == s.file[j].f
           y == s.file[i]
           flags == y.flags \union (s.file[j].flags \intersect {"WRITE"})
           x == [name |-> y.name, f |-> e, rpos |-> y.rpos, wpos |-> y.wpos, flags |-> flags]
           t == Adopted(s, i, j)
<1>1. i \in Named(s) /\ i \in DOMAIN s.file /\ j \in DOMAIN s.file /\ i \notin {FSTDIN, FSTDOUT}
  BY DEF TableSound, Owned, Named
<1>2. s = [data |-> s.data, fp |-> s.fp, file |-> s.file]
  BY Parts
<1>3. y = [name |-> y.name, f |-> y.f, rpos |-> y.rpos, wpos |-> y.wpos, flags |-> y.flags]
      /\ y.rpos \in Nat /\ y.wpos \in Int /\ y.wpos >= -1
  BY <1>1, Parts
<1>4. IsSlot(x) /\ x.name = y.name /\ x.f = e /\ ("WRITE" \in x.flags <=> "WRITE" \in s.file[j].flags)
  BY <1>3 DEF IsSlot
<1>5. t.data = s.data /\ t.fp = s.fp /\ t.file = [s.file EXCEPT ![i] = x, ![j] = Empty] /\ IsState(t)
  <2> DEFINE a == [y EXCEPT !.f = e]
  <2>1. a = [name |-> y.name, f |-> e, rpos |-> y.rpos, wpos |-> y.wpos, flags |-> y.flags]
    BY <1>3
  <2>2. [a EXCEPT !.flags = flags] = x /\ a.flags = y.flags
    <3> HIDE DEF flags, a, y
    <3>1. a.flags = y.flags
      BY <2>1
    <3>2. [a EXCEPT !.flags = flags] = x
      BY <2>1
    <3> QED
      BY <3>1, <3>2
  <2> HIDE DEF a, x
  <2> DEFINE p == [s EXCEPT !.file[i].f = e]
             q == [p EXCEPT !.file[i].flags = @ \union (s.file[j].flags \intersect {"WRITE"})]
  <2>3. t = [q EXCEPT !.file[j] = Empty]
    BY DEF Adopted
  <2>4. p = [data |-> s.data, fp |-> s.fp, file |-> [s.file EXCEPT ![i] = a]]
    BY <1>2 DEF a
  <2> HIDE DEF p
  <2>5. p.file[i] = a
    BY <1>1, <2>4
  <2>6. q = [p EXCEPT !.file[i] = x]
    <3>1. q = [p EXCEPT !.file[i].flags = flags]
      BY <2>2, <2>5
    <3> HIDE DEF flags, q
    <3> QED
      BY <2>2, <2>5, <3>1
  <2> HIDE DEF q, t
  <2>7. q = [data |-> s.data, fp |-> s.fp, file |-> [s.file EXCEPT ![i] = x]]
    <3>1. q = [data |-> s.data, fp |-> s.fp, file |-> [[s.file EXCEPT ![i] = a] EXCEPT ![i] = x]]
      BY <2>4, <2>6
    <3>2. [[s.file EXCEPT ![i] = a] EXCEPT ![i] = x] = [s.file EXCEPT ![i] = x]
      OBVIOUS
    <3> QED
      BY <3>1, <3>2
  <2>8. t = [data |-> s.data, fp |-> s.fp, file |-> [[s.file EXCEPT ![i] = x] EXCEPT ![j] = Empty]]
    BY <2>3, <2>7
  <2> QED
    BY <2>8 DEF IsState
<1> HIDE DEF t, x, flags
<1>6. /\ DOMAIN t.file = DOMAIN s.file /\ t.file[i] = x /\ t.file[j] = Empty
      /\ \A k \in DOMAIN s.file : k # i /\ k # j => t.file[k] = s.file[k]
  BY <1>1, <1>5
<1>7. \A k \in DOMAIN s.file : k # j => t.file[k].name = s.file[k].name
  BY <1>4, <1>6
<1>8. Named(t) = Named(s) \ {j}
  BY <1>6, <1>7, EmptyIsSlot DEF Named
<1>9. FSTDIN \in DOMAIN s.file /\ FSTDOUT \in DOMAIN s.file /\ FSTDERR \in DOMAIN s.file
  BY StdNamed
<1>10. s.file[FSTDIN].name = "<STDIN>" /\ s.file[FSTDOUT].name = "<STDOUT>"
  BY DEF TableSound, StdPlaced
<1>11. j \notin {FSTDIN, FSTDOUT}
  BY <1>10 DEF Std
<1>12. \A k \in Named(s) \ {i} : s.file[k].f = e => k = j
  BY OwnStream
<1>13. \A k \in Named(s) : k \in DOMAIN s.file
  BY DEF Named
<1>14. \A k \in Named(s) \ {i} : Has(s, k, s.file[k].f)
  BY DEF TableSound, Owned
<1>15. e \in DOMAIN s.fp /\ s.fp[e].name = s.file[i].name /\ ("WRITE" \in s.file[j].flags <=> s.fp[e].mode # "r")
  <2>1. Has(s, j, e)
    BY <1>14
  <2>2. ~ SharedStderr(s, j)
    BY DEF SharedStderr, Std
  <2> QED
    BY <2>1, <2>2 DEF Has
<1>16. Owned(t, {})
  <2>1. ASSUME NEW k \in Named(t) PROVE Has(t, k, t.file[k].f)
    <3>1. CASE k = i
      BY <1>4, <1>5, <1>6, <1>15, <3>1 DEF Has
    <3>2. CASE k # i
      <4>1. k \in Named(s) \ {i} /\ k # j /\ t.file[k] = s.file[k]
        BY <1>6, <1>8, <1>13, <2>1, <3>2
      <4>2. Has(s, k, s.file[k].f)
        BY <1>14, <4>1
      <4>3. SharedStderr(s, k) => SharedStderr(t, k)
        BY <4>1 DEF SharedStderr
      <4> QED
        BY <1>5, <4>1, <4>2, <4>3 DEF Has
    <3> QED
      BY <3>1, <3>2
  <2>2. ASSUME NEW k \in Named(t), NEW l \in Named(t), k # l, t.file[k].f = t.file[l].f
        PROVE  Shared /\ {k, l} = {FSTDOUT, FSTDERR} /\ t.file[FSTDERR].name = "<STDERR>"
    <3>1. \A h \in Named(t) : h # i => h \in Named(s) \ {i} /\ h # j /\ t.file[h] = s.file[h]
      BY <1>6, <1>8, <1>13
    <3>2. \A h \in Named(t) : h # i => t.file[h].f # e
      BY <1>12, <3>1
    <3>3. k # i /\ l # i
      BY <1>4, <1>6, <2>2, <3>2
    <3>4. k \in Named(s) \ {i} /\ l \in Named(s) \ {i} /\ s.file[k].f = s.file[l].f
      BY <2>2, <3>1, <3>3
    <3>5. Shared /\ {k, l} = {FSTDOUT, FSTDERR} /\ s.file[FSTDERR].name = "<STDERR>"
      BY <2>2, <3>4 DEF TableSound, Owned
    <3>6. FSTDERR \in {k, l}
      BY <3>5
    <3> QED
      BY <3>1, <3>3, <3>5, <3>6
  <2>3. ASSUME NEW f \in DOMAIN t.fp
        PROVE  t.fp[f].name \in Std \/ \E k \in Named(t) : t.file[k].f = f
    <3>1. f \in DOMAIN s.fp /\ t.fp[f] = s.fp[f]
      BY <1>5
    <3>2. s.fp[f].name \in Std \/ \E k \in Named(s) \ {i} : s.file[k].f = f
      BY <3>1 DEF TableSound, Owned
    <3>3. CASE s.fp[f].name \in Std
      BY <3>1, <3>3
    <3>4. CASE \E k \in Named(s) \ {i} : s.file[k].f = f
      <4>1. PICK k \in Named(s) \ {i} : s.file[k].f = f
        BY <3>4
      <4>2. CASE k = j
        BY <1>1, <1>4, <1>6, <1>8, <4>1, <4>2
      <4>3. CASE k # j
        BY <1>6, <1>8, <1>13, <4>1, <4>3
      <4> QED
        BY <4>2, <4>3
    <3> QED
      BY <3>2, <3>3, <3>4
  <2> QED
    BY <2>1, <2>2, <2>3 DEF Owned
<1>17. Typed(N, t)
  <2>1. /\ \E k \in Nat : k > FSTDERR + 1 /\ DOMAIN t.file = 0 .. k - 1
        /\ \A k \in DOMAIN t.file : IsSlot(t.file[k])
    BY <1>4, <1>6, EmptyIsSlot DEF TableSound, Typed
  <2> QED
    BY <1>5, <2>1 DEF TableSound, Typed
<1>18. StdPlaced(t)
  <2>1. t.file[FSTDIN].name = "<STDIN>" /\ t.file[FSTDOUT].name = "<STDOUT>"
    BY <1>7, <1>9, <1>10, <1>11
  <2>2. ASSUME NEW k \in DOMAIN t.file, t.file[k].name \in Std
        PROVE  k \in {FSTDIN, FSTDOUT} \/ (k = FSTDERR /\ t.file[k].name = "<STDERR>")
    <3>1. k # j
      BY <1>6, <2>2, EmptyIsSlot DEF Std
    <3>2. k \in DOMAIN s.file /\ t.file[k].name = s.file[k].name
      BY <1>6, <1>7, <2>2, <3>1
    <3> QED
      BY <2>2, <3>2 DEF TableSound, StdPlaced
  <2> QED
    BY <2>1, <2>2 DEF StdPlaced
<1>19. Allowed(N, t)
  BY <1>5 DEF TableSound, Allowed
<1>20. i \in Named(t) /\ t.file[i].name = s.file[i].name
  BY <1>1, <1>7, <1>8
<1> QED
  BY <1>5, <1>8, <1>16, <1>17, <1>18, <1>19, <1>20 DEF t, TableSound

-----------------------------------------------------------------------------
(* Nothing is lost.                                                         *)

LEMMA SameNoLoss ==
  ASSUME NEW N, NEW s, NEW H, TableSound(N, s, H), NEW t, t.data = s.data
  PROVE  NoLoss(s, t)
<1>1. NoLoss(s, s)
  BY KeptSelf DEF Kept
<1> QED
  BY <1>1 DEF NoLoss

LEMMA NoLossThen ==
  ASSUME NEW N, NEW s, NEW H, TableSound(N, s, H), NEW t, NEW G, TableSound(N, t, G),
         NEW u, NEW F, TableSound(N, u, F), NoLoss(s, t), NoLoss(t, u)
  PROVE  NoLoss(s, u)
<1> SUFFICES ASSUME NEW n \in DOMAIN s.data, s.data[n] # Absent
             PROVE  u.data[n] # Absent /\ Len(s.data[n]) <= Len(u.data[n])
  BY DEF NoLoss
<1>1. n \in DOMAIN t.data /\ Sound0(s.data[n]) /\ Sound0(t.data[n]) /\ Sound0(u.data[n])
  BY DEF TableSound, Typed
<1>2. t.data[n] # Absent /\ Len(s.data[n]) <= Len(t.data[n])
  BY DEF NoLoss
<1>3. u.data[n] # Absent /\ Len(t.data[n]) <= Len(u.data[n])
  BY <1>1, <1>2 DEF NoLoss
<1>4. s.data[n] \in Seq(Chars) /\ t.data[n] \in Seq(Chars) /\ u.data[n] \in Seq(Chars)
  BY <1>1, <1>2, <1>3 DEF Sound0
<1>5. Len(s.data[n]) \in Nat /\ Len(t.data[n]) \in Nat /\ Len(u.data[n]) \in Nat
  BY <1>4, LenProperties
<1> QED
  BY <1>2, <1>3, <1>5

LEMMA OpenedNoLoss ==
  ASSUME NEW N, NEW s, NEW H, TableSound(N, s, H), NEW t, NEW i, NEW n, NEW mode,
         Opened(s, t, i, n, mode), ~ Truncates(mode) \/ s.data[n] = Absent \/ s.data[n] = << >>
  PROVE  NoLoss(s, t)
<1> SUFFICES ASSUME NEW m \in DOMAIN s.data, s.data[m] # Absent
             PROVE  t.data[m] # Absent /\ Len(s.data[m]) <= Len(t.data[m])
  BY DEF NoLoss
<1>1. t.data[m] = s.data[m]
  <2>1. CASE m # n
    BY <2>1 DEF Opened
  <2>2. CASE m = n
    <3>1. t.data[n] = IF Truncates(mode) \/ s.data[n] = Absent THEN << >> ELSE s.data[n]
      BY DEF Opened
    <3> QED
      BY <2>2, <3>1
  <2> QED
    BY <2>1, <2>2
<1>2. Kept(s, s)
  BY KeptSelf
<1> QED
  BY <1>1, <1>2 DEF Kept, NoLoss

LEMMA StdNamesApart ==
  ASSUME NEW n \in Names, NEW s, NEW H, TableSound(Names, s, H)
  PROVE  n \notin Std /\ n # "" /\ n \in DOMAIN s.data
<1>1. n \in P!Names /\ n \in DOMAIN s.data
  BY DEF TableSound, Typed
<1> QED
  BY <1>1, NamesAssumption DEF P!Names, Std

(* A stream that is read is replaced by one that is written, or read again. *)
LEMMA ReopenIs ==
  ASSUME NEW s, TableSound(Names, s, {}), NEW i \in Named(s), s.file[i].name \in Names,
         "WRITE" \notin s.file[i].flags, Faults = {}, NEW x \in reopen_update(s, i)
  PROVE  /\ x = [s |-> x.s, ok |-> x.ok] /\ TableSound(Names, x.s, {}) /\ NoLoss(s, x.s)
         /\ i \in Named(x.s) /\ x.s.file[i].name = s.file[i].name
<1> DEFINE n == s.file[i].name
           e == s.file[i].f
           c == Emptied(s, i)
<1>1. n \notin Std /\ n # "" /\ n \in DOMAIN s.data
  BY StdNamesApart
<1>2. /\ TableSound(Names, c, {i}) /\ c.data = s.data /\ Named(c) = Named(s)
      /\ DOMAIN c.fp = DOMAIN s.fp \ {e} /\ \A f \in DOMAIN c.fp : c.fp[f] = s.fp[f]
      /\ c.file[i].name = n /\ c.file[i].flags = s.file[i].flags
  <2>1. TableSound(Names, s, {}) /\ i \in Named(s) /\ s.file[i].name \notin Std
    BY <1>1
  <2> HIDE DEF n, e, c
  <2>2. c = Emptied(s, i)
    BY DEF c
  <2>3. TableSound(Names, c, {i}) /\ c.data = s.data /\ Named(c) = Named(s)
    BY <2>1, <2>2, EmptiedSound
  <2>4. DOMAIN c.fp = DOMAIN s.fp \ {e} /\ \A f \in DOMAIN c.fp : c.fp[f] = s.fp[f]
    BY <2>1, <2>2, <2>3, EmptiedSound DEF e
  <2>5. c.file[i].name = n /\ c.file[i].flags = s.file[i].flags
    BY <2>1, <2>2, <2>3, EmptiedSound DEF n
  <2> QED
    BY <2>3, <2>4, <2>5
<1>3. PICK o \in open_file(c, n, "r+") :
        x \in {Reopened(new.s, i, new.i) : new \in IF o.i = -1 THEN open_file(o.s, n, "r") ELSE {o}}
  BY Zenon DEF reopen_update, Emptied
<1>13. PICK new \in (IF o.i = -1 THEN open_file(o.s, n, "r") ELSE {o}) : x = Reopened(new.s, i, new.i)
  BY <1>3, Zenon
<1> HIDE DEF c
<1>4. CanOpen(c, n, "r")
  <2>1. Has(s, i, e)
    BY DEF TableSound, Owned
  <2>2. e \in DOMAIN s.fp /\ s.fp[e].name = n /\ s.fp[e].mode = "r"
    <3>1. ~ SharedStderr(s, i)
      BY <1>1 DEF SharedStderr, Std
    <3> QED
      BY <2>1, <3>1 DEF Has
  <2>3. n \notin Sysout /\ s.data[n] # Absent
    BY <2>2 DEF TableSound, Allowed
  <2>4. \A f \in DOMAIN s.fp : s.fp[f].name = n => s.fp[f].mode = "r"
    BY <2>2 DEF TableSound, Allowed
  <2>5. ~ InUse(c, n, "r")
    BY <1>2, <2>4 DEF InUse
  <2> QED
    BY <1>2, <2>3, <2>5 DEF CanOpen
<1>5. \E m \in {"r", "r+"} : new.i # -1 /\ TableSound(Names, new.s, {i}) /\ Opened(c, new.s, new.i, n, m)
  <2>0. Tried("r+") = {"r+"} /\ Tried("r") = {"r"} /\ "r+" \in Modes /\ "r" \in Modes
    BY DEF Tried, open_mode, Modes
  <2>1. /\ TableSound(Names, o.s, {i})
        /\ \/ o.i = -1 /\ Grew(c, o.s)
           \/ o.i # -1 /\ Opened(c, o.s, o.i, n, "r+")
    BY <1>2, <2>0, OpenIs
  <2>2. CASE o.i # -1
    BY <1>13, <2>1, <2>2
  <2>3. CASE o.i = -1
    <3>1. new \in open_file(o.s, n, "r")
      BY <1>13, <2>3
    <3>2. CanOpen(o.s, n, "r")
      BY <1>4, <2>1, <2>3, GrewCanOpen
    <3>3. TableSound(Names, new.s, {i}) /\ new.i # -1 /\ Opened(o.s, new.s, new.i, n, "r")
      BY <2>0, <2>1, <3>1, <3>2, OpenIs
    <3>4. Opened(c, new.s, new.i, n, "r")
      BY <1>2, <2>1, <2>3, <3>3, GrewThenOpened
    <3> QED
      BY <3>3, <3>4
  <2> QED
    BY <2>2, <2>3
<1>6. PICK m \in {"r", "r+"} : new.i # -1 /\ TableSound(Names, new.s, {i}) /\ Opened(c, new.s, new.i, n, m)
  BY <1>5
<1> DEFINE t == new.s
           j == new.i
           u == Adopted(t, i, j)
<1>7. t.file[i] = c.file[i] /\ j \in Named(t) \ {i} /\ t.file[j].name = n /\ i \in Named(t)
  BY <1>2, <1>6 DEF Opened
<1>8. TableSound(Names, u, {}) /\ u.data = t.data /\ i \in Named(u) /\ u.file[i].name = n
  <2>1. TableSound(Names, t, {i}) /\ j \in Named(t) \ {i}
    BY <1>6, <1>7
  <2>2. t.file[i].name = n /\ t.file[i].name \notin Std /\ "WRITE" \notin t.file[i].flags
    BY <1>1, <1>2, <1>7
  <2>3. t.file[j].name = t.file[i].name
    BY <1>7, <2>2
  <2> HIDE DEF t, j, n, u
  <2>4. u = Adopted(t, i, j)
    BY DEF u
  <2>5. TableSound(Names, u, {}) /\ u.data = t.data
    BY <2>1, <2>2, <2>3, <2>4, AdoptedSound
  <2>6. i \in Named(u) /\ u.file[i].name = n
    BY <2>1, <2>2, <2>3, <2>4, AdoptedSound
  <2> QED
    BY <2>5, <2>6
<1>9. x = [s |-> u, ok |-> "WRITE" \in t.file[j].flags]
  BY <1>13, <1>6 DEF Reopened
<1> HIDE DEF u
<1>10. x.s = u /\ x = [s |-> x.s, ok |-> x.ok]
  BY <1>9
<1>11. NoLoss(s, u)
  <2>1. NoLoss(s, c) /\ NoLoss(t, u)
    BY <1>2, <1>6, <1>8, SameNoLoss
  <2>2. NoLoss(c, t)
    BY <1>2, <1>6, OpenedNoLoss DEF Truncates
  <2>3. NoLoss(s, t)
    BY <1>2, <1>6, <2>1, <2>2, NoLossThen
  <2> QED
    BY <1>6, <1>8, <2>1, <2>3, NoLossThen
<1> QED
  BY <1>8, <1>10, <1>11

(* Opening to write keeps what is there.                                    *)
LEMMA OpenForWriteIs ==
  ASSUME NEW s, TableSound(Names, s, {}), NEW n \in Names, Faults = {}, NEW x \in open_for_write(s, n)
  PROVE  /\ x = [s |-> x.s, i |-> x.i] /\ TableSound(Names, x.s, {}) /\ NoLoss(s, x.s)
         /\ x.i = -1 \/ (x.i \in Named(x.s) /\ x.s.file[x.i].name = n)
<1>0. n \notin Std /\ n # "" /\ n \in DOMAIN s.data
  BY StdNamesApart
<1>1. PICK probe \in open_file(s, n, "r") :
        x \in open_file(IF probe.i = -1 THEN probe.s ELSE close_file(probe.s, probe.i), n,
                        IF probe.i = -1 THEN "w" ELSE "r+")
  BY Zenon DEF open_for_write
<1>2. /\ Tried("r") = {"r"} /\ Tried("r+") = {"r+"} /\ Tried("w") = {"w", "w+"}
      /\ "r" \in Modes /\ "r+" \in Modes /\ "w" \in Modes
  BY DEF Tried, open_mode, Modes
<1> DEFINE p == probe.s
<1>3. /\ TableSound(Names, p, {})
      /\ \/ probe.i = -1 /\ Grew(s, p) /\ ~ CanOpen(s, n, "r")
         \/ probe.i # -1 /\ Opened(s, p, probe.i, n, "r")
  BY <1>2, OpenIs
<1>4. CASE probe.i = -1
  <2>1. x \in open_file(p, n, "w")
    BY <1>1, <1>4
  <2>2. /\ x = [s |-> x.s, i |-> x.i] /\ TableSound(Names, x.s, {})
        /\ \/ x.i = -1 /\ Grew(p, x.s)
           \/ x.i # -1 /\ \E m \in {"w", "w+"} : Opened(p, x.s, x.i, n, m) /\ CanOpen(p, n, m)
    BY <1>2, <1>3, <2>1, OpenIs
  <2>3. CASE x.i = -1
    <3>1. x.s.data = s.data
      BY <1>3, <1>4, <2>2, <2>3 DEF Grew
    <3> QED
      BY <2>2, <2>3, <3>1, SameNoLoss
  <2>4. CASE x.i # -1
    <3>1. PICK m \in {"w", "w+"} : Opened(p, x.s, x.i, n, m) /\ CanOpen(p, n, m)
      BY <2>2, <2>4
    <3>2. Opened(s, x.s, x.i, n, m) /\ CanOpen(s, n, m) /\ ~ CanOpen(s, n, "r")
      BY <1>3, <1>4, <3>1, GrewThenOpened, GrewCanOpen
    <3>3. ~ InUse(s, n, "r")
      BY <3>2 DEF CanOpen, InUse
    <3>4. n \in Sysout \/ s.data[n] = Absent
      BY <3>2, <3>3 DEF CanOpen
    <3>5. s.data[n] = Absent \/ s.data[n] = << >>
      BY <1>0, <3>4 DEF TableSound, Typed
    <3>6. NoLoss(s, x.s)
      BY <3>2, <3>5, OpenedNoLoss
    <3>7. x.i \in Named(x.s) /\ x.s.file[x.i].name = n
      BY <3>2 DEF Opened
    <3> QED
      BY <2>2, <3>6, <3>7
  <2> QED
    BY <2>3, <2>4
<1>5. CASE probe.i # -1
  <2> DEFINE c == close_file(p, probe.i)
  <2>1. x \in open_file(c, n, "r+")
    BY <1>1, <1>5
  <2>2. Opened(s, p, probe.i, n, "r") /\ probe.i \in Named(p) /\ p.file[probe.i].name = n
    BY <1>3, <1>5 DEF Opened
  <2>3. probe.i \notin {FSTDIN, FSTDOUT}
    BY <1>0, <1>3, <2>2 DEF TableSound, StdPlaced, Std
  <2>4. TableSound(Names, c, {}) /\ c.data = p.data
    BY <1>3, <2>2, <2>3, CloseSound
  <2> HIDE DEF c
  <2>5. /\ x = [s |-> x.s, i |-> x.i] /\ TableSound(Names, x.s, {})
        /\ \/ x.i = -1 /\ Grew(c, x.s)
           \/ x.i # -1 /\ Opened(c, x.s, x.i, n, "r+")
    BY <1>2, <2>1, <2>4, OpenIs
  <2>6. NoLoss(s, p)
    BY <2>2, OpenedNoLoss DEF Truncates
  <2>7. NoLoss(p, c)
    BY <1>3, <2>4, SameNoLoss
  <2>8. NoLoss(c, x.s)
    <3>1. CASE x.i = -1
      <4>1. x.s.data = c.data
        BY <2>5, <3>1 DEF Grew
      <4> QED
        BY <2>4, <4>1, SameNoLoss
    <3>2. CASE x.i # -1
      BY <2>4, <2>5, <3>2, OpenedNoLoss DEF Truncates
    <3> QED
      BY <3>1, <3>2
  <2>9. NoLoss(s, c)
    BY <1>3, <2>4, <2>6, <2>7, NoLossThen
  <2>10. NoLoss(s, x.s)
    BY <2>4, <2>5, <2>8, <2>9, NoLossThen
  <2>11. x.i = -1 \/ (x.i \in Named(x.s) /\ x.s.file[x.i].name = n)
    BY <2>5 DEF Opened
  <2> QED
    BY <2>5, <2>10, <2>11
<1> QED
  BY <1>4, <1>5

LEMMA PrepWriteIs ==
  ASSUME NEW s, TableSound(Names, s, {}), NEW i \in Named(s), s.file[i].name \in Names, Faults = {},
         NEW x \in prep_write(s, i)
  PROVE  TableSound(Names, x.s, {}) /\ NoLoss(s, x.s) /\ i \in Named(x.s)
<1> DEFINE a == Ready(s, i)
<1>1. PICK r \in (IF "WRITE" \in s.file[i].flags THEN {[s |-> a, ok |-> TRUE]} ELSE reopen_update(a, i)) :
        x = [r EXCEPT !.s = IF r.ok /\ Seeks(s, i) THEN AtWpos(@, i) ELSE @]
  BY Zenon DEF prep_write
<1>2. i \in DOMAIN s.file
  BY Live
<1>3. Kept(s, a)
  BY <1>2, ReadyKeeps
<1> HIDE DEF a
<1>4. TableSound(Names, a, {}) /\ i \in Named(a) /\ a.file[i].name = s.file[i].name /\ NoLoss(s, a)
      /\ ("WRITE" \in a.file[i].flags <=> "WRITE" \in s.file[i].flags)
  BY <1>2, <1>3, KeptLive DEF Kept
<1>5. /\ r = [s |-> r.s, ok |-> r.ok] /\ TableSound(Names, r.s, {}) /\ NoLoss(s, r.s) /\ i \in Named(r.s)
  <2>1. CASE "WRITE" \in s.file[i].flags
    <3>1. r = [s |-> a, ok |-> TRUE]
      BY <1>1, <2>1
    <3> QED
      BY <1>4, <3>1
  <2>2. CASE "WRITE" \notin s.file[i].flags
    <3>1. r \in reopen_update(a, i)
      BY <1>1, <2>2
    <3>2. r = [s |-> r.s, ok |-> r.ok] /\ TableSound(Names, r.s, {}) /\ NoLoss(a, r.s) /\ i \in Named(r.s)
      BY <1>4, <2>2, <3>1, ReopenIs
    <3>3. NoLoss(s, r.s)
      BY <1>4, <3>2, NoLossThen
    <3> QED
      BY <3>2, <3>3
  <2> QED
    BY <2>1, <2>2
<1>6. x.s = r.s \/ x.s = AtWpos(r.s, i)
  BY <1>1, <1>5
<1>7. Kept(r.s, AtWpos(r.s, i))
  BY <1>5, EndKeeps
<1>8. TableSound(Names, AtWpos(r.s, i), {}) /\ i \in Named(AtWpos(r.s, i)) /\ NoLoss(r.s, AtWpos(r.s, i))
  BY <1>5, <1>7, KeptLive DEF Kept
<1>9. NoLoss(s, AtWpos(r.s, i))
  BY <1>5, <1>8, NoLossThen
<1> QED
  BY <1>5, <1>6, <1>8, <1>9

-----------------------------------------------------------------------------
(* A call of the exec.                                                      *)

(* The next state is sound, and LINEOUT() and CHAROUT() lost nothing.       *)
Good ==
  /\ FilesInv'
  /\ call'.what \in {"LINEOUT", "CHAROUT"} =>
       \A n \in Names : data[n] # Absent => Len(data'[n]) >= Len(data[n])

LEMMA BecomeGood ==
  ASSUME TableSound(Names, Calling, {}), NEW s, TableSound(Names, s, {}), NEW c, Become(s, c),
         c.what \in {"LINEOUT", "CHAROUT"} => NoLoss(Calling, s)
  PROVE  Good
<1>1. data' = s.data /\ fp' = s.fp /\ file' = s.file /\ call' = c
  BY DEF Become
<1>2. s = [data |-> data', fp |-> fp', file |-> file']
  BY <1>1, Parts
<1>3. DOMAIN data' = Names \union Std
  BY <1>1 DEF TableSound, Typed
<1>4. DOMAIN data' \ Std = Names
  BY <1>3 DEF Names
<1>5. TableSound(Names', Calling', {})
  <2>1. Names' = Names
    BY <1>4 DEF Names
  <2>2. Calling' = s
    BY <1>2 DEF Calling
  <2> QED
    BY <2>1, <2>2
<1>6. file' # << >>
  <2>1. FSTDIN \in DOMAIN file'
    BY <1>1, StdNamed
  <2> QED
    BY <2>1
<1>7. FilesInv'
  BY <1>5, <1>6 DEF FilesInv
<1>8. call'.what \in {"LINEOUT", "CHAROUT"} =>
        \A n \in Names : data[n] # Absent => Len(data'[n]) >= Len(data[n])
  <2> SUFFICES ASSUME call'.what \in {"LINEOUT", "CHAROUT"}, NEW n \in Names, data[n] # Absent
               PROVE  Len(data'[n]) >= Len(data[n])
    OBVIOUS
  <2>1. NoLoss(Calling, s) /\ Calling.data = data
    BY <1>1 DEF Calling
  <2>2. n \in DOMAIN data
    BY DEF Names
  <2>3. Len(data[n]) <= Len(data'[n])
    BY <1>1, <2>1, <2>2 DEF NoLoss
  <2> QED
    BY <2>3
<1> QED
  BY <1>7, <1>8 DEF Good

LEMMA OutcomeGood ==
  ASSUME TableSound(Names, Calling, {}), NEW s, TableSound(Names, s, {}), NEW i \in Named(s), NEW c,
         Outcome(s, i, c), NoLoss(Calling, s)
  PROVE  Good
<1> DEFINE t == IF c.raised THEN NotReady(s, i) ELSE s
<1>1. Kept(s, NotReady(s, i))
  BY Live, ReadyKeeps
<1>2. Kept(s, s)
  BY KeptSelf
<1>3. Kept(s, t)
  BY <1>1, <1>2
<1>4. Become(t, c)
  BY DEF Outcome
<1> HIDE DEF t
<1>5. TableSound(Names, t, {}) /\ NoLoss(s, t)
  BY <1>3, KeptSound DEF Kept
<1>6. NoLoss(Calling, t)
  BY <1>5, NoLossThen
<1> QED
  BY <1>4, <1>5, <1>6, BecomeGood

LEMMA GreatestSlot ==
  ASSUME NEW N, NEW s, NEW H, TableSound(N, s, H)
  PROVE  Max(DOMAIN s.file) \notin {FSTDIN, FSTDOUT}
<1>1. PICK k \in Nat : k > FSTDERR + 1 /\ DOMAIN s.file = 0 .. k - 1
  BY DEF TableSound, Typed
<1>2. k - 1 \in 0 .. k - 1 /\ \A j \in 0 .. k - 1 : k - 1 >= j
  BY <1>1 DEF FSTDERR
<1>3. \E m \in DOMAIN s.file : \A j \in DOMAIN s.file : m >= j
  BY <1>1, <1>2
<1>4. Max(DOMAIN s.file) \in DOMAIN s.file /\ \A j \in DOMAIN s.file : Max(DOMAIN s.file) >= j
  BY <1>3 DEF Max
<1>5. Max(DOMAIN s.file) >= k - 1
  BY <1>1, <1>2, <1>4
<1>6. Max(DOMAIN s.file) \in Int
  BY <1>1, <1>4
<1> QED
  BY <1>1, <1>5, <1>6 DEF FSTDERR, FSTDIN, FSTDOUT

LEMMA NamedNat ==
  ASSUME NEW N, NEW s, NEW H, TableSound(N, s, H), NEW i \in Named(s)
  PROVE  i \in Nat
<1>1. PICK k \in Nat : DOMAIN s.file = 0 .. k - 1
  BY DEF TableSound, Typed
<1>2. i \in DOMAIN s.file
  BY DEF Named
<1>3. i \in 0 .. k - 1
  BY <1>1, <1>2
<1> QED
  BY <1>3

(* What a name or a handle finds.  STDIN and STDOUT are found by no call    *)
(* without faults.                                                          *)
LEMMA FindIs ==
  ASSUME TableSound(Names, Calling, {}), Faults = {}, NEW r \in Refs
  PROVE  LET i == find_file(Calling, r)
         IN  \/ i \in Named(Calling) /\ i \in Nat /\ i \notin {FSTDIN, FSTDOUT}
             \/ i = -1 /\ r[1] = "name" /\ r[2] \in Names
             \/ i = ERR_FILE_NOT_OPENED
<1> DEFINE s == Calling
           found == {i \in Named(s) : IF r[1] = "handle" THEN i = r[2] ELSE s.file[i].name = r[2]}
           i == find_file(s, r)
<1>1. \A j \in Named(s) : j \in Nat
  BY NamedNat
<1>2. i = IF found # {} THEN Min(found) ELSE IF r[1] = "handle" THEN ERR_FILE_NOT_OPENED ELSE -1
  BY DEF find_file
<1>3. found # {} => i \in found
  <2>1. found \subseteq Nat
    BY <1>1
  <2> HIDE DEF found
  <2> QED
    BY <1>2, <2>1, LeastNat
<1>4. \/ r[1] = "handle" /\ r[2] \notin {FSTDIN, FSTDOUT}
      \/ r[1] = "name" /\ r[2] \in Names
  <2>1. CASE r \in Uses
    <3>1. CASE r \in {<<"handle", h>> : h \in {k \in DOMAIN open : open[k].name \in Names}}
      <4>1. PICK h \in DOMAIN open : r = <<"handle", h>> /\ open[h].name \in Names
        BY <3>1
      <4>2. h \in DOMAIN file /\ open[h].name = file[h].name
        BY <4>1 DEF open
      <4>3. file[h].name \notin Std
        BY <4>1, <4>2 DEF Names
      <4>4. file[FSTDIN].name \in Std /\ file[FSTDOUT].name \in Std
        BY DEF TableSound, StdPlaced, Std, Calling
      <4> QED
        BY <4>1, <4>3, <4>4
    <3>2. CASE r \in {<<"name", n>> : n \in {m \in Names : \A h \in DOMAIN open : open[h].name # m}}
      BY <3>2
    <3>3. "stdin" \notin Faults
      OBVIOUS
    <3> QED
      BY <2>1, <3>1, <3>2, <3>3 DEF Uses
  <2>2. CASE r \in {<<"name", n>> : n \in Names}
    BY <2>2
  <2>3. CASE r \in {<<"handle", h>> : h \in {Max(DOMAIN file)} \union (IF Names \subseteq Plain THEN {} ELSE {FSTDERR})}
    <3>1. PICK h : h \in {Max(DOMAIN file), FSTDERR} /\ r = <<"handle", h>>
      BY <2>3
    <3>2. Max(DOMAIN file) \notin {FSTDIN, FSTDOUT}
      <4>1. s.file = file
        BY DEF Calling
      <4> QED
        BY <4>1, GreatestSlot
    <3>3. FSTDERR \notin {FSTDIN, FSTDOUT}
      BY DEF FSTDERR, FSTDIN, FSTDOUT
    <3> QED
      BY <3>1, <3>2, <3>3
  <2>4. "stdout" \notin Faults
    OBVIOUS
  <2> QED
    BY <2>1, <2>2, <2>3, <2>4 DEF Refs
<1>5. CASE found # {}
  <2>1. i \in Named(s) /\ (IF r[1] = "handle" THEN i = r[2] ELSE s.file[i].name = r[2])
    BY <1>3, <1>5
  <2>2. CASE r[1] = "handle"
    BY <1>1, <1>4, <2>1, <2>2
  <2>3. CASE r[1] # "handle"
    <3>1. s.file[i].name \in Names
      BY <1>4, <2>1, <2>3
    <3>2. s.file[i].name \notin Std
      BY <3>1, StdNamesApart
    <3>3. s.file[FSTDIN].name \in Std /\ s.file[FSTDOUT].name \in Std
      BY DEF TableSound, StdPlaced, Std
    <3>4. i \notin {FSTDIN, FSTDOUT}
      BY <3>2, <3>3
    <3> QED
      BY <1>1, <2>1, <3>4
  <2> QED
    BY <2>2, <2>3
<1>6. CASE found = {}
  <2> HIDE DEF found, i
  <2> QED
    BY <1>2, <1>4, <1>6 DEF i
<1> QED
  BY <1>5, <1>6

(* What an exec uses has the name of a data set; what a function opens for  *)
(* it keeps what the data set holds, but for WRITE.                         *)
LEMMA UsesFound ==
  ASSUME TableSound(Names, Calling, {}), Faults = {}, NEW r \in Uses
  PROVE  LET i == find_file(Calling, r)
         IN  \/ /\ i # -1 /\ i \in Named(Calling) /\ i \in Nat /\ Calling.file[i].name \in Names
                /\ r[1] = "handle" /\ r[2] = i
             \/ /\ i = -1 /\ r[1] = "name" /\ r[2] \in Names
                /\ \A h \in Named(Calling) : Calling.file[h].name # r[2]
<1> DEFINE i == find_file(Calling, r)
<1>1. r \in Refs
  BY DEF Refs
<1>2. \/ i \in Named(Calling) /\ i \in Nat /\ i \notin {FSTDIN, FSTDOUT}
      \/ i = -1 /\ r[1] = "name" /\ r[2] \in Names
      \/ i = ERR_FILE_NOT_OPENED
  BY <1>1, FindIs
<1> DEFINE found == {j \in Named(Calling) : IF r[1] = "handle" THEN j = r[2] ELSE Calling.file[j].name = r[2]}
<1>3. i = IF found # {} THEN Min(found) ELSE IF r[1] = "handle" THEN ERR_FILE_NOT_OPENED ELSE -1
  BY DEF find_file
<1>4. CASE r \in {<<"handle", h>> : h \in {k \in DOMAIN open : open[k].name \in Names}}
  <2>1. PICK h \in DOMAIN open : r = <<"handle", h>> /\ open[h].name \in Names
    BY <1>4
  <2>2. h \in Named(Calling) /\ Calling.file[h].name \in Names
    <3>1. h \in DOMAIN file /\ file[h].name # "" /\ open[h].name = file[h].name
      BY <2>1 DEF open
    <3> QED
      BY <2>1, <3>1 DEF Named, Calling
  <2>3. found = {h}
    BY <2>1, <2>2
  <2>4. h \in Nat
    BY <2>2, NamedNat
  <2>5. Min({h}) = h
    BY <2>4, LeastNat
  <2> HIDE DEF found, i
  <2>6. i = h
    BY <1>3, <2>3, <2>5
  <2> QED
    BY <2>1, <2>2, <2>4, <2>6 DEF i
<1>5. CASE r \in {<<"name", n>> : n \in {m \in Names : \A h \in DOMAIN open : open[h].name # m}}
  <2>1. PICK n \in Names : r = <<"name", n>> /\ \A h \in DOMAIN open : open[h].name # n
    BY <1>5
  <2>2. \A j \in Named(Calling) : Calling.file[j].name # n
    BY <2>1 DEF Named, Calling, open
  <2>3. found = {}
    BY <2>1, <2>2
  <2> HIDE DEF found, i
  <2>4. i = -1
    BY <1>3, <2>1, <2>3
  <2> QED
    BY <2>1, <2>2, <2>4 DEF i
<1>6. "stdin" \notin Faults
  OBVIOUS
<1> QED
  BY <1>4, <1>5, <1>6 DEF Uses

Opens(how) == how \in {"r", "w", "update"}

LEMMA UsedIs ==
  ASSUME TableSound(Names, Calling, {}), Faults = {}, NEW r \in Uses, NEW how, Opens(how), NEW u \in Used(r, how)
  PROVE  /\ TableSound(Names, u.s, {})
         /\ how # "w" => NoLoss(Calling, u.s)
         /\ u.i \in Int /\ (u.i >= 0 => u.i \in Named(u.s) /\ u.s.file[u.i].name \in Names)
<1> DEFINE i == find_file(Calling, r)
           n == r[2]
<1>1. \/ i # -1 /\ i \in Named(Calling) /\ i \in Nat /\ Calling.file[i].name \in Names
      \/ i = -1 /\ r[1] = "name" /\ n \in Names
  BY UsesFound
<1>2. CASE i # -1
  <2>1. u = [s |-> Calling, i |-> i]
    BY <1>2 DEF Used
  <2> HIDE DEF i
  <2> QED
    BY <1>1, <1>2, <2>1, SameNoLoss
<1>3. CASE i = -1
  <2>1. PICK o \in (IF how = "update" THEN open_for_write(Calling, n) ELSE open_file(Calling, n, how)) :
          u = [o EXCEPT !.i = IF @ = -1 THEN ERR_CANT_OPEN_FILE ELSE @]
    BY <1>3, Zenon DEF Used
  <2>2. n \in Names
    BY <1>1, <1>3
  <2> HIDE DEF n
  <2>3. /\ o = [s |-> o.s, i |-> o.i] /\ TableSound(Names, o.s, {}) /\ (how # "w" => NoLoss(Calling, o.s))
        /\ o.i = -1 \/ (o.i \in Named(o.s) /\ o.s.file[o.i].name = n)
    <3>1. CASE how = "update"
      BY <2>1, <2>2, <3>1, OpenForWriteIs
    <3>2. CASE how # "update"
      <4>1. o \in open_file(Calling, n, how) /\ how \in Modes
        BY <2>1, <3>2 DEF Opens, Modes
      <4>2. /\ o = [s |-> o.s, i |-> o.i] /\ TableSound(Names, o.s, {})
            /\ \/ o.i = -1 /\ Grew(Calling, o.s)
               \/ o.i # -1 /\ \E m \in Tried(how) : Opened(Calling, o.s, o.i, n, m)
        BY <4>1, OpenIs
      <4>3. o.i = -1 \/ (o.i \in Named(o.s) /\ o.s.file[o.i].name = n)
        BY <4>2 DEF Opened
      <4>4. ASSUME how # "w" PROVE NoLoss(Calling, o.s)
        <5>1. CASE o.i = -1
          <6>1. o.s.data = Calling.data
            BY <4>2, <5>1 DEF Grew
          <6> QED
            BY <6>1, SameNoLoss
        <5>2. CASE o.i # -1
          <6>1. how = "r" /\ Tried(how) = {"r"}
            BY <3>2, <4>4 DEF Opens, Tried, open_mode
          <6>2. Opened(Calling, o.s, o.i, n, "r")
            BY <4>2, <5>2, <6>1
          <6> QED
            BY <6>2, OpenedNoLoss DEF Truncates
        <5> QED
          BY <5>1, <5>2
      <4> QED
        BY <4>2, <4>3, <4>4
    <3> QED
      BY <3>1, <3>2
  <2>4. u.s = o.s /\ u.i = IF o.i = -1 THEN ERR_CANT_OPEN_FILE ELSE o.i
    BY <2>1, <2>3
  <2>5. CASE o.i = -1
    BY <2>3, <2>4, <2>5 DEF ERR_CANT_OPEN_FILE
  <2>6. CASE o.i # -1
    <3>1. o.i \in Nat
      BY <2>3, <2>6, NamedNat
    <3> QED
      BY <2>2, <2>3, <2>4, <2>6, <3>1
  <2> QED
    BY <2>5, <2>6
<1> QED
  BY <1>2, <1>3

-----------------------------------------------------------------------------
(* The functions.                                                           *)

LEMMA KeptGood ==
  ASSUME TableSound(Names, Calling, {}), NEW s, TableSound(Names, s, {}), NoLoss(Calling, s),
         NEW t, Kept(s, t), NEW c, Become(t, c)
  PROVE  Good
<1>1. TableSound(Names, t, {}) /\ NoLoss(s, t)
  BY KeptSound DEF Kept
<1>2. NoLoss(Calling, t)
  BY <1>1, NoLossThen
<1> QED
  BY <1>1, <1>2, BecomeGood

LEMMA KeptOutcomeGood ==
  ASSUME TableSound(Names, Calling, {}), NEW s, TableSound(Names, s, {}), NoLoss(Calling, s),
         NEW t, Kept(s, t), NEW i \in Named(s), NEW c, Outcome(t, i, c)
  PROVE  Good
<1>1. TableSound(Names, t, {}) /\ NoLoss(s, t) /\ i \in Named(t)
  BY KeptLive DEF Kept
<1>2. NoLoss(Calling, t)
  BY <1>1, NoLossThen
<1> QED
  BY <1>1, <1>2, OutcomeGood

LEMMA CallingKept ==
  ASSUME TableSound(Names, Calling, {})
  PROVE  Kept(Calling, Calling) /\ NoLoss(Calling, Calling)
  BY KeptSelf DEF Kept

LEMMA FailsGood ==
  ASSUME TableSound(Names, Calling, {}), NEW u, TableSound(Names, u.s, {}), NEW r, Fails(u, r),
         NoLoss(Calling, u.s)
  PROVE  Good
<1>1. \E c : Become(u.s, c)
  BY DEF Fails
<1> QED
  BY <1>1, BecomeGood

(* A data set that is made keeps all others.                                *)
LEMMA MadeKept ==
  ASSUME TableSound(Names, Calling, {}), NEW n \in Names, data[n] = Absent
  PROVE  Kept(Calling, [Calling EXCEPT !.data[n] = << >>])
<1> DEFINE new == [Calling EXCEPT !.data[n] = << >>]
<1>1. n \in DOMAIN data /\ Calling.data = data
  BY DEF Names, Calling
<1>2. new.data = [data EXCEPT ![n] = << >>] /\ new.fp = Calling.fp /\ new.file = Calling.file /\ IsState(new)
  BY DEF Calling, IsState
<1> HIDE DEF new
<1>3. NoLoss(Calling, Calling) /\ Kept(Calling, Calling)
  BY CallingKept
<1>4. NoLoss(Calling, new)
  BY <1>1, <1>2, <1>3 DEF NoLoss
<1>5. \A m \in DOMAIN Calling.data : Sound0(new.data[m])
  <2>1. Sound0(<< >>)
    BY EmptySeq DEF Sound0
  <2> QED
    BY <1>1, <1>2, <1>3, <2>1 DEF Kept
<1>6. n \notin Sysout \union Std
  <2>1. << >> # Absent
    BY DEF Absent, P!Absent
  <2> QED
    BY <1>1, <2>1 DEF TableSound, Typed
<1>7. \A m \in Sysout \union Std : m \in DOMAIN Calling.data => new.data[m] = Calling.data[m]
  BY <1>1, <1>2, <1>6
<1>8. DOMAIN new.data = DOMAIN Calling.data
  BY <1>1, <1>2
<1>9. Kept(Calling, new)
  BY <1>2, <1>3, <1>4, <1>5, <1>7, <1>8 DEF Kept
<1> QED
  BY <1>9 DEF new

LEMMA OpenGood ==
  ASSUME TableSound(Names, Calling, {}), Faults = {}, NEW n \in Names, NEW mode \in {"r", "r+", "w", "a"},
         NEW alloc, R_open(n, mode, alloc)
  PROVE  Good
<1> DEFINE writes == mode \in {"w", "a", "w+", "a+"}
           new == [Calling EXCEPT !.data[n] = << >>]
           made == IF writes /\ alloc = "good" /\ n \in Plain /\ data[n] = Absent THEN new ELSE Calling
           c == [None EXCEPT !.what = "OPEN", !.name = n, !.mode = open_mode(mode), !.value = alloc]
<1>1. c.what = "OPEN"
  BY DEF None
<1>2. n \in DOMAIN data /\ Calling.data = data
  BY DEF Names, Calling
<1>3. data[n] = Absent => Kept(Calling, new)
  BY MadeKept
<1>4. TableSound(Names, made, {})
  BY <1>3, KeptSound
<1>5. CASE writes /\ alloc = "bad"
  <2>1. Become(Calling, c)
    BY <1>5 DEF R_open
  <2> HIDE DEF c
  <2> QED
    BY <1>1, <2>1, BecomeGood
<1>6. CASE ~(writes /\ alloc = "bad")
  <2>1. \E o \in open_file(made, n, mode) :
          Become(o.s, [c EXCEPT !.handle = o.i, !.mode = IF o.i = -1 \/ Seeks(o.s, o.i) THEN @ ELSE mode])
    BY <1>6 DEF R_open
  <2> HIDE DEF made
  <2>2. PICK o \in open_file(made, n, mode) :
          Become(o.s, [c EXCEPT !.handle = o.i, !.mode = IF o.i = -1 \/ Seeks(o.s, o.i) THEN @ ELSE mode])
    BY <2>1
  <2> DEFINE d == [c EXCEPT !.handle = o.i, !.mode = IF o.i = -1 \/ Seeks(o.s, o.i) THEN @ ELSE mode]
  <2>3. d.what = c.what
    BY DEF None
  <2>4. mode \in Modes
    BY DEF Modes
  <2>5. TableSound(Names, o.s, {})
    BY <1>4, <2>2, <2>4, OpenIs
  <2> HIDE DEF c
  <2>6. Become(o.s, d)
    BY <2>2
  <2> HIDE DEF d
  <2> QED
    BY <1>1, <2>3, <2>5, <2>6, BecomeGood
<1> QED
  BY <1>5, <1>6

LEMMA CloseGood ==
  ASSUME TableSound(Names, Calling, {}), Faults = {}, NEW r \in Refs, R_close(r)
  PROVE  Good
<1> DEFINE i == find_file(Calling, r)
<1>1. CASE i < 0
  <2>1. \E c : Become(Calling, c)
    BY <1>1 DEF R_close
  <2> QED
    BY <2>1, CallingKept, BecomeGood
<1>2. CASE ~(i < 0)
  <2>1. \E c : Become(close_file(Calling, i), c)
    BY <1>2 DEF R_close
  <2>2. i \in Named(Calling) /\ i \notin {FSTDIN, FSTDOUT}
    BY <1>2, FindIs DEF ERR_FILE_NOT_OPENED
  <2>3. TableSound(Names, close_file(Calling, i), {}) /\ close_file(Calling, i).data = Calling.data
    BY <2>2, CloseSound
  <2>4. NoLoss(Calling, close_file(Calling, i))
    BY <2>3, SameNoLoss
  <2> QED
    BY <2>1, <2>3, <2>4, BecomeGood
<1> QED
  BY <1>1, <1>2

LEMMA EofGood ==
  ASSUME TableSound(Names, Calling, {}), NEW r, R_eof(r) \/ R_stream_status(r)
  PROVE  Good
<1>1. \E c : Become(Calling, c)
  BY DEF R_eof, R_stream_status
<1> QED
  BY <1>1, CallingKept, BecomeGood

LEMMA StreamOpenGood ==
  ASSUME TableSound(Names, Calling, {}), Faults = {}, NEW r \in Refs, NEW mode \in {"r", "w", "a+"},
         R_stream_open(r, mode)
  PROVE  Good
<1> DEFINE i == find_file(Calling, r)
           closed == IF i >= 0 THEN close_file(Calling, i) ELSE Calling
           n == IF r[1] = "name" THEN r[2] ELSE ""
           c == [None EXCEPT !.what = "REOPEN", !.name = NameOf(Calling, r), !.old = i]
<1>1. CASE i = ERR_FILE_NOT_OPENED
  <2>1. \E d : Become(Calling, d)
    BY <1>1 DEF R_stream_open
  <2> QED
    BY <2>1, CallingKept, BecomeGood
<1>2. CASE i # ERR_FILE_NOT_OPENED
  <2>1. \E o \in open_file(closed, n, mode) :
          Become(o.s, [c EXCEPT !.handle = o.i,
                                !.mode = IF o.i # -1 /\ Seeks(o.s, o.i) THEN open_mode(mode) ELSE mode,
                                !.value = IF o.i = -1 THEN ERR_CANT_OPEN_FILE ELSE 0])
    BY <1>2 DEF R_stream_open
  <2>2. TableSound(Names, closed, {})
    <3>1. CASE i >= 0
      <4>1. i \in Named(Calling) /\ i \notin {FSTDIN, FSTDOUT}
        BY <3>1, <1>2, FindIs
      <4> QED
        BY <3>1, <4>1, CloseSound
    <3> QED
      BY <3>1
  <2> HIDE DEF closed, n
  <2>3. PICK o \in open_file(closed, n, mode) :
          Become(o.s, [c EXCEPT !.handle = o.i,
                                !.mode = IF o.i # -1 /\ Seeks(o.s, o.i) THEN open_mode(mode) ELSE mode,
                                !.value = IF o.i = -1 THEN ERR_CANT_OPEN_FILE ELSE 0])
    BY <2>1
  <2> DEFINE d == [c EXCEPT !.handle = o.i,
                            !.mode = IF o.i # -1 /\ Seeks(o.s, o.i) THEN open_mode(mode) ELSE mode,
                            !.value = IF o.i = -1 THEN ERR_CANT_OPEN_FILE ELSE 0]
  <2>4. d.what = "REOPEN"
    BY DEF None
  <2>5. mode \in Modes
    BY DEF Modes
  <2>6. TableSound(Names, o.s, {})
    BY <2>2, <2>3, <2>5, OpenIs
  <2>7. Become(o.s, d)
    BY <2>3
  <2> HIDE DEF d
  <2> QED
    BY <2>4, <2>6, <2>7, BecomeGood
<1> QED
  BY <1>1, <1>2

LEMMA ResetGood ==
  ASSUME TableSound(Names, Calling, {}), Faults = {}, NEW r \in Uses, R_stream_reset(r)
  PROVE  Good
<1> DEFINE i == find_file(Calling, r)
           s == Calling
           a == Ready(s, i)
           b == [a EXCEPT !.file[i].rpos = 0]
           t == [b EXCEPT !.file[i].wpos = 0]
           f == file[i].f
<1>1. i >= 0 /\ \E c : Become(IF Seeks(t, i) THEN fseek(t, f, 0) ELSE t, c)
  BY DEF R_stream_reset
<1>2. i \in Named(s) /\ s.file[i].f = f
  BY <1>1, UsesFound DEF Calling
<1>3. Kept(s, a)
  BY <1>2, Live, ReadyKeeps
<1> HIDE DEF a, i
<1>4. TableSound(Names, a, {}) /\ i \in Named(a)
  BY <1>2, <1>3, KeptLive
<1>5. Kept(a, b)
  BY <1>4, Live, RposKept
<1> HIDE DEF b
<1>6. TableSound(Names, b, {}) /\ i \in Named(b)
  BY <1>4, <1>5, KeptLive
<1>7. Kept(b, t)
  BY <1>6, Live, WposKept
<1> HIDE DEF t
<1>8. Kept(s, b)
  BY <1>3, <1>5, KeptThen
<1>9. Kept(s, t)
  BY <1>7, <1>8, KeptThen
<1>10. TableSound(Names, t, {}) /\ f \in DOMAIN t.fp
  BY <1>2, <1>9, KeptLive
<1>11. Kept(t, fseek(t, f, 0))
  BY <1>10, SeekKeeps
<1>12. Kept(s, fseek(t, f, 0))
  BY <1>9, <1>11, KeptThen
<1> QED
  BY <1>1, <1>9, <1>12, CallingKept, KeptGood

LEMMA CharsLinesGood ==
  ASSUME TableSound(Names, Calling, {}), Faults = {}, NEW func, NEW r \in Uses, R_charslines(func, r)
  PROVE  Good
<1>1. PICK u \in Used(r, "r") :
        \/ Fails(u, r)
        \/ u.i >= 0 /\ \E c : Become(u.s, c)
        \/ u.i >= 0 /\ \E c : Become(end_pos(u.s, u.i), c)
        \/ u.i >= 0 /\ \E c : Become(SkipLines(prep_read(u.s, u.i), u.s.file[u.i].f, MaxChars + 1).s, c)
  BY DEF R_charslines
<1>2. /\ TableSound(Names, u.s, {}) /\ NoLoss(Calling, u.s)
      /\ u.i >= 0 => u.i \in Named(u.s)
  <2>1. Opens("r") /\ "r" # "w"
    BY DEF Opens
  <2> QED
    BY <1>1, <2>1, UsedIs
<1>3. CASE Fails(u, r)
  BY <1>2, <1>3, FailsGood
<1>4. CASE u.i >= 0 /\ \E c : Become(u.s, c)
  BY <1>2, <1>4, BecomeGood
<1>5. CASE u.i >= 0 /\ \E c : Become(end_pos(u.s, u.i), c)
  <2>1. u.i \in Named(u.s)
    BY <1>2, <1>5
  <2>2. Kept(u.s, end_pos(u.s, u.i))
    BY <1>2, <2>1, EndKeeps
  <2> QED
    BY <1>2, <1>5, <2>2, KeptGood
<1>6. CASE u.i >= 0 /\ \E c : Become(SkipLines(prep_read(u.s, u.i), u.s.file[u.i].f, MaxChars + 1).s, c)
  <2> DEFINE p == prep_read(u.s, u.i)
             f == u.s.file[u.i].f
             t == SkipLines(p, f, MaxChars + 1).s
  <2>1. u.i \in Named(u.s)
    BY <1>2, <1>6
  <2>2. Kept(u.s, p)
    BY <1>2, <2>1, PrepReadKeeps
  <2> HIDE DEF p
  <2>3. TableSound(Names, p, {}) /\ f \in DOMAIN p.fp
    BY <1>2, <2>1, <2>2, KeptLive
  <2>4. MaxChars + 1 \in Nat
    BY FilesAssumption
  <2>5. Kept(p, t)
    BY <2>3, <2>4, SkipKeeps
  <2>6. \E c : Become(t, c)
    BY <1>6 DEF p
  <2> HIDE DEF t
  <2>7. Kept(u.s, t)
    BY <1>2, <2>2, <2>5, KeptThen
  <2> QED
    BY <1>2, <2>6, <2>7, KeptGood
<1> QED
  BY <1>1, <1>3, <1>4, <1>5, <1>6

LEMMA CharLineInGood ==
  ASSUME TableSound(Names, Calling, {}), Faults = {}, NEW func, NEW r \in Uses,
         NEW start \in Nat, NEW length \in Nat, R_charlinein(func, r, start, length)
  PROVE  Good
<1> DEFINE At(u) == ReadAt(u.s, u.i, func, start)
           Placed(u) == [At(u).s EXCEPT !.file[u.i].rpos = At(u).off]
           Got(u) == Input(prep_read(Placed(u), u.i), u.s.file[u.i].f, func, length)
<1>1. PICK u \in Used(r, "r") :
        \/ Fails(u, r)
        \/ u.i >= 0 /\ \E c : Outcome(At(u).s, u.i, c)
        \/ u.i >= 0 /\ At(u).off >= 0 /\ \E c : Outcome(done_read(Got(u).s, u.i), u.i, c)
  BY Zenon DEF R_charlinein
<1> DEFINE i == u.i
           s == u.s
           f == s.file[i].f
           at == At(u)
           q == Placed(u)
           p == prep_read(q, i)
           t == Got(u).s
<1>2. /\ TableSound(Names, s, {}) /\ NoLoss(Calling, s)
      /\ i >= 0 => i \in Named(s)
  <2>1. Opens("r") /\ "r" # "w"
    BY DEF Opens
  <2> QED
    BY <1>1, <2>1, UsedIs
<1>3. CASE Fails(u, r)
  BY <1>2, <1>3, FailsGood
<1>4. ASSUME i >= 0 PROVE i \in Named(s) /\ Kept(s, at.s) /\ at.off \in Nat \union {-1}
  <2>1. i \in Named(s)
    BY <1>2, <1>4
  <2> QED
    BY <1>2, <2>1, ReadAtKeeps
<1>5. CASE i >= 0 /\ \E c : Outcome(at.s, i, c)
  BY <1>2, <1>4, <1>5, KeptOutcomeGood
<1>6. CASE i >= 0 /\ at.off >= 0 /\ \E c : Outcome(done_read(t, i), i, c)
  <2>1. i \in Named(s) /\ Kept(s, at.s) /\ at.off \in Nat /\ q = [at.s EXCEPT !.file[i].rpos = at.off]
    BY <1>4, <1>6
  <2> HIDE DEF at
  <2>2. TableSound(Names, at.s, {}) /\ i \in DOMAIN at.s.file
    BY <1>2, <2>1, KeptLive, Live
  <2> HIDE DEF q
  <2>3. Kept(at.s, q)
    BY <2>1, <2>2, RposKept
  <2>4. Kept(s, q)
    BY <1>2, <2>1, <2>3, KeptThen
  <2>5. TableSound(Names, q, {}) /\ i \in Named(q)
    BY <1>2, <2>1, <2>4, KeptLive
  <2>6. Kept(q, p)
    BY <2>5, PrepReadKeeps
  <2>7. t = Input(p, f, func, length).s
    BY DEF p, q
  <2> HIDE DEF p, t
  <2>8. Kept(s, p)
    BY <1>2, <2>4, <2>6, KeptThen
  <2>9. TableSound(Names, p, {}) /\ f \in DOMAIN p.fp
    BY <1>2, <2>1, <2>8, KeptLive
  <2>10. Kept(p, t)
    BY <2>7, <2>9, InputKeeps
  <2>11. Kept(s, t)
    BY <1>2, <2>8, <2>10, KeptThen
  <2>12. TableSound(Names, t, {}) /\ i \in Named(t)
    BY <1>2, <2>1, <2>11, KeptLive
  <2>13. Kept(t, done_read(t, i))
    BY <2>12, DoneKeeps
  <2>14. Kept(s, done_read(t, i))
    BY <1>2, <2>11, <2>13, KeptThen
  <2> QED
    BY <1>2, <1>6, <2>1, <2>14, KeptOutcomeGood
<1> HIDE DEF At, Got
<1> QED
  BY <1>1, <1>3, <1>5, <1>6

LEMMA CharLineOutGood ==
  ASSUME TableSound(Names, Calling, {}), Faults = {}, NEW func, NEW r \in Uses,
         NEW text \in Seq(Chars), NEW start \in Nat, R_charlineout(func, r, text, start)
  PROVE  Good
<1>1. PICK u \in Used(r, "update") : Fails(u, r) \/ (u.i >= 0 /\ Output(u, r, func, text, start))
  BY DEF R_charlineout
<1> DEFINE t == IF func = "LINEOUT" THEN text \o <<LF>> ELSE text
           W == IF start = LSTARTPOS THEN [s |-> u.s, ok |-> TRUE] ELSE set_wpos(u.s, u.i, func, start)
<1>8. ASSUME Output(u, r, func, text, start)
      PROVE  \/ \E c : Outcome(W.s, u.i, c)
             \/ \E ready \in prep_write(W.s, u.i) :
                  \/ \E c : Outcome(ready.s, u.i, c)
                  \/ \E take \in Taken(u.s.file[u.i].name, Len(t)) :
                       \E c : Outcome(done_write(fwrite(ready.s, ready.s.file[u.i].f, t, take).s, u.i), u.i, c)
  <2> DEFINE want == IF func = "LINEOUT" THEN 1 ELSE Len(text)
             Left(taken) == IF func = "CHAROUT" THEN want - taken ELSE IF taken = Len(t) THEN 0 ELSE 1
             c0 == [About(u, r) EXCEPT !.what = func, !.start = start, !.text = text, !.value = want, !.raised = TRUE]
             c1(n) == [c0 EXCEPT !.value = Left(n), !.raised = Left(n) # 0]
  <2>1. \/ ~ W.ok /\ Outcome(W.s, u.i, c0)
        \/ /\ W.ok
           /\ \E ready \in prep_write(W.s, u.i) :
                \/ ~ ready.ok /\ Outcome(ready.s, u.i, c0)
                \/ /\ ready.ok
                   /\ \E take \in Taken(u.s.file[u.i].name, Len(t)) :
                      \E out \in {fwrite(ready.s, ready.s.file[u.i].f, t, take)} :
                        Outcome(done_write(out.s, u.i), u.i, c1(out.n))
    BY <1>8, Zenon DEF Output
  <2> HIDE DEF W, t, c0, c1
  <2>2. CASE Outcome(W.s, u.i, c0)
    BY <2>2
  <2>3. ASSUME NEW ready \in prep_write(W.s, u.i),
               \/ Outcome(ready.s, u.i, c0)
               \/ \E take \in Taken(u.s.file[u.i].name, Len(t)) :
                  \E out \in {fwrite(ready.s, ready.s.file[u.i].f, t, take)} :
                        Outcome(done_write(out.s, u.i), u.i, c1(out.n))
        PROVE  \/ \E c : Outcome(ready.s, u.i, c)
               \/ \E take \in Taken(u.s.file[u.i].name, Len(t)) :
                    \E c : Outcome(done_write(fwrite(ready.s, ready.s.file[u.i].f, t, take).s, u.i), u.i, c)
    BY <2>3, Zenon
  <2> QED
    BY <2>1, <2>2, <2>3, Zenon
<1> DEFINE i == u.i
           s == u.s
           w == W.s
<1>2. /\ TableSound(Names, s, {}) /\ NoLoss(Calling, s)
      /\ i >= 0 => i \in Named(s) /\ s.file[i].name \in Names
  <2>1. Opens("update") /\ "update" # "w"
    BY DEF Opens
  <2> QED
    BY <1>1, <2>1, UsedIs
<1>3. CASE Fails(u, r)
  BY <1>2, <1>3, FailsGood
<1>4. ASSUME i >= 0 PROVE i \in Named(s) /\ s.file[i].name \in Names /\ Kept(s, w)
  <2>1. i \in Named(s) /\ s.file[i].name \in Names
    BY <1>2, <1>4
  <2>2. CASE start = LSTARTPOS
    BY <1>2, <2>1, <2>2, KeptSelf
  <2>3. CASE start # LSTARTPOS
    <3>1. start \in Nat \ {0}
      BY <2>3 DEF LSTARTPOS, P!NONE
    <3> QED
      BY <1>2, <2>1, <2>3, <3>1, SetWposKeeps
  <2> QED
    BY <2>1, <2>2, <2>3
<1>5. CASE i >= 0 /\ \E c : Outcome(w, i, c)
  BY <1>2, <1>4, <1>5, KeptOutcomeGood
<1>6. ASSUME i >= 0, NEW ready \in prep_write(w, i)
      PROVE  TableSound(Names, ready.s, {}) /\ NoLoss(Calling, ready.s) /\ i \in Named(ready.s)
  <2>1. i \in Named(s) /\ s.file[i].name \in Names /\ Kept(s, w)
    BY <1>4, <1>6
  <2> HIDE DEF w
  <2>2. TableSound(Names, w, {}) /\ i \in Named(w) /\ w.file[i].name \in Names /\ NoLoss(s, w)
    BY <1>2, <2>1, KeptLive DEF Kept
  <2>3. TableSound(Names, ready.s, {}) /\ NoLoss(w, ready.s) /\ i \in Named(ready.s)
    BY <1>6, <2>2, PrepWriteIs
  <2>4. NoLoss(Calling, w)
    BY <1>2, <2>2, NoLossThen
  <2> QED
    BY <2>2, <2>3, <2>4, NoLossThen
<1>7. CASE i >= 0 /\ \E ready \in prep_write(w, i) :
             \/ \E c : Outcome(ready.s, i, c)
             \/ \E take \in Taken(s.file[i].name, Len(t)) :
                  \E c : Outcome(done_write(fwrite(ready.s, ready.s.file[i].f, t, take).s, i), i, c)
  <2>1. PICK ready \in prep_write(w, i) :
             \/ \E c : Outcome(ready.s, i, c)
             \/ \E take \in Taken(s.file[i].name, Len(t)) :
                  \E c : Outcome(done_write(fwrite(ready.s, ready.s.file[i].f, t, take).s, i), i, c)
    BY <1>7
  <2>2. TableSound(Names, ready.s, {}) /\ NoLoss(Calling, ready.s) /\ i \in Named(ready.s)
    BY <1>6, <1>7
  <2>3. CASE \E c : Outcome(ready.s, i, c)
    BY <2>2, <2>3, OutcomeGood
  <2>4. CASE \E take \in Taken(s.file[i].name, Len(t)) :
                  \E c : Outcome(done_write(fwrite(ready.s, ready.s.file[i].f, t, take).s, i), i, c)
    <3>1. t \in Seq(Chars) /\ Len(t) \in Nat
      <4>1. <<LF>> \in Seq(Chars)
        BY DEF Chars
      <4>2. text \o <<LF>> \in Seq(Chars)
        BY <4>1, ConcatProperties
      <4>3. t \in Seq(Chars)
        BY <4>2
      <4> QED
        BY <4>3, LenProperties
    <3> HIDE DEF t
    <3>2. PICK take \in 0 .. Len(t) :
            \E c : Outcome(done_write(fwrite(ready.s, ready.s.file[i].f, t, take).s, i), i, c)
      BY <2>4, <3>1 DEF Taken
    <3> DEFINE v == fwrite(ready.s, ready.s.file[i].f, t, take).s
    <3>3. Kept(ready.s, v)
      BY <2>2, <3>1, Live, WriteKeeps
    <3> HIDE DEF v
    <3>4. TableSound(Names, v, {}) /\ i \in Named(v)
      BY <2>2, <3>3, KeptLive
    <3>5. Kept(v, done_write(v, i))
      BY <3>4, DoneKeeps
    <3>6. Kept(ready.s, done_write(v, i))
      BY <2>2, <3>3, <3>5, KeptThen
    <3> QED
      BY <2>2, <3>2, <3>6, KeptOutcomeGood DEF v
  <2> QED
    BY <2>1, <2>3, <2>4
<1> HIDE DEF W, t, i, s, w
<1> QED
  BY <1>1, <1>3, <1>5, <1>7, <1>8 DEF i, s, w


LEMMA PositionGood ==
  ASSUME TableSound(Names, Calling, {}), Faults = {}, NEW func, NEW r \in Uses, NEW start \in Nat,
         R_charlineout_position(func, r, start)
  PROVE  Good
<1> DEFINE W(u) == IF start # LSTARTPOS THEN set_wpos(u.s, u.i, func, start)
                   ELSE [s |-> IF Seeks(u.s, u.i) THEN [u.s EXCEPT !.file[u.i].wpos = -1] ELSE u.s, ok |-> TRUE]
<1>1. PICK u \in Used(r, "update") : Fails(u, r) \/ (u.i >= 0 /\ \E c : Outcome(W(u).s, u.i, c))
  BY DEF R_charlineout_position
<1>2. /\ TableSound(Names, u.s, {}) /\ NoLoss(Calling, u.s)
      /\ u.i >= 0 => u.i \in Named(u.s)
  <2>1. Opens("update") /\ "update" # "w"
    BY DEF Opens
  <2> QED
    BY <1>1, <2>1, UsedIs
<1>3. CASE Fails(u, r)
  BY <1>2, <1>3, FailsGood
<1>4. CASE u.i >= 0 /\ \E c : Outcome(W(u).s, u.i, c)
  <2>1. u.i \in Named(u.s) /\ u.i \in DOMAIN u.s.file
    BY <1>2, <1>4, Live
  <2>2. Kept(u.s, W(u).s)
    <3>1. CASE start # LSTARTPOS
      <4>1. start \in Nat \ {0}
        BY <3>1 DEF LSTARTPOS, P!NONE
      <4>2. Kept(u.s, set_wpos(u.s, u.i, func, start).s)
        BY <1>2, <2>1, <4>1, SetWposKeeps
      <4> QED
        BY <3>1, <4>2
    <3>2. CASE start = LSTARTPOS
      <4>1. -1 \in Int /\ -1 >= -1
        OBVIOUS
      <4>2. Kept(u.s, [u.s EXCEPT !.file[u.i].wpos = -1])
        BY <1>2, <2>1, <4>1, WposKept
      <4>3. Kept(u.s, u.s)
        BY <1>2, KeptSelf
      <4> QED
        BY <3>2, <4>2, <4>3
    <3> QED
      BY <3>1, <3>2
  <2> HIDE DEF W
  <2> QED
    BY <1>2, <1>4, <2>1, <2>2, KeptOutcomeGood
<1> QED
  BY <1>1, <1>3, <1>4

(* WRITE may open the data set anew, and truncate it.                       *)
LEMMA WriteGood ==
  ASSUME TableSound(Names, Calling, {}), Faults = {}, NEW r \in Uses, NEW text \in Seq(Chars), R_write(r, text)
  PROVE  Good
<1>1. PICK u \in Used(r, "w") :
        \/ Fails(u, r)
        \/ /\ u.i >= 0
           /\ \E take \in Taken(u.s.file[u.i].name, Len(text)) :
                Become(fwrite(u.s, u.s.file[u.i].f, text, take).s,
                       [About(u, r) EXCEPT !.what = "WRITE", !.text = text, !.value = Len(text)])
  BY DEF R_write
<1>2. /\ TableSound(Names, u.s, {})
      /\ u.i >= 0 => u.i \in Named(u.s)
  <2>1. Opens("w")
    BY DEF Opens
  <2> QED
    BY <1>1, <2>1, UsedIs
<1>3. CASE Fails(u, r)
  <2>1. Become(u.s, [None EXCEPT !.what = "ERROR", !.value = u.i])
    BY <1>3 DEF Fails
  <2>2. [None EXCEPT !.what = "ERROR", !.value = u.i].what = "ERROR"
    BY DEF None
  <2> QED
    BY <1>2, <2>1, <2>2, BecomeGood
<1>4. CASE u.i >= 0 /\ ~ Fails(u, r)
  <2> DEFINE f == u.s.file[u.i].f
             c == [About(u, r) EXCEPT !.what = "WRITE", !.text = text, !.value = Len(text)]
             w(take) == fwrite(u.s, f, text, take).s
  <2>1. PICK take \in Taken(u.s.file[u.i].name, Len(text)) : Become(w(take), c)
    BY <1>1, <1>4
  <2>2. take \in 0 .. Len(text)
    <3>1. Len(text) \in Nat
      BY LenProperties
    <3> QED
      BY <2>1, <3>1 DEF Taken
  <2>3. u.i \in Named(u.s) /\ f \in DOMAIN u.s.fp
    BY <1>2, <1>4, Live
  <2>4. Kept(u.s, w(take))
    BY <1>2, <2>2, <2>3, WriteKeeps
  <2>5. c.what = "WRITE"
    BY DEF About, None
  <2> HIDE DEF w, c
  <2>6. TableSound(Names, w(take), {})
    BY <1>2, <2>4, KeptSound
  <2> QED
    BY <2>1, <2>5, <2>6, BecomeGood
<1> QED
  BY <1>1, <1>3, <1>4

LEMMA ReadGood ==
  ASSUME TableSound(Names, Calling, {}), Faults = {}, NEW r \in Uses, NEW how, R_read(r, how)
  PROVE  Good
<1> DEFINE Got(u) == IF how = "LINE" THEN fgets(u.s, u.s.file[u.i].f) ELSE fread(u.s, u.s.file[u.i].f, MaxChars + 1)
<1>1. PICK u \in Used(r, "r") : Fails(u, r) \/ (u.i >= 0 /\ \E c : Become(Got(u).s, c))
  BY DEF R_read
<1>2. /\ TableSound(Names, u.s, {}) /\ NoLoss(Calling, u.s)
      /\ u.i >= 0 => u.i \in Named(u.s)
  <2>1. Opens("r") /\ "r" # "w"
    BY DEF Opens
  <2> QED
    BY <1>1, <2>1, UsedIs
<1>3. CASE Fails(u, r)
  BY <1>2, <1>3, FailsGood
<1>4. CASE u.i >= 0 /\ \E c : Become(Got(u).s, c)
  <2> DEFINE f == u.s.file[u.i].f
  <2>1. f \in DOMAIN u.s.fp
    BY <1>2, <1>4, Live
  <2>2. MaxChars + 1 \in Nat
    BY FilesAssumption
  <2>3. Kept(u.s, fgets(u.s, f).s)
    BY <1>2, <2>1, GetsKeeps
  <2>4. Kept(u.s, fread(u.s, f, MaxChars + 1).s)
    BY <1>2, <2>1, <2>2, ReadKeeps
  <2>5. Kept(u.s, Got(u).s)
    BY <2>3, <2>4
  <2> HIDE DEF Got
  <2> QED
    BY <1>2, <1>4, <2>5, KeptGood
<1> QED
  BY <1>1, <1>3, <1>4

LEMMA SeekGood ==
  ASSUME TableSound(Names, Calling, {}), Faults = {}, NEW r \in Uses, NEW off \in Int,
         NEW whence \in {"TOF", "CUR", "EOF"}, R_seek(r, off, whence)
  PROVE  Good
<1> DEFINE i == find_file(Calling, r)
           f == file[i].f
           from == CASE whence = "TOF" -> 0 [] whence = "CUR" -> fp[f].pos [] whence = "EOF" -> Len(Content(Calling, f))
           t == IF Seeks(Calling, i) /\ from + off >= 0 THEN fseek(Calling, f, from + off) ELSE Calling
<1>1. (\E c : Become(Calling, c)) \/ (~(i < 0) /\ \E c : Become(t, c))
  BY DEF R_seek
<1>2. CASE \E c : Become(Calling, c)
  BY <1>2, CallingKept, KeptGood
<1>3. CASE ~(i < 0) /\ \E c : Become(t, c)
  <2>1. i \in Named(Calling) /\ Calling.file[i].f = f /\ Calling.fp = fp
    BY <1>3, UsesFound DEF Calling
  <2>2. f \in DOMAIN Calling.fp
    BY <2>1, Live
  <2>3. from \in Nat
    <3>1. Len(Content(Calling, f)) \in Nat
      BY <2>2, ContentIs
    <3>2. fp[f].pos \in Nat
      BY <2>1, <2>2, Parts
    <3> QED
      BY <3>1, <3>2
  <2> HIDE DEF from
  <2>4. from + off >= 0 => from + off \in Nat
    BY <2>3
  <2>5. from + off >= 0 => Kept(Calling, fseek(Calling, f, from + off))
    BY <2>2, <2>4, SeekKeeps
  <2>6. Kept(Calling, t)
    BY <2>5, CallingKept
  <2> HIDE DEF t
  <2> QED
    BY <1>3, <2>6, CallingKept, KeptGood
<1> QED
  BY <1>1, <1>2, <1>3

(* The end of the interpreter leaves no stream but the standard ones.       *)
LEMMA DoneGood ==
  ASSUME TableSound(Names, Calling, {}), RxDoneFiles
  PROVE  Good
<1> DEFINE kept == {f \in DOMAIN fp : \A i \in Named(Calling) : file[i].f = f => file[i].name \in Std}
<1>1. file' = << >> /\ fp' = [f \in kept |-> fp[f]] /\ data' = data /\ call'.what = "END"
  BY DEF RxDoneFiles, None
<1>2. \A f \in kept : fp[f].name \in Std
  <2> SUFFICES ASSUME NEW f \in kept, fp[f].name \notin Std PROVE FALSE
    OBVIOUS
  <2>1. Calling.fp = fp /\ Calling.file = file
    BY DEF Calling
  <2>2. PICK i \in Named(Calling) : file[i].f = f
    BY <2>1 DEF TableSound, Owned
  <2>3. file[i].name \in Std
    BY <2>2
  <2>4. Has(Calling, i, f)
    BY <2>1, <2>2 DEF TableSound, Owned
  <2>5. fp[f].name = file[i].name \/ fp[f].name = "<STDOUT>"
    BY <2>1, <2>4 DEF Has
  <2> QED
    BY <2>3, <2>5 DEF Std
<1>3. \A f \in DOMAIN fp' : fp'[f].name \in Std
  BY <1>1, <1>2
<1>4. FilesInv'
  BY <1>1, <1>3 DEF FilesInv, Std
<1> QED
  BY <1>1, <1>4 DEF Good


-----------------------------------------------------------------------------
(* The invariant.                                                           *)

LEMMA InitSound ==
  ASSUME RxInitFiles
  PROVE  TableSound(Names, Calling, {})
<1> DEFINE s == Calling
<1>1. PICK used \in SUBSET P!Names : data \in [used \union Std -> {Absent, << >>, <<LF>>, <<"x", LF>>}]
  BY DEF RxInitFiles
<1>2. Names = used
  <2>1. used \intersect Std = {}
    BY NamesAssumption DEF P!Names, Std
  <2>2. DOMAIN data = used \union Std
    BY <1>1
  <2> QED
    BY <2>1, <2>2 DEF Names
<1>3. PICK last \in {2, 3} :
        /\ last = IF Shared THEN 2 ELSE 3
        /\ fp = [f \in 1 .. last |->
                  [name |-> <<"<STDIN>", "<STDOUT>", "<STDERR>">>[f], mode |-> IF f = 1 THEN "r" ELSE "w",
                   pos |-> 0, eof |-> FALSE]]
  BY DEF RxInitFiles
<1>4. DOMAIN fp = 1 .. last /\ \A f \in 1 .. last : fp[f].mode = IF f = 1 THEN "r" ELSE "w"
  BY <1>3
<1>5. fp[1].name = "<STDIN>" /\ fp[2].name = "<STDOUT>" /\ (last = 3 => fp[3].name = "<STDERR>")
  BY <1>3
<1>6. \A f \in DOMAIN fp : f \in {1, 2, last}
  BY <1>4
<1>7. \A f \in DOMAIN fp : fp[f].name \in Std
  BY <1>5, <1>6 DEF Std
<1>8. \A f \in DOMAIN fp : IsStream(fp[f])
  <2> SUFFICES ASSUME NEW f \in DOMAIN fp PROVE IsStream(fp[f])
    OBVIOUS
  <2>1. fp[f] = [name |-> <<"<STDIN>", "<STDOUT>", "<STDERR>">>[f], mode |-> IF f = 1 THEN "r" ELSE "w",
                 pos |-> 0, eof |-> FALSE]
    BY <1>3, <1>4
  <2> QED
    BY <2>1 DEF IsStream
<1>9. DOMAIN file = 0 .. FILE_INC - 1
  BY DEF RxInitFiles
<1>10. {FSTDIN, FSTDOUT, FSTDERR} \subseteq DOMAIN file /\ FILE_INC \in Nat /\ FILE_INC > FSTDERR + 1
  BY <1>9, FilesAssumption DEF FSTDIN, FSTDOUT, FSTDERR
<1>11. /\ file[FSTDIN] = Slot("<STDIN>", 1, -1, {})
       /\ file[FSTDOUT] = Slot("<STDOUT>", 2, -1, {"WRITE"})
       /\ file[FSTDERR] = Slot("<STDERR>", last, -1, {"WRITE"})
       /\ \A i \in DOMAIN file \ {FSTDIN, FSTDOUT, FSTDERR} : file[i] = Empty
  BY <1>3, <1>10 DEF RxInitFiles, FSTDIN, FSTDOUT, FSTDERR
<1>12. \A i \in DOMAIN file : IsSlot(file[i])
  <2>1. IsSlot(Empty)
    BY EmptyIsSlot
  <2>2. IsSlot(file[FSTDIN])
    BY <1>11 DEF IsSlot, Slot
  <2>3. IsSlot(file[FSTDOUT])
    BY <1>11 DEF IsSlot, Slot
  <2>4. IsSlot(file[FSTDERR])
    BY <1>11 DEF IsSlot, Slot
  <2> QED
    BY <1>11, <2>1, <2>2, <2>3, <2>4
<1>13. /\ file[FSTDIN].name = "<STDIN>" /\ file[FSTDIN].f = 1 /\ "WRITE" \notin file[FSTDIN].flags
       /\ file[FSTDOUT].name = "<STDOUT>" /\ file[FSTDOUT].f = 2 /\ "WRITE" \in file[FSTDOUT].flags
       /\ file[FSTDERR].name = "<STDERR>" /\ file[FSTDERR].f = last /\ "WRITE" \in file[FSTDERR].flags
       /\ \A i \in DOMAIN file \ {FSTDIN, FSTDOUT, FSTDERR} : file[i].name = ""
  <2>1. file[FSTDIN].name = "<STDIN>" /\ file[FSTDIN].f = 1 /\ "WRITE" \notin file[FSTDIN].flags
    BY <1>11 DEF Slot
  <2>2. file[FSTDOUT].name = "<STDOUT>" /\ file[FSTDOUT].f = 2 /\ "WRITE" \in file[FSTDOUT].flags
    BY <1>11 DEF Slot
  <2>3. file[FSTDERR].name = "<STDERR>" /\ file[FSTDERR].f = last /\ "WRITE" \in file[FSTDERR].flags
    BY <1>11 DEF Slot
  <2>4. \A i \in DOMAIN file \ {FSTDIN, FSTDOUT, FSTDERR} : file[i].name = ""
    BY <1>11, EmptyIsSlot
  <2> QED
    BY <2>1, <2>2, <2>3, <2>4
<1>14. s.data = data /\ s.fp = fp /\ s.file = file /\ IsState(s)
  BY DEF Calling, IsState
<1> HIDE DEF s
<1>15. Named(s) = {FSTDIN, FSTDOUT, FSTDERR}
  BY <1>10, <1>13, <1>14 DEF Named
<1>16. \A n \in used \union Std : Sound0(data[n])
  <2>1. Sound0(Absent) /\ Sound0(<< >>) /\ Sound0(<<LF>>) /\ Sound0(<<"x", LF>>)
    BY DEF Sound0, Chars
  <2>2. \A n \in used \union Std : data[n] \in {Absent, << >>, <<LF>>, <<"x", LF>>}
    BY <1>1
  <2> QED
    BY <2>1, <2>2
<1>17. \A n \in DOMAIN data : n \in Sysout \union Std => data[n] = << >>
  BY DEF RxInitFiles
<1>18. Typed(Names, s)
  <2>1. DOMAIN data = used \union Std
    BY <1>1
  <2>2. DOMAIN fp \subseteq Nat \ {NULL} /\ IsFiniteSet(DOMAIN fp)
    BY <1>4, FS_Interval DEF NULL
  <2>3. \E k \in Nat : k > FSTDERR + 1 /\ DOMAIN file = 0 .. k - 1
    BY <1>9, <1>10
  <2> QED
    BY <1>2, <1>8, <1>12, <1>14, <1>16, <1>17, <2>1, <2>2, <2>3 DEF Typed
<1>19. Owned(s, {})
  <2>1. 1 \in DOMAIN fp /\ 2 \in DOMAIN fp /\ last \in DOMAIN fp
        /\ fp[1].mode = "r" /\ fp[2].mode = "w" /\ fp[last].mode = "w"
    BY <1>4
  <2>2. fp[last].name = "<STDERR>" \/ (Shared /\ fp[last].name = "<STDOUT>")
    BY <1>3, <1>5
  <2>4. Has(s, FSTDIN, 1)
    BY <1>5, <1>13, <1>14, <2>1 DEF Has
  <2>5. Has(s, FSTDOUT, 2)
    BY <1>5, <1>13, <1>14, <2>1 DEF Has
  <2>6. Has(s, FSTDERR, last)
    BY <1>13, <1>14, <2>1, <2>2 DEF Has, SharedStderr
  <2>3. \A i \in Named(s) : Has(s, i, s.file[i].f)
    BY <1>13, <1>14, <1>15, <2>4, <2>5, <2>6
  <2>7. \A i, j \in Named(s) : i # j /\ s.file[i].f = s.file[j].f =>
          Shared /\ {i, j} = {FSTDOUT, FSTDERR} /\ s.file[FSTDERR].name = "<STDERR>"
    <3> SUFFICES ASSUME NEW i \in Named(s), NEW j \in Named(s), i # j, s.file[i].f = s.file[j].f
                 PROVE  Shared /\ {i, j} = {FSTDOUT, FSTDERR} /\ s.file[FSTDERR].name = "<STDERR>"
      OBVIOUS
    <3>1. s.file[FSTDIN].f = 1 /\ s.file[FSTDOUT].f = 2 /\ s.file[FSTDERR].f = last /\ last \in {2, 3}
      BY <1>3, <1>13, <1>14
    <3>2. i \in {FSTDIN, FSTDOUT, FSTDERR} /\ j \in {FSTDIN, FSTDOUT, FSTDERR}
      BY <1>15
    <3>3. (i = FSTDOUT /\ j = FSTDERR) \/ (i = FSTDERR /\ j = FSTDOUT)
      BY <3>1, <3>2
    <3>4. last = 2
      BY <3>1, <3>3
    <3>5. Shared
      BY <1>3, <3>4
    <3>6. {i, j} = {FSTDOUT, FSTDERR}
      BY <3>3
    <3> QED
      BY <1>13, <1>14, <3>5, <3>6
  <2> QED
    BY <1>7, <1>14, <2>3, <2>7 DEF Owned
<1>20. StdPlaced(s)
  BY <1>13, <1>14 DEF StdPlaced, Std
<1>21. Allowed(Names, s)
  <2>1. \A f \in DOMAIN fp : fp[f].name \notin Names
    BY <1>7 DEF Names
  <2>2. \A f \in DOMAIN fp : fp[f].name \notin Sysout
    BY <1>7, NamesAssumption DEF Std
  <2> QED
    BY <1>7, <1>14, <2>1, <2>2 DEF Allowed
<1> QED
  BY <1>18, <1>19, <1>20, <1>21 DEF TableSound, s

LEMMA InvIsSound == FilesInv => FilesSound
<1> SUFFICES ASSUME FilesInv PROVE FilesSound
  OBVIOUS
<1> DEFINE used == {i \in DOMAIN file : file[i].name # ""}
           Pair(i, j) == Shared /\ {i, j} = {FSTDOUT, FSTDERR} /\ file[FSTDERR].name = "<STDERR>"
<1>1. CASE file = << >>
  <2>1. used = {}
    BY <1>1
  <2>2. \A f \in DOMAIN fp : fp[f].name \in Std
    BY <1>1 DEF FilesInv
  <2> QED
    BY <2>1, <2>2 DEF FilesSound
<1>2. CASE file # << >>
  <2>1. TableSound(Names, Calling, {}) /\ Calling.file = file /\ Calling.fp = fp /\ Named(Calling) = used
    BY <1>2 DEF FilesInv, Calling, Named
  <2>2. \A i \in used : Has(Calling, i, file[i].f)
    BY <2>1 DEF TableSound, Owned
  <2>3. \A i \in used : file[i].f \in DOMAIN fp /\ ("WRITE" \in file[i].flags <=> fp[file[i].f].mode # "r")
    BY <2>1, <2>2 DEF Has
  <2>4. \A i \in used : fp[file[i].f].name = file[i].name \/ Pair(FSTDOUT, i)
    BY <2>1, <2>2 DEF Has, SharedStderr
  <2>5. \A i \in used : file[i].wpos >= -1
    BY <2>1, Parts
  <2>6. \A i \in used : \A j \in used \ {i} : file[i].f = file[j].f => Pair(i, j)
    BY <2>1 DEF TableSound, Owned
  <2>7. \A f \in DOMAIN fp : fp[f].name \in Std \/ \E i \in used : file[i].f = f
    BY <2>1 DEF TableSound, Owned
  <2> QED
    BY <2>3, <2>4, <2>5, <2>6, <2>7 DEF FilesSound
<1> QED
  BY <1>1, <1>2

LEMMA StepGood ==
  ASSUME FilesInv, Faults = {}, Next
  PROVE  Good
<1>1. TableSound(Names, Calling, {})
  BY DEF FilesInv, Next
<1>2. <<"x">> \in Seq(Chars) /\ << >> \in Seq(Chars)
  BY DEF Chars
<1>3. LSTARTPOS \in Nat
  BY DEF LSTARTPOS, P!NONE
<1>4. ASSUME NEW n \in Names, NEW mode \in {"r", "r+", "w", "a"}, NEW alloc, R_open(n, mode, alloc) PROVE Good
  BY <1>1, <1>4, OpenGood
<1>5. ASSUME NEW r \in Refs, R_close(r) PROVE Good
  BY <1>1, <1>5, CloseGood
<1>6. ASSUME NEW r \in Refs, R_eof(r) \/ R_stream_status(r) PROVE Good
  BY <1>1, <1>6, EofGood
<1>7. ASSUME NEW r \in Refs, NEW mode \in {"r", "w", "a+"}, R_stream_open(r, mode) PROVE Good
  BY <1>1, <1>7, StreamOpenGood
<1>8. ASSUME NEW r \in Uses, NEW func, R_charslines(func, r) PROVE Good
  BY <1>1, <1>8, CharsLinesGood
<1>9. ASSUME NEW r \in Uses, NEW func, NEW start \in Nat, NEW length \in Nat, R_charlinein(func, r, start, length)
      PROVE  Good
  BY <1>1, <1>9, CharLineInGood
<1>10. ASSUME NEW r \in Uses, NEW func, NEW text \in Seq(Chars), NEW start \in Nat, R_charlineout(func, r, text, start)
       PROVE  Good
  BY <1>1, <1>10, CharLineOutGood
<1>11. ASSUME NEW r \in Uses, NEW func, NEW start \in Nat, R_charlineout_position(func, r, start) PROVE Good
  BY <1>1, <1>11, PositionGood
<1>12. ASSUME NEW r \in Uses, R_write(r, <<"x">>) PROVE Good
  BY <1>1, <1>2, <1>12, WriteGood
<1>13. ASSUME NEW r \in Uses, R_stream_reset(r) PROVE Good
  BY <1>1, <1>13, ResetGood
<1>14. ASSUME NEW r \in Uses, NEW how, R_read(r, how) PROVE Good
  BY <1>1, <1>14, ReadGood
<1>15. ASSUME NEW r \in Uses, NEW off \in Int, NEW whence \in {"TOF", "CUR", "EOF"}, R_seek(r, off, whence) PROVE Good
  BY <1>1, <1>15, SeekGood
<1>16. CASE \E n \in Names : \/ \E mode \in {"r", "r+", "w", "a"} : R_open(n, mode, "none")
                             \/ \E alloc \in {"good", "bad"} : R_open(n, "w", alloc)
  BY <1>4, <1>16
<1>17. CASE \E r \in Refs : \/ R_close(r) \/ R_eof(r) \/ R_stream_status(r)
                            \/ \E mode \in {"r", "w", "a+"} : R_stream_open(r, mode)
  BY <1>5, <1>6, <1>7, <1>17
<1>18. ASSUME NEW r \in Uses,
          \/ \E func \in {"CHARS", "LINES"} : R_charslines(func, r)
          \/ \E p \in {<<LSTARTPOS, 1>>, <<LSTARTPOS, 2>>, <<2, 1>>, <<3, 1>>} :
               R_charlinein("LINEIN", r, p[1], p[2])
          \/ \E p \in {<<LSTARTPOS, 2>>, <<1, 1>>, <<3, 0>>} : R_charlinein("CHARIN", r, p[1], p[2])
       PROVE Good
  <2>1. \A p \in {<<LSTARTPOS, 1>>, <<LSTARTPOS, 2>>, <<2, 1>>, <<3, 1>>, <<1, 1>>, <<3, 0>>} : p[1] \in Nat /\ p[2] \in Nat
    BY <1>3
  <2> QED
    BY <1>8, <1>9, <1>18, <2>1
<1>19. ASSUME NEW r \in Uses,
          \/ R_charlineout("LINEOUT", r, <<"x">>, LSTARTPOS)
          \/ \E start \in {LSTARTPOS, 2, 3} : R_charlineout("LINEOUT", r, << >>, start)
          \/ \E start \in {LSTARTPOS, 2} : R_charlineout("CHAROUT", r, <<"x">>, start)
          \/ \E start \in {LSTARTPOS, 3} : R_charlineout_position("LINEOUT", r, start)
          \/ R_charlineout_position("CHAROUT", r, 2)
       PROVE Good
  <2>1. \A start \in {LSTARTPOS, 2, 3} : start \in Nat
    BY <1>3
  <2> QED
    BY <1>2, <1>10, <1>11, <1>19, <2>1
<1>20. ASSUME NEW r \in Uses,
          \/ R_write(r, <<"x">>) \/ R_stream_reset(r)
          \/ \E how \in {"LINE", "FILE"} : R_read(r, how)
          \/ R_seek(r, -1, "CUR") \/ R_seek(r, 0, "EOF")
       PROVE Good
  <2>1. -1 \in Int /\ 0 \in Int /\ "CUR" \in {"TOF", "CUR", "EOF"} /\ "EOF" \in {"TOF", "CUR", "EOF"}
    OBVIOUS
  <2> QED
    BY <1>12, <1>13, <1>14, <1>15, <1>20, <2>1
<1>21. CASE RxDoneFiles
  BY <1>1, <1>21, DoneGood
<1> QED
  BY <1>16, <1>17, <1>18, <1>19, <1>20, <1>21, Zenon DEF Next

LEMMA InitInv == RxInitFiles => FilesInv
<1> SUFFICES ASSUME RxInitFiles PROVE FilesInv
  OBVIOUS
<1>1. TableSound(Names, Calling, {})
  BY InitSound
<1>2. file # << >>
  <2>1. FSTDIN \in DOMAIN file
    BY FilesAssumption DEF RxInitFiles, FSTDIN
  <2> QED
    BY <2>1
<1> QED
  BY <1>1, <1>2 DEF FilesInv

LEMMA NextInv == Faults = {} /\ FilesInv /\ [Next]_vars => FilesInv'
<1> SUFFICES ASSUME Faults = {}, FilesInv, [Next]_vars PROVE FilesInv'
  OBVIOUS
<1>1. CASE Next
  BY <1>1, StepGood DEF Good
<1>2. CASE UNCHANGED vars
  <2>1. data' = data /\ fp' = fp /\ file' = file
    BY <1>2 DEF vars
  <2>2. Names' = Names /\ Calling' = Calling
    BY <2>1 DEF Names, Calling
  <2> QED
    BY <2>1, <2>2 DEF FilesInv
<1> QED
  BY <1>1, <1>2

(* Unless another job holds a data set, or the exec closes STDOUT or writes *)
(* to STDIN, every slot in use has a C stream of its own, of its data set   *)
(* and its mode, and no C stream is without a slot (rxfiles.c:198-213,      *)
(* 316-366).                                                                *)
THEOREM FilesCorrect == ASSUME Faults = {} PROVE Spec => []FilesSound
<1>1. Faults = {}
  OBVIOUS
<1>2. FilesInv /\ [Next]_vars => FilesInv'
  BY <1>1, NextInv
<1> QED
  BY <1>2, InitInv, InvIsSound, PTL DEF Spec

(* Under the same condition LINEOUT and CHAROUT, which open a stream that   *)
(* is not open, keep what its data set holds (rxfiles.c:297-301).           *)
THEOREM KeepsData == ASSUME Faults = {} PROVE Spec => ImplicitOpenKeeps
<1> DEFINE Keeps == call'.what \in {"LINEOUT", "CHAROUT"} =>
                      \A n \in Names : data[n] # Absent => Len(data'[n]) >= Len(data[n])
<1>1. Faults = {}
  OBVIOUS
<1>2. FilesInv /\ [Next]_vars => FilesInv'
  BY <1>1, NextInv
<1>3. FilesInv /\ [Next]_vars => [Keeps]_vars
  BY <1>1, StepGood DEF Good
<1> QED
  BY <1>2, <1>3, InitInv, PTL DEF Spec, ImplicitOpenKeeps

-----------------------------------------------------------------------------
(* The streams of a state, as the exec sees them.                           *)

Appends(s, h) == s.file[h].f \in DOMAIN s.fp /\ s.fp[s.file[h].f].mode \in {"a", "a+"}
Failed(s, h) == "NOTREADY" \in s.file[h].flags
StreamOf(s, h) ==
  [name |-> s.file[h].name, rpos |-> s.file[h].rpos, wpos |-> s.file[h].wpos,
   appends |-> Appends(s, h), positions |-> Seeks(s, h), failed |-> Failed(s, h)]
AbsOf(s) == [h \in Named(s) |-> StreamOf(s, h)]

LEMMA OpenIsAbs == open = AbsOf(Calling)
  BY DEF open, AbsOf, StreamOf, Appends, Seeks, Failed, Named, Calling

LEMMA BecomeAbs ==
  ASSUME NEW s, NEW c, Become(s, c)
  PROVE  data' = s.data /\ open' = AbsOf(s) /\ call' = c
<1>1. data' = s.data /\ file' = s.file /\ fp' = s.fp /\ call' = c
  BY DEF Become
<1>2. open' = AbsOf(s)
  BY <1>1, Zenon DEF open, AbsOf, StreamOf, Appends, Seeks, Failed, Named
<1> QED
  BY <1>1, <1>2

(* A stream of the reference, field by field.                               *)
Str(n, r, w, a, p, x) ==
  [name |-> n, rpos |-> r, wpos |-> w, appends |-> a, positions |-> p, failed |-> x]

LEMMA StrSet ==
  ASSUME NEW n, NEW r, NEW w, NEW a, NEW p, NEW x, NEW q
  PROVE  LET o == Str(n, r, w, a, p, x)
         IN  /\ o.name = n /\ o.rpos = r /\ o.wpos = w /\ o.appends = a /\ o.positions = p /\ o.failed = x
             /\ [o EXCEPT !.rpos = q] = Str(n, q, w, a, p, x)
             /\ [o EXCEPT !.wpos = q] = Str(n, r, q, a, p, x)
             /\ [o EXCEPT !.failed = q] = Str(n, r, w, a, p, q)
  BY DEF Str

LEMMA StreamIs ==
  ASSUME NEW s, NEW h
  PROVE  StreamOf(s, h) = Str(s.file[h].name, s.file[h].rpos, s.file[h].wpos,
                              Appends(s, h), Seeks(s, h), Failed(s, h))
  BY DEF StreamOf, Str

(* From s to t stream i changed, but for what it was opened as.             *)
Like(s, t, i) ==
  /\ Named(t) = Named(s) /\ \A h \in Named(s) : t.file[h].name = s.file[h].name
  /\ \A h \in Named(s) \ {i} : StreamOf(t, h) = StreamOf(s, h)
  /\ Appends(t, i) = Appends(s, i) /\ Seeks(t, i) = Seeks(s, i)

(* Streams with one position are those of a SYSOUT or the terminal.         *)
Seekable(s) ==
  \A i \in Named(s) :
    /\ Seeks(s, i) <=> s.file[i].name \notin Sysout \union Std
    /\ Seeks(s, i) => s.fp[s.file[i].f].mode \notin {"w", "a"}

(* From s to t only slot i and the positions of C streams changed.          *)
Moves(s, t, i) ==
  /\ Kept(s, t)
  /\ \A h \in DOMAIN s.file : h # i => t.file[h] = s.file[h]
  /\ Seeks(t, i) <=> Seeks(s, i)

LEMMA MovesSelf ==
  ASSUME NEW N, NEW s, TableSound(N, s, {}), NEW i
  PROVE  Moves(s, s, i)
  BY KeptSelf DEF Moves

LEMMA MovesThen ==
  ASSUME NEW N, NEW s, TableSound(N, s, {}), NEW i, NEW t, NEW u, Moves(s, t, i), Moves(t, u, i)
  PROVE  Moves(s, u, i)
<1>1. Kept(s, u)
  BY KeptThen DEF Moves
<1>2. DOMAIN t.file = DOMAIN s.file
  BY DEF Moves, Kept
<1> QED
  BY <1>1, <1>2 DEF Moves

LEMMA MovesLike ==
  ASSUME NEW N, NEW s, TableSound(N, s, {}), NEW i \in Named(s), NEW t, Moves(s, t, i)
  PROVE  Like(s, t, i)
<1>1. /\ DOMAIN t.file = DOMAIN s.file /\ DOMAIN t.fp = DOMAIN s.fp
      /\ \A h \in DOMAIN s.file : t.file[h].name = s.file[h].name /\ t.file[h].f = s.file[h].f
      /\ \A f \in DOMAIN s.fp : t.fp[f].mode = s.fp[f].mode
  BY DEF Moves, Kept
<1>2. Named(t) = Named(s)
  BY <1>1 DEF Named
<1>3. ASSUME NEW h \in Named(s)
      PROVE  Appends(t, h) = Appends(s, h)
  <2>1. t.file[h].f = s.file[h].f
    BY <1>1 DEF Named
  <2> QED
    BY <1>1, <2>1 DEF Appends
<1>4. ASSUME NEW h \in Named(s) \ {i}
      PROVE  StreamOf(t, h) = StreamOf(s, h)
  <2>1. t.file[h] = s.file[h]
    BY DEF Moves, Named
  <2>2. Seeks(t, h) = Seeks(s, h) /\ Failed(t, h) = Failed(s, h)
    BY <2>1 DEF Seeks, Failed
  <2>3. Appends(t, h) = Appends(s, h)
    BY <1>3
  <2> QED
    BY <2>1, <2>2, <2>3, StreamIs
<1>5. Seeks(t, i) = Seeks(s, i)
  BY DEF Moves, Seeks
<1> QED
  BY <1>1, <1>2, <1>3, <1>4, <1>5 DEF Like, Named

LEMMA MovesSeekable ==
  ASSUME NEW N, NEW s, TableSound(N, s, {}), NEW i, NEW t, Moves(s, t, i), Seekable(s)
  PROVE  Seekable(t)
<1> SUFFICES ASSUME NEW h \in Named(t)
             PROVE  /\ Seeks(t, h) <=> t.file[h].name \notin Sysout \union Std
                    /\ Seeks(t, h) => t.fp[t.file[h].f].mode \notin {"w", "a"}
  BY DEF Seekable
<1>1. /\ h \in Named(s) /\ t.file[h].name = s.file[h].name /\ t.file[h].f = s.file[h].f
  BY DEF Moves, Kept, Named
<1>2. s.file[h].f \in DOMAIN s.fp
  BY <1>1, Live
<1>3. t.fp[s.file[h].f].mode = s.fp[s.file[h].f].mode
  BY <1>2 DEF Moves, Kept
<1>4. Seeks(t, h) <=> Seeks(s, h)
  BY <1>1 DEF Moves, Seeks, Named
<1> QED
  BY <1>1, <1>3, <1>4 DEF Seekable

LEMMA LikeThen ==
  ASSUME NEW s, NEW t, NEW u, NEW i \in Named(s), Like(s, t, i), Like(t, u, i)
  PROVE  Like(s, u, i)
  BY DEF Like

-----------------------------------------------------------------------------
(* What the functions of the C library and of the slots do to a stream.     *)

LEMMA StreamSet ==
  ASSUME NEW N, NEW s, NEW H, TableSound(N, s, H), NEW f \in DOMAIN s.fp, NEW x
  PROVE  LET t == [s EXCEPT !.fp[f] = x]
         IN  t.data = s.data /\ t.file = s.file /\ t.fp[f] = x
  BY Parts

LEMMA SlotSet ==
  ASSUME NEW N, NEW s, NEW H, TableSound(N, s, H), NEW i \in DOMAIN s.file, NEW x
  PROVE  LET t == [s EXCEPT !.file[i] = x]
         IN  /\ t.data = s.data /\ t.fp = s.fp /\ t.file[i] = x
             /\ \A h \in DOMAIN s.file : h # i => t.file[h] = s.file[h]
  BY Parts

(* The table is as it was.                                                  *)
LEMMA SameTableMoves ==
  ASSUME NEW s, NEW t, Kept(s, t), t.file = s.file, NEW i
  PROVE  Moves(s, t, i)
  BY DEF Moves, Seeks

LEMMA SeekDoes ==
  ASSUME NEW N, NEW s, TableSound(N, s, {}), NEW f \in DOMAIN s.fp, NEW off \in Nat
  PROVE  LET t == fseek(s, f, off)
         IN  Kept(s, t) /\ t.data = s.data /\ t.file = s.file /\ t.fp[f].pos = off /\ ~ t.fp[f].eof
<1>0. PICK no : no = FALSE
  OBVIOUS
<1> DEFINE x == [name |-> s.fp[f].name, mode |-> s.fp[f].mode, pos |-> off, eof |-> no]
           t == fseek(s, f, off)
<1>1. t = [s EXCEPT !.fp[f] = x]
  <2>1. t = Moved(s, f, off, no)
    BY <1>0, Zenon DEF fseek, Moved
  <2>2. Moved(s, f, off, no) = [s EXCEPT !.fp[f] = x]
    BY MovedIs
  <2> QED
    BY <2>1, <2>2
<1>2. x.pos = off /\ x.eof = no
  OBVIOUS
<1>3. Kept(s, t)
  BY SeekKeeps
<1> HIDE DEF x, t
<1>4. t.data = s.data /\ t.file = s.file /\ t.fp[f] = x
  BY <1>1, StreamSet
<1>5. t.fp[f].pos = off /\ t.fp[f].eof = no
  BY <1>2, <1>4
<1> QED
  BY <1>0, <1>3, <1>4, <1>5 DEF t

LEMMA ClearDoes ==
  ASSUME NEW N, NEW s, TableSound(N, s, {}), NEW f \in DOMAIN s.fp
  PROVE  LET t == clearerr(s, f)
         IN  Kept(s, t) /\ t.data = s.data /\ t.file = s.file /\ t.fp[f].pos = s.fp[f].pos /\ ~ t.fp[f].eof
<1>0. PICK no : no = FALSE
  OBVIOUS
<1> DEFINE x == [name |-> s.fp[f].name, mode |-> s.fp[f].mode, pos |-> s.fp[f].pos, eof |-> no]
           t == clearerr(s, f)
<1>1. t = [s EXCEPT !.fp[f] = x]
  BY <1>0, ClearIs
<1>2. x.pos = s.fp[f].pos /\ x.eof = no
  OBVIOUS
<1>3. Kept(s, t)
  BY ClearKeeps
<1> HIDE DEF x, t
<1>4. t.data = s.data /\ t.file = s.file /\ t.fp[f] = x
  BY <1>1, StreamSet
<1>5. t.fp[f].pos = s.fp[f].pos /\ t.fp[f].eof = no
  BY <1>2, <1>4
<1> QED
  BY <1>0, <1>3, <1>4, <1>5 DEF t

(* A stream that can be read moves by what was read.                        *)
LEMMA ReadDoes ==
  ASSUME NEW N, NEW s, TableSound(N, s, {}), NEW f \in DOMAIN s.fp, NEW n \in Int,
         s.fp[f].mode \notin {"w", "a"}
  PROVE  LET got == fread(s, f, n)
         IN  /\ Kept(s, got.s) /\ got.s.data = s.data /\ got.s.file = s.file
             /\ got.text = Next_n(s, f, n) /\ got.text \in Seq(Chars)
             /\ got.s.fp[f].pos = s.fp[f].pos + Len(got.text)
             /\ got.s.fp[f].eof <=> s.fp[f].eof \/ Len(got.text) < n
<1> DEFINE got == fread(s, f, n)
           text == Next_n(s, f, n)
           eof == s.fp[f].eof \/ Len(text) < n
<1>1. Kept(s, got.s) /\ got.text \in Seq(Chars)
  BY ReadKeeps
<1>2. got.text = text
  BY DEF fread, Took
<1>3. PICK e : e = eof
  OBVIOUS
<1> DEFINE x == [name |-> s.fp[f].name, mode |-> s.fp[f].mode, pos |-> s.fp[f].pos + Len(text), eof |-> e]
<1>4. got.s = [s EXCEPT !.fp[f].pos = @ + Len(text), !.fp[f].eof = @ \/ Len(text) < n]
  BY DEF fread, Took
<1> HIDE DEF text
<1>5. [s EXCEPT !.fp[f].pos = @ + Len(text), !.fp[f].eof = @ \/ Len(text) < n]
        = [s EXCEPT !.fp[f].pos = s.fp[f].pos + Len(text), !.fp[f].eof = eof]
  <2> DEFINE r == [s EXCEPT !.fp[f].pos = s.fp[f].pos + Len(text)]
  <2>1. r.fp[f].eof = s.fp[f].eof
    BY Parts
  <2> HIDE DEF r
  <2>2. [r EXCEPT !.fp[f].eof = @ \/ Len(text) < n] = [r EXCEPT !.fp[f].eof = s.fp[f].eof \/ Len(text) < n]
    BY <2>1
  <2> QED
    BY <2>2 DEF r
<1>6. [s EXCEPT !.fp[f].pos = s.fp[f].pos + Len(text), !.fp[f].eof = eof]
        = Moved(s, f, s.fp[f].pos + Len(text), e)
  BY <1>3, Zenon DEF Moved
<1>7. Moved(s, f, s.fp[f].pos + Len(text), e) = [s EXCEPT !.fp[f] = x]
  BY MovedIs
<1>8. x.pos = s.fp[f].pos + Len(text) /\ x.eof = e
  OBVIOUS
<1> HIDE DEF x, eof, got
<1>9. got.s.data = s.data /\ got.s.file = s.file /\ got.s.fp[f] = x
  <2>1. got.s = [s EXCEPT !.fp[f] = x]
    BY Zenon, <1>4, <1>5, <1>6, <1>7
  <2> QED
    BY <2>1, StreamSet
<1>10. got.s.fp[f].pos = s.fp[f].pos + Len(text) /\ got.s.fp[f].eof = e
  BY <1>8, <1>9
<1>11. got.s.fp[f].eof <=> eof
  BY <1>3, <1>10
<1> QED
  BY <1>1, <1>2, <1>9, <1>10, <1>11 DEF got, text, eof

LEMMA FlagsDo ==
  ASSUME NEW N, NEW s, TableSound(N, s, {}), NEW i \in Named(s), NEW v,
         "WRITE" \in v <=> "WRITE" \in s.file[i].flags, "SEEK" \in v <=> "SEEK" \in s.file[i].flags
  PROVE  LET t == [s EXCEPT !.file[i].flags = v]
         IN  /\ Moves(s, t, i) /\ t.data = s.data /\ t.fp = s.fp /\ t.file[i].flags = v
             /\ t.file[i].rpos = s.file[i].rpos /\ t.file[i].wpos = s.file[i].wpos
<1> DEFINE t == [s EXCEPT !.file[i].flags = v]
           x == [s.file[i] EXCEPT !.flags = v]
<1>0. i \in DOMAIN s.file
  BY Live
<1>1. Kept(s, t)
  BY <1>0, FlagsKept
<1>2. x.flags = v /\ x.rpos = s.file[i].rpos /\ x.wpos = s.file[i].wpos
  BY <1>0, Parts
<1>3. t = [s EXCEPT !.file[i] = x]
  OBVIOUS
<1> HIDE DEF t, x
<1>4. /\ t.data = s.data /\ t.fp = s.fp /\ t.file[i] = x
      /\ \A h \in DOMAIN s.file : h # i => t.file[h] = s.file[h]
  BY <1>0, <1>3, SlotSet
<1>5. Seeks(t, i) <=> Seeks(s, i)
  BY <1>2, <1>4 DEF Seeks
<1> QED
  BY <1>1, <1>2, <1>4, <1>5 DEF t, Moves

LEMMA ReadyDoes ==
  ASSUME NEW N, NEW s, TableSound(N, s, {}), NEW i \in Named(s)
  PROVE  LET t == Ready(s, i)
         IN  /\ Moves(s, t, i) /\ t.data = s.data /\ t.fp = s.fp /\ ~ Failed(t, i)
             /\ t.file[i].rpos = s.file[i].rpos /\ t.file[i].wpos = s.file[i].wpos
<1> DEFINE v == s.file[i].flags \ {"NOTREADY"}
<1>1. ("WRITE" \in v <=> "WRITE" \in s.file[i].flags) /\ ("SEEK" \in v <=> "SEEK" \in s.file[i].flags)
      /\ "NOTREADY" \notin v
  OBVIOUS
<1>2. Ready(s, i) = [s EXCEPT !.file[i].flags = v]
  BY DEF Ready
<1> HIDE DEF v
<1> DEFINE t == [s EXCEPT !.file[i].flags = v]
<1>3. /\ Moves(s, t, i) /\ t.data = s.data /\ t.fp = s.fp /\ t.file[i].flags = v
      /\ t.file[i].rpos = s.file[i].rpos /\ t.file[i].wpos = s.file[i].wpos
  BY <1>1, FlagsDo
<1> HIDE DEF t
<1>4. ~ Failed(t, i)
  BY <1>1, <1>3 DEF Failed
<1> QED
  BY <1>2, <1>3, <1>4 DEF t

LEMMA NotReadyDoes ==
  ASSUME NEW N, NEW s, TableSound(N, s, {}), NEW i \in Named(s)
  PROVE  LET t == NotReady(s, i)
         IN  /\ Moves(s, t, i) /\ t.data = s.data /\ t.fp = s.fp /\ Failed(t, i)
             /\ t.file[i].rpos = s.file[i].rpos /\ t.file[i].wpos = s.file[i].wpos
<1> DEFINE v == s.file[i].flags \union {"NOTREADY"}
<1>1. ("WRITE" \in v <=> "WRITE" \in s.file[i].flags) /\ ("SEEK" \in v <=> "SEEK" \in s.file[i].flags)
      /\ "NOTREADY" \in v
  OBVIOUS
<1>2. NotReady(s, i) = [s EXCEPT !.file[i].flags = v]
  BY DEF NotReady
<1> HIDE DEF v
<1> DEFINE t == [s EXCEPT !.file[i].flags = v]
<1>3. /\ Moves(s, t, i) /\ t.data = s.data /\ t.fp = s.fp /\ t.file[i].flags = v
      /\ t.file[i].rpos = s.file[i].rpos /\ t.file[i].wpos = s.file[i].wpos
  BY <1>1, FlagsDo
<1> HIDE DEF t
<1>4. Failed(t, i)
  BY <1>1, <1>3 DEF Failed
<1> QED
  BY <1>2, <1>3, <1>4 DEF t

LEMMA RposDoes ==
  ASSUME NEW N, NEW s, TableSound(N, s, {}), NEW i \in Named(s), NEW v \in Nat
  PROVE  LET t == [s EXCEPT !.file[i].rpos = v]
         IN  /\ Moves(s, t, i) /\ t.data = s.data /\ t.fp = s.fp /\ Failed(t, i) = Failed(s, i)
             /\ t.file[i].rpos = v /\ t.file[i].wpos = s.file[i].wpos
<1> DEFINE t == [s EXCEPT !.file[i].rpos = v]
           x == [s.file[i] EXCEPT !.rpos = v]
<1>0. i \in DOMAIN s.file
  BY Live
<1>1. Kept(s, t)
  BY <1>0, RposKept
<1>2. x.flags = s.file[i].flags /\ x.rpos = v /\ x.wpos = s.file[i].wpos
  BY <1>0, Parts
<1>3. t = [s EXCEPT !.file[i] = x]
  OBVIOUS
<1> HIDE DEF t, x
<1>4. /\ t.data = s.data /\ t.fp = s.fp /\ t.file[i] = x
      /\ \A h \in DOMAIN s.file : h # i => t.file[h] = s.file[h]
  BY <1>0, <1>3, SlotSet
<1>5. t.file[i].flags = s.file[i].flags
  BY <1>2, <1>4
<1>6. Failed(t, i) = Failed(s, i)
  BY <1>5 DEF Failed
<1> QED
  BY <1>1, <1>2, <1>4, <1>5, <1>6 DEF t, Moves, Seeks

LEMMA WposDoes ==
  ASSUME NEW N, NEW s, TableSound(N, s, {}), NEW i \in Named(s), NEW v \in Int, v >= -1
  PROVE  LET t == [s EXCEPT !.file[i].wpos = v]
         IN  /\ Moves(s, t, i) /\ t.data = s.data /\ t.fp = s.fp /\ Failed(t, i) = Failed(s, i)
             /\ t.file[i].rpos = s.file[i].rpos /\ t.file[i].wpos = v
<1> DEFINE t == [s EXCEPT !.file[i].wpos = v]
           x == [s.file[i] EXCEPT !.wpos = v]
<1>0. i \in DOMAIN s.file
  BY Live
<1>1. Kept(s, t)
  BY <1>0, WposKept
<1>2. x.flags = s.file[i].flags /\ x.rpos = s.file[i].rpos /\ x.wpos = v
  BY <1>0, Parts
<1>3. t = [s EXCEPT !.file[i] = x]
  OBVIOUS
<1> HIDE DEF t, x
<1>4. /\ t.data = s.data /\ t.fp = s.fp /\ t.file[i] = x
      /\ \A h \in DOMAIN s.file : h # i => t.file[h] = s.file[h]
  BY <1>0, <1>3, SlotSet
<1>5. t.file[i].flags = s.file[i].flags
  BY <1>2, <1>4
<1>6. Failed(t, i) = Failed(s, i)
  BY <1>5 DEF Failed
<1> QED
  BY <1>1, <1>2, <1>4, <1>5, <1>6 DEF t, Moves, Seeks

WriteAt(s, f, c) == IF s.fp[f].mode \in {"a", "a+"} THEN Len(c) ELSE s.fp[f].pos
PutIn(d, n, c, p, t, k) == [d EXCEPT ![n] = P!Put(c, p, SubSeq(t, 1, k))]
LEMMA WriteDoes ==
  ASSUME NEW N, NEW s, TableSound(N, s, {}), NEW f \in DOMAIN s.fp, NEW c, c = Content(s, f),
         NEW name, name = s.fp[f].name, NEW p, p = WriteAt(s, f, c),
         NEW t \in Seq(Chars), NEW take \in 0 .. Len(t), NEW out, out = fwrite(s, f, t, take)
  PROVE  /\ Kept(s, out.s) /\ out.s.file = s.file
         /\ name \in Sysout \union Std => out.n = Len(t) /\ out.s = s
         /\ name \notin Sysout \union Std /\ (s.fp[f].mode = "r" \/ p > Len(c) \/ take = 0)
              => out.n = 0 /\ out.s = s
         /\ name \notin Sysout \union Std /\ ~(s.fp[f].mode = "r" \/ p > Len(c) \/ take = 0)
              => out.n = take /\ out.s.fp[f].pos = p + take /\ out.s.data = PutIn(s.data, name, c, p, t, take)
<1> DEFINE w == SubSeq(t, 1, take)
<1>1. Kept(s, out.s)
  BY WriteKeeps
<1>2. ASSUME name \in Sysout \union Std
      PROVE  out.n = Len(t) /\ out.s = s
  BY <1>2 DEF fwrite
<1>3. ASSUME name \notin Sysout \union Std, s.fp[f].mode = "r" \/ p > Len(c) \/ take = 0
      PROVE  out.n = 0 /\ out.s = s
  BY <1>3 DEF fwrite, WriteAt
<1>4. ASSUME name \notin Sysout \union Std, ~(s.fp[f].mode = "r" \/ p > Len(c) \/ take = 0)
      PROVE  /\ out.n = take /\ out.s.fp[f].pos = p + take /\ out.s.file = s.file
             /\ out.s.data = PutIn(s.data, name, c, p, t, take)
  <2>1. out = Wrote(s, f, p, w)
    BY <1>4 DEF fwrite, WriteAt
  <2>2. Len(w) = take
    <3>1. \A k \in 1 .. take : t[k] \in Chars
      OBVIOUS
    <3> QED
      BY <3>1, SubSeqProperties
  <2>3. name \in DOMAIN s.data /\ c = s.data[name]
    BY ContentIs DEF Content
  <2> HIDE DEF w
  <2>4. out.n = Len(w) /\ out.s = [s EXCEPT !.data[name] = P!Put(@, p, w), !.fp[f].pos = p + Len(w)]
    BY <2>1 DEF Wrote
  <2> DEFINE v == [s EXCEPT !.data[name] = P!Put(@, p, w)]
  <2>5. v.data = [s.data EXCEPT ![name] = P!Put(c, p, w)] /\ v.fp = s.fp /\ v.file = s.file
        /\ v = [data |-> v.data, fp |-> v.fp, file |-> v.file]
    <3>1. s = [data |-> s.data, fp |-> s.fp, file |-> s.file]
      BY Parts
    <3> QED
      BY <2>3, <3>1
  <2> HIDE DEF v
  <2>6. out.s = [v EXCEPT !.fp[f].pos = p + Len(w)]
    BY <2>4 DEF v
  <2>7. out.s.data = v.data /\ out.s.file = v.file /\ out.s.fp = [v.fp EXCEPT ![f].pos = p + Len(w)]
    BY <2>5, <2>6
  <2>8. s.fp[f] = [name |-> s.fp[f].name, mode |-> s.fp[f].mode, pos |-> s.fp[f].pos, eof |-> s.fp[f].eof]
    BY Parts
  <2>9. out.s.fp[f].pos = p + Len(w)
    BY <2>5, <2>7, <2>8
  <2>10. v.data = PutIn(s.data, name, c, p, t, take)
    BY Zenon, <2>5 DEF PutIn, w
  <2> QED
    BY <2>2, <2>4, <2>5, <2>7, <2>9, <2>10
<1>5. out.s.file = s.file
  BY <1>2, <1>3, <1>4
<1> HIDE DEF w
<1> QED
  BY <1>1, <1>2, <1>3, <1>4, <1>5

LEMMA PrepReadDoes ==
  ASSUME NEW N, NEW s, TableSound(N, s, {}), NEW i \in Named(s)
  PROVE  LET t == prep_read(s, i)
             f == s.file[i].f
         IN  /\ Moves(s, t, i) /\ t.data = s.data /\ ~ Failed(t, i) /\ ~ t.fp[f].eof
             /\ t.file[i].rpos = s.file[i].rpos /\ t.file[i].wpos = s.file[i].wpos
             /\ Seeks(s, i) => t.fp[f].pos = s.file[i].rpos
<1> DEFINE f == s.file[i].f
           r == Ready(s, i)
           t == IF Seeks(s, i) THEN fseek(r, f, s.file[i].rpos) ELSE r
           u == clearerr(t, f)
<1>0. i \in DOMAIN s.file /\ s.file[i].rpos \in Nat
  BY Live, Parts
<1>1. /\ Moves(s, r, i) /\ r.data = s.data /\ ~ Failed(r, i)
      /\ r.file[i].rpos = s.file[i].rpos /\ r.file[i].wpos = s.file[i].wpos
  BY ReadyDoes
<1>2. prep_read(s, i) = u
  BY DEF prep_read
<1> HIDE DEF r
<1>3. Kept(s, r)
  BY <1>1 DEF Moves
<1>4. TableSound(N, r, {}) /\ f \in DOMAIN r.fp
  BY <1>3, KeptLive
<1>5. Kept(r, t) /\ t.data = r.data /\ t.file = r.file /\ (Seeks(s, i) => t.fp[f].pos = s.file[i].rpos)
  BY <1>0, <1>4, SeekDoes, KeptSelf
<1> HIDE DEF t
<1>6. TableSound(N, t, {}) /\ f \in DOMAIN t.fp
  BY <1>4, <1>5, KeptSound DEF Kept
<1>7. Kept(t, u) /\ u.data = t.data /\ u.file = t.file /\ u.fp[f].pos = t.fp[f].pos /\ ~ u.fp[f].eof
  BY <1>6, ClearDoes
<1> HIDE DEF u
<1>8. Moves(r, t, i) /\ Moves(t, u, i)
  BY <1>5, <1>7, SameTableMoves
<1>9. Moves(s, u, i)
  BY <1>1, <1>4, <1>8, MovesThen
<1>10. ~ Failed(u, i)
  BY <1>1, <1>5, <1>7 DEF Failed
<1> QED
  BY <1>1, <1>2, <1>5, <1>7, <1>9, <1>10

LEMMA DoneReadDoes ==
  ASSUME NEW N, NEW s, TableSound(N, s, {}), NEW i \in Named(s)
  PROVE  LET t == done_read(s, i)
         IN  /\ Moves(s, t, i) /\ t.data = s.data /\ Failed(t, i) = Failed(s, i)
             /\ t.file[i].rpos = IF Seeks(s, i) THEN s.fp[s.file[i].f].pos ELSE s.file[i].rpos
             /\ t.file[i].wpos = s.file[i].wpos
<1> DEFINE pos == s.fp[s.file[i].f].pos
           t == [s EXCEPT !.file[i].rpos = pos]
<1>1. pos \in Nat
  BY Live, Parts
<1>2. CASE Seeks(s, i)
  <2>1. done_read(s, i) = t
    BY <1>2 DEF done_read
  <2> HIDE DEF pos
  <2>2. /\ Moves(s, t, i) /\ t.data = s.data /\ Failed(t, i) = Failed(s, i)
        /\ t.file[i].rpos = pos /\ t.file[i].wpos = s.file[i].wpos
    BY <1>1, RposDoes
  <2> HIDE DEF t
  <2> QED
    BY <1>2, <2>1, <2>2 DEF pos
<1>3. CASE ~ Seeks(s, i)
  <2>1. done_read(s, i) = s
    BY <1>3 DEF done_read
  <2> QED
    BY <1>3, <2>1, MovesSelf
<1> QED
  BY <1>2, <1>3

LEMMA DoneWriteDoes ==
  ASSUME NEW N, NEW s, TableSound(N, s, {}), NEW i \in Named(s)
  PROVE  LET t == done_write(s, i)
         IN  /\ Moves(s, t, i) /\ t.data = s.data /\ Failed(t, i) = Failed(s, i)
             /\ t.file[i].rpos = s.file[i].rpos
             /\ t.file[i].wpos = IF Seeks(s, i) THEN s.fp[s.file[i].f].pos ELSE s.file[i].wpos
<1> DEFINE pos == s.fp[s.file[i].f].pos
           t == [s EXCEPT !.file[i].wpos = pos]
<1>1. pos \in Int /\ pos >= -1
  <2>1. pos \in Nat
    BY Live, Parts
  <2> QED
    BY <2>1
<1>2. CASE Seeks(s, i)
  <2>1. done_write(s, i) = t
    BY <1>2 DEF done_write
  <2> HIDE DEF pos
  <2>2. /\ Moves(s, t, i) /\ t.data = s.data /\ Failed(t, i) = Failed(s, i)
        /\ t.file[i].rpos = s.file[i].rpos /\ t.file[i].wpos = pos
    BY <1>1, WposDoes
  <2> HIDE DEF t
  <2> QED
    BY <1>2, <2>1, <2>2 DEF pos
<1>3. CASE ~ Seeks(s, i)
  <2>1. done_write(s, i) = s
    BY <1>3 DEF done_write
  <2> QED
    BY <1>3, <2>1, MovesSelf
<1> QED
  BY <1>2, <1>3

LEMMA AtWposDoes ==
  ASSUME NEW N, NEW s, TableSound(N, s, {}), NEW i \in Named(s)
  PROVE  LET t == AtWpos(s, i)
             f == s.file[i].f
             w == IF s.file[i].wpos = -1 THEN Len(Content(s, f)) ELSE s.file[i].wpos
         IN  /\ Moves(s, t, i) /\ t.data = s.data /\ Failed(t, i) = Failed(s, i)
             /\ t.file[i].rpos = s.file[i].rpos /\ t.file[i].wpos = w /\ t.fp[f].pos = w /\ w \in Nat
<1> DEFINE f == s.file[i].f
           e == Len(Content(s, f))
           v == IF s.file[i].wpos < 0 THEN e ELSE s.file[i].wpos
           w == IF s.file[i].wpos = -1 THEN e ELSE s.file[i].wpos
           t == fseek(s, f, w)
           u == [t EXCEPT !.file[i].wpos = w]
<1>1. i \in DOMAIN s.file /\ f \in DOMAIN s.fp /\ s.file[i].wpos \in Int /\ s.file[i].wpos >= -1
  BY Live, Parts
<1>2. e \in Nat
  BY <1>1, ContentIs
<1>3. v = w /\ w \in Nat
  <2> HIDE DEF e
  <2> QED
    BY <1>1, <1>2
<1>4. AtWpos(s, i) = [fseek(s, f, v) EXCEPT !.file[i].wpos = v]
  BY DEF AtWpos
<1> HIDE DEF v, w, e
<1>5. AtWpos(s, i) = u
  BY <1>3, <1>4
<1>6. Kept(s, t) /\ t.data = s.data /\ t.file = s.file /\ t.fp[f].pos = w
  BY <1>1, <1>3, SeekDoes
<1> HIDE DEF t
<1>7. TableSound(N, t, {}) /\ i \in Named(t)
  BY <1>6, KeptLive
<1>8. /\ Moves(t, u, i) /\ u.data = t.data /\ u.fp = t.fp /\ Failed(u, i) = Failed(t, i)
      /\ u.file[i].rpos = t.file[i].rpos /\ u.file[i].wpos = w
  BY <1>3, <1>7, WposDoes
<1> HIDE DEF u
<1>9. Moves(s, u, i)
  BY <1>6, <1>8, SameTableMoves, MovesThen
<1>10. Failed(u, i) = Failed(s, i)
  BY <1>6, <1>8 DEF Failed
<1>11. /\ u.data = s.data /\ u.file[i].rpos = s.file[i].rpos /\ u.fp[f].pos = w
  BY <1>6, <1>8
<1> QED
  BY <1>3, <1>5, <1>8, <1>9, <1>10, <1>11 DEF w, e

-----------------------------------------------------------------------------
(* Lines.                                                                   *)

LEMMA MinIs ==
  ASSUME NEW T
  PROVE  P!Min(T) = Min(T)
  BY Zenon DEF Min, P!Min

(* A line ends at the first end of a line, or where the characters end.     *)
LEMMA AfterIs ==
  ASSUME NEW c \in Seq(Chars), NEW p \in Nat, p < Len(c)
  PROVE  LET q == P!After(c, p)
         IN  /\ q \in p + 1 .. Len(c) /\ (c[q] = LF \/ q = Len(c))
             /\ \A k \in p + 1 .. q - 1 : c[k] # LF
<1> DEFINE ends == {i \in p + 1 .. Len(c) : c[i] = LF}
           T == ends \union {Len(c)}
           q == P!After(c, p)
<1>0. Len(c) \in Nat
  BY LenProperties
<1>1. q = Min(T)
  <2>1. q = P!Min(T)
    BY <1>0 DEF P!After, LF
  <2> HIDE DEF T
  <2> QED
    BY <2>1, MinIs
<1>2. T \subseteq Nat /\ T # {}
  BY <1>0
<1>3. q \in T /\ \A m \in T : q <= m
  <2> HIDE DEF T
  <2> QED
    BY <1>1, <1>2, LeastNat
<1> HIDE DEF q
<1>4. q \in p + 1 .. Len(c) /\ (c[q] = LF \/ q = Len(c))
  BY <1>0, <1>3
<1>5. \A k \in p + 1 .. q - 1 : k \in p + 1 .. Len(c) /\ k < q
  BY <1>0, <1>4
<1>6. \A k \in p + 1 .. q - 1 : c[k] # LF
  BY <1>0, <1>3, <1>4, <1>5
<1> QED
  BY <1>4, <1>6 DEF q

LEMMA AfterEnd ==
  ASSUME NEW c \in Seq(Chars), NEW p \in Nat, p >= Len(c)
  PROVE  P!After(c, p) = p
  BY DEF P!After

LEMMA LineEndIs ==
  ASSUME NEW c \in Seq(Chars), NEW p \in Nat
  PROVE  LET e == Min(LineEnds(c, p))
         IN  /\ e \in Nat
             /\ p >= Len(c) => e = p + 1
             /\ p < Len(c) => /\ Min({e, Len(c)}) = P!After(c, p)
                              /\ c[P!After(c, p)] = LF => e = P!After(c, p)
<1> DEFINE e == Min(LineEnds(c, p))
           q == P!After(c, p)
<1>0. Len(c) \in Nat
  BY LenProperties
<1>1. Max({p, Len(c)}) = IF p >= Len(c) THEN p ELSE Len(c)
  BY <1>0, GreaterOf
<1>2. LineEnds(c, p) \subseteq Nat /\ LineEnds(c, p) # {}
  BY <1>0, <1>1 DEF LineEnds
<1>3. e \in LineEnds(c, p) /\ \A m \in LineEnds(c, p) : e <= m
  BY <1>2, LeastNat
<1>4. e \in Nat
  BY <1>2, <1>3
<1> HIDE DEF e
<1>5. CASE p >= Len(c)
  <2>1. LineEnds(c, p) = {p + 1}
    BY <1>0, <1>1, <1>5 DEF LineEnds
  <2> QED
    BY <1>3, <1>4, <1>5, <2>1 DEF e
<1>6. CASE p < Len(c)
  <2>1. /\ q \in p + 1 .. Len(c) /\ (c[q] = LF \/ q = Len(c))
        /\ \A k \in p + 1 .. q - 1 : c[k] # LF
    BY <1>6, AfterIs
  <2> HIDE DEF q
  <2>2. \A m : m \in LineEnds(c, p) <=> (m \in p + 1 .. Len(c) /\ c[m] = LF) \/ m = Len(c) + 1
    BY <1>0, <1>1, <1>6 DEF LineEnds
  <2>3. CASE c[q] = LF
    <3>1. q \in LineEnds(c, p) /\ q \in Nat /\ q <= Len(c)
      BY <1>0, <2>1, <2>2, <2>3
    <3>2. e <= q
      BY <1>3, <3>1
    <3>3. e \in p + 1 .. Len(c) /\ c[e] = LF
      BY <1>0, <1>3, <1>4, <2>2, <3>1, <3>2
    <3>4. e = q
      <4>1. ~ (e < q)
        BY <2>1, <3>1, <3>3
      <4> QED
        BY <1>4, <3>1, <3>2, <4>1
    <3>5. Min({e, Len(c)}) = q
      BY <1>0, <1>4, <3>1, <3>4, LesserOf
    <3> QED
      BY <1>4, <1>6, <3>4, <3>5, <1>0 DEF e, q
  <2>4. CASE c[q] # LF
    <3>1. q = Len(c)
      BY <2>1, <2>4
    <3>2. e = Len(c) + 1
      <4>1. ~ (e \in p + 1 .. Len(c) /\ c[e] = LF)
        BY <1>0, <1>4, <2>1, <2>4, <3>1
      <4> QED
        BY <1>3, <2>2, <4>1
    <3>3. Min({e, Len(c)}) = Len(c)
      BY <1>0, <3>2, LesserOf
    <3> QED
      BY <1>4, <1>6, <2>4, <3>1, <3>3, <1>0 DEF e, q
  <2> QED
    BY <2>3, <2>4
<1> QED
  BY <1>0, <1>5, <1>6

(* A line is read.                                                          *)
LEMMA GetsDoes ==
  ASSUME NEW N, NEW s, TableSound(N, s, {}), NEW f \in DOMAIN s.fp, s.fp[f].mode \notin {"w", "a"}
  PROVE  LET c == Content(s, f)
             p == s.fp[f].pos
             got == fgets(s, f)
             q == P!After(c, p)
         IN  /\ Kept(s, got.s) /\ got.s.data = s.data /\ got.s.file = s.file
             /\ got.s.fp[f].pos = q /\ got.text = SubSeq(c, p + 1, q) /\ q \in Nat /\ p <= q
             /\ p >= Len(c) => q = p /\ got.text = << >> /\ got.s.fp[f].eof
             /\ p < Len(c) => /\ p < q /\ q <= Len(c) /\ got.text # << >> /\ got.text \in Seq(Chars)
                              /\ Len(got.text) = q - p /\ Last(got.text) = c[q]
                              /\ c[q] = LF => (got.s.fp[f].eof <=> s.fp[f].eof)
<1> DEFINE c == Content(s, f)
           p == s.fp[f].pos
           e == Min(LineEnds(c, p))
           n == e - p
           q == P!After(c, p)
           got == fgets(s, f)
<1>0. c \in Seq(Chars) /\ Len(c) \in Nat /\ p \in Nat /\ DOMAIN c = 1 .. Len(c)
  <2>1. c \in Seq(Chars) /\ Len(c) \in Nat /\ p \in Nat
    BY ContentIs, Parts
  <2> HIDE DEF c, p
  <2> QED
    BY <2>1
<1> HIDE DEF c, p
<1>1. e \in Nat /\ (p >= Len(c) => e = p + 1) /\ (p < Len(c) => Min({e, Len(c)}) = q /\ (c[q] = LF => e = q))
  BY <1>0, LineEndIs
<1> HIDE DEF e
<1>2. n \in Int /\ p + n = e
  BY <1>0, <1>1
<1>3. got = fread(s, f, n)
  BY DEF fgets, c, p, e
<1> HIDE DEF n, got
<1>4. /\ Kept(s, got.s) /\ got.s.data = s.data /\ got.s.file = s.file
      /\ got.text = Next_n(s, f, n) /\ got.text \in Seq(Chars)
      /\ got.s.fp[f].pos = p + Len(got.text)
      /\ got.s.fp[f].eof <=> s.fp[f].eof \/ Len(got.text) < n
  BY <1>2, <1>3, ReadDoes DEF p
<1>5. got.text = SubSeq(c, p + 1, Min({e, Len(c)}))
  BY <1>2, <1>4 DEF Next_n, c, p
<1>6. CASE p >= Len(c)
  <2>1. q = p /\ e = p + 1 /\ n = 1
    BY <1>0, <1>1, <1>2, <1>6, AfterEnd
  <2>2. Min({e, Len(c)}) = Len(c)
    BY <1>0, <1>6, <2>1, LesserOf
  <2>3. got.text = << >> /\ SubSeq(c, p + 1, q) = << >>
    BY <1>0, <1>5, <1>6, <2>1, <2>2, SubSeqEmpty
  <2>4. Len(got.text) = 0
    BY <2>3
  <2>5. got.s.fp[f].pos = q /\ got.s.fp[f].eof
    BY <1>0, <1>4, <2>1, <2>4
  <2> HIDE DEF q
  <2> QED
    BY <1>0, <1>4, <1>6, <2>1, <2>3, <2>5 DEF q, c, p, got
<1>7. CASE p < Len(c)
  <2>1. q \in p + 1 .. Len(c)
    BY <1>0, <1>7, AfterIs
  <2>2. Min({e, Len(c)}) = q
    BY <1>1, <1>7
  <2> HIDE DEF q
  <2>3. got.text = SubSeq(c, p + 1, q)
    BY <1>5, <2>2
  <2>4. \A i \in p + 1 .. q : c[i] \in Chars
    BY <1>0, <2>1
  <2>5. /\ Len(got.text) = q - p
        /\ \A i \in 1 .. q - p : got.text[i] = c[p + i]
    <3> DEFINE m == p + 1
    <3>1. m \in Int /\ q \in Int /\ m <= q /\ q - m + 1 = q - p /\ \A i \in Int : m + i - 1 = p + i
      BY <1>0, <2>1
    <3>2. \A i \in m .. q : c[i] \in Chars
      BY <2>4
    <3> HIDE DEF m
    <3>3. /\ Len(SubSeq(c, m, q)) = q - m + 1
          /\ \A i \in 1 .. q - m + 1 : SubSeq(c, m, q)[i] = c[m + i - 1]
      BY <3>1, <3>2, SubSeqProperties
    <3>4. got.text = SubSeq(c, m, q)
      BY <2>3 DEF m
    <3> DEFINE z == SubSeq(c, m, q)
    <3> HIDE DEF z
    <3>5. Len(z) = q - p /\ \A i \in 1 .. q - p : z[i] = c[m + i - 1]
      BY <3>1, <3>3 DEF z
    <3>6. \A i \in 1 .. q - p : z[i] = c[p + i]
      <4> SUFFICES ASSUME NEW i \in 1 .. q - p
                   PROVE  z[i] = c[p + i]
        OBVIOUS
      <4>1. m + i - 1 = p + i
        BY <1>0 DEF m
      <4>2. z[i] = c[m + i - 1]
        BY <3>5
      <4> QED
        BY <4>1, <4>2
    <3> QED
      BY <3>4, <3>5, <3>6 DEF z
  <2>6. q - p \in Nat /\ q - p > 0 /\ p + (q - p) = q
    BY <1>0, <2>1
  <2>7. got.text # << >>
    BY <2>5, <2>6
  <2>8. Last(got.text) = c[q]
    BY <2>5, <2>6 DEF Last
  <2>9. got.s.fp[f].pos = q
    BY <1>4, <2>5, <2>6
  <2>10. q \in Nat /\ p <= q /\ p < q /\ q <= Len(c) /\ ~(p >= Len(c))
    BY <1>0, <1>7, <2>1
  <2>11. c[q] = LF => (got.s.fp[f].eof <=> s.fp[f].eof)
    <3> SUFFICES ASSUME c[q] = LF
                 PROVE  got.s.fp[f].eof <=> s.fp[f].eof
      OBVIOUS
    <3>1. n = q - p
      BY <1>1, <1>7 DEF n, q
    <3>2. ~ (Len(got.text) < n)
      BY <2>5, <2>6, <3>1
    <3> QED
      BY <1>4, <3>2
  <2> QED
    BY Zenon, <1>4, <2>3, <2>5, <2>7, <2>8, <2>9, <2>10, <2>11 DEF q, c, p, got
<1> QED
  BY <1>0, <1>6, <1>7

(* How many lines end among the first p characters.                         *)
Ends(c, a, b) == {i \in a .. b : c[i] = LF}

LEMMA BeforeIs ==
  ASSUME NEW c, NEW p
  PROVE  P!Before(c, p) = Cardinality(Ends(c, 1, p))
  BY Zenon DEF P!Before, P!Cardinality, Cardinality, Ends, LF

LEMMA EndsFinite ==
  ASSUME NEW c, NEW a \in Int, NEW b \in Int
  PROVE  /\ IsFiniteSet(Ends(c, a, b)) /\ Cardinality(Ends(c, a, b)) \in Nat
         /\ a <= b => Cardinality(Ends(c, a, b)) <= b - a + 1
<1>1. IsFiniteSet(a .. b) /\ Cardinality(a .. b) = IF a > b THEN 0 ELSE b - a + 1
  BY FS_Interval
<1>2. Ends(c, a, b) \in SUBSET (a .. b)
  BY DEF Ends
<1>3. IsFiniteSet(Ends(c, a, b)) /\ Cardinality(Ends(c, a, b)) <= Cardinality(a .. b)
  BY <1>1, <1>2, FS_Subset
<1>4. Cardinality(Ends(c, a, b)) \in Nat
  BY <1>3, FS_CardinalityType
<1> QED
  BY <1>1, <1>3, <1>4

LEMMA EndsSplit ==
  ASSUME NEW c, NEW a \in Int, NEW m \in Int, NEW b \in Int, a <= m + 1, m <= b
  PROVE  Cardinality(Ends(c, a, b)) = Cardinality(Ends(c, a, m)) + Cardinality(Ends(c, m + 1, b))
<1> DEFINE S == Ends(c, a, m)
           T == Ends(c, m + 1, b)
<1>1. IsFiniteSet(S) /\ Cardinality(S) \in Nat
  BY EndsFinite
<1>2. IsFiniteSet(T) /\ Cardinality(T) \in Nat
  <2>1. m + 1 \in Int
    OBVIOUS
  <2> QED
    BY <2>1, EndsFinite
<1>3. S \union T = Ends(c, a, b) /\ S \intersect T = {}
  BY DEF Ends
<1> HIDE DEF S, T
<1>4. Cardinality(S \union T) = Cardinality(S) + Cardinality(T) - Cardinality(S \intersect T)
  BY <1>1, <1>2, FS_Union
<1>5. Cardinality(S \intersect T) = 0
  BY <1>3, FS_EmptySet
<1>6. Cardinality(Ends(c, a, b)) = Cardinality(S) + Cardinality(T)
  <2>1. \A u, v, w, x : u \in Nat /\ v \in Nat /\ x = 0 /\ w = u + v - x => w = u + v
    OBVIOUS
  <2>2. Cardinality(S \union T) = Cardinality(S) + Cardinality(T)
    BY Zenon, <1>1, <1>2, <1>4, <1>5, <2>1
  <2> QED
    BY Zenon, <1>3, <2>2
<1> QED
  BY <1>6 DEF S, T

(* The number grows with the characters, and by the ends among them.        *)
LEMMA BeforeGrows ==
  ASSUME NEW c, NEW p \in Nat, NEW q \in Nat, p <= q
  PROVE  /\ P!Before(c, p) \in Nat /\ P!Before(c, q) \in Nat /\ P!Before(c, p) <= P!Before(c, q)
         /\ P!Before(c, q) = P!Before(c, p) + Cardinality(Ends(c, p + 1, q))
         /\ P!Before(c, p) <= p
<1>1. Cardinality(Ends(c, 1, q)) = Cardinality(Ends(c, 1, p)) + Cardinality(Ends(c, p + 1, q))
  BY EndsSplit
<1>2. /\ Cardinality(Ends(c, 1, q)) \in Nat /\ Cardinality(Ends(c, 1, p)) \in Nat
  BY EndsFinite
<1>3. Cardinality(Ends(c, p + 1, q)) \in Nat
  <2>1. p + 1 \in Int
    OBVIOUS
  <2> QED
    BY <2>1, EndsFinite
<1>4. Cardinality(Ends(c, 1, p)) <= p
  <2>1. CASE p = 0
    <3>1. Ends(c, 1, p) = {}
      BY <2>1 DEF Ends
    <3> QED
      BY <2>1, <3>1, FS_EmptySet
  <2>2. CASE p # 0
    <3>1. 1 <= p
      BY <2>2
    <3> QED
      BY <3>1, EndsFinite
  <2> QED
    BY <2>1, <2>2
<1>5. P!Before(c, p) = Cardinality(Ends(c, 1, p)) /\ P!Before(c, q) = Cardinality(Ends(c, 1, q))
  BY BeforeIs
<1> QED
  BY <1>1, <1>2, <1>3, <1>4, <1>5

LEMMA BeforeNone ==
  ASSUME NEW c
  PROVE  P!Before(c, 0) = 0
<1>1. Ends(c, 1, 0) = {}
  BY DEF Ends
<1> QED
  BY <1>1, BeforeIs, FS_EmptySet

(* Behind a line there is one more, if it ends.                             *)
LEMMA BeforeAfter ==
  ASSUME NEW c \in Seq(Chars), NEW p \in Nat, p < Len(c)
  PROVE  LET q == P!After(c, p)
         IN  P!Before(c, q) = P!Before(c, p) + IF c[q] = LF THEN 1 ELSE 0
<1> DEFINE q == P!After(c, p)
<1>1. /\ q \in p + 1 .. Len(c) /\ (c[q] = LF \/ q = Len(c))
      /\ \A k \in p + 1 .. q - 1 : c[k] # LF
  BY AfterIs
<1>2. Len(c) \in Nat
  BY LenProperties
<1> HIDE DEF q
<1>3. q \in Nat /\ p <= q
  BY <1>1, <1>2
<1>4. P!Before(c, p) \in Nat /\ P!Before(c, q) = P!Before(c, p) + Cardinality(Ends(c, p + 1, q))
  BY <1>3, BeforeGrows
<1>5. CASE c[q] = LF
  <2>1. Ends(c, p + 1, q) = {q}
    BY <1>1, <1>3, <1>5 DEF Ends
  <2>2. Cardinality(Ends(c, p + 1, q)) = 1
    BY <2>1, FS_Singleton
  <2> QED
    BY <1>4, <1>5, <2>2 DEF q
<1>6. CASE c[q] # LF
  <2>1. Ends(c, p + 1, q) = {}
    BY <1>1, <1>3, <1>6 DEF Ends
  <2>2. Cardinality(Ends(c, p + 1, q)) = 0
    BY <2>1, FS_EmptySet
  <2> QED
    BY <1>4, <1>6, <2>2 DEF q
<1> QED
  BY <1>5, <1>6

(* After k lines that were skipped from where stream f was in s: each of    *)
(* them ended, or the characters did.                                       *)
LastLine(c, p) == IF p < Len(c) /\ c[Len(c)] # LF THEN 1 ELSE 0
Skipped(c, p, q, more, n, k) ==
  /\ more => /\ n = k /\ (k = 0 => q = p)
             /\ k # 0 => p < q /\ q <= Len(c) /\ c[q] = LF /\ P!Before(c, q) = P!Before(c, p) + k
  /\ ~ more => /\ k # 0 /\ (p > Len(c) => n = 0)
               /\ p <= Len(c) => /\ n = P!Before(c, Len(c)) - P!Before(c, p) + LastLine(c, p)
                                 /\ P!Before(c, Len(c)) - P!Before(c, p) < k
SkippedTo(s, f, l, k) ==
  /\ Kept(s, l.s) /\ l.s.data = s.data /\ l.s.file = s.file
  /\ Skipped(Content(s, f), s.fp[f].pos, l.s.fp[f].pos, l.more, l.n, k)

LEMMA SkippedOn ==
  ASSUME NEW c \in Seq(Chars), NEW p \in Nat, NEW q \in Nat, NEW n, NEW k \in Nat, NEW more, more,
         Skipped(c, p, q, more, n, k), NEW x, x = P!After(c, q), NEW m,
         m = IF q >= Len(c) THEN n ELSE n + 1, NEW on, on <=> q < Len(c) /\ c[x] = LF
  PROVE  Skipped(c, p, x, on, m, k + 1)
<1>0. Len(c) \in Nat
  BY LenProperties
<1>1. n = k /\ (k = 0 => q = p)
      /\ (k # 0 => p < q /\ q <= Len(c) /\ c[q] = LF /\ P!Before(c, q) = P!Before(c, p) + k)
  BY DEF Skipped
<1>2. p <= q /\ P!Before(c, p) \in Nat /\ P!Before(c, q) \in Nat /\ P!Before(c, q) = P!Before(c, p) + k
  <2>1. p <= q
    BY <1>1
  <2> QED
    BY <1>1, <2>1, BeforeGrows
<1>3. CASE q >= Len(c)
  <2>1. x = q /\ m = k /\ ~ on
    BY <1>0, <1>1, <1>3, AfterEnd
  <2>2. p > Len(c) => m = 0
    BY <1>0, <1>1, <2>1
  <2>3. p <= Len(c) => Len(c) = q
    BY <1>0, <1>1, <1>3
  <2>4. p <= Len(c) => LastLine(c, p) = 0
    BY <1>0, <1>1, <1>3 DEF LastLine
  <2>5. p <= Len(c) => /\ m = P!Before(c, Len(c)) - P!Before(c, p) + LastLine(c, p)
                       /\ P!Before(c, Len(c)) - P!Before(c, p) < k + 1
    <3> SUFFICES ASSUME p <= Len(c)
                 PROVE  /\ m = P!Before(c, Len(c)) - P!Before(c, p) + LastLine(c, p)
                        /\ P!Before(c, Len(c)) - P!Before(c, p) < k + 1
      OBVIOUS
    <3>1. P!Before(c, Len(c)) = P!Before(c, p) + k /\ LastLine(c, p) = 0
      BY <1>2, <2>3, <2>4
    <3> QED
      BY <1>2, <2>1, <3>1
  <2>6. k + 1 # 0
    OBVIOUS
  <2> QED
    BY <2>1, <2>2, <2>5, <2>6 DEF Skipped
<1>4. CASE q < Len(c)
  <2>1. x \in q + 1 .. Len(c) /\ (c[x] = LF \/ x = Len(c))
    BY <1>4, AfterIs
  <2>2. P!Before(c, x) = P!Before(c, q) + IF c[x] = LF THEN 1 ELSE 0
    BY <1>4, BeforeAfter
  <2>3. m = k + 1 /\ (on <=> c[x] = LF) /\ k + 1 # 0 /\ p < x /\ x <= Len(c)
    BY <1>0, <1>1, <1>2, <1>4, <2>1
  <2>4. CASE c[x] = LF
    <3>1. P!Before(c, x) = P!Before(c, p) + (k + 1)
      BY <1>2, <2>2, <2>4
    <3> QED
      BY <2>3, <2>4, <3>1 DEF Skipped
  <2>5. CASE c[x] # LF
    <3>1. x = Len(c) /\ LastLine(c, p) = 1
      BY <2>1, <2>3, <2>5 DEF LastLine
    <3>2. P!Before(c, Len(c)) = P!Before(c, p) + k
      BY <1>2, <2>2, <2>5, <3>1
    <3>3. /\ m = P!Before(c, Len(c)) - P!Before(c, p) + LastLine(c, p)
          /\ P!Before(c, Len(c)) - P!Before(c, p) < k + 1
      BY <1>2, <2>3, <3>1, <3>2
    <3>4. ~ (p > Len(c))
      <4>1. x \in Nat
        BY <1>0, <2>1
      <4> QED
        BY <1>0, <2>3, <4>1
    <3> QED
      BY <2>3, <2>5, <3>3, <3>4 DEF Skipped
  <2> QED
    BY <2>4, <2>5
<1> QED
  BY <1>0, <1>3, <1>4

LEMMA SkipStep ==
  ASSUME NEW N, NEW s, TableSound(N, s, {}), NEW f \in DOMAIN s.fp, s.fp[f].mode \notin {"w", "a"},
         NEW k \in Nat, NEW l, SkippedTo(s, f, l, k)
  PROVE  SkippedTo(s, f, NextLine(f, l), k + 1)
<1> DEFINE c == Content(s, f)
           p == s.fp[f].pos
           u == l.s
           q == u.fp[f].pos
           y == NextLine(f, l)
<1>1. Kept(s, u) /\ u.data = s.data /\ u.file = s.file /\ Skipped(c, p, q, l.more, l.n, k)
  BY DEF SkippedTo
<1>2. TableSound(N, u, {}) /\ f \in DOMAIN u.fp /\ u.fp[f].mode \notin {"w", "a"} /\ Content(u, f) = c
  <2>1. TableSound(N, u, {})
    BY <1>1, KeptSound
  <2>2. f \in DOMAIN u.fp /\ u.fp[f].mode = s.fp[f].mode /\ u.fp[f].name = s.fp[f].name
    BY <1>1 DEF Kept
  <2> QED
    BY <1>1, <2>1, <2>2 DEF Content
<1>3. c \in Seq(Chars) /\ p \in Nat /\ q \in Nat
  BY <1>2, ContentIs, Parts
<1> HIDE DEF c, p, q, u
<1>4. CASE l.more
  <2> DEFINE got == fgets(u, f)
             x == P!After(c, q)
  <2>1. /\ Kept(u, got.s) /\ got.s.data = u.data /\ got.s.file = u.file
        /\ got.s.fp[f].pos = x /\ x \in Nat
        /\ q >= Len(c) => got.text = << >>
        /\ q < Len(c) => got.text # << >> /\ Last(got.text) = c[x]
    BY <1>2, GetsDoes DEF q
  <2>2. y = [s |-> got.s, n |-> IF got.text = << >> THEN l.n ELSE l.n + 1,
             more |-> got.text # << >> /\ Last(got.text) = LF]
    BY <1>4, Zenon DEF NextLine, Lskipline, u
  <2> HIDE DEF got, y, x
  <2>3. y.s = got.s /\ y.n = (IF got.text = << >> THEN l.n ELSE l.n + 1)
        /\ (y.more <=> got.text # << >> /\ Last(got.text) = LF)
    BY <2>2
  <2>4. Len(c) \in Nat
    BY <1>3, LenProperties
  <2>5. /\ y.n = IF q >= Len(c) THEN l.n ELSE l.n + 1
        /\ y.more <=> q < Len(c) /\ c[x] = LF
    BY <1>3, <2>1, <2>3, <2>4
  <2>6. Skipped(c, p, x, y.more, y.n, k + 1)
    BY <1>1, <1>3, <1>4, <2>5, SkippedOn DEF x
  <2>7. Kept(s, y.s) /\ y.s.data = s.data /\ y.s.file = s.file /\ y.s.fp[f].pos = x
    BY <1>1, <2>1, <2>3, KeptThen
  <2> QED
    BY <2>6, <2>7 DEF SkippedTo, y, c, p
<1>5. CASE ~ l.more
  <2>1. y = l
    BY <1>5 DEF NextLine
  <2>2. Skipped(c, p, q, l.more, l.n, k + 1)
    <3>0. Len(c) \in Nat
      BY <1>3, LenProperties
    <3>1. /\ k # 0 /\ (p > Len(c) => l.n = 0)
          /\ p <= Len(c) => /\ l.n = P!Before(c, Len(c)) - P!Before(c, p) + LastLine(c, p)
                            /\ P!Before(c, Len(c)) - P!Before(c, p) < k
      BY <1>1, <1>5 DEF Skipped
    <3>2. p <= Len(c) => P!Before(c, p) \in Nat /\ P!Before(c, Len(c)) \in Nat
      BY <1>3, <3>0, BeforeGrows
    <3>3. k + 1 # 0 /\ (p <= Len(c) => P!Before(c, Len(c)) - P!Before(c, p) < k + 1)
      BY <3>1, <3>2
    <3> QED
      BY <1>5, <3>1, <3>3 DEF Skipped
  <2> QED
    BY <1>1, <2>1, <2>2 DEF SkippedTo, c, p, q, u
<1> QED
  BY <1>4, <1>5


(* However many.                                                            *)
LEMMA SkipDoes ==
  ASSUME NEW N, NEW s, TableSound(N, s, {}), NEW f \in DOMAIN s.fp, s.fp[f].mode \notin {"w", "a"},
         NEW m \in Nat
  PROVE  SkippedTo(s, f, SkipLines(s, f, m), m)
<1>1. PICK l : /\ SkipLines(s, f, m) = l[m] /\ l[0] = Start(s)
               /\ \A j \in 1 .. m : l[j] = NextLine(f, l[j - 1])
  BY SkipSteps
<1>2. \A j \in 0 .. m : SkippedTo(s, f, l[j], j)
  <2> DEFINE T == {j \in 0 .. m : ~ SkippedTo(s, f, l[j], j)}
  <2> SUFFICES ASSUME T # {} PROVE FALSE
    OBVIOUS
  <2>1. T \subseteq Nat
    OBVIOUS
  <2> HIDE DEF T
  <2>2. PICK k \in T : \A j \in T : k <= j
    BY <2>1, LeastNat
  <2>3. k \in 0 .. m /\ ~ SkippedTo(s, f, l[k], k)
    BY DEF T
  <2>4. k # 0
    <3> DEFINE x == Start(s)
    <3>1. x.s = s /\ x.n = 0
      BY DEF Start
    <3>2. x.more
      BY Zenon DEF Start
    <3>3. Kept(s, s)
      BY KeptSelf
    <3> HIDE DEF x
    <3>4. Skipped(Content(s, f), s.fp[f].pos, x.s.fp[f].pos, x.more, x.n, 0)
      BY <3>1, <3>2 DEF Skipped
    <3>5. SkippedTo(s, f, x, 0)
      BY <3>1, <3>3, <3>4 DEF SkippedTo
    <3> QED
      BY <1>1, <2>3, <3>5 DEF x
  <2>5. k - 1 \in 0 .. m /\ k \in 1 .. m /\ k - 1 \in Nat /\ (k - 1) + 1 = k
    BY <2>3, <2>4
  <2>6. k - 1 \notin T
    BY <2>2, <2>5
  <2>7. SkippedTo(s, f, l[k - 1], k - 1)
    BY <2>5, <2>6 DEF T
  <2>8. SkippedTo(s, f, NextLine(f, l[k - 1]), (k - 1) + 1)
    BY <2>5, <2>7, SkipStep
  <2> QED
    BY <1>1, <2>3, <2>5, <2>8
<1> QED
  BY <1>1, <1>2

(* Line n is where the reference says, or nowhere.                          *)
LEMMA LineAtIs ==
  ASSUME NEW c \in Seq(Chars), NEW n \in Nat \ {0}, NEW q \in Nat, NEW m, NEW more,
         Skipped(c, 0, q, more, m, n - 1)
  PROVE  /\ more => q \in Nat /\ q \in P!LineAt(c, n)
         /\ ~ more => P!LineAt(c, n) = {}
<1>0. Len(c) \in Nat /\ n - 1 \in Nat /\ P!Before(c, 0) = 0
  BY LenProperties, BeforeNone
<1>1. ASSUME more
      PROVE  q \in Nat /\ q \in P!LineAt(c, n)
  <2>1. q \in 0 .. Len(c) /\ (q = 0 \/ c[q] = LF) /\ P!Before(c, q) = n - 1
    <3>1. CASE n - 1 = 0
      BY <1>0, <1>1, <3>1 DEF Skipped
    <3>2. CASE n - 1 # 0
      <4>1. 0 < q /\ q <= Len(c) /\ c[q] = LF /\ P!Before(c, q) = P!Before(c, 0) + (n - 1)
        BY <1>1, <3>2 DEF Skipped
      <4> QED
        BY <1>0, <4>1
    <3> QED
      BY <3>1, <3>2
  <2> QED
    BY <1>0, <2>1 DEF P!LineAt, LF
<1>2. ASSUME ~ more
      PROVE  P!LineAt(c, n) = {}
  <2>1. P!Before(c, Len(c)) - P!Before(c, 0) < n - 1
    BY <1>0, <1>2 DEF Skipped
  <2>2. P!Before(c, Len(c)) < n - 1
    <3>1. P!Before(c, Len(c)) \in Nat
      BY <1>0, BeforeGrows
    <3> QED
      BY <1>0, <2>1, <3>1
  <2>3. \A p \in 0 .. Len(c) : P!Before(c, p) # n - 1
    <3> SUFFICES ASSUME NEW p \in 0 .. Len(c)
                 PROVE  P!Before(c, p) # n - 1
      OBVIOUS
    <3>1. P!Before(c, p) \in Nat /\ P!Before(c, Len(c)) \in Nat /\ P!Before(c, p) <= P!Before(c, Len(c))
      BY <1>0, BeforeGrows
    <3> QED
      BY <2>2, <3>1
  <2> QED
    BY <2>3 DEF P!LineAt
<1> QED
  BY <1>1, <1>2

LEMMA LineOffsetDoes ==
  ASSUME NEW N, NEW s, TableSound(N, s, {}), NEW i \in Named(s), NEW n \in Nat \ {0},
         s.fp[s.file[i].f].mode \notin {"w", "a"}
  PROVE  LET l == line_offset(s, i, n)
             at == P!LineAt(Content(s, s.file[i].f), n)
         IN  /\ Kept(s, l.s) /\ l.s.data = s.data /\ l.s.file = s.file
             /\ \/ l.off \in Nat /\ l.off \in at
                \/ l.off = -1 /\ at = {}
<1> DEFINE f == s.file[i].f
           r == fseek(s, f, 0)
           l == SkipLines(r, f, n - 1)
           c == Content(s, f)
<1>1. f \in DOMAIN s.fp /\ 0 \in Nat /\ n - 1 \in Nat
  BY Live
<1>2. Kept(s, r) /\ r.data = s.data /\ r.file = s.file /\ r.fp[f].pos = 0
  BY <1>1, SeekDoes
<1> HIDE DEF r
<1>3. TableSound(N, r, {}) /\ f \in DOMAIN r.fp
  BY <1>2, KeptLive
<1>4. r.fp[f].mode = s.fp[f].mode /\ Content(r, f) = c
  BY <1>1, <1>2 DEF Kept, Content
<1>5. SkippedTo(r, f, l, n - 1)
  BY <1>1, <1>3, <1>4, SkipDoes
<1>6. line_offset(s, i, n) = [s |-> l.s, off |-> IF l.more THEN l.s.fp[f].pos ELSE -1]
  BY DEF line_offset, r
<1> HIDE DEF l
<1>7. Kept(s, l.s) /\ l.s.data = s.data /\ l.s.file = s.file
      /\ Skipped(c, 0, l.s.fp[f].pos, l.more, l.n, n - 1)
  BY <1>2, <1>4, <1>5, KeptThen DEF SkippedTo
<1>8. c \in Seq(Chars)
  BY <1>1, ContentIs
<1> DEFINE q == l.s.fp[f].pos
<1>11. q \in Nat
  <2>1. TableSound(N, l.s, {}) /\ f \in DOMAIN l.s.fp
    BY <1>7, KeptLive
  <2> QED
    BY <2>1, Parts
<1>12. Skipped(c, 0, q, l.more, l.n, n - 1)
  BY <1>7
<1> HIDE DEF c, q
<1>9. /\ l.more => q \in Nat /\ q \in P!LineAt(c, n)
      /\ ~ l.more => P!LineAt(c, n) = {}
  BY <1>8, <1>11, <1>12, LineAtIs
<1> DEFINE o == line_offset(s, i, n)
<1>10. o.s = l.s /\ o.off = IF l.more THEN q ELSE -1
  BY <1>6 DEF q
<1> HIDE DEF o
<1> QED
  BY <1>7, <1>9, <1>10 DEF o, c


(* What is read from p on.                                                  *)
LEMMA RestIs ==
  ASSUME NEW c \in Seq(Chars), NEW p \in Nat, NEW q \in Nat, q <= Len(c)
  PROVE  LET z == SubSeq(c, p + 1, q)
         IN  /\ z \in Seq(Chars) /\ Len(z) = (IF p <= q THEN q - p ELSE 0)
             /\ \A i \in 1 .. q - p : z[i] = c[p + i]
             /\ p >= q => z = << >>
<1> DEFINE m == p + 1
           z == SubSeq(c, m, q)
<1>0. Len(c) \in Nat /\ \A i \in 1 .. Len(c) : c[i] \in Chars
  BY LenProperties
<1>1. m \in Int /\ (m <= q => q - m + 1 = q - p) /\ (m <= q <=> p < q) /\ \A i \in m .. q : c[i] \in Chars
  BY <1>0
<1>2. \A i \in 1 .. q - p : m + i - 1 = p + i /\ i \in 1 .. q - m + 1
  BY <1>0
<1> HIDE DEF m
<1>3. /\ z \in Seq(Chars) /\ Len(z) = (IF m <= q THEN q - m + 1 ELSE 0)
      /\ \A i \in 1 .. q - m + 1 : z[i] = c[m + i - 1]
  BY <1>1, SubSeqProperties
<1>4. p >= q => z = << >>
  BY <1>1, SubSeqEmpty
<1> HIDE DEF z
<1>5. Len(z) = (IF p <= q THEN q - p ELSE 0)
  BY <1>1, <1>3
<1>6. \A i \in 1 .. q - p : z[i] = c[p + i]
  <2> SUFFICES ASSUME NEW i \in 1 .. q - p
               PROVE  z[i] = c[p + i]
    OBVIOUS
  <2>1. m + i - 1 = p + i /\ i \in 1 .. q - m + 1
    BY <1>2
  <2>2. z[i] = c[m + i - 1]
    BY <1>3, <2>1
  <2> QED
    BY <2>1, <2>2
<1> QED
  BY <1>3, <1>4, <1>5, <1>6 DEF z, m

(* The ends of lines behind p are those of what is left.                    *)
LEMMA RestEnds ==
  ASSUME NEW c \in Seq(Chars), NEW p \in Nat, p < Len(c)
  PROVE  LET z == SubSeq(c, p + 1, Len(c))
         IN  P!Before(z, Len(z)) = P!Before(c, Len(c)) - P!Before(c, p)
<1> DEFINE z == SubSeq(c, p + 1, Len(c))
           k == Len(c) - p
           S == Ends(z, 1, k)
           T == Ends(c, p + 1, Len(c))
           b == [i \in S |-> i + p]
<1>0. Len(c) \in Nat /\ k \in Nat
  BY LenProperties
<1>1. Len(z) = k /\ \A i \in 1 .. k : z[i] = c[p + i]
  <2>1. Len(c) \in Nat /\ Len(c) <= Len(c) /\ p <= Len(c)
    BY <1>0
  <2> QED
    BY <2>1, RestIs
<1> HIDE DEF z
<1>2. b \in [S -> T]
  BY <1>0, <1>1 DEF Ends
<1>3. \A i, j \in S : b[i] = b[j] => i = j
  BY <1>0 DEF Ends
<1>4. \A t \in T : \E i \in S : b[i] = t
  <2> SUFFICES ASSUME NEW t \in T
               PROVE  \E i \in S : b[i] = t
    OBVIOUS
  <2>1. t - p \in 1 .. k /\ c[t] = LF /\ p + (t - p) = t /\ (t - p) + p = t
    BY <1>0 DEF Ends
  <2>2. t - p \in S
    BY <1>1, <2>1 DEF Ends
  <2> QED
    BY <2>1, <2>2
<1>5. ExistsBijection(S, T)
  <2> HIDE DEF S, T, b
  <2>1. b \in Bijection(S, T)
    BY <1>2, <1>3, <1>4 DEF Bijection, Injection, Surjection, IsInjective
  <2> QED
    BY <2>1 DEF ExistsBijection
<1>6. IsFiniteSet(S) /\ Cardinality(S) \in Nat
  BY <1>0, EndsFinite
<1>7. Cardinality(T) = Cardinality(S)
  <2> HIDE DEF S, T
  <2> QED
    BY <1>5, <1>6, FS_Bijection
<1>8. P!Before(z, k) = Cardinality(S)
  BY BeforeIs
<1>9. /\ P!Before(c, p) \in Nat /\ P!Before(c, Len(c)) \in Nat
      /\ P!Before(c, Len(c)) = P!Before(c, p) + Cardinality(T)
  <2>1. p <= Len(c)
    BY <1>0
  <2> QED
    BY <1>0, <2>1, BeforeGrows
<1> HIDE DEF S, T, k
<1>10. P!Before(z, Len(z)) = P!Before(c, Len(c)) - P!Before(c, p)
  BY <1>1, <1>6, <1>7, <1>8, <1>9
<1> QED
  BY <1>10 DEF z

(* LINES skips all the lines that are left and counts them.                 *)
LEMMA LinesLeft ==
  ASSUME NEW c \in Seq(Chars), NEW p \in Nat, NEW q \in Nat, NEW m, NEW more, NEW k \in Nat,
         Skipped(c, p, q, more, m, k), Len(c) < k
  PROVE  LET z == SubSeq(c, p + 1, Len(c))
             ends == z # << >> /\ z[Len(z)] # LF
         IN  m = P!Before(z, Len(z)) + (IF ends THEN 1 ELSE 0)
<1> DEFINE z == SubSeq(c, p + 1, Len(c))
<1>0. Len(c) \in Nat
  BY LenProperties
<1>1. ~ more
  <2> SUFFICES ASSUME more PROVE FALSE
    OBVIOUS
  <2>1. p < q /\ q <= Len(c) /\ P!Before(c, q) = P!Before(c, p) + k
    BY <1>0 DEF Skipped
  <2>2. P!Before(c, p) \in Nat /\ P!Before(c, q) <= q
    BY <2>1, BeforeGrows
  <2> QED
    BY <1>0, <2>1, <2>2
<1>2. CASE p >= Len(c)
  <2>1. z = << >>
    BY <1>0, <1>2, RestIs
  <2>2. Len(z) = 0 /\ P!Before(z, Len(z)) = 0
    <3>1. Len(z) = 0
      BY <2>1
    <3>2. P!Before(z, 0) = 0
      BY BeforeNone
    <3> HIDE DEF z
    <3> QED
      BY <3>1, <3>2
  <2>3. m = 0
    <3>1. CASE p > Len(c)
      BY <1>1, <3>1 DEF Skipped
    <3>2. CASE p = Len(c)
      <4>1. m = P!Before(c, Len(c)) - P!Before(c, p) + LastLine(c, p)
        BY <1>0, <1>1, <3>2 DEF Skipped
      <4>2. LastLine(c, p) = 0 /\ P!Before(c, p) \in Nat /\ P!Before(c, Len(c)) = P!Before(c, p)
        BY <1>0, <3>2, BeforeGrows DEF LastLine
      <4> QED
        BY <4>1, <4>2
    <3> QED
      BY <1>0, <1>2, <3>1, <3>2
  <2> HIDE DEF z
  <2> QED
    BY <2>1, <2>2, <2>3 DEF z
<1>3. CASE p < Len(c)
  <2>1. m = P!Before(c, Len(c)) - P!Before(c, p) + LastLine(c, p)
    BY <1>0, <1>1, <1>3 DEF Skipped
  <2>2. P!Before(z, Len(z)) = P!Before(c, Len(c)) - P!Before(c, p)
    BY <1>3, RestEnds
  <2>3. Len(z) = Len(c) - p /\ \A i \in 1 .. Len(c) - p : z[i] = c[p + i]
    BY <1>0, <1>3, RestIs
  <2> HIDE DEF z
  <2>4. Len(c) - p \in 1 .. Len(c) - p /\ p + (Len(c) - p) = Len(c)
    BY <1>0, <1>3
  <2>5. z # << >> /\ z[Len(z)] = c[Len(c)]
    BY <2>3, <2>4
  <2>6. LastLine(c, p) = IF z # << >> /\ z[Len(z)] # LF THEN 1 ELSE 0
    BY <1>3, <2>5 DEF LastLine
  <2> QED
    BY <2>1, <2>2, <2>6 DEF z
<1>4. p >= Len(c) \/ p < Len(c)
  BY <1>0
<1> QED
  BY Zenon, <1>2, <1>3, <1>4

(* The bound on the characters of all data sets bounds each of them.        *)
LEMMA ContentFits ==
  ASSUME NEW s, TableSound(Names, s, {}), NEW n \in Names, s.data[n] # Absent,
         Size(s) <= MaxChars, Names \subseteq P!Names
  PROVE  Len(s.data[n]) <= MaxChars
<1> DEFINE c == s.data[n]
           At(m) == {m} \X DOMAIN P!Text(s.data[m])
           f == [m \in Names |-> At(m)]
           T == {At(m) : m \in Names}
<1>1. \A m \in Names : P!Text(s.data[m]) \in Seq(Chars)
  <2> SUFFICES ASSUME NEW m \in Names
               PROVE  P!Text(s.data[m]) \in Seq(Chars)
    OBVIOUS
  <2>1. Sound0(s.data[m])
    BY DEF TableSound, Typed
  <2>2. << >> \in Seq(Chars)
    OBVIOUS
  <2> QED
    BY <2>1, <2>2 DEF Sound0, P!Text, Absent
<1>2. \A m \in Names : DOMAIN P!Text(s.data[m]) = 1 .. Len(P!Text(s.data[m])) /\ Len(P!Text(s.data[m])) \in Nat
  BY <1>1, LenProperties
<1>3. \A m \in Names : IsFiniteSet(At(m)) /\ Cardinality(At(m)) = Len(P!Text(s.data[m]))
  <2> SUFFICES ASSUME NEW m \in Names
               PROVE  IsFiniteSet(At(m)) /\ Cardinality(At(m)) = Len(P!Text(s.data[m]))
    OBVIOUS
  <2> DEFINE D == DOMAIN P!Text(s.data[m])
             k == Len(P!Text(s.data[m]))
  <2>1. k \in Nat /\ D = 1 .. k
    BY <1>2
  <2> HIDE DEF k, D
  <2>2. IsFiniteSet(D) /\ Cardinality(D) = k
    BY <2>1, FS_Interval
  <2>3. IsFiniteSet({m}) /\ Cardinality({m}) = 1
    BY FS_Singleton
  <2>4. IsFiniteSet({m} \X D) /\ Cardinality({m} \X D) = Cardinality({m}) * Cardinality(D)
    BY <2>2, <2>3, FS_Product
  <2>5. 1 * k = k
    BY <2>1
  <2>6. Cardinality({m} \X D) = k
    BY Zenon, <2>2, <2>3, <2>4, <2>5
  <2> QED
    BY Zenon, <2>4, <2>6 DEF D, k
<1>4. IsFiniteSet(Names)
  <2>1. Names \in SUBSET P!Names /\ IsFiniteSet(P!Names)
    BY KindsAssumption DEF P!Names
  <2> QED
    BY <2>1, FS_Subset
<1> HIDE DEF At
<1>5. f \in Surjection(Names, T)
  BY DEF Surjection
<1>6. IsFiniteSet(T)
  <2> HIDE DEF f, T
  <2> QED
    BY <1>4, <1>5, FS_Surjection
<1>7. \A t \in T : IsFiniteSet(t)
  BY <1>3
<1>8. At(n) \in SUBSET (UNION T)
  OBVIOUS
<1>9. Size(s) = Cardinality(UNION T)
  BY DEF Size, At
<1> HIDE DEF T
<1>10. IsFiniteSet(UNION T)
  BY <1>6, <1>7, FS_UNION
<1>11. Cardinality(At(n)) <= Cardinality(UNION T) /\ Cardinality(UNION T) \in Nat
  BY <1>8, <1>10, FS_Subset, FS_CardinalityType
<1>12. P!Text(c) = c
  BY DEF P!Text, Absent
<1>13. Cardinality(At(n)) = Len(c) /\ Len(c) \in Nat
  BY <1>2, <1>3, <1>12
<1> QED
  BY <1>9, <1>11, <1>13, FilesAssumption


(* A line without its end.                                                  *)
Bare(x) == IF x # << >> /\ Last(x) = LF THEN Front(x) ELSE x

LEMMA BareIs ==
  ASSUME NEW c \in Seq(Chars), NEW p \in Nat
  PROVE  LET q == P!After(c, p)
         IN  /\ Bare(SubSeq(c, p + 1, q)) = P!OneLine(c, p) /\ P!OneLine(c, p) \in Seq(Chars)
             /\ p >= Len(c) => P!OneLine(c, p) = << >>
<1> DEFINE q == P!After(c, p)
           x == SubSeq(c, p + 1, q)
<1>0. Len(c) \in Nat
  BY LenProperties
<1>1. CASE p >= Len(c)
  <2>1. q = p
    BY <1>1, AfterEnd
  <2>2. P!OneLine(c, p) = x
    BY <2>1 DEF P!OneLine
  <2>3. x = << >> /\ x \in Seq(Chars)
    <3>1. p < p + 1
      OBVIOUS
    <3>2. SubSeq(c, p + 1, p) = << >>
      BY <3>1, SubSeqEmpty
    <3> HIDE DEF q
    <3> QED
      BY <2>1, <3>2
  <2> HIDE DEF x
  <2>4. Bare(x) = x
    BY <2>3 DEF Bare
  <2> QED
    BY <2>2, <2>3, <2>4 DEF x
<1>2. CASE p < Len(c)
  <2>1. q \in p + 1 .. Len(c)
    BY <1>2, AfterIs
  <2> HIDE DEF q
  <2>2. q \in Nat /\ q <= Len(c) /\ p < q /\ p <= q /\ q - p \in 1 .. q - p /\ p + (q - p) = q
    BY <1>0, <2>1
  <2>3. /\ x \in Seq(Chars) /\ Len(x) = q - p
        /\ \A i \in 1 .. q - p : x[i] = c[p + i]
    BY <2>2, RestIs
  <2>4. x # << >> /\ x[Len(x)] = c[q]
    <3> HIDE DEF x
    <3> QED
      BY <2>2, <2>3
  <2>5. CASE c[q] = LF
    <3>1. P!OneLine(c, p) = SubSeq(c, p + 1, q - 1)
      BY <2>2, <2>5 DEF P!OneLine, q, LF
    <3>2. Bare(x) = SubSeq(x, 1, Len(x) - 1)
      <4> HIDE DEF x
      <4> QED
        BY <2>4, <2>5 DEF Bare, Last, Front
    <3>3. SubSeq(x, 1, Len(x) - 1) = SubSeq(c, p + 1, q - 1)
      <4>1. CASE q = p + 1
        <5>1. SubSeq(c, p + 1, q - 1) = << >>
          BY <2>2, <4>1, SubSeqEmpty
        <5> HIDE DEF x
        <5>2. SubSeq(x, 1, Len(x) - 1) = << >>
          BY <2>2, <2>3, <4>1, SubSeqEmpty
        <5> QED
          BY <5>1, <5>2
      <4>2. CASE q # p + 1
        <5> DEFINE i == p + 1
                   n == q - p - 1
        <5>1. i \in 1 .. Len(c) /\ q \in 1 .. Len(c) /\ 1 \in 1 .. q - i + 1 /\ n \in 1 .. q - i + 1
              /\ i + 1 - 1 = p + 1 /\ i + n - 1 = q - 1
          BY <1>0, <2>2, <4>2
        <5> HIDE DEF i, n
        <5>2. SubSeq(SubSeq(c, i, q), 1, n) = SubSeq(c, i + 1 - 1, i + n - 1)
          BY <5>1, SubSeqOfSubSeq
        <5>3. SubSeq(SubSeq(c, i, q), 1, n) = SubSeq(c, p + 1, q - 1)
          BY <5>1, <5>2
        <5>4. Len(x) - 1 = n
          BY <2>2, <2>3 DEF n
        <5> QED
          BY <5>3, <5>4 DEF i
      <4> QED
        BY <4>1, <4>2
    <3>4. SubSeq(c, p + 1, q - 1) \in Seq(Chars)
      <4>1. q - 1 \in Nat /\ q - 1 <= Len(c)
        BY <1>0, <2>2
      <4> QED
        BY <4>1, RestIs
    <3>5. ~ (p >= Len(c))
      BY <1>0, <1>2
    <3> QED
      BY Zenon, <3>1, <3>2, <3>3, <3>4, <3>5 DEF q
  <2>6. CASE c[q] # LF
    <3>1. P!OneLine(c, p) = x
      BY <2>6 DEF P!OneLine, q, LF
    <3>2. Bare(x) = x
      <4> HIDE DEF x
      <4> QED
        BY <2>4, <2>6 DEF Bare, Last
    <3> QED
      BY <1>0, <1>2, <2>3, <3>1, <3>2 DEF q
  <2> QED
    BY <2>5, <2>6
<1> QED
  BY <1>0, <1>1, <1>2

(* One line, and two with the end of the first between them.                *)
LEMMA LineinOne ==
  ASSUME NEW N, NEW s, TableSound(N, s, {}), NEW f \in DOMAIN s.fp, s.fp[f].mode \notin {"w", "a"}
  PROVE  LET c == Content(s, f)
             p == s.fp[f].pos
             got == Llinein(s, f, 1)
         IN  /\ Kept(s, got.s) /\ got.s.data = s.data /\ got.s.file = s.file
             /\ got.s.fp[f].pos = P!After(c, p) /\ got.text = P!OneLine(c, p)
             /\ ~ s.fp[f].eof => (got.text = << >> /\ got.s.fp[f].eof <=> p >= Len(c))
<1> DEFINE c == Content(s, f)
           p == s.fp[f].pos
           q == P!After(c, p)
           z == P!OneLine(c, p)
           x == fgets(s, f)
<1>1. PICK l : /\ Llinein(s, f, 1) = l[1] /\ l[0] = Nothing(s)
               /\ \A j \in 1 .. 1 : l[j] = LineRead(f, 1, l[j - 1], j)
  BY LineinSteps
<1>2. l[1] = LineRead(f, 1, Nothing(s), 1)
  BY <1>1
<1>3. l[1].s = x.s /\ l[1].text = << >> \o Bare(x.text) \o << >>
  <2>1. Nothing(s).s = s /\ Nothing(s).text = << >>
    BY DEF Nothing
  <2> DEFINE o == Nothing(s)
             r == LineRead(f, 1, o, 1)
             e == IF 1 < 1 THEN <<LF>> ELSE << >>
  <2> HIDE DEF o
  <2>2. r.s = fgets(o.s, f).s /\ r.text = o.text \o Bare(fgets(o.s, f).text) \o e
    BY DEF LineRead, Bare
  <2>3. e = << >>
    OBVIOUS
  <2>4. fgets(o.s, f) = x
    BY <2>1 DEF o
  <2> HIDE DEF e, r
  <2>5. r.s = x.s /\ r.text = o.text \o Bare(x.text) \o << >>
    BY Zenon, <2>2, <2>3, <2>4
  <2> QED
    BY Zenon, <1>2, <2>1, <2>5 DEF r, o
<1>4. /\ Kept(s, x.s) /\ x.s.data = s.data /\ x.s.file = s.file
      /\ x.s.fp[f].pos = q /\ x.text = SubSeq(c, p + 1, q)
      /\ p >= Len(c) => x.text = << >> /\ x.s.fp[f].eof
      /\ p < Len(c) => x.text # << >> /\ Last(x.text) = c[q] /\ (c[q] = LF => (x.s.fp[f].eof <=> s.fp[f].eof))
  BY GetsDoes
<1>5. c \in Seq(Chars) /\ p \in Nat /\ Len(c) \in Nat
  BY ContentIs, Parts
<1> HIDE DEF c, p
<1>6. z = Bare(x.text) /\ z \in Seq(Chars) /\ (p >= Len(c) => z = << >>)
  BY <1>4, <1>5, BareIs
<1> HIDE DEF q, x
<1>7. << >> \o z \o << >> = z
  <2> HIDE DEF z
  <2> QED
    BY <1>6
<1>8. Llinein(s, f, 1).s = x.s /\ Llinein(s, f, 1).text = z
  <2> HIDE DEF z
  <2>1. l[1].s = x.s /\ l[1].text = << >> \o z \o << >>
    BY <1>3, <1>6
  <2> QED
    BY <1>1, <1>7, <2>1
<1>9. ~ s.fp[f].eof => (z = << >> /\ x.s.fp[f].eof <=> p >= Len(c))
  <2> SUFFICES ASSUME ~ s.fp[f].eof, p < Len(c), z = << >>, x.s.fp[f].eof
               PROVE  FALSE
    <3>1. p >= Len(c) \/ p < Len(c)
      BY <1>5
    <3> QED
      BY Zenon, <1>4, <1>6, <3>1
  <2>1. c[q] # LF
    BY <1>4
  <2>2. Bare(x.text) = x.text
    BY <1>4, <2>1 DEF Bare
  <2> QED
    BY <1>4, <1>6, <2>2
<1> QED
  BY Zenon, <1>4, <1>8, <1>9 DEF c, p, q

TwoLines(c, p, q) == P!OneLine(c, p) \o <<LF>> \o P!OneLine(c, q)
LEMMA GetsGives ==
  ASSUME NEW N, NEW s, TableSound(N, s, {}), NEW f \in DOMAIN s.fp, s.fp[f].mode \notin {"w", "a"},
         NEW c, c = Content(s, f), NEW p, p = s.fp[f].pos, NEW q, q = P!After(c, p), NEW got, got = fgets(s, f)
  PROVE  /\ Kept(s, got.s) /\ got.s.data = s.data /\ got.s.file = s.file
         /\ got.s.fp[f].pos = q /\ got.text = SubSeq(c, p + 1, q) /\ q \in Nat
  BY GetsDoes

LEMMA LineinTwo ==
  ASSUME NEW N, NEW s, TableSound(N, s, {}), NEW f \in DOMAIN s.fp, s.fp[f].mode \notin {"w", "a"},
         NEW c, c = Content(s, f), NEW p, p = s.fp[f].pos, NEW q, q = P!After(c, p),
         NEW got, got = Llinein(s, f, 2)
  PROVE  /\ Kept(s, got.s) /\ got.s.data = s.data /\ got.s.file = s.file
         /\ got.s.fp[f].pos = P!After(c, q) /\ q \in Nat /\ P!After(c, q) \in Nat
         /\ got.text = TwoLines(c, p, q) /\ got.text # << >>
<1> DEFINE y == P!OneLine(c, p)
           z == P!OneLine(c, q)
           x == fgets(s, f)
           w == fgets(x.s, f)
<1>1. PICK l : /\ Llinein(s, f, 2) = l[2] /\ l[0] = Nothing(s)
               /\ \A j \in 1 .. 2 : l[j] = LineRead(f, 2, l[j - 1], j)
  BY LineinSteps
<1>2. l[1] = LineRead(f, 2, Nothing(s), 1) /\ l[2] = LineRead(f, 2, l[1], 2)
  <2>1. l[1] = LineRead(f, 2, l[1 - 1], 1) /\ l[2] = LineRead(f, 2, l[2 - 1], 2)
    BY <1>1
  <2>2. 1 - 1 = 0 /\ 2 - 1 = 1
    OBVIOUS
  <2> QED
    BY <1>1, <2>1, <2>2
<1>3. l[1].s = x.s /\ l[1].text = << >> \o Bare(x.text) \o <<LF>>
  <2>1. Nothing(s).s = s /\ Nothing(s).text = << >>
    BY DEF Nothing
  <2> DEFINE o == Nothing(s)
             r == LineRead(f, 2, o, 1)
             e == IF 1 < 2 THEN <<LF>> ELSE << >>
  <2> HIDE DEF o
  <2>2. r.s = fgets(o.s, f).s /\ r.text = o.text \o Bare(fgets(o.s, f).text) \o e
    BY DEF LineRead, Bare
  <2>3. e = <<LF>>
    OBVIOUS
  <2>4. fgets(o.s, f) = x
    BY <2>1 DEF o
  <2> HIDE DEF e, r
  <2>5. r.s = x.s /\ r.text = o.text \o Bare(x.text) \o <<LF>>
    BY Zenon, <2>2, <2>3, <2>4
  <2> QED
    BY Zenon, <1>2, <2>1, <2>5 DEF r, o
<1>4. l[2].s = w.s /\ l[2].text = l[1].text \o Bare(w.text) \o << >>
  <2>1. fgets(l[1].s, f) = w
    BY <1>3
  <2> DEFINE o == l[1]
             r == LineRead(f, 2, o, 2)
             e == IF 2 < 2 THEN <<LF>> ELSE << >>
  <2> HIDE DEF o
  <2>2. r.s = fgets(o.s, f).s /\ r.text = o.text \o Bare(fgets(o.s, f).text) \o e
    BY DEF LineRead, Bare
  <2>3. e = << >>
    OBVIOUS
  <2>4. fgets(o.s, f) = w
    BY <2>1 DEF o
  <2> HIDE DEF e, r
  <2>5. r.s = w.s /\ r.text = o.text \o Bare(w.text) \o << >>
    BY Zenon, <2>2, <2>3, <2>4
  <2> QED
    BY Zenon, <1>2, <2>1, <2>5 DEF r, o
<1>5. c \in Seq(Chars) /\ p \in Nat /\ Len(c) \in Nat
  BY ContentIs, Parts
<1>6. /\ Kept(s, x.s) /\ x.s.data = s.data /\ x.s.file = s.file
      /\ x.s.fp[f].pos = q /\ x.text = SubSeq(c, p + 1, q) /\ q \in Nat
  BY GetsDoes
<1>7. TableSound(N, x.s, {}) /\ f \in DOMAIN x.s.fp /\ x.s.fp[f].mode \notin {"w", "a"} /\ Content(x.s, f) = c
  <2>1. TableSound(N, x.s, {})
    BY <1>6, KeptSound
  <2>2. f \in DOMAIN x.s.fp /\ x.s.fp[f].mode = s.fp[f].mode /\ x.s.fp[f].name = s.fp[f].name
    BY <1>6 DEF Kept
  <2> QED
    BY <1>6, <2>1, <2>2 DEF Content
<1>8. /\ Kept(x.s, w.s) /\ w.s.data = s.data /\ w.s.file = s.file
      /\ w.s.fp[f].pos = P!After(c, q) /\ w.text = SubSeq(c, q + 1, P!After(c, q)) /\ P!After(c, q) \in Nat
  <2>1. /\ Kept(x.s, w.s) /\ w.s.data = x.s.data /\ w.s.file = x.s.file
        /\ w.s.fp[f].pos = P!After(c, q) /\ w.text = SubSeq(c, q + 1, P!After(c, q)) /\ P!After(c, q) \in Nat
    <3>1. PICK v, g : v = x.s /\ g = P!After(c, q)
      OBVIOUS
    <3>2. /\ TableSound(N, v, {}) /\ f \in DOMAIN v.fp /\ v.fp[f].mode \notin {"w", "a"}
          /\ c = Content(v, f) /\ q = v.fp[f].pos
      BY <1>6, <1>7, <3>1
    <3>3. w = fgets(v, f)
      BY <3>1
    <3> HIDE DEF w, x
    <3> QED
      BY <3>1, <3>2, <3>3, GetsGives
  <2> QED
    BY <1>6, <2>1
<1> HIDE DEF x, w
<1>9. y = Bare(x.text) /\ y \in Seq(Chars)
  <2>1. x.text = SubSeq(c, p + 1, P!After(c, p))
    BY <1>6
  <2>2. Bare(SubSeq(c, p + 1, P!After(c, p))) = P!OneLine(c, p) /\ P!OneLine(c, p) \in Seq(Chars)
    BY <1>5, BareIs
  <2> QED
    BY Zenon, <2>1, <2>2
<1>10. z = Bare(w.text) /\ z \in Seq(Chars)
  BY <1>5, <1>6, <1>8, BareIs
<1> HIDE DEF y, z
<1>11. l[2].text = y \o <<LF>> \o z /\ l[2].text # << >>
  <2>1. << >> \o y \o <<LF>> = y \o <<LF>>
    BY <1>9
  <2> DEFINE v == y \o <<LF>>
  <2>2. v \in Seq(Chars) /\ Len(v) = Len(y) + 1 /\ Len(y) \in Nat
    <3>1. <<LF>> \in Seq(Chars) /\ Len(<<LF>>) = 1
      BY DEF Chars
    <3> QED
      BY <1>9, <3>1, ConcatProperties, LenProperties
  <2> HIDE DEF v
  <2>3. v \o z \o << >> = v \o z /\ Len(v \o z) = Len(v) + Len(z) /\ Len(z) \in Nat
    BY <1>10, <2>2
  <2>4. l[2].text = v \o z
    BY <1>3, <1>4, <1>9, <1>10, <2>1, <2>3 DEF v
  <2>5. v \o z # << >>
    BY <2>2, <2>3
  <2> QED
    BY <2>4, <2>5 DEF v
<1>12. Kept(s, w.s)
  BY <1>6, <1>8, KeptThen
<1> QED
  BY Zenon, <1>1, <1>4, <1>6, <1>8, <1>11, <1>12 DEF y, z, TwoLines


-----------------------------------------------------------------------------
(* Opening and closing.                                                     *)

SameStreams(s, t) == Named(t) = Named(s) /\ \A h \in Named(s) : StreamOf(t, h) = StreamOf(s, h)

LEMMA SameAbs ==
  ASSUME NEW s, NEW t, SameStreams(s, t)
  PROVE  AbsOf(t) = AbsOf(s)
  BY DEF SameStreams, AbsOf

(* A slot and its C stream are all that a stream depends on.                *)
LEMMA SameSlot ==
  ASSUME NEW s, NEW t, NEW h, t.file[h] = s.file[h], s.file[h].f \in DOMAIN s.fp,
         s.file[h].f \in DOMAIN t.fp, t.fp[s.file[h].f] = s.fp[s.file[h].f]
  PROVE  StreamOf(t, h) = StreamOf(s, h)
<1>1. Appends(t, h) = Appends(s, h) /\ Seeks(t, h) = Seeks(s, h) /\ Failed(t, h) = Failed(s, h)
  BY DEF Appends, Seeks, Failed
<1> QED
  BY <1>1, StreamIs

LEMMA GrewStreams ==
  ASSUME NEW N, NEW s, TableSound(N, s, {}), NEW t, Grew(s, t)
  PROVE  SameStreams(s, t) /\ (Seekable(s) => Seekable(t))
<1>1. \A h \in Named(s) : t.file[h] = s.file[h] /\ s.file[h].f \in DOMAIN s.fp
  BY Live DEF Grew, Named
<1>2. t.fp = s.fp /\ Named(t) = Named(s)
  BY DEF Grew
<1>3. \A h \in Named(s) : StreamOf(t, h) = StreamOf(s, h)
  BY <1>1, <1>2, SameSlot
<1> QED
  BY <1>1, <1>2, <1>3 DEF SameStreams, Seekable, Seeks

(* It has two positions unless its data set is a SYSOUT.                    *)
LEMMA OpenedSeeks ==
  ASSUME NEW s, NEW H, TableSound(Names, s, H), NEW n \in Names, NEW mode \in Modes, NEW m \in Tried(mode),
         NEW o, Opened(s, o.s, o.i, n, m), CanOpen(s, n, m), OpenedAs(s, n, mode, o, m)
  PROVE  /\ Seeks(o.s, o.i) <=> n \notin Sysout \union Std
         /\ Seeks(o.s, o.i) => o.s.fp[o.s.file[o.i].f].mode \notin {"w", "a"}
<1> DEFINE t == o.s
           i == o.i
<1>3. n \in P!Names /\ n \notin Std /\ n \in DOMAIN s.data
  <2>1. n \in P!Names
    BY DEF TableSound, Typed
  <2> QED
    BY <2>1, StdNamesApart
<1>4. t.fp[t.file[i].f].mode = m
  BY DEF Opened
<1>5. Seeks(t, i) => m = open_mode(mode) /\ m \notin {"w", "a"}
  BY DEF OpenedAs, open_mode, Modes
<1>6. Seeks(t, i) <=> n \notin Sysout
  <2>1. ASSUME Seeks(t, i), n \in Sysout
        PROVE  FALSE
    BY <1>5, <2>1 DEF CanOpen
  <2>2. ASSUME ~ Seeks(t, i)
        PROVE  n \in Sysout
    <3>1. m = mode /\ mode # open_mode(mode) /\ ~ CanOpen(s, n, open_mode(mode)) /\ CanOpen(s, n, mode)
      BY <2>2 DEF OpenedAs
    <3>2. mode \in {"w", "a"} /\ open_mode(mode) \in {"w+", "a+"} /\ (mode = "a" <=> open_mode(mode) = "a+")
      BY <3>1 DEF open_mode, Modes
    <3> QED
      BY <3>1, <3>2 DEF CanOpen, InUse
  <2> QED
    BY <2>1, <2>2
<1> QED
  BY <1>3, <1>4, <1>5, <1>6

(* The stream that a call opened is the one the reference says.             *)
LEMMA OpenedStreams ==
  ASSUME NEW s, NEW H, TableSound(Names, s, H), NEW n \in Names, NEW mode \in Modes, NEW m \in Tried(mode),
         NEW o, TableSound(Names, o.s, H), Opened(s, o.s, o.i, n, m), CanOpen(s, n, m), OpenedAs(s, n, mode, o, m)
  PROVE  /\ Named(o.s) = Named(s) \union {o.i} /\ o.i \notin Named(s)
         /\ \A h \in Named(s) \ H : StreamOf(o.s, h) = StreamOf(s, h)
         /\ StreamOf(o.s, o.i) = P!Stream(n, m) /\ o.s.file[o.i].name = n
         /\ o.s.data = [s.data EXCEPT ![n] = IF Truncates(m) THEN << >> ELSE P!Text(s.data[n])]
<1> DEFINE t == o.s
           i == o.i
<1>1. Named(t) = Named(s) \union {i} /\ i \notin Named(s) /\ t.file[i].name = n
  BY DEF Opened
<1>2. \A h \in Named(s) \ H : StreamOf(t, h) = StreamOf(s, h)
  <2> SUFFICES ASSUME NEW h \in Named(s) \ H
               PROVE  StreamOf(t, h) = StreamOf(s, h)
    OBVIOUS
  <2>1. s.file[h].f \in DOMAIN s.fp
    BY DEF TableSound, Owned, Has
  <2>2. t.file[h] = s.file[h] /\ s.file[h].f \in DOMAIN t.fp /\ t.fp[s.file[h].f] = s.fp[s.file[h].f]
    BY <2>1 DEF Opened
  <2> QED
    BY <2>1, <2>2, SameSlot
<1>3. n \in P!Names /\ n \notin Std /\ n \in DOMAIN s.data
  <2>1. n \in P!Names
    BY DEF TableSound, Typed
  <2> QED
    BY <2>1, StdNamesApart
<1>4. t.fp[t.file[i].f].mode = m /\ t.file[i].f \in DOMAIN t.fp
  BY DEF Opened
<1>6. Seeks(t, i) <=> n \notin Sysout
  BY <1>3, OpenedSeeks
<1>7. Appends(t, i) <=> m \in {"a", "a+"}
  BY <1>4 DEF Appends
<1>8. ~ Failed(t, i) /\ t.file[i].rpos = 0 /\ t.file[i].wpos = (IF m \in {"w", "w+"} THEN 0 ELSE -1)
  BY DEF Opened, Failed, Truncates
<1>9. StreamOf(t, i) = P!Stream(n, m)
  <2>1. Appends(t, i) = (m \in {"a", "a+"}) /\ Seeks(t, i) = (n \in P!Names \ Sysout)
    <3>1. Appends(t, i) = (m \in {"a", "a+"})
      BY <1>7 DEF Appends
    <3>2. Seeks(t, i) <=> n \in P!Names \ Sysout
      BY <1>3, <1>6
    <3>3. Seeks(t, i) = (n \in P!Names \ Sysout)
      BY <3>2 DEF Seeks
    <3> QED
      BY Zenon, <3>1, <3>3
  <2>2. Failed(t, i) = FALSE
    BY <1>8 DEF Failed
  <2>3. P!Stream(n, m) = Str(n, 0, IF m \in {"w", "w+"} THEN 0 ELSE -1, m \in {"a", "a+"}, n \in P!Names \ Sysout, FALSE)
    BY Zenon DEF P!Stream, Str, P!END
  <2>4. StreamOf(t, i) = Str(t.file[i].name, t.file[i].rpos, t.file[i].wpos, Appends(t, i), Seeks(t, i), Failed(t, i))
    BY StreamIs
  <2> QED
    BY Zenon, <1>1, <1>8, <2>1, <2>2, <2>3, <2>4
<1>10. t.data = [s.data EXCEPT ![n] = IF Truncates(m) THEN << >> ELSE P!Text(s.data[n])]
  <2>1. t.data = [s.data EXCEPT ![n] = t.data[n]] /\ t.data[n] = IF Truncates(m) \/ s.data[n] = Absent THEN << >> ELSE s.data[n]
    BY DEF Opened
  <2>2. t.data[n] = IF Truncates(m) THEN << >> ELSE P!Text(s.data[n])
    BY <2>1 DEF P!Text, Absent
  <2> QED
    BY <2>1, <2>2
<1> QED
  BY <1>1, <1>2, <1>9, <1>10

LEMMA OpenedSeekable ==
  ASSUME NEW s, TableSound(Names, s, {}), NEW n \in Names, NEW mode \in Modes, NEW m \in Tried(mode), NEW o,
         TableSound(Names, o.s, {}), Opened(s, o.s, o.i, n, m), CanOpen(s, n, m), OpenedAs(s, n, mode, o, m),
         Seekable(s)
  PROVE  Seekable(o.s)
<1> SUFFICES ASSUME NEW h \in Named(o.s)
             PROVE  /\ Seeks(o.s, h) <=> o.s.file[h].name \notin Sysout \union Std
                    /\ Seeks(o.s, h) => o.s.fp[o.s.file[h].f].mode \notin {"w", "a"}
  BY DEF Seekable
<1>1. CASE h = o.i
  <2>1. /\ Seeks(o.s, o.i) <=> n \notin Sysout \union Std
        /\ Seeks(o.s, o.i) => o.s.fp[o.s.file[o.i].f].mode \notin {"w", "a"}
    BY OpenedSeeks
  <2>2. o.s.file[o.i].name = n
    BY DEF Opened
  <2> QED
    BY <1>1, <2>1, <2>2
<1>2. CASE h # o.i
  <2>1. h \in Named(s) /\ o.s.file[h] = s.file[h]
    BY <1>2 DEF Opened
  <2>2. s.file[h].f \in DOMAIN s.fp
    BY <2>1, Live
  <2>3. o.s.fp[s.file[h].f] = s.fp[s.file[h].f]
    BY <2>2 DEF Opened
  <2> QED
    BY <2>1, <2>3 DEF Seekable, Seeks
<1> QED
  BY <1>1, <1>2

LEMMA ClosedStreams ==
  ASSUME NEW N, NEW s, TableSound(N, s, {}), NEW i \in Named(s), i \notin {FSTDIN, FSTDOUT}
  PROVE  LET t == close_file(s, i)
         IN  /\ Named(t) = Named(s) \ {i} /\ t.data = s.data
             /\ \A h \in Named(s) \ {i} : StreamOf(t, h) = StreamOf(s, h)
             /\ Seekable(s) => Seekable(t)
<1> DEFINE t == close_file(s, i)
<1>1. /\ TableSound(N, t, {}) /\ t.data = s.data /\ Named(t) = Named(s) \ {i}
      /\ \A f \in DOMAIN t.fp : f \in DOMAIN s.fp /\ t.fp[f] = s.fp[f]
      /\ \A j \in Named(s) \ {i} : t.file[j] = s.file[j]
  BY CloseSound
<1> HIDE DEF t
<1>2. ASSUME NEW h \in Named(s) \ {i}
      PROVE  /\ t.file[h] = s.file[h] /\ s.file[h].f \in DOMAIN s.fp
             /\ s.file[h].f \in DOMAIN t.fp /\ t.fp[s.file[h].f] = s.fp[s.file[h].f]
  <2>1. t.file[h] = s.file[h] /\ h \in Named(t)
    BY <1>1
  <2>2. t.file[h].f \in DOMAIN t.fp
    BY <1>1, <2>1, Live
  <2> QED
    BY <1>1, <2>1, <2>2
<1>3. \A h \in Named(s) \ {i} : StreamOf(t, h) = StreamOf(s, h)
  BY <1>2, SameSlot
<1>4. Seekable(s) => Seekable(t)
  <2> SUFFICES ASSUME Seekable(s), NEW h \in Named(t)
               PROVE  /\ Seeks(t, h) <=> t.file[h].name \notin Sysout \union Std
                      /\ Seeks(t, h) => t.fp[t.file[h].f].mode \notin {"w", "a"}
    BY DEF Seekable
  <2>1. h \in Named(s) \ {i}
    BY <1>1
  <2>2. t.file[h] = s.file[h] /\ t.fp[s.file[h].f] = s.fp[s.file[h].f]
    BY <1>2, <2>1
  <2> QED
    BY <2>1, <2>2 DEF Seekable, Seeks
<1> QED
  BY <1>1, <1>3, <1>4 DEF t


(* A data set that is in use has a stream.                                  *)
LEMMA InUseNamed ==
  ASSUME NEW s, TableSound(Names, s, {}), NEW n \in Names, NEW mode, InUse(s, n, mode)
  PROVE  \E h \in Named(s) : s.file[h].name = n
<1>1. PICK f \in DOMAIN s.fp : s.fp[f].name = n
  BY DEF InUse
<1>2. n \notin Std
  BY StdNamesApart
<1>3. PICK h \in Named(s) \ {} : s.file[h].f = f
  BY <1>1, <1>2 DEF TableSound, Owned
<1>4. Has(s, h, f)
  BY <1>3 DEF TableSound, Owned
<1>5. s.file[h].name = n
  BY <1>1, <1>2, <1>4 DEF Has, Std
<1> QED
  BY <1>3, <1>5

LEMMA OpenAsIn ==
  ASSUME NEW n
  PROVE  P!OpenAs(n) = {h \in Named(Calling) : Calling.file[h].name = n}
<1>1. DOMAIN open = Named(Calling) /\ \A h \in Named(Calling) : open[h].name = Calling.file[h].name
  BY OpenIsAbs DEF AbsOf, StreamOf
<1> QED
  BY <1>1 DEF P!OpenAs

(* Why an open is refused.                                                  *)
LEMMA RefusedIs ==
  ASSUME TableSound(Names, Calling, {}), NEW n \in Names, NEW mode \in {"r", "r+", "w+", "a+"},
         ~ CanOpen(Calling, n, mode)
  PROVE  P!Refusable(n, mode)
<1>1. CASE InUse(Calling, n, mode)
  <2>1. P!OpenAs(n) # {}
    BY <1>1, InUseNamed, OpenAsIn
  <2> QED
    BY <2>1 DEF P!Refusable
<1>2. CASE ~ InUse(Calling, n, mode)
  <2>1. Calling.data = data /\ Absent = P!Absent
    BY DEF Calling, Absent
  <2> QED
    BY <1>2, <2>1 DEF P!Refusable, CanOpen
<1> QED
  BY <1>1, <1>2

(* The data sets are a function, as every step leaves them.                 *)
DataIs == data = [n \in DOMAIN data |-> data[n]]

(* In s the stream i is found, or was opened as mode, on data set n.        *)
Reached(s, i, n, mode) ==
  /\ TableSound(Names, s, {}) /\ Seekable(s) /\ i \in Named(s) /\ s.file[i].name = n /\ n \in Names
  /\ Named(s) = Named(Calling) \union {i}
  /\ \A h \in Named(Calling) \ {i} : StreamOf(s, h) = StreamOf(Calling, h)
  /\ s.data = [data EXCEPT ![n] = s.data[n]] /\ s.data[n] # Absent
  /\ IF i \in Named(Calling) THEN StreamOf(s, i) = StreamOf(Calling, i) /\ s.data[n] = data[n]
     ELSE /\ StreamOf(s, i) = P!Stream(n, mode) /\ P!OpenAs(n) = {}
          /\ s.data[n] = IF Truncates(mode) THEN << >> ELSE P!Text(data[n])
          /\ mode = "r" => data[n] # Absent

(* A stream that is open is reached.                                        *)
LEMMA FoundReached ==
  ASSUME TableSound(Names, Calling, {}), Seekable(Calling), DataIs, NEW i \in Named(Calling),
         NEW n \in Names, Calling.file[i].name = n, NEW mode
  PROVE  Reached(Calling, i, n, mode)
<1>1. Calling.data = data
  BY DEF Calling
<1>2. Calling.file[i].f \in DOMAIN Calling.fp /\ n \in DOMAIN data
  <2>1. Calling.file[i].f \in DOMAIN Calling.fp
    BY Live
  <2>2. n \in DOMAIN data
    BY DEF Names
  <2> QED
    BY <2>1, <2>2
<1>3. Calling.fp[Calling.file[i].f].name = n
  <2>1. n \notin Std
    BY StdNamesApart
  <2>2. Has(Calling, i, Calling.file[i].f)
    BY DEF TableSound, Owned
  <2> QED
    BY <2>1, <2>2 DEF Has, SharedStderr, Std
<1>4. data[n] # Absent
  BY <1>1, <1>2, <1>3 DEF TableSound, Allowed
<1>5. data = [data EXCEPT ![n] = data[n]]
  BY <1>2 DEF DataIs
<1>6. Named(Calling) = Named(Calling) \union {i}
  OBVIOUS
<1> QED
  BY <1>1, <1>4, <1>5, <1>6 DEF Reached

(* A stream that was opened is reached.                                     *)
LEMMA OpenedReached ==
  ASSUME TableSound(Names, Calling, {}), Seekable(Calling), DataIs,
         NEW n \in Names, \A h \in Named(Calling) : Calling.file[h].name # n,
         NEW s, TableSound(Names, s, {}), Seekable(s), SameStreams(Calling, s), s.data = data,
         NEW mode \in Modes, NEW m \in Tried(mode), NEW o, TableSound(Names, o.s, {}),
         Opened(s, o.s, o.i, n, m), CanOpen(s, n, m), OpenedAs(s, n, mode, o, m)
  PROVE  Reached(o.s, o.i, n, m)
<1> DEFINE t == o.s
           i == o.i
<1>1. /\ Named(t) = Named(s) \union {i} /\ i \notin Named(s)
      /\ \A h \in Named(s) \ {} : StreamOf(t, h) = StreamOf(s, h)
      /\ StreamOf(t, i) = P!Stream(n, m) /\ t.file[i].name = n
      /\ t.data = [s.data EXCEPT ![n] = IF Truncates(m) THEN << >> ELSE P!Text(s.data[n])]
  BY OpenedStreams
<1>2. Seekable(t)
  BY OpenedSeekable
<1>3. n \in DOMAIN data
  BY StdNamesApart
<1>4. t.data[n] = IF Truncates(m) THEN << >> ELSE P!Text(data[n])
  BY <1>1, <1>3
<1>5. t.data[n] # Absent
  <2>1. << >> # Absent /\ P!Text(data[n]) # Absent
    BY DEF P!Text, Absent, P!Absent
  <2> QED
    BY <1>4, <2>1
<1>6. t.data = [data EXCEPT ![n] = t.data[n]]
  BY <1>1, <1>3
<1>7. P!OpenAs(n) = {}
  BY OpenAsIn
<1>8. m = "r" => data[n] # Absent
  BY DEF CanOpen
<1> HIDE DEF t, i
<1>9. Named(t) = Named(Calling) \union {i} /\ i \notin Named(Calling)
      /\ \A h \in Named(Calling) \ {i} : StreamOf(t, h) = StreamOf(Calling, h)
  BY <1>1 DEF SameStreams
<1>10. TableSound(Names, t, {}) /\ i \in Named(t)
  BY <1>9 DEF t
<1> QED
  BY Zenon, <1>1, <1>2, <1>4, <1>5, <1>6, <1>7, <1>8, <1>9, <1>10 DEF Reached, t, i

(* Nothing was opened in s.                                                 *)
Left(s) == TableSound(Names, s, {}) /\ Seekable(s) /\ SameStreams(Calling, s) /\ s.data = data

LEMMA ReachedWrites ==
  ASSUME NEW s, NEW i, NEW n, Reached(s, i, n, "w+")
  PROVE  Reached(s, i, n, "w")
<1>1. P!Stream(n, "w+") = P!Stream(n, "w") /\ Truncates("w+") = Truncates("w")
  <2>1. Truncates("w+") = Truncates("w")
    BY DEF Truncates
  <2>2. "w+" \in {"w", "w+"} /\ "w" \in {"w", "w+"}
    OBVIOUS
  <2>3. ("w+" \in {"a", "a+"}) = FALSE /\ ("w" \in {"a", "a+"}) = FALSE
    OBVIOUS
  <2> QED
    BY <2>1, <2>2, <2>3 DEF P!Stream
<1> QED
  BY Zenon, <1>1 DEF Reached

(* What an open by name leaves.                                             *)
LEMMA OpenReaches ==
  ASSUME TableSound(Names, Calling, {}), Seekable(Calling), DataIs, Faults = {},
         NEW n \in Names, \A h \in Named(Calling) : Calling.file[h].name # n,
         NEW s, Left(s), NEW mode \in {"r", "r+", "w"}, NEW o \in open_file(s, n, mode)
  PROVE  /\ o = [s |-> o.s, i |-> o.i]
         /\ (o.i = -1 /\ Left(o.s)) \/ (o.i # -1 /\ o.i \in Nat /\ Reached(o.s, o.i, n, mode))
<1>1. TableSound(Names, s, {}) /\ Seekable(s) /\ SameStreams(Calling, s) /\ s.data = data /\ mode \in Modes
  BY DEF Left, Modes
<1>2. /\ o = [s |-> o.s, i |-> o.i] /\ TableSound(Names, o.s, {})
      /\ \/ o.i = -1 /\ Grew(s, o.s)
         \/ o.i # -1 /\ \E m \in Tried(mode) :
              Opened(s, o.s, o.i, n, m) /\ CanOpen(s, n, m) /\ OpenedAs(s, n, mode, o, m)
  BY <1>1, OpenIs
<1>3. CASE o.i = -1
  <2>1. SameStreams(s, o.s) /\ Seekable(o.s) /\ o.s.data = s.data
    BY <1>1, <1>2, <1>3, GrewStreams DEF Grew
  <2>2. SameStreams(Calling, o.s)
    BY <1>1, <2>1 DEF SameStreams
  <2> QED
    BY <1>1, <1>2, <1>3, <2>1, <2>2 DEF Left
<1>4. CASE o.i # -1
  <2>1. PICK m \in Tried(mode) :
               Opened(s, o.s, o.i, n, m) /\ CanOpen(s, n, m) /\ OpenedAs(s, n, mode, o, m)
    BY <1>2, <1>4
  <2>2. Reached(o.s, o.i, n, m)
    BY <1>1, <1>2, <2>1, OpenedReached
  <2>3. m = mode \/ (m = "w+" /\ mode = "w")
    BY <2>1 DEF Tried, open_mode
  <2>4. Reached(o.s, o.i, n, mode)
    BY <2>2, <2>3, ReachedWrites
  <2>5. o.i \in Nat
    BY <1>2, <2>2, NamedNat DEF Reached
  <2> QED
    BY <1>2, <1>4, <2>4, <2>5
<1> QED
  BY <1>3, <1>4

(* An implicit open for writing writes a new data set, and keeps any other. *)
WriteMode(n) == IF data[n] = Absent \/ n \in Sysout THEN "w" ELSE "r+"

LEMMA ForWriteReaches ==
  ASSUME TableSound(Names, Calling, {}), Seekable(Calling), DataIs, Faults = {},
         NEW n \in Names, \A h \in Named(Calling) : Calling.file[h].name # n,
         NEW o \in open_for_write(Calling, n)
  PROVE  /\ o = [s |-> o.s, i |-> o.i]
         /\ (o.i = -1 /\ Left(o.s)) \/ (o.i # -1 /\ o.i \in Nat /\ Reached(o.s, o.i, n, WriteMode(n)))
<1>0. Left(Calling)
  BY DEF Left, SameStreams, Calling
<1>1. PICK probe \in open_file(Calling, n, "r") :
        o \in open_file(IF probe.i = -1 THEN probe.s ELSE close_file(probe.s, probe.i), n,
                        IF probe.i = -1 THEN "w" ELSE "r+")
  BY Zenon DEF open_for_write
<1> DEFINE p == probe.s
           c == close_file(p, probe.i)
<1>2. (probe.i = -1 /\ Left(p)) \/ (probe.i # -1 /\ Reached(p, probe.i, n, "r"))
  BY <1>0, <1>1, OpenReaches
<1>5. n \notin Std /\ n \in DOMAIN data /\ Calling.data = data
  <2>1. Calling.data = data
    BY DEF Calling
  <2>2. n \notin Std /\ n \in DOMAIN Calling.data
    BY StdNamesApart
  <2> QED
    BY <2>1, <2>2
<1>3. CASE probe.i = -1
  <2>1. o \in open_file(p, n, "w") /\ Left(p)
    BY <1>1, <1>2, <1>3
  <2>2. ~ CanOpen(Calling, n, "r")
    <3>1. "r" \in Modes /\ Tried("r") = {"r"}
      BY DEF Modes, Tried, open_mode
    <3> QED
      BY <1>1, <1>3, <3>1, OpenIs
  <2>3. ~ InUse(Calling, n, "r")
    BY InUseNamed
  <2>4. n \in Sysout \/ data[n] = Absent
    BY <1>5, <2>2, <2>3 DEF CanOpen
  <2>5. WriteMode(n) = "w"
    BY <2>4 DEF WriteMode
  <2> HIDE DEF p
  <2> QED
    BY <2>1, <2>5, OpenReaches
<1>4. CASE probe.i # -1
  <2> DEFINE i == probe.i
  <2>1. o \in open_file(c, n, "r+") /\ Reached(p, i, n, "r")
    BY <1>1, <1>2, <1>4
  <2>2. /\ TableSound(Names, p, {}) /\ Seekable(p) /\ i \in Named(p) /\ p.file[i].name = n
        /\ i \notin Named(Calling)
        /\ Named(p) = Named(Calling) \union {i} /\ \A h \in Named(Calling) : StreamOf(p, h) = StreamOf(Calling, h)
        /\ data[n] # Absent /\ p.data = [data EXCEPT ![n] = p.data[n]] /\ p.data[n] = P!Text(data[n])
    <3>1. i \notin Named(Calling)
      <4>1. PICK m \in Tried("r") : Opened(Calling, p, i, n, m)
        <5>1. "r" \in Modes
          BY DEF Modes
        <5> QED
          BY <1>1, <1>4, <5>1, OpenIs
      <4> QED
        BY <4>1 DEF Opened
    <3> QED
      BY <2>1, <3>1 DEF Reached, Truncates
  <2>3. i \notin {FSTDIN, FSTDOUT}
    BY <1>5, <2>2 DEF TableSound, StdPlaced, Std
  <2>4. TableSound(Names, c, {}) /\ c.data = p.data
    BY <2>2, <2>3, CloseSound
  <2>5. /\ Named(c) = Named(p) \ {i} /\ \A h \in Named(p) \ {i} : StreamOf(c, h) = StreamOf(p, h)
        /\ Seekable(c)
    BY <2>2, <2>3, ClosedStreams
  <2>6. p.data = data
    <3>1. p.data[n] = data[n]
      BY <2>2 DEF P!Text, P!Absent, Absent
    <3>2. [data EXCEPT ![n] = data[n]] = data
      BY DEF DataIs
    <3> QED
      BY Zenon, <2>2, <3>1, <3>2
  <2>7. n \notin Sysout
    <3>1. "r" \in Modes /\ Tried("r") = {"r"}
      BY DEF Modes, Tried, open_mode
    <3>2. CanOpen(Calling, n, "r")
      BY <1>1, <1>4, <3>1, OpenIs
    <3> QED
      BY <3>2 DEF CanOpen
  <2>8. WriteMode(n) = "r+"
    BY <2>2, <2>7 DEF WriteMode
  <2> HIDE DEF p, c, i
  <2>9. Left(c)
    BY <2>2, <2>4, <2>5, <2>6 DEF Left, SameStreams
  <2> QED
    BY <2>1, <2>8, <2>9, OpenReaches
<1> QED
  BY <1>3, <1>4

UseMode(how, n) == IF how = "update" THEN WriteMode(n) ELSE how

(* The stream of a function is found or opened, or the function fails.      *)
LEMMA UsedReaches ==
  ASSUME TableSound(Names, Calling, {}), Seekable(Calling), DataIs, Faults = {}, NEW r \in Uses,
         NEW how, Opens(how), NEW u \in Used(r, how)
  PROVE  \/ u.i < 0 /\ ~ (u.i >= 0) /\ Left(u.s)
         \/ /\ u.i >= 0 /\ ~ (u.i < 0) /\ u.i \in Nat
            /\ \E n \in Names : NameOf(u.s, r) = n /\ Reached(u.s, u.i, n, UseMode(how, n))
<1> DEFINE i == find_file(Calling, r)
<1>1. \/ /\ i # -1 /\ i \in Named(Calling) /\ i \in Nat /\ Calling.file[i].name \in Names
         /\ r[1] = "handle" /\ r[2] = i
      \/ /\ i = -1 /\ r[1] = "name" /\ r[2] \in Names
         /\ \A h \in Named(Calling) : Calling.file[h].name # r[2]
  BY UsesFound
<1>2. CASE i # -1
  <2>1. u = [s |-> Calling, i |-> i]
    BY <1>2 DEF Used
  <2> HIDE DEF i
  <2>2. u.s = Calling /\ u.i = i /\ u.i \in Nat
    BY <1>1, <1>2, <2>1
  <2>3. NameOf(u.s, r) = Calling.file[i].name
    BY <1>1, <1>2, <2>2 DEF NameOf
  <2>4. Reached(u.s, u.i, Calling.file[i].name, UseMode(how, Calling.file[i].name))
    BY <1>1, <1>2, <2>2, FoundReached
  <2> QED
    BY <1>1, <1>2, <2>2, <2>3, <2>4
<1>3. CASE i = -1
  <2> DEFINE n == r[2]
  <2>1. PICK o \in (IF how = "update" THEN open_for_write(Calling, n) ELSE open_file(Calling, n, how)) :
          u = [o EXCEPT !.i = IF @ = -1 THEN ERR_CANT_OPEN_FILE ELSE @]
    BY <1>3, Zenon DEF Used
  <2>2. n \in Names /\ r[1] = "name" /\ \A h \in Named(Calling) : Calling.file[h].name # n
    BY <1>1, <1>3
  <2> HIDE DEF n, i
  <2>3. /\ o = [s |-> o.s, i |-> o.i]
        /\ (o.i = -1 /\ Left(o.s)) \/ (o.i # -1 /\ o.i \in Nat /\ Reached(o.s, o.i, n, UseMode(how, n)))
    <3>1. CASE how = "update"
      BY <2>1, <2>2, <3>1, ForWriteReaches DEF UseMode
    <3>2. CASE how # "update"
      <4>1. o \in open_file(Calling, n, how) /\ how \in {"r", "r+", "w"}
        BY <2>1, <3>2 DEF Opens
      <4>2. Left(Calling)
        BY DEF Left, SameStreams, Calling
      <4> QED
        BY <2>2, <3>2, <4>1, <4>2, OpenReaches DEF UseMode
    <3> QED
      BY <3>1, <3>2
  <2>4. u.s = o.s /\ u.i = IF o.i = -1 THEN ERR_CANT_OPEN_FILE ELSE o.i
    BY <2>1, <2>3
  <2>5. NameOf(u.s, r) = n
    BY <2>2 DEF NameOf, n
  <2>6. CASE o.i = -1
    BY <2>3, <2>4, <2>6 DEF ERR_CANT_OPEN_FILE
  <2>7. CASE o.i # -1
    BY <2>2, <2>3, <2>4, <2>5, <2>7
  <2> QED
    BY <2>6, <2>7
<1> QED
  BY <1>2, <1>3

-----------------------------------------------------------------------------
(* The calls that open, close and clear a stream, and those that leave all  *)
(* streams as they are: each is a step of Streams.                          *)

(* A step of Streams or one of Departs, behind which the invariant holds.   *)
Meets == (P!Next \/ Departs) /\ Seekable(Calling') /\ DataIs'

LEMMA DataStays ==
  ASSUME DataIs, NEW n, NEW d, data' = data \/ data' = [data EXCEPT ![n] = d]
  PROVE  DataIs'
<1>1. CASE data' = data
  BY <1>1 DEF DataIs
<1>2. CASE data' = [data EXCEPT ![n] = d]
  <2>1. data' = [m \in DOMAIN data |-> IF m = n THEN d ELSE data[m]]
    BY <1>2
  <2>2. DOMAIN data' = DOMAIN data /\ \A m \in DOMAIN data : data'[m] = IF m = n THEN d ELSE data[m]
    BY <2>1
  <2>3. data' = [m \in DOMAIN data' |-> data'[m]]
    BY <2>1, <2>2
  <2> QED
    BY <2>3 DEF DataIs
<1> QED
  BY <1>1, <1>2

LEMMA SeekableNext ==
  ASSUME NEW t, NEW c, Become(t, c), Seekable(t)
  PROVE  Seekable(Calling')
<1>1. file' = t.file /\ fp' = t.fp
  BY DEF Become
<1>2. Calling'.file = t.file /\ Calling'.fp = t.fp
  BY <1>1 DEF Calling
<1> QED
  BY <1>2 DEF Seekable, Seeks, Named

(* A call that changes no stream and no data set.                           *)
LEMMA LeftMeets ==
  ASSUME DataIs, NEW s, Left(s), NEW c, Become(s, c)
  PROVE  P!Keeps /\ Seekable(Calling') /\ DataIs'
<1>1. data' = data /\ open' = AbsOf(s)
  BY BecomeAbs DEF Left
<1>2. AbsOf(s) = open
  BY SameAbs, OpenIsAbs DEF Left
<1>3. Seekable(Calling')
  BY SeekableNext DEF Left
<1>4. DataIs'
  BY <1>1, DataStays
<1> QED
  BY <1>1, <1>2, <1>3, <1>4 DEF P!Keeps

LEMMA CallingLeft ==
  ASSUME TableSound(Names, Calling, {}), Seekable(Calling)
  PROVE  Left(Calling)
  BY DEF Left, SameStreams, Calling

LEMMA FailsMeets ==
  ASSUME DataIs, NEW u, Left(u.s), NEW r, Fails(u, r)
  PROVE  Meets
<1> DEFINE c == [None EXCEPT !.what = "ERROR", !.value = u.i]
<1>1. Become(u.s, c)
  BY DEF Fails
<1>2. c.what = "ERROR"
  BY DEF None
<1> HIDE DEF c
<1>3. call' = c
  BY <1>1 DEF Become
<1>4. P!Keeps /\ Seekable(Calling') /\ DataIs'
  BY <1>1, LeftMeets
<1>5. P!Others
  BY <1>2, <1>3, <1>4 DEF P!Others
<1> QED
  BY <1>4, <1>5 DEF Meets, P!Next

(* A call about stream i of data set n, that found it or opened it as mode. *)
LEMMA CallIs ==
  ASSUME TableSound(Names, Calling, {}), DataIs, NEW s, NEW i, NEW n, NEW mode, Reached(s, i, n, mode),
         NEW t, NEW c, Become(t, c), c.handle = i, c.name = n
  PROVE  /\ P!This(mode) = StreamOf(s, i)
         /\ P!Found <=> i \in Named(Calling)
         /\ P!MayOpen(mode)
         /\ (mode # "r" => P!MayOpen("w"))
         /\ call'.name = n
<1>1. call'.handle = i /\ call'.name = n
  BY DEF Become
<1>2. DOMAIN open = Named(Calling) /\ \A h \in Named(Calling) : open[h] = StreamOf(Calling, h)
  BY OpenIsAbs DEF AbsOf
<1>3. P!Found <=> i \in Named(Calling)
  BY <1>1, <1>2 DEF P!Found
<1>4. P!This(mode) = StreamOf(s, i)
  <2>1. CASE i \in Named(Calling)
    BY <1>1, <1>2, <1>3, <2>1 DEF P!This, Reached
  <2>2. CASE i \notin Named(Calling)
    BY <1>1, <1>3, <2>2 DEF P!This, Reached
  <2> QED
    BY <2>1, <2>2
<1>5. P!MayOpen(mode) /\ (mode # "r" => P!MayOpen("w"))
  <2>1. CASE i \in Named(Calling)
    BY <1>3, <2>1 DEF P!MayOpen
  <2>2. CASE i \notin Named(Calling)
    <3>1. P!OpenAs(n) = {} /\ (mode = "r" => data[n] # Absent)
      BY <2>2 DEF Reached
    <3>2. Absent = P!Absent /\ "w" # "r"
      BY DEF Absent
    <3> QED
      BY <1>1, <3>1, <3>2 DEF P!MayOpen
  <2> QED
    BY <2>1, <2>2
<1> QED
  BY <1>1, <1>3, <1>4, <1>5

(* It leaves the stream as it is in t, and the data set as d.               *)
LEMMA LeavesAre ==
  ASSUME TableSound(Names, Calling, {}), DataIs, NEW s, NEW i, NEW n, NEW mode, Reached(s, i, n, mode),
         NEW t, Like(s, t, i), Seekable(t), NEW d, t.data = [s.data EXCEPT ![n] = d],
         NEW c, Become(t, c), c.handle = i
  PROVE  P!Leaves(StreamOf(t, i), d) /\ Seekable(Calling') /\ DataIs'
<1>1. data' = t.data /\ open' = AbsOf(t) /\ call' = c
  BY BecomeAbs
<1>2. DOMAIN open = Named(Calling) /\ \A h \in Named(Calling) : open[h] = StreamOf(Calling, h)
  BY OpenIsAbs DEF AbsOf
<1>3. Named(t) = Named(Calling) \union {i} /\ \A h \in Named(Calling) \ {i} : StreamOf(t, h) = StreamOf(Calling, h)
  BY DEF Like, Reached
<1>4. open' = [h \in DOMAIN open \union {call'.handle} |-> IF h = call'.handle THEN StreamOf(t, i) ELSE open[h]]
  <2>1. DOMAIN open \union {call'.handle} = Named(t)
    BY <1>1, <1>2, <1>3
  <2>2. \A h \in Named(t) : StreamOf(t, h) = IF h = call'.handle THEN StreamOf(t, i) ELSE open[h]
    BY <1>1, <1>2, <1>3
  <2> QED
    BY Zenon, <1>1, <2>1, <2>2 DEF AbsOf
<1>5. data' = [data EXCEPT ![n] = d]
  <2>1. s.data = [data EXCEPT ![n] = s.data[n]]
    BY DEF Reached
  <2> DEFINE x == s.data[n]
             e == [data EXCEPT ![n] = x]
  <2>2. [e EXCEPT ![n] = d] = [data EXCEPT ![n] = d]
    OBVIOUS
  <2>3. s.data = e
    BY <2>1
  <2> HIDE DEF x, e
  <2> QED
    BY <1>1, <2>2, <2>3
<1>6. StreamOf(t, i).name = n
  BY DEF StreamOf, Like, Reached
<1>7. P!Leaves(StreamOf(t, i), d)
  BY <1>4, <1>5, <1>6 DEF P!Leaves
<1> QED
  BY <1>5, <1>7, SeekableNext, DataStays

(* Positions of C streams are none of a stream of the reference.            *)
LEMMA KeptStreams ==
  ASSUME NEW N, NEW s, TableSound(N, s, {}), NEW t, Kept(s, t), t.file = s.file
  PROVE  SameStreams(s, t) /\ (Seekable(s) => Seekable(t))
<1>1. Named(t) = Named(s)
  BY DEF Named
<1>2. ASSUME NEW h \in Named(s)
      PROVE  StreamOf(t, h) = StreamOf(s, h) /\ (Seekable(s) => Seekable(t))
  <2>1. s.file[h].f \in DOMAIN s.fp
    BY Live
  <2>2. Appends(t, h) = Appends(s, h)
    BY <2>1 DEF Appends, Kept
  <2>3. Seeks(t, h) = Seeks(s, h) /\ Failed(t, h) = Failed(s, h)
    BY DEF Seeks, Failed
  <2>4. StreamOf(t, h) = StreamOf(s, h)
    BY <2>2, <2>3, StreamIs
  <2>5. Seekable(s) => Seekable(t)
    BY SameTableMoves, MovesSeekable
  <2> QED
    BY <2>4, <2>5
<1>3. Seekable(s) => Seekable(t)
  BY SameTableMoves, MovesSeekable
<1> QED
  BY <1>1, <1>2, <1>3 DEF SameStreams

LEMMA KeptLeft ==
  ASSUME NEW s, Left(s), NEW t, Kept(s, t), t.file = s.file, t.data = s.data
  PROVE  Left(t)
<1>1. TableSound(Names, s, {}) /\ Seekable(s) /\ SameStreams(Calling, s) /\ s.data = data
  BY DEF Left
<1>2. TableSound(Names, t, {})
  BY <1>1, KeptSound
<1>3. SameStreams(s, t) /\ Seekable(t)
  BY <1>1, KeptStreams
<1>4. SameStreams(Calling, t)
  BY <1>1, <1>3 DEF SameStreams
<1> QED
  BY <1>1, <1>2, <1>3, <1>4 DEF Left

LEMMA OthersMeet ==
  ASSUME DataIs, NEW s, Left(s), NEW c, Become(s, c), c.what \in {"SEEK", "EOF", "ERROR"}
  PROVE  Meets
<1>1. call' = c
  BY DEF Become
<1>2. P!Others /\ Seekable(Calling') /\ DataIs'
  BY <1>1, LeftMeets DEF P!Others
<1> QED
  BY <1>2 DEF Meets, P!Next

LEMMA EofMeets ==
  ASSUME TableSound(Names, Calling, {}), Seekable(Calling), DataIs, NEW r, R_eof(r)
  PROVE  Meets
<1> DEFINE i == find_file(Calling, r)
           c == [None EXCEPT !.what = "EOF", !.value = IF i = -1 THEN -1 ELSE IF fp[file[i].f].eof THEN 1 ELSE 0]
<1>1. Become(Calling, c)
  BY Zenon DEF R_eof
<1>2. c.what = "EOF"
  BY DEF None
<1> HIDE DEF c
<1> QED
  BY <1>1, <1>2, CallingLeft, OthersMeet

(* A name that is not found is that of no stream.                           *)
LEMMA NotFound ==
  ASSUME TableSound(Names, Calling, {}), NEW r, r[1] = "name", find_file(Calling, r) = -1
  PROVE  P!OpenAs(r[2]) = {}
<1> DEFINE found == {h \in Named(Calling) : Calling.file[h].name = r[2]}
<1>1. find_file(Calling, r) = IF found # {} THEN Min(found) ELSE -1
  BY DEF find_file
<1>2. \A j \in Named(Calling) : j \in Nat
  BY NamedNat
<1>3. found # {} => Min(found) \in Nat
  <2>1. found \subseteq Nat
    BY <1>2
  <2> QED
    BY <2>1, LeastNat
<1>4. P!OpenAs(r[2]) = found
  BY OpenAsIn
<1> QED
  BY <1>1, <1>3, <1>4

LEMMA StatusMeets ==
  ASSUME TableSound(Names, Calling, {}), Seekable(Calling), DataIs, Faults = {}, NEW r \in Refs, R_stream_status(r)
  PROVE  Meets
<1> DEFINE i == find_file(Calling, r)
           v == IF i = -1 THEN "UNKNOWN"
                ELSE IF fp[file[i].f].eof \/ "NOTREADY" \in file[i].flags THEN "NOTREADY" ELSE "READY"
           c == [None EXCEPT !.what = "STATUS", !.handle = i, !.name = NameOf(Calling, r), !.value = v]
<1>1. i # ERR_FILE_NOT_OPENED /\ Become(Calling, c)
  BY Zenon DEF R_stream_status
<1>2. c.what = "STATUS" /\ c.handle = i /\ c.name = NameOf(Calling, r) /\ c.value = v
  BY DEF None
<1>3. \/ i \in Named(Calling) /\ i \in Nat
      \/ i = -1 /\ r[1] = "name"
  BY <1>1, FindIs
<1>4. i = -1 => P!OpenAs(r[2]) = {}
  BY <1>3, NotFound
<1> HIDE DEF c, i
<1>5. call' = c
  BY <1>1 DEF Become
<1>6. P!Keeps /\ Seekable(Calling') /\ DataIs'
  BY <1>1, CallingLeft, LeftMeets
<1>7. DOMAIN open = Named(Calling) /\ \A h \in Named(Calling) : open[h] = StreamOf(Calling, h)
  BY OpenIsAbs DEF AbsOf
<1>8. CASE i \in Named(Calling) /\ i # -1
  <2>1. P!Found
    BY <1>2, <1>5, <1>7, <1>8 DEF P!Found
  <2>2. open[i].failed => v = "NOTREADY"
    <3>1. open[i].failed => Failed(Calling, i)
      BY <1>7, <1>8 DEF StreamOf
    <3> QED
      BY <1>8, <3>1 DEF Failed, Calling
  <2>3. P!Status
    BY <1>2, <1>5, <1>6, <2>1, <2>2 DEF P!Status
  <2> QED
    BY <1>6, <2>3 DEF Meets, P!Next
<1>9. CASE i = -1
  <2>1. ~ P!Found
    <3>1. -1 \notin Named(Calling)
      BY NamedNat
    <3> QED
      BY <1>2, <1>5, <1>7, <1>9, <3>1 DEF P!Found
  <2>2. c.name = r[2] /\ v = "UNKNOWN"
    <3>1. r[1] = "name"
      BY <1>3, <1>9, NamedNat
    <3>2. NameOf(Calling, r) = r[2]
      BY <3>1 DEF NameOf
    <3> QED
      BY <1>2, <1>9, <3>2
  <2>3. P!Status
    BY <1>2, <1>4, <1>5, <1>6, <1>9, <2>1, <2>2 DEF P!Status
  <2> QED
    BY <1>6, <2>3 DEF Meets, P!Next
<1> QED
  BY <1>3, <1>8, <1>9

(* A stream that is closed is one less.                                     *)
LEMMA ClosedAbs ==
  ASSUME TableSound(Names, Calling, {}), NEW i \in Named(Calling), i \notin {FSTDIN, FSTDOUT}
  PROVE  AbsOf(close_file(Calling, i)) = P!Without(i)
<1> DEFINE t == close_file(Calling, i)
<1>1. /\ Named(t) = Named(Calling) \ {i}
      /\ \A h \in Named(Calling) \ {i} : StreamOf(t, h) = StreamOf(Calling, h)
  BY ClosedStreams
<1>2. DOMAIN open = Named(Calling) /\ \A h \in Named(Calling) : open[h] = StreamOf(Calling, h)
  BY OpenIsAbs DEF AbsOf
<1> HIDE DEF t
<1>3. AbsOf(t) = [h \in DOMAIN open \ {i} |-> open[h]]
  BY <1>1, <1>2 DEF AbsOf
<1> QED
  BY <1>3 DEF P!Without, t

LEMMA CloseMeets ==
  ASSUME TableSound(Names, Calling, {}), Seekable(Calling), DataIs, Faults = {}, NEW r \in Refs, R_close(r)
  PROVE  Meets
<1> DEFINE i == find_file(Calling, r)
           e == [None EXCEPT !.what = "ERROR", !.value = ERR_FILE_NOT_OPENED]
           c == [None EXCEPT !.what = "CLOSE", !.handle = i]
           t == close_file(Calling, i)
<1>0. e.what = "ERROR" /\ c.what = "CLOSE" /\ c.handle = i
  BY DEF None
<1>1. CASE i < 0
  <2>1. Become(Calling, e)
    BY <1>1 DEF R_close
  <2> HIDE DEF e
  <2> QED
    BY <1>0, <2>1, CallingLeft, OthersMeet
<1>2. CASE ~(i < 0)
  <2>1. Become(t, c)
    BY <1>2 DEF R_close
  <2>2. i \in Named(Calling) /\ i \notin {FSTDIN, FSTDOUT}
    BY <1>2, FindIs DEF ERR_FILE_NOT_OPENED
  <2>3. t.data = Calling.data /\ Seekable(t)
    BY <2>2, ClosedStreams
  <2>4. AbsOf(t) = P!Without(i)
    BY <2>2, ClosedAbs
  <2> HIDE DEF c, t, i
  <2>5. data' = t.data /\ open' = AbsOf(t) /\ call' = c
    BY <2>1, BecomeAbs
  <2>6. data' = data
    BY <2>3, <2>5 DEF Calling
  <2>7. Seekable(Calling') /\ DataIs'
    BY <2>1, <2>3, <2>6, SeekableNext, DataStays
  <2>8. P!Found
    BY <1>0, <2>2, <2>5, OpenIsAbs DEF P!Found, AbsOf
  <2>9. P!Close
    BY <1>0, <2>4, <2>5, <2>6, <2>8 DEF P!Close
  <2> QED
    BY <2>7, <2>9 DEF Meets, P!Next
<1> QED
  BY <1>1, <1>2

LEMMA SeekMeets ==
  ASSUME TableSound(Names, Calling, {}), Seekable(Calling), DataIs, Faults = {}, NEW r \in Uses, NEW off \in Int,
         NEW whence \in {"TOF", "CUR", "EOF"}, R_seek(r, off, whence)
  PROVE  Meets
<1> DEFINE i == find_file(Calling, r)
           f == file[i].f
           from == CASE whence = "TOF" -> 0 [] whence = "CUR" -> fp[f].pos [] whence = "EOF" -> Len(Content(Calling, f))
           t == IF Seeks(Calling, i) /\ from + off >= 0 THEN fseek(Calling, f, from + off) ELSE Calling
           e == [None EXCEPT !.what = "ERROR", !.value = ERR_FILE_NOT_OPENED]
           c == [None EXCEPT !.what = "SEEK", !.value = t.fp[f].pos]
<1>0. e.what = "ERROR" /\ c.what = "SEEK"
  BY DEF None
<1>1. (i < 0 /\ Become(Calling, e)) \/ (~(i < 0) /\ Become(t, c))
  BY Zenon DEF R_seek
<1> HIDE DEF e, c
<1>2. CASE i < 0 /\ Become(Calling, e)
  BY <1>0, <1>2, CallingLeft, OthersMeet
<1>3. CASE ~(i < 0) /\ Become(t, c)
  <2>1. i \in Named(Calling) /\ Calling.file[i].f = f /\ Calling.fp = fp
    BY <1>3, UsesFound DEF Calling
  <2>2. f \in DOMAIN Calling.fp
    BY <2>1, Live
  <2>3. from \in Nat
    <3>1. Len(Content(Calling, f)) \in Nat
      BY <2>2, ContentIs
    <3>2. fp[f].pos \in Nat
      BY <2>1, <2>2, Parts
    <3> QED
      BY <3>1, <3>2
  <2> HIDE DEF from
  <2>4. CASE Seeks(Calling, i) /\ from + off >= 0
    <3>1. from + off \in Nat
      BY <2>3, <2>4
    <3>2. Left(fseek(Calling, f, from + off))
      BY <2>2, <3>1, SeekDoes, CallingLeft, KeptLeft
    <3>3. t = fseek(Calling, f, from + off)
      BY <2>4
    <3> QED
      BY <1>0, <1>3, <3>2, <3>3, OthersMeet
  <2>5. CASE ~(Seeks(Calling, i) /\ from + off >= 0)
    <3>1. t = Calling
      BY <2>5
    <3> QED
      BY <1>0, <1>3, <3>1, CallingLeft, OthersMeet
  <2> QED
    BY <2>4, <2>5
<1> QED
  BY <1>1, <1>2, <1>3

LEMMA DoneMeets ==
  ASSUME DataIs, RxDoneFiles
  PROVE  P!Next /\ DataIs'
<1>1. file' = << >> /\ data' = data /\ call'.what = "END"
  BY DEF RxDoneFiles, None
<1>2. {h \in DOMAIN file' : file'[h].name # ""} = {}
  BY <1>1
<1>3. open' = [h \in {} |-> 0]
  BY <1>2 DEF open
<1>4. P!Ends
  BY <1>1, <1>3 DEF P!Ends
<1> QED
  BY <1>1, <1>4, DataStays DEF P!Next

(* How a stream differs from what it was.                                   *)
SetFailed(o, x) == [o EXCEPT !.failed = x]
SetRead(o, q, x) == [o EXCEPT !.rpos = q, !.failed = x]
SetLine(o, q, x) == [o EXCEPT !.failed = x, !.rpos = q]
SetWrite(o, v, x) == [o EXCEPT !.wpos = v, !.failed = x]
SetWpos(o, v) == [o EXCEPT !.wpos = v]
SetBoth(o, q, x) == [o EXCEPT !.rpos = q, !.wpos = q, !.failed = x]

LEMMA StreamChange ==
  ASSUME NEW s, NEW i \in Named(s), NEW t, Like(s, t, i), NEW o, o = StreamOf(s, i),
         NEW q, t.file[i].rpos = q, NEW v, t.file[i].wpos = v, NEW x, Failed(t, i) = x
  PROVE  /\ q = s.file[i].rpos /\ v = s.file[i].wpos => StreamOf(t, i) = SetFailed(o, x)
         /\ v = s.file[i].wpos => /\ StreamOf(t, i) = SetRead(o, q, x)
                                 /\ StreamOf(t, i) = SetLine(o, q, x)
         /\ q = s.file[i].rpos => StreamOf(t, i) = SetWrite(o, v, x)
         /\ q = s.file[i].rpos /\ x = Failed(s, i) => StreamOf(t, i) = SetWpos(o, v)
<1>1. PICK n, r, w, a, p, y : /\ n = s.file[i].name /\ r = s.file[i].rpos /\ w = s.file[i].wpos
                             /\ a = Appends(s, i) /\ p = Seeks(s, i) /\ y = Failed(s, i)
  BY Zenon
<1>3. t.file[i].name = n /\ Appends(t, i) = a /\ Seeks(t, i) = p
  BY Zenon, <1>1 DEF Like
<1>4. StreamOf(s, i) = Str(n, r, w, a, p, y)
  BY Zenon, <1>1, StreamIs
<1>5. StreamOf(t, i) = Str(n, q, v, a, p, x)
  BY Zenon, <1>3, StreamIs
<1> DEFINE b == [o EXCEPT !.rpos = q]
           c == [o EXCEPT !.wpos = v]
           d == [o EXCEPT !.failed = x]
<1>6. /\ b = Str(n, q, w, a, p, y) /\ c = Str(n, r, v, a, p, y) /\ d = Str(n, r, w, a, p, x)
  BY <1>4, StrSet
<1> HIDE DEF b, c, d, SetFailed, SetRead, SetLine, SetWrite, SetWpos
<1>8. [b EXCEPT !.failed = x] = Str(n, q, w, a, p, x) /\ [d EXCEPT !.rpos = q] = Str(n, q, w, a, p, x)
  BY <1>6, StrSet
<1>9. [c EXCEPT !.failed = x] = Str(n, r, v, a, p, x)
  BY <1>6, StrSet
<1> QED
  BY Zenon, <1>1, <1>5, <1>6, <1>8, <1>9 DEF b, c, d, SetFailed, SetRead, SetLine, SetWrite, SetWpos

LEMMA StreamReset ==
  ASSUME NEW s, NEW i \in Named(s), NEW t, Like(s, t, i), NEW o, o = StreamOf(s, i),
         NEW q, t.file[i].rpos = q, t.file[i].wpos = q, NEW x, Failed(t, i) = x
  PROVE  StreamOf(t, i) = SetBoth(o, q, x)
<1>1. PICK n, r, w, a, p, y : /\ n = s.file[i].name /\ r = s.file[i].rpos /\ w = s.file[i].wpos
                             /\ a = Appends(s, i) /\ p = Seeks(s, i) /\ y = Failed(s, i)
  BY Zenon
<1>2. t.file[i].name = n /\ Appends(t, i) = a /\ Seeks(t, i) = p
  BY Zenon, <1>1 DEF Like
<1>3. StreamOf(s, i) = Str(n, r, w, a, p, y) /\ StreamOf(t, i) = Str(n, q, q, a, p, x)
  BY Zenon, <1>1, <1>2, StreamIs
<1> DEFINE b == [o EXCEPT !.rpos = q]
           e == [b EXCEPT !.wpos = q]
<1>4. b = Str(n, q, w, a, p, y)
  BY <1>3, StrSet
<1> HIDE DEF b
<1>5. e = Str(n, q, q, a, p, y)
  BY <1>4, StrSet
<1> HIDE DEF e
<1>6. [e EXCEPT !.failed = x] = Str(n, q, q, a, p, x)
  BY <1>5, StrSet
<1> QED
  BY Zenon, <1>3, <1>6 DEF b, e, SetBoth

LEMMA ResetMeets ==
  ASSUME TableSound(Names, Calling, {}), Seekable(Calling), DataIs, Faults = {}, NEW r \in Uses, R_stream_reset(r)
  PROVE  Meets
<1> DEFINE i == find_file(Calling, r)
           s == Calling
           a == Ready(s, i)
           b == [a EXCEPT !.file[i].rpos = 0]
           t == [b EXCEPT !.file[i].wpos = 0]
           f == file[i].f
           z == IF Seeks(t, i) THEN fseek(t, f, 0) ELSE t
           c == [None EXCEPT !.what = "RESET", !.handle = i]
<1>1. i >= 0 /\ Become(z, c)
  BY Zenon DEF R_stream_reset
<1>2. i \in Named(s) /\ s.file[i].f = f
  BY <1>1, UsesFound DEF Calling
<1>3. c.what = "RESET" /\ c.handle = i
  BY DEF None
<1>4. Moves(s, a, i) /\ a.data = s.data /\ ~ Failed(a, i)
  BY <1>2, ReadyDoes
<1> HIDE DEF a, i, c
<1>5. Kept(s, a)
  BY <1>4 DEF Moves
<1>6. TableSound(Names, a, {}) /\ i \in Named(a)
  BY <1>2, <1>5, KeptLive
<1>7. Moves(a, b, i) /\ b.data = a.data /\ Failed(b, i) = Failed(a, i) /\ b.file[i].rpos = 0
  BY <1>6, RposDoes
<1> HIDE DEF b
<1>8. Kept(a, b)
  BY <1>7 DEF Moves
<1>9. TableSound(Names, b, {}) /\ i \in Named(b)
  BY <1>6, <1>8, KeptLive
<1>10. /\ Moves(b, t, i) /\ t.data = b.data /\ Failed(t, i) = Failed(b, i)
       /\ t.file[i].rpos = b.file[i].rpos /\ t.file[i].wpos = 0
  <2>1. 0 \in Int /\ 0 >= -1
    OBVIOUS
  <2> QED
    BY <1>9, <2>1, WposDoes
<1> HIDE DEF t
<1>11. Kept(b, t)
  BY <1>10 DEF Moves
<1>12. Moves(s, t, i)
  <2>1. Moves(s, b, i)
    BY <1>4, <1>7, MovesThen
  <2> QED
    BY <1>10, <2>1, MovesThen
<1>13. TableSound(Names, t, {}) /\ i \in Named(t) /\ f \in DOMAIN t.fp
  <2>1. Kept(s, t)
    BY <1>12 DEF Moves
  <2> QED
    BY <1>2, <2>1, KeptLive
<1>14. SameStreams(t, z) /\ z.data = t.data /\ (Seekable(t) => Seekable(z))
  <2>1. Kept(t, fseek(t, f, 0)) /\ fseek(t, f, 0).data = t.data /\ fseek(t, f, 0).file = t.file
    BY <1>13, SeekDoes
  <2>2. SameStreams(t, fseek(t, f, 0)) /\ (Seekable(t) => Seekable(fseek(t, f, 0)))
    BY <1>13, <2>1, KeptStreams
  <2>3. SameStreams(t, t)
    BY DEF SameStreams
  <2> QED
    BY <2>1, <2>2, <2>3
<1> HIDE DEF z
<1>15. Seekable(z)
  BY <1>12, <1>14, MovesSeekable
<1>16. data' = data /\ open' = AbsOf(t) /\ call' = c
  <2>1. data' = z.data /\ open' = AbsOf(z) /\ call' = c
    BY <1>1, BecomeAbs
  <2>2. z.data = data
    BY <1>4, <1>7, <1>10, <1>14 DEF Calling
  <2> QED
    BY <1>14, <2>1, <2>2, SameAbs
<1>17. Like(s, t, i)
  BY <1>2, <1>12, MovesLike
<1>18. StreamOf(t, i) = [StreamOf(s, i) EXCEPT !.rpos = 0, !.wpos = 0, !.failed = FALSE]
  <2>1. t.file[i].rpos = 0 /\ t.file[i].wpos = 0
    BY <1>7, <1>10
  <2>2. PICK no : no = FALSE
    OBVIOUS
  <2>3. Failed(t, i) = no
    <3>1. Failed(t, i) = FALSE
      <4>1. ~ Failed(t, i)
        BY <1>4, <1>7, <1>10
      <4> QED
        BY <4>1 DEF Failed
    <3> QED
      BY Zenon, <2>2, <3>1
  <2>4. PICK o : o = StreamOf(s, i)
    OBVIOUS
  <2>5. StreamOf(t, i) = SetBoth(o, 0, no)
    BY <1>2, <1>17, <2>1, <2>3, <2>4, StreamReset
  <2> QED
    BY Zenon, <2>2, <2>4, <2>5 DEF SetBoth
<1>19. open' = [open EXCEPT ![i] = [@ EXCEPT !.rpos = 0, !.wpos = 0, !.failed = FALSE]]
  <2>1. open = [h \in Named(s) |-> StreamOf(s, h)]
    BY OpenIsAbs DEF AbsOf
  <2> DEFINE x == StreamOf(t, i)
  <2>2. AbsOf(t) = [h \in Named(s) |-> IF h = i THEN x ELSE StreamOf(s, h)]
    BY <1>17 DEF AbsOf, Like
  <2> HIDE DEF x
  <2>3. AbsOf(t) = [open EXCEPT ![i] = x]
    BY <1>2, <2>1, <2>2
  <2>4. open[i] = StreamOf(s, i)
    BY <1>2, <2>1
  <2> QED
    BY Zenon, <1>16, <1>18, <2>3, <2>4 DEF x
<1>20. P!Found
  BY <1>2, <1>3, <1>16, OpenIsAbs DEF P!Found, AbsOf
<1>21. P!Reset
  BY <1>3, <1>16, <1>19, <1>20 DEF P!Reset
<1>22. Seekable(Calling') /\ DataIs'
  BY <1>1, <1>15, <1>16, SeekableNext, DataStays
<1> QED
  BY <1>21, <1>22 DEF Meets, P!Next

(* The streams after an open.                                               *)
LEMMA OpenedAbs ==
  ASSUME NEW s, TableSound(Names, s, {}), NEW n \in Names, NEW mode \in Modes, NEW m \in Tried(mode),
         NEW o, TableSound(Names, o.s, {}), Opened(s, o.s, o.i, n, m), CanOpen(s, n, m), OpenedAs(s, n, mode, o, m),
         NEW before, AbsOf(s) = before
  PROVE  /\ o.i \notin DOMAIN before
         /\ AbsOf(o.s) = [h \in DOMAIN before \union {o.i} |-> IF h = o.i THEN P!Stream(n, m) ELSE before[h]]
<1>1. /\ Named(o.s) = Named(s) \union {o.i} /\ o.i \notin Named(s)
      /\ \A h \in Named(s) \ {} : StreamOf(o.s, h) = StreamOf(s, h)
      /\ StreamOf(o.s, o.i) = P!Stream(n, m) /\ o.s.file[o.i].name = n
      /\ o.s.data = [s.data EXCEPT ![n] = IF Truncates(m) THEN << >> ELSE P!Text(s.data[n])]
  BY OpenedStreams
<1>2. DOMAIN before = Named(s) /\ \A h \in Named(s) : before[h] = StreamOf(s, h)
  BY DEF AbsOf
<1>3. \A h \in Named(o.s) : StreamOf(o.s, h) = IF h = o.i THEN P!Stream(n, m) ELSE before[h]
  BY <1>1, <1>2
<1>4. DOMAIN before \union {o.i} = Named(o.s)
  BY <1>1, <1>2
<1>5. AbsOf(o.s) = [h \in DOMAIN before \union {o.i} |-> IF h = o.i THEN P!Stream(n, m) ELSE before[h]]
  BY Zenon, <1>3, <1>4 DEF AbsOf
<1>6. o.i \notin DOMAIN before
  BY <1>1, <1>2
<1> QED
  BY <1>5, <1>6

(* How it was opened is what OPEN and STREAM report.                        *)
LEMMA OpenedMode ==
  ASSUME NEW s, NEW n, NEW mode \in {"r", "r+", "w", "a", "a+"}, NEW m \in Tried(mode), NEW o, OpenedAs(s, n, mode, o, m)
  PROVE  m = (IF Seeks(o.s, o.i) THEN open_mode(mode) ELSE mode)
  BY DEF OpenedAs

(* A data set that was made can be opened to be written.                    *)
LEMMA MadeOpens ==
  ASSUME TableSound(Names, Calling, {}), NEW n \in Names, n \in Plain, data[n] = Absent, NEW m \in {"w+", "a+"}
  PROVE  CanOpen([Calling EXCEPT !.data[n] = << >>], n, m)
<1> DEFINE new == [Calling EXCEPT !.data[n] = << >>]
<1>1. new.fp = Calling.fp /\ Calling.data = data
  BY DEF Calling
<1>2. \A f \in DOMAIN Calling.fp : Calling.fp[f].name # n
  BY <1>1 DEF TableSound, Allowed
<1>3. n \notin Members /\ n \notin Protected /\ n \notin Sysout
  BY KindsAssumption
<1> HIDE DEF new
<1>4. ~ InUse(new, n, m)
  BY <1>1, <1>2 DEF InUse
<1>5. CanOpen(new, n, m)
  BY <1>3, <1>4 DEF CanOpen
<1> QED
  BY <1>5 DEF new

LEMMA OpenMeets ==
  ASSUME TableSound(Names, Calling, {}), Seekable(Calling), DataIs, Faults = {}, NEW n \in Names,
         NEW mode \in {"r", "r+", "w", "a"}, NEW alloc \in {"none", "good", "bad"}, R_open(n, mode, alloc)
  PROVE  Meets
<1> DEFINE writes == mode \in {"w", "a", "w+", "a+"}
           new == [Calling EXCEPT !.data[n] = << >>]
           makes == writes /\ alloc = "good" /\ n \in Plain /\ data[n] = Absent
           made == IF makes THEN new ELSE Calling
           m0 == open_mode(mode)
           c == [None EXCEPT !.what = "OPEN", !.name = n, !.mode = m0, !.value = alloc]
<1>1. /\ c.what = "OPEN" /\ c.handle = -1 /\ c.value = alloc /\ c.mode = m0 /\ c.name = n
  BY DEF None
<1>2. m0 \in {"r", "r+", "w+", "a+"} /\ (writes <=> m0 \in {"w+", "a+"}) /\ mode \in Modes /\ Tried(mode) = {mode, m0}
  BY DEF open_mode, Modes, Tried
<1>3. CASE writes /\ alloc = "bad"
  <2>1. Become(Calling, c)
    BY <1>3 DEF R_open
  <2> HIDE DEF c, m0
  <2>2. call' = c
    BY <2>1 DEF Become
  <2>3. P!Keeps /\ Seekable(Calling') /\ DataIs'
    BY <2>1, CallingLeft, LeftMeets
  <2>4. m0 \notin {"r", "r+"}
    BY <1>2, <1>3
  <2>5. P!Open
    BY <1>1, <1>3, <2>2, <2>3, <2>4 DEF P!Open
  <2> QED
    BY <2>3, <2>5 DEF Meets, P!Next
<1>4. CASE ~(writes /\ alloc = "bad")
  <2> DEFINE d(o) == [c EXCEPT !.handle = o.i, !.mode = IF o.i = -1 \/ Seeks(o.s, o.i) THEN @ ELSE mode]
  <2>1. PICK o \in open_file(made, n, mode) : Become(o.s, d(o))
    BY <1>4, Zenon DEF R_open
  <2>2. /\ d(o).what = "OPEN" /\ d(o).name = n /\ d(o).handle = o.i /\ d(o).value = alloc
        /\ d(o).mode = IF o.i = -1 \/ Seeks(o.s, o.i) THEN m0 ELSE mode
    BY DEF None
  <2> HIDE DEF d, m0
  <2>3. data[n] = Absent => Kept(Calling, new) /\ new.file = Calling.file /\ new.data = [data EXCEPT ![n] = << >>]
    BY MadeKept DEF Calling
  <2> HIDE DEF new
  <2>4. TableSound(Names, made, {}) /\ SameStreams(Calling, made) /\ Seekable(made)
    <3>1. CASE makes
      <4>1. Kept(Calling, new) /\ new.file = Calling.file /\ made = new
        BY <2>3, <3>1
      <4> QED
        BY <4>1, KeptSound, KeptStreams
    <3>2. CASE ~ makes
      BY <3>2 DEF SameStreams
    <3> QED
      BY <3>1, <3>2
  <2> HIDE DEF made
  <2>5. /\ TableSound(Names, o.s, {})
        /\ \/ o.i = -1 /\ Grew(made, o.s) /\ \A m \in Tried(mode) : ~ CanOpen(made, n, m)
           \/ o.i # -1 /\ \E m \in Tried(mode) :
                Opened(made, o.s, o.i, n, m) /\ CanOpen(made, n, m) /\ OpenedAs(made, n, mode, o, m)
    BY <1>2, <2>1, <2>4, OpenIs
  <2>6. data' = o.s.data /\ open' = AbsOf(o.s) /\ call' = d(o)
    BY <2>1, BecomeAbs
  <2>7. CASE o.i = -1
    <3>1. ~ CanOpen(made, n, m0)
      BY <1>2, <2>5, <2>7
    <3>2. ~ makes
      <4> SUFFICES ASSUME makes PROVE FALSE
        OBVIOUS
      <4>1. CanOpen(new, n, m0)
        BY <1>2, MadeOpens DEF new
      <4> QED
        BY <3>1, <4>1 DEF made
    <3>3. made = Calling
      BY <3>2 DEF made
    <3>4. P!Refusable(n, m0)
      BY <1>2, <3>1, <3>3, RefusedIs
    <3>5. Left(o.s)
      <4>1. SameStreams(Calling, o.s) /\ Seekable(o.s) /\ o.s.data = Calling.data
        BY <2>4, <2>5, <2>7, <3>3, GrewStreams DEF Grew
      <4> QED
        BY <2>5, <4>1 DEF Left, Calling
    <3>6. P!Keeps /\ Seekable(Calling') /\ DataIs'
      BY <2>1, <3>5, LeftMeets
    <3>7. P!Open
      BY <2>2, <2>6, <2>7, <3>4, <3>6 DEF P!Open
    <3> QED
      BY <3>6, <3>7 DEF Meets, P!Next
  <2>8. CASE o.i # -1
    <3>1. PICK m \in Tried(mode) :
             Opened(made, o.s, o.i, n, m) /\ CanOpen(made, n, m) /\ OpenedAs(made, n, mode, o, m)
      BY <2>5, <2>8
    <3>2. d(o).mode = m
      <4>1. m = (IF Seeks(o.s, o.i) THEN m0 ELSE mode)
        BY <3>1, OpenedMode DEF m0
      <4> QED
        BY <2>2, <2>8, <4>1
    <3>3. AbsOf(made) = open
      BY <2>4, SameAbs, OpenIsAbs
    <3>4. /\ o.i \notin DOMAIN open
          /\ AbsOf(o.s) = [h \in DOMAIN open \union {o.i} |-> IF h = o.i THEN P!Stream(n, m) ELSE open[h]]
      BY <1>2, <2>4, <2>5, <3>1, <3>3, OpenedAbs
    <3>5. o.s.data = [made.data EXCEPT ![n] = IF Truncates(m) THEN << >> ELSE P!Text(made.data[n])]
      BY <1>2, <2>4, <2>5, <3>1, OpenedStreams
    <3>6. o.s.data = [data EXCEPT ![n] = IF Truncates(m) THEN << >> ELSE P!Text(data[n])]
      <4>1. n \in DOMAIN data
        BY DEF Names
      <4>2. CASE makes
        <5>1. made.data = [data EXCEPT ![n] = << >>] /\ data[n] = Absent
          BY <2>3, <4>2 DEF made
        <5>2. made.data[n] = << >> /\ P!Text(<< >>) = << >> /\ P!Text(data[n]) = << >>
          BY <4>1, <5>1 DEF P!Text, Absent, P!Absent
        <5> DEFINE e == [data EXCEPT ![n] = << >>]
        <5>3. [e EXCEPT ![n] = << >>] = [data EXCEPT ![n] = << >>]
          OBVIOUS
        <5>4. o.s.data = [e EXCEPT ![n] = << >>]
          BY Zenon, <3>5, <5>1, <5>2
        <5> QED
          BY Zenon, <5>2, <5>3, <5>4
      <4>3. CASE ~ makes
        <5>1. made.data = data
          BY <4>3 DEF made, Calling
        <5> QED
          BY Zenon, <3>5, <5>1
      <4> QED
        BY <4>2, <4>3
    <3>7. P!Opened(m, open)
      <4>1. call'.handle = o.i /\ call'.name = n
        BY <2>2, <2>6
      <4>2. call'.handle \notin DOMAIN open
        BY <3>4, <4>1
      <4>3. open' = [h \in DOMAIN open \union {call'.handle} |->
                       IF h = call'.handle THEN P!Stream(call'.name, m) ELSE open[h]]
        BY Zenon, <2>6, <3>4, <4>1
      <4>4. data' = [data EXCEPT ![call'.name] = IF m \in {"w", "w+"} THEN << >> ELSE P!Text(data[call'.name])]
        BY Zenon, <2>6, <3>6, <4>1 DEF Truncates
      <4> QED
        BY Zenon, <4>2, <4>3, <4>4 DEF P!Opened
    <3>8. ~(alloc = "bad" /\ m \notin {"r", "r+"})
      BY <1>2, <1>4, <3>1
    <3>9. P!Open
      BY <2>2, <2>6, <2>8, <3>2, <3>7, <3>8 DEF P!Open
    <3>10. Seekable(o.s)
      BY <1>2, <2>4, <2>5, <3>1, OpenedSeekable
    <3>11. Seekable(Calling') /\ DataIs'
      BY <2>1, <2>6, <3>6, <3>10, SeekableNext, DataStays
    <3> QED
      BY <3>9, <3>11 DEF Meets, P!Next
  <2> QED
    BY <2>7, <2>8
<1> QED
  BY <1>3, <1>4

(* A slot that is found has the name that was asked for.                    *)
LEMMA FoundName ==
  ASSUME TableSound(Names, Calling, {}), Faults = {}, NEW r \in Refs,
         find_file(Calling, r) \in Named(Calling), find_file(Calling, r) >= 0
  PROVE  NameOf(Calling, r) = Calling.file[find_file(Calling, r)].name
<1> DEFINE i == find_file(Calling, r)
           found == {j \in Named(Calling) : IF r[1] = "handle" THEN j = r[2] ELSE Calling.file[j].name = r[2]}
<1>1. i = IF found # {} THEN Min(found) ELSE IF r[1] = "handle" THEN ERR_FILE_NOT_OPENED ELSE -1
  BY DEF find_file
<1>2. found # {}
  BY <1>1 DEF ERR_FILE_NOT_OPENED
<1>3. found \subseteq Nat
  BY NamedNat
<1>4. i \in found
  BY <1>1, <1>2, <1>3, LeastNat
<1> HIDE DEF i
<1>5. CASE r[1] = "name"
  BY <1>4, <1>5 DEF NameOf, i
<1>6. CASE r[1] = "handle"
  BY <1>4, <1>6 DEF NameOf, i
<1>7. r[1] = "name" \/ r[1] = "handle"
  BY DEF Refs, Uses
<1> QED
  BY <1>5, <1>6, <1>7

LEMMA StreamOpenMeets ==
  ASSUME TableSound(Names, Calling, {}), Seekable(Calling), DataIs, Faults = {}, NEW r \in Refs,
         NEW mode \in {"r", "w", "a+"}, R_stream_open(r, mode)
  PROVE  Meets
<1> DEFINE i == find_file(Calling, r)
           closed == IF i >= 0 THEN close_file(Calling, i) ELSE Calling
           n == IF r[1] = "name" THEN r[2] ELSE ""
           c == [None EXCEPT !.what = "REOPEN", !.name = NameOf(Calling, r), !.old = i]
           e == [None EXCEPT !.what = "ERROR", !.value = i]
           before == IF i = -1 THEN open ELSE P!Without(i)
<1>0. e.what = "ERROR"
  BY DEF None
<1>1. CASE i = ERR_FILE_NOT_OPENED
  <2>1. Become(Calling, e)
    BY <1>1 DEF R_stream_open
  <2> HIDE DEF e
  <2> QED
    BY <1>0, <2>1, CallingLeft, OthersMeet
<1>2. CASE i # ERR_FILE_NOT_OPENED
  <2> DEFINE d(o) == [c EXCEPT !.handle = o.i,
                                !.mode = IF o.i # -1 /\ Seeks(o.s, o.i) THEN open_mode(mode) ELSE mode,
                                !.value = IF o.i = -1 THEN ERR_CANT_OPEN_FILE ELSE 0]
  <2>1. PICK o \in open_file(closed, n, mode) : Become(o.s, d(o))
    BY <1>2, Zenon DEF R_stream_open
  <2>2. /\ d(o).what = "REOPEN" /\ d(o).name = NameOf(Calling, r) /\ d(o).handle = o.i /\ d(o).old = i
        /\ d(o).mode = IF o.i # -1 /\ Seeks(o.s, o.i) THEN open_mode(mode) ELSE mode
    BY DEF None
  <2>3. \/ i \in Named(Calling) /\ i \in Nat /\ i \notin {FSTDIN, FSTDOUT}
        \/ i = -1 /\ r[1] = "name" /\ r[2] \in Names
    BY <1>2, FindIs
  <2>11. r[1] = "name" /\ i = -1 => P!OpenAs(r[2]) = {}
    BY NotFound
  <2>12. i \in Named(Calling) /\ i >= 0 => NameOf(Calling, r) = Calling.file[i].name
    BY FoundName
  <2> HIDE DEF i, closed, before, n, d
  <2>13. \/ i \in Named(Calling) /\ i \in Nat /\ i \notin {FSTDIN, FSTDOUT} /\ i # -1 /\ i >= 0
         \/ i = -1 /\ ~(i >= 0) /\ r[1] = "name" /\ r[2] \in Names
    <3>1. i \in Nat => i # -1 /\ i >= 0
      OBVIOUS
    <3>2. i = -1 => ~(i >= 0)
      OBVIOUS
    <3> QED
      BY Zenon, <2>3, <3>1, <3>2
  <2>4. IF i = -1 THEN P!OpenAs(NameOf(Calling, r)) = {} ELSE open[i].name = NameOf(Calling, r)
    <3>1. CASE i = -1
      <4>1. r[1] = "name"
        BY <2>13, <3>1
      <4>2. NameOf(Calling, r) = r[2]
        BY <4>1 DEF NameOf
      <4> QED
        BY <2>11, <3>1, <4>1, <4>2
    <3>2. CASE i # -1
      <4>1. NameOf(Calling, r) = Calling.file[i].name
        BY <2>12, <2>13, <3>2
      <4> QED
        BY <2>13, <3>2, <4>1, OpenIsAbs DEF AbsOf, StreamOf
    <3> QED
      BY <3>1, <3>2
  <2>5. TableSound(Names, closed, {}) /\ AbsOf(closed) = before /\ Seekable(closed) /\ closed.data = data
    <3>1. CASE i >= 0 /\ i \in Named(Calling) /\ i \notin {FSTDIN, FSTDOUT} /\ i # -1
      <4>1. closed = close_file(Calling, i) /\ before = P!Without(i)
        BY <3>1 DEF closed, before
      <4>2. AbsOf(close_file(Calling, i)) = P!Without(i)
        BY <3>1, ClosedAbs
      <4>3. TableSound(Names, close_file(Calling, i), {})
        BY <3>1, CloseSound
      <4>4. close_file(Calling, i).data = Calling.data /\ Seekable(close_file(Calling, i))
        BY <3>1, ClosedStreams
      <4>5. Calling.data = data
        BY DEF Calling
      <4> QED
        BY <4>1, <4>2, <4>3, <4>4, <4>5
    <3>2. CASE i = -1 /\ ~(i >= 0)
      <4>1. closed = Calling /\ before = open
        BY <3>2 DEF closed, before
      <4>2. open = AbsOf(Calling) /\ Calling.data = data
        BY OpenIsAbs DEF Calling
      <4> QED
        BY <4>1, <4>2
    <3> QED
      BY <2>13, <3>1, <3>2
  <2>6. mode \in Modes /\ mode \in {"r", "r+", "w", "a", "a+"}
    BY DEF Modes
  <2>7. /\ TableSound(Names, o.s, {})
        /\ \/ o.i = -1 /\ Grew(closed, o.s)
           \/ o.i # -1 /\ \E m \in Tried(mode) :
                Opened(closed, o.s, o.i, n, m) /\ CanOpen(closed, n, m) /\ OpenedAs(closed, n, mode, o, m)
    BY <2>1, <2>5, <2>6, OpenIs
  <2>8. data' = o.s.data /\ open' = AbsOf(o.s) /\ call' = d(o)
    BY <2>1, BecomeAbs
  <2>9. CASE o.i = -1
    <3>1. SameStreams(closed, o.s) /\ Seekable(o.s) /\ o.s.data = data
      BY <2>5, <2>7, <2>9, GrewStreams DEF Grew
    <3>2. open' = before /\ data' = data
      BY <2>5, <2>8, <3>1, SameAbs
    <3>3. P!Reopen
      BY <2>2, <2>4, <2>8, <2>9, <3>2 DEF P!Reopen, before
    <3>4. Seekable(Calling') /\ DataIs'
      BY <2>1, <3>1, <3>2, SeekableNext, DataStays
    <3> QED
      BY <3>3, <3>4 DEF Meets, P!Next
  <2>10. CASE o.i # -1
    <3>1. PICK m \in Tried(mode) :
             Opened(closed, o.s, o.i, n, m) /\ CanOpen(closed, n, m) /\ OpenedAs(closed, n, mode, o, m)
      BY <2>7, <2>10
    <3>2. n \in Names /\ NameOf(Calling, r) = n
      <4>1. n \in Names
        BY <3>1 DEF CanOpen
      <4>2. "" \notin Names
        BY StdNamesApart
      <4>3. r[1] = "name"
        BY <4>1, <4>2 DEF n
      <4> QED
        BY <4>1, <4>3 DEF NameOf, n
    <3>3. d(o).mode = m
      <4>1. m = (IF Seeks(o.s, o.i) THEN open_mode(mode) ELSE mode)
        BY <2>6, <3>1, OpenedMode
      <4> QED
        BY <2>2, <2>10, <4>1
    <3>4. /\ o.i \notin DOMAIN before
          /\ AbsOf(o.s) = [h \in DOMAIN before \union {o.i} |-> IF h = o.i THEN P!Stream(n, m) ELSE before[h]]
      BY <2>5, <2>6, <2>7, <3>1, <3>2, OpenedAbs
    <3>5. o.s.data = [closed.data EXCEPT ![n] = IF Truncates(m) THEN << >> ELSE P!Text(closed.data[n])]
      BY <2>5, <2>6, <2>7, <3>1, <3>2, OpenedStreams
    <3>6. o.s.data = [data EXCEPT ![n] = IF Truncates(m) THEN << >> ELSE P!Text(data[n])]
      BY Zenon, <2>5, <3>5
    <3>7. P!Opened(m, before)
      <4>1. call'.handle = o.i /\ call'.name = n
        BY <2>2, <2>8, <3>2
      <4>2. call'.handle \notin DOMAIN before
        BY <3>4, <4>1
      <4>3. open' = [h \in DOMAIN before \union {call'.handle} |->
                       IF h = call'.handle THEN P!Stream(call'.name, m) ELSE before[h]]
        BY Zenon, <2>8, <3>4, <4>1
      <4>4. data' = [data EXCEPT ![call'.name] = IF m \in {"w", "w+"} THEN << >> ELSE P!Text(data[call'.name])]
        BY Zenon, <2>8, <3>6, <4>1 DEF Truncates
      <4> QED
        BY Zenon, <4>2, <4>3, <4>4 DEF P!Opened
    <3>8. P!Reopen
      <4>1. call'.what = "REOPEN" /\ call'.name = NameOf(Calling, r) /\ call'.handle = o.i /\ call'.old = i /\ call'.mode = m
        BY <2>2, <2>8, <3>3
      <4>2. before = IF call'.old = -1 THEN open ELSE P!Without(call'.old)
        BY <4>1 DEF before
      <4> QED
        BY <2>4, <2>10, <3>7, <4>1, <4>2 DEF P!Reopen
    <3>9. Seekable(o.s)
      BY <2>5, <2>6, <2>7, <3>1, <3>2, OpenedSeekable
    <3>10. Seekable(Calling') /\ DataIs'
      BY <2>1, <2>8, <3>6, <3>9, SeekableNext, DataStays
    <3> QED
      BY <3>8, <3>10 DEF Meets, P!Next
  <2> QED
    BY <2>9, <2>10
<1> QED
  BY <1>1, <1>2
=============================================================================
