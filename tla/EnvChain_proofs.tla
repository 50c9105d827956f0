--------------------------- MODULE EnvChain_proofs ---------------------------
(***************************************************************************)
(* Proofs about EnvChain, for any number of copies of BREXX: as long as no *)
(* exec ends under another environment's value in ECTENVBK (Nested), the   *)
(* chain is that of the running execs, in the order in which they joined   *)
(* it, ECTENVBK comes back, and the chain implements ExecChain.            *)
(*                                                                         *)
(* XcUnlink() and BRXEXCOM walk down the chain; the invariant names the    *)
(* list they find, as a function from its positions to the blocks.  What   *)
(* a walk meets at each hop is an induction over the hops, here by the     *)
(* least hop that would be wrong.                                          *)
(***************************************************************************)
EXTENDS EnvChain, FiniteSetTheorems, NaturalsInduction, WellFoundedInduction, TLAPS

(* A set of numbers that is not empty has a least one. *)
LEMMA LeastNat ==
  ASSUME NEW T, T \subseteq Nat, T # {}
  PROVE  \E n \in T : \A m \in T : n <= m
<1> DEFINE R == OpToRel(<, Nat)
<1>1. IsWellFoundedOn(R, Nat)
  BY NatLessThanWellFounded
<1>2. PICK n \in T : \A m \in T : ~(<<m, n>> \in R)
  <2> HIDE DEF R
  <2> QED
    BY <1>1, WFMin
<1>3. R = {ss \in Nat \X Nat : ss[1] < ss[2]}
  BY Zenon DEF OpToRel
<1>4. \A m \in T : ~(m < n)
  <2> HIDE DEF R
  <2> QED
    BY <1>2, <1>3
<1> QED
  BY <1>4

(* The walk is what its definition says: hop by hop down the chain words.   *)
LEMMA WalkHops ==
  ASSUME NEW from
  PROVE  /\ Walk(from)[0] = from
         /\ \A n \in 1 .. MaxHops : Walk(from)[n] = Next13C(Walk(from)[n - 1])
<1> DEFINE Is(f, k) == f = [n \in 0 .. k |-> IF n = 0 THEN from ELSE Next13C(f[n - 1])]
<1>1. \A k \in Nat : \E f : Is(f, k)
  <2> DEFINE T == {k \in Nat : ~ \E f : Is(f, k)}
  <2> SUFFICES ASSUME T # {} PROVE FALSE
    OBVIOUS
  <2> HIDE DEF Is
  <2>1. T \subseteq Nat
    OBVIOUS
  <2> HIDE DEF T
  <2>2. PICK k \in T : \A m \in T : k <= m
    BY <2>1, LeastNat
  <2>3. k \in Nat /\ ~ \E f : Is(f, k)
    BY DEF T
  <2>4. CASE k = 0
    <3> DEFINE f == [n \in 0 .. 0 |-> from]
    <3>1. Is(f, 0)
      BY DEF Is
    <3> QED
      BY <2>3, <2>4, <3>1
  <2>5. CASE k # 0
    <3>1. k - 1 \in Nat /\ k - 1 \notin T
      BY <2>2, <2>3, <2>5
    <3>2. PICK f : Is(f, k - 1)
      BY <3>1 DEF T
    <3> DEFINE g == [n \in 0 .. k |-> IF n = k THEN Next13C(f[k - 1]) ELSE f[n]]
    <3>3. Is(g, k)
      <4>1. \A n \in 0 .. k - 1 : f[n] = IF n = 0 THEN from ELSE Next13C(f[n - 1])
        BY <3>1, <3>2 DEF Is
      <4>2. \A n \in 0 .. k : g[n] = IF n = 0 THEN from ELSE Next13C(g[n - 1])
        BY <2>3, <2>5, <3>1, <4>1
      <4>3. g = [n \in 0 .. k |-> IF n = 0 THEN from ELSE Next13C(g[n - 1])]
        BY <4>2
      <4> QED
        BY <4>3 DEF Is
    <3> QED
      BY <2>3, <3>3
  <2> QED
    BY <2>4, <2>5
<1>2. PICK f : Is(f, MaxHops)
  BY <1>1, HopsSuffice
<1>3. Is(Walk(from), MaxHops)
  <2>1. Walk(from) = CHOOSE at : Is(at, MaxHops)
    BY DEF Walk
  <2> HIDE DEF Is
  <2> QED
    BY <1>2, <2>1
<1> DEFINE w == Walk(from)
<1>4. w = [n \in 0 .. MaxHops |-> IF n = 0 THEN from ELSE Next13C(w[n - 1])]
  BY <1>3
<1> HIDE DEF w
<1>5. w[0] = from /\ \A n \in 1 .. MaxHops : w[n] = Next13C(w[n - 1])
  BY <1>4, HopsSuffice
<1> QED
  BY <1>5 DEF w

-----------------------------------------------------------------------------
(* The list of n blocks from e down, below which there is end.              *)
Below(s, n, i, end) == IF i < n THEN s[i + 1] ELSE end

Listed(s, n) ==
  /\ n \in Nat /\ s \in [1 .. n -> Blocks]
  /\ \A i, j \in 1 .. n : s[i] = s[j] => i = j

Linked(e, s, n, end) ==
  /\ e = Below(s, n, 0, end)
  /\ \A i \in 1 .. n : prevWord[s[i]] = Below(s, n, i, end)

(* The running execs: those above another environment's value, and those    *)
(* it has found.                                                            *)
ChainIs(n, up, m, low) ==
  /\ Listed(up, n) /\ Listed(low, m)
  /\ \A i \in 1 .. n, j \in 1 .. m : up[i] # low[j]
  /\ \A b \in Blocks :
       published[b] <=> (\E i \in 1 .. n : up[i] = b) \/ (\E j \in 1 .. m : low[j] = b)
  /\ \/ saved = off /\ m = 0 /\ Linked(ectenvbk, up, n, found)
     \/ /\ saved # off /\ found = NoBlock
        /\ Linked(ectenvbk, up, n, foreign) /\ Linked(saved, low, m, NoBlock)

(* The inductive invariant.                                                 *)
ChainIndInv ==
  /\ ChainTypeOK
  /\ \A b \in Blocks : published[b] => phase[b] = "run"
  /\ \E n, m \in 0 .. Cardinality(Blocks) :
       \E up \in [1 .. n -> Blocks], low \in [1 .. m -> Blocks] : ChainIs(n, up, m, low)

-----------------------------------------------------------------------------
(* A list of different blocks is no longer than there are blocks.           *)
LEMMA ListShort ==
  ASSUME NEW n, NEW s, Listed(s, n)
  PROVE  n \in 0 .. Cardinality(Blocks) /\ n <= MaxHops
<1>1. n \in Nat /\ IsFiniteSet(Blocks) /\ Cardinality(Blocks) \in Nat
  BY HopsSuffice, FS_CardinalityType DEF Listed
<1>2. s \in Injection(1 .. n, Blocks)
  BY DEF Listed, Injection, IsInjective
<1>3. Cardinality(1 .. n) <= Cardinality(Blocks)
  BY <1>1, <1>2, FS_Injection
<1>4. Cardinality(1 .. n) = n
  <2>1. Cardinality(1 .. n) = IF 1 > n THEN 0 ELSE n - 1 + 1
    BY <1>1, FS_Interval
  <2> QED
    BY <1>1, <2>1
<1> QED
  BY <1>1, <1>3, <1>4, HopsSuffice

(* A walk down a list meets its blocks in their order, and then its end.    *)
LEMMA WalkMeets ==
  ASSUME NEW n, NEW s, NEW from, NEW end, Listed(s, n), Linked(from, s, n, end)
  PROVE  \A k \in 0 .. n : Walk(from)[k] = Below(s, n, k, end)
<1> DEFINE T == {k \in Nat : k <= n /\ Walk(from)[k] # Below(s, n, k, end)}
<1>0. n \in Nat /\ n <= MaxHops /\ MaxHops \in Nat
  BY ListShort, HopsSuffice DEF Listed
<1>1. T = {}
  <2> SUFFICES ASSUME T # {} PROVE FALSE
    OBVIOUS
  <2>1. PICK k \in T : \A j \in T : k <= j
    <3>1. T \subseteq Nat
      OBVIOUS
    <3> HIDE DEF T
    <3> QED
      BY <3>1, LeastNat
  <2>2. k # 0
    BY WalkHops DEF Linked
  <2>3. Walk(from)[k - 1] = Below(s, n, k - 1, end)
    BY <1>0, <2>1, <2>2
  <2>4. k - 1 < n /\ k \in 1 .. n /\ k \in 1 .. MaxHops
    BY <1>0, <2>2
  <2>5. Walk(from)[k - 1] = s[k]
    BY <2>3, <2>4 DEF Below
  <2>6. s[k] \in Blocks /\ prevWord[s[k]] = Below(s, n, k, end)
    BY <2>4 DEF Listed, Linked
  <2>7. Walk(from)[k] = Next13C(s[k])
    BY <2>4, <2>5, WalkHops
  <2> QED
    BY <2>6, <2>7 DEF Next13C
<1> QED
  BY <1>0, <1>1

(* The hops XcUnlink() and BRXEXCOM look at are those of the list.          *)
LEMMA HopsAre ==
  ASSUME NEW n, NEW s, NEW end, Listed(s, n), Linked(ectenvbk, s, n, end), end \notin Blocks,
         \A i \in 1 .. n : phase[s[i]] # "free"
  PROVE  Hops = 0 .. n - 1 /\ \A k \in 0 .. n - 1 : At[k] = s[k + 1]
<1>0. n \in Nat /\ n <= MaxHops /\ MaxHops \in Nat
  BY ListShort, HopsSuffice DEF Listed
<1>1. \A k \in 0 .. n : At[k] = Below(s, n, k, end)
  BY WalkMeets DEF At
<1>2. \A k \in 0 .. n - 1 : At[k] = s[k + 1] /\ XcIsEnv(At[k])
  BY <1>0, <1>1 DEF Below, XcIsEnv, Listed
<1>3. At[n] = end /\ ~XcIsEnv(At[n])
  BY <1>0, <1>1 DEF Below, XcIsEnv
<1>4. ASSUME NEW k \in 0 .. MaxHops - 1
      PROVE  (\A j \in 0 .. k : XcIsEnv(At[j])) <=> k < n
  <2>1. CASE k < n
    BY <1>0, <1>2, <2>1
  <2>2. CASE ~(k < n)
    BY <1>0, <1>3, <2>2
  <2> QED
    BY <2>1, <2>2
<1> HIDE DEF At
<1>5. Hops = {k \in 0 .. MaxHops - 1 : \A j \in 0 .. k : XcIsEnv(At[j])}
  BY DEF Hops
<1>6. Hops = 0 .. n - 1
  BY <1>0, <1>4, <1>5
<1> QED
  BY <1>2, <1>6

(* What the invariant says of the chain in a state, in a form to use.       *)
LEMMA ChainPicked ==
  ASSUME ChainIndInv
  PROVE  \E n, m, up, low : ChainIs(n, up, m, low) /\ \A i \in 1 .. n : phase[up[i]] = "run"
<1>1. PICK n \in 0 .. Cardinality(Blocks), m \in 0 .. Cardinality(Blocks) :
        \E up \in [1 .. n -> Blocks], low \in [1 .. m -> Blocks] : ChainIs(n, up, m, low)
  BY DEF ChainIndInv
<1>2. PICK up \in [1 .. n -> Blocks], low \in [1 .. m -> Blocks] : ChainIs(n, up, m, low)
  BY <1>1
<1>3. \A i \in 1 .. n : phase[up[i]] = "run"
  BY <1>2 DEF ChainIndInv, ChainIs
<1> QED
  BY <1>2, <1>3

LEMMA ChainFound ==
  ASSUME NEW n, NEW m, NEW up, NEW low, ChainIs(n, up, m, low)'
  PROVE  \E k, l \in 0 .. Cardinality(Blocks) :
           \E u \in [1 .. k -> Blocks], w \in [1 .. l -> Blocks] : ChainIs(k, u, l, w)'
<1>1. Listed(up, n) /\ Listed(low, m)
  BY DEF ChainIs
<1>2. n \in 0 .. Cardinality(Blocks) /\ m \in 0 .. Cardinality(Blocks)
  BY <1>1, ListShort
<1>3. up \in [1 .. n -> Blocks] /\ low \in [1 .. m -> Blocks]
  BY <1>1 DEF Listed
<1> QED
  BY <1>2, <1>3

(* Whose block another environment's value hides, is a covered copy.        *)
LEMMA LowIsCovered ==
  ASSUME NEW n, NEW m, NEW up, NEW low, ChainIs(n, up, m, low), NEW j \in 1 .. m
  PROVE  low[j] \in Covered
<1>1. /\ saved # off /\ Listed(low, m) /\ Linked(saved, low, m, NoBlock)
      /\ m \in Nat /\ m <= MaxHops /\ MaxHops \in Nat
  <2>1. Listed(low, m) /\ m \in Nat /\ m # 0
    BY DEF ChainIs, Listed
  <2>2. m <= MaxHops /\ MaxHops \in Nat
    BY <2>1, ListShort, HopsSuffice
  <2> QED
    BY <2>1, <2>2 DEF ChainIs
<1>2. Walk(saved)[j - 1] = low[j]
  <2>1. Walk(saved)[j - 1] = Below(low, m, j - 1, NoBlock)
    BY <1>1, WalkMeets
  <2> QED
    BY <1>1, <2>1 DEF Below
<1>3. j - 1 \in 0 .. MaxHops /\ low[j] \in Blocks
  BY <1>1 DEF Listed
<1>4. Covered = {Walk(saved)[k] : k \in 0 .. MaxHops} \cap Blocks
  BY <1>1 DEF Covered
<1> QED
  BY <1>2, <1>3, <1>4

-----------------------------------------------------------------------------
(* XcUnlink() of a block of the list takes that block out of it.            *)
Without(s, n, i) == [j \in 1 .. n - 1 |-> IF j < i THEN s[j] ELSE s[j + 1]]

LEMMA WithoutListed ==
  ASSUME NEW n, NEW s, Listed(s, n), NEW i \in 1 .. n
  PROVE  /\ Listed(Without(s, n, i), n - 1)
         /\ \A b \in Blocks : (\E j \in 1 .. n - 1 : Without(s, n, i)[j] = b)
                              <=> (b # s[i] /\ \E j \in 1 .. n : s[j] = b)
<1> DEFINE w == Without(s, n, i)
<1>0. n \in Nat /\ i \in Nat /\ n - 1 \in Nat /\ s \in [1 .. n -> Blocks]
  BY DEF Listed
<1>1. \A j \in 1 .. n - 1 : w[j] = IF j < i THEN s[j] ELSE s[j + 1]
  BY DEF Without
<1>2. w \in [1 .. n - 1 -> Blocks]
  BY <1>0 DEF Without
<1> HIDE DEF w
<1>3. ASSUME NEW j \in 1 .. n - 1, NEW k \in 1 .. n - 1, w[j] = w[k]
      PROVE  j = k
  <2> DEFINE p == IF j < i THEN j ELSE j + 1
             q == IF k < i THEN k ELSE k + 1
  <2>1. p \in 1 .. n /\ q \in 1 .. n /\ s[p] = s[q]
    BY <1>0, <1>1, <1>3
  <2>2. p = q
    BY <2>1 DEF Listed
  <2> QED
    BY <1>0, <2>2
<1>4. ASSUME NEW b \in Blocks
      PROVE  (\E j \in 1 .. n - 1 : w[j] = b) <=> (b # s[i] /\ \E j \in 1 .. n : s[j] = b)
  <2>1. ASSUME NEW j \in 1 .. n - 1, w[j] = b
        PROVE  b # s[i] /\ \E k \in 1 .. n : s[k] = b
    <3> DEFINE p == IF j < i THEN j ELSE j + 1
    <3>1. p \in 1 .. n /\ p # i /\ s[p] = b
      BY <1>0, <1>1, <2>1
    <3> QED
      BY <3>1 DEF Listed
  <2>2. ASSUME NEW j \in 1 .. n, s[j] = b, b # s[i]
        PROVE  \E k \in 1 .. n - 1 : w[k] = b
    <3> DEFINE q == IF j < i THEN j ELSE j - 1
    <3>1. q \in 1 .. n - 1 /\ w[q] = s[j]
      BY <1>0, <1>1, <2>2
    <3> QED
      BY <3>1, <2>2
  <2> QED
    BY <2>1, <2>2
<1> QED
  BY <1>0, <1>2, <1>3, <1>4 DEF Listed, w

LEMMA Unlinked ==
  ASSUME NEW n, NEW s, NEW end, Listed(s, n), Linked(ectenvbk, s, n, end), end \notin Blocks,
         \A k \in 1 .. n : phase[s[k]] # "free", prevWord \in [Blocks -> Pointers],
         NEW i \in 1 .. n, XcUnlink(s[i])
  PROVE  /\ Linked(ectenvbk, Without(s, n, i), n - 1, end)'
         /\ prevWord' \in [Blocks -> Pointers] /\ ectenvbk' \in Pointers
         /\ \A c \in Blocks : (\A k \in 1 .. n : s[k] # c) => prevWord'[c] = prevWord[c]
<1> DEFINE b == s[i]
           above == {k \in Hops : prevWord[At[k]] = b}
<1>0. /\ n \in Nat /\ i \in Nat /\ n - 1 \in Nat /\ s \in [1 .. n -> Blocks]
      /\ \A j, k \in 1 .. n : s[j] = s[k] => j = k
  BY DEF Listed
<1>1. Hops = 0 .. n - 1 /\ \A k \in 0 .. n - 1 : At[k] = s[k + 1]
  BY HopsAre
<1>2. /\ ectenvbk = s[1]
      /\ \A k \in 1 .. n : prevWord[s[k]] = IF k < n THEN s[k + 1] ELSE end
  BY <1>0 DEF Linked, Below
<1>3. NoBlock \in Pointers /\ b \in Blocks /\ prevWord[b] \in Pointers
      /\ Blocks \subseteq Pointers
  BY <1>0 DEF Pointers
<1>4. CASE i = 1
  <2>1. ectenvbk = b
    BY <1>2, <1>4
  <2>2. ectenvbk' = prevWord[b] /\ prevWord' = [prevWord EXCEPT ![b] = NoBlock]
    BY <2>1 DEF XcUnlink
  <2>3. Linked(ectenvbk, Without(s, n, i), n - 1, end)'
    <3>1. ectenvbk' = Below(Without(s, n, i), n - 1, 0, end)
      BY <1>0, <1>2, <1>4, <2>2 DEF Below, Without
    <3>2. ASSUME NEW j \in 1 .. n - 1
          PROVE  prevWord'[Without(s, n, i)[j]] = Below(Without(s, n, i), n - 1, j, end)
      <4>1. Without(s, n, i)[j] = s[j + 1] /\ j + 1 \in 1 .. n /\ s[j + 1] # b
        BY <1>0, <1>4 DEF Without
      <4>2. prevWord'[s[j + 1]] = IF j + 1 < n THEN s[j + 2] ELSE end
        BY <1>0, <1>2, <2>2, <4>1
      <4>3. Below(Without(s, n, i), n - 1, j, end) = IF j + 1 < n THEN s[j + 2] ELSE end
        BY <1>0, <1>4 DEF Below, Without
      <4> QED
        BY <4>1, <4>2, <4>3
    <3> QED
      BY <3>1, <3>2 DEF Linked
  <2> QED
    BY <1>3, <2>2, <2>3 DEF Linked
<1>5. CASE i # 1
  <2>0. i - 1 \in 1 .. n /\ i - 2 \in 0 .. n - 1 /\ 1 \in 1 .. n
    BY <1>0, <1>5
  <2>1. ectenvbk # b
    BY <1>0, <1>2, <1>5, <2>0
  <2>2. above = {i - 2}
    <3>1. ASSUME NEW k \in 0 .. n - 1
          PROVE  prevWord[At[k]] = b <=> k = i - 2
      <4>1. k + 1 \in 1 .. n /\ At[k] = s[k + 1]
        BY <1>0, <1>1
      <4>2. CASE k + 1 < n
        <5>1. k + 2 \in 1 .. n /\ prevWord[At[k]] = s[k + 2]
          BY <1>0, <1>2, <4>1, <4>2
        <5> QED
          BY <1>0, <5>1
      <4>3. CASE ~(k + 1 < n)
        <5>1. prevWord[At[k]] = end /\ k # i - 2
          BY <1>0, <1>2, <4>1, <4>3
        <5> QED
          BY <1>3, <5>1
      <4> QED
        BY <4>2, <4>3
    <3> QED
      BY <1>1, <2>0, <3>1
  <2>3. Min(above) = i - 2
    BY <2>0, <2>2 DEF Min
  <2> DEFINE a == s[i - 1]
  <2>4. At[Min(above)] = a
    BY <1>0, <1>1, <2>0, <2>3
  <2>5. /\ prevWord' = [prevWord EXCEPT ![a] = prevWord[b], ![b] = NoBlock]
        /\ ectenvbk' = ectenvbk
    <3> HIDE DEF a
    <3>1. above # {}
      BY <2>2
    <3> QED
      BY <2>1, <2>4, <3>1 DEF XcUnlink
  <2>6. a \in Blocks /\ a # b
    BY <1>0, <2>0
  <2>7. /\ prevWord' \in [Blocks -> Pointers]
        /\ prevWord'[a] = prevWord[b]
        /\ \A c \in Blocks : c # a /\ c # b => prevWord'[c] = prevWord[c]
    <3> HIDE DEF a, b
    <3> QED
      BY <1>3, <2>5, <2>6
  <2>8. Linked(ectenvbk, Without(s, n, i), n - 1, end)'
    <3>1. ectenvbk' = Below(Without(s, n, i), n - 1, 0, end)
      BY <1>0, <1>2, <1>5, <2>0, <2>5 DEF Below, Without
    <3>2. ASSUME NEW j \in 1 .. n - 1
          PROVE  prevWord'[Without(s, n, i)[j]] = Below(Without(s, n, i), n - 1, j, end)
      <4>1. Below(Without(s, n, i), n - 1, j, end)
              = IF j < n - 1 THEN (IF j + 1 < i THEN s[j + 1] ELSE s[j + 2]) ELSE end
        BY <1>0 DEF Below, Without
      <4>2. CASE j < i - 1
        <5>1. Without(s, n, i)[j] = s[j] /\ j \in 1 .. n /\ j # i - 1 /\ j # i /\ j < n
          BY <1>0, <4>2 DEF Without
        <5>2. s[j] \in Blocks /\ s[j] # a /\ s[j] # b
          BY <1>0, <2>0, <5>1
        <5>3. prevWord'[s[j]] = s[j + 1]
          BY <1>2, <2>7, <5>1, <5>2
        <5> QED
          BY <1>0, <4>1, <4>2, <5>1, <5>3
      <4>3. CASE j = i - 1
        <5>1. Without(s, n, i)[j] = a
          BY <1>0, <4>3 DEF Without
        <5>2. prevWord'[a] = IF i < n THEN s[i + 1] ELSE end
          BY <1>2, <2>7
        <5> QED
          BY <1>0, <4>1, <4>3, <5>1, <5>2
      <4>4. CASE j >= i
        <5>1. Without(s, n, i)[j] = s[j + 1] /\ j + 1 \in 1 .. n /\ j + 1 # i - 1 /\ j + 1 # i
          BY <1>0, <4>4 DEF Without
        <5>2. s[j + 1] \in Blocks /\ s[j + 1] # a /\ s[j + 1] # b
          BY <1>0, <2>0, <5>1
        <5>3. prevWord'[s[j + 1]] = IF j + 1 < n THEN s[j + 2] ELSE end
          BY <1>0, <1>2, <2>7, <5>1, <5>2
        <5> QED
          BY <1>0, <4>1, <4>4, <5>1, <5>3
      <4> QED
        BY <1>0, <4>2, <4>3, <4>4
    <3> QED
      BY <3>1, <3>2 DEF Linked
  <2>9. ectenvbk' \in Pointers
    BY <1>0, <1>2, <1>3, <2>0, <2>5
  <2> QED
    BY <1>0, <2>0, <2>7, <2>8, <2>9
<1> QED
  BY <1>4, <1>5

-----------------------------------------------------------------------------
(* What every step does to the chain.                                       *)
EmptyList == [k \in 1 .. 0 |-> NoBlock]

LEMMA EmptyListed ==
  Listed(EmptyList, 0)
BY DEF Listed, EmptyList

LEMMA ChainInit ==
  ASSUME Init
  PROVE  ChainIndInv
<1>1. ChainTypeOK
  <2>1. stack \in Seq(Elements) /\ stack # <<>>
    <3>1. PICK e \in Elements : stack = <<e>>
      BY DEF Init
    <3> QED
      BY <3>1
  <2>2. nobody \in [by : Blocks \cup {NoBlock}, rc : {0, -1, 28}]
    BY DEF nobody
  <2> QED
    BY <2>1, <2>2 DEF Init, ChainTypeOK, Phases, Pointers
<1>2. \A b \in Blocks : ~published[b]
  BY DEF Init
<1>3. Linked(ectenvbk, EmptyList, 0, found)
  BY DEF Linked, Below, Init
<1>4. ChainIs(0, EmptyList, 0, EmptyList)
  BY <1>2, <1>3, EmptyListed DEF ChainIs, Init
<1>5. 0 \in 0 .. Cardinality(Blocks) /\ EmptyList \in [1 .. 0 -> Blocks]
  BY HopsSuffice, FS_CardinalityType DEF EmptyList
<1> QED
  BY <1>1, <1>2, <1>4, <1>5 DEF ChainIndInv

(* Where the words of the listed blocks do not change, neither does the     *)
(* chain.                                                                   *)
LEMMA ChainStays ==
  ASSUME NEW n, NEW m, NEW up, NEW low, ChainIs(n, up, m, low),
         UNCHANGED <<published, ectenvbk, found, saved>>,
         \A b \in Blocks : published[b] => prevWord'[b] = prevWord[b]
  PROVE  ChainIs(n, up, m, low)'
<1>2. \A i \in 1 .. n : prevWord'[up[i]] = prevWord[up[i]]
  BY DEF ChainIs, Listed
<1>3. \A j \in 1 .. m : prevWord'[low[j]] = prevWord[low[j]]
  BY DEF ChainIs, Listed
<1>4. \A end : /\ Linked(ectenvbk, up, n, end) => Linked(ectenvbk, up, n, end)'
               /\ Linked(saved, low, m, end) => Linked(saved, low, m, end)'
  BY <1>2, <1>3 DEF Linked
<1> QED
  BY <1>4 DEF ChainIs

(* RxXcPub() puts the block on top.                                         *)
OnTop(b, s, n) == [j \in 1 .. n + 1 |-> IF j = 1 THEN b ELSE s[j - 1]]

LEMMA PubChain ==
  ASSUME ChainIndInv, NEW b \in Blocks, RxXcPub(b),
         NEW n, NEW m, NEW up, NEW low, ChainIs(n, up, m, low)
  PROVE  ChainIs(n + 1, OnTop(b, up, n), m, low)'
<1>1. ChainIs(n, up, m, low)
  OBVIOUS
<1> DEFINE top == OnTop(b, up, n)
<1>2. /\ n \in Nat /\ m \in Nat /\ up \in [1 .. n -> Blocks] /\ low \in [1 .. m -> Blocks]
      /\ \A i, j \in 1 .. n : up[i] = up[j] => i = j
  BY <1>1 DEF ChainIs, Listed
<1>3. ~published[b] /\ prevWord \in [Blocks -> Pointers] /\ published \in [Blocks -> BOOLEAN]
  BY DEF ChainIndInv, ChainTypeOK, RxXcPub
<1>4. (\A i \in 1 .. n : up[i] # b) /\ (\A j \in 1 .. m : low[j] # b)
  BY <1>1, <1>3 DEF ChainIs
<1>5. top[1] = b /\ \A j \in 1 .. n : top[j + 1] = up[j]
  BY <1>2 DEF OnTop
<1>6. Listed(top, n + 1)
  <2>1. top \in [1 .. n + 1 -> Blocks] /\ n + 1 \in Nat
    BY <1>2 DEF OnTop
  <2>2. ASSUME NEW i \in 1 .. n + 1, NEW j \in 1 .. n + 1, top[i] = top[j]
        PROVE  i = j
    <3>1. CASE i = 1
      BY <1>2, <1>4, <2>2, <3>1 DEF OnTop
    <3>2. CASE i # 1
      BY <1>2, <1>4, <2>2, <3>2 DEF OnTop
    <3> QED
      BY <3>1, <3>2
  <2> HIDE DEF top
  <2> QED
    BY <2>1, <2>2 DEF Listed
<1>7. \A c \in Blocks : (\E i \in 1 .. n + 1 : top[i] = c)
                        <=> (c = b \/ \E i \in 1 .. n : up[i] = c)
  <2>1. ASSUME NEW c, NEW i \in 1 .. n + 1, top[i] = c, c # b
        PROVE  \E k \in 1 .. n : up[k] = c
    <3>1. i # 1 /\ i - 1 \in 1 .. n
      BY <1>2, <1>5, <2>1
    <3>2. up[i - 1] = c
      BY <1>2, <2>1, <3>1 DEF OnTop
    <3> QED
      BY <3>1, <3>2
  <2>2. \A i \in 1 .. n : i + 1 \in 1 .. n + 1
    BY <1>2
  <2>3. 1 \in 1 .. n + 1
    BY <1>2
  <2> HIDE DEF top
  <2> QED
    BY <1>5, <2>1, <2>2, <2>3
<1>8. /\ prevWord' = [prevWord EXCEPT ![b] = ectenvbk] /\ ectenvbk' = b
      /\ published' = [published EXCEPT ![b] = TRUE] /\ UNCHANGED <<found, saved>>
  BY DEF RxXcPub
<1>9. ASSUME NEW end, Linked(ectenvbk, up, n, end)
      PROVE  Linked(ectenvbk, top, n + 1, end)'
  <2>1. ectenvbk = IF 0 < n THEN up[1] ELSE end
    BY <1>2, <1>9 DEF Linked, Below
  <2>2. \A j \in 1 .. n : prevWord[up[j]] = IF j < n THEN up[j + 1] ELSE end
    BY <1>9 DEF Linked, Below
  <2>3. ASSUME NEW i \in 1 .. n + 1
        PROVE  prevWord'[top[i]] = IF i < n + 1 THEN top[i + 1] ELSE end
    <3>1. CASE i = 1
      BY <1>2, <1>3, <1>5, <1>8, <2>1, <3>1
    <3>2. CASE i # 1
      <4>1. i - 1 \in 1 .. n /\ top[i] = up[i - 1]
        BY <1>2, <3>2 DEF OnTop
      <4>2. prevWord'[top[i]] = prevWord[up[i - 1]]
        BY <1>2, <1>3, <1>4, <1>8, <4>1
      <4>3. i < n + 1 => top[i + 1] = up[i]
        BY <1>2, <3>2, <4>1 DEF OnTop
      <4> HIDE DEF top
      <4> QED
        BY <1>2, <2>2, <4>1, <4>2, <4>3
    <3> QED
      BY <3>1, <3>2
  <2>4. ectenvbk' = Below(top, n + 1, 0, end)
    BY <1>2, <1>5, <1>8 DEF Below
  <2> HIDE DEF top
  <2> QED
    BY <2>3, <2>4 DEF Linked, Below
<1>10. ASSUME NEW e, NEW end, Linked(e, low, m, end)
       PROVE  e = Below(low, m, 0, end) /\ \A j \in 1 .. m : prevWord'[low[j]] = Below(low, m, j, end)
  <2>1. \A j \in 1 .. m : prevWord'[low[j]] = prevWord[low[j]]
    BY <1>2, <1>3, <1>4, <1>8
  <2> QED
    BY <1>10, <2>1 DEF Linked
<1>11. Linked(saved, low, m, NoBlock) => Linked(saved, low, m, NoBlock)'
  BY <1>8, <1>10 DEF Linked
<1>12. \A i \in 1 .. n + 1, j \in 1 .. m : top[i] # low[j]
  <2>1. \A i \in 1 .. n + 1 : top[i] = b \/ \E k \in 1 .. n : top[i] = up[k]
    BY <1>2 DEF OnTop
  <2> HIDE DEF top
  <2> QED
    BY <1>1, <1>4, <2>1 DEF ChainIs
<1>13. \A c \in Blocks : published'[c] <=> (\E i \in 1 .. n + 1 : top[i] = c)
                                          \/ (\E j \in 1 .. m : low[j] = c)
  <2>1. \A c \in Blocks : published'[c] <=> (c = b \/ published[c])
    BY <1>3, <1>8
  <2> HIDE DEF top
  <2> QED
    BY <1>1, <1>7, <2>1 DEF ChainIs
<1> HIDE DEF top
<1>14. ChainIs(n + 1, top, m, low)'
  <2>1. Listed(low, m)
    BY <1>1 DEF ChainIs
  <2>2. \/ saved = off /\ m = 0 /\ Linked(ectenvbk, top, n + 1, found)'
        \/ /\ saved # off /\ found = NoBlock
           /\ Linked(ectenvbk, top, n + 1, foreign)' /\ Linked(saved, low, m, NoBlock)'
    <3>1. Linked(ectenvbk, up, n, found) => Linked(ectenvbk, top, n + 1, found)'
      <4>1. PICK end : end = found
        OBVIOUS
      <4>2. Linked(ectenvbk, up, n, end) => Linked(ectenvbk, top, n + 1, end)'
        BY <1>9
      <4> QED
        BY <1>8, <4>1, <4>2 DEF Linked
    <3>2. Linked(ectenvbk, up, n, foreign) => Linked(ectenvbk, top, n + 1, foreign)'
      BY <1>9
    <3> QED
      BY <1>1, <1>11, <3>1, <3>2 DEF ChainIs
  <2> QED
    BY <1>6, <1>8, <1>12, <1>13, <2>1, <2>2 DEF ChainIs
<1> QED
  BY <1>14 DEF top

(* RxXcRst() takes the block out of the chain, or leaves a chain alone that *)
(* it is not in.  Nested keeps it from the part another environment hides,  *)
(* which the walk does not reach.                                           *)
LEMMA RstChain ==
  ASSUME Nested, ChainIndInv, NEW b \in Blocks, MayEnd(b), RxXcRst(b),
         UNCHANGED <<found, saved>>,
         NEW n, NEW m, NEW up, NEW low, ChainIs(n, up, m, low)
  PROVE  /\ ~published[b] => ChainIs(n, up, m, low)'
         /\ published[b] =>
              \E i \in 1 .. n : up[i] = b /\ ChainIs(n - 1, Without(up, n, i), m, low)'
         /\ prevWord' \in [Blocks -> Pointers] /\ ectenvbk' \in Pointers
<1>0. /\ prevWord \in [Blocks -> Pointers] /\ published \in [Blocks -> BOOLEAN]
      /\ ectenvbk \in Pointers
  BY DEF ChainIndInv, ChainTypeOK
<1>1. CASE ~published[b]
  <2>1. published' = published
    BY <1>0, <1>1, Zenon DEF RxXcRst
  <2>2. UNCHANGED <<prevWord, ectenvbk>>
    BY <1>1 DEF RxXcRst
  <2> QED
    BY <1>0, <1>1, <2>1, <2>2, ChainStays
<1>2. CASE published[b]
  <2>1. ChainIs(n, up, m, low) /\ \A i \in 1 .. n : phase[up[i]] = "run"
    BY DEF ChainIndInv, ChainIs, Listed
  <2>2. XcUnlink(b) /\ published' = [published EXCEPT ![b] = FALSE]
    BY <1>2 DEF RxXcRst
  <2>3. PICK i \in 1 .. n : up[i] = b
    <3>1. \A j \in 1 .. m : low[j] # b
      BY <2>1, LowIsCovered DEF MayEnd
    <3> QED
      BY <1>2, <2>1, <3>1 DEF ChainIs
  <2>4. PICK end : end = IF saved = off THEN found ELSE foreign
    OBVIOUS
  <2>5. end \notin Blocks
    BY <2>4, ForeignIsNoBlock DEF ChainIndInv, ChainTypeOK
  <2>6. Listed(up, n) /\ Linked(ectenvbk, up, n, end)
    BY <2>1, <2>4 DEF ChainIs
  <2>7. \A k \in 1 .. n : phase[up[k]] # "free"
    BY <2>1
  <2> DEFINE cut == Without(up, n, i)
  <2>8. /\ Linked(ectenvbk, cut, n - 1, end)'
        /\ prevWord' \in [Blocks -> Pointers] /\ ectenvbk' \in Pointers
        /\ \A c \in Blocks : (\A k \in 1 .. n : up[k] # c) => prevWord'[c] = prevWord[c]
    <3>1. XcUnlink(up[i])
      BY <2>2, <2>3
    <3> QED
      BY <1>0, <2>5, <2>6, <2>7, <3>1, Unlinked
  <2>9. /\ Listed(cut, n - 1)
        /\ \A c \in Blocks : (\E j \in 1 .. n - 1 : cut[j] = c)
                             <=> (c # b /\ \E j \in 1 .. n : up[j] = c)
    BY <2>3, <2>6, WithoutListed
  <2> HIDE DEF cut
  <2>10. /\ \A j \in 1 .. m : low[j] \in Blocks /\ prevWord'[low[j]] = prevWord[low[j]]
         /\ Listed(low, m)
    <3>1. Listed(low, m) /\ \A j \in 1 .. m : low[j] \in Blocks /\ \A k \in 1 .. n : up[k] # low[j]
      BY <2>1 DEF ChainIs, Listed
    <3> QED
      BY <2>8, <3>1
  <2>11. \A j \in 1 .. n - 1, k \in 1 .. m : cut[j] # low[k]
    <3>1. \A j \in 1 .. n - 1 : cut[j] \in Blocks /\ \E k \in 1 .. n : up[k] = cut[j]
      BY <2>9 DEF Listed
    <3> QED
      BY <2>1, <3>1 DEF ChainIs
  <2>12. \A c \in Blocks : published'[c] <=> (\E j \in 1 .. n - 1 : cut[j] = c)
                                            \/ (\E j \in 1 .. m : low[j] = c)
    <3>1. \A c \in Blocks : published'[c] <=> (c # b /\ published[c])
      BY <1>0, <2>2
    <3>2. \A j \in 1 .. m : low[j] # b
      BY <2>1, <2>3 DEF ChainIs
    <3> QED
      BY <2>1, <2>9, <3>1, <3>2 DEF ChainIs
  <2>13. Linked(saved, low, m, NoBlock) => Linked(saved, low, m, NoBlock)'
    BY <2>10 DEF Linked
  <2>14. ChainIs(n - 1, cut, m, low)'
    <3>1. Linked(ectenvbk, cut, n - 1, IF saved = off THEN found ELSE foreign)'
      BY <2>4, <2>8 DEF Linked
    <3> QED
      BY <2>1, <2>9, <2>10, <2>11, <2>12, <2>13, <3>1 DEF ChainIs
  <2> QED
    BY <1>2, <2>3, <2>8, <2>14 DEF cut
<1> QED
  BY <1>1, <1>2

LEMMA ForeignStartsChain ==
  ASSUME ChainIndInv, ForeignStarts,
         NEW n, NEW m, NEW up, NEW low, ChainIs(n, up, m, low)
  PROVE  m = 0 /\ ChainIs(0, EmptyList, n, up)'
<1>1. ChainIs(n, up, m, low)
  OBVIOUS
<1>2. /\ found = NoBlock /\ saved = off /\ saved' = ectenvbk /\ ectenvbk' = foreign
      /\ UNCHANGED <<prevWord, published, found>>
  BY DEF ForeignStarts, copyVars
<1>3. ectenvbk # off /\ m = 0
  BY <1>1, <1>2, ForeignIsNoBlock DEF ChainIndInv, ChainTypeOK, ChainIs
<1>4. Linked(saved, up, n, NoBlock)'
  BY <1>1, <1>2 DEF ChainIs, Linked
<1>5. Linked(ectenvbk, EmptyList, 0, foreign)'
  BY <1>2 DEF Linked, Below
<1>6. ChainIs(0, EmptyList, n, up)'
  BY <1>1, <1>2, <1>3, <1>4, <1>5, EmptyListed DEF ChainIs
<1> QED
  BY <1>3, <1>6

LEMMA ForeignEndsChain ==
  ASSUME ChainIndInv, ForeignEnds,
         NEW n, NEW m, NEW up, NEW low, ChainIs(n, up, m, low)
  PROVE  n = 0 /\ ChainIs(m, low, 0, EmptyList)'
<1>1. ChainIs(n, up, m, low)
  OBVIOUS
<1>2. /\ saved # off /\ ectenvbk = foreign /\ ectenvbk' = saved /\ saved' = off
      /\ UNCHANGED <<prevWord, published, found>>
  BY DEF ForeignEnds, copyVars
<1>3. n = 0
  <2>1. n \in Nat /\ up \in [1 .. n -> Blocks] /\ ectenvbk = Below(up, n, 0, foreign)
    BY <1>1, <1>2 DEF ChainIs, Listed, Linked
  <2> QED
    BY <1>2, <2>1, ForeignIsNoBlock DEF Below
<1>4. found = NoBlock /\ Linked(saved, low, m, NoBlock)
  BY <1>1, <1>2 DEF ChainIs
<1>5. Linked(ectenvbk, low, m, found)'
  BY <1>2, <1>4 DEF Linked
<1>6. ChainIs(m, low, 0, EmptyList)'
  BY <1>1, <1>2, <1>3, <1>5, EmptyListed DEF ChainIs
<1> QED
  BY <1>3, <1>6

(* The block BRXEXCOM jumps to is a block of the chain.                     *)
LEMMA AnswerType ==
  ASSUME NEW c \in Blocks, NEW r0, NEW fifth
  PROVE  RxXcom(c, r0, fifth) \in [by : Blocks \cup {NoBlock}, rc : {0, -1, 28}]
<1> DEFINE d == BRXEXCOM(c, r0)
           owners == {n \in Hops : stkWord[At[n]] = XcTopStack}
<1>1. d \in Blocks \cup {NoBlock}
  <2>1. CASE owners = {}
    BY <2>1 DEF BRXEXCOM
  <2>2. CASE owners # {}
    <3>1. owners \subseteq Nat
      BY HopsSuffice DEF Hops
    <3>2. PICK k \in owners : \A j \in owners : k <= j
      <4> HIDE DEF owners
      <4> QED
        BY <2>2, <3>1, LeastNat
    <3>3. Min(owners) \in owners
      BY <3>2 DEF Min
    <3>4. At[Min(owners)] \in Blocks
      <4>1. \A i \in Hops : At[i] \in Blocks
        <5> HIDE DEF At
        <5> QED
          BY HopsSuffice DEF Hops, XcIsEnv
      <4> QED
        BY <3>3, <4>1
    <3> QED
      BY <2>2, <3>4 DEF BRXEXCOM
  <2> QED
    BY <2>1, <2>2
<1> HIDE DEF d
<1>2. RxXcom(c, r0, fifth)
        = IF d = NoBlock \/ ~active[d] THEN [by |-> NoBlock, rc |-> -1]
          ELSE IF fifth \notin {NoBlock, d} THEN [by |-> NoBlock, rc |-> 28]
          ELSE [by |-> d, rc |-> 0]
  BY DEF RxXcom, d
<1> QED
  BY <1>1, <1>2

LEMMA ChainStep ==
  ASSUME Nested, ChainIndInv, [Next]_vars
  PROVE  ChainIndInv'
<1> DEFINE Runs == \A b \in Blocks : published[b] => phase[b] = "run"
           Lists == \E n, m, up, low : ChainIs(n, up, m, low)'
<1>0. /\ phase \in [Blocks -> Phases] /\ stkWord \in [Blocks -> Elements \cup {NoBlock}]
      /\ prevWord \in [Blocks -> Pointers] /\ published \in [Blocks -> BOOLEAN]
      /\ active \in [Blocks -> BOOLEAN] /\ ectenvbk \in Pointers
      /\ found \in {NoBlock, foreign} /\ saved \in Pointers \cup {off}
      /\ stack \in Seq(Elements) /\ stack # <<>>
      /\ answer \in [by : Blocks \cup {NoBlock}, rc : {0, -1, 28}]
      /\ Runs /\ XcTopStack \in Elements
      /\ Blocks \subseteq Pointers /\ NoBlock \in Pointers /\ foreign \in Pointers
  BY DEF ChainIndInv, ChainTypeOK, XcTopStack, Last, Pointers
<1>1. SUFFICES ChainTypeOK' /\ Runs' /\ Lists
  <2>1. Lists => \E k, l \in 0 .. Cardinality(Blocks) :
                   \E u \in [1 .. k -> Blocks], w \in [1 .. l -> Blocks] : ChainIs(k, u, l, w)'
    BY ChainFound
  <2> HIDE DEF Lists
  <2> QED
    BY <2>1 DEF ChainIndInv
<1>lists. PICK n, m, up, low : ChainIs(n, up, m, low)
  BY ChainPicked
<1>2. ASSUME NEW b \in Blocks, RxMvsInitialize(b)
      PROVE  ChainTypeOK' /\ Runs' /\ Lists
  <2>1. ~published[b]
    BY <1>0, <1>2 DEF RxMvsInitialize
  <2>2. published' = published
    BY <1>0, <1>2, <2>1, Zenon DEF RxMvsInitialize
  <2>3. Lists
    BY <1>lists, <1>0, <1>2, <2>1, <2>2, ChainStays DEF RxMvsInitialize
  <2>4. ChainTypeOK' /\ Runs'
    BY <1>0, <1>2, <2>1, <2>2 DEF RxMvsInitialize, ChainTypeOK, Phases
  <2> QED
    BY <2>3, <2>4
<1>3. ASSUME NEW b \in Blocks, RxXcPub(b)
      PROVE  ChainTypeOK' /\ Runs' /\ Lists
  <2>1. Lists
    BY <1>lists, <1>3, PubChain
  <2>2. ChainTypeOK' /\ Runs'
    BY <1>0, <1>3 DEF RxXcPub, ChainTypeOK, Phases
  <2> QED
    BY <2>1, <2>2
<1>4. ASSUME NEW b \in Blocks, RunExit(b) \/ MainReset(b)
      PROVE  ChainTypeOK' /\ Runs' /\ Lists
  <2>1. /\ MayEnd(b) /\ RxXcRst(b) /\ UNCHANGED <<found, saved, stack, answer>>
        /\ phase' = [phase EXCEPT ![b] = "over"] \/ phase' = [phase EXCEPT ![b] = "reset"]
    BY <1>4 DEF RunExit, MainReset
  <2>2. Lists /\ prevWord' \in [Blocks -> Pointers] /\ ectenvbk' \in Pointers
    BY <1>lists, <2>1, RstChain
  <2>3. /\ published' = [published EXCEPT ![b] = FALSE]
        /\ active' = [active EXCEPT ![b] = FALSE]
        /\ stkWord' = stkWord \/ stkWord' = [stkWord EXCEPT ![b] = NoBlock]
    BY <2>1 DEF RxXcRst
  <2>4. ChainTypeOK' /\ Runs'
    BY <1>0, <2>1, <2>2, <2>3 DEF ChainTypeOK, Phases
  <2> QED
    BY <2>2, <2>4
<1>5. ASSUME NEW b \in Blocks, RxMvsTerminate(b)
      PROVE  ChainTypeOK' /\ Runs' /\ Lists
  <2>1. Lists
    BY <1>lists, <1>5, ChainStays DEF RxMvsTerminate, copyVars
  <2>2. ChainTypeOK' /\ Runs'
    BY <1>0, <1>5 DEF RxMvsTerminate, copyVars, ChainTypeOK, Phases
  <2> QED
    BY <2>1, <2>2
<1>6. ASSUME NEW c \in Blocks, NEW r0, NEW fifth, Ask(c, r0, fifth)
      PROVE  ChainTypeOK' /\ Runs' /\ Lists
  <2>1. Lists
    BY <1>lists, <1>6, ChainStays DEF Ask, copyVars
  <2>2. answer' \in [by : Blocks \cup {NoBlock}, rc : {0, -1, 28}]
    BY <1>6, AnswerType DEF Ask
  <2>3. ChainTypeOK' /\ Runs'
    BY <1>0, <1>6, <2>2 DEF Ask, copyVars, ChainTypeOK
  <2> QED
    BY <2>1, <2>3
<1>7. ASSUME (\E e \in Elements : ClistStarts(e)) \/ ClistEnds
      PROVE  ChainTypeOK' /\ Runs' /\ Lists
  <2>1. Lists
    BY <1>lists, <1>7, ChainStays DEF ClistStarts, ClistEnds, copyVars
  <2>2. stack' \in Seq(Elements) /\ stack' # <<>>
    <3>1. ASSUME NEW e \in Elements, ClistStarts(e)
          PROVE  stack' \in Seq(Elements) /\ stack' # <<>>
      BY <1>0, <3>1 DEF ClistStarts
    <3>2. ASSUME ClistEnds
          PROVE  stack' \in Seq(Elements) /\ stack' # <<>>
      <4>1. Len(stack) > 1 /\ stack' = SubSeq(stack, 1, Len(stack) - 1)
        BY <3>2 DEF ClistEnds, Front
      <4>2. stack' \in Seq(Elements) /\ Len(stack') = Len(stack) - 1
        BY <1>0, <4>1
      <4>3. Len(stack') # 0
        BY <1>0, <4>1, <4>2
      <4>4. stack' # <<>>
        BY <4>3
      <4> QED
        BY <4>2, <4>4
    <3> QED
      BY <1>7, <3>1, <3>2
  <2>3. ChainTypeOK' /\ Runs'
    BY <1>0, <1>7, <2>2 DEF ClistStarts, ClistEnds, copyVars, ChainTypeOK
  <2> QED
    BY <2>1, <2>3
<1>8. ASSUME ForeignStarts
      PROVE  ChainTypeOK' /\ Runs' /\ Lists
  <2>1. Lists
    BY <1>lists, <1>8, ForeignStartsChain
  <2>2. ChainTypeOK' /\ Runs'
    BY <1>0, <1>8 DEF ForeignStarts, copyVars, ChainTypeOK
  <2> QED
    BY <2>1, <2>2
<1>9. ASSUME ForeignEnds
      PROVE  ChainTypeOK' /\ Runs' /\ Lists
  <2>1. Lists
    BY <1>lists, <1>9, ForeignEndsChain
  <2>2. ChainTypeOK' /\ Runs'
    BY <1>0, <1>9 DEF ForeignEnds, copyVars, ChainTypeOK
  <2> QED
    BY <2>1, <2>2
<1>10. ASSUME UNCHANGED vars
       PROVE  ChainTypeOK' /\ Runs' /\ Lists
  <2>1. Lists
    BY <1>lists, <1>10, ChainStays DEF vars
  <2>2. ChainTypeOK' /\ Runs'
    BY <1>0, <1>10 DEF vars, ChainTypeOK
  <2> QED
    BY <2>1, <2>2
<1> QED
  <2> HIDE DEF Runs, Lists
  <2> QED
    BY <1>2, <1>3, <1>4, <1>5, <1>6, <1>7, <1>8, <1>9, <1>10 DEF Next, CopySteps

-----------------------------------------------------------------------------
(* What the invariant gives. *)
LEMMA ChainIndGives ==
  ASSUME ChainIndInv
  PROVE  ChainInv /\ EctComesBack
<1>1. PICK n, m, up, low :
        ChainIs(n, up, m, low) /\ \A i \in 1 .. n : phase[up[i]] = "run"
  BY ChainPicked
<1>2. ChainTypeOK /\ \A b \in Blocks : published[b] => phase[b] = "run"
  BY DEF ChainIndInv
<1>3. found \notin Blocks /\ foreign \notin Blocks /\ NoBlock \notin Blocks
  BY <1>2, ForeignIsNoBlock DEF ChainTypeOK
<1>4. /\ n \in Nat /\ m \in Nat /\ up \in [1 .. n -> Blocks] /\ low \in [1 .. m -> Blocks]
      /\ \A i \in 1 .. n : phase[up[i]] = "run"
      /\ \A j \in 1 .. m : phase[low[j]] = "run"
  BY <1>1, <1>2 DEF ChainIs, Listed
<1>5. PICK end : end = IF saved = off THEN found ELSE foreign
  OBVIOUS
<1>6. Linked(ectenvbk, up, n, end) /\ Listed(up, n) /\ end \notin Blocks
  BY <1>1, <1>3, <1>5 DEF ChainIs
<1>7. EndedLeavesChain
  <2>1. ASSUME NEW b \in Blocks, NEW c \in Blocks, Through(b), published[c]
        PROVE  prevWord[c] # b
    <3>1. phase[b] # "run"
      BY <2>1 DEF Through
    <3>2. ASSUME NEW i \in 1 .. n, up[i] = c
          PROVE  prevWord[c] # b
      <4>1. prevWord[c] = IF i < n THEN up[i + 1] ELSE end
        BY <1>6, <3>2 DEF Linked, Below
      <4> QED
        BY <1>4, <1>6, <3>1, <4>1
    <3>3. ASSUME NEW j \in 1 .. m, low[j] = c
          PROVE  prevWord[c] # b
      <4>0. m # 0
        BY <1>4
      <4>1. Linked(saved, low, m, NoBlock)
        BY <1>1, <4>0 DEF ChainIs
      <4>2. prevWord[c] = IF j < m THEN low[j + 1] ELSE NoBlock
        BY <3>3, <4>1 DEF Linked, Below
      <4> QED
        BY <1>3, <1>4, <3>1, <4>2
    <3> QED
      BY <1>1, <2>1, <3>2, <3>3 DEF ChainIs
  <2>2. ASSUME NEW b \in Blocks, Through(b)
        PROVE  ectenvbk # b
    <3>1. ectenvbk = IF 0 < n THEN up[1] ELSE end
      BY <1>6 DEF Linked, Below
    <3> QED
      BY <1>4, <1>6, <2>2, <3>1 DEF Through
  <2> QED
    BY <2>1, <2>2 DEF EndedLeavesChain, PredecessorRuns
<1>8. NoCycle
  <2>1. Hops = 0 .. n - 1 /\ \A k \in 0 .. n - 1 : At[k] = up[k + 1]
    BY <1>4, <1>6, HopsAre
  <2>2. ASSUME NEW j \in Hops, NEW k \in Hops, At[j] = At[k]
        PROVE  j = k
    <3>1. j + 1 \in 1 .. n /\ k + 1 \in 1 .. n /\ up[j + 1] = up[k + 1]
      BY <1>4, <2>1, <2>2
    <3>2. j + 1 = k + 1
      BY <1>6, <3>1 DEF Listed
    <3> QED
      BY <1>4, <2>1, <3>2
  <2> QED
    BY <2>2 DEF NoCycle
<1>9. EctComesBack
  <2> SUFFICES ASSUME saved = off, \A b \in Blocks : ~published[b]
               PROVE  ectenvbk = found
    BY DEF EctComesBack
  <2>1. n = 0
    <3>1. n # 0 => up[1] \in Blocks /\ published[up[1]]
      BY <1>1, <1>4 DEF ChainIs
    <3> QED
      BY <3>1
  <2> QED
    BY <1>5, <1>6, <2>1 DEF Linked, Below
<1> QED
  BY <1>2, <1>7, <1>8, <1>9 DEF ChainInv

LEMMA ChainInductive ==
  ASSUME Nested
  PROVE  Spec => []ChainIndInv
<1>1. Init => ChainIndInv
  BY ChainInit
<1>2. ChainIndInv /\ [Next]_vars => ChainIndInv'
  BY ChainStep
<1> QED
  BY <1>1, <1>2, PTL DEF Spec

(* The chain of ECTENVBK, for any number of copies: the words of the block  *)
(* are of the types the code reads them with, no word of a running exec and *)
(* not ECTENVBK leads to the block of a copy that is through (whose storage *)
(* is, or soon will be, somebody else's), and the walk down meets no block  *)
(* twice, so MAX_HOPS cuts off no running exec.                             *)
THEOREM ChainCorrect ==
  Nested => (Spec => []ChainInv)
<1> SUFFICES ASSUME Nested PROVE Spec => []ChainInv
  OBVIOUS
<1>1. Spec => []ChainIndInv
  BY ChainInductive
<1>2. ChainIndInv => ChainInv
  BY ChainIndGives
<1> QED
  BY <1>1, <1>2, PTL

(* RxXcPub() and RxXcRst(), in whatever order the copies call them, leave   *)
(* ECTENVBK as the first copy found it once no exec runs.                   *)
THEOREM EctRestored ==
  Nested => (Spec => []EctComesBack)
<1> SUFFICES ASSUME Nested PROVE Spec => []EctComesBack
  OBVIOUS
<1>1. Spec => []ChainIndInv
  BY ChainInductive
<1>2. ChainIndInv => EctComesBack
  BY ChainIndGives
<1> QED
  BY <1>1, <1>2, PTL

-----------------------------------------------------------------------------
(* EnvChain implements ExecChain: the words of the blocks and ECTENVBK,     *)
(* read from the top, are the stack of claims, and every step of a copy,    *)
(* of TSO or of the other environment is a step on that stack or none.      *)

(* Beside the chain: a copy is active while it is published, and only then  *)
(* its block names an input stack element.                                  *)
RefIndInv ==
  /\ ChainIndInv
  /\ \A b \in Blocks : active[b] = published[b]
  /\ \A b \in Blocks : ~published[b] => stkWord[b] = NoBlock

-----------------------------------------------------------------------------
(* Reading the chain.                                                       *)

LEMMA SameSequence ==
  ASSUME NEW S, NEW s \in Seq(S), NEW t \in Seq(S), Len(s) = Len(t),
         \A i \in 1 .. Len(s) : s[i] = t[i]
  PROVE  s = t
OBVIOUS

LEMMA Concatenated ==
  ASSUME NEW S, NEW s \in Seq(S), NEW t \in Seq(S)
  PROVE  /\ s \o t \in Seq(S) /\ Len(s \o t) = Len(s) + Len(t)
         /\ \A i \in 1 .. Len(s) + Len(t) :
              (s \o t)[i] = IF i <= Len(s) THEN s[i] ELSE t[i - Len(s)]
OBVIOUS

(* Below a list that ends nowhere or at another environment's value the     *)
(* walk meets nothing more.                                                 *)
LEMMA WalkEnds ==
  ASSUME NEW n, NEW s, NEW from, NEW end, Listed(s, n), Linked(from, s, n, end),
         end \notin Blocks
  PROVE  \A k \in n + 1 .. MaxHops : Walk(from)[k] = NoBlock
<1> DEFINE T == {k \in Nat : k > n /\ k <= MaxHops /\ Walk(from)[k] # NoBlock}
<1>0. n \in Nat /\ MaxHops \in Nat
  BY HopsSuffice DEF Listed
<1>1. T = {}
  <2> SUFFICES ASSUME T # {} PROVE FALSE
    OBVIOUS
  <2>1. PICK k \in T : \A j \in T : k <= j
    <3>1. T \subseteq Nat
      OBVIOUS
    <3> HIDE DEF T
    <3> QED
      BY <3>1, LeastNat
  <2>2. k \in 1 .. MaxHops /\ k - 1 \in Nat /\ k - 1 >= n
    BY <1>0, <2>1
  <2>3. Walk(from)[k] = Next13C(Walk(from)[k - 1])
    BY <2>2, WalkHops
  <2>4. Walk(from)[k - 1] \notin Blocks
    <3>1. CASE k - 1 = n
      <4>1. n \in 0 .. n /\ ~(n < n)
        BY <1>0
      <4>2. Walk(from)[n] = end
        BY <4>1, WalkMeets DEF Below
      <4> QED
        BY <3>1, <4>2
    <3>2. CASE k - 1 # n
      <4>1. k - 1 \notin T
        BY <1>0, <2>1, <2>2
      <4>2. Walk(from)[k - 1] = NoBlock
        BY <1>0, <2>2, <3>2, <4>1
      <4> QED
        BY <4>2, ForeignIsNoBlock
    <3> QED
      BY <3>1, <3>2
  <2>5. Walk(from)[k] = NoBlock
    BY <2>3, <2>4 DEF Next13C
  <2> QED
    BY <2>1, <2>5
<1> QED
  BY <1>0, <1>1

Claims == Blocks \cup {foreign}

LEMMA DownIs ==
  ASSUME NEW n, NEW s, NEW from, NEW end \in {foreign, NoBlock},
         Listed(s, n), Linked(from, s, n, end)
  PROVE  LET d == IF end = NoBlock THEN n ELSE n + 1
         IN  /\ Down(from) \in Seq(Claims) /\ Len(Down(from)) = d
             /\ \A k \in 1 .. d : Down(from)[k] = IF k <= n THEN s[k] ELSE end
<1> DEFINE d == IF end = NoBlock THEN n ELSE n + 1
           at == Walk(from)
           T == {0} \cup {k \in 1 .. (MaxHops + 1) : at[k - 1] # NoBlock}
<1>0. n \in Nat /\ n <= MaxHops /\ MaxHops \in Nat /\ s \in [1 .. n -> Blocks]
  BY ListShort, HopsSuffice DEF Listed
<1>1. \A k \in 0 .. n : at[k] = IF k < n THEN s[k + 1] ELSE end
  BY WalkMeets DEF Below
<1>2. \A k \in n + 1 .. MaxHops : at[k] = NoBlock
  BY WalkEnds, ForeignIsNoBlock
<1> HIDE DEF at
<1>3. \A k \in 1 .. d : k \in 1 .. MaxHops + 1 /\ at[k - 1] = (IF k <= n THEN s[k] ELSE end)
                        /\ at[k - 1] \in Claims /\ at[k - 1] # NoBlock
  <2> SUFFICES ASSUME NEW k \in 1 .. d
               PROVE  k \in 1 .. MaxHops + 1 /\ at[k - 1] = (IF k <= n THEN s[k] ELSE end)
                      /\ at[k - 1] \in Claims /\ at[k - 1] # NoBlock
    OBVIOUS
  <2>1. CASE k <= n
    <3>1. k - 1 \in 0 .. n /\ k - 1 < n /\ k \in 1 .. n /\ k \in 1 .. MaxHops + 1
      BY <1>0, <2>1
    <3>2. at[k - 1] = s[k] /\ s[k] \in Blocks
      BY <1>0, <1>1, <3>1
    <3> QED
      BY <2>1, <3>1, <3>2, ForeignIsNoBlock DEF Claims
  <2>2. CASE ~(k <= n)
    <3>1. k = n + 1 /\ end # NoBlock /\ end = foreign
      BY <1>0, <2>2
    <3>2. at[k - 1] = end
      BY <1>0, <1>1, <3>1
    <3> QED
      BY <1>0, <2>2, <3>1, <3>2 DEF Claims
  <2> QED
    BY <2>1, <2>2
<1>4. \A k \in 1 .. MaxHops + 1 : k > d => at[k - 1] = NoBlock
  <2> SUFFICES ASSUME NEW k \in 1 .. MaxHops + 1, k > d
               PROVE  at[k - 1] = NoBlock
    OBVIOUS
  <2>1. CASE k = n + 1
    BY <1>0, <1>1, <2>1
  <2>2. CASE k # n + 1
    <3>1. k - 1 \in n + 1 .. MaxHops
      BY <1>0, <2>2
    <3> QED
      BY <1>2, <3>1
  <2> QED
    BY <2>1, <2>2
<1>5. d \in Nat /\ d <= MaxHops + 1
  BY <1>0
<1> HIDE DEF d
<1>6. d \in T /\ \A k \in T : k <= d
  BY <1>0, <1>3, <1>4, <1>5
<1>7. T \subseteq Nat
  BY <1>0
<1>8. Max(T) = d
  <2> HIDE DEF T
  <2>1. \A y \in T : d >= y
    BY <1>5, <1>6, <1>7
  <2>2. Max(T) \in T /\ \A y \in T : Max(T) >= y
    BY <1>6, <2>1, Zenon DEF Max
  <2>3. PICK x \in Nat : x = Max(T) /\ x <= d /\ x >= d
    BY <1>6, <1>7, <2>2
  <2> QED
    BY <1>5, <2>3
<1>9. Down(from) = [k \in 1 .. d |-> at[k - 1]]
  <2>1. Down(from) = [k \in 1 .. Max(T) |-> at[k - 1]]
    BY DEF Down, at
  <2> HIDE DEF T
  <2> QED
    BY <1>8, <2>1
<1> DEFINE f == [k \in 1 .. d |-> at[k - 1]]
<1>10. f \in Seq(Claims) /\ Len(f) = d /\ \A k \in 1 .. d : f[k] = at[k - 1]
  BY <1>3, <1>5
<1> HIDE DEF f
<1>11. /\ Down(from) \in Seq(Claims) /\ Len(Down(from)) = d
       /\ \A k \in 1 .. d : Down(from)[k] = IF k <= n THEN s[k] ELSE end
  BY <1>3, <1>9, <1>10 DEF f
<1> QED
  BY <1>11 DEF d

(* The claims are the execs above another environment's value, that value,  *)
(* and the execs it has found; at the bottom the value found at the start.  *)
Depth(n, m, end) == IF end = NoBlock THEN n ELSE n + 1 + m
Claim(n, up, low, end, i) ==
  IF i <= n THEN up[i] ELSE IF i = n + 1 THEN end ELSE low[i - (n + 1)]

Lowest == IF saved = off THEN found ELSE foreign
Reads(n, m, up, low) ==
  /\ Chain \in Seq(Claims) /\ Len(Chain) = Depth(n, m, Lowest)
  /\ \A i \in 1 .. Depth(n, m, Lowest) : Chain[i] = Claim(n, up, low, Lowest, i)
FoundOK == found \in {NoBlock, foreign}

LEMMA ChainReads ==
  ASSUME NEW n, NEW m, NEW up, NEW low
  PROVE  ChainIs(n, up, m, low) /\ FoundOK => Reads(n, m, up, low)
<1> SUFFICES ASSUME ChainIs(n, up, m, low), found \in {NoBlock, foreign}
             PROVE  Reads(n, m, up, low)
  BY DEF FoundOK
<1>0. /\ Listed(up, n) /\ n \in Nat /\ up \in [1 .. n -> Blocks]
      /\ Listed(low, m) /\ m \in Nat /\ low \in [1 .. m -> Blocks]
  BY DEF ChainIs, Listed
<1> DEFINE top == Down(ectenvbk)
           bottom == Down(saved)
<1>1. CASE saved = off
  <2>1. /\ Lowest = found /\ Linked(ectenvbk, up, n, found) /\ m = 0
    BY <1>1, ForeignIsNoBlock DEF ChainIs, Lowest
  <2>2. LET d == IF found = NoBlock THEN n ELSE n + 1
        IN  /\ top \in Seq(Claims) /\ Len(top) = d
            /\ \A k \in 1 .. d : top[k] = IF k <= n THEN up[k] ELSE found
    <3>1. PICK end \in {foreign, NoBlock} : end = found
      OBVIOUS
    <3>2. Linked(ectenvbk, up, n, end)
      BY <2>1, <3>1
    <3>3. LET d == IF end = NoBlock THEN n ELSE n + 1
          IN  /\ top \in Seq(Claims) /\ Len(top) = d
              /\ \A k \in 1 .. d : top[k] = IF k <= n THEN up[k] ELSE end
      BY <1>0, <3>2, DownIs
    <3> HIDE DEF top
    <3> QED
      BY <3>1, <3>3
  <2>3. Chain = top \o <<>>
    BY <1>1 DEF Chain
  <2> HIDE DEF top
  <2>4. Chain = top
    BY <2>2, <2>3
  <2>5. Depth(n, m, found) = IF found = NoBlock THEN n ELSE n + 1
    BY <1>0, <2>1 DEF Depth
  <2>6. \A i \in 1 .. Depth(n, m, found) :
          Claim(n, up, low, found, i) = IF i <= n THEN up[i] ELSE found
    BY <1>0, <2>5 DEF Claim
  <2> QED
    BY <2>1, <2>2, <2>4, <2>5, <2>6 DEF Reads
<1>2. CASE saved # off
  <2>1. /\ Lowest = foreign /\ Linked(ectenvbk, up, n, foreign)
        /\ Linked(saved, low, m, NoBlock)
    BY <1>2, ForeignIsNoBlock DEF ChainIs, Lowest
  <2>2. LET d == IF foreign = NoBlock THEN n ELSE n + 1
        IN  /\ top \in Seq(Claims) /\ Len(top) = d
            /\ \A k \in 1 .. d : top[k] = IF k <= n THEN up[k] ELSE foreign
    BY <1>0, <2>1, DownIs
  <2>3. LET d == IF NoBlock = NoBlock THEN m ELSE m + 1
        IN  /\ bottom \in Seq(Claims) /\ Len(bottom) = d
            /\ \A k \in 1 .. d : bottom[k] = IF k <= m THEN low[k] ELSE NoBlock
    BY <1>0, <2>1, DownIs
  <2>4. Chain = top \o bottom
    BY <1>2 DEF Chain
  <2> HIDE DEF top, bottom
  <2>5. /\ top \in Seq(Claims) /\ Len(top) = n + 1 /\ Depth(n, m, foreign) = n + 1 + m
        /\ bottom \in Seq(Claims) /\ Len(bottom) = m
    BY <2>2, <2>3, ForeignIsNoBlock DEF Depth
  <2>6. /\ Chain \in Seq(Claims) /\ Len(Chain) = n + 1 + m
        /\ \A i \in 1 .. n + 1 + m : Chain[i] = IF i <= n + 1 THEN top[i] ELSE bottom[i - (n + 1)]
    <3>1. /\ Chain \in Seq(Claims) /\ Len(Chain) = Len(top) + Len(bottom)
          /\ \A i \in 1 .. Len(top) + Len(bottom) :
               Chain[i] = IF i <= Len(top) THEN top[i] ELSE bottom[i - Len(top)]
      BY <2>4, <2>5, Concatenated
    <3> QED
      BY <2>5, <3>1
  <2>7. ASSUME NEW i \in 1 .. n + 1 + m
        PROVE  Chain[i] = Claim(n, up, low, foreign, i)
    <3>1. CASE i <= n + 1
      <4>1. i \in 1 .. n + 1 /\ Chain[i] = top[i]
        BY <1>0, <2>6, <3>1
      <4>2. top[i] = IF i <= n THEN up[i] ELSE foreign
        BY <2>2, <4>1, ForeignIsNoBlock
      <4> QED
        BY <1>0, <4>1, <4>2 DEF Claim
    <3>2. CASE ~(i <= n + 1)
      <4>1. i - (n + 1) \in 1 .. m /\ Chain[i] = bottom[i - (n + 1)]
        BY <1>0, <2>6, <3>2
      <4>2. bottom[i - (n + 1)] = low[i - (n + 1)]
        BY <1>0, <2>3, <4>1
      <4> QED
        BY <1>0, <3>2, <4>1, <4>2 DEF Claim
    <3> QED
      BY <3>1, <3>2
  <2> QED
    BY <2>1, <2>5, <2>6, <2>7 DEF Reads
<1> QED
  BY <1>1, <1>2

(* The same of the next state.                                              *)
LEMMA ChainReadsNext ==
  ASSUME NEW n, NEW m, NEW up, NEW low
  PROVE  ChainIs(n, up, m, low)' /\ FoundOK' => Reads(n, m, up, low)'
<1>1. ChainIs(n, up, m, low) /\ FoundOK => Reads(n, m, up, low)
  BY ChainReads
<1> QED
  BY <1>1, PTL

(* The same list of claims is the same chain.                               *)
LEMMA SameChain ==
  ASSUME NEW n, NEW m, NEW up, NEW low, ChainIs(n, up, m, low), ChainIs(n, up, m, low)',
         FoundOK, UNCHANGED <<saved, found>>
  PROVE  Chain' = Chain
<1>1. Reads(n, m, up, low) /\ Reads(n, m, up, low)'
  BY ChainReads, ChainReadsNext DEF FoundOK
<1>2. PICK end : end = Lowest /\ end = Lowest'
  BY DEF Lowest
<1>3. /\ Chain \in Seq(Claims) /\ Len(Chain) = Depth(n, m, end)
      /\ \A i \in 1 .. Depth(n, m, end) : Chain[i] = Claim(n, up, low, end, i)
  BY <1>1, <1>2 DEF Reads
<1>4. /\ Chain' \in Seq(Claims) /\ Len(Chain') = Depth(n, m, end)
      /\ \A i \in 1 .. Depth(n, m, end) : Chain'[i] = Claim(n, up, low, end, i)
  BY <1>1, <1>2 DEF Reads, Claims
<1>5. PICK s \in Seq(Claims) : s = Chain
  BY <1>3
<1>6. PICK t \in Seq(Claims) : t = Chain'
  BY <1>4
<1>7. s = t
  BY <1>3, <1>4, <1>5, <1>6, SameSequence
<1> QED
  BY <1>5, <1>6, <1>7

(* The execs of the chain are those that are published.                     *)
LEMMA RunningAre ==
  ASSUME NEW n, NEW m, NEW up, NEW low, ChainIs(n, up, m, low), FoundOK
  PROVE  \A b \in Blocks : b \in EC!Running <=> published[b]
<1>1. Reads(n, m, up, low)
  BY ChainReads
<1>2. PICK end \in {NoBlock, foreign} : end = Lowest /\ (end = NoBlock => m = 0)
  BY ForeignIsNoBlock DEF Lowest, FoundOK, ChainIs
<1>3. /\ Chain \in Seq(Claims) /\ Len(Chain) = Depth(n, m, end)
      /\ \A i \in 1 .. Depth(n, m, end) : Chain[i] = Claim(n, up, low, end, i)
  BY <1>1, <1>2 DEF Reads
<1>4. n \in Nat /\ m \in Nat /\ up \in [1 .. n -> Blocks] /\ low \in [1 .. m -> Blocks]
  BY DEF ChainIs, Listed
<1>5. DOMAIN Chain = 1 .. Depth(n, m, end)
  BY <1>3
<1>6. EC!Running = {Chain[i] : i \in DOMAIN Chain} \ {foreign}
  BY DEF EC!Running, EC!ToSet
<1>7. ASSUME NEW b \in Blocks, NEW i \in 1 .. Depth(n, m, end), Chain[i] = b
      PROVE  published[b]
  <2>1. Claim(n, up, low, end, i) = b
    BY <1>3, <1>7
  <2>2. \/ i \in 1 .. n /\ up[i] = b
        \/ i - (n + 1) \in 1 .. m /\ low[i - (n + 1)] = b
    BY <1>2, <1>4, <2>1, ForeignIsNoBlock DEF Claim, Depth
  <2> QED
    BY <2>2 DEF ChainIs
<1>8. ASSUME NEW b \in Blocks, published[b]
      PROVE  \E i \in 1 .. Depth(n, m, end) : Chain[i] = b
  <2>1. CASE \E i \in 1 .. n : up[i] = b
    <3>1. PICK i \in 1 .. n : up[i] = b
      BY <2>1
    <3>2. i \in 1 .. Depth(n, m, end)
      BY <1>4, <3>1 DEF Depth
    <3>3. Claim(n, up, low, end, i) = b
      BY <1>4, <3>1 DEF Claim
    <3> QED
      BY <1>3, <3>2, <3>3
  <2>2. CASE \E j \in 1 .. m : low[j] = b
    <3>1. PICK j \in 1 .. m : low[j] = b
      BY <2>2
    <3>2. end # NoBlock
      BY <1>2, <3>1
    <3>3. n + 1 + j \in 1 .. Depth(n, m, end)
      BY <1>4, <3>1, <3>2 DEF Depth
    <3>4. ~(n + 1 + j <= n) /\ n + 1 + j # n + 1 /\ (n + 1 + j) - (n + 1) = j
      BY <1>4, <3>1
    <3>5. Claim(n, up, low, end, n + 1 + j) = b
      BY <3>1, <3>4 DEF Claim
    <3> QED
      BY <1>3, <3>3, <3>5
  <2> QED
    BY <1>8, <2>1, <2>2 DEF ChainIs
<1>9. \A b \in Blocks : b # foreign
  BY ForeignIsNoBlock
<1> QED
  BY <1>5, <1>6, <1>7, <1>8, <1>9

-----------------------------------------------------------------------------
(* A claim that joins on top, and one that leaves.                          *)
LEMMA Topped ==
  ASSUME NEW x \in Claims, NEW s \in Seq(Claims), NEW t \in Seq(Claims),
         Len(t) = Len(s) + 1, t[1] = x, \A i \in 1 .. Len(s) : t[i + 1] = s[i]
  PROVE  t = <<x>> \o s
<1> DEFINE u == <<x>> \o s
<1>1. <<x>> \in Seq(Claims) /\ Len(<<x>>) = 1 /\ <<x>>[1] = x
  OBVIOUS
<1>2. /\ u \in Seq(Claims) /\ Len(u) = 1 + Len(s)
      /\ \A i \in 1 .. 1 + Len(s) : u[i] = IF i <= 1 THEN <<x>>[i] ELSE s[i - 1]
  <2>1. /\ u \in Seq(Claims) /\ Len(u) = Len(<<x>>) + Len(s)
        /\ \A i \in 1 .. Len(<<x>>) + Len(s) :
             u[i] = IF i <= Len(<<x>>) THEN <<x>>[i] ELSE s[i - Len(<<x>>)]
    BY <1>1, Concatenated
  <2> HIDE DEF u
  <2> QED
    BY <1>1, <2>1
<1> HIDE DEF u
<1>3. Len(s) \in Nat
  OBVIOUS
<1>4. ASSUME NEW i \in 1 .. Len(t)
      PROVE  t[i] = u[i]
  <2>1. CASE i = 1
    BY <1>1, <1>2, <1>3, <2>1
  <2>2. CASE i # 1
    <3>1. i - 1 \in 1 .. Len(s) /\ (i - 1) + 1 = i /\ ~(i <= 1) /\ i \in 1 .. 1 + Len(s)
      BY <1>3, <2>2
    <3>2. t[i] = s[i - 1]
      BY <3>1
    <3> QED
      BY <1>2, <3>1, <3>2
  <2> QED
    BY <2>1, <2>2
<1>5. Len(t) = Len(u)
  BY <1>2, <1>3
<1>6. t = u
  BY <1>2, <1>4, <1>5, SameSequence
<1> QED
  BY <1>6 DEF u

LEMMA Removed ==
  ASSUME NEW s \in Seq(Claims), NEW t \in Seq(Claims), NEW i \in 1 .. Len(s),
         Len(t) = Len(s) - 1,
         \A j \in 1 .. Len(s) - 1 : t[j] = IF j < i THEN s[j] ELSE s[j + 1]
  PROVE  t = SubSeq(s, 1, i - 1) \o SubSeq(s, i + 1, Len(s))
<1> DEFINE a == SubSeq(s, 1, i - 1)
           z == SubSeq(s, i + 1, Len(s))
           u == a \o z
<1>0. Len(s) \in Nat /\ i \in Nat /\ i >= 1 /\ i <= Len(s)
  OBVIOUS
<1>1. a \in Seq(Claims) /\ Len(a) = i - 1 /\ \A j \in 1 .. i - 1 : a[j] = s[j]
  BY <1>0
<1>2. z \in Seq(Claims) /\ Len(z) = Len(s) - i /\ \A j \in 1 .. Len(s) - i : z[j] = s[i + j]
  BY <1>0
<1> HIDE DEF a, z
<1>3. /\ u \in Seq(Claims) /\ Len(u) = Len(a) + Len(z)
      /\ \A j \in 1 .. Len(a) + Len(z) : u[j] = IF j <= Len(a) THEN a[j] ELSE z[j - Len(a)]
  BY <1>1, <1>2, Concatenated
<1> HIDE DEF u
<1>4. Len(u) = Len(s) - 1
  BY <1>0, <1>1, <1>2, <1>3
<1>5. ASSUME NEW j \in 1 .. Len(s) - 1
      PROVE  t[j] = u[j]
  <2>1. u[j] = IF j <= i - 1 THEN a[j] ELSE z[j - (i - 1)]
    BY <1>0, <1>1, <1>2, <1>3
  <2>2. CASE j < i
    <3>1. j \in 1 .. i - 1 /\ j <= i - 1
      BY <1>0, <2>2
    <3> QED
      BY <1>1, <2>1, <2>2, <3>1
  <2>3. CASE ~(j < i)
    <3>1. j - (i - 1) \in 1 .. Len(s) - i /\ i + (j - (i - 1)) = j + 1 /\ ~(j <= i - 1)
      BY <1>0, <2>3
    <3>2. u[j] = s[j + 1]
      BY <1>2, <2>1, <3>1
    <3> QED
      BY <2>3, <3>2
  <2> QED
    BY <2>2, <2>3
<1>6. t = u
  BY <1>3, <1>4, <1>5, SameSequence
<1> QED
  BY <1>6 DEF u, a, z

-----------------------------------------------------------------------------
(* RxXcPub() starts an exec.                                                *)
LEMMA PubStarts ==
  ASSUME ChainIndInv, NEW b \in Blocks, RxXcPub(b),
         NEW n, NEW m, NEW up, NEW low, ChainIs(n, up, m, low)
  PROVE  Chain' = <<b>> \o Chain
<1> DEFINE on == OnTop(b, up, n)
<1>1. ChainIs(n + 1, on, m, low)'
  BY PubChain
<1> HIDE DEF on
<1>2. FoundOK /\ FoundOK' /\ UNCHANGED <<saved, found>>
  BY DEF FoundOK, ChainIndInv, ChainTypeOK, RxXcPub
<1>3. Reads(n, m, up, low) /\ Reads(n + 1, m, on, low)'
  <2>1. PICK k : k = n + 1
    OBVIOUS
  <2>2. Reads(k, m, on, low)'
    BY <1>1, <1>2, <2>1, ChainReadsNext
  <2> QED
    BY <1>2, <2>1, <2>2, ChainReads
<1>4. PICK end : end = Lowest /\ end = Lowest'
  BY <1>2 DEF Lowest
<1>5. n \in Nat /\ m \in Nat
  BY DEF ChainIs, Listed
<1>6. Depth(n + 1, m, end) = Depth(n, m, end) + 1 /\ Depth(n, m, end) \in Nat
  BY <1>5 DEF Depth
<1>7. Claim(n + 1, on, low, end, 1) = b
  BY <1>5 DEF Claim, on, OnTop
<1>8. ASSUME NEW i \in 1 .. Depth(n, m, end)
      PROVE  Claim(n + 1, on, low, end, i + 1) = Claim(n, up, low, end, i)
  <2>1. i \in Nat /\ i >= 1
    BY <1>6
  <2>2. i <= n => on[i + 1] = up[i]
    BY <1>5, <2>1 DEF on, OnTop
  <2>3. (i + 1) - (n + 1 + 1) = i - (n + 1)
    BY <1>5, <2>1
  <2> QED
    BY <1>5, <2>1, <2>2, <2>3 DEF Claim
<1>9. /\ Chain \in Seq(Claims) /\ Len(Chain) = Depth(n, m, end)
      /\ \A i \in 1 .. Depth(n, m, end) : Chain[i] = Claim(n, up, low, end, i)
  BY <1>3, <1>4 DEF Reads
<1>10. /\ Chain' \in Seq(Claims) /\ Len(Chain') = Depth(n + 1, m, end)
       /\ \A i \in 1 .. Depth(n + 1, m, end) : Chain'[i] = Claim(n + 1, on, low, end, i)
  BY <1>3, <1>4 DEF Reads, Claims
<1>11. PICK s \in Seq(Claims) : s = Chain
  BY <1>9
<1>12. PICK t \in Seq(Claims) : t = Chain'
  BY <1>10
<1>13. Len(t) = Len(s) + 1 /\ t[1] = b
  BY <1>6, <1>7, <1>9, <1>10, <1>11, <1>12
<1>14. \A i \in 1 .. Len(s) : t[i + 1] = s[i]
  <2>1. \A i \in 1 .. Depth(n, m, end) : i + 1 \in 1 .. Depth(n + 1, m, end)
    BY <1>6
  <2> QED
    BY <1>8, <1>9, <1>10, <1>11, <1>12, <2>1
<1>15. t = <<b>> \o s
  BY <1>13, <1>14, Topped DEF Claims
<1> QED
  BY <1>11, <1>12, <1>15

(* RxXcRst() of a published copy ends its exec, wherever it stands.         *)
LEMMA RstEnds ==
  ASSUME ChainIndInv, NEW b \in Blocks, FoundOK', UNCHANGED <<saved, found>>,
         NEW n, NEW m, NEW up, NEW low, ChainIs(n, up, m, low),
         NEW i \in 1 .. n, up[i] = b, ChainIs(n - 1, Without(up, n, i), m, low)'
  PROVE  Chain' = EC!RemoveAt(Chain, CHOOSE j \in DOMAIN Chain : Chain[j] = b)
<1> DEFINE cut == Without(up, n, i)
<1> HIDE DEF cut
<1>1. /\ n \in Nat /\ m \in Nat /\ up \in [1 .. n -> Blocks] /\ low \in [1 .. m -> Blocks]
      /\ \A j, k \in 1 .. n : up[j] = up[k] => j = k
      /\ \A j \in 1 .. n, k \in 1 .. m : up[j] # low[k]
  BY DEF ChainIs, Listed
<1>2. FoundOK
  BY DEF FoundOK, ChainIndInv, ChainTypeOK
<1>3. Reads(n, m, up, low) /\ Reads(n - 1, m, cut, low)'
  <2>1. PICK k : k = n - 1
    OBVIOUS
  <2>2. ChainIs(k, cut, m, low)'
    BY <2>1 DEF cut
  <2>3. Reads(k, m, cut, low)'
    BY <2>2, ChainReadsNext
  <2> QED
    BY <1>2, <2>1, <2>3, ChainReads
<1>4. PICK end \in {NoBlock, foreign} : end = Lowest /\ end = Lowest'
  BY <1>2 DEF Lowest, FoundOK
<1>5. PICK d \in Nat : d = Depth(n, m, end) /\ d >= n /\ Depth(n - 1, m, end) = d - 1
  <2>1. CASE end = NoBlock
    BY <1>1, <2>1 DEF Depth
  <2>2. CASE end # NoBlock
    <3>1. Depth(n, m, end) = n + 1 + m /\ Depth(n - 1, m, end) = (n - 1) + 1 + m
      BY <2>2 DEF Depth
    <3>2. (n - 1) + 1 + m = (n + 1 + m) - 1 /\ n + 1 + m \in Nat /\ n + 1 + m >= n
      BY <1>1
    <3> QED
      BY <3>1, <3>2
  <2> QED
    BY <2>1, <2>2
<1>6. /\ Chain \in Seq(Claims) /\ Len(Chain) = d
      /\ \A j \in 1 .. d : Chain[j] = Claim(n, up, low, end, j)
  BY <1>3, <1>4, <1>5 DEF Reads
<1>7. /\ Chain' \in Seq(Claims) /\ Len(Chain') = d - 1
      /\ \A j \in 1 .. d - 1 : Chain'[j] = Claim(n - 1, cut, low, end, j)
  BY <1>3, <1>4, <1>5 DEF Reads, Claims
<1>8. ASSUME NEW j \in 1 .. d - 1
      PROVE  Claim(n - 1, cut, low, end, j)
               = IF j < i THEN Claim(n, up, low, end, j) ELSE Claim(n, up, low, end, j + 1)
  <2>1. j <= n - 1 => cut[j] = IF j < i THEN up[j] ELSE up[j + 1]
    BY <1>1 DEF cut, Without
  <2>2. j \in Nat /\ i \in Nat /\ i >= 1 /\ i <= n
    BY <1>1, <1>5
  <2>3. j - (n - 1 + 1) = (j + 1) - (n + 1)
    BY <1>1, <2>2
  <2> QED
    BY <1>1, <2>1, <2>2, <2>3 DEF Claim
<1>9. PICK s \in Seq(Claims) : s = Chain
  BY <1>6
<1>10. PICK t \in Seq(Claims) : t = Chain'
  BY <1>7
<1>11. i \in 1 .. d /\ s[i] = b
  BY <1>1, <1>5, <1>6, <1>9 DEF Claim
<1>12. ASSUME NEW j \in 1 .. d, s[j] = b
       PROVE  j = i
  <2>1. Claim(n, up, low, end, j) = b /\ b # end
    BY <1>4, <1>6, <1>9, <1>12, ForeignIsNoBlock
  <2>2. ASSUME ~(j <= n), j # n + 1
        PROVE  low[j - (n + 1)] # b
    <3>1. j - (n + 1) \in 1 .. m
      BY <1>1, <1>5, <2>2 DEF Depth
    <3> QED
      BY <1>1, <3>1
  <2>3. j \in 1 .. n /\ up[j] = b
    BY <1>1, <1>5, <2>1, <2>2 DEF Claim
  <2> QED
    BY <1>1, <2>3
<1>13. (CHOOSE j \in DOMAIN s : s[j] = b) = i
  <2>1. DOMAIN s = 1 .. d
    BY <1>6, <1>9
  <2> QED
    BY <1>11, <1>12, <2>1
<1>14. Len(s) = d /\ Len(t) = Len(s) - 1 /\ i \in 1 .. Len(s)
  BY <1>6, <1>7, <1>9, <1>10, <1>11
<1>15. \A j \in 1 .. Len(s) - 1 : t[j] = IF j < i THEN s[j] ELSE s[j + 1]
  <2>1. \A j \in 1 .. d - 1 : j \in 1 .. d /\ j + 1 \in 1 .. d
    BY <1>5
  <2>2. Len(s) - 1 = d - 1
    BY <1>14
  <2> QED
    BY <1>6, <1>7, <1>8, <1>9, <1>10, <2>1, <2>2
<1>16. t = SubSeq(s, 1, i - 1) \o SubSeq(s, i + 1, Len(s))
  BY <1>14, <1>15, Removed
<1>17. t = EC!RemoveAt(s, i)
  BY <1>16 DEF EC!RemoveAt
<1> QED
  BY <1>9, <1>10, <1>13, <1>17

(* Another environment claims ECTENVBK, and leaves it.                      *)
LEMMA ForeignJoins ==
  ASSUME ChainIndInv, ForeignStarts,
         NEW n, NEW m, NEW up, NEW low, ChainIs(n, up, m, low)
  PROVE  Chain' = <<foreign>> \o Chain
<1>1. m = 0 /\ ChainIs(0, EmptyList, n, up)'
  BY ForeignStartsChain
<1>2. /\ found = NoBlock /\ saved = off /\ found' = found /\ saved' = ectenvbk
      /\ ectenvbk # off
  BY ForeignIsNoBlock DEF ForeignStarts, copyVars, ChainIndInv, ChainTypeOK
<1>3. FoundOK /\ FoundOK' /\ Lowest = NoBlock /\ Lowest' = foreign
  BY <1>2 DEF FoundOK, Lowest
<1>4. Reads(n, m, up, low) /\ Reads(0, n, EmptyList, up)'
  BY <1>1, <1>3, ChainReads, ChainReadsNext
<1>5. n \in Nat
  BY DEF ChainIs, Listed
<1>6. Depth(n, m, NoBlock) = n /\ Depth(0, n, foreign) = n + 1
  BY <1>5, ForeignIsNoBlock DEF Depth
<1>7. /\ Chain \in Seq(Claims) /\ Len(Chain) = n
      /\ \A i \in 1 .. n : Chain[i] = Claim(n, up, low, NoBlock, i)
  BY <1>3, <1>4, <1>6 DEF Reads
<1>8. /\ Chain' \in Seq(Claims) /\ Len(Chain') = n + 1
      /\ \A i \in 1 .. n + 1 : Chain'[i] = Claim(0, EmptyList, up, foreign, i)
  BY <1>3, <1>4, <1>6 DEF Reads, Claims
<1>9. /\ Claim(0, EmptyList, up, foreign, 1) = foreign
      /\ \A i \in 1 .. n : /\ Claim(n, up, low, NoBlock, i) = up[i]
                           /\ Claim(0, EmptyList, up, foreign, i + 1) = up[i]
  BY <1>5 DEF Claim
<1>10. PICK s \in Seq(Claims) : s = Chain
  BY <1>7
<1>11. PICK t \in Seq(Claims) : t = Chain'
  BY <1>8
<1>12. t = <<foreign>> \o s
  <2>1. Len(t) = Len(s) + 1 /\ t[1] = foreign
    BY <1>5, <1>7, <1>8, <1>9, <1>10, <1>11
  <2>2. \A i \in 1 .. n : i + 1 \in 1 .. n + 1
    BY <1>5
  <2>3. \A i \in 1 .. Len(s) : t[i + 1] = s[i]
    BY <1>7, <1>8, <1>9, <1>10, <1>11, <2>2
  <2> QED
    BY <2>1, <2>3, Topped DEF Claims
<1> QED
  BY <1>10, <1>11, <1>12

LEMMA ForeignLeft ==
  ASSUME ChainIndInv, ForeignEnds,
         NEW n, NEW m, NEW up, NEW low, ChainIs(n, up, m, low)
  PROVE  Chain # <<>> /\ Head(Chain) = foreign /\ Chain' = Tail(Chain)
<1>1. n = 0 /\ ChainIs(m, low, 0, EmptyList)'
  BY ForeignEndsChain
<1>2. found = NoBlock /\ saved # off /\ found' = found /\ saved' = off
  BY DEF ForeignEnds, copyVars, ChainIs
<1>3. FoundOK /\ FoundOK' /\ Lowest = foreign /\ Lowest' = NoBlock
  BY <1>2 DEF FoundOK, Lowest
<1>4. Reads(n, m, up, low) /\ Reads(m, 0, low, EmptyList)'
  BY <1>1, <1>3, ChainReads, ChainReadsNext
<1>5. m \in Nat
  BY DEF ChainIs, Listed
<1>6. Depth(n, m, foreign) = m + 1 /\ Depth(m, 0, NoBlock) = m
  BY <1>1, <1>5, ForeignIsNoBlock DEF Depth
<1>7. /\ Chain \in Seq(Claims) /\ Len(Chain) = m + 1
      /\ \A i \in 1 .. m + 1 : Chain[i] = Claim(n, up, low, foreign, i)
  BY <1>3, <1>4, <1>6 DEF Reads
<1>8. /\ Chain' \in Seq(Claims) /\ Len(Chain') = m
      /\ \A i \in 1 .. m : Chain'[i] = Claim(m, low, EmptyList, NoBlock, i)
  BY <1>3, <1>4, <1>6 DEF Reads, Claims
<1>9. /\ Claim(n, up, low, foreign, 1) = foreign
      /\ \A i \in 1 .. m : /\ Claim(m, low, EmptyList, NoBlock, i) = low[i]
                           /\ Claim(n, up, low, foreign, i + 1) = low[i]
  BY <1>1, <1>5 DEF Claim
<1>10. PICK s \in Seq(Claims) : s = Chain
  BY <1>7
<1>11. PICK t \in Seq(Claims) : t = Chain'
  BY <1>8
<1>12. Len(s) = m + 1 /\ s[1] = foreign /\ s # <<>>
  BY <1>5, <1>7, <1>9, <1>10
<1>13. Tail(s) \in Seq(Claims) /\ Len(Tail(s)) = m /\ \A i \in 1 .. m : Tail(s)[i] = s[i + 1]
  BY <1>5, <1>12
<1>14. t = Tail(s)
  <2>1. PICK u \in Seq(Claims) : u = Tail(s)
    BY <1>13
  <2>2. \A i \in 1 .. m : i + 1 \in 1 .. m + 1
    BY <1>5
  <2>3. Len(t) = Len(u) /\ \A i \in 1 .. Len(t) : t[i] = u[i]
    BY <1>7, <1>8, <1>9, <1>10, <1>11, <1>13, <2>1, <2>2
  <2>4. t = u
    BY <2>3, SameSequence
  <2> QED
    BY <2>1, <2>4
<1> QED
  BY <1>10, <1>11, <1>12, <1>14

-----------------------------------------------------------------------------
(* The newest exec whose element is on top is the first one BRXEXCOM finds. *)
LEMMA NewestFound ==
  ASSUME ChainIndInv, NEW n, NEW m, NEW up, NEW low, ChainIs(n, up, m, low),
         NEW hops, hops = {k \in Hops : stkWord[At[k]] = XcTopStack}, hops # {}
  PROVE  EC!Newest = At[Min(hops)]
<1>1. /\ n \in Nat /\ m \in Nat /\ up \in [1 .. n -> Blocks] /\ low \in [1 .. m -> Blocks]
      /\ Listed(up, n)
  BY DEF ChainIs, Listed
<1>2. FoundOK
  BY DEF FoundOK, ChainIndInv, ChainTypeOK
<1>3. PICK end \in {NoBlock, foreign} : end = Lowest
  BY <1>2 DEF Lowest, FoundOK
<1>4. Hops = 0 .. n - 1 /\ \A k \in 0 .. n - 1 : At[k] = up[k + 1]
  <2>1. Linked(ectenvbk, up, n, end) /\ end \notin Blocks
    BY <1>3, ForeignIsNoBlock DEF ChainIs, Lowest
  <2>2. \A i \in 1 .. n : phase[up[i]] # "free"
    BY <1>1 DEF ChainIndInv, ChainIs
  <2> QED
    BY <1>1, <2>1, <2>2, HopsAre
<1> DEFINE d == Depth(n, m, end)
<1>5. /\ DOMAIN Chain = 1 .. d
      /\ \A i \in 1 .. d : Chain[i] = Claim(n, up, low, end, i)
  BY <1>2, <1>3, ChainReads DEF Reads
<1>6. d \in Nat /\ d >= n
  BY <1>1 DEF Depth
<1>7. ASSUME NEW i \in 1 .. n
      PROVE  i \in 1 .. d /\ Chain[i] = up[i] /\ Chain[i] # foreign
  BY <1>1, <1>5, <1>6, ForeignIsNoBlock DEF Claim
<1>8. ASSUME NEW i \in 1 .. d, i > n
      PROVE  Chain[i] = foreign \/ EC!Hidden(i)
  <2>1. end = foreign
    BY <1>1, <1>8 DEF Depth
  <2>2. n + 1 \in 1 .. d /\ Chain[n + 1] = foreign
    BY <1>1, <1>5, <1>6, <1>8, <2>1 DEF Claim
  <2>3. CASE i = n + 1
    BY <2>2, <2>3
  <2>4. CASE i # n + 1
    <3>1. n + 1 \in 1 .. i - 1
      BY <1>1, <1>6, <1>8, <2>4
    <3> QED
      BY <2>2, <3>1 DEF EC!Hidden
  <2> QED
    BY <2>3, <2>4
<1> HIDE DEF d
<1> DEFINE owners == {i \in DOMAIN Chain : Chain[i] # foreign /\ ~EC!Hidden(i)
                                           /\ stkWord[Chain[i]] = XcTopStack}
<1>9. owners = {i \in 1 .. n : stkWord[up[i]] = XcTopStack}
  <2>1. \A i \in 1 .. n : ~EC!Hidden(i)
    <3>1. \A i \in 1 .. n : \A j \in 1 .. i - 1 : j \in 1 .. n
      BY <1>1
    <3> QED
      BY <1>7, <3>1 DEF EC!Hidden
  <2>2. \A i \in owners : i \in 1 .. n
    BY <1>1, <1>5, <1>6, <1>8
  <2> QED
    BY <1>5, <1>7, <2>1, <2>2
<1>10. \A k \in 0 .. n - 1 : k \in hops <=> k + 1 \in owners
  <2>1. \A k \in 0 .. n - 1 : k + 1 \in 1 .. n
    BY <1>1
  <2> HIDE DEF owners
  <2> QED
    BY <1>4, <1>9, <2>1
<1>11. hops \subseteq 0 .. n - 1 /\ owners \subseteq 1 .. n
  BY <1>4, <1>9
<1>12. EC!Newest = IF owners = {} THEN NoBlock
                   ELSE Chain[CHOOSE i \in owners : \A j \in owners : i <= j]
  BY DEF EC!Newest
<1> HIDE DEF owners
<1>13. PICK k \in hops : \A j \in hops : k <= j
  <2>1. hops \subseteq Nat
    BY <1>1, <1>11
  <2> QED
    BY <2>1, LeastNat
<1>14. Min(hops) = k
  <2>1. Min(hops) \in hops /\ \A j \in hops : Min(hops) <= j
    BY <1>13, Zenon DEF Min
  <2>2. PICK x \in 0 .. n - 1 : x = Min(hops) /\ x <= k /\ k <= x
    BY <1>11, <1>13, <2>1
  <2> QED
    BY <1>1, <1>11, <2>2
<1>15. k \in 0 .. n - 1 /\ k + 1 \in owners /\ k + 1 \in 1 .. n
  BY <1>1, <1>10, <1>11
<1>16. \A j \in owners : k + 1 <= j
  <2>1. \A j \in 1 .. n : j - 1 \in 0 .. n - 1 /\ (j - 1) + 1 = j
    BY <1>1
  <2>2. ASSUME NEW j \in owners
        PROVE  k + 1 <= j
    <3>1. j - 1 \in hops /\ j \in 1 .. n
      BY <1>10, <1>11, <2>1
    <3>2. k <= j - 1
      BY <1>13, <3>1
    <3> QED
      BY <1>1, <1>15, <3>1, <3>2
  <2> QED
    BY <2>2
<1>17. (CHOOSE i \in owners : \A j \in owners : i <= j) = k + 1
  <2>1. PICK i : i = CHOOSE x \in owners : \A j \in owners : x <= j
    OBVIOUS
  <2>2. i \in owners /\ \A j \in owners : i <= j
    BY <1>15, <1>16, <2>1
  <2>3. i = k + 1
    BY <1>1, <1>11, <1>15, <1>16, <2>2
  <2> QED
    BY <2>1, <2>3
<1>18. EC!Newest = up[k + 1]
  BY <1>7, <1>12, <1>15, <1>17
<1> QED
  BY <1>4, <1>14, <1>15, <1>18

(* What the copies need beside the chain.                                   *)
LEMMA RefInit ==
  ASSUME Init
  PROVE  RefIndInv /\ EC!ChainInit
<1>1. ChainIndInv
  BY ChainInit
<1>2. RefIndInv
  BY <1>1 DEF RefIndInv, Init
<1>3. ChainIs(0, EmptyList, 0, EmptyList)
  <2>1. \A b \in Blocks : ~published[b]
    BY DEF Init
  <2>2. Linked(ectenvbk, EmptyList, 0, found)
    BY DEF Linked, Below, Init
  <2> QED
    BY <2>1, <2>2, EmptyListed DEF ChainIs, Init
<1>4. FoundOK /\ Lowest = found
  BY DEF FoundOK, Lowest, Init
<1>5. Reads(0, 0, EmptyList, EmptyList)
  BY <1>3, <1>4, ChainReads
<1>6. Chain \in {<<>>, <<foreign>>}
  <2>1. PICK s \in Seq(Claims) : s = Chain
    BY <1>5 DEF Reads
  <2>2. CASE found = NoBlock
    <3>1. Len(s) = 0
      BY <1>4, <1>5, <2>1, <2>2 DEF Reads, Depth
    <3> QED
      BY <2>1, <3>1
  <2>3. CASE found = foreign
    <3>1. Len(s) = 1 /\ s[1] = foreign
      BY <1>4, <1>5, <2>1, <2>3, ForeignIsNoBlock DEF Reads, Depth, Claim
    <3>2. <<foreign>> \in Seq(Claims) /\ Len(<<foreign>>) = 1 /\ <<foreign>>[1] = foreign
      BY DEF Claims
    <3>3. PICK t \in Seq(Claims) : t = <<foreign>>
      BY <3>2
    <3>4. s = t
      BY <3>1, <3>2, <3>3, SameSequence
    <3> QED
      BY <2>1, <3>3, <3>4
  <2> QED
    BY <1>4, <2>2, <2>3 DEF FoundOK
<1>7. XcTopStack \in Elements
  <2>1. PICK e \in Elements : stack = <<e>>
    BY DEF Init
  <2> QED
    BY <2>1 DEF XcTopStack, Last
<1>8. stkWord = [b \in Blocks |-> NoBlock] /\ answer.by = NoBlock
  BY DEF Init, nobody
<1> QED
  BY <1>2, <1>6, <1>7, <1>8 DEF EC!ChainInit

-----------------------------------------------------------------------------
(* Where neither the list nor the words of the chain change, the claims are *)
(* the same.                                                                *)
LEMMA ChainUnchanged ==
  ASSUME ChainIndInv, UNCHANGED <<published, ectenvbk, found, saved>>,
         \A b \in Blocks : published[b] => prevWord'[b] = prevWord[b]
  PROVE  Chain' = Chain
<1>1. PICK n, m, up, low : ChainIs(n, up, m, low)
  BY ChainPicked
<1>2. ChainIs(n, up, m, low)'
  BY <1>1, ChainStays
<1>3. FoundOK
  BY DEF FoundOK, ChainIndInv, ChainTypeOK
<1> QED
  BY <1>1, <1>2, <1>3, SameChain

(* Every step keeps the invariant and is a step of ExecChain, or none.      *)
LEMMA InitializeRefines ==
  ASSUME RefIndInv, ChainIndInv', NEW b \in Blocks, RxMvsInitialize(b)
  PROVE  RefIndInv' /\ UNCHANGED EC!chainVars
<1>1. /\ stkWord \in [Blocks -> Elements \cup {NoBlock}] /\ published \in [Blocks -> BOOLEAN]
      /\ active \in [Blocks -> BOOLEAN] /\ ChainIndInv
      /\ prevWord \in [Blocks -> Pointers]
  BY DEF RefIndInv, ChainIndInv, ChainTypeOK
<1>2. ~published[b] /\ ~active[b] /\ stkWord[b] = NoBlock
  BY <1>1 DEF RefIndInv, ChainIndInv, RxMvsInitialize
<1>3. published' = published
  BY <1>1, <1>2, Zenon DEF RxMvsInitialize
<1>4. active' = active
  BY <1>1, <1>2, Zenon DEF RxMvsInitialize
<1>5. stkWord' = stkWord
  BY <1>1, <1>2, Zenon DEF RxMvsInitialize
<1>6. RefIndInv'
  BY <1>3, <1>4, <1>5 DEF RefIndInv
<1>7. Chain' = Chain
  BY <1>1, <1>2, <1>3, ChainUnchanged DEF RxMvsInitialize
<1>8. XcTopStack' = XcTopStack /\ answer' = answer
  BY DEF RxMvsInitialize, XcTopStack, Last
<1> QED
  BY <1>5, <1>6, <1>7, <1>8 DEF EC!chainVars

LEMMA PubRefines ==
  ASSUME RefIndInv, ChainIndInv', NEW b \in Blocks, RxXcPub(b)
  PROVE  RefIndInv' /\ EC!Start(b)
<1>1. /\ stkWord \in [Blocks -> Elements \cup {NoBlock}] /\ published \in [Blocks -> BOOLEAN]
      /\ active \in [Blocks -> BOOLEAN] /\ ChainIndInv /\ FoundOK
  BY DEF RefIndInv, ChainIndInv, ChainTypeOK, FoundOK
<1>2. ~published[b]
  BY <1>1 DEF ChainIndInv, RxXcPub
<1>3. RefIndInv'
  <2>1. ASSUME NEW c \in Blocks
        PROVE  active'[c] = published'[c] /\ (~published'[c] => stkWord'[c] = NoBlock)
    BY <1>1 DEF RefIndInv, RxXcPub
  <2> QED
    BY <2>1 DEF RefIndInv
<1>4. PICK n, m, up, low : ChainIs(n, up, m, low)
  BY <1>1, ChainPicked
<1>5. Chain' = <<b>> \o Chain
  BY <1>1, <1>4, PubStarts
<1>6. b \notin EC!Running
  BY <1>1, <1>2, <1>4, RunningAre
<1>7. /\ stkWord' = [stkWord EXCEPT ![b] = XcTopStack]
      /\ XcTopStack' = XcTopStack /\ answer' = answer
  BY DEF RxXcPub, XcTopStack, Last
<1> QED
  BY <1>3, <1>5, <1>6, <1>7 DEF EC!Start

LEMMA RstRefines ==
  ASSUME Nested, RefIndInv, ChainIndInv', NEW b \in Blocks, MayEnd(b), RxXcRst(b),
         UNCHANGED <<found, saved, stack, answer>>
  PROVE  RefIndInv' /\ (EC!End(b) \/ UNCHANGED EC!chainVars)
<1>1. /\ stkWord \in [Blocks -> Elements \cup {NoBlock}] /\ published \in [Blocks -> BOOLEAN]
      /\ active \in [Blocks -> BOOLEAN] /\ ChainIndInv /\ FoundOK
  BY DEF RefIndInv, ChainIndInv, ChainTypeOK, FoundOK
<1>2. PICK n, m, up, low : ChainIs(n, up, m, low)
  BY <1>1, ChainPicked
<1>3. /\ ~published[b] => ChainIs(n, up, m, low)'
      /\ published[b] =>
           \E i \in 1 .. n : up[i] = b /\ ChainIs(n - 1, Without(up, n, i), m, low)'
  BY <1>1, <1>2, RstChain
<1>4. XcTopStack' = XcTopStack /\ FoundOK'
  BY <1>1 DEF XcTopStack, Last, FoundOK
<1>5. /\ published' = [published EXCEPT ![b] = FALSE]
      /\ active' = [active EXCEPT ![b] = FALSE]
  BY DEF RxXcRst
<1>6. stkWord' = IF published[b] THEN [stkWord EXCEPT ![b] = NoBlock] ELSE stkWord
  BY Zenon DEF RxXcRst
<1>7. RefIndInv'
  <2>1. ASSUME NEW c \in Blocks
        PROVE  active'[c] = published'[c] /\ (~published'[c] => stkWord'[c] = NoBlock)
    <3>1. CASE c = b
      <4>1. active'[c] = FALSE /\ published'[c] = FALSE
        BY <1>1, <1>5, <3>1
      <4>2. stkWord'[c] = NoBlock
        BY <1>1, <1>6, <3>1 DEF RefIndInv
      <4> QED
        BY <4>1, <4>2
    <3>2. CASE c # b
      <4>1. active'[c] = active[c] /\ published'[c] = published[c]
        BY <1>1, <1>5, <3>2
      <4>2. stkWord'[c] = stkWord[c]
        BY <1>1, <1>6, <3>2
      <4> QED
        BY <4>1, <4>2 DEF RefIndInv
    <3> QED
      BY <3>1, <3>2
  <2> QED
    BY <2>1 DEF RefIndInv
<1>8. CASE published[b]
  <2>1. PICK i \in 1 .. n : up[i] = b /\ ChainIs(n - 1, Without(up, n, i), m, low)'
    BY <1>3, <1>8
  <2>2. Chain' = EC!RemoveAt(Chain, CHOOSE j \in DOMAIN Chain : Chain[j] = b)
    BY <1>1, <1>2, <1>4, <2>1, RstEnds
  <2>3. b \in EC!Running
    BY <1>1, <1>2, <1>8, RunningAre
  <2>4. EC!End(b)
    BY <1>4, <1>6, <1>8, <2>2, <2>3 DEF EC!End
  <2> QED
    BY <1>7, <2>4
<1>9. CASE ~published[b]
  <2>1. Chain' = Chain
    BY <1>1, <1>2, <1>3, <1>9, SameChain
  <2>2. UNCHANGED EC!chainVars
    BY <1>4, <1>6, <1>9, <2>1 DEF EC!chainVars
  <2> QED
    BY <1>7, <2>2
<1> QED
  BY <1>8, <1>9

(* A request: refused, or answered by the exec it names, or by the newest.  *)
LEMMA AskRefines ==
  ASSUME RefIndInv, ChainIndInv', NEW c \in Blocks, NEW r0, NEW fifth, Ask(c, r0, fifth)
  PROVE  RefIndInv' /\ EC!ChainNext
<1>1. /\ ChainIndInv /\ FoundOK
      /\ published \in [Blocks -> BOOLEAN] /\ active \in [Blocks -> BOOLEAN]
  BY DEF RefIndInv, ChainIndInv, ChainTypeOK, FoundOK
<1>2. /\ answer' = RxXcom(c, r0, fifth)
      /\ UNCHANGED <<phase, stkWord, prevWord, published, active, ectenvbk, found, saved, stack>>
  BY DEF Ask, copyVars
<1>3. RefIndInv'
  BY <1>2 DEF RefIndInv
<1>4. Chain' = Chain /\ XcTopStack' = XcTopStack
  BY <1>1, <1>2, ChainUnchanged DEF XcTopStack, Last
<1>5. PICK n, m, up, low : ChainIs(n, up, m, low)
  BY <1>1, ChainPicked
<1> DEFINE d == BRXEXCOM(c, r0)
           hops == {k \in Hops : stkWord[At[k]] = XcTopStack}
<1>6. d = IF r0 = c /\ stkWord[c] = XcTopStack THEN c
          ELSE IF hops = {} THEN NoBlock ELSE At[Min(hops)]
  BY DEF BRXEXCOM
<1>7. hops # {} => EC!Newest = At[Min(hops)]
  BY <1>1, <1>5, NewestFound
<1>8. answer' = IF d = NoBlock \/ ~active[d] THEN [by |-> NoBlock, rc |-> -1]
                ELSE IF fifth \notin {NoBlock, d} THEN [by |-> NoBlock, rc |-> 28]
                ELSE [by |-> d, rc |-> 0]
  BY <1>2 DEF RxXcom
<1> HIDE DEF d, hops
<1>9. CASE answer'.by = NoBlock
  <2>1. EC!Refused
    BY <1>2, <1>4, <1>9 DEF EC!Refused
  <2> QED
    BY <1>3, <2>1 DEF EC!ChainNext
<1>10. CASE answer'.by # NoBlock
  <2>1. d # NoBlock /\ active[d] /\ answer'.by = d
    BY <1>8, <1>10
  <2>2. CASE r0 = c /\ stkWord[c] = XcTopStack
    <3>1. d = c /\ published[c]
      BY <1>6, <2>1, <2>2 DEF RefIndInv
    <3>2. c \in EC!Running
      BY <1>1, <1>5, <3>1, RunningAre
    <3>3. EC!Request(c)
      BY <1>2, <1>4, <2>1, <2>2, <3>1, <3>2 DEF EC!Request
    <3> QED
      BY <1>3, <3>3 DEF EC!ChainNext
  <2>3. CASE ~(r0 = c /\ stkWord[c] = XcTopStack)
    <3>1. d = EC!Newest
      BY <1>6, <1>7, <2>1, <2>3
    <3>2. NoBlock \notin EC!Running
      <4>1. EC!Running \subseteq Blocks
        <5>1. Chain \in Seq(Claims)
          BY <1>1, <1>5, ChainReads DEF Reads
        <5> QED
          BY <5>1 DEF EC!Running, EC!ToSet, Claims
      <4> QED
        BY <4>1, ForeignIsNoBlock
    <3>3. EC!Request(NoBlock)
      BY <1>2, <1>4, <2>1, <3>1, <3>2 DEF EC!Request
    <3> QED
      BY <1>3, <3>3 DEF EC!ChainNext
  <2> QED
    BY <2>2, <2>3
<1> QED
  BY <1>9, <1>10

LEMMA OthersRefine ==
  ASSUME RefIndInv, ChainIndInv',
         \/ (\E e \in Elements : ClistStarts(e)) \/ ClistEnds
         \/ ForeignStarts \/ ForeignEnds
  PROVE  RefIndInv' /\ EC!ChainNext
<1>1. ChainIndInv /\ UNCHANGED <<stkWord, prevWord, published, active, found, answer>>
  BY DEF RefIndInv, ClistStarts, ClistEnds, ForeignStarts, ForeignEnds, copyVars
<1>2. RefIndInv'
  BY <1>1 DEF RefIndInv
<1>3. PICK n, m, up, low : ChainIs(n, up, m, low)
  BY <1>1, ChainPicked
<1>4. ASSUME (\E e \in Elements : ClistStarts(e)) \/ ClistEnds
      PROVE  EC!InputChanges
  <2>1. XcTopStack' \in Elements
    BY DEF ChainIndInv, ChainTypeOK, XcTopStack, Last
  <2>2. Chain' = Chain
    BY <1>1, <1>4, ChainUnchanged DEF ClistStarts, ClistEnds
  <2> QED
    BY <1>1, <2>1, <2>2 DEF EC!InputChanges
<1>5. ASSUME ForeignStarts
      PROVE  EC!ForeignClaims
  <2>1. Chain' = <<foreign>> \o Chain
    BY <1>1, <1>3, <1>5, ForeignJoins
  <2>2. XcTopStack' = XcTopStack
    BY <1>5 DEF ForeignStarts, XcTopStack, Last
  <2> QED
    BY <1>1, <2>1, <2>2 DEF EC!ForeignClaims
<1>6. ASSUME ForeignEnds
      PROVE  EC!ForeignLeaves
  <2>1. Chain # <<>> /\ Head(Chain) = foreign /\ Chain' = Tail(Chain)
    BY <1>1, <1>3, <1>6, ForeignLeft
  <2>2. XcTopStack' = XcTopStack
    BY <1>6 DEF ForeignEnds, XcTopStack, Last
  <2> QED
    BY <1>1, <2>1, <2>2 DEF EC!ForeignLeaves
<1> QED
  BY <1>2, <1>4, <1>5, <1>6 DEF EC!ChainNext

LEMMA StepRefines ==
  ASSUME Nested, RefIndInv, [Next]_vars
  PROVE  RefIndInv' /\ [EC!ChainNext]_EC!chainVars
<1>1. ChainIndInv /\ ChainIndInv'
  BY ChainStep DEF RefIndInv
<1>2. ASSUME NEW b \in Blocks, CopySteps(b)
      PROVE  RefIndInv' /\ [EC!ChainNext]_EC!chainVars
  <2>1. CASE RxMvsInitialize(b)
    BY <1>1, <2>1, InitializeRefines
  <2>2. CASE RxXcPub(b)
    BY <1>1, <2>2, PubRefines DEF EC!ChainNext
  <2>3. CASE RunExit(b) \/ MainReset(b)
    <3>1. MayEnd(b) /\ RxXcRst(b) /\ UNCHANGED <<found, saved, stack, answer>>
      BY <2>3 DEF RunExit, MainReset
    <3> QED
      BY <1>1, <3>1, RstRefines DEF EC!ChainNext
  <2>4. CASE RxMvsTerminate(b)
    <3>1. UNCHANGED <<stkWord, prevWord, published, active, ectenvbk, found, saved, stack, answer>>
      BY <2>4 DEF RxMvsTerminate, copyVars
    <3>2. Chain' = Chain /\ XcTopStack' = XcTopStack
      BY <1>1, <3>1, ChainUnchanged DEF XcTopStack, Last
    <3> QED
      BY <1>1, <3>1, <3>2 DEF RefIndInv, EC!chainVars
  <2> QED
    BY <1>2, <2>1, <2>2, <2>3, <2>4 DEF CopySteps
<1>3. ASSUME NEW c \in Blocks, NEW r0, NEW fifth, Ask(c, r0, fifth)
      PROVE  RefIndInv' /\ [EC!ChainNext]_EC!chainVars
  BY <1>1, <1>3, AskRefines
<1>4. ASSUME \/ (\E e \in Elements : ClistStarts(e)) \/ ClistEnds
             \/ ForeignStarts \/ ForeignEnds
      PROVE  RefIndInv' /\ [EC!ChainNext]_EC!chainVars
  BY <1>1, <1>4, OthersRefine
<1>5. CASE UNCHANGED vars
  <2>1. UNCHANGED <<stkWord, prevWord, published, active, ectenvbk, found, saved, stack, answer>>
    BY <1>5 DEF vars
  <2>2. Chain' = Chain /\ XcTopStack' = XcTopStack
    BY <1>1, <2>1, ChainUnchanged DEF XcTopStack, Last
  <2> QED
    BY <1>1, <2>1, <2>2 DEF RefIndInv, EC!chainVars
<1> QED
  BY <1>2, <1>3, <1>4, <1>5 DEF Next

(* The copies of BREXX under one ECT, however many and in whatever order    *)
(* they start, ask and end, keep the promise of ExecChain: an exec joins on *)
(* top and leaves from wherever it stands without disturbing the others,    *)
(* and a request is answered by the exec it names when that exec's input    *)
(* stack element is on top, and otherwise by the newest one of which this   *)
(* is true and that no other environment hides, or by nobody.               *)
THEOREM ChainImplements ==
  Nested => (Spec => ImplementsExecChain)
<1> SUFFICES ASSUME Nested PROVE Spec => ImplementsExecChain
  OBVIOUS
<1>1. Init => RefIndInv /\ EC!ChainInit
  BY RefInit
<1>2. RefIndInv /\ [Next]_vars => RefIndInv' /\ [EC!ChainNext]_EC!chainVars
  BY StepRefines
<1> QED
  BY <1>1, <1>2, PTL DEF Spec, ImplementsExecChain, EC!ChainSpec
=============================================================================
