------------------------- MODULE DescriptorsProofs -------------------------
(***************************************************************************)
(* Facts about SeqSum, the byte count of a run of descriptors.  SeqSum is  *)
(* a recursive function; what it computes is established here by          *)
(* induction written as a least counterexample (WFMin on a set of         *)
(* naturals), so that no lemma takes an operator parameter.               *)
(***************************************************************************)
EXTENDS Descriptors, SequenceTheorems, WellFoundedInduction, TLAPS

\* Every non-empty set of naturals has a least element.
LEMMA NatSetMin ==
  ASSUME NEW T \in SUBSET Nat, T # {}
  PROVE  \E x \in T : \A y \in T : ~(y < x)
  <1>1. PICK x \in T : \A y \in T : ~(<<y, x>> \in OpToRel(<, Nat))
    BY NatLessThanWellFounded, WFMin
  <1>2. \A y \in T : ~(y < x)
    BY <1>1, Zenon DEF OpToRel
  <1>. QED
    BY <1>2

\* f tabulates the prefix sums of s: f[i] is the sum of s[1] .. s[i].
SumEq(s, f) ==
  \A i \in 0 .. Len(s) : f[i] = IF i = 0 THEN 0 ELSE f[i - 1] + s[i]

\* Two tables of the prefix sums of s agree.
LEMMA SumEqUnique ==
  ASSUME NEW s, NEW n \in Nat, Len(s) = n, NEW f, NEW g, SumEq(s, f), SumEq(s, g)
  PROVE  \A i \in 0 .. n : f[i] = g[i]
  <1> DEFINE T == {i \in 0 .. n : f[i] # g[i]}
  <1> SUFFICES ASSUME T # {} PROVE FALSE
    OBVIOUS
  <1>1. T \in SUBSET Nat
    OBVIOUS
  <1>2. PICK i \in T : \A j \in T : ~(j < i)
    BY <1>1, NatSetMin
  <1>3. i # 0
    BY <1>2 DEF SumEq
  <1>4. f[i - 1] = g[i - 1]
    BY <1>2, <1>3
  <1>. QED
    BY <1>2, <1>3, <1>4 DEF SumEq

\* SeqSum(s) is the last entry of any table of the prefix sums of s.
LEMMA SeqSumChosen ==
  ASSUME NEW s, NEW f, Len(s) \in Nat, SumEq(s, f)
  PROVE  SeqSum(s) = f[Len(s)]
  <1> DEFINE sum == CHOOSE g : g = [i \in 0 .. Len(s) |-> IF i = 0 THEN 0 ELSE g[i - 1] + s[i]]
             h == [i \in 0 .. Len(s) |-> f[i]]
  <1>1. h = [i \in 0 .. Len(s) |-> IF i = 0 THEN 0 ELSE h[i - 1] + s[i]]
    BY DEF SumEq
  <1>2. sum = [i \in 0 .. Len(s) |-> IF i = 0 THEN 0 ELSE sum[i - 1] + s[i]]
    BY <1>1
  <1>3. SeqSum(s) = sum[Len(s)]
    BY DEF SeqSum
  <1>4. SumEq(s, sum)
    BY <1>2 DEF SumEq
  <1>. QED
    BY <1>3, <1>4, SumEqUnique

\* A sequence of naturals has a table of its prefix sums.
LEMMA SumTableExists ==
  ASSUME NEW s \in Seq(Nat)
  PROVE  \E f \in [0 .. Len(s) -> Nat] : SumEq(s, f)
  <1> DEFINE Tab(k) == \E f \in [0 .. k -> Nat] :
                         \A i \in 0 .. k : f[i] = IF i = 0 THEN 0 ELSE f[i - 1] + s[i]
             T == {k \in 0 .. Len(s) : ~Tab(k)}
  <1>1. \A k \in 0 .. Len(s) : Tab(k)
    <2> SUFFICES ASSUME T # {} PROVE FALSE
      BY DEF T
    <2>0. T \in SUBSET Nat
      BY DEF T
    <2>1. PICK k \in T : \A j \in T : ~(j < k)
      BY <2>0, NatSetMin
    <2>2. k \in 0 .. Len(s) /\ ~Tab(k)
      BY <2>1 DEF T
    <2>3. CASE k = 0
      <3>1. [i \in 0 .. 0 |-> 0] \in [0 .. 0 -> Nat]
        OBVIOUS
      <3>2. \A i \in 0 .. 0 : [j \in 0 .. 0 |-> 0][i] =
              IF i = 0 THEN 0 ELSE [j \in 0 .. 0 |-> 0][i - 1] + s[i]
        OBVIOUS
      <3>3. Tab(0)
        BY <3>1, <3>2, Zenon DEF Tab
      <3>. QED
        BY <2>2, <2>3, <3>3
    <2>4. CASE k # 0
      <3>0. Tab(k - 1)
        <4>1. k - 1 \in 0 .. Len(s) /\ k - 1 < k
          BY <2>2, <2>4
        <4>. QED
          BY <2>1, <4>1 DEF T
      <3>1. PICK f \in [0 .. k - 1 -> Nat] :
              \A i \in 0 .. k - 1 : f[i] = IF i = 0 THEN 0 ELSE f[i - 1] + s[i]
        BY <3>0 DEF Tab
      <3> DEFINE g == [i \in 0 .. k |-> IF i < k THEN f[i] ELSE f[k - 1] + s[k]]
      <3>2. g \in [0 .. k -> Nat]
        BY <2>2, <2>4
      <3>3. \A i \in 0 .. k : g[i] = IF i = 0 THEN 0 ELSE g[i - 1] + s[i]
        <4> SUFFICES ASSUME NEW i \in 0 .. k
                     PROVE  g[i] = IF i = 0 THEN 0 ELSE g[i - 1] + s[i]
          OBVIOUS
        <4>1. CASE i = k
          <5>1. g[k] = f[k - 1] + s[k] /\ g[k - 1] = f[k - 1]
            BY <2>2, <2>4
          <5>. QED
            BY <2>4, <4>1, <5>1
        <4>2. CASE i < k
          <5>1. g[i] = f[i] /\ (i # 0 => g[i - 1] = f[i - 1])
            BY <2>2, <2>4, <4>2
          <5>. QED
            BY <3>1, <4>2, <5>1
        <4>. QED
          BY <4>1, <4>2
      <3>4. Tab(k)
        BY <3>2, <3>3 DEF Tab
      <3>. QED
        BY <2>2, <3>4
    <2>. QED
      BY <2>3, <2>4
  <1>2. Tab(Len(s))
    <2>1. Len(s) \in 0 .. Len(s)
      OBVIOUS
    <2>. QED
      BY <1>1, <2>1, Zenon
  <1>. QED
    BY <1>2 DEF SumEq, Tab

LEMMA SeqSumType ==
  ASSUME NEW s \in Seq(Nat)
  PROVE  SeqSum(s) \in Nat
  <1>1. PICK f \in [0 .. Len(s) -> Nat] : SumEq(s, f)
    BY SumTableExists
  <1>. QED
    BY <1>1, SeqSumChosen

LEMMA SeqSumEmpty == SeqSum(<< >>) = 0
  <1>1. SumEq(<< >>, [i \in 0 .. 0 |-> 0])
    BY DEF SumEq
  <1>. QED
    BY <1>1, SeqSumChosen

\* Adding a descriptor adds its bytes.
LEMMA SeqSumAppend ==
  ASSUME NEW s \in Seq(Nat), NEW x \in Nat
  PROVE  SeqSum(Append(s, x)) = SeqSum(s) + x
  <1>1. PICK f \in [0 .. Len(s) -> Nat] : SumEq(s, f)
    BY SumTableExists
  <1> DEFINE g == [i \in 0 .. Len(s) + 1 |-> IF i <= Len(s) THEN f[i] ELSE f[Len(s)] + x]
  <1>2. SumEq(Append(s, x), g)
    <2> SUFFICES ASSUME NEW i \in 0 .. Len(s) + 1
                 PROVE  g[i] = IF i = 0 THEN 0 ELSE g[i - 1] + Append(s, x)[i]
      BY DEF SumEq
    <2>1. CASE i <= Len(s)
      BY <1>1, <2>1 DEF SumEq
    <2>2. CASE i = Len(s) + 1
      BY <2>2
    <2>. QED
      BY <2>1, <2>2
  <1>3. SeqSum(s) = f[Len(s)]
    BY <1>1, SeqSumChosen
  <1>4. Len(Append(s, x)) = Len(s) + 1
    OBVIOUS
  <1>5. SeqSum(Append(s, x)) = g[Len(s) + 1]
    <2>1. Len(Append(s, x)) \in Nat
      BY <1>4
    <2>2. SeqSum(Append(s, x)) = g[Len(Append(s, x))]
      BY <1>2, <2>1, SeqSumChosen, Zenon
    <2>. QED
      BY <2>2, <1>4
  <1>. QED
    BY <1>3, <1>5

\* The bytes of the first k descriptors of s.
PSum(s, k) == SeqSum([i \in 1 .. k |-> s[i]])

LEMMA PSumZero ==
  ASSUME NEW s
  PROVE  PSum(s, 0) = 0
  <1>1. [i \in 1 .. 0 |-> s[i]] = << >>
    OBVIOUS
  <1>. QED
    BY <1>1, SeqSumEmpty DEF PSum

\* One more descriptor adds its bytes to the prefix sum.
LEMMA PSumStep ==
  ASSUME NEW s, NEW k \in Nat, \A i \in 1 .. k + 1 : s[i] \in Nat
  PROVE  /\ PSum(s, k) \in Nat
         /\ PSum(s, k + 1) = PSum(s, k) + s[k + 1]
  <1>1. [i \in 1 .. k |-> s[i]] \in Seq(Nat)
    OBVIOUS
  <1>2. [i \in 1 .. k + 1 |-> s[i]] = Append([i \in 1 .. k |-> s[i]], s[k + 1])
    OBVIOUS
  <1>3. PSum(s, k) \in Nat
    BY <1>1, SeqSumType DEF PSum
  <1>4. s[k + 1] \in Nat
    OBVIOUS
  <1>5. SeqSum(Append([i \in 1 .. k |-> s[i]], s[k + 1])) = PSum(s, k) + s[k + 1]
    BY <1>1, <1>4, SeqSumAppend DEF PSum
  <1>. QED
    BY <1>2, <1>3, <1>5 DEF PSum

\* Prefix sums of naturals only grow.
LEMMA PSumMono ==
  ASSUME NEW s, NEW n \in Nat, \A i \in 1 .. n : s[i] \in Nat, NEW k \in 0 .. n
  PROVE  PSum(s, k) <= PSum(s, n)
  <1> DEFINE T == {j \in k .. n : ~(PSum(s, k) <= PSum(s, j))}
  <1> SUFFICES ASSUME T # {} PROVE FALSE
    BY DEF T
  <1>0. PSum(s, k) \in Nat
    <2>1. CASE k = 0
      BY <2>1, PSumZero
    <2>2. CASE k # 0
      <3>1. k - 1 \in Nat /\ \A i \in 1 .. (k - 1) + 1 : s[i] \in Nat
        BY <2>2
      <3>. QED
        BY <3>1, PSumStep
    <2>. QED
      BY <2>1, <2>2
  <1>1. PICK j \in T : \A l \in T : ~(l < j)
    <2>1. T \in SUBSET Nat
      BY DEF T
    <2>. QED
      BY <2>1, NatSetMin
  <1>2. j \in k .. n /\ ~(PSum(s, k) <= PSum(s, j))
    BY <1>1 DEF T
  <1>3. j # k
    BY <1>0, <1>2
  <1>4. j - 1 \in k .. n /\ PSum(s, k) <= PSum(s, j - 1)
    <2>1. j - 1 \in k .. n /\ j - 1 < j
      BY <1>2, <1>3
    <2>2. ~(j - 1 \in T)
      BY <1>1, <2>1
    <2>. QED
      BY <2>1, <2>2 DEF T
  <1>5. PSum(s, j) = PSum(s, j - 1) + s[j] /\ PSum(s, j - 1) \in Nat /\ s[j] \in Nat
    <2>1. j - 1 \in Nat /\ \A i \in 1 .. (j - 1) + 1 : s[i] \in Nat
      BY <1>2, <1>3
    <2>. QED
      BY <2>1, PSumStep
  <1>. QED
    BY <1>0, <1>2, <1>4, <1>5

(***************************************************************************)
(* The bytes of a chain's first k descriptors, when none of them is bad,   *)
(* are at most what the chain offers before its first bad descriptor, and  *)
(* all of it when they are the whole chain.                                *)
(***************************************************************************)
LEMMA CapPrefix ==
  ASSUME NEW c \in Seq(Desc), NEW k \in 0 .. Len(c), \A i \in 1 .. k : c[i] # Bad
  PROVE  /\ PSum(c, k) \in Nat
         /\ PSum(c, k) <= CapUpToBad(c)
         /\ k = Len(c) => PSum(c, k) = CapUpToBad(c)
  <1>0. PICK m : m = [i \in 1 .. Len(c) |-> IF \A j \in 1 .. i : c[j] # Bad THEN c[i] ELSE 0]
    OBVIOUS
  <1>1. \A i \in 1 .. Len(c) : m[i] \in Nat
    BY <1>0 DEF Desc
  <1>2. CapUpToBad(c) = PSum(m, Len(c))
    <2>1. [i \in 1 .. Len(c) |-> m[i]] = m
      BY <1>0
    <2>. QED
      BY <1>0, <2>1 DEF CapUpToBad, PSum
  <1>3. PSum(c, k) = PSum(m, k)
    <2>0. \A i \in 1 .. k : m[i] = c[i]
      BY <1>0
    <2>1. [i \in 1 .. k |-> c[i]] = [i \in 1 .. k |-> m[i]]
      BY <2>0
    <2>. QED
      BY <2>1 DEF PSum
  <1>4. PSum(m, k) <= PSum(m, Len(c))
    BY <1>1, PSumMono
  <1>5. PSum(m, k) \in Nat
    <2>0. k \in Nat /\ k <= Len(c)
      OBVIOUS
    <2>1. [i \in 1 .. k |-> m[i]] \in Seq(Nat)
      BY <2>0, <1>1
    <2>. QED
      BY <2>1, SeqSumType DEF PSum
  <1>. QED
    BY <1>2, <1>3, <1>4, <1>5

\* What a chain offers before its first bad descriptor is a byte count.
LEMMA CapType ==
  ASSUME NEW c \in Seq(Desc)
  PROVE  CapUpToBad(c) \in Nat
  <1>0. PICK m : m = [i \in 1 .. Len(c) |-> IF \A j \in 1 .. i : c[j] # Bad THEN c[i] ELSE 0]
    OBVIOUS
  <1>1. m \in Seq(Nat)
    BY <1>0 DEF Desc
  <1>. QED
    BY <1>0, <1>1, SeqSumType DEF CapUpToBad
=============================================================================
