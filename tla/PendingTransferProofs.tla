----------------------- MODULE PendingTransferProofs -----------------------
(***************************************************************************)
(* Proofs about the pending-transfer generation for every number of       *)
(* receive buffers, chains per frame and frames: the state stays well     *)
(* typed, every receive buffer is in exactly one place, and no frame is   *)
(* delivered twice or both delivered and pending.                          *)
(*                                                                         *)
(* SumOf takes an operator parameter, so each sum the model uses (of Got, *)
(* Chains and Rest) is first shown equal to a sum of plain numbers,        *)
(* Sigma(v, i); the lemmas about Sigma are proved by induction written as *)
(* a least counterexample.                                                 *)
(***************************************************************************)
EXTENDS PendingTransfer, SequenceTheorems, WellFoundedInduction, TLAPS

\* The facts about the constants the steps need.
LEMMA ConstantFacts ==
  RingSize \in Nat \ {0} /\ MaxChains \in Nat \ {0} /\ MaxFrames \in Nat
  BY PendingAssumption

USE ConstantFacts

\* Every non-empty set of naturals has a least element.
LEMMA NatSetMin ==
  ASSUME NEW T \in SUBSET Nat, T # {}
  PROVE  \E x \in T : \A y \in T : ~(y < x)
  <1>1. PICK x \in T : \A y \in T : ~(<<y, x>> \in OpToRel(<, Nat))
    BY NatLessThanWellFounded, WFMin
  <1>2. \A y \in T : ~(y < x)
    BY <1>1, Zenon DEF OpToRel
  <1>. QED
    BY <1>2

-----------------------------------------------------------------------------
(* Sums of numbers.                                                        *)

Ident(x) == x

\* v[1] + ... + v[i].
Sigma(v, i) == SumOf(v, i, Ident)

\* f tabulates the prefix sums of v[1], ..., v[i].
TabEq(v, i, f) ==
  \A k \in 0 .. i : f[k] = IF k = 0 THEN 0 ELSE f[k - 1] + v[k]

\* Two tables of the same prefix sums agree.
LEMMA TabUnique ==
  ASSUME NEW v, NEW i \in Nat, NEW f, NEW g, TabEq(v, i, f), TabEq(v, i, g)
  PROVE  \A k \in 0 .. i : f[k] = g[k]
  <1> DEFINE T == {k \in 0 .. i : f[k] # g[k]}
  <1> SUFFICES ASSUME T # {} PROVE FALSE
    OBVIOUS
  <1>1. T \in SUBSET Nat
    OBVIOUS
  <1>2. PICK k \in T : \A j \in T : ~(j < k)
    BY <1>1, NatSetMin
  <1>3. k # 0
    BY <1>2 DEF TabEq
  <1>4. f[k - 1] = g[k - 1]
    BY <1>2, <1>3
  <1>. QED
    BY <1>2, <1>3, <1>4 DEF TabEq

\* Numbers v[1], ..., v[i] have a table of their prefix sums.
LEMMA TabExists ==
  ASSUME NEW v, NEW i \in Nat, \A k \in 1 .. i : v[k] \in Int
  PROVE  \E f \in [0 .. i -> Int] : TabEq(v, i, f)
  <1> DEFINE Tab(n) == \E f \in [0 .. n -> Int] :
                         \A k \in 0 .. n : f[k] = IF k = 0 THEN 0 ELSE f[k - 1] + v[k]
             T == {n \in 0 .. i : ~Tab(n)}
  <1>1. \A n \in 0 .. i : Tab(n)
    <2> SUFFICES ASSUME T # {} PROVE FALSE
      BY DEF T
    <2>0. T \in SUBSET Nat
      BY DEF T
    <2>1. PICK n \in T : \A j \in T : ~(j < n)
      BY <2>0, NatSetMin
    <2>2. n \in 0 .. i /\ ~Tab(n)
      BY <2>1 DEF T
    <2>3. CASE n = 0
      <3>1. [k \in 0 .. 0 |-> 0] \in [0 .. 0 -> Int]
        OBVIOUS
      <3>2. \A k \in 0 .. 0 : [j \in 0 .. 0 |-> 0][k] =
              IF k = 0 THEN 0 ELSE [j \in 0 .. 0 |-> 0][k - 1] + v[k]
        OBVIOUS
      <3>3. Tab(0)
        BY <3>1, <3>2, Zenon DEF Tab
      <3>. QED
        BY <2>2, <2>3, <3>3
    <2>4. CASE n # 0
      <3>0. Tab(n - 1)
        <4>1. n - 1 \in 0 .. i /\ n - 1 < n
          BY <2>2, <2>4
        <4>. QED
          BY <2>1, <4>1 DEF T
      <3>1. PICK f \in [0 .. n - 1 -> Int] :
              \A k \in 0 .. n - 1 : f[k] = IF k = 0 THEN 0 ELSE f[k - 1] + v[k]
        BY <3>0 DEF Tab
      <3> DEFINE g == [k \in 0 .. n |-> IF k < n THEN f[k] ELSE f[n - 1] + v[n]]
      <3>2. g \in [0 .. n -> Int]
        BY <2>2, <2>4
      <3>3. \A k \in 0 .. n : g[k] = IF k = 0 THEN 0 ELSE g[k - 1] + v[k]
        <4> SUFFICES ASSUME NEW k \in 0 .. n
                     PROVE  g[k] = IF k = 0 THEN 0 ELSE g[k - 1] + v[k]
          OBVIOUS
        <4>1. CASE k = n
          <5>1. g[n] = f[n - 1] + v[n] /\ g[n - 1] = f[n - 1]
            BY <2>2, <2>4
          <5>. QED
            BY <2>4, <4>1, <5>1
        <4>2. CASE k < n
          <5>1. g[k] = f[k] /\ (k # 0 => g[k - 1] = f[k - 1])
            BY <2>2, <2>4, <4>2
          <5>. QED
            BY <3>1, <4>2, <5>1
        <4>. QED
          BY <4>1, <4>2
      <3>4. Tab(n)
        BY <3>2, <3>3 DEF Tab
      <3>. QED
        BY <2>2, <3>4
    <2>. QED
      BY <2>3, <2>4
  <1>2. Tab(i)
    <2>1. i \in 0 .. i
      OBVIOUS
    <2>. QED
      BY <1>1, <2>1, Zenon
  <1>. QED
    BY <1>2 DEF TabEq, Tab

\* Sigma(v, i) is the last entry of any table of the prefix sums.
LEMMA SigmaChosen ==
  ASSUME NEW v, NEW i \in Nat, NEW f, TabEq(v, i, f)
  PROVE  Sigma(v, i) = f[i]
  <1> DEFINE sum == CHOOSE g : g = [k \in 0 .. i |-> IF k = 0 THEN 0 ELSE g[k - 1] + v[k]]
             h == [k \in 0 .. i |-> f[k]]
  <1>1. h = [k \in 0 .. i |-> IF k = 0 THEN 0 ELSE h[k - 1] + v[k]]
    BY DEF TabEq
  <1>2. sum = [k \in 0 .. i |-> IF k = 0 THEN 0 ELSE sum[k - 1] + v[k]]
    BY <1>1
  <1>3. Sigma(v, i) = sum[i]
    BY DEF Sigma, SumOf, Ident
  <1>4. TabEq(v, i, sum)
    BY <1>2 DEF TabEq
  <1>. QED
    BY <1>3, <1>4, TabUnique

\* The sum of no numbers.
LEMMA SigmaZero ==
  ASSUME NEW v
  PROVE  Sigma(v, 0) = 0
  <1>1. TabEq(v, 0, [k \in 0 .. 0 |-> 0])
    BY DEF TabEq
  <1>. QED
    BY <1>1, SigmaChosen

\* Adding one more number.
LEMMA SigmaStep ==
  ASSUME NEW v, NEW i \in Nat, \A k \in 1 .. i + 1 : v[k] \in Int
  PROVE  /\ Sigma(v, i) \in Int
         /\ Sigma(v, i + 1) = Sigma(v, i) + v[i + 1]
  <1>1. PICK f \in [0 .. i + 1 -> Int] : TabEq(v, i + 1, f)
    BY TabExists
  <1>2. TabEq(v, i, f)
    BY <1>1 DEF TabEq
  <1>3. Sigma(v, i + 1) = f[i + 1] /\ Sigma(v, i) = f[i]
    BY <1>1, <1>2, SigmaChosen
  <1>. QED
    BY <1>1, <1>3 DEF TabEq

\* Sigma(v, i) depends on v[1], ..., v[i] only.
LEMMA SigmaExt ==
  ASSUME NEW v, NEW w, NEW i \in Nat, \A k \in 1 .. i : v[k] \in Int /\ v[k] = w[k]
  PROVE  Sigma(v, i) = Sigma(w, i)
  <1>1. PICK f \in [0 .. i -> Int] : TabEq(v, i, f)
    BY TabExists
  <1>2. TabEq(w, i, f)
    BY <1>1 DEF TabEq
  <1>. QED
    BY <1>1, <1>2, SigmaChosen

\* A sum of integers is an integer.
LEMMA SigmaInt ==
  ASSUME NEW v, NEW i \in Nat, \A k \in 1 .. i : v[k] \in Int
  PROVE  Sigma(v, i) \in Int
  <1>1. CASE i = 0
    BY <1>1, SigmaZero
  <1>2. CASE i # 0
    <2>1. i - 1 \in Nat /\ \A k \in 1 .. (i - 1) + 1 : v[k] \in Int
      BY <1>2
    <2>2. Sigma(v, (i - 1) + 1) = Sigma(v, i - 1) + v[(i - 1) + 1] /\ Sigma(v, i - 1) \in Int
      BY <2>1, SigmaStep
    <2>. QED
      BY <1>2, <2>2
  <1>. QED
    BY <1>1, <1>2

\* A sum of naturals is a natural.
LEMMA SigmaType ==
  ASSUME NEW v, NEW i \in Nat, \A k \in 1 .. i : v[k] \in Nat
  PROVE  Sigma(v, i) \in Nat
  <1> DEFINE T == {n \in 0 .. i : Sigma(v, n) \notin Nat}
  <1> SUFFICES ASSUME T # {} PROVE FALSE
    BY DEF T
  <1>1. T \in SUBSET Nat
    BY DEF T
  <1>2. PICK n \in T : \A j \in T : ~(j < n)
    BY <1>1, NatSetMin
  <1>3. n # 0
    BY <1>2, SigmaZero DEF T
  <1>4. Sigma(v, n - 1) \in Nat
    BY <1>2, <1>3 DEF T
  <1>5. Sigma(v, (n - 1) + 1) = Sigma(v, n - 1) + v[(n - 1) + 1]
    BY <1>2, <1>3, SigmaStep DEF T
  <1>. QED
    BY <1>2, <1>3, <1>4, <1>5 DEF T

\* The sum of i + j numbers is the sum of the first i plus the sum of the
\* next j.
LEMMA SigmaSplit ==
  ASSUME NEW v, NEW i \in Nat, NEW j \in Nat, \A k \in 1 .. i + j : v[k] \in Int
  PROVE  Sigma(v, i + j) = Sigma(v, i) + Sigma([k \in 1 .. j |-> v[i + k]], j)
  <1> DEFINE w == [k \in 1 .. j |-> v[i + k]]
             T == {n \in 0 .. j : Sigma(v, i + n) # Sigma(v, i) + Sigma(w, n)}
  <1>1. T = {}
    <2> SUFFICES ASSUME T # {} PROVE FALSE
      OBVIOUS
    <2>1. T \in SUBSET Nat
      BY DEF T
    <2>2. PICK n \in T : \A m \in T : ~(m < n)
      BY <2>1, NatSetMin
    <2>0. Sigma(v, i) \in Int
      <3>1. CASE i = 0
        BY <3>1, SigmaZero
      <3>2. CASE i # 0
        <4>1. Sigma(v, (i - 1) + 1) = Sigma(v, i - 1) + v[(i - 1) + 1] /\ Sigma(v, i - 1) \in Int
          BY <3>2, SigmaStep
        <4>. QED
          BY <3>2, <4>1
      <3>. QED
        BY <3>1, <3>2
    <2>3. n # 0
      <3>1. Sigma(w, 0) = 0
        BY SigmaZero
      <3>. QED
        BY <2>0, <2>2, <3>1 DEF T
    <2>4. Sigma(v, i + (n - 1)) = Sigma(v, i) + Sigma(w, n - 1)
      BY <2>2, <2>3 DEF T
    <2>5. /\ Sigma(v, (i + (n - 1)) + 1) = Sigma(v, i + (n - 1)) + v[(i + (n - 1)) + 1]
          /\ Sigma(v, i + (n - 1)) \in Int
      BY <2>2, <2>3, SigmaStep DEF T
    <2>6. /\ Sigma(w, (n - 1) + 1) = Sigma(w, n - 1) + w[(n - 1) + 1]
          /\ Sigma(w, n - 1) \in Int
      <3>1. n - 1 \in Nat /\ \A k \in 1 .. (n - 1) + 1 : w[k] \in Int
        BY <2>2, <2>3 DEF T, w
      <3>. QED
        BY <3>1, SigmaStep
    <2>7. w[n] = v[i + n] /\ v[i + n] \in Int
      BY <2>2, <2>3 DEF T, w
    <2>8. n \in 1 .. j /\ Sigma(v, i + n) # Sigma(v, i) + Sigma(w, n)
      BY <2>2, <2>3 DEF T
    <2>9. (i + (n - 1)) + 1 = i + n /\ (n - 1) + 1 = n
      BY <2>3, <2>8
    <2>. QED
      BY <2>0, <2>4, <2>5, <2>6, <2>7, <2>8, <2>9
  <1>2. j \in 0 .. j
    OBVIOUS
  <1>. QED
    BY <1>1, <1>2 DEF T, w

\* The sum of differences is the difference of the sums.
LEMMA SigmaDiff ==
  ASSUME NEW u, NEW a, NEW b, NEW i \in Nat,
         \A k \in 1 .. i : a[k] \in Int /\ b[k] \in Int /\ u[k] = a[k] - b[k]
  PROVE  Sigma(u, i) = Sigma(a, i) - Sigma(b, i)
  <1> DEFINE T == {n \in 0 .. i : Sigma(u, n) # Sigma(a, n) - Sigma(b, n)}
  <1>1. T = {}
    <2> SUFFICES ASSUME T # {} PROVE FALSE
      OBVIOUS
    <2>1. T \in SUBSET Nat
      BY DEF T
    <2>2. PICK n \in T : \A m \in T : ~(m < n)
      BY <2>1, NatSetMin
    <2>3. n # 0
      <3>1. Sigma(u, 0) = 0 /\ Sigma(a, 0) = 0 /\ Sigma(b, 0) = 0
        BY SigmaZero
      <3>. QED
        BY <2>2, <3>1 DEF T
    <2>4. n - 1 \in Nat /\ n \in 1 .. i /\ (n - 1) + 1 = n
      BY <2>2, <2>3 DEF T
    <2>5. Sigma(u, n - 1) = Sigma(a, n - 1) - Sigma(b, n - 1)
      BY <2>2, <2>4 DEF T
    <2>6. /\ Sigma(u, (n - 1) + 1) = Sigma(u, n - 1) + u[(n - 1) + 1] /\ Sigma(u, n - 1) \in Int
          /\ Sigma(a, (n - 1) + 1) = Sigma(a, n - 1) + a[(n - 1) + 1] /\ Sigma(a, n - 1) \in Int
          /\ Sigma(b, (n - 1) + 1) = Sigma(b, n - 1) + b[(n - 1) + 1] /\ Sigma(b, n - 1) \in Int
      <3>1. \A k \in 1 .. (n - 1) + 1 : u[k] \in Int /\ a[k] \in Int /\ b[k] \in Int
        BY <2>4
      <3>. QED
        BY <2>4, <3>1, SigmaStep
    <2>7. Sigma(u, n) # Sigma(a, n) - Sigma(b, n)
      BY <2>2 DEF T
    <2>. QED
      BY <2>4, <2>5, <2>6, <2>7
  <1>2. i \in 0 .. i
    OBVIOUS
  <1>. QED
    BY <1>1, <1>2 DEF T

\* The first number and the rest.
LEMMA SigmaFirst ==
  ASSUME NEW v, NEW i \in Nat \ {0}, \A k \in 1 .. i : v[k] \in Int
  PROVE  Sigma(v, i) = v[1] + Sigma([k \in 1 .. i - 1 |-> v[1 + k]], i - 1)
  <1>1. i - 1 \in Nat /\ 1 + (i - 1) = i
    OBVIOUS
  <1>2. Sigma(v, 1 + (i - 1)) = Sigma(v, 1) + Sigma([k \in 1 .. i - 1 |-> v[1 + k]], i - 1)
    BY <1>1, SigmaSplit
  <1>3. Sigma(v, 0 + 1) = Sigma(v, 0) + v[0 + 1] /\ Sigma(v, 0) = 0
    BY SigmaStep, SigmaZero
  <1>. QED
    BY <1>1, <1>2, <1>3

-----------------------------------------------------------------------------
(* The sums of the model as sums of numbers.                               *)

\* The chains the first i transfers of s have filled.
LEMMA SumOfGotTab ==
  ASSUME NEW s, NEW i \in Nat, \A k \in 1 .. i : s[k].got \in Int
  PROVE  SumOf(s, i, Got) = Sigma([k \in 1 .. i |-> s[k].got], i)
  <1> DEFINE v == [k \in 1 .. i |-> s[k].got]
             sum == CHOOSE g : g = [k \in 0 .. i |-> IF k = 0 THEN 0 ELSE g[k - 1] + s[k].got]
  <1>1. PICK f \in [0 .. i -> Int] : TabEq(v, i, f)
    BY TabExists DEF v
  <1> DEFINE h == [k \in 0 .. i |-> f[k]]
  <1>2. h = [k \in 0 .. i |-> IF k = 0 THEN 0 ELSE h[k - 1] + s[k].got]
    <2>1. \A k \in 0 .. i : h[k] = IF k = 0 THEN 0 ELSE h[k - 1] + s[k].got
      <3> SUFFICES ASSUME NEW k \in 0 .. i
                   PROVE  h[k] = IF k = 0 THEN 0 ELSE h[k - 1] + s[k].got
        OBVIOUS
      <3>1. h[k] = f[k] /\ (k # 0 => h[k - 1] = f[k - 1] /\ v[k] = s[k].got)
        BY DEF h, v
      <3>. QED
        BY <1>1, <3>1 DEF TabEq
    <2>. QED
      BY <2>1 DEF h
  <1>3. sum = [k \in 0 .. i |-> IF k = 0 THEN 0 ELSE sum[k - 1] + s[k].got]
    BY <1>2
  <1>4. PICK sm : sm = sum
    OBVIOUS
  <1>5. SumOf(s, i, Got) = sm[i]
    BY <1>4 DEF SumOf, Got
  <1>6. TabEq(v, i, sm)
    <2>1. \A k \in 1 .. i : v[k] = s[k].got
      BY DEF v
    <2>2. \A k \in 0 .. i : sm[k] = IF k = 0 THEN 0 ELSE sm[k - 1] + s[k].got
      BY <1>3, <1>4, Zenon
    <2>. QED
      BY <2>1, <2>2 DEF TabEq
  <1>. QED
    BY <1>1, <1>5, <1>6, SigmaChosen
LEMMA SumOfGot ==
  ASSUME NEW s, NEW i \in Nat, NEW w, \A k \in 1 .. i : w[k] \in Int /\ w[k] = s[k].got
  PROVE  SumOf(s, i, Got) = Sigma(w, i)
  <1>1. SumOf(s, i, Got) = Sigma([k \in 1 .. i |-> s[k].got], i)
    BY SumOfGotTab
  <1>2. Sigma([k \in 1 .. i |-> s[k].got], i) = Sigma(w, i)
    BY SigmaExt
  <1>. QED
    BY <1>1, <1>2

\* The chains the first i finished frames of s hold.
LEMMA SumOfChainsTab ==
  ASSUME NEW s, NEW i \in Nat, \A k \in 1 .. i : s[k].chains \in Int
  PROVE  SumOf(s, i, Chains) = Sigma([k \in 1 .. i |-> s[k].chains], i)
  <1> DEFINE v == [k \in 1 .. i |-> s[k].chains]
             sum == CHOOSE g : g = [k \in 0 .. i |-> IF k = 0 THEN 0 ELSE g[k - 1] + s[k].chains]
  <1>1. PICK f \in [0 .. i -> Int] : TabEq(v, i, f)
    BY TabExists DEF v
  <1> DEFINE h == [k \in 0 .. i |-> f[k]]
  <1>2. h = [k \in 0 .. i |-> IF k = 0 THEN 0 ELSE h[k - 1] + s[k].chains]
    <2>1. \A k \in 0 .. i : h[k] = IF k = 0 THEN 0 ELSE h[k - 1] + s[k].chains
      <3> SUFFICES ASSUME NEW k \in 0 .. i
                   PROVE  h[k] = IF k = 0 THEN 0 ELSE h[k - 1] + s[k].chains
        OBVIOUS
      <3>1. h[k] = f[k] /\ (k # 0 => h[k - 1] = f[k - 1] /\ v[k] = s[k].chains)
        BY DEF h, v
      <3>. QED
        BY <1>1, <3>1 DEF TabEq
    <2>. QED
      BY <2>1 DEF h
  <1>3. sum = [k \in 0 .. i |-> IF k = 0 THEN 0 ELSE sum[k - 1] + s[k].chains]
    BY <1>2
  <1>4. PICK sm : sm = sum
    OBVIOUS
  <1>5. SumOf(s, i, Chains) = sm[i]
    BY <1>4 DEF SumOf, Chains
  <1>6. TabEq(v, i, sm)
    <2>1. \A k \in 1 .. i : v[k] = s[k].chains
      BY DEF v
    <2>2. \A k \in 0 .. i : sm[k] = IF k = 0 THEN 0 ELSE sm[k - 1] + s[k].chains
      BY <1>3, <1>4, Zenon
    <2>. QED
      BY <2>1, <2>2 DEF TabEq
  <1>. QED
    BY <1>1, <1>5, <1>6, SigmaChosen
LEMMA SumOfChains ==
  ASSUME NEW s, NEW i \in Nat, NEW w, \A k \in 1 .. i : w[k] \in Int /\ w[k] = s[k].chains
  PROVE  SumOf(s, i, Chains) = Sigma(w, i)
  <1>1. SumOf(s, i, Chains) = Sigma([k \in 1 .. i |-> s[k].chains], i)
    BY SumOfChainsTab
  <1>2. Sigma([k \in 1 .. i |-> s[k].chains], i) = Sigma(w, i)
    BY SigmaExt
  <1>. QED
    BY <1>1, <1>2

\* The chains the first i transfers of s still need.
LEMMA SumOfRestTab ==
  ASSUME NEW s, NEW i \in Nat, \A k \in 1 .. i : s[k].need - s[k].got \in Int
  PROVE  SumOf(s, i, Rest) = Sigma([k \in 1 .. i |-> s[k].need - s[k].got], i)
  <1> DEFINE v == [k \in 1 .. i |-> s[k].need - s[k].got]
             sum == CHOOSE g : g = [k \in 0 .. i |-> IF k = 0 THEN 0 ELSE g[k - 1] + s[k].need - s[k].got]
  <1>1. PICK f \in [0 .. i -> Int] : TabEq(v, i, f)
    BY TabExists DEF v
  <1> DEFINE h == [k \in 0 .. i |-> f[k]]
  <1>2. h = [k \in 0 .. i |-> IF k = 0 THEN 0 ELSE h[k - 1] + s[k].need - s[k].got]
    <2>1. \A k \in 0 .. i : h[k] = IF k = 0 THEN 0 ELSE h[k - 1] + s[k].need - s[k].got
      <3> SUFFICES ASSUME NEW k \in 0 .. i
                   PROVE  h[k] = IF k = 0 THEN 0 ELSE h[k - 1] + s[k].need - s[k].got
        OBVIOUS
      <3>1. h[k] = f[k] /\ (k # 0 => h[k - 1] = f[k - 1] /\ v[k] = s[k].need - s[k].got)
        BY DEF h, v
      <3>. QED
        BY <1>1, <3>1 DEF TabEq
    <2>. QED
      BY <2>1 DEF h
  <1>3. sum = [k \in 0 .. i |-> IF k = 0 THEN 0 ELSE sum[k - 1] + s[k].need - s[k].got]
    BY <1>2
  <1>4. PICK sm : sm = sum
    OBVIOUS
  <1>5. SumOf(s, i, Rest) = sm[i]
    BY <1>4 DEF SumOf, Rest
  <1>6. TabEq(v, i, sm)
    <2>1. \A k \in 1 .. i : v[k] = s[k].need - s[k].got
      BY DEF v
    <2>2. \A k \in 0 .. i : sm[k] = IF k = 0 THEN 0 ELSE sm[k - 1] + s[k].need - s[k].got
      BY <1>3, <1>4, Zenon
    <2>. QED
      BY <2>1, <2>2 DEF TabEq
  <1>. QED
    BY <1>1, <1>5, <1>6, SigmaChosen
LEMMA SumOfRest ==
  ASSUME NEW s, NEW i \in Nat, NEW w, \A k \in 1 .. i : w[k] \in Int /\ w[k] = s[k].need - s[k].got
  PROVE  SumOf(s, i, Rest) = Sigma(w, i)
  <1>1. SumOf(s, i, Rest) = Sigma([k \in 1 .. i |-> s[k].need - s[k].got], i)
    BY SumOfRestTab
  <1>2. Sigma([k \in 1 .. i |-> s[k].need - s[k].got], i) = Sigma(w, i)
    BY SigmaExt
  <1>. QED
    BY <1>1, <1>2

-----------------------------------------------------------------------------
(* The walk of handle_rx_queue().                                          *)

\* The chains each pending transfer still needs.
RestV == [k \in 1 .. Len(pending) |-> pending[k].need - pending[k].got]

LEMMA OwedSigma ==
  ASSUME PtTypeOK
  PROVE  \A i \in 0 .. Len(pending) : Owed(i) = Sigma(RestV, i) /\ Owed(i) \in Int
  <1> SUFFICES ASSUME NEW i \in 0 .. Len(pending)
               PROVE  Owed(i) = Sigma(RestV, i) /\ Owed(i) \in Int
    OBVIOUS
  <1>1. \A k \in 1 .. i : RestV[k] \in Int /\ RestV[k] = pending[k].need - pending[k].got
    <2> SUFFICES ASSUME NEW k \in 1 .. i
                 PROVE  RestV[k] \in Int /\ RestV[k] = pending[k].need - pending[k].got
      OBVIOUS
    <2>1. pending[k] \in Pending
      BY DEF PtTypeOK
    <2>2. pending[k].need \in Nat /\ pending[k].got \in Nat
      BY <2>1 DEF Pending
    <2>. QED
      BY <2>2 DEF RestV
  <1>2. Owed(i) = Sigma(RestV, i)
    BY <1>1, SumOfRest DEF Owed
  <1>. QED
    BY <1>1, <1>2, SigmaInt

\* The number of transfers handle_rx_queue() completes exists: the walk
\* completes the first j transfers, whose needs the available chains
\* cover, and stops at the first one they do not.
LEMMA CompletedSpec ==
  ASSUME PtTypeOK
  PROVE  /\ Completed \in 0 .. Len(pending)
         /\ Owed(Completed) \in Int
         /\ Owed(Completed) <= avail
         /\ Completed < Len(pending) => Owed(Completed + 1) > avail
  <1> DEFINE L == Len(pending)
             P(j) == /\ Owed(j) <= avail
                     /\ j < L => Owed(j + 1) > avail
             S == {j \in 0 .. L : j = L \/ Owed(j + 1) > avail}
  <1>0. L \in Nat /\ avail \in Nat
    BY DEF PtTypeOK
  <1>1. \A i \in 0 .. L : Owed(i) \in Int
    BY OwedSigma
  <1>2. PICK j0 \in S : \A y \in S : ~(y < j0)
    <2>1. S \in SUBSET Nat /\ L \in S
      BY <1>0 DEF S
    <2>. QED
      BY <2>1, NatSetMin
  <1>3. j0 \in 0 .. L
    BY <1>2 DEF S
  <1>4. Owed(j0) <= avail
    <2>1. CASE j0 = 0
      <3>1. Owed(0) = Sigma(RestV, 0) /\ Sigma(RestV, 0) = 0
        BY <1>0, OwedSigma, SigmaZero
      <3>. QED
        BY <1>0, <2>1, <3>1
    <2>2. CASE j0 # 0
      <3>1. j0 - 1 \in 0 .. L /\ j0 - 1 < j0 /\ j0 - 1 # L
        BY <1>3, <2>2
      <3>2. j0 - 1 \notin S
        BY <1>2, <3>1
      <3>3. ~(Owed((j0 - 1) + 1) > avail)
        BY <3>1, <3>2 DEF S
      <3>4. (j0 - 1) + 1 = j0
        BY <1>3
      <3>. QED
        BY <1>0, <1>1, <1>3, <3>3, <3>4
    <2>. QED
      BY <2>1, <2>2
  <1>5. P(j0)
    <2>1. j0 < L => Owed(j0 + 1) > avail
      BY <1>2, <1>3 DEF S
    <2>. QED
      BY <1>4, <2>1 DEF P
  <1>6. Completed \in 0 .. L /\ P(Completed)
    BY <1>3, <1>5, Zenon DEF Completed, P
  <1>. QED
    BY <1>1, <1>6 DEF P

-----------------------------------------------------------------------------
(* Type correctness.                                                       *)

LEMMA InitType == PtInit => PtTypeOK
  BY DEF PtInit, PtTypeOK

\* What finish_transfer() hands the guest is a finished frame.
LEMMA FinishType ==
  ASSUME NEW t \in Pending
  PROVE  /\ Whole(t) \in Finished /\ Whole(t).chains = t.need /\ Whole(t).id = t.id
         /\ FinishPartial(t) \in Finished /\ FinishPartial(t).chains = t.got
         /\ FinishPartial(t).id = t.id
  BY DEF Whole, FinishPartial, Pending, Finished

LEMMA HandleRequestType ==
  ASSUME PtTypeOK, NEW n \in 1 .. MaxChains, HandleRequest(n)
  PROVE  PtTypeOK'
  <1> DEFINE t == [id |-> nextId, need |-> n, got |-> 0]
             k == Taken(t, avail)
  <1>1. t \in Pending /\ k \in 0 .. avail /\ k \in 0 .. n
    BY DEF PtTypeOK, Pending, Taken, MinOf, Rest
  <1>2. [t EXCEPT !.got = k] \in Pending
    BY <1>1 DEF Pending
  <1>3. /\ avail' = avail - k
        /\ \/ k = n /\ used' = Append(used, Whole(t)) /\ pending' = pending
           \/ k # n /\ pending' = Append(pending, [t EXCEPT !.got = k]) /\ used' = used
    BY DEF HandleRequest
  <1>4. nextId' \in 1 .. MaxFrames + 1
    BY DEF HandleRequest, PtTypeOK
  <1>5. UNCHANGED <<guestBufs, received>>
    BY DEF HandleRequest
  <1>6. avail' \in Nat
    BY <1>1, <1>3 DEF PtTypeOK
  <1>7. used' \in Seq(Finished) /\ pending' \in Seq(Pending)
    <2>1. Whole(t) \in Finished
      BY <1>1, FinishType
    <2>2. CASE k = n
      <3>1. used' = Append(used, Whole(t)) /\ pending' = pending
        BY <1>3, <2>2
      <3>. QED
        BY <2>1, <3>1 DEF PtTypeOK
    <2>3. CASE k # n
      <3>1. pending' = Append(pending, [t EXCEPT !.got = k]) /\ used' = used
        BY <1>3, <2>3
      <3>. QED
        BY <1>2, <3>1 DEF PtTypeOK
    <2>. QED
      BY <2>2, <2>3
  <1>. QED
    BY <1>4, <1>5, <1>6, <1>7 DEF PtTypeOK

LEMMA HandleRxQueueType ==
  ASSUME PtTypeOK, HandleRxQueue
  PROVE  PtTypeOK'
  <1> DEFINE j == Completed
             left == avail - Owed(j)
             L == Len(pending)
             W == [k \in 1 .. j |-> Whole(pending[k])]
  <1>1. j \in 0 .. L /\ left \in Nat
    BY CompletedSpec DEF PtTypeOK
  <1>2. W \in Seq(Finished)
    <2>1. \A k \in 1 .. j : pending[k] \in Pending
      BY <1>1 DEF PtTypeOK
    <2>. QED
      BY <1>1, <2>1, FinishType
  <1>3. used' = used \o W
    BY DEF HandleRxQueue
  <1>4. CASE j = L
    <2>1. pending' = << >> /\ avail' = left
      BY <1>4 DEF HandleRxQueue
    <2>. QED
      BY <1>1, <1>2, <1>3, <2>1 DEF HandleRxQueue, PtTypeOK
  <1>5. CASE j # L
    <2>1. /\ pending' = <<[pending[j + 1] EXCEPT !.got = @ + left]>>
                          \o SubSeq(pending, j + 2, L)
          /\ avail' = 0
      BY <1>5 DEF HandleRxQueue
    <2>2. pending[j + 1] \in Pending
      BY <1>1, <1>5 DEF PtTypeOK
    <2>3. [pending[j + 1] EXCEPT !.got = @ + left] \in Pending
      BY <1>1, <2>2 DEF Pending
    <2>4. SubSeq(pending, j + 2, L) \in Seq(Pending)
      BY <1>1, <1>5 DEF PtTypeOK
    <2>. QED
      BY <1>1, <1>2, <1>3, <2>1, <2>3, <2>4 DEF HandleRxQueue, PtTypeOK
  <1>. QED
    BY <1>4, <1>5

LEMMA ExpiredType ==
  ASSUME PtTypeOK, Expired
  PROVE  PtTypeOK'
  <1>1. Head(pending) \in Pending
    BY DEF Expired, PtTypeOK
  <1>. QED
    BY <1>1, FinishType DEF Expired, PtTypeOK

LEMMA GuestType ==
  ASSUME PtTypeOK, GuestPost \/ GuestReceive
  PROVE  PtTypeOK'
  <1>1. CASE GuestPost
    BY <1>1 DEF GuestPost, PtTypeOK
  <1>2. CASE GuestReceive
    <2>1. Head(used) \in Finished
      BY <1>2 DEF GuestReceive, PtTypeOK
    <2>2. Head(used).chains \in Nat
      BY <2>1 DEF Finished
    <2>. QED
      BY <1>2, <2>1, <2>2 DEF GuestReceive, PtTypeOK
  <1>. QED
    BY <1>1, <1>2

LEMMA NextType ==
  ASSUME PtTypeOK, [PtNext]_ptVars
  PROVE  PtTypeOK'
  <1>1. CASE UNCHANGED ptVars
    BY <1>1 DEF ptVars, PtTypeOK
  <1>. QED
    BY <1>1, HandleRequestType, HandleRxQueueType, ExpiredType, GuestType
       DEF PtNext

-----------------------------------------------------------------------------
(* The two sums of ChainsConserved.                                        *)

GotSum(s) == SumOf(s, Len(s), Got)
ChainSum(s) == SumOf(s, Len(s), Chains)

GotV(s) == [k \in 1 .. Len(s) |-> s[k].got]
ChainsV(s) == [k \in 1 .. Len(s) |-> s[k].chains]
NeedV(s) == [k \in 1 .. Len(s) |-> s[k].need]

\* The fields of the entries of the lists.
LEMMA PendingFields ==
  ASSUME NEW s \in Seq(Pending), NEW k \in 1 .. Len(s)
  PROVE  s[k].id \in Nat /\ s[k].got \in Nat /\ s[k].need \in 1 .. MaxChains
  <1>1. s[k] \in Pending
    OBVIOUS
  <1>. QED
    BY <1>1 DEF Pending

LEMMA FinishedFields ==
  ASSUME NEW s \in Seq(Finished), NEW k \in 1 .. Len(s)
  PROVE  s[k].id \in Nat /\ s[k].chains \in Nat /\ s[k].need \in 1 .. MaxChains
  <1>1. s[k] \in Finished
    OBVIOUS
  <1>. QED
    BY <1>1 DEF Finished

LEMMA GotSumIs ==
  ASSUME NEW s \in Seq(Pending)
  PROVE  GotSum(s) = Sigma(GotV(s), Len(s)) /\ GotSum(s) \in Nat
  <1>1. \A k \in 1 .. Len(s) : GotV(s)[k] \in Nat /\ GotV(s)[k] = s[k].got
    BY PendingFields DEF GotV
  <1>. QED
    BY <1>1, SumOfGot, SigmaType DEF GotSum

LEMMA ChainSumIs ==
  ASSUME NEW s \in Seq(Finished)
  PROVE  ChainSum(s) = Sigma(ChainsV(s), Len(s)) /\ ChainSum(s) \in Nat
  <1>1. \A k \in 1 .. Len(s) : ChainsV(s)[k] \in Nat /\ ChainsV(s)[k] = s[k].chains
    BY FinishedFields DEF ChainsV
  <1>. QED
    BY <1>1, SumOfChains, SigmaType DEF ChainSum

\* Appending a transfer or a finished frame adds its chains.
LEMMA GotSumAppend ==
  ASSUME NEW s \in Seq(Pending), NEW x \in Pending
  PROVE  GotSum(Append(s, x)) = GotSum(s) + x.got
  <1> DEFINE v == GotV(Append(s, x))
             n == Len(s)
  <1>0. Append(s, x) \in Seq(Pending) /\ Len(Append(s, x)) = n + 1
    BY DEF n
  <1>1. \A k \in 1 .. n + 1 : v[k] \in Int
    <2> SUFFICES ASSUME NEW k \in 1 .. n + 1 PROVE v[k] \in Int
      OBVIOUS
    <2>1. PICK a \in Seq(Pending) : a = Append(s, x) /\ Len(a) = n + 1
      BY <1>0
    <2>2. a[k].got \in Nat
      BY <2>1, PendingFields
    <2>. QED
      BY <2>1, <2>2 DEF v, GotV
  <1>2. Sigma(v, n + 1) = Sigma(v, n) + v[n + 1]
    BY <1>1, SigmaStep DEF n
  <1>3. GotSum(Append(s, x)) = Sigma(v, n + 1)
    BY <1>0, GotSumIs DEF v
  <1>4. \A k \in 1 .. n : v[k] \in Int /\ v[k] = s[k].got
    BY <1>0, PendingFields DEF v, n, GotV
  <1>5. GotSum(s) = Sigma(v, n)
    BY <1>4, SumOfGot DEF GotSum, n
  <1>6. v[n + 1] = x.got
    BY <1>0 DEF v, n, GotV
  <1>. QED
    BY <1>2, <1>3, <1>5, <1>6

LEMMA ChainSumAppend ==
  ASSUME NEW s \in Seq(Finished), NEW x \in Finished
  PROVE  ChainSum(Append(s, x)) = ChainSum(s) + x.chains
  <1> DEFINE v == ChainsV(Append(s, x))
             n == Len(s)
  <1>0. Append(s, x) \in Seq(Finished) /\ Len(Append(s, x)) = n + 1
    BY DEF n
  <1>1. \A k \in 1 .. n + 1 : v[k] \in Int
    <2> SUFFICES ASSUME NEW k \in 1 .. n + 1 PROVE v[k] \in Int
      OBVIOUS
    <2>1. PICK a \in Seq(Finished) : a = Append(s, x) /\ Len(a) = n + 1
      BY <1>0
    <2>2. a[k].chains \in Nat
      BY <2>1, FinishedFields
    <2>. QED
      BY <2>1, <2>2 DEF v, ChainsV
  <1>2. Sigma(v, n + 1) = Sigma(v, n) + v[n + 1]
    BY <1>1, SigmaStep DEF n
  <1>3. ChainSum(Append(s, x)) = Sigma(v, n + 1)
    BY <1>0, ChainSumIs DEF v
  <1>4. \A k \in 1 .. n : v[k] \in Int /\ v[k] = s[k].chains
    BY <1>0, FinishedFields DEF v, n, ChainsV
  <1>5. ChainSum(s) = Sigma(v, n)
    BY <1>4, SumOfChains DEF ChainSum, n
  <1>6. v[n + 1] = x.chains
    BY <1>0 DEF v, n, ChainsV
  <1>. QED
    BY <1>2, <1>3, <1>5, <1>6

\* Taking the first transfer or frame off a list removes its chains.
LEMMA GotSumTail ==
  ASSUME NEW s \in Seq(Pending), s # << >>
  PROVE  GotSum(s) = s[1].got + GotSum(Tail(s))
  <1> DEFINE v == GotV(s)
             n == Len(s)
             w == [k \in 1 .. n - 1 |-> v[1 + k]]
  <1>1. n \in Nat \ {0} /\ \A k \in 1 .. n : v[k] \in Int /\ v[k] = s[k].got
    BY PendingFields DEF v, n, GotV
  <1>2. GotSum(s) = v[1] + Sigma(w, n - 1)
    BY <1>1, GotSumIs, SigmaFirst DEF v, n, w
  <1>3. Tail(s) \in Seq(Pending) /\ Len(Tail(s)) = n - 1
    BY <1>1 DEF n
  <1>4. \A k \in 1 .. n - 1 : w[k] \in Int /\ w[k] = Tail(s)[k].got
    BY <1>1, <1>3 DEF w
  <1>5. GotSum(Tail(s)) = Sigma(w, n - 1)
    <2>1. n - 1 \in Nat
      BY <1>1
    <2>2. SumOf(Tail(s), n - 1, Got) = Sigma(w, n - 1)
      BY <1>4, <2>1, SumOfGot
    <2>. QED
      BY <1>3, <2>2 DEF GotSum
  <1>. QED
    BY <1>1, <1>2, <1>5

LEMMA ChainSumTail ==
  ASSUME NEW s \in Seq(Finished), s # << >>
  PROVE  ChainSum(s) = s[1].chains + ChainSum(Tail(s))
  <1> DEFINE v == ChainsV(s)
             n == Len(s)
             w == [k \in 1 .. n - 1 |-> v[1 + k]]
  <1>1. n \in Nat \ {0} /\ \A k \in 1 .. n : v[k] \in Int /\ v[k] = s[k].chains
    BY FinishedFields DEF v, n, ChainsV
  <1>2. ChainSum(s) = v[1] + Sigma(w, n - 1)
    BY <1>1, ChainSumIs, SigmaFirst DEF v, n, w
  <1>3. Tail(s) \in Seq(Finished) /\ Len(Tail(s)) = n - 1
    BY <1>1 DEF n
  <1>4. \A k \in 1 .. n - 1 : w[k] \in Int /\ w[k] = Tail(s)[k].chains
    BY <1>1, <1>3 DEF w
  <1>5. ChainSum(Tail(s)) = Sigma(w, n - 1)
    <2>1. n - 1 \in Nat
      BY <1>1
    <2>2. SumOf(Tail(s), n - 1, Chains) = Sigma(w, n - 1)
      BY <1>4, <2>1, SumOfChains
    <2>. QED
      BY <1>3, <2>2 DEF ChainSum
  <1>. QED
    BY <1>1, <1>2, <1>5

\* Appending finished frames adds their chains.
LEMMA ChainSumConcat ==
  ASSUME NEW s \in Seq(Finished), NEW t \in Seq(Finished)
  PROVE  ChainSum(s \o t) = ChainSum(s) + ChainSum(t)
  <1> DEFINE v == ChainsV(s \o t)
             n == Len(s)
             m == Len(t)
  <1>0. s \o t \in Seq(Finished) /\ Len(s \o t) = n + m
    BY DEF n, m
  <1>1. PICK a \in Seq(Finished) : a = s \o t /\ Len(a) = n + m
    BY <1>0
  <1>2. \A k \in 1 .. n + m : v[k] \in Int /\ v[k] = a[k].chains
    BY <1>1, FinishedFields DEF v, ChainsV
  <1>3. ChainSum(s \o t) = Sigma(v, n) + Sigma([k \in 1 .. m |-> v[n + k]], m)
    <2>1. ChainSum(a) = Sigma(ChainsV(a), n + m)
      BY <1>1, ChainSumIs
    <2>2. n \in Nat /\ m \in Nat
      BY DEF n, m
    <2>. QED
      BY <1>1, <1>2, <2>1, <2>2, SigmaSplit DEF v
  <1>4. ChainSum(s) = Sigma(v, n)
    <2>1. \A k \in 1 .. n : v[k] \in Int /\ v[k] = s[k].chains
      BY <1>1, <1>2 DEF n
    <2>2. SumOf(s, Len(s), Chains) = Sigma(v, Len(s))
      <3>1. Len(s) \in Nat
        OBVIOUS
      <3>. QED
        BY <2>1, <3>1, SumOfChains, Zenon DEF n
    <2>. QED
      BY <2>2 DEF ChainSum, n
  <1>5. ChainSum(t) = Sigma([k \in 1 .. m |-> v[n + k]], m)
    <2>1. \A k \in 1 .. m : [i \in 1 .. m |-> v[n + i]][k] \in Int
                          /\ [i \in 1 .. m |-> v[n + i]][k] = t[k].chains
      BY <1>1, <1>2 DEF n, m
    <2>2. SumOf(t, Len(t), Chains) = Sigma([k \in 1 .. Len(t) |-> v[n + k]], Len(t))
      <3>1. Len(t) \in Nat
        OBVIOUS
      <3>. QED
        BY <2>1, <3>1, SumOfChains, Zenon DEF m
    <2>. QED
      BY <2>2 DEF ChainSum, m
  <1>. QED
    BY <1>3, <1>4, <1>5

\* The chains filled by a list of transfers, split at transfer j + 1.
LEMMA GotSumSplit ==
  ASSUME NEW s \in Seq(Pending), NEW j \in 0 .. Len(s) - 1
  PROVE  GotSum(s) = Sigma(GotV(s), j) + s[j + 1].got + GotSum(SubSeq(s, j + 2, Len(s)))
  <1> DEFINE v == GotV(s)
             L == Len(s)
             w == [k \in 1 .. L - (j + 1) |-> v[(j + 1) + k]]
             r == SubSeq(s, j + 2, L)
  <1>1. /\ L \in Nat /\ j + 1 \in Nat /\ L - (j + 1) \in Nat
        /\ (j + 1) + (L - (j + 1)) = L
        /\ \A k \in 1 .. L : v[k] \in Int /\ v[k] = s[k].got
    BY PendingFields DEF v, L, GotV
  <1>2. GotSum(s) = Sigma(v, j + 1) + Sigma(w, L - (j + 1))
    <2>1. GotSum(s) = Sigma(v, L)
      BY GotSumIs DEF v, L
    <2>. QED
      BY <1>1, <2>1, SigmaSplit DEF w
  <1>3. Sigma(v, j + 1) = Sigma(v, j) + s[j + 1].got
    BY <1>1, SigmaStep
  <1>4. GotSum(r) = Sigma(w, L - (j + 1))
    <2>1. r \in Seq(Pending) /\ Len(r) = L - (j + 1)
          /\ \A k \in 1 .. L - (j + 1) : r[k] = s[(j + 1) + k]
      <3>1. \A i \in j + 2 .. L : s[i] \in Pending
        BY <1>1 DEF L
      <3>2. /\ SubSeq(s, j + 2, L) \in Seq(Pending)
            /\ Len(SubSeq(s, j + 2, L)) = IF j + 2 <= L THEN L - (j + 2) + 1 ELSE 0
            /\ \A i \in 1 .. L - (j + 2) + 1 : SubSeq(s, j + 2, L)[i] = s[(j + 2) + i - 1]
        BY <3>1, SubSeqProperties DEF L
      <3>. QED
        BY <1>1, <3>2 DEF r, L
    <2>2. \A k \in 1 .. L - (j + 1) : w[k] \in Int /\ w[k] = r[k].got
      BY <1>1, <2>1 DEF w, r, L
    <2>3. SumOf(r, L - (j + 1), Got) = Sigma(w, L - (j + 1))
      BY <1>1, <2>2, SumOfGot, Zenon
    <2>. QED
      BY <2>1, <2>3 DEF GotSum
  <1>. QED
    BY <1>2, <1>3, <1>4 DEF r, v, L

\* ChainsConserved of the values g, a, p, u of guestBufs, avail, pending
\* and used.
Conserved(g, a, p, u) == g + a + GotSum(p) + ChainSum(u) = RingSize

LEMMA ConservedIs ==
  /\ ChainsConserved <=> Conserved(guestBufs, avail, pending, used)
  /\ ChainsConserved' <=> Conserved(guestBufs', avail', pending', used')
  BY DEF ChainsConserved, Conserved, GotSum, ChainSum

LEMMA HandleRequestConserved ==
  ASSUME PtTypeOK, ChainsConserved, NEW n \in 1 .. MaxChains, HandleRequest(n)
  PROVE  ChainsConserved'
  <1> DEFINE t == [id |-> nextId, need |-> n, got |-> 0]
             k == Taken(t, avail)
  <1>0. t \in Pending /\ k \in 0 .. n
    BY DEF PtTypeOK, Pending, Taken, MinOf, Rest
  <1>1. t \in Pending /\ k \in 0 .. n /\ [t EXCEPT !.got = k] \in Pending
    BY <1>0 DEF Pending
  <1>2. /\ avail' = avail - k /\ guestBufs' = guestBufs
        /\ \/ k = n /\ used' = Append(used, Whole(t)) /\ pending' = pending
           \/ k # n /\ pending' = Append(pending, [t EXCEPT !.got = k]) /\ used' = used
    BY DEF HandleRequest
  <1>3. GotSum(pending) \in Nat /\ ChainSum(used) \in Nat
    BY GotSumIs, ChainSumIs DEF PtTypeOK
  <1>4. guestBufs + avail + GotSum(pending) + ChainSum(used) = RingSize
    BY ConservedIs DEF Conserved
  <1>5. CASE k = n
    <2>1. used' = Append(used, Whole(t)) /\ pending' = pending
      BY <1>2, <1>5
    <2>2. ChainSum(used') = ChainSum(used) + n
      BY <1>1, <2>1, FinishType, ChainSumAppend DEF PtTypeOK
    <2>. QED
      BY <1>2, <1>3, <1>4, <1>5, <2>1, <2>2, ConservedIs DEF Conserved, PtTypeOK
  <1>6. CASE k # n
    <2>1. pending' = Append(pending, [t EXCEPT !.got = k]) /\ used' = used
      BY <1>2, <1>6
    <2>2. GotSum(pending') = GotSum(pending) + k
      BY <1>1, <2>1, GotSumAppend DEF PtTypeOK
    <2>. QED
      BY <1>1, <1>2, <1>3, <1>4, <2>1, <2>2, ConservedIs DEF Conserved, PtTypeOK
  <1>. QED
    BY <1>5, <1>6

LEMMA ExpiredConserved ==
  ASSUME PtTypeOK, ChainsConserved, Expired
  PROVE  ChainsConserved'
  <1> DEFINE h == Head(pending)
  <1>1. h \in Pending /\ h = pending[1] /\ pending \in Seq(Pending) /\ pending # << >>
    BY DEF Expired, PtTypeOK
  <1>2. GotSum(pending) = h.got + GotSum(Tail(pending)) /\ pending' = Tail(pending)
    BY <1>1, GotSumTail DEF Expired
  <1>3. ChainSum(used') = ChainSum(used) + h.got
    <2>1. CASE h.got > 0
      <3>1. used' = Append(used, FinishPartial(h))
        BY <2>1 DEF Expired
      <3>. QED
        BY <1>1, <3>1, FinishType, ChainSumAppend DEF PtTypeOK
    <2>2. CASE ~(h.got > 0)
      <3>1. used' = used /\ h.got = 0
        BY <1>1, <2>2 DEF Expired, Pending
      <3>. QED
        BY <3>1, ChainSumIs DEF PtTypeOK
    <2>. QED
      BY <2>1, <2>2
  <1>4. /\ GotSum(Tail(pending)) \in Nat /\ ChainSum(used) \in Nat /\ h.got \in Nat
        /\ avail' = avail /\ guestBufs' = guestBufs
    <2>1. Tail(pending) \in Seq(Pending)
      BY <1>1
    <2>. QED
      BY <1>1, <2>1, GotSumIs, ChainSumIs DEF Expired, PtTypeOK, Pending
  <1>5. guestBufs + avail + GotSum(pending) + ChainSum(used) = RingSize
    BY ConservedIs DEF Conserved
  <1>6. GotSum(pending') = GotSum(Tail(pending))
    BY <1>2
  <1>7. guestBufs' + avail' + GotSum(pending') + ChainSum(used') = RingSize
    BY <1>2, <1>3, <1>4, <1>5, <1>6 DEF PtTypeOK
  <1>. QED
    BY <1>7, ConservedIs DEF Conserved

LEMMA GuestConserved ==
  ASSUME PtTypeOK, ChainsConserved, GuestPost \/ GuestReceive
  PROVE  ChainsConserved'
  <1>1. GotSum(pending) \in Nat /\ ChainSum(used) \in Nat
    BY GotSumIs, ChainSumIs DEF PtTypeOK
  <1>2. CASE GuestPost
    BY <1>1, <1>2, ConservedIs DEF Conserved, GuestPost, PtTypeOK
  <1>3. CASE GuestReceive
    <2>1. used \in Seq(Finished) /\ used # << >> /\ Head(used) = used[1]
      BY <1>3 DEF GuestReceive, PtTypeOK
    <2>2. ChainSum(used) = used[1].chains + ChainSum(Tail(used))
      BY <2>1, ChainSumTail
    <2>3. ChainSum(Tail(used)) \in Nat /\ used[1].chains \in Nat
      <3>1. Tail(used) \in Seq(Finished) /\ 1 \in 1 .. Len(used)
        BY <2>1
      <3>. QED
        BY <2>1, <3>1, ChainSumIs, FinishedFields
    <2>4. guestBufs + avail + GotSum(pending) + ChainSum(used) = RingSize
      BY ConservedIs DEF Conserved
    <2>5. /\ guestBufs' = guestBufs + used[1].chains /\ used' = Tail(used)
          /\ avail' = avail /\ pending' = pending
      BY <1>3, <2>1 DEF GuestReceive
    <2>6. GotSum(pending') = GotSum(pending) /\ ChainSum(used') = ChainSum(Tail(used))
      BY <2>5
    <2>7. guestBufs \in Nat /\ avail \in Nat
      BY DEF PtTypeOK
    <2>8. guestBufs' + avail' + GotSum(pending') + ChainSum(used') = RingSize
      <3>1. guestBufs' = guestBufs + used[1].chains /\ avail' = avail
        BY <2>5
      <3>. QED
        BY <1>1, <2>2, <2>3, <2>4, <2>6, <2>7, <3>1
    <2>. QED
      BY <2>8, ConservedIs DEF Conserved
  <1>. QED
    BY <1>2, <1>3

\* handle_rx_queue() hands the guest, for the transfers it completes, the
\* chains they had plus the available chains they still needed, and gives
\* the rest of the available chains to the transfer it stops at.
LEMMA HandleRxQueueConserved ==
  ASSUME PtTypeOK, ChainsConserved, HandleRxQueue
  PROVE  ChainsConserved'
  <1> DEFINE j == Completed
             L == Len(pending)
             left == avail - Owed(j)
             W == [k \in 1 .. j |-> Whole(pending[k])]
             gv == GotV(pending)
             nv == NeedV(pending)
  <1>1. /\ j \in 0 .. L /\ Owed(j) \in Int /\ Owed(j) <= avail
        /\ avail \in Nat /\ guestBufs \in Nat /\ L \in Nat
        /\ pending \in Seq(Pending) /\ used \in Seq(Finished)
    BY CompletedSpec DEF PtTypeOK
  <1>2. \A k \in 1 .. L : /\ gv[k] \in Nat /\ gv[k] = pending[k].got
                          /\ nv[k] \in Nat /\ nv[k] = pending[k].need
                          /\ RestV[k] = nv[k] - gv[k]
    BY <1>1, PendingFields DEF gv, nv, GotV, NeedV, RestV
  \* Owed(j) = needs - chains filled, over the completed transfers.
  <1>3. Owed(j) = Sigma(nv, j) - Sigma(gv, j)
    <2>1. Owed(j) = Sigma(RestV, j)
      BY <1>1, OwedSigma
    <2>2. \A k \in 1 .. j : nv[k] \in Int /\ gv[k] \in Int /\ RestV[k] = nv[k] - gv[k]
      BY <1>1, <1>2
    <2>. QED
      BY <1>1, <2>1, <2>2, SigmaDiff
  <1>4. /\ Sigma(nv, j) \in Int /\ Sigma(gv, j) \in Int
    <2>1. j \in Nat /\ \A k \in 1 .. j : nv[k] \in Int /\ gv[k] \in Int
      BY <1>1, <1>2
    <2>2. Sigma(nv, j) \in Int
      BY <2>1, SigmaInt
    <2>3. Sigma(gv, j) \in Int
      BY <2>1, SigmaInt
    <2>. QED
      BY <2>2, <2>3
  \* What the guest gets: used' = used \o W.
  <1>5. ChainSum(used') = ChainSum(used) + Sigma(nv, j)
    <2>1. W \in Seq(Finished) /\ Len(W) = j
          /\ \A k \in 1 .. j : W[k].chains = pending[k].need
      <3>1. \A k \in 1 .. j : pending[k] \in Pending
        BY <1>1
      <3>. QED
        BY <1>1, <3>1, FinishType DEF W
    <2>2. ChainSum(W) = Sigma(nv, j)
      <3>1. \A k \in 1 .. j : nv[k] \in Int /\ nv[k] = W[k].chains
        BY <1>1, <1>2, <2>1
      <3>2. SumOf(W, j, Chains) = Sigma(nv, j)
        <4>1. j \in Nat
          BY <1>1
        <4>. QED
          BY <3>1, <4>1, SumOfChains, Zenon
      <3>. QED
        BY <2>1, <3>2 DEF ChainSum
    <2>3. used' = used \o W
      BY DEF HandleRxQueue
    <2>. QED
      BY <1>1, <2>1, <2>2, <2>3, ChainSumConcat
  <1>6. /\ guestBufs' = guestBufs
        /\ guestBufs + avail + GotSum(pending) + ChainSum(used) = RingSize
        /\ ChainSum(used) \in Nat
    BY <1>1, ConservedIs, ChainSumIs DEF HandleRxQueue, Conserved
  <1>7. CASE j = L
    <2>1. pending' = << >> /\ avail' = left
      BY <1>7 DEF HandleRxQueue
    <2>2. GotSum(pending') = 0
      <3>0. << >> \in Seq(Pending) /\ Len(<< >>) = 0
        OBVIOUS
      <3>1. GotSum(<< >>) = Sigma(GotV(<< >>), 0)
        BY <3>0, GotSumIs
      <3>. QED
        BY <2>1, <3>1, SigmaZero
    <2>3. GotSum(pending) = Sigma(gv, j)
      BY <1>1, <1>7, GotSumIs DEF gv
    <2>4. guestBufs' + avail' + GotSum(pending') + ChainSum(used') = RingSize
      <3>1. avail' = avail - Owed(j)
        BY <2>1 DEF left
      <3>2. /\ guestBufs' = guestBufs /\ avail \in Nat /\ guestBufs \in Nat
            /\ Owed(j) \in Int
        BY <1>1, <1>6
      <3>. QED
        BY <1>3, <1>4, <1>5, <1>6, <2>2, <2>3, <3>1, <3>2
    <2>. QED
      BY <2>4, ConservedIs DEF Conserved
  <1>8. CASE j # L
    <2> DEFINE p1 == [pending[j + 1] EXCEPT !.got = @ + left]
               r == SubSeq(pending, j + 2, L)
    <2>1. pending' = <<p1>> \o r /\ avail' = 0
      BY <1>8 DEF HandleRxQueue
    <2>2. j \in 0 .. L - 1 /\ pending[j + 1] \in Pending /\ left \in Nat
      BY <1>1, <1>8
    <2>3. p1 \in Pending /\ p1.got = pending[j + 1].got + left
      BY <2>2 DEF Pending
    <2>4. r \in Seq(Pending)
      <3>1. \A i \in j + 2 .. L : pending[i] \in Pending
        BY <1>1
      <3>. QED
        BY <2>2, <3>1, SubSeqProperties DEF r
    <2>5. GotSum(pending') = p1.got + GotSum(r)
      <3>q. PICK q \in Pending : q = p1
        BY <2>3
      <3>n. PICK n \in Nat : n = Len(r)
        BY <2>4, LenProperties
      <3>0. <<q>> \in Seq(Pending) /\ Len(<<q>>) = 1 /\ <<q>>[1] = q
        OBVIOUS
      <3>a. PICK c \in Seq(Pending) : c = <<q>> \o r
        BY <2>4, <3>0, ConcatProperties
      <3>b. Len(c) = 1 + n
        BY <2>4, <3>0, <3>a, <3>n, ConcatProperties
      <3>b1. c[1] = q
        BY <2>4, <3>0, <3>a, ConcatProperties
      <3>b2. \A i \in 1 .. n : c[i + 1] = r[i]
        BY <2>4, <3>0, <3>a, <3>n, ConcatProperties
      <3>d. c # << >>
        BY <3>b
      <3>c. Tail(c) = r
        <4>2. Tail(c) \in Seq(Pending) /\ Len(Tail(c)) = n
              /\ \A i \in 1 .. n : Tail(c)[i] = c[i + 1]
          BY <3>b, <3>d, HeadTailProperties
        <4>3. \A i \in 1 .. n : Tail(c)[i] = r[i]
          BY <3>b2, <4>2
        <4>. QED
          BY <2>4, <3>n, <4>2, <4>3, SeqEqual
      <3>2. GotSum(c) = q.got + GotSum(r)
        BY <3>b1, <3>c, <3>d, GotSumTail
      <3>. QED
        BY <2>1, <3>2, <3>a, <3>q
    <2>6. GotSum(pending) = Sigma(gv, j) + pending[j + 1].got + GotSum(r)
      BY <1>1, <2>2, GotSumSplit DEF gv, r
    <2>7. /\ GotSum(r) \in Nat /\ pending[j + 1].got \in Nat
      BY <2>2, <2>4, GotSumIs DEF Pending
    <2>8. guestBufs' + avail' + GotSum(pending') + ChainSum(used') = RingSize
      <3>1. guestBufs' = guestBufs /\ avail' = 0
        BY <1>6, <2>1
      <3>2. GotSum(pending') = pending[j + 1].got + (avail - Owed(j)) + GotSum(r)
        BY <2>3, <2>5 DEF left
      <3>3. avail \in Nat /\ guestBufs \in Nat /\ Owed(j) \in Int
        BY <1>1
      <3>4. PICK x \in Nat : x = pending[j + 1].got
        BY <2>7
      <3>5. PICK y \in Nat : y = GotSum(r)
        BY <2>7
      <3>6. /\ GotSum(pending) = Sigma(gv, j) + x + y
            /\ GotSum(pending') = x + (avail - Owed(j)) + y
        BY <2>6, <3>2, <3>4, <3>5
      <3>. QED
        BY <1>3, <1>4, <1>5, <1>6, <3>1, <3>3, <3>6
    <2>. QED
      BY <2>8, ConservedIs DEF Conserved
  <1>. QED
    BY <1>7, <1>8

-----------------------------------------------------------------------------
(* The inductive invariant.                                                *)

\* The ids of received, used and pending, in this order: the function
\* AtMostOnce names ids.
IdsOf(r, u, p) ==
  [k \in 1 .. Len(r) + Len(u) + Len(p) |->
     IF k <= Len(r) THEN r[k].id
     ELSE IF k <= Len(r) + Len(u) THEN u[k - Len(r)].id
     ELSE p[k - Len(r) - Len(u)].id]

IdList == IdsOf(received, used, pending)

\* f takes no value twice.
Inj(f) == \A a, b \in DOMAIN f : a # b => f[a] # f[b]

\* Every frame on the three lists was sent already, so that
\* handle_request() gives the next one an id none of them has.
Below(f, n) == \A k \in DOMAIN f : f[k] \in 1 .. n - 1

IdsSent == Below(IdList, nextId)

\* A fresh value inserted at position P keeps a function injective and
\* its values below the new bound.
LEMMA InsertInj ==
  ASSUME NEW N \in Nat, NEW f, NEW g, NEW P \in 1 .. N + 1, NEW v \in Nat \ {0},
         DOMAIN f = 1 .. N, DOMAIN g = 1 .. N + 1,
         \A k \in 1 .. N : f[k] \in 1 .. v - 1,
         \A k \in 1 .. P - 1 : g[k] = f[k],
         g[P] = v,
         \A k \in P + 1 .. N + 1 : g[k] = f[k - 1],
         Inj(f)
  PROVE  Inj(g) /\ \A k \in 1 .. N + 1 : g[k] \in 1 .. v
  <1>1. \A k \in 1 .. N + 1 : k # P =>
          /\ (IF k < P THEN k ELSE k - 1) \in 1 .. N
          /\ g[k] = f[IF k < P THEN k ELSE k - 1]
    OBVIOUS
  <1>2. \A k \in 1 .. N + 1 : g[k] \in 1 .. v
    <2> SUFFICES ASSUME NEW k \in 1 .. N + 1 PROVE g[k] \in 1 .. v
      OBVIOUS
    <2>1. CASE k = P
      BY <2>1
    <2>2. CASE k # P
      <3>1. PICK i \in 1 .. N : g[k] = f[i]
        BY <1>1, <2>2
      <3>2. f[i] \in 1 .. v - 1
        OBVIOUS
      <3>. QED
        BY <3>1, <3>2
    <2>. QED
      BY <2>1, <2>2
  <1>3. Inj(g)
    <2> SUFFICES ASSUME NEW a \in 1 .. N + 1, NEW b \in 1 .. N + 1, a # b
                 PROVE  g[a] # g[b]
      BY DEF Inj
    <2>1. CASE a = P
      BY <1>1, <2>1
    <2>2. CASE b = P
      BY <1>1, <2>2
    <2>3. CASE a # P /\ b # P
      <3>1. (IF a < P THEN a ELSE a - 1) # (IF b < P THEN b ELSE b - 1)
        BY <2>3
      <3>2. PICK i \in 1 .. N : i = (IF a < P THEN a ELSE a - 1)
        BY <1>1, <2>3
      <3>3. PICK m \in 1 .. N : m = (IF b < P THEN b ELSE b - 1)
        BY <1>1, <2>3
      <3>4. f[i] # f[m]
        BY <3>1, <3>2, <3>3 DEF Inj
      <3>. QED
        BY <1>1, <2>3, <3>2, <3>3, <3>4
    <2>. QED
      BY <2>1, <2>2, <2>3
  <1>. QED
    BY <1>2, <1>3

\* Removing the value at position P keeps a function injective and its
\* values among the old ones.
LEMMA RemoveInj ==
  ASSUME NEW N \in Nat, NEW f, NEW g, NEW P \in 1 .. N + 1, NEW B,
         DOMAIN f = 1 .. N + 1, DOMAIN g = 1 .. N,
         \A k \in 1 .. N + 1 : f[k] \in B,
         \A k \in 1 .. N : g[k] = f[IF k < P THEN k ELSE k + 1],
         Inj(f)
  PROVE  Inj(g) /\ \A k \in 1 .. N : g[k] \in B
  <1>1. \A a, b \in 1 .. N : a # b =>
          (IF a < P THEN a ELSE a + 1) # (IF b < P THEN b ELSE b + 1)
    OBVIOUS
  <1>. QED
    BY <1>1 DEF Inj

\* A sequence with one element put in front.
LEMMA ConsProps ==
  ASSUME NEW S, NEW q \in S, NEW r \in Seq(S)
  PROVE  /\ <<q>> \o r \in Seq(S)
         /\ Len(<<q>> \o r) = 1 + Len(r)
         /\ (<<q>> \o r)[1] = q
         /\ \A i \in 1 .. Len(r) : (<<q>> \o r)[i + 1] = r[i]
  <1>1. <<q>> \in Seq(S) /\ Len(<<q>>) = 1 /\ <<q>>[1] = q
    OBVIOUS
  <1>2. \A i \in 1 .. 1 + Len(r) :
          (<<q>> \o r)[i] = IF i <= 1 THEN <<q>>[i] ELSE r[i - 1]
    BY <1>1, ConcatProperties
  <1>. QED
    BY <1>1, <1>2, ConcatProperties

\* How handle_rx_queue() rearranges the lists: the completed transfers
\* move, in order, to the end of used, and pending keeps the rest.
LEMMA RxShape ==
  ASSUME PtTypeOK, HandleRxQueue
  PROVE  /\ Len(used') = Len(used) + Completed
         /\ Len(pending') = Len(pending) - Completed
         /\ \A a \in 1 .. Len(used) : used'[a] = used[a]
         /\ \A k \in 1 .. Completed : used'[Len(used) + k].id = pending[k].id
         /\ \A i \in 1 .. Len(pending) - Completed :
              pending'[i].id = pending[Completed + i].id
  <1> DEFINE j == Completed
             left == avail - Owed(j)
             L == Len(pending)
             W == [k \in 1 .. j |-> Whole(pending[k])]
  <1>1. j \in 0 .. L /\ left \in Nat /\ L \in Nat
        /\ pending \in Seq(Pending) /\ used \in Seq(Finished)
    BY CompletedSpec DEF PtTypeOK
  <1>2. W \in Seq(Finished) /\ Len(W) = j
        /\ \A k \in 1 .. j : W[k].id = pending[k].id
    <2>1. \A k \in 1 .. j : pending[k] \in Pending
      BY <1>1
    <2>2. W \in Seq(Finished)
      BY <1>1, <2>1, FinishType
    <2>3. Len(W) = j
      BY <1>1
    <2>4. \A k \in 1 .. j : W[k].id = pending[k].id
      BY <2>1, FinishType
    <2>. QED
      BY <2>2, <2>3, <2>4
  <1>3. /\ Len(used') = Len(used) + j
        /\ \A a \in 1 .. Len(used) : used'[a] = used[a]
        /\ \A k \in 1 .. j : used'[Len(used) + k].id = pending[k].id
    <2>1. used' = used \o W
      BY DEF HandleRxQueue
    <2>. QED
      BY <1>1, <1>2, <2>1, ConcatProperties
  <1>4. CASE j = L
    <2>1. pending' = << >>
      BY <1>4 DEF HandleRxQueue
    <2>. QED
      BY <1>3, <1>4, <2>1
  <1>5. CASE j # L
    <2>1. pending[j + 1] \in Pending
      BY <1>1, <1>5
    <2>0. [pending[j + 1] EXCEPT !.got = @ + left] \in Pending
      <3>1. left \in Nat
        BY <1>1
      <3>. QED
        BY <3>1, <2>1 DEF Pending
    <2>2. PICK q \in Pending : q = [pending[j + 1] EXCEPT !.got = @ + left]
      BY <2>0
    <2>3. q.id = pending[j + 1].id
      BY <2>2
    <2>a. \A i \in j + 2 .. L : pending[i] \in Pending
      BY <1>1
    <2>b. SubSeq(pending, j + 2, L) \in Seq(Pending)
      BY <1>1, <2>a, SubSeqProperties
    <2>4. PICK r \in Seq(Pending) : r = SubSeq(pending, j + 2, L)
      BY <2>b
    <2>5. Len(r) = L - j - 1 /\ \A i \in 1 .. L - j - 1 : r[i] = pending[j + 1 + i]
      BY <1>1, <1>5, <2>a, <2>4, SubSeqProperties
    <2>6. pending' = <<q>> \o r
      BY <1>5, <2>2, <2>4 DEF HandleRxQueue
    <2>7. /\ Len(pending') = 1 + Len(r) /\ pending'[1] = q
          /\ \A i \in 1 .. Len(r) : pending'[i + 1] = r[i]
      BY <2>6, ConsProps
    <2>8. \A i \in 1 .. L - j : pending'[i].id = pending[j + i].id
      <3> SUFFICES ASSUME NEW i \in 1 .. L - j PROVE pending'[i].id = pending[j + i].id
        OBVIOUS
      <3>1. CASE i = 1
        <4>1. pending'[i] = q
          BY <2>7, <3>1
        <4>. QED
          BY <2>3, <3>1, <4>1
      <3>2. CASE i # 1
        <4>1. i - 1 \in 1 .. Len(r)
          BY <1>1, <2>5, <3>2
        <4>2. pending'[i] = r[i - 1]
          BY <2>7, <4>1
        <4>3. r[i - 1] = pending[j + i]
          <5>1. j + 1 + (i - 1) = j + i
            BY <1>1
          <5>. QED
            BY <2>5, <4>1, <5>1
        <4>. QED
          BY <4>2, <4>3
      <3>. QED
        BY <3>1, <3>2
    <2>. QED
      BY <1>1, <1>3, <2>5, <2>7, <2>8
  <1>. QED
    BY <1>4, <1>5

\* The entries of IdsOf, for lists of the given lengths.
LEMMA IdsOfAt ==
  ASSUME NEW r, NEW u, NEW p, NEW a \in Nat, NEW b \in Nat, NEW c \in Nat,
         Len(r) = a, Len(u) = b, Len(p) = c
  PROVE  /\ DOMAIN IdsOf(r, u, p) = 1 .. a + b + c
         /\ \A k \in 1 .. a : IdsOf(r, u, p)[k] = r[k].id
         /\ \A k \in a + 1 .. a + b : IdsOf(r, u, p)[k] = u[k - a].id
         /\ \A k \in a + b + 1 .. a + b + c : IdsOf(r, u, p)[k] = p[k - a - b].id
  BY DEF IdsOf

\* handle_rx_queue() only moves frames from pending to used: the list of
\* ids stays as it is.
LEMMA RxIds ==
  ASSUME PtTypeOK, HandleRxQueue
  PROVE  IdsOf(received', used', pending') = IdsOf(received, used, pending)
  <1>0. PICK j \in Nat : j = Completed
    BY CompletedSpec
  <1> DEFINE Lr == Len(received)
             Lu == Len(used)
             Lp == Len(pending)
  <1>1. /\ j \in 0 .. Lp /\ Lr \in Nat /\ Lu \in Nat /\ Lp \in Nat
        /\ received' = received /\ Len(received') = Lr
    BY <1>0, CompletedSpec DEF PtTypeOK, HandleRxQueue
  <1>2. /\ Len(used') = Lu + j /\ Len(pending') = Lp - j
        /\ \A a \in 1 .. Lu : used'[a] = used[a]
        /\ \A k \in 1 .. j : used'[Lu + k].id = pending[k].id
        /\ \A i \in 1 .. Lp - j : pending'[i].id = pending[j + i].id
    BY <1>0, RxShape
  <1>3. Len(received') + Len(used') + Len(pending') = Lr + Lu + Lp
    BY <1>1, <1>2
  <1>4. \A k \in 1 .. Lr + Lu + Lp :
          IdsOf(received', used', pending')[k] = IdsOf(received, used, pending)[k]
    <2> SUFFICES ASSUME NEW k \in 1 .. Lr + Lu + Lp
                 PROVE  IdsOf(received', used', pending')[k]
                          = IdsOf(received, used, pending)[k]
      OBVIOUS
    <2>1. CASE k <= Lr
      <3>1. IdsOf(received', used', pending')[k] = received'[k].id
        BY <1>1, <1>3, <2>1 DEF IdsOf
      <3>2. IdsOf(received, used, pending)[k] = received[k].id
        BY <1>1, <2>1 DEF IdsOf
      <3>. QED
        BY <1>1, <3>1, <3>2
    <2>2. CASE Lr < k /\ k <= Lr + Lu
      <3>1. IdsOf(received', used', pending')[k] = used'[k - Lr].id
        BY <1>1, <1>2, <1>3, <2>2 DEF IdsOf
      <3>2. IdsOf(received, used, pending)[k] = used[k - Lr].id
        BY <1>1, <2>2 DEF IdsOf
      <3>3. used'[k - Lr] = used[k - Lr]
        BY <1>1, <1>2, <2>2
      <3>. QED
        BY <3>1, <3>2, <3>3
    <2>3. CASE Lr + Lu < k /\ k <= Lr + Lu + j
      <3>1. IdsOf(received', used', pending')[k] = used'[k - Lr].id
        BY <1>1, <1>2, <1>3, <2>3 DEF IdsOf
      <3>2. IdsOf(received, used, pending)[k] = pending[k - Lr - Lu].id
        BY <1>1, <2>3 DEF IdsOf
      <3>3. used'[Lu + (k - Lr - Lu)].id = pending[k - Lr - Lu].id
        BY <1>1, <1>2, <2>3
      <3>. QED
        BY <1>1, <3>1, <3>2, <3>3
    <2>4. CASE Lr + Lu + j < k
      <3>a. k - Lr - Lu - j \in 1 .. Lp - j
        BY <1>1, <2>4
      <3>0. PICK m \in 1 .. Lp - j : m = k - Lr - Lu - j
        BY <3>a
      <3>1. IdsOf(received', used', pending')[k] = pending'[m].id
        BY <1>1, <1>2, <1>3, <2>4, <3>0 DEF IdsOf
      <3>2. IdsOf(received, used, pending)[k] = pending[j + m].id
        BY <1>1, <2>4, <3>0 DEF IdsOf
      <3>3. pending'[m].id = pending[j + m].id
        BY <1>2, <3>0
      <3>. QED
        BY <3>1, <3>2, <3>3
    <2>. QED
      BY <2>1, <2>2, <2>3, <2>4
  <1>. QED
    BY <1>3, <1>4 DEF IdsOf

\* The guest reading the head of used moves it to received: the list of
\* ids stays as it is.
LEMMA ReceiveIds ==
  ASSUME PtTypeOK, GuestReceive
  PROVE  IdsOf(received', used', pending') = IdsOf(received, used, pending)
  <1> DEFINE Lr == Len(received)
             Lu == Len(used)
             Lp == Len(pending)
  <1>1. /\ Lr \in Nat /\ Lu \in 1 .. Len(used) /\ Lp \in Nat
        /\ pending' = pending /\ Len(pending') = Lp
    BY DEF PtTypeOK, GuestReceive
  <1>2. /\ Len(received') = Lr + 1 /\ Len(used') = Lu - 1
        /\ \A a \in 1 .. Lr : received'[a] = received[a]
        /\ received'[Lr + 1] = used[1]
        /\ \A a \in 1 .. Lu - 1 : used'[a] = used[a + 1]
    <2>1. used # << >> /\ used \in Seq(Finished) /\ received \in Seq(Finished)
      BY DEF PtTypeOK, GuestReceive
    <2>2. received' = Append(received, Head(used)) /\ used' = Tail(used)
      BY DEF GuestReceive
    <2>3. Head(used) \in Finished
      BY <2>1, HeadTailProperties
    <2>. QED
      BY <2>1, <2>2, <2>3, HeadTailProperties, AppendProperties
  <1>3. Len(received') + Len(used') + Len(pending') = Lr + Lu + Lp
    BY <1>1, <1>2
  <1>4. \A k \in 1 .. Lr + Lu + Lp :
          IdsOf(received', used', pending')[k] = IdsOf(received, used, pending)[k]
    <2> SUFFICES ASSUME NEW k \in 1 .. Lr + Lu + Lp
                 PROVE  IdsOf(received', used', pending')[k]
                          = IdsOf(received, used, pending)[k]
      OBVIOUS
    <2>1. CASE k <= Lr
      <3>1. IdsOf(received', used', pending')[k] = received'[k].id
        BY <1>1, <1>2, <1>3, <2>1 DEF IdsOf
      <3>2. IdsOf(received, used, pending)[k] = received[k].id
        BY <1>1, <2>1 DEF IdsOf
      <3>. QED
        BY <1>1, <1>2, <2>1, <3>1, <3>2
    <2>2. CASE k = Lr + 1
      <3>1. IdsOf(received', used', pending')[k] = received'[Lr + 1].id
        BY <1>1, <1>2, <1>3, <2>2 DEF IdsOf
      <3>2. IdsOf(received, used, pending)[k] = used[1].id
        BY <1>1, <2>2 DEF IdsOf
      <3>. QED
        BY <1>2, <3>1, <3>2
    <2>3. CASE Lr + 1 < k /\ k <= Lr + Lu
      <3>a. k - Lr - 1 \in 1 .. Lu - 1
        BY <1>1, <2>3
      <3>0. PICK m \in 1 .. Lu - 1 : m = k - Lr - 1
        BY <3>a
      <3>1. IdsOf(received', used', pending')[k] = used'[m].id
        BY <1>1, <1>2, <1>3, <2>3, <3>0 DEF IdsOf
      <3>2. IdsOf(received, used, pending)[k] = used[m + 1].id
        BY <1>1, <2>3, <3>0 DEF IdsOf
      <3>. QED
        BY <1>2, <3>0, <3>1, <3>2
    <2>4. CASE Lr + Lu < k
      <3>1. IdsOf(received', used', pending')[k] = pending[k - Lr - Lu].id
        BY <1>1, <1>2, <1>3, <2>4 DEF IdsOf
      <3>2. IdsOf(received, used, pending)[k] = pending[k - Lr - Lu].id
        BY <1>1, <2>4 DEF IdsOf
      <3>. QED
        BY <3>1, <3>2
    <2>. QED
      BY <2>1, <2>2, <2>3, <2>4
  <1>. QED
    BY <1>3, <1>4 DEF IdsOf

\* expired() hands the guest the chains the oldest transfer filled, under
\* its id, or deletes it if it filled none: no id is duplicated or made up.
LEMMA ExpiredIds ==
  ASSUME PtTypeOK, Inj(IdList), IdsSent, Expired
  PROVE  Inj(IdList)' /\ IdsSent'
  <1> DEFINE Lr == Len(received)
             Lu == Len(used)
             Lp == Len(pending)
             f == IdsOf(received, used, pending)
             g == IdsOf(received', used', pending')
  <1>1. /\ Lr \in Nat /\ Lu \in Nat /\ Lp \in 1 .. Len(pending)
        /\ received' = received /\ Len(received') = Lr /\ nextId' = nextId
        /\ Len(pending') = Lp - 1
        /\ \A i \in 1 .. Lp - 1 : pending'[i] = pending[i + 1]
    <2>1. pending # << >> /\ pending \in Seq(Pending)
      BY DEF PtTypeOK, Expired
    <2>2. pending' = Tail(pending)
      BY DEF Expired
    <2>. QED
      BY <2>1, <2>2, HeadTailProperties DEF PtTypeOK, Expired
  <1>2. /\ DOMAIN f = 1 .. Lr + Lu + Lp
        /\ \A k \in 1 .. Lr + Lu + Lp : f[k] \in 1 .. nextId - 1
        /\ Inj(f)
    BY <1>1 DEF IdsOf, IdList, IdsSent, Below
  <1>3. SUFFICES Inj(g) /\ Below(g, nextId)
    BY <1>1 DEF IdList, IdsSent
  <1>4. CASE pending[1].got > 0
    <2>1. /\ Len(used') = Lu + 1 /\ \A a \in 1 .. Lu : used'[a] = used[a]
          /\ used'[Lu + 1].id = pending[1].id
      <3>1. pending[1] \in Pending /\ used \in Seq(Finished)
        BY <1>1 DEF PtTypeOK
      <3>2. used' = Append(used, FinishPartial(pending[1]))
        BY <1>4 DEF Expired
      <3>3. FinishPartial(pending[1]) \in Finished
            /\ FinishPartial(pending[1]).id = pending[1].id
        BY <3>1, FinishType
      <3>. QED
        BY <3>1, <3>2, <3>3, AppendProperties
    <2>2. Len(received') + Len(used') + Len(pending') = Lr + Lu + Lp
      BY <1>1, <2>1
    <2>3. \A k \in 1 .. Lr + Lu + Lp : g[k] = f[k]
      <3> SUFFICES ASSUME NEW k \in 1 .. Lr + Lu + Lp PROVE g[k] = f[k]
        OBVIOUS
      <3>1. CASE k <= Lr
        BY <1>1, <2>1, <2>2, <3>1 DEF IdsOf
      <3>2. CASE Lr < k /\ k <= Lr + Lu
        <4>1. g[k] = used'[k - Lr].id /\ f[k] = used[k - Lr].id
          BY <1>1, <2>1, <2>2, <3>2 DEF IdsOf
        <4>. QED
          BY <1>1, <2>1, <3>2, <4>1
      <3>3. CASE k = Lr + Lu + 1
        <4>1. g[k] = used'[Lu + 1].id /\ f[k] = pending[1].id
          BY <1>1, <2>1, <2>2, <3>3 DEF IdsOf
        <4>. QED
          BY <2>1, <4>1
      <3>4. CASE Lr + Lu + 1 < k
        <4>a. k - Lr - Lu - 1 \in 1 .. Lp - 1
          BY <1>1, <3>4
        <4>0. PICK m \in 1 .. Lp - 1 : m = k - Lr - Lu - 1
          BY <4>a
        <4>1. g[k] = pending'[m].id /\ f[k] = pending[m + 1].id
          BY <1>1, <2>1, <2>2, <3>4, <4>0 DEF IdsOf
        <4>. QED
          BY <1>1, <4>0, <4>1
      <3>. QED
        BY <3>1, <3>2, <3>3, <3>4
    <2>4. g = f
      BY <1>2, <2>2, <2>3 DEF IdsOf
    <2>. QED
      BY <1>2, <2>4 DEF Below
  <1>5. CASE ~(pending[1].got > 0)
    <2>a. Lr + Lu + Lp - 1 \in Nat /\ (Lr + Lu + Lp - 1) + 1 = Lr + Lu + Lp
      BY <1>1
    <2>0. PICK N \in Nat : N + 1 = Lr + Lu + Lp
      BY <2>a
    <2>1. used' = used
      BY <1>5 DEF Expired
    <2>2. Len(received') + Len(used') + Len(pending') = N
      BY <1>1, <2>0, <2>1
    <2>3. \A k \in 1 .. N : g[k] = f[IF k < Lr + Lu + 1 THEN k ELSE k + 1]
      <3> SUFFICES ASSUME NEW k \in 1 .. N
                   PROVE  g[k] = f[IF k < Lr + Lu + 1 THEN k ELSE k + 1]
        OBVIOUS
      <3>1. CASE k <= Lr
        BY <1>1, <2>0, <2>1, <2>2, <3>1 DEF IdsOf
      <3>2. CASE Lr < k /\ k <= Lr + Lu
        BY <1>1, <2>0, <2>1, <2>2, <3>2 DEF IdsOf
      <3>3. CASE Lr + Lu < k
        <4>a. k - Lr - Lu \in 1 .. Lp - 1
          BY <1>1, <2>0, <3>3
        <4>0. PICK m \in 1 .. Lp - 1 : m = k - Lr - Lu
          BY <4>a
        <4>1. g[k] = pending'[m].id /\ f[k + 1] = pending[m + 1].id
          BY <1>1, <2>0, <2>1, <2>2, <3>3, <4>0 DEF IdsOf
        <4>2. (IF k < Lr + Lu + 1 THEN k ELSE k + 1) = k + 1
          BY <1>1, <3>3
        <4>. QED
          BY <1>1, <4>0, <4>1, <4>2
      <3>. QED
        BY <3>1, <3>2, <3>3
    <2>4. DOMAIN g = 1 .. N /\ DOMAIN f = 1 .. N + 1
      BY <1>2, <2>0, <2>2 DEF IdsOf
    <2>5. Lr + Lu + 1 \in 1 .. N + 1
      BY <1>1, <2>0
    <2>6. Inj(g) /\ \A k \in 1 .. N : g[k] \in 1 .. nextId - 1
      <3>1. \A k \in 1 .. N + 1 : f[k] \in 1 .. nextId - 1
        BY <1>2, <2>0
      <3>2. Inj(f)
        BY <1>2
      <3>3. PICK gg : gg = g
        OBVIOUS
      <3>4. PICK ff : ff = f
        OBVIOUS
      <3>6. PICK B : B = 1 .. nextId - 1
        OBVIOUS
      <3>7. /\ DOMAIN ff = 1 .. N + 1 /\ DOMAIN gg = 1 .. N
            /\ \A k \in 1 .. N + 1 : ff[k] \in B
            /\ \A k \in 1 .. N : gg[k] = ff[IF k < Lr + Lu + 1 THEN k ELSE k + 1]
            /\ Inj(ff)
        BY <2>3, <2>4, <3>1, <3>2, <3>3, <3>4, <3>6
      <3>5. Inj(gg) /\ \A k \in 1 .. N : gg[k] \in B
        BY <2>0, <2>5, <3>7, RemoveInj, Zenon
      <3>. QED
        BY <3>3, <3>5, <3>6
    <2>. QED
      BY <2>4, <2>6 DEF Below
  <1>. QED
    BY <1>4, <1>5

\* handle_request() gives the new frame the id nextId, which no frame on
\* the lists has, and puts it at the end of used or of pending.
LEMMA HandleRequestIds ==
  ASSUME PtTypeOK, Inj(IdList), IdsSent, NEW n \in 1 .. MaxChains, HandleRequest(n)
  PROVE  Inj(IdList)' /\ IdsSent'
  <1> DEFINE t == [id |-> nextId, need |-> n, got |-> 0]
             k == Taken(t, avail)
             Lr == Len(received)
             Lu == Len(used)
             Lp == Len(pending)
             f == IdsOf(received, used, pending)
             g == IdsOf(received', used', pending')
  <1>1. /\ Lr \in Nat /\ Lu \in Nat /\ Lp \in Nat /\ nextId \in Nat \ {0}
        /\ received' = received /\ Len(received') = Lr /\ nextId' = nextId + 1
        /\ t \in Pending /\ used \in Seq(Finished) /\ pending \in Seq(Pending)
    BY DEF PtTypeOK, HandleRequest, Pending
  <1>2. /\ DOMAIN f = 1 .. Lr + Lu + Lp
        /\ \A i \in 1 .. Lr + Lu + Lp : f[i] \in 1 .. nextId - 1
        /\ Inj(f)
    BY <1>1 DEF IdsOf, IdList, IdsSent, Below
  <1>3. SUFFICES Inj(g) /\ Below(g, nextId + 1)
    BY <1>1 DEF IdList, IdsSent
  \* The insertion, whatever its position P.
  <1>4. ASSUME NEW P \in 1 .. Lr + Lu + Lp + 1,
               DOMAIN g = 1 .. Lr + Lu + Lp + 1,
               \A i \in 1 .. P - 1 : g[i] = f[i],
               g[P] = nextId,
               \A i \in P + 1 .. Lr + Lu + Lp + 1 : g[i] = f[i - 1]
        PROVE  Inj(g) /\ Below(g, nextId + 1)
    <2>1. PICK gg : gg = g
      OBVIOUS
    <2>2. PICK ff : ff = f
      OBVIOUS
    <2>3. PICK N \in Nat : N = Lr + Lu + Lp
      BY <1>1
    <2>4. /\ DOMAIN ff = 1 .. N /\ DOMAIN gg = 1 .. N + 1
          /\ \A i \in 1 .. N : ff[i] \in 1 .. nextId - 1
          /\ \A i \in 1 .. P - 1 : gg[i] = ff[i]
          /\ gg[P] = nextId
          /\ \A i \in P + 1 .. N + 1 : gg[i] = ff[i - 1]
          /\ Inj(ff) /\ P \in 1 .. N + 1
      BY <1>2, <1>4, <2>1, <2>2, <2>3
    <2>a. PICK v \in Nat \ {0} : v = nextId
      BY <1>1
    <2>b. /\ \A i \in 1 .. N : ff[i] \in 1 .. v - 1
          /\ gg[P] = v
      BY <2>4, <2>a
    <2>c. Inj(gg) /\ \A i \in 1 .. N + 1 : gg[i] \in 1 .. v
      BY <2>3, <2>4, <2>b, InsertInj, ZenonT(120)
    <2>5. Inj(gg) /\ \A i \in 1 .. N + 1 : gg[i] \in 1 .. nextId
      BY <2>a, <2>c
    <2>6. \A i \in 1 .. N + 1 : gg[i] \in 1 .. (nextId + 1) - 1
      BY <1>1, <2>5
    <2>. QED
      BY <1>4, <2>1, <2>3, <2>5, <2>6 DEF Below
  <1>5. CASE k = n
    <2>1. used' = Append(used, Whole(t)) /\ pending' = pending
      BY <1>5 DEF HandleRequest
    <2>2. Whole(t) \in Finished /\ Whole(t).id = nextId
      BY <1>1, FinishType
    <2>3. /\ Len(used') = Lu + 1 /\ \A a \in 1 .. Lu : used'[a] = used[a]
          /\ used'[Lu + 1].id = nextId /\ Len(pending') = Lp
      BY <1>1, <2>1, <2>2, AppendProperties
    <2>4. Len(received') + Len(used') + Len(pending') = Lr + Lu + Lp + 1
      BY <1>1, <2>3
    <2>5. DOMAIN g = 1 .. Lr + Lu + Lp + 1
      BY <2>4 DEF IdsOf
    <2>6. \A i \in 1 .. Lr + Lu : g[i] = f[i]
      <3> SUFFICES ASSUME NEW i \in 1 .. Lr + Lu PROVE g[i] = f[i]
        OBVIOUS
      <3>1. CASE i <= Lr
        BY <1>1, <2>3, <2>4, <3>1 DEF IdsOf
      <3>2. CASE i > Lr
        <4>1. g[i] = used'[i - Lr].id /\ f[i] = used[i - Lr].id
          BY <1>1, <2>3, <2>4, <3>2 DEF IdsOf
        <4>. QED
          BY <1>1, <2>3, <3>2, <4>1
      <3>. QED
        BY <3>1, <3>2
    <2>7. g[Lr + Lu + 1] = nextId
      BY <1>1, <2>3, <2>4 DEF IdsOf
    <2>8. \A i \in Lr + Lu + 2 .. Lr + Lu + Lp + 1 : g[i] = f[i - 1]
      <3> SUFFICES ASSUME NEW i \in Lr + Lu + 2 .. Lr + Lu + Lp + 1
                   PROVE  g[i] = f[i - 1]
        OBVIOUS
      <3>1. g[i] = pending[i - Lr - (Lu + 1)].id
        BY <1>1, <2>1, <2>3, <2>4 DEF IdsOf
      <3>2. f[i - 1] = pending[i - 1 - Lr - Lu].id
        BY <1>1 DEF IdsOf
      <3>3. i - Lr - (Lu + 1) = i - 1 - Lr - Lu
        BY <1>1
      <3>. QED
        BY <3>1, <3>2, <3>3
    <2>9. /\ Lr + Lu + 1 \in 1 .. Lr + Lu + Lp + 1
          /\ \A i \in 1 .. (Lr + Lu + 1) - 1 : g[i] = f[i]
          /\ \A i \in (Lr + Lu + 1) + 1 .. Lr + Lu + Lp + 1 : g[i] = f[i - 1]
      BY <1>1, <2>6, <2>8
    <2>. QED
      BY <1>4, <2>5, <2>7, <2>9
  <1>6. CASE k # n
    <2>1. pending' = Append(pending, [t EXCEPT !.got = k]) /\ used' = used
      BY <1>6 DEF HandleRequest
    <2>0. k \in 0 .. n
      BY DEF PtTypeOK, Pending, Taken, MinOf, Rest
    <2>c. t \in Pending /\ k \in Nat
      BY <1>1, <2>0
    <2>2. [t EXCEPT !.got = k] \in Pending /\ [t EXCEPT !.got = k].id = nextId
      BY <2>c DEF Pending
    <2>3. /\ Len(pending') = Lp + 1 /\ \A a \in 1 .. Lp : pending'[a] = pending[a]
          /\ pending'[Lp + 1].id = nextId /\ Len(used') = Lu
      BY <1>1, <2>1, <2>2, AppendProperties
    <2>4. Len(received') + Len(used') + Len(pending') = Lr + Lu + Lp + 1
      BY <1>1, <2>3
    <2>5. DOMAIN g = 1 .. Lr + Lu + Lp + 1
      BY <2>4 DEF IdsOf
    <2>6. \A i \in 1 .. Lr + Lu + Lp : g[i] = f[i]
      BY <1>1, <2>1, <2>3, <2>4 DEF IdsOf
    <2>7. g[Lr + Lu + Lp + 1] = nextId
      BY <1>1, <2>1, <2>3, <2>4 DEF IdsOf
    <2>8. /\ Lr + Lu + Lp + 1 \in 1 .. Lr + Lu + Lp + 1
          /\ \A i \in 1 .. (Lr + Lu + Lp + 1) - 1 : g[i] = f[i]
          /\ \A i \in (Lr + Lu + Lp + 1) + 1 .. Lr + Lu + Lp + 1 : g[i] = f[i - 1]
      BY <1>1, <2>6
    <2>. QED
      BY <2>5, <2>7, <2>8, <1>4
  <1>. QED
    BY <1>5, <1>6

PtInv == PtTypeOK /\ ChainsConserved /\ Inj(IdList) /\ IdsSent

\* The ids the guest and the switch hold take no value twice is what
\* AtMostOnce says.
LEMMA InjIsAtMostOnce == Inj(IdList) <=> AtMostOnce
  BY DEF Inj, IdList, IdsOf, AtMostOnce

LEMMA InitPtInv == PtInit => PtInv
  <1> SUFFICES ASSUME PtInit PROVE PtInv
    OBVIOUS
  <1>1. PtTypeOK
    BY InitType
  <1>2. ChainsConserved
    <2>1. GotSum(pending) = 0 /\ ChainSum(used) = 0
      <3>1. pending = << >> /\ used = << >>
        BY DEF PtInit
      <3>2. << >> \in Seq(Pending) /\ << >> \in Seq(Finished) /\ Len(<< >>) = 0
        OBVIOUS
      <3>3. GotSum(<< >>) = Sigma(GotV(<< >>), 0) /\ ChainSum(<< >>) = Sigma(ChainsV(<< >>), 0)
        BY <3>2, GotSumIs, ChainSumIs
      <3>. QED
        BY <3>1, <3>3, SigmaZero
    <2>. QED
      BY <2>1, ConservedIs DEF PtInit, Conserved
  <1>3. DOMAIN IdList = {}
    BY DEF PtInit, IdList, IdsOf
  <1>. QED
    BY <1>1, <1>2, <1>3 DEF PtInv, Inj, IdsSent, Below

\* Steps that leave the three lists and nextId alone keep the ids as they are.
LEMMA IdsUnchanged ==
  ASSUME Inj(IdList), IdsSent,
         IdsOf(received', used', pending') = IdsOf(received, used, pending),
         nextId' = nextId
  PROVE  Inj(IdList)' /\ IdsSent'
  BY DEF IdList, IdsSent, Below

LEMMA NextPtInv == PtInv /\ [PtNext]_ptVars => PtInv'
  <1> SUFFICES ASSUME PtInv, [PtNext]_ptVars PROVE PtInv'
    OBVIOUS
  <1>0. PtTypeOK /\ ChainsConserved /\ Inj(IdList) /\ IdsSent
    BY DEF PtInv
  <1>1. PtTypeOK'
    BY <1>0, NextType
  <1>2. CASE \E n \in 1 .. MaxChains : HandleRequest(n)
    <2>1. PICK n \in 1 .. MaxChains : HandleRequest(n)
      BY <1>2
    <2>. QED
      BY <1>0, <1>1, <2>1, HandleRequestConserved, HandleRequestIds DEF PtInv
  <1>3. CASE HandleRxQueue
    <2>1. nextId' = nextId
      BY <1>3 DEF HandleRxQueue
    <2>. QED
      BY <1>0, <1>1, <1>3, <2>1, HandleRxQueueConserved, RxIds, IdsUnchanged DEF PtInv
  <1>4. CASE Expired
    BY <1>0, <1>1, <1>4, ExpiredConserved, ExpiredIds DEF PtInv
  <1>5. CASE GuestPost
    <2>1. IdsOf(received', used', pending') = IdsOf(received, used, pending)
          /\ nextId' = nextId
      BY <1>5 DEF GuestPost
    <2>. QED
      BY <1>0, <1>1, <1>5, <2>1, GuestConserved, IdsUnchanged DEF PtInv
  <1>6. CASE GuestReceive
    <2>1. nextId' = nextId
      BY <1>6 DEF GuestReceive
    <2>. QED
      BY <1>0, <1>1, <1>6, <2>1, GuestConserved, ReceiveIds, IdsUnchanged DEF PtInv
  <1>7. CASE UNCHANGED ptVars
    <2>1. IdsOf(received', used', pending') = IdsOf(received, used, pending)
          /\ nextId' = nextId
          /\ ChainsConserved' = ChainsConserved
      BY <1>7 DEF ptVars, ChainsConserved
    <2>. QED
      BY <1>0, <1>1, <2>1, IdsUnchanged DEF PtInv
  <1>. QED
    BY <1>2, <1>3, <1>4, <1>5, <1>6, <1>7 DEF PtNext

\* handle_request(), handle_rx_queue(), expired() and the guest's reads
\* keep every variable in its range.
THEOREM TypeCorrect == PtSpec => []PtTypeOK
  <1>1. PtInit => PtInv
    BY InitPtInv
  <1>2. PtInv /\ [PtNext]_ptVars => PtInv'
    BY NextPtInv
  <1>3. PtInv => PtTypeOK
    BY DEF PtInv
  <1>. QED
    BY <1>1, <1>2, <1>3, PTL DEF PtSpec

\* Every receive buffer of the guest is, at all times, exactly one of:
\* held by the guest, posted on the ring, filled by a pending transfer, or
\* finished on the used ring; handle_rx_queue() and expired() neither lose
\* nor invent one.
THEOREM ChainsConservedHolds == PtSpec => []ChainsConserved
  <1>1. PtInv => ChainsConserved
    BY DEF PtInv
  <1>. QED
    BY <1>1, InitPtInv, NextPtInv, PTL DEF PtSpec

\* No frame is delivered twice or is both delivered and still pending:
\* handle_rx_queue() erases each transfer it finishes and expired() each it
\* deletes, and handle_request() never reuses an id.
THEOREM AtMostOnceHolds == PtSpec => []AtMostOnce
  <1>1. PtInv => AtMostOnce
    BY InjIsAtMostOnce DEF PtInv
  <1>. QED
    BY <1>1, InitPtInv, NextPtInv, PTL DEF PtSpec

====
