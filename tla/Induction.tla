----------------------------- MODULE Induction ------------------------------
(***************************************************************************)
(* Induction over the natural numbers, in the form of facts about sets.    *)
(***************************************************************************)
EXTENDS Integers, WellFoundedInduction, TLAPS

\* A set of natural numbers has a least element.
LEMMA Least ==
  ASSUME NEW S \in SUBSET Nat, S # {}
  PROVE  \E n \in S : \A m \in S : n <= m
<1> DEFINE R == {ss \in Nat \X Nat : ss[1] < ss[2]}
<1>1. OpToRel(<, Nat) = R
  BY DEF OpToRel
<1>2. IsWellFoundedOn(R, Nat)
  <2> QED BY NatLessThanWellFounded DEF OpToRel
<1>3. PICK n \in S : \A m \in S : ~ (<<m, n>> \in R)
  <2> HIDE DEF R
  <2> QED BY <1>2, WFMin
<1>4. \A m \in S : n <= m
  <2> SUFFICES ASSUME NEW m \in S PROVE n <= m
    OBVIOUS
  <2>1. n \in Nat /\ m \in Nat
    OBVIOUS
  <2>2. ~ (<<m, n>> \in R)
    BY <1>3
  <2>3. ~ (m < n)
    BY <2>1, <2>2 DEF R
  <2> QED BY <2>1, <2>3
<1> QED BY <1>4

\* A set that has 0 and the successor of each of its elements is Nat.
LEMMA SetInduction ==
  ASSUME NEW S \in SUBSET Nat, 0 \in S, \A n \in S : n + 1 \in S
  PROVE  S = Nat
<1> SUFFICES ASSUME Nat \ S # {} PROVE FALSE
  OBVIOUS
<1>1. PICK n \in Nat \ S : \A m \in Nat \ S : n <= m
  BY Least
<1>2. n # 0
  OBVIOUS
<1>3. n - 1 \in Nat /\ n - 1 < n
  BY <1>2
<1>4. n - 1 \in S
  BY <1>1, <1>3
<1>5. (n - 1) + 1 \in S
  BY <1>4
<1> QED BY <1>5, <1>3

\* A function can be iterated any number of times.
Iterates(T) ==
  \A f \in [T -> T] : \A h \in T : \A K \in Nat :
    \E w \in [0 .. K -> T] : \A n \in 0 .. K : w[n] = IF n = 0 THEN h ELSE f[w[n - 1]]

LEMMA Iteration ==
  ASSUME NEW T
  PROVE  Iterates(T)
  <1> SUFFICES ASSUME NEW f \in [T -> T], NEW h \in T, NEW K \in Nat
               PROVE  \E w \in [0 .. K -> T] :
                        \A n \in 0 .. K : w[n] = IF n = 0 THEN h ELSE f[w[n - 1]]
    BY DEF Iterates
  <1> DEFINE Good(k) == \E w \in [0 .. k -> T] :
                          \A n \in 0 .. k : w[n] = IF n = 0 THEN h ELSE f[w[n - 1]]
             S == {k \in Nat : Good(k)}
  <1>1. 0 \in S
    <2> DEFINE w == [n \in 0 .. 0 |-> h]
    <2>1. w \in [0 .. 0 -> T] /\ \A n \in 0 .. 0 : n = 0 /\ w[n] = h
      OBVIOUS
    <2> HIDE DEF w
    <2> QED BY <2>1
  <1>2. ASSUME NEW k \in S PROVE k + 1 \in S
    <2>1. PICK w \in [0 .. k -> T] :
            \A n \in 0 .. k : w[n] = IF n = 0 THEN h ELSE f[w[n - 1]]
      OBVIOUS
    <2> DEFINE v == [n \in 0 .. k + 1 |-> IF n = k + 1 THEN f[w[k]] ELSE w[n]]
    <2>2. k \in Nat
      OBVIOUS
    <2>3. v \in [0 .. k + 1 -> T]
      <3>1. k \in 0 .. k /\ \A n \in 0 .. k + 1 : n # k + 1 => n \in 0 .. k
        BY <2>2
      <3> QED BY <3>1
    <2>4. ASSUME NEW n \in 0 .. k + 1 PROVE v[n] = IF n = 0 THEN h ELSE f[v[n - 1]]
      <3>1. CASE n = k + 1
        <4>1. n # 0 /\ n - 1 = k /\ k \in 0 .. k + 1 /\ k # k + 1
          BY <3>1, <2>2
        <4> QED BY <4>1, <3>1
      <3>2. CASE n = 0
        BY <3>2, <2>2, <2>1
      <3>3. CASE n \in 1 .. k
        <4>1. n \in 0 .. k /\ n # k + 1 /\ n # 0 /\ n - 1 \in 0 .. k + 1 /\ n - 1 # k + 1
          BY <3>3, <2>2
        <4> QED BY <4>1, <2>1
      <3> QED BY <3>1, <3>2, <3>3, <2>2
    <2> HIDE DEF v
    <2> QED BY <2>2, <2>3, <2>4
  <1>3. S = Nat
    <2> HIDE DEF S
    <2>1. S \in SUBSET Nat
      BY DEF S
    <2> QED BY <1>1, <1>2, <2>1, SetInduction
  <1> QED BY <1>3

\* A function defined by recursion over 0 .. K.
Recursive(T) ==
  \A h \in T, K \in Nat : \A F \in [(1 .. K) \X T -> T] :
    \E w \in [0 .. K -> T] : w[0] = h /\ \A n \in 1 .. K : w[n] = F[<<n, w[n - 1]>>]

LEMMA Recursion ==
  ASSUME NEW T
  PROVE  Recursive(T)
  <1> SUFFICES ASSUME NEW h \in T, NEW K \in Nat, NEW F \in [(1 .. K) \X T -> T]
               PROVE  \E w \in [0 .. K -> T] :
                        w[0] = h /\ \A n \in 1 .. K : w[n] = F[<<n, w[n - 1]>>]
    BY DEF Recursive
  <1> DEFINE Good(k) == \E w \in [0 .. k -> T] :
                          w[0] = h /\ \A n \in 1 .. k : w[n] = F[<<n, w[n - 1]>>]
             S == {k \in Nat : k <= K => Good(k)}
  <1>1. 0 \in S
    <2> DEFINE w == [n \in 0 .. 0 |-> h]
    <2>1. w \in [0 .. 0 -> T] /\ w[0] = h /\ \A n \in 1 .. 0 : w[n] = F[<<n, w[n - 1]>>]
      OBVIOUS
    <2> HIDE DEF w
    <2> QED BY <2>1
  <1>2. ASSUME NEW k \in S PROVE k + 1 \in S
    <2> SUFFICES ASSUME k + 1 <= K PROVE Good(k + 1)
      OBVIOUS
    <2>1. k \in Nat /\ k <= K
      OBVIOUS
    <2>2. PICK w \in [0 .. k -> T] : w[0] = h /\ \A n \in 1 .. k : w[n] = F[<<n, w[n - 1]>>]
      BY <2>1
    <2> DEFINE v == [n \in 0 .. k + 1 |-> IF n = k + 1 THEN F[<<k + 1, w[k]>>] ELSE w[n]]
    <2>3. F[<<k + 1, w[k]>>] \in T
      <3>1. w[k] \in T /\ k + 1 \in 1 .. K
        BY <2>1
      <3> QED BY <3>1
    <2>4. v \in [0 .. k + 1 -> T] /\ v[0] = h
      BY <2>1, <2>2, <2>3
    <2>5. ASSUME NEW n \in 1 .. k + 1 PROVE v[n] = F[<<n, v[n - 1]>>]
      <3>1. CASE n = k + 1
        <4>1. v[n] = F[<<k + 1, w[k]>>] /\ v[k] = w[k] /\ n - 1 = k
          BY <3>1, <2>1
        <4> HIDE DEF v
        <4> QED BY <4>1, <3>1
      <3>2. CASE n \in 1 .. k
        <4>1. v[n] = w[n] /\ v[n - 1] = w[n - 1]
          BY <3>2, <2>1
        <4>2. w[n] = F[<<n, w[n - 1]>>]
          BY <3>2, <2>2
        <4> HIDE DEF v
        <4> QED BY <4>1, <4>2
      <3> QED BY <3>1, <3>2, <2>1
    <2> HIDE DEF v
    <2> QED BY <2>4, <2>5
  <1>3. S = Nat
    <2> HIDE DEF S
    <2>1. S \in SUBSET Nat
      BY DEF S
    <2> QED BY <1>1, <1>2, <2>1, SetInduction
  <1>4. Good(K)
    <2>1. K <= K
      OBVIOUS
    <2>2. K \in S
      <3> HIDE DEF S
      <3> QED BY <1>3
    <2> HIDE DEF Good
    <2> QED BY <2>1, <2>2
  <1> QED BY <1>4

\* The values of a function iterated any number of times form a sequence
\* without an end.
Endless(T) ==
  \A f \in [T -> T] : \A h \in T :
    \E w \in [Nat -> T] : \A n \in Nat : w[n] = IF n = 0 THEN h ELSE f[w[n - 1]]

LEMMA EndlessIteration ==
  ASSUME NEW T
  PROVE  Endless(T)
<1> SUFFICES ASSUME NEW f \in [T -> T], NEW h \in T
             PROVE  \E w \in [Nat -> T] : \A n \in Nat : w[n] = IF n = 0 THEN h ELSE f[w[n - 1]]
  BY DEF Endless
<1> DEFINE Good(K, w) == /\ w \in [0 .. K -> T]
                         /\ \A n \in 0 .. K : w[n] = IF n = 0 THEN h ELSE f[w[n - 1]]
           W == [K \in Nat |-> CHOOSE w : Good(K, w)]
<1>1. ASSUME NEW K \in Nat PROVE Good(K, W[K])
  <2>1. \E w : Good(K, w)
    <3>1. Iterates(T)
      BY Iteration
    <3>2. PICK w \in [0 .. K -> T] : \A n \in 0 .. K : w[n] = IF n = 0 THEN h ELSE f[w[n - 1]]
      BY <3>1, ZenonT(30) DEF Iterates
    <3>3. Good(K, w)
      BY <3>2, Zenon
    <3> HIDE DEF Good
    <3> QED BY <3>3
  <2> HIDE DEF Good
  <2> QED BY <2>1
<1> HIDE DEF W
<1>2. \A i \in Nat : \A K, L \in Nat : i <= K /\ i <= L => W[K][i] = W[L][i]
  <2> DEFINE S == {i \in Nat : \A K, L \in Nat : i <= K /\ i <= L => W[K][i] = W[L][i]}
  <2>1. 0 \in S
    <3> SUFFICES ASSUME NEW K \in Nat, NEW L \in Nat PROVE W[K][0] = W[L][0]
      OBVIOUS
    <3>1. 0 \in 0 .. K /\ 0 \in 0 .. L
      OBVIOUS
    <3> QED BY <1>1, <3>1
  <2>2. ASSUME NEW i \in S PROVE i + 1 \in S
    <3> SUFFICES ASSUME NEW K \in Nat, NEW L \in Nat, i + 1 <= K, i + 1 <= L
                 PROVE  W[K][i + 1] = W[L][i + 1]
      OBVIOUS
    <3>1. i \in Nat /\ i + 1 # 0 /\ (i + 1) - 1 = i /\ i <= K /\ i <= L /\ i + 1 \in 0 .. K /\ i + 1 \in 0 .. L
      OBVIOUS
    <3>2. W[K][i] = W[L][i]
      BY <3>1
    <3>3. W[K][i + 1] = f[W[K][i]]
      BY <1>1, <3>1
    <3>4. W[L][i + 1] = f[W[L][i]]
      BY <1>1, <3>1
    <3> QED BY <3>2, <3>3, <3>4
  <2>3. S = Nat
    <3> HIDE DEF S
    <3>1. S \in SUBSET Nat
      BY DEF S
    <3> QED BY <2>1, <2>2, <3>1, SetInduction
  <2> QED BY <2>3
<1> DEFINE v == [n \in Nat |-> W[n][n]]
<1>3. v \in [Nat -> T]
  <2> SUFFICES ASSUME NEW n \in Nat PROVE W[n][n] \in T
    OBVIOUS
  <2>1. n \in 0 .. n
    OBVIOUS
  <2> QED BY <1>1, <2>1
<1>4. ASSUME NEW n \in Nat PROVE v[n] = IF n = 0 THEN h ELSE f[v[n - 1]]
  <2>1. n \in 0 .. n
    OBVIOUS
  <2>2. v[n] = IF n = 0 THEN h ELSE f[W[n][n - 1]]
    BY <1>1, <2>1
  <2>3. ASSUME n # 0 PROVE W[n][n - 1] = v[n - 1]
    <3>1. n - 1 \in Nat /\ n - 1 <= n /\ n - 1 <= n - 1
      BY <2>3
    <3>2. v[n - 1] = W[n - 1][n - 1]
      BY <3>1
    <3> QED BY <3>1, <3>2, <1>2
  <2> QED BY <2>2, <2>3
<1> HIDE DEF v
<1> QED BY <1>3, <1>4
=============================================================================
