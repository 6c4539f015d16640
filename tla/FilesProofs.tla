---------------------------- MODULE FilesProofs -----------------------------
(***************************************************************************)
(* The blocks of Files implement the contents of FileContents, for every   *)
(* number of files, descriptors and bytes, every size of a page and every  *)
(* set of buffers.                                                         *)
(***************************************************************************)
EXTENDS Files, Induction, SequenceTheorems

-----------------------------------------------------------------------------
(* The capacity of a level, and the level of a size *)

LEMMA LevelType ==
  /\ Level \in SUBSET Nat /\ 0 \in Level
  /\ \A k \in Level : k - 1 \in Int /\ (k # 0 => k - 1 \in Level /\ (k - 1) + 1 = k)
  BY SizeAssumption DEF Level

LEMMA PagesGrow ==
  \A k \in Level : PagesOf[k] >= k + 1 /\ (k + 1 \in Level => PagesOf[k] < PagesOf[k + 1])
  <1> DEFINE S == {k \in Nat : k \in Level => PagesOf[k] >= k + 1}
  <1>1. 0 \in S
    BY PagesOfAssumption
  <1>2. ASSUME NEW k \in S PROVE k + 1 \in S
    <2>1. CASE k + 1 \in Level
      <3>1. k \in Level /\ k \in 0 .. MaxSize - 1 /\ k \in Nat
        BY <2>1, SizeAssumption DEF Level
      <3>2. PagesOf[k + 1] = 2 * PagesOf[k] /\ PagesOf[k] >= k + 1 /\ PagesOf[k] \in Nat
        BY <3>1, PagesOfAssumption
      <3> QED BY <3>1, <3>2
    <2>2. CASE k + 1 \notin Level
      BY <2>2
    <2> QED BY <2>1, <2>2
  <1>3. S = Nat
    <2> HIDE DEF S
    <2>1. S \in SUBSET Nat
      BY DEF S
    <2> QED BY <1>1, <1>2, <2>1, SetInduction
  <1>4. ASSUME NEW k \in Level, k + 1 \in Level PROVE PagesOf[k] < PagesOf[k + 1]
    <2>1. k \in 0 .. MaxSize - 1 /\ k \in Nat
      BY <1>4, SizeAssumption DEF Level
    <2>2. PagesOf[k + 1] = 2 * PagesOf[k] /\ PagesOf[k] >= k + 1 /\ PagesOf[k] \in Nat
      BY <2>1, <1>3, PagesOfAssumption
    <2> QED BY <2>1, <2>2
  <1>5. Level \in SUBSET Nat
    BY LevelType
  <1> QED BY <1>3, <1>4, <1>5

LEMMA Products ==
  ASSUME NEW a \in Nat, NEW b \in Nat, NEW c \in Nat
  PROVE  /\ a <= b => c * a <= c * b
         /\ a < b /\ c > 0 => c * a < c * b
         /\ c * a \in Nat
  OBVIOUS

LEMMA CapacityType ==
  \A k \in Level : /\ Capacity(k) \in Nat \ {0} /\ HalfCapacity(k) \in Nat
                   /\ HalfCapacity(k) < Capacity(k)
  <1> SUFFICES ASSUME NEW k \in Level
               PROVE  /\ Capacity(k) \in Nat \ {0} /\ HalfCapacity(k) \in Nat
                      /\ HalfCapacity(k) < Capacity(k)
    OBVIOUS
  <1>1. \A j \in Level : PagesOf[j] \in Nat \ {0} /\ Capacity(j) \in Nat \ {0}
    <2> SUFFICES ASSUME NEW j \in Level PROVE PagesOf[j] \in Nat \ {0} /\ Capacity(j) \in Nat \ {0}
      OBVIOUS
    <2>1. PagesOf[j] \in Nat /\ PagesOf[j] > 0 /\ j \in Nat
      BY PagesGrow, PagesOfAssumption, LevelType
    <2>2. PageSize \in Nat /\ PageSize > 0
      BY SizeAssumption
    <2>3. PageSize * 0 < PageSize * PagesOf[j] /\ PageSize * PagesOf[j] \in Nat
      BY <2>1, <2>2, Products
    <2> QED BY <2>1, <2>2, <2>3 DEF Capacity
  <1>2. CASE k = 0
    BY <1>1, <1>2 DEF HalfCapacity
  <1>3. CASE k # 0
    <2>1. PICK j \in Level : j = k - 1 /\ k = j + 1
      BY <1>3, LevelType
    <2>2. PagesOf[j] < PagesOf[k] /\ PagesOf[j] \in Nat /\ PagesOf[k] \in Nat
      BY <2>1, <1>1, PagesGrow
    <2>3. Capacity(j) < Capacity(k)
      BY <2>2, Products, SizeAssumption DEF Capacity
    <2> QED BY <1>1, <1>3, <2>1, <2>3 DEF HalfCapacity
  <1> QED BY <1>2, <1>3

LEMMA CapacityGrows ==
  \A k \in Level : \A j \in 0 .. k : Capacity(j) <= Capacity(k) /\ (j < k => Capacity(j) <= HalfCapacity(k))
  <1> DEFINE S == {k \in Nat : k \in Level => \A j \in 0 .. k : Capacity(j) <= Capacity(k)}
  <1>1. 0 \in S
    <2>1. Capacity(0) \in Nat
      BY CapacityType, LevelType
    <2> QED BY <2>1
  <1>2. ASSUME NEW k \in S PROVE k + 1 \in S
    <2> SUFFICES ASSUME k + 1 \in Level, NEW j \in 0 .. k + 1
                 PROVE  Capacity(j) <= Capacity(k + 1)
      OBVIOUS
    <2>1. k \in Level /\ k \in Nat /\ k + 1 # 0 /\ (k + 1) - 1 = k
      BY SizeAssumption DEF Level
    <2>2. Capacity(k) < Capacity(k + 1)
      BY <2>1, CapacityType DEF HalfCapacity
    <2>3. j \in 0 .. k \/ j = k + 1
      BY <2>1
    <2>4. Capacity(k) \in Nat /\ Capacity(k + 1) \in Nat
      BY <2>1, CapacityType
    <2>5. CASE j \in 0 .. k
      <3>1. j \in Level
        BY <2>5, <2>1, SizeAssumption DEF Level
      <3>2. Capacity(j) \in Nat /\ Capacity(j) <= Capacity(k)
        BY <3>1, CapacityType, <2>5, <2>1
      <3> QED BY <3>2, <2>2, <2>4
    <2> QED BY <2>3, <2>4, <2>5
  <1>3. S = Nat
    <2> HIDE DEF S
    <2>1. S \in SUBSET Nat
      BY DEF S
    <2> QED BY <1>1, <1>2, <2>1, SetInduction
  <1>4. \A k \in Level : \A j \in 0 .. k : Capacity(j) <= Capacity(k)
    BY <1>3, LevelType
  <1>5. ASSUME NEW k \in Level, NEW j \in 0 .. k, j < k PROVE Capacity(j) <= HalfCapacity(k)
    <2>1. k # 0 /\ k \in Nat /\ j \in 0 .. k - 1
      BY <1>5, LevelType
    <2>2. k - 1 \in Level
      BY <2>1, LevelType
    <2> QED BY <2>1, <2>2, <1>4 DEF HalfCapacity
  <1> QED BY <1>4, <1>5

\* div_up
LEMMA PagesHold ==
  ASSUME NEW n \in Nat
  PROVE  /\ (n + PageSize - 1) \div PageSize \in Nat
         /\ \A m \in Nat : (n + PageSize - 1) \div PageSize <= m <=> n <= PageSize * m
  <1> DEFINE q == (n + PageSize - 1) \div PageSize
  <1>1. PICK P \in Nat : P = PageSize /\ P > 0
    BY SizeAssumption
  <1>2. q \in Nat /\ P * q <= n + P - 1 /\ n + P - 1 < P * (q + 1)
    BY <1>1
  <1> HIDE DEF q
  <1>3. ASSUME NEW m \in Nat, q <= m PROVE n <= P * m
    <2>1. P * (q + 1) <= P * (m + 1)
      BY <1>2, <1>3, Products
    <2>2. P * (m + 1) = P * m + P /\ P * m \in Nat /\ P * (q + 1) \in Nat
      BY <1>2
    <2> QED BY <1>2, <2>1, <2>2
  <1>4. ASSUME NEW m \in Nat, n <= P * m PROVE q <= m
    <2> SUFFICES ASSUME ~ (q <= m) PROVE FALSE
      OBVIOUS
    <2>1. m + 1 <= q
      BY <1>2
    <2>2. P * (m + 1) <= P * q
      BY <1>2, <2>1, Products
    <2>3. P * (m + 1) = P * m + P /\ P * m \in Nat /\ P * q \in Nat
      BY <1>2
    <2> QED BY <1>1, <1>2, <1>4, <2>2, <2>3
  <1> QED BY <1>1, <1>2, <1>3, <1>4 DEF q

LEMMA HalvedSteps ==
  ASSUME NEW n \in Nat
  PROVE  /\ Halved(n) \in [Level -> Nat]
         /\ Halved(n)[0] = (n + PageSize - 1) \div PageSize
         /\ \A k \in Level : k # 0 => Halved(n)[k] = (Halved(n)[k - 1] + 1) \div 2
  <1> DEFINE p == (n + PageSize - 1) \div PageSize
  <1>1. p \in Nat
    BY PagesHold
  <1> HIDE DEF p
  <1>2. PICK f \in [Nat -> Nat] : \A x \in Nat : f[x] = (x + 1) \div 2
    <2> DEFINE g == [x \in Nat |-> (x + 1) \div 2]
    <2>1. g \in [Nat -> Nat] /\ \A x \in Nat : g[x] = (x + 1) \div 2
      OBVIOUS
    <2> HIDE DEF g
    <2> QED BY <2>1
  <1>3. PICK w \in [0 .. MaxSize -> Nat] :
          \A k \in 0 .. MaxSize : w[k] = IF k = 0 THEN p ELSE f[w[k - 1]]
    <2>1. Iterates(Nat)
      BY Iteration
    <2>2. \A h \in Nat : \A K \in Nat :
            \E w \in [0 .. K -> Nat] : \A k \in 0 .. K : w[k] = IF k = 0 THEN h ELSE f[w[k - 1]]
      BY <2>1, ZenonT(30) DEF Iterates
    <2> QED BY <2>2, <1>1, SizeAssumption, Zenon
  <1>4. ASSUME NEW k \in Level PROVE w[k] = IF k = 0 THEN p ELSE (w[k - 1] + 1) \div 2
    <2>1. k # 0 => w[k - 1] \in Nat
      BY LevelType DEF Level
    <2> QED BY <1>2, <1>3, <2>1 DEF Level
  <1>5. w = [k \in Level |-> IF k = 0 THEN p ELSE (w[k - 1] + 1) \div 2]
    BY <1>3, <1>4 DEF Level
  <1>6. \E v : v = [k \in Level |-> IF k = 0 THEN (n + PageSize - 1) \div PageSize
                                   ELSE (v[k - 1] + 1) \div 2]
    BY <1>5 DEF p
  <1>7. Halved(n) = [k \in Level |-> IF k = 0 THEN (n + PageSize - 1) \div PageSize
                                    ELSE (Halved(n)[k - 1] + 1) \div 2]
    BY <1>6, Zenon DEF Halved
  <1>8. /\ Halved(n) = [k \in Level |-> Halved(n)[k]]
        /\ \A k \in Level : Halved(n)[k] = IF k = 0 THEN (n + PageSize - 1) \div PageSize
                                          ELSE (Halved(n)[k - 1] + 1) \div 2
    BY <1>7, Zenon
  <1>9. PICK v : v = Halved(n)
    OBVIOUS
  <1>10. /\ v[0] = p
         /\ \A k \in Level : k # 0 => v[k] = (v[k - 1] + 1) \div 2
    BY <1>8, <1>9, LevelType DEF p
  <1>11. \A k \in Level : v[k] \in Nat
    <2> DEFINE S == {k \in Nat : k \in Level => v[k] \in Nat}
    <2>1. 0 \in S
      BY <1>1, <1>10
    <2>2. ASSUME NEW k \in S PROVE k + 1 \in S
      <3>1. k + 1 \in Level => k \in Level /\ k + 1 # 0 /\ (k + 1) - 1 = k
        BY SizeAssumption DEF Level
      <3>2. k + 1 \in Level => v[k + 1] = (v[k] + 1) \div 2 /\ v[k] \in Nat
        BY <3>1, <1>10
      <3>3. k + 1 \in Level => v[k + 1] \in Nat
        <4>1. \A x \in Nat : (x + 1) \div 2 \in Nat
          OBVIOUS
        <4> QED BY <3>2, <4>1
      <3> QED BY <3>3
    <2>3. S = Nat
      <3> HIDE DEF S
      <3>1. S \in SUBSET Nat
        BY DEF S
      <3> QED BY <2>1, <2>2, <3>1, SetInduction
    <2>4. \A k \in Nat : k \in Level => v[k] \in Nat
      BY <2>3
    <2> QED BY <2>4, LevelType
  <1>12. v = [k \in Level |-> v[k]]
    BY <1>8, <1>9
  <1>13. v \in [Level -> Nat]
    BY <1>11, <1>12
  <1> QED BY <1>9, <1>10, <1>13 DEF p

\* Halving k times leaves at most m exactly when m blocks of level k will do.
LEMMA HalvedHolds ==
  ASSUME NEW n \in Nat
  PROVE  \A k \in Level : \A m \in Nat : Halved(n)[k] <= m <=> n <= PageSize * (PagesOf[k] * m)
  <1> PICK v : v = Halved(n)
    OBVIOUS
  <1>1. /\ \A k \in Level : v[k] \in Nat
        /\ v[0] = (n + PageSize - 1) \div PageSize
        /\ \A k \in Level : k # 0 => v[k] = (v[k - 1] + 1) \div 2
    BY HalvedSteps
  <1> DEFINE S == {k \in Nat : k \in Level =>
                     \A m \in Nat : v[k] <= m <=> n <= PageSize * (PagesOf[k] * m)}
  <1>2. 0 \in S
    <2>1. \A m \in Nat : PagesOf[0] * m = m
      BY PagesOfAssumption
    <2> QED BY <2>1, <1>1, PagesHold
  <1>3. ASSUME NEW k \in S PROVE k + 1 \in S
    <2> SUFFICES ASSUME k + 1 \in Level, NEW m \in Nat
                 PROVE  v[k + 1] <= m <=> n <= PageSize * (PagesOf[k + 1] * m)
      OBVIOUS
    <2>1. k \in Level /\ k \in 0 .. MaxSize - 1 /\ k \in Nat /\ (k + 1) - 1 = k /\ k + 1 # 0
      BY SizeAssumption DEF Level
    <2>2. v[k + 1] = (v[k] + 1) \div 2 /\ v[k] \in Nat
      BY <2>1, <1>1
    <2>3. v[k + 1] <= m <=> v[k] <= 2 * m
      BY <2>2
    <2>4. 2 * m \in Nat /\ (v[k] <= 2 * m <=> n <= PageSize * (PagesOf[k] * (2 * m)))
      BY <2>1
    <2>5. PagesOf[k] * (2 * m) = PagesOf[k + 1] * m
      <3>1. PICK P \in Nat : P = PagesOf[k]
        BY <2>1, PagesOfAssumption
      <3>2. P * (2 * m) = (2 * P) * m
        OBVIOUS
      <3> QED BY <2>1, <3>1, <3>2, PagesOfAssumption
    <2> QED BY <2>3, <2>4, <2>5
  <1>4. S = Nat
    <2> HIDE DEF S
    <2>1. S \in SUBSET Nat
      BY DEF S
    <2> QED BY <1>2, <1>3, <2>1, SetInduction
  <1> QED BY <1>4, LevelType

\* get_size_level finds the smallest block that holds n bytes.
LEMMA SizeLevel ==
  ASSUME NEW n \in 0 .. MaxSize
  PROVE  /\ get_size_level(n) \in Level
         /\ n <= Capacity(get_size_level(n))
         /\ \A k \in Level : n <= Capacity(k) => get_size_level(n) <= k
  <1> PICK v : v = Halved(n)
    OBVIOUS
  <1> DEFINE Right(k) == v[k] <= 1 /\ \A j \in 0 .. k - 1 : v[j] > 1
             S == {k \in Level : v[k] <= 1}
  <1>1. n \in Nat /\ \A k \in Level : v[k] \in Nat
    BY HalvedSteps, SizeAssumption
  <1>2. \A k \in Level : v[k] <= 1 <=> n <= Capacity(k)
    <2>1. \A k \in Level : PagesOf[k] * 1 = PagesOf[k]
      BY PagesOfAssumption
    <2> QED BY <1>1, <2>1, HalvedHolds DEF Capacity
  <1>3. MaxSize \in S
    <2>1. MaxSize \in Level /\ MaxSize \in Nat
      BY SizeAssumption DEF Level
    <2>2. PagesOf[MaxSize] \in Nat /\ n <= PagesOf[MaxSize]
      BY <2>1, PagesGrow, PagesOfAssumption, <1>1
    <2>3. PageSize * n <= PageSize * PagesOf[MaxSize] /\ PageSize * n \in Nat /\ n <= PageSize * n
      <3>1. 1 <= PageSize /\ PageSize \in Nat
        BY SizeAssumption
      <3>2. n * 1 <= n * PageSize
        BY <3>1, <1>1, Products
      <3> QED BY <3>1, <3>2, <2>2, <1>1, Products
    <2>4. n <= Capacity(MaxSize)
      BY <2>1, <2>2, <2>3, <1>1, CapacityType DEF Capacity
    <2> QED BY <2>1, <2>4, <1>2
  <1>4. PICK k \in S : \A m \in S : k <= m
    <2>1. S \in SUBSET Nat
      BY LevelType
    <2> HIDE DEF S
    <2> QED BY <2>1, <1>3, Least
  <1>5. \A j \in Level : 0 .. j - 1 \subseteq Level
    BY SizeAssumption DEF Level
  <1>6. k \in Level /\ Right(k)
    <2> SUFFICES ASSUME NEW j \in 0 .. k - 1 PROVE v[j] > 1
      OBVIOUS
    <2>1. j \in Level /\ ~ (k <= j) /\ v[j] \in Nat
      BY <1>1, <1>5, LevelType
    <2> QED BY <2>1, <1>4
  <1>7. get_size_level(n) = CHOOSE i \in Level : Right(i)
    BY DEF get_size_level
  <1>8. get_size_level(n) \in Level /\ Right(get_size_level(n))
    <2> HIDE DEF Right
    <2> QED BY <1>6, <1>7
  <1>9. PICK l \in Level : l = get_size_level(n) /\ Right(l)
    BY <1>8
  <1>10. ASSUME NEW j \in Level, n <= Capacity(j) PROVE l <= j
    <2>1. v[j] <= 1 /\ v[j] \in Nat /\ j \in Nat /\ l \in Nat
      BY <1>10, <1>2, <1>1, LevelType
    <2> QED BY <2>1, <1>9
  <1> QED BY <1>9, <1>10, <1>2

\* And the block half that size does not.
LEMMA LevelOf ==
  ASSUME NEW n \in 0 .. MaxSize
  PROVE  /\ n = 0 => get_size_level(n) = 0
         /\ n # 0 => n > HalfCapacity(get_size_level(n))
         /\ \A k \in Level : n > HalfCapacity(k) /\ n <= Capacity(k) => k = get_size_level(n)
  <1>1. PICK l \in Level : l = get_size_level(n)
    BY SizeLevel
  <1>2. n <= Capacity(l) /\ \A k \in Level : n <= Capacity(k) => l <= k
    BY <1>1, SizeLevel
  <1>3. n \in Nat /\ l \in Nat
    BY SizeAssumption, LevelType
  <1>4. CASE n = 0
    <2>1. Capacity(0) \in Nat /\ 0 \in Level
      BY CapacityType, LevelType
    <2>2. l <= 0
      BY <2>1, <1>2, <1>4
    <2>3. ASSUME NEW k \in Level PROVE ~ (n > HalfCapacity(k))
      BY <1>4, CapacityType
    <2> QED BY <1>1, <1>3, <1>4, <2>2, <2>3
  <1>5. CASE n # 0
    <2>1. n > HalfCapacity(l)
      <3>1. CASE l = 0
        BY <1>3, <1>5, <3>1 DEF HalfCapacity
      <3>2. CASE l # 0
        <4>1. l - 1 \in Level /\ ~ (l <= l - 1)
          BY <1>3, <3>2, LevelType
        <4>2. ~ (n <= Capacity(l - 1)) /\ Capacity(l - 1) \in Nat
          BY <4>1, <1>2, CapacityType
        <4> QED BY <4>2, <1>3, <3>2 DEF HalfCapacity
      <3> QED BY <3>1, <3>2
    <2>2. ASSUME NEW k \in Level, n > HalfCapacity(k), n <= Capacity(k) PROVE k = l
      <3>1. l <= k /\ k \in Nat
        BY <2>2, <1>2, LevelType
      <3>2. CASE l < k
        <4>1. l \in 0 .. k
          BY <3>1, <1>3
        <4>2. Capacity(l) <= HalfCapacity(k)
          BY <4>1, <3>2, CapacityGrows
        <4>3. Capacity(l) \in Nat /\ HalfCapacity(k) \in Nat
          BY CapacityType
        <4> QED BY <4>2, <4>3, <2>2, <1>2, <1>3
      <3> QED BY <3>1, <3>2, <1>3
    <2> QED BY <1>1, <1>5, <2>1, <2>2
  <1> QED BY <1>4, <1>5

-----------------------------------------------------------------------------
(* The fields of a file between two calls *)

Memory == Byte \cup {Garbage}

FieldsType == [size : 0 .. MaxSize, level : Level, data : Seq(Memory)]

\* The block is the smallest one that holds the file, and no byte of the
\* file is garbage.
Block(s) ==
  /\ s \in FieldsType
  /\ Len(s.data) = Capacity(s.level)
  /\ s.size <= Capacity(s.level)
  /\ s.level = get_size_level(s.size)
  /\ \A i \in 1 .. s.size : s.data[i] \in Byte

\* What resize_file makes of s when it resizes it to n
Resized(s, n, r) ==
  /\ r \in FieldsType
  /\ r.size = n
  /\ r.level = get_size_level(n)
  /\ Len(r.data) = Capacity(r.level)
  /\ \A i \in 1 .. Smaller(n, s.size) : r.data[i] = s.data[i]

LEMMA BlockType ==
  ASSUME NEW s, s \in FieldsType
  PROVE  /\ s.size \in 0 .. MaxSize /\ s.size \in Nat /\ s.level \in Level
         /\ s.data \in Seq(Memory) /\ Len(s.data) \in Nat
         /\ \A i \in 1 .. Len(s.data) : s.data[i] \in Memory
         /\ \A n : n \in 0 .. MaxSize =>
              /\ [s EXCEPT !.size = n] \in FieldsType
              /\ [s EXCEPT !.size = n].size = n
              /\ [s EXCEPT !.size = n].level = s.level
              /\ [s EXCEPT !.size = n].data = s.data
  <1>1. /\ s.size \in 0 .. MaxSize /\ s.level \in Level /\ s.data \in Seq(Memory)
        /\ \A n : n \in 0 .. MaxSize =>
             /\ [s EXCEPT !.size = n] \in FieldsType
             /\ [s EXCEPT !.size = n].size = n
             /\ [s EXCEPT !.size = n].level = s.level
             /\ [s EXCEPT !.size = n].data = s.data
    BY DEF FieldsType
  <1>2. Len(s.data) \in Nat /\ \A i \in 1 .. Len(s.data) : s.data[i] \in Memory
    BY <1>1, LenProperties, ElementOfSeq
  <1> QED BY <1>1, <1>2, SizeAssumption

\* resize_file takes no block but the smallest one, also when it takes none.
LEMMA ResizeOutcome ==
  ASSUME NEW s, Block(s), NEW n \in 0 .. MaxSize, NEW memory \in BOOLEAN,
         NEW r \in resize_file(s, n, memory)
  PROVE  Resized(s, n, r)
  <1>1. s \in FieldsType
    BY DEF Block
  <1>2. CASE InPlace(s, n)
    <2>1. r = [s EXCEPT !.size = n]
      BY <1>2 DEF resize_file
    <2>2. r \in FieldsType /\ r.size = n /\ r.level = s.level /\ r.data = s.data
      BY <1>1, <2>1, BlockType
    <2>3. s.level = get_size_level(n)
      BY <1>1, <1>2, LevelOf, BlockType DEF InPlace
    <2> QED BY <2>2, <2>3 DEF Resized, Block
  <1>3. CASE ~ InPlace(s, n)
    <2>1. r = Moved(s, n)
      BY <1>3 DEF resize_file
    <2>2. PICK l \in Level : l = get_size_level(n)
      BY SizeLevel
    <2>3. PICK K \in Nat : K = Capacity(l) /\ n <= K
      BY <2>2, SizeLevel, CapacityType
    <2> DEFINE byte(i) == IF i <= Smaller(n, s.size) THEN s.data[i] ELSE Garbage
               block == [i \in 1 .. K |-> byte(i)]
    <2>4. r = [size |-> n, level |-> l, data |-> block]
      BY <2>1, <2>2, <2>3 DEF Moved
    <2>5. ASSUME NEW i \in 1 .. K PROVE byte(i) \in Memory
      <3>1. Smaller(n, s.size) <= Capacity(s.level) /\ s.size \in Nat /\ Capacity(s.level) \in Nat
        BY <1>1, BlockType, CapacityType, SizeAssumption DEF Block, Smaller
      <3>2. Smaller(n, s.size) \in Nat
        BY <1>1, BlockType DEF Smaller
      <3>3. i <= Smaller(n, s.size) => i \in 1 .. Len(s.data)
        BY <3>1, <3>2, <2>3 DEF Block
      <3> QED BY <3>3, <1>1, BlockType DEF Memory
    <2> HIDE DEF byte
    <2>6. block \in Seq(Memory)
      BY <2>5, <2>3, SeqDef
    <2>7. Len(block) = K /\ \A i \in 1 .. K : block[i] = byte(i)
      BY <2>3, <2>6, LenProperties
    <2>8. \A i \in 1 .. Smaller(n, s.size) : i \in 1 .. K /\ byte(i) = s.data[i]
      <3>1. Smaller(n, s.size) \in Nat /\ Smaller(n, s.size) <= n /\ n \in Nat
        BY <1>1, BlockType, SizeAssumption DEF Smaller
      <3> QED BY <3>1, <2>3 DEF byte
    <2> HIDE DEF block
    <2>9. r.size = n /\ r.level = l /\ r.data = block /\ r \in FieldsType
      BY <2>4, <2>6, <2>2 DEF FieldsType
    <2> QED BY <2>2, <2>3, <2>7, <2>8, <2>9 DEF Resized
  <1> QED BY <1>2, <1>3

-----------------------------------------------------------------------------
(* The loop of write over the levels *)

\* What the loop settles for: a size the file has been given, no smaller
\* than it was when that will do; or, when every request fails, the size the
\* caller wanted, which is then smaller than the file or 0.
SettledRight(s, n, r) ==
  \/ /\ r.size \in 0 .. n
     /\ Resized(s, r.size, r.fields)
     /\ s.size <= n => s.size <= r.size
  \/ /\ r.size = n /\ r.fields = s
     /\ n < s.size \/ (n = 0 /\ s.size = 0)

\* The level of the block the file has is tried when the file does not get
\* smaller, and needs no memory.
LEMMA AtOwnLevel ==
  ASSUME NEW s, Block(s), NEW n \in 0 .. MaxSize, s.size <= n, n # 0
  PROVE  /\ s.level \in 0 .. get_size_level(n)
         /\ InPlace(s, Smaller(n, Capacity(s.level)))
  <1>1. PICK k \in Level : k = s.level
    BY BlockType DEF Block
  <1>2. PICK l \in Level : l = get_size_level(n) /\ n <= Capacity(l)
    BY SizeLevel
  <1>3. PICK z \in 0 .. MaxSize : z = s.size /\ z \in Nat
    BY BlockType DEF Block
  <1>4. k = get_size_level(z) /\ z <= n /\ z <= Capacity(k)
    BY <1>1, <1>3 DEF Block
  <1>5. /\ n \in Nat /\ k \in Nat /\ l \in Nat /\ Capacity(l) \in Nat
        /\ Capacity(k) \in Nat \ {0} /\ HalfCapacity(k) \in Nat /\ HalfCapacity(k) < Capacity(k)
    BY SizeAssumption, LevelType, CapacityType
  <1>6. k <= l
    <2>1. z <= Capacity(l)
      BY <1>2, <1>3, <1>4, <1>5
    <2> QED BY <2>1, <1>4, SizeLevel
  <1>7. n > HalfCapacity(k)
    <2>1. CASE z = 0
      <3>1. k = 0
        BY <2>1, <1>4, LevelOf
      <3>2. HalfCapacity(k) = 0
        BY <3>1 DEF HalfCapacity
      <3> QED BY <3>2, <1>5
    <2>2. CASE z # 0
      <3>1. z > HalfCapacity(k)
        BY <2>2, <1>4, LevelOf
      <3> QED BY <3>1, <1>3, <1>4, <1>5
    <2> QED BY <2>1, <2>2
  <1>8. InPlace(s, Smaller(n, Capacity(k)))
    BY <1>1, <1>5, <1>7 DEF InPlace, Smaller
  <1> QED BY <1>1, <1>2, <1>5, <1>6, <1>8

LEMMA SettledOutcome ==
  ASSUME NEW s, Block(s), NEW n \in 0 .. MaxSize,
         NEW memory \in [0 .. get_size_level(n) -> BOOLEAN]
  PROVE  SettledRight(s, n, Settled(s, n, memory))
  <1> DEFINE tried(k) == Smaller(n, Capacity(k))
             works == {k \in 0 .. get_size_level(n) : resize_file(s, tried(k), memory[k]) # {}}
             best == CHOOSE k \in works : \A j \in works : j <= k
             t == CHOOSE r \in resize_file(s, tried(best), memory[best]) : TRUE
             r == Settled(s, n, memory)
  <1>1. r = IF works = {} THEN [size |-> n, fields |-> s] ELSE [size |-> tried(best), fields |-> t]
    BY DEF Settled
  <1>2. PICK l \in Level : l = get_size_level(n)
    BY SizeLevel
  <1>3. l \in Nat /\ n \in Nat /\ 0 .. l \subseteq Level
    BY SizeAssumption DEF Level
  <1>4. \A k \in Level : tried(k) \in 0 .. MaxSize /\ tried(k) \in 0 .. n
    BY <1>3, CapacityType, SizeAssumption DEF Smaller
  <1>5. s.size \in Nat /\ s.size <= Capacity(s.level) /\ s.level \in Level
    BY BlockType DEF Block
  <1>6. s.size <= n /\ n # 0 => s.level \in works
    <2> SUFFICES ASSUME s.size <= n, n # 0 PROVE s.level \in works
      OBVIOUS
    <2>1. s.level \in 0 .. get_size_level(n) /\ InPlace(s, tried(s.level))
      BY AtOwnLevel
    <2>2. resize_file(s, tried(s.level), memory[s.level]) # {}
      BY <2>1 DEF resize_file
    <2> QED BY <2>1, <2>2
  <1>7. CASE works = {}
    <2>1. r.size = n /\ r.fields = s
      BY <1>1, <1>7
    <2>2. ~ (s.size <= n /\ n # 0)
      BY <1>6, <1>7
    <2>3. n < s.size \/ (n = 0 /\ s.size = 0)
      <3>1. PICK z \in Nat : z = s.size
        BY <1>5
      <3> QED BY <3>1, <2>2, <1>3
    <2> QED BY <2>1, <2>3 DEF SettledRight
  <1>8. CASE works # {}
    <2>1. best \in works /\ \A j \in works : j <= best
      <3>1. \E k \in works : \A j \in works : j <= k
        <4> DEFINE T == {l - k : k \in works}
        <4>1. \A k \in works : k \in 0 .. l
          BY <1>2
        <4>2. T \in SUBSET Nat /\ T # {}
          <5>1. ASSUME NEW k \in works PROVE l - k \in Nat
            <6> HIDE DEF works
            <6> QED BY <4>1, <1>3
          <5> HIDE DEF works
          <5> QED BY <5>1, <1>8
        <4>3. PICK m \in T : \A i \in T : m <= i
          <5> HIDE DEF T
          <5> QED BY <4>2, Least
        <4> HIDE DEF works
        <4>4. PICK k \in works : m = l - k
          BY <4>3
        <4>5. ASSUME NEW j \in works PROVE j <= k
          <5>1. l - k <= l - j
            BY <4>3, <4>4
          <5> QED BY <5>1, <4>1, <1>3
        <4> QED BY <4>5
      <3> HIDE DEF works
      <3> QED BY <3>1
    <2>2. best \in Level /\ memory[best] \in BOOLEAN /\ best \in 0 .. get_size_level(n)
      <3> HIDE DEF best
      <3> QED BY <2>1, <1>2, <1>3
    <2>3. t \in resize_file(s, tried(best), memory[best])
      <3>1. resize_file(s, tried(best), memory[best]) # {}
        <4> HIDE DEF best
        <4> QED BY <2>1
      <3> HIDE DEF tried, best
      <3> QED BY <3>1
    <2> HIDE DEF t
    <2>4. r.size = tried(best) /\ r.fields = t
      <3> HIDE DEF works, best, tried, r
      <3> QED BY <1>1, <1>8
    <2> HIDE DEF best
    <2>5. Resized(s, tried(best), t) /\ tried(best) \in 0 .. n
      BY <2>2, <2>3, <1>4, ResizeOutcome
    <2>6. s.size <= n => s.size <= tried(best)
      <3> SUFFICES ASSUME s.size <= n PROVE s.size <= tried(best)
        OBVIOUS
      <3>1. CASE n = 0
        BY <3>1, <1>3, <1>5, <2>2, CapacityType DEF Smaller
      <3>2. CASE n # 0
        <4>1. s.level <= best
          BY <1>6, <2>1, <3>2
        <4>2. s.level \in 0 .. best
          <5>1. PICK j \in Level : j = s.level
            BY <1>5
          <5>2. j \in Nat /\ best \in Nat /\ j <= best
            BY <4>1, <5>1, <2>2, LevelType
          <5> QED BY <5>1, <5>2
        <4>3. Capacity(s.level) <= Capacity(best)
          BY <4>2, <2>2, CapacityGrows
        <4>4. Capacity(s.level) \in Nat /\ Capacity(best) \in Nat
          BY <1>5, <2>2, CapacityType
        <4> QED BY <4>3, <4>4, <1>3, <1>5 DEF Smaller
      <3> QED BY <3>1, <3>2
    <2> HIDE DEF tried
    <2>7. SettledRight(s, n, r)
      <3> HIDE DEF r
      <3> QED BY <2>4, <2>5, <2>6 DEF SettledRight
    <2> QED BY <2>7
  <1> QED BY <1>7, <1>8

-----------------------------------------------------------------------------
(* Writing to a block *)

Part(first, buffer) == first .. first + Len(buffer) - 1

LEMMA WrittenOutcome ==
  ASSUME NEW s, s \in FieldsType, NEW buffer \in Seq(Byte), NEW first \in Nat \ {0},
         first + Len(buffer) - 1 <= Len(s.data)
  PROVE  /\ Written(s, first, buffer) \in FieldsType
         /\ Written(s, first, buffer).size = s.size
         /\ Written(s, first, buffer).level = s.level
         /\ Len(Written(s, first, buffer).data) = Len(s.data)
         /\ \A i \in 1 .. Len(s.data) :
              Written(s, first, buffer).data[i] =
                IF i \in Part(first, buffer) THEN buffer[i - first + 1] ELSE s.data[i]
  <1>1. PICK K \in Nat : K = Len(s.data)
    BY BlockType
  <1>2. PICK B \in Nat : B = Len(buffer)
    BY LenProperties
  <1> DEFINE byte(i) == IF i \in Part(first, buffer) THEN buffer[i - first + 1] ELSE s.data[i]
             block == [i \in 1 .. K |-> byte(i)]
  <1>3. Larger(K, first + B - 1) = K
    BY <1>1, <1>2 DEF Larger
  <1>4. Written(s, first, buffer) = [s EXCEPT !.data = block]
    BY <1>1, <1>2, <1>3 DEF Written, Part
  <1>5. ASSUME NEW i \in 1 .. K PROVE byte(i) \in Memory
    <2>1. i \in Part(first, buffer) => i - first + 1 \in 1 .. B
      BY <1>2 DEF Part
    <2>2. \A j \in 1 .. B : buffer[j] \in Byte
      BY <1>2, ElementOfSeq
    <2>3. s.data[i] \in Memory
      BY <1>1, BlockType
    <2> QED BY <2>1, <2>2, <2>3 DEF Memory
  <1> HIDE DEF byte
  <1>6. block \in Seq(Memory)
    BY <1>5, SeqDef
  <1>7. Len(block) = K /\ \A i \in 1 .. K : block[i] = byte(i)
    BY <1>6, LenProperties
  <1> HIDE DEF block
  <1>8. /\ [s EXCEPT !.data = block] \in FieldsType
        /\ [s EXCEPT !.data = block].size = s.size
        /\ [s EXCEPT !.data = block].level = s.level
        /\ [s EXCEPT !.data = block].data = block
    BY <1>6 DEF FieldsType
  <1> QED BY <1>1, <1>4, <1>7, <1>8 DEF byte

\* The bytes of a file
Content(s) == SubSeq(s.data, 1, s.size)

LEMMA ContentType ==
  ASSUME NEW s, Block(s)
  PROVE  /\ Content(s) \in Seq(Byte)
         /\ Len(Content(s)) = s.size
         /\ \A i \in 1 .. s.size : Content(s)[i] = s.data[i]
  <1>1. PICK z \in Nat : z = s.size
    BY BlockType DEF Block
  <1>2. \A i \in 1 .. z : s.data[i] \in Byte
    BY <1>1 DEF Block
  <1>3. /\ SubSeq(s.data, 1, z) \in Seq(Byte)
        /\ Len(SubSeq(s.data, 1, z)) = IF 1 <= z THEN z - 1 + 1 ELSE 0
        /\ \A i \in 1 .. z - 1 + 1 : SubSeq(s.data, 1, z)[i] = s.data[1 + i - 1]
    BY <1>2, SubSeqProperties
  <1>4. z - 1 + 1 = z /\ \A i \in 1 .. z : 1 + i - 1 = i
    OBVIOUS
  <1>5. Len(SubSeq(s.data, 1, z)) = z /\ \A i \in 1 .. z : SubSeq(s.data, 1, z)[i] = s.data[i]
    BY <1>3, <1>4
  <1> QED BY <1>1, <1>3, <1>5 DEF Content

LEMMA Prefix ==
  ASSUME NEW buffer \in Seq(Byte), NEW n \in 0 .. Len(buffer)
  PROVE  /\ SubSeq(buffer, 1, n) \in Seq(Byte)
         /\ Len(SubSeq(buffer, 1, n)) = n
         /\ \A i \in 1 .. n : SubSeq(buffer, 1, n)[i] = buffer[i]
  <1>1. n \in Nat /\ 1 .. n \subseteq 1 .. Len(buffer)
    BY LenProperties
  <1>2. \A i \in 1 .. n : buffer[i] \in Byte
    BY <1>1, ElementOfSeq
  <1>3. /\ SubSeq(buffer, 1, n) \in Seq(Byte)
        /\ Len(SubSeq(buffer, 1, n)) = IF 1 <= n THEN n - 1 + 1 ELSE 0
        /\ \A i \in 1 .. n - 1 + 1 : SubSeq(buffer, 1, n)[i] = buffer[1 + i - 1]
    BY <1>1, <1>2, SubSeqProperties
  <1>4. n - 1 + 1 = n /\ \A i \in 1 .. n : 1 + i - 1 = i
    BY <1>1
  <1> QED BY <1>1, <1>3, <1>4

\* The size an append asks for
Longer(s, buffer, n) == n = s.size + Len(buffer)

\* An append that gets no memory is short, and keeps what the file had.
LEMMA Appended ==
  ASSUME NEW s, Block(s), NEW buffer \in Seq(Byte),
         NEW n \in 0 .. MaxSize, Longer(s, buffer, n), NEW r, SettledRight(s, n, r)
  PROVE  LET part == SubSeq(buffer, 1, r.size - s.size)
             t == Written(r.fields, s.size + 1, part)
         IN /\ Block(t) /\ part \in Seq(Byte)
            /\ part \in Contents!Prefixes(buffer)
            /\ Content(t) = Content(s) \o part
  <1> DEFINE part == SubSeq(buffer, 1, r.size - s.size)
             t == Written(r.fields, s.size + 1, part)
  <1>1. PICK z \in 0 .. MaxSize : z = s.size /\ z \in Nat
    BY BlockType DEF Block
  <1>2. PICK B \in Nat : B = Len(buffer)
    BY LenProperties
  <1>3. PICK m \in Nat : /\ m = r.size /\ z <= m /\ m <= n
    BY <1>1, <1>2 DEF SettledRight, Longer
  <1>z. z \in Nat /\ z <= m /\ m <= z + B /\ z + B <= MaxSize /\ MaxSize \in Nat
    <2>1. n = z + B
      BY <1>1, <1>2 DEF Longer
    <2> QED BY <2>1, <1>1, <1>3, SizeAssumption
  <1>4. m - z \in 0 .. B /\ m \in 0 .. MaxSize
    BY <1>z
  <1>5. part = SubSeq(buffer, 1, m - z) /\ t = Written(r.fields, z + 1, part)
    BY <1>1, <1>3
  <1>6. /\ part \in Seq(Byte) /\ Len(part) = m - z
        /\ \A i \in 1 .. m - z : part[i] = buffer[i]
    BY <1>2, <1>4, <1>5, Prefix
  <1>7. part \in Contents!Prefixes(buffer)
    BY <1>2, <1>4, <1>5 DEF Contents!Prefixes
  <1>f. PICK f : f = r.fields
    OBVIOUS
  <1>8. /\ f \in FieldsType /\ f.size = m /\ f.level = get_size_level(m)
        /\ Len(f.data) = Capacity(f.level)
        /\ \A i \in 1 .. z : f.data[i] = s.data[i]
    <2>1. CASE Resized(s, r.size, r.fields)
      <3>1. Smaller(m, z) = z
        BY <1>1, <1>3 DEF Smaller
      <3> QED BY <2>1, <3>1, <1>1, <1>3, <1>f DEF Resized
    <2>2. CASE r.fields = s /\ r.size = n /\ (n < s.size \/ (n = 0 /\ s.size = 0))
      <3>1. m = n /\ n = 0 /\ z = 0
        BY <2>2, <1>1, <1>3
      <3> QED BY <2>2, <3>1, <1>1, <1>f DEF Block
    <2> QED BY <2>1, <2>2 DEF SettledRight
  <1>9. m <= Len(f.data)
    BY <1>4, <1>8, SizeLevel
  <1> HIDE DEF part
  <1>10. PICK u : u = Written(f, z + 1, part)
    OBVIOUS
  <1>11. /\ u \in FieldsType /\ u.size = m /\ u.level = f.level /\ Len(u.data) = Len(f.data)
         /\ \A i \in 1 .. Len(f.data) :
              u.data[i] = IF i \in Part(z + 1, part) THEN part[i - (z + 1) + 1] ELSE f.data[i]
    <2>1. z + 1 \in Nat \ {0} /\ (z + 1) + (m - z) - 1 = m
      BY <1>z
    <2>2. (z + 1) + Len(part) - 1 <= Len(f.data)
      BY <2>1, <1>6, <1>9
    <2>3. /\ Written(f, z + 1, part) \in FieldsType /\ Written(f, z + 1, part).size = f.size
          /\ Written(f, z + 1, part).level = f.level
          /\ Len(Written(f, z + 1, part).data) = Len(f.data)
          /\ \A i \in 1 .. Len(f.data) :
               Written(f, z + 1, part).data[i] =
                 IF i \in Part(z + 1, part) THEN part[i - (z + 1) + 1] ELSE f.data[i]
      <3>1. f \in FieldsType /\ part \in Seq(Byte) /\ z + 1 \in Nat \ {0}
        BY <1>6, <1>8, <2>1
      <3> QED BY <2>2, <3>1, WrittenOutcome, Zenon
    <2>4. f.size = m
      BY <1>8
    <2> QED BY <2>3, <2>4, <1>10, Zenon
  <1>12. ASSUME NEW i \in 1 .. m
         PROVE  u.data[i] = IF i <= z THEN s.data[i] ELSE part[i - z]
    <2>1. PICK L \in Nat : L = Len(f.data) /\ m <= L
      BY <1>8, <1>9, BlockType
    <2>2. i \in 1 .. L /\ (i <= z => i \in 1 .. z) /\ i - (z + 1) + 1 = i - z
      BY <2>1, <1>z
    <2>3. i \in Part(z + 1, part) <=> ~ (i <= z)
      <3>1. Len(part) = m - z
        BY <1>6
      <3>2. i \in z + 1 .. z + 1 + (m - z) - 1 <=> ~ (i <= z)
        BY <1>z
      <3> QED BY <3>1, <3>2 DEF Part
    <2> QED BY <2>1, <2>2, <2>3, <1>8, <1>11
  <1>13. /\ Content(s) \in Seq(Byte) /\ Len(Content(s)) = z
         /\ \A i \in 1 .. z : Content(s)[i] = s.data[i]
    BY <1>1, ContentType
  <1>14. /\ Content(s) \o part \in Seq(Byte)
         /\ Len(Content(s) \o part) = z + (m - z)
         /\ \A i \in 1 .. z + (m - z) :
              (Content(s) \o part)[i] = IF i <= z THEN Content(s)[i] ELSE part[i - z]
    <2>1. PICK p \in Seq(Byte) : p = part /\ Len(p) = m - z
      BY <1>6
    <2>2. PICK c \in Seq(Byte) : c = Content(s) /\ Len(c) = z
      BY <1>13
    <2>3. /\ c \o p \in Seq(Byte)
          /\ Len(c \o p) = z + (m - z)
          /\ \A i \in 1 .. z + (m - z) : (c \o p)[i] = IF i <= z THEN c[i] ELSE p[i - z]
      <3>1. /\ c \o p \in Seq(Byte)
            /\ Len(c \o p) = Len(c) + Len(p)
            /\ \A i \in 1 .. Len(c) + Len(p) :
                 (c \o p)[i] = IF i <= Len(c) THEN c[i] ELSE p[i - Len(c)]
        BY ConcatProperties
      <3> QED BY <3>1, <2>1, <2>2
    <2> QED BY <2>1, <2>2, <2>3
  <1>15. z + (m - z) = m
    BY <1>z
  <1>16. ASSUME NEW i \in 1 .. m
         PROVE  u.data[i] = (Content(s) \o part)[i]
    <2>1. i <= z => i \in 1 .. z
      BY <1>z
    <2> QED BY <2>1, <1>12, <1>13, <1>14, <1>15
  <1>17. \A i \in 1 .. m : u.data[i] \in Byte
    <2>1. \A i \in 1 .. m : (Content(s) \o part)[i] \in Byte
      BY <1>14, <1>15, ElementOfSeq
    <2> QED BY <2>1, <1>16
  <1>18. Block(u)
    <2>1. m <= Capacity(u.level)
      BY <1>8, <1>9, <1>11
    <2> QED BY <2>1, <1>8, <1>11, <1>17 DEF Block
  <1>19. Content(u) = Content(s) \o part
    <2>1. /\ Content(u) \in Seq(Byte) /\ Len(Content(u)) = m
          /\ \A i \in 1 .. m : Content(u)[i] = u.data[i]
      BY <1>18, <1>11, ContentType
    <2> QED BY <2>1, <1>14, <1>15, <1>16, SeqEqual
  <1> QED BY <1>5, <1>6, <1>7, <1>10, <1>18, <1>19, <1>f DEF part

Fits(buffer) == Len(buffer) <= MaxSize

\* The file becomes what was written, all or the part of it that there is
\* memory for; when there is none at all the file was longer, and keeps the
\* rest of what it had.
LEMMA Overwritten ==
  ASSUME NEW s, Block(s), NEW buffer \in Seq(Byte), Fits(buffer),
         NEW r, SettledRight(s, Len(buffer), r)
  PROVE  LET part == SubSeq(buffer, 1, r.size)
             t == Written(r.fields, 1, part)
             old == Content(s)
         IN /\ Block(t) /\ part \in Seq(Byte)
            /\ part \in Contents!Prefixes(buffer)
            /\ \/ Content(t) = part
               \/ /\ Len(part) < Len(old)
                  /\ Content(t) = part \o SubSeq(old, Len(part) + 1, Len(old))
  <1> DEFINE part == SubSeq(buffer, 1, r.size)
             t == Written(r.fields, 1, part)
             old == Content(s)
  <1>1. PICK z \in 0 .. MaxSize : z = s.size /\ z \in Nat
    BY BlockType DEF Block
  <1>2. PICK B \in Nat : B = Len(buffer)
    BY LenProperties
  <1>3. PICK m \in 0 .. B : m = r.size /\ m \in Nat
    BY <1>2 DEF SettledRight
  <1>z. m \in Nat /\ z \in Nat
    BY <1>1, <1>3
  <1>4. part = SubSeq(buffer, 1, m)
    BY <1>3
  <1>5. /\ part \in Seq(Byte) /\ Len(part) = m
        /\ \A i \in 1 .. m : part[i] = buffer[i]
    BY <1>2, <1>3, Prefix
  <1>6. part \in Contents!Prefixes(buffer)
    BY <1>2, <1>4 DEF Contents!Prefixes
  <1>7. m \in 0 .. MaxSize
    BY <1>2, <1>3, SizeAssumption DEF Fits
  <1>f. PICK f : f = r.fields
    OBVIOUS
  <1>8. /\ f \in FieldsType /\ f.size \in 0 .. MaxSize /\ f.level = get_size_level(f.size)
        /\ Len(f.data) = Capacity(f.level) /\ f.size <= Capacity(f.level)
        /\ m <= f.size
        /\ \/ f.size = m
           \/ f = s /\ m < z
    <2>1. CASE Resized(s, r.size, r.fields)
      <3>1. m <= Capacity(get_size_level(m))
        BY <1>7, SizeLevel
      <3> QED BY <2>1, <3>1, <1>3, <1>7, <1>f DEF Resized
    <2>2. CASE r.fields = s /\ (r.size < s.size \/ (r.size = 0 /\ s.size = 0))
      BY <2>2, <1>1, <1>3, <1>f DEF Block
    <2> QED BY <2>1, <2>2 DEF SettledRight
  <1>L. PICK L \in Nat : L = Len(f.data) /\ f.size <= L
    BY <1>8, BlockType
  <1>y. PICK y \in Nat : y = f.size /\ m <= y /\ y <= L
    BY <1>8, <1>L, SizeAssumption
  <1> HIDE DEF part
  <1>9. PICK u : u = Written(f, 1, part)
    OBVIOUS
  <1>10. /\ u \in FieldsType /\ u.size = y /\ u.level = f.level /\ Len(u.data) = L
         /\ \A i \in 1 .. L :
              u.data[i] = IF i \in Part(1, part) THEN part[i - 1 + 1] ELSE f.data[i]
    <2>1. 1 + m - 1 = m /\ m <= L /\ 1 \in Nat \ {0}
      BY <1>3, <1>y
    <2> QED BY <2>1, <1>5, <1>8, <1>9, <1>L, <1>y, WrittenOutcome
  <1>11. ASSUME NEW i \in 1 .. y
         PROVE  u.data[i] = IF i <= m THEN part[i] ELSE f.data[i]
    <2>1. i \in 1 .. L /\ i - 1 + 1 = i
      BY <1>y
    <2>2. i \in Part(1, part) <=> i <= m
      BY <1>5 DEF Part
    <2> QED BY <2>1, <2>2, <1>10
  <1>12. \A i \in 1 .. m : part[i] \in Byte
    BY <1>5, ElementOfSeq
  <1>13. ASSUME NEW i \in 1 .. y PROVE u.data[i] \in Byte
    <2>1. CASE i <= m
      BY <2>1, <1>3, <1>11, <1>12
    <2>2. CASE ~ (i <= m)
      <3>1. f = s /\ y = z
        <4>1. y # m
          BY <2>2, <1>3
        <4> QED BY <4>1, <1>1, <1>8, <1>y
      <3>2. s.data[i] \in Byte
        BY <3>1, <1>1 DEF Block
      <3> QED BY <2>2, <3>1, <3>2, <1>11
    <2> QED BY <2>1, <2>2
  <1>14. Block(u)
    BY <1>8, <1>10, <1>13, <1>L, <1>y DEF Block
  <1>15. /\ Content(u) \in Seq(Byte) /\ Len(Content(u)) = y
         /\ \A i \in 1 .. y : Content(u)[i] = u.data[i]
    BY <1>10, <1>14, ContentType
  <1>16. CASE f.size = m
    <2>1. Content(u) = part
      <3>1. \A i \in 1 .. m : i <= m
        BY <1>3
      <3> QED BY <3>1, <1>5, <1>11, <1>15, <1>16, <1>y, SeqEqual
    <2> QED BY <2>1, <1>4, <1>5, <1>6, <1>9, <1>14, <1>3, <1>f DEF part
  <1>17. CASE f = s /\ m < z
    <2>1. y = z /\ old \in Seq(Byte) /\ Len(old) = z /\ \A i \in 1 .. z : old[i] = s.data[i]
      BY <1>1, <1>17, <1>y, ContentType
    <2> HIDE DEF old
    <2> DEFINE rest == SubSeq(old, m + 1, z)
    <2>2. /\ rest \in Seq(Byte) /\ Len(rest) = z - m
          /\ \A i \in 1 .. z - m : rest[i] = old[m + i]
      <3>1. \A i \in m + 1 .. z : old[i] \in Byte
        BY <2>1, ElementOfSeq, <1>3
      <3>2. /\ rest \in Seq(Byte) /\ Len(rest) = IF m + 1 <= z THEN z - (m + 1) + 1 ELSE 0
            /\ \A i \in 1 .. z - (m + 1) + 1 : rest[i] = old[m + 1 + i - 1]
        <4>1. m + 1 \in Int /\ z \in Int
          BY <1>1, <1>3
        <4> HIDE DEF rest
        <4> QED BY <3>1, <4>1, SubSeqProperties DEF rest
      <3>3. m + 1 <= z /\ z - (m + 1) + 1 = z - m /\ \A i \in 1 .. z - m : m + 1 + i - 1 = m + i
        <4>1. m < z
          BY <1>17
        <4> QED BY <4>1, <1>z
      <3> HIDE DEF rest
      <3>4. \A i \in 1 .. z - m : rest[i] = old[m + i]
        BY <3>2, <3>3
      <3> QED BY <3>2, <3>3, <3>4
    <2> HIDE DEF rest
    <2>3. /\ part \o rest \in Seq(Byte) /\ Len(part \o rest) = m + (z - m)
          /\ \A i \in 1 .. m + (z - m) :
               (part \o rest)[i] = IF i <= m THEN part[i] ELSE rest[i - m]
      BY <2>2, <1>5, ConcatProperties
    <2>4. m + (z - m) = z
      BY <1>1, <1>3
    <2>5. ASSUME NEW i \in 1 .. z PROVE Content(u)[i] = (part \o rest)[i]
      <3>1. ~ (i <= m) => i - m \in 1 .. z - m /\ m + (i - m) = i
        BY <1>z
      <3>2. ~ (i <= m) => rest[i - m] = s.data[i]
        BY <3>1, <2>1, <2>2
      <3> QED BY <3>2, <1>11, <1>15, <1>17, <2>1, <2>3, <2>4
    <2>6. Content(u) = part \o rest
      BY <2>1, <2>3, <2>4, <2>5, <1>15, SeqEqual
    <2>7. Len(part) < Len(old) /\ rest = SubSeq(old, Len(part) + 1, Len(old))
      BY <2>1, <1>5, <1>17 DEF rest
    <2> QED BY <2>6, <2>7, <1>3, <1>5, <1>6, <1>9, <1>14, <1>f DEF part, old
  <1> QED BY <1>8, <1>16, <1>17

\* O_TRUNC
LEMMA Truncated ==
  ASSUME NEW s, Block(s), NEW memory \in BOOLEAN, NEW r \in resize_file(s, 0, memory)
  PROVE  Block(r) /\ Content(r) = <<>>
  <1>1. 0 \in 0 .. MaxSize
    BY SizeAssumption
  <1>2. Resized(s, 0, r)
    BY <1>1, ResizeOutcome
  <1>3. r.size = 0 /\ 0 <= Capacity(get_size_level(0))
    BY <1>1, <1>2, SizeLevel DEF Resized
  <1>4. Block(r)
    BY <1>2, <1>3 DEF Block, Resized
  <1>5. Content(r) = <<>>
    <2>1. Content(r) \in Seq(Byte) /\ Len(Content(r)) = 0
      BY <1>3, <1>4, ContentType
    <2> QED BY <2>1, EmptySeq
  <1> QED BY <1>4, <1>5

\* read ends after n bytes or at the end of the file, and an offset beyond
\* that stays where it is.
LEMMA Reading ==
  ASSUME NEW s, Block(s), NEW o \in 0 .. MaxSize, NEW n \in 1 .. MaxRead
  PROVE  LET last == IF o < s.size THEN Smaller(o + n, s.size) ELSE o
             end == Len(Content(s))
         IN /\ last \in 0 .. MaxSize
            /\ SubSeq(s.data, o + 1, last) \in Seq(Byte)
            /\ SubSeq(s.data, o + 1, last) = SubSeq(Content(s), o + 1, last)
            /\ last = IF o + n <= end THEN o + n ELSE IF o <= end THEN end ELSE o
  <1>1. PICK z \in 0 .. MaxSize : z = s.size
    BY BlockType DEF Block
  <1>2. /\ Len(Content(s)) = z /\ \A i \in 1 .. z : Content(s)[i] = s.data[i]
        /\ \A i \in 1 .. z : s.data[i] \in Byte
    BY <1>1, ContentType DEF Block
  <1> DEFINE last == IF o < z THEN Smaller(o + n, z) ELSE o
  <1>3. o \in Nat /\ n \in Nat /\ n > 0 /\ z \in Nat /\ z <= MaxSize /\ o <= MaxSize /\ MaxSize \in Nat
    BY SizeAssumption
  <1>4. /\ last \in 0 .. MaxSize /\ last \in Int /\ o + 1 \in Int
        /\ last = IF o + n <= z THEN o + n ELSE IF o <= z THEN z ELSE o
        /\ \A i \in o + 1 .. last : i \in 1 .. z
    BY <1>3 DEF Smaller
  <1>5. \A i \in 1 .. last - (o + 1) + 1 : (o + 1) + i - 1 \in o + 1 .. last
    BY <1>3, <1>4
  <1> HIDE DEF last
  <1>6. ASSUME NEW t, \A i \in 1 .. z : t[i] = s.data[i]
        PROVE  /\ SubSeq(t, o + 1, last) \in Seq(Byte)
               /\ Len(SubSeq(t, o + 1, last)) = IF o + 1 <= last THEN last - (o + 1) + 1 ELSE 0
               /\ \A i \in 1 .. last - (o + 1) + 1 :
                    SubSeq(t, o + 1, last)[i] = s.data[(o + 1) + i - 1]
    <2>1. \A i \in o + 1 .. last : t[i] \in Byte /\ t[i] = s.data[i]
      BY <1>2, <1>4, <1>6
    <2>2. /\ SubSeq(t, o + 1, last) \in Seq(Byte)
          /\ Len(SubSeq(t, o + 1, last)) = IF o + 1 <= last THEN last - (o + 1) + 1 ELSE 0
          /\ \A i \in 1 .. last - (o + 1) + 1 :
               SubSeq(t, o + 1, last)[i] = t[(o + 1) + i - 1]
      BY <2>1, <1>4, SubSeqProperties
    <2> QED BY <2>1, <2>2, <1>5
  <1> DEFINE p == SubSeq(s.data, o + 1, last)
             q == SubSeq(Content(s), o + 1, last)
             L == last - (o + 1) + 1
  <1>7. /\ p \in Seq(Byte) /\ Len(p) = IF o + 1 <= last THEN L ELSE 0
        /\ \A i \in 1 .. L : p[i] = s.data[(o + 1) + i - 1]
    BY <1>6
  <1>8. /\ q \in Seq(Byte) /\ Len(q) = IF o + 1 <= last THEN L ELSE 0
        /\ \A i \in 1 .. L : q[i] = s.data[(o + 1) + i - 1]
    BY <1>2, <1>6
  <1> HIDE DEF p, q
  <1>9. p = q
    <2>1. \A i \in 1 .. Len(p) : i \in 1 .. L
      BY <1>3, <1>4, <1>7
    <2>2. \A i \in 1 .. Len(p) : p[i] = q[i]
      BY <2>1, <1>7, <1>8
    <2> QED BY <2>2, <1>7, <1>8, SeqEqual
  <1> QED BY <1>1, <1>2, <1>4, <1>7, <1>9 DEF p, q, last

-----------------------------------------------------------------------------
(* The inductive invariant *)

FilesRight ==
  /\ size \in [File -> 0 .. MaxSize]
  /\ size_level \in [File -> Level]
  /\ data \in [File -> Seq(Memory)]
  /\ \A f \in File : Block(Fields(f))

DescriptorsRight ==
  /\ opened \in [Descriptor -> File \cup {Free}]
  /\ flags \in [Descriptor -> Flags \cup {{}}]
  /\ offset \in [Descriptor -> 0 .. MaxSize]

IInv == FilesRight /\ DescriptorsRight /\ reply \in Seq(Byte)

\* The contents of the files, the state of FileContents
Now == [f \in File |-> SubSeq(data[f], 1, size[f])]

LEMMA NowIs == \A f \in File : Now[f] = Content(Fields(f))
  BY DEF Now, Content, Fields

\* Giving a file fields that are a block changes that file and no other.
LEMMA Assigned ==
  ASSUME FilesRight, NEW f \in File, NEW t, Block(t), Assign(f, t)
  PROVE  /\ FilesRight'
         /\ Now' = [Now EXCEPT ![f] = Content(t)]
  <1>1. /\ t.size \in 0 .. MaxSize /\ t.level \in Level /\ t.data \in Seq(Memory)
        /\ t = [size |-> t.size, level |-> t.level, data |-> t.data]
    BY DEF Block, FieldsType
  <1>2. /\ size' \in [File -> 0 .. MaxSize]
        /\ size_level' \in [File -> Level]
        /\ data' \in [File -> Seq(Memory)]
    BY <1>1 DEF FilesRight, Assign
  <1>3. \A g \in File : /\ size'[g] = IF g = f THEN t.size ELSE size[g]
                        /\ size_level'[g] = IF g = f THEN t.level ELSE size_level[g]
                        /\ data'[g] = IF g = f THEN t.data ELSE data[g]
    BY DEF FilesRight, Assign
  <1>4. \A g \in File : Fields(g)' = IF g = f THEN t ELSE Fields(g)
    BY <1>1, <1>3 DEF Fields
  <1>5. \A g \in File : Block(Fields(g)')
    BY <1>4 DEF FilesRight
  <1>6. FilesRight'
    <2>1. \A g \in File : Block(Fields(g))'
      BY <1>5 DEF Block
    <2> QED BY <1>2, <2>1 DEF FilesRight
  <1>7. Now' = [Now EXCEPT ![f] = Content(t)]
    BY <1>3 DEF Now, Content
  <1> QED BY <1>6, <1>7

LEMMA Kept ==
  ASSUME FilesRight, UNCHANGED <<size, size_level, data>>
  PROVE  FilesRight' /\ Now' = Now
  <1>1. \A g \in File : Fields(g)' = Fields(g)
    BY DEF Fields
  <1>2. \A g \in File : Block(Fields(g)')
    BY <1>1 DEF FilesRight
  <1>3. \A g \in File : Block(Fields(g))'
    BY <1>2 DEF Block
  <1> QED BY <1>3 DEF FilesRight, Now

LEMMA AtStart ==
  ASSUME Init
  PROVE  IInv /\ Now = [f \in File |-> <<>>]
  <1>1. 0 \in 0 .. MaxSize /\ 0 \in Level
    BY SizeAssumption, LevelType
  <1> DEFINE page == [i \in 1 .. PageSize |-> Garbage]
             s == [size |-> 0, level |-> 0, data |-> page]
  <1>2. page \in Seq(Memory) /\ Len(page) = PageSize
    <2>1. PICK P \in Nat : P = PageSize
      BY SizeAssumption
    <2>2. [i \in 1 .. P |-> Garbage] \in Seq(Memory)
      BY SeqDef DEF Memory
    <2>3. Len([i \in 1 .. P |-> Garbage]) = P
      OBVIOUS
    <2> QED BY <2>1, <2>2, <2>3
  <1> HIDE DEF page
  <1>3. Block(s)
    <2>1. s \in FieldsType /\ s.size = 0 /\ s.level = 0 /\ s.data = page
      BY <1>1, <1>2 DEF FieldsType
    <2>2. Capacity(0) = PageSize
      BY PagesOfAssumption, SizeAssumption DEF Capacity
    <2>3. get_size_level(0) = 0 /\ 0 <= Capacity(0)
      BY <1>1, LevelOf, SizeLevel
    <2> HIDE DEF s
    <2> QED BY <2>1, <2>2, <2>3, <1>2 DEF Block
  <1>4. \A f \in File : Fields(f) = s
    BY DEF Init, Fields, page
  <1> HIDE DEF s
  <1>5. FilesRight
    <2>1. /\ size \in [File -> 0 .. MaxSize] /\ size_level \in [File -> Level]
          /\ data \in [File -> Seq(Memory)]
      BY <1>1, <1>2 DEF Init, page
    <2> QED BY <1>3, <1>4, <2>1 DEF FilesRight
  <1>6. DescriptorsRight
    BY <1>1 DEF Init, DescriptorsRight
  <1>7. Now = [f \in File |-> <<>>]
    <2>1. \A f \in File : SubSeq(data[f], 1, size[f]) = <<>>
      BY SubSeqEmpty DEF Init
    <2> QED BY <2>1 DEF Now
  <1>8. reply \in Seq(Byte)
    BY EmptySeq DEF Init
  <1> QED BY <1>5, <1>6, <1>7, <1>8 DEF IInv

-----------------------------------------------------------------------------
(* The calls: each preserves IInv and does to Now what the call of         *)
(* FileContents does.                                                      *)

LEMMA OpenStep ==
  ASSUME IInv, NEW d \in Descriptor, NEW f \in File, NEW fl \in Flags, open(d, f, fl)
  PROVE  IInv' /\ opened[d] = Free /\ opened' = [opened EXCEPT ![d] = f]
         /\ offset' = [offset EXCEPT ![d] = 0] /\ reply' = <<>>
         /\ (Now' = Now \/ Now' = [Now EXCEPT ![f] = <<>>])
  <1>1. FilesRight /\ Block(Fields(f))
    BY DEF IInv, FilesRight
  <1>2. PICK t : Assign(f, t) /\ Block(t) /\ (t = Fields(f) \/ Content(t) = <<>>)
    <2>1. CASE "O_TRUNC" \in fl
      <3>1. PICK memory \in BOOLEAN :
              LET after == resize_file(Fields(f), 0, memory)
              IN IF after = {} THEN Assign(f, Fields(f)) ELSE \E s \in after : Assign(f, s)
        BY <2>1 DEF open
      <3>2. CASE resize_file(Fields(f), 0, memory) = {}
        BY <1>1, <3>1, <3>2
      <3>3. CASE resize_file(Fields(f), 0, memory) # {}
        <4>1. PICK r \in resize_file(Fields(f), 0, memory) : Assign(f, r)
          BY <3>1, <3>3
        <4> QED BY <1>1, <4>1, Truncated
      <3> QED BY <3>2, <3>3
    <2>2. CASE "O_TRUNC" \notin fl
      BY <1>1, <2>2 DEF open
    <2> QED BY <2>1, <2>2
  <1>3. FilesRight' /\ Now' = [Now EXCEPT ![f] = Content(t)]
    BY <1>1, <1>2, Assigned
  <1>4. Now' = Now \/ Now' = [Now EXCEPT ![f] = <<>>]
    <2>1. CASE t = Fields(f)
      <3>1. Now' = [Now EXCEPT ![f] = Now[f]]
        BY <1>3, <2>1, NowIs
      <3>2. Now = [g \in File |-> Now[g]]
        BY DEF Now
      <3> QED BY <3>1, <3>2
    <2> QED BY <2>1, <1>2, <1>3
  <1>5. DescriptorsRight' /\ reply' \in Seq(Byte)
    <2>1. <<>> \in Seq(Byte) /\ 0 \in 0 .. MaxSize
      BY EmptySeq, SizeAssumption
    <2> QED BY <2>1 DEF open, IInv, DescriptorsRight
  <1> QED BY <1>3, <1>4, <1>5 DEF open, IInv

LEMMA CloseStep ==
  ASSUME IInv, NEW d \in Descriptor, close(d)
  PROVE  IInv' /\ opened' = [opened EXCEPT ![d] = Free]
         /\ offset' = [offset EXCEPT ![d] = 0] /\ reply' = <<>> /\ Now' = Now
  <1>1. FilesRight' /\ Now' = Now
    BY Kept DEF close, IInv
  <1>2. DescriptorsRight' /\ reply' \in Seq(Byte)
    <2>1. <<>> \in Seq(Byte) /\ 0 \in 0 .. MaxSize
      BY EmptySeq, SizeAssumption
    <2> QED BY <2>1 DEF close, IInv, DescriptorsRight
  <1> QED BY <1>1, <1>2 DEF close, IInv

LEMMA ReadStep ==
  ASSUME IInv, NEW d \in Descriptor, NEW n \in 1 .. MaxRead, read(d, n)
  PROVE  /\ IInv' /\ Now' = Now /\ UNCHANGED opened /\ opened[d] # Free
         /\ LET end == Len(Now[opened[d]])
                last == IF offset[d] + n <= end THEN offset[d] + n
                        ELSE IF offset[d] <= end THEN end ELSE offset[d]
            IN /\ reply' = SubSeq(Now[opened[d]], offset[d] + 1, last)
               /\ offset' = [offset EXCEPT ![d] = last]
  <1>1. FilesRight' /\ Now' = Now
    BY Kept DEF read, IInv
  <1>2. PICK f \in File : f = opened[d] /\ opened[d] # Free
    BY DEF read, IInv, DescriptorsRight
  <1>3. PICK o \in 0 .. MaxSize : o = offset[d]
    BY DEF IInv, DescriptorsRight
  <1>4. PICK s : s = Fields(f) /\ Block(s) /\ s.size = size[f] /\ s.data = data[f]
    <2>1. Block(Fields(f))
      BY DEF IInv, FilesRight
    <2>2. Fields(f).size = size[f] /\ Fields(f).data = data[f]
      BY DEF Fields
    <2> QED BY <2>1, <2>2
  <1> DEFINE last == IF o < s.size THEN Smaller(o + n, s.size) ELSE o
             end == Len(Content(s))
  <1>5. /\ last \in 0 .. MaxSize
        /\ SubSeq(s.data, o + 1, last) \in Seq(Byte)
        /\ SubSeq(s.data, o + 1, last) = SubSeq(Content(s), o + 1, last)
        /\ last = IF o + n <= end THEN o + n ELSE IF o <= end THEN end ELSE o
    BY <1>4, Reading
  <1>6. /\ reply' = SubSeq(s.data, o + 1, last)
        /\ offset' = [offset EXCEPT ![d] = last]
        /\ UNCHANGED <<opened, flags>>
    BY <1>2, <1>3, <1>4 DEF read
  <1>7. Now[f] = Content(s)
    BY <1>4, NowIs
  <1> HIDE DEF last
  <1>8. DescriptorsRight' /\ reply' \in Seq(Byte)
    BY <1>5, <1>6 DEF IInv, DescriptorsRight
  <1> QED BY <1>1, <1>2, <1>3, <1>5, <1>6, <1>7, <1>8 DEF IInv

LEMMA AppendStep ==
  ASSUME IInv, NEW d \in Descriptor, NEW buffer \in Buffer, write_append(d, buffer)
  PROVE  /\ IInv' /\ UNCHANGED <<opened, offset>> /\ opened[d] # Free
         /\ \E part \in Contents!Prefixes(buffer) :
              Now' = [Now EXCEPT ![opened[d]] = @ \o part] /\ reply' = part
  <1>1. PICK f \in File : f = opened[d] /\ opened[d] # Free
    BY DEF write_append, IInv, DescriptorsRight
  <1>2. PICK s : s = Fields(f) /\ Block(s) /\ s.size = size[f]
    <2>1. Block(Fields(f))
      BY DEF IInv, FilesRight
    <2>2. Fields(f).size = size[f]
      BY DEF Fields
    <2> QED BY <2>1, <2>2
  <1>3. buffer \in Seq(Byte) /\ Len(buffer) \in Nat /\ s.size \in Nat
    BY <1>2, BufferAssumption, LenProperties, BlockType DEF Block
  <1>4. PICK n : Longer(s, buffer, n)
    BY DEF Longer
  <1>5. n \in 0 .. MaxSize /\ n = size[f] + Len(buffer)
    <2>1. n = s.size + Len(buffer) /\ n <= MaxSize
      BY <1>1, <1>2, <1>4 DEF Longer, write_append
    <2>2. n \in Nat
      BY <2>1, <1>3
    <2> QED BY <2>1, <2>2, <1>2, SizeAssumption
  <1>6. PICK memory \in [0 .. get_size_level(n) -> BOOLEAN] :
          LET r == Settled(s, n, memory)
              part == SubSeq(buffer, 1, r.size - s.size)
          IN /\ reply' = part
             /\ Assign(f, Written(r.fields, s.size + 1, part))
    BY <1>1, <1>2, <1>5 DEF write_append
  <1>7. PICK r : r = Settled(s, n, memory) /\ SettledRight(s, n, r)
    BY <1>2, <1>5, SettledOutcome
  <1>8. PICK part, t : /\ part = SubSeq(buffer, 1, r.size - s.size)
                       /\ t = Written(r.fields, s.size + 1, part)
    OBVIOUS
  <1>9. /\ Block(t) /\ part \in Seq(Byte) /\ part \in Contents!Prefixes(buffer)
        /\ Content(t) = Content(s) \o part
    BY <1>2, <1>3, <1>4, <1>5, <1>7, <1>8, Appended
  <1>10. reply' = part /\ Assign(f, t)
    BY <1>6, <1>7, <1>8
  <1>11. FilesRight' /\ Now' = [Now EXCEPT ![f] = Content(t)]
    BY <1>9, <1>10, Assigned DEF IInv
  <1>12. Now' = [Now EXCEPT ![f] = @ \o part]
    BY <1>2, <1>9, <1>11, NowIs
  <1>13. UNCHANGED <<opened, flags, offset>>
    BY DEF write_append
  <1>14. DescriptorsRight'
    BY <1>13 DEF IInv, DescriptorsRight
  <1> QED BY <1>1, <1>9, <1>10, <1>11, <1>12, <1>13, <1>14 DEF IInv

LEMMA WriteStep ==
  ASSUME IInv, NEW d \in Descriptor, NEW buffer \in Buffer, write(d, buffer)
  PROVE  IInv' /\ Contents!Overwrite(d, buffer)
  <1>1. PICK f \in File : f = opened[d] /\ opened[d] # Free
    BY DEF write, IInv, DescriptorsRight
  <1>2. PICK s : s = Fields(f) /\ Block(s)
    BY DEF IInv, FilesRight
  <1>3. buffer \in Seq(Byte) /\ Fits(buffer)
    BY BufferAssumption DEF Fits
  <1>4. PICK n \in 0 .. MaxSize : n = Len(buffer)
    BY <1>3, LenProperties, SizeAssumption DEF Fits
  <1>5. PICK memory \in [0 .. get_size_level(n) -> BOOLEAN] :
          LET r == Settled(s, n, memory)
              part == SubSeq(buffer, 1, r.size)
          IN reply' = part /\ Assign(f, Written(r.fields, 1, part))
    BY <1>1, <1>2, <1>4 DEF write
  <1>6. PICK r : r = Settled(s, n, memory) /\ SettledRight(s, n, r)
    BY <1>2, SettledOutcome
  <1>7. PICK part, t : part = SubSeq(buffer, 1, r.size) /\ t = Written(r.fields, 1, part)
    OBVIOUS
  <1>8. PICK old : old = Content(s)
    OBVIOUS
  <1>9. /\ Block(t) /\ part \in Seq(Byte) /\ part \in Contents!Prefixes(buffer)
        /\ \/ Content(t) = part
           \/ /\ Len(part) < Len(old)
              /\ Content(t) = part \o SubSeq(old, Len(part) + 1, Len(old))
    BY <1>2, <1>3, <1>4, <1>6, <1>7, <1>8, Overwritten
  <1>10. reply' = part /\ Assign(f, t)
    BY <1>5, <1>6, <1>7
  <1>11. FilesRight' /\ Now' = [Now EXCEPT ![f] = Content(t)] /\ Now[f] = old
    BY <1>2, <1>8, <1>9, <1>10, Assigned, NowIs DEF IInv
  <1>12. UNCHANGED <<opened, flags, offset>>
    BY DEF write
  <1>13. DescriptorsRight'
    BY <1>12 DEF IInv, DescriptorsRight
  <1>14. Content(t) \in {part} \cup (IF Len(part) < Len(old)
                                    THEN {part \o SubSeq(old, Len(part) + 1, Len(old))} ELSE {})
    BY <1>9
  <1>15. Contents!Overwrite(d, buffer)
    BY <1>1, <1>9, <1>10, <1>11, <1>12, <1>14 DEF Contents!Overwrite, Now
  <1> QED BY <1>9, <1>10, <1>11, <1>13, <1>15 DEF IInv

-----------------------------------------------------------------------------
(* The theorems *)

ContentsVars == <<Now, opened, offset, reply>>

LEMMA NextStep ==
  ASSUME IInv, [Next]_vars
  PROVE  IInv' /\ (Contents!Next \/ UNCHANGED ContentsVars)
  <1>1. ASSUME NEW d \in Descriptor, NEW f \in File, NEW fl \in Flags, open(d, f, fl)
        PROVE  IInv' /\ Contents!Next
    <2>1. Contents!Open(d, f)
      BY <1>1, OpenStep DEF Contents!Open, Now
    <2> QED BY <1>1, <2>1, OpenStep DEF Contents!Next
  <1>2. ASSUME NEW d \in Descriptor, close(d)
        PROVE  IInv' /\ Contents!Next
    <2>1. Contents!Close(d)
      BY <1>2, CloseStep DEF Contents!Close, Now
    <2> QED BY <1>2, <2>1, CloseStep DEF Contents!Next
  <1>3. ASSUME NEW d \in Descriptor, NEW n \in 1 .. MaxRead, read(d, n)
        PROVE  IInv' /\ Contents!Next
    <2>1. Contents!Read(d, n)
      BY <1>3, ReadStep DEF Contents!Read, Now
    <2> QED BY <1>3, <2>1, ReadStep DEF Contents!Next
  <1>4. ASSUME NEW d \in Descriptor, NEW b \in Buffer, write_append(d, b)
        PROVE  IInv' /\ Contents!Next
    <2>1. Contents!AppendTo(d, b)
      BY <1>4, AppendStep DEF Contents!AppendTo, Now
    <2> QED BY <1>4, <2>1, AppendStep DEF Contents!Next
  <1>5. ASSUME NEW d \in Descriptor, NEW b \in Buffer, write(d, b)
        PROVE  IInv' /\ Contents!Next
    BY <1>5, WriteStep DEF Contents!Next
  <1>6. CASE UNCHANGED vars
    <2>1. FilesRight' /\ Now' = Now
      BY <1>6, Kept DEF IInv, vars
    <2>2. DescriptorsRight' /\ reply' \in Seq(Byte)
      BY <1>6 DEF IInv, DescriptorsRight, vars
    <2> QED BY <1>6, <2>1, <2>2 DEF IInv, vars, ContentsVars
  <1> QED BY <1>1, <1>2, <1>3, <1>4, <1>5, <1>6 DEF Next

LEMMA Invariance == Spec => []IInv
  <1>1. Init => IInv
    BY AtStart
  <1>2. IInv /\ [Next]_vars => IInv'
    BY NextStep
  <1> QED BY <1>1, <1>2, PTL DEF Spec

\* The calls of file_system.c keep every field within its bounds, and what
\* read hands out has been written by somebody.
THEOREM TypeCorrect == Spec => []TypeOK
  <1>1. IInv => TypeOK
    BY DEF IInv, FilesRight, DescriptorsRight, TypeOK, Memory
  <1> QED BY <1>1, Invariance, PTL

\* resize_file and the loop of write leave every file in the smallest block
\* that holds it, whichever page requests fail.
THEOREM BlocksFit == Spec => []BlockFits
  <1>1. IInv => BlockFits
    <2> SUFFICES ASSUME IInv, NEW f \in File
                 PROVE  /\ Len(data[f]) = Capacity(size_level[f])
                        /\ size[f] <= Capacity(size_level[f])
                        /\ size_level[f] = get_size_level(size[f])
      BY DEF BlockFits
    <2>1. Block(Fields(f))
      BY DEF IInv, FilesRight
    <2>2. /\ Fields(f).size = size[f] /\ Fields(f).level = size_level[f]
          /\ Fields(f).data = data[f]
      BY DEF Fields
    <2> QED BY <2>1, <2>2 DEF Block
  <1> QED BY <1>1, Invariance, PTL

\* Whatever the blocks files are in and the page requests that fail, open,
\* close, read and write do to the bytes of files what FileContents says.
THEOREM KeepsContents == Spec => ImplementsContents
  <1>1. Init => Contents!Init
    BY AtStart DEF Init, Contents!Init, Now
  <1>2. IInv /\ [Next]_vars => [Contents!Next]_ContentsVars
    BY NextStep
  <1>3. ContentsVars = <<[f \in File |-> SubSeq(data[f], 1, size[f])], opened, offset, reply>>
    BY DEF ContentsVars, Now
  <1>4. [Contents!Next]_ContentsVars
          => [Contents!Next]_<<[f \in File |-> SubSeq(data[f], 1, size[f])], opened, offset, reply>>
    BY DEF ContentsVars, Now
  <1> QED BY <1>1, <1>2, <1>4, Invariance, PTL DEF Spec, ImplementsContents, Contents!Spec

=============================================================================
